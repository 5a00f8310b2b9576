------------------------------- MODULE MCServices -------------------------------
(****************************************************************************)
(* Small instances of the front ends that serve many clients, and of the    *)
(* stores that sessions and people share.  As in MCSession, each part is a  *)
(* scene: a behaviour picks one and stays in it, and the slot variables are *)
(* that part's variables.                                                   *)
(****************************************************************************)
EXTENDS Integers, Sequences, FiniteSets

CONSTANTS
    Requests, Steered, MaxChunks, FolderMayGo,                 \* the Web runs
    Streams, Pushed, MaxConcurrent, MaxFinished, Window, MaxLines,     \* the RPC streams
    ChatMessages, Chatters, Channels, SentBy, SentIn,          \* the chat
    MaxPerWindow, Minute, MaxTracked, MaxClock,
    Generations, MaxGenerations,                               \* the drafts
    ScheduleIds, Tickers, MaxDue, MaxUnwritten,                \* the schedules
    Prompts, ShellPrompts, MaxAsks, MaxDecides,                \* the graph jobs
    PluginNames, Packs, Invalid, Installers, MaxOps,           \* the plugins
    Users, Proposals, Author, Actors, UserOf, Clash, MaxCalls, \* the team
    Savers, SavedPaths, SavedContents, MaxSaves,               \* the checkpoints
    Run, Job, Executor, Judged, Restarts, MaxRecords,          \* the records
    Parts, JobsEach, Shapes, UserMoves,                        \* a composite node
    FileCount, Backups, Inside, MaxMigrations,                 \* the migrations
    Deltas, Editors, MaxRev, MaxEdits                          \* the profiles

VARIABLES scene, v1, v2, v3, v4, v5, v6, v7, v8, v9, v10

(* The slots a scene leaves empty. *)
S10 == <<v10>>
S9 == <<v9, S10>>
S8 == <<v8, S9>>
S7 == <<v7, S8>>
S6 == <<v6, S7>>
S5 == <<v5, S6>>
S4 == <<v4, S5>>
vars == <<scene, v1, v2, v3, S4>>

Off == "off"
Off10 == v10 = Off
Off9 == v9 = Off /\ Off10
Off8 == v8 = Off /\ Off9
Off7 == v7 = Off /\ Off8
Off6 == v6 = Off /\ Off7
Off5 == v5 = Off /\ Off6
Off4 == v4 = Off /\ Off5

-----------------------------------------------------------------------------
Web == INSTANCE WebTurns WITH
    handler <- v1, turnLock <- v2, exists <- v3, run <- v4, ask <- v5, events <- v6,
    answers <- v7, reader <- v8, said <- v9

Rpc == INSTANCE RpcStreams WITH
    known <- v1, leader <- v2, child <- v3, cancel <- v4, lines <- v5, seq <- v6, pumped <- v7,
    reaper <- v8, result <- v9, page <- v10

Chat == INSTANCE GatewayRouter WITH
    Messages <- ChatMessages, Users <- Chatters, UserOf <- SentBy, ChannelOf <- SentIn,
    Window <- Minute,
    clock <- v1, stamps <- v2, msg <- v3, waiters <- v4, sessions <- v5, closing <- v6,
    admitted <- v7

Drafts == INSTANCE GraphDrafts WITH
    Jobs <- Generations, MaxJobs <- MaxGenerations,
    table <- v1, status <- v2, handle <- v3, thread <- v4, sent <- v5, model <- v6

Schedules == INSTANCE WebSchedules WITH
    Schedules <- ScheduleIds,
    sched <- v1, ticking <- v2, snap <- v3, elapsed <- v4, runs <- v5, unwritten <- v6

Jobs == INSTANCE GraphJobs WITH
    Shell <- ShellPrompts,
    jobState <- v1, grants <- v2, waiter <- v3, asks <- v4, uses <- v5, told <- v6

Plugins == INSTANCE PluginStore WITH
    Names <- PluginNames, Processes <- Installers,
    tree <- v1, entry <- v2, op <- v3, given <- v4, replaced <- v5, ops <- v6

Team == INSTANCE TeamMemory WITH
    remote <- v1, clone <- v2, call <- v3, calls <- v4, stranded <- v5

Saves == INSTANCE Checkpoints WITH
    Sessions <- Savers, Paths <- SavedPaths, Contents <- SavedContents, Absent <- "absent",
    Dir <- "dir", MaxLog <- MaxSaves,
    files <- v1, log <- v2, tool <- v3, restore <- v4, before <- v5, foreign <- v6, missed <- v7,
    late <- v8

Records == INSTANCE GraphRecords WITH
    records <- v1, exec <- v2, ran <- v3

Nested == INSTANCE GraphNested WITH
    N <- Parts, J <- JobsEach,
    shape <- v1, root <- v2, node <- v3, nodeTask <- v4, item <- v5, st <- v6, job <- v7,
    task <- v8, recorded <- v9

(* Writers that all take the lock.                                          *)
Shelf == INSTANCE WorkbenchStore WITH
    Client <- {"p", "q"}, NoClient <- "none", Key <- {"k1"}, MaxItems <- 3,
    Kinds <- {"append", "update"}, StartStates <- {"absent", "corrupt"}, MaxStamp <- 2,
    file <- v1, aside <- v2, stamp <- v3, holder <- v4, pc <- v5, op <- v6, seen <- v7

(* config.toml and the profiles; migrations and rollbacks take turns.       *)
Migration == INSTANCE StateMigration WITH
    F <- FileCount, Names <- Backups, MaxOps <- MaxMigrations,
    was <- v1, file <- v2, marker <- v3, backup <- v4, history <- v5, op <- v6, ops <- v7

(* Processes over one profile and one inbox.                                *)
Profiles == INSTANCE ProfileDeltas WITH
    Processes <- Editors, MaxCalls <- MaxEdits,
    profile <- v1, copies <- v2, inbox <- v3, target <- v4, loaded <- v5, call <- v6, calls <- v7

-----------------------------------------------------------------------------
(* What the constants may be.  Nothing keeps two processes apart that       *)
(* change the plugins, or that work in one clone: there is one of each (two  *)
(* in a clone are the matter of MCTeamMemory).                              *)
ASSUME WebAssumption == Steered \subseteq Requests
ASSUME RpcAssumption == Window \in Nat
ASSUME ChatAssumption ==
    /\ SentBy \in [ChatMessages -> Chatters] /\ Chat!IsFiniteSet(Chatters)
    /\ MaxPerWindow \in Nat /\ Minute \in Nat /\ MaxTracked \in Nat
ASSUME SavesAssumption ==
    "none" \notin Savers /\ {"absent", "dir", Saves!Untouched} \cap SavedContents = {}
ASSUME PluginAssumption == MaxOps \in Nat /\ \A p, q \in Installers : p = q
ASSUME TeamAssumption ==
    /\ Team!Main \notin Proposals /\ MaxCalls \in Nat
    /\ Author \in [Proposals -> Users] /\ UserOf \in [Actors -> Users]
    /\ \A a, b \in Actors : UserOf[a] = UserOf[b] => a = b
ASSUME NestedAssumption ==
    /\ Parts \in Nat \ {0} /\ JobsEach \in Nat /\ Shapes \subseteq Nested!ShapeSet
    /\ UserMoves \subseteq {"waiting", "running", "cancelled"}
ASSUME MigrationAssumption ==
    FileCount \in Nat /\ Backups # {} /\ Inside \subseteq SUBSET (1..FileCount)
ASSUME ProfileAssumption ==
    MaxRev \in Nat \ {0} /\ Profiles!Edit \notin Deltas /\ "none" \notin Deltas

(* The chat of the run: m1 and m2 are ann's, in different channels, and the *)
(* table has room for one user.                                             *)
SmallSentBy == [m \in ChatMessages |-> IF m = "m3" THEN "bob" ELSE "ann"]
SmallSentIn == [m \in ChatMessages |-> IF m = "m2" THEN "c2" ELSE "c1"]

(* The team of the run: two members, and two proposals that change the same *)
(* node.                                                                    *)
SmallAuthor == [p \in Proposals |-> IF p = "p1" THEN "ann" ELSE "bob"]
SmallUserOf == [a \in Actors |-> IF a = "a1" THEN "ann" ELSE "bob"]
SmallClash == {<<"p1", "p2">>, <<"p2", "p1">>}

(* Its composites: a strict map of two items side by side, one that goes on *)
(* after failures, one resumed and one item at a time, a subgraph, a loop.  *)
StrictMap ==
    [kind |-> "map", items |-> 2, parallel |-> 2, width |-> 1, strict |-> TRUE, halt |-> TRUE,
     timed |-> TRUE, attempts |-> 2, reused |-> {}]
SmallShapes ==
    {[StrictMap EXCEPT !.attempts = 1],
     [StrictMap EXCEPT !.reused = {<<1, 2>>, <<2, 2>>}],
     [StrictMap EXCEPT !.strict = FALSE, !.attempts = 1],
     [StrictMap EXCEPT !.parallel = 1, !.halt = FALSE, !.reused = {<<1, 1>>}],
     [StrictMap EXCEPT !.kind = "subgraph", !.width = 2],
     [StrictMap EXCEPT !.kind = "loop", !.halt = FALSE, !.reused = {<<1, 2>>}]}

-----------------------------------------------------------------------------
Init ==
    \/ scene = "web"       /\ Web!WebInit /\ Off10
    \/ scene = "rpc"       /\ Rpc!RpcInit
    \/ scene = "chat"      /\ Chat!Init /\ Off8
    \/ scene = "drafts"    /\ Drafts!DraftInit /\ Off7
    \/ scene = "schedules" /\ Schedules!SchedInit /\ Off7
    \/ scene = "jobs"      /\ Jobs!JobInit /\ Off7
    \/ scene = "plugins"   /\ Plugins!Init /\ Off7
    \/ scene = "team"      /\ Team!Init /\ Off6
    \/ scene = "saves"     /\ Saves!Init /\ Off9
    \/ scene = "records"   /\ Records!Init /\ Off4
    \/ scene = "shelf"     /\ Shelf!Init /\ Off8
    \/ scene = "nested"    /\ Nested!Init /\ Off10
    \/ scene = "migration" /\ Migration!Init /\ Off8
    \/ scene = "profiles"  /\ Profiles!Init /\ Off8

WebScene       == scene = "web"       /\ Web!WebNext /\ UNCHANGED <<scene, S10>>
RpcScene       == scene = "rpc"       /\ Rpc!RpcNext /\ UNCHANGED scene
ChatScene      == scene = "chat"      /\ Chat!Next /\ UNCHANGED <<scene, S8>>
DraftsScene    == scene = "drafts"    /\ Drafts!DraftNext /\ UNCHANGED <<scene, S7>>
SchedulesScene == scene = "schedules" /\ Schedules!SchedNext /\ UNCHANGED <<scene, S7>>
JobsScene      == scene = "jobs"      /\ Jobs!JobNext /\ UNCHANGED <<scene, S7>>
PluginsScene   == scene = "plugins"   /\ Plugins!Next /\ UNCHANGED <<scene, S7>>
TeamScene      == scene = "team"      /\ Team!Next /\ UNCHANGED <<scene, S6>>
SavesScene     == scene = "saves"     /\ Saves!Next /\ UNCHANGED <<scene, S9>>
ShelfScene     == scene = "shelf"     /\ Shelf!Next /\ UNCHANGED <<scene, S8>>
NestedScene    == scene = "nested"    /\ Nested!Next /\ UNCHANGED <<scene, S10>>
RecordsScene   == scene = "records"   /\ Records!Next /\ UNCHANGED <<scene, S4>>

MigrationScene == scene = "migration" /\ Migration!Next /\ UNCHANGED <<scene, S8>>
ProfilesScene  == scene = "profiles"  /\ Profiles!Next /\ UNCHANGED <<scene, S8>>

Next ==
    \/ WebScene \/ RpcScene \/ ChatScene \/ DraftsScene \/ SchedulesScene
    \/ JobsScene \/ PluginsScene \/ TeamScene \/ SavesScene \/ RecordsScene \/ ShelfScene
    \/ NestedScene \/ MigrationScene \/ ProfilesScene

Spec == Init /\ [][Next]_vars

-----------------------------------------------------------------------------
(* A tool of a web run that needs an approval goes on only when there is    *)
(* one, and a prompt of a graph no more often than it was approved.         *)
UsesAreApproved ==
    /\ scene = "web" => Web!ToolNeedsYes
    /\ scene = "jobs" => Jobs!EveryUseIsApproved

(* A stream of a web run that ends was sent every event the run's own thread *)
(* wrote; a client of an RPC stream that polls has every event up to its    *)
(* number, or was told that it has not, and one that reads server-sent      *)
(* events has them unless it fell behind by more than the window.           *)
ReadersMissNothing ==
    /\ scene = "web" => Web!StreamIsWhole
    /\ scene = "rpc" => Rpc!PagesAreWhole

(* No user gets more messages admitted in a window than the rate allows.    *)
RateIsKept == scene = "chat" => Chat!RateIsKept

(* A generation the user cancelled is never shown as succeeded.             *)
CancelledNeverSucceeds == [][scene = "drafts" => Drafts!StaysUnsuccessful]_vars

(* A schedule starts at most one run for every time it comes due, and one   *)
(* more for every start whose write was lost.                               *)
OneRunPerInterval == scene = "schedules" => Schedules!OneRunPerInterval

(* What a person agreed to is what takes effect: what is enabled or granted *)
(* is the pack it was given to, and a delta of a profile is applied to the  *)
(* document it was made from.                                               *)
ReviewsStillFit ==
    /\ scene = "plugins" => Plugins!EntryIsForThisPack
    /\ scene = "profiles" => Profiles!AppliedToItsTarget

(* Only what a teammate accepted, or its author who said so, is on the      *)
(* team's main branch, but for nodes a broken call left staged.             *)
MainIsReviewed == scene = "team" => Team!MainIsReviewed

(* The restoration of a session puts back what its tools changed, where a   *)
(* snapshot was taken in time and nothing was written meanwhile.            *)
Restored == scene = "saves" => Saves!Restored

(* A saved record claims only what executions of its own run finished, and  *)
(* success only for ends of the jobs that its graph accepts.                *)
RecordsClaimRealWork == scene = "records" => Records!RecordsClaimRealWork

(* An attempt of a composite node that is over has left nothing working.    *)
NothingRunsOn == scene = "nested" => Nested!NothingRunsOn

(* A composite node that succeeds, in a run nobody cancelled, lost no job:  *)
(* none failed, and none is left pending or working.                        *)
NoJobIsLost == scene = "nested" => Nested!NoJobIsLost

(* What a file was before any migration is in place or in a readable backup, *)
(* unless a backup was told to leave it out.                                *)
OriginalsAreSafe == scene = "migration" => Migration!OriginalsAreSafe

(* Concurrent and crashing calls that take the lock act as if each were one *)
(* step: the collection implements the abstract one.                        *)
LockedCallsAreAtomic == [][scene = "shelf" => Shelf!LockedCallsAreAtomic]_vars

=============================================================================
