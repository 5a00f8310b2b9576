---------------------------- MODULE TeamMemory ----------------------------
(***************************************************************************)
(* The shared memory graph of a team (team_memory.py): a Git repository    *)
(* whose main branch should only ever receive proposals that a teammate    *)
(* accepted.  Every member works in one local clone; a member's terminal   *)
(* and the member's Web UI are two processes on that same clone, and       *)
(* nothing but Git's own per-command lock keeps them apart.                *)
(*                                                                         *)
(* A branch is the set of commits it reaches, so that a push is a fast     *)
(* forward iff the remote's set is included in the local one.  A Git       *)
(* command is one step; propose and decide are several.  Any command may   *)
(* fail, and a process may be killed at any step, or leave decide by a     *)
(* command's timeout, which nothing there catches.                         *)
(***************************************************************************)
EXTENDS Integers, FiniteSets

CONSTANTS Users, Proposals,
          Author,    \* [Proposals -> Users]: who proposes it
          Actors,    \* processes
          UserOf,    \* [Actors -> Users]: whose clone a process works in
          Clash,     \* pairs of proposals that change the same node
          MaxCalls   \* bound: calls per process

VARIABLES remote,    \* [main, branch]: the shared repository
          clone,     \* [Users -> ...]: each member's clone
          call,      \* [Actors -> ...]: the call a process is in
          calls,     \* [Actors -> 0..MaxCalls]: calls begun
          stranded   \* history: the proposals of nodes that a call which
                     \* failed or was killed left staged

tmVars == <<remote, clone, call, calls, stranded>>

NoRef == {[kind |-> "none", p |-> "none", by |-> "none", n |-> 0]}
Main == "main"
NodesOf(p) == [kind |-> "nodes", p |-> p, by |-> Author[p], n |-> 0]
MergeOf(p, a) == [kind |-> "merge", p |-> p, by |-> a, n |-> calls[a]]
ReviewOf(p, a, d) == [kind |-> d, p |-> p, by |-> a, n |-> calls[a]]
(* "self" is an accept with --allow-self-review: the record does not say so. *)
Decisions == {"accept", "self", "reject"}
Commits == [kind : {"nodes"}, p : Proposals, by : Users, n : {0}]
           \union [kind : {"merge"} \union Decisions, p : Proposals,
                   by : Actors, n : 1..MaxCalls]

Idle == [at |-> "idle", p |-> "none", d |-> "none", said |-> "none"]
Steps == {"idle", "checkedOut", "committed", "shown", "onMain", "merged",
          "recorded", "pushed"}

TypeOK ==
    /\ remote.main \subseteq Commits
    /\ \A p \in Proposals : remote.branch[p] = NoRef \/ remote.branch[p] \subseteq Commits
    /\ \A u \in Users :
          /\ clone[u].head \in {Main} \union Proposals
          /\ clone[u].track \subseteq Commits /\ clone[u].main \subseteq Commits
          /\ clone[u].staged \subseteq Commits
    /\ \A a \in Actors : call[a].at \in Steps
    /\ calls \in [Actors -> 0..MaxCalls]

Init ==
    /\ remote = [main |-> {}, branch |-> [p \in Proposals |-> NoRef]]
    /\ clone = [u \in Users |->
                  [head |-> Main, main |-> {}, branch |-> [p \in Proposals |-> {}],
                   track |-> {}, seen |-> [p \in Proposals |-> NoRef], staged |-> {}]]
    /\ call = [a \in Actors |-> Idle]
    /\ calls = [a \in Actors |-> 0]
    /\ stranded = {}

-----------------------------------------------------------------------------
(* What the Git commands do to a clone.                                    *)

\* git fetch: the tracked refs; only --prune forgets a branch that is gone.
Fetched(c) ==
    [c EXCEPT !.track = remote.main,
              !.seen = [p \in Proposals |-> IF remote.branch[p] = NoRef THEN c.seen[p]
                                            ELSE remote.branch[p]]]
Pruned(c) == [c EXCEPT !.track = remote.main, !.seen = remote.branch]

\* git checkout -B <branch> origin/main: staged files come along.
OnMain(c) == [c EXCEPT !.head = Main, !.main = c.track]
OnBranch(c, p) == [c EXCEPT !.head = p, !.branch[p] = c.track]

HeadOf(c) == IF c.head = Main THEN c.main ELSE c.branch[c.head]
WithHead(c, commits) ==
    IF c.head = Main THEN [c EXCEPT !.main = commits]
    ELSE [c EXCEPT !.branch[c.head] = commits]

\* git commit takes everything that is staged, on whatever branch is out.
Commit(c, commits) ==
    [WithHead(c, HeadOf(c) \union commits \union c.staged) EXCEPT !.staged = {}]

\* git reset --hard origin/main.
HardReset(c) == [WithHead(c, c.track) EXCEPT !.staged = {}]

NodesIn(commits) == {x.p : x \in {y \in commits : y.kind = "nodes"}}

Conflicts(c, p) ==
    \E x \in HeadOf(c) \ c.seen[p] : x.kind = "nodes" /\ <<x.p, p>> \in Clash

-----------------------------------------------------------------------------
Ends(a, what) == call' = [call EXCEPT ![a] = [Idle EXCEPT !.p = call[a].p, !.said = what]]
Goes(a, at) == call' = [call EXCEPT ![a].at = at]
In(a, at) == call[a].at = at
Begins(a) == In(a, "idle") /\ calls[a] < MaxCalls /\ calls' = [calls EXCEPT ![a] = @ + 1]
CloneBecomes(a, c) == clone' = [clone EXCEPT ![UserOf[a]] = c]
\* A call ends badly and leaves its clone as c, with what is staged there.
Breaks(a, c) ==
    /\ CloneBecomes(a, c) /\ Ends(a, "failed")
    /\ stranded' = stranded \union NodesIn(c.staged)
Killed(a) == ~In(a, "idle") /\ Breaks(a, clone[UserOf[a]]) /\ UNCHANGED <<remote, calls>>

(* propose: what an earlier call left staged comes along to the branch, or *)
(* stops the checkout.                                                     *)
Propose(a, p) ==
    /\ Begins(a)
    /\ Author[p] = UserOf[a] /\ remote.branch[p] = NoRef /\ NodesOf(p) \notin remote.main
    /\ \A b \in Actors : call[b].at \in {"checkedOut", "committed"} => call[b].p # p
    /\ LET f == Fetched(clone[UserOf[a]])
           c == OnBranch(f, p)
       IN \/ /\ CloneBecomes(a, [c EXCEPT !.staged = @ \union {NodesOf(p)}])
             /\ call' = [call EXCEPT ![a] = [at |-> "checkedOut", p |-> p, d |-> "propose",
                                             said |-> "none"]]
             /\ UNCHANGED stranded
          \/ f.staged # {} /\ Breaks(a, f)
    /\ UNCHANGED remote

\* The commit; when it fails, the finally clause checks main out, if it can,
\* and the nodes stay staged.
ProposeCommits(a) ==
    /\ In(a, "checkedOut")
    /\ LET c == clone[UserOf[a]]
       IN \/ /\ c.staged # {}
             /\ CloneBecomes(a, Commit(c, {})) /\ Goes(a, "committed") /\ UNCHANGED stranded
          \/ \E h \in {Main, c.head} : Breaks(a, [c EXCEPT !.head = h])
    /\ UNCHANGED <<remote, calls>>

\* The push of the branch, whose answer may be lost, and the checkout of main.
ProposePushes(a) ==
    /\ In(a, "committed")
    /\ LET c == clone[UserOf[a]]
           p == call[a].p
           landed == [remote EXCEPT !.branch[p] = c.branch[p]]
       IN \/ /\ remote' = landed
             /\ CloneBecomes(a, [c EXCEPT !.head = Main, !.seen[p] = c.branch[p]])
             /\ Ends(a, "ok") /\ UNCHANGED stranded
          \/ remote' \in {remote, landed} /\ Breaks(a, [c EXCEPT !.head = Main])
    /\ UNCHANGED calls

(* decide *)
\* The checks of show(): nothing but nodes, and all of them by one author.
ChecksPass(c, p) == \A x \in c.seen[p] \ c.track : x.kind = "nodes" /\ Author[x.p] = Author[p]
\* A slip: the author may accept.
MayDecideOwn(u, c, p, d) == d = "reject" \/ ChecksPass(c, p)
MayDecide(u, c, p, d) ==
    d = "reject" \/ ((u # Author[p] \/ d = "self") /\ ChecksPass(c, p))

Show(a, p, d) ==
    /\ Begins(a)
    /\ remote.branch[p] # NoRef
    /\ LET c == Pruned(clone[UserOf[a]])
       IN /\ CloneBecomes(a, c)
          /\ IF MayDecide(UserOf[a], c, p, d)
             THEN call' = [call EXCEPT ![a] = [at |-> "shown", p |-> p, d |-> d,
                                               said |-> "none"]]
             ELSE Ends(a, "failed")
    /\ UNCHANGED <<remote, stranded>>

DecideChecksOut(a) ==
    /\ In(a, "shown")
    /\ LET f == Fetched(clone[UserOf[a]])
       IN \/ /\ CloneBecomes(a, OnMain(f)) /\ UNCHANGED stranded
             /\ Goes(a, IF call[a].d = "reject" THEN "merged" ELSE "onMain")
          \/ f.staged # {} /\ Breaks(a, f)
    /\ UNCHANGED <<remote, calls>>

\* git merge --no-ff: a branch already reached is "Already up to date".  One
\* that is killed may leave what it merged staged.
Merge(a) ==
    /\ In(a, "onMain")
    /\ LET c == clone[UserOf[a]]
           p == call[a].p
           fails == c.seen[p] = NoRef \/ Conflicts(c, p) \/ c.staged # {}
       IN \/ /\ fails /\ Breaks(a, HardReset(c))
          \/ /\ ~fails /\ Goes(a, "merged") /\ UNCHANGED stranded
             /\ CloneBecomes(a, IF c.seen[p] \subseteq HeadOf(c) THEN c
                                ELSE WithHead(c, HeadOf(c) \union c.seen[p]
                                                   \union {MergeOf(p, a)}))
          \/ ~fails /\ Breaks(a, [c EXCEPT !.staged = {x \in c.seen[p] : x.kind = "nodes"}])
    /\ UNCHANGED <<remote, calls>>

\* The review is appended and committed; killed in between, it stays staged.
Record(a) ==
    /\ In(a, "merged")
    /\ LET c == clone[UserOf[a]]
           review == ReviewOf(call[a].p, a, call[a].d)
       IN \/ CloneBecomes(a, Commit(c, {review})) /\ Goes(a, "recorded") /\ UNCHANGED stranded
          \/ Breaks(a, HardReset(c))
          \/ Breaks(a, [c EXCEPT !.staged = @ \union {review}])
    /\ UNCHANGED <<remote, calls>>

\* git push origin main: refused unless a fast forward.  The answer of one
\* that landed may be lost, and after a timeout nothing is reset.
PushMain(a) ==
    /\ In(a, "recorded")
    /\ LET c == clone[UserOf[a]]
           lands == remote.main \subseteq c.main
           landed == [remote EXCEPT !.main = IF lands THEN c.main ELSE @]
       IN \/ /\ lands /\ remote' = landed /\ UNCHANGED stranded
             /\ CloneBecomes(a, [c EXCEPT !.track = c.main]) /\ Goes(a, "pushed")
          \/ /\ remote' \in {remote, landed}
             /\ Breaks(a, HardReset(c)) \/ Breaks(a, c)
    /\ UNCHANGED calls

\* The branch is deleted, unless that fails: its outcome is not looked at.
DeleteBranch(a) ==
    /\ In(a, "pushed")
    /\ \/ remote' = [remote EXCEPT !.branch[call[a].p] = NoRef]
       \/ UNCHANGED remote
    /\ CloneBecomes(a, [Pruned(clone[UserOf[a]]) EXCEPT !.seen = remote'.branch])
    /\ Ends(a, call[a].d)
    /\ UNCHANGED <<calls, stranded>>

(* sync: main is fast forwarded, or left alone when that is impossible.    *)
Sync(a) ==
    /\ Begins(a)
    /\ LET f == Pruned(clone[UserOf[a]])
           c == [f EXCEPT !.head = Main]
       IN \/ CloneBecomes(a, IF c.main \subseteq c.track THEN [c EXCEPT !.main = c.track] ELSE c)
          \/ f.staged # {} /\ CloneBecomes(a, f)
    /\ UNCHANGED <<remote, call, stranded>>

-----------------------------------------------------------------------------
Step(a) ==
    \/ \E p \in Proposals : Propose(a, p)
    \/ \E p \in Proposals, d \in Decisions : Show(a, p, d)
    \/ Sync(a)
    \/ ProposeCommits(a) \/ ProposePushes(a)
    \/ DecideChecksOut(a) \/ Merge(a) \/ Record(a) \/ PushMain(a) \/ DeleteBranch(a)
    \/ Killed(a)

Done == (\A a \in Actors : In(a, "idle") /\ calls[a] = MaxCalls) /\ UNCHANGED tmVars

Next == (\E a \in Actors : Step(a)) \/ Done

Spec == Init /\ [][Next]_tmVars

-----------------------------------------------------------------------------
Accepted(p) == {x \in remote.main : x.kind \in {"accept", "self"} /\ x.p = p}
Approves(y, p) ==
    /\ y.kind \in {"accept", "self"} /\ y.p = p
    /\ y.kind = "self" \/ UserOf[y.by] # Author[p]

(* Nothing reaches the team's main branch but the nodes of a proposal that *)
(* somebody other than its author accepted, or the author who said         *)
(* --allow-self-review, and with the record of that review; but for nodes  *)
(* that a failed or killed call left staged in a clone.  An accept that    *)
(* was reported as done is there.                                          *)
MainIsReviewed ==
    /\ \A x \in remote.main : x.kind = "nodes" =>
          x.p \in stranded \/ \E y \in Accepted(x.p) : Approves(y, x.p)
    /\ \A a \in Actors : call[a].said \in {"accept", "self"} => Accepted(call[a].p) # {}

(* What the code does not keep: the same without the exception.  The next  *)
(* review that the process records takes along what was left staged.       *)
NothingUnreviewed ==
    \A x \in remote.main : x.kind = "nodes" => \E y \in Accepted(x.p) : Approves(y, x.p)

(* Why, where every clone has one process: a set of commits that a command *)
(* leaves behind holds the review of every node in it, but for the one     *)
(* proposal a branch is for or a merge is about, and for what is stranded; *)
(* and while a process has a clone, no nodes are staged in it but those it *)
(* staged and the stranded.                                                *)
ReviewedBut(commits, P) ==
    \A x \in commits : x.kind = "nodes" /\ x.p \notin P =>
       \E y \in commits : Approves(y, x.p)
CloneType ==
    [head : {Main} \cup Proposals, main : SUBSET Commits,
     branch : [Proposals -> SUBSET Commits], track : SUBSET Commits,
     seen : [Proposals -> {NoRef} \cup SUBSET Commits], staged : SUBSET Commits]
CallType ==
    [at : Steps, p : Proposals \cup {"none"}, d : {"none", "propose"} \cup Decisions,
     said : {"none", "ok", "failed"} \cup Decisions]
CloneInv(u) ==
    /\ ReviewedBut(clone[u].track, stranded)
    /\ \A p \in Proposals : clone[u].seen[p] # NoRef => ReviewedBut(clone[u].seen[p], stranded \cup {p})
CallInv(a) ==
    LET c == clone[UserOf[a]]
        p == call[a].p
        d == call[a].d
    IN  /\ call[a].at # "idle" => p \in Proposals /\ d \in {"propose"} \cup Decisions
        /\ call[a].at = "checkedOut" =>
              /\ c.head = p /\ ReviewedBut(c.branch[p], stranded \cup {p})
              /\ NodesIn(c.staged) \subseteq stranded \cup {p}
        /\ call[a].at # "checkedOut" => NodesIn(c.staged) \subseteq stranded
        /\ call[a].at = "committed" => ReviewedBut(c.branch[p], stranded \cup {p})
        /\ call[a].at \in {"shown", "onMain", "merged", "recorded", "pushed"} =>
              d \in {"reject", "self"} \/ (d = "accept" /\ UserOf[a] # Author[p])
        /\ call[a].at \in {"onMain", "merged", "recorded"} => c.head = Main
        /\ call[a].at = "onMain" => d # "reject" /\ ReviewedBut(c.main, stranded)
        /\ call[a].at = "merged" =>
              ReviewedBut(c.main, stranded \cup (IF d = "reject" THEN {} ELSE {p}))
        /\ call[a].at = "recorded" =>
              /\ ReviewedBut(c.main, stranded)
              /\ d # "reject" => \E y \in c.main : y.kind \in {"accept", "self"} /\ y.p = p
        /\ call[a].at = "pushed" /\ d # "reject" => Accepted(p) # {}
        /\ call[a].said \in {"accept", "self"} => Accepted(p) # {}
TeamInv ==
    /\ remote \in [main : SUBSET Commits, branch : [Proposals -> {NoRef} \cup SUBSET Commits]]
    /\ ReviewedBut(remote.main, stranded)
    /\ \A p \in Proposals : remote.branch[p] # NoRef => ReviewedBut(remote.branch[p], stranded \cup {p})
    /\ clone \in [Users -> CloneType] /\ \A u \in Users : CloneInv(u)
    /\ call \in [Actors -> CallType] /\ calls \in [Actors -> 0..MaxCalls]
    /\ \A a \in Actors : CallInv(a) /\ (call[a].at # "idle" => calls[a] # 0)

(* One proposal is not both accepted and rejected.                         *)
DecidedOnce ==
    \A x, y \in remote.main : x.kind \in {"accept", "self"} /\ y.kind = "reject" => x.p # y.p

(* What a session recalls from a clone, the nodes checked out there, has   *)
(* been reviewed (team_memory.py:20).                                      *)
RecallIsReviewed ==
    \A u \in Users :
       /\ clone[u].staged = {}
       /\ \A x \in HeadOf(clone[u]) : x.kind = "nodes" => x \in remote.main
=============================================================================
