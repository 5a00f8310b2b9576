CONSTANTS
  Requests = {"q1", "q2"}
  Steered = {"q1"}
  MaxChunks = 1
  FolderMayGo = TRUE
  Streams = {"s1", "s2"}
  Pushed = {"s2"}
  MaxConcurrent = 1
  MaxFinished = 1
  Window = 2
  MaxLines = 1
  ChatMessages = {"m1", "m2", "m3"}
  Chatters = {"ann", "bob"}
  Channels = {"c1", "c2"}
  SentBy <- SmallSentBy
  SentIn <- SmallSentIn
  MaxPerWindow = 1
  Minute = 2
  MaxTracked = 1
  MaxClock = 3
  Generations = {"j1", "j2", "j3"}
  MaxGenerations = 2
  ScheduleIds = {"s1", "s2"}
  Tickers = {"t1", "t2"}
  MaxDue = 2
  MaxUnwritten = 1
  Prompts = {"p1", "p2"}
  ShellPrompts = {"p1"}
  MaxAsks = 3
  MaxDecides = 3
  PluginNames = {"n1", "n2"}
  Packs = {"k1", "k2", "bad"}
  Invalid = {"bad"}
  Installers = {"p1"}
  MaxOps = 5
  Users = {"ann", "bob"}
  Proposals = {"p1", "p2"}
  Author <- SmallAuthor
  Actors = {"a1", "b1"}
  UserOf <- SmallUserOf
  Clash <- SmallClash
  MaxCalls = 2
  Savers = {"s1", "s2"}
  SavedPaths = {"f"}
  SavedContents = {"x"}
  MaxSaves = 2
  Run = {"r1", "r2"}
  Job = {"a"}
  Executor = {"e1", "e2"}
  Judged = {"r1"}
  Restarts = FALSE
  MaxRecords = 3
  Parts = 2
  JobsEach = 2
  Shapes <- SmallShapes
  UserMoves = {"waiting", "running", "cancelled"}
  FileCount = 2
  Backups = {"n1", "n2", "n3"}
  Inside = {{}, {2}, {1, 2}}
  MaxMigrations = 3
  Deltas = {"d1", "d2"}
  Editors = {"p", "q"}
  MaxRev = 3
  MaxEdits = 3
SPECIFICATION Spec
CHECK_DEADLOCK FALSE
INVARIANTS
  UsesAreApproved ReadersMissNothing RateIsKept OneRunPerInterval
  ReviewsStillFit MainIsReviewed Restored RecordsClaimRealWork
  NothingRunsOn NoJobIsLost 
PROPERTIES
  CancelledNeverSucceeds LockedCallsAreAtomic
