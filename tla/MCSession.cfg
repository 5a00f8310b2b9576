CONSTANTS
  Calls <- SmallCalls
  Batches <- SmallBatches
  Reads = {"read_file"}
  Mutators = {"write_file", "edit_file"}
  NoPath = "-"
  Mode = "balanced"
  FrontEnd = "scope"
  MaxRounds = 3
  MaxCalls = 5
  MaxSame = 2
  MaxFailed = 2
  Halt = TRUE
  Verifier = TRUE
  MaxNamed = 1
  Keep = 3
  CompactEvery = 3
  WriteEvery = 2
  SummaryRoom = 4
  MaxTurns = 7
  Spenders = {"s1", "s2"}
  SessionLimit <- SmallLimits
  Costs = {0, 1, 3}
  DailyLimit = 5
  MaxLogged = 8
  SubTasks = {"t1", "t2", "t3"}
  MaxSubagents = 2
  GoalSteps = 3
  GoalRuns = {"r1", "r2"}
  MaxLspRequests = 3
  MaxNotes = 2
  MaxRestarts = 1
  MaxMcpRequests = 3
  MaxQuestions = 1
  Messages = {"m1", "m2"}
  Reviewers = {"cli"}
  MaxQueue = 2
  MaxStarts = 2
  MaxAttempts = 2
SPECIFICATION Spec
CHECK_DEADLOCK FALSE
INVARIANTS
  HeedsDenial FailuresAreReported RecentIsShown OwnSpendIsBounded CapHolds
  CompletedMeansWorked RepliesAreOurs ExactlyOnce
