SPECIFICATION FairSpec
CONSTANTS
  Components = {"longTurn", "leftTurn", "conversation", "worker", "telegram"}
  long = long
  left = left
  right = right
  Turns = {long, left, right}
  Tools = {search, write}
  Readonly = {search}
  Evidence = {search}
  Search = search
  MaxIterations <- Iterations
  MaxRounds <- Rounds
  MaxRetries <- Retries
  MaxBatch <- Batches
  Window = 3
  FocusDepth = 1
  StallLimit = 2
  RepeatLimit = 2
  Processes = {p1, p2}
  Requests = {m1, m2}
  AuditOnly = {m2}
  Nobody = Nobody
  DiskFaults = {"start", "complete"}
  MaxLives = 1
  Runs = {r1, r2, r3}
  NoRun = NoRun
  MaxAttempts = 2
  WorkerFaults = {r1}
  MaxTalks = 1
  MaxStops = 0
  Episodes = {1, 2, 3}
  Sessions = {s1}
  SessionOf <- OneSession
  AfterResponse = {turn1}
  Sweeps = {sweep1}
  TailSize = 1
  MinRemoved = 1
  MinLag = 2
  MaxCycles = 1
  Updates = {1, 2, 3, 4}
  Kind <- Messages
  Parts <- Answers
  MaxFaults = 2
  Callers = {c1}
  FailureThreshold = 2
  MaxEmbedless = 1
  Works = {k1, k2}
  Stored = {k1}
  Capacity = 2
  Fatigues = {TRUE, FALSE}
  NoWork = NoWork
  MaxMishaps = 1
  last = last
  Subtasks = {s1, s2, last}
  DependsOn <- Join
  Hands = {h1, h2}
  Planner = Planner
  Nothing = Nothing
CHECK_DEADLOCK FALSE
PROPERTIES TurnEnds InterruptedIsTold ConsolidationComes InboxKept
