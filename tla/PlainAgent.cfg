\* Two workers: duplicates, retries, failures, a restart; nothing is ever held.
CONSTANTS
  a = a
  b = b
  c = c
  x = x
  Tasks = {a, b}
  Works = {}
  Workers = {w1, w2}
  Heartbeats = {}
  NoTask = NoTask
  Deps <- NoDeps
  Key <- PairKey
  Reflective = {}
  Manual = {}
  Operated = {}
  MaxAttempts = 2
  ProgressCap = 1
  RestoreLimit = 2
  Faults = {"run", "record"}
  MaxRaises = 0
  MaxPauses = 0
  MaxCrashes = 1
SPECIFICATION FairSpec
INVARIANTS AnswerMatchesRecord RetriesBounded
CHECK_DEADLOCK FALSE
PROPERTY PromiseKept
