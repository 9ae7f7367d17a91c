\* One worker and no heartbeat: held tasks are released by one pass at a time.
CONSTANTS
  a = a
  b = b
  c = c
  x = x
  Tasks = {a, b, c}
  Works = {x}
  Workers = {w1}
  Heartbeats = {}
  NoTask = NoTask
  Deps <- HeldDeps
  Key <- OwnKey
  Reflective = {c}
  Manual = {a}
  Operated = {}
  MaxAttempts = 1
  ProgressCap = 1
  RestoreLimit = 3
  Faults = {}
  MaxRaises = 0
  MaxPauses = 1
  MaxCrashes = 1
SPECIFICATION Spec
INVARIANTS InOnePlace NoOrphanFuture DependenciesFirst
PROPERTIES RecordedForGood DoneIsFinal
CHECK_DEADLOCK FALSE
