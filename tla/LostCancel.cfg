\* A cancellation while the scheduler is in a pass.
CONSTANTS
  a = a
  b = b
  Items = {a}
  Action <- WorkAndMail
  Period <- EveryTick
  StartAt <- AtZero
  EndAt <- Never
  MaxOccurrences <- Never
  Linked = {}
  Scheduler = s
  Callers = {}
  Editors = {e}
  Edits = {"cancel"}
  None = None
  RecoverAfter = 1
  MaxRecovery = 2
  CatchUpGuard = 4
  RunPage = 10
  DeferBy = 1
  ProbeAfter = 2
  Faults = {}
  MaxTime = 3
  MaxCrashes = 0
  MaxEdits = 1
  MaxManual = 0
SPECIFICATION Spec
PROPERTY CancelSticks
CHECK_DEADLOCK FALSE
