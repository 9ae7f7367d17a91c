\* The loop serves what is due and settles what it claimed.
CONSTANTS
  a = a
  b = b
  Items = {a, b}
  Action <- WorkAndNote
  Period <- Rare
  StartAt <- AtZero
  EndAt <- Never
  MaxOccurrences <- Never
  Linked = {a}
  Scheduler = s
  Callers = {c}
  Editors = {}
  Edits = {}
  None = None
  RecoverAfter = 1
  MaxRecovery = 2
  CatchUpGuard = 4
  RunPage = 4
  DeferBy = 1
  ProbeAfter = 2
  Faults = {"submit"}
  MaxTime = 2
  MaxCrashes = 0
  MaxEdits = 0
  MaxManual = 1
SPECIFICATION FairSpec
PROPERTIES DueIsServed ClaimsSettle
CHECK_DEADLOCK FALSE
