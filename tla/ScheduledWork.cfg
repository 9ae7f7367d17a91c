\* A recurring task and a recurring mail check; an edit and a crash.
CONSTANTS
  a = a
  b = b
  Items = {a, b}
  Action <- WorkAndMail
  Period <- EachOther
  StartAt <- AtZero
  EndAt <- Never
  MaxOccurrences <- TwiceA
  Linked = {}
  Scheduler = s
  Callers = {}
  Editors = {e}
  Edits = {"cancel"}
  None = None
  RecoverAfter = 1
  MaxRecovery = 1
  CatchUpGuard = 4
  RunPage = 10
  DeferBy = 1
  ProbeAfter = 1
  Faults = {"submit", "gmail"}
  MaxTime = 2
  MaxCrashes = 1
  MaxEdits = 1
  MaxManual = 0
SPECIFICATION Spec
INVARIANTS TypeOK OncePerOccurrence FiresLatest OccurrencesBounded SubmittedOnce
PROPERTY FiredAsPromised
CHECK_DEADLOCK FALSE
