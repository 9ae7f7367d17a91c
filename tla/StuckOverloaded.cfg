SPECIFICATION CycleSpec
CONSTANTS
  Works = {k1, k2}
  Stored = {k1, k2}
  Capacity = 2
  Fatigues = {FALSE}
  NoWork = NoWork
  MaxMishaps = 0
CHECK_DEADLOCK FALSE
PROPERTY OverloadEnds
