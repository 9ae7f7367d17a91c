\* Two releasers at once: what holds however the passes interleave.
CONSTANTS
  a = a
  b = b
  c = c
  x = x
  Tasks = {b, c}
  Works = {}
  Workers = {w1}
  Heartbeats = {h}
  NoTask = NoTask
  Deps <- RaceDeps
  Key <- OwnKey
  Reflective = {c}
  Manual = {c}
  Operated = {c}
  MaxAttempts = 1
  ProgressCap = 1
  RestoreLimit = 2
  Faults = {"handler"}
  MaxRaises = 1
  MaxPauses = 1
  MaxCrashes = 0
SPECIFICATION Spec
INVARIANTS TypeOK GuardRespected DependenciesFirst
CHECK_DEADLOCK FALSE
