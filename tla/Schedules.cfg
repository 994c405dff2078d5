CONSTANTS
  b1 = b1
  s1 = s1
  f1 = f1
  f2 = f2
  Schedules = {b1, s1}
  Bundled = {b1}
  Fires = {f1, f2}
  MaxTime = 3
  MaxDelay = 2
  NextTick <- EverySecond
  Cron = cron
  Manual = manual
  None = none
  MaxEdits = 2
  MaxExits = 1
SPECIFICATION Spec
SYMMETRY Symmetry
INVARIANTS
  TypeOK
  EnabledIsArmed
  OccurrencesFireOnce
  OverlapComesFromTheProbe
  RunningRowIsInFlight
\* The clock, the fires, the edits and the exits are bounded.
CHECK_DEADLOCK FALSE
