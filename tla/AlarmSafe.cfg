SPECIFICATION Spec
CONSTANTS
  c1 = c1
  c2 = c2
  Callers = {c1, c2}
  Alarm = Alarm
  NoOwner = NoOwner
  Secs = {1, 2}
SYMMETRY Symmetry
CHECK_DEADLOCK FALSE
INVARIANT RunsWithPeriod
INVARIANT BlankStopsAlarm
INVARIANT StaysArmed
