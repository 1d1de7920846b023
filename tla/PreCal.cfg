SPECIFICATION Spec
CONSTANTS
  Bt = bt
  Wifi = wifi
  None = none
  Others = {}
  Modes <- AllModes
  MaxScreens = 2
INVARIANTS CalIsolated CalibratedFirst
PROPERTIES BlockEnds
CHECK_DEADLOCK FALSE
