SPECIFICATION Spec
CONSTANTS
  NumDrivers = 2
  Clients = {c1, c2}
  Calls = {"on", "off", "rst", "read", "readable", "hwop", "therm", "dump", "suspend"}
  HwMayFail = TRUE
SYMMETRY Symmetry
CHECK_DEADLOCK FALSE
INVARIANTS
  TypeOK
  ResetBracketed
  OneReset
