SPECIFICATION LiveSpec
CONSTANTS
  NumDrivers = 2
  Clients = {c1, c2}
  Calls = {"on", "rst", "read"}
  HwMayFail = FALSE
INVARIANTS
  PowerExact
  AccessPowered
PROPERTIES
  ResetEnds
  CallsReturn
