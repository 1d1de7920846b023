SPECIFICATION Spec
CONSTANTS
  NumDrivers = 1
  Clients = {c1, c2}
  Calls = {"on", "off", "rst"}
  HwMayFail = FALSE
SYMMETRY Symmetry
INVARIANTS
  LockReleased
