SPECIFICATION Spec
CONSTANTS
  NumDrivers = 3
  Clients = {c1, c2, c3}
  Calls = {"on", "off", "read", "readable", "hwop", "therm", "dump", "suspend"}
  HwMayFail = TRUE
SYMMETRY Symmetry
INVARIANTS
  PowerExact
  AccessPowered
  GrantsKept
PROPERTIES
  ImplementsManager
