SPECIFICATION LiveSpec
CONSTANTS
  EmiSize = 4
  CacheSize = 2
  Modulus = 4
  Readers = {r1}
  r1 = r1
  Counts = {1, 2}
  Modes = {"file", "print"}
  AlarmOn = TRUE
  MaxBytes = 6
INVARIANT NothingLost
INVARIANT InOrder
INVARIANT NoLostWakeup
PROPERTY AllRead
