SPECIFICATION FairSpec
CONSTANTS
  Entries = {e1, e2}
  None = None
  SeqSize = 16
  WinSize = 3
  Amsdus <- MCAmsdus
  Late = 2
  Gap = 2
  First = 13
  Final = 17
  MaxAdds = 2
  MaxSleeps = 1
INVARIANTS
  InOrder
  BubbleCovered
  SlotsAccounted
PROPERTIES
  EveryPacketReleased
