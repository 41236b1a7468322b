SPECIFICATION FairSpec
CONSTANTS
  Slots <- ThreeSlots
  Messages <- AllMessages
  MaxRanges = 3
  RawRanges = 2
  RingCap = 3
  MaxXfer = 3
  MaxTx = 2
INVARIANTS ReceiveInv FramesKept SectionKept
PROPERTIES PanicsOnFullRingOnly SendsSettle
