CONSTANTS
  Slots <- TwoSlots
  Messages <- Frames
  MaxRanges = 1
  RawRanges = 1
  RingCap = 3
  MaxXfer = 2
  MaxTx = 0
SPECIFICATION Spec
INVARIANT NoFrameLost

