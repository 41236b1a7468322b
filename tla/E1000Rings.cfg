SPECIFICATION FairSpec
CONSTANTS
  RX_RING_SIZE = 3
  TX_RING_SIZE = 2
  MaxRx = 4
  MaxTx = 3
INVARIANT DescriptorsInv
PROPERTIES RingsAreQueues PanicsOnBadFrameOnly StaysAlert FramesGetThrough
