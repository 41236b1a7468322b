SPECIFICATION FairSpec
CONSTANTS
  RX_RING_SIZE = 3
  TX_RING_SIZE = 3
  MaxRx = 5
  MaxTx = 5
INVARIANTS DescriptorsInv AlertInv
PROPERTIES RingsAreQueues FramesGetThrough
