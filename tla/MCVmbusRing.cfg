CONSTANTS
  Words = 13
  PayloadLens <- MCPayloadLens
  XferRanges <- MCXferRanges
  BufWords = 3
  MaxSent = 3
SPECIFICATION FairSpec
INVARIANTS RingInv PanicsOnLongHeader
PROPERTIES ImplementsQueue AllDelivered
