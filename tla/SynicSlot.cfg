SPECIFICATION FairSpec
CONSTANTS
  MaxMessages = 8
  Window = 3
INVARIANT SlotInv
PROPERTIES ImplementsQueue StallsOnLateFlag Drained
