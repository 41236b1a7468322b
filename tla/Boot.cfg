SPECIFICATION FairSpec
CONSTANTS
  HostOffers <- Nics
  RingPages = 64
  BufPages = 27
  MaxUnsolicited = 1
  PostsFail = TRUE
INVARIANT BootInv
PROPERTY BootFinishes
