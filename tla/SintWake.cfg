SPECIFICATION FairSpec
CONSTANTS
  Relids <- Channels
  CHANNEL_WAKER_SLOTS = 3
  WordBits = 2
  Words = 2
  Senders <- SendingChannels
  Bursts <- FrameBursts
  MaxBursts = 2
  MaxSends = 1
INVARIANTS NoLostWake FlagNoticed
PROPERTY PacketsReceived
