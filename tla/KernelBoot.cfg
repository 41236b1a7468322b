SPECIFICATION FairSpec
CONSTANTS
  Malformed = Malformed
  PROBE_BUDGET = 4
  MaxCpus = 3
  MaxBeats = 2
  Boots <- MCBoots
  Defaults <- MCDefaults
INVARIANTS VectorsInv PrimaryConnected CardsFound MemoryInv CpusApart
PROPERTY AllAlive
