SPECIFICATION FairSpec
CONSTANTS
  HostVersions = {0, 40, 60}
  Unsolicited = {"indicate", "keepalive", "frame"}
  MaxUnsolicited = 1
  Mtus = {1500, 1543, 9000}
INVARIANT HandshakeInv
PROPERTIES SectionComesBack InitFinishes
