SPECIFICATION FairSpec
CONSTANTS
  Width = 2
  Height = 2
  HostVersions = {0, 32, 35}
  Rects <- MCRects
  MaxStray = 2
  SendRoom = 3
INVARIANT DisplayInv
PROPERTY PictureReported
