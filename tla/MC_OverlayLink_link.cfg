CONSTANTS
  d1 = d1  g1 = g1  i1 = i1  i2 = i2
  None = None
  Daemons <- MCDaemons  Games <- MCGames  Inodes <- MCInodes
  Controllers <- MCControllers
  MaxRequests = 3  MaxKills = 0  MaxLaunches = 1  TickMod = 2
  StatEvery = 2  Stale = 1
SPECIFICATION FairLinkSpec
CHECK_DEADLOCK FALSE
INVARIANTS LinkTypeOK MappedFileIsFull
PROPERTIES Reconnects DrawingStops
