CONSTANTS
  d1 = d1  d2 = d2  g1 = g1  g2 = g2  i1 = i1  i2 = i2
  None = None
  Daemons <- MCDaemons  Games <- MCGames  Inodes <- MCTwoInodes  Controllers <- MCAll
  MaxRequests = 2  MaxKills = 1  MaxLaunches = 2  TickMod = 1
SPECIFICATION FairSpec
CHECK_DEADLOCK FALSE
INVARIANTS TypeOK SingleWriter LiveFileLinked
PROPERTIES StopHolds FollowsGame StartHolds
