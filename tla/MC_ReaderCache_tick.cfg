CONSTANTS
  a1 = a1  a2 = a2  w1 = w1  w2 = w2
  None = None  c1 = c1  Bots <- MCNoBots
  Classes <- MCClasses
  Actors <- MCActors  Worlds <- MCWorlds  Teams <- MCOneTeam
  MaxChars = 2  MaxMeta = 1  MaxPlayers = 2  MaxSpawns = 2  MaxFails = 1
SPECIFICATION FairSpec
INVARIANTS TypeOK MetaOfWorld TeamSticks
PROPERTIES  Forgets
