CONSTANTS
  a1 = a1  a2 = a2  w1 = w1  w2 = w2
  None = None  c1 = c1  Bots = {TRUE, FALSE}
  Classes <- MCClasses
  Actors <- MCActors  Worlds <- MCWorlds  Teams <- MCTeams
  MaxChars = 2  MaxMeta = 2  MaxPlayers = 2  MaxSpawns = 2  MaxFails = 0
SPECIFICATION Spec
INVARIANT TeammatesNeverBots
