CONSTANTS
  a1 = a1  a2 = a2  c1 = c1  c2 = c2  w1 = w1  w2 = w2
  None = None
  Addrs <- MCAddrs  Classes <- MCClasses  Worlds <- MCWorlds
  KindIn <- MCKindIn  Hinted <- MCHinted  IdOf <- MCIdOf
  Slots = 2  Chunk = 1  Least = 1  Longest = 2
  MaxList <- MCMaxList  MaxShown <- MCMaxShown
  MaxClasses = 1  MaxMeta = 1  MaxSpawns = 2  MaxFails = 1
SPECIFICATION FairSpec
INVARIANTS LevelTypeOK CachesOfWorld ClassesRight ItemNamesRight
PROPERTIES Converges
