\* The game may be gone for good, and then the daemon waits for another.
SPECIFICATION FairSpec
CONSTANTS
  W = 4
  RvaLimit = 4
  Rva = 3
  Known = 3
  Configured <- MCConfigured
  Bases <- MCBases
  MaxImages = 2
  Images = 3
  MaxFails = 2
  MaxEdits = 1
  MaxLaunches = 2
INVARIANTS BaseIsExecutable AddressesAgree
PROPERTIES GetsReady
CHECK_DEADLOCK FALSE
