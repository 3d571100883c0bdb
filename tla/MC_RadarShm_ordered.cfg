CONSTANTS
  d1 = d1  d2 = d2  magic = magic  s1 = s1  s2 = s2
  Daemons <- MCDaemons  Prefix <- MCPrefix  Suffix <- MCSuffix
  MagicWord = magic
  SeqMod = 4  Retries = 3  MaxPubs = 3
  InOrder = TRUE  LaunchdOnly = TRUE
SPECIFICATION FairSpec
INVARIANTS TypeOK NoTornRead IInv
PROPERTIES ImplementsAtomicFrame CatchesUp
