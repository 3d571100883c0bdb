CONSTANTS
  d1 = d1  d2 = d2  magic = magic  s1 = s1  s2 = s2
  Daemons <- MCDaemons  Prefix <- MCPrefix  Suffix <- MCSuffix
  MagicWord = magic
  SeqMod = 4  Retries = 3  MaxPubs = 2
  InOrder = FALSE  LaunchdOnly = TRUE
SPECIFICATION Spec
INVARIANT NoTornRead
