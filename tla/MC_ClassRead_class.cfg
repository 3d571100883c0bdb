CONSTANTS
  f1 = f1  f2 = f2  f3 = f3  o1 = o1  o2 = o2
  None = None
  Fields <- MCFields  Objects <- MCObjects  Memories <- MCMemories
  Class = o1  Supers <- MCSupers  Starts <- MCStarts
  Indices <- MCIndices  IndexOf <- MCIndexOf  NumberOf <- MCNumberOf
  LengthOf <- MCLengthOf  Misleading <- MCMisleading
  Keep = 2  Piece = 2  CacheSize = 2  MaxWalk = 2  MaxDepth = 0
  MaxChanges = 1  MaxFails = 1
SPECIFICATION FairSpec
INVARIANTS ClassTypeOK CacheRight NamesRight RecordWhole
PROPERTIES Ends
