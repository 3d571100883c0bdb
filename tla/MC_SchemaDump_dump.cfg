CONSTANTS
  None = None
  Length = 4  MaxObjects = 3  BatchSize = 2  MaxDumps = 2
SPECIFICATION Spec
INVARIANT DumpTypeOK
PROPERTIES ImplementsAtomicDump ListsEveryClass
