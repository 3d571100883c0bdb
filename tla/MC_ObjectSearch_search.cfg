CONSTANTS
  player = player  other = other  meta = meta  b1 = b1  b2 = b2
  None = None
  N = 4  MaxObjects = 3  BatchSize = 2  MaxChanges = 3  MaxFails = 1
  Classes <- MCClasses  PlayerClasses <- MCPlayerClasses  Meta = meta
  Buckets <- MCBuckets  BucketOf <- MCBucketOf
SPECIFICATION Spec
CHECK_DEADLOCK FALSE
INVARIANT SearchTypeOK
PROPERTIES FoundIsPlayer SearchEnds
