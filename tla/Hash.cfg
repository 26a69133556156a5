SPECIFICATION FairSpec
CONSTANTS
  key1 = key1
  key2 = key2
  wide = wide
  seed1 = seed1
  seed2 = seed2
  Keys = {key1, key2, wide}
  Wide = {wide}
  Values = {1, 2}
  Seeds = {seed1, seed2}
  HashVal <- MCHashVal
  INITIAL_BUCKETS = 2
  MAXFULL_PERCENT = 50
  NULL = NULL
  NoDict = NoDict
  Junk = Junk
  KeepBoth = FALSE
INVARIANTS TypeOK BucketsKept Markable ScannedOnce IteratesOnce
PROPERTIES ImplementsDict CallsReturn
