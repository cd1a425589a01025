CONSTANTS
  c1 = c1
  c2 = c2
  k1 = k1
  o1 = o1
  o2 = o2
  g1 = g1
  l1 = l1
  None = None
  Primary = c1
  Chunks <- MCChunks
  Keys <- MCKeys
  Ops <- MCOps
  OpKey <- SameKey
  Embedded = {}
  Gets <- MCGets
  Lists <- MCLists
  GetKey <- SameGetKey
  Deletes <- MCDeletes
  MaxChunkCrashes = 1
  MaxMasterCrashes = 0
  MaxNetFaults = 0
SPECIFICATION MCReadSpec
INVARIANTS FreshRead MonotonicReads
CHECK_DEADLOCK FALSE
