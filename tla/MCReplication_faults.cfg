CONSTANTS
  c1 = c1
  c2 = c2
  c3 = c3
  k1 = k1
  k2 = k2
  o1 = o1
  o2 = o2
  o3 = o3
  None = None
  Primary = c1
  Chunks <- MCChunks2
  Keys <- MCKeys1
  Ops <- MCOps2
  OpKey <- SameKey
  Embedded <- MCNoOps
  MaxChunkCrashes = 1
  MaxMasterCrashes = 1
  MaxNetFaults = 1
SPECIFICATION FaultSpec
INVARIANTS TypeOK LastSeqIsMax  ReplayComplete AckedUntilRestart 
PROPERTIES VersionsNeverGoBack RefinesVersionedReplicas
SYMMETRY OpSymmetry
CHECK_DEADLOCK FALSE
