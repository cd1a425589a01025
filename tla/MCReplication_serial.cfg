CONSTANTS
  c1 = c1
  c2 = c2
  c3 = c3
  k1 = k1
  k2 = k2
  o1 = o1
  o2 = o2
  o3 = o3
  None = None
  Primary = c1
  Chunks <- MCChunks3
  Keys <- MCKeys2
  Ops <- MCOps3
  OpKey <- TwoKeys
  Embedded <- MCNoOps
  MaxChunkCrashes = 2
  MaxMasterCrashes = 0
  MaxNetFaults = 0
SPECIFICATION SerialSpec
INVARIANTS CaughtUp ReplicasAgree
SYMMETRY ReplicaSymmetry
CHECK_DEADLOCK FALSE
