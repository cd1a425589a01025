--------------------------- MODULE MCReplication ---------------------------
(***************************************************************************)
(* Instances of Replication for TLC.                                       *)
(***************************************************************************)
EXTENDS ReplicationRefinement, TLC

CONSTANTS c1, c2, c3, k1, k2, o1, o2, o3

MCChunks2 == {c1, c2}
MCChunks3 == {c1, c2, c3}
MCKeys1 == {k1}
MCKeys2 == {k1, k2}
MCOps1 == {o1}
MCOps2 == {o1, o2}
MCOps3 == {o1, o2, o3}

\* Two operations on one key; three, of which two share a key.
SameKey == [o \in Ops |-> k1]
TwoKeys == [o \in Ops |-> IF o = o3 THEN k2 ELSE k1]

MCNoOps == {}
MCEmbedded == {o2}

\* A fault of the network, or crashes of the master and of a chunk.
OneKindOfFault == netFaults' > 0 => masterCrashes' + chunkCrashes' = 0

\* Steps after which a client or a message only does nothing any more are left
\* out where safety is checked (a refused or failed dial, a dying client, a lost
\* WALNotify): the behaviours in which it just goes no further cover them.
NobodyStops ==
    /\ phase' = phase => \A o \in Ops : cl'[o] \in {"failed", "crashed"} => cl'[o] = cl[o]
    /\ netFaults' = netFaults \/ notices' = notices
FaultSpec == Init /\ [][Next /\ OneKindOfFault /\ NobodyStops]_vars

\* The operations on one key are interchangeable, and so are the chunks other
\* than the primary.
OpSymmetry == Permutations(Ops)
ReplicaSymmetry == Permutations(Chunks \ {Primary})
=============================================================================
