----------------------- MODULE ReplicationRefinement -----------------------
(***************************************************************************)
(* Replication implements VersionedReplicas: SeqNums are the versions, the *)
(* stores the copies, and a write is accepted when the primary's handler   *)
(* has run Store.Put or Store.Delete for it.                               *)
(***************************************************************************)
EXTENDS Replication

accepted == {o \in Ops : Handled(o)}

VR == INSTANCE VersionedReplicas
        WITH Copies <- Chunks, Main <- Primary, Writes <- Ops, KeyOf <- OpKey,
             version <- seq, copy <- store

(* Crashes and restarts of chunks and master, lost messages, reordered     *)
(* replication and replays of the WAL never make a chunk hold a write that *)
(* did not pass through the primary, or go back to an older version.       *)
RefinesVersionedReplicas == VR!Spec
=============================================================================
