------------------------------ MODULE ReadPath ------------------------------
(***************************************************************************)
(* Reads beside the write path: vault.Client.Get, which the master routes  *)
(* to some chunk it holds alive, and vault.Client.List, which the master   *)
(* forwards to such a chunk itself.                                        *)
(***************************************************************************)
EXTENDS Replication

CONSTANTS Gets, Lists,   \* the calls of Get and List
          GetKey,        \* the key each Get asks for
          Deletes        \* the operations that are deletes

Reads == Gets \cup Lists

ASSUME ReadAssumption == /\ Gets \cap Lists = {}
                         /\ GetKey \in [Gets -> Keys]
                         /\ Deletes \subseteq Ops
                         /\ None \notin Chunks

VARIABLES rd,      \* progress of each read
          at,      \* the chunk the master chose for it
          got,     \* the entries it found, under their keys
          known,   \* operations acknowledged before the master routed it
          before   \* reads that were done by then

readVars == <<rd, at, got, known, before>>

NoEntries == [k \in Keys |-> None]

ReadInit ==
    /\ Init
    /\ rd = [r \in Reads |-> "idle"]
    /\ at = [r \in Reads |-> None]
    /\ got = [r \in Reads |-> NoEntries]
    /\ known = [r \in Reads |-> {}]
    /\ before = [r \in Reads |-> {}]

(* handleGetChunk and handleListKeys choose among all that are held alive. *)
Routable == AliveChunks

(* Store.Get and KeysWithPrefix pass over tombstones.                      *)
Visible(e) == IF e \in Deletes THEN None ELSE e

Asked(r) == IF r \in Gets THEN {GetKey[r]} ELSE Keys

Ends(r, how) == rd' = [rd EXCEPT ![r] = how]
Fails(r, how) == /\ Ends(r, how)
                 /\ at' = [at EXCEPT ![r] = None]
                 /\ known' = [known EXCEPT ![r] = {}]
                 /\ before' = [before EXCEPT ![r] = {}]
                 /\ UNCHANGED got

Route(r) ==
    /\ rd[r] = "idle"
    /\ mUp
    /\ \E c \in Routable : at' = [at EXCEPT ![r] = c]
    /\ Ends(r, "routed")
    /\ known' = [known EXCEPT ![r] = {o \in Ops : Acked(o)}]
    /\ before' = [before EXCEPT ![r] = {q \in Reads : rd[q] = "done"}]
    /\ UNCHANGED got

(* No chunk is held alive: an error for a Get, an empty list for a List.   *)
NoChunk(r) ==
    /\ rd[r] = "idle"
    /\ mUp
    /\ Routable = {}
    /\ Fails(r, IF r \in Gets THEN "failed" ELSE "empty")

(* The master cannot be reached.                                           *)
NoMaster(r) ==
    /\ rd[r] = "idle"
    /\ Fails(r, "failed")

(* handleRead and handleListKeys of the chunk, which serves them in every  *)
(* phase of its registration.                                              *)
HandleRead(r) ==
    /\ rd[r] = "routed"
    /\ Up(at[r])
    /\ got' = [got EXCEPT ![r] = [k \in Keys |->
           IF k \in Asked(r) THEN Visible(store[at[r]][k]) ELSE None]]
    /\ Ends(r, "done")
    /\ UNCHANGED <<at, known, before>>

(* The chunk cannot be reached, or the connection breaks: an error for a   *)
(* Get.  For a List the master answers with an empty list, if its client's *)
(* connection is not the one that broke.                                   *)
ReadFails(r) ==
    /\ rd[r] = "routed"
    /\ \E how \in {"failed"} \cup (IF r \in Lists THEN {"empty"} ELSE {}) :
           Fails(r, how)

(* A List that the master is forwarding dies with the master.              *)
ListsLost ==
    rd' = IF mUp /\ ~mUp'
          THEN [r \in Reads |-> IF r \in Lists /\ rd[r] = "routed"
                                THEN "failed" ELSE rd[r]]
          ELSE rd

ReadStep(r) == \/ Route(r) \/ NoChunk(r) \/ NoMaster(r)
               \/ HandleRead(r) \/ ReadFails(r)

ReadNext ==
    \/ Next /\ ListsLost /\ UNCHANGED <<at, got, known, before>>
    \/ \E r \in Reads : ReadStep(r) /\ UNCHANGED vars

ReadSpec == ReadInit /\ [][ReadNext]_<<vars, readVars>>

-----------------------------------------------------------------------------
Answered(r) == rd[r] = "done"

(* What r found under o's key is o or newer, or nothing because of a       *)
(* delete that is.                                                         *)
AsNewAs(r, o) ==
    LET e == got[r][OpKey[o]]
    IN  \/ e # None /\ seq[e] >= seq[o]
        \/ e = None /\ \E d \in Deletes :
                          OpKey[d] = OpKey[o] /\ Handled(d) /\ seq[d] >= seq[o]

(* As long as no chunk dies and no message is lost, a read sees all writes *)
(* acknowledged before it, unless it was routed to a chunk that the master *)
(* had not listed when the write was replicated.                           *)
FreshRead ==
    chunkCrashes = 0 /\ netFaults = 0 =>
        \A r \in Reads : Answered(r) =>
            \A o \in known[r] :
                OpKey[o] \in Asked(r) /\ at[r] \in targets[o] \cup {Primary}
                => AsNewAs(r, o)

(* Two reads of one chunk, one after the other, never go back in time,     *)
(* crashes, recoveries and reordered replication in between included.      *)
MonotonicReads ==
    \A r \in Reads : Answered(r) =>
        \A q \in before[r] : Answered(q) /\ at[q] = at[r] =>
            \A k \in Asked(q) \cap Asked(r) :
                got[q][k] # None => AsNewAs(r, got[q][k])
=============================================================================
