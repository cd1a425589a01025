---------------------------- MODULE Replication ----------------------------
(***************************************************************************)
(* The write path of the password manager: the master (pkg/master), the    *)
(* chunk servers (pkg/chunk) and the vault clients (pkg/vault), with       *)
(* crashes, restarts and lost connections.                                 *)
(*                                                                         *)
(* An operation o is one call of vault.Client.Save or Delete.  The two     *)
(* take the same steps (a delete stores a tombstone where a save stores a  *)
(* ciphertext), so a stored entry is represented by the operation that     *)
(* wrote it and its SeqNum is seq[o].                                      *)
(*                                                                         *)
(* A chunk's files follow its memory in every Put here: `store' survives a *)
(* crash and the rest of a chunk's state does not.                         *)
(***************************************************************************)
EXTENDS Integers, Sequences, FiniteSetsExt

CONSTANTS Chunks,            \* chunk server ids
          Primary,           \* the fixed primary, Metadata.primaryID
          Keys,              \* vault keys "<user>/<site>"
          Ops,               \* the Save and Delete calls of a behaviour
          OpKey,             \* the key each call writes
          Embedded,          \* calls made by the master's own HTTP gateway
          None,              \* no entry
          MaxChunkCrashes,   \* bounds on faults
          MaxMasterCrashes,
          MaxNetFaults       \* lost connections and messages, client crashes

ASSUME ChunkAssumption == Primary \in Chunks
ASSUME OpAssumption == /\ OpKey \in [Ops -> Keys]
                       /\ Embedded \subseteq Ops
                       /\ None \notin Ops
ASSUME BoundAssumption == /\ MaxChunkCrashes \in Nat
                          /\ MaxMasterCrashes \in Nat
                          /\ MaxNetFaults \in Nat

VARIABLES
    \* the master
    mUp,        \* the process runs
    seqNum,     \* Metadata.seqNum
    wal,        \* WAL.entries, in the order of the Append calls
    registry,   \* Registry.chunks[c].Alive, "unknown" when c has no ChunkInfo
    notices,    \* WALNotify messages the master has not handled yet
    \* the chunk servers
    phase,      \* how far the process and its registration are
    store,      \* Store.entries
    lastSeq,    \* Store.lastSeq
    reported,   \* LastSeqNum in the chunk's last RegisterChunkRequest
    upto,       \* length of the WAL the last RecoveryResponse was cut from
    replay,     \* WAL positions of that response still to be applied
    \* the operations: the client's side, then the primary's handler
    cl,         \* progress of Save or Delete in the client
    seq,        \* the SeqNum the master gave the operation, 0 before
    hd,         \* progress of handleWrite or handleDelete on the primary
    targets,    \* the handler's replica list
    todo,       \* replicas its loop has not reached
    repl,       \* ReplicateRequests on their way, <<operation, chunk>>
    givenUp,    \* those of them whose sender no longer waits
    \* faults so far
    chunkCrashes, masterCrashes, netFaults

masterVars == <<mUp, seqNum, wal, registry, notices>>
chunkVars  == <<phase, store, lastSeq, reported, upto, replay>>
opVars     == <<cl, seq, hd, targets, todo, repl>>
faultVars  == <<chunkCrashes, masterCrashes, netFaults, givenUp>>
vars == <<masterVars, chunkVars, opVars, faultVars>>

-----------------------------------------------------------------------------
(* Phases. A chunk listens, and so serves requests, in every phase but     *)
(* "down": Start opens the listener before it registers.                   *)

ChunkPhases  == {"down", "boot", "sent", "registered", "replay", "serving"}
ClientPhases == {"idle", "granted", "waiting", "notify", "ok", "failed", "crashed"}
HandlerPhases == {"none", "sent", "lookup", "fanout", "done", "dead", "lost"}

Up(c) == phase[c] # "down"

(* Operations whose Put on the primary has run.                            *)
Handled(o) == hd[o] \in {"lookup", "fanout", "done", "dead"}

(* Operations whose client has read an OK response.                        *)
Acked(o) == cl[o] \in {"notify", "ok"}

StoredSeqs(c) == {0} \cup {seq[store[c][k]] : k \in {j \in Keys : store[c][j] # None}}
WalSeqs == {0} \cup {seq[wal[i]] : i \in DOMAIN wal}

(* Chunk c holds o or a write of the same key that is at least as new.     *)
AtLeast(c, o) ==
    /\ store[c][OpKey[o]] # None
    /\ seq[store[c][OpKey[o]]] >= seq[o]

Init ==
    /\ mUp = TRUE
    /\ seqNum = 0
    /\ wal = << >>
    /\ registry = [c \in Chunks |-> "unknown"]
    /\ notices = {}
    /\ phase = [c \in Chunks |-> "boot"]
    /\ store = [c \in Chunks |-> [k \in Keys |-> None]]
    /\ lastSeq = [c \in Chunks |-> 0]
    /\ reported = [c \in Chunks |-> 0]
    /\ upto = [c \in Chunks |-> 0]
    /\ replay = [c \in Chunks |-> {}]
    /\ cl = [o \in Ops |-> "idle"]
    /\ seq = [o \in Ops |-> 0]
    /\ hd = [o \in Ops |-> "none"]
    /\ targets = [o \in Ops |-> {}]
    /\ todo = [o \in Ops |-> {}]
    /\ repl = {} /\ givenUp = {}
    /\ chunkCrashes = 0 /\ masterCrashes = 0 /\ netFaults = 0

(* A fault of the network that the bound still allows.                     *)
NetFault == netFaults < MaxNetFaults /\ netFaults' = netFaults + 1

-----------------------------------------------------------------------------
(* Store.Put and Store.Delete: an entry gives way only to a larger SeqNum. *)

AlwaysSupersedes(o, e) == TRUE
Supersedes(o, e) == e = None \/ seq[o] > seq[e]

(* How a stored SeqNum moves lastSeq.                                      *)
Later(n, m) == IF n > m THEN n ELSE m

Put(c, o) ==
    IF Supersedes(o, store[c][OpKey[o]])
    THEN /\ store' = [store EXCEPT ![c][OpKey[o]] = o]
         /\ lastSeq' = [lastSeq EXCEPT ![c] = Later(seq[o], @)]
    ELSE UNCHANGED <<store, lastSeq>>

(* The master's answer to GetPrimaryRequest, apart from the number.        *)
AliveChunks == {c \in Chunks : registry[c] = "alive"}
ReplicaAddrs == IF Primary \in AliveChunks THEN AliveChunks \ {Primary} ELSE {}

(* Metadata.NextSeqNum: the number a request is given, and the counter.    *)
SameSeqNum == seqNum
NextSeqNum == seqNum + 1

(* WAL.EntriesAfter, as positions of the log: all it keeps, in log order.  *)
EntriesAfterNext(n) == {i \in DOMAIN wal : seq[wal[i]] > n + 1}
EntriesAfter(n) == {i \in DOMAIN wal : seq[wal[i]] > n}

(* WAL.MaxSeqNum.                                                          *)
BeforeMaxSeqNum == Max(WalSeqs) - 1
MaxSeqNum == Max(WalSeqs)

-----------------------------------------------------------------------------
(* An operation, step by step.                                             *)

(* The client asks for the primary; the master answers with the address    *)
(* and a fresh number, or with no address when it holds the primary dead.  *)
HandleGetPrimary(o) ==
    /\ mUp
    /\ cl[o] = "idle"
    /\ \/ /\ Primary \in AliveChunks
          /\ seqNum' = NextSeqNum
          /\ seq' = [seq EXCEPT ![o] = NextSeqNum]
          /\ cl' = [cl EXCEPT ![o] = "granted"]
       \/ /\ Primary \notin AliveChunks
          /\ cl' = [cl EXCEPT ![o] = "failed"]
          /\ UNCHANGED <<seqNum, seq>>
    /\ UNCHANGED <<mUp, wal, registry, notices, chunkVars,
                   hd, targets, todo, repl, faultVars>>

(* The client connects to the primary and sends its WriteRequest.          *)
SendWrite(o) ==
    /\ cl[o] = "granted"
    /\ Up(Primary)
    /\ cl' = [cl EXCEPT ![o] = "waiting"]
    /\ hd' = [hd EXCEPT ![o] = "sent"]
    /\ UNCHANGED <<masterVars, chunkVars, seq, targets, todo, repl, faultVars>>

(* tls.Dial fails: the primary is down.                                    *)
DialFails(o) ==
    /\ cl[o] = "granted"
    /\ ~Up(Primary)
    /\ cl' = [cl EXCEPT ![o] = "failed"]
    /\ UNCHANGED <<masterVars, chunkVars, seq, hd, targets, todo, repl, faultVars>>

(* The primary's handler stores the entry before it looks for replicas.    *)
HandleWrite(o) ==
    /\ hd[o] = "sent"
    /\ Put(Primary, o)
    /\ hd' = [hd EXCEPT ![o] = "lookup"]
    /\ UNCHANGED <<masterVars, phase, reported, upto, replay,
                   cl, seq, targets, todo, repl, faultVars>>

(* getReplicaAddrs is a second GetPrimaryRequest: it takes a number nobody *)
(* uses, and its list is empty when the master holds the primary dead.     *)
GetReplicaAddrs(o) ==
    /\ hd[o] = "lookup"
    /\ mUp
    /\ targets' = [targets EXCEPT ![o] = ReplicaAddrs]
    /\ todo' = [todo EXCEPT ![o] = ReplicaAddrs]
    /\ seqNum' = IF Primary \in AliveChunks THEN NextSeqNum ELSE seqNum
    /\ hd' = [hd EXCEPT ![o] = "fanout"]
    /\ UNCHANGED <<mUp, wal, registry, notices, chunkVars, cl, seq, repl, faultVars>>

(* The lookup gets no answer and the list is nil.                          *)
LookupFails(o) ==
    /\ hd[o] = "lookup"
    /\ \/ ~mUp /\ UNCHANGED netFaults
       \/ NetFault
    /\ hd' = [hd EXCEPT ![o] = "fanout"]
    /\ UNCHANGED <<masterVars, chunkVars, cl, seq, targets, todo, repl,
                   chunkCrashes, masterCrashes, givenUp>>

(* The handler's loop waits for one replica at a time.                     *)
NeverAwaiting(o) == o \notin Ops
AwaitingAll(o) == todo[o] # {}
Awaiting(o) == \E c \in Chunks : <<o, c>> \in repl \ givenUp

ReplicateTo(o, c) ==
    /\ hd[o] = "fanout"
    /\ c \in todo[o]
    /\ ~Awaiting(o)
    /\ todo' = [todo EXCEPT ![o] = @ \ {c}]
    /\ repl' = IF Up(c) THEN repl \cup {<<o, c>>} ELSE repl
    /\ UNCHANGED <<masterVars, chunkVars, cl, seq, hd, targets, faultVars>>

HandleReplicate(o, c) ==
    /\ <<o, c>> \in repl
    /\ Put(c, o)
    /\ repl' = repl \ {<<o, c>>}
    /\ UNCHANGED <<masterVars, phase, reported, upto, replay,
                   cl, seq, hd, targets, todo, faultVars>>

(* The loop ends, whatever the replicas said, and the client is answered.  *)
SendWriteResponse(o) ==
    /\ hd[o] = "fanout"
    /\ todo[o] = {}
    /\ ~Awaiting(o)
    /\ hd' = [hd EXCEPT ![o] = "done"]
    /\ cl' = [cl EXCEPT ![o] = IF @ = "waiting" THEN "notify" ELSE @]
    /\ UNCHANGED <<masterVars, chunkVars, seq, targets, todo, repl, faultVars>>

(* notifyMasterWAL is one message without an answer, sent after the        *)
(* client has its OK and dropped when the master cannot be reached.        *)
NotifyMasterWAL(o) ==
    /\ cl[o] = "notify"
    /\ notices' = IF mUp THEN notices \cup {o} ELSE notices
    /\ cl' = [cl EXCEPT ![o] = "ok"]
    /\ UNCHANGED <<mUp, seqNum, wal, registry, chunkVars,
                   seq, hd, targets, todo, repl, faultVars>>

HandleWALNotify(o) ==
    /\ mUp
    /\ o \in notices
    /\ wal' = Append(wal, o)
    /\ notices' = notices \ {o}
    /\ UNCHANGED <<mUp, seqNum, registry, chunkVars, opVars, faultVars>>

-----------------------------------------------------------------------------
(* A chunk's registration: registerWithMaster against handleRegister.      *)

SendRegister(c) ==
    /\ phase[c] = "boot"
    /\ mUp
    /\ reported' = [reported EXCEPT ![c] = lastSeq[c]]
    /\ phase' = [phase EXCEPT ![c] = "sent"]
    /\ UNCHANGED <<masterVars, store, lastSeq, upto, replay, opVars, faultVars>>

(* Registry.Register: the chunk counts as alive before it has caught up.   *)
HandleRegister(c) ==
    /\ mUp
    /\ phase[c] = "sent"
    /\ registry' = [registry EXCEPT ![c] = "alive"]
    /\ phase' = [phase EXCEPT ![c] = "registered"]
    /\ UNCHANGED <<mUp, seqNum, wal, notices, store, lastSeq, reported, upto,
                   replay, opVars, faultVars>>

(* EntriesAfter takes the log's lock later than Register the registry's.   *)
SendRecovery(c) ==
    /\ mUp
    /\ phase[c] = "registered"
    /\ replay' = [replay EXCEPT ![c] = EntriesAfter(reported[c])]
    /\ upto' = [upto EXCEPT ![c] = Len(wal)]
    /\ phase' = [phase EXCEPT ![c] = "replay"]
    /\ UNCHANGED <<masterVars, store, lastSeq, reported, opVars, faultVars>>

ApplyRecovery(c) ==
    /\ phase[c] = "replay"
    /\ \E i \in replay[c] :
        /\ \A j \in replay[c] : i <= j
        /\ Put(c, wal[i])
        /\ replay' = [replay EXCEPT ![c] = @ \ {i}]
    /\ UNCHANGED <<masterVars, phase, reported, upto, opVars, faultVars>>

FinishNonEmptyRecovery(c) ==
    /\ phase[c] = "replay"
    /\ replay[c] = {} /\ upto[c] > 0
    /\ phase' = [phase EXCEPT ![c] = "serving"]
    /\ UNCHANGED <<masterVars, store, lastSeq, reported, upto, replay, opVars, faultVars>>

FinishRecovery(c) ==
    /\ phase[c] = "replay"
    /\ replay[c] = {}
    /\ phase' = [phase EXCEPT ![c] = "serving"]
    /\ UNCHANGED <<masterVars, store, lastSeq, reported, upto, replay, opVars, faultVars>>

(* Registry.Heartbeat ignores a chunk it has no ChunkInfo of.              *)
HeldAlive(c) == registry[c] = "alive"
Known(c) == registry[c] # "unknown"

(* sendHeartbeat runs only after registerWithMaster has returned.          *)
SendHeartbeat(c) ==
    /\ mUp
    /\ phase[c] = "serving"
    /\ Known(c)
    /\ registry' = [registry EXCEPT ![c] = "alive"]
    /\ UNCHANGED <<mUp, seqNum, wal, notices, chunkVars, opVars, faultVars>>

(* A chunk that has not finished registering sends no heartbeats.          *)
Registering(c) == phase[c] \notin {"serving", "down"}
Silent(c) == phase[c] # "serving"

(* monitorHealth: six seconds without a heartbeat.                         *)
MonitorHealth(c) ==
    /\ mUp
    /\ registry[c] = "alive"
    /\ Silent(c)
    /\ registry' = [registry EXCEPT ![c] = "dead"]
    /\ UNCHANGED <<mUp, seqNum, wal, notices, chunkVars, opVars, faultVars>>

(* What loadFromDisk sets lastSeq to.                                      *)
NoLastSeq(c) == 0
LoadedLastSeq(c) == Max(StoredSeqs(c))

ChunkStart(c) ==
    /\ phase[c] = "down"
    /\ phase' = [phase EXCEPT ![c] = "boot"]
    /\ lastSeq' = [lastSeq EXCEPT ![c] = LoadedLastSeq(c)]
    /\ UNCHANGED <<masterVars, store, reported, upto, replay, opVars, faultVars>>

(* Start: the counter restarts from the log.                               *)
MasterStart ==
    /\ ~mUp
    /\ mUp' = TRUE
    /\ seqNum' = MaxSeqNum
    /\ UNCHANGED <<wal, registry, notices, chunkVars, opVars, faultVars>>

-----------------------------------------------------------------------------
(* Faults.                                                                 *)

(* A chunk process dies: its connections break, and with the primary's     *)
(* the requests it was handling.  A ReplicateRequest the primary has sent  *)
(* may still arrive.                                                       *)
ChunkCrash(c) ==
    /\ Up(c)
    /\ chunkCrashes < MaxChunkCrashes
    /\ chunkCrashes' = chunkCrashes + 1
    /\ phase' = [phase EXCEPT ![c] = "down"]
    /\ lastSeq' = [lastSeq EXCEPT ![c] = 0]
    /\ replay' = [replay EXCEPT ![c] = {}]
    /\ repl' = {r \in repl : r[2] # c}
    /\ IF c = Primary
       THEN /\ hd' = [o \in Ops |-> IF hd[o] = "sent" THEN "lost"
                                   ELSE IF hd[o] \in {"lookup", "fanout"} THEN "dead"
                                   ELSE hd[o]]
            /\ cl' = [o \in Ops |-> IF cl[o] = "waiting" THEN "failed" ELSE cl[o]]
            /\ todo' = [o \in Ops |-> {}]
       ELSE UNCHANGED <<hd, cl, todo>>
    /\ UNCHANGED <<masterVars, store, reported, upto, seq, targets,
                   masterCrashes, netFaults, givenUp>>

(* The master process dies, and with it the registry, the messages it had  *)
(* not handled, the registrations it was answering and its HTTP gateway.   *)
MasterCrash ==
    /\ mUp
    /\ masterCrashes < MaxMasterCrashes
    /\ masterCrashes' = masterCrashes + 1
    /\ mUp' = FALSE
    /\ seqNum' = 0
    /\ registry' = [c \in Chunks |-> "unknown"]
    /\ notices' = {}
    /\ phase' = [c \in Chunks |-> IF phase[c] \in {"sent", "registered"}
                                  THEN "boot" ELSE phase[c]]
    /\ cl' = [o \in Ops |-> IF o \in Embedded /\ cl[o] \in {"granted", "waiting", "notify"}
                            THEN "crashed" ELSE cl[o]]
    /\ UNCHANGED <<wal, store, lastSeq, reported, upto, replay,
                   seq, hd, targets, todo, repl, chunkCrashes, netFaults, givenUp>>

(* A client process dies in the middle of Save or Delete.                  *)
ClientCrash(o) ==
    /\ o \notin Embedded
    /\ cl[o] \in {"granted", "waiting", "notify"}
    /\ NetFault
    /\ cl' = [cl EXCEPT ![o] = "crashed"]
    /\ UNCHANGED <<masterVars, chunkVars, seq, hd, targets, todo, repl,
                   chunkCrashes, masterCrashes, givenUp>>

(* The client's connection to the primary breaks: Receive returns an error *)
(* to the client, before or after its request has reached the handler.     *)
ClientLosesConn(o) ==
    /\ cl[o] = "waiting"
    /\ NetFault
    /\ cl' = [cl EXCEPT ![o] = "failed"]
    /\ \/ UNCHANGED hd
       \/ hd[o] = "sent" /\ hd' = [hd EXCEPT ![o] = "lost"]
    /\ UNCHANGED <<masterVars, chunkVars, seq, targets, todo, repl,
                   chunkCrashes, masterCrashes, givenUp>>

(* The connection of a ReplicateRequest breaks; its sender logs the error  *)
(* and goes on.  The request is lost, or the replica has it and will       *)
(* handle it some time.                                                    *)
ReplicateFails(o, c) ==
    /\ <<o, c>> \in repl \ givenUp
    /\ NetFault
    /\ \/ repl' = repl \ {<<o, c>>} /\ UNCHANGED givenUp
       \/ givenUp' = givenUp \cup {<<o, c>>} /\ UNCHANGED repl
    /\ UNCHANGED <<masterVars, chunkVars, cl, seq, hd, targets, todo,
                   chunkCrashes, masterCrashes>>

(* A WALNotify is lost.                                                    *)
NotifyLost(o) ==
    /\ o \in notices
    /\ NetFault
    /\ notices' = notices \ {o}
    /\ UNCHANGED <<mUp, seqNum, wal, registry, chunkVars, opVars,
                   chunkCrashes, masterCrashes, givenUp>>

(* The registration's connection breaks; the chunk tries again.            *)
RegisterFails(c) ==
    /\ phase[c] \in {"sent", "registered"}
    /\ NetFault
    /\ phase' = [phase EXCEPT ![c] = "boot"]
    /\ UNCHANGED <<masterVars, store, lastSeq, reported, upto, replay, opVars,
                   chunkCrashes, masterCrashes, givenUp>>

(* Six seconds of heartbeats are lost and a chunk that works is held dead. *)
LoseHeartbeats(c) ==
    /\ mUp
    /\ phase[c] = "serving"
    /\ registry[c] = "alive"
    /\ NetFault
    /\ registry' = [registry EXCEPT ![c] = "dead"]
    /\ UNCHANGED <<mUp, seqNum, wal, notices, chunkVars, opVars,
                   chunkCrashes, masterCrashes, givenUp>>

-----------------------------------------------------------------------------
ClientStep(o) == SendWrite(o) \/ DialFails(o) \/ NotifyMasterWAL(o)

HandlerStep(o) ==
    \/ HandleWrite(o) \/ GetReplicaAddrs(o)
    \/ (LookupFails(o) /\ UNCHANGED netFaults)
    \/ SendWriteResponse(o)
    \/ \E c \in Chunks : ReplicateTo(o, c) \/ HandleReplicate(o, c)

RegisterStep(c) ==
    \/ SendRegister(c) \/ HandleRegister(c) \/ SendRecovery(c)
    \/ ApplyRecovery(c) \/ FinishRecovery(c)

OpFault(o) ==
    \/ LookupFails(o) \/ ClientCrash(o) \/ ClientLosesConn(o) \/ NotifyLost(o)
    \/ \E c \in Chunks : ReplicateFails(o, c)

ChunkFault(c) == ChunkCrash(c) \/ RegisterFails(c) \/ LoseHeartbeats(c)

Next ==
    \/ \E o \in Ops : \/ HandleGetPrimary(o) \/ ClientStep(o) \/ HandlerStep(o)
                      \/ HandleWALNotify(o) \/ OpFault(o)
    \/ \E c \in Chunks : \/ RegisterStep(c) \/ SendHeartbeat(c) \/ MonitorHealth(c)
                         \/ ChunkStart(c) \/ ChunkFault(c)
    \/ MasterStart
    \/ MasterCrash

Spec == Init /\ [][Next]_vars

(* Every goroutine that can run does: clients and handlers go on, the      *)
(* register loop retries, tickers tick, and a dead master is restarted     *)
(* (Restart=on-failure in scripts/deploy-gcp.sh).  Starting an operation,  *)
(* restarting a chunk and the faults are not fair.                         *)
Fairness ==
    /\ \A o \in Ops : /\ WF_vars(ClientStep(o))
                      /\ WF_vars(HandlerStep(o))
                      /\ WF_vars(HandleWALNotify(o))
    /\ \A c \in Chunks : /\ WF_vars(RegisterStep(c))
                         /\ WF_vars(SendHeartbeat(c))
                         /\ WF_vars(MonitorHealth(c))
    /\ WF_vars(MasterStart)

FairSpec == Spec /\ Fairness

-----------------------------------------------------------------------------
(* Properties.                                                             *)

(* Every variable stays in its type: the states of the code's structures.  *)
TypeOK ==
    /\ mUp \in BOOLEAN
    /\ seqNum \in Nat
    /\ wal \in Seq(Ops)
    /\ registry \in [Chunks -> {"unknown", "alive", "dead"}]
    /\ notices \subseteq Ops
    /\ phase \in [Chunks -> ChunkPhases]
    /\ store \in [Chunks -> [Keys -> Ops \cup {None}]]
    /\ lastSeq \in [Chunks -> Nat]
    /\ reported \in [Chunks -> Nat]
    /\ upto \in [Chunks -> 0..Len(wal)]
    /\ replay \in [Chunks -> SUBSET DOMAIN wal]
    /\ cl \in [Ops -> ClientPhases]
    /\ seq \in [Ops -> Nat]
    /\ hd \in [Ops -> HandlerPhases]
    /\ targets \in [Ops -> SUBSET Chunks]
    /\ todo \in [Ops -> SUBSET Chunks]
    /\ repl \subseteq Ops \X Chunks /\ givenUp \subseteq Ops \X Chunks
    /\ chunkCrashes \in Nat /\ masterCrashes \in Nat /\ netFaults \in Nat

(* A running chunk's lastSeq is the largest SeqNum among its entries: what *)
(* it reports to the master covers all it has and nothing it has not,      *)
(* through recovery, replication and restarts.                             *)
LastSeqIsMax ==
    \A c \in Chunks : Up(c) =>
        /\ lastSeq[c] \in StoredSeqs(c)
        /\ \A n \in StoredSeqs(c) : n <= lastSeq[c]

(* No chunk is ever ahead of the primary: whatever a replica holds, by     *)
(* replication or from the WAL, the primary holds in the same or a newer   *)
(* version, through its own crashes and restarts and the master's.         *)
PrimaryFreshest ==
    \A c \in Chunks, k \in Keys :
        store[c][k] # None => AtLeast(Primary, store[c][k])

(* A write whose client has read OK is on the primary, unless a write with *)
(* a larger number has replaced it: no acknowledged write is dropped by    *)
(* the "already have this or newer" test of Store.Put.                     *)
AckedOnPrimary ==
    \A o \in Ops : Acked(o) =>
        \/ store[Primary][OpKey[o]] = o
        \/ /\ store[Primary][OpKey[o]] # None
           /\ seq[store[Primary][OpKey[o]]] > seq[o]

(* So it is through any number of chunk crashes and lost connections, up   *)
(* to the first restart of the master.                                     *)
AckedUntilRestart == masterCrashes = 0 => AckedOnPrimary

(* A chunk that has had the master's RecoveryResponse holds every logged   *)
(* write newer than the LastSeqNum it reported, or is still to apply it,   *)
(* whatever was written or appended while it was registering.              *)
ReplayComplete ==
    \A c \in Chunks : phase[c] \in {"replay", "serving"} =>
        \A i \in 1..upto[c] :
            seq[wal[i]] > reported[c] => i \in replay[c] \/ AtLeast(c, wal[i])

(* Without chunk crashes and lost messages, handleWrite answers only when  *)
(* every replica the master listed has the write.                          *)
AckedOnTargets ==
    chunkCrashes = 0 /\ netFaults = 0 =>
        \A o \in Ops : hd[o] = "done" => \A c \in targets[o] : AtLeast(c, o)

(* Nothing is being written.                                               *)
Quiescent ==
    /\ mUp
    /\ notices = {} /\ repl = {}
    /\ \A o \in Ops : /\ cl[o] \in {"idle", "ok", "failed", "crashed"}
                      /\ hd[o] \notin {"sent", "lookup", "fanout"}

(* "The chunk applies the missed writes and is fully caught up"            *)
(* (README.md): when nothing is under way, a chunk that has finished its   *)
(* registration holds every write of the WAL, or a newer one.              *)
CaughtUp ==
    Quiescent => \A c \in Chunks : phase[c] = "serving" =>
        \A i \in DOMAIN wal : AtLeast(c, wal[i])

(* When nothing is under way, all chunks that have finished their          *)
(* registration hold the same version of every key, deletions included:    *)
(* replication, the log and the numbers leave no chunk with a write the    *)
(* others lack, so that a read may be sent to any of them.                 *)
ReplicasAgree ==
    Quiescent => \A c, d \in Chunks :
        phase[c] = "serving" /\ phase[d] = "serving" => store[c] = store[d]

(* What scripts/test_correctness.ps1 exercises: one operation at a time,   *)
(* begun when every running chunk has registered and is held alive, and no *)
(* chunk stopped, started or registering while an operation is under way.  *)
Settled == \A c \in Chunks : \/ phase[c] = "down"
                             \/ phase[c] = "serving" /\ registry[c] = "alive"
SerialStep ==
    /\ (\E o \in Ops : cl[o] = "idle" /\ cl'[o] # "idle") => Quiescent /\ Settled
    /\ phase' # phase => Quiescent
SerialSpec == Init /\ [][Next /\ SerialStep]_vars

(* No step takes a chunk's entry back to an older version or removes it:   *)
(* reordered, repeated and replayed writes never undo a newer one.         *)
NeverBack ==
    \A c \in Chunks, k \in Keys : store[c][k] # None =>
        /\ store'[c][k] # None
        /\ seq'[store'[c][k]] >= seq[store[c][k]]
VersionsNeverGoBack == [][NeverBack]_vars

(* Every started Save or Delete ends, whichever process dies meanwhile.    *)
OpsTerminate ==
    \A o \in Ops : cl[o] \in {"granted", "waiting", "notify"}
                   ~> cl[o] \in {"ok", "failed", "crashed"}

(* While the master keeps running, a chunk that finished registering is    *)
(* again and again held alive, or leaves that phase: heartbeats undo a     *)
(* false suspicion.                                                        *)
AliveAgain ==
    \A c \in Chunks :
        phase[c] = "serving"
        ~> registry[c] = "alive" \/ phase[c] # "serving" \/ masterCrashes > 0

(* "Tracks which chunk servers are alive via heartbeats" (README.md): also *)
(* those that were running before the master was.                          *)
AliveTracked ==
    \A c \in Chunks :
        phase[c] = "serving" ~> registry[c] = "alive" \/ phase[c] # "serving"

(* A chunk that starts finishes its recovery, or dies again, also when the *)
(* master dies in the middle of its registration.                          *)
RecoveryCompletes ==
    \A c \in Chunks : phase[c] = "boot" ~> phase[c] \in {"serving", "down"}

(* A chunk that stays down is in the end no longer offered to clients.     *)
DeadDetected ==
    \A c \in Chunks : <>[](~Up(c)) => <>[](registry[c] # "alive")
=============================================================================
