------------------------- MODULE ReplicationProofs -------------------------
(***************************************************************************)
(* Theorems about Replication, for every set of chunks, keys and           *)
(* operations and every bound on the faults.                               *)
(***************************************************************************)
EXTENDS ReplicationRefinement, TLAPS

-----------------------------------------------------------------------------
(* Largest elements.  TLC computes Max; a proof needs to know that it is   *)
(* there, which the invariant MaxExists says of the sets it is taken of.   *)

IsMax(m, S) == m \in S /\ \A n \in S : n <= m

MaxExists ==
    /\ \E m \in Nat : IsMax(m, WalSeqs)
    /\ \A c \in Chunks : \E m \in Nat : IsMax(m, StoredSeqs(c))

(* Append keeps what a sequence has and adds one element.                  *)
LEMMA AppendFacts ==
    ASSUME NEW S, NEW s \in Seq(S), NEW e \in S
    PROVE  /\ Append(s, e) \in Seq(S)
           /\ Len(Append(s, e)) = Len(s) + 1
           /\ \A i \in DOMAIN Append(s, e) :
                 \/ i \in DOMAIN s /\ Append(s, e)[i] = s[i]
                 \/ i = Len(s) + 1 /\ Append(s, e)[i] = e
           /\ \A i \in DOMAIN s : i \in DOMAIN Append(s, e) /\ Append(s, e)[i] = s[i]
  OBVIOUS

(* The operator Max returns the largest element of a set that has one.     *)
LEMMA MaxIsMax ==
    ASSUME NEW S \in SUBSET Nat, NEW m \in Nat, IsMax(m, S)
    PROVE  Max(S) = m
<1>1. m \in S /\ \A y \in S : m >= y
  BY DEF IsMax
<1>2. \A x \in S : (\A y \in S : x >= y) => x = m
  BY <1>1
<1> QED
  BY <1>1, <1>2 DEF Max

(* What a chunk has been sent, or has still to apply, is in the log.       *)
LEMMA ReplayTyped ==
    ASSUME TypeOK, NEW c \in Chunks, NEW i \in replay[c]
    PROVE  i \in DOMAIN wal /\ wal[i] \in Ops
<1>1. replay \in [Chunks -> SUBSET DOMAIN wal] /\ wal \in Seq(Ops)
  BY DEF TypeOK
<1>2. replay[c] \in SUBSET DOMAIN wal
  BY <1>1
<1>3. i \in DOMAIN wal
  BY <1>2
<1> QED
  BY ONLY <1>1, <1>3

LEMMA UptoTyped ==
    ASSUME TypeOK, NEW c \in Chunks, NEW i \in 1..upto[c]
    PROVE  i \in DOMAIN wal /\ wal[i] \in Ops
<1>1. upto \in [Chunks -> 0..Len(wal)] /\ wal \in Seq(Ops)
  BY DEF TypeOK
<1>2. upto[c] \in 0..Len(wal)
  BY <1>1
<1>3. Len(wal) \in Nat /\ DOMAIN wal = 1..Len(wal)
  BY ONLY <1>1
<1>4. i \in DOMAIN wal
  BY ONLY <1>2, <1>3, i \in 1..upto[c]
<1> QED
  BY ONLY <1>1, <1>4

LEMMA SeqsInNat ==
    ASSUME TypeOK
    PROVE  /\ WalSeqs \in SUBSET Nat
           /\ \A c \in Chunks : StoredSeqs(c) \in SUBSET Nat
<1>1. \A i \in DOMAIN wal : seq[wal[i]] \in Nat
  BY DEF TypeOK
<1>2. \A c \in Chunks, k \in Keys : store[c][k] # None => seq[store[c][k]] \in Nat
  BY DEF TypeOK
<1> QED
  BY <1>1, <1>2 DEF WalSeqs, StoredSeqs

(* What Store.Put does to the types of a chunk's store.                    *)
LEMMA PutType ==
    ASSUME TypeOK, NEW c \in Chunks, NEW o \in Ops, Put(c, o)
    PROVE  /\ store' \in [Chunks -> [Keys -> Ops \cup {None}]]
           /\ lastSeq' \in [Chunks -> Nat]
<1>1. CASE Supersedes(o, store[c][OpKey[o]])
  <2>1. Later(seq[o], lastSeq[c]) \in Nat
    BY DEF Later, TypeOK
  <2>2. lastSeq' = [lastSeq EXCEPT ![c] = Later(seq[o], lastSeq[c])]
    BY <1>1 DEF Put
  <2>3. store' = [store EXCEPT ![c] = [store[c] EXCEPT ![OpKey[o]] = o]]
    BY <1>1 DEF Put
  <2>4. [store[c] EXCEPT ![OpKey[o]] = o] \in [Keys -> Ops \cup {None}]
    BY OpAssumption DEF TypeOK
  <2> QED
    BY <2>1, <2>2, <2>3, <2>4 DEF TypeOK
<1>2. CASE ~Supersedes(o, store[c][OpKey[o]])
  BY <1>2 DEF TypeOK, Put
<1> QED
  BY <1>1, <1>2

LEMMA NetFaultType ==
    ASSUME TypeOK, NetFault
    PROVE  netFaults' \in Nat
BY DEF TypeOK, NetFault

-----------------------------------------------------------------------------
(* Type correctness.                                                       *)

LEMMA TypeInit == Init => TypeOK
BY DEF Init, TypeOK, ChunkPhases, ClientPhases, HandlerPhases

LEMMA TypeStep ==
    ASSUME TypeOK, MaxExists, [Next]_vars
    PROVE  TypeOK'
<1> USE DEF ChunkPhases, ClientPhases, HandlerPhases
<1>1. ASSUME NEW o \in Ops, HandleGetPrimary(o) PROVE TypeOK'
  <2>1. CASE Primary \in AliveChunks
    <3>1. NextSeqNum \in Nat
      BY DEF TypeOK, NextSeqNum
    <3>2. /\ cl' = [cl EXCEPT ![o] = "granted"]
          /\ seq' = [seq EXCEPT ![o] = NextSeqNum]
          /\ seqNum' = NextSeqNum
      BY <1>1, <2>1 DEF HandleGetPrimary
    <3> QED
      BY <1>1, <3>1, <3>2 DEF TypeOK, HandleGetPrimary, chunkVars, faultVars
  <2>2. CASE Primary \notin AliveChunks
    <3>1. /\ cl' = [cl EXCEPT ![o] = "failed"]
          /\ UNCHANGED <<seq, seqNum>>
      BY <1>1, <2>2 DEF HandleGetPrimary
    <3> QED
      BY <1>1, <3>1 DEF TypeOK, HandleGetPrimary, chunkVars, faultVars
  <2> QED
    BY <2>1, <2>2
<1>2. ASSUME NEW o \in Ops, SendWrite(o) PROVE TypeOK'
  BY <1>2 DEF TypeOK, SendWrite, masterVars, chunkVars, faultVars
<1>3. ASSUME NEW o \in Ops, DialFails(o) PROVE TypeOK'
  BY <1>3 DEF TypeOK, DialFails, masterVars, chunkVars, faultVars
<1>4. ASSUME NEW o \in Ops, NotifyMasterWAL(o) PROVE TypeOK'
  BY <1>4 DEF TypeOK, NotifyMasterWAL, chunkVars, faultVars
<1>5. ASSUME NEW o \in Ops, HandleWrite(o) PROVE TypeOK'
  BY <1>5, PutType, ChunkAssumption DEF TypeOK, HandleWrite, masterVars, faultVars
<1>6. ASSUME NEW o \in Ops, GetReplicaAddrs(o) PROVE TypeOK'
  BY <1>6 DEF TypeOK, GetReplicaAddrs, ReplicaAddrs, AliveChunks, NextSeqNum,
              chunkVars, faultVars
<1>7. ASSUME NEW o \in Ops, LookupFails(o) PROVE TypeOK'
  BY <1>7 DEF TypeOK, LookupFails, NetFault, masterVars, chunkVars
<1>8. ASSUME NEW o \in Ops, SendWriteResponse(o) PROVE TypeOK'
  BY <1>8 DEF TypeOK, SendWriteResponse, masterVars, chunkVars, faultVars
<1>9. ASSUME NEW o \in Ops, NEW c \in Chunks, ReplicateTo(o, c) PROVE TypeOK'
  BY <1>9 DEF TypeOK, ReplicateTo, masterVars, chunkVars, faultVars
<1>10. ASSUME NEW o \in Ops, NEW c \in Chunks, HandleReplicate(o, c) PROVE TypeOK'
  BY <1>10, PutType DEF TypeOK, HandleReplicate, masterVars, faultVars
<1>11. ASSUME NEW o \in Ops, HandleWALNotify(o) PROVE TypeOK'
  <2>1. wal' = Append(wal, o) /\ wal \in Seq(Ops)
    BY <1>11 DEF TypeOK, HandleWALNotify
  <2>2. wal' \in Seq(Ops) /\ Len(wal') = Len(wal) + 1 /\ DOMAIN wal \subseteq DOMAIN wal'
    BY <2>1, AppendFacts
  <2>3. upto' \in [Chunks -> 0..Len(wal')] /\ replay' \in [Chunks -> SUBSET DOMAIN wal']
    <3>1. 0..Len(wal) \subseteq 0..Len(wal')
      BY <2>1, <2>2
    <3> QED
      BY <1>11, <2>2, <3>1 DEF TypeOK, HandleWALNotify, chunkVars
  <2>4. notices' \subseteq Ops
    BY <1>11 DEF TypeOK, HandleWALNotify
  <2> QED
    BY <1>11, <2>2, <2>3, <2>4
    DEF TypeOK, HandleWALNotify, chunkVars, opVars, faultVars
<1>12. ASSUME NEW o \in Ops, ClientCrash(o) PROVE TypeOK'
  BY <1>12, NetFaultType DEF TypeOK, ClientCrash, masterVars, chunkVars
<1>13. ASSUME NEW o \in Ops, ClientLosesConn(o) PROVE TypeOK'
  BY <1>13, NetFaultType DEF TypeOK, ClientLosesConn, masterVars, chunkVars
<1>14. ASSUME NEW o \in Ops, NotifyLost(o) PROVE TypeOK'
  BY <1>14, NetFaultType DEF TypeOK, NotifyLost, chunkVars, opVars
<1>15. ASSUME NEW o \in Ops, NEW c \in Chunks, ReplicateFails(o, c) PROVE TypeOK'
  BY <1>15, NetFaultType DEF TypeOK, ReplicateFails, masterVars, chunkVars
<1>16. ASSUME NEW c \in Chunks, SendRegister(c) PROVE TypeOK'
  BY <1>16 DEF TypeOK, SendRegister, masterVars, opVars, faultVars
<1>17. ASSUME NEW c \in Chunks, HandleRegister(c) PROVE TypeOK'
  BY <1>17 DEF TypeOK, HandleRegister, opVars, faultVars
<1>18. ASSUME NEW c \in Chunks, SendRecovery(c) PROVE TypeOK'
  BY <1>18 DEF TypeOK, SendRecovery, EntriesAfter, masterVars, opVars, faultVars
<1>19. ASSUME NEW c \in Chunks, ApplyRecovery(c) PROVE TypeOK'
  <2>1. PICK i \in replay[c] : Put(c, wal[i]) /\ replay' = [replay EXCEPT ![c] = @ \ {i}]
    BY <1>19 DEF ApplyRecovery
  <2>2. wal[i] \in Ops
    BY ReplayTyped
  <2>3. /\ store' \in [Chunks -> [Keys -> Ops \cup {None}]]
        /\ lastSeq' \in [Chunks -> Nat]
    BY <2>1, <2>2, PutType
  <2>4. UNCHANGED <<masterVars, phase, reported, upto, opVars, faultVars>>
    BY <1>19 DEF ApplyRecovery
  <2> QED
    BY <2>1, <2>3, <2>4 DEF TypeOK, masterVars, opVars, faultVars
<1>20. ASSUME NEW c \in Chunks, FinishRecovery(c) PROVE TypeOK'
  BY <1>20 DEF TypeOK, FinishRecovery, masterVars, opVars, faultVars
<1>21. ASSUME NEW c \in Chunks, SendHeartbeat(c) PROVE TypeOK'
  BY <1>21 DEF TypeOK, SendHeartbeat, chunkVars, opVars, faultVars
<1>22. ASSUME NEW c \in Chunks, MonitorHealth(c) PROVE TypeOK'
  BY <1>22 DEF TypeOK, MonitorHealth, chunkVars, opVars, faultVars
<1>23. ASSUME NEW c \in Chunks, ChunkStart(c) PROVE TypeOK'
  <2>1. Max(StoredSeqs(c)) \in Nat
    BY MaxIsMax, SeqsInNat DEF MaxExists
  <2> QED
    BY <1>23, <2>1 DEF TypeOK, ChunkStart, LoadedLastSeq, masterVars, opVars, faultVars
<1>24. ASSUME NEW c \in Chunks, ChunkCrash(c) PROVE TypeOK'
  BY <1>24 DEF TypeOK, ChunkCrash, masterVars
<1>25. ASSUME NEW c \in Chunks, RegisterFails(c) PROVE TypeOK'
  BY <1>25 DEF TypeOK, RegisterFails, NetFault, masterVars, opVars
<1>26. ASSUME NEW c \in Chunks, LoseHeartbeats(c) PROVE TypeOK'
  BY <1>26 DEF TypeOK, LoseHeartbeats, NetFault, chunkVars, opVars
<1>27. CASE MasterStart
  <2>1. MaxSeqNum \in Nat
    BY MaxIsMax, SeqsInNat DEF MaxExists, MaxSeqNum
  <2> QED
    BY <1>27, <2>1 DEF TypeOK, MasterStart, chunkVars, opVars, faultVars
<1>28. CASE MasterCrash
  <2>1. /\ cl' \in [Ops -> ClientPhases]
        /\ phase' \in [Chunks -> ChunkPhases]
        /\ registry' \in [Chunks -> {"unknown", "alive", "dead"}]
    BY <1>28 DEF TypeOK, MasterCrash
  <2>2. mUp' \in BOOLEAN
    BY <1>28 DEF MasterCrash
  <2>3. notices' \subseteq Ops /\ seqNum' \in Nat /\ masterCrashes' \in Nat
    BY <1>28 DEF TypeOK, MasterCrash
  <2>4. UNCHANGED <<wal, store, lastSeq, reported, upto, replay,
                    seq, hd, targets, todo, repl, chunkCrashes, netFaults, givenUp>>
    BY <1>28 DEF MasterCrash
  <2> QED
    BY <2>1, <2>2, <2>3, <2>4 DEF TypeOK
<1>29. CASE UNCHANGED vars
  BY <1>29 DEF TypeOK, vars, masterVars, chunkVars, opVars, faultVars
<1> QED
  BY <1>1, <1>2, <1>3, <1>4, <1>5, <1>6, <1>7, <1>8, <1>9, <1>10, <1>11, <1>12,
     <1>13, <1>14, <1>15, <1>16, <1>17, <1>18, <1>19, <1>20, <1>21, <1>22, <1>23,
     <1>24, <1>25, <1>26, <1>27, <1>28, <1>29
  DEF Next, ClientStep, HandlerStep, RegisterStep, OpFault, ChunkFault
-----------------------------------------------------------------------------
(* The inductive invariant.                                                *)

(* An operation the master has not numbered, or that has not reached the   *)
(* primary, has left no trace there.                                       *)
NotStarted ==
    \A o \in Ops : /\ cl[o] = "idle" => seq[o] = 0
                   /\ cl[o] \in {"idle", "granted"} => hd[o] = "none"
                   /\ cl[o] = "granted" \/ hd[o] # "none" => seq[o] # 0

(* What chunks hold has passed through the primary's handler ...           *)
StoredHandled ==
    \A c \in Chunks, k \in Keys : store[c][k] # None =>
        Handled(store[c][k]) /\ OpKey[store[c][k]] = k

(* ... and so has what is on its way to a chunk or acknowledged.           *)
SentHandled ==
    /\ \A i \in DOMAIN wal : Handled(wal[i])
    /\ \A o \in notices : Handled(o)
    /\ \A o \in Ops, c \in Chunks : <<o, c>> \in repl => Handled(o)
    /\ \A o \in Ops : Acked(o) => Handled(o)

(* The primary holds what its handler took, or something newer.            *)
OnPrimary == \A o \in Ops : Handled(o) => AtLeast(Primary, o)

IInv == /\ TypeOK
        /\ MaxExists
        /\ NotStarted
        /\ StoredHandled
        /\ SentHandled
        /\ OnPrimary
        /\ LastSeqIsMax

LEMMA IInvInit == Init => IInv
<1> SUFFICES ASSUME Init PROVE IInv
  OBVIOUS
<1>1. TypeOK
  BY TypeInit
<1>2. WalSeqs = {0} /\ \A c \in Chunks : StoredSeqs(c) = {0}
  BY DEF Init, WalSeqs, StoredSeqs
<1>3. MaxExists
  BY <1>2 DEF MaxExists, IsMax
<1>4. LastSeqIsMax
  BY <1>2 DEF Init, LastSeqIsMax
<1> QED
  BY <1>1, <1>3, <1>4, ChunkAssumption
  DEF IInv, Init, NotStarted, StoredHandled, SentHandled, OnPrimary, Handled, Acked

-----------------------------------------------------------------------------
(* What a step may do to the stores, read off the actions once: number an  *)
(* operation, let the primary take one, deliver one to a chunk, stop or    *)
(* start a chunk, or leave stores and numbers alone.                       *)

SameHandled == \A o \in Ops : Handled(o)' <=> Handled(o)

Numbered(o) ==
    /\ seq[o] = 0 /\ hd[o] = "none"
    /\ seq' = [seq EXCEPT ![o] = NextSeqNum] /\ seqNum' = NextSeqNum
    /\ UNCHANGED <<hd, store, lastSeq, phase>>

Taken(o) ==
    /\ hd[o] = "sent" /\ hd' = [hd EXCEPT ![o] = "lookup"]
    /\ Put(Primary, o)
    /\ UNCHANGED <<seq, phase>>

Delivered(c, o) ==
    /\ Handled(o) /\ Put(c, o)
    /\ UNCHANGED <<seq, hd, phase>>

Stopped(c) ==
    /\ lastSeq' = [lastSeq EXCEPT ![c] = 0]
    /\ phase' = [phase EXCEPT ![c] = "down"]
    /\ SameHandled /\ UNCHANGED <<store, seq>>

Started(c) ==
    /\ lastSeq' = [lastSeq EXCEPT ![c] = Max(StoredSeqs(c))]
    /\ phase' = [phase EXCEPT ![c] = "boot"]
    /\ SameHandled /\ UNCHANGED <<store, seq>>

Untouched ==
    /\ SameHandled
    /\ UNCHANGED <<store, seq, lastSeq>>
    /\ \A c \in Chunks : Up(c)' => Up(c)

StoreStep ==
    \/ \E o \in Ops : Numbered(o) \/ Taken(o)
    \/ \E c \in Chunks : \/ Stopped(c) \/ Started(c)
                         \/ \E o \in Ops : Delivered(c, o)
    \/ Untouched

LEMMA StepIsStoreStep ==
    ASSUME TypeOK, NotStarted, SentHandled, [Next]_vars
    PROVE  StoreStep
<1> DEFINE Quiet == UNCHANGED <<hd, seq, store, lastSeq>>
<1>q. ASSUME Quiet, \A c \in Chunks : Up(c)' => Up(c) PROVE StoreStep
  BY <1>q DEF StoreStep, Untouched, SameHandled, Handled
<1>1. ASSUME NEW o \in Ops, HandleGetPrimary(o) PROVE StoreStep
  <2>1. CASE Primary \in AliveChunks
    <3>1. Numbered(o)
      BY <1>1, <2>1 DEF HandleGetPrimary, Numbered, NotStarted, chunkVars
    <3> QED
      BY <3>1 DEF StoreStep
  <2>2. CASE Primary \notin AliveChunks
    BY <1>1, <2>2, <1>q DEF HandleGetPrimary, chunkVars, Up
  <2> QED
    BY <2>1, <2>2
<1>2. ASSUME NEW o \in Ops, SendWrite(o) PROVE StoreStep
  <2>1. hd[o] = "none" /\ hd' = [hd EXCEPT ![o] = "sent"]
    BY <1>2 DEF SendWrite, NotStarted
  <2>2. UNCHANGED <<seq, store, lastSeq, phase>>
    BY <1>2 DEF SendWrite, chunkVars
  <2> QED
    BY <2>1, <2>2 DEF StoreStep, Untouched, SameHandled, Handled, Up, TypeOK
<1>3. ASSUME NEW o \in Ops, DialFails(o) PROVE StoreStep
  BY <1>3, <1>q DEF DialFails, chunkVars, Up
<1>4. ASSUME NEW o \in Ops, NotifyMasterWAL(o) PROVE StoreStep
  BY <1>4, <1>q DEF NotifyMasterWAL, chunkVars, Up
<1>5. ASSUME NEW o \in Ops, HandleWrite(o) PROVE StoreStep
  BY <1>5 DEF HandleWrite, StoreStep, Taken
<1>6. ASSUME NEW o \in Ops, GetReplicaAddrs(o) \/ LookupFails(o) PROVE StoreStep
  <2>1. hd[o] = "lookup" /\ hd' = [hd EXCEPT ![o] = "fanout"]
    BY <1>6 DEF GetReplicaAddrs, LookupFails
  <2>2. UNCHANGED <<seq, store, lastSeq, phase>>
    BY <1>6 DEF GetReplicaAddrs, LookupFails, chunkVars
  <2> QED
    BY <2>1, <2>2 DEF StoreStep, Untouched, SameHandled, Handled, Up, TypeOK
<1>8. ASSUME NEW o \in Ops, SendWriteResponse(o) PROVE StoreStep
  <2>1. hd[o] = "fanout" /\ hd' = [hd EXCEPT ![o] = "done"]
    BY <1>8 DEF SendWriteResponse
  <2>2. UNCHANGED <<seq, store, lastSeq, phase>>
    BY <1>8 DEF SendWriteResponse, chunkVars
  <2> QED
    BY <2>1, <2>2 DEF StoreStep, Untouched, SameHandled, Handled, Up, TypeOK
<1>9. ASSUME NEW o \in Ops, NEW c \in Chunks, ReplicateTo(o, c) PROVE StoreStep
  BY <1>9, <1>q DEF ReplicateTo, chunkVars, Up
<1>10. ASSUME NEW o \in Ops, NEW c \in Chunks, HandleReplicate(o, c) PROVE StoreStep
  <2>1. Put(c, o) /\ Handled(o) /\ UNCHANGED <<seq, phase, hd>>
    BY <1>10 DEF HandleReplicate, SentHandled
  <2> QED
    BY <2>1 DEF StoreStep, Delivered
<1>11. ASSUME NEW o \in Ops, HandleWALNotify(o) PROVE StoreStep
  BY <1>11, <1>q DEF HandleWALNotify, chunkVars, opVars, Up
<1>12. ASSUME NEW o \in Ops, ClientCrash(o) PROVE StoreStep
  BY <1>12, <1>q DEF ClientCrash, chunkVars, Up
<1>13. ASSUME NEW o \in Ops, ClientLosesConn(o) PROVE StoreStep
  <2>1. \/ hd' = hd
        \/ hd[o] = "sent" /\ hd' = [hd EXCEPT ![o] = "lost"]
    BY <1>13 DEF ClientLosesConn
  <2>2. UNCHANGED <<seq, store, lastSeq, phase>>
    BY <1>13 DEF ClientLosesConn, chunkVars
  <2> QED
    BY <2>1, <2>2 DEF StoreStep, Untouched, SameHandled, Handled, Up, TypeOK
<1>14. ASSUME NEW o \in Ops, NotifyLost(o) PROVE StoreStep
  BY <1>14, <1>q DEF NotifyLost, chunkVars, opVars, Up
<1>15. ASSUME NEW o \in Ops, NEW c \in Chunks, ReplicateFails(o, c) PROVE StoreStep
  BY <1>15, <1>q DEF ReplicateFails, chunkVars, Up
<1>16. ASSUME NEW c \in Chunks, SendRegister(c) PROVE StoreStep
  BY <1>16, <1>q DEF SendRegister, opVars, Up, TypeOK
<1>17. ASSUME NEW c \in Chunks, HandleRegister(c) PROVE StoreStep
  BY <1>17, <1>q DEF HandleRegister, opVars, Up, TypeOK
<1>18. ASSUME NEW c \in Chunks, SendRecovery(c) PROVE StoreStep
  BY <1>18, <1>q DEF SendRecovery, opVars, Up, TypeOK
<1>19. ASSUME NEW c \in Chunks, ApplyRecovery(c) PROVE StoreStep
  <2>1. PICK i \in replay[c] : Put(c, wal[i])
    BY <1>19 DEF ApplyRecovery
  <2>2. wal[i] \in Ops /\ Handled(wal[i])
    BY ReplayTyped DEF SentHandled
  <2>3. UNCHANGED <<seq, phase, hd>>
    BY <1>19 DEF ApplyRecovery, opVars
  <2> QED
    BY <2>1, <2>2, <2>3 DEF StoreStep, Delivered
<1>20. ASSUME NEW c \in Chunks, FinishRecovery(c) PROVE StoreStep
  BY <1>20, <1>q DEF FinishRecovery, opVars, Up, TypeOK
<1>21. ASSUME NEW c \in Chunks, SendHeartbeat(c) \/ MonitorHealth(c) PROVE StoreStep
  BY <1>21, <1>q DEF SendHeartbeat, MonitorHealth, chunkVars, opVars, Up
<1>23. ASSUME NEW c \in Chunks, ChunkStart(c) PROVE StoreStep
  BY <1>23 DEF ChunkStart, LoadedLastSeq, opVars, StoreStep, Started, SameHandled, Handled
<1>24. ASSUME NEW c \in Chunks, ChunkCrash(c) PROVE StoreStep
  <2>1. SameHandled
    BY <1>24 DEF ChunkCrash, SameHandled, Handled, TypeOK
  <2>2. Stopped(c)
    BY <1>24, <2>1 DEF ChunkCrash, Stopped
  <2> QED
    BY <2>2 DEF StoreStep
<1>25. ASSUME NEW c \in Chunks, RegisterFails(c) PROVE StoreStep
  BY <1>25, <1>q DEF RegisterFails, opVars, Up, TypeOK
<1>26. ASSUME NEW c \in Chunks, LoseHeartbeats(c) PROVE StoreStep
  BY <1>26, <1>q DEF LoseHeartbeats, chunkVars, opVars, Up
<1>27. CASE MasterStart
  BY <1>27, <1>q DEF MasterStart, chunkVars, opVars, Up
<1>28. CASE MasterCrash
  <2>1. \A c \in Chunks : Up(c)' => Up(c)
    BY <1>28 DEF MasterCrash, Up
  <2>2. Quiet
    BY <1>28 DEF MasterCrash
  <2> QED
    BY <2>1, <2>2, <1>q
<1>29. CASE UNCHANGED vars
  BY <1>29, <1>q DEF vars, chunkVars, opVars, Up
<1> QED
  BY <1>1, <1>2, <1>3, <1>4, <1>5, <1>6, <1>8, <1>9, <1>10, <1>11, <1>12,
     <1>13, <1>14, <1>15, <1>16, <1>17, <1>18, <1>19, <1>20, <1>21, <1>23,
     <1>24, <1>25, <1>26, <1>27, <1>28, <1>29
  DEF Next, ClientStep, HandlerStep, RegisterStep, OpFault, ChunkFault
(* The facts most lemmas below need of such a step.                        *)

StoreEffect ==
    \/ /\ \E c \in Chunks, o \in Ops : Put(c, o) /\ Handled(o)'
       /\ UNCHANGED <<seq, phase>>
    \/ \E c \in Chunks : Stopped(c) \/ Started(c)
    \/ /\ UNCHANGED <<store, lastSeq>>
       /\ \A c \in Chunks : Up(c)' => Up(c)

Effect ==
    /\ \A o \in Ops : Handled(o) => Handled(o)' /\ seq'[o] = seq[o]
    /\ \A o \in Ops : Handled(o)' /\ ~Handled(o) =>
            Put(Primary, o) /\ UNCHANGED seq
    /\ StoreEffect

LEMMA StepEffect ==
    ASSUME TypeOK, StoreStep
    PROVE  Effect
<1>1. ASSUME NEW o \in Ops, Numbered(o) PROVE Effect
  BY <1>1 DEF Numbered, Effect, StoreEffect, Handled, Up, TypeOK
<1>2. ASSUME NEW o \in Ops, Taken(o) PROVE Effect
  <2>1. \A p \in Ops : Handled(p)' <=> Handled(p) \/ p = o
    BY <1>2 DEF Taken, Handled, TypeOK
  <2> QED
    BY <1>2, <2>1, ChunkAssumption DEF Taken, Effect, StoreEffect
<1>3. ASSUME NEW c \in Chunks, Stopped(c) \/ Started(c) PROVE Effect
  BY <1>3 DEF Stopped, Started, SameHandled, Effect, StoreEffect
<1>4. ASSUME NEW c \in Chunks, NEW o \in Ops, Delivered(c, o) PROVE Effect
  BY <1>4 DEF Delivered, Effect, StoreEffect, Handled
<1>5. CASE Untouched
  BY <1>5 DEF Untouched, SameHandled, Effect, StoreEffect
<1> QED
  BY <1>1, <1>2, <1>3, <1>4, <1>5 DEF StoreStep

-----------------------------------------------------------------------------
(* What one Put does.                                                      *)

(* A Put changes at most its own key of its own chunk, which then holds    *)
(* the operation or something at least as new.                             *)
LEMMA PutEffect ==
    ASSUME TypeOK, NEW c \in Chunks, NEW o \in Ops, Put(c, o), UNCHANGED seq
    PROVE  /\ AtLeast(c, o)'
           /\ NeverBack
           /\ \A d \in Chunks, k \in Keys :
                 \/ store'[d][k] = store[d][k]
                 \/ d = c /\ k = OpKey[o] /\ store'[d][k] = o
<1>1. OpKey[o] \in Keys
  BY OpAssumption
<1>2. CASE Supersedes(o, store[c][OpKey[o]])
  <2>1. store' = [store EXCEPT ![c] = [store[c] EXCEPT ![OpKey[o]] = o]]
    BY <1>2 DEF Put
  <2>2. /\ store'[c][OpKey[o]] = o
        /\ \A d \in Chunks, k \in Keys :
              d # c \/ k # OpKey[o] => store'[d][k] = store[d][k]
    BY <2>1, <1>1 DEF TypeOK
  <2>3. AtLeast(c, o)'
    BY <2>2, OpAssumption DEF AtLeast, TypeOK
  <2>4. store[c][OpKey[o]] # None => seq[o] >= seq[store[c][OpKey[o]]]
    BY <1>1, <1>2 DEF Supersedes, TypeOK
  <2>5. \A d \in Chunks, k \in Keys : store[d][k] # None => seq[store[d][k]] \in Nat
    BY DEF TypeOK
  <2>6. NeverBack
    BY <2>2, <2>4, <2>5, OpAssumption DEF NeverBack
  <2> QED
    BY <2>2, <2>3, <2>6
<1>3. CASE ~Supersedes(o, store[c][OpKey[o]])
  <2>1. UNCHANGED store
    BY <1>3 DEF Put
  <2>2. AtLeast(c, o)
    BY <1>1, <1>3 DEF Supersedes, AtLeast, TypeOK
  <2>3. \A d \in Chunks, k \in Keys : store[d][k] # None => seq[store[d][k]] \in Nat
    BY DEF TypeOK
  <2> QED
    BY <2>1, <2>2, <2>3 DEF AtLeast, NeverBack
<1> QED
  BY <1>2, <1>3

(* Versions never go back: the step form of VersionsNeverGoBack.           *)
LEMMA NeverBackStep ==
    ASSUME TypeOK, StoredHandled, Effect
    PROVE  NeverBack
<1>1. CASE \E c \in Chunks, o \in Ops : Put(c, o) /\ Handled(o)' /\ UNCHANGED <<seq, phase>>
  BY <1>1, PutEffect
<1>2. CASE UNCHANGED store
  <2>1. \A c \in Chunks, k \in Keys : store[c][k] # None =>
            /\ store[c][k] \in Ops
            /\ seq'[store[c][k]] = seq[store[c][k]]
            /\ seq[store[c][k]] \in Nat
    BY DEF StoredHandled, Effect, TypeOK
  <2> QED
    BY <1>2, <2>1 DEF NeverBack
<1> QED
  BY <1>1, <1>2 DEF Effect, StoreEffect, Stopped, Started

(* What a chunk has, it keeps.                                             *)
LEMMA AtLeastKept ==
    ASSUME TypeOK, TypeOK', StoredHandled, Effect,
           NEW c \in Chunks, NEW o \in Ops, Handled(o), AtLeast(c, o)
    PROVE  AtLeast(c, o)'
<1>1. OpKey[o] \in Keys
  BY OpAssumption
<1>2. /\ store'[c][OpKey[o]] # None
      /\ seq'[store'[c][OpKey[o]]] >= seq[store[c][OpKey[o]]]
  BY <1>1, NeverBackStep DEF NeverBack, AtLeast
<1>3. seq'[o] = seq[o]
  BY DEF Effect
<1>4. /\ seq'[store'[c][OpKey[o]]] \in Nat /\ seq[store[c][OpKey[o]]] \in Nat
      /\ seq[o] \in Nat
  <2>1. store[c][OpKey[o]] # None
    BY DEF AtLeast
  <2>2. store[c][OpKey[o]] \in Ops /\ store'[c][OpKey[o]] \in Ops
    BY <1>1, <1>2, <2>1 DEF TypeOK
  <2> QED
    BY <2>2 DEF TypeOK
<1> QED
  BY <1>2, <1>3, <1>4 DEF AtLeast

-----------------------------------------------------------------------------
(* Each part of the invariant is preserved.                                *)

LEMMA StoredHandledStep ==
    ASSUME TypeOK, StoredHandled, Effect
    PROVE  StoredHandled'
<1>1. CASE \E c \in Chunks, o \in Ops : Put(c, o) /\ Handled(o)' /\ UNCHANGED <<seq, phase>>
  <2>1. PICK c \in Chunks, o \in Ops : Put(c, o) /\ Handled(o)' /\ UNCHANGED seq
    BY <1>1
  <2>2. \A d \in Chunks, k \in Keys :
            \/ store'[d][k] = store[d][k]
            \/ d = c /\ k = OpKey[o] /\ store'[d][k] = o
    BY <2>1, PutEffect
  <2> SUFFICES ASSUME NEW d \in Chunks, NEW k \in Keys, store'[d][k] # None
               PROVE  Handled(store[d][k])' /\ OpKey[store'[d][k]] = k
    BY DEF StoredHandled
  <2>3. CASE store'[d][k] = store[d][k]
    <3>1. store[d][k] \in Ops /\ Handled(store[d][k]) /\ OpKey[store[d][k]] = k
      BY <2>3 DEF StoredHandled, TypeOK
    <3> QED
      BY <2>3, <3>1 DEF Effect, Handled
  <2>4. CASE k = OpKey[o] /\ store'[d][k] = o
    BY <2>1, <2>4 DEF Handled
  <2> QED
    BY <2>2, <2>3, <2>4
<1>2. CASE UNCHANGED store
  BY <1>2 DEF StoredHandled, Effect, TypeOK
<1> QED
  BY <1>1, <1>2 DEF Effect, StoreEffect, Stopped, Started

LEMMA OnPrimaryStep ==
    ASSUME TypeOK, TypeOK', StoredHandled, OnPrimary, Effect
    PROVE  OnPrimary'
<1> SUFFICES ASSUME NEW o \in Ops, Handled(o)'
             PROVE  AtLeast(Primary, o)'
  BY DEF OnPrimary
<1>1. CASE Handled(o)
  BY <1>1, AtLeastKept, ChunkAssumption DEF OnPrimary
<1>2. CASE ~Handled(o)
  BY <1>2, PutEffect, ChunkAssumption DEF Effect
<1> QED
  BY <1>1, <1>2

LEMMA NotStartedStep ==
    ASSUME TypeOK, NotStarted, [Next]_vars
    PROVE  NotStarted'
<1>q. ASSUME UNCHANGED <<cl, seq, hd>> PROVE NotStarted'
  BY <1>q DEF NotStarted
<1>1. ASSUME NEW o \in Ops, HandleGetPrimary(o) PROVE NotStarted'
  <2>1. hd[o] = "none" /\ hd' = hd
    BY <1>1 DEF HandleGetPrimary, NotStarted
  <2>2. cl'[o] \in {"granted", "failed"}
    BY <1>1 DEF HandleGetPrimary, TypeOK
  <2>3. \A p \in Ops : p # o => cl'[p] = cl[p] /\ seq'[p] = seq[p]
    BY <1>1 DEF HandleGetPrimary, TypeOK
  <2>4. cl'[o] = "granted" => seq'[o] # 0
    BY <1>1 DEF HandleGetPrimary, NextSeqNum, TypeOK
  <2> QED
    BY <2>1, <2>2, <2>3, <2>4 DEF NotStarted
<1>2. ASSUME NEW o \in Ops, SendWrite(o) PROVE NotStarted'
  BY <1>2 DEF SendWrite, NotStarted, TypeOK
<1>3. ASSUME NEW o \in Ops, DialFails(o) PROVE NotStarted'
  BY <1>3 DEF DialFails, NotStarted, TypeOK
<1>4. ASSUME NEW o \in Ops, NotifyMasterWAL(o) PROVE NotStarted'
  BY <1>4 DEF NotifyMasterWAL, NotStarted, TypeOK
<1>5. ASSUME NEW o \in Ops, HandleWrite(o) PROVE NotStarted'
  BY <1>5 DEF HandleWrite, NotStarted, TypeOK
<1>6. ASSUME NEW o \in Ops, GetReplicaAddrs(o) PROVE NotStarted'
  BY <1>6 DEF GetReplicaAddrs, NotStarted, TypeOK
<1>7. ASSUME NEW o \in Ops, LookupFails(o) PROVE NotStarted'
  BY <1>7 DEF LookupFails, NotStarted, TypeOK
<1>8. ASSUME NEW o \in Ops, SendWriteResponse(o) PROVE NotStarted'
  BY <1>8 DEF SendWriteResponse, NotStarted, TypeOK
<1>9. ASSUME NEW o \in Ops, NEW c \in Chunks,
             ReplicateTo(o, c) \/ HandleReplicate(o, c) \/ ReplicateFails(o, c)
      PROVE  NotStarted'
  BY <1>9, <1>q DEF ReplicateTo, HandleReplicate, ReplicateFails
<1>11. ASSUME NEW o \in Ops, HandleWALNotify(o) \/ NotifyLost(o) PROVE NotStarted'
  BY <1>11, <1>q DEF HandleWALNotify, NotifyLost, opVars
<1>12. ASSUME NEW o \in Ops, ClientCrash(o) PROVE NotStarted'
  BY <1>12 DEF ClientCrash, NotStarted, TypeOK
<1>13. ASSUME NEW o \in Ops, ClientLosesConn(o) PROVE NotStarted'
  BY <1>13 DEF ClientLosesConn, NotStarted, TypeOK
<1>16. ASSUME NEW c \in Chunks, RegisterStep(c) PROVE NotStarted'
  BY <1>16, <1>q DEF RegisterStep, SendRegister, HandleRegister, SendRecovery,
                     ApplyRecovery, FinishRecovery, opVars
<1>21. ASSUME NEW c \in Chunks, SendHeartbeat(c) \/ MonitorHealth(c) \/ ChunkStart(c)
       PROVE NotStarted'
  BY <1>21, <1>q DEF SendHeartbeat, MonitorHealth, ChunkStart, opVars
<1>24. ASSUME NEW c \in Chunks, ChunkCrash(c) PROVE NotStarted'
  BY <1>24 DEF ChunkCrash, NotStarted, TypeOK
<1>25. ASSUME NEW c \in Chunks, RegisterFails(c) \/ LoseHeartbeats(c) PROVE NotStarted'
  BY <1>25, <1>q DEF RegisterFails, LoseHeartbeats, opVars
<1>27. CASE MasterStart
  BY <1>27, <1>q DEF MasterStart, opVars
<1>28. CASE MasterCrash
  BY <1>28 DEF MasterCrash, NotStarted, TypeOK
<1>29. CASE UNCHANGED vars
  BY <1>29, <1>q DEF vars, opVars
<1> QED
  BY <1>1, <1>2, <1>3, <1>4, <1>5, <1>6, <1>7, <1>8, <1>9, <1>11, <1>12, <1>13,
     <1>16, <1>21, <1>24, <1>25, <1>27, <1>28, <1>29
  DEF Next, ClientStep, HandlerStep, OpFault, ChunkFault

LEMMA SentHandledStep ==
    ASSUME TypeOK, SentHandled, Effect, [Next]_vars
    PROVE  SentHandled'
<1>h. \A o \in Ops : Handled(o) => Handled(o)'
  BY DEF Effect
<1>t. \A i \in DOMAIN wal : wal[i] \in Ops
  BY DEF TypeOK
<1>q. ASSUME UNCHANGED wal, notices' \subseteq notices, repl' \subseteq repl,
             \A o \in Ops : Acked(o)' => Acked(o)
      PROVE  SentHandled'
  BY <1>q, <1>h, <1>t DEF SentHandled, TypeOK
<1>1. ASSUME NEW o \in Ops, HandleGetPrimary(o) PROVE SentHandled'
  <2>1. UNCHANGED <<wal, notices, repl>>
    BY <1>1 DEF HandleGetPrimary
  <2>2. cl'[o] \in {"granted", "failed"} /\ \A p \in Ops : p # o => cl'[p] = cl[p]
    BY <1>1 DEF HandleGetPrimary, TypeOK
  <2> QED
    BY <2>1, <2>2, <1>q DEF Acked
<1>2. ASSUME NEW o \in Ops, SendWrite(o) PROVE SentHandled'
  BY <1>2, <1>q DEF SendWrite, masterVars, Acked, TypeOK
<1>3. ASSUME NEW o \in Ops, DialFails(o) PROVE SentHandled'
  BY <1>3, <1>q DEF DialFails, masterVars, Acked, TypeOK
<1>4. ASSUME NEW o \in Ops, NotifyMasterWAL(o) PROVE SentHandled'
  <2>1. Handled(o)
    BY <1>4 DEF NotifyMasterWAL, SentHandled, Acked
  <2>2. UNCHANGED <<wal, repl>> /\ notices' \subseteq notices \cup {o}
    BY <1>4 DEF NotifyMasterWAL
  <2>3. \A p \in Ops : Acked(p)' => Acked(p)
    BY <1>4 DEF NotifyMasterWAL, Acked, TypeOK
  <2> QED
    BY <2>1, <2>2, <2>3, <1>h, <1>t DEF SentHandled, TypeOK
<1>5. ASSUME NEW o \in Ops, HandleWrite(o) PROVE SentHandled'
  BY <1>5, <1>q DEF HandleWrite, masterVars, Acked
<1>6. ASSUME NEW o \in Ops, GetReplicaAddrs(o) PROVE SentHandled'
  BY <1>6, <1>q DEF GetReplicaAddrs, Acked
<1>7. ASSUME NEW o \in Ops, LookupFails(o) PROVE SentHandled'
  BY <1>7, <1>q DEF LookupFails, masterVars, Acked
<1>8. ASSUME NEW o \in Ops, SendWriteResponse(o) PROVE SentHandled'
  <2>1. Handled(o)
    BY <1>8 DEF SendWriteResponse, Handled
  <2>2. UNCHANGED <<wal, notices, repl>>
    BY <1>8 DEF SendWriteResponse, masterVars
  <2>3. \A p \in Ops : Acked(p)' => Acked(p) \/ p = o
    BY <1>8 DEF SendWriteResponse, Acked, TypeOK
  <2> QED
    BY <2>1, <2>2, <2>3, <1>h, <1>t DEF SentHandled, TypeOK
<1>9. ASSUME NEW o \in Ops, NEW c \in Chunks, ReplicateTo(o, c) PROVE SentHandled'
  <2>1. Handled(o)
    BY <1>9 DEF ReplicateTo, Handled
  <2>2. UNCHANGED <<wal, notices, cl>> /\ repl' \subseteq repl \cup {<<o, c>>}
    BY <1>9 DEF ReplicateTo, masterVars
  <2> QED
    BY <2>1, <2>2, <1>h, <1>t DEF SentHandled, TypeOK, Acked
<1>10. ASSUME NEW o \in Ops, NEW c \in Chunks, HandleReplicate(o, c) \/ ReplicateFails(o, c)
       PROVE  SentHandled'
  BY <1>10, <1>q DEF HandleReplicate, ReplicateFails, masterVars, Acked
<1>11. ASSUME NEW o \in Ops, HandleWALNotify(o) PROVE SentHandled'
  <2>1. Handled(o)
    BY <1>11 DEF HandleWALNotify, SentHandled
  <2>2. UNCHANGED <<cl, repl>> /\ notices' \subseteq notices /\ wal' = Append(wal, o)
    BY <1>11 DEF HandleWALNotify, opVars
  <2>3. \A i \in DOMAIN wal' : wal'[i] = o \/ (i \in DOMAIN wal /\ wal'[i] = wal[i])
    BY <2>2, AppendFacts DEF TypeOK
  <2>4. ASSUME NEW i \in DOMAIN wal' PROVE Handled(wal[i])'
    <3>1. wal'[i] \in Ops /\ Handled(wal'[i])
      BY <2>1, <2>3, <1>t DEF SentHandled
    <3> QED
      BY <3>1, <1>h DEF Handled
  <2> QED
    BY <2>2, <2>4, <1>h DEF SentHandled, TypeOK, Acked
<1>12. ASSUME NEW o \in Ops, ClientCrash(o) \/ ClientLosesConn(o) PROVE SentHandled'
  <2>1. UNCHANGED <<wal, notices, repl>>
    BY <1>12 DEF ClientCrash, ClientLosesConn, masterVars
  <2>2. \A p \in Ops : Acked(p)' => Acked(p)
    BY <1>12 DEF ClientCrash, ClientLosesConn, Acked, TypeOK
  <2> QED
    BY <2>1, <2>2, <1>q
<1>14. ASSUME NEW o \in Ops, NotifyLost(o) PROVE SentHandled'
  BY <1>14, <1>q DEF NotifyLost, opVars, Acked
<1>16. ASSUME NEW c \in Chunks, RegisterStep(c) PROVE SentHandled'
  BY <1>16, <1>q DEF RegisterStep, SendRegister, HandleRegister, SendRecovery,
                     ApplyRecovery, FinishRecovery, masterVars, opVars, Acked
<1>21. ASSUME NEW c \in Chunks, SendHeartbeat(c) \/ MonitorHealth(c) \/ ChunkStart(c)
       PROVE SentHandled'
  BY <1>21, <1>q DEF SendHeartbeat, MonitorHealth, ChunkStart, masterVars, opVars, Acked
<1>24. ASSUME NEW c \in Chunks, ChunkCrash(c) PROVE SentHandled'
  <2>1. UNCHANGED <<wal, notices>> /\ repl' \subseteq repl
    BY <1>24 DEF ChunkCrash, masterVars
  <2>2. \A p \in Ops : Acked(p)' => Acked(p)
    BY <1>24 DEF ChunkCrash, Acked, TypeOK
  <2> QED
    BY <2>1, <2>2, <1>q
<1>25. ASSUME NEW c \in Chunks, RegisterFails(c) \/ LoseHeartbeats(c) PROVE SentHandled'
  BY <1>25, <1>q DEF RegisterFails, LoseHeartbeats, masterVars, opVars, Acked
<1>27. CASE MasterStart
  BY <1>27, <1>q DEF MasterStart, opVars, Acked
<1>28. CASE MasterCrash
  <2>1. UNCHANGED <<wal, repl>> /\ notices' \subseteq notices
    BY <1>28 DEF MasterCrash
  <2>2. \A p \in Ops : Acked(p)' => Acked(p)
    BY <1>28 DEF MasterCrash, Acked, TypeOK
  <2> QED
    BY <2>1, <2>2, <1>q
<1>29. CASE UNCHANGED vars
  BY <1>29, <1>q DEF vars, masterVars, opVars, Acked
<1> QED
  BY <1>1, <1>2, <1>3, <1>4, <1>5, <1>6, <1>7, <1>8, <1>9, <1>10, <1>11, <1>12,
     <1>14, <1>16, <1>21, <1>24, <1>25, <1>27, <1>28, <1>29
  DEF Next, ClientStep, HandlerStep, OpFault, ChunkFault
-----------------------------------------------------------------------------
(* Largest SeqNums.                                                        *)

LEMMA WalMaxStep ==
    ASSUME TypeOK, TypeOK', SentHandled, Effect, [Next]_vars,
           \E m \in Nat : IsMax(m, WalSeqs)
    PROVE  \E m \in Nat : IsMax(m, WalSeqs')
<1>1. \A i \in DOMAIN wal : wal[i] \in Ops /\ seq'[wal[i]] = seq[wal[i]] /\ seq[wal[i]] \in Nat
  BY DEF TypeOK, SentHandled, Effect
<1>2. wal' = wal \/ \E o \in Ops : wal' = Append(wal, o) /\ UNCHANGED seq
  <2>1. ASSUME NEW o \in Ops, ClientStep(o) \/ HandleGetPrimary(o) \/ OpFault(o)
        PROVE  wal' = wal
    BY <2>1 DEF ClientStep, HandleGetPrimary, OpFault, SendWrite, DialFails,
                NotifyMasterWAL, LookupFails, ClientCrash, ClientLosesConn,
                NotifyLost, ReplicateFails, masterVars
  <2>2. ASSUME NEW o \in Ops, HandlerStep(o) PROVE wal' = wal
    BY <2>2 DEF HandlerStep, HandleWrite, GetReplicaAddrs, LookupFails,
                SendWriteResponse, ReplicateTo, HandleReplicate, masterVars
  <2>3. ASSUME NEW o \in Ops, HandleWALNotify(o)
        PROVE  wal' = Append(wal, o) /\ UNCHANGED seq
    BY <2>3 DEF HandleWALNotify, opVars
  <2>4. ASSUME NEW c \in Chunks, RegisterStep(c) PROVE wal' = wal
    BY <2>4 DEF RegisterStep, SendRegister, HandleRegister, SendRecovery,
                ApplyRecovery, FinishRecovery, masterVars
  <2>5. ASSUME NEW c \in Chunks,
               SendHeartbeat(c) \/ MonitorHealth(c) \/ ChunkStart(c) \/ ChunkFault(c)
        PROVE  wal' = wal
    BY <2>5 DEF SendHeartbeat, MonitorHealth, ChunkStart, ChunkFault, ChunkCrash,
                RegisterFails, LoseHeartbeats, masterVars
  <2>6. CASE MasterStart \/ MasterCrash
    BY <2>6 DEF MasterStart, MasterCrash
  <2>7. CASE UNCHANGED vars
    BY <2>7 DEF vars, masterVars
  <2> QED
    BY <2>1, <2>2, <2>3, <2>4, <2>5, <2>6, <2>7 DEF Next
<1>3. CASE wal' = wal
  <2>1. WalSeqs' = WalSeqs
    BY <1>1, <1>3 DEF WalSeqs
  <2> QED
    BY <2>1
<1>4. ASSUME NEW o \in Ops, wal' = Append(wal, o), UNCHANGED seq
      PROVE  \E m \in Nat : IsMax(m, WalSeqs')
  <2>1. PICK m \in Nat : IsMax(m, WalSeqs)
    OBVIOUS
  <2>2. /\ DOMAIN wal' = DOMAIN wal \cup {Len(wal) + 1}
        /\ \A i \in DOMAIN wal : wal'[i] = wal[i]
        /\ wal'[Len(wal) + 1] = o
    <3>1. wal \in Seq(Ops)
      BY DEF TypeOK
    <3> QED
      BY ONLY <1>4, <3>1, o \in Ops
  <2>3. WalSeqs' = WalSeqs \cup {seq[o]}
    BY <2>2, <1>4 DEF WalSeqs
  <2>4. seq[o] \in Nat /\ WalSeqs \in SUBSET Nat
    BY SeqsInNat DEF TypeOK
  <2>5. Later(seq[o], m) \in Nat /\ IsMax(Later(seq[o], m), WalSeqs')
    BY <2>1, <2>3, <2>4 DEF Later, IsMax
  <2> QED
    BY <2>5
<1> QED
  BY <1>2, <1>3, <1>4

(* A Put moves the largest SeqNum of a store the way it moves lastSeq.     *)
LEMMA PutMax ==
    ASSUME TypeOK, NEW c \in Chunks, NEW o \in Ops, Put(c, o), UNCHANGED seq,
           NEW m \in Nat, IsMax(m, StoredSeqs(c))
    PROVE  IF Supersedes(o, store[c][OpKey[o]])
           THEN IsMax(Later(seq[o], m), StoredSeqs(c)')
           ELSE IsMax(m, StoredSeqs(c)')
<1>1. CASE Supersedes(o, store[c][OpKey[o]])
  <2>1. store' = [store EXCEPT ![c] = [store[c] EXCEPT ![OpKey[o]] = o]]
    BY <1>1 DEF Put
  <2>2. /\ OpKey[o] \in Keys
        /\ store'[c][OpKey[o]] = o
        /\ \A k \in Keys : k # OpKey[o] => store'[c][k] = store[c][k]
    BY <2>1, OpAssumption DEF TypeOK
  <2>3. \A k \in Keys : store[c][k] # None =>
            seq[store[c][k]] \in StoredSeqs(c) /\ seq[store[c][k]] \in Nat
    BY DEF StoredSeqs, TypeOK
  <2>4. \A n \in StoredSeqs(c)' :
            n = 0 \/ n = seq[o] \/ \E k \in Keys : store[c][k] # None /\ n = seq[store[c][k]]
    BY <2>2 DEF StoredSeqs
  <2>5. seq[o] \in Nat
    BY DEF TypeOK
  <2>6. \A n \in StoredSeqs(c)' : n <= Later(seq[o], m)
    BY <2>3, <2>4, <2>5 DEF IsMax, Later
  <2>7. seq[o] \in StoredSeqs(c)'
    BY <2>2, OpAssumption DEF StoredSeqs
  <2>8. ASSUME m > seq[o] PROVE m \in StoredSeqs(c)'
    <3>1. PICK k \in Keys : store[c][k] # None /\ m = seq[store[c][k]]
      BY <2>5, <2>8 DEF IsMax, StoredSeqs
    <3>2. k # OpKey[o]
      BY <1>1, <2>5, <2>8, <3>1 DEF Supersedes
    <3> QED
      BY <2>2, <3>1, <3>2 DEF StoredSeqs
  <2>9. m <= seq[o] => Later(seq[o], m) = seq[o]
    BY <2>5 DEF Later
  <2> QED
    BY <1>1, <2>5, <2>6, <2>7, <2>8, <2>9 DEF IsMax, Later
<1>2. CASE ~Supersedes(o, store[c][OpKey[o]])
  <2>1. UNCHANGED store
    BY <1>2 DEF Put
  <2>2. StoredSeqs(c)' = StoredSeqs(c)
    BY <2>1 DEF StoredSeqs
  <2> QED
    BY <1>2, <2>2
<1> QED
  BY <1>1, <1>2

LEMMA StoredSeqsKept ==
    ASSUME TypeOK, StoredHandled, Effect, NEW c \in Chunks, store'[c] = store[c]
    PROVE  StoredSeqs(c)' = StoredSeqs(c)
<1>1. \A k \in Keys : store[c][k] # None => seq'[store[c][k]] = seq[store[c][k]]
  BY DEF StoredHandled, Effect, TypeOK
<1> QED
  BY <1>1 DEF StoredSeqs

LEMMA StoredMaxStep ==
    ASSUME TypeOK, StoredHandled, Effect,
           NEW c \in Chunks, \E m \in Nat : IsMax(m, StoredSeqs(c))
    PROVE  \E m \in Nat : IsMax(m, StoredSeqs(c)')
<1>1. CASE store'[c] = store[c]
  BY <1>1, StoredSeqsKept
<1>2. CASE store'[c] # store[c]
  <2>1. PICK d \in Chunks, o \in Ops : Put(d, o) /\ UNCHANGED seq
    BY <1>2 DEF Effect, StoreEffect, Stopped, Started
  <2>2. d = c
    BY <1>2, <2>1 DEF Put, TypeOK
  <2>3. PICK m \in Nat : IsMax(m, StoredSeqs(c))
    OBVIOUS
  <2>4. Later(seq[o], m) \in Nat
    BY DEF Later, TypeOK
  <2> QED
    BY <2>1, <2>2, <2>3, <2>4, PutMax
<1> QED
  BY <1>1, <1>2

LEMMA LastSeqStep ==
    ASSUME TypeOK, TypeOK', MaxExists, StoredHandled, LastSeqIsMax, Effect
    PROVE  LastSeqIsMax'
<1> SUFFICES ASSUME NEW c \in Chunks, Up(c)'
             PROVE  IsMax(lastSeq'[c], StoredSeqs(c)')
  BY DEF LastSeqIsMax, IsMax
<1>1. ASSUME NEW d \in Chunks, NEW o \in Ops, Put(d, o), UNCHANGED <<seq, phase>>
      PROVE  IsMax(lastSeq'[c], StoredSeqs(c)')
  <2>1. lastSeq[c] \in Nat /\ IsMax(lastSeq[c], StoredSeqs(c))
    BY <1>1 DEF Up, LastSeqIsMax, IsMax, TypeOK
  <2>2. CASE d = c /\ Supersedes(o, store[c][OpKey[o]])
    <3>1. lastSeq'[c] = Later(seq[o], lastSeq[c])
      BY <1>1, <2>2 DEF Put, TypeOK
    <3> QED
      BY <1>1, <2>1, <2>2, <3>1, PutMax
  <2>3. CASE ~(d = c /\ Supersedes(o, store[c][OpKey[o]]))
    <3>1. lastSeq'[c] = lastSeq[c] /\ store'[c] = store[c]
      BY <1>1, <2>3 DEF Put, TypeOK
    <3> QED
      BY <2>1, <3>1, StoredSeqsKept
  <2> QED
    BY <2>2, <2>3
<1>2. ASSUME NEW d \in Chunks, Stopped(d)
      PROVE  IsMax(lastSeq'[c], StoredSeqs(c)')
  <2>1. d # c /\ Up(c) /\ UNCHANGED store
    BY <1>2 DEF Stopped, Up, TypeOK
  <2>2. lastSeq'[c] = lastSeq[c]
    BY <1>2, <2>1 DEF Stopped, TypeOK
  <2> QED
    BY <2>1, <2>2, StoredSeqsKept DEF LastSeqIsMax, IsMax
<1>3. ASSUME NEW d \in Chunks, Started(d)
      PROVE  IsMax(lastSeq'[c], StoredSeqs(c)')
  <2>1. StoredSeqs(c)' = StoredSeqs(c)
    BY <1>3, StoredSeqsKept DEF Started
  <2>2. CASE d = c
    <3>1. PICK m \in Nat : IsMax(m, StoredSeqs(c))
      BY DEF MaxExists
    <3>2. Max(StoredSeqs(c)) = m
      BY <3>1, MaxIsMax, SeqsInNat
    <3>3. lastSeq'[c] = m
      BY <1>3, <2>2, <3>2 DEF Started, TypeOK
    <3> QED
      BY <2>1, <3>1, <3>3
  <2>3. CASE d # c
    <3>1. Up(c) /\ lastSeq'[c] = lastSeq[c]
      BY <1>3, <2>3 DEF Started, Up, TypeOK
    <3> QED
      BY <2>1, <3>1 DEF LastSeqIsMax, IsMax
  <2> QED
    BY <2>2, <2>3
<1>4. CASE UNCHANGED <<store, lastSeq>> /\ \A d \in Chunks : Up(d)' => Up(d)
  BY <1>4, StoredSeqsKept DEF LastSeqIsMax, IsMax
<1> QED
  BY <1>1, <1>2, <1>3, <1>4 DEF Effect, StoreEffect

LEMMA IInvStep ==
    ASSUME IInv, [Next]_vars
    PROVE  IInv' /\ StoreStep /\ Effect
<1> USE DEF IInv
<1>1. TypeOK'
  BY TypeStep
<1>2. StoreStep /\ Effect
  BY StepIsStoreStep, StepEffect
<1>3. NotStarted'
  BY NotStartedStep
<1>4. StoredHandled'
  BY <1>2, StoredHandledStep
<1>5. SentHandled'
  BY <1>2, SentHandledStep
<1>6. OnPrimary'
  BY <1>1, <1>2, OnPrimaryStep
<1>7. LastSeqIsMax'
  BY <1>1, <1>2, LastSeqStep
<1>8. MaxExists'
  BY <1>1, <1>2, WalMaxStep, StoredMaxStep DEF MaxExists
<1> QED
  BY <1>1, <1>2, <1>3, <1>4, <1>5, <1>6, <1>7, <1>8

-----------------------------------------------------------------------------
(* The theorems.                                                           *)

(* IInv holds in every state: all that chunks, handlers and the log have   *)
(* went through the primary.                                               *)
THEOREM IInvCorrect == Spec => []IInv
<1>1. IInv /\ [Next]_vars => IInv'
  BY IInvStep
<1> QED
  BY IInvInit, <1>1, PTL DEF Spec

(* Every reachable state is well typed: the master's counter and log, the  *)
(* chunks' stores and the handlers' replica lists keep their shapes        *)
(* whatever crashes, restarts or is lost.                                  *)
THEOREM TypeCorrect == Spec => []TypeOK
<1>1. IInv => TypeOK
  BY DEF IInv
<1> QED
  BY <1>1, IInvCorrect, PTL

(* A chunk's lastSeq is the largest SeqNum it holds, so the LastSeqNum it  *)
(* registers with is right, for any number of crashes and restarts.        *)
THEOREM LastSeqCorrect == Spec => []LastSeqIsMax
<1>1. IInv => LastSeqIsMax
  BY DEF IInv
<1> QED
  BY <1>1, IInvCorrect, PTL

(* No replica is ever ahead of the primary, for any number of chunks,      *)
(* crashes, restarts (of the master too) and lost messages.                *)
THEOREM PrimaryFreshestCorrect == Spec => []PrimaryFreshest
<1>1. IInv => PrimaryFreshest
  <2> SUFFICES ASSUME IInv, NEW c \in Chunks, NEW k \in Keys, store[c][k] # None
               PROVE  AtLeast(Primary, store[c][k])
    BY DEF PrimaryFreshest
  <2>1. store[c][k] \in Ops /\ Handled(store[c][k])
    BY DEF IInv, TypeOK, StoredHandled
  <2> QED
    BY <2>1 DEF IInv, OnPrimary
<1> QED
  BY <1>1, IInvCorrect, PTL

(* Store.Put and Store.Delete never undo a newer write, in whatever order  *)
(* replication and recovery deliver the writes.                            *)
THEOREM VersionsCorrect == Spec => VersionsNeverGoBack
<1>1. IInv /\ [Next]_vars => [NeverBack]_vars
  BY IInvStep, NeverBackStep DEF IInv
<1> QED
  BY <1>1, IInvCorrect, PTL DEF Spec, VersionsNeverGoBack

-----------------------------------------------------------------------------
(* Replication implements VersionedReplicas: initial states map to initial *)
(* states, and every step to a Number, Accept or Deliver step or to a      *)
(* stutter.                                                                *)

LEMMA RefinesInit == Init => VR!Init
BY DEF Init, VR!Init, accepted, Handled

(* Store.Put is the abstract Take, up to lastSeq.                          *)
LEMMA PutIsTake ==
    ASSUME NEW c \in Chunks, NEW o \in Ops, Put(c, o)
    PROVE  VR!Take(c, o)
<1>1. CASE Supersedes(o, store[c][OpKey[o]])
  BY <1>1 DEF Put, Supersedes, VR!Take
<1>2. CASE ~Supersedes(o, store[c][OpKey[o]])
  BY <1>2 DEF Put, Supersedes, VR!Take
<1> QED
  BY <1>1, <1>2

LEMMA RefinesStep ==
    ASSUME TypeOK, TypeOK', NotStarted, StoreStep
    PROVE  [VR!Next]_VR!vars
<1>1. ASSUME NEW o \in Ops, Numbered(o) PROVE VR!Next
  <2>1. NextSeqNum \in Nat \ {0}
    BY DEF NextSeqNum, TypeOK
  <2>2. seq' = [seq EXCEPT ![o] = seq'[o]] /\ seq'[o] = NextSeqNum
    BY <1>1 DEF Numbered, TypeOK
  <2>3. UNCHANGED accepted
    BY <1>1 DEF Numbered, accepted, Handled
  <2>4. VR!Number(o)
    BY <1>1, <2>1, <2>2, <2>3 DEF Numbered, VR!Number
  <2> QED
    BY <2>4 DEF VR!Next
<1>2. ASSUME NEW o \in Ops, Taken(o) PROVE VR!Next
  <2>1. o \notin accepted /\ accepted' = accepted \cup {o}
    BY <1>2 DEF Taken, accepted, Handled, TypeOK
  <2>2. VR!Take(Primary, o)
    BY <1>2, PutIsTake, ChunkAssumption DEF Taken
  <2>3. VR!Accept(o)
    BY <1>2, <2>1, <2>2 DEF Taken, NotStarted, VR!Accept
  <2> QED
    BY <2>3 DEF VR!Next
<1>3. ASSUME NEW c \in Chunks, NEW o \in Ops, Delivered(c, o) PROVE VR!Next
  <2>1. o \in accepted /\ UNCHANGED accepted
    BY <1>3 DEF Delivered, accepted, Handled
  <2>2. VR!Deliver(c, o)
    BY <1>3, <2>1, PutIsTake DEF Delivered, VR!Deliver
  <2> QED
    BY <2>2 DEF VR!Next
<1>4. CASE (\E c \in Chunks : Stopped(c) \/ Started(c)) \/ Untouched
  <2>1. SameHandled /\ UNCHANGED <<store, seq>>
    BY <1>4 DEF Stopped, Started, Untouched
  <2> QED
    BY <2>1 DEF SameHandled, accepted, VR!vars
<1> QED
  BY <1>1, <1>2, <1>3, <1>4 DEF StoreStep

(* The write path with its crashes, restarts and lost messages implements  *)
(* VersionedReplicas, for every value of the constants.                    *)
THEOREM ImplementsVersionedReplicas == Spec => RefinesVersionedReplicas
<1>1. IInv /\ [Next]_vars => [VR!Next]_VR!vars
  BY IInvStep, RefinesStep DEF IInv
<1> QED
  BY <1>1, RefinesInit, IInvCorrect, PTL DEF Spec, RefinesVersionedReplicas, VR!Spec
=============================================================================
