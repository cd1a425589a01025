----------------------------- MODULE PathProofs -----------------------------
(***************************************************************************)
(* What the write path promises: that recovery misses nothing of the log   *)
(* (ReplayComplete), what an OK means to the client (AckedOnPrimary until  *)
(* the master first restarts, AckedOnTargets while nothing else fails),    *)
(* and when a recovered chunk has caught up (CaughtUp) and all chunks hold *)
(* the same (ReplicasAgree).  And what a read returns, compared with the   *)
(* writes acknowledged before it (FreshRead) and with the reads before it  *)
(* (MonotonicReads).                                                       *)
(***************************************************************************)
EXTENDS ReadPath, ReplicationProofs

-----------------------------------------------------------------------------
(* Recovery: what a RecoveryResponse is cut from and how far it has been   *)
(* applied, in every interleaving with writes, notifications and crashes.  *)

(* ReplayComplete for one chunk.                                           *)
CompleteFor(c) ==
    phase[c] \in {"replay", "serving"} =>
        \A i \in 1..upto[c] :
            seq[wal[i]] > reported[c] => i \in replay[c] \/ AtLeast(c, wal[i])

(* The logged writes keep their place, their number and their copies.      *)
LEMMA LoggedKept ==
    ASSUME IInv, IInv', Effect,
           NEW c \in Chunks, NEW i \in DOMAIN wal, wal'[i] = wal[i]
    PROVE  /\ seq'[wal'[i]] = seq[wal[i]]
           /\ AtLeast(c, wal[i]) => AtLeast(c, wal[i])'
<1>1. wal[i] \in Ops /\ Handled(wal[i])
  BY DEF IInv, TypeOK, SentHandled
<1>2. seq'[wal[i]] = seq[wal[i]]
  BY <1>1 DEF Effect
<1>3. ASSUME NEW o \in Ops, o = wal[i], AtLeast(c, o) PROVE AtLeast(c, o)'
  BY <1>1, <1>3, AtLeastKept DEF IInv
<1>4. AtLeast(c, wal[i]) => AtLeast(c, wal[i])'
  BY <1>1, <1>3 DEF AtLeast
<1> QED
  BY <1>2, <1>4

(* A step that does not touch the chunk's recovery keeps it complete.      *)
LEMMA CompleteKept ==
    ASSUME IInv, IInv', Effect, NEW c \in Chunks, CompleteFor(c),
           phase'[c] \in {"replay", "serving"} => phase[c] \in {"replay", "serving"},
           upto'[c] = upto[c], reported'[c] = reported[c], replay'[c] = replay[c],
           \A i \in DOMAIN wal : wal'[i] = wal[i]
    PROVE  CompleteFor(c)'
<1> SUFFICES ASSUME phase'[c] \in {"replay", "serving"}, NEW i \in 1..upto[c],
                    seq'[wal'[i]] > reported[c]
             PROVE  i \in replay[c] \/ AtLeast(c, wal[i])'
  BY DEF CompleteFor
<1>1. i \in DOMAIN wal /\ wal'[i] = wal[i]
  BY UptoTyped DEF IInv
<1>2. /\ seq'[wal'[i]] = seq[wal[i]]
      /\ AtLeast(c, wal[i]) => AtLeast(c, wal[i])'
  BY <1>1, LoggedKept
<1>3. i \in replay[c] \/ AtLeast(c, wal[i])
  BY <1>2 DEF CompleteFor
<1> QED
  BY <1>2, <1>3

LEMMA CompleteStep ==
    ASSUME IInv, IInv', Effect, [Next]_vars, NEW c \in Chunks, CompleteFor(c)
    PROVE  CompleteFor(c)'
<1> DEFINE Goal == CompleteFor(c)'
           SameLog == \A i \in DOMAIN wal : wal'[i] = wal[i]
<1>q. ASSUME SameLog, UNCHANGED <<upto, reported, replay>>,
             phase'[c] \in {"replay", "serving"} => phase[c] \in {"replay", "serving"}
      PROVE  Goal
  BY <1>q, CompleteKept
<1>o. ASSUME wal' = wal, NEW d \in Chunks, d # c,
             phase'[c] = phase[c], upto'[c] = upto[c],
             reported'[c] = reported[c], replay'[c] = replay[c]
      PROVE  Goal
  BY <1>o, CompleteKept
<1>1. ASSUME NEW o \in Ops, HandleGetPrimary(o) PROVE Goal
  BY <1>1, <1>q DEF HandleGetPrimary, chunkVars
<1>2. ASSUME NEW o \in Ops, ClientStep(o) PROVE Goal
  BY <1>2, <1>q DEF ClientStep, SendWrite, DialFails, NotifyMasterWAL, masterVars, chunkVars
<1>3. ASSUME NEW o \in Ops, HandlerStep(o) PROVE Goal
  BY <1>3, <1>q DEF HandlerStep, HandleWrite, GetReplicaAddrs, LookupFails,
                    SendWriteResponse, ReplicateTo, HandleReplicate, masterVars, chunkVars
<1>4. ASSUME NEW o \in Ops, HandleWALNotify(o) PROVE Goal
  <2>1. SameLog
    <3>1. wal \in Seq(Ops) /\ wal' = Append(wal, o)
      BY <1>4 DEF HandleWALNotify, IInv, TypeOK
    <3> QED
      BY <3>1
  <2> QED
    BY <1>4, <2>1, <1>q DEF HandleWALNotify, chunkVars
<1>5. ASSUME NEW o \in Ops, OpFault(o) PROVE Goal
  BY <1>5, <1>q DEF OpFault, LookupFails, ClientCrash, ClientLosesConn, NotifyLost,
                    ReplicateFails, masterVars, chunkVars
<1>6. ASSUME NEW d \in Chunks, SendRegister(d) PROVE Goal
  <2>1. CASE d = c
    BY <1>6, <2>1 DEF SendRegister, CompleteFor, IInv, TypeOK
  <2>2. CASE d # c
    BY <1>6, <2>2, <1>o DEF SendRegister, masterVars, IInv, TypeOK
  <2> QED
    BY <2>1, <2>2
<1>7. ASSUME NEW d \in Chunks, HandleRegister(d) PROVE Goal
  <2>1. CASE d = c
    BY <1>7, <2>1 DEF HandleRegister, CompleteFor, IInv, TypeOK
  <2>2. CASE d # c
    BY <1>7, <2>2, <1>o DEF HandleRegister, IInv, TypeOK
  <2> QED
    BY <2>1, <2>2
<1>8. ASSUME NEW d \in Chunks, SendRecovery(d) PROVE Goal
  <2>1. CASE d = c
    <3>1. /\ UNCHANGED <<wal, seq, reported>>
          /\ upto'[c] = Len(wal)
          /\ replay'[c] = EntriesAfter(reported[c])
      BY <1>8, <2>1 DEF SendRecovery, masterVars, opVars, IInv, TypeOK
    <3>2. 1..Len(wal) = DOMAIN wal
      BY DEF IInv, TypeOK
    <3> QED
      BY <3>1, <3>2 DEF EntriesAfter, CompleteFor
  <2>2. CASE d # c
    BY <1>8, <2>2, <1>o DEF SendRecovery, masterVars, IInv, TypeOK
  <2> QED
    BY <2>1, <2>2
<1>9. ASSUME NEW d \in Chunks, ApplyRecovery(d) PROVE Goal
  <2>0. PICK j \in replay[d] : Put(d, wal[j]) /\ replay' = [replay EXCEPT ![d] = @ \ {j}]
    BY <1>9 DEF ApplyRecovery
  <2>1. CASE d = c
    <3>1. UNCHANGED <<wal, seq, reported, upto, phase>>
      BY <1>9 DEF ApplyRecovery, masterVars, opVars
    <3>2. wal[j] \in Ops
      BY ReplayTyped DEF IInv
    <3>3. ASSUME NEW o \in Ops, o = wal[j] PROVE AtLeast(c, o)'
      BY <2>0, <2>1, <3>1, <3>3, PutEffect DEF IInv
    <3>4. AtLeast(c, wal[j])'
      BY <3>1, <3>2, <3>3 DEF AtLeast
    <3>5. replay'[c] = replay[c] \ {j}
      BY <2>0, <2>1 DEF IInv, TypeOK
    <3> SUFFICES ASSUME phase[c] \in {"replay", "serving"}, NEW i \in 1..upto[c],
                        seq[wal[i]] > reported[c], i # j
                 PROVE  i \in replay[c] \/ AtLeast(c, wal[i])'
      BY <3>1, <3>4, <3>5 DEF CompleteFor
    <3>6. i \in DOMAIN wal
      BY UptoTyped DEF IInv
    <3> QED
      BY <3>1, <3>6, LoggedKept DEF CompleteFor
  <2>2. CASE d # c
    <3>1. replay'[c] = replay[c]
      BY <2>0, <2>2 DEF IInv, TypeOK
    <3> QED
      BY <1>9, <2>2, <3>1, <1>o DEF ApplyRecovery, masterVars
  <2> QED
    BY <2>1, <2>2
<1>10. ASSUME NEW d \in Chunks, FinishRecovery(d) PROVE Goal
  <2>1. phase'[c] \in {"replay", "serving"} => phase[c] \in {"replay", "serving"}
    BY <1>10 DEF FinishRecovery, IInv, TypeOK
  <2> QED
    BY <1>10, <2>1, <1>q DEF FinishRecovery, masterVars
<1>11. ASSUME NEW d \in Chunks, SendHeartbeat(d) \/ MonitorHealth(d) \/ LoseHeartbeats(d)
       PROVE  Goal
  BY <1>11, <1>q DEF SendHeartbeat, MonitorHealth, LoseHeartbeats, chunkVars
<1>12. ASSUME NEW d \in Chunks, ChunkStart(d) \/ RegisterFails(d) PROVE Goal
  <2>1. phase'[c] \in {"replay", "serving"} => phase[c] \in {"replay", "serving"}
    BY <1>12 DEF ChunkStart, RegisterFails, IInv, TypeOK
  <2> QED
    BY <1>12, <2>1, <1>q DEF ChunkStart, RegisterFails, masterVars
<1>13. ASSUME NEW d \in Chunks, ChunkCrash(d) PROVE Goal
  <2>1. CASE d = c
    BY <1>13, <2>1 DEF ChunkCrash, CompleteFor, IInv, TypeOK
  <2>2. CASE d # c
    BY <1>13, <2>2, <1>o DEF ChunkCrash, masterVars, IInv, TypeOK
  <2> QED
    BY <2>1, <2>2
<1>14. CASE MasterStart
  BY <1>14, <1>q DEF MasterStart, chunkVars
<1>15. CASE MasterCrash
  <2>1. phase'[c] \in {"replay", "serving"} => phase[c] \in {"replay", "serving"}
    BY <1>15 DEF MasterCrash
  <2> QED
    BY <1>15, <2>1, <1>q DEF MasterCrash
<1>16. CASE UNCHANGED vars
  BY <1>16, <1>q DEF vars, masterVars, chunkVars
<1> QED
  BY <1>1, <1>2, <1>3, <1>4, <1>5, <1>6, <1>7, <1>8, <1>9, <1>10, <1>11, <1>12,
     <1>13, <1>14, <1>15, <1>16
  DEF Next, RegisterStep, ChunkFault

(* A chunk that has had its RecoveryResponse lacks no logged write newer   *)
(* than the LastSeqNum it reported, except those it is still to apply.     *)
THEOREM ReplayCorrect == Spec => []ReplayComplete
<1>1. Init => ReplayComplete
  BY DEF Init, ReplayComplete
<1>2. ReplayComplete <=> \A c \in Chunks : CompleteFor(c)
  BY DEF ReplayComplete, CompleteFor
<1>3. IInv /\ [Next]_vars /\ ReplayComplete => ReplayComplete'
  <2> SUFFICES ASSUME IInv, [Next]_vars, \A c \in Chunks : CompleteFor(c),
                      NEW c \in Chunks
               PROVE  CompleteFor(c)'
    BY <1>2 DEF ReplayComplete, CompleteFor
  <2> QED
    BY IInvStep, CompleteStep
<1> QED
  BY <1>1, <1>3, IInvCorrect, PTL DEF Spec

-----------------------------------------------------------------------------
(* Until the master restarts the numbers are unique.                       *)

UniqueSeq ==
    masterCrashes = 0 =>
        /\ mUp
        /\ \A o \in Ops : seq[o] <= seqNum
        /\ \A o, p \in Ops : seq[o] = seq[p] /\ seq[o] # 0 => o = p

(* Only MasterCrash and MasterStart take the counter back.                 *)
LEMMA CounterStep ==
    ASSUME TypeOK, masterCrashes = 0 => mUp, masterCrashes' = 0, [Next]_vars
    PROVE  mUp' /\ masterCrashes = 0 /\ seqNum' >= seqNum
<1> DEFINE Goal == mUp' /\ masterCrashes = 0 /\ seqNum' >= seqNum
<1>n. /\ seqNum >= seqNum /\ NextSeqNum >= seqNum
      /\ masterCrashes = 0 => mUp
      /\ masterCrashes' = 0
  BY DEF TypeOK, NextSeqNum
<1>1. ASSUME NEW o \in Ops, HandleGetPrimary(o) PROVE Goal
  BY <1>1, <1>n DEF HandleGetPrimary, faultVars
<1>2. ASSUME NEW o \in Ops, ClientStep(o) PROVE Goal
  BY <1>2, <1>n DEF ClientStep, SendWrite, DialFails, NotifyMasterWAL, masterVars, faultVars
<1>3. ASSUME NEW o \in Ops, HandleWrite(o) PROVE Goal
  BY <1>3, <1>n DEF HandleWrite, masterVars, faultVars
<1>4. ASSUME NEW o \in Ops, GetReplicaAddrs(o) PROVE Goal
  BY <1>4, <1>n DEF GetReplicaAddrs, faultVars
<1>5. ASSUME NEW o \in Ops, SendWriteResponse(o) \/ HandleWALNotify(o) PROVE Goal
  BY <1>5, <1>n DEF SendWriteResponse, HandleWALNotify, masterVars, faultVars
<1>6. ASSUME NEW o \in Ops, NEW c \in Chunks, ReplicateTo(o, c) \/ HandleReplicate(o, c)
      PROVE  Goal
  BY <1>6, <1>n DEF ReplicateTo, HandleReplicate, masterVars, faultVars
<1>7. ASSUME NEW o \in Ops, OpFault(o) PROVE Goal
  BY <1>7, <1>n DEF OpFault, LookupFails, ClientCrash, ClientLosesConn, NotifyLost,
                    ReplicateFails, masterVars
<1>8. ASSUME NEW c \in Chunks, RegisterStep(c) PROVE Goal
  BY <1>8, <1>n DEF RegisterStep, SendRegister, HandleRegister, SendRecovery,
                    ApplyRecovery, FinishRecovery, masterVars, faultVars
<1>9. ASSUME NEW c \in Chunks, SendHeartbeat(c) \/ MonitorHealth(c) \/ ChunkStart(c)
      PROVE  Goal
  BY <1>9, <1>n DEF SendHeartbeat, MonitorHealth, ChunkStart, masterVars, faultVars
<1>10. ASSUME NEW c \in Chunks, ChunkFault(c) PROVE Goal
  BY <1>10, <1>n DEF ChunkFault, ChunkCrash, RegisterFails, LoseHeartbeats, masterVars
<1>11. CASE MasterStart \/ MasterCrash
  BY <1>11, <1>n DEF MasterStart, MasterCrash, faultVars, TypeOK
<1>12. CASE UNCHANGED vars
  BY <1>12, <1>n DEF vars, masterVars, faultVars
<1> QED
  BY <1>1, <1>2, <1>3, <1>4, <1>5, <1>6, <1>7, <1>8, <1>9, <1>10, <1>11, <1>12
  DEF Next, HandlerStep, OpFault

LEMMA UniqueStep ==
    ASSUME TypeOK, TypeOK', UniqueSeq, StoreStep, [Next]_vars
    PROVE  UniqueSeq'
<1> SUFFICES ASSUME masterCrashes' = 0
             PROVE  UniqueSeq'
  BY DEF UniqueSeq
<1>1. mUp' /\ masterCrashes = 0 /\ seqNum' >= seqNum
  BY CounterStep DEF UniqueSeq
<1>2. ASSUME NEW o \in Ops, Numbered(o) PROVE UniqueSeq'
  <2>1. seq'[o] = seqNum + 1 /\ seqNum' = seqNum + 1
    BY <1>2 DEF Numbered, NextSeqNum, TypeOK
  <2>2. \A p \in Ops : p # o => seq'[p] = seq[p] /\ seq[p] <= seqNum /\ seq[p] \in Nat
    BY <1>1, <1>2 DEF Numbered, UniqueSeq, TypeOK
  <2>3. seqNum \in Nat
    BY DEF TypeOK
  <2>4. \A p \in Ops : seq'[p] <= seqNum'
    BY <2>1, <2>2, <2>3
  <2>5. \A p \in Ops : p # o => seq'[p] # seq'[o]
    BY <2>1, <2>2, <2>3
  <2>6. \A p, r \in Ops : seq'[p] = seq'[r] /\ seq'[p] # 0 => p = r
    BY <1>1, <2>2, <2>5 DEF UniqueSeq
  <2> QED
    BY <1>1, <2>4, <2>6 DEF UniqueSeq
<1>3. CASE UNCHANGED seq
  <2>1. seqNum \in Nat /\ seqNum' \in Nat /\ \A o \in Ops : seq[o] \in Nat
    BY DEF TypeOK
  <2> QED
    BY <1>1, <1>3, <2>1 DEF UniqueSeq
<1> QED
  BY <1>2, <1>3 DEF StoreStep, Taken, Delivered, Stopped, Started, Untouched

LEMMA NumbersUnique == Spec => []UniqueSeq
<1>1. Init => UniqueSeq
  BY DEF Init, UniqueSeq
<1>2. IInv /\ [Next]_vars /\ UniqueSeq => UniqueSeq'
  BY IInvStep, UniqueStep DEF IInv
<1> QED
  BY <1>1, <1>2, IInvCorrect, PTL DEF Spec

(* Until the master restarts, an acknowledged write stays on the primary   *)
(* until a write with a larger number takes its place, for any number of   *)
(* chunk crashes and lost messages.                                        *)
THEOREM AckedCorrect == Spec => []AckedUntilRestart
<1>1. IInv /\ UniqueSeq => AckedUntilRestart
  <2> SUFFICES ASSUME IInv, UniqueSeq, masterCrashes = 0, NEW o \in Ops, Acked(o),
                      NEW e, e = store[Primary][OpKey[o]]
               PROVE  e = o \/ (e # None /\ seq[e] > seq[o])
    BY DEF AckedUntilRestart, AckedOnPrimary
  <2>1. Handled(o) /\ AtLeast(Primary, o)
    BY DEF IInv, SentHandled, OnPrimary
  <2>2. e \in Ops /\ seq[e] >= seq[o]
    BY <2>1, ChunkAssumption, OpAssumption DEF AtLeast, IInv, TypeOK
  <2>3. seq[o] # 0 /\ seq[o] \in Nat /\ seq[e] \in Nat
    BY <2>1, <2>2 DEF IInv, NotStarted, Handled, TypeOK
  <2> QED
    BY <2>2, <2>3, OpAssumption DEF UniqueSeq
<1> QED
  BY <1>1, NumbersUnique, IInvCorrect, PTL

-----------------------------------------------------------------------------
(* Without faults a handler's replicas have the write, are being asked, or *)
(* are still on its list.                                                  *)

FaultFree == chunkCrashes = 0 /\ netFaults = 0

OnTargets ==
    /\ \A o \in Ops : hd[o] \in {"none", "sent", "lookup"} => targets[o] = {}
    /\ FaultFree =>
        /\ \A c \in Chunks : Up(c)
        /\ \A o \in Ops : hd[o] = "fanout" => \A c \in targets[o] :
              c \in todo[o] \/ <<o, c>> \in repl \/ AtLeast(c, o)
        /\ \A o \in Ops : hd[o] = "done" => \A c \in targets[o] : AtLeast(c, o)

(* Without network faults no handler has stopped waiting for a replica.    *)
NoneGivenUp == netFaults = 0 => givenUp = {}

LEMMA NoneGivenUpStep ==
    ASSUME TypeOK, NoneGivenUp, [Next]_vars
    PROVE  NoneGivenUp'
<1> DEFINE Goal == UNCHANGED <<netFaults, givenUp>> \/ netFaults' # 0
<1>n. netFaults + 1 # 0
  BY DEF TypeOK
<1>1. ASSUME NEW o \in Ops, HandleGetPrimary(o) \/ ClientStep(o) \/ HandleWALNotify(o)
      PROVE  Goal
  BY <1>1 DEF HandleGetPrimary, ClientStep, SendWrite, DialFails, NotifyMasterWAL,
              HandleWALNotify, faultVars
<1>2. ASSUME NEW o \in Ops, HandlerStep(o) PROVE Goal
  BY <1>2, <1>n DEF HandlerStep, HandleWrite, GetReplicaAddrs, LookupFails, ReplicateTo,
              HandleReplicate, SendWriteResponse, NetFault, faultVars
<1>3. ASSUME NEW o \in Ops, OpFault(o) PROVE Goal
  BY <1>3, <1>n DEF OpFault, LookupFails, ClientCrash, ClientLosesConn, NotifyLost,
              ReplicateFails, NetFault
<1>4. ASSUME NEW c \in Chunks, RegisterStep(c) PROVE Goal
  BY <1>4 DEF RegisterStep, SendRegister, HandleRegister, SendRecovery,
              ApplyRecovery, FinishRecovery, faultVars
<1>5. ASSUME NEW c \in Chunks, SendHeartbeat(c) \/ MonitorHealth(c) \/ ChunkStart(c)
      PROVE  Goal
  BY <1>5 DEF SendHeartbeat, MonitorHealth, ChunkStart, faultVars
<1>6. ASSUME NEW c \in Chunks, ChunkFault(c) PROVE Goal
  BY <1>6, <1>n DEF ChunkFault, ChunkCrash, RegisterFails, LoseHeartbeats, NetFault
<1>7. ASSUME MasterStart \/ MasterCrash PROVE Goal
  BY <1>7 DEF MasterStart, MasterCrash, faultVars
<1>8. ASSUME UNCHANGED vars PROVE Goal
  BY <1>8 DEF vars, faultVars
<1>9. Goal
  BY <1>1, <1>2, <1>3, <1>4, <1>5, <1>6, <1>7, <1>8 DEF Next
<1> QED
  BY <1>9 DEF NoneGivenUp

LEMMA OnTargetsStep ==
    ASSUME IInv, IInv', Effect, NoneGivenUp, OnTargets, [Next]_vars
    PROVE  OnTargets'
<1>k. \A c \in Chunks, o \in Ops : Handled(o) /\ AtLeast(c, o) => AtLeast(c, o)'
  BY AtLeastKept DEF IInv
<1>h. \A o \in Ops : hd[o] \in {"fanout", "done"} => Handled(o)
  BY DEF Handled
<1>t. TypeOK /\ TypeOK'
  BY DEF IInv
<1>q. ASSUME UNCHANGED <<hd, targets, todo, repl>>, FaultFree' => FaultFree,
             \A c \in Chunks : Up(c) => Up(c)'
      PROVE  OnTargets'
  BY <1>q, <1>k, <1>h, <1>t DEF OnTargets, TypeOK
<1>f. ASSUME ~FaultFree', UNCHANGED targets,
             \A o \in Ops : hd'[o] \in {"none", "sent", "lookup"}
                            => hd[o] \in {"none", "sent", "lookup"}
      PROVE  OnTargets'
  BY <1>f DEF OnTargets
<1>1. ASSUME NEW o \in Ops,
             HandleGetPrimary(o) \/ DialFails(o) \/ NotifyMasterWAL(o) \/ HandleWALNotify(o)
      PROVE  OnTargets'
  BY <1>1, <1>q DEF HandleGetPrimary, DialFails, NotifyMasterWAL, HandleWALNotify,
                    chunkVars, opVars, faultVars, FaultFree, Up
<1>2. ASSUME NEW o \in Ops, SendWrite(o) PROVE OnTargets'
  <2>1. hd[o] = "none" /\ hd' = [hd EXCEPT ![o] = "sent"]
    BY <1>2 DEF SendWrite, IInv, NotStarted
  <2>2. UNCHANGED <<targets, todo, repl, store, seq, phase, chunkCrashes, netFaults>>
    BY <1>2 DEF SendWrite, chunkVars, faultVars
  <2> QED
    <3>1. \A p \in Ops : hd'[p] = hd[p] \/ (p = o /\ hd[p] = "none" /\ hd'[p] = "sent")
      BY <2>1, <1>t DEF TypeOK
    <3> QED
      BY <2>1, <2>2, <3>1, <1>t DEF OnTargets, FaultFree, Up, AtLeast, TypeOK
<1>3. ASSUME NEW o \in Ops, HandleWrite(o) PROVE OnTargets'
  <2>1. hd[o] = "sent" /\ hd' = [hd EXCEPT ![o] = "lookup"]
    BY <1>3 DEF HandleWrite
  <2>2. UNCHANGED <<targets, todo, repl, phase, chunkCrashes, netFaults>>
    BY <1>3 DEF HandleWrite, faultVars
  <2> QED
    BY <2>1, <2>2, <1>k, <1>h, <1>t DEF OnTargets, FaultFree, Up, TypeOK
<1>4. ASSUME NEW o \in Ops, GetReplicaAddrs(o) PROVE OnTargets'
  <2>1. hd[o] = "lookup" /\ hd' = [hd EXCEPT ![o] = "fanout"]
    BY <1>4 DEF GetReplicaAddrs
  <2>2. /\ targets' = [targets EXCEPT ![o] = ReplicaAddrs]
        /\ todo' = [todo EXCEPT ![o] = ReplicaAddrs]
    BY <1>4 DEF GetReplicaAddrs
  <2>3. UNCHANGED <<repl, store, seq, phase, chunkCrashes, netFaults>>
    BY <1>4 DEF GetReplicaAddrs, chunkVars, faultVars
  <2>4. targets'[o] = todo'[o]
    BY <2>2, <1>t DEF TypeOK
  <2>5. \A p \in Ops : p # o =>
            hd'[p] = hd[p] /\ targets'[p] = targets[p] /\ todo'[p] = todo[p]
    BY <2>1, <2>2, <1>t DEF TypeOK
  <2>6. hd'[o] = "fanout"
    BY <2>1, <1>t DEF TypeOK
  <2> QED
    BY <2>3, <2>4, <2>5, <2>6 DEF OnTargets, FaultFree, Up, AtLeast
<1>5. ASSUME NEW o \in Ops, LookupFails(o) PROVE OnTargets'
  <2>1. hd[o] = "lookup" /\ hd' = [hd EXCEPT ![o] = "fanout"]
    BY <1>5 DEF LookupFails
  <2>2. UNCHANGED <<targets, todo, repl, store, seq, phase>>
    BY <1>5 DEF LookupFails, chunkVars
  <2>3. FaultFree' => FaultFree
    BY <1>5, <1>t DEF LookupFails, NetFault, FaultFree, TypeOK
  <2>4. targets[o] = {}
    BY <2>1 DEF OnTargets
  <2> QED
    BY <2>1, <2>2, <2>3, <2>4, <1>t DEF OnTargets, Up, AtLeast, TypeOK
<1>6. ASSUME NEW o \in Ops, SendWriteResponse(o) PROVE OnTargets'
  <2>1. hd[o] = "fanout" /\ hd' = [hd EXCEPT ![o] = "done"]
    BY <1>6 DEF SendWriteResponse
  <2>2. UNCHANGED <<targets, todo, repl, store, seq, phase, chunkCrashes, netFaults>>
    BY <1>6 DEF SendWriteResponse, chunkVars, faultVars
  <2>3. todo[o] = {} /\ (FaultFree => \A c \in Chunks : <<o, c>> \notin repl)
    BY <1>6 DEF SendWriteResponse, Awaiting, NoneGivenUp, FaultFree
  <2>4. \A c \in targets[o] : c \in Chunks
    BY <1>t DEF TypeOK
  <2> QED
    BY <2>1, <2>2, <2>3, <2>4, <1>t DEF OnTargets, FaultFree, Up, AtLeast, TypeOK
<1>7. ASSUME NEW o \in Ops, NEW c \in Chunks, ReplicateTo(o, c) PROVE OnTargets'
  <2>1. /\ todo' = [todo EXCEPT ![o] = @ \ {c}]
        /\ repl' = IF Up(c) THEN repl \cup {<<o, c>>} ELSE repl
    BY <1>7 DEF ReplicateTo
  <2>2. UNCHANGED <<hd, targets, store, seq, phase, chunkCrashes, netFaults>>
    BY <1>7 DEF ReplicateTo, chunkVars, faultVars
  <2>3. FaultFree => repl' = repl \cup {<<o, c>>}
    BY <2>1 DEF OnTargets
  <2>4. \A p \in Ops : todo'[p] = IF p = o THEN todo[p] \ {c} ELSE todo[p]
    BY <2>1, <1>t DEF TypeOK
  <2> QED
    BY <2>2, <2>3, <2>4 DEF OnTargets, FaultFree, Up, AtLeast
<1>8. ASSUME NEW o \in Ops, NEW c \in Chunks, HandleReplicate(o, c) PROVE OnTargets'
  <2>1. Put(c, o) /\ UNCHANGED seq
    BY <1>8 DEF HandleReplicate
  <2>2. AtLeast(c, o)'
    BY <2>1, <1>t, PutEffect
  <2>3. UNCHANGED <<hd, targets, todo, phase, chunkCrashes, netFaults>>
    BY <1>8 DEF HandleReplicate, faultVars
  <2>4. repl' = repl \ {<<o, c>>}
    BY <1>8 DEF HandleReplicate
  <2> QED
    BY <2>2, <2>3, <2>4, <1>k, <1>h, <1>t DEF OnTargets, FaultFree, Up, TypeOK
<1>9. ASSUME NEW o \in Ops, ClientCrash(o) PROVE OnTargets'
  BY <1>9, <1>f, <1>t DEF ClientCrash, NetFault, FaultFree, TypeOK
<1>10. ASSUME NEW o \in Ops, ClientLosesConn(o) PROVE OnTargets'
  <2>1. hd' = hd \/ (hd[o] = "sent" /\ hd' = [hd EXCEPT ![o] = "lost"])
    BY <1>10 DEF ClientLosesConn
  <2>2. UNCHANGED targets /\ ~FaultFree'
    BY <1>10, <1>t DEF ClientLosesConn, NetFault, FaultFree, TypeOK
  <2>3. \A p \in Ops : hd'[p] \in {"none", "sent", "lookup"}
                       => hd[p] \in {"none", "sent", "lookup"}
    BY <2>1, <1>t DEF TypeOK
  <2> QED
    BY <2>2, <2>3, <1>f
<1>11. ASSUME NEW o \in Ops, NotifyLost(o) PROVE OnTargets'
  BY <1>11, <1>f, <1>t DEF NotifyLost, NetFault, FaultFree, opVars, TypeOK
<1>12. ASSUME NEW o \in Ops, NEW c \in Chunks, ReplicateFails(o, c) PROVE OnTargets'
  BY <1>12, <1>f, <1>t DEF ReplicateFails, NetFault, FaultFree, TypeOK
<1>13. ASSUME NEW c \in Chunks, RegisterStep(c) PROVE OnTargets'
  <2>1. \A d \in Chunks : Up(d) => Up(d)'
    BY <1>13, <1>t DEF RegisterStep, SendRegister, HandleRegister, SendRecovery,
                       ApplyRecovery, FinishRecovery, Up, TypeOK
  <2> QED
    BY <1>13, <2>1, <1>q DEF RegisterStep, SendRegister, HandleRegister, SendRecovery,
                       ApplyRecovery, FinishRecovery, opVars, faultVars, FaultFree
<1>14. ASSUME NEW c \in Chunks, SendHeartbeat(c) \/ MonitorHealth(c) PROVE OnTargets'
  BY <1>14, <1>q DEF SendHeartbeat, MonitorHealth, chunkVars, opVars, faultVars, FaultFree, Up
<1>15. ASSUME NEW c \in Chunks, ChunkStart(c) PROVE OnTargets'
  <2>1. \A d \in Chunks : Up(d) => Up(d)'
    BY <1>15, <1>t DEF ChunkStart, Up, TypeOK
  <2> QED
    BY <1>15, <2>1, <1>q DEF ChunkStart, opVars, faultVars, FaultFree
<1>16. ASSUME NEW c \in Chunks, ChunkCrash(c) PROVE OnTargets'
  <2>1. ~FaultFree' /\ UNCHANGED targets
    BY <1>16, <1>t DEF ChunkCrash, FaultFree, TypeOK
  <2>2. \A o \in Ops : hd'[o] \in {"none", "sent", "lookup"}
                       => hd[o] \in {"none", "sent", "lookup"}
    BY <1>16, <1>t DEF ChunkCrash, TypeOK
  <2> QED
    BY <2>1, <2>2, <1>f
<1>17. ASSUME NEW c \in Chunks, RegisterFails(c) \/ LoseHeartbeats(c) PROVE OnTargets'
  BY <1>17, <1>f, <1>t DEF RegisterFails, LoseHeartbeats, NetFault, FaultFree, opVars, TypeOK
<1>18. CASE MasterStart
  BY <1>18, <1>q DEF MasterStart, chunkVars, opVars, faultVars, FaultFree, Up
<1>19. CASE MasterCrash
  <2>1. \A d \in Chunks : Up(d) => Up(d)'
    BY <1>19 DEF MasterCrash, Up
  <2> QED
    BY <1>19, <2>1, <1>q DEF MasterCrash, FaultFree
<1>20. CASE UNCHANGED vars
  BY <1>20, <1>q DEF vars, chunkVars, opVars, faultVars, FaultFree, Up
<1> QED
  BY <1>1, <1>2, <1>3, <1>4, <1>5, <1>6, <1>7, <1>8, <1>9, <1>10, <1>11, <1>12,
     <1>13, <1>14, <1>15, <1>16, <1>17, <1>18, <1>19, <1>20
  DEF Next, ClientStep, HandlerStep, OpFault, ChunkFault

LEMMA SendersWait == Spec => []NoneGivenUp
<1>1. Init => NoneGivenUp
  BY DEF Init, NoneGivenUp
<1>2. IInv /\ [Next]_vars /\ NoneGivenUp => NoneGivenUp'
  BY NoneGivenUpStep DEF IInv
<1> QED
  BY <1>1, <1>2, IInvCorrect, PTL DEF Spec

(* While no chunk crashes and no message is lost, an answered write is on  *)
(* every replica the master listed for it, whatever the master does.       *)
THEOREM TargetsCorrect == Spec => []AckedOnTargets
<1>1. Init => OnTargets
  BY DEF Init, OnTargets, FaultFree, Up
<1>2. IInv /\ [Next]_vars /\ NoneGivenUp /\ OnTargets => OnTargets'
  BY IInvStep, OnTargetsStep
<1>3. OnTargets => AckedOnTargets
  BY DEF OnTargets, AckedOnTargets, FaultFree
<1> QED
  BY <1>1, <1>2, <1>3, IInvCorrect, SendersWait, PTL DEF Spec

-----------------------------------------------------------------------------
(* Recovery in the order of SerialSpec: one operation at a time, begun     *)
(* when every running chunk serves and is held alive, chunks stopped and   *)
(* started in between.  As long as no message is lost and the master does  *)
(* not die, a chunk that serves has every finished write.                  *)

OthersFaultless == masterCrashes = 0 /\ netFaults = 0

(* Something of the operation is under way: what Quiescent says there is   *)
(* none of.                                                                *)
Busy(o) ==
    \/ cl[o] \in {"granted", "waiting", "notify"}
    \/ hd[o] \in {"sent", "lookup", "fanout"}
    \/ o \in notices
    \/ \E c \in Chunks : <<o, c>> \in repl

Finished(o) == hd[o] = "done"
Logged(o) == \E i \in DOMAIN wal : wal[i] = o

(* The client's side and the handler's agree, and each finished operation  *)
(* is in the log or in the one notice on its way there.                    *)
Stages ==
    \A o \in Ops :
        /\ \/ cl[o] \in {"idle", "granted", "failed"} /\ hd[o] = "none"
           \/ cl[o] = "waiting" /\ hd[o] \in {"sent", "lookup", "fanout"}
           \/ cl[o] \in {"notify", "ok"} /\ hd[o] = "done"
        /\ hd[o] \in {"sent", "lookup", "fanout"} => Up(Primary)
        /\ \A c \in Chunks : <<o, c>> \in repl => hd[o] = "fanout" /\ Up(c)
        /\ cl[o] = "ok" <=> o \in notices \/ Logged(o)
        /\ o \in notices => ~Logged(o)

(* The operation under way is the only one and has the largest number, and *)
(* no chunk is registering meanwhile.                                      *)
OneAtATime ==
    \A o \in Ops : Busy(o) =>
        /\ Settled
        /\ \A p \in Ops : Busy(p) => p = o
        /\ \A p \in Ops : seq[p] <= seq[o]

(* So the log is in the order of the numbers ...                           *)
InOrder == \A i, j \in DOMAIN wal : i < j => seq[wal[i]] < seq[wal[j]]

(* ... a serving chunk has what is finished, and will have what is not ... *)
Everywhere ==
    \A c \in Chunks : phase[c] = "serving" => \A o \in Ops :
        /\ Finished(o) => AtLeast(c, o)
        /\ hd[o] = "fanout" => \/ c = Primary \/ c \in todo[o]
                               \/ <<o, c>> \in repl \/ AtLeast(c, o)

(* ... no chunk, running or not, has a write and lacks an earlier one ...  *)
NoGaps ==
    \A c \in Chunks, k \in Keys, o \in Ops :
        Finished(o) /\ store[c][k] # None /\ seq[o] <= seq[store[c][k]] => AtLeast(c, o)

(* ... and one that registers has all up to the number it reported, and is *)
(* sent all of the log that is newer.                                      *)
CatchingUp ==
    \A c \in Chunks :
        /\ phase[c] \in {"sent", "registered", "replay"} =>
              \A o \in Ops : Finished(o) /\ seq[o] <= reported[c] => AtLeast(c, o)
        /\ phase[c] = "replay" => upto[c] = Len(wal)

SerialInv == /\ Stages
             /\ OneAtATime
             /\ InOrder
             /\ Everywhere
             /\ NoGaps
             /\ CatchingUp

(* What the write path guarantees in any order.                            *)
AnyOrder == IInv /\ UniqueSeq /\ NoneGivenUp /\ ReplayComplete

(* The steps of an operation and of a chunk that are left.                 *)
Begins(o) == HandleGetPrimary(o) /\ cl'[o] = "granted" /\ seq'[o] = seqNum + 1
Refused(o) == HandleGetPrimary(o) /\ cl'[o] = "failed" /\ UNCHANGED seq

OpMove(o) ==
    \/ SendWrite(o) \/ DialFails(o) \/ HandleWrite(o) \/ GetReplicaAddrs(o)
    \/ SendWriteResponse(o) \/ NotifyMasterWAL(o) \/ HandleWALNotify(o)
    \/ \E c \in Chunks : ReplicateTo(o, c) \/ HandleReplicate(o, c)

PhaseMove(c) ==
    \/ SendRegister(c) \/ HandleRegister(c) \/ SendRecovery(c)
    \/ FinishRecovery(c) \/ ChunkStart(c) \/ ChunkCrash(c)

SerialMove ==
    \/ \E o \in Ops : \/ Quiescent /\ Settled /\ (Begins(o) \/ Refused(o))
                      \/ OpMove(o)
    \/ \E c \in Chunks : \/ Quiescent /\ PhaseMove(c)
                         \/ ApplyRecovery(c)
                         \/ SendHeartbeat(c) \/ MonitorHealth(c)
    \/ UNCHANGED vars

LEMMA SerialMoves ==
    ASSUME TypeOK, TypeOK', UniqueSeq, OthersFaultless', [Next /\ SerialStep]_vars
    PROVE  OthersFaultless /\ mUp /\ SerialMove
<1>t. /\ masterCrashes \in Nat /\ netFaults \in Nat /\ seqNum \in Nat
      /\ cl \in [Ops -> ClientPhases] /\ phase \in [Chunks -> ChunkPhases]
      /\ seq \in [Ops -> Nat]
      /\ masterCrashes' = 0 /\ netFaults' = 0
  BY DEF TypeOK, OthersFaultless
<1>n. ASSUME NetFault PROVE FALSE
  BY <1>t, <1>n DEF NetFault
<1>1. mUp /\ masterCrashes = 0
  BY CounterStep DEF UniqueSeq, OthersFaultless
<1>2. CASE UNCHANGED vars
  BY <1>1, <1>2, <1>t DEF SerialMove, OthersFaultless, vars, faultVars
<1> SUFFICES ASSUME Next, SerialStep PROVE netFaults = 0 /\ SerialMove
  BY <1>1, <1>2 DEF OthersFaultless
<1>3. ASSUME NEW o \in Ops, HandleGetPrimary(o) PROVE netFaults = 0 /\ SerialMove
  <2>1. Begins(o) \/ Refused(o)
    BY <1>3, <1>t DEF HandleGetPrimary, Begins, Refused, NextSeqNum
  <2>2. cl[o] = "idle" /\ cl'[o] # "idle"
    BY <1>3, <2>1 DEF HandleGetPrimary, Begins, Refused
  <2>3. Quiescent /\ Settled
    BY <2>2 DEF SerialStep
  <2> QED
    BY <1>3, <1>t, <2>1, <2>3 DEF SerialMove, HandleGetPrimary, faultVars
<1>4. ASSUME NEW o \in Ops, ClientStep(o) \/ HandleWALNotify(o)
      PROVE  netFaults = 0 /\ SerialMove
  BY <1>4, <1>t DEF ClientStep, SendWrite, DialFails, NotifyMasterWAL, HandleWALNotify,
                    SerialMove, OpMove, faultVars
<1>5. ASSUME NEW o \in Ops, HandlerStep(o) PROVE netFaults = 0 /\ SerialMove
  <2>1. ~LookupFails(o)
    BY <1>1, <1>n DEF LookupFails
  <2>2. OpMove(o)
    BY <1>5, <2>1 DEF HandlerStep, OpMove
  <2>3. UNCHANGED netFaults
    BY <1>5 DEF HandlerStep, HandleWrite, GetReplicaAddrs, SendWriteResponse,
                ReplicateTo, HandleReplicate, faultVars
  <2> QED
    BY <1>t, <2>2, <2>3 DEF SerialMove
<1>6. ASSUME NEW o \in Ops, OpFault(o) PROVE FALSE
  BY <1>1, <1>6, <1>n DEF OpFault, LookupFails, ClientCrash, ClientLosesConn,
                          NotifyLost, ReplicateFails
<1>7. ASSUME NEW c \in Chunks, PhaseMove(c) PROVE netFaults = 0 /\ SerialMove
  <2>1. phase' # phase
    BY <1>7, <1>t DEF PhaseMove, SendRegister, HandleRegister, SendRecovery, FinishRecovery,
                      ChunkStart, ChunkCrash, Up
  <2>2. UNCHANGED netFaults
    BY <1>7 DEF PhaseMove, SendRegister, HandleRegister, SendRecovery, FinishRecovery,
                ChunkStart, ChunkCrash, faultVars
  <2> QED
    BY <1>7, <1>t, <2>1, <2>2 DEF SerialMove, SerialStep
<1>8. ASSUME NEW c \in Chunks, ApplyRecovery(c) \/ SendHeartbeat(c) \/ MonitorHealth(c)
      PROVE  netFaults = 0 /\ SerialMove
  BY <1>8, <1>t DEF SerialMove, ApplyRecovery, SendHeartbeat, MonitorHealth, faultVars
<1>9. ASSUME NEW c \in Chunks, RegisterFails(c) \/ LoseHeartbeats(c) PROVE FALSE
  BY <1>9, <1>n DEF RegisterFails, LoseHeartbeats
<1>10. ~MasterStart /\ ~MasterCrash
  BY <1>1, <1>t DEF MasterStart, MasterCrash
<1> QED
  BY <1>3, <1>4, <1>5, <1>6, <1>7, <1>8, <1>9, <1>10
  DEF Next, RegisterStep, ChunkFault, PhaseMove

(* The steps of a chunk leave the operations alone.                        *)
SameOps == UNCHANGED <<cl, seq, hd, notices, wal, repl>> /\ (Quiescent \/ UNCHANGED todo)

LEMMA ChunkMoves ==
    ASSUME TypeOK, NEW c \in Chunks,
           \/ Quiescent /\ PhaseMove(c)
           \/ ApplyRecovery(c) \/ SendHeartbeat(c) \/ MonitorHealth(c)
    PROVE  SameOps
<1>t. cl \in [Ops -> ClientPhases] /\ hd \in [Ops -> HandlerPhases]
  BY DEF TypeOK
<1>1. CASE Quiescent /\ ChunkCrash(c)
  <2>1. cl' = cl
    BY <1>1, <1>t DEF ChunkCrash, Quiescent
  <2>2. hd' = hd
    BY <1>1, <1>t DEF ChunkCrash, Quiescent
  <2>3. repl' = repl
    BY <1>1 DEF ChunkCrash, Quiescent
  <2> QED
    BY <1>1, <2>1, <2>2, <2>3 DEF ChunkCrash, SameOps, masterVars
<1>2. CASE Quiescent /\ PhaseMove(c) /\ ~ChunkCrash(c)
  BY <1>2 DEF PhaseMove, SendRegister, HandleRegister, SendRecovery, FinishRecovery,
              ChunkStart, SameOps, masterVars, opVars
<1>3. CASE ApplyRecovery(c) \/ SendHeartbeat(c) \/ MonitorHealth(c)
  BY <1>3 DEF ApplyRecovery, SendHeartbeat, MonitorHealth, SameOps, masterVars, opVars
<1> QED
  BY <1>1, <1>2, <1>3

(* Quiescent is that no operation is busy.                                 *)
LEMMA QuietIsIdle ==
    ASSUME TypeOK, mUp
    PROVE  Quiescent <=> \A o \in Ops : ~Busy(o)
<1>1. cl \in [Ops -> ClientPhases] /\ notices \subseteq Ops /\ repl \subseteq Ops \X Chunks
  BY DEF TypeOK
<1>2. ASSUME Quiescent, NEW o \in Ops PROVE ~Busy(o)
  BY <1>2 DEF Quiescent, Busy
<1>3. ASSUME \A o \in Ops : ~Busy(o) PROVE Quiescent
  <2>1. notices = {}
    BY <1>1, <1>3 DEF Busy
  <2>2. repl = {}
    BY <1>1, <1>3 DEF Busy
  <2> QED
    BY <1>1, <1>3, <2>1, <2>2 DEF Busy, Quiescent, ClientPhases
<1> QED
  BY <1>2, <1>3

(* An operation becomes busy only by its first step.                       *)
LEMMA BusyStep ==
    ASSUME TypeOK, mUp, SerialMove
    PROVE  \/ UNCHANGED seq /\ \A p \in Ops : Busy(p)' => Busy(p)
           \/ \E o \in Ops : /\ Quiescent /\ Settled /\ Begins(o)
                             /\ \A p \in Ops : Busy(p)' => p = o
<1> DEFINE Less == UNCHANGED seq /\ \A p \in Ops : Busy(p)' => Busy(p)
<1>t. cl \in [Ops -> ClientPhases] /\ hd \in [Ops -> HandlerPhases]
  BY DEF TypeOK
<1>1. ASSUME NEW o \in Ops, Quiescent, Begins(o)
      PROVE  \A p \in Ops : Busy(p)' => p = o
  <2>1. \A p \in Ops : ~Busy(p)
    BY <1>1, QuietIsIdle
  <2> QED
    BY <1>1, <1>t, <2>1 DEF Begins, HandleGetPrimary, Busy
<1>2. ASSUME NEW o \in Ops, Refused(o) PROVE Less
  BY <1>2, <1>t DEF Refused, HandleGetPrimary, Busy
<1>3. ASSUME NEW o \in Ops, OpMove(o) PROVE Less
  <2>1. CASE SendWrite(o)
    BY <2>1, <1>t DEF SendWrite, Busy, masterVars
  <2>2. CASE DialFails(o)
    BY <2>2, <1>t DEF DialFails, Busy, masterVars
  <2>3. CASE HandleWrite(o)
    BY <2>3, <1>t DEF HandleWrite, Busy, masterVars
  <2>4. CASE GetReplicaAddrs(o)
    BY <2>4, <1>t DEF GetReplicaAddrs, Busy
  <2>5. CASE SendWriteResponse(o)
    BY <2>5, <1>t DEF SendWriteResponse, Busy, masterVars
  <2>6. CASE NotifyMasterWAL(o)
    BY <2>6, <1>t DEF NotifyMasterWAL, Busy
  <2>7. CASE HandleWALNotify(o)
    BY <2>7, <1>t DEF HandleWALNotify, Busy, opVars
  <2>8. ASSUME NEW c \in Chunks, ReplicateTo(o, c) PROVE Less
    BY <2>8, <1>t DEF ReplicateTo, Busy, masterVars
  <2>9. ASSUME NEW c \in Chunks, HandleReplicate(o, c) PROVE Less
    BY <2>9, <1>t DEF HandleReplicate, Busy, masterVars
  <2> QED
    BY <1>3, <2>1, <2>2, <2>3, <2>4, <2>5, <2>6, <2>7, <2>8, <2>9 DEF OpMove
<1>4. ASSUME SameOps PROVE Less
  BY <1>4 DEF SameOps, Busy
<1>5. CASE UNCHANGED vars
  BY <1>5 DEF vars, masterVars, opVars, Busy
<1> QED
  BY <1>1, <1>2, <1>3, <1>4, <1>5, ChunkMoves DEF SerialMove

(* While an operation is busy no chunk registers.                          *)
LEMMA NoneRegistering ==
    ASSUME OneAtATime, NEW o \in Ops, Busy(o), NEW c \in Chunks
    PROVE  phase[c] = "down" \/ (phase[c] = "serving" /\ registry[c] = "alive")
BY DEF OneAtATime, Settled

LEMMA SettledStep ==
    ASSUME TypeOK, mUp, OneAtATime, SerialMove, NEW p \in Ops, Busy(p)
    PROVE  Settled'
<1>t. phase \in [Chunks -> ChunkPhases] /\ registry \in [Chunks -> {"unknown", "alive", "dead"}]
  BY DEF TypeOK
<1>s. Settled
  BY DEF OneAtATime
<1>q. ~Quiescent
  BY QuietIsIdle
<1>1. ASSUME UNCHANGED <<phase, registry>> PROVE Settled'
  BY <1>1, <1>s DEF Settled
<1>2. ASSUME NEW o \in Ops, OpMove(o) PROVE Settled'
  BY <1>2, <1>1 DEF OpMove, SendWrite, DialFails, HandleWrite, GetReplicaAddrs,
     SendWriteResponse, NotifyMasterWAL, HandleWALNotify, ReplicateTo, HandleReplicate,
     masterVars, chunkVars
<1>3. ASSUME NEW c \in Chunks, ApplyRecovery(c) PROVE Settled'
  BY <1>3, <1>1 DEF ApplyRecovery, masterVars
<1>4. ASSUME NEW c \in Chunks, SendHeartbeat(c) \/ MonitorHealth(c) PROVE Settled'
  BY <1>4, <1>s, <1>t DEF SendHeartbeat, MonitorHealth, Silent, Settled, chunkVars
<1>5. CASE UNCHANGED vars
  BY <1>5, <1>1 DEF vars, masterVars, chunkVars
<1> QED
  BY <1>q, <1>2, <1>3, <1>4, <1>5 DEF SerialMove

LEMMA OneAtATimeStep ==
    ASSUME TypeOK, TypeOK', mUp, masterCrashes = 0, UniqueSeq, OneAtATime, SerialMove
    PROVE  OneAtATime'
<1>t. seqNum \in Nat /\ seq \in [Ops -> Nat] /\ \A p \in Ops : seq[p] <= seqNum
  BY DEF TypeOK, UniqueSeq
<1>1. CASE UNCHANGED seq /\ \A p \in Ops : Busy(p)' => Busy(p)
  <2> SUFFICES ASSUME NEW o \in Ops, Busy(o)'
               PROVE  /\ Settled'
                      /\ \A p \in Ops : Busy(p)' => p = o
                      /\ \A p \in Ops : seq'[p] <= seq'[o]
    BY DEF OneAtATime
  <2>1. Busy(o)
    BY <1>1
  <2> QED
    BY <1>1, <2>1, SettledStep DEF OneAtATime
<1>2. ASSUME NEW o \in Ops, Settled, Begins(o), \A p \in Ops : Busy(p)' => p = o
      PROVE  OneAtATime'
  <2>1. Settled'
    BY <1>2 DEF Settled, Begins, HandleGetPrimary, chunkVars
  <2>2. ASSUME NEW p \in Ops PROVE seq'[p] <= seq'[o]
    BY <1>2, <1>t DEF Begins, HandleGetPrimary, NextSeqNum
  <2> QED
    BY <1>2, <2>1, <2>2 DEF OneAtATime
<1> QED
  BY <1>1, <1>2, BusyStep

(* The log grows by a write newer than all it has.                         *)
LEMMA InOrderStep ==
    ASSUME TypeOK, TypeOK', mUp, masterCrashes = 0, UniqueSeq, NotStarted, SentHandled,
           Stages, OneAtATime, InOrder, Effect, SerialMove
    PROVE  InOrder'
<1>t. /\ wal \in Seq(Ops) /\ seq \in [Ops -> Nat]
      /\ \A i \in DOMAIN wal : wal[i] \in Ops /\ seq'[wal[i]] = seq[wal[i]]
  BY DEF TypeOK, SentHandled, Effect
<1>1. CASE wal' = wal
  BY <1>1, <1>t DEF InOrder
<1>2. ASSUME NEW o \in Ops, HandleWALNotify(o) PROVE InOrder'
  <2>1. wal' = Append(wal, o) /\ seq' = seq /\ o \in notices
    BY <1>2 DEF HandleWALNotify, opVars
  <2>2. Busy(o) /\ hd[o] = "done"
    BY <2>1 DEF Busy, Stages
  <2>3. ASSUME NEW i \in DOMAIN wal PROVE seq[wal[i]] < seq[o]
    <3>1. wal[i] # o
      BY <2>1 DEF Stages, Logged
    <3>2. seq[wal[i]] <= seq[o] /\ seq[o] # 0
      BY <1>t, <2>2 DEF OneAtATime, NotStarted
    <3>3. seq[wal[i]] # seq[o]
      BY <1>t, <3>1, <3>2 DEF UniqueSeq
    <3> QED
      BY <1>t, <3>2, <3>3
  <2>4. ASSUME NEW i \in DOMAIN wal', NEW j \in DOMAIN wal', i < j
        PROVE  seq'[wal'[i]] < seq'[wal'[j]]
    <3>1. /\ i \in DOMAIN wal /\ wal'[i] = wal[i]
          /\ \/ j \in DOMAIN wal /\ wal'[j] = wal[j]
             \/ wal'[j] = o
      BY <1>t, <2>1, <2>4, AppendFacts
    <3> QED
      BY <2>1, <2>3, <2>4, <3>1 DEF InOrder
  <2> QED
    BY <2>4 DEF InOrder
<1>3. ASSUME NEW o \in Ops, OpMove(o), ~HandleWALNotify(o) PROVE wal' = wal
  BY <1>3 DEF OpMove, SendWrite, DialFails, HandleWrite, GetReplicaAddrs,
     SendWriteResponse, NotifyMasterWAL, ReplicateTo, HandleReplicate, masterVars
<1>4. ASSUME NEW o \in Ops, Begins(o) \/ Refused(o) PROVE wal' = wal
  BY <1>4 DEF Begins, Refused, HandleGetPrimary
<1>5. CASE UNCHANGED vars
  BY <1>1, <1>5 DEF vars, masterVars
<1> QED
  BY <1>1, <1>2, <1>3, <1>4, <1>5, ChunkMoves DEF SerialMove, SameOps

LEMMA LoggedSame ==
    ASSUME wal' = wal
    PROVE  \A p \in Ops : Logged(p)' <=> Logged(p)
BY DEF Logged

LEMMA StagesStep ==
    ASSUME TypeOK, TypeOK', mUp, NotStarted, NoneGivenUp, netFaults = 0,
           Stages, OneAtATime, SerialMove
    PROVE  Stages'
<1>t. /\ cl \in [Ops -> ClientPhases] /\ hd \in [Ops -> HandlerPhases]
      /\ todo \in [Ops -> SUBSET Chunks]
      /\ wal \in Seq(Ops) /\ repl \subseteq Ops \X Chunks
  BY DEF TypeOK
<1>u. \A c \in Chunks : phase'[c] = phase[c] => Up(c)' = Up(c)
  BY DEF Up
<1>1. ASSUME NEW o \in Ops, Begins(o) \/ Refused(o) PROVE Stages'
  <2>1. wal' = wal /\ notices' = notices /\ hd' = hd /\ repl' = repl /\ phase' = phase
    BY <1>1 DEF Begins, Refused, HandleGetPrimary, chunkVars
  <2> QED
    BY <1>1, <1>t, <1>u, <2>1, LoggedSame, ChunkAssumption
    DEF Begins, Refused, HandleGetPrimary, Stages
<1>2. ASSUME NEW o \in Ops, OpMove(o) PROVE Stages'
  <2>p. phase' = phase /\ \A c \in Chunks : Up(c)' = Up(c)
    BY <1>2, <1>u DEF OpMove, SendWrite, DialFails, HandleWrite, GetReplicaAddrs,
       SendWriteResponse, NotifyMasterWAL, HandleWALNotify, ReplicateTo, HandleReplicate,
       chunkVars
  <2>l. ~HandleWALNotify(o) => wal' = wal /\ \A p \in Ops : Logged(p)' <=> Logged(p)
    BY <1>2, LoggedSame DEF OpMove, SendWrite, DialFails, HandleWrite, GetReplicaAddrs,
       SendWriteResponse, NotifyMasterWAL, ReplicateTo, HandleReplicate, masterVars
  <2>1. CASE SendWrite(o) /\ ~HandleWALNotify(o)
    BY <2>1, <2>p, <2>l, <1>t, ChunkAssumption DEF SendWrite, Stages, masterVars
  <2>2. CASE DialFails(o) /\ ~HandleWALNotify(o)
    BY <2>2, <2>p, <2>l, <1>t, ChunkAssumption DEF DialFails, Stages, NotStarted, masterVars
  <2>3. CASE HandleWrite(o) /\ ~HandleWALNotify(o)
    BY <2>3, <2>p, <2>l, <1>t, ChunkAssumption DEF HandleWrite, Stages, masterVars
  <2>4. CASE GetReplicaAddrs(o) /\ ~HandleWALNotify(o)
    BY <2>4, <2>p, <2>l, <1>t, ChunkAssumption DEF GetReplicaAddrs, Stages
  <2>5. CASE SendWriteResponse(o) /\ ~HandleWALNotify(o)
    <3>1. \A c \in Chunks : <<o, c>> \notin repl
      BY <2>5 DEF SendWriteResponse, Awaiting, NoneGivenUp
    <3> QED
      BY <2>5, <2>p, <2>l, <3>1, <1>t, ChunkAssumption DEF SendWriteResponse, Stages, masterVars
  <2>6. CASE NotifyMasterWAL(o) /\ ~HandleWALNotify(o)
    BY <2>6, <2>p, <2>l, <1>t, ChunkAssumption DEF NotifyMasterWAL, Stages
  <2>7. CASE HandleWALNotify(o)
    <3>1. Logged(o)' /\ \A p \in Ops : p # o => (Logged(p)' <=> Logged(p))
      BY <2>7, <1>t, AppendFacts DEF HandleWALNotify, Logged
    <3> QED
      BY <2>7, <2>p, <3>1, <1>t, ChunkAssumption DEF HandleWALNotify, Stages, opVars
  <2>8. ASSUME NEW c \in Chunks, ReplicateTo(o, c) /\ ~HandleWALNotify(o) PROVE Stages'
    BY <2>8, <2>p, <2>l, <1>t, ChunkAssumption DEF ReplicateTo, Stages, masterVars
  <2>9. ASSUME NEW c \in Chunks, HandleReplicate(o, c) /\ ~HandleWALNotify(o) PROVE Stages'
    BY <2>9, <2>p, <2>l, <1>t, ChunkAssumption DEF HandleReplicate, Stages, masterVars
  <2> QED
    BY <1>2, <2>1, <2>2, <2>3, <2>4, <2>5, <2>6, <2>7, <2>8, <2>9 DEF OpMove
<1>3. ASSUME SameOps, UNCHANGED phase PROVE Stages'
  <2>1. \A c \in Chunks : Up(c)' = Up(c)
    BY <1>3, <1>u
  <2>2. \A p \in Ops : Logged(p)' <=> Logged(p)
    BY <1>3, LoggedSame DEF SameOps
  <2> QED
    BY <1>3, <2>1, <2>2, ChunkAssumption DEF SameOps, Stages
<1>4. ASSUME SameOps, Quiescent PROVE Stages'
  <2>1. \A p \in Ops : Logged(p)' <=> Logged(p)
    BY <1>4, LoggedSame DEF SameOps
  <2> QED
    BY <1>4, <2>1 DEF SameOps, Stages, Quiescent
<1>5. ASSUME NEW c \in Chunks, ApplyRecovery(c) \/ SendHeartbeat(c) \/ MonitorHealth(c)
      PROVE  UNCHANGED phase
  BY <1>5 DEF ApplyRecovery, SendHeartbeat, MonitorHealth, chunkVars
<1>6. CASE UNCHANGED vars
  BY <1>3, <1>6 DEF vars, masterVars, chunkVars, opVars, SameOps
<1> QED
  BY <1>1, <1>2, <1>3, <1>4, <1>5, <1>6, ChunkMoves DEF SerialMove

LEMMA FinishedAreLogged ==
    ASSUME Quiescent, Stages, NEW o \in Ops, Finished(o)
    PROVE  Logged(o)
BY DEF Quiescent, Stages, Finished

(* A chunk that has applied its RecoveryResponse has all that is finished. *)
LEMMA RecoveredHasAll ==
    ASSUME IInv, ReplayComplete, Quiescent, Stages, CatchingUp, NEW c \in Chunks,
           phase[c] = "replay", replay[c] = {}, NEW o \in Ops, Finished(o)
    PROVE  AtLeast(c, o)
<1>1. PICK i \in DOMAIN wal : wal[i] = o
  BY FinishedAreLogged DEF Logged
<1>2. i \in 1..upto[c] /\ seq[o] \in Nat /\ reported[c] \in Nat
  BY DEF CatchingUp, IInv, TypeOK
<1> QED
  BY <1>1, <1>2 DEF ReplayComplete, CatchingUp

LEMMA EverywhereStep ==
    ASSUME IInv, TypeOK', mUp, NoneGivenUp, netFaults = 0, ReplayComplete, Effect,
           Stages, OneAtATime, CatchingUp, Everywhere, SerialMove
    PROVE  Everywhere'
<1>i. TypeOK /\ StoredHandled /\ OnPrimary
  BY DEF IInv
<1>t. /\ hd \in [Ops -> HandlerPhases] /\ todo \in [Ops -> SUBSET Chunks]
      /\ phase \in [Chunks -> ChunkPhases]
  BY <1>i DEF TypeOK
<1>k. ASSUME NEW c \in Chunks, NEW o \in Ops, hd[o] \in {"fanout", "done"}, AtLeast(c, o)
      PROVE  AtLeast(c, o)'
  BY <1>i, <1>k, AtLeastKept DEF Handled
<1>1. ASSUME NEW o \in Ops, OpMove(o) PROVE Everywhere'
  <2>p. UNCHANGED phase
    BY <1>1 DEF OpMove, SendWrite, DialFails, HandleWrite, GetReplicaAddrs,
       SendWriteResponse, NotifyMasterWAL, HandleWALNotify, ReplicateTo, HandleReplicate,
       chunkVars
  <2> SUFFICES ASSUME NEW c \in Chunks, phase[c] = "serving", NEW p \in Ops
               PROVE  /\ Finished(p)' => AtLeast(c, p)'
                      /\ hd'[p] = "fanout" => \/ c = Primary \/ c \in todo'[p]
                                              \/ <<p, c>> \in repl' \/ AtLeast(c, p)'
    BY <2>p DEF Everywhere
  <2>e. /\ Finished(p) => AtLeast(c, p)
        /\ hd[p] = "fanout" => c = Primary \/ c \in todo[p] \/ <<p, c>> \in repl \/ AtLeast(c, p)
    BY DEF Everywhere
  <2>1. CASE UNCHANGED <<hd, todo, repl>>
    BY <2>1, <2>e, <1>k DEF Finished
  <2>2. CASE SendWrite(o) \/ HandleWrite(o)
    BY <2>2, <2>e, <1>k, <1>t DEF SendWrite, HandleWrite, Finished
  <2>3. CASE GetReplicaAddrs(o)
    <3>1. CASE p = o
      <4>1. Busy(o) /\ hd[o] = "lookup"
        BY <2>3 DEF GetReplicaAddrs, Busy
      <4>2. Up(Primary) /\ Primary \in Chunks
        BY <4>1, ChunkAssumption DEF Stages
      <4>3. registry[c] = "alive" /\ registry[Primary] = "alive"
        BY <4>1, <4>2, NoneRegistering DEF Up
      <4>4. c = Primary \/ c \in ReplicaAddrs
        BY <4>2, <4>3 DEF ReplicaAddrs, AliveChunks
      <4> QED
        BY <2>3, <3>1, <4>4, <1>t DEF GetReplicaAddrs, Finished
    <3>2. CASE p # o
      BY <2>3, <3>2, <2>e, <1>k, <1>t DEF GetReplicaAddrs, Finished
    <3> QED
      BY <3>1, <3>2
  <2>4. CASE SendWriteResponse(o)
    <3>1. CASE p = o
      <4>1. hd[o] = "fanout" /\ todo[o] = {} /\ <<o, c>> \notin repl
        BY <2>4 DEF SendWriteResponse, Awaiting, NoneGivenUp
      <4>2. AtLeast(c, o)
        BY <3>1, <4>1, <2>e, <1>i DEF OnPrimary, Handled
      <4> QED
        BY <2>4, <3>1, <4>1, <4>2, <1>k, <1>t DEF SendWriteResponse
    <3>2. CASE p # o
      BY <2>4, <3>2, <2>e, <1>k, <1>t DEF SendWriteResponse, Finished
    <3> QED
      BY <3>1, <3>2
  <2>5. ASSUME NEW d \in Chunks, ReplicateTo(o, d)
        PROVE  /\ Finished(p)' => AtLeast(c, p)'
               /\ hd'[p] = "fanout" => \/ c = Primary \/ c \in todo'[p]
                                       \/ <<p, c>> \in repl' \/ AtLeast(c, p)'
    BY <2>5, <2>e, <1>k, <1>t DEF ReplicateTo, Finished, Up
  <2>6. ASSUME NEW d \in Chunks, HandleReplicate(o, d)
        PROVE  /\ Finished(p)' => AtLeast(c, p)'
               /\ hd'[p] = "fanout" => \/ c = Primary \/ c \in todo'[p]
                                       \/ <<p, c>> \in repl' \/ AtLeast(c, p)'
    <3>1. Put(d, o) /\ UNCHANGED <<seq, hd, todo>> /\ repl' = repl \ {<<o, d>>}
      BY <2>6 DEF HandleReplicate
    <3>2. AtLeast(d, o)'
      BY <3>1, <1>i, PutEffect
    <3> QED
      BY <3>1, <3>2, <2>e, <1>k DEF Finished
  <2> QED
    BY <1>1, <2>1, <2>2, <2>3, <2>4, <2>5, <2>6
    DEF OpMove, DialFails, NotifyMasterWAL, HandleWALNotify, opVars
<1>2. ASSUME NEW o \in Ops, Begins(o) \/ Refused(o) PROVE Everywhere'
  BY <1>2, <1>k DEF Begins, Refused, HandleGetPrimary, chunkVars, Everywhere, Finished
<1>3. ASSUME SameOps, UNCHANGED <<phase, todo>> PROVE Everywhere'
  BY <1>3, <1>k DEF SameOps, Everywhere, Finished
<1>4. ASSUME NEW c \in Chunks, Quiescent, PhaseMove(c) PROVE Everywhere'
  <2>1. SameOps
    BY <1>4, <1>i, ChunkMoves
  <2> SUFFICES ASSUME NEW d \in Chunks, phase'[d] = "serving", NEW o \in Ops, Finished(o)
               PROVE  AtLeast(d, o)
    BY <1>4, <2>1, <1>k DEF SameOps, Quiescent, Everywhere, Finished
  <2>2. CASE phase[d] = "serving"
    BY <2>2 DEF Everywhere
  <2>3. CASE phase[d] # "serving"
    <3>1. phase[d] = "replay" /\ replay[d] = {}
      BY <1>4, <2>3, <1>t DEF PhaseMove, SendRegister, HandleRegister, SendRecovery,
                              FinishRecovery, ChunkStart, ChunkCrash
    <3> QED
      BY <1>4, <3>1, RecoveredHasAll
  <2> QED
    BY <2>2, <2>3
<1>5. ASSUME NEW c \in Chunks, ApplyRecovery(c) \/ SendHeartbeat(c) \/ MonitorHealth(c)
      PROVE  UNCHANGED <<phase, todo>>
  BY <1>5 DEF ApplyRecovery, SendHeartbeat, MonitorHealth, chunkVars, opVars
<1>6. CASE UNCHANGED vars
  BY <1>3, <1>6 DEF vars, masterVars, chunkVars, opVars, SameOps
<1> QED
  BY <1>i, <1>1, <1>2, <1>3, <1>4, <1>5, <1>6, ChunkMoves DEF SerialMove

(* Entries come in the order of the log: one that is sent for a recovery   *)
(* finds all the chunk missed of the earlier ones.                         *)
LEMMA AppliedInOrder ==
    ASSUME IInv, ReplayComplete, Quiescent, Stages, InOrder, CatchingUp,
           NEW c \in Chunks, phase[c] = "replay",
           NEW j \in replay[c], \A i \in replay[c] : j <= i,
           NEW o \in Ops, Finished(o), seq[o] <= seq[wal[j]]
    PROVE  o = wal[j] \/ AtLeast(c, o)
<1>1. PICK i \in DOMAIN wal : wal[i] = o
  BY FinishedAreLogged DEF Logged
<1>2. /\ i \in 1..upto[c] /\ upto[c] \in Nat
      /\ seq \in [Ops -> Nat] /\ reported[c] \in Nat
      /\ j \in DOMAIN wal /\ wal[j] \in Ops /\ i \in Nat /\ j \in Nat
  <2>1. TypeOK
    BY DEF IInv
  <2>2. i \in 1..upto[c] /\ upto[c] \in Nat
    BY <2>1 DEF CatchingUp, TypeOK
  <2>3. seq \in [Ops -> Nat] /\ reported[c] \in Nat /\ wal \in Seq(Ops)
    BY <2>1 DEF TypeOK
  <2>4. j \in DOMAIN wal /\ wal[j] \in Ops
    BY <2>1, ReplayTyped
  <2>5. \A x \in DOMAIN wal : x \in Nat
    BY ONLY <2>3
  <2> QED
    BY <2>2, <2>3, <2>4, <2>5
<1>3. CASE seq[o] <= reported[c]
  BY <1>3 DEF CatchingUp
<1>4. CASE seq[o] > reported[c] /\ i \notin replay[c]
  BY <1>1, <1>2, <1>4 DEF ReplayComplete
<1>5. CASE i \in replay[c]
  <2>1. i = j \/ j < i
    BY <1>2, <1>5
  <2>2. ~(j < i)
    BY <1>1, <1>2 DEF InOrder
  <2> QED
    BY <1>1, <2>1, <2>2
<1> QED
  BY <1>2, <1>3, <1>4, <1>5

(* What a step adds to a chunk comes after all finished writes before it.  *)
LEMMA NewestAdded ==
    ASSUME IInv, TypeOK', mUp, ReplayComplete, Effect, SerialMove,
           Stages, OneAtATime, InOrder, Everywhere, CatchingUp,
           NEW c \in Chunks, NEW k \in Keys, store'[c][k] # store[c][k],
           NEW p \in Ops, Finished(p), seq[p] <= seq[store'[c][k]]
    PROVE  AtLeast(c, p)'
<1>i. TypeOK /\ StoredHandled /\ OnPrimary
  BY DEF IInv
<1>k. ASSUME AtLeast(c, p) PROVE AtLeast(c, p)'
  BY <1>i, <1>k, AtLeastKept DEF Finished, Handled
<1>p. CASE c = Primary
  BY <1>i, <1>k, <1>p DEF OnPrimary, Finished, Handled
<1> SUFFICES ASSUME c # Primary PROVE AtLeast(c, p)'
  BY <1>p
<1>1. ASSUME NEW o \in Ops, OpMove(o) PROVE AtLeast(c, p)'
  <2>1. ASSUME NEW d \in Chunks, HandleReplicate(o, d) PROVE AtLeast(c, p)'
    <3>1. Put(d, o) /\ UNCHANGED seq /\ <<o, d>> \in repl
      BY <2>1 DEF HandleReplicate
    <3>2. d = c
      BY <3>1, <1>i, PutEffect
    <3>3. Up(c) /\ Busy(o)
      BY <3>1, <3>2 DEF Stages, Busy
    <3>4. AtLeast(c, p)
      BY <3>3, NoneRegistering DEF Up, Everywhere
    <3> QED
      BY <3>4, <1>k
  <2>2. CASE HandleWrite(o)
    <3>1. Put(Primary, o) /\ UNCHANGED seq /\ Primary \in Chunks
      BY <2>2, ChunkAssumption DEF HandleWrite
    <3> QED
      BY <3>1, <1>i, PutEffect
  <2>3. CASE UNCHANGED store
    BY <2>3
  <2> QED
    BY <1>1, <2>1, <2>2, <2>3
    DEF OpMove, SendWrite, DialFails, GetReplicaAddrs, SendWriteResponse, NotifyMasterWAL,
        HandleWALNotify, ReplicateTo, chunkVars
<1>2. ASSUME NEW d \in Chunks, ApplyRecovery(d) PROVE AtLeast(c, p)'
  <2>1. PICK j \in replay[d] : (\A i \in replay[d] : j <= i) /\ Put(d, wal[j])
    BY <1>2 DEF ApplyRecovery
  <2>2. phase[d] = "replay" /\ UNCHANGED seq
    BY <1>2 DEF ApplyRecovery, opVars
  <2>3. wal[j] \in Ops
    BY <1>i, ReplayTyped
  <2>4. ASSUME NEW o \in Ops, o = wal[j]
        PROVE  /\ AtLeast(d, o)'
               /\ d = c /\ store'[c][k] = o
    <3>1. Put(d, o) /\ UNCHANGED seq
      BY <2>1, <2>2, <2>4
    <3> QED
      BY <3>1, <1>i, PutEffect
  <2>5. Quiescent
    BY <1>i, <2>2, QuietIsIdle, NoneRegistering
  <2>6. p = wal[j] \/ AtLeast(c, p)
    BY <2>1, <2>2, <2>3, <2>4, <2>5, AppliedInOrder
  <2> QED
    BY <2>3, <2>4, <2>6, <1>k
<1>3. ASSUME NEW d \in Chunks, PhaseMove(d) \/ SendHeartbeat(d) \/ MonitorHealth(d)
      PROVE  UNCHANGED store
  BY <1>3 DEF PhaseMove, SendRegister, HandleRegister, SendRecovery, FinishRecovery,
              ChunkStart, ChunkCrash, SendHeartbeat, MonitorHealth, chunkVars
<1>4. ASSUME NEW o \in Ops, Begins(o) \/ Refused(o) PROVE UNCHANGED store
  BY <1>4 DEF Begins, Refused, HandleGetPrimary, chunkVars
<1>5. CASE UNCHANGED vars
  BY <1>5 DEF vars, chunkVars
<1> QED
  BY <1>1, <1>2, <1>3, <1>4, <1>5 DEF SerialMove

(* A write that finishes is newer than all that is stored.                 *)
LEMMA Finishes ==
    ASSUME TypeOK, SerialMove, NEW p \in Ops, Finished(p)', ~Finished(p)
    PROVE  /\ hd[p] = "fanout"
           /\ UNCHANGED <<store, seq, phase, reported, upto, wal>>
<1>t. hd \in [Ops -> HandlerPhases]
  BY DEF TypeOK
<1>1. ASSUME NEW o \in Ops, OpMove(o)
      PROVE  /\ hd[p] = "fanout"
             /\ UNCHANGED <<store, seq, phase, reported, upto, wal>>
  BY <1>1, <1>t DEF OpMove, SendWrite, DialFails, HandleWrite, GetReplicaAddrs,
     SendWriteResponse, NotifyMasterWAL, HandleWALNotify, ReplicateTo, HandleReplicate,
     masterVars, chunkVars, opVars, Finished
<1>2. ASSUME UNCHANGED hd PROVE FALSE
  BY <1>2 DEF Finished
<1>3. ASSUME NEW o \in Ops, Begins(o) \/ Refused(o) PROVE UNCHANGED hd
  BY <1>3 DEF Begins, Refused, HandleGetPrimary
<1>4. CASE UNCHANGED vars
  BY <1>2, <1>4 DEF vars, opVars
<1> QED
  BY <1>1, <1>2, <1>3, <1>4, ChunkMoves DEF SerialMove, SameOps

LEMMA NoGapsStep ==
    ASSUME IInv, TypeOK', mUp, masterCrashes = 0, UniqueSeq, ReplayComplete, Effect,
           SerialMove, SerialInv
    PROVE  NoGaps'
<1>i. TypeOK /\ StoredHandled /\ NotStarted
  BY DEF IInv
<1>v. Stages /\ OneAtATime /\ InOrder /\ Everywhere /\ NoGaps /\ CatchingUp
  BY DEF SerialInv
<1> SUFFICES ASSUME NEW c \in Chunks, NEW k \in Keys, NEW p \in Ops, Finished(p)',
                    store'[c][k] # None, seq'[p] <= seq'[store'[c][k]]
             PROVE  AtLeast(c, p)'
  BY DEF NoGaps
<1>1. CASE ~Finished(p)
  <2>1. hd[p] = "fanout" /\ UNCHANGED <<store, seq>>
    BY <1>i, <1>1, Finishes
  <2>2. store[c][k] \in Ops /\ OpKey[store[c][k]] = k /\ seq[p] \in Nat /\ seq[store[c][k]] \in Nat
    BY <1>i, <2>1 DEF TypeOK, StoredHandled
  <2>3. seq[p] # 0 /\ seq[store[c][k]] <= seq[p]
    BY <1>i, <1>v, <2>1, <2>2 DEF NotStarted, OneAtATime, Busy
  <2>4. store[c][k] = p
    BY <2>1, <2>2, <2>3 DEF UniqueSeq
  <2> QED
    BY <2>1, <2>2, <2>4 DEF AtLeast
<1>2. CASE Finished(p)
  <2>1. seq'[p] = seq[p] /\ Handled(p)
    BY <1>2 DEF Effect, Finished, Handled
  <2>2. CASE store'[c][k] = store[c][k]
    <3>1. seq'[store[c][k]] = seq[store[c][k]]
      BY <1>i, <2>2 DEF StoredHandled, TypeOK, Effect
    <3>2. AtLeast(c, p)
      BY <1>2, <1>v, <2>1, <2>2, <3>1 DEF NoGaps
    <3> QED
      BY <1>i, <2>1, <3>2, AtLeastKept
  <2>3. CASE store'[c][k] # store[c][k]
    <3>1. UNCHANGED seq
      BY <2>3 DEF Effect, StoreEffect, Stopped, Started
    <3> QED
      BY <1>2, <1>v, <2>3, <3>1, NewestAdded
  <2> QED
    BY <2>2, <2>3
<1> QED
  BY <1>1, <1>2

LEMMA CatchingUpStep ==
    ASSUME IInv, TypeOK', mUp, Effect, SerialMove, SerialInv
    PROVE  CatchingUp'
<1>i. /\ TypeOK /\ StoredHandled /\ NotStarted /\ LastSeqIsMax
      /\ OneAtATime /\ NoGaps /\ CatchingUp
  BY DEF IInv, SerialInv
<1>t. /\ phase \in [Chunks -> ChunkPhases] /\ seq \in [Ops -> Nat]
      /\ reported \in [Chunks -> Nat] /\ upto \in [Chunks -> Nat]
  BY <1>i DEF TypeOK
<1>k. ASSUME NEW c \in Chunks, NEW o \in Ops, Finished(o)
      PROVE  seq'[o] = seq[o] /\ (AtLeast(c, o) => AtLeast(c, o)')
  BY <1>i, <1>k, AtLeastKept DEF Finished, Handled, Effect
<1>f. ASSUME NEW c \in Chunks, phase[c] \in {"boot", "sent", "registered", "replay"}
      PROVE  Quiescent /\ \A o \in Ops : Finished(o)' => Finished(o)
  <2>1. \A o \in Ops : ~Busy(o)
    BY <1>i, <1>f, NoneRegistering
  <2> QED
    BY <1>i, <2>1, QuietIsIdle, Finishes DEF Busy
<1>w. ASSUME Quiescent PROVE wal' = wal
  <2>1. notices = {}
    BY <1>w DEF Quiescent
  <2> QED
    BY <1>i, <2>1, ChunkMoves
    DEF SerialMove, OpMove, SendWrite, DialFails, HandleWrite, GetReplicaAddrs,
        SendWriteResponse, NotifyMasterWAL, HandleWALNotify, ReplicateTo, HandleReplicate,
        Begins, Refused, HandleGetPrimary, SameOps, vars, masterVars
<1> SUFFICES ASSUME NEW c \in Chunks
             PROVE  /\ phase'[c] \in {"sent", "registered", "replay"} =>
                         \A o \in Ops : Finished(o)' /\ seq'[o] <= reported'[c] => AtLeast(c, o)'
                    /\ phase'[c] = "replay" => upto'[c] = Len(wal')
  BY DEF CatchingUp
<1>1. CASE phase'[c] = phase[c] /\ reported'[c] = reported[c] /\ upto'[c] = upto[c]
  BY <1>i, <1>1, <1>k, <1>f, <1>w DEF CatchingUp
<1>2. CASE SendRegister(c)
  <2>1. phase'[c] = "sent" /\ reported'[c] = lastSeq[c] /\ Up(c) /\ phase[c] = "boot"
    BY <1>2, <1>t DEF SendRegister, Up
  <2>2. ASSUME NEW o \in Ops, Finished(o), seq[o] <= lastSeq[c] PROVE AtLeast(c, o)
    <3>1. seq[o] # 0 /\ seq[o] \in Nat
      BY <1>i, <1>t, <2>2 DEF NotStarted, Finished
    <3>2. lastSeq[c] \in StoredSeqs(c)
      BY <1>i, <2>1 DEF LastSeqIsMax
    <3>3. lastSeq[c] # 0
      BY <2>2, <3>1
    <3>4. PICK k \in Keys : store[c][k] # None /\ lastSeq[c] = seq[store[c][k]]
      BY <3>2, <3>3 DEF StoredSeqs
    <3> QED
      BY <1>i, <2>2, <3>4 DEF NoGaps
  <2> QED
    BY <1>f, <1>k, <2>1, <2>2
<1>3. CASE HandleRegister(c)
  BY <1>i, <1>3, <1>t, <1>k, <1>f DEF HandleRegister, CatchingUp
<1>4. CASE SendRecovery(c)
  BY <1>i, <1>4, <1>t, <1>k, <1>f DEF SendRecovery, CatchingUp, masterVars
<1>5. CASE FinishRecovery(c) \/ ChunkStart(c) \/ ChunkCrash(c)
  BY <1>5, <1>t DEF FinishRecovery, ChunkStart, ChunkCrash
<1>6. ASSUME NEW d \in Chunks, d # c, PhaseMove(d)
      PROVE  phase'[c] = phase[c] /\ reported'[c] = reported[c] /\ upto'[c] = upto[c]
  BY <1>6, <1>t DEF PhaseMove, SendRegister, HandleRegister, SendRecovery, FinishRecovery,
                    ChunkStart, ChunkCrash
<1>7. ASSUME \/ \E o \in Ops : Begins(o) \/ Refused(o) \/ OpMove(o)
             \/ \E d \in Chunks : ApplyRecovery(d) \/ SendHeartbeat(d) \/ MonitorHealth(d)
             \/ UNCHANGED vars
      PROVE  UNCHANGED <<phase, reported, upto>>
  BY <1>7 DEF Begins, Refused, HandleGetPrimary, OpMove, SendWrite, DialFails, HandleWrite,
     GetReplicaAddrs, SendWriteResponse, NotifyMasterWAL, HandleWALNotify, ReplicateTo,
     HandleReplicate, ApplyRecovery, SendHeartbeat, MonitorHealth, vars, chunkVars
<1> QED
  BY <1>1, <1>2, <1>3, <1>4, <1>5, <1>6, <1>7 DEF SerialMove, PhaseMove

LEMMA SerialInvStep ==
    ASSUME AnyOrder, AnyOrder', SerialInv, OthersFaultless', [Next /\ SerialStep]_vars
    PROVE  SerialInv'
<1>1. IInv /\ TypeOK /\ TypeOK' /\ NotStarted /\ SentHandled /\ Effect
  BY IInvStep DEF AnyOrder, IInv
<1>2. UniqueSeq /\ NoneGivenUp /\ ReplayComplete
  BY DEF AnyOrder
<1>3. mUp /\ masterCrashes = 0 /\ netFaults = 0 /\ SerialMove
  BY <1>1, <1>2, SerialMoves DEF OthersFaultless
<1>4. Stages /\ OneAtATime /\ InOrder /\ Everywhere /\ NoGaps /\ CatchingUp
  BY DEF SerialInv
<1>5. Stages'
  BY <1>1, <1>2, <1>3, <1>4, StagesStep
<1>6. OneAtATime'
  BY <1>1, <1>2, <1>3, <1>4, OneAtATimeStep
<1>7. InOrder'
  BY <1>1, <1>2, <1>3, <1>4, InOrderStep
<1>8. Everywhere'
  BY <1>1, <1>2, <1>3, <1>4, EverywhereStep
<1>9. NoGaps'
  BY <1>1, <1>2, <1>3, NoGapsStep
<1>10. CatchingUp'
  BY <1>1, <1>3, CatchingUpStep
<1> QED
  BY <1>5, <1>6, <1>7, <1>8, <1>9, <1>10 DEF SerialInv

(* SerialSpec only leaves behaviours of Spec out.                          *)
LEMMA SerialIsAnyOrder == SerialSpec => []AnyOrder
<1>1. SerialSpec => Spec
  <2>1. [Next /\ SerialStep]_vars => [Next]_vars
    OBVIOUS
  <2> QED
    BY <2>1, PTL DEF SerialSpec, Spec
<1>2. IInv /\ UniqueSeq /\ NoneGivenUp /\ ReplayComplete => AnyOrder
  BY DEF AnyOrder
<1> QED
  BY <1>1, <1>2, IInvCorrect, NumbersUnique, SendersWait, ReplayCorrect, PTL

(* While the master and the network work, SerialInv holds in that order.   *)
LEMMA SerialInvCorrect == SerialSpec => [](AnyOrder /\ (OthersFaultless => SerialInv))
<1>1. Init => SerialInv
  <2> SUFFICES ASSUME Init PROVE SerialInv
    OBVIOUS
  <2>1. \A o \in Ops : ~Busy(o) /\ ~Finished(o) /\ ~Logged(o)
    BY DEF Init, Busy, Finished, Logged
  <2> QED
    BY <2>1 DEF Init, SerialInv, Stages, OneAtATime, InOrder, Everywhere, NoGaps, CatchingUp
<1>2. AnyOrder /\ AnyOrder' /\ (OthersFaultless => SerialInv) /\ [Next /\ SerialStep]_vars
        => (OthersFaultless => SerialInv)'
  <2> SUFFICES ASSUME AnyOrder, AnyOrder', OthersFaultless => SerialInv,
                      [Next /\ SerialStep]_vars, OthersFaultless'
               PROVE  SerialInv'
    OBVIOUS
  <2>1. OthersFaultless
    BY SerialMoves DEF AnyOrder, IInv
  <2> QED
    BY <2>1, SerialInvStep
<1> QED
  BY <1>1, <1>2, SerialIsAnyOrder, PTL DEF SerialSpec

(* "The chunk applies the missed writes and is fully caught up": it does,  *)
(* in the order of test_correctness.ps1, for any number of chunks, keys,   *)
(* operations and chunk crashes, while the master and the network work.    *)
THEOREM CaughtUpCorrect == SerialSpec => [](masterCrashes = 0 /\ netFaults = 0 => CaughtUp)
<1>1. AnyOrder /\ (OthersFaultless => SerialInv)
        => (masterCrashes = 0 /\ netFaults = 0 => CaughtUp)
  <2> SUFFICES ASSUME AnyOrder, SerialInv, NEW c \in Chunks, phase[c] = "serving",
                      NEW i \in DOMAIN wal
               PROVE  AtLeast(c, wal[i])
    BY DEF OthersFaultless, CaughtUp
  <2>1. wal[i] \in Ops /\ Logged(wal[i])
    BY DEF AnyOrder, IInv, TypeOK, Logged
  <2>2. Finished(wal[i])
    BY <2>1 DEF SerialInv, Stages, Finished
  <2> QED
    BY <2>1, <2>2 DEF SerialInv, Everywhere
<1> QED
  BY <1>1, SerialInvCorrect, PTL

(* What one serving chunk holds, every other one holds in this or a newer  *)
(* version: when nothing is under way, a stored write is a finished one.   *)
LEMMA HeldEverywhere ==
    ASSUME AnyOrder, SerialInv, Quiescent, NEW c \in Chunks, NEW d \in Chunks,
           phase[d] = "serving", NEW k \in Keys, store[c][k] # None
    PROVE  /\ store[c][k] \in Ops /\ store[d][k] # None
           /\ seq[store[c][k]] # 0
           /\ seq[store[c][k]] <= seq[store[d][k]]
<1> DEFINE o == store[c][k]
<1>1. o \in Ops /\ Handled(o) /\ OpKey[o] = k
  BY DEF AnyOrder, IInv, TypeOK, StoredHandled
<1>2. Finished(o)
  BY <1>1 DEF Handled, Finished, SerialInv, Stages, Quiescent
<1>3. AtLeast(d, o)
  BY <1>1, <1>2 DEF SerialInv, Everywhere
<1>4. seq[o] # 0
  BY <1>1, <1>2 DEF AnyOrder, IInv, NotStarted, Finished
<1> QED
  BY <1>1, <1>3, <1>4 DEF AtLeast

(* In the same order, and under the same faults, all serving chunks hold   *)
(* the same versions when nothing is under way: each holds what the others *)
(* hold or something newer, and no two writes have the same number.        *)
THEOREM ReplicasAgreeCorrect ==
    SerialSpec => [](masterCrashes = 0 /\ netFaults = 0 => ReplicasAgree)
<1>1. ASSUME AnyOrder, OthersFaultless, SerialInv, Quiescent,
             NEW c \in Chunks, NEW d \in Chunks, phase[c] = "serving", phase[d] = "serving",
             NEW k \in Keys
      PROVE  store[c][k] = store[d][k]
  <2>t. /\ store[c][k] \in Ops \cup {None} /\ store[d][k] \in Ops \cup {None}
        /\ seq \in [Ops -> Nat]
    BY <1>1 DEF AnyOrder, IInv, TypeOK
  <2>1. CASE store[c][k] = None
    BY <1>1, <2>1, HeldEverywhere
  <2>2. CASE store[c][k] # None
    <3>1. /\ store[c][k] \in Ops /\ store[d][k] \in Ops
          /\ seq[store[c][k]] # 0
          /\ seq[store[c][k]] <= seq[store[d][k]]
      BY <1>1, <2>t, <2>2, HeldEverywhere
    <3>2. seq[store[d][k]] <= seq[store[c][k]]
      BY <1>1, <2>t, <2>2, <3>1, HeldEverywhere
    <3>3. seq[store[c][k]] = seq[store[d][k]]
      BY <2>t, <3>1, <3>2
    <3> QED
      BY <1>1, <3>1, <3>3 DEF AnyOrder, UniqueSeq, OthersFaultless
  <2> QED
    BY <2>1, <2>2
<1>2. ASSUME AnyOrder, OthersFaultless, SerialInv PROVE ReplicasAgree
  <2>1. \A c \in Chunks : store[c] \in [Keys -> Ops \cup {None}]
    BY <1>2 DEF AnyOrder, IInv, TypeOK
  <2> SUFFICES ASSUME Quiescent, NEW c \in Chunks, NEW d \in Chunks,
                      phase[c] = "serving", phase[d] = "serving"
               PROVE  store[c] = store[d]
    BY DEF ReplicasAgree
  <2>2. \A k \in Keys : store[c][k] = store[d][k]
    BY <1>1, <1>2
  <2> QED
    BY <2>1, <2>2
<1>3. AnyOrder /\ (OthersFaultless => SerialInv)
        => (masterCrashes = 0 /\ netFaults = 0 => ReplicasAgree)
  BY <1>2 DEF OthersFaultless
<1> QED
  BY <1>3, SerialInvCorrect, PTL

-----------------------------------------------------------------------------
(* What a step of the write path leaves as it is.                          *)

(* A handler that is done stays so and keeps its replica list; an OK comes *)
(* from such a handler; faults are never taken back.                       *)
HandlersKept ==
    /\ \A o \in Ops : hd[o] = "done" => hd'[o] = "done" /\ targets'[o] = targets[o]
    /\ \A o \in Ops : Acked(o)' => Acked(o) \/ hd'[o] = "done"
    /\ FaultFree' => FaultFree

LEMMA HandlersKeptStep ==
    ASSUME TypeOK, NotStarted, [Next]_vars
    PROVE  HandlersKept
<1> USE DEF HandlersKept, FaultFree, Acked
<1>t. /\ cl \in [Ops -> ClientPhases] /\ hd \in [Ops -> HandlerPhases]
      /\ targets \in [Ops -> SUBSET Chunks]
      /\ chunkCrashes \in Nat /\ netFaults \in Nat
  BY DEF TypeOK
<1>1. ASSUME NEW o \in Ops, HandleGetPrimary(o) PROVE HandlersKept
  BY <1>1, <1>t DEF HandleGetPrimary, faultVars
<1>2. ASSUME NEW o \in Ops, SendWrite(o) PROVE HandlersKept
  <2>1. hd[o] = "none"
    BY <1>2 DEF SendWrite, NotStarted
  <2> QED
    BY <1>2, <1>t, <2>1 DEF SendWrite, faultVars
<1>3. ASSUME NEW o \in Ops, DialFails(o) \/ NotifyMasterWAL(o) PROVE HandlersKept
  BY <1>3, <1>t DEF DialFails, NotifyMasterWAL, faultVars
<1>4. ASSUME NEW o \in Ops, HandleWrite(o) PROVE HandlersKept
  BY <1>4, <1>t DEF HandleWrite, faultVars
<1>5. ASSUME NEW o \in Ops, GetReplicaAddrs(o) PROVE HandlersKept
  BY <1>5, <1>t DEF GetReplicaAddrs, faultVars
<1>6. ASSUME NEW o \in Ops, LookupFails(o) PROVE HandlersKept
  BY <1>6, <1>t DEF LookupFails, NetFault
<1>7. ASSUME NEW o \in Ops, SendWriteResponse(o) PROVE HandlersKept
  BY <1>7, <1>t DEF SendWriteResponse, faultVars
<1>8. ASSUME NEW o \in Ops, NEW c \in Chunks, ReplicateTo(o, c) \/ HandleReplicate(o, c)
      PROVE  HandlersKept
  BY <1>8, <1>t DEF ReplicateTo, HandleReplicate, faultVars
<1>9. ASSUME NEW o \in Ops, NEW c \in Chunks, ReplicateFails(o, c) PROVE HandlersKept
  BY <1>9, <1>t DEF ReplicateFails, NetFault
<1>10. ASSUME NEW o \in Ops, HandleWALNotify(o) PROVE HandlersKept
  BY <1>10, <1>t DEF HandleWALNotify, opVars, faultVars
<1>11. ASSUME NEW o \in Ops, ClientCrash(o) PROVE HandlersKept
  BY <1>11, <1>t DEF ClientCrash, NetFault
<1>12. ASSUME NEW o \in Ops, ClientLosesConn(o) PROVE HandlersKept
  BY <1>12, <1>t DEF ClientLosesConn, NetFault
<1>13. ASSUME NEW o \in Ops, NotifyLost(o) PROVE HandlersKept
  BY <1>13, <1>t DEF NotifyLost, NetFault, opVars
<1>14. ASSUME NEW c \in Chunks, RegisterStep(c) PROVE HandlersKept
  BY <1>14, <1>t DEF RegisterStep, SendRegister, HandleRegister, SendRecovery,
                     ApplyRecovery, FinishRecovery, opVars, faultVars
<1>15. ASSUME NEW c \in Chunks, SendHeartbeat(c) \/ MonitorHealth(c) \/ ChunkStart(c)
       PROVE HandlersKept
  BY <1>15, <1>t DEF SendHeartbeat, MonitorHealth, ChunkStart, opVars, faultVars
<1>16. ASSUME NEW c \in Chunks, ChunkCrash(c) PROVE HandlersKept
  BY <1>16, <1>t DEF ChunkCrash
<1>17. ASSUME NEW c \in Chunks, RegisterFails(c) \/ LoseHeartbeats(c) PROVE HandlersKept
  BY <1>17, <1>t DEF RegisterFails, LoseHeartbeats, NetFault, opVars
<1>18. CASE MasterStart
  BY <1>18, <1>t DEF MasterStart, opVars, faultVars
<1>19. CASE MasterCrash
  BY <1>19, <1>t DEF MasterCrash
<1>20. CASE UNCHANGED vars
  BY <1>20, <1>t DEF vars, opVars, faultVars
<1> QED
  BY <1>1, <1>2, <1>3, <1>4, <1>5, <1>6, <1>7, <1>8, <1>9, <1>10, <1>11, <1>12,
     <1>13, <1>14, <1>15, <1>16, <1>17, <1>18, <1>19, <1>20
  DEF Next, ClientStep, HandlerStep, OpFault, ChunkFault

-----------------------------------------------------------------------------
(* The inductive invariant.                                                *)

ReadTypes ==
    /\ rd \in [Reads -> {"idle", "routed", "done", "failed", "empty"}]
    /\ at \in [Reads -> Chunks \cup {None}]
    /\ got \in [Reads -> [Keys -> Ops \cup {None}]]
    /\ known \in [Reads -> SUBSET Ops]
    /\ before \in [Reads -> SUBSET Reads]
    /\ \A r \in Reads : rd[r] \in {"routed", "done"} => at[r] \in Chunks

(* What a read has found was taken by the primary, and the chunk it was    *)
(* found on keeps it or something newer.                                   *)
FoundStays ==
    \A r \in Reads : Answered(r) => \A k \in Keys : got[r][k] # None =>
        /\ Handled(got[r][k]) /\ OpKey[got[r][k]] = k
        /\ AtLeast(at[r], got[r][k])

(* What was acknowledged before a read has been given to all replicas of   *)
(* its list, and what was read before it has been answered.                *)
KnownDone == /\ \A o \in Ops : Acked(o) => hd[o] = "done"
             /\ \A r \in Reads : \A o \in known[r] : hd[o] = "done"
             /\ \A r \in Reads : \A q \in before[r] : Answered(q)

RInv == ReadTypes /\ FoundStays /\ KnownDone /\ FreshRead /\ MonotonicReads

LEMMA RInvInit == ReadInit => RInv
BY DEF ReadInit, Init, RInv, ReadTypes, FoundStays, KnownDone, FreshRead, MonotonicReads,
       Answered, Acked, NoEntries

-----------------------------------------------------------------------------
(* A read that is over keeps what it found, and stays as new as it was.    *)

LEMMA FoundIsKnown ==
    ASSUME ReadTypes, FoundStays, NEW r \in Reads, Answered(r), NEW k \in Keys,
           NEW e, e = got[r][k], e # None
    PROVE  e \in Ops /\ Handled(e) /\ OpKey[e] = k /\ AtLeast(at[r], e)
<1>1. got[r][k] \in Ops
  BY DEF ReadTypes
<1> QED
  BY <1>1 DEF FoundStays

(* Numbers of what was handled stay.                                       *)
LEMMA AsNewKept ==
    ASSUME TypeOK, Effect, ReadTypes, FoundStays,
           NEW r \in Reads, Answered(r), got'[r] = got[r],
           NEW o \in Ops, Handled(o), AsNewAs(r, o)
    PROVE  AsNewAs(r, o)'
<1> DEFINE e == got[r][OpKey[o]]
<1>1. \A p \in Ops : Handled(p) => Handled(p)' /\ seq'[p] = seq[p]
  BY DEF Effect
<1>2. OpKey[o] \in Keys
  BY OpAssumption
<1>3. CASE e # None /\ seq[e] >= seq[o]
  <2>1. e \in Ops /\ Handled(e)
    BY <1>2, <1>3, FoundIsKnown
  <2>2. seq'[e] = seq[e] /\ seq'[o] = seq[o]
    BY <1>1, <2>1
  <2> QED
    BY <1>3, <2>2 DEF AsNewAs
<1>4. CASE e = None /\ \E d \in Deletes : OpKey[d] = OpKey[o] /\ Handled(d) /\ seq[d] >= seq[o]
  <2>1. PICK d \in Deletes : OpKey[d] = OpKey[o] /\ Handled(d) /\ seq[d] >= seq[o]
    BY <1>4
  <2>2. d \in Ops
    BY ReadAssumption
  <2>3. Handled(d)' /\ seq'[d] = seq[d] /\ seq'[o] = seq[o]
    BY <1>1, <2>1, <2>2
  <2> QED
    BY <1>4, <2>1, <2>3 DEF AsNewAs
<1> QED
  BY <1>3, <1>4 DEF AsNewAs

(* What a chunk that has o or something newer answers is as new as o.      *)
LEMMA ReadIsAsNew ==
    ASSUME TypeOK, StoredHandled, NEW r \in Reads, NEW c \in Chunks,
           NEW o \in Ops, AtLeast(c, o), UNCHANGED <<hd, seq>>,
           got'[r][OpKey[o]] = Visible(store[c][OpKey[o]])
    PROVE  AsNewAs(r, o)'
<1>1. OpKey[o] \in Keys
  BY OpAssumption
<1>2. PICK x \in Ops : x = store[c][OpKey[o]]
  BY <1>1 DEF AtLeast, TypeOK
<1>3. x # None /\ seq[x] >= seq[o] /\ Handled(x) /\ OpKey[x] = OpKey[o]
  BY <1>1, <1>2 DEF AtLeast, StoredHandled
<1>4. Handled(x)' /\ seq'[x] >= seq'[o]
  BY <1>3 DEF Handled
<1>5. CASE x \in Deletes
  BY <1>2, <1>3, <1>4, <1>5 DEF Visible, AsNewAs
<1>6. CASE x \notin Deletes
  BY <1>2, <1>3, <1>4, <1>6 DEF Visible, AsNewAs
<1> QED
  BY <1>5, <1>6

(* FoundStays, FreshRead and MonotonicReads for one read.                  *)
FoundFor(r) ==
    Answered(r) => \A k \in Keys : got[r][k] # None =>
        /\ Handled(got[r][k]) /\ OpKey[got[r][k]] = k
        /\ AtLeast(at[r], got[r][k])
FreshFor(r) ==
    FaultFree /\ Answered(r) =>
        \A o \in known[r] :
            OpKey[o] \in Asked(r) /\ at[r] \in targets[o] \cup {Primary}
            => AsNewAs(r, o)
MonotonicFor(r) ==
    Answered(r) =>
        \A q \in before[r] : Answered(q) /\ at[q] = at[r] =>
            \A k \in Asked(q) \cap Asked(r) :
                got[q][k] # None => AsNewAs(r, got[q][k])

LEMMA ReadByRead ==
    /\ FoundStays <=> \A r \in Reads : FoundFor(r)
    /\ FreshRead <=> \A r \in Reads : FreshFor(r)
    /\ MonotonicReads <=> \A r \in Reads : MonotonicFor(r)
BY DEF FoundStays, FoundFor, FreshRead, FreshFor, FaultFree, MonotonicReads, MonotonicFor

AskedInKeys == \A r \in Reads : Asked(r) \subseteq Keys
LEMMA AskedAreKeys == AskedInKeys
BY ReadAssumption DEF AskedInKeys, Asked, Reads

(* A read that was over before the step.                                   *)
LEMMA OldRead ==
    ASSUME IInv, IInv', Effect, HandlersKept, RInv,
           NEW r \in Reads, Answered(r),
           at'[r] = at[r], got'[r] = got[r], known'[r] = known[r], before'[r] = before[r],
           \A q \in Reads : Answered(q) => at'[q] = at[q] /\ got'[q] = got[q]
    PROVE  FoundFor(r)' /\ FreshFor(r)' /\ MonotonicFor(r)'
<1>t. TypeOK /\ TypeOK' /\ StoredHandled /\ ReadTypes /\ FoundStays
  BY DEF IInv, RInv
<1>h. \A o \in Ops : Handled(o) => Handled(o)'
  BY DEF Effect
<1>1. FoundFor(r)'
  <2> SUFFICES ASSUME NEW k \in Keys, NEW e \in Ops, e = got[r][k], e # None
               PROVE  Handled(e)' /\ OpKey[e] = k /\ AtLeast(at[r], e)'
    BY <1>t DEF FoundFor, ReadTypes, Handled, AtLeast
  <2>1. Handled(e) /\ OpKey[e] = k /\ AtLeast(at[r], e)
    BY <1>t, FoundIsKnown
  <2>2. at[r] \in Chunks
    BY <1>t DEF ReadTypes, Answered
  <2>3. PICK c \in Chunks : c = at[r]
    BY <2>2
  <2>4. AtLeast(c, e)'
    BY <1>t, <2>1, <2>3, AtLeastKept
  <2> QED
    BY <1>h, <2>1, <2>3, <2>4 DEF AtLeast
<1>2. FreshFor(r)'
  <2> SUFFICES ASSUME FaultFree', NEW o \in known[r], OpKey[o] \in Asked(r),
                      at[r] \in targets'[o] \cup {Primary}
               PROVE  AsNewAs(r, o)'
    BY DEF FreshFor
  <2>1. o \in Ops /\ hd[o] = "done"
    BY DEF RInv, KnownDone, ReadTypes
  <2>2. Handled(o) /\ targets'[o] = targets[o] /\ FaultFree
    BY <2>1 DEF Handled, HandlersKept
  <2>3. AsNewAs(r, o)
    BY <2>1, <2>2, ReadByRead DEF FreshFor, RInv
  <2> QED
    BY <1>t, <2>1, <2>2, <2>3, AsNewKept
<1>3. MonotonicFor(r)'
  <2> SUFFICES ASSUME NEW q \in before[r], Answered(q)', at'[q] = at'[r],
                      NEW k \in Asked(q) \cap Asked(r),
                      NEW e, e = got'[q][k], e # None
               PROVE  AsNewAs(r, e)'
    BY DEF MonotonicFor, AsNewAs
  <2>1. q \in Reads /\ Answered(q) /\ k \in Keys
    BY AskedAreKeys DEF RInv, KnownDone, ReadTypes, AskedInKeys
  <2>2. e = got[q][k] /\ at[q] = at[r]
    BY <2>1
  <2>3. e \in Ops /\ Handled(e)
    BY <1>t, <2>1, <2>2, FoundIsKnown
  <2>4. AsNewAs(r, e)
    BY <2>1, <2>2, ReadByRead DEF RInv, MonotonicFor
  <2> QED
    BY <1>t, <2>3, <2>4, AsNewKept
<1> QED
  BY <1>1, <1>2, <1>3

(* A read that is answered by the step.                                    *)
LEMMA NewRead ==
    ASSUME IInv, AckedOnTargets, RInv, UNCHANGED vars, NEW r \in Reads, HandleRead(r)
    PROVE  FoundFor(r)' /\ FreshFor(r)' /\ MonotonicFor(r)'
<1>t. TypeOK /\ StoredHandled /\ OnPrimary /\ ReadTypes /\ FoundStays
  BY DEF IInv, RInv
<1>v. UNCHANGED <<hd, seq, store, targets, chunkCrashes, netFaults>>
  BY DEF vars, opVars, chunkVars, faultVars
<1>1. PICK c \in Chunks : c = at[r]
  BY <1>t DEF HandleRead, ReadTypes
<1>2. /\ \A k \in Keys : got'[r][k] = IF k \in Asked(r) THEN Visible(store[c][k]) ELSE None
      /\ \A q \in Reads : q # r => got'[q] = got[q] /\ rd'[q] = rd[q]
      /\ UNCHANGED <<at, known, before>>
  BY <1>t, <1>1 DEF HandleRead, Ends, ReadTypes
<1>k. r \notin before[r] /\ Asked(r) \subseteq Keys
  BY AskedAreKeys DEF AskedInKeys, HandleRead, RInv, KnownDone, Answered
<1>3. ASSUME NEW o \in Ops, OpKey[o] \in Asked(r), AtLeast(c, o)
      PROVE  AsNewAs(r, o)'
  <2>1. got'[r][OpKey[o]] = Visible(store[c][OpKey[o]])
    BY <1>2, <1>3, OpAssumption
  <2> QED
    BY <1>t, <1>v, <1>3, <2>1, ReadIsAsNew
<1>4. FoundFor(r)'
  <2> SUFFICES ASSUME NEW k \in Keys, NEW e, e = got'[r][k], e # None
               PROVE  Handled(e)' /\ OpKey[e] = k /\ AtLeast(c, e)'
    BY <1>1, <1>2 DEF FoundFor, Handled, AtLeast
  <2>1. e = store[c][k] /\ e \in Ops
    BY <1>t, <1>2 DEF Visible, TypeOK
  <2>2. Handled(e) /\ OpKey[e] = k /\ seq[e] \in Nat
    BY <1>t, <2>1 DEF StoredHandled, TypeOK
  <2> QED
    BY <1>v, <2>1, <2>2 DEF Handled, AtLeast
<1>5. FreshFor(r)'
  <2> SUFFICES ASSUME FaultFree, NEW o \in known[r], OpKey[o] \in Asked(r),
                      c \in targets[o] \cup {Primary}
               PROVE  AsNewAs(r, o)'
    BY <1>1, <1>2, <1>v DEF FreshFor, FaultFree
  <2>1. o \in Ops /\ hd[o] = "done"
    BY DEF RInv, KnownDone, ReadTypes
  <2>2. AtLeast(c, o)
    BY <1>t, <2>1 DEF AckedOnTargets, FaultFree, OnPrimary, Handled
  <2> QED
    BY <1>3, <2>1, <2>2
<1>6. MonotonicFor(r)'
  <2> SUFFICES ASSUME NEW q \in before[r], at[q] = c,
                      NEW k \in Asked(q) \cap Asked(r),
                      NEW e, e = got'[q][k], e # None
               PROVE  AsNewAs(r, e)'
    BY <1>1, <1>2 DEF MonotonicFor, AsNewAs
  <2>1. q \in Reads /\ Answered(q) /\ k \in Keys
    BY <1>k DEF RInv, KnownDone, ReadTypes
  <2>2. e = got[q][k]
    BY <1>2, <1>k, <2>1
  <2>3. e \in Ops /\ OpKey[e] = k /\ AtLeast(c, e)
    BY <1>t, <2>1, <2>2, FoundIsKnown
  <2> QED
    BY <1>3, <2>3
<1> QED
  BY <1>4, <1>5, <1>6

(* Only the read that steps changes, and a master that dies takes lists    *)
(* with it that are not over.                                              *)
LEMMA ReadsKept ==
    ASSUME TypeOK, ReadTypes, [ReadNext]_<<vars, readVars>>
    PROVE  /\ [Next]_vars
           /\ ReadTypes'
           /\ \A r \in Reads :
                 \/ Answered(r)' /\ ~Answered(r) /\ HandleRead(r) /\ UNCHANGED vars
                 \/ /\ Answered(r)' <=> Answered(r)
                    /\ got'[r] = got[r]
                    /\ Answered(r) => at'[r] = at[r] /\ known'[r] = known[r]
                                      /\ before'[r] = before[r]
           /\ \A r \in Reads : known'[r] \subseteq known[r] \cup {o \in Ops : Acked(o)}
           /\ \A r \in Reads : before'[r] \subseteq before[r] \cup {q \in Reads : Answered(q)}
<1> DEFINE Goal ==
           /\ [Next]_vars
           /\ ReadTypes'
           /\ \A r \in Reads :
                 \/ Answered(r)' /\ ~Answered(r) /\ HandleRead(r) /\ UNCHANGED vars
                 \/ /\ Answered(r)' <=> Answered(r)
                    /\ got'[r] = got[r]
                    /\ Answered(r) => at'[r] = at[r] /\ known'[r] = known[r]
                                      /\ before'[r] = before[r]
           /\ \A r \in Reads : known'[r] \subseteq known[r] \cup {o \in Ops : Acked(o)}
           /\ \A r \in Reads : before'[r] \subseteq before[r] \cup {q \in Reads : Answered(q)}
<1> USE DEF ReadTypes, Answered
<1>1. CASE Next /\ ListsLost /\ UNCHANGED <<at, got, known, before>>
  <2>1. /\ rd' \in [Reads -> {"idle", "routed", "done", "failed", "empty"}]
        /\ \A r \in Reads :
              rd'[r] = rd[r] \/ (rd[r] = "routed" /\ rd'[r] = "failed")
    BY <1>1 DEF ListsLost
  <2>2. ReadTypes'
    BY <1>1, <2>1
  <2>3. \A r \in Reads : Answered(r)' <=> Answered(r)
    BY <2>1
  <2> QED
    BY <1>1, <2>2, <2>3
<1>2. ASSUME NEW r \in Reads, UNCHANGED vars, Route(r) PROVE Goal
  <2>1. PICK c \in Chunks : at' = [at EXCEPT ![r] = c]
    BY <1>2 DEF Route, Routable, AliveChunks
  <2>2. /\ rd[r] = "idle" /\ rd' = [rd EXCEPT ![r] = "routed"]
        /\ known' = [known EXCEPT ![r] = {o \in Ops : Acked(o)}]
        /\ before' = [before EXCEPT ![r] = {q \in Reads : rd[q] = "done"}]
        /\ UNCHANGED got
    BY <1>2 DEF Route, Ends
  <2> QED
    BY <1>2, <2>1, <2>2
<1>3. ASSUME NEW r \in Reads, UNCHANGED vars, NEW how \in {"failed", "empty"},
             Fails(r, how), rd[r] # "done"
      PROVE  Goal
  <2>1. /\ rd' = [rd EXCEPT ![r] = how] /\ at' = [at EXCEPT ![r] = None]
        /\ known' = [known EXCEPT ![r] = {}] /\ before' = [before EXCEPT ![r] = {}]
        /\ UNCHANGED got
    BY <1>3 DEF Fails, Ends
  <2> QED
    BY <1>3, <2>1
<1>4. ASSUME NEW r \in Reads, NoChunk(r) \/ NoMaster(r) \/ ReadFails(r)
      PROVE  rd[r] # "done" /\ \E how \in {"failed", "empty"} : Fails(r, how)
  BY <1>4 DEF NoChunk, NoMaster, ReadFails
<1>5. ASSUME NEW r \in Reads, UNCHANGED vars, HandleRead(r) PROVE Goal
  <2>1. /\ rd[r] = "routed" /\ rd' = [rd EXCEPT ![r] = "done"]
        /\ UNCHANGED <<at, known, before>>
    BY <1>5 DEF HandleRead, Ends
  <2>2. \A k \in Keys : Visible(store[at[r]][k]) = store[at[r]][k]
                       \/ Visible(store[at[r]][k]) = None
    BY DEF Visible
  <2>3. /\ \A k \in Keys : got'[r][k] \in Ops \cup {None}
        /\ got' = [got EXCEPT ![r] = [k \in Keys |->
               IF k \in Asked(r) THEN Visible(store[at[r]][k]) ELSE None]]
    BY <1>5, <2>1, <2>2 DEF HandleRead, TypeOK
  <2>4. ReadTypes'
    BY <2>1, <2>3
  <2> QED
    BY <1>5, <2>1, <2>3, <2>4
<1>6. CASE UNCHANGED <<vars, readVars>>
  BY <1>6 DEF readVars
<1> QED
  BY <1>1, <1>2, <1>3, <1>4, <1>5, <1>6 DEF ReadNext, ReadStep

LEMMA RInvStep ==
    ASSUME IInv, AckedOnTargets, RInv, [ReadNext]_<<vars, readVars>>
    PROVE  RInv'
<1>1. TypeOK /\ NotStarted /\ ReadTypes /\ KnownDone
  BY DEF IInv, RInv
<1>2. [Next]_vars /\ ReadTypes'
  BY <1>1, ReadsKept
<1>3. IInv' /\ Effect /\ HandlersKept
  BY <1>1, <1>2, IInvStep, HandlersKeptStep
<1>4. KnownDone'
  <2>1. \A o \in Ops : Acked(o)' => hd'[o] = "done"
    BY <1>1, <1>3 DEF KnownDone, HandlersKept
  <2>2. ASSUME NEW r \in Reads, NEW o \in known'[r] PROVE hd'[o] = "done"
    <3>1. o \in Ops /\ (o \in known[r] \/ Acked(o))
      BY <1>1, ReadsKept DEF ReadTypes
    <3> QED
      BY <1>1, <1>3, <3>1 DEF KnownDone, HandlersKept
  <2>3. ASSUME NEW r \in Reads, NEW q \in before'[r] PROVE Answered(q)'
    <3>1. q \in Reads /\ Answered(q)
      BY <1>1, ReadsKept DEF ReadTypes, KnownDone
    <3> QED
      BY <1>1, <3>1, ReadsKept
  <2> QED
    BY <2>1, <2>2, <2>3 DEF KnownDone
<1>5. ASSUME NEW r \in Reads PROVE FoundFor(r)' /\ FreshFor(r)' /\ MonotonicFor(r)'
  <2>1. CASE ~Answered(r)'
    BY <2>1 DEF FoundFor, FreshFor, MonotonicFor
  <2>2. CASE Answered(r)' /\ ~Answered(r)
    BY <1>1, <2>2, ReadsKept, NewRead
  <2>3. CASE Answered(r)' /\ Answered(r)
    <3>1. /\ at'[r] = at[r] /\ got'[r] = got[r]
          /\ known'[r] = known[r] /\ before'[r] = before[r]
          /\ \A q \in Reads : Answered(q) => at'[q] = at[q] /\ got'[q] = got[q]
      BY <1>1, <2>3, ReadsKept DEF HandleRead, Answered
    <3> QED
      BY <1>3, <2>3, <3>1, OldRead
  <2> QED
    BY <2>1, <2>2, <2>3
<1>6. (\A r \in Reads : FoundFor(r)' /\ FreshFor(r)' /\ MonotonicFor(r)')
      => FoundStays' /\ FreshRead' /\ MonotonicReads'
  BY DEF FoundStays, FoundFor, FreshRead, FreshFor, FaultFree, MonotonicReads, MonotonicFor
<1> QED
  BY <1>2, <1>4, <1>5, <1>6 DEF RInv

-----------------------------------------------------------------------------
(* The theorems.                                                           *)

(* The write path behaves beside the reads as it does without them.        *)
THEOREM ReadsChangeNothing == ReadSpec => Spec
<1>1. ReadInit => Init
  BY DEF ReadInit
<1>2. [ReadNext]_<<vars, readVars>> => [Next]_vars
  BY DEF ReadNext
<1> QED
  BY <1>1, <1>2, PTL DEF ReadSpec, Spec

(* What is known and was read before a read began stays on the chunks.     *)
THEOREM RInvCorrect == ReadSpec => []RInv
<1>1. IInv /\ AckedOnTargets /\ RInv /\ [ReadNext]_<<vars, readVars>> => RInv'
  BY RInvStep
<1> QED
  BY RInvInit, <1>1, ReadsChangeNothing, IInvCorrect, TargetsCorrect, PTL DEF ReadSpec

(* While no chunk crashes and no message is lost, a read sees every write  *)
(* acknowledged before it, on each chunk that the master had listed when   *)
(* the write was replicated and on the primary; for any number of writes   *)
(* and reads at a time, and whatever the master does.                      *)
THEOREM FreshReadCorrect == ReadSpec => []FreshRead
<1>1. RInv => FreshRead
  BY DEF RInv
<1> QED
  BY <1>1, RInvCorrect, PTL

(* Two reads of one chunk never go back in time, with any crashes and      *)
(* restarts of the chunk and of the master in between, lost messages and   *)
(* numbers that are given out twice included.                              *)
THEOREM MonotonicReadsCorrect == ReadSpec => []MonotonicReads
<1>1. RInv => MonotonicReads
  BY DEF RInv
<1> QED
  BY <1>1, RInvCorrect, PTL
=============================================================================
