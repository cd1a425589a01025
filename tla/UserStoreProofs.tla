--------------------------- MODULE UserStoreProofs ---------------------------
(***************************************************************************)
(* Accounts are kept, and logins are given one vault key, whatever the     *)
(* number of processes, names and calls, until two Register calls overlap; *)
(* and even then no key of a failed call is given out.  The same with the  *)
(* legacy web server as one of the processes, and its own keys and tokens  *)
(* at the end.                                                             *)
(***************************************************************************)
EXTENDS WebGateway, TLAPS

(* The accounts whose Register has returned nil, and those of them since   *)
(* which no write was cut short.                                           *)
OkRegs   == {r \in Regs : result[r] = "ok"}
GoodRegs == {r \in Regs : result[r] = "ok" /\ okCuts[r] = cuts}

(* f has all the accounts of rs; f has no others, each under its own name. *)
Holds(f, rs)   == \A r \in rs : f[RegUser[r]] = r
Genuine(f, rs) == \A u \in Users : f[u] # None => f[u] \in rs /\ RegUser[f[u]] = u

FileInv ==
    /\ file # Torn => Genuine(file, OkRegs)
    /\ ~Writing /\ GoodRegs # {} => file # Torn /\ Holds(file, GoodRegs)

CallInv ==
    \A p \in Procs : stage[p] # "idle" =>
        /\ call[p] \in Regs /\ result[call[p]] = "none"
        /\ \A q \in Procs : stage[q] # "idle" => q = p
        /\ Holds(users[p], GoodRegs)
        /\ stage[p] = "hashing" =>
            file = users[p] /\ file[RegUser[call[p]]] = None
        /\ stage[p] = "writing" =>
            /\ file = NoUsers
            /\ users[p][RegUser[call[p]]] = call[p]
            /\ Genuine(users[p], OkRegs \cup {call[p]})

GivenInv ==
    /\ \A r \in Regs : okCuts[r] <= cuts
    /\ \A u \in Users : \A r \in given[u] : r \in OkRegs /\ RegUser[r] = u

IInv == TypeOK /\ FileInv /\ CallInv /\ GivenInv

LEMMA NoUsersType == NoUsers \in Files /\ \A u \in Users : NoUsers[u] = None
BY DEF NoUsers, Files

LEMMA Initially == Init => IInv
<1> SUFFICES ASSUME Init PROVE IInv
  OBVIOUS
<1>2. TypeOK
  BY NoUsersType DEF Init, TypeOK, Stages
<1>3. OkRegs = {} /\ GoodRegs = {}
  BY DEF Init, OkRegs, GoodRegs
<1>4. FileInv
  BY NoUsersType, <1>3 DEF Init, FileInv, Genuine
<1>5. CallInv
  BY DEF Init, CallInv
<1>6. GivenInv
  BY DEF Init, GivenInv
<1> QED BY <1>2, <1>4, <1>5, <1>6 DEF IInv

(* The types are kept by every step.                                       *)
LEMMA TypesKept ==
    ASSUME TypeOK, [Next]_vars PROVE TypeOK'
<1> USE RegAssumption, BoundAssumption, NoUsersType DEF TypeOK
<1>1. ASSUME NEW p \in Procs, NEW r \in Regs, RegisterRefused(p, r) PROVE TypeOK'
  BY <1>1 DEF RegisterRefused, Reloaded
<1>2. ASSUME NEW p \in Procs, NEW r \in Regs, RegisterBegin(p, r) PROVE TypeOK'
  BY <1>2 DEF RegisterBegin, Reloaded, Stages
<1>3. ASSUME NEW p \in Procs, Truncate(p) PROVE TypeOK'
  <2>1. WithNew(p) \in Files
    BY DEF WithNew, Files
  <2> QED BY <1>3, <2>1 DEF Truncate, Stages
<1>d. ASSUME NEW p \in Procs, Done(p)
      PROVE  stage' \in [Procs -> Stages] /\ call' \in [Procs -> Regs \cup {None}]
  BY <1>d DEF Done, Stages
<1>r. ASSUME NEW r, NEW v \in {"ok", "refused"}, result' = [result EXCEPT ![r] = v]
      PROVE  result' \in [Regs -> {"none", "ok", "refused"}]
  BY <1>r
<1>p. \A p \in Procs : PartOfText(p) \subseteq Files \cup {Torn}
  BY DEF PartOfText
<1>4. ASSUME NEW p \in Procs, Persist(p) PROVE TypeOK'
  <2>1. file' \in Files \cup {Torn}
    BY <1>4 DEF Persist
  <2>2. okCuts' \in [Regs -> Nat]
    BY <1>4 DEF Persist
  <2> QED BY <1>4, <1>d, <1>r, <2>1, <2>2 DEF Persist
<1>5. ASSUME NEW p \in Procs, PersistFails(p) PROVE TypeOK'
  <2>1. file' \in Files \cup {Torn}
    BY <1>5, <1>p DEF PersistFails
  <2>2. stage' \in [Procs -> Stages] /\ call' \in [Procs -> Regs \cup {None}]
    BY <1>5, <1>d DEF PersistFails
  <2>3. result' \in [Regs -> {"none", "ok", "refused"}]
    BY <1>5, <1>r DEF PersistFails
  <2>4. cuts' \in Nat /\ faults' \in Nat
    BY <1>5 DEF PersistFails, Fault
  <2> QED BY <1>5, <2>1, <2>2, <2>3, <2>4 DEF PersistFails
<1>6. ASSUME NEW p \in Procs, Crash(p) PROVE TypeOK'
  <2>1. file' \in Files \cup {Torn} /\ cuts' \in Nat
    BY <1>6, <1>p DEF Crash
  <2>2. users' \in [Procs -> Files]
    BY <1>6 DEF Crash
  <2>3. stage' \in [Procs -> Stages] /\ call' \in [Procs -> Regs \cup {None}]
    BY <1>6, <1>d DEF Crash
  <2>4. result' \in [Regs -> {"none", "ok", "refused"}]
    BY <1>6, <1>r DEF Crash
  <2>5. faults' \in Nat
    BY <1>6 DEF Crash, Fault
  <2> QED BY <1>6, <2>1, <2>2, <2>3, <2>4, <2>5 DEF Crash
<1>7. ASSUME NEW p \in Procs, NEW u \in Users, Login(p, u) PROVE TypeOK'
  <2>1. file \in Files /\ file[u] \in Regs
    BY <1>7 DEF Login, Reloaded, Files
  <2> QED BY <1>7, <2>1 DEF Login, Reloaded
<1>8. CASE UNCHANGED vars
  BY <1>8 DEF vars
<1> QED BY <1>1, <1>2, <1>3, <1>4, <1>5, <1>6, <1>7, <1>8 DEF Next

(* What a step must do to keep the invariant when it leaves the file, the  *)
(* results and the running calls alone.                                    *)
LEMMA IdleKeeps ==
    ASSUME IInv, TypeOK', GivenInv',
           UNCHANGED <<file, stage, call>>,
           OkRegs' = OkRegs, GoodRegs' = GoodRegs,
           \A q \in Procs : stage[q] # "idle" =>
               users'[q] = users[q] /\ result'[call[q]] = "none"
    PROVE  IInv'
<1>1. FileInv'
  BY DEF IInv, FileInv, Writing
<1>2. CallInv'
  <2> SUFFICES ASSUME NEW p \in Procs, stage[p] # "idle"
               PROVE  /\ call[p] \in Regs /\ result'[call[p]] = "none"
                      /\ \A q \in Procs : stage[q] # "idle" => q = p
                      /\ Holds(users[p], GoodRegs)
                      /\ stage[p] = "hashing" =>
                          file = users[p] /\ file[RegUser[call[p]]] = None
                      /\ stage[p] = "writing" =>
                          /\ file = NoUsers
                          /\ users[p][RegUser[call[p]]] = call[p]
                          /\ Genuine(users[p], OkRegs \cup {call[p]})
    BY DEF CallInv
  <2> QED BY DEF IInv, CallInv
<1> QED BY <1>1, <1>2 DEF IInv

LEMMA RefusedKeeps ==
    ASSUME IInv, TypeOK', NEW p \in Procs, NEW r \in Regs, RegisterRefused(p, r)
    PROVE  IInv'
<1>1. OkRegs' = OkRegs /\ GoodRegs' = GoodRegs
  BY DEF IInv, TypeOK, RegisterRefused, OkRegs, GoodRegs
<1>2. GivenInv'
  BY <1>1 DEF IInv, GivenInv, RegisterRefused
<1>3. \A q \in Procs : stage[q] # "idle" =>
          users'[q] = users[q] /\ result'[call[q]] = "none"
  <2> SUFFICES ASSUME NEW q \in Procs, stage[q] # "idle"
               PROVE  users'[q] = users[q] /\ result'[call[q]] = "none"
    OBVIOUS
  <2>1. q # p /\ call[q] # r /\ call[q] \in Regs /\ result[call[q]] = "none"
    BY DEF RegisterRefused, Unlocked, IInv, CallInv
  <2> QED BY <2>1 DEF RegisterRefused, IInv, TypeOK
<1>4. UNCHANGED <<file, stage, call>>
  BY DEF RegisterRefused
<1> QED BY <1>1, <1>2, <1>3, <1>4, IdleKeeps

LEMMA LoginKeeps ==
    ASSUME IInv, TypeOK', NEW p \in Procs, NEW u \in Users, Login(p, u)
    PROVE  IInv'
<1>1. OkRegs' = OkRegs /\ GoodRegs' = GoodRegs /\ UNCHANGED <<file, stage, call>>
  BY DEF Login, OkRegs, GoodRegs
<1>2. GivenInv'
  <2>1. file[u] \in OkRegs /\ RegUser[file[u]] = u
    BY DEF Login, Reloaded, IInv, FileInv, Genuine
  <2> QED BY <1>1, <2>1 DEF Login, Reloaded, IInv, GivenInv, TypeOK
<1>3. \A q \in Procs : stage[q] # "idle" =>
          users'[q] = users[q] /\ result'[call[q]] = "none"
  <2>1. /\ stage[p] = "idle" /\ result' = result
        /\ users' = [users EXCEPT ![p] = Reloaded(p)]
    BY DEF Login, Unlocked
  <2>2. \A q \in Procs : q # p => users'[q] = users[q]
    BY <2>1 DEF IInv, TypeOK
  <2>3. \A q \in Procs : stage[q] # "idle" => result[call[q]] = "none"
    BY DEF IInv, CallInv
  <2> QED BY ONLY <2>1, <2>2, <2>3
<1> QED BY <1>1, <1>2, <1>3, IdleKeeps

(* A Register call begins while no other is under way.                     *)
LEMMA BeginKeeps ==
    ASSUME IInv, TypeOK', ~overlapped', NEW p \in Procs, NEW r \in Regs, RegisterBegin(p, r)
    PROVE  IInv'
<1>1. OkRegs' = OkRegs /\ GoodRegs' = GoodRegs
  BY DEF RegisterBegin, OkRegs, GoodRegs
<1>2. stage'[p] = "hashing" /\ call'[p] = r /\ users'[p] = file
  BY DEF RegisterBegin, Reloaded, IInv, TypeOK
<1>4. \A q \in Procs : q # p => stage[q] = "idle"
  BY DEF RegisterBegin
<1>3. \A q \in Procs : stage'[q] # "idle" => q = p
  BY <1>4 DEF RegisterBegin, IInv, TypeOK
<1>5. ~Writing
  BY <1>4 DEF Writing, RegisterBegin, Unlocked
<1>6. FileInv'
  BY <1>1, <1>5 DEF IInv, FileInv, RegisterBegin
<1>7. CallInv'
  <2>1. Holds(file, GoodRegs)
    BY <1>5 DEF IInv, FileInv, Holds
  <2>2. file[RegUser[r]] = None /\ result[r] = "none" /\ file' = file /\ result' = result
    BY DEF RegisterBegin, Exists, Reloaded
  <2> QED BY <1>1, <1>2, <1>3, <2>1, <2>2 DEF CallInv
<1>8. GivenInv'
  BY <1>1 DEF IInv, GivenInv, RegisterBegin
<1> QED BY <1>6, <1>7, <1>8 DEF IInv

(* What is known of the one call that is under way.                        *)
LEMMA Alone ==
    ASSUME IInv, NEW p \in Procs, stage[p] # "idle"
    PROVE  /\ call[p] \in Regs /\ result[call[p]] = "none"
           /\ \A q \in Procs : q # p => stage[q] = "idle"
           /\ Holds(users[p], GoodRegs)
           /\ users[p] \in Files /\ RegUser[call[p]] \in Users
BY RegAssumption DEF IInv, CallInv, TypeOK

LEMMA TruncateKeeps ==
    ASSUME IInv, TypeOK', NEW p \in Procs, Truncate(p)
    PROVE  IInv'
<1>0. stage[p] = "hashing" /\ file = users[p] /\ file[RegUser[call[p]]] = None
  BY DEF Truncate, IInv, CallInv
<1>1. OkRegs' = OkRegs /\ GoodRegs' = GoodRegs /\ call' = call /\ result' = result
  BY DEF Truncate, OkRegs, GoodRegs
<1>2. /\ stage'[p] = "writing" /\ users'[p] = WithNew(p) /\ file' = NoUsers
      /\ \A q \in Procs : stage'[q] # "idle" => q = p
  BY <1>0, Alone DEF Truncate, IInv, TypeOK
<1>3. FileInv'
  BY <1>2, NoUsersType DEF FileInv, Genuine, Writing
<1>4. Holds(WithNew(p), GoodRegs)
  <2> SUFFICES ASSUME NEW r \in GoodRegs PROVE WithNew(p)[RegUser[r]] = r
    BY DEF Holds
  <2>1. r \in Regs /\ RegUser[r] \in Users
    BY RegAssumption DEF GoodRegs
  <2>2. users[p][RegUser[r]] = r
    BY <1>0, Alone DEF Holds
  <2>3. RegUser[r] # RegUser[call[p]]
    BY <1>0, <2>1, <2>2, RegAssumption
  <2> QED BY <1>0, <2>1, <2>2, <2>3, Alone DEF WithNew, Files
<1>5. /\ WithNew(p)[RegUser[call[p]]] = call[p]
      /\ Genuine(WithNew(p), OkRegs \cup {call[p]})
  <2>1. Genuine(users[p], OkRegs)
    BY <1>0, Alone, RegAssumption DEF IInv, FileInv, Files
  <2>2. users[p] \in Files /\ RegUser[call[p]] \in Users
    BY <1>0, Alone
  <2> QED BY <2>1, <2>2 DEF WithNew, Genuine, Files
<1>6. CallInv'
  BY <1>0, <1>1, <1>2, <1>4, <1>5, Alone DEF CallInv
<1>7. GivenInv'
  BY <1>1 DEF IInv, GivenInv, Truncate
<1> QED BY <1>3, <1>6, <1>7 DEF IInv

LEMMA PersistKeeps ==
    ASSUME IInv, TypeOK', NEW p \in Procs, Persist(p)
    PROVE  IInv'
<1>0. /\ stage[p] = "writing" /\ file = NoUsers
      /\ users[p][RegUser[call[p]]] = call[p]
      /\ Genuine(users[p], OkRegs \cup {call[p]})
  BY DEF Persist, IInv, CallInv
<1>1. file' = users[p] /\ file' # Torn
  BY <1>0, Alone, RegAssumption DEF Persist, Overwriting, Files
<1>2. OkRegs' = OkRegs \cup {call[p]} /\ GoodRegs' = GoodRegs \cup {call[p]}
  BY <1>0, Alone DEF Persist, OkRegs, GoodRegs, IInv, TypeOK
<1>3. \A q \in Procs : stage'[q] = "idle"
  BY <1>0, Alone DEF Persist, Done, IInv, TypeOK
<1>4. FileInv'
  <2>1. Holds(users[p], GoodRegs \cup {call[p]})
    BY <1>0, Alone DEF Holds
  <2> QED BY <1>0, <1>1, <1>2, <2>1 DEF FileInv
<1>5. CallInv'
  BY <1>3 DEF CallInv
<1>6. GivenInv'
  <2>1. \A r \in Regs : okCuts'[r] <= cuts'
    BY DEF Persist, IInv, GivenInv, TypeOK
  <2> QED BY <1>2, <2>1 DEF Persist, IInv, GivenInv
<1> QED BY <1>4, <1>5, <1>6 DEF IInv

(* A call that ends without success, its write cut short or not begun.     *)
LEMMA CutKeeps ==
    ASSUME IInv, TypeOK', NEW p \in Procs, stage[p] # "idle", Done(p),
           result' = [result EXCEPT ![call[p]] = "refused"],
           UNCHANGED <<given, okCuts>>,
           \/ /\ stage[p] = "writing"
              /\ file' \in PartOfText(p) /\ cuts' = cuts + 1
           \/ stage[p] = "hashing" /\ UNCHANGED <<file, cuts>>
    PROVE  IInv'
<1>1. OkRegs' = OkRegs
  BY Alone DEF OkRegs, IInv, TypeOK
<1>2. \A q \in Procs : stage'[q] = "idle"
  BY Alone DEF Done, IInv, TypeOK
<1>3. CallInv'
  BY <1>2 DEF CallInv
<1>4. GivenInv'
  BY <1>1 DEF IInv, GivenInv, TypeOK
<1>5. FileInv'
  <2>1. CASE stage[p] = "writing" /\ file' \in PartOfText(p) /\ cuts' = cuts + 1
    <3>1. GoodRegs' = {}
      BY <2>1 DEF GoodRegs, IInv, GivenInv, TypeOK
    <3>2. file' = NoUsers \/ file' = Torn
      BY <2>1 DEF PartOfText, IInv, CallInv
    <3> QED BY <3>1, <3>2, NoUsersType DEF FileInv, Genuine
  <2>2. CASE stage[p] = "hashing" /\ UNCHANGED <<file, cuts>>
    <3>1. GoodRegs' = GoodRegs
      BY <2>2, Alone DEF GoodRegs, IInv, TypeOK
    <3>2. ~Writing
      BY <2>2, Alone DEF Writing
    <3> QED BY <1>1, <2>2, <3>1, <3>2 DEF IInv, FileInv
  <2> QED BY <2>1, <2>2
<1> QED BY <1>3, <1>4, <1>5 DEF IInv

LEMMA Kept ==
    ASSUME IInv, [Next]_vars, ~overlapped' PROVE IInv'
<1>t. TypeOK'
  BY TypesKept DEF IInv
<1>1. ASSUME NEW p \in Procs, PersistFails(p) PROVE IInv'
  BY <1>1, <1>t, CutKeeps DEF PersistFails
<1>2. ASSUME NEW p \in Procs, Crash(p) PROVE IInv'
  <2>1. stage[p] \in {"hashing", "writing"}
    BY <1>2 DEF Crash, IInv, TypeOK, Stages
  <2> QED BY <1>2, <1>t, <2>1, CutKeeps DEF Crash
<1>3. CASE UNCHANGED vars
  <2>1. OkRegs' = OkRegs /\ GoodRegs' = GoodRegs /\ UNCHANGED <<file, stage, call>>
    BY <1>3 DEF vars, OkRegs, GoodRegs
  <2>2. GivenInv'
    BY <1>3, <2>1 DEF vars, IInv, GivenInv
  <2>3. \A q \in Procs : stage[q] # "idle" =>
            users'[q] = users[q] /\ result'[call[q]] = "none"
    BY <1>3, Alone DEF vars
  <2> QED BY <1>t, <2>1, <2>2, <2>3, IdleKeeps
<1> QED
  BY <1>t, <1>1, <1>2, <1>3, RefusedKeeps, BeginKeeps, TruncateKeeps, PersistKeeps,
     LoginKeeps DEF Next

(* That two calls have overlapped is not forgotten.                        *)
LEMMA OverlapStays ==
    ASSUME TypeOK, [Next]_vars, overlapped PROVE overlapped'
BY DEF Next, vars, TypeOK, RegisterRefused, RegisterBegin, Truncate, Persist,
   PersistFails, Crash, Login

Inv == TypeOK /\ (~overlapped => IInv)

LEMMA Consequences == Inv => RegisteredStays /\ OneVaultKey
<1> SUFFICES ASSUME IInv PROVE RegisteredStays /\ OneVaultKey
  BY DEF Inv, RegisteredStays, OneVaultKey
<1>1. RegisteredStays
  BY DEF IInv, FileInv, Holds, GoodRegs, RegisteredStays
<1>2. OneVaultKey
  <2> SUFFICES ASSUME cuts = 0, NEW u \in Users, NEW r \in given[u], NEW s \in given[u]
               PROVE  r = s
    BY DEF OneVaultKey
  <2>1. r \in GoodRegs /\ s \in GoodRegs /\ RegUser[r] = u /\ RegUser[s] = u
    BY DEF IInv, GivenInv, OkRegs, GoodRegs, TypeOK
  <2>2. CASE ~Writing
    BY <2>1, <2>2 DEF IInv, FileInv, Holds
  <2>3. CASE Writing
    <3>1. PICK p \in Procs : stage[p] = "writing"
      BY <2>3 DEF Writing
    <3> QED BY <2>1, <3>1, Alone DEF Holds
  <2> QED BY <2>2, <2>3
<1> QED BY <1>1, <1>2

LEMMA Invariant == Spec => []Inv
<1>1. Init => Inv
  BY Initially DEF IInv, Inv
<1>2. Inv /\ [Next]_vars => Inv'
  BY Kept, TypesKept, OverlapStays DEF Inv
<1> QED BY <1>1, <1>2, PTL DEF Spec

(* An account whose Register returned nil stays in the file until a write  *)
(* of the file is cut short or two calls overlap.                          *)
THEOREM RegisteredStaysCorrect == Spec => []RegisteredStays
BY Invariant, Consequences, PTL

(* Until then all logins of a name are given the same vault key.           *)
THEOREM OneVaultKeyCorrect == Spec => []OneVaultKey
BY Invariant, Consequences, PTL

-----------------------------------------------------------------------------
(* Overlapping calls, failures and crashes included.                       *)

(* The file and the copies of running calls have only accounts whose call  *)
(* succeeded, and the one of the call itself; a call runs in one process.  *)
CopiesGenuine ==
    /\ file # Torn => Genuine(file, OkRegs)
    /\ \A p \in Procs : stage[p] # "idle" =>
        /\ call[p] \in Regs /\ result[call[p]] = "none"
        /\ \A q \in Procs : stage[q] # "idle" /\ call[q] = call[p] => q = p
        /\ stage[p] = "hashing" => Genuine(users[p], OkRegs)
        /\ stage[p] = "writing" => Genuine(users[p], OkRegs \cup {call[p]})

GInv == TypeOK /\ CopiesGenuine /\ NoGhostAccounts

(* Every step keeps both.                                                  *)
LEMMA GenuineKept ==
    ASSUME GInv, TypeOK', [Next]_vars
    PROVE  CopiesGenuine' /\ NoGhostAccounts'
<1> USE RegAssumption, NoUsersType DEF Stages
<1>0. TypeOK /\ CopiesGenuine /\ NoGhostAccounts
  BY DEF GInv
<1>n. \A R : Genuine(NoUsers, R)
  BY DEF Genuine
<1>1. ASSUME NEW p \in Procs, NEW r \in Regs, RegisterRefused(p, r)
      PROVE  CopiesGenuine' /\ NoGhostAccounts'
  <2>1. /\ UNCHANGED <<file, stage, call, given>> /\ stage[p] = "idle" /\ result[r] = "none"
        /\ \A q \in Procs : call[q] # r
        /\ result' = [result EXCEPT ![r] = "refused"]
    BY <1>1 DEF RegisterRefused, Unlocked
  <2>2. \A q \in Procs : stage[q] # "idle" => users'[q] = users[q]
    BY <1>0, <1>1, <2>1 DEF RegisterRefused, TypeOK
  <2>3. /\ \A s \in Regs : s # r => result'[s] = result[s]
        /\ result'[r] = "refused"
    BY <1>0, <2>1 DEF TypeOK
  <2>4. OkRegs' = OkRegs
    BY <2>1, <2>3 DEF OkRegs
  <2>5. CopiesGenuine'
    <3>1. file' # Torn => Genuine(file', OkRegs')
      BY <1>0, <2>1, <2>4 DEF CopiesGenuine
    <3>2. \A q \in Procs : stage[q] # "idle" => call[q] \in Regs /\ result'[call[q]] = "none"
      <4>1. \A q \in Procs : stage[q] # "idle" => call[q] \in Regs /\ result[call[q]] = "none"
        BY <1>0 DEF CopiesGenuine
      <4> QED BY ONLY <2>1, <2>3, <4>1
    <3>3. \A q \in Procs :
              /\ stage[q] = "hashing" => Genuine(users'[q], OkRegs')
              /\ stage[q] = "writing" => Genuine(users'[q], OkRegs' \cup {call[q]})
      <4>1. \A q \in Procs :
                /\ stage[q] = "hashing" => Genuine(users[q], OkRegs)
                /\ stage[q] = "writing" => Genuine(users[q], OkRegs \cup {call[q]})
        BY <1>0 DEF CopiesGenuine
      <4> QED BY ONLY <2>2, <2>4, <4>1
    <3>4. \A q, s \in Procs :
              stage[q] # "idle" /\ stage[s] # "idle" /\ call[s] = call[q] => s = q
      BY <1>0 DEF CopiesGenuine
    <3>5. \A q \in Procs : stage[q] # "idle" =>
              /\ call[q] \in Regs /\ result'[call[q]] = "none"
              /\ \A s \in Procs : stage[s] # "idle" /\ call[s] = call[q] => s = q
              /\ stage[q] = "hashing" => Genuine(users'[q], OkRegs')
              /\ stage[q] = "writing" => Genuine(users'[q], OkRegs' \cup {call[q]})
      BY ONLY <3>2, <3>3, <3>4
    <3>6. UNCHANGED <<stage, call>>
      BY <2>1
    <3> QED BY ONLY <3>1, <3>5, <3>6 DEF CopiesGenuine
  <2>6. NoGhostAccounts'
    BY <1>0, <2>1, <2>3 DEF NoGhostAccounts, TypeOK
  <2> QED BY <2>5, <2>6
<1>2. ASSUME NEW p \in Procs, NEW r \in Regs, RegisterBegin(p, r)
      PROVE  CopiesGenuine' /\ NoGhostAccounts'
  <2>1. /\ UNCHANGED <<file, result, given>> /\ stage[p] = "idle" /\ result[r] = "none"
        /\ \A q \in Procs : call[q] # r
        /\ file # Torn
    BY <1>2 DEF RegisterBegin, Unlocked
  <2>2. stage'[p] = "hashing" /\ call'[p] = r /\ users'[p] = file
    BY <1>0, <1>2 DEF RegisterBegin, Reloaded, TypeOK
  <2>3. \A q \in Procs : q # p =>
            stage'[q] = stage[q] /\ call'[q] = call[q] /\ users'[q] = users[q]
    BY <1>0, <1>2 DEF RegisterBegin, TypeOK
  <2>4. OkRegs' = OkRegs
    BY <2>1 DEF OkRegs
  <2>5. CopiesGenuine'
    BY <1>0, <2>1, <2>2, <2>3, <2>4 DEF CopiesGenuine
  <2>6. NoGhostAccounts'
    BY <1>0, <2>1 DEF NoGhostAccounts
  <2> QED BY <2>5, <2>6
<1>3. ASSUME NEW p \in Procs, Truncate(p)
      PROVE  CopiesGenuine' /\ NoGhostAccounts'
  <2>1. /\ UNCHANGED <<call, result, given>> /\ stage[p] = "hashing" /\ file' = NoUsers
        /\ call[p] \in Regs /\ Genuine(users[p], OkRegs)
    BY <1>0, <1>3 DEF Truncate, CopiesGenuine
  <2>2. stage'[p] = "writing" /\ users'[p] = [users[p] EXCEPT ![RegUser[call[p]]] = call[p]]
    BY <1>0, <1>3 DEF Truncate, WithNew, TypeOK
  <2>3. \A q \in Procs : q # p => stage'[q] = stage[q] /\ users'[q] = users[q]
    BY <1>0, <1>3 DEF Truncate, TypeOK
  <2>4. OkRegs' = OkRegs
    BY <2>1 DEF OkRegs
  <2>5. Genuine(users'[p], OkRegs \cup {call[p]})
    <3>1. users[p] \in [Users -> Regs \cup {None}]
      BY <1>0 DEF TypeOK, Files
    <3>2. \A u \in Users :
              users'[p][u] = IF u = RegUser[call[p]] THEN call[p] ELSE users[p][u]
      BY <2>2, <3>1
    <3> SUFFICES ASSUME NEW u \in Users, users'[p][u] # None
                 PROVE  /\ users'[p][u] \in OkRegs \cup {call[p]}
                        /\ RegUser[users'[p][u]] = u
      BY DEF Genuine
    <3>3. CASE u = RegUser[call[p]]
      BY <3>2, <3>3
    <3>4. CASE u # RegUser[call[p]]
      BY <2>1, <3>2, <3>4 DEF Genuine
    <3> QED BY <3>3, <3>4
  <2>6. CopiesGenuine'
    <3>1. file' # Torn => Genuine(file', OkRegs')
      BY <1>n, <2>1
    <3>2. /\ call'[p] \in Regs /\ result'[call'[p]] = "none"
          /\ \A q \in Procs : stage'[q] # "idle" /\ call'[q] = call'[p] => q = p
          /\ Genuine(users'[p], OkRegs' \cup {call'[p]})
      BY <1>0, <2>1, <2>3, <2>4, <2>5 DEF CopiesGenuine
    <3>3. ASSUME NEW q \in Procs, q # p, stage'[q] # "idle"
          PROVE  /\ call'[q] \in Regs /\ result'[call'[q]] = "none"
                 /\ \A s \in Procs : stage'[s] # "idle" /\ call'[s] = call'[q] => s = q
                 /\ stage'[q] = "hashing" => Genuine(users'[q], OkRegs')
                 /\ stage'[q] = "writing" => Genuine(users'[q], OkRegs' \cup {call'[q]})
      BY <1>0, <2>1, <2>3, <2>4, <3>3 DEF CopiesGenuine
    <3> QED BY <2>2, <3>1, <3>2, <3>3 DEF CopiesGenuine
  <2>7. NoGhostAccounts'
    BY <1>0, <2>1 DEF NoGhostAccounts
  <2> QED BY <2>6, <2>7
<1>d. ASSUME NEW p \in Procs, Done(p)
      PROVE  /\ stage'[p] = "idle"
             /\ \A q \in Procs : q # p => stage'[q] = stage[q] /\ call'[q] = call[q]
  BY <1>0, <1>d DEF Done, TypeOK
<1>4. ASSUME NEW p \in Procs, Persist(p)
      PROVE  CopiesGenuine' /\ NoGhostAccounts'
  <2>1. /\ UNCHANGED <<users, given>> /\ stage[p] = "writing" /\ call[p] \in Regs
        /\ Genuine(users[p], OkRegs \cup {call[p]})
        /\ result' = [result EXCEPT ![call[p]] = "ok"]
        /\ file' \in {users[p], Torn} /\ Done(p)
    BY <1>0, <1>4 DEF Persist, CopiesGenuine
  <2>2. \A s \in Regs : result'[s] = IF s = call[p] THEN "ok" ELSE result[s]
    BY <1>0, <2>1 DEF TypeOK
  <2>3. OkRegs' = OkRegs \cup {call[p]}
    BY <2>1, <2>2 DEF OkRegs
  <2>4. \A q \in Procs : q # p /\ stage[q] # "idle" =>
            call[q] # call[p] /\ call[q] \in Regs /\ result'[call[q]] = "none"
    BY <1>0, <2>1, <2>2 DEF CopiesGenuine
  <2>5. \A q \in Procs : q # p /\ stage[q] # "idle" =>
            /\ stage[q] = "hashing" => Genuine(users[q], OkRegs')
            /\ stage[q] = "writing" => Genuine(users[q], OkRegs' \cup {call[q]})
    <3>1. ASSUME NEW q \in Procs, stage[q] = "hashing" PROVE Genuine(users[q], OkRegs')
      <4>1. Genuine(users[q], OkRegs)
        BY <1>0, <3>1 DEF CopiesGenuine
      <4> QED BY <2>3, <4>1 DEF Genuine
    <3>2. ASSUME NEW q \in Procs, stage[q] = "writing"
          PROVE  Genuine(users[q], OkRegs' \cup {call[q]})
      <4>1. Genuine(users[q], OkRegs \cup {call[q]})
        BY <1>0, <3>2 DEF CopiesGenuine
      <4> QED BY <2>3, <4>1 DEF Genuine
    <3> QED BY <3>1, <3>2
  <2>6. CopiesGenuine'
    <3>1. file' # Torn => Genuine(file', OkRegs')
      BY <2>1, <2>3
    <3>2. \A q \in Procs : stage'[q] # "idle" =>
              q # p /\ stage[q] # "idle" /\ stage'[q] = stage[q]
              /\ call'[q] = call[q] /\ users'[q] = users[q]
      BY <1>d, <2>1
    <3>3. \A q, r \in Procs : stage[q] # "idle" /\ stage[r] # "idle" /\ call[q] = call[r] => q = r
      BY <1>0 DEF CopiesGenuine
    <3> QED BY <2>4, <2>5, <3>1, <3>2, <3>3 DEF CopiesGenuine
  <2>7. NoGhostAccounts'
    BY <1>0, <2>1, <2>2 DEF NoGhostAccounts, TypeOK
  <2> QED BY <2>6, <2>7
<1>r. ASSUME NEW p \in Procs, stage[p] # "idle", Done(p), file' \in {file, Torn},
             result' = [result EXCEPT ![call[p]] = "refused"], given' = given,
             \A q \in Procs : q # p => users'[q] = users[q]
      PROVE  CopiesGenuine' /\ NoGhostAccounts'
  <2>1. call[p] \in Regs /\ result[call[p]] = "none"
    BY <1>0, <1>r DEF CopiesGenuine
  <2>2. \A s \in Regs : result'[s] = IF s = call[p] THEN "refused" ELSE result[s]
    BY <1>0, <1>r DEF TypeOK
  <2>3. OkRegs' = OkRegs
    BY <2>1, <2>2 DEF OkRegs
  <2>4. \A q \in Procs : q # p /\ stage[q] # "idle" =>
            call[q] # call[p] /\ call[q] \in Regs /\ result'[call[q]] = "none"
    BY <1>0, <1>r, <2>2 DEF CopiesGenuine
  <2>5. CopiesGenuine'
    <3>1. file' # Torn => Genuine(file', OkRegs')
      BY <1>0, <1>r, <2>3 DEF CopiesGenuine
    <3>2. \A q \in Procs : stage'[q] # "idle" =>
              q # p /\ stage[q] # "idle" /\ stage'[q] = stage[q]
              /\ call'[q] = call[q] /\ users'[q] = users[q]
      BY <1>d, <1>r
    <3>3. \A q, r \in Procs : stage[q] # "idle" /\ stage[r] # "idle" /\ call[q] = call[r] => q = r
      BY <1>0 DEF CopiesGenuine
    <3>4. \A q \in Procs :
              /\ stage[q] = "hashing" => Genuine(users[q], OkRegs)
              /\ stage[q] = "writing" => Genuine(users[q], OkRegs \cup {call[q]})
      BY <1>0 DEF CopiesGenuine
    <3> QED BY <2>3, <2>4, <3>1, <3>2, <3>3, <3>4 DEF CopiesGenuine
  <2>6. NoGhostAccounts'
    BY <1>0, <1>r, <2>1, <2>2 DEF NoGhostAccounts, TypeOK
  <2> QED BY <2>5, <2>6
<1>5. ASSUME NEW p \in Procs, PersistFails(p)
      PROVE  CopiesGenuine' /\ NoGhostAccounts'
  BY <1>5, <1>r DEF PersistFails, PartOfText
<1>6. ASSUME NEW p \in Procs, Crash(p)
      PROVE  CopiesGenuine' /\ NoGhostAccounts'
  <2>1. \A q \in Procs : q # p => users'[q] = users[q]
    BY <1>0, <1>6 DEF Crash, TypeOK
  <2>2. file' \in {file, Torn}
    BY <1>6 DEF Crash, PartOfText
  <2> QED BY <1>6, <1>r, <2>1, <2>2 DEF Crash
<1>7. ASSUME NEW p \in Procs, NEW u \in Users, Login(p, u)
      PROVE  CopiesGenuine' /\ NoGhostAccounts'
  <2>1. /\ UNCHANGED <<file, stage, call, result>> /\ stage[p] = "idle" /\ file # Torn
        /\ file[u] # None /\ given' = [given EXCEPT ![u] = @ \cup {file[u]}]
    BY <1>7 DEF Login, Reloaded, Unlocked
  <2>2. \A q \in Procs : stage[q] # "idle" => users'[q] = users[q]
    BY <1>0, <1>7, <2>1 DEF Login, TypeOK
  <2>3. OkRegs' = OkRegs
    BY <2>1 DEF OkRegs
  <2>4. CopiesGenuine'
    BY <1>0, <2>1, <2>2, <2>3 DEF CopiesGenuine
  <2>5. file[u] \in OkRegs /\ RegUser[file[u]] = u
    BY <1>0, <2>1 DEF CopiesGenuine, Genuine
  <2>6. \A v \in Users : given'[v] = given[v] \/ (v = u /\ given'[v] = given[v] \cup {file[u]})
    BY <1>0, <2>1 DEF TypeOK
  <2>7. NoGhostAccounts'
    BY <1>0, <2>1, <2>5, <2>6 DEF NoGhostAccounts, OkRegs
  <2> QED BY <2>4, <2>7
<1>8. CASE UNCHANGED vars
  <2>1. OkRegs' = OkRegs
    BY <1>8 DEF vars, OkRegs
  <2> QED BY <1>0, <1>8, <2>1 DEF vars, CopiesGenuine, NoGhostAccounts
<1> QED BY <1>1, <1>2, <1>3, <1>4, <1>5, <1>6, <1>7, <1>8 DEF Next

(* No login is given the key of an account whose Register call failed, or  *)
(* was made for another name, whatever the processes do to the file.       *)
THEOREM NoGhostAccountsCorrect == Spec => []NoGhostAccounts
<1>1. Init => GInv
  <2> SUFFICES ASSUME Init PROVE GInv
    OBVIOUS
  <2>1. TypeOK
    BY Initially DEF IInv
  <2>2. CopiesGenuine
    BY NoUsersType DEF Init, CopiesGenuine, Genuine
  <2>3. NoGhostAccounts
    BY DEF Init, NoGhostAccounts
  <2> QED BY <2>1, <2>2, <2>3 DEF GInv
<1>2. GInv /\ [Next]_vars => GInv'
  BY TypesKept, GenuineKept DEF GInv
<1>3. GInv => NoGhostAccounts
  BY DEF GInv
<1> QED BY <1>1, <1>2, <1>3, PTL DEF Spec

-----------------------------------------------------------------------------
(* The legacy web server: what it does to the accounts is what UserStore   *)
(* has, or it dies while it is idle.                                       *)

DiesIdle == /\ UNCHANGED <<file, stage, call, users, result, given, cuts, okCuts, overlapped>>
            /\ Fault

LEMMA WebSteps == [WebNext]_allVars => [Next]_vars \/ DiesIdle
<1> USE WebAssumption
<1>1. StoreStep => Next
  BY DEF StoreStep, Next
<1>2. ASSUME NEW l \in Logins, NEW u \in Users, HandleLogin(l, u) PROVE Next
  BY <1>2 DEF HandleLogin, Next
<1>3. ASSUME NEW l \in Logins, StoreBegin(l) \/ StoreEnd(l) \/ IssueToken(l)
      PROVE  UNCHANGED vars
  BY <1>3 DEF StoreBegin, StoreEnd, IssueToken
<1>4. ASSUME NEW u \in Users, ExpireToken(u) PROVE UNCHANGED vars
  BY <1>4 DEF ExpireToken
<1>5. ASSUME NEW r \in Requests,
             (\E u \in Users : AuthMiddleware(r, u)) \/ Lookup(r) \/ RefuseRequest(r) \/ EndRequest(r)
      PROVE  UNCHANGED vars
  BY <1>5 DEF AuthMiddleware, Lookup, RefuseRequest, EndRequest
<1>6. WebCrash => Next \/ DiesIdle
  BY DEF WebCrash, Next, DiesIdle
<1>7. FatalError => Next \/ UNCHANGED vars
  BY DEF FatalError, Next
<1>8. UNCHANGED allVars => UNCHANGED vars
  BY DEF allVars
<1> QED
  BY <1>1, <1>2, <1>3, <1>4, <1>5, <1>6, <1>7, <1>8 DEF WebNext

LEMMA StoreKept ==
    ASSUME Inv, GInv, [WebNext]_allVars PROVE Inv' /\ GInv'
<1>1. CASE [Next]_vars
  BY <1>1, Kept, TypesKept, OverlapStays, GenuineKept DEF Inv, GInv
<1>2. CASE DiesIdle
  <2>1. UNCHANGED <<file, stage, call, users, result, given, cuts, okCuts, overlapped>>
    BY <1>2 DEF DiesIdle
  <2>2. faults' \in Nat
    BY <1>2 DEF DiesIdle, Fault, Inv, TypeOK
  <2>3. TypeOK'
    BY <2>1, <2>2 DEF Inv, TypeOK
  <2>4. OkRegs' = OkRegs /\ GoodRegs' = GoodRegs
    BY <2>1 DEF OkRegs, GoodRegs
  <2>5. IInv => IInv'
    BY <2>1, <2>3, <2>4 DEF IInv, FileInv, CallInv, GivenInv, Writing
  <2>6. CopiesGenuine' /\ NoGhostAccounts'
    BY <2>1, <2>4 DEF GInv, CopiesGenuine, NoGhostAccounts
  <2> QED
    BY <2>1, <2>3, <2>5, <2>6 DEF Inv, GInv
<1> QED
  BY <1>1, <1>2, WebSteps

LoginCalls   == [stage : {"idle", "keyed", "storing", "stored"},
                 user : Users \cup {None}, key : Regs \cup {None}]
RequestCalls == [stage : {"idle", "reading", "running"},
                 user : Users \cup {None}, key : Regs \cup {None}]

WebTypes ==
    /\ vaultKeys \in Files
    /\ login \in [Logins -> LoginCalls]
    /\ request \in [Requests -> RequestCalls]
    /\ tokens \subseteq Users /\ fresh \subseteq Users
    /\ raced \in BOOLEAN

(* Every key on its way through the process was given to a login of its    *)
(* user.                                                                   *)
KeysGiven ==
    /\ \A u \in Users : vaultKeys[u] # None => vaultKeys[u] \in given[u]
    /\ \A l \in Logins : ~LoginAt(l, "idle") =>
           login[l].user \in Users /\ login[l].key \in given[login[l].user]
    /\ \A r \in Requests :
           /\ ~RequestAt(r, "idle") => request[r].user \in Users
           /\ RequestAt(r, "running") => request[r].key \in given[request[r].user]

(* A login that goes on to make its token has its key in the map.          *)
KeysStored ==
    ~raced => /\ \A l \in Logins : LoginAt(l, "stored") => vaultKeys[login[l].user] # None
              /\ \A u \in fresh : vaultKeys[u] # None

WInv == Inv /\ GInv /\ WebTypes /\ KeysGiven /\ KeysStored

LEMMA WInvInit == ASSUME WebInit PROVE WInv
<1>1. Inv
  BY Initially DEF WebInit, IInv, Inv
<1>2. GInv
  BY <1>1, NoUsersType DEF WebInit, Init, Inv, GInv, CopiesGenuine, NoGhostAccounts, Genuine
<1>3. NoCall \in LoginCalls /\ NoCall \in RequestCalls /\ NoCall.stage = "idle"
  BY DEF NoCall, LoginCalls, RequestCalls
<1>4. WebTypes
  BY <1>3, NoUsersType DEF WebInit, WebTypes
<1>5. KeysGiven
  BY <1>3, NoUsersType DEF WebInit, KeysGiven, LoginAt, RequestAt
<1>6. KeysStored
  BY <1>3 DEF WebInit, KeysStored, LoginAt
<1> QED
  BY <1>1, <1>2, <1>4, <1>5, <1>6 DEF WInv

LEMMA GivenGrows ==
    ASSUME TypeOK, [Next]_vars \/ DiesIdle
    PROVE  \A u \in Users : given[u] \subseteq given'[u]
<1>1. ASSUME NEW p \in Procs, NEW u \in Users, Login(p, u)
      PROVE  \A v \in Users : given[v] \subseteq given'[v]
  BY <1>1 DEF Login, TypeOK
<1>2. ASSUME NEW p \in Procs,
             \/ \E r \in Regs : RegisterRefused(p, r) \/ RegisterBegin(p, r)
             \/ Truncate(p) \/ Persist(p) \/ PersistFails(p) \/ Crash(p)
      PROVE  given' = given
  BY <1>2 DEF RegisterRefused, RegisterBegin, Truncate, Persist, PersistFails, Crash
<1> QED
  BY <1>1, <1>2 DEF Next, vars, DiesIdle

Web3 == WebTypes /\ KeysGiven /\ KeysStored

(* Steps that leave the map and the calls of the web server alone.         *)
LEMMA ServerStays ==
    ASSUME WInv, [WebNext]_allVars, UNCHANGED <<vaultKeys, login, request, raced>>,
           tokens' \subseteq Users, fresh' \subseteq fresh
    PROVE  Web3'
<1>1. \A u \in Users : given[u] \subseteq given'[u]
  BY WebSteps, GivenGrows DEF WInv, Inv
<1>2. WebTypes'
  BY DEF WInv, WebTypes
<1>3. KeysGiven'
  BY <1>1 DEF WInv, KeysGiven, LoginAt, RequestAt
<1>4. KeysStored'
  BY DEF WInv, KeysStored, LoginAt
<1> QED
  BY <1>2, <1>3, <1>4 DEF Web3

LEMMA LoginKeyed ==
    ASSUME WInv, [WebNext]_allVars, NEW l \in Logins, NEW u \in Users, HandleLogin(l, u)
    PROVE  Web3'
<1>1. /\ UNCHANGED <<vaultKeys, request, tokens, fresh, raced>>
      /\ login' = [login EXCEPT ![l] = [stage |-> "keyed", user |-> u, key |-> file[u]]]
      /\ file \in Files /\ file[u] \in Regs /\ file[u] \in given'[u]
  BY DEF HandleLogin, Login, Reloaded, WInv, GInv, TypeOK, Files
<1>2. \A v \in Users : given[v] \subseteq given'[v]
  BY WebSteps, GivenGrows DEF WInv, Inv
<1>3. /\ login'[l].stage = "keyed" /\ login'[l].user = u /\ login'[l].key = file[u]
      /\ \A m \in Logins : m # l => login'[m] = login[m]
  BY <1>1 DEF WInv, WebTypes
<1>4. WebTypes'
  BY <1>1 DEF WInv, WebTypes, LoginCalls
<1>5. KeysGiven'
  <2>1. \A m \in Logins : (~LoginAt(m, "idle"))' =>
            login'[m].user \in Users /\ login'[m].key \in given'[login'[m].user]
    BY <1>1, <1>2, <1>3 DEF WInv, KeysGiven, LoginAt
  <2>2. \A v \in Users : vaultKeys'[v] # None => vaultKeys'[v] \in given'[v]
    BY <1>1, <1>2 DEF WInv, KeysGiven
  <2>3. \A r \in Requests :
            /\ (~RequestAt(r, "idle"))' => request'[r].user \in Users
            /\ (RequestAt(r, "running"))' => request'[r].key \in given'[request'[r].user]
    BY <1>1, <1>2 DEF WInv, KeysGiven, RequestAt
  <2> QED
    BY <2>1, <2>2, <2>3 DEF KeysGiven
<1>6. KeysStored'
  BY <1>1, <1>3 DEF WInv, KeysStored, LoginAt
<1> QED
  BY <1>4, <1>5, <1>6 DEF Web3

LEMMA KeyOf ==
    ASSUME WInv, NEW l \in Logins, ~LoginAt(l, "idle")
    PROVE  /\ login[l].user \in Users
           /\ login[l].key \in given[login[l].user] /\ login[l].key \in Regs
           /\ login[l].key # None
BY RegAssumption DEF WInv, KeysGiven, Inv, TypeOK

(* A login goes from one of its stages to another.                         *)
LEMMA LoginMoves ==
    ASSUME WInv, UNCHANGED <<given, request>>, NEW l \in Logins, ~LoginAt(l, "idle"),
           NEW at \in {"storing", "stored"}, SetLogin(l, at),
           vaultKeys' = vaultKeys \/ vaultKeys' = [vaultKeys EXCEPT ![login[l].user] = login[l].key],
           raced' \in BOOLEAN, raced => raced', UNCHANGED <<tokens, fresh>>,
           at = "stored" /\ ~raced' => vaultKeys'[login[l].user] # None
    PROVE  Web3'
<1>1. /\ login' = [login EXCEPT ![l].stage = at] /\ login[l] \in LoginCalls
      /\ login[l].user \in Users /\ login[l].key \in given[login[l].user]
      /\ login[l].key \in Regs /\ login[l].key # None
  BY KeyOf DEF SetLogin, WInv, WebTypes
<1>2. /\ login'[l].stage = at /\ login'[l].user = login[l].user /\ login'[l].key = login[l].key
      /\ \A m \in Logins : m # l => login'[m] = login[m]
      /\ login' \in [Logins -> LoginCalls]
  BY <1>1 DEF WInv, WebTypes, LoginCalls
<1>3. \A u \in Users : \/ vaultKeys'[u] = vaultKeys[u]
                       \/ vaultKeys'[u] \in given[u] /\ vaultKeys'[u] # None
  BY <1>1 DEF WInv, WebTypes, Files
<1>4. WebTypes'
  BY <1>1, <1>2 DEF WInv, WebTypes, Files
<1>5. KeysGiven'
  <2>1. \A m \in Logins : (~LoginAt(m, "idle"))' =>
            login'[m].user \in Users /\ login'[m].key \in given'[login'[m].user]
    BY <1>1, <1>2 DEF WInv, KeysGiven, LoginAt
  <2>2. \A u \in Users : vaultKeys'[u] # None => vaultKeys'[u] \in given'[u]
    BY <1>3 DEF WInv, KeysGiven
  <2>3. \A r \in Requests :
            /\ (~RequestAt(r, "idle"))' => request'[r].user \in Users
            /\ (RequestAt(r, "running"))' => request'[r].key \in given'[request'[r].user]
    BY DEF WInv, KeysGiven, RequestAt
  <2> QED
    BY <2>1, <2>2, <2>3 DEF KeysGiven
<1>6. KeysStored'
  <2> SUFFICES ASSUME ~raced'
               PROVE  /\ \A m \in Logins : login'[m].stage = "stored" =>
                             vaultKeys'[login'[m].user] # None
                      /\ \A u \in fresh : vaultKeys'[u] # None
    BY DEF KeysStored, LoginAt
  <2>1. \A u \in Users : vaultKeys[u] # None => vaultKeys'[u] # None
    BY <1>3
  <2>2. \A u \in fresh : vaultKeys'[u] # None
    BY <2>1 DEF WInv, WebTypes, KeysStored
  <2>3. ASSUME NEW m \in Logins, login'[m].stage = "stored"
        PROVE  vaultKeys'[login'[m].user] # None
    <3>1. CASE m = l
      BY <1>2, <2>3, <3>1
    <3>2. CASE m # l
      <4>1. login'[m] = login[m] /\ LoginAt(m, "stored") /\ login[m].user \in Users
        BY <1>2, <2>3, <3>2 DEF LoginAt, WInv, KeysGiven
      <4> QED
        BY <2>1, <4>1 DEF WInv, KeysStored
    <3> QED
      BY <3>1, <3>2
  <2> QED
    BY <2>2, <2>3
<1> QED
  BY <1>4, <1>5, <1>6 DEF Web3

(* A login is over, its key in the map unless two handlers raced for it.   *)
LEMMA TokenIssued ==
    ASSUME WInv, NEW l \in Logins, IssueToken(l)
    PROVE  Web3'
<1>1. /\ UNCHANGED <<given, vaultKeys, request, raced>> /\ LoginAt(l, "stored")
      /\ login' = [login EXCEPT ![l] = NoCall]
      /\ tokens' = tokens \cup {login[l].user} /\ fresh' = fresh \cup {login[l].user}
  BY DEF IssueToken, KeyStored, vars
<1>2. NoCall \in LoginCalls /\ NoCall.stage = "idle"
  BY DEF NoCall, LoginCalls
<1>3. login[l].user \in Users
  BY <1>1 DEF WInv, KeysGiven, LoginAt
<1>4. login'[l] = NoCall /\ \A m \in Logins : m # l => login'[m] = login[m]
  BY <1>1 DEF WInv, WebTypes
<1>5. WebTypes'
  BY <1>1, <1>2, <1>3 DEF WInv, WebTypes
<1>6. KeysGiven'
  <2>1. \A m \in Logins : (~LoginAt(m, "idle"))' =>
            login'[m].user \in Users /\ login'[m].key \in given'[login'[m].user]
    BY <1>1, <1>2, <1>4 DEF WInv, KeysGiven, LoginAt
  <2> QED
    BY <1>1, <2>1 DEF WInv, KeysGiven, RequestAt
<1>7. KeysStored'
  BY <1>1, <1>2, <1>4 DEF WInv, KeysStored, LoginAt
<1> QED
  BY <1>5, <1>6, <1>7 DEF Web3

(* A request goes on with a user who has a token, or a key it has found.   *)
LEMMA RequestMoves ==
    ASSUME WInv, UNCHANGED <<given, vaultKeys, login, tokens, fresh, raced>>,
           NEW r \in Requests, NEW new \in RequestCalls, request' = [request EXCEPT ![r] = new],
           new.stage # "idle" => new.user \in Users,
           new.stage = "running" => new.key \in given[new.user]
    PROVE  Web3'
<1>1. request'[r] = new /\ \A q \in Requests : q # r => request'[q] = request[q]
  BY DEF WInv, WebTypes
<1>2. WebTypes'
  BY DEF WInv, WebTypes
<1>3. KeysGiven'
  <2>1. \A q \in Requests :
            /\ (~RequestAt(q, "idle"))' => request'[q].user \in Users
            /\ (RequestAt(q, "running"))' => request'[q].key \in given'[request'[q].user]
    BY <1>1 DEF WInv, KeysGiven, RequestAt
  <2> QED
    BY <2>1 DEF WInv, KeysGiven, LoginAt
<1>4. KeysStored'
  BY DEF WInv, KeysStored, LoginAt
<1> QED
  BY <1>2, <1>3, <1>4 DEF Web3

LEMMA RequestSteps ==
    ASSUME WInv, NEW r \in Requests,
           (\E u \in Users : AuthMiddleware(r, u)) \/ Lookup(r) \/ RefuseRequest(r) \/ EndRequest(r)
    PROVE  Web3'
<1>1. /\ UNCHANGED <<given, vaultKeys, login, tokens, fresh, raced>>
  BY DEF AuthMiddleware, Lookup, RefuseRequest, EndRequest, vars
<1>2. request \in [Requests -> RequestCalls] /\ request[r] \in RequestCalls
  BY DEF WInv, WebTypes
<1>3. ASSUME NEW u \in Users, AuthMiddleware(r, u) PROVE Web3'
  <2>1. PICK new : new = [NoCall EXCEPT !.stage = "reading", !.user = u]
    OBVIOUS
  <2>2. new \in RequestCalls /\ new.stage = "reading" /\ new.user = u
    BY <2>1 DEF NoCall, RequestCalls
  <2>3. request' = [request EXCEPT ![r] = new]
    BY <1>3, <2>1 DEF AuthMiddleware
  <2> QED
    BY <1>1, <2>2, <2>3, RequestMoves
<1>4. CASE Lookup(r)
  <2>1. /\ RequestAt(r, "reading")
        /\ \E k \in Found(r) \ {None} :
               request' = [request EXCEPT ![r].stage = "running", ![r].key = k]
    BY <1>4 DEF Lookup
  <2>2. PICK k \in Found(r) \ {None} :
            request' = [request EXCEPT ![r].stage = "running", ![r].key = k]
    BY <2>1
  <2>3. request[r].user \in Users
    BY <2>1 DEF WInv, KeysGiven, RequestAt
  <2>4. k \in given[request[r].user] /\ k \in Regs
    <3>1. CASE k = vaultKeys[request[r].user]
      BY <2>2, <2>3, <3>1 DEF WInv, KeysGiven, Inv, TypeOK
    <3>2. ASSUME NEW l \in Writers, login[l].user = request[r].user, k = login[l].key
          PROVE  k \in given[request[r].user] /\ k \in Regs
      <4>1. l \in Logins /\ ~LoginAt(l, "idle")
        BY DEF Writers, LoginAt
      <4> QED
        BY <3>2, <4>1, KeyOf
    <3> QED
      BY <2>2, <3>1, <3>2 DEF Found, StoredKey
  <2>5. PICK new : new = [request[r] EXCEPT !.stage = "running", !.key = k]
    OBVIOUS
  <2>6. /\ new \in RequestCalls
        /\ new.stage = "running" /\ new.user = request[r].user /\ new.key = k
    BY <1>2, <2>4, <2>5 DEF RequestCalls
  <2>7. request' = [request EXCEPT ![r] = new]
    BY <1>2, <2>2, <2>5
  <2> QED
    BY <1>1, <2>3, <2>4, <2>6, <2>7, RequestMoves
<1>5. CASE RefuseRequest(r) \/ EndRequest(r)
  <2>1. NoCall \in RequestCalls /\ NoCall.stage = "idle"
    BY DEF NoCall, RequestCalls
  <2>2. request' = [request EXCEPT ![r] = NoCall]
    BY <1>5 DEF RefuseRequest, EndRequest
  <2> QED
    BY <1>1, <2>1, <2>2, RequestMoves
<1> QED
  BY <1>3, <1>4, <1>5

LEMMA ServerAnew ==
    ASSUME WInv, Anew PROVE Web3'
<1>1. NoCall \in LoginCalls /\ NoCall \in RequestCalls /\ NoCall.stage = "idle"
  BY DEF NoCall, LoginCalls, RequestCalls
<1>2. WebTypes'
  BY <1>1, NoUsersType DEF Anew, WInv, WebTypes
<1>3. KeysGiven'
  BY <1>1, NoUsersType DEF Anew, KeysGiven, LoginAt, RequestAt
<1>4. KeysStored'
  BY <1>1 DEF Anew, KeysStored, LoginAt
<1> QED
  BY <1>2, <1>3, <1>4 DEF Web3

LEMMA WInvStep == ASSUME WInv, [WebNext]_allVars PROVE WInv'
<1>1. Inv' /\ GInv'
  BY StoreKept DEF WInv
<1>2. CASE StoreStep
  <2>1. UNCHANGED server
    BY <1>2 DEF StoreStep
  <2> QED
    BY <1>1, <2>1, ServerStays DEF server, Web3, WInv, WebTypes
<1>3. ASSUME NEW l \in Logins, NEW u \in Users, HandleLogin(l, u) PROVE WInv'
  BY <1>1, <1>3, LoginKeyed DEF Web3, WInv
<1>4. ASSUME NEW l \in Logins, StoreBegin(l) PROVE WInv'
  <2>1. /\ UNCHANGED <<given, vaultKeys, request, tokens, fresh>>
        /\ ~LoginAt(l, "idle") /\ SetLogin(l, "storing")
    BY <1>4 DEF StoreBegin, vars, LoginAt
  <2>2. raced' \in BOOLEAN /\ (raced => raced')
    BY <1>4, Zenon DEF StoreBegin
  <2>3. Web3'
    BY <2>1, <2>2, LoginMoves
  <2> QED
    BY <1>1, <2>3 DEF Web3, WInv
<1>5. ASSUME NEW l \in Logins, StoreEnd(l) PROVE WInv'
  <2>1. /\ UNCHANGED <<given, request, tokens, fresh, raced>>
        /\ ~LoginAt(l, "idle") /\ SetLogin(l, "stored")
        /\ \/ vaultKeys' = [vaultKeys EXCEPT ![login[l].user] = login[l].key]
           \/ raced /\ vaultKeys' = vaultKeys
    BY <1>5 DEF StoreEnd, StoredKey, vars, LoginAt
  <2>2. ~raced => vaultKeys'[login[l].user] # None
    BY <2>1, KeyOf DEF WInv, WebTypes, Files
  <2>3. raced' \in BOOLEAN
    BY <2>1 DEF WInv, WebTypes
  <2>4. Web3'
    BY <2>1, <2>2, <2>3, LoginMoves
  <2> QED
    BY <1>1, <2>4 DEF Web3, WInv
<1>6. ASSUME NEW l \in Logins, IssueToken(l) PROVE WInv'
  BY <1>1, <1>6, TokenIssued DEF Web3, WInv
<1>7. ASSUME NEW u \in Users, ExpireToken(u) PROVE WInv'
  <2>1. /\ UNCHANGED <<vaultKeys, login, request, raced>>
        /\ tokens' \subseteq Users /\ fresh' \subseteq fresh
    BY <1>7 DEF ExpireToken, WInv, WebTypes
  <2> QED
    BY <1>1, <2>1, ServerStays DEF Web3, WInv
<1>8. ASSUME NEW r \in Requests,
             (\E u \in Users : AuthMiddleware(r, u)) \/ Lookup(r) \/ RefuseRequest(r) \/ EndRequest(r)
      PROVE  WInv'
  BY <1>1, <1>8, RequestSteps DEF Web3, WInv
<1>9. CASE WebCrash \/ FatalError
  <2>1. Anew
    BY <1>9 DEF WebCrash, FatalError
  <2> QED
    BY <1>1, <2>1, ServerAnew DEF Web3, WInv
<1>10. CASE UNCHANGED allVars
  <2>1. UNCHANGED server
    BY <1>10 DEF allVars
  <2> QED
    BY <1>1, <2>1, ServerStays DEF server, Web3, WInv, WebTypes
<1> QED
  BY <1>2, <1>3, <1>4, <1>5, <1>6, <1>7, <1>8, <1>9, <1>10 DEF WebNext

LEMMA WebInvariant == WebSpec => []WInv
<1>1. WebInit => WInv
  BY WInvInit
<1>2. WInv /\ [WebNext]_allVars => WInv'
  BY WInvStep
<1> QED
  BY <1>1, <1>2, PTL DEF WebSpec

(* Beside the web server too, with its crashes, the accounts of users.json *)
(* are kept, one vault key is given out, and no key of a failed call.      *)
THEOREM WebKeepsAccounts ==
    WebSpec => [](RegisteredStays /\ OneVaultKey /\ NoGhostAccounts)
<1>1. WInv => RegisteredStays /\ OneVaultKey /\ NoGhostAccounts
  BY Consequences DEF WInv, GInv
<1> QED
  BY <1>1, WebInvariant, PTL

(* A request works with a key given to a login of its user, and while no   *)
(* write was cut short and no calls overlapped it is the account's key in  *)
(* users.json, whatever handlers race for the map of keys.                 *)
THEOREM AccountsKeyCorrect == WebSpec => []AccountsKey
<1>1. WInv => AccountsKey
  <2> SUFFICES ASSUME WInv, NEW r \in Requests, RequestAt(r, "running")
               PROVE  /\ request[r].key \in given[request[r].user]
                      /\ ~overlapped /\ cuts = 0 /\ ~Writing =>
                             file # Torn /\ file[request[r].user] = request[r].key
    BY DEF AccountsKey
  <2>1. PICK u, k : u = request[r].user /\ k = request[r].key
    OBVIOUS
  <2>2. u \in Users /\ k \in given[u]
    BY <2>1 DEF WInv, KeysGiven, RequestAt
  <2>3. ASSUME ~overlapped, cuts = 0, ~Writing
        PROVE  file # Torn /\ file[u] = k
    <3>1. IInv
      BY <2>3 DEF WInv, Inv
    <3>2. k \in GoodRegs /\ RegUser[k] = u
      BY <2>2, <2>3, <3>1 DEF IInv, GivenInv, OkRegs, GoodRegs, TypeOK
    <3> QED
      BY <2>3, <3>1, <3>2 DEF IInv, FileInv, Holds
  <2> QED
    BY <2>1, <2>2, <2>3
<1> QED
  BY <1>1, WebInvariant, PTL

(* A token that this process has made is served, unless two logins have    *)
(* written the map of keys at once.                                        *)
THEOREM TokenServesCorrect == WebSpec => []TokenServes
<1>1. WInv => TokenServes
  BY DEF WInv, KeysStored, TokenServes
<1> QED
  BY <1>1, WebInvariant, PTL
===============================================================================
