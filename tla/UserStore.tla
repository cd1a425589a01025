------------------------------ MODULE UserStore ------------------------------
(***************************************************************************)
(* User accounts (pkg/auth): processes that share one users.json, the      *)
(* master's HTTP gateway and cmd/web among them.                           *)
(*                                                                         *)
(* An account is known by the Register call r that made it, since each     *)
(* call draws a salt of its own: the vault key of a login is that of the   *)
(* password and the account's salt, so it stands for the account.          *)
(***************************************************************************)
EXTENDS Integers

CONSTANTS Procs,      \* processes with a UserStore on the file
          Users,      \* user names
          Regs,       \* calls of Register with a valid name and password
          RegUser,    \* the user name of each call
          None,       \* no account
          Torn,       \* a file that is not JSON
          MaxFaults   \* bound on crashes and failed writes

ASSUME RegAssumption == /\ RegUser \in [Regs -> Users]
                        /\ None \notin Regs
                        /\ Torn \notin [Users -> Regs \cup {None}]
ASSUME BoundAssumption == MaxFaults \in Nat

VARIABLES file,     \* users.json: an account for each name, or Torn
          stage,    \* how far the process's Register call is; it holds mu
          call,     \* that call
          users,    \* UserStore.users
          result,   \* what each call returned
          given,    \* accounts whose vault key logins of a name were given
          cuts,     \* writes cut short so far
          okCuts,   \* value of cuts when the call returned nil
          overlapped,   \* two Register calls have been under way at once
          faults

vars == <<file, stage, call, users, result, given, cuts, okCuts, overlapped, faults>>

(* A missing or an empty file holds no users.                              *)
NoUsers == [u \in Users |-> None]
Files == [Users -> Regs \cup {None}]
Stages == {"idle", "hashing", "writing"}

Init ==
    /\ file = NoUsers
    /\ stage = [p \in Procs |-> "idle"]
    /\ call = [p \in Procs |-> None]
    /\ users = [p \in Procs |-> NoUsers]
    /\ result = [r \in Regs |-> "none"]
    /\ given = [u \in Users |-> {}]
    /\ cuts = 0
    /\ okCuts = [r \in Regs |-> 0]
    /\ overlapped = FALSE
    /\ faults = 0

Fault == faults < MaxFaults /\ faults' = faults + 1

-----------------------------------------------------------------------------
(* Register and Login read the file first; the lock is one process's own.  *)
Unlocked(p) == stage[p] = "idle"

(* reloadFromDiskLocked, when the file can be parsed.                      *)
NotReloaded(p) == users[p]
Reloaded(p) == file

NeverExists(p, r) == FALSE
Exists(p, r) == Reloaded(p)[RegUser[r]] # None

(* The file cannot be parsed, or it has the name already.                  *)
RegisterRefused(p, r) ==
    /\ Unlocked(p)
    /\ result[r] = "none"
    /\ \A q \in Procs : call[q] # r
    /\ \/ file = Torn /\ UNCHANGED users
       \/ /\ file # Torn
          /\ Exists(p, r)
          /\ users' = [users EXCEPT ![p] = Reloaded(p)]
    /\ result' = [result EXCEPT ![r] = "refused"]
    /\ UNCHANGED <<file, stage, call, given, cuts, okCuts, overlapped, faults>>

(* The name is free in the file as it is now; the hash takes its time.     *)
RegisterBegin(p, r) ==
    /\ Unlocked(p)
    /\ result[r] = "none"
    /\ \A q \in Procs : call[q] # r
    /\ file # Torn
    /\ ~Exists(p, r)
    /\ stage' = [stage EXCEPT ![p] = "hashing"]
    /\ call' = [call EXCEPT ![p] = r]
    /\ users' = [users EXCEPT ![p] = Reloaded(p)]
    /\ overlapped' = (overlapped \/ \E q \in Procs \ {p} : stage[q] # "idle")
    /\ UNCHANGED <<file, result, given, cuts, okCuts, faults>>

(* s.users[username] = ...                                                 *)
WithNew(p) == [users[p] EXCEPT ![RegUser[call[p]]] = call[p]]

(* os.WriteFile empties the file, and then writes it.                      *)
Truncate(p) ==
    /\ stage[p] = "hashing"
    /\ stage' = [stage EXCEPT ![p] = "writing"]
    /\ users' = [users EXCEPT ![p] = WithNew(p)]
    /\ file' = NoUsers
    /\ UNCHANGED <<call, result, given, cuts, okCuts, overlapped, faults>>

(* Two processes that write at once write over each other's text; when the *)
(* second text is the shorter one, what is left of the first spoils it.    *)
Overwriting(p) == file # NoUsers

Done(p) == /\ stage' = [stage EXCEPT ![p] = "idle"]
           /\ call' = [call EXCEPT ![p] = None]

Persist(p) ==
    /\ stage[p] = "writing"
    /\ \/ file' = users[p]
       \/ Overwriting(p) /\ file' = Torn
    /\ result' = [result EXCEPT ![call[p]] = "ok"]
    /\ okCuts' = [okCuts EXCEPT ![call[p]] = cuts]
    /\ Done(p)
    /\ UNCHANGED <<users, given, cuts, overlapped, faults>>

(* What a write that is cut short leaves: nothing of the text or a part.   *)
AllOfText(p) == {users[p]}
PartOfText(p) == {file, Torn}

(* The disk is full.                                                       *)
PersistFails(p) ==
    /\ stage[p] = "writing"
    /\ Fault
    /\ file' \in PartOfText(p)
    /\ cuts' = cuts + 1
    /\ result' = [result EXCEPT ![call[p]] = "refused"]
    /\ Done(p)
    /\ UNCHANGED <<users, given, okCuts, overlapped>>

(* The process dies in the middle of Register.                             *)
Crash(p) ==
    /\ stage[p] # "idle"
    /\ Fault
    /\ IF stage[p] = "writing"
       THEN file' \in PartOfText(p) /\ cuts' = cuts + 1
       ELSE UNCHANGED <<file, cuts>>
    /\ result' = [result EXCEPT ![call[p]] = "refused"]
    /\ users' = [users EXCEPT ![p] = NoUsers]
    /\ Done(p)
    /\ UNCHANGED <<given, okCuts, overlapped>>

(* A login with the right password gives the account's vault key.          *)
Login(p, u) ==
    /\ Unlocked(p)
    /\ file # Torn
    /\ Reloaded(p)[u] # None
    /\ users' = [users EXCEPT ![p] = Reloaded(p)]
    /\ given' = [given EXCEPT ![u] = @ \cup {Reloaded(p)[u]}]
    /\ UNCHANGED <<file, stage, call, result, cuts, okCuts, overlapped, faults>>

Next ==
    \E p \in Procs :
        \/ \E r \in Regs : RegisterRefused(p, r) \/ RegisterBegin(p, r)
        \/ Truncate(p) \/ Persist(p) \/ PersistFails(p) \/ Crash(p)
        \/ \E u \in Users : Login(p, u)

Spec == Init /\ [][Next]_vars

-----------------------------------------------------------------------------
Writing == \E p \in Procs : stage[p] = "writing"

(* Every variable stays in its type.                                       *)
TypeOK ==
    /\ file \in Files \cup {Torn}
    /\ stage \in [Procs -> Stages]
    /\ call \in [Procs -> Regs \cup {None}]
    /\ users \in [Procs -> Files]
    /\ result \in [Regs -> {"none", "ok", "refused"}]
    /\ given \in [Users -> SUBSET Regs]
    /\ cuts \in Nat
    /\ okCuts \in [Regs -> Nat]
    /\ overlapped \in BOOLEAN
    /\ faults \in Nat

(* An account whose Register returned nil is in the file from then on,     *)
(* whoever registers after it, as long as no write was cut short since and *)
(* no two Register calls have overlapped.                                  *)
RegisteredStays ==
    ~overlapped /\ ~Writing =>
        \A r \in Regs : result[r] = "ok" /\ okCuts[r] = cuts =>
            file # Torn /\ file[RegUser[r]] = r

(* Under the same condition all logins of a name are given the same vault  *)
(* key, so that what one session stored the next one can decrypt.          *)
OneVaultKey ==
    ~overlapped /\ cuts = 0 => \A u \in Users : \A r, s \in given[u] : r = s

(* No login is given the key of an account whose Register call failed, or  *)
(* was made for another name, whatever the two processes do to the file.   *)
NoGhostAccounts ==
    \A u \in Users : \A r \in given[u] : result[r] = "ok" /\ RegUser[r] = u
=============================================================================
