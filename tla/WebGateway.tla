----------------------------- MODULE WebGateway -----------------------------
(***************************************************************************)
(* The legacy web server (cmd/web/main.go): one of the processes on        *)
(* users.json, with tokens instead of sessions and a map of vault keys     *)
(* that its handlers, a goroutine each, use without a lock.                *)
(*                                                                         *)
(* An access to the map begins and ends.  Go may notice two at a time, one *)
(* of them a write, and ends the process; what happens when it does not is *)
(* a free choice here.                                                     *)
(***************************************************************************)
EXTENDS UserStore

CONSTANTS Web,      \* the process
          Logins,   \* requests to /login that can be under way at a time
          Requests  \* the same for /save, /get, /list and /delete

ASSUME WebAssumption == Web \in Procs

VARIABLES
    vaultKeys,   \* Server.vaultKeys
    login,       \* loginHandler, for each of Logins
    request,     \* saveHandler and its like, for each of Requests
    tokens,      \* users with a token that has not expired
    fresh,       \* those whose token this process has made
    raced        \* two handlers have written the map of this process at once

server == <<vaultKeys, login, request, tokens, fresh, raced>>
allVars == <<vars, server>>

NoCall == [stage |-> "idle", user |-> None, key |-> None]

WebInit ==
    /\ Init
    /\ vaultKeys = NoUsers
    /\ login = [l \in Logins |-> NoCall]
    /\ request = [r \in Requests |-> NoCall]
    /\ tokens = {} /\ fresh = {}
    /\ raced = FALSE

LoginAt(l, at) == login[l].stage = at
RequestAt(r, at) == request[r].stage = at
SetLogin(l, at) == login' = [login EXCEPT ![l].stage = at]

Writers == {l \in Logins : LoginAt(l, "storing")}
Readers == {r \in Requests : RequestAt(r, "reading")}

-----------------------------------------------------------------------------
(* loginHandler.                                                           *)

(* userStore.Login; a login it refuses changes nothing.                    *)
HandleLogin(l, u) ==
    /\ LoginAt(l, "idle")
    /\ Login(Web, u)
    /\ login' = [login EXCEPT ![l] = [stage |-> "keyed", user |-> u, key |-> Reloaded(Web)[u]]]
    /\ UNCHANGED <<vaultKeys, request, tokens, fresh, raced>>

StoreBegin(l) ==
    /\ LoginAt(l, "keyed")
    /\ SetLogin(l, "storing")
    /\ raced' = (raced \/ Writers # {})
    /\ UNCHANGED <<vars, vaultKeys, request, tokens, fresh>>

LatestKey(l) == IF \E m \in Logins \ {l} : LoginAt(m, "keyed")
                THEN login[CHOOSE m \in Logins \ {l} : LoginAt(m, "keyed")].key
                ELSE login[l].key
StoredKey(l) == login[l].key

(* A map written twice at once may lose what is written.                   *)
StoreEnd(l) ==
    /\ LoginAt(l, "storing")
    /\ SetLogin(l, "stored")
    /\ \/ vaultKeys' = [vaultKeys EXCEPT ![login[l].user] = StoredKey(l)]
       \/ raced /\ UNCHANGED vaultKeys
    /\ UNCHANGED <<vars, request, tokens, fresh, raced>>

KeyInHand(l) == login[l].stage \in {"keyed", "stored"}
KeyStored(l) == LoginAt(l, "stored")

IssueToken(l) ==
    /\ KeyStored(l)
    /\ login' = [login EXCEPT ![l] = NoCall]
    /\ tokens' = tokens \cup {login[l].user}
    /\ fresh' = fresh \cup {login[l].user}
    /\ UNCHANGED <<vars, vaultKeys, request, raced>>

(* 24 hours later.                                                         *)
ExpireToken(u) ==
    /\ u \in tokens
    /\ tokens' = tokens \ {u}
    /\ fresh' = fresh \ {u}
    /\ UNCHANGED <<vars, vaultKeys, login, request, raced>>

-----------------------------------------------------------------------------
(* saveHandler, getHandler, listHandler, deleteHandler.                    *)

(* authMiddleware: the secret is a constant of the program, so a token is  *)
(* good in every later process.                                            *)
AuthMiddleware(r, u) ==
    /\ RequestAt(r, "idle")
    /\ u \in tokens
    /\ request' = [request EXCEPT ![r] = [NoCall EXCEPT !.stage = "reading", !.user = u]]
    /\ UNCHANGED <<vars, vaultKeys, login, tokens, fresh, raced>>

(* A read beside a write can find the old or the new value, or nothing.    *)
Found(r) ==
    {vaultKeys[request[r].user]}
        \cup {StoredKey(l) : l \in {l \in Writers : login[l].user = request[r].user}}
        \cup (IF Writers # {} THEN {None} ELSE {})

Lookup(r) ==
    /\ RequestAt(r, "reading")
    /\ \E k \in Found(r) \ {None} :
           request' = [request EXCEPT ![r].stage = "running", ![r].key = k]
    /\ UNCHANGED <<vars, vaultKeys, login, tokens, fresh, raced>>

(* "Not logged in".                                                        *)
RefuseRequest(r) ==
    /\ RequestAt(r, "reading")
    /\ None \in Found(r)
    /\ request' = [request EXCEPT ![r] = NoCall]
    /\ UNCHANGED <<vars, vaultKeys, login, tokens, fresh, raced>>

(* The vault client is done.                                               *)
EndRequest(r) ==
    /\ RequestAt(r, "running")
    /\ request' = [request EXCEPT ![r] = NoCall]
    /\ UNCHANGED <<vars, vaultKeys, login, tokens, fresh, raced>>

-----------------------------------------------------------------------------
(* The process ends, in the middle of a Register call perhaps, and another *)
(* one is started.                                                         *)
Anew ==
    /\ vaultKeys' = NoUsers
    /\ login' = [l \in Logins |-> NoCall]
    /\ request' = [r \in Requests |-> NoCall]
    /\ fresh' = {}
    /\ raced' = FALSE
    /\ UNCHANGED tokens

WebCrash ==
    /\ \/ Crash(Web)
       \/ /\ stage[Web] = "idle" /\ Fault
          /\ UNCHANGED <<file, stage, call, users, result, given, cuts, okCuts, overlapped>>
    /\ Anew

(* fatal error: concurrent map writes, or concurrent map read and write.   *)
FatalError ==
    /\ \E l \in Writers : Writers \ {l} # {} \/ Readers # {}
    /\ Crash(Web) \/ (stage[Web] = "idle" /\ UNCHANGED vars)
    /\ Anew

-----------------------------------------------------------------------------
(* registerHandler is Register; the other processes do what UserStore has. *)
StoreStep ==
    /\ \E p \in Procs :
          \/ \E r \in Regs : RegisterRefused(p, r) \/ RegisterBegin(p, r)
          \/ Truncate(p) \/ Persist(p) \/ PersistFails(p)
          \/ p # Web /\ (Crash(p) \/ \E u \in Users : Login(p, u))
    /\ UNCHANGED server

WebNext ==
    \/ StoreStep
    \/ \E l \in Logins :
        \/ \E u \in Users : HandleLogin(l, u)
        \/ StoreBegin(l) \/ StoreEnd(l) \/ IssueToken(l)
    \/ \E u \in Users : ExpireToken(u)
    \/ \E r \in Requests :
        \/ \E u \in Users : AuthMiddleware(r, u)
        \/ Lookup(r) \/ RefuseRequest(r) \/ EndRequest(r)
    \/ WebCrash \/ FatalError

WebSpec == WebInit /\ [][WebNext]_allVars

-----------------------------------------------------------------------------
(* A request works with a key that a login of its own user was given, and  *)
(* it is the key of the account in the file, which every other process     *)
(* gives out, until a write is cut short or two Register calls overlap;    *)
(* whatever handlers race for the map.                                     *)
AccountsKey ==
    \A r \in Requests : RequestAt(r, "running") =>
        /\ request[r].key \in given[request[r].user]
        /\ ~overlapped /\ cuts = 0 /\ ~Writing =>
               file # Torn /\ file[request[r].user] = request[r].key

(* Who has a token that this process made is not told "Not logged in",     *)
(* unless two logins have written the map at once.                         *)
TokenServes == ~raced => \A u \in fresh : vaultKeys[u] # None
=============================================================================
