------------------------------ MODULE Sessions ------------------------------
(***************************************************************************)
(* The session table of the HTTP gateway (pkg/master/http.go) and the      *)
(* clients that log in there: browsers (web/src), one tab each, and the    *)
(* command line client (cmd/client).                                       *)
(*                                                                         *)
(* A browser can have one login or logout and one vault request under way  *)
(* at the same time; the command line client waits for each answer.  The   *)
(* answer to a login can be lost after the gateway has made the session.   *)
(***************************************************************************)
EXTENDS Integers, FiniteSets

CONSTANTS Browsers, Clis,
          Users,
          None,
          Lifetime,      \* 24 hours
          SweepEvery,    \* 10 minutes
          MaxLogins,     \* bounds
          MaxRestarts, MaxFaults

Clients == Browsers \cup Clis
Ids == 1..MaxLogins

ASSUME SessionAssumption ==
    /\ Lifetime \in Nat /\ SweepEvery \in Nat \ {0} /\ MaxLogins \in Nat
    /\ None \notin Users \cup Ids
    /\ Browsers \cap Clis = {}

VARIABLES
    live,        \* ids in sessionStore.sessions
    owner,       \* name and vault key each session was made with
    age,         \* time since it was made; once it is gone, up to Lifetime
    sinceSweep,  \* time since the sweeper ran
    logins,      \* sessions made so far
    shown,       \* the user a client shows as logged in
    cookie,      \* its vault_session cookie
    auth,        \* its login or logout request
    request,     \* its vault request
    left,        \* sessions whose logout was answered
    restarts, faults

table  == <<live, owner, age, logins>>
client == <<shown, cookie>>
rest   == <<sinceSweep, restarts>>
vars   == <<table, client, rest, auth, request, left, faults>>

NoRequest == [kind |-> "none", user |-> None, id |-> None, stage |-> "none"]
Request(k, u, i) == [kind |-> k, user |-> u, id |-> i, stage |-> "sent"]

Init ==
    /\ live = {}
    /\ owner = [i \in Ids |-> None]
    /\ age = [i \in Ids |-> 0]
    /\ sinceSweep = 0
    /\ logins = 0
    /\ shown = [c \in Clients |-> None]
    /\ cookie = [c \in Clients |-> None]
    /\ auth = [c \in Clients |-> NoRequest]
    /\ request = [c \in Clients |-> NoRequest]
    /\ left = {}
    /\ restarts = 0 /\ faults = 0

IsAt(req, kind, stage) == req.kind = kind /\ req.stage = stage
SetAuth(c, req) == auth' = [auth EXCEPT ![c] = req]
AuthStage(c, stage) == auth' = [auth EXCEPT ![c].stage = stage]

-----------------------------------------------------------------------------
(* Login and logout, at the client.                                        *)

Login(c, u) ==
    /\ auth[c] = NoRequest
    /\ SetAuth(c, Request("login", u, cookie[c]))
    /\ UNCHANGED <<table, client, rest, request, left, faults>>

(* The login form, or the register form, which logs in when it is done:    *)
(* shown while nobody is logged in.                                        *)
BrowserLogin(c, u) == c \in Browsers /\ shown[c] = None /\ Login(c, u)

(* The login command, also when somebody is logged in already.             *)
CliLogin(c, u) == c \in Clis /\ request[c] = NoRequest /\ Login(c, u)

(* The answer's cookie is kept before the answer's text has been read.     *)
KeepCookie(c) ==
    /\ IsAt(auth[c], "login", "ok")
    /\ cookie' = [cookie EXCEPT ![c] = auth[c].id]
    /\ AuthStage(c, "received")
    /\ UNCHANGED <<table, shown, rest, request, left, faults>>

ShowLogin(c) ==
    /\ IsAt(auth[c], "login", "received")
    /\ shown' = [shown EXCEPT ![c] = auth[c].user]
    /\ SetAuth(c, NoRequest)
    /\ UNCHANGED <<table, cookie, rest, request, left, faults>>

ShowRefusal(c) ==
    /\ IsAt(auth[c], "login", "refused")
    /\ SetAuth(c, NoRequest)
    /\ UNCHANGED <<table, client, rest, request, left, faults>>

BrowserLogout(c) ==
    /\ c \in Browsers
    /\ shown[c] # None
    /\ auth[c] = NoRequest
    /\ SetAuth(c, Request("logout", None, cookie[c]))
    /\ UNCHANGED <<table, client, rest, request, left, faults>>

ShowLogout(c) ==
    /\ IsAt(auth[c], "logout", "ok")
    /\ cookie' = [cookie EXCEPT ![c] = None]
    /\ shown' = [shown EXCEPT ![c] = None]
    /\ left' = left \cup ({auth[c].id} \ {None})
    /\ SetAuth(c, NoRequest)
    /\ UNCHANGED <<table, rest, request, faults>>

(* The logout command only forgets the name.                               *)
CliLogout(c) ==
    /\ c \in Clis
    /\ shown[c] # None /\ auth[c] = NoRequest /\ request[c] = NoRequest
    /\ shown' = [shown EXCEPT ![c] = None]
    /\ UNCHANGED <<table, cookie, rest, auth, request, left, faults>>

(* A request or its answer is lost.  useAuth's logout takes that for done. *)
LoseAuth(c) ==
    /\ \/ auth[c].stage \in {"sent", "ok", "refused"}
       \/ c \in Browsers /\ auth[c].stage = "received"
    /\ faults < MaxFaults
    /\ faults' = faults + 1
    /\ shown' = IF auth[c].kind = "logout" THEN [shown EXCEPT ![c] = None] ELSE shown
    /\ SetAuth(c, NoRequest)
    /\ UNCHANGED <<table, cookie, rest, request, left>>

(* The page is loaded anew: useAuth starts logged out, the cookie stays.   *)
Reload(c) ==
    /\ c \in Browsers
    /\ shown' = [shown EXCEPT ![c] = None]
    /\ SetAuth(c, NoRequest)
    /\ request' = [request EXCEPT ![c] = NoRequest]
    /\ UNCHANGED <<table, cookie, rest, left, faults>>

(* The browser's cookie has reached its Max-Age.                           *)
ExpireCookie(c) ==
    /\ c \in Browsers
    /\ cookie[c] # None /\ age[cookie[c]] >= Lifetime
    /\ cookie' = [cookie EXCEPT ![c] = None]
    /\ UNCHANGED <<table, shown, rest, auth, request, left, faults>>

-----------------------------------------------------------------------------
(* Login and logout, at the gateway.                                       *)

(* sessionStore.create: the session of a login is always a new one.        *)
SameSession(c) == IF auth[c].id \in live THEN auth[c].id ELSE logins + 1
NewSession(c) == logins + 1

HandleLogin(c) ==
    /\ IsAt(auth[c], "login", "sent")
    /\ logins < MaxLogins
    /\ LET i == NewSession(c)
       IN  /\ live' = live \cup {i}
           /\ owner' = IF i \in live THEN owner ELSE [owner EXCEPT ![i] = auth[c].user]
           /\ SetAuth(c, [auth[c] EXCEPT !.id = i, !.stage = "ok"])
    /\ logins' = logins + 1
    /\ UNCHANGED <<age, client, rest, request, left, faults>>

(* Login of the user store has failed.                                     *)
RefuseLogin(c) ==
    /\ IsAt(auth[c], "login", "sent")
    /\ AuthStage(c, "refused")
    /\ UNCHANGED <<table, client, rest, request, left, faults>>

(* sessionStore.delete.                                                    *)
KeptSessions(i) == live
OtherSessions(i) == live \ {i}

HandleLogout(c) ==
    /\ IsAt(auth[c], "logout", "sent")
    /\ live' = OtherSessions(auth[c].id)
    /\ AuthStage(c, "ok")
    /\ UNCHANGED <<owner, age, logins, client, rest, request, left, faults>>

-----------------------------------------------------------------------------
(* Vault requests.                                                         *)

SendRequest(c) ==
    /\ shown[c] # None
    /\ request[c] = NoRequest
    /\ request' = [request EXCEPT ![c] = Request("vault", shown[c], cookie[c])]
    /\ UNCHANGED <<table, client, rest, auth, left, faults>>

BrowserRequest(c) == c \in Browsers /\ SendRequest(c)
CliRequest(c) == c \in Clis /\ auth[c] = NoRequest /\ SendRequest(c)

(* requireSession finds the session and hands it to the vault handler.     *)
RequireSession(c) ==
    /\ IsAt(request[c], "vault", "sent")
    /\ request[c].id \in live
    /\ request' = [request EXCEPT ![c].stage = "running"]
    /\ UNCHANGED <<table, client, rest, auth, left, faults>>

(* "not authenticated" or "session expired"; the client stays as it is.    *)
RefuseRequest(c) ==
    /\ IsAt(request[c], "vault", "sent")
    /\ request[c].id \notin live
    /\ request' = [request EXCEPT ![c] = NoRequest]
    /\ UNCHANGED <<table, client, rest, auth, left, faults>>

(* The handler, which has the session even if it was deleted meanwhile,    *)
(* ends.                                                                   *)
EndRequest(c) ==
    /\ IsAt(request[c], "vault", "running")
    /\ request' = [request EXCEPT ![c] = NoRequest]
    /\ UNCHANGED <<table, client, rest, auth, left, faults>>

-----------------------------------------------------------------------------
(* Time passes; the sweeper's ticker does not fall behind.                 *)
Tick ==
    /\ sinceSweep < SweepEvery
    /\ sinceSweep' = sinceSweep + 1
    /\ age' = [i \in Ids |->
           IF i \in live \/ (i <= logins /\ age[i] < Lifetime)
           THEN age[i] + 1 ELSE age[i]]
    /\ UNCHANGED <<live, owner, logins, client, restarts, auth, request, left, faults>>

ExpiredLate(i) == age[i] > Lifetime + 1
Expired(i) == age[i] > Lifetime

Sweep ==
    /\ sinceSweep = SweepEvery
    /\ sinceSweep' = 0
    /\ live' = {i \in live : ~Expired(i)}
    /\ UNCHANGED <<owner, age, logins, client, restarts, auth, request, left, faults>>

(* The master is started anew: all sessions are gone, and the requests it  *)
(* was at fail.                                                            *)
Restart ==
    /\ restarts < MaxRestarts
    /\ restarts' = restarts + 1
    /\ live' = {}
    /\ sinceSweep' = 0
    /\ shown' = [c \in Clients |-> IF IsAt(auth[c], "logout", "sent")
                                   THEN None ELSE shown[c]]
    /\ auth' = [c \in Clients |-> IF auth[c].stage = "sent" THEN NoRequest ELSE auth[c]]
    /\ request' = [c \in Clients |-> NoRequest]
    /\ UNCHANGED <<owner, age, logins, cookie, left, faults>>

Next ==
    \/ \E c \in Clients :
        \/ \E u \in Users : BrowserLogin(c, u) \/ CliLogin(c, u)
        \/ KeepCookie(c) \/ ShowLogin(c) \/ ShowRefusal(c)
        \/ BrowserLogout(c) \/ ShowLogout(c) \/ CliLogout(c)
        \/ LoseAuth(c) \/ Reload(c) \/ ExpireCookie(c)
        \/ HandleLogin(c) \/ RefuseLogin(c) \/ HandleLogout(c)
        \/ BrowserRequest(c) \/ CliRequest(c)
        \/ RequireSession(c) \/ RefuseRequest(c) \/ EndRequest(c)
    \/ Tick \/ Sweep \/ Restart

Spec == Init /\ [][Next]_vars

-----------------------------------------------------------------------------
(* A vault request is carried out with the name and the vault key of the   *)
(* user whom the client showed as logged in when it was sent, whatever     *)
(* sessions were lost, left behind, deleted or replaced before.            *)
RightVault ==
    \A c \in Clients : IsAt(request[c], "vault", "running") =>
        owner[request[c].id] = request[c].user

(* When a browser has the answer to its logout, the session is gone, so    *)
(* that no request which names it is served any more.                      *)
LoggedOutIsGone == left \cap live = {}

(* Sessions that nobody ends, as those of the command line client, live on *)
(* for the time between two sweeps after their lifetime at the most.       *)
SessionsEnd == \A i \in live : age[i] <= Lifetime + SweepEvery
=============================================================================
