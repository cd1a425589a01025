--------------------------- MODULE SessionsProofs ---------------------------
(***************************************************************************)
(* Theorems about Sessions, for every set of clients and users and every   *)
(* lifetime, sweep period and bound.                                       *)
(***************************************************************************)
EXTENDS Sessions, TLAPS

-----------------------------------------------------------------------------
(* The invariant.                                                          *)

Given == 1..logins
Stages == {"none", "sent", "ok", "refused", "received", "running"}
RequestType == [kind : {"none", "login", "logout", "vault"}, user : Users \cup {None},
                id : Given \cup {None}, stage : Stages]

Types ==
    /\ logins \in 0..MaxLogins
    /\ live \subseteq Given /\ left \subseteq Given
    /\ owner \in [Ids -> Users \cup {None}]
    /\ age \in [Ids -> Nat]
    /\ sinceSweep \in 0..SweepEvery
    /\ shown \in [Clients -> Users \cup {None}]
    /\ cookie \in [Clients -> Given \cup {None}]
    /\ auth \in [Clients -> RequestType]
    /\ request \in [Clients -> RequestType]

(* The session of the cookie is the one of the user shown, except between  *)
(* the header of a login's answer and its text; a browser shows nobody     *)
(* while it logs in.                                                       *)
CookieOfShown ==
    \A c \in Clients :
        /\ IsAt(auth[c], "login", "received") => cookie[c] \in {auth[c].id, None}
        /\ c \in Browsers /\ auth[c].kind = "login" => shown[c] = None
        /\ shown[c] # None /\ cookie[c] # None =>
              IsAt(auth[c], "login", "received") \/ owner[cookie[c]] = shown[c]

(* The answer of a login carries a session of the login's user.            *)
LoginsOwn ==
    \A c \in Clients :
        auth[c].kind = "login" /\ auth[c].stage \in {"ok", "received"} =>
            auth[c].id \in Given /\ owner[auth[c].id] = auth[c].user

(* A request was sent with a session of the user shown then, or with none. *)
RequestsOwn ==
    \A c \in Clients : request[c].kind = "vault" =>
        /\ request[c].id # None => owner[request[c].id] = request[c].user
        /\ request[c].stage = "running" => request[c].id # None

SInv == Types /\ CookieOfShown /\ LoginsOwn /\ RequestsOwn

(* A request in another stage is still one.                                *)
LEMMA StageTyped ==
    ASSUME Types, NEW c \in Clients, NEW s \in Stages, AuthStage(c, s)
    PROVE  auth' \in [Clients -> RequestType]
<1>1. auth \in [Clients -> RequestType]
  BY DEF Types
<1>2. auth' = [auth EXCEPT ![c].stage = s]
  BY DEF AuthStage
<1> QED
  BY <1>1, <1>2 DEF RequestType

LEMMA RunningTyped ==
    ASSUME Types, NEW c \in Clients, RequireSession(c)
    PROVE  request' \in [Clients -> RequestType]
<1>1. request \in [Clients -> RequestType]
  BY DEF Types
<1>2. request' = [request EXCEPT ![c].stage = "running"]
  BY DEF RequireSession
<1> QED
  BY <1>1, <1>2 DEF RequestType, Stages

(* Typing.                                                                 *)
LEMMA TypesStep ==
    ASSUME Types, [Next]_vars
    PROVE  Types'
<1> USE SessionAssumption
<1> USE DEF Types, NoRequest, RequestType, Given, Ids, Stages, IsAt,
            SetAuth, table, client, rest
<1>1. ASSUME NEW c \in Clients, NEW u \in Users, Login(c, u) PROVE Types'
  BY <1>1 DEF Login, Request
<1>2. ASSUME NEW c \in Clients, KeepCookie(c) PROVE Types'
  <2>1. AuthStage(c, "received") /\ logins' = logins
    BY <1>2 DEF KeepCookie
  <2>2. auth' \in [Clients -> RequestType]
    BY <2>1, StageTyped
  <2> QED
    BY <1>2, <2>1, <2>2 DEF KeepCookie
<1>3. ASSUME NEW c \in Clients, ShowLogin(c) PROVE Types'
  BY <1>3 DEF ShowLogin
<1>4. ASSUME NEW c \in Clients, ShowRefusal(c) PROVE Types'
  BY <1>4 DEF ShowRefusal
<1>5. ASSUME NEW c \in Clients, BrowserLogout(c) PROVE Types'
  BY <1>5 DEF BrowserLogout, Request
<1>6. ASSUME NEW c \in Clients, ShowLogout(c) PROVE Types'
  BY <1>6 DEF ShowLogout
<1>7. ASSUME NEW c \in Clients, CliLogout(c) PROVE Types'
  BY <1>7 DEF CliLogout
<1>8. ASSUME NEW c \in Clients, LoseAuth(c) PROVE Types'
  BY <1>8 DEF LoseAuth
<1>9. ASSUME NEW c \in Clients, Reload(c) PROVE Types'
  BY <1>9 DEF Reload
<1>10. ASSUME NEW c \in Clients, ExpireCookie(c) PROVE Types'
  BY <1>10 DEF ExpireCookie
<1>11. ASSUME NEW c \in Clients, HandleLogin(c) PROVE Types'
  <2>1. logins' = logins + 1 /\ logins + 1 \in Ids /\ auth[c].kind = "login"
    BY <1>11 DEF HandleLogin
  <2>2. live' \subseteq Given' /\ left' \subseteq Given' /\ logins' \in 0..MaxLogins
    BY <1>11, <2>1 DEF HandleLogin, NewSession
  <2>3. Given \subseteq Given' /\ logins + 1 \in Given'
    BY <2>1
  <2>4. auth[c] \in RequestType
    OBVIOUS
  <2>5. [auth[c] EXCEPT !.id = logins + 1, !.stage = "ok"] \in RequestType'
    BY <2>3, <2>4
  <2>6. auth' \in [Clients -> RequestType'] /\ request' \in [Clients -> RequestType']
    BY <1>11, <2>3, <2>5 DEF HandleLogin, NewSession
  <2>7. owner' \in [Ids -> Users \cup {None}]
    BY <1>11, <2>1, <2>4 DEF HandleLogin, NewSession
  <2>8. cookie' \in [Clients -> Given' \cup {None}]
    BY <1>11, <2>3 DEF HandleLogin
  <2> QED
    BY <1>11, <2>2, <2>6, <2>7, <2>8 DEF HandleLogin
<1>12. ASSUME NEW c \in Clients, RefuseLogin(c) PROVE Types'
  <2>1. AuthStage(c, "refused") /\ logins' = logins
    BY <1>12 DEF RefuseLogin
  <2>2. auth' \in [Clients -> RequestType]
    BY <2>1, StageTyped
  <2> QED
    BY <1>12, <2>1, <2>2 DEF RefuseLogin
<1>13. ASSUME NEW c \in Clients, HandleLogout(c) PROVE Types'
  <2>1. AuthStage(c, "ok") /\ logins' = logins
    BY <1>13 DEF HandleLogout, OtherSessions
  <2>2. auth' \in [Clients -> RequestType]
    BY <2>1, StageTyped
  <2> QED
    BY <1>13, <2>1, <2>2 DEF HandleLogout, OtherSessions
<1>14. ASSUME NEW c \in Clients, SendRequest(c) PROVE Types'
  BY <1>14 DEF SendRequest, Request
<1>15. ASSUME NEW c \in Clients, RequireSession(c) PROVE Types'
  <2>1. request' \in [Clients -> RequestType]
    BY <1>15, RunningTyped
  <2> QED
    BY <1>15, <2>1 DEF RequireSession
<1>16. ASSUME NEW c \in Clients, RefuseRequest(c) PROVE Types'
  BY <1>16 DEF RefuseRequest
<1>17. ASSUME NEW c \in Clients, EndRequest(c) PROVE Types'
  BY <1>17 DEF EndRequest
<1>18. CASE Tick
  BY <1>18 DEF Tick
<1>19. CASE Sweep
  <2>1. live' \subseteq live /\ sinceSweep' \in 0..SweepEvery
    BY <1>19 DEF Sweep
  <2> QED
    BY <1>19, <2>1 DEF Sweep
<1>20. CASE Restart
  BY <1>20 DEF Restart
<1>21. CASE UNCHANGED vars
  BY <1>21 DEF vars
<1> QED
  BY <1>1, <1>2, <1>3, <1>4, <1>5, <1>6, <1>7, <1>8, <1>9, <1>10, <1>11,
     <1>12, <1>13, <1>14, <1>15, <1>16, <1>17, <1>18, <1>19, <1>20,
     <1>21
  DEF Next, BrowserLogin, CliLogin, BrowserRequest, CliRequest

(* A session keeps its owner.                                              *)
LEMMA OwnerKept ==
    ASSUME Types, [Next]_vars
    PROVE  Given \subseteq Given' /\ \A i \in Given : owner'[i] = owner[i]
<1> USE DEF Types, Given, Ids, IsAt, table, client, rest
<1>1. ASSUME NEW c \in Clients, NEW u \in Users, Login(c, u) PROVE Given \subseteq Given' /\ \A i \in Given : owner'[i] = owner[i]
  BY <1>1 DEF Login, Request
<1>2. ASSUME NEW c \in Clients, KeepCookie(c) PROVE Given \subseteq Given' /\ \A i \in Given : owner'[i] = owner[i]
  BY <1>2 DEF KeepCookie, AuthStage
<1>3. ASSUME NEW c \in Clients, ShowLogin(c) PROVE Given \subseteq Given' /\ \A i \in Given : owner'[i] = owner[i]
  BY <1>3 DEF ShowLogin
<1>4. ASSUME NEW c \in Clients, ShowRefusal(c) PROVE Given \subseteq Given' /\ \A i \in Given : owner'[i] = owner[i]
  BY <1>4 DEF ShowRefusal
<1>5. ASSUME NEW c \in Clients, BrowserLogout(c) PROVE Given \subseteq Given' /\ \A i \in Given : owner'[i] = owner[i]
  BY <1>5 DEF BrowserLogout, Request
<1>6. ASSUME NEW c \in Clients, ShowLogout(c) PROVE Given \subseteq Given' /\ \A i \in Given : owner'[i] = owner[i]
  BY <1>6 DEF ShowLogout
<1>7. ASSUME NEW c \in Clients, CliLogout(c) PROVE Given \subseteq Given' /\ \A i \in Given : owner'[i] = owner[i]
  BY <1>7 DEF CliLogout
<1>8. ASSUME NEW c \in Clients, LoseAuth(c) PROVE Given \subseteq Given' /\ \A i \in Given : owner'[i] = owner[i]
  BY <1>8 DEF LoseAuth
<1>9. ASSUME NEW c \in Clients, Reload(c) PROVE Given \subseteq Given' /\ \A i \in Given : owner'[i] = owner[i]
  BY <1>9 DEF Reload
<1>10. ASSUME NEW c \in Clients, ExpireCookie(c) PROVE Given \subseteq Given' /\ \A i \in Given : owner'[i] = owner[i]
  BY <1>10 DEF ExpireCookie
<1>11. ASSUME NEW c \in Clients, HandleLogin(c) PROVE Given \subseteq Given' /\ \A i \in Given : owner'[i] = owner[i]
  BY <1>11 DEF HandleLogin, NewSession
<1>12. ASSUME NEW c \in Clients, RefuseLogin(c) PROVE Given \subseteq Given' /\ \A i \in Given : owner'[i] = owner[i]
  BY <1>12 DEF RefuseLogin, AuthStage
<1>13. ASSUME NEW c \in Clients, HandleLogout(c) PROVE Given \subseteq Given' /\ \A i \in Given : owner'[i] = owner[i]
  BY <1>13 DEF HandleLogout, OtherSessions, AuthStage
<1>14. ASSUME NEW c \in Clients, SendRequest(c) PROVE Given \subseteq Given' /\ \A i \in Given : owner'[i] = owner[i]
  BY <1>14 DEF SendRequest, Request
<1>15. ASSUME NEW c \in Clients, RequireSession(c) PROVE Given \subseteq Given' /\ \A i \in Given : owner'[i] = owner[i]
  BY <1>15 DEF RequireSession
<1>16. ASSUME NEW c \in Clients, RefuseRequest(c) PROVE Given \subseteq Given' /\ \A i \in Given : owner'[i] = owner[i]
  BY <1>16 DEF RefuseRequest
<1>17. ASSUME NEW c \in Clients, EndRequest(c) PROVE Given \subseteq Given' /\ \A i \in Given : owner'[i] = owner[i]
  BY <1>17 DEF EndRequest
<1>18. CASE Tick
  BY <1>18 DEF Tick
<1>19. CASE Sweep
  BY <1>19 DEF Sweep, Expired
<1>20. CASE Restart
  BY <1>20 DEF Restart
<1>21. CASE UNCHANGED vars
  BY <1>21 DEF vars
<1> QED
  BY <1>1, <1>2, <1>3, <1>4, <1>5, <1>6, <1>7, <1>8, <1>9, <1>10, <1>11,
     <1>12, <1>13, <1>14, <1>15, <1>16, <1>17, <1>18, <1>19, <1>20,
     <1>21
  DEF Next, BrowserLogin, CliLogin, BrowserRequest, CliRequest

(* What a client shows goes with its cookie.                               *)
LEMMA CookieStep ==
    ASSUME SInv, Types', [Next]_vars
    PROVE  CookieOfShown'
<1>o. Given \subseteq Given' /\ \A i \in Given : owner'[i] = owner[i]
  BY OwnerKept DEF SInv
<1>n. None \notin Users /\ None \notin Ids /\ Browsers \cap Clis = {}
  BY SessionAssumption
<1> USE <1>o, <1>n
<1> USE DEF SInv, CookieOfShown, LoginsOwn, Types, RequestType, NoRequest,
            SetAuth, IsAt, table, client, rest
<1>1. ASSUME NEW c \in Clients, NEW u \in Users,
             BrowserLogin(c, u) \/ CliLogin(c, u)
      PROVE  CookieOfShown'
  BY <1>1 DEF Login, Request, BrowserLogin, CliLogin
<1>2. ASSUME NEW c \in Clients, KeepCookie(c) PROVE CookieOfShown'
  BY <1>2 DEF KeepCookie, AuthStage
<1>3. ASSUME NEW c \in Clients, ShowLogin(c) PROVE CookieOfShown'
  BY <1>3 DEF ShowLogin
<1>4. ASSUME NEW c \in Clients, ShowRefusal(c) PROVE CookieOfShown'
  BY <1>4 DEF ShowRefusal
<1>5. ASSUME NEW c \in Clients, BrowserLogout(c) PROVE CookieOfShown'
  BY <1>5 DEF BrowserLogout, Request
<1>6. ASSUME NEW c \in Clients, ShowLogout(c) PROVE CookieOfShown'
  BY <1>6 DEF ShowLogout
<1>7. ASSUME NEW c \in Clients, CliLogout(c) PROVE CookieOfShown'
  BY <1>7 DEF CliLogout
<1>8. ASSUME NEW c \in Clients, LoseAuth(c) PROVE CookieOfShown'
  BY <1>8 DEF LoseAuth
<1>9. ASSUME NEW c \in Clients, Reload(c) PROVE CookieOfShown'
  BY <1>9 DEF Reload
<1>10. ASSUME NEW c \in Clients, ExpireCookie(c) PROVE CookieOfShown'
  BY <1>10 DEF ExpireCookie
<1>11. ASSUME NEW c \in Clients, HandleLogin(c) PROVE CookieOfShown'
  BY <1>11 DEF HandleLogin, NewSession
<1>12. ASSUME NEW c \in Clients, RefuseLogin(c) PROVE CookieOfShown'
  BY <1>12 DEF RefuseLogin, AuthStage
<1>13. ASSUME NEW c \in Clients, HandleLogout(c) PROVE CookieOfShown'
  BY <1>13 DEF HandleLogout, OtherSessions, AuthStage
<1>14. ASSUME NEW c \in Clients, SendRequest(c) PROVE CookieOfShown'
  BY <1>14 DEF SendRequest, Request
<1>15. ASSUME NEW c \in Clients, RequireSession(c) PROVE CookieOfShown'
  BY <1>15 DEF RequireSession
<1>16. ASSUME NEW c \in Clients, RefuseRequest(c) PROVE CookieOfShown'
  BY <1>16 DEF RefuseRequest
<1>17. ASSUME NEW c \in Clients, EndRequest(c) PROVE CookieOfShown'
  BY <1>17 DEF EndRequest
<1>18. CASE Tick
  BY <1>18 DEF Tick
<1>19. CASE Sweep
  BY <1>19 DEF Sweep, Expired
<1>20. CASE Restart
  BY <1>20 DEF Restart
<1>21. CASE UNCHANGED vars
  BY <1>21 DEF vars
<1> QED
  BY <1>1, <1>2, <1>3, <1>4, <1>5, <1>6, <1>7, <1>8, <1>9, <1>10, <1>11,
     <1>12, <1>13, <1>14, <1>15, <1>16, <1>17, <1>18, <1>19, <1>20,
     <1>21
  DEF Next, BrowserRequest, CliRequest

(* An answer to a login carries the session made for it.                   *)
LEMMA LoginsStep ==
    ASSUME SInv, Types', [Next]_vars
    PROVE  LoginsOwn'
<1>o. Given \subseteq Given' /\ \A i \in Given : owner'[i] = owner[i]
  BY OwnerKept DEF SInv
<1>n. None \notin Users /\ None \notin Ids /\ Browsers \cap Clis = {}
  BY SessionAssumption
<1> USE <1>o, <1>n
<1> USE DEF SInv, LoginsOwn, Types, RequestType, NoRequest, SetAuth, IsAt,
            table, client, rest
<1>1. ASSUME NEW c \in Clients, NEW u \in Users, Login(c, u) PROVE LoginsOwn'
  BY <1>1 DEF Login, Request
<1>2. ASSUME NEW c \in Clients, KeepCookie(c) PROVE LoginsOwn'
  BY <1>2 DEF KeepCookie, AuthStage
<1>3. ASSUME NEW c \in Clients, ShowLogin(c) PROVE LoginsOwn'
  BY <1>3 DEF ShowLogin
<1>4. ASSUME NEW c \in Clients, ShowRefusal(c) PROVE LoginsOwn'
  BY <1>4 DEF ShowRefusal
<1>5. ASSUME NEW c \in Clients, BrowserLogout(c) PROVE LoginsOwn'
  BY <1>5 DEF BrowserLogout, Request
<1>6. ASSUME NEW c \in Clients, ShowLogout(c) PROVE LoginsOwn'
  BY <1>6 DEF ShowLogout
<1>7. ASSUME NEW c \in Clients, CliLogout(c) PROVE LoginsOwn'
  BY <1>7 DEF CliLogout
<1>8. ASSUME NEW c \in Clients, LoseAuth(c) PROVE LoginsOwn'
  BY <1>8 DEF LoseAuth
<1>9. ASSUME NEW c \in Clients, Reload(c) PROVE LoginsOwn'
  BY <1>9 DEF Reload
<1>10. ASSUME NEW c \in Clients, ExpireCookie(c) PROVE LoginsOwn'
  BY <1>10 DEF ExpireCookie
<1>11. ASSUME NEW c \in Clients, HandleLogin(c) PROVE LoginsOwn'
  <2>1. auth[c] \in RequestType /\ auth[c].kind = "login" /\ logins + 1 \in Ids
    BY <1>11 DEF HandleLogin, Ids
  <2>2. logins + 1 \in Given' /\ logins + 1 \notin live
    BY <1>11 DEF HandleLogin, Given
  <2>3. auth' = [auth EXCEPT ![c] = [auth[c] EXCEPT !.id = logins + 1, !.stage = "ok"]]
    BY <1>11 DEF HandleLogin, NewSession
  <2>4. owner' = [owner EXCEPT ![logins + 1] = auth[c].user]
    BY <1>11, <2>2 DEF HandleLogin, NewSession
  <2>5. auth'[c].id = logins + 1 /\ auth'[c].user = auth[c].user /\ owner'[logins + 1] = auth[c].user
    BY <2>1, <2>3, <2>4
  <2>6. \A d \in Clients : d # c => auth'[d] = auth[d]
    BY <2>3
  <2>7. ASSUME NEW d \in Clients, auth'[d].kind = "login", auth'[d].stage \in {"ok", "received"}
        PROVE  auth'[d].id \in Given' /\ owner'[auth'[d].id] = auth'[d].user
    <3> HIDE DEF Types, RequestType, NoRequest, SetAuth, IsAt, table, client, rest
    <3>1. CASE d = c
      BY <3>1, <2>2, <2>5
    <3>2. CASE d # c
      <4>1. auth'[d] = auth[d]
        BY <3>2, <2>6
      <4>2. auth[d].id \in Given /\ owner[auth[d].id] = auth[d].user
        BY <4>1, <2>7
      <4> QED
        BY <4>1, <4>2
    <3> QED
      BY <3>1, <3>2
  <2> QED
    BY <2>7
<1>12. ASSUME NEW c \in Clients, RefuseLogin(c) PROVE LoginsOwn'
  BY <1>12 DEF RefuseLogin, AuthStage
<1>13. ASSUME NEW c \in Clients, HandleLogout(c) PROVE LoginsOwn'
  BY <1>13 DEF HandleLogout, OtherSessions, AuthStage
<1>14. ASSUME NEW c \in Clients, SendRequest(c) PROVE LoginsOwn'
  BY <1>14 DEF SendRequest, Request
<1>15. ASSUME NEW c \in Clients, RequireSession(c) PROVE LoginsOwn'
  BY <1>15 DEF RequireSession
<1>16. ASSUME NEW c \in Clients, RefuseRequest(c) PROVE LoginsOwn'
  BY <1>16 DEF RefuseRequest
<1>17. ASSUME NEW c \in Clients, EndRequest(c) PROVE LoginsOwn'
  BY <1>17 DEF EndRequest
<1>18. CASE Tick
  BY <1>18 DEF Tick
<1>19. CASE Sweep
  BY <1>19 DEF Sweep, Expired
<1>20. CASE Restart
  BY <1>20 DEF Restart
<1>21. CASE UNCHANGED vars
  BY <1>21 DEF vars
<1> QED
  BY <1>1, <1>2, <1>3, <1>4, <1>5, <1>6, <1>7, <1>8, <1>9, <1>10, <1>11,
     <1>12, <1>13, <1>14, <1>15, <1>16, <1>17, <1>18, <1>19, <1>20,
     <1>21
  DEF Next, BrowserLogin, CliLogin, BrowserRequest, CliRequest

(* A request keeps the session it was sent with.                           *)
LEMMA RequestsStep ==
    ASSUME SInv, Types', [Next]_vars
    PROVE  RequestsOwn'
<1>o. Given \subseteq Given' /\ \A i \in Given : owner'[i] = owner[i]
  BY OwnerKept DEF SInv
<1>n. None \notin Users /\ None \notin Ids /\ Browsers \cap Clis = {}
  BY SessionAssumption
<1> USE <1>o, <1>n
<1> USE DEF SInv, RequestsOwn, CookieOfShown, Types, RequestType, NoRequest,
            IsAt, table, client, rest
<1>1. ASSUME NEW c \in Clients, NEW u \in Users, Login(c, u) PROVE RequestsOwn'
  BY <1>1 DEF Login, Request
<1>2. ASSUME NEW c \in Clients, KeepCookie(c) PROVE RequestsOwn'
  BY <1>2 DEF KeepCookie, AuthStage
<1>3. ASSUME NEW c \in Clients, ShowLogin(c) PROVE RequestsOwn'
  BY <1>3 DEF ShowLogin
<1>4. ASSUME NEW c \in Clients, ShowRefusal(c) PROVE RequestsOwn'
  BY <1>4 DEF ShowRefusal
<1>5. ASSUME NEW c \in Clients, BrowserLogout(c) PROVE RequestsOwn'
  BY <1>5 DEF BrowserLogout, Request
<1>6. ASSUME NEW c \in Clients, ShowLogout(c) PROVE RequestsOwn'
  BY <1>6 DEF ShowLogout
<1>7. ASSUME NEW c \in Clients, CliLogout(c) PROVE RequestsOwn'
  BY <1>7 DEF CliLogout
<1>8. ASSUME NEW c \in Clients, LoseAuth(c) PROVE RequestsOwn'
  BY <1>8 DEF LoseAuth
<1>9. ASSUME NEW c \in Clients, Reload(c) PROVE RequestsOwn'
  BY <1>9 DEF Reload
<1>10. ASSUME NEW c \in Clients, ExpireCookie(c) PROVE RequestsOwn'
  BY <1>10 DEF ExpireCookie
<1>11. ASSUME NEW c \in Clients, HandleLogin(c) PROVE RequestsOwn'
  BY <1>11 DEF HandleLogin, NewSession
<1>12. ASSUME NEW c \in Clients, RefuseLogin(c) PROVE RequestsOwn'
  BY <1>12 DEF RefuseLogin, AuthStage
<1>13. ASSUME NEW c \in Clients, HandleLogout(c) PROVE RequestsOwn'
  BY <1>13 DEF HandleLogout, OtherSessions, AuthStage
<1>14. ASSUME NEW c \in Clients, BrowserRequest(c) \/ CliRequest(c)
      PROVE  RequestsOwn'
  <2>1. SendRequest(c) /\ shown[c] # None
    BY <1>14 DEF BrowserRequest, CliRequest, SendRequest
  <2>2. ~IsAt(auth[c], "login", "received")
    <3>1. CASE BrowserRequest(c)
      BY <2>1, <3>1 DEF BrowserRequest
    <3>2. CASE CliRequest(c)
      BY <3>2 DEF CliRequest
    <3> QED
      BY <1>14, <3>1, <3>2
  <2>3. cookie[c] # None => owner[cookie[c]] = shown[c]
    BY <2>1, <2>2
  <2>4. request' = [request EXCEPT ![c] = Request("vault", shown[c], cookie[c])] /\ owner' = owner
    BY <2>1 DEF SendRequest
  <2>5. request'[c].user = shown[c] /\ request'[c].id = cookie[c] /\ request'[c].stage = "sent"
    BY <2>4 DEF Request
  <2>6. \A d \in Clients : d # c => request'[d] = request[d]
    BY <2>4
  <2> QED
    BY <2>3, <2>4, <2>5, <2>6
<1>15. ASSUME NEW c \in Clients, RequireSession(c) PROVE RequestsOwn'
  <2>1. request[c].id \in Given /\ owner' = owner
    BY <1>15 DEF RequireSession
  <2>2. request[c].id # None
    BY <2>1, SessionAssumption DEF Given, Ids
  <2>3. request' = [request EXCEPT ![c].stage = "running"]
    BY <1>15 DEF RequireSession
  <2>4. request'[c].user = request[c].user /\ request'[c].id = request[c].id
    BY <2>3
  <2>5. request[c].kind = "vault"
    BY <1>15 DEF RequireSession
  <2>6. \A d \in Clients : d # c => request'[d] = request[d]
    BY <2>3
  <2> SUFFICES ASSUME NEW d \in Clients, request'[d].kind = "vault"
               PROVE  /\ request'[d].id # None => owner'[request'[d].id] = request'[d].user
                      /\ request'[d].stage = "running" => request'[d].id # None
    OBVIOUS
  <2>7. CASE d = c
    BY <2>1, <2>2, <2>4, <2>5, <2>7
  <2>8. CASE d # c
    BY <2>1, <2>6, <2>8
  <2> QED
    BY <2>7, <2>8
<1>16. ASSUME NEW c \in Clients, RefuseRequest(c) PROVE RequestsOwn'
  BY <1>16 DEF RefuseRequest
<1>17. ASSUME NEW c \in Clients, EndRequest(c) PROVE RequestsOwn'
  BY <1>17 DEF EndRequest
<1>18. CASE Tick
  BY <1>18 DEF Tick
<1>19. CASE Sweep
  BY <1>19 DEF Sweep, Expired
<1>20. CASE Restart
  BY <1>20 DEF Restart
<1>21. CASE UNCHANGED vars
  BY <1>21 DEF vars
<1> QED
  BY <1>1, <1>2, <1>3, <1>4, <1>5, <1>6, <1>7, <1>8, <1>9, <1>10, <1>11,
     <1>12, <1>13, <1>14, <1>15, <1>16, <1>17, <1>18, <1>19, <1>20,
     <1>21
  DEF Next, BrowserLogin, CliLogin

-----------------------------------------------------------------------------
(* It holds at the start, when nobody is logged in.                        *)
LEMMA SInvInit == Init => SInv
  BY SessionAssumption
  DEF Init, SInv, Types, CookieOfShown, LoginsOwn, RequestsOwn, RequestType,
      NoRequest, IsAt, Given, Ids, Stages

(* Every step keeps it.                                                    *)
LEMMA SInvStep == SInv /\ [Next]_vars => SInv'
<1> SUFFICES ASSUME SInv, [Next]_vars PROVE SInv'
  OBVIOUS
<1>1. Types'
  BY TypesStep DEF SInv
<1> QED
  BY <1>1, CookieStep, LoginsStep, RequestsStep DEF SInv

(* The invariant holds throughout: a client's cookie is a session of the   *)
(* user it shows, or none.                                                 *)
THEOREM SInvCorrect == Spec => []SInv
<1> QED
  BY SInvInit, SInvStep, PTL DEF Spec

(* The gateway carries a vault request out with the name and the vault key *)
(* of the user whom the client showed as logged in when it was sent.       *)
THEOREM RightVaultCorrect == Spec => []RightVault
<1>1. SInv => RightVault
  <2> SUFFICES ASSUME SInv, NEW c \in Clients, IsAt(request[c], "vault", "running")
               PROVE  owner[request[c].id] = request[c].user
    BY DEF RightVault
  <2> QED
    BY DEF SInv, RequestsOwn, IsAt
<1> QED
  BY SInvCorrect, <1>1, PTL

-----------------------------------------------------------------------------
(* The steps that change the session table or the clock.                   *)
TableAlone == UNCHANGED <<live, age, logins, sinceSweep>>

(* Every other step leaves them alone.                                     *)
LEMMA TableSteps ==
    ASSUME [Next]_vars
    PROVE  \/ \E c \in Clients : HandleLogin(c) \/ HandleLogout(c)
           \/ Tick \/ Sweep \/ Restart \/ TableAlone
<1> USE DEF TableAlone, vars, table, client, rest
<1>1. ASSUME NEW c \in Clients, NEW u \in Users, BrowserLogin(c, u) \/ CliLogin(c, u)
      PROVE  TableAlone
  BY <1>1 DEF BrowserLogin, CliLogin, Login
<1>2. ASSUME NEW c \in Clients,
             \/ KeepCookie(c) \/ ShowLogin(c) \/ ShowRefusal(c)
             \/ BrowserLogout(c) \/ ShowLogout(c) \/ CliLogout(c)
             \/ LoseAuth(c) \/ Reload(c) \/ ExpireCookie(c)
      PROVE  TableAlone
  BY <1>2 DEF KeepCookie, ShowLogin, ShowRefusal, BrowserLogout, ShowLogout,
              CliLogout, LoseAuth, Reload, ExpireCookie
<1>3. ASSUME NEW c \in Clients,
             \/ RefuseLogin(c) \/ BrowserRequest(c) \/ CliRequest(c)
             \/ RequireSession(c) \/ RefuseRequest(c) \/ EndRequest(c)
      PROVE  TableAlone
  BY <1>3 DEF RefuseLogin, BrowserRequest, CliRequest, SendRequest,
              RequireSession, RefuseRequest, EndRequest
<1> QED
  BY <1>1, <1>2, <1>3 DEF Next

-----------------------------------------------------------------------------
(* Logging out.                                                            *)

(* The session of a logout's answer is gone already on its way.            *)
AnsweredGone ==
    \A c \in Clients : IsAt(auth[c], "logout", "ok") => auth[c].id \notin live

LInv == SInv /\ LoggedOutIsGone /\ AnsweredGone

(* The answer of a logout comes from HandleLogout alone.                   *)
LEMMA LogoutAnswers ==
    ASSUME SInv, [Next]_vars, NEW c \in Clients, IsAt(auth'[c], "logout", "ok")
    PROVE  HandleLogout(c) \/ (IsAt(auth[c], "logout", "ok") /\ auth'[c].id = auth[c].id)
<1> USE DEF SInv, Types, RequestType, NoRequest, SetAuth, AuthStage, IsAt,
            table, client, rest
<1>1. ASSUME NEW d \in Clients, NEW u \in Users, BrowserLogin(d, u) \/ CliLogin(d, u)
      PROVE  IsAt(auth[c], "logout", "ok") /\ auth'[c].id = auth[c].id
  BY <1>1 DEF BrowserLogin, CliLogin, Login, Request
<1>2. ASSUME NEW d \in Clients,
             KeepCookie(d) \/ ShowLogin(d) \/ ShowRefusal(d) \/ BrowserLogout(d)
      PROVE  IsAt(auth[c], "logout", "ok") /\ auth'[c].id = auth[c].id
  <2>1. CASE KeepCookie(d)
    BY <2>1 DEF KeepCookie
  <2>2. CASE ShowLogin(d)
    BY <2>2 DEF ShowLogin
  <2>3. CASE ShowRefusal(d)
    BY <2>3 DEF ShowRefusal
  <2>4. CASE BrowserLogout(d)
    BY <2>4 DEF BrowserLogout, Request
  <2> QED
    BY <1>2, <2>1, <2>2, <2>3, <2>4
<1>3. ASSUME NEW d \in Clients,
             ShowLogout(d) \/ CliLogout(d) \/ LoseAuth(d) \/ Reload(d) \/ ExpireCookie(d)
      PROVE  IsAt(auth[c], "logout", "ok") /\ auth'[c].id = auth[c].id
  BY <1>3 DEF ShowLogout, CliLogout, LoseAuth, Reload, ExpireCookie
<1>4. ASSUME NEW d \in Clients, HandleLogin(d) \/ RefuseLogin(d)
      PROVE  IsAt(auth[c], "logout", "ok") /\ auth'[c].id = auth[c].id
  <2>1. CASE c = d
    <3>1. auth[c].kind = "login" /\ auth[c] \in RequestType
      BY <1>4, <2>1 DEF HandleLogin, RefuseLogin
    <3>2. ASSUME HandleLogin(c) PROVE auth'[c].kind = "login"
      <4>1. auth'[c] = [auth[c] EXCEPT !.id = NewSession(c), !.stage = "ok"]
        BY <3>2 DEF HandleLogin
      <4> QED
        BY <3>1, <4>1
    <3>3. ASSUME RefuseLogin(c) PROVE auth'[c].kind = "login"
      <4>1. auth'[c] = [auth[c] EXCEPT !.stage = "refused"]
        BY <3>3 DEF RefuseLogin
      <4> QED
        BY <3>1, <4>1
    <3> QED
      BY <1>4, <2>1, <3>2, <3>3
  <2>2. CASE c # d
    BY <1>4, <2>2 DEF HandleLogin, RefuseLogin
  <2> QED
    BY <2>1, <2>2
<1>5. ASSUME NEW d \in Clients, HandleLogout(d)
      PROVE  HandleLogout(c) \/ (IsAt(auth[c], "logout", "ok") /\ auth'[c].id = auth[c].id)
  <2>1. CASE c # d
    BY <1>5, <2>1 DEF HandleLogout
  <2> QED
    BY <1>5, <2>1
<1>6. CASE auth' = auth
  BY <1>6
<1>7. CASE Restart
  BY <1>7 DEF Restart
<1>8. ASSUME NEW d \in Clients,
             \/ BrowserRequest(d) \/ CliRequest(d)
             \/ RequireSession(d) \/ RefuseRequest(d) \/ EndRequest(d)
      PROVE  auth' = auth
  BY <1>8 DEF BrowserRequest, CliRequest, SendRequest, RequireSession,
              RefuseRequest, EndRequest
<1>9. Tick \/ Sweep \/ UNCHANGED vars => auth' = auth
  BY DEF Tick, Sweep, vars
<1> QED
  BY <1>1, <1>2, <1>3, <1>4, <1>5, <1>6, <1>7, <1>8, <1>9 DEF Next

(* Sessions only become live by a login, under a new id.                   *)
LEMMA LiveSteps ==
    ASSUME SInv, [Next]_vars, NEW i \in Given, i \notin live
    PROVE  i \notin live'
<1>1. ASSUME NEW c \in Clients, HandleLogin(c) PROVE i \notin live'
  BY <1>1 DEF HandleLogin, NewSession, Given, SInv, Types
<1>2. ASSUME NEW c \in Clients, HandleLogout(c) PROVE i \notin live'
  BY <1>2 DEF HandleLogout, OtherSessions
<1>3. CASE Tick \/ Sweep \/ Restart \/ TableAlone
  BY <1>3 DEF Tick, Sweep, Restart, TableAlone
<1> QED
  BY <1>1, <1>2, <1>3, TableSteps

(* What was logged out stays out.                                          *)
LEMMA LInvStep == LInv /\ [Next]_vars => LInv'
<1> SUFFICES ASSUME LInv, [Next]_vars PROVE LInv'
  OBVIOUS
<1>1. SInv'
  BY SInvStep DEF LInv
<1>2. None \notin live'
  <2>1. live' \subseteq 1..logins' /\ logins' \in 0..MaxLogins
    BY <1>1 DEF SInv, Types, Given
  <2>2. live' \subseteq Ids
    BY <2>1, SessionAssumption DEF Ids
  <2> QED
    BY <2>2, SessionAssumption
<1>3. AnsweredGone'
  <2> SUFFICES ASSUME NEW c \in Clients, IsAt(auth'[c], "logout", "ok")
               PROVE  auth'[c].id \notin live'
    BY DEF AnsweredGone, IsAt
  <2>1. CASE HandleLogout(c)
    <3>1. auth'[c].id = auth[c].id
      BY <2>1 DEF HandleLogout, AuthStage, LInv, SInv, Types, RequestType
    <3> QED
      BY <2>1, <3>1 DEF HandleLogout, OtherSessions
  <2>2. CASE IsAt(auth[c], "logout", "ok") /\ auth'[c].id = auth[c].id
    <3>1. auth[c].id \notin live /\ auth[c].id \in Given \cup {None}
      BY <2>2 DEF LInv, AnsweredGone, SInv, Types, RequestType
    <3> QED
      BY <2>2, <3>1, <1>2, LiveSteps DEF LInv
  <2> QED
    BY <2>1, <2>2, LogoutAnswers DEF LInv
<1>4. LoggedOutIsGone'
  <2> SUFFICES ASSUME NEW i \in left' PROVE i \notin live'
    BY Zenon DEF LoggedOutIsGone
  <2>1. i \in left \/ \E c \in Clients : IsAt(auth[c], "logout", "ok") /\ i = auth[c].id
    BY Zenon DEF Next, BrowserLogin, CliLogin, Login, KeepCookie, ShowLogin, ShowRefusal,
           BrowserLogout, ShowLogout, CliLogout, LoseAuth, Reload, ExpireCookie,
           HandleLogin, RefuseLogin, HandleLogout, BrowserRequest, CliRequest,
           SendRequest, RequireSession, RefuseRequest, EndRequest, Tick, Sweep,
           Restart, vars
  <2>2. i \in Given \cup {None} /\ i \notin live
    BY <2>1 DEF LInv, SInv, Types, LoggedOutIsGone, AnsweredGone, RequestType
  <2> QED
    BY <2>2, <1>2, LiveSteps DEF LInv
<1> QED
  BY <1>1, <1>3, <1>4 DEF LInv

(* When a browser has the answer to its logout, the session is gone for    *)
(* good: no login, restart or late request brings it back.                 *)
THEOREM LoggedOutIsGoneCorrect == Spec => []LoggedOutIsGone
<1>1. Init => LInv
  BY SInvInit DEF Init, LInv, LoggedOutIsGone, AnsweredGone, NoRequest, IsAt
<1>2. LInv => LoggedOutIsGone
  BY DEF LInv
<1> QED
  BY <1>1, <1>2, LInvStep, PTL DEF Spec

-----------------------------------------------------------------------------
(* Ages.                                                                   *)

(* The last sweep left no session over its lifetime, and none has grown    *)
(* older since than the time that has passed.                              *)
Ages ==
    /\ \A i \in live : age[i] <= Lifetime + sinceSweep
    /\ \A i \in Ids : i > logins => age[i] = 0

EInv == SInv /\ Ages

(* Time and the sweeper keep the bound on the ages.                        *)
LEMMA EInvStep == EInv /\ [Next]_vars => EInv'
<1> SUFFICES ASSUME EInv, [Next]_vars PROVE EInv'
  OBVIOUS
<1>1. SInv'
  BY SInvStep DEF EInv
<1>2. Types /\ Types' /\ live \subseteq Ids /\ live' \subseteq Ids
  <2>1. Types /\ Types'
    BY <1>1 DEF EInv, SInv
  <2>2. live \subseteq Given /\ live' \subseteq Given'
    BY <2>1 DEF Types
  <2>3. logins \in 0..MaxLogins /\ logins' \in 0..MaxLogins
    BY <2>1 DEF Types
  <2>4. Given \subseteq Ids /\ Given' \subseteq Ids
    BY <2>3, SessionAssumption DEF Given, Ids
  <2> QED
    BY ONLY <2>1, <2>2, <2>4
<1> USE SessionAssumption DEF EInv, Ages, Types
<1>3. ASSUME NEW c \in Clients, HandleLogin(c) PROVE Ages'
  <2>1. logins' = logins + 1 /\ age' = age /\ sinceSweep' = sinceSweep
    BY <1>3 DEF HandleLogin, rest
  <2>2. live' = live \cup {logins + 1}
    BY <1>3 DEF HandleLogin, NewSession
  <2>3. logins + 1 \in Ids /\ age[logins + 1] = 0
    BY <1>2, <2>2 DEF Ids
  <2> QED
    BY <1>2, <2>1, <2>2, <2>3 DEF Ids
<1>4. ASSUME NEW c \in Clients, HandleLogout(c) PROVE Ages'
  BY <1>4 DEF HandleLogout, OtherSessions, rest
<1>5. ASSUME Tick PROVE Ages'
  <2>1. live' = live /\ logins' = logins /\ sinceSweep' = sinceSweep + 1
    BY <1>5 DEF Tick
  <2>2. \A i \in live : age'[i] = age[i] + 1
    BY <1>2, <1>5 DEF Tick
  <2>3. \A i \in Ids : i > logins => i \notin live
    BY <1>2 DEF Given, Ids
  <2>4. \A i \in Ids : i > logins => age'[i] = age[i]
    BY <1>2, <1>5, <2>3 DEF Tick, Ids
  <2>5. \A i \in live : age[i] \in Nat
    BY <1>2
  <2> QED
    BY <1>2, <2>1, <2>2, <2>4, <2>5
<1>6. ASSUME Sweep PROVE Ages'
  <2>1. live' \subseteq live /\ age' = age /\ logins' = logins /\ sinceSweep' = 0
    BY <1>6 DEF Sweep
  <2>2. \A i \in live' : ~(age[i] > Lifetime)
    BY <1>6 DEF Sweep, Expired
  <2>3. \A i \in live' : age[i] \in Nat
    BY <1>2
  <2> QED
    BY <2>1, <2>2, <2>3
<1>7. ASSUME Restart PROVE Ages'
  BY <1>7 DEF Restart
<1>8. ASSUME TableAlone PROVE Ages'
  BY <1>8 DEF TableAlone
<1> QED
  BY <1>1, <1>3, <1>4, <1>5, <1>6, <1>7, <1>8, TableSteps

(* A session that nobody ends lives on for the time between two sweeps     *)
(* after its lifetime at the most.                                         *)
THEOREM SessionsEndCorrect == Spec => []SessionsEnd
<1>1. Init => EInv
  BY SInvInit DEF Init, EInv, Ages
<1>2. EInv => SessionsEnd
  <2> SUFFICES ASSUME EInv, NEW i \in live PROVE age[i] <= Lifetime + SweepEvery
    BY DEF SessionsEnd
  <2>1. age[i] \in Nat /\ sinceSweep <= SweepEvery /\ sinceSweep \in Nat
    BY SessionAssumption DEF EInv, SInv, Types, Given, Ids
  <2>2. age[i] <= Lifetime + sinceSweep
    BY DEF EInv, Ages
  <2> QED
    BY <2>1, <2>2, SessionAssumption
<1> QED
  BY <1>1, <1>2, EInvStep, PTL DEF Spec
=============================================================================
