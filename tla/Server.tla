------------------------------- MODULE Server -------------------------------
(***************************************************************************)
(* The process of main.go around Sessions: it starts, with five attempts to *)
(* reach the database, serves, and can die at any time, taking every        *)
(* request and connection with it.  It decides who may act.  Most routes    *)
(* ask AuthMiddleware for a JWT once, before the handler runs, and          *)
(* HandleWebSocket once, before the connection opens.  A JWT is valid until *)
(* its time has come, whatever becomes of the refresh token it came with.   *)
(*                                                                          *)
(* A JWT bears the name of the request that issued it, like the refresh     *)
(* token; Calls are what a JWT lets run, one after the other: requests to   *)
(* protected routes other than logout, and connections.  The key that signs *)
(* JWTs is the same after a restart: the environment's, or the constant of  *)
(* getJWTSecret.  What the handlers and the chat do is in other modules.    *)
(***************************************************************************)
EXTENDS Sessions, Naturals

CONSTANTS
  Calls,        \* requests to protected routes, and connections
  MaxAttempts   \* attempts to connect to the database; 5 in database.go

ASSUME ServerAssumption == MaxAttempts \in Nat \ {0}

VARIABLES
  server,    \* what main is doing
  attempts,  \* failed attempts to connect
  lapsed,    \* JWTs whose exp has passed
  bearer     \* the JWT by which a call is under way, or NoToken

serverVars == <<server, attempts, lapsed, bearer>>
allVars == <<vars, serverVars>>

ServerTypeOK ==
  /\ TypeOK
  /\ server \in {"down", "connecting", "migrating", "serving"}
  /\ attempts \in 0..MaxAttempts - 1
  /\ lapsed \in SUBSET Requests
  /\ bearer \in [Calls -> Requests \cup {NoToken}]

ServerInit ==
  /\ Init
  /\ server = "down"
  /\ attempts = 0
  /\ lapsed = {}
  /\ bearer = [k \in Calls |-> NoToken]

\* ValidateToken: a JWT this server has signed, before its exp.
Valid(j) == result[j] = "granted" /\ j \notin lapsed

-----------------------------------------------------------------------------
(***************************************************************************)
(* Plausible bugs: wrong versions of definitions below that no action uses. *)
(***************************************************************************)

\* Logout takes the user from the request instead of the JWT.
LogoutAsAnybody(r, j) ==
  /\ Valid(j)
  /\ pc[r] = "idle"
  /\ given' = [given EXCEPT ![r] = j]
  /\ \E u \in Users : user' = [user EXCEPT ![r] = u]
  /\ GoTo(r, "logout")
  /\ UNCHANGED <<accounts, rows, expired, history>>

\* Connect counts attempts it does not limit.
ConnectForever ==
  /\ server = "connecting"
  /\ \/ server' = "migrating" /\ UNCHANGED attempts
     \/ attempts' = attempts + 1 /\ attempts < MaxAttempts /\ UNCHANGED server
  /\ UNCHANGED <<vars, lapsed, bearer>>

-----------------------------------------------------------------------------
(***************************************************************************)
(* The process                                                              *)
(***************************************************************************)

\* config.Load; without a JWT_SECRET it refuses to start in production.
Start ==
  /\ server = "down"
  /\ server' = "connecting"
  /\ UNCHANGED <<vars, attempts, lapsed, bearer>>

\* One attempt of database.Connect; after the last one the process ends.
Connect ==
  /\ server = "connecting"
  /\ \/ server' = "migrating" /\ attempts' = 0
     \/ attempts + 1 < MaxAttempts /\ attempts' = attempts + 1 /\ UNCHANGED server
     \/ attempts + 1 = MaxAttempts /\ attempts' = 0 /\ server' = "down"
  /\ UNCHANGED <<vars, lapsed, bearer>>

\* AutoMigrate, and everything that main sets up before it serves.
Migrate ==
  /\ server = "migrating"
  /\ server' \in {"serving", "down"}
  /\ UNCHANGED <<vars, attempts, lapsed, bearer>>

\* The process ends with all that is under way; tables and JWTs outlive it.
Die ==
  /\ server = "serving"
  /\ server' = "down"
  /\ bearer' = [k \in Calls |-> NoToken]
  /\ \/ Crash
     \/ (\A r \in Requests : pc[r] \notin Statements) /\ UNCHANGED vars
  /\ UNCHANGED <<attempts, lapsed>>

-----------------------------------------------------------------------------
(***************************************************************************)
(* JWTs                                                                     *)
(***************************************************************************)

\* The exp that GenerateToken has put in the JWT passes.
Lapse(j) ==
  /\ result[j] = "granted" /\ j \notin lapsed
  /\ lapsed' = lapsed \cup {j}
  /\ UNCHANGED <<vars, server, attempts, bearer>>

\* AuthMiddleware, or HandleWebSocket with the JWT of its query, lets a call in;
\* the answer 401 to any other changes nothing.
Authorize(k, j) ==
  /\ bearer[k] = NoToken
  /\ Valid(j)
  /\ bearer' = [bearer EXCEPT ![k] = j]
  /\ UNCHANGED <<vars, server, attempts, lapsed>>

\* The handler has acted as the user of the JWT, or the connection ends.
End(k) ==
  /\ bearer[k] # NoToken
  /\ bearer' = [bearer EXCEPT ![k] = NoToken]
  /\ UNCHANGED <<vars, server, attempts, lapsed>>

\* The route of logout is a protected one.
LogoutWith(r, j) ==
  /\ Valid(j)
  /\ Logout(r, j)

-----------------------------------------------------------------------------
\* The requests to /auth, and the hourly cleanup.
Auth ==
  /\ \/ \E r \in Requests :
          \/ \E u \in Users : Register(r, u) \/ Login(r, u)
          \/ \E j \in Requests : LogoutWith(r, j)
          \/ \E t \in Requests : Refresh(r, t)
          \/ Step(r)
     \/ DeleteExpired
  /\ UNCHANGED serverVars

Serving ==
  /\ server = "serving"
  /\ \/ Auth
     \/ \E k \in Calls : End(k) \/ \E j \in Requests : Authorize(k, j)

ServerNext ==
  \/ Start \/ Connect \/ Migrate \/ Die
  \/ Serving
  \/ \E j \in Requests : Lapse(j)
  \/ (\E t \in Requests : Expire(t)) /\ UNCHANGED serverVars

ServerSpec == ServerInit /\ [][ServerNext]_allVars

-----------------------------------------------------------------------------
(***************************************************************************)
(* Properties                                                               *)
(***************************************************************************)

\* Nobody ends the session of another user.  A refresh token that has not expired
\* loses its row only by a request of its own user: one that presents a refresh
\* token or JWT that was handed out to this user, be it an old one, or a login or
\* registration that has got past the check of the password.
SessionsEndByTheirUser ==
  [][\A t \in (rows \ rows') \ expired :
       \E r \in Requests :
         /\ pc'[r] # pc[r]
         /\ \/ given[r] = NoToken /\ pc[r] = "wipe" /\ user[r] = user[t]
            \/ given[r] # NoToken /\ result[given[r]] = "granted" /\ user[given[r]] = user[t]]_allVars

\* Whether somebody can still act as u without the password of u: with a refresh
\* token or JWT he has, over a connection, or in a request that is under way.
CanAct(u) ==
  \/ \E t \in rows \ expired : result[t] = "granted" /\ user[t] = u
  \/ \E j \in Requests : Valid(j) /\ user[j] = u
  \/ \E k \in Calls : bearer[k] # NoToken /\ user[bearer[k]] = u
  \/ \E r \in Requests : pc[r] \in {"delete", "owner", "wipe", "create"} /\ user[r] = u

\* A request of u passes the check of his password, or creates his account.
LoggedIn(u) ==
  \E r \in Requests : pc[r] \in {"password", "insert"} /\ user[r] = u /\ pc'[r] = "wipe"

\* README, "Logout: revoke all refresh tokens", with what README leaves open: once
\* a user's refresh tokens are revoked or have expired, his JWTs have lapsed and
\* his connections are closed, nothing that was handed out before acts for him
\* again, through no restart and no race: only his password does, or a new account.
BackOnlyByPassword ==
  [][\A u \in Users : ~CanAct(u) /\ CanAct(u)' => LoggedIn(u)]_allVars
=============================================================================
