------------------------------ MODULE Sessions ------------------------------
(***************************************************************************)
(* Accounts and refresh tokens: the requests of internal/services/          *)
(* auth_service.go against the tables users and refresh_tokens, one step    *)
(* per SQL statement that commits.  FindByTokenHashAndDelete runs two       *)
(* statements in a transaction of PostgreSQL's default level, read          *)
(* committed, with no lock and no look at the rows affected, so its find    *)
(* and its delete are two steps.  Requests run concurrently, any statement  *)
(* can fail, the server can die, and the clock can run out for a token at   *)
(* any time.                                                                *)
(*                                                                          *)
(* A request issues at most one token, so a token bears the name of the     *)
(* request that issued it.  Hashing and passwords are left out, and the JWT *)
(* that accompanies a refresh token is in Server; an account stands for its *)
(* email and name.                                                          *)
(***************************************************************************)
EXTENDS FiniteSets

CONSTANTS
  Users,      \* the people: an email and a username each
  Requests,   \* the requests to /auth
  Nobody,     \* no user
  NoToken     \* no token

ASSUME SessionsAssumption ==
  /\ Nobody \notin Users
  /\ NoToken \notin Requests

VARIABLES
  accounts,   \* table users
  rows,       \* table refresh_tokens: the tokens that have a row
  expired,    \* tokens whose expires_at has passed
  pc,         \* the statement a request is about to run
  user,       \* the user a request is about
  given,      \* the token a refresh presents, or the token that came with the JWT of
              \* a logout
  result,     \* the answer of a request
  redeemed,   \* history: redeemed[t] are the requests that got past the delete of t
  created,    \* history: created[u] are the requests that inserted an account of u
  raced,      \* history: tokens found by one request between another's find and delete
  disturbed,  \* history: users with a failed wipe, or one amid another's issue, since
              \* all their tokens were deleted and no issue was under way
  over        \* history: over[u] are the requests that had ended when u last logged out

vars == <<accounts, rows, expired, pc, user, given, result, redeemed, created,
          raced, disturbed, over>>

Statements == {"taken", "insert", "password", "find", "delete", "any", "revoke",
               "owner", "wipe", "create", "logout"}

TypeOK ==
  /\ accounts \in SUBSET Users
  /\ rows \in SUBSET Requests
  /\ expired \in SUBSET Requests
  /\ pc \in [Requests -> Statements \cup {"idle", "done"}]
  /\ user \in [Requests -> Users \cup {Nobody}]
  /\ given \in [Requests -> Requests \cup {NoToken}]
  /\ result \in [Requests -> {"none", "granted", "ended", "denied", "invalid",
                              "reuse", "error"}]
  /\ redeemed \in [Requests -> SUBSET Requests]
  /\ created \in [Users -> SUBSET Requests]
  /\ raced \in SUBSET Requests
  /\ disturbed \in SUBSET Users
  /\ over \in [Users -> SUBSET Requests]

Init ==
  /\ accounts = {}
  /\ rows = {}
  /\ expired = {}
  /\ pc = [r \in Requests |-> "idle"]
  /\ user = [r \in Requests |-> Nobody]
  /\ given = [r \in Requests |-> NoToken]
  /\ result = [r \in Requests |-> "none"]
  /\ redeemed = [t \in Requests |-> {}]
  /\ created = [u \in Users |-> {}]
  /\ raced = {}
  /\ disturbed = {}
  /\ over = [u \in Users |-> {}]

-----------------------------------------------------------------------------
(***************************************************************************)
(* Plausible bugs: wrong versions of definitions below that no action uses. *)
(***************************************************************************)

\* Old tokens are deleted for nobody.
WithoutTokensOfNone(u) == rows

\* Refresh does not delete the token it redeems.
DeleteKeepingRow(r) ==
  /\ pc[r] = "delete"
  /\ redeemed' = [redeemed EXCEPT ![given[r]] = @ \cup {r}]
  /\ pc' = [pc EXCEPT ![r] = "owner"]
  /\ UNCHANGED <<accounts, rows, expired, user, given, result, created, raced,
                 disturbed, over>>

\* FindByTokenHashAndDelete does not look at expires_at.
FindTokenExpired(r) ==
  /\ pc[r] = "find"
  /\ given[r] \in rows
  /\ user' = [user EXCEPT ![r] = user[given[r]]]
  /\ pc' = [pc EXCEPT ![r] = "delete"]
  /\ UNCHANGED <<accounts, rows, expired, given, result, redeemed, created, raced,
                 disturbed, over>>

\* Refresh takes every error of FindByTokenHashAndDelete for ErrRecordNotFound.
FindTokenOrFail(r) ==
  /\ pc[r] = "find"
  /\ \/ /\ given[r] \in rows \ expired
        /\ user' = [user EXCEPT ![r] = user[given[r]]]
        /\ pc' = [pc EXCEPT ![r] = "delete"]
     \/ /\ pc' = [pc EXCEPT ![r] = "any"]
        /\ UNCHANGED user
  /\ UNCHANGED <<accounts, rows, expired, given, result, redeemed, created, raced,
                 disturbed, over>>

\* users has no unique index.
UnusedNever(u) == TRUE

-----------------------------------------------------------------------------
TokensOf(u) == {t \in rows : user[t] = u}

history == <<redeemed, created, raced, disturbed, over>>

\* Another request of the user of r is between its DELETE and its INSERT.
Rival(r) == \E q \in Requests \ {r} : pc[q] = "create" /\ user[q] = user[r]

\* Who is disturbed after the tokens of the user of r were all deleted.
Calmed(r) == IF Rival(r) THEN disturbed ELSE disturbed \ {user[r]}

GoTo(r, statement) ==
  /\ pc' = [pc EXCEPT ![r] = statement]
  /\ UNCHANGED result

Answer(r, res) ==
  /\ pc' = [pc EXCEPT ![r] = "done"]
  /\ result' = [result EXCEPT ![r] = res]

-----------------------------------------------------------------------------
(***************************************************************************)
(* Register                                                                 *)
(***************************************************************************)

\* DELETE ... WHERE user_id = u leaves these.
WithoutTokensOf(u) == rows \ TokensOf(u)

\* The unique indexes of users let an account of u in.
Unused(u) == u \notin accounts

Register(r, u) ==
  /\ pc[r] = "idle"
  /\ user' = [user EXCEPT ![r] = u]
  /\ GoTo(r, "taken")
  /\ UNCHANGED <<accounts, rows, expired, given, history>>

\* FindByEmail and FindByUsername: an account that exists is refused.
CheckTaken(r) ==
  /\ pc[r] = "taken"
  /\ \/ user[r] \in accounts /\ Answer(r, "denied")
     \/ user[r] \notin accounts /\ GoTo(r, "insert")
  /\ UNCHANGED <<accounts, rows, expired, user, given, history>>

\* Create: the row is inserted, or a unique index refuses it.  Here and below, a
\* statement that has committed is an error to the request when the database's
\* answer gets lost.
InsertAccount(r) ==
  /\ pc[r] = "insert"
  /\ \/ /\ Unused(user[r])
        /\ accounts' = accounts \cup {user[r]}
        /\ created' = [created EXCEPT ![user[r]] = @ \cup {r}]
        /\ GoTo(r, "wipe") \/ Answer(r, "error")
     \/ /\ ~Unused(user[r])
        /\ Answer(r, "error")
        /\ UNCHANGED <<accounts, created>>
  /\ UNCHANGED <<rows, expired, user, given, redeemed, raced, disturbed, over>>

-----------------------------------------------------------------------------
(***************************************************************************)
(* Login and Logout                                                         *)
(***************************************************************************)

Login(r, u) ==
  /\ pc[r] = "idle"
  /\ user' = [user EXCEPT ![r] = u]
  /\ GoTo(r, "password")
  /\ UNCHANGED <<accounts, rows, expired, given, history>>

\* FindByEmail and the comparison of the passwords.
CheckPassword(r) ==
  /\ pc[r] = "password"
  /\ \/ user[r] \in accounts /\ GoTo(r, "wipe")
     \/ Answer(r, "denied")
  /\ UNCHANGED <<accounts, rows, expired, user, given, history>>

\* A logout carries a JWT, which an earlier grant came with, and is one of its user.
Logout(r, j) ==
  /\ pc[r] = "idle"
  /\ result[j] = "granted"
  /\ given' = [given EXCEPT ![r] = j]
  /\ user' = [user EXCEPT ![r] = user[j]]
  /\ GoTo(r, "logout")
  /\ UNCHANGED <<accounts, rows, expired, history>>

DeleteForLogout(r) ==
  /\ pc[r] = "logout"
  /\ rows' = WithoutTokensOf(user[r])
  /\ over' = [over EXCEPT ![user[r]] = {q \in Requests : pc[q] = "done"}]
  /\ disturbed' = Calmed(r)
  /\ \E res \in {"ended", "error"} : Answer(r, res)
  /\ UNCHANGED <<accounts, expired, user, given, redeemed, created, raced>>

-----------------------------------------------------------------------------
(***************************************************************************)
(* Refresh                                                                  *)
(***************************************************************************)

\* A token that was handed out is presented, for the first time or again.
Refresh(r, t) ==
  /\ pc[r] = "idle"
  /\ result[t] = "granted"
  /\ given' = [given EXCEPT ![r] = t]
  /\ GoTo(r, "find")
  /\ UNCHANGED <<accounts, rows, expired, user, history>>

\* FindByTokenHashAndDelete, SELECT ... WHERE token_hash = ? AND expires_at > ?
FindToken(r) ==
  /\ pc[r] = "find"
  /\ \/ /\ given[r] \in rows \ expired
        /\ user' = [user EXCEPT ![r] = user[given[r]]]
        /\ raced' = IF \E q \in Requests : pc[q] = "delete" /\ given[q] = given[r]
                    THEN raced \cup {given[r]} ELSE raced
        /\ GoTo(r, "delete")
     \/ /\ given[r] \notin rows \ expired
        /\ GoTo(r, "any")
        /\ UNCHANGED <<user, raced>>
  /\ UNCHANGED <<accounts, rows, expired, given, redeemed, created, disturbed,
                 over>>

\* FindByTokenHashAndDelete, DELETE ... WHERE id = ?; nobody asks whether there
\* still was such a row.
DeleteToken(r) ==
  /\ pc[r] = "delete"
  /\ rows' = rows \ {given[r]}
  /\ redeemed' = [redeemed EXCEPT ![given[r]] = @ \cup {r}]
  /\ GoTo(r, "owner") \/ Answer(r, "error")
  /\ UNCHANGED <<accounts, expired, user, given, created, raced, disturbed, over>>

\* FindExpiredByHash: a row that is still there means reuse.
FindAny(r) ==
  /\ pc[r] = "any"
  /\ \/ /\ given[r] \in rows
        /\ user' = [user EXCEPT ![r] = user[given[r]]]
        /\ GoTo(r, "revoke")
     \/ /\ given[r] \notin rows
        /\ Answer(r, "invalid")
        /\ UNCHANGED user
  /\ UNCHANGED <<accounts, rows, expired, given, history>>

Revoke(r) ==
  /\ pc[r] = "revoke"
  /\ rows' = WithoutTokensOf(user[r])
  /\ disturbed' = Calmed(r)
  /\ Answer(r, "reuse")
  /\ UNCHANGED <<accounts, expired, user, given, redeemed, created, raced, over>>

\* FindByID, of the user of the redeemed token.
FindOwner(r) ==
  /\ pc[r] = "owner"
  /\ GoTo(r, "wipe")
  /\ UNCHANGED <<accounts, rows, expired, user, given, history>>

-----------------------------------------------------------------------------
(***************************************************************************)
(* issueTokens: DELETE the user's tokens, then INSERT one, in no            *)
(* transaction                                                              *)
(***************************************************************************)

WipeTokens(r) ==
  /\ pc[r] = "wipe"
  /\ rows' = WithoutTokensOf(user[r])
  /\ disturbed' = IF Rival(r) THEN disturbed \cup {user[r]} ELSE Calmed(r)
  /\ GoTo(r, "create")
  /\ UNCHANGED <<accounts, expired, user, given, redeemed, created, raced, over>>

\* The INSERT; the answer with the token can get lost.
CreateToken(r) ==
  /\ pc[r] = "create"
  /\ rows' = rows \cup {r}
  /\ \E res \in {"granted", "error"} : Answer(r, res)
  /\ UNCHANGED <<accounts, expired, user, given, history>>

-----------------------------------------------------------------------------
(***************************************************************************)
(* Failures, crashes, time and the hourly cleanup of main.go                *)
(***************************************************************************)

\* A statement fails, and the request with it.
StatementFails(r) ==
  /\ pc[r] \in Statements \ {"any", "revoke", "wipe"}
  /\ Answer(r, "error")
  /\ UNCHANGED <<accounts, rows, expired, user, given, history>>

\* FindExpiredByHash fails like a token that is not there, and the errors of
\* DeleteByUserID are ignored by Refresh and by issueTokens.
FindAnyFails(r) ==
  /\ pc[r] = "any"
  /\ Answer(r, "invalid")
  /\ UNCHANGED <<accounts, rows, expired, user, given, history>>

RevokeFails(r) ==
  /\ pc[r] = "revoke"
  /\ Answer(r, "reuse")
  /\ UNCHANGED <<accounts, rows, expired, user, given, history>>

WipeFails(r) ==
  /\ pc[r] = "wipe"
  /\ disturbed' = disturbed \cup {user[r]}
  /\ GoTo(r, "create")
  /\ UNCHANGED <<accounts, rows, expired, user, given, redeemed, created, raced, over>>

\* The server ends: no request in flight is taken up again, or answered.
Crash ==
  /\ \E r \in Requests : pc[r] \in Statements
  /\ pc' = [r \in Requests |-> IF pc[r] \in Statements THEN "done" ELSE pc[r]]
  /\ result' = [r \in Requests |-> IF pc[r] \in Statements THEN "error" ELSE result[r]]
  /\ UNCHANGED <<accounts, rows, expired, user, given, history>>

Expire(t) ==
  /\ t \in rows \ expired
  /\ expired' = expired \cup {t}
  /\ UNCHANGED <<accounts, rows, pc, user, given, result, history>>

DeleteExpired ==
  /\ rows' = rows \ expired
  /\ UNCHANGED <<accounts, expired, pc, user, given, result, history>>

-----------------------------------------------------------------------------
Step(r) ==
  \/ CheckTaken(r) \/ InsertAccount(r)
  \/ CheckPassword(r) \/ DeleteForLogout(r)
  \/ FindToken(r) \/ DeleteToken(r) \/ FindAny(r) \/ Revoke(r) \/ FindOwner(r)
  \/ WipeTokens(r) \/ CreateToken(r)
  \/ StatementFails(r) \/ FindAnyFails(r) \/ RevokeFails(r) \/ WipeFails(r)

Next ==
  \/ \E r \in Requests :
       \/ \E u \in Users : Register(r, u) \/ Login(r, u)
       \/ \E t \in Requests : Refresh(r, t) \/ Logout(r, t)
       \/ Step(r)
  \/ Crash
  \/ \E t \in Requests : Expire(t)
  \/ DeleteExpired

Spec == Init /\ [][Next]_vars

-----------------------------------------------------------------------------
(***************************************************************************)
(* Properties                                                               *)
(***************************************************************************)

\* A token is redeemed twice only if a second refresh found it before the first
\* had deleted it: a replay that comes later never succeeds.
RedeemedTwiceOnlyInRace ==
  \A t \in Requests \ raced : \A q, r \in redeemed[t] : q = r

\* issueTokens keeps one session per user: two live refresh tokens of a user
\* mean that a wipe failed, or two requests issued tokens at the same time.  The
\* next login, refresh, logout or revocation whose deletion succeeds, while no
\* token is being issued to the user, puts it right.
OneSessionUnlessDisturbed ==
  \A u \in Users \ disturbed : \A s, t \in TokensOf(u) : s = t

\* However many registrations run at once, an account is created once.
AccountCreatedOnce == \A u \in Users : \A q, r \in created[u] : q = r

\* README, "Logout: revoke all refresh tokens": a token that outlives a logout
\* belongs to a request that was in flight then, or began later.
LogoutEndsSessions == \A u \in Users : TokensOf(u) \cap over[u] = {}

\* README, "reuse detection revokes all sessions": what is taken for reuse is a
\* token that has expired and still has its row.  No client is logged out for
\* presenting a live one, whatever fails, races with him or replaces the token
\* between the two lookups of his refresh.
ReuseMeansExpired ==
  \A r \in Requests : pc[r] = "revoke" \/ result[r] = "reuse" => given[r] \in expired

\* README, "reuse detection revokes all sessions": a refresh that presents a
\* token another refresh has redeemed before is not answered as if the token
\* had never existed.
ReplayIsReuse ==
  \A r \in Requests : pc[r] = "any" /\ given[r] \notin rows => redeemed[given[r]] = {}
=============================================================================
