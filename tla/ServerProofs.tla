---------------------------- MODULE ServerProofs ----------------------------
(***************************************************************************)
(* For every set of users, requests and calls: the promises of Sessions     *)
(* that concurrent requests keep, of Sessions and of the server around it;  *)
(* nobody ends the session of another user; and who can no longer act comes *)
(* back only by a password.                                                 *)
(*                                                                          *)
(* The invariant IInv adds to the promises what a request in flight relies  *)
(* on.  A request about to delete the token it has found is the only one to *)
(* do so, and nobody has redeemed the token, unless the token is in raced;  *)
(* one about to insert a token finds its user without one, and is alone,    *)
(* unless the user is in disturbed; one that was granted a token has ended. *)
(* Six actions matter to this; the others are Calm.  A request that did not *)
(* find its token live never will: the token is dead, or has expired.       *)
(*                                                                          *)
(* The argument on passwords: only five actions hand out something to act   *)
(* with, and two of them are logins.  The other three hand it to somebody   *)
(* who can act already: FindToken because the token it finds is live,       *)
(* CreateToken because the request that runs it got there by a password or  *)
(* a token, and Authorize because the JWT is valid.                         *)
(***************************************************************************)
EXTENDS Server, TLAPS

\* The requests past their first statement, and those that own a row, have a user.
Typed ==
  /\ TypeOK
  /\ \A r \in Requests :
       pc[r] \in Statements \ {"find", "any"} \/ r \in rows => user[r] \in Users

\* Only requests that have ended own a row or a redeemed token, or have an
\* answer; only tokens that were granted, to a user, are presented.  Those that
\* had ended when a user logged out own no row of the user.
Ended ==
  /\ \A t \in Requests : t \in rows \/ redeemed[t] # {} \/ result[t] # "none" => pc[t] = "done"
  /\ \A t \in Requests : result[t] = "granted" => user[t] \in Users
  /\ \A r \in Requests :
       pc[r] \in {"find", "delete", "any"} =>
         given[r] \in Requests /\ pc[given[r]] = "done" /\ result[given[r]] = "granted"
  /\ \A u \in Users : \A q \in over[u] : pc[q] = "done" /\ (q \in rows => user[q] # u)

\* A request about to delete a token is the only one, and the first.
OneRedeemer ==
  \A t \in Requests \ raced : \A q \in Requests :
    pc[q] = "delete" /\ given[q] = t =>
      /\ redeemed[t] = {}
      /\ \A r \in Requests : pc[r] = "delete" /\ given[r] = t => r = q

\* A request about to insert a token is the only one for its user, who has none.
OneIssuer ==
  \A u \in Users \ disturbed : \A q \in Requests :
    pc[q] = "create" /\ user[q] = u =>
      /\ TokensOf(u) = {}
      /\ \A r \in Requests : pc[r] = "create" /\ user[r] = u => r = q

\* Only accounts that exist were created.
Recorded == \A u \in Users : created[u] # {} => u \in accounts

\* A request that looks for any token with its hash has one that is not live.
Looking == \A r \in Requests : pc[r] = "any" => given[r] \notin rows \ expired

\* A token that some refresh has redeemed has no row any more.
RedeemedTokensAreDead == \A t \in Requests : redeemed[t] # {} => t \notin rows

\* A request that presents a token, or the JWT that came with it, presents one that
\* was handed out, and is about its user; one that presents a password or creates
\* an account has none.
Presenting ==
  \A r \in Requests :
    /\ pc[r] \in {"idle", "taken", "insert", "password"} => given[r] = NoToken
    /\ pc[r] \in {"find", "delete", "any", "revoke", "logout"} => given[r] # NoToken
    /\ given[r] # NoToken => /\ pc[given[r]] = "done" /\ result[given[r]] = "granted"
                             /\ pc[r] \in {"delete", "revoke", "logout", "owner", "wipe"}
                                  => user[r] = user[given[r]]

Suspecting == Looking /\ ReuseMeansExpired
Redeeming == RedeemedTokensAreDead /\ RedeemedTwiceOnlyInRace /\ OneRedeemer
Issuing == OneSessionUnlessDisturbed /\ OneIssuer
Creating == AccountCreatedOnce /\ Recorded

IInv == Typed /\ Ended /\ Presenting /\ Redeeming /\ Issuing /\ Creating /\ Suspecting

-----------------------------------------------------------------------------
LEMMA TypedStep ==
  ASSUME Typed, Ended, [Next]_vars
  PROVE  Typed'
<1> USE DEF Typed, TypeOK, Statements
<1>1. ASSUME NEW r \in Requests, NEW u \in Users, Register(r, u) PROVE Typed'
  BY <1>1 DEF Register, GoTo, history
<1>2. ASSUME NEW r \in Requests, CheckTaken(r) PROVE Typed'
  BY <1>2 DEF CheckTaken, GoTo, Answer, history
<1>3. ASSUME NEW r \in Requests, InsertAccount(r) PROVE Typed'
  BY <1>3 DEF InsertAccount, GoTo, Answer, Unused
<1>4. ASSUME NEW r \in Requests, NEW u \in Users, Login(r, u) PROVE Typed'
  BY <1>4 DEF Login, GoTo, history
<1>5. ASSUME NEW r \in Requests, CheckPassword(r) PROVE Typed'
  BY <1>5 DEF CheckPassword, GoTo, Answer, history
<1>6. ASSUME NEW r \in Requests, NEW j \in Requests, Logout(r, j) PROVE Typed'
  <2>1. user[j] \in Users
    BY <1>6 DEF Logout, Ended
  <2>2. QED
    BY <1>6, <2>1 DEF Logout, GoTo, history
<1>7. ASSUME NEW r \in Requests, DeleteForLogout(r) PROVE Typed'
  BY <1>7 DEF DeleteForLogout, Answer, WithoutTokensOf, TokensOf, Calmed, Rival
<1>8. ASSUME NEW r \in Requests, NEW t \in Requests, Refresh(r, t) PROVE Typed'
  BY <1>8 DEF Refresh, GoTo, history
<1>9. ASSUME NEW r \in Requests, FindToken(r) PROVE Typed'
  BY <1>9 DEF FindToken, GoTo
<1>10. ASSUME NEW r \in Requests, DeleteToken(r) PROVE Typed'
  <2>1. \/ pc' = [pc EXCEPT ![r] = "owner"] /\ UNCHANGED result
        \/ pc' = [pc EXCEPT ![r] = "done"] /\ result' = [result EXCEPT ![r] = "error"]
    BY <1>10 DEF DeleteToken, GoTo, Answer
  <2>2. /\ pc' \in [Requests -> Statements \cup {"idle", "done"}]
        /\ result' \in [Requests -> {"none", "granted", "ended", "denied", "invalid", "reuse", "error"}]
        /\ \A q \in Requests : pc'[q] \in Statements \ {"find", "any"} => pc[q] \in Statements \ {"find", "any"}
    BY <1>10, <2>1 DEF DeleteToken
  <2>3. QED
    BY <1>10, <2>2 DEF DeleteToken
<1>11. ASSUME NEW r \in Requests, FindAny(r) PROVE Typed'
  BY <1>11 DEF FindAny, GoTo, Answer, history
<1>12. ASSUME NEW r \in Requests, Revoke(r) PROVE Typed'
  BY <1>12 DEF Revoke, Answer, WithoutTokensOf, TokensOf, Calmed, Rival
<1>13. ASSUME NEW r \in Requests, FindOwner(r) PROVE Typed'
  BY <1>13 DEF FindOwner, GoTo, history
<1>14. ASSUME NEW r \in Requests, WipeTokens(r) PROVE Typed'
  BY <1>14 DEF WipeTokens, GoTo, WithoutTokensOf, TokensOf, Calmed, Rival
<1>15. ASSUME NEW r \in Requests, CreateToken(r) PROVE Typed'
  BY <1>15 DEF CreateToken, Answer, history
<1>16. ASSUME NEW r \in Requests, StatementFails(r) PROVE Typed'
  BY <1>16 DEF StatementFails, Answer, history
<1>17. ASSUME NEW r \in Requests, FindAnyFails(r) PROVE Typed'
  BY <1>17 DEF FindAnyFails, Answer, history
<1>18. ASSUME NEW r \in Requests, RevokeFails(r) PROVE Typed'
  BY <1>18 DEF RevokeFails, Answer, history
<1>19. ASSUME NEW r \in Requests, WipeFails(r) PROVE Typed'
  BY <1>19 DEF WipeFails, GoTo
<1>20. ASSUME NEW t \in Requests, Expire(t) PROVE Typed'
  BY <1>20 DEF Expire, history
<1>21. ASSUME DeleteExpired PROVE Typed'
  BY <1>21 DEF DeleteExpired, history
<1>22. ASSUME Crash PROVE Typed'
  BY <1>22 DEF Crash, Statements, history
<1>23. ASSUME UNCHANGED vars PROVE Typed'
  BY <1>23 DEF vars
<1>24. QED
  BY <1>1, <1>2, <1>3, <1>4, <1>5, <1>6, <1>7, <1>8, <1>9, <1>10, <1>11,
     <1>12, <1>13, <1>14, <1>15, <1>16, <1>17, <1>18, <1>19, <1>20, <1>21,
     <1>22, <1>23 DEF Next, Step

LEMMA EndedStep ==
  ASSUME Typed, Ended, [Next]_vars
  PROVE  Ended'
<1> USE DEF Typed, TypeOK, Ended
<1>1. ASSUME NEW r \in Requests, NEW u \in Users, Register(r, u) PROVE Ended'
  BY <1>1 DEF Register, GoTo, history
<1>2. ASSUME NEW r \in Requests, CheckTaken(r) PROVE Ended'
  BY <1>2 DEF CheckTaken, GoTo, Answer, history
<1>3. ASSUME NEW r \in Requests, InsertAccount(r) PROVE Ended'
  BY <1>3 DEF InsertAccount, GoTo, Answer, Unused
<1>4. ASSUME NEW r \in Requests, NEW u \in Users, Login(r, u) PROVE Ended'
  BY <1>4 DEF Login, GoTo, history
<1>5. ASSUME NEW r \in Requests, CheckPassword(r) PROVE Ended'
  BY <1>5 DEF CheckPassword, GoTo, Answer, history
<1>6. ASSUME NEW r \in Requests, NEW j \in Requests, Logout(r, j) PROVE Ended'
  BY <1>6 DEF Logout, GoTo, history
<1>7. ASSUME NEW r \in Requests, DeleteForLogout(r) PROVE Ended'
  BY <1>7 DEF DeleteForLogout, Answer, WithoutTokensOf, TokensOf, Calmed, Rival
<1>8. ASSUME NEW r \in Requests, NEW t \in Requests, Refresh(r, t) PROVE Ended'
  BY <1>8 DEF Refresh, GoTo, history
<1>9. ASSUME NEW r \in Requests, FindToken(r) PROVE Ended'
  BY <1>9 DEF FindToken, GoTo
<1>10. ASSUME NEW r \in Requests, DeleteToken(r) PROVE Ended'
  BY <1>10 DEF DeleteToken, GoTo, Answer
<1>11. ASSUME NEW r \in Requests, FindAny(r) PROVE Ended'
  BY <1>11 DEF FindAny, GoTo, Answer, history
<1>12. ASSUME NEW r \in Requests, Revoke(r) PROVE Ended'
  BY <1>12 DEF Revoke, Answer, WithoutTokensOf, TokensOf, Calmed, Rival
<1>13. ASSUME NEW r \in Requests, FindOwner(r) PROVE Ended'
  BY <1>13 DEF FindOwner, GoTo, history
<1>14. ASSUME NEW r \in Requests, WipeTokens(r) PROVE Ended'
  BY <1>14 DEF WipeTokens, GoTo, WithoutTokensOf, TokensOf, Calmed, Rival
<1>15. ASSUME NEW r \in Requests, CreateToken(r) PROVE Ended'
  <2>1. user[r] \in Users
    BY <1>15 DEF CreateToken, Statements
  <2>2. QED
    BY <1>15, <2>1 DEF CreateToken, Answer, history
<1>16. ASSUME NEW r \in Requests, StatementFails(r) PROVE Ended'
  BY <1>16 DEF StatementFails, Statements, Answer, history
<1>17. ASSUME NEW r \in Requests, FindAnyFails(r) PROVE Ended'
  BY <1>17 DEF FindAnyFails, Answer, history
<1>18. ASSUME NEW r \in Requests, RevokeFails(r) PROVE Ended'
  BY <1>18 DEF RevokeFails, Answer, history
<1>19. ASSUME NEW r \in Requests, WipeFails(r) PROVE Ended'
  BY <1>19 DEF WipeFails, GoTo
<1>20. ASSUME NEW t \in Requests, Expire(t) PROVE Ended'
  BY <1>20 DEF Expire, history
<1>21. ASSUME DeleteExpired PROVE Ended'
  BY <1>21 DEF DeleteExpired, history
<1>22. ASSUME Crash PROVE Ended'
  BY <1>22 DEF Crash, Statements, history
<1>23. ASSUME UNCHANGED vars PROVE Ended'
  BY <1>23 DEF vars
<1>24. QED
  BY <1>1, <1>2, <1>3, <1>4, <1>5, <1>6, <1>7, <1>8, <1>9, <1>10, <1>11,
     <1>12, <1>13, <1>14, <1>15, <1>16, <1>17, <1>18, <1>19, <1>20, <1>21,
     <1>22, <1>23 DEF Next, Step

-----------------------------------------------------------------------------
\* What a step does that neither creates an account nor finds, redeems, wipes
\* for or issues a token: rows only go, and nobody comes to a DELETE or INSERT.
Calm ==
  /\ UNCHANGED <<accounts, redeemed, created, raced>>
  /\ rows' \subseteq rows
  /\ \A u \in Users \ disturbed' :
       u \in disturbed => /\ \A t \in rows' : user'[t] # u
                         /\ \A r \in Requests : pc'[r] = "create" => user'[r] # u
  /\ \A t \in Requests : pc[t] = "done" => user'[t] = user[t]
  /\ \A r \in Requests :
       pc'[r] \in {"delete", "create"} =>
         pc[r] = pc'[r] /\ given'[r] = given[r] /\ user'[r] = user[r]

Lively(r) ==
  \/ InsertAccount(r) \/ FindToken(r) \/ DeleteToken(r)
  \/ WipeTokens(r) \/ WipeFails(r) \/ CreateToken(r)

LEMMA CalmOrLively ==
  ASSUME Typed, [Next]_vars
  PROVE  Calm \/ \E r \in Requests : Lively(r)
<1> USE DEF Typed, TypeOK, Calm
<1>1. ASSUME NEW r \in Requests, NEW u \in Users, Register(r, u) PROVE Calm
  BY <1>1 DEF Register, GoTo, history
<1>2. ASSUME NEW r \in Requests, CheckTaken(r) PROVE Calm
  BY <1>2 DEF CheckTaken, GoTo, Answer, history
<1>3. ASSUME NEW r \in Requests, NEW u \in Users, Login(r, u) PROVE Calm
  BY <1>3 DEF Login, GoTo, history
<1>4. ASSUME NEW r \in Requests, CheckPassword(r) PROVE Calm
  BY <1>4 DEF CheckPassword, GoTo, Answer, history
<1>5. ASSUME NEW r \in Requests, NEW j \in Requests, Logout(r, j) PROVE Calm
  BY <1>5 DEF Logout, GoTo, history
<1>6. ASSUME NEW r \in Requests, DeleteForLogout(r) PROVE Calm
  BY <1>6 DEF DeleteForLogout, Answer, WithoutTokensOf, TokensOf, Calmed, Rival
<1>7. ASSUME NEW r \in Requests, NEW t \in Requests, Refresh(r, t) PROVE Calm
  BY <1>7 DEF Refresh, GoTo, history
<1>8. ASSUME NEW r \in Requests, FindAny(r) PROVE Calm
  BY <1>8 DEF FindAny, GoTo, Answer, history
<1>9. ASSUME NEW r \in Requests, Revoke(r) PROVE Calm
  BY <1>9 DEF Revoke, Answer, WithoutTokensOf, TokensOf, Calmed, Rival
<1>10. ASSUME NEW r \in Requests, FindOwner(r) PROVE Calm
  BY <1>10 DEF FindOwner, GoTo, history
<1>11. ASSUME NEW r \in Requests, StatementFails(r) PROVE Calm
  BY <1>11 DEF StatementFails, Answer, history
<1>12. ASSUME NEW r \in Requests, FindAnyFails(r) PROVE Calm
  BY <1>12 DEF FindAnyFails, Answer, history
<1>13. ASSUME NEW r \in Requests, RevokeFails(r) PROVE Calm
  BY <1>13 DEF RevokeFails, Answer, history
<1>14. ASSUME NEW t \in Requests, Expire(t) PROVE Calm
  BY <1>14 DEF Expire, history
<1>15. ASSUME DeleteExpired PROVE Calm
  BY <1>15 DEF DeleteExpired, history
<1>16. ASSUME Crash PROVE Calm
  BY <1>16 DEF Crash, Statements, history
<1>17. ASSUME UNCHANGED vars PROVE Calm
  BY <1>17 DEF vars
<1>18. QED
  BY <1>1, <1>2, <1>3, <1>4, <1>5, <1>6, <1>7, <1>8, <1>9, <1>10, <1>11,
     <1>12, <1>13, <1>14, <1>15, <1>16, <1>17 DEF Next, Step, Lively

LEMMA CalmStep ==
  ASSUME Typed, Ended, Redeeming, Issuing, Creating, Calm
  PROVE  (Redeeming /\ Issuing /\ Creating)'
<1>1. Redeeming'
  BY DEF Typed, TypeOK, Calm, Redeeming, RedeemedTokensAreDead,
         RedeemedTwiceOnlyInRace, OneRedeemer
<1>2. Issuing'
  BY DEF Typed, TypeOK, Ended, Calm, Issuing, OneSessionUnlessDisturbed, OneIssuer, TokensOf
<1>3. Creating'
  BY DEF Typed, TypeOK, Calm, Creating, AccountCreatedOnce, Recorded
<1>4. QED
  BY <1>1, <1>2, <1>3

LEMMA InsertAccountStep ==
  ASSUME Typed, Ended, Redeeming, Issuing, Creating, NEW r \in Requests, InsertAccount(r)
  PROVE  (Redeeming /\ Issuing /\ Creating)'
<1> USE DEF Typed, TypeOK, InsertAccount, GoTo, Answer, Unused
<1>1. RedeemedTokensAreDead'
  BY DEF Ended, Redeeming, RedeemedTokensAreDead
<1>2. (RedeemedTwiceOnlyInRace /\ OneRedeemer)'
  BY DEF Redeeming, RedeemedTokensAreDead, RedeemedTwiceOnlyInRace, OneRedeemer
<1>3. (OneSessionUnlessDisturbed /\ OneIssuer)'
  BY DEF Ended, Issuing, OneSessionUnlessDisturbed, OneIssuer, TokensOf
<1>4. Creating'
  BY DEF Creating, AccountCreatedOnce, Recorded
<1>5. QED
  BY <1>1, <1>2, <1>3, <1>4 DEF Redeeming, Issuing

LEMMA FindTokenStep ==
  ASSUME Typed, Ended, Redeeming, Issuing, Creating, NEW r \in Requests, FindToken(r)
  PROVE  (Redeeming /\ Issuing /\ Creating)'
<1> USE DEF Typed, TypeOK, FindToken, GoTo
<1>1. RedeemedTokensAreDead'
  BY DEF Ended, Redeeming, RedeemedTokensAreDead
<1>2. (RedeemedTwiceOnlyInRace /\ OneRedeemer)'
  BY DEF Redeeming, RedeemedTokensAreDead, RedeemedTwiceOnlyInRace, OneRedeemer
<1>3. (OneSessionUnlessDisturbed /\ OneIssuer)'
  BY DEF Ended, Issuing, OneSessionUnlessDisturbed, OneIssuer, TokensOf
<1>4. Creating'
  BY DEF Creating, AccountCreatedOnce, Recorded
<1>5. QED
  BY <1>1, <1>2, <1>3, <1>4 DEF Redeeming, Issuing

LEMMA DeleteTokenStep ==
  ASSUME Typed, Ended, Redeeming, Issuing, Creating, NEW r \in Requests, DeleteToken(r)
  PROVE  (Redeeming /\ Issuing /\ Creating)'
<1> USE DEF Typed, TypeOK, DeleteToken, GoTo, Answer
<1>1. RedeemedTokensAreDead'
  BY DEF Ended, Redeeming, RedeemedTokensAreDead
<1>2. (RedeemedTwiceOnlyInRace /\ OneRedeemer)'
  BY DEF Redeeming, RedeemedTokensAreDead, RedeemedTwiceOnlyInRace, OneRedeemer
<1>3. (OneSessionUnlessDisturbed /\ OneIssuer)'
  BY DEF Ended, Issuing, OneSessionUnlessDisturbed, OneIssuer, TokensOf
<1>4. Creating'
  BY DEF Creating, AccountCreatedOnce, Recorded
<1>5. QED
  BY <1>1, <1>2, <1>3, <1>4 DEF Redeeming, Issuing

LEMMA WipeTokensStep ==
  ASSUME Typed, Ended, Redeeming, Issuing, Creating, NEW r \in Requests, WipeTokens(r)
  PROVE  (Redeeming /\ Issuing /\ Creating)'
<1> USE DEF Typed, TypeOK, WipeTokens, GoTo, WithoutTokensOf, TokensOf, Calmed, Rival
<1>1. RedeemedTokensAreDead'
  BY DEF Ended, Redeeming, RedeemedTokensAreDead
<1>2. (RedeemedTwiceOnlyInRace /\ OneRedeemer)'
  BY DEF Redeeming, RedeemedTokensAreDead, RedeemedTwiceOnlyInRace, OneRedeemer
<1>3. (OneSessionUnlessDisturbed /\ OneIssuer)'
  BY DEF Ended, Issuing, OneSessionUnlessDisturbed, OneIssuer, TokensOf
<1>4. Creating'
  BY DEF Creating, AccountCreatedOnce, Recorded
<1>5. QED
  BY <1>1, <1>2, <1>3, <1>4 DEF Redeeming, Issuing

LEMMA WipeFailsStep ==
  ASSUME Typed, Ended, Redeeming, Issuing, Creating, NEW r \in Requests, WipeFails(r)
  PROVE  (Redeeming /\ Issuing /\ Creating)'
<1> USE DEF Typed, TypeOK, WipeFails, GoTo
<1>1. RedeemedTokensAreDead'
  BY DEF Ended, Redeeming, RedeemedTokensAreDead
<1>2. (RedeemedTwiceOnlyInRace /\ OneRedeemer)'
  BY DEF Redeeming, RedeemedTokensAreDead, RedeemedTwiceOnlyInRace, OneRedeemer
<1>3. (OneSessionUnlessDisturbed /\ OneIssuer)'
  BY DEF Ended, Issuing, OneSessionUnlessDisturbed, OneIssuer, TokensOf
<1>4. Creating'
  BY DEF Creating, AccountCreatedOnce, Recorded
<1>5. QED
  BY <1>1, <1>2, <1>3, <1>4 DEF Redeeming, Issuing

LEMMA CreateTokenStep ==
  ASSUME Typed, Ended, Redeeming, Issuing, Creating, NEW r \in Requests, CreateToken(r)
  PROVE  (Redeeming /\ Issuing /\ Creating)'
<1> USE DEF Typed, TypeOK, CreateToken, Answer, history
<1>1. RedeemedTokensAreDead'
  BY DEF Ended, Redeeming, RedeemedTokensAreDead
<1>2. (RedeemedTwiceOnlyInRace /\ OneRedeemer)'
  BY DEF Redeeming, RedeemedTokensAreDead, RedeemedTwiceOnlyInRace, OneRedeemer
<1>3. (OneSessionUnlessDisturbed /\ OneIssuer)'
  BY DEF Ended, Issuing, OneSessionUnlessDisturbed, OneIssuer, TokensOf
<1>4. Creating'
  BY DEF Creating, AccountCreatedOnce, Recorded
<1>5. QED
  BY <1>1, <1>2, <1>3, <1>4 DEF Redeeming, Issuing

-----------------------------------------------------------------------------
\* No step gives a token that was handed out a row, or time, back.
StaysDead ==
  /\ expired \subseteq expired'
  /\ \A t \in rows' \ rows : pc[t] # "done"

\* Only who did not find his token live looks for any, and only who then finds
\* one takes it for reuse.
LooksFair ==
  \A r \in Requests :
    /\ pc'[r] = "any" =>
         /\ given'[r] = given[r]
         /\ pc[r] = "any" \/ (pc[r] = "find" /\ given[r] \notin rows \ expired)
    /\ pc'[r] = "revoke" \/ result'[r] = "reuse" =>
         /\ given'[r] = given[r]
         /\ pc[r] = "revoke" \/ result[r] = "reuse" \/ (pc[r] = "any" /\ given[r] \in rows)

LEMMA FairStep ==
  ASSUME Typed, Ended, [Next]_vars
  PROVE  StaysDead /\ LooksFair
<1> USE DEF Typed, TypeOK, Statements, Ended, StaysDead, LooksFair, history
<1>1. ASSUME NEW r \in Requests, NEW u \in Users, Register(r, u) \/ Login(r, u)
      PROVE  StaysDead /\ LooksFair
  BY <1>1 DEF Register, Login, GoTo
<1>2. ASSUME NEW r \in Requests, NEW t \in Requests, Refresh(r, t) \/ Logout(r, t)
      PROVE  StaysDead /\ LooksFair
  BY <1>2 DEF Refresh, Logout, GoTo
<1>3. ASSUME NEW r \in Requests, CheckTaken(r) \/ InsertAccount(r) \/ CheckPassword(r)
      PROVE  StaysDead /\ LooksFair
  BY <1>3 DEF CheckTaken, InsertAccount, CheckPassword, GoTo, Answer
<1>4. ASSUME NEW r \in Requests, DeleteForLogout(r) \/ WipeTokens(r) \/ WipeFails(r)
      PROVE  StaysDead /\ LooksFair
  BY <1>4 DEF DeleteForLogout, WipeTokens, WipeFails, WithoutTokensOf, GoTo, Answer
<1>5. ASSUME NEW r \in Requests, FindToken(r) \/ DeleteToken(r) \/ FindOwner(r)
      PROVE  StaysDead /\ LooksFair
  BY <1>5 DEF FindToken, DeleteToken, FindOwner, GoTo, Answer
<1>6. ASSUME NEW r \in Requests, FindAny(r) \/ Revoke(r) \/ FindAnyFails(r) \/ RevokeFails(r)
      PROVE  StaysDead /\ LooksFair
  BY <1>6 DEF FindAny, Revoke, FindAnyFails, RevokeFails, WithoutTokensOf, GoTo, Answer
<1>7. ASSUME NEW r \in Requests, CreateToken(r) \/ StatementFails(r) PROVE StaysDead /\ LooksFair
  BY <1>7 DEF CreateToken, StatementFails, Answer
<1>8. ASSUME Crash \/ (\E t \in Requests : Expire(t)) \/ DeleteExpired \/ UNCHANGED vars
      PROVE  StaysDead /\ LooksFair
  BY <1>8 DEF Crash, Expire, DeleteExpired, vars
<1>9. QED
  BY <1>1, <1>2, <1>3, <1>4, <1>5, <1>6, <1>7, <1>8 DEF Next, Step

LEMMA SuspectingStep ==
  ASSUME Typed, Ended, Suspecting, [Next]_vars
  PROVE  Suspecting'
<1>1. StaysDead /\ LooksFair
  BY FairStep
<1>2. ASSUME NEW r \in Requests, pc'[r] = "any" PROVE given'[r] \notin rows' \ expired'
  <2>1. pc[given[r]] = "done" /\ given[r] \notin rows \ expired /\ given'[r] = given[r]
    BY <1>1, <1>2 DEF LooksFair, Ended, Suspecting, Looking
  <2>2. QED
    BY <1>1, <2>1 DEF StaysDead
<1>3. ASSUME NEW r \in Requests, pc'[r] = "revoke" \/ result'[r] = "reuse"
      PROVE  given'[r] \in expired'
  <2>1. given'[r] = given[r] /\ given[r] \in expired
    BY <1>1, <1>3 DEF LooksFair, Suspecting, Looking, ReuseMeansExpired
  <2>2. QED
    BY <1>1, <2>1 DEF StaysDead
<1>4. QED
  BY <1>2, <1>3 DEF Suspecting, Looking, ReuseMeansExpired

-----------------------------------------------------------------------------
\* What is granted stays granted, to the same user.
LEMMA GrantedStays ==
  ASSUME Typed, Ended, [Next]_vars, NEW t \in Requests, result[t] = "granted"
  PROVE  result'[t] = "granted" /\ user'[t] = user[t]
<1>1. pc[t] = "done"
  BY DEF Ended
<1> USE <1>1 DEF Typed, TypeOK, Statements
<1>2. CASE \E r \in Requests : \/ \E u \in Users : Register(r, u) \/ Login(r, u)
                               \/ \E q \in Requests : Refresh(r, q) \/ Logout(r, q)
  BY <1>2 DEF Register, Login, Logout, Refresh, GoTo
<1>3. CASE \E r \in Requests : CheckTaken(r) \/ InsertAccount(r) \/ CheckPassword(r) \/ DeleteForLogout(r)
  BY <1>3 DEF CheckTaken, InsertAccount, CheckPassword, DeleteForLogout, GoTo, Answer
<1>4. CASE \E r \in Requests : FindToken(r) \/ DeleteToken(r) \/ FindAny(r) \/ Revoke(r) \/ FindOwner(r)
  BY <1>4 DEF FindToken, DeleteToken, FindAny, Revoke, FindOwner, GoTo, Answer
<1>5. CASE \E r \in Requests : WipeTokens(r) \/ CreateToken(r) \/ StatementFails(r)
                                 \/ FindAnyFails(r) \/ RevokeFails(r) \/ WipeFails(r)
  BY <1>5 DEF WipeTokens, CreateToken, StatementFails, FindAnyFails, RevokeFails, WipeFails,
              GoTo, Answer
<1>6. CASE Crash \/ (\E q \in Requests : Expire(q)) \/ DeleteExpired \/ UNCHANGED vars
  BY <1>6 DEF Crash, Expire, DeleteExpired, vars
<1>7. QED
  BY <1>2, <1>3, <1>4, <1>5, <1>6 DEF Next, Step

LEMMA PresentingStep ==
  ASSUME Typed, Ended, Presenting, [Next]_vars
  PROVE  Presenting'
<1>1. \A t \in Requests :
        result[t] = "granted" => pc'[t] = "done" /\ result'[t] = "granted" /\ user'[t] = user[t]
  <2>1. Ended'
    BY EndedStep
  <2>2. \A t \in Requests : result[t] = "granted" => result'[t] = "granted" /\ user'[t] = user[t]
    BY GrantedStays
  <2>3. QED BY <2>1, <2>2 DEF Ended
<1> USE DEF Typed, TypeOK, Statements, Presenting
<1>2. ASSUME NEW r \in Requests, NEW u \in Users, Register(r, u) \/ Login(r, u)
      PROVE  Presenting'
  BY <1>1, <1>2, SessionsAssumption DEF Register, Login, GoTo
<1>3. ASSUME NEW r \in Requests, NEW t \in Requests, Refresh(r, t) \/ Logout(r, t)
      PROVE  Presenting'
  <2>1. /\ pc[r] = "idle" /\ result[t] = "granted" /\ t # NoToken
        /\ pc'[r] \in {"find", "logout"} /\ given'[r] = t
        /\ pc'[r] = "logout" => user'[r] = user[t]
    BY <1>3, SessionsAssumption DEF Refresh, Logout, GoTo
  <2>2. \A q \in Requests \ {r} : pc'[q] = pc[q] /\ given'[q] = given[q] /\ user'[q] = user[q]
    BY <1>3 DEF Refresh, Logout, GoTo
  <2>3. QED BY <1>1, <2>1, <2>2, SessionsAssumption
<1>4. ASSUME NEW r \in Requests, CheckTaken(r) \/ InsertAccount(r) \/ CheckPassword(r)
      PROVE  Presenting'
  BY <1>1, <1>4, SessionsAssumption DEF CheckTaken, InsertAccount, CheckPassword, GoTo, Answer, history
<1>5. ASSUME NEW r \in Requests, DeleteForLogout(r) \/ WipeTokens(r) \/ WipeFails(r)
      PROVE  Presenting'
  BY <1>1, <1>5, SessionsAssumption DEF DeleteForLogout, WipeTokens, WipeFails, GoTo, Answer
<1>6. ASSUME NEW r \in Requests, FindToken(r) \/ DeleteToken(r) \/ FindOwner(r)
      PROVE  Presenting'
  BY <1>1, <1>6, SessionsAssumption DEF FindToken, DeleteToken, FindOwner, GoTo, Answer, history
<1>7. ASSUME NEW r \in Requests, FindAny(r) \/ Revoke(r) \/ FindAnyFails(r) \/ RevokeFails(r)
      PROVE  Presenting'
  BY <1>1, <1>7, SessionsAssumption
     DEF FindAny, Revoke, FindAnyFails, RevokeFails, GoTo, Answer, history
<1>8. ASSUME NEW r \in Requests, CreateToken(r) \/ StatementFails(r) PROVE Presenting'
  BY <1>1, <1>8, SessionsAssumption DEF CreateToken, StatementFails, Answer, history
<1>9. ASSUME Crash \/ (\E t \in Requests : Expire(t)) \/ DeleteExpired \/ UNCHANGED vars
      PROVE  Presenting'
  BY <1>1, <1>9, SessionsAssumption DEF Crash, Expire, DeleteExpired, vars, history
<1>10. QED
  BY <1>2, <1>3, <1>4, <1>5, <1>6, <1>7, <1>8, <1>9 DEF Next, Step

-----------------------------------------------------------------------------
LEMMA InitInv == Init => IInv
BY DEF Init, IInv, Typed, TypeOK, Statements, Ended, Presenting, Redeeming, RedeemedTokensAreDead,
       RedeemedTwiceOnlyInRace, OneRedeemer, Issuing, OneSessionUnlessDisturbed,
       OneIssuer, TokensOf, Creating, AccountCreatedOnce, Recorded, Suspecting,
       Looking, ReuseMeansExpired

LEMMA NextInv == IInv /\ [Next]_vars => IInv'
<1> SUFFICES ASSUME IInv, [Next]_vars PROVE IInv'
  OBVIOUS
<1>1. Typed' /\ Ended' /\ Presenting' /\ Suspecting'
  BY TypedStep, EndedStep, PresentingStep, SuspectingStep DEF IInv
<1>2. ASSUME Calm PROVE (Redeeming /\ Issuing /\ Creating)'
  BY <1>2, CalmStep DEF IInv
<1>3. ASSUME NEW r \in Requests, Lively(r) PROVE (Redeeming /\ Issuing /\ Creating)'
  BY <1>3, InsertAccountStep, FindTokenStep, DeleteTokenStep, WipeTokensStep,
     WipeFailsStep, CreateTokenStep DEF IInv, Lively
<1>4. QED
  BY <1>1, <1>2, <1>3, CalmOrLively DEF IInv

\* In every behaviour the requests in flight stand as IInv says.
THEOREM Invariance == Spec => []IInv
BY InitInv, NextInv, PTL DEF Spec

\* Types, of the tables and of the requests.
THEOREM TypeCorrect == Spec => []TypeOK
<1>1. IInv => TypeOK
  BY DEF IInv, Typed
<1>2. QED
  BY <1>1, Invariance, PTL

\* A token is redeemed twice only by refreshes that overlap between SELECT and DELETE.
THEOREM RaceOnly == Spec => []RedeemedTwiceOnlyInRace
<1>1. IInv => RedeemedTwiceOnlyInRace
  BY DEF IInv, Redeeming
<1>2. QED
  BY <1>1, Invariance, PTL

\* A user has two live tokens only after a failed wipe or overlapping issues, since
\* the last deletion of all his tokens that was not overlapped.
THEOREM OneSession == Spec => []OneSessionUnlessDisturbed
<1>1. IInv => OneSessionUnlessDisturbed
  BY DEF IInv, Issuing
<1>2. QED
  BY <1>1, Invariance, PTL

\* What outlives a logout belongs to a request that was in flight, or came later.
THEOREM LoggedOut == Spec => []LogoutEndsSessions
<1>1. IInv => LogoutEndsSessions
  BY DEF IInv, Typed, TypeOK, Ended, LogoutEndsSessions, TokensOf
<1>2. QED
  BY <1>1, Invariance, PTL

\* Concurrent registrations create an account once.
THEOREM CreatedOnce == Spec => []AccountCreatedOnce
<1>1. IInv => AccountCreatedOnce
  BY DEF IInv, Creating
<1>2. QED
  BY <1>1, Invariance, PTL

\* Sessions are revoked for a token that has expired, never for a live one.
THEOREM OnlyExpiredRevoke == Spec => []ReuseMeansExpired
<1>1. IInv => ReuseMeansExpired
  BY DEF IInv, Suspecting
<1>2. QED
  BY <1>1, Invariance, PTL

-----------------------------------------------------------------------------
(***************************************************************************)
(* The server                                                               *)
(***************************************************************************)

Acting == {"delete", "owner", "wipe", "create"}

\* A call is under way only by a JWT that was granted.
Bearers == \A k \in Calls : bearer[k] # NoToken => result[bearer[k]] = "granted"

ServerInv == IInv /\ ServerTypeOK /\ Bearers

-----------------------------------------------------------------------------
(***************************************************************************)
(* Invariants, and the promises of Sessions                                 *)
(***************************************************************************)
LEMMA ServerStep ==
  ASSUME IInv, [ServerNext]_allVars
  PROVE  [Next]_vars
<1>1. CASE Start \/ Connect \/ Migrate \/ \E j \in Requests : Lapse(j)
  BY <1>1 DEF Start, Connect, Migrate, Lapse
<1>2. CASE Die
  BY <1>2 DEF Die, Next
<1>3. CASE \E k \in Calls : End(k) \/ \E j \in Requests : Authorize(k, j)
  BY <1>3 DEF End, Authorize
<1>4. ASSUME NEW r \in Requests, NEW j \in Requests, LogoutWith(r, j) PROVE Next
  BY <1>4 DEF LogoutWith, Valid, Next, IInv, Ended
<1>5. CASE Auth
  BY <1>4, <1>5 DEF Auth, Next
<1>6. CASE (\E t \in Requests : Expire(t)) \/ UNCHANGED vars
  BY <1>6 DEF Next
<1>7. QED
  BY <1>1, <1>2, <1>3, <1>5, <1>6 DEF ServerNext, Serving, allVars

LEMMA ServerTypeStep ==
  ASSUME IInv, ServerTypeOK, [ServerNext]_allVars
  PROVE  ServerTypeOK'
<1>0. TypeOK'
  BY NextInv, ServerStep DEF IInv, Typed
<1> USE <1>0, ServerAssumption DEF ServerTypeOK
<1>1. CASE Start \/ Connect \/ Migrate
  BY <1>1 DEF Start, Connect, Migrate
<1>2. CASE Die
  BY <1>2 DEF Die
<1>3. CASE Serving
  BY <1>3 DEF Serving, Auth, End, Authorize, serverVars
<1>4. CASE \E j \in Requests : Lapse(j)
  BY <1>4 DEF Lapse
<1>5. CASE UNCHANGED serverVars
  BY <1>5 DEF serverVars
<1>6. QED
  BY <1>1, <1>2, <1>3, <1>4, <1>5 DEF ServerNext, allVars, serverVars

LEMMA BearersStep ==
  ASSUME ServerInv, [ServerNext]_allVars
  PROVE  Bearers'
<1>1. \A t \in Requests : result[t] = "granted" => result'[t] = "granted"
  BY GrantedStays, ServerStep DEF ServerInv, IInv
<1>2. \A k \in Calls : bearer[k] \in Requests \cup {NoToken}
  BY DEF ServerInv, ServerTypeOK
<1>3. CASE UNCHANGED bearer
  BY <1>1, <1>2, <1>3 DEF ServerInv, Bearers
<1>4. CASE Die
  BY <1>4 DEF Die, Bearers
<1>5. ASSUME NEW k \in Calls, End(k) \/ \E j \in Requests : Authorize(k, j)
      PROVE  Bearers'
  <2>1. \A c \in Calls \ {k} : bearer'[c] = bearer[c]
    BY <1>5 DEF End, Authorize, ServerInv, ServerTypeOK
  <2>2. bearer'[k] # NoToken => bearer'[k] \in Requests /\ result[bearer'[k]] = "granted"
    BY <1>5 DEF End, Authorize, ServerInv, ServerTypeOK, Valid
  <2>3. QED
    BY <1>1, <1>2, <2>1, <2>2 DEF ServerInv, Bearers
<1>6. QED
  BY <1>3, <1>4, <1>5
  DEF ServerNext, allVars, serverVars, Start, Connect, Migrate, Serving, Auth, Lapse

\* In every behaviour of the server, calls under way have JWTs that were granted.
THEOREM ServerInvariance == ServerSpec => []ServerInv
<1>1. ServerInit => ServerInv
  <2>1. ServerInit => IInv /\ TypeOK
    BY InitInv DEF ServerInit, IInv, Typed
  <2>2. QED
    BY <2>1, ServerAssumption DEF ServerInit, ServerInv, ServerTypeOK, Bearers
<1>2. ServerInv /\ [ServerNext]_allVars => ServerInv'
  BY NextInv, ServerStep, ServerTypeStep, BearersStep DEF ServerInv
<1>3. QED
  BY <1>1, <1>2, PTL DEF ServerSpec

\* A behaviour of the server is one of Sessions as far as accounts, tokens and
\* requests go: the server adds conditions to the actions of Sessions.
LEMMA ServerIsSessions == ServerSpec => Spec
<1>1. ServerInit => Init
  BY DEF ServerInit
<1>2. ServerInv /\ [ServerNext]_allVars => [Next]_vars
  BY ServerStep DEF ServerInv
<1>3. QED
  BY <1>1, <1>2, ServerInvariance, PTL DEF ServerSpec, Spec

\* So the promises of Sessions are kept by the server, which can be restarted at
\* any time and lets in only who presents a JWT.
THEOREM ServerKeepsPromises ==
  ServerSpec => [](/\ RedeemedTwiceOnlyInRace /\ OneSessionUnlessDisturbed
                   /\ LogoutEndsSessions /\ AccountCreatedOnce /\ ReuseMeansExpired)
BY ServerIsSessions, RaceOnly, OneSession, LoggedOut, CreatedOnce, OnlyExpiredRevoke, PTL

\* The types of the tables, the requests, the process, the JWTs and the calls.
THEOREM ServerTypeCorrect == ServerSpec => []ServerTypeOK
<1>1. ServerInv => ServerTypeOK
  BY DEF ServerInv
<1>2. QED
  BY <1>1, ServerInvariance, PTL

-----------------------------------------------------------------------------
(***************************************************************************)
(* Who ends sessions                                                        *)
(***************************************************************************)

\* Nobody ends the session of another user.
THEOREM OnlyTheirUser == ServerSpec => SessionsEndByTheirUser
<1>1. ASSUME IInv, [Next]_vars, NEW t \in (rows \ rows') \ expired
      PROVE  \E r \in Requests :
               /\ pc'[r] # pc[r]
               /\ \/ given[r] = NoToken /\ pc[r] = "wipe" /\ user[r] = user[t]
                  \/ given[r] # NoToken /\ result[given[r]] = "granted" /\ user[given[r]] = user[t]
  <2>1. PICK r \in Requests : DeleteForLogout(r) \/ Revoke(r) \/ WipeTokens(r) \/ DeleteToken(r)
    BY <1>1 DEF Next, Step, vars, history, Crash, Expire, DeleteExpired, Register, Login, Logout,
       Refresh, CheckTaken, InsertAccount, CheckPassword, FindToken, FindAny, FindOwner, CreateToken,
       StatementFails, FindAnyFails, RevokeFails, WipeFails
  <2>2. /\ pc[r] \in {"logout", "revoke", "wipe", "delete"} /\ pc'[r] # pc[r]
        /\ pc[r] = "delete" => t = given[r]
        /\ pc[r] # "delete" => user[t] = user[r]
    BY <1>1, <2>1 DEF DeleteForLogout, Revoke, WipeTokens, DeleteToken, GoTo, Answer,
       WithoutTokensOf, TokensOf, IInv, Typed, TypeOK
  <2>3. given[r] = NoToken => pc[r] = "wipe"
    BY <1>1, <2>2 DEF IInv, Presenting
  <2>4. given[r] # NoToken => result[given[r]] = "granted" /\ user[r] = user[given[r]]
    BY <1>1, <2>2 DEF IInv, Presenting
  <2>5. QED BY <2>2, <2>3, <2>4
<1>2. ServerInv /\ [ServerNext]_allVars =>
        \A t \in (rows \ rows') \ expired :
          \E r \in Requests :
            /\ pc'[r] # pc[r]
            /\ \/ given[r] = NoToken /\ pc[r] = "wipe" /\ user[r] = user[t]
               \/ given[r] # NoToken /\ result[given[r]] = "granted" /\ user[given[r]] = user[t]
  BY <1>1, ServerStep DEF ServerInv
<1>3. QED
  BY <1>2, ServerInvariance, PTL DEF ServerSpec, SessionsEndByTheirUser

-----------------------------------------------------------------------------
(***************************************************************************)
(* Who can act                                                              *)
(***************************************************************************)

\* A step that hands out nothing to act with.
Stingy ==
  /\ \A t \in rows' \ expired' : result'[t] = "granted" => t \in rows \ expired /\ result[t] = "granted"
  /\ \A j \in Requests : result'[j] = "granted" => result[j] = "granted"
  /\ \A r \in Requests : pc'[r] \in Acting => pc[r] \in Acting /\ user'[r] = user[r]

Generous(r) == InsertAccount(r) \/ CheckPassword(r) \/ FindToken(r) \/ CreateToken(r)

LEMMA StingyOrGenerous ==
  ASSUME IInv, [Next]_vars
  PROVE  Stingy \/ \E r \in Requests : Generous(r)
<1> USE DEF IInv, Typed, TypeOK, Statements, Stingy, Acting
<1>1. CASE \E r \in Requests : \/ \E u \in Users : Register(r, u) \/ Login(r, u)
                               \/ \E q \in Requests : Refresh(r, q) \/ Logout(r, q)
  BY <1>1 DEF Register, Login, Logout, Refresh, GoTo
<1>2. CASE \E r \in Requests : CheckTaken(r) \/ DeleteForLogout(r)
  BY <1>2 DEF CheckTaken, DeleteForLogout, GoTo, Answer, WithoutTokensOf
<1>3. CASE \E r \in Requests : DeleteToken(r) \/ FindAny(r) \/ Revoke(r) \/ FindOwner(r)
  BY <1>3 DEF DeleteToken, FindAny, Revoke, FindOwner, GoTo, Answer, WithoutTokensOf
<1>4. CASE \E r \in Requests : WipeTokens(r) \/ StatementFails(r)
                                 \/ FindAnyFails(r) \/ RevokeFails(r) \/ WipeFails(r)
  BY <1>4 DEF WipeTokens, StatementFails, FindAnyFails, RevokeFails, WipeFails,
              GoTo, Answer, WithoutTokensOf
<1>5. CASE Crash \/ (\E q \in Requests : Expire(q)) \/ DeleteExpired \/ UNCHANGED vars
  BY <1>5 DEF Crash, Expire, DeleteExpired, vars
<1>6. QED
  BY <1>1, <1>2, <1>3, <1>4, <1>5 DEF Next, Step, Generous

\* Nobody is let in, by the middleware or by HandleWebSocket, or JWTs come back.
NobodyEnters ==
  /\ lapsed \subseteq lapsed'
  /\ \A k \in Calls : bearer'[k] # NoToken => bearer'[k] = bearer[k]

LEMMA EntersByAuthorize ==
  ASSUME ServerInv, [ServerNext]_allVars
  PROVE  NobodyEnters \/ \E k \in Calls, j \in Requests : Authorize(k, j)
BY DEF ServerInv, ServerTypeOK, NobodyEnters, ServerNext, allVars, serverVars, Start, Connect,
       Migrate, Die, Serving, Auth, End, Lapse

\* The ways to act that Sessions knows.
CanActInSessions(u) ==
  \/ \E t \in rows \ expired : result[t] = "granted" /\ user[t] = u
  \/ \E r \in Requests : pc[r] \in Acting /\ user[r] = u

\* The ways to act that the server adds.
CanActByJWT(u) ==
  \/ \E j \in Requests : Valid(j) /\ user[j] = u
  \/ \E k \in Calls : bearer[k] # NoToken /\ user[bearer[k]] = u

LEMMA CanActTwoWays ==
  ASSUME NEW u
  PROVE  CanAct(u) <=> CanActInSessions(u) \/ CanActByJWT(u)
BY DEF CanAct, CanActInSessions, CanActByJWT, Acting

LEMMA SessionsHandOut ==
  ASSUME IInv, [Next]_vars, NEW u \in Users, CanActInSessions(u)'
  PROVE  CanActInSessions(u) \/ LoggedIn(u)
<1> USE DEF CanActInSessions, Acting
<1>1. rows \subseteq Requests /\ rows' \subseteq Requests
  BY NextInv DEF IInv, Typed, TypeOK
<1>2. CASE Stingy
  BY <1>1, <1>2, GrantedStays DEF Stingy, IInv
<1>3. ASSUME NEW r \in Requests, Generous(r) PROVE CanActInSessions(u) \/ LoggedIn(u)
  <2> USE DEF IInv, Typed, TypeOK, Statements
  <2>1. CASE InsertAccount(r)
    BY <2>1 DEF InsertAccount, GoTo, Answer, LoggedIn
  <2>2. CASE CheckPassword(r)
    BY <2>2 DEF CheckPassword, GoTo, Answer, history, LoggedIn
  <2>3. CASE FindToken(r)
    <3>1. UNCHANGED <<rows, expired, result>> /\ pc[r] = "find"
      BY <2>3 DEF FindToken, GoTo
    <3>2. \A q \in Requests \ {r} : pc'[q] = pc[q] /\ user'[q] = user[q]
      BY <2>3 DEF FindToken, GoTo
    <3>3. \A t \in rows : user'[t] = user[t]
      BY <3>1, <3>2 DEF Ended
    <3>4. pc'[r] \in Acting => /\ given[r] \in rows \ expired
                               /\ user'[r] = user[given[r]]
      BY <2>3 DEF FindToken, GoTo
    <3>5. result[given[r]] = "granted"
      BY <3>1 DEF Ended
    <3>6. QED
      BY <3>1, <3>2, <3>3, <3>4, <3>5
  <2>4. CASE CreateToken(r)
    BY <2>4 DEF CreateToken, Answer, history
  <2>5. QED
    BY <1>3, <2>1, <2>2, <2>3, <2>4 DEF Generous
<1>4. QED
  BY <1>2, <1>3, StingyOrGenerous

\* A JWT that has just been granted was issued by a request that could act.
LEMMA NewlyGranted ==
  ASSUME IInv, [Next]_vars, NEW j \in Requests, result'[j] = "granted", result[j] # "granted"
  PROVE  pc[j] = "create" /\ user'[j] = user[j]
<1>1. PICK r \in Requests : Generous(r)
  BY StingyOrGenerous DEF Stingy
<1> USE DEF IInv, Typed, TypeOK
<1>2. CASE InsertAccount(r) \/ CheckPassword(r) \/ FindToken(r)
  BY <1>2 DEF InsertAccount, CheckPassword, FindToken, GoTo, Answer
<1>3. CASE CreateToken(r)
  BY <1>3 DEF CreateToken, Answer, history
<1>4. QED
  BY <1>1, <1>2, <1>3 DEF Generous

LEMMA ServerHandsOut ==
  ASSUME ServerInv, [ServerNext]_allVars, NEW u \in Users, CanActByJWT(u)'
  PROVE  CanAct(u)
<1>1. IInv /\ [Next]_vars
  BY ServerStep DEF ServerInv
<1>2. CanActByJWT(u) \/ CanActInSessions(u) => CanAct(u)
  BY CanActTwoWays
<1>3. ASSUME NEW j \in Requests, result'[j] = "granted", j \notin lapsed, user'[j] = u
      PROVE  CanAct(u)
  <2>1. CASE result[j] = "granted"
    BY <1>1, <1>2, <1>3, <2>1, GrantedStays DEF CanActByJWT, Valid, IInv
  <2>2. CASE result[j] # "granted"
    BY <1>1, <1>2, <1>3, <2>2, NewlyGranted DEF CanActInSessions, Acting
  <2>3. QED
    BY <2>1, <2>2
<1>4. lapsed \subseteq lapsed'
  BY DEF ServerNext, allVars, serverVars, Start, Connect, Migrate, Die, Serving, Auth, End,
         Authorize, Lapse
<1>5. ASSUME NEW j \in Requests, Valid(j)', user'[j] = u PROVE CanAct(u)
  BY <1>3, <1>4, <1>5 DEF Valid
<1>6. ASSUME NEW k \in Calls, bearer'[k] # NoToken, user'[bearer'[k]] = u PROVE CanAct(u)
  <2>1. CASE bearer'[k] = bearer[k]
    <3>1. bearer[k] \in Requests /\ result[bearer[k]] = "granted"
      BY <1>6, <2>1 DEF ServerInv, ServerTypeOK, Bearers
    <3>2. user[bearer[k]] = u
      BY <1>1, <1>6, <2>1, <3>1, GrantedStays DEF IInv
    <3>3. QED
      BY <1>2, <1>6, <2>1, <3>2 DEF CanActByJWT
  <2>2. CASE bearer'[k] # bearer[k]
    <3>1. PICK c \in Calls, j \in Requests : Authorize(c, j)
      BY <1>6, <2>2, EntersByAuthorize DEF NobodyEnters
    <3>2. c = k
      BY <2>2, <3>1 DEF Authorize, ServerInv, ServerTypeOK
    <3>3. Valid(j) /\ bearer'[k] = j /\ user'[j] = user[j]
      BY <3>1, <3>2 DEF Authorize, vars, ServerInv, ServerTypeOK
    <3>4. QED
      BY <1>2, <1>6, <3>3 DEF CanActByJWT
  <2>3. QED
    BY <2>1, <2>2
<1>7. QED
  BY <1>5, <1>6 DEF CanActByJWT

\* Who can no longer act can act again only by a password or a new account.
THEOREM PasswordOnly == ServerSpec => BackOnlyByPassword
<1>1. ServerInv /\ [ServerNext]_allVars =>
        \A u \in Users : ~CanAct(u) /\ CanAct(u)' => LoggedIn(u)
  <2> SUFFICES ASSUME ServerInv, [ServerNext]_allVars, NEW u \in Users, CanAct(u)'
               PROVE  CanAct(u) \/ LoggedIn(u)
    OBVIOUS
  <2>1. CASE CanActInSessions(u)'
    BY <2>1, ServerStep, SessionsHandOut, CanActTwoWays DEF ServerInv
  <2>2. CASE CanActByJWT(u)'
    BY <2>2, ServerHandsOut
  <2>3. CanActInSessions(u)' \/ CanActByJWT(u)'
    BY DEF CanAct, CanActInSessions, CanActByJWT, Acting
  <2>4. QED
    BY <2>1, <2>2, <2>3
<1>2. QED
  BY <1>1, ServerInvariance, PTL DEF ServerSpec, BackOnlyByPassword
=============================================================================
