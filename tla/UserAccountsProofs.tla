------------------------- MODULE UserAccountsProofs -------------------------
(***************************************************************************)
(* For every set of requests: the types, and the two promises of            *)
(* UserAccounts that overlapping changes of one row keep.                   *)
(*                                                                          *)
(* A stale copy can bring an old password back, so the chain of passwords   *)
(* is not kept by the row alone: Chained follows every password that can    *)
(* become the account's, in the row, in the copies, and in the hands of a   *)
(* request whose old password was accepted.                                 *)
(***************************************************************************)
EXTENDS UserAccounts, TLAPS

\* The password of the registration, or one whose change has been committed.
Known(p) == p = Original \/ (op[p] = "password" /\ p \in written)

Chained ==
  /\ Known(stored["password"])
  /\ \A r \in Requests : Known(copy[r]["password"])
  /\ \A r \in Requests :
       op[r] = "password" /\ (pc[r] = "save" \/ r \in written) => Known(old[r])

\* A request has a column to change once it has begun, and an answer once it is done.
Control ==
  \A r \in Requests :
    /\ pc[r] # "idle" => op[r] \in Columns
    /\ result[r] # "none" => pc[r] = "done"
    /\ r \in written => pc[r] = "done"

IInv == TypeOK /\ Control /\ Chained /\ LastChangesHold

-----------------------------------------------------------------------------
LEMMA InitInv == Init => IInv
<1> SUFFICES ASSUME Init PROVE IInv
  OBVIOUS
<1> USE DEF Init, Registered, Values, Columns
<1>1. TypeOK
  BY DEF TypeOK
<1>2. Control /\ Chained /\ LastChangesHold
  BY DEF Control, Chained, Known, LastChangesHold
<1>3. QED BY <1>1, <1>2 DEF IInv

LEMMA UpdateProfileStep ==
  ASSUME IInv, NEW r \in Requests, UpdateProfile(r)
  PROVE  IInv'
<1> USE AccountsAssumption DEF IInv, TypeOK, Values, Columns, UpdateProfile
<1>1. TypeOK' /\ Control'
  BY DEF Control
<1>2. Chained'
  BY DEF Control, Chained, Known
<1>3. QED BY <1>1, <1>2 DEF LastChangesHold

LEMMA ChangePasswordStep ==
  ASSUME IInv, NEW r \in Requests, NEW p \in Values, ChangePassword(r, p)
  PROVE  IInv'
<1> USE AccountsAssumption DEF IInv, TypeOK, Values, Columns, ChangePassword
<1>1. TypeOK' /\ Control'
  BY DEF Control
<1>2. Chained'
  BY DEF Control, Chained, Known
<1>3. QED BY <1>1, <1>2 DEF LastChangesHold

\* An accepted old password is the one of the row, which is known.
LEMMA FindStep ==
  ASSUME IInv, NEW r \in Requests, Find(r)
  PROVE  IInv'
<1> USE AccountsAssumption DEF IInv, TypeOK, Values, Columns, Find, Verified, Refused, Answer
<1>1. TypeOK' /\ Control'
  BY DEF Control
<1>2. Chained'
  BY DEF Control, Chained, Known
<1>3. QED BY <1>1, <1>2 DEF LastChangesHold

\* The password that is written is that of the copy, or a new one whose change
\* is committed by this step.
LEMMA SaveStep ==
  ASSUME IInv, NEW r \in Requests, Save(r)
  PROVE  IInv'
<1> USE AccountsAssumption DEF IInv, TypeOK, Values, Columns, Save, Changed, Answer
<1>1. TypeOK' /\ Control'
  BY DEF Control
<1>2. \A p \in Values : Known(p) => Known(p)'
  BY DEF Known
<1>3. Chained'
  <2>1. Known(stored["password"])'
    BY <1>2 DEF Control, Chained, Known
  <2>2. \A q \in Requests : Known(copy[q]["password"])'
    BY <1>2 DEF Chained
  <2>3. (\A q \in Requests :
           op[q] = "password" /\ (pc[q] = "save" \/ q \in written) => Known(old[q]))'
    BY <1>2 DEF Chained
  <2>4. QED BY <2>1, <2>2, <2>3 DEF Chained
<1>4. LastChangesHold'
  BY DEF LastChangesHold
<1>5. QED BY <1>1, <1>3, <1>4

LEMMA StatementFailsStep ==
  ASSUME IInv, NEW r \in Requests, StatementFails(r)
  PROVE  IInv'
<1> USE AccountsAssumption DEF IInv, TypeOK, Values, Columns, StatementFails, Answer
<1>1. TypeOK' /\ Control'
  BY DEF Control
<1>2. Chained'
  BY DEF Control, Chained, Known
<1>3. QED BY <1>1, <1>2 DEF LastChangesHold

LEMMA NextInv == IInv /\ [Next]_vars => IInv'
<1> SUFFICES ASSUME IInv, [Next]_vars PROVE IInv'
  OBVIOUS
<1>1. CASE UNCHANGED vars
  BY <1>1 DEF vars, IInv, TypeOK, Control, Chained, Known, LastChangesHold
<1>2. CASE Next
  BY <1>2, UpdateProfileStep, ChangePasswordStep, FindStep, SaveStep, StatementFailsStep DEF Next
<1>3. QED BY <1>1, <1>2

\* In every behaviour only known passwords are the account's, or can become it.
THEOREM Invariance == Spec => []IInv
BY InitInv, NextInv, PTL DEF Spec

\* Types, of the row and of the requests.
THEOREM TypeCorrect == Spec => []TypeOK
<1>1. IInv => TypeOK
  BY DEF IInv
<1>2. QED BY <1>1, Invariance, PTL

\* The latest committed changes hold until a request writes back a row that
\* changed after it was read.
THEOREM ChangesHold == Spec => []LastChangesHold
<1>1. IInv => LastChangesHold
  BY DEF IInv
<1>2. QED BY <1>1, Invariance, PTL

\* Only who knows a password the account has had can change it.
THEOREM PasswordsChained == Spec => []PasswordsFormAChain
<1>1. IInv => PasswordsFormAChain
  BY DEF IInv, TypeOK, Chained, Known, PasswordsFormAChain
<1>2. QED BY <1>1, Invariance, PTL
=============================================================================
