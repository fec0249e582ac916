---------------------------- MODULE UserAccounts ----------------------------
(***************************************************************************)
(* The row of one user and the requests of user_service.go that change it.  *)
(* UpdateProfile and ChangePassword read the whole row, change their column *)
(* of the copy and write the whole copy back (UserRepository.Update is      *)
(* gorm's Save); nothing locks the row in between.                          *)
(*                                                                          *)
(* A request bears a password or a profile (bio and avatar) of its own, and *)
(* these bear its name.  Hashing is left out.                               *)
(***************************************************************************)
CONSTANTS
  Requests,
  Original    \* the password and the profile of the registration

ASSUME AccountsAssumption == Original \notin Requests

VARIABLES
  stored,     \* the row: [password, profile]
  op,         \* what a request changes
  old,        \* the current password, says a request to change it
  copy,       \* the row as a request has read it
  pc,         \* what a request does next
  result,     \* the answer of a request
  overlapped, \* history: has a request overwritten a row that had changed since
              \* the request read it
  written,    \* history: the requests whose change was committed, whether or not
              \* they were told
  last        \* history: the latest password and profile that were committed

vars == <<stored, op, old, copy, pc, result, overlapped, written, last>>

Columns == {"password", "profile"}
Values == Requests \cup {Original}

TypeOK ==
  /\ stored \in [Columns -> Values]
  /\ op \in [Requests -> Columns \cup {"none"}]
  /\ old \in [Requests -> Values]
  /\ copy \in [Requests -> [Columns -> Values]]
  /\ pc \in [Requests -> {"idle", "find", "save", "done"}]
  /\ result \in [Requests -> {"none", "ok", "wrong", "error"}]
  /\ overlapped \in BOOLEAN
  /\ written \subseteq Requests
  /\ last \in [Columns -> Values]

Registered == [c \in Columns |-> Original]

Init ==
  /\ stored = Registered
  /\ op = [r \in Requests |-> "none"]
  /\ old = [r \in Requests |-> Original]
  /\ copy = [r \in Requests |-> Registered]
  /\ pc = [r \in Requests |-> "idle"]
  /\ result = [r \in Requests |-> "none"]
  /\ overlapped = FALSE
  /\ written = {}
  /\ last = Registered

-----------------------------------------------------------------------------
(***************************************************************************)
(* Plausible bugs: wrong versions of definitions below that no action uses. *)
(***************************************************************************)

\* The copy is written back with both columns of the request.
ChangedBoth(r) == [c \in Columns |-> r]

\* The old password is not compared.
VerifiedAlways(r) == TRUE

\* The answer of a wrong password is not one of the service's.
RefusedUnknown(r) == "unknown"

-----------------------------------------------------------------------------
Answer(r, res) ==
  /\ pc' = [pc EXCEPT ![r] = "done"]
  /\ result' = [result EXCEPT ![r] = res]

UpdateProfile(r) ==
  /\ pc[r] = "idle"
  /\ op' = [op EXCEPT ![r] = "profile"]
  /\ pc' = [pc EXCEPT ![r] = "find"]
  /\ UNCHANGED <<stored, old, copy, result, overlapped, written, last>>

ChangePassword(r, p) ==
  /\ pc[r] = "idle"
  /\ op' = [op EXCEPT ![r] = "password"]
  /\ old' = [old EXCEPT ![r] = p]
  /\ pc' = [pc EXCEPT ![r] = "find"]
  /\ UNCHANGED <<stored, copy, result, overlapped, written, last>>

\* CompareHashAndPassword, of the old password with the row as it is read.
Verified(r) == op[r] = "password" => old[r] = stored["password"]

Refused(r) == "wrong"

\* FindByID
Find(r) ==
  /\ pc[r] = "find"
  /\ copy' = [copy EXCEPT ![r] = stored]
  /\ \/ Verified(r) /\ pc' = [pc EXCEPT ![r] = "save"] /\ UNCHANGED result
     \/ ~Verified(r) /\ Answer(r, Refused(r))
  /\ UNCHANGED <<stored, op, old, overlapped, written, last>>

\* The copy with the column of the request changed.
Changed(r) == [copy[r] EXCEPT ![op[r]] = r]

\* Save: UPDATE users SET every column.  The database may have committed and
\* its acknowledgement be lost: then the answer is an error.
Save(r) ==
  /\ pc[r] = "save"
  /\ stored' = Changed(r)
  /\ written' = written \cup {r}
  /\ last' = [last EXCEPT ![op[r]] = r]
  /\ overlapped' = (overlapped \/ copy[r] # stored)
  /\ \E res \in {"ok", "error"} : Answer(r, res)
  /\ UNCHANGED <<op, old, copy>>

StatementFails(r) ==
  /\ pc[r] \in {"find", "save"}
  /\ Answer(r, "error")
  /\ UNCHANGED <<stored, op, old, copy, overlapped, written, last>>

Next == \E r \in Requests :
  \/ UpdateProfile(r)
  \/ \E p \in Values : ChangePassword(r, p)
  \/ Find(r) \/ Save(r) \/ StatementFails(r)

Spec == Init /\ [][Next]_vars

-----------------------------------------------------------------------------
(***************************************************************************)
(* Properties                                                               *)
(***************************************************************************)

\* Unless a request wrote back a row that had changed since it was read, the
\* row holds the password and the profile of the latest committed changes.
LastChangesHold == ~overlapped => stored = last

\* Whatever overlaps, only a request that knew a password of the account, the
\* original or that of a committed change before it, can change the password.
PasswordsFormAChain ==
  \A r \in written : op[r] = "password" =>
    old[r] = Original \/ (op[old[r]] = "password" /\ old[r] \in written)

\* user_service_test.go, "Verifikasi bisa login pake password baru": after a
\* change of the password was answered with success, and no other was committed
\* since, the new password is the one that works.
NewPasswordLogsIn ==
  \A r \in Requests :
    result[r] = "ok" /\ last["password"] = r => stored["password"] = r
=============================================================================
