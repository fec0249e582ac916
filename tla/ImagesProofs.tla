---------------------------- MODULE ImagesProofs ----------------------------
(***************************************************************************)
(* For every set of users, threads, files and requests: what Images says of *)
(* destroyed and of remaining images.                                       *)
(*                                                                          *)
(* The promises are about rows and images; what carries them through the    *)
(* steps in between is what a request holds (Underway, HoldsCurrent,        *)
(* Reshown): a URL its thread has shown, which is still the one in the row  *)
(* unless an update got in between.                                         *)
(***************************************************************************)
EXTENDS Images, TLAPS

\* A request past its check is about a thread that was created; what a deletion
\* holds, the thread has shown; and there is something to destroy only after
\* the row is deleted.
Underway ==
  \A r \in Requests :
    /\ result[r] # "none" => pc[r] = "done"
    /\ pc[r] \in {"write", "reread"} => thread[about[r]] # "none"
    /\ op[r] = "delete" /\ pc[r] = "write" /\ image[r] # NoImage => image[r] \in showed[about[r]]
    /\ pc[r] = "destroy" => thread[about[r]] = "gone" /\ image[r] # NoImage
                              /\ image[r] \in showed[about[r]]

\* A deletion still to be made holds the URL of the row, or there was a race.
HoldsCurrent ==
  \A r \in Requests :
    op[r] = "delete" /\ pc[r] = "write" /\ thread[about[r]] = "live" /\ about[r] \notin raced
      => image[r] = url[about[r]]

\* If the thread is still there, what an update wrote was shown.
Reshown ==
  \A r \in Requests : pc[r] = "reread" /\ thread[about[r]] = "live" /\ image[r] # NoImage
    => image[r] \in showed[about[r]]

\* The URL in a row was shown.
RowShown == \A t \in Threads : url[t] # NoImage => url[t] \in showed[t]

\* Rows and requests have URLs that clients were told, of uploads that were made.
Told ==
  /\ \A r \in Requests : image[r] \in Known
  /\ \A t \in Threads : url[t] \in Known
  /\ \A f \in Files : answer[f] = "none" => store[f] = "none"

Promises == DestroyedOnlyWithThread /\ ImageGoesWithThread /\ UpdatedWasShown

IInv == TypeOK /\ Underway /\ HoldsCurrent /\ Reshown /\ RowShown /\ Told /\ Promises

-----------------------------------------------------------------------------
LEMMA InitInv == Init => IInv
<1> SUFFICES ASSUME Init PROVE IInv
  OBVIOUS
<1> USE ImagesAssumption DEF Init
<1>1. TypeOK
  BY DEF TypeOK
<1>2. Underway /\ HoldsCurrent /\ Reshown /\ RowShown /\ Told
  BY DEF Underway, HoldsCurrent, Reshown, RowShown, Told, Known
<1>3. Promises
  BY DEF Promises, DestroyedOnlyWithThread, ImageGoesWithThread, UpdatedWasShown
<1>4. QED BY <1>1, <1>2, <1>3 DEF IInv

\* An upload makes an image, and touches nothing else.
LEMMA UploadStep ==
  ASSUME IInv, NEW f \in Files, Upload(f)
  PROVE  IInv'
<1> USE ImagesAssumption DEF IInv, TypeOK, threadVars, request, history, Upload
<1>1. TypeOK'
  OBVIOUS
<1>2. Told'
  BY DEF Told, Known
<1>3. (Underway /\ HoldsCurrent /\ Reshown /\ RowShown)'
  BY DEF Underway, HoldsCurrent, Reshown, RowShown
<1>4. \A g \in Files : store[g] = "destroyed" <=> store'[g] = "destroyed"
  BY DEF Told
<1>5. \A t \in Threads : url[t] # NoImage => url[t] # f
  BY DEF Told, Known
<1>6. Promises'
  BY <1>4, <1>5 DEF Promises, DestroyedOnlyWithThread, ImageGoesWithThread, UpdatedWasShown
<1>7. QED BY <1>1, <1>2, <1>3, <1>6

LEMMA CreateThreadStep ==
  ASSUME IInv, NEW u \in Users, NEW t \in Threads, NEW i \in Known, CreateThread(u, t, i)
  PROVE  IInv'
<1> USE ImagesAssumption DEF IInv, TypeOK, threadVars, request, history, CreateThread, Shows
<1>1. i \in Files \cup {NoImage}
  BY DEF Known
<1>2. TypeOK' /\ Told'
  BY <1>1 DEF Told, Known
<1>3. (Underway /\ HoldsCurrent /\ Reshown /\ RowShown)'
  BY <1>1 DEF Underway, HoldsCurrent, Reshown, RowShown
<1>4. Promises'
  BY <1>1 DEF Promises, DestroyedOnlyWithThread, ImageGoesWithThread, UpdatedWasShown
<1>5. QED BY <1>2, <1>3, <1>4

\* A deletion takes the URL of a row that is there.
LEMMA FindStep ==
  ASSUME IInv, NEW r \in Requests, NEW o \in {"update", "delete"}, NEW u \in Users,
         NEW t \in Threads, NEW i \in Known, Find(r, o, u, t, i)
  PROVE  IInv'
<1> USE ImagesAssumption DEF IInv, TypeOK, threadVars, request, history, Find, GoTo, Answer
<1>1. i \in Files \cup {NoImage}
  BY DEF Known
<1>2. url[t] \in Known /\ url[t] \in Files \cup {NoImage}
  BY DEF Told
<1>3. TypeOK'
  BY <1>1, <1>2
<1>4. Told'
  BY <1>2 DEF Told, Known
<1>5. Underway'
  BY <1>1 DEF Underway, RowShown
<1>6. (HoldsCurrent /\ Reshown /\ RowShown)'
  BY <1>1 DEF HoldsCurrent, Reshown, RowShown
<1>7. Promises'
  BY <1>1 DEF Underway, Promises, DestroyedOnlyWithThread, ImageGoesWithThread, UpdatedWasShown
<1>8. QED BY <1>3, <1>4, <1>5, <1>6, <1>7

\* The row gets the URL of the request, unless it is gone; a deletion that holds
\* the one before makes this a race.
LEMMA UpdateThreadStep ==
  ASSUME IInv, NEW r \in Requests, UpdateThread(r)
  PROVE  IInv'
<1> USE ImagesAssumption DEF IInv, TypeOK, threadVars, request, history, UpdateThread, GoTo, Answer, Shows
<1>1. TypeOK' /\ Told'
  <2>1. CASE thread[about[r]] = "live"
    <3>1. url' \in [Threads -> Files \cup {NoImage}]
      BY <2>1
    <3>2. showed' \in [Threads -> SUBSET Files]
      BY <2>1
    <3>3. raced' \in SUBSET Threads
      BY <2>1
    <3>4. \A t \in Threads : url'[t] \in Known
      BY <2>1 DEF Told
    <3>5. QED BY <3>1, <3>2, <3>3, <3>4 DEF Told, Known
  <2>2. CASE thread[about[r]] # "live"
    BY <2>2 DEF Told, Known
  <2>3. QED BY <2>1, <2>2
<1>2. (\A t \in Threads : showed[t] \subseteq showed'[t]) /\ raced \subseteq raced'
  OBVIOUS
<1>3. Underway'
  BY <1>2 DEF Underway
<1>4. HoldsCurrent'
  BY DEF HoldsCurrent
<1>5. Reshown' /\ RowShown'
  BY <1>2 DEF Underway, Reshown, RowShown
<1>6. Promises'
  BY <1>2 DEF Underway, Promises, DestroyedOnlyWithThread, ImageGoesWithThread, UpdatedWasShown
<1>7. QED BY <1>1, <1>3, <1>4, <1>5, <1>6

LEMMA RereadStep ==
  ASSUME IInv, NEW r \in Requests, Reread(r)
  PROVE  IInv'
<1> USE ImagesAssumption DEF IInv, TypeOK, threadVars, request, history, Reread, StillThere, Answer
<1>1. TypeOK' /\ Told'
  BY DEF Told, Known
<1>2. (Underway /\ HoldsCurrent /\ Reshown /\ RowShown)'
  BY DEF Underway, HoldsCurrent, Reshown, RowShown
<1>3. Promises'
  BY DEF Reshown, Promises, DestroyedOnlyWithThread, ImageGoesWithThread, UpdatedWasShown
<1>4. QED BY <1>1, <1>2, <1>3

\* If this deletes the row without a race, the request holds the image to destroy.
LEMMA DeleteThreadStep ==
  ASSUME IInv, NEW r \in Requests, DeleteThread(r)
  PROVE  IInv'
<1> USE ImagesAssumption DEF IInv, TypeOK, threadVars, request, history, DeleteThread, GoTo, Answer
<1>1. TypeOK' /\ Told'
  BY DEF Told, Known
<1>2. (Underway /\ HoldsCurrent /\ Reshown /\ RowShown)'
  BY DEF Underway, HoldsCurrent, Reshown, RowShown
<1>3. DestroyedOnlyWithThread' /\ UpdatedWasShown'
  BY DEF Underway, Promises, DestroyedOnlyWithThread, UpdatedWasShown
<1>4. ImageGoesWithThread'
  <2> SUFFICES ASSUME NEW t \in Threads, t \notin raced, thread'[t] = "gone", url[t] # NoImage,
                      store[url[t]] # "destroyed", url[t] \notin leftover'
               PROVE  \E d \in Requests : pc'[d] = "destroy" /\ image[d] = url[t]
    BY DEF ImageGoesWithThread
  <2>1. CASE thread[t] = "gone"
    <3>1. PICK d \in Requests : pc[d] = "destroy" /\ image[d] = url[t]
      BY <2>1 DEF Promises, ImageGoesWithThread
    <3>2. QED BY <3>1
  <2>2. CASE thread[t] # "gone"
    <3>1. t = about[r] /\ thread[t] = "live"
      BY <2>2 DEF Underway
    <3>2. QED BY <3>1 DEF HoldsCurrent
  <2>3. QED BY <2>1, <2>2
<1>5. QED BY <1>1, <1>2, <1>3, <1>4 DEF Promises

LEMMA DestroyImageStep ==
  ASSUME IInv, NEW r \in Requests, DestroyImage(r)
  PROVE  IInv'
<1> USE ImagesAssumption DEF IInv, TypeOK, threadVars, request, history, DestroyImage, Answer
<1>1. image[r] \in Files
  BY DEF Underway
<1>2. TypeOK'
  BY <1>1
<1>3. Told'
  BY <1>1 DEF Told, Known
<1>4. (Underway /\ HoldsCurrent /\ Reshown /\ RowShown)'
  BY DEF Underway, HoldsCurrent, Reshown, RowShown
<1>5. DestroyedOnlyWithThread' /\ UpdatedWasShown'
  BY <1>1 DEF Underway, Promises, DestroyedOnlyWithThread, UpdatedWasShown
<1>6. ImageGoesWithThread'
  <2> SUFFICES ASSUME NEW t \in Threads, t \notin raced, thread[t] = "gone", url[t] # NoImage,
                      store'[url[t]] # "destroyed", url[t] \notin leftover'
               PROVE  \E d \in Requests : pc'[d] = "destroy" /\ image[d] = url[t]
    BY DEF ImageGoesWithThread
  <2>1. PICK d \in Requests : pc[d] = "destroy" /\ image[d] = url[t]
    BY <1>1 DEF Promises, ImageGoesWithThread
  <2>2. d # r
    BY <1>1, <2>1
  <2>3. QED BY <2>1, <2>2
<1>7. QED BY <1>2, <1>3, <1>4, <1>5, <1>6 DEF Promises

LEMMA StatementFailsStep ==
  ASSUME IInv, NEW r \in Requests, StatementFails(r)
  PROVE  IInv'
<1> USE ImagesAssumption DEF IInv, TypeOK, threadVars, request, history, StatementFails, Answer
<1>1. TypeOK' /\ Told'
  BY DEF Told, Known
<1>2. (Underway /\ HoldsCurrent /\ Reshown /\ RowShown)'
  BY DEF Underway, HoldsCurrent, Reshown, RowShown
<1>3. Promises'
  BY DEF Promises, DestroyedOnlyWithThread, ImageGoesWithThread, UpdatedWasShown
<1>4. QED BY <1>1, <1>2, <1>3

\* What was to be destroyed is left over.
LEMMA CrashStep ==
  ASSUME IInv, Crash
  PROVE  IInv'
<1> USE ImagesAssumption DEF IInv, TypeOK, threadVars, request, history, Crash, InFlight
<1>1. \A r \in Requests : pc[r] = "destroy" => image[r] \in Files \cap leftover'
  BY DEF Underway
<1>2. TypeOK'
  BY <1>1 DEF Underway
<1>3. Told'
  BY DEF Told, Known
<1>4. (Underway /\ HoldsCurrent /\ Reshown /\ RowShown)'
  BY DEF Underway, HoldsCurrent, Reshown, RowShown
<1>5. Promises'
  BY <1>1 DEF Promises, DestroyedOnlyWithThread, ImageGoesWithThread, UpdatedWasShown
<1>6. QED BY <1>2, <1>3, <1>4, <1>5

LEMMA NextInv == IInv /\ [Next]_vars => IInv'
<1> SUFFICES ASSUME IInv, [Next]_vars PROVE IInv'
  OBVIOUS
<1>1. CASE UNCHANGED vars
  BY <1>1 DEF vars, IInv, TypeOK, Underway, HoldsCurrent, Reshown, RowShown, Told, Known,
              Promises, DestroyedOnlyWithThread, ImageGoesWithThread, UpdatedWasShown
<1>2. CASE Next
  <2>1. NoImage \in Known
    BY DEF Known
  <2>2. QED BY <1>2, <2>1, UploadStep, CreateThreadStep, FindStep, UpdateThreadStep, RereadStep,
               DeleteThreadStep, DestroyImageStep, StatementFailsStep, CrashStep DEF Next, Step
<1>3. QED BY <1>1, <1>2

\* What requests hold fits the rows, in every behaviour.
THEOREM Invariance == Spec => []IInv
BY InitInv, NextInv, PTL DEF Spec

\* Types, of the store, the rows and the requests.
THEOREM TypeCorrect == Spec => []TypeOK
<1>1. IInv => TypeOK
  BY DEF IInv
<1>2. QED BY <1>1, Invariance, PTL

\* Only the deletion of a thread that showed it destroys an image.
THEOREM DestroyedWithThread == Spec => []DestroyedOnlyWithThread
<1>1. IInv => DestroyedOnlyWithThread
  BY DEF IInv, Promises
<1>2. QED BY <1>1, Invariance, PTL

\* Without a race or a failure the image of a deleted thread goes with it.
THEOREM GoesWithThread == Spec => []ImageGoesWithThread
<1>1. IInv => ImageGoesWithThread
  BY DEF IInv, Promises
<1>2. QED BY <1>1, Invariance, PTL

\* An update that was answered was made.
THEOREM UpdateShown == Spec => []UpdatedWasShown
<1>1. IInv => UpdatedWasShown
  BY DEF IInv, Promises
<1>2. QED BY <1>1, Invariance, PTL
=============================================================================
