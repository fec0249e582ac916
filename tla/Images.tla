------------------------------ MODULE Images ------------------------------
(***************************************************************************)
(* Images and the threads that show them: upload_service.go beside the      *)
(* requests Create, Update and Delete of thread_service.go.  The database   *)
(* and the image store (Cloudinary) are changed one after the other, by     *)
(* requests that run concurrently, any step of which can fail, and all of   *)
(* which die with the server.  A client puts any URL it knows into a        *)
(* thread, also one that another thread shows.                              *)
(*                                                                          *)
(* An image bears the name of the file it was made of, and its URL too.     *)
(* The cascade of a deletion is in Forum; URLs that are not of the store,   *)
(* and avatars, which are never deleted, are left out.                      *)
(***************************************************************************)
CONSTANTS
  Users,
  Threads,
  Files,        \* what clients upload, each once
  Acceptable,   \* the files whose size, first bytes and extension UploadImage allows
  Requests,     \* the requests that update or delete a thread
  NoImage       \* the empty URL

ASSUME ImagesAssumption ==
  /\ Acceptable \subseteq Files
  /\ NoImage \notin Files
  /\ Users # {} /\ Threads # {}

VARIABLES
  answer,     \* what the upload of a file was answered
  store,      \* Cloudinary: the state of the image of a file
  thread,     \* table threads: the state of its rows
  owner,      \* the user_id of a thread
  url,        \* the image_url of a thread
  op,         \* what a request does
  about,      \* the thread it is about
  image,      \* the URL an update brings, or a deletion read from the row
  pc,         \* what a request does next
  result,     \* the answer of a request
  showed,     \* history: the images a thread ever showed
  raced,      \* history: threads updated after a deletion read their row
  leftover    \* history: images whose deletion was due and failed, or was never
              \* come to

vars == <<answer, store, thread, owner, url, op, about, image, pc, result,
          showed, raced, leftover>>

TypeOK ==
  /\ answer \in [Files -> {"none", "uploaded", "failed", "refused"}]
  /\ store \in [Files -> {"none", "stored", "destroyed"}]
  /\ thread \in [Threads -> {"none", "live", "gone"}]
  /\ owner \in [Threads -> Users]
  /\ url \in [Threads -> Files \cup {NoImage}]
  /\ op \in [Requests -> {"none", "update", "delete"}]
  /\ about \in [Requests -> Threads]
  /\ image \in [Requests -> Files \cup {NoImage}]
  /\ pc \in [Requests -> {"idle", "write", "reread", "destroy", "done"}]
  /\ result \in [Requests -> {"none", "updated", "deleted", "notfound", "forbidden", "error"}]
  /\ showed \in [Threads -> SUBSET Files]
  /\ raced \in SUBSET Threads
  /\ leftover \in SUBSET Files

\* The values of owner and about mean nothing before they are set.
Init ==
  /\ answer = [f \in Files |-> "none"]
  /\ store = [f \in Files |-> "none"]
  /\ thread = [t \in Threads |-> "none"]
  /\ owner = [t \in Threads |-> CHOOSE u \in Users : TRUE]
  /\ url = [t \in Threads |-> NoImage]
  /\ op = [r \in Requests |-> "none"]
  /\ about = [r \in Requests |-> CHOOSE t \in Threads : TRUE]
  /\ image = [r \in Requests |-> NoImage]
  /\ pc = [r \in Requests |-> "idle"]
  /\ result = [r \in Requests |-> "none"]
  /\ showed = [t \in Threads |-> {}]
  /\ raced = {}
  /\ leftover = {}

-----------------------------------------------------------------------------
threadVars == <<thread, owner, url>>
request == <<op, about>>
history == <<showed, raced, leftover>>

GoTo(r, step) ==
  /\ pc' = [pc EXCEPT ![r] = step]
  /\ UNCHANGED result

Answer(r, res) ==
  /\ pc' = [pc EXCEPT ![r] = "done"]
  /\ result' = [result EXCEPT ![r] = res]

InFlight(r) == pc[r] \notin {"idle", "done"}

\* The URLs clients have been told.
Known == {f \in Files : answer[f] = "uploaded"} \cup {NoImage}

\* A thread t shows image i from now on.
Shows(t, i) == [showed EXCEPT ![t] = @ \cup ({i} \ {NoImage})]

-----------------------------------------------------------------------------
(***************************************************************************)
(* Plausible bugs: wrong versions of definitions below that no action uses. *)
(***************************************************************************)

\* Delete goes on when the deletion of the row has failed.
StatementFailsUnseen(r) ==
  /\ pc[r] = "write" /\ op[r] = "delete" /\ image[r] # NoImage
  /\ GoTo(r, "destroy")
  /\ UNCHANGED <<answer, store, threadVars, request, image, history>>

\* Delete asks the store to destroy the image of a thread that has none.
DeleteThreadUnchecked(r) ==
  /\ pc[r] = "write" /\ op[r] = "delete"
  /\ thread' = [thread EXCEPT ![about[r]] = "gone"]
  /\ GoTo(r, "destroy")
  /\ UNCHANGED <<answer, store, owner, url, request, image, history>>

\* Delete checks the owner, but keeps nothing of the row.
FindKeepsNothing(r, o, u, t, i) ==
  /\ pc[r] = "idle" /\ thread[t] = "live" /\ owner[t] = u
  /\ op' = [op EXCEPT ![r] = o]
  /\ about' = [about EXCEPT ![r] = t]
  /\ image' = [image EXCEPT ![r] = IF o = "delete" THEN NoImage ELSE i]
  /\ GoTo(r, "write")
  /\ UNCHANGED <<answer, store, threadVars, history>>

\* Update answers without a second look at the row.
StillThereUnseen(r) == TRUE

-----------------------------------------------------------------------------
(***************************************************************************)
(* Uploads                                                                  *)
(***************************************************************************)

\* UploadImage.  If the call of Cloudinary fails, the image may be there.
Upload(f) ==
  /\ answer[f] = "none"
  /\ \/ /\ f \notin Acceptable
        /\ answer' = [answer EXCEPT ![f] = "refused"]
        /\ UNCHANGED store
     \/ /\ f \in Acceptable
        /\ answer' = [answer EXCEPT ![f] = "uploaded"]
        /\ store' = [store EXCEPT ![f] = "stored"]
     \/ /\ f \in Acceptable
        /\ answer' = [answer EXCEPT ![f] = "failed"]
        /\ \E s \in {"none", "stored"} : store' = [store EXCEPT ![f] = s]
  /\ UNCHANGED <<threadVars, request, image, pc, result, history>>

-----------------------------------------------------------------------------
(***************************************************************************)
(* Threads                                                                  *)
(***************************************************************************)

\* ThreadService.Create: one INSERT.
CreateThread(u, t, i) ==
  /\ thread[t] = "none"
  /\ thread' = [thread EXCEPT ![t] = "live"]
  /\ owner' = [owner EXCEPT ![t] = u]
  /\ url' = [url EXCEPT ![t] = i]
  /\ showed' = Shows(t, i)
  /\ UNCHANGED <<answer, store, request, image, pc, result, raced, leftover>>

\* ThreadService.Update, with the URL i of its body, or Delete: FindByID and the
\* comparison with the owner.  A deletion keeps the URL of the row.
Find(r, o, u, t, i) ==
  /\ pc[r] = "idle"
  /\ op' = [op EXCEPT ![r] = o]
  /\ about' = [about EXCEPT ![r] = t]
  /\ \/ Answer(r, "error") /\ UNCHANGED image
     \/ thread[t] # "live" /\ Answer(r, "notfound") /\ UNCHANGED image
     \/ thread[t] = "live" /\ owner[t] # u /\ Answer(r, "forbidden") /\ UNCHANGED image
     \/ /\ thread[t] = "live" /\ owner[t] = u
        /\ image' = [image EXCEPT ![r] = IF o = "delete" THEN url[t] ELSE i]
        /\ GoTo(r, "write")
  /\ UNCHANGED <<answer, store, threadVars, history>>

\* UPDATE, which changes nothing if the row is gone by now.  If its
\* acknowledgement is lost, the answer is an error.
UpdateThread(r) ==
  /\ pc[r] = "write" /\ op[r] = "update"
  /\ IF thread[about[r]] = "live"
     THEN /\ url' = [url EXCEPT ![about[r]] = image[r]]
          /\ showed' = Shows(about[r], image[r])
          /\ raced' = IF \E d \in Requests : pc[d] = "write" /\ op[d] = "delete"
                                               /\ about[d] = about[r]
                      THEN raced \cup {about[r]} ELSE raced
     ELSE UNCHANGED <<url, showed, raced>>
  /\ GoTo(r, "reread") \/ Answer(r, "error")
  /\ UNCHANGED <<answer, store, thread, owner, request, image, leftover>>

\* FindByID for the answer.
StillThere(r) == thread[about[r]] = "live"

Reread(r) ==
  /\ pc[r] = "reread"
  /\ Answer(r, IF StillThere(r) THEN "updated" ELSE "error")
  /\ UNCHANGED <<answer, store, threadVars, request, image, history>>

\* The soft deletion, of a row that may be gone by now.  If its acknowledgement
\* is lost, Delete returns before it comes to the image.
DeleteThread(r) ==
  /\ pc[r] = "write" /\ op[r] = "delete"
  /\ thread' = [thread EXCEPT ![about[r]] = "gone"]
  /\ \/ image[r] = NoImage /\ Answer(r, "deleted") /\ UNCHANGED leftover
     \/ image[r] # NoImage /\ GoTo(r, "destroy") /\ UNCHANGED leftover
     \/ Answer(r, "error") /\ leftover' = leftover \cup ({image[r]} \ {NoImage})
  /\ UNCHANGED <<answer, store, owner, url, request, image, showed, raced>>

\* DeleteImage, whose failure nobody is told of.
DestroyImage(r) ==
  /\ pc[r] = "destroy"
  /\ \/ store' = [store EXCEPT ![image[r]] = "destroyed"] /\ UNCHANGED leftover
     \/ leftover' = leftover \cup {image[r]} /\ UNCHANGED store
  /\ Answer(r, "deleted")
  /\ UNCHANGED <<answer, threadVars, request, image, showed, raced>>

StatementFails(r) ==
  /\ pc[r] \in {"write", "reread"}
  /\ Answer(r, "error")
  /\ UNCHANGED <<answer, store, threadVars, request, image, history>>

\* The server ends, and no request in flight is taken up again.
Crash ==
  /\ \E r \in Requests : InFlight(r)
  /\ pc' = [r \in Requests |-> IF InFlight(r) THEN "done" ELSE pc[r]]
  /\ leftover' = leftover \cup {image[r] : r \in {q \in Requests : pc[q] = "destroy"}}
  /\ UNCHANGED <<answer, store, threadVars, request, image, result, showed, raced>>

Step(r) ==
  \/ UpdateThread(r) \/ Reread(r)
  \/ DeleteThread(r) \/ DestroyImage(r) \/ StatementFails(r)

Next ==
  \/ \E f \in Files : Upload(f)
  \/ \E u \in Users, t \in Threads, i \in Known : CreateThread(u, t, i)
  \/ \E r \in Requests :
       \/ \E u \in Users, t \in Threads : Find(r, "delete", u, t, NoImage)
       \/ \E u \in Users, t \in Threads, i \in Known : Find(r, "update", u, t, i)
       \/ Step(r)
  \/ Crash

Spec == Init /\ [][Next]_vars

-----------------------------------------------------------------------------
(***************************************************************************)
(* Properties                                                               *)
(***************************************************************************)

\* thread_service.go, "Cloudinary cleanup (best-effort, after DB success)": an
\* image is destroyed only when a thread that showed it has been deleted.  So a
\* live thread can lose its image only to the deletion of another one that
\* showed the same.
DestroyedOnlyWithThread ==
  \A f \in Files : store[f] = "destroyed" =>
    \E t \in Threads : thread[t] = "gone" /\ f \in showed[t]

\* README, "Auto-delete from Cloudinary when thread deleted": the image of a
\* deleted thread is destroyed or about to be, unless the store refused, the
\* server died or the database's acknowledgement was lost, or the image came with
\* an update in the middle of the deletion.
ImageGoesWithThread ==
  \A t \in Threads \ raced : thread[t] = "gone" /\ url[t] # NoImage =>
    \/ store[url[t]] = "destroyed"
    \/ url[t] \in leftover
    \/ \E d \in Requests : pc[d] = "destroy" /\ image[d] = url[t]

\* Update does not look at the number of rows it changed; all the same, who is
\* told that his update was made had his image shown by the thread.
UpdatedWasShown ==
  \A r \in Requests : result[r] = "updated" /\ image[r] # NoImage =>
    image[r] \in showed[about[r]]
=============================================================================
