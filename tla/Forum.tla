------------------------------- MODULE Forum -------------------------------
(***************************************************************************)
(* Threads, their comments and replies, likes and chat messages: the        *)
(* requests of thread_service.go, comment_service.go and like_service.go    *)
(* against the tables, one step per SQL statement.  database.go sets        *)
(* SkipDefaultTransaction, so every statement commits on its own, and the   *)
(* deletion of a thread is four of them.  Requests run concurrently, any    *)
(* statement can fail and the server can die.  Rows are deleted softly      *)
(* ("gone"), likes for good.                                                *)
(*                                                                          *)
(* A request inserts at most one row, which bears its name.  Titles,        *)
(* contents and images are left out, and so is ThreadService.Update, which  *)
(* writes nothing else and is in Images; the listings are in Listing.       *)
(***************************************************************************)
EXTENDS FiniteSets

CONSTANTS
  Users,
  Threads,
  Requests,   \* the requests to the forum, and the messages of the chat
  NoRow       \* no row

ASSUME ForumAssumption ==
  /\ IsFiniteSet(Requests)
  /\ NoRow \notin Requests
  /\ Users # {}
  /\ Threads # {}

VARIABLES
  thread,     \* table threads: the state of its rows
  owner,      \* the user_id of a thread
  row,        \* tables comments, likes and messages: the state of r's row
  op,         \* what a request does
  user,       \* the user who makes it
  about,      \* the thread it is about
  target,     \* the parent of a comment, the comment to delete, the like found
  pc,         \* the statement a request is about to run
  result,     \* the answer of a request
  alone,      \* history: the toggles, and views, of a user about a thread that
              \* have overlapped no toggle of his of that thread
  shown,      \* history: what a user was last told of his like; "unsure" if this
              \* was by a request that is not alone, or an error after a toggle,
              \* or an is_liked that could not be looked up
  swept,      \* history: threads with a cascade begun
  late,       \* history: rows inserted after a cascade that should include them
  spared      \* history: rows that were there when a statement of a cascade failed

vars == <<thread, owner, row, op, user, about, target, pc, result, alone, shown,
          swept, late, spared>>

Operations == {"like", "view", "comment", "message", "uncomment", "delete"}
Statements == {"likeThread", "findLike", "deleteLike", "insertLike", "count",
               "viewThread", "viewLike",
               "commentThread", "findParent", "insertComment",
               "findComment", "deleteComment", "deleteReplies",
               "findThread", "wipeComments", "wipeLikes", "wipeMessages", "deleteThread"}
Results == {"none", "liked", "unliked", "created", "deleted", "notfound", "forbidden",
            "invalid", "conflict", "error"}

TypeOK ==
  /\ thread \in [Threads -> {"none", "live", "gone"}]
  /\ owner \in [Threads -> Users]
  /\ row \in [Requests -> {"none", "live", "gone"}]
  /\ op \in [Requests -> Operations \cup {"none"}]
  /\ user \in [Requests -> Users]
  /\ about \in [Requests -> Threads]
  /\ target \in [Requests -> Requests \cup {NoRow}]
  /\ pc \in [Requests -> Statements \cup {"idle", "done"}]
  /\ result \in [Requests -> Results]
  /\ alone \in SUBSET Requests
  /\ shown \in [Users -> [Threads -> {"liked", "unliked", "unsure"}]]
  /\ swept \in SUBSET Threads
  /\ late \in SUBSET Requests
  /\ spared \in SUBSET Requests

\* The values of owner, user, about and target mean nothing before they are set.
Init ==
  /\ thread = [t \in Threads |-> "none"]
  /\ owner = [t \in Threads |-> CHOOSE u \in Users : TRUE]
  /\ row = [r \in Requests |-> "none"]
  /\ op = [r \in Requests |-> "none"]
  /\ user = [r \in Requests |-> CHOOSE u \in Users : TRUE]
  /\ about = [r \in Requests |-> CHOOSE t \in Threads : TRUE]
  /\ target = [r \in Requests |-> NoRow]
  /\ pc = [r \in Requests |-> "idle"]
  /\ result = [r \in Requests |-> "none"]
  /\ alone = {}
  /\ shown = [u \in Users |-> [t \in Threads |-> "unliked"]]
  /\ swept = {}
  /\ late = {}
  /\ spared = {}

-----------------------------------------------------------------------------
tables == <<thread, owner, row>>
request == <<op, user, about>>
history == <<alone, shown, swept, late, spared>>

GoTo(r, statement) ==
  /\ pc' = [pc EXCEPT ![r] = statement]
  /\ UNCHANGED result

Answer(r, res) ==
  /\ pc' = [pc EXCEPT ![r] = "done"]
  /\ result' = [result EXCEPT ![r] = res]

Begin(r, o, u, t) ==
  /\ pc[r] = "idle"
  /\ op' = [op EXCEPT ![r] = o]
  /\ user' = [user EXCEPT ![r] = u]
  /\ about' = [about EXCEPT ![r] = t]

\* The rows of a table, whatever their state, and those of a thread.
RowsOf(o) == {r \in Requests : op[r] = o /\ row[r] # "none"}
RowsIn(o, t) == {r \in RowsOf(o) : about[r] = t}

\* UPDATE ... SET deleted_at: what is live among these rows is gone.
SoftDeleted(rs) == [r \in Requests |-> IF r \in rs /\ row[r] = "live" THEN "gone" ELSE row[r]]

\* INSERT: a history variable tells the rows a cascade should have included.
Inserted(r) == [row EXCEPT ![r] = "live"]
LateWith(r) ==
  IF about[r] \in swept \/ (op[r] = "comment" /\ target[r] # NoRow /\ row[target[r]] # "live")
  THEN late \cup {r} ELSE late

InFlight(r) == pc[r] \notin {"idle", "done"}

\* The requests under way that do one of os, of u about t.
UnderWay(os, u, t) ==
  {q \in Requests : InFlight(q) /\ op[q] \in os /\ user[q] = u /\ about[q] = t}

\* r is alone if it begins while no toggle of u about t is under way.
AloneWith(r, u, t) == IF UnderWay({"like"}, u, t) = {} THEN alone \cup {r} ELSE alone

Told(r, what) ==
  [shown EXCEPT ![user[r]][about[r]] = IF r \in alone THEN what ELSE "unsure"]

-----------------------------------------------------------------------------
(***************************************************************************)
(* Plausible bugs: wrong versions of definitions below that no action uses. *)
(***************************************************************************)

\* An unlike deletes softly.
WithoutLikeSoft(l) == SoftDeleted({l})

\* likes has no unique index.
TakenNever(r) == FALSE

\* Toggle looks for a like of anybody.
SameLikeOfAnybody(q, r) == op[q] = "like" /\ about[q] = about[r]

\* Toggle answers with the like it found.
LikedFound(r) == IF target[r] = NoRow THEN "liked" ELSE target[r]

\* CommentService.Delete does not ask who wrote the comment.
FindCommentOfAnybody(r) ==
  /\ pc[r] = "findComment"
  /\ \/ row[target[r]] # "live" /\ Answer(r, "notfound")
     \/ row[target[r]] = "live" /\ GoTo(r, "deleteComment")
  /\ UNCHANGED <<tables, request, target, history>>

\* The hook deletes only what the owner of the thread wrote.
CascadedOwn(o, t) == SoftDeleted({r \in RowsIn(o, t) : user[r] = owner[t]})

\* The replies of a comment are not deleted with it.
RepliesDeletedNone(c) == row

-----------------------------------------------------------------------------
(***************************************************************************)
(* Threads                                                                  *)
(***************************************************************************)

\* ThreadService.Create: one INSERT.
CreateThread(u, t) ==
  /\ thread[t] = "none"
  /\ thread' = [thread EXCEPT ![t] = "live"]
  /\ owner' = [owner EXCEPT ![t] = u]
  /\ UNCHANGED <<row, request, target, pc, result, history>>

\* ThreadService.Delete
RequestDelete(r, u, t) ==
  /\ Begin(r, "delete", u, t)
  /\ GoTo(r, "findThread")
  /\ UNCHANGED <<tables, target, history>>

\* FindByID and the comparison with the owner.
FindThread(r) ==
  /\ pc[r] = "findThread"
  /\ \/ thread[about[r]] # "live" /\ Answer(r, "notfound")
     \/ thread[about[r]] = "live" /\ owner[about[r]] # user[r] /\ Answer(r, "forbidden")
     \/ thread[about[r]] = "live" /\ owner[about[r]] = user[r] /\ GoTo(r, "wipeComments")
  /\ UNCHANGED <<tables, request, target, history>>

\* The statement on one table of the hook BeforeDelete.
Cascaded(o, t) == SoftDeleted(RowsIn(o, t))

\* The hook's statements on comments, likes and messages; their errors are ignored.
Wipe(r, statement, o, next) ==
  /\ pc[r] = statement
  /\ \/ row' = Cascaded(o, about[r]) /\ UNCHANGED spared
     \/ spared' = spared \cup RowsIn(o, about[r]) /\ UNCHANGED row
  /\ swept' = swept \cup {about[r]}
  /\ GoTo(r, next)
  /\ UNCHANGED <<thread, owner, request, target, alone, shown, late>>

WipeComments(r) == Wipe(r, "wipeComments", "comment", "wipeLikes")
WipeLikes(r) == Wipe(r, "wipeLikes", "like", "wipeMessages")
WipeMessages(r) == Wipe(r, "wipeMessages", "message", "deleteThread")

\* If the acknowledgement is lost, the answer is an error.
DeleteThread(r) ==
  /\ pc[r] = "deleteThread"
  /\ thread' = [thread EXCEPT ![about[r]] = IF @ = "live" THEN "gone" ELSE @]
  /\ \E res \in {"deleted", "error"} : Answer(r, res)
  /\ UNCHANGED <<owner, row, request, target, history>>

-----------------------------------------------------------------------------
(***************************************************************************)
(* Comments and replies                                                     *)
(***************************************************************************)

\* CommentService.Create; p is the parent_id of the body, or NoRow.  The parent
\* was read from a listing or from an answer, so it is a comment that exists.
RequestComment(r, u, t, p) ==
  /\ p \in RowsOf("comment") \cup {NoRow}
  /\ Begin(r, "comment", u, t)
  /\ target' = [target EXCEPT ![r] = p]
  /\ GoTo(r, "commentThread")
  /\ UNCHANGED <<tables, history>>

\* FindThreadExists
CommentThread(r) ==
  /\ pc[r] = "commentThread"
  /\ \/ thread[about[r]] # "live" /\ Answer(r, "notfound")
     \/ thread[about[r]] = "live" /\ target[r] = NoRow /\ GoTo(r, "insertComment")
     \/ thread[about[r]] = "live" /\ target[r] # NoRow /\ GoTo(r, "findParent")
  /\ UNCHANGED <<tables, request, target, history>>

\* FindByID of the parent, and the comparison of the threads.
FindParent(r) ==
  /\ pc[r] = "findParent"
  /\ \/ row[target[r]] # "live" /\ Answer(r, "notfound")
     \/ row[target[r]] = "live" /\ about[target[r]] # about[r] /\ Answer(r, "invalid")
     \/ row[target[r]] = "live" /\ about[target[r]] = about[r] /\ GoTo(r, "insertComment")
  /\ UNCHANGED <<tables, request, target, history>>

\* Create, and FindByIDWithUser for the answer, which can fail when the row is in.
InsertComment(r) ==
  /\ pc[r] = "insertComment"
  /\ row' = Inserted(r)
  /\ late' = LateWith(r)
  /\ \E res \in {"created", "error"} : Answer(r, res)
  /\ UNCHANGED <<thread, owner, request, target, alone, shown, swept, spared>>

\* CommentService.Delete
RequestUncomment(r, u, c) ==
  /\ c \in RowsOf("comment")
  /\ Begin(r, "uncomment", u, about[c])
  /\ target' = [target EXCEPT ![r] = c]
  /\ GoTo(r, "findComment")
  /\ UNCHANGED <<tables, history>>

\* FindByID and the comparison with the author.
FindComment(r) ==
  /\ pc[r] = "findComment"
  /\ \/ row[target[r]] # "live" /\ Answer(r, "notfound")
     \/ row[target[r]] = "live" /\ user[target[r]] # user[r] /\ Answer(r, "forbidden")
     \/ row[target[r]] = "live" /\ user[target[r]] = user[r] /\ GoTo(r, "deleteComment")
  /\ UNCHANGED <<tables, request, target, history>>

\* If the acknowledgement is lost, Delete returns before it comes to the replies.
DeleteComment(r) ==
  /\ pc[r] = "deleteComment"
  /\ row' = SoftDeleted({target[r]})
  /\ GoTo(r, "deleteReplies") \/ Answer(r, "error")
  /\ UNCHANGED <<thread, owner, request, target, history>>

\* The comments whose parent_id is c: its replies, not theirs.
Replies(c) == {r \in RowsOf("comment") : target[r] = c}

\* DeleteRepliesByParentID
RepliesDeleted(c) == SoftDeleted(Replies(c))

DeleteReplies(r) ==
  /\ pc[r] = "deleteReplies"
  /\ row' = RepliesDeleted(target[r])
  /\ \E res \in {"deleted", "error"} : Answer(r, res)
  /\ UNCHANGED <<thread, owner, request, target, history>>

-----------------------------------------------------------------------------
(***************************************************************************)
(* Likes                                                                    *)
(***************************************************************************)

SameLike(q, r) == op[q] = "like" /\ user[q] = user[r] /\ about[q] = about[r]

\* LikeService.Toggle
RequestToggle(r, u, t) ==
  /\ Begin(r, "like", u, t)
  /\ GoTo(r, "likeThread")
  /\ alone' = AloneWith(r, u, t) \ UnderWay({"like", "view"}, u, t)
  /\ UNCHANGED <<tables, target, shown, swept, late, spared>>

\* FindThreadExists
LikeThread(r) ==
  /\ pc[r] = "likeThread"
  /\ \/ thread[about[r]] # "live" /\ Answer(r, "notfound")
     \/ thread[about[r]] = "live" /\ GoTo(r, "findLike")
  /\ UNCHANGED <<tables, request, target, history>>

\* FindByUserAndThread, which does not see rows that are gone.
FindLike(r) ==
  /\ pc[r] = "findLike"
  /\ \/ \E l \in RowsOf("like") :
          /\ row[l] = "live" /\ SameLike(l, r)
          /\ target' = [target EXCEPT ![r] = l]
          /\ GoTo(r, "deleteLike")
     \/ /\ \A l \in RowsOf("like") : row[l] = "live" => ~SameLike(l, r)
        /\ GoTo(r, "insertLike")
        /\ UNCHANGED target
  /\ UNCHANGED <<tables, request, history>>

\* DELETE for good, of the like with this id.
WithoutLike(l) == [row EXCEPT ![l] = "none"]

DeleteLike(r) ==
  /\ pc[r] = "deleteLike"
  /\ row' = WithoutLike(target[r])
  /\ GoTo(r, "count")
  /\ UNCHANGED <<thread, owner, request, target, history>>

\* The unique index idx_user_thread, which counts the rows that are gone.
Taken(r) == \E l \in RowsOf("like") : SameLike(l, r)

InsertLike(r) ==
  /\ pc[r] = "insertLike"
  /\ \/ /\ ~Taken(r)
        /\ row' = Inserted(r)
        /\ late' = LateWith(r)
        /\ GoTo(r, "count")
     \/ /\ Taken(r)
        /\ Answer(r, "conflict")
        /\ UNCHANGED <<row, late>>
  /\ UNCHANGED <<thread, owner, request, target, alone, shown, swept, spared>>

\* What Toggle answers: whether it had found no like.
Liked(r) == IF target[r] = NoRow THEN "liked" ELSE "unliked"

\* CountByThread, and the answer.
Count(r) ==
  /\ pc[r] = "count"
  /\ Answer(r, Liked(r))
  /\ shown' = Told(r, Liked(r))
  /\ UNCHANGED <<tables, request, target, alone, swept, late, spared>>

\* The like was toggled, and the answer is an error all the same.
CountFails(r) ==
  /\ pc[r] = "count"
  /\ Answer(r, "error")
  /\ shown' = Told(r, "unsure")
  /\ UNCHANGED <<tables, request, target, alone, swept, late, spared>>

-----------------------------------------------------------------------------
(***************************************************************************)
(* The view of a thread                                                     *)
(***************************************************************************)

\* ThreadService.GetByID
RequestView(r, u, t) ==
  /\ Begin(r, "view", u, t)
  /\ GoTo(r, "viewThread")
  /\ alone' = AloneWith(r, u, t)
  /\ UNCHANGED <<tables, target, shown, swept, late, spared>>

\* The subquery of FindByID on likes, which does not look at deleted_at.
LikeCount(t) == Cardinality(RowsIn("like", t))

\* FindByID, with the subqueries.
ViewThread(r) ==
  /\ pc[r] = "viewThread"
  /\ \/ thread[about[r]] # "live" /\ Answer(r, "notfound")
     \/ thread[about[r]] = "live" /\ GoTo(r, "viewLike")
  /\ UNCHANGED <<tables, request, target, history>>

\* checkIsLiked, and the answer.
IsLiked(r) == IF \E l \in RowsOf("like") : row[l] = "live" /\ SameLike(l, r)
              THEN "liked" ELSE "unliked"

ViewLike(r) ==
  /\ pc[r] = "viewLike"
  /\ Answer(r, IsLiked(r))
  /\ shown' = Told(r, IsLiked(r))
  /\ UNCHANGED <<tables, request, target, alone, swept, late, spared>>

\* To checkIsLiked a query that fails is a like that is not there.
ViewLikeFails(r) ==
  /\ pc[r] = "viewLike"
  /\ Answer(r, "unliked")
  /\ shown' = Told(r, "unsure")
  /\ UNCHANGED <<tables, request, target, alone, swept, late, spared>>

-----------------------------------------------------------------------------
(***************************************************************************)
(* Chat messages, failures and crashes                                      *)
(***************************************************************************)

\* ReadPump's saveFn: one INSERT, which asks only that the thread has a row.
SaveMessage(r, u, t) ==
  /\ thread[t] # "none"
  /\ Begin(r, "message", u, t)
  /\ row' = Inserted(r)
  /\ late' = IF t \in swept THEN late \cup {r} ELSE late
  /\ Answer(r, "created")
  /\ UNCHANGED <<thread, owner, target, alone, shown, swept, spared>>

StatementFails(r) ==
  /\ pc[r] \in Statements \ {"count", "viewLike", "wipeComments", "wipeLikes", "wipeMessages"}
  /\ Answer(r, "error")
  /\ UNCHANGED <<tables, request, target, history>>

\* The server ends, and no request in flight is taken up again or answered.
Crash ==
  /\ \E r \in Requests : InFlight(r)
  /\ pc' = [r \in Requests |-> IF InFlight(r) THEN "done" ELSE pc[r]]
  /\ result' = [r \in Requests |-> IF InFlight(r) THEN "error" ELSE result[r]]
  /\ shown' = [u \in Users |-> [t \in Threads |->
                 IF \E r \in Requests : pc[r] = "count" /\ user[r] = u /\ about[r] = t
                 THEN "unsure" ELSE shown[u][t]]]
  /\ UNCHANGED <<tables, request, target, alone, swept, late, spared>>

-----------------------------------------------------------------------------
Request(r, u, t) ==
  \/ RequestDelete(r, u, t)
  \/ \E p \in Requests \cup {NoRow} : RequestComment(r, u, t, p)
  \/ RequestToggle(r, u, t)
  \/ RequestView(r, u, t)
  \/ SaveMessage(r, u, t)

Step(r) ==
  \/ FindThread(r) \/ WipeComments(r) \/ WipeLikes(r) \/ WipeMessages(r) \/ DeleteThread(r)
  \/ CommentThread(r) \/ FindParent(r) \/ InsertComment(r)
  \/ FindComment(r) \/ DeleteComment(r) \/ DeleteReplies(r)
  \/ LikeThread(r) \/ FindLike(r) \/ DeleteLike(r) \/ InsertLike(r)
  \/ Count(r) \/ CountFails(r)
  \/ ViewThread(r) \/ ViewLike(r) \/ ViewLikeFails(r)
  \/ StatementFails(r)

Next ==
  \/ \E u \in Users, t \in Threads : CreateThread(u, t)
  \/ \E r \in Requests :
       \/ \E u \in Users, t \in Threads : Request(r, u, t)
       \/ \E u \in Users, c \in Requests : RequestUncomment(r, u, c)
       \/ Step(r)
  \/ Crash

Spec == Init /\ [][Next]_vars

-----------------------------------------------------------------------------
(***************************************************************************)
(* Properties                                                               *)
(***************************************************************************)

\* README, "Unique constraint prevents duplicates": whatever toggles overlap, a
\* user has one like of a thread, and it is not in the trash besides.
OneLikePerUser ==
  \A q, r \in RowsOf("like") : SameLike(q, r) => q = r

\* While no toggle of his is under way, a user likes a thread if and only if he was
\* last told so, by the answer to a toggle that overlapped no other or by the
\* is_liked of a view that overlapped no toggle, until a deletion of the thread
\* begins.  An overlap, a lost answer or a crash makes him unsure only until the next
\* such answer, which is true whatever they have done to the table.
LikedAsShown ==
  \A u \in Users : \A t \in Threads \ swept :
    /\ shown[u][t] # "unsure"
    /\ \A q \in Requests : ~(InFlight(q) /\ op[q] = "like" /\ user[q] = u /\ about[q] = t)
    => (shown[u][t] = "liked"
          <=> \E l \in RowsIn("like", t) : user[l] = u /\ row[l] = "live")

\* README, "Accurate count via SQL COUNT": the like_count of a thread, which also
\* counts soft-deleted rows, is the number of the users who like it, whatever
\* toggles are under way, until a deletion of the thread begins.
LikeCountIsAccurate ==
  \A t \in Threads \ swept :
    LikeCount(t) = Cardinality({user[l] : l \in {r \in RowsIn("like", t) : row[r] = "live"}})

\* like_repository.go, "Permanent delete (not soft) to avoid unique constraint
\* conflict on re-like": the index refuses a like only to a toggle that overlapped
\* another, whatever overlapped or was lost before, or when a deletion of the thread
\* has begun.
ConflictOnlyOfOverlaps ==
  \A r \in Requests :
    result[r] = "conflict" => r \notin alone \/ about[r] \in swept

\* README, "Thread soft-delete cascades to comments, likes, messages": a thread
\* takes along every row that was there when its deletion began, but for rows of a
\* table whose statement failed, which costs none of the other tables theirs.
CascadeMissesOnlyLateRows ==
  \A t \in Threads : thread[t] = "gone" =>
    \A r \in Requests : row[r] = "live" /\ about[r] = t => r \in late \cup spared

\* README, "Owner-only delete (cascade soft-deletes replies)": a comment that was
\* deleted takes along the replies it had then.
ReplySurvivesOnlyIfLate ==
  \A q \in Requests : op[q] = "uncomment" /\ result[q] = "deleted" =>
    \A r \in Replies(target[q]) : row[r] = "live" => r \in late

\* q is a request of somebody who may delete the row of r: the owner of its thread,
\* the author of the comment or of the one it replies to, or the user who likes.
MayDelete(q, r) ==
  \/ op[q] = "delete" /\ about[q] = about[r] /\ user[q] = owner[about[r]]
  \/ op[q] = "uncomment" /\ user[q] = user[target[q]]
     /\ r \in Replies(target[q]) \cup {target[q]}
  \/ op[q] = "like" /\ SameLike(r, q)

\* README, "Owner-only update/delete": the owner is compared in one statement, rows are
\* deleted in later ones, and yet no row and no thread is ever deleted but by the
\* request of somebody who may; what is gone does not come back.
OnlyOwnersDelete ==
  [][/\ \A t \in Threads : thread[t] = "live" /\ thread'[t] # "live" =>
          \E q \in Requests : InFlight(q) /\ op[q] = "delete" /\ about[q] = t
                              /\ user[q] = owner[t]
     /\ \A r \in Requests : row[r] = "live" /\ row'[r] # "live" =>
          \E q \in Requests : InFlight(q) /\ MayDelete(q, r)
     /\ \A r \in Requests : row[r] = "gone" => row'[r] # "live"]_vars
=============================================================================
