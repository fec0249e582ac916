---------------------------- MODULE ForumProofs ----------------------------
(***************************************************************************)
(* For any number of users, threads and requests: the properties of Forum.  *)
(*                                                                          *)
(* Two groups of invariants rest on Sound, which says what a request can    *)
(* have at each of its statements.  Kept is about the rows: what each       *)
(* statement of a cascade has already done to its table, and that a like    *)
(* is unique.  Trusted is about what users were told: a toggle that is      *)
(* about to act on what it read is either right about its like or overlaps  *)
(* another toggle of the same user, and is then not alone.                  *)
(*                                                                          *)
(* Most steps disturb neither group; what such steps have in common is a    *)
(* definition of its own (Quiet for the first, Silent for the second), and  *)
(* only the others have a lemma each.                                       *)
(*                                                                          *)
(* That only owners delete is an action property on its own invariant,      *)
(* Entitled: a request past the check of the owner is one that passed it.   *)
(***************************************************************************)
EXTENDS Forum, FiniteSetTheorems, TLAPS

\* The statements of each operation.
LikeSteps == {"likeThread", "findLike", "deleteLike", "insertLike", "count"}
ViewSteps == {"viewThread", "viewLike"}
CommentSteps == {"commentThread", "findParent", "insertComment"}
UncommentSteps == {"findComment", "deleteComment", "deleteReplies"}
DeleteSteps == {"findThread", "wipeComments", "wipeLikes", "wipeMessages", "deleteThread"}

\* A request is at a statement of its operation while it is in flight.
Placed ==
  \A r \in Requests :
    /\ pc[r] = "idle" => op[r] = "none" /\ target[r] = NoRow /\ row[r] = "none" /\ r \notin alone
    /\ pc[r] # "idle" => op[r] # "none"
    /\ result[r] # "none" => pc[r] = "done"
    /\ pc[r] \in LikeSteps <=> op[r] = "like" /\ InFlight(r)
    /\ pc[r] \in ViewSteps <=> op[r] = "view" /\ InFlight(r)
    /\ pc[r] \in CommentSteps <=> op[r] = "comment" /\ InFlight(r)
    /\ pc[r] \in UncommentSteps <=> op[r] = "uncomment" /\ InFlight(r)
    /\ pc[r] \in DeleteSteps <=> op[r] = "delete" /\ InFlight(r)

\* Only likes, comments and messages insert rows, at their last statement but one at
\* the earliest, and what a request has read is of the right kind.
Rows ==
  \A r \in Requests :
    /\ row[r] # "none" => /\ op[r] \in {"like", "comment", "message"}
                          /\ pc[r] \in {"count", "done"}
    /\ pc[r] \in {"likeThread", "findLike", "insertLike"} => target[r] = NoRow
    /\ pc[r] = "deleteLike" => target[r] \in Requests /\ SameLike(target[r], r)
    /\ op[r] = "uncomment" =>
         target[r] \in Requests /\ op[target[r]] = "comment" /\ row[target[r]] # "none"
    /\ op[r] = "comment" /\ target[r] # NoRow =>
         target[r] \in Requests /\ op[target[r]] = "comment" /\ row[target[r]] # "none"

\* Both, with the types.
Sound == TypeOK /\ Placed /\ Rows

-----------------------------------------------------------------------------
\* Every step keeps the types and the places of the requests.
LEMMA SoundStep ==
  ASSUME Sound, [Next]_vars
  PROVE  Sound'
<1> USE DEF Sound, TypeOK, Statements, Operations, Results, Placed, LikeSteps, ViewSteps,
            CommentSteps, UncommentSteps, DeleteSteps, InFlight, Rows, SameLike
<1>1. ASSUME NEW u \in Users, NEW t \in Threads, CreateThread(u, t) PROVE Sound'
  BY <1>1 DEF CreateThread, tables, request, history
<1>2. ASSUME NEW r \in Requests, NEW u \in Users, NEW t \in Threads, RequestDelete(r, u, t)
      PROVE Sound'
  BY <1>2 DEF RequestDelete, Begin, GoTo, tables, request, history
<1>3. ASSUME NEW r \in Requests, FindThread(r) PROVE Sound'
  <2> USE <1>3 DEF FindThread, GoTo, Answer, tables, request, history
  <2>1. TypeOK'
    <3> HIDE DEF Placed, Rows, InFlight
    <3>1. QED OBVIOUS
  <2>2. Placed'
    OBVIOUS
  <2>3. Rows'
    OBVIOUS
  <2>4. QED BY <2>1, <2>2, <2>3
<1>4. ASSUME NEW r \in Requests, WipeComments(r) PROVE Sound'
  BY <1>4 DEF WipeComments, Wipe, GoTo, Cascaded, SoftDeleted, RowsIn, RowsOf,
         tables, request, history
<1>5. ASSUME NEW r \in Requests, WipeLikes(r) PROVE Sound'
  BY <1>5 DEF WipeLikes, Wipe, GoTo, Cascaded, SoftDeleted, RowsIn, RowsOf,
         tables, request, history
<1>6. ASSUME NEW r \in Requests, WipeMessages(r) PROVE Sound'
  BY <1>6 DEF WipeMessages, Wipe, GoTo, Cascaded, SoftDeleted, RowsIn, RowsOf,
         tables, request, history
<1>7. ASSUME NEW r \in Requests, DeleteThread(r) PROVE Sound'
  BY <1>7 DEF DeleteThread, Answer, tables, request, history
<1>8. ASSUME NEW r \in Requests, NEW u \in Users, NEW t \in Threads,
            NEW p \in Requests \cup {NoRow}, RequestComment(r, u, t, p)
      PROVE Sound'
  BY <1>8 DEF RequestComment, Begin, GoTo, RowsOf, tables, request, history
<1>9. ASSUME NEW r \in Requests, CommentThread(r) PROVE Sound'
  <2> USE <1>9 DEF CommentThread, GoTo, Answer, tables, request, history
  <2>1. TypeOK'
    <3> HIDE DEF Placed, Rows, InFlight
    <3>1. QED OBVIOUS
  <2>2. Placed'
    OBVIOUS
  <2>3. Rows'
    OBVIOUS
  <2>4. QED BY <2>1, <2>2, <2>3
<1>10. ASSUME NEW r \in Requests, FindParent(r) PROVE Sound'
  <2> USE <1>10 DEF FindParent, GoTo, Answer, tables, request, history
  <2>1. TypeOK'
    <3> HIDE DEF Placed, Rows, InFlight
    <3>1. QED OBVIOUS
  <2>2. Placed'
    OBVIOUS
  <2>3. Rows'
    OBVIOUS
  <2>4. QED BY <2>1, <2>2, <2>3
<1>11. ASSUME NEW r \in Requests, InsertComment(r) PROVE Sound'
  BY <1>11 DEF InsertComment, Inserted, LateWith, Answer, tables, request, history
<1>12. ASSUME NEW r \in Requests, NEW u \in Users, NEW c \in Requests,
            RequestUncomment(r, u, c)
      PROVE Sound'
  BY <1>12 DEF RequestUncomment, Begin, GoTo, RowsOf, tables, request, history
<1>13. ASSUME NEW r \in Requests, FindComment(r) PROVE Sound'
  <2> USE <1>13 DEF FindComment, GoTo, Answer, tables, request, history
  <2>1. TypeOK'
    <3> HIDE DEF Placed, Rows, InFlight
    <3>1. QED OBVIOUS
  <2>2. Placed'
    OBVIOUS
  <2>3. Rows'
    <3> HIDE DEF Operations, Results
    <3>1. QED OBVIOUS
  <2>4. QED BY <2>1, <2>2, <2>3
<1>14. ASSUME NEW r \in Requests, DeleteComment(r) PROVE Sound'
  <2> USE <1>14 DEF DeleteComment, GoTo, Answer, SoftDeleted, tables, request, history
  <2>1. TypeOK'
    <3> HIDE DEF Placed, Rows, InFlight
    <3>1. QED OBVIOUS
  <2>2. Placed'
    OBVIOUS
  <2>3. Rows'
    OBVIOUS
  <2>4. QED BY <2>1, <2>2, <2>3
<1>15. ASSUME NEW r \in Requests, DeleteReplies(r) PROVE Sound'
  BY <1>15 DEF DeleteReplies, RepliesDeleted, Replies, SoftDeleted, RowsOf, Answer,
      tables, request, history
<1>16. ASSUME NEW r \in Requests, NEW u \in Users, NEW t \in Threads, RequestToggle(r, u, t)
      PROVE Sound'
  BY <1>16 DEF RequestToggle, Begin, GoTo, AloneWith, UnderWay, InFlight, tables, request, history
<1>17. ASSUME NEW r \in Requests, LikeThread(r) PROVE Sound'
  <2> USE <1>17 DEF LikeThread, GoTo, Answer, tables, request, history
  <2>1. TypeOK'
    <3> HIDE DEF Placed, Rows, InFlight
    <3>1. QED OBVIOUS
  <2>2. Placed'
    OBVIOUS
  <2>3. Rows'
    <3> HIDE DEF Operations, Results
    <3>1. QED OBVIOUS
  <2>4. QED BY <2>1, <2>2, <2>3
<1>18. ASSUME NEW r \in Requests, FindLike(r) PROVE Sound'
  <2> USE <1>18 DEF FindLike, GoTo, RowsOf, SameLike, tables, request, history
  <2>1. TypeOK'
    <3> HIDE DEF Placed, Rows, InFlight, SameLike
    <3>1. target' = target \/ \E l \in Requests : target' = [target EXCEPT ![r] = l]
      OBVIOUS
    <3>2. \E statement \in {"deleteLike", "insertLike"} :
            pc' = [pc EXCEPT ![r] = statement]
      OBVIOUS
    <3>3. UNCHANGED <<tables, request, result, history>>
      OBVIOUS
    <3> HIDE <1>18 DEF FindLike
    <3>4. target' \in [Requests -> Requests \cup {NoRow}]
      BY <3>1
    <3>5. pc' \in [Requests -> Statements \cup {"idle", "done"}]
      BY <3>2
    <3>6. QED BY <3>3, <3>4, <3>5
  <2>2. Placed'
    OBVIOUS
  <2>3. Rows'
    <3> HIDE DEF Operations, Results
    <3>1. QED OBVIOUS
  <2>4. QED BY <2>1, <2>2, <2>3
<1>19. ASSUME NEW r \in Requests, DeleteLike(r) PROVE Sound'
  BY <1>19 DEF DeleteLike, GoTo, WithoutLike, tables, request, history
<1>20. ASSUME NEW r \in Requests, InsertLike(r) PROVE Sound'
  <2> USE <1>20 DEF InsertLike, Inserted, LateWith, GoTo, Answer, Taken, RowsOf, SameLike,
         tables, request, history
  <2>1. TypeOK'
    <3> HIDE DEF Placed, Rows, InFlight
    <3>1. QED OBVIOUS
  <2>2. Placed'
    OBVIOUS
  <2>3. Rows'
    OBVIOUS
  <2>4. QED BY <2>1, <2>2, <2>3
<1>21. ASSUME NEW r \in Requests, Count(r) PROVE Sound'
  BY <1>21 DEF Count, Answer, Told, Liked, tables, request, history
<1>22. ASSUME NEW r \in Requests, CountFails(r) PROVE Sound'
  BY <1>22 DEF CountFails, Answer, Told, tables, request, history
<1>23. ASSUME NEW r \in Requests, NEW u \in Users, NEW t \in Threads, RequestView(r, u, t)
      PROVE Sound'
  BY <1>23 DEF RequestView, Begin, GoTo, AloneWith, UnderWay, InFlight, tables, request, history
<1>24. ASSUME NEW r \in Requests, ViewThread(r) PROVE Sound'
  <2> USE <1>24 DEF ViewThread, GoTo, Answer, tables, request, history
  <2>1. TypeOK'
    <3> HIDE DEF Placed, Rows, InFlight
    <3>1. QED OBVIOUS
  <2>2. Placed'
    OBVIOUS
  <2>3. Rows'
    OBVIOUS
  <2>4. QED BY <2>1, <2>2, <2>3
<1>25. ASSUME NEW r \in Requests, ViewLike(r) PROVE Sound'
  BY <1>25 DEF ViewLike, Answer, Told, IsLiked, tables, request, history
<1>26. ASSUME NEW r \in Requests, ViewLikeFails(r) PROVE Sound'
  BY <1>26 DEF ViewLikeFails, Answer, Told, tables, request, history
<1>27. ASSUME NEW r \in Requests, NEW u \in Users, NEW t \in Threads, SaveMessage(r, u, t)
      PROVE Sound'
  BY <1>27 DEF SaveMessage, Begin, Inserted, Answer, tables, request, history
<1>28. ASSUME NEW r \in Requests, StatementFails(r) PROVE Sound'
  BY <1>28 DEF StatementFails, Answer, tables, request, history
<1>29. ASSUME Crash PROVE Sound'
  BY <1>29 DEF Crash, InFlight, tables, request, history
<1>30. ASSUME UNCHANGED vars PROVE Sound'
  BY <1>30 DEF vars
<1>31. QED
  BY <1>1, <1>2, <1>3, <1>4, <1>5, <1>6, <1>7, <1>8, <1>9, <1>10, <1>11, <1>12, <1>13,
     <1>14, <1>15, <1>16, <1>17, <1>18, <1>19, <1>20, <1>21, <1>22, <1>23, <1>24, <1>25,
     <1>26, <1>27, <1>28, <1>29, <1>30 DEF Next, Request, Step

-----------------------------------------------------------------------------

\* What is still live in this table of the thread was inserted late, or spared by a
\* statement that failed.
Clean(o, t) == \A r \in RowsIn(o, t) : row[r] = "live" => r \in late \cup spared

\* A deletion under way has cleaned the tables it is through with.
Sweeping ==
  \A d \in Requests :
    pc[d] \in {"wipeLikes", "wipeMessages", "deleteThread"} =>
      /\ about[d] \in swept
      /\ Clean("comment", about[d])
      /\ pc[d] \in {"wipeMessages", "deleteThread"} => Clean("like", about[d])
      /\ pc[d] = "deleteThread" => Clean("message", about[d])

\* The three tables of a deleted thread are clean.
Swept ==
  \A t \in Threads : thread[t] = "gone" =>
    t \in swept /\ Clean("comment", t) /\ Clean("like", t) /\ Clean("message", t)

\* A comment whose deletion went through stays gone, and its replies with it.
Answered ==
  \A q \in Requests :
    /\ pc[q] = "deleteReplies" => row[target[q]] # "live"
    /\ op[q] = "uncomment" /\ result[q] = "deleted" =>
         /\ row[target[q]] # "live"
         /\ \A r \in Replies(target[q]) : row[r] = "live" => r \in late

\* Only the deletion of a thread puts likes in the trash.
GoneLikes == \A l \in RowsOf("like") : row[l] = "gone" => about[l] \in swept

\* What holds of the rows.
Kept == Sweeping /\ Swept /\ Answered /\ OneLikePerUser /\ GoneLikes

\* Steps that leave the rows alone and complete no statement of a deletion.
Quiet ==
  /\ UNCHANGED <<row, late, swept, spared>>
  /\ \A t \in Threads : thread'[t] = "gone" => thread[t] = "gone"
  /\ \A r \in Requests :
       /\ pc[r] # "idle" => op'[r] = op[r] /\ user'[r] = user[r] /\ about'[r] = about[r]
       /\ pc[r] # "idle" /\ op[r] # "like" => target'[r] = target[r]
       /\ pc'[r] \in {"wipeLikes", "wipeMessages", "deleteThread", "deleteReplies"} =>
            pc[r] = pc'[r]
       /\ result'[r] = "deleted" => result[r] = "deleted"

\* The steps that insert, delete or finish a deletion.
Loud(r) ==
  \/ WipeComments(r) \/ WipeLikes(r) \/ WipeMessages(r) \/ DeleteThread(r)
  \/ InsertComment(r) \/ DeleteComment(r) \/ DeleteReplies(r)
  \/ DeleteLike(r) \/ InsertLike(r)
  \/ \E u \in Users, t \in Threads : SaveMessage(r, u, t)

\* There are no other steps.
LEMMA QuietOrLoud ==
  ASSUME Sound, [Next]_vars
  PROVE  Quiet \/ \E r \in Requests : Loud(r)
<1> USE DEF Sound, TypeOK, Statements, Placed, LikeSteps, ViewSteps, CommentSteps,
            UncommentSteps, DeleteSteps, InFlight, Quiet
<1>1. ASSUME NEW u \in Users, NEW t \in Threads, CreateThread(u, t) PROVE Quiet
  BY <1>1 DEF CreateThread, tables, request, history
<1>2. ASSUME NEW r \in Requests, NEW u \in Users, NEW t \in Threads, RequestDelete(r, u, t)
      PROVE Quiet
  BY <1>2 DEF RequestDelete, Begin, GoTo, tables, request, history
<1>3. ASSUME NEW r \in Requests, FindThread(r) PROVE Quiet
  BY <1>3 DEF FindThread, GoTo, Answer, tables, request, history
<1>4. ASSUME NEW r \in Requests, NEW u \in Users, NEW t \in Threads,
            NEW p \in Requests \cup {NoRow}, RequestComment(r, u, t, p)
      PROVE Quiet
  BY <1>4 DEF RequestComment, Begin, GoTo, RowsOf, tables, request, history
<1>5. ASSUME NEW r \in Requests, CommentThread(r) PROVE Quiet
  BY <1>5 DEF CommentThread, GoTo, Answer, tables, request, history
<1>6. ASSUME NEW r \in Requests, FindParent(r) PROVE Quiet
  BY <1>6 DEF FindParent, GoTo, Answer, tables, request, history
<1>7. ASSUME NEW r \in Requests, NEW u \in Users, NEW c \in Requests,
            RequestUncomment(r, u, c)
      PROVE Quiet
  BY <1>7 DEF RequestUncomment, Begin, GoTo, RowsOf, tables, request, history
<1>8. ASSUME NEW r \in Requests, FindComment(r) PROVE Quiet
  BY <1>8 DEF FindComment, GoTo, Answer, tables, request, history
<1>9. ASSUME NEW r \in Requests, NEW u \in Users, NEW t \in Threads, RequestToggle(r, u, t)
      PROVE Quiet
  BY <1>9 DEF RequestToggle, Begin, GoTo, AloneWith, UnderWay, InFlight, tables, request, history
<1>10. ASSUME NEW r \in Requests, LikeThread(r) PROVE Quiet
  BY <1>10 DEF LikeThread, GoTo, Answer, tables, request, history
<1>11. ASSUME NEW r \in Requests, FindLike(r) PROVE Quiet
  BY <1>11 DEF FindLike, GoTo, RowsOf, SameLike, tables, request, history
<1>12. ASSUME NEW r \in Requests, Count(r) PROVE Quiet
  BY <1>12 DEF Count, Answer, Told, Liked, tables, request, history
<1>13. ASSUME NEW r \in Requests, CountFails(r) PROVE Quiet
  BY <1>13 DEF CountFails, Answer, Told, tables, request, history
<1>14. ASSUME NEW r \in Requests, NEW u \in Users, NEW t \in Threads, RequestView(r, u, t)
      PROVE Quiet
  BY <1>14 DEF RequestView, Begin, GoTo, AloneWith, UnderWay, InFlight, tables, request, history
<1>15. ASSUME NEW r \in Requests, ViewThread(r) PROVE Quiet
  BY <1>15 DEF ViewThread, GoTo, Answer, tables, request, history
<1>16. ASSUME NEW r \in Requests, ViewLike(r) PROVE Quiet
  BY <1>16 DEF ViewLike, Answer, Told, IsLiked, tables, request, history
<1>17. ASSUME NEW r \in Requests, ViewLikeFails(r) PROVE Quiet
  BY <1>17 DEF ViewLikeFails, Answer, Told, tables, request, history
<1>18. ASSUME NEW r \in Requests, StatementFails(r) PROVE Quiet
  BY <1>18 DEF StatementFails, Answer, tables, request, history
<1>19. ASSUME Crash PROVE Quiet
  BY <1>19 DEF Crash, InFlight, tables, request, history
<1>20. ASSUME UNCHANGED vars PROVE Quiet
  BY <1>20 DEF vars
<1>21. QED
  BY <1>1, <1>2, <1>3, <1>4, <1>5, <1>6, <1>7, <1>8, <1>9, <1>10, <1>11, <1>12, <1>13,
     <1>14, <1>15, <1>16, <1>17, <1>18, <1>19, <1>20 DEF Next, Request, Step, Loud

\* A quiet step leaves what Kept relates as it was.
LEMMA QuietStep ==
  ASSUME Sound, Kept, Sound', Quiet
  PROVE  Kept'
<1> USE DEF Sound, TypeOK, Placed, Rows, Kept, Quiet, InFlight
<1>1. Sweeping'
  <2>1. \A o \in Operations, t \in Threads : RowsIn(o, t)' \subseteq RowsIn(o, t)
    BY DEF RowsIn, RowsOf
  <2>2. \A o \in Operations, t \in Threads : Clean(o, t) => Clean(o, t)'
    BY <2>1 DEF Clean
  <2>3. \A d \in Requests : pc'[d] \in {"wipeLikes", "wipeMessages", "deleteThread"} =>
          UNCHANGED <<pc[d], about[d]>>
    OBVIOUS
  <2>4. QED
    BY <2>2, <2>3 DEF Sweeping, Operations
<1>2. Swept'
  BY DEF Swept, Clean, RowsIn, RowsOf
<1>3. Answered'
  <2>1. \A c \in Requests : Replies(c)' \subseteq Replies(c)
    BY DEF Replies, RowsOf
  <2>2. \A q \in Requests :
          \/ pc'[q] = "deleteReplies"
          \/ op'[q] = "uncomment" /\ result'[q] = "deleted"
          => /\ UNCHANGED <<op[q], target[q]>>
             /\ op[q] = "uncomment" /\ target[q] \in Requests
             /\ pc[q] = "deleteReplies" \/ result[q] = "deleted"
             /\ pc'[q] = "deleteReplies" => pc[q] = "deleteReplies"
             /\ result'[q] = "deleted" => result[q] = "deleted"
    BY DEF UncommentSteps, Operations
  <2>3. QED
    BY <2>1, <2>2 DEF Answered
<1>4. (OneLikePerUser /\ GoneLikes)'
  BY DEF OneLikePerUser, GoneLikes, SameLike, RowsOf
<1>5. QED
  BY <1>1, <1>2, <1>3, <1>4 DEF Kept

\* The comments that were there go with the thread.
LEMMA WipeCommentsStep ==
  ASSUME Sound, Kept, NEW r \in Requests, WipeComments(r)
  PROVE  Kept'
<1> USE DEF Sound, TypeOK, Placed, Rows, Kept, RowsIn, RowsOf, Clean, Replies, InFlight,
            LikeSteps, CommentSteps, UncommentSteps, DeleteSteps,
            WipeComments, Wipe, GoTo, Cascaded, SoftDeleted, tables, request, history
<1>1. Sweeping'
  BY DEF Sweeping
<1>2. Swept'
  BY DEF Swept, Sweeping
<1>3. Answered'
  BY DEF Answered
<1>4. OneLikePerUser'
  <2>1. RowsOf("like")' = RowsOf("like") /\ UNCHANGED <<op, user, about>>
    OBVIOUS
  <2>2. QED
    BY <2>1 DEF OneLikePerUser, SameLike
<1>5. GoneLikes'
  BY DEF GoneLikes
<1>6. QED
  BY <1>1, <1>2, <1>3, <1>4, <1>5 DEF Kept

\* The likes that were there go with the thread.
LEMMA WipeLikesStep ==
  ASSUME Sound, Kept, NEW r \in Requests, WipeLikes(r)
  PROVE  Kept'
<1> USE DEF Sound, TypeOK, Placed, Rows, Kept, RowsIn, RowsOf, Clean, Replies, InFlight,
            LikeSteps, CommentSteps, UncommentSteps, DeleteSteps,
            WipeLikes, Wipe, GoTo, Cascaded, SoftDeleted, tables, request, history
<1>1. Sweeping'
  BY DEF Sweeping
<1>2. Swept'
  BY DEF Swept, Sweeping
<1>3. Answered'
  <2>1. \A q \in Requests : op[q] = "comment" => row'[q] = row[q]
    OBVIOUS
  <2>2. UNCHANGED <<op, target, late>>
    OBVIOUS
  <2>3. \A q \in Requests :
          /\ pc'[q] = "deleteReplies" => pc[q] = "deleteReplies" /\ op[q] = "uncomment"
          /\ result'[q] = result[q]
    OBVIOUS
  <2>4. \A c \in Requests : Replies(c)' = Replies(c)
    BY <2>1, <2>2
  <2>5. \A q \in Requests : op[q] = "uncomment" => row'[target[q]] = row[target[q]]
    BY <2>1
  <2>6. QED
    BY <2>1, <2>2, <2>3, <2>4, <2>5 DEF Answered
<1>4. OneLikePerUser'
  <2>1. RowsOf("like")' = RowsOf("like") /\ UNCHANGED <<op, user, about>>
    OBVIOUS
  <2>2. QED
    BY <2>1 DEF OneLikePerUser, SameLike
<1>5. GoneLikes'
  BY DEF GoneLikes
<1>6. QED
  BY <1>1, <1>2, <1>3, <1>4, <1>5 DEF Kept

\* The messages that were there go with the thread.
LEMMA WipeMessagesStep ==
  ASSUME Sound, Kept, NEW r \in Requests, WipeMessages(r)
  PROVE  Kept'
<1> USE DEF Sound, TypeOK, Placed, Rows, Kept, RowsIn, RowsOf, Clean, Replies, InFlight,
            LikeSteps, CommentSteps, UncommentSteps, DeleteSteps,
            WipeMessages, Wipe, GoTo, Cascaded, SoftDeleted, tables, request, history
<1>1. Sweeping'
  BY DEF Sweeping
<1>2. Swept'
  BY DEF Swept, Sweeping
<1>3. Answered'
  BY DEF Answered
<1>4. OneLikePerUser'
  <2>1. RowsOf("like")' = RowsOf("like") /\ UNCHANGED <<op, user, about>>
    OBVIOUS
  <2>2. QED
    BY <2>1 DEF OneLikePerUser, SameLike
<1>5. GoneLikes'
  BY DEF GoneLikes
<1>6. QED
  BY <1>1, <1>2, <1>3, <1>4, <1>5 DEF Kept

\* The row of the thread goes when its three tables are clean.
LEMMA DeleteThreadStep ==
  ASSUME Sound, Kept, NEW r \in Requests, DeleteThread(r)
  PROVE  Kept'
<1> USE DEF Sound, TypeOK, Placed, Rows, Kept, RowsIn, RowsOf, Clean, Replies, InFlight,
            LikeSteps, CommentSteps, UncommentSteps, DeleteSteps,
            DeleteThread, Answer, tables, request, history
<1>1. Sweeping'
  BY DEF Sweeping
<1>2. Swept'
  BY DEF Swept, Sweeping
<1>3. Answered'
  BY DEF Answered
<1>4. OneLikePerUser'
  BY DEF OneLikePerUser, SameLike
<1>5. GoneLikes'
  BY DEF GoneLikes
<1>6. QED
  BY <1>1, <1>2, <1>3, <1>4, <1>5 DEF Kept

\* A new comment is late in a swept thread, or below a parent that is gone.
LEMMA InsertCommentStep ==
  ASSUME Sound, Kept, NEW r \in Requests, InsertComment(r)
  PROVE  Kept'
<1> USE DEF Sound, TypeOK, Placed, Rows, Kept, RowsIn, RowsOf, Clean, Replies, InFlight,
            LikeSteps, CommentSteps, UncommentSteps, DeleteSteps,
            InsertComment, Inserted, LateWith, Answer, tables, request, history
<1>1. Sweeping'
  BY DEF Sweeping
<1>2. Swept'
  BY DEF Swept, Sweeping
<1>3. Answered'
  <2>1. row[r] = "none" /\ row' = [row EXCEPT ![r] = "live"] /\ UNCHANGED <<op, target>>
    OBVIOUS
  <2>2. \A c \in Requests : Replies(c)' \subseteq Replies(c) \cup {r}
    BY <2>1
  <2>3. \A c \in Requests : row[c] = "gone" /\ r \in Replies(c)' => r \in late'
    BY <2>1, ForumAssumption
  <2>4. \A q \in Requests :
          \/ pc'[q] = "deleteReplies"
          \/ op'[q] = "uncomment" /\ result'[q] = "deleted"
          => /\ op[q] = "uncomment" /\ target[q] \in Requests /\ row[target[q]] = "gone"
             /\ row'[target[q]] = "gone"
             /\ pc'[q] = "deleteReplies" => pc[q] = "deleteReplies"
             /\ result'[q] = "deleted" => result[q] = "deleted"
    BY <2>1 DEF Answered
  <2>5. QED
    BY <2>1, <2>2, <2>3, <2>4 DEF Answered
<1>4. OneLikePerUser'
  BY DEF OneLikePerUser, SameLike
<1>5. GoneLikes'
  BY DEF GoneLikes
<1>6. QED
  BY <1>1, <1>2, <1>3, <1>4, <1>5 DEF Kept

\* The comment is gone, and its replies are next.
LEMMA DeleteCommentStep ==
  ASSUME Sound, Kept, NEW r \in Requests, DeleteComment(r)
  PROVE  Kept'
<1> USE DEF Sound, TypeOK, Placed, Rows, Kept, RowsIn, RowsOf, Clean, Replies, InFlight,
            LikeSteps, CommentSteps, UncommentSteps, DeleteSteps,
            DeleteComment, GoTo, Answer, SoftDeleted, tables, request, history
<1>1. Sweeping'
  BY DEF Sweeping
<1>2. Swept'
  BY DEF Swept, Sweeping
<1>3. Answered'
  BY DEF Answered
<1>4. OneLikePerUser'
  BY DEF OneLikePerUser, SameLike
<1>5. GoneLikes'
  BY DEF GoneLikes
<1>6. QED
  BY <1>1, <1>2, <1>3, <1>4, <1>5 DEF Kept

\* The replies that were there go with the comment.
LEMMA DeleteRepliesStep ==
  ASSUME Sound, Kept, NEW r \in Requests, DeleteReplies(r)
  PROVE  Kept'
<1> USE DEF Sound, TypeOK, Placed, Rows, Kept, RowsIn, RowsOf, Clean, Replies, InFlight,
            LikeSteps, CommentSteps, UncommentSteps, DeleteSteps,
            DeleteReplies, RepliesDeleted, SoftDeleted, Answer, tables, request, history
<1>1. Sweeping'
  BY DEF Sweeping
<1>2. Swept'
  BY DEF Swept, Sweeping
<1>3. Answered'
  BY DEF Answered
<1>4. OneLikePerUser'
  BY DEF OneLikePerUser, SameLike
<1>5. GoneLikes'
  BY DEF GoneLikes
<1>6. QED
  BY <1>1, <1>2, <1>3, <1>4, <1>5 DEF Kept

\* The row of an unlike is removed, not put in the trash.
LEMMA DeleteLikeStep ==
  ASSUME Sound, Kept, NEW r \in Requests, DeleteLike(r)
  PROVE  Kept'
<1> USE DEF Sound, TypeOK, Placed, Rows, Kept, RowsIn, RowsOf, Clean, Replies, InFlight,
            LikeSteps, CommentSteps, UncommentSteps, DeleteSteps,
            DeleteLike, GoTo, WithoutLike, tables, request, history
<1>1. Sweeping'
  BY DEF Sweeping
<1>2. Swept'
  BY DEF Swept, Sweeping
<1>3. Answered'
  BY DEF Answered
<1>4. OneLikePerUser'
  BY DEF OneLikePerUser, SameLike
<1>5. GoneLikes'
  BY DEF GoneLikes
<1>6. QED
  BY <1>1, <1>2, <1>3, <1>4, <1>5 DEF Kept

\* The unique index admits a like only if there is none.
LEMMA InsertLikeStep ==
  ASSUME Sound, Kept, NEW r \in Requests, InsertLike(r)
  PROVE  Kept'
<1> USE DEF Sound, TypeOK, Placed, Rows, InFlight, LikeSteps, InsertLike, GoTo, Answer,
            Kept, tables, request, history
<1>1. op[r] = "like" /\ row[r] = "none" /\ pc[r] = "insertLike"
  OBVIOUS
<1>2. /\ \A q \in Requests : pc'[q] = pc[q] \/ (q = r /\ pc'[r] \in {"count", "done"})
      /\ \A q \in Requests : result'[q] = "deleted" => result[q] = "deleted"
  OBVIOUS
<1>3. CASE Taken(r)
  <2>1. UNCHANGED <<row, late, swept, spared, op, user, about, target, thread>>
    BY <1>3
  <2>2. Sweeping'
    BY <1>2, <2>1 DEF Sweeping, Clean, RowsIn, RowsOf
  <2>3. (Swept /\ OneLikePerUser /\ GoneLikes)'
    BY <2>1 DEF Swept, Clean, RowsIn, RowsOf, OneLikePerUser, GoneLikes, SameLike
  <2>4. Answered'
    BY <1>2, <2>1 DEF Answered, Replies, RowsOf
  <2>5. QED
    BY <2>2, <2>3, <2>4
<1>4. CASE ~Taken(r)
  <2>1. /\ row' = [row EXCEPT ![r] = "live"]
        /\ late' = IF about[r] \in swept THEN late \cup {r} ELSE late
        /\ UNCHANGED <<swept, spared, op, user, about, target, thread>>
    BY <1>1, <1>4 DEF Inserted, LateWith
  <2>2. \A o \in {"like", "comment", "message"}, t \in swept :
          Clean(o, t) => Clean(o, t)'
    BY <1>1, <2>1 DEF Clean, RowsIn, RowsOf
  <2>3. Sweeping'
    BY <1>1, <1>2, <2>1, <2>2 DEF Sweeping
  <2>4. Swept'
    BY <2>1, <2>2 DEF Swept
  <2>5. Answered'
    <3>1. \A c \in Requests : Replies(c)' = Replies(c)
      BY <1>1, <2>1 DEF Replies, RowsOf
    <3>2. \A q \in Requests : op[q] = "uncomment" =>
            target[q] # r /\ row'[target[q]] = row[target[q]]
      BY <1>1, <2>1
    <3>3. \A q \in Requests : pc'[q] = "deleteReplies" =>
            op[q] = "uncomment" /\ pc[q] = "deleteReplies"
      BY <1>2 DEF UncommentSteps
    <3>4. \A q \in Requests : \A s \in Replies(target[q]) : row'[s] = row[s]
      BY <1>1, <2>1 DEF Replies, RowsOf
    <3>5. QED
      BY <1>2, <2>1, <3>1, <3>2, <3>3, <3>4 DEF Answered
  <2>6. OneLikePerUser'
    <3>1. RowsOf("like")' = RowsOf("like") \cup {r}
      BY <1>1, <2>1 DEF RowsOf
    <3>2. \A q, s \in Requests : SameLike(q, s)' <=> SameLike(q, s)
      BY <2>1 DEF SameLike
    <3>3. \A q \in RowsOf("like") : ~SameLike(q, r) /\ ~SameLike(r, q)
      BY <1>1, <1>4 DEF Taken, SameLike, RowsOf
    <3>4. RowsOf("like") \cup {r} \subseteq Requests
      BY DEF RowsOf
    <3>5. \A q, s \in RowsOf("like") : SameLike(q, s) => q = s
      BY DEF OneLikePerUser
    <3>6. SUFFICES ASSUME NEW q \in RowsOf("like")', NEW s \in RowsOf("like")',
                          SameLike(q, s)'
                   PROVE  q = s
      BY DEF OneLikePerUser
    <3>7. /\ q \in RowsOf("like") \cup {r}
          /\ s \in RowsOf("like") \cup {r}
          /\ SameLike(q, s)
      BY <3>1, <3>2, <3>4, <3>6
    <3>8. QED
      BY <3>3, <3>5, <3>7
  <2>7. GoneLikes'
    BY <1>1, <2>1 DEF GoneLikes, RowsOf
  <2>8. QED
    BY <2>3, <2>4, <2>5, <2>6, <2>7
<1>5. QED
  BY <1>3, <1>4

\* A new message is late in a swept thread.
LEMMA SaveMessageStep ==
  ASSUME Sound, Kept, NEW r \in Requests, NEW u \in Users, NEW t \in Threads,
         SaveMessage(r, u, t)
  PROVE  Kept'
<1> USE DEF Sound, TypeOK, Placed, Rows, Kept, RowsIn, RowsOf, Clean, Replies, InFlight,
            LikeSteps, CommentSteps, UncommentSteps, DeleteSteps,
            SaveMessage, Begin, Inserted, Answer, tables, request, history
<1>1. Sweeping'
  BY DEF Sweeping
<1>2. Swept'
  BY DEF Swept, Sweeping
<1>3. Answered'
  BY DEF Answered
<1>4. OneLikePerUser'
  BY DEF OneLikePerUser, SameLike
<1>5. GoneLikes'
  BY DEF GoneLikes
<1>6. QED
  BY <1>1, <1>2, <1>3, <1>4, <1>5 DEF Kept

-----------------------------------------------------------------------------
\* The last answer to this user about this thread means nothing.
Unsure(u, t) == shown[u][t] = "unsure"

\* Requests of one user about one thread.
Asked(q, r) == user[q] = user[r] /\ about[q] = about[r]

\* Neither a toggle nor a view that a toggle overlaps is alone.
Overlaps ==
  \A q, r \in Requests :
    /\ q # r /\ Asked(q, r)
    /\ op[q] = "like" /\ InFlight(q)
    /\ op[r] \in {"like", "view"} /\ InFlight(r)
    => r \notin alone

\* A toggle about to insert meets a like only in an overlap or in a swept thread.
Inserting ==
  \A r \in Requests : pc[r] = "insertLike" =>
    \A l \in RowsOf("like") :
      SameLike(l, r) => about[r] \in swept \/ r \notin alone

\* A toggle about to delete has found the only like, or overlaps another.
Deleting ==
  \A r \in Requests : pc[r] = "deleteLike" =>
    \A l \in RowsOf("like") : SameLike(l, r) => l = target[r] \/ r \notin alone

\* The user has a like of the thread that is not in the trash.
HasLike(u, t) == \E l \in RowsIn("like", t) : user[l] = u /\ row[l] = "live"

\* The like is as the user was told, unless he has a toggle that is about to answer.
AsTold ==
  \A u \in Users : \A t \in Threads \ swept :
    /\ ~Unsure(u, t)
    /\ \A r \in Requests : pc[r] = "count" => user[r] # u \/ about[r] # t
    => (shown[u][t] = "liked" <=> HasLike(u, t))

\* A toggle that is alone will answer what is so.
AsAnswered ==
  \A r \in Requests : pc[r] = "count" /\ r \in alone /\ about[r] \notin swept =>
    (target[r] = NoRow <=> HasLike(user[r], about[r]))

Truth == AsTold /\ AsAnswered

\* What holds of what users were told.
Trusted == Overlaps /\ Inserting /\ Deleting /\ Truth /\ ConflictOnlyOfOverlaps

\* Steps that tell nobody of a like, and change none but in a swept thread.
Silent ==
  /\ UNCHANGED <<alone, shown>>
  /\ swept \subseteq swept'
  /\ \A r \in Requests :
       /\ pc[r] # "idle" => UNCHANGED <<op[r], user[r], about[r]>>
       /\ pc'[r] \in {"insertLike", "deleteLike", "count"} => pc[r] = pc'[r]
       /\ pc[r] = "count" => pc'[r] = "count"
       /\ op'[r] = "like" =>
            /\ op[r] = "like" /\ UNCHANGED target[r]
            /\ row[r] = "none" <=> row'[r] = "none"
            /\ row'[r] = row[r] \/ about[r] \in swept'
       /\ op'[r] \in {"like", "view"} /\ InFlight(r)' => InFlight(r)
       /\ result'[r] = "conflict" => result[r] = "conflict"

\* The steps of a toggle, and those that tell of a like.
Telling(r) ==
  \/ FindLike(r) \/ DeleteLike(r) \/ InsertLike(r) \/ Count(r) \/ CountFails(r)
  \/ ViewLike(r) \/ ViewLikeFails(r)
  \/ \E u \in Users, t \in Threads : RequestToggle(r, u, t) \/ RequestView(r, u, t)

\* There are no other steps.
LEMMA SilentOrTelling ==
  ASSUME Sound, [Next]_vars
  PROVE  Silent \/ Crash \/ \E r \in Requests : Telling(r)
<1> USE DEF Sound, TypeOK, Statements, Placed, LikeSteps, ViewSteps, CommentSteps,
            UncommentSteps, DeleteSteps, Rows, InFlight, Silent
<1>1. ASSUME NEW u \in Users, NEW t \in Threads, CreateThread(u, t) PROVE Silent
  BY <1>1 DEF CreateThread, tables, request, history
<1>2. ASSUME NEW r \in Requests, NEW u \in Users, NEW t \in Threads, RequestDelete(r, u, t)
      PROVE Silent
  BY <1>2 DEF RequestDelete, Begin, GoTo, tables, request, history
<1>3. ASSUME NEW r \in Requests, FindThread(r) PROVE Silent
  BY <1>3 DEF FindThread, GoTo, Answer, tables, request, history
<1>4. ASSUME NEW r \in Requests, WipeComments(r) PROVE Silent
  BY <1>4 DEF WipeComments, Wipe, GoTo, Cascaded, SoftDeleted, RowsIn, RowsOf, tables,
          request, history
<1>5. ASSUME NEW r \in Requests, WipeLikes(r) PROVE Silent
  BY <1>5 DEF WipeLikes, Wipe, GoTo, Cascaded, SoftDeleted, RowsIn, RowsOf, tables,
          request, history
<1>6. ASSUME NEW r \in Requests, WipeMessages(r) PROVE Silent
  BY <1>6 DEF WipeMessages, Wipe, GoTo, Cascaded, SoftDeleted, RowsIn, RowsOf, tables,
          request, history
<1>7. ASSUME NEW r \in Requests, DeleteThread(r) PROVE Silent
  BY <1>7 DEF DeleteThread, Answer, tables, request, history
<1>8. ASSUME NEW r \in Requests, NEW u \in Users, NEW t \in Threads,
            NEW p \in Requests \cup {NoRow}, RequestComment(r, u, t, p)
      PROVE Silent
  BY <1>8 DEF RequestComment, Begin, GoTo, RowsOf, tables, request, history
<1>9. ASSUME NEW r \in Requests, CommentThread(r) PROVE Silent
  BY <1>9 DEF CommentThread, GoTo, Answer, tables, request, history
<1>10. ASSUME NEW r \in Requests, FindParent(r) PROVE Silent
  BY <1>10 DEF FindParent, GoTo, Answer, tables, request, history
<1>11. ASSUME NEW r \in Requests, InsertComment(r) PROVE Silent
  BY <1>11 DEF InsertComment, Inserted, LateWith, Answer, tables, request, history
<1>12. ASSUME NEW r \in Requests, NEW u \in Users, NEW c \in Requests,
            RequestUncomment(r, u, c)
      PROVE Silent
  BY <1>12 DEF RequestUncomment, Begin, GoTo, RowsOf, tables, request, history
<1>13. ASSUME NEW r \in Requests, FindComment(r) PROVE Silent
  BY <1>13 DEF FindComment, GoTo, Answer, tables, request, history
<1>14. ASSUME NEW r \in Requests, DeleteComment(r) PROVE Silent
  BY <1>14 DEF DeleteComment, GoTo, Answer, SoftDeleted, tables, request, history
<1>15. ASSUME NEW r \in Requests, DeleteReplies(r) PROVE Silent
  BY <1>15 DEF DeleteReplies, RepliesDeleted, Replies, SoftDeleted, RowsOf, Answer,
      tables, request, history
<1>16. ASSUME NEW r \in Requests, LikeThread(r) PROVE Silent
  BY <1>16 DEF LikeThread, GoTo, Answer, tables, request, history
<1>17. ASSUME NEW r \in Requests, ViewThread(r) PROVE Silent
  BY <1>17 DEF ViewThread, GoTo, Answer, tables, request, history
<1>18. ASSUME NEW r \in Requests, NEW u \in Users, NEW t \in Threads, SaveMessage(r, u, t)
      PROVE Silent
  BY <1>18 DEF SaveMessage, Begin, Inserted, Answer, tables, request, history
<1>19. ASSUME NEW r \in Requests, StatementFails(r) PROVE Silent
  BY <1>19 DEF StatementFails, Answer, tables, request, history
<1>20. ASSUME UNCHANGED vars PROVE Silent
  BY <1>20 DEF vars
<1>21. QED
  BY <1>1, <1>2, <1>3, <1>4, <1>5, <1>6, <1>7, <1>8, <1>9, <1>10, <1>11, <1>12, <1>13,
     <1>14, <1>15, <1>16, <1>17, <1>18, <1>19, <1>20 DEF Next, Request, Step, Telling

\* A step that changes no like, and tells nobody anything but the truth about his.
StillTrue ==
  \A u \in Users : \A t \in Threads \ swept' :
    /\ t \notin swept
    /\ HasLike(u, t)' <=> HasLike(u, t)
    /\ \/ Unsure(u, t)'
       \/ /\ UNCHANGED shown[u][t]
          /\ \A r \in Requests : pc[r] = "count" /\ user[r] = u /\ about[r] = t =>
               pc'[r] = "count" /\ UNCHANGED <<user[r], about[r]>>
       \/ shown'[u][t] = "liked" <=> HasLike(u, t)

\* Such a step keeps Truth, unless it takes a toggle to its answer.
LEMMA TruthStep ==
  ASSUME Sound, Truth, StillTrue, alone' \cap {r \in Requests : pc[r] = "count"} \subseteq alone,
         \A r \in Requests : pc'[r] = "count" =>
           pc[r] = "count" /\ UNCHANGED <<user[r], about[r], target[r]>>
  PROVE  Truth'
<1>1. AsTold'
  <2>1. SUFFICES ASSUME NEW u \in Users, NEW t \in Threads \ swept', ~Unsure(u, t)',
                        \A r \in Requests : pc'[r] = "count" => user'[r] # u \/ about'[r] # t
                 PROVE  shown'[u][t] = "liked" <=> HasLike(u, t)'
    BY DEF AsTold
  <2>2. t \in Threads \ swept /\ (HasLike(u, t)' <=> HasLike(u, t))
    BY <2>1 DEF StillTrue
  <2>3. CASE shown'[u][t] = "liked" <=> HasLike(u, t)
    BY <2>2, <2>3
  <2>4. CASE /\ UNCHANGED shown[u][t]
             /\ \A r \in Requests : pc[r] = "count" /\ user[r] = u /\ about[r] = t =>
                  pc'[r] = "count" /\ UNCHANGED <<user[r], about[r]>>
    <3>1. ~Unsure(u, t) /\ \A r \in Requests : pc[r] = "count" => user[r] # u \/ about[r] # t
      BY <2>1, <2>4 DEF Unsure
    <3>2. QED BY <2>2, <2>4, <3>1 DEF Truth, AsTold
  <2>5. QED BY <2>1, <2>3, <2>4 DEF StillTrue
<1>2. AsAnswered'
  <2>1. SUFFICES ASSUME NEW r \in Requests, pc'[r] = "count", r \in alone', about'[r] \notin swept'
                 PROVE  (target[r] = NoRow <=> HasLike(user[r], about[r]))'
    BY DEF AsAnswered
  <2>2. pc[r] = "count" /\ UNCHANGED <<user[r], about[r], target[r]>> /\ r \in alone
    BY <2>1
  <2>3. PICK u \in Users, t \in Threads \ swept' : user[r] = u /\ about[r] = t
    BY <2>1, <2>2 DEF Sound, TypeOK
  <2>4. t \notin swept /\ (HasLike(u, t)' <=> HasLike(u, t))
    BY DEF StillTrue
  <2>5. target[r] = NoRow <=> HasLike(u, t)
    BY <2>2, <2>3, <2>4 DEF Truth, AsAnswered
  <2>6. HasLike(user[r], about[r])' <=> HasLike(u, t)'
    BY <2>2, <2>3 DEF HasLike
  <2>7. QED BY <2>2, <2>4, <2>5, <2>6
<1>3. QED
  BY <1>1, <1>2 DEF Truth

\* Told changes what one user knows of one thread.
LEMMA ToldAt ==
  ASSUME TypeOK, NEW r \in Requests, NEW what, shown' = Told(r, what),
         NEW u \in Users, NEW t \in Threads
  PROVE  shown'[u][t] = IF u = user[r] /\ t = about[r]
                        THEN IF r \in alone THEN what ELSE "unsure"
                        ELSE shown[u][t]
BY DEF TypeOK, Told

\* A silent step leaves what Trusted relates as it was.
LEMMA SilentStep ==
  ASSUME Sound, Trusted, Sound', Silent
  PROVE  Trusted'
<1> USE DEF Sound, Trusted
<1>1. /\ \A r \in Requests : op'[r] = "like" =>
           op[r] = "like" /\ pc[r] # "idle" /\ UNCHANGED <<user[r], about[r], target[r]>>
      /\ \A r \in Requests : op[r] = "like" => op'[r] = "like"
      /\ \A r \in Requests : pc'[r] \in {"insertLike", "deleteLike", "count"} =>
           pc[r] = pc'[r] /\ op[r] = "like"
  BY DEF Silent, Placed, LikeSteps
<1>2. /\ RowsOf("like")' = RowsOf("like")
      /\ \A q, r \in Requests : op[q] = "like" /\ op[r] = "like" =>
           (SameLike(q, r)' <=> SameLike(q, r))
  <2>1. \A r \in Requests : r \in RowsOf("like")' <=> r \in RowsOf("like")
    BY <1>1 DEF Silent, RowsOf
  <2>2. QED
    BY <1>1, <2>1 DEF RowsOf, SameLike
<1>3. Overlaps'
  BY DEF Silent, Overlaps, Asked, InFlight, Placed
<1>4. Inserting'
  BY <1>1, <1>2 DEF Silent, Inserting, RowsOf
<1>5. Deleting'
  BY <1>1, <1>2 DEF Silent, Deleting, RowsOf
<1>6. \A u \in Users : \A t \in Threads \ swept' : HasLike(u, t)' <=> HasLike(u, t)
  <2>1. \A r \in RowsOf("like") : about[r] \notin swept' => row'[r] = row[r]
    BY <1>1 DEF Silent, RowsOf
  <2>2. \A r \in RowsOf("like") : UNCHANGED <<user[r], about[r]>>
    BY <1>1 DEF RowsOf
  <2>3. QED
    BY <1>2, <2>1, <2>2 DEF HasLike, RowsIn
<1>7. StillTrue
  BY <1>1, <1>6 DEF Silent, StillTrue
<1>8. Truth'
  BY <1>1, <1>7, TruthStep DEF Silent
<1>9. ConflictOnlyOfOverlaps'
  <2>1. \A r \in Requests : result'[r] = "conflict" =>
          result[r] = "conflict" /\ UNCHANGED <<user[r], about[r]>>
    BY DEF Silent, Placed
  <2>2. QED
    BY <2>1 DEF Silent, ConflictOnlyOfOverlaps
<1>10. QED
  BY <1>3, <1>4, <1>5, <1>8, <1>9

\* An answer that is true, if the request is alone, or leaves its user unsure.
LEMMA AnswerTells ==
  ASSUME Sound, Trusted, NEW r \in Requests, NEW what, InFlight(r),
         pc' = [pc EXCEPT ![r] = "done"],
         UNCHANGED <<row, op, user, about, target, alone, swept>>,
         shown' = Told(r, what),
         \A q \in Requests : result'[q] = "conflict" => result[q] = "conflict",
         \/ what = "unsure"
         \/ r \in alone /\ about[r] \notin swept =>
              (what = "liked" <=> HasLike(user[r], about[r]))
  PROVE  Trusted'
<1> USE DEF Sound, Trusted
<1>1. \A u \in Users, t \in Threads : HasLike(u, t)' <=> HasLike(u, t)
  BY DEF HasLike, RowsIn, RowsOf
<1>2. \A u \in Users, t \in Threads :
        shown'[u][t] = IF u = user[r] /\ t = about[r]
                       THEN IF r \in alone THEN what ELSE "unsure"
                       ELSE shown[u][t]
  BY ToldAt
<1>3. Overlaps'
  BY DEF Overlaps, Asked, InFlight, TypeOK
<1>4. Inserting'
  BY DEF Inserting, RowsOf, SameLike, TypeOK
<1>5. Deleting'
  BY DEF Deleting, RowsOf, SameLike, TypeOK
<1>6. Truth'
  <2>1. \A q \in Requests : pc'[q] = "count" => pc[q] = "count" /\ q # r
    BY DEF TypeOK
  <2>2. \A q \in Requests : pc[q] = "count" /\ q # r => pc'[q] = "count"
    BY DEF TypeOK
  <2>3. ASSUME NEW u \in Users, NEW t \in Threads \ swept, ~Unsure(u, t)',
               u = user[r], t = about[r]
        PROVE  shown'[u][t] = "liked" <=> HasLike(u, t)
    BY <1>2, <2>3 DEF Unsure
  <2>4. ASSUME NEW u \in Users, NEW t \in Threads, ~(u = user[r] /\ t = about[r])
        PROVE  /\ UNCHANGED shown[u][t]
               /\ \A q \in Requests : pc[q] = "count" /\ user[q] = u /\ about[q] = t =>
                    pc'[q] = "count" /\ UNCHANGED <<user[q], about[q]>>
    BY <1>2, <2>2, <2>4
  <2>5. StillTrue
    BY <1>1, <2>3, <2>4 DEF StillTrue
  <2>6. QED
    BY <2>1, <2>5, TruthStep
<1>7. ConflictOnlyOfOverlaps'
  BY DEF ConflictOnlyOfOverlaps
<1>8. QED
  BY <1>3, <1>4, <1>5, <1>6, <1>7

\* The answer to a toggle is the state of the like.
LEMMA CountTells ==
  ASSUME Sound, Trusted, NEW r \in Requests, Count(r)
  PROVE  Trusted'
<1>1. /\ InFlight(r) /\ pc' = [pc EXCEPT ![r] = "done"]
      /\ UNCHANGED <<row, op, user, about, target, alone, swept>>
      /\ shown' = Told(r, Liked(r))
      /\ \A q \in Requests : result'[q] = "conflict" => result[q] = "conflict"
  BY DEF Count, Answer, Liked, InFlight, tables, request, Sound, TypeOK
<1>2. r \in alone /\ about[r] \notin swept =>
        (Liked(r) = "liked" <=> HasLike(user[r], about[r]))
  BY DEF Count, Liked, Trusted, Truth, AsAnswered
<1>3. QED
  BY <1>1, <1>2, AnswerTells

\* An error after the toggle leaves its user unsure.
LEMMA CountFailsTells ==
  ASSUME Sound, Trusted, NEW r \in Requests, CountFails(r)
  PROVE  Trusted'
<1>1. /\ InFlight(r) /\ pc' = [pc EXCEPT ![r] = "done"]
      /\ UNCHANGED <<row, op, user, about, target, alone, swept>>
      /\ shown' = Told(r, "unsure")
      /\ \A q \in Requests : result'[q] = "conflict" => result[q] = "conflict"
  BY DEF CountFails, Answer, InFlight, tables, request, Sound, TypeOK
<1>2. QED
  BY <1>1, AnswerTells

\* A view tells the state of the like.
LEMMA ViewLikeTells ==
  ASSUME Sound, Trusted, NEW r \in Requests, ViewLike(r)
  PROVE  Trusted'
<1>1. /\ InFlight(r) /\ pc' = [pc EXCEPT ![r] = "done"]
      /\ UNCHANGED <<row, op, user, about, target, alone, swept>>
      /\ shown' = Told(r, IsLiked(r))
      /\ \A q \in Requests : result'[q] = "conflict" => result[q] = "conflict"
  BY DEF ViewLike, Answer, IsLiked, InFlight, tables, request, Sound, TypeOK
<1>2. IsLiked(r) = "liked" <=> HasLike(user[r], about[r])
  BY DEF IsLiked, HasLike, RowsIn, RowsOf, SameLike
<1>3. QED
  BY <1>1, <1>2, AnswerTells

\* A view whose query failed leaves its user unsure.
LEMMA ViewLikeFailsTells ==
  ASSUME Sound, Trusted, NEW r \in Requests, ViewLikeFails(r)
  PROVE  Trusted'
<1>1. /\ InFlight(r) /\ pc' = [pc EXCEPT ![r] = "done"]
      /\ UNCHANGED <<row, op, user, about, target, alone, swept>>
      /\ shown' = Told(r, "unsure")
      /\ \A q \in Requests : result'[q] = "conflict" => result[q] = "conflict"
  BY DEF ViewLikeFails, Answer, InFlight, tables, request, Sound, TypeOK
<1>2. QED
  BY <1>1, AnswerTells

\* A request that begins is alone if no toggle is under way, and a toggle that
\* begins leaves nobody that is under way alone.
LEMMA RequestTells ==
  ASSUME Sound, Trusted, NEW r \in Requests, NEW v \in Users, NEW s \in Threads,
         NEW o \in {"like", "view"}, Begin(r, o, v, s),
         \/ o = "like" /\ pc' = [pc EXCEPT ![r] = "likeThread"]
              /\ alone' = AloneWith(r, v, s) \ UnderWay({"like", "view"}, v, s)
         \/ o = "view" /\ pc' = [pc EXCEPT ![r] = "viewThread"] /\ alone' = AloneWith(r, v, s),
         UNCHANGED <<row, target, result, shown, swept>>
  PROVE  Trusted'
<1> USE DEF Sound, Trusted
<1>1. /\ pc[r] = "idle" /\ row[r] = "none" /\ result[r] = "none"
      /\ pc'[r] \in {"likeThread", "viewThread"}
      /\ op'[r] = o /\ user'[r] = v /\ about'[r] = s
      /\ \A q \in Requests : q # r => UNCHANGED <<pc[q], op[q], user[q], about[q]>>
      /\ r \notin alone
  BY DEF Begin, TypeOK, Placed
<1>2. /\ \A q \in Requests : q \in alone' /\ q # r => q \in alone
      /\ \A q \in Requests : InFlight(q) /\ op[q] = "like" /\ user[q] = v /\ about[q] = s =>
           r \notin alone'
      /\ o = "like" => \A q \in Requests :
           InFlight(q) /\ op[q] \in {"like", "view"} /\ user[q] = v /\ about[q] = s => q \notin alone'
  BY <1>1 DEF AloneWith, UnderWay, Overlaps, InFlight, Asked
<1>3. \A u \in Users, t \in Threads : HasLike(u, t)' <=> HasLike(u, t)
  BY <1>1 DEF HasLike, RowsIn, RowsOf
<1>4. Overlaps'
  <2>1. SUFFICES ASSUME NEW p \in Requests, NEW q \in Requests, p # q, Asked(p, q)',
                        op'[p] = "like", InFlight(p)',
                        op'[q] \in {"like", "view"}, InFlight(q)'
                 PROVE  q \notin alone'
    BY DEF Overlaps
  <2>2. CASE p # r /\ q # r
    BY <1>1, <1>2, <2>1, <2>2 DEF Overlaps, Asked, InFlight
  <2>3. CASE p = r \/ q = r
    BY <1>1, <1>2, <2>1, <2>3 DEF Asked, InFlight
  <2>4. QED
    BY <2>2, <2>3
<1>5. /\ \A q \in Requests : pc'[q] \in {"insertLike", "deleteLike", "count"} =>
           q # r /\ pc[q] = pc'[q]
      /\ RowsOf("like")' = RowsOf("like") /\ r \notin RowsOf("like")
  BY <1>1 DEF RowsOf
<1>6. Inserting'
  BY <1>1, <1>2, <1>5 DEF Inserting, SameLike, RowsOf
<1>7. Deleting'
  BY <1>1, <1>2, <1>5 DEF Deleting, SameLike, RowsOf
<1>8. Truth'
  <2>1. \A q \in Requests : pc[q] = "count" => q # r /\ pc'[q] = "count"
    BY <1>1
  <2>2. StillTrue
    BY <1>1, <1>3, <2>1 DEF StillTrue
  <2>3. QED
    BY <1>1, <1>2, <1>5, <2>1, <2>2, TruthStep
<1>9. ConflictOnlyOfOverlaps'
  BY <1>1, <1>2 DEF ConflictOnlyOfOverlaps
<1>10. QED
  BY <1>4, <1>6, <1>7, <1>8, <1>9

LEMMA RequestToggleTells ==
  ASSUME Sound, Trusted, NEW r \in Requests, NEW v \in Users, NEW s \in Threads,
         RequestToggle(r, v, s)
  PROVE  Trusted'
BY RequestTells DEF RequestToggle, GoTo, tables

LEMMA RequestViewTells ==
  ASSUME Sound, Trusted, NEW r \in Requests, NEW v \in Users, NEW s \in Threads,
         RequestView(r, v, s)
  PROVE  Trusted'
BY RequestTells DEF RequestView, GoTo, tables

\* A crash ends the requests, and those that had toggled leave their users unsure.
LEMMA CrashTells ==
  ASSUME Sound, Trusted, Sound', Crash
  PROVE  Trusted'
<1> USE DEF Sound, Trusted
<1>1. /\ \A r \in Requests : pc'[r] \in {"idle", "done"} /\ ~InFlight(r)'
      /\ \A r \in Requests : result'[r] = "conflict" => result[r] = "conflict"
      /\ UNCHANGED <<row, op, user, about, target, alone, swept>>
      /\ \A u \in Users, t \in Threads :
           shown'[u][t] = IF \E r \in Requests : pc[r] = "count" /\ user[r] = u /\ about[r] = t
                          THEN "unsure" ELSE shown[u][t]
  BY DEF Crash, InFlight, TypeOK, tables, request
<1>2. \A u \in Users, t \in Threads : HasLike(u, t)' <=> HasLike(u, t)
  BY <1>1 DEF HasLike, RowsIn, RowsOf
<1>3. (Overlaps /\ Inserting /\ Deleting)'
  BY <1>1 DEF Overlaps, Inserting, Deleting
<1>4. Truth'
  <2>1. StillTrue
    BY <1>1, <1>2 DEF StillTrue, Unsure
  <2>2. QED
    BY <1>1, <2>1, TruthStep
<1>5. ConflictOnlyOfOverlaps'
  BY <1>1 DEF ConflictOnlyOfOverlaps, TypeOK
<1>6. QED
  BY <1>3, <1>4, <1>5

\* A toggle finds the only like, or none that is live.
LEMMA FindLikeTells ==
  ASSUME Sound, Trusted, OneLikePerUser, GoneLikes, Sound', NEW r \in Requests, FindLike(r)
  PROVE  Trusted'
<1> USE DEF Sound, Trusted
<1>1. /\ pc[r] = "findLike" /\ op[r] = "like"
      /\ UNCHANGED <<row, op, user, about, alone, shown, swept, result>>
      /\ \A q \in Requests : q # r => UNCHANGED <<pc[q], target[q]>>
      /\ \/ /\ pc'[r] = "deleteLike" /\ target'[r] \in RowsOf("like")
            /\ SameLike(target'[r], r)
         \/ /\ pc'[r] = "insertLike"
            /\ \A l \in RowsOf("like") : row[l] = "live" => ~SameLike(l, r)
  BY DEF FindLike, GoTo, tables, request, history, TypeOK, Placed, LikeSteps, RowsOf
<1>2. /\ \A u \in Users, t \in Threads : HasLike(u, t)' <=> HasLike(u, t)
      /\ RowsOf("like")' = RowsOf("like")
      /\ \A q, s \in Requests : SameLike(q, s)' <=> SameLike(q, s)
  BY <1>1 DEF HasLike, RowsIn, RowsOf, SameLike
<1>3. Overlaps'
  BY <1>1 DEF Overlaps, Asked, InFlight
<1>4. Inserting'
  <2>1. pc'[r] = "insertLike" =>
          \A l \in RowsOf("like") : SameLike(l, r) => about[r] \in swept
    BY <1>1 DEF GoneLikes, SameLike, RowsOf, TypeOK
  <2>2. QED
    BY <1>1, <1>2, <2>1 DEF Inserting, RowsOf
<1>5. Deleting'
  <2>1. pc'[r] = "deleteLike" => \A l \in RowsOf("like") : SameLike(l, r) => l = target'[r]
    BY <1>1 DEF OneLikePerUser, SameLike
  <2>2. QED
    BY <1>1, <1>2, <2>1 DEF Deleting, RowsOf
<1>6. Truth'
  <2>1. StillTrue
    BY <1>1, <1>2 DEF StillTrue
  <2>2. \A q \in Requests : pc'[q] = "count" => q # r
    BY <1>1
  <2>3. QED
    BY <1>1, <2>1, <2>2, TruthStep
<1>7. ConflictOnlyOfOverlaps'
  BY <1>1 DEF ConflictOnlyOfOverlaps
<1>8. QED
  BY <1>3, <1>4, <1>5, <1>6, <1>7

\* With the like found goes the only like, so the answer is unliked.
LEMMA DeleteLikeTells ==
  ASSUME Sound, Trusted, Sound', NEW r \in Requests, DeleteLike(r)
  PROVE  Trusted'
<1> USE DEF Sound, Trusted
<1> DEFINE l == target[r]
<1>1. /\ pc[r] = "deleteLike" /\ pc' = [pc EXCEPT ![r] = "count"]
      /\ l \in Requests /\ SameLike(l, r) /\ op[r] = "like"
      /\ row' = [row EXCEPT ![l] = "none"]
      /\ UNCHANGED <<op, user, about, target, alone, shown, swept, result>>
  BY DEF DeleteLike, WithoutLike, GoTo, tables, request, history, TypeOK, Placed, Rows,
         LikeSteps
<1>2. RowsOf("like")' = RowsOf("like") \ {l}
  BY <1>1 DEF RowsOf, TypeOK
<1>3. Overlaps'
  BY <1>1 DEF Overlaps, Asked, InFlight, TypeOK
<1>4. Inserting'
  BY <1>1, <1>2 DEF Inserting, SameLike, TypeOK
<1>5. Deleting'
  BY <1>1, <1>2 DEF Deleting, SameLike, TypeOK
<1>6. ASSUME NEW u \in Users, NEW t \in Threads, ~(user[r] = u /\ about[r] = t)
      PROVE  HasLike(u, t)' <=> HasLike(u, t)
  BY <1>1, <1>2, <1>6 DEF HasLike, RowsIn, SameLike, RowsOf, TypeOK
<1>7. AsTold'
  <2>1. SUFFICES ASSUME NEW u \in Users, NEW t \in Threads \ swept, ~Unsure(u, t),
                        \A q \in Requests : pc'[q] = "count" => user[q] # u \/ about[q] # t
                 PROVE  shown[u][t] = "liked" <=> HasLike(u, t)'
    BY <1>1 DEF AsTold, Unsure
  <2>2. pc'[r] = "count" /\ \A q \in Requests : pc[q] = "count" => pc'[q] = "count"
    BY <1>1 DEF TypeOK
  <2>3. QED
    BY <1>6, <2>1, <2>2 DEF Truth, AsTold
<1>8. AsAnswered'
  <2>1. SUFFICES ASSUME NEW q \in Requests, pc'[q] = "count", q \in alone, about[q] \notin swept
                 PROVE  (target[q] = NoRow <=> HasLike(user[q], about[q]))'
    BY <1>1 DEF AsAnswered
  <2>2. PICK u \in Users, t \in Threads : user[q] = u /\ about[q] = t
    BY DEF TypeOK
  <2>3. HasLike(user[q], about[q])' <=> HasLike(u, t)'
    BY <1>1, <2>2 DEF HasLike
  <2>4. CASE q = r
    <3>1. ~HasLike(u, t)'
      BY <1>1, <1>2, <2>1, <2>2, <2>4 DEF HasLike, RowsIn, Deleting, SameLike, RowsOf
    <3>2. target[q] # NoRow
      BY <1>1, <2>4, ForumAssumption
    <3>3. QED
      BY <1>1, <2>3, <3>1, <3>2
  <2>5. CASE q # r
    <3>1. pc[q] = "count" /\ op[q] = "like" /\ InFlight(q)
      BY <1>1, <2>1, <2>5 DEF Placed, LikeSteps
    <3>2. ~(user[r] = u /\ about[r] = t)
      BY <1>1, <2>1, <2>2, <2>5, <3>1 DEF Overlaps, Asked, InFlight
    <3>3. QED
      BY <1>1, <1>6, <2>1, <2>2, <2>3, <3>1, <3>2 DEF Truth, AsAnswered
  <2>6. QED
    BY <2>4, <2>5
<1>9. ConflictOnlyOfOverlaps'
  BY <1>1 DEF ConflictOnlyOfOverlaps
<1>10. QED
  BY <1>3, <1>4, <1>5, <1>7, <1>8, <1>9 DEF Truth

\* With the insertion there is a like, so the answer is liked.
LEMMA InsertLikeTells ==
  ASSUME Sound, Trusted, Sound', NEW r \in Requests, InsertLike(r)
  PROVE  Trusted'
<1> USE DEF Sound, Trusted
<1>1. /\ pc[r] = "insertLike" /\ op[r] = "like" /\ target[r] = NoRow /\ row[r] = "none"
      /\ InFlight(r)
      /\ UNCHANGED <<op, user, about, target, alone, shown, swept>>
      /\ \A q \in Requests : q # r => UNCHANGED <<pc[q], result[q], row[q]>>
      /\ \/ pc'[r] = "done" /\ UNCHANGED row
         \/ pc'[r] = "count" /\ row'[r] = "live"
  BY DEF InsertLike, Inserted, GoTo, Answer, InFlight, request, TypeOK, Placed, Rows, LikeSteps
<1>2. /\ RowsOf("like")' \subseteq RowsOf("like") \cup {r}
      /\ \A q, s \in Requests : SameLike(q, s)' <=> SameLike(q, s)
  BY <1>1 DEF RowsOf, SameLike
<1>3. \A q \in Requests : q # r /\ Asked(r, q) /\ op[q] = "like" /\ InFlight(q) =>
        q \notin alone
  BY <1>1 DEF Overlaps
<1>4. Overlaps'
  BY <1>1 DEF Overlaps, Asked, InFlight
<1>5. Inserting'
  BY <1>1, <1>2, <1>3 DEF Inserting, SameLike, Asked, InFlight, Placed, LikeSteps
<1>6. Deleting'
  BY <1>1, <1>2, <1>3 DEF Deleting, SameLike, Asked, InFlight, Placed, LikeSteps
<1>7. ASSUME NEW u \in Users, NEW t \in Threads, ~(user[r] = u /\ about[r] = t)
      PROVE  HasLike(u, t)' <=> HasLike(u, t)
  BY <1>1, <1>2, <1>7 DEF HasLike, RowsIn, RowsOf
<1>8. Truth'
  <2>1. CASE pc'[r] = "done" /\ UNCHANGED row
    <3>1. \A u \in Users, t \in Threads : HasLike(u, t)' <=> HasLike(u, t)
      BY <1>1, <2>1 DEF HasLike, RowsIn, RowsOf
    <3>2. StillTrue
      BY <1>1, <2>1, <3>1 DEF StillTrue
    <3>3. \A q \in Requests : pc'[q] = "count" => pc[q] = "count"
      BY <1>1, <2>1
    <3>4. QED
      BY <1>1, <3>2, <3>3, TruthStep
  <2>2. CASE pc'[r] = "count" /\ row'[r] = "live"
    <3>1. AsTold'
      <4>1. SUFFICES ASSUME NEW u \in Users, NEW t \in Threads \ swept, ~Unsure(u, t),
                            \A q \in Requests : pc'[q] = "count" => user[q] # u \/ about[q] # t
                     PROVE  shown[u][t] = "liked" <=> HasLike(u, t)'
        BY <1>1 DEF AsTold, Unsure
      <4>2. \A q \in Requests : pc[q] = "count" => pc'[q] = "count"
        BY <1>1
      <4>3. QED
        BY <1>7, <2>2, <4>1, <4>2 DEF Truth, AsTold
    <3>2. AsAnswered'
      <4>1. SUFFICES ASSUME NEW q \in Requests, pc'[q] = "count", q \in alone, about[q] \notin swept
                     PROVE  (target[q] = NoRow <=> HasLike(user[q], about[q]))'
        BY <1>1 DEF AsAnswered
      <4>2. PICK u \in Users, t \in Threads : user[q] = u /\ about[q] = t
        BY DEF TypeOK
      <4>3. HasLike(user[q], about[q])' <=> HasLike(u, t)'
        BY <1>1, <4>2 DEF HasLike
      <4>4. CASE q = r
        <5>1. HasLike(u, t)'
          BY <1>1, <2>2, <4>2, <4>4 DEF HasLike, RowsIn, RowsOf
        <5>2. QED
          BY <1>1, <4>3, <4>4, <5>1
      <4>5. CASE q # r
        <5>1. pc[q] = "count" /\ op[q] = "like" /\ InFlight(q)
          BY <1>1, <4>1, <4>5 DEF Placed, LikeSteps
        <5>2. ~(user[r] = u /\ about[r] = t)
          BY <1>3, <4>1, <4>2, <4>5, <5>1 DEF Asked
        <5>3. QED
          BY <1>1, <1>7, <4>1, <4>2, <4>3, <5>1, <5>2 DEF Truth, AsAnswered
      <4>6. QED
        BY <4>4, <4>5
    <3>3. QED
      BY <3>1, <3>2 DEF Truth
  <2>3. QED
    BY <1>1, <2>1, <2>2
<1>9. ConflictOnlyOfOverlaps'
  <2>1. result'[r] = "conflict" => about[r] \in swept \/ r \notin alone
    BY <1>1 DEF InsertLike, GoTo, Answer, Taken, Inserting, Placed, TypeOK
  <2>2. QED
    BY <1>1, <2>1 DEF ConflictOnlyOfOverlaps
<1>10. QED
  BY <1>4, <1>5, <1>6, <1>8, <1>9

-----------------------------------------------------------------------------
\* All of it.
IInv == Sound /\ Kept /\ Trusted

\* A new database has no rows and no requests.
LEMMA InitInv == Init => IInv
<1> SUFFICES ASSUME Init PROVE IInv
  OBVIOUS
<1> USE ForumAssumption DEF Init
<1>1. /\ (CHOOSE u \in Users : TRUE) \in Users
      /\ (CHOOSE t \in Threads : TRUE) \in Threads
  OBVIOUS
<1>2. TypeOK
  BY <1>1 DEF TypeOK, Operations, Statements, Results
<1>3. Placed /\ Rows
  BY DEF Placed, Rows, LikeSteps, ViewSteps, CommentSteps, UncommentSteps, DeleteSteps,
         InFlight
<1>4. \A o \in Operations : RowsOf(o) = {}
  BY DEF RowsOf
<1>5. Kept
  BY <1>4 DEF Kept, Sweeping, Swept, Answered, OneLikePerUser, GoneLikes, Operations
<1>6. Trusted
  BY <1>4 DEF Trusted, Overlaps, Inserting, Deleting, Truth, AsTold, AsAnswered, ConflictOnlyOfOverlaps, HasLike,
              RowsIn, InFlight, Operations
<1>7. QED BY <1>2, <1>3, <1>5, <1>6 DEF IInv, Sound

\* Every step keeps the rows in order.
LEMMA KeptStep ==
  ASSUME Sound, Kept, Sound', [Next]_vars
  PROVE  Kept'
<1>1. CASE Quiet
  BY <1>1, QuietStep
<1>2. ASSUME NEW r \in Requests, Loud(r) PROVE Kept'
  BY <1>2, WipeCommentsStep, WipeLikesStep, WipeMessagesStep, DeleteThreadStep,
     InsertCommentStep, DeleteCommentStep, DeleteRepliesStep, DeleteLikeStep,
     InsertLikeStep, SaveMessageStep DEF Loud
<1>3. QED BY <1>1, <1>2, QuietOrLoud

\* Every step keeps what users were told true, or makes them unsure.
LEMMA TrustedStep ==
  ASSUME Sound, Kept, Trusted, Sound', [Next]_vars
  PROVE  Trusted'
<1>1. CASE Silent
  BY <1>1, SilentStep
<1>2. CASE Crash
  BY <1>2, CrashTells
<1>3. ASSUME NEW r \in Requests, Telling(r) PROVE Trusted'
  BY <1>3, FindLikeTells, DeleteLikeTells, InsertLikeTells, CountTells, CountFailsTells,
     ViewLikeTells, ViewLikeFailsTells, RequestToggleTells, RequestViewTells
     DEF Telling, Kept
<1>4. QED BY <1>1, <1>2, <1>3, SilentOrTelling

\* The invariant is inductive.
LEMMA NextInv == IInv /\ [Next]_vars => IInv'
BY SoundStep, KeptStep, TrustedStep DEF IInv

\* The rows, what was told and the requests in flight agree, in every behaviour.
THEOREM Invariance == Spec => []IInv
BY InitInv, NextInv, PTL DEF Spec

\* Types, of the tables, the requests and the history.
THEOREM TypeCorrect == Spec => []TypeOK
<1>1. IInv => TypeOK
  BY DEF IInv, Sound
<1>2. QED BY <1>1, Invariance, PTL

\* However many toggles overlap, a user has one like of a thread.
THEOREM OneLike == Spec => []OneLikePerUser
<1>1. IInv => OneLikePerUser
  BY DEF IInv, Kept
<1>2. QED BY <1>1, Invariance, PTL

\* A user can rely on the last answer of a request that overlapped no other.
THEOREM ToldTruly == Spec => []LikedAsShown
<1>1. IInv => LikedAsShown
  <2>1. SUFFICES ASSUME IInv, NEW u \in Users, NEW t \in Threads \ swept, ~Unsure(u, t),
                        \A q \in Requests :
                          ~(InFlight(q) /\ op[q] = "like" /\ user[q] = u /\ about[q] = t)
                 PROVE  shown[u][t] = "liked" <=> HasLike(u, t)
    BY DEF LikedAsShown, Unsure, HasLike
  <2>2. \A r \in Requests : pc[r] = "count" => user[r] # u \/ about[r] # t
    BY <2>1 DEF IInv, Sound, Placed, LikeSteps
  <2>3. QED BY <2>1, <2>2 DEF IInv, Trusted, Truth, AsTold
<1>2. QED BY <1>1, Invariance, PTL

\* Only a toggle that overlapped another, or a thread whose deletion has begun, meets
\* a conflict.
THEOREM ConflictExplained == Spec => []ConflictOnlyOfOverlaps
<1>1. IInv => ConflictOnlyOfOverlaps
  BY DEF IInv, Trusted
<1>2. QED BY <1>1, Invariance, PTL

\* One like for each user who likes the thread: the user of a like is an injection.
THEOREM CountAccurate == Spec => []LikeCountIsAccurate
<1>1. ASSUME IInv, NEW t \in Threads \ swept
      PROVE  LikeCount(t)
               = Cardinality({user[l] : l \in {r \in RowsIn("like", t) : row[r] = "live"}})
  <2> DEFINE likes == RowsIn("like", t)
             fans == {user[l] : l \in likes}
             fan == [l \in likes |-> user[l]]
  <2>1. {r \in likes : row[r] = "live"} = likes
    BY <1>1 DEF IInv, Kept, GoneLikes, Sound, TypeOK, RowsIn, RowsOf
  <2>2. \A l, m \in likes : user[l] = user[m] => l = m
    BY <1>1 DEF IInv, Kept, OneLikePerUser, SameLike, RowsIn, RowsOf
  <2>3. fan \in Bijection(likes, fans)
    <3>1. fan \in [likes -> fans]
      OBVIOUS
    <3>2. fan \in Injection(likes, fans)
      BY <2>2, <3>1 DEF Injection, IsInjective
    <3>3. fan \in Surjection(likes, fans)
      BY <3>1 DEF Surjection
    <3>4. QED BY <3>2, <3>3 DEF Bijection
  <2>4. IsFiniteSet(likes)
    BY ForumAssumption, FS_Subset DEF RowsIn, RowsOf
  <2>5. Cardinality(fans) = Cardinality(likes)
    <3> HIDE DEF likes, fans, fan
    <3>1. ExistsBijection(likes, fans)
      BY <2>3 DEF ExistsBijection
    <3>2. QED BY <2>4, <3>1, FS_Bijection
  <2>6. QED BY <2>1, <2>5 DEF LikeCount
<1>2. IInv => LikeCountIsAccurate
  BY <1>1 DEF LikeCountIsAccurate
<1>3. QED BY <1>2, Invariance, PTL

\* A row that a cascade leaves was inserted after it had begun.
THEOREM CascadeMissed == Spec => []CascadeMissesOnlyLateRows
<1>1. IInv => CascadeMissesOnlyLateRows
  BY DEF IInv, Sound, Rows, Kept, Swept, CascadeMissesOnlyLateRows, Clean, RowsIn, RowsOf
<1>2. QED BY <1>1, Invariance, PTL

\* A reply that outlives its comment was inserted after the comment was deleted.
THEOREM RepliesLate == Spec => []ReplySurvivesOnlyIfLate
<1>1. IInv => ReplySurvivesOnlyIfLate
  BY DEF IInv, Kept, Answered, ReplySurvivesOnlyIfLate
<1>2. QED BY <1>1, Invariance, PTL

-----------------------------------------------------------------------------
(***************************************************************************)
(* Who deletes: the right to delete, once compared, stays                   *)
(***************************************************************************)

\* The statements that come after a comparison with the owner or the author.
Wiping == {"wipeComments", "wipeLikes", "wipeMessages", "deleteThread"}
Uncommenting == {"deleteComment", "deleteReplies"}

\* Who is past the comparison is the owner of the thread, or the comment's author.
Entitled ==
  \A q \in Requests :
    /\ pc[q] \in Wiping => user[q] = owner[about[q]] /\ thread[about[q]] # "none"
    /\ pc[q] \in Uncommenting => user[q] = user[target[q]]

\* What the comparisons have read is not changed by any step, and there is no other
\* way to the statements that delete.
Steady ==
  /\ \A r \in Requests : pc[r] # "idle" =>
       op'[r] = op[r] /\ user'[r] = user[r] /\ about'[r] = about[r]
  /\ \A r \in Requests : pc[r] # "idle" /\ op[r] # "like" => target'[r] = target[r]
  /\ \A t \in Threads : thread[t] # "none" => owner'[t] = owner[t] /\ thread'[t] # "none"
  /\ \A r \in Requests : pc'[r] \in Wiping =>
       \/ pc[r] \in Wiping
       \/ pc[r] = "findThread" /\ user[r] = owner[about[r]] /\ thread[about[r]] = "live"
  /\ \A r \in Requests : pc'[r] \in Uncommenting =>
       \/ pc[r] \in Uncommenting
       \/ pc[r] = "findComment" /\ user[r] = user[target[r]]

LEMMA SteadyStep ==
  ASSUME Sound, [Next]_vars
  PROVE  Steady
<1> USE DEF Sound, TypeOK, Statements, Steady, Wiping, Uncommenting
<1>1. ASSUME NEW u \in Users, NEW t \in Threads, CreateThread(u, t) PROVE Steady
  BY <1>1 DEF CreateThread, request
<1>2. ASSUME NEW r \in Requests, NEW u \in Users, NEW t \in Threads,
             RequestDelete(r, u, t) \/ RequestToggle(r, u, t) \/ RequestView(r, u, t)
      PROVE  Steady
  BY <1>2 DEF RequestDelete, RequestToggle, RequestView, Begin, GoTo, tables
<1>3. ASSUME NEW r \in Requests, NEW u \in Users, NEW t \in Threads,
             NEW p \in Requests \cup {NoRow}, RequestComment(r, u, t, p)
      PROVE  Steady
  BY <1>3 DEF RequestComment, Begin, GoTo, tables
<1>4. ASSUME NEW r \in Requests, NEW u \in Users, NEW c \in Requests, RequestUncomment(r, u, c)
      PROVE  Steady
  BY <1>4 DEF RequestUncomment, Begin, GoTo, RowsOf, tables
<1>5. ASSUME NEW r \in Requests, NEW u \in Users, NEW t \in Threads, SaveMessage(r, u, t)
      PROVE  Steady
  BY <1>5 DEF SaveMessage, Begin, Answer
<1>6. ASSUME NEW r \in Requests, FindThread(r) PROVE Steady
  BY <1>6 DEF FindThread, GoTo, Answer, tables, request
<1>7. ASSUME NEW r \in Requests, WipeComments(r) \/ WipeLikes(r) \/ WipeMessages(r)
      PROVE  Steady
  <2>1. UNCHANGED <<thread, owner, op, user, about, target>>
    BY <1>7 DEF WipeComments, WipeLikes, WipeMessages, Wipe, request
  <2>2. pc[r] \in Wiping /\ \A q \in Requests : q # r => pc'[q] = pc[q]
    BY <1>7 DEF WipeComments, WipeLikes, WipeMessages, Wipe, GoTo
  <2>3. pc'[r] \notin Uncommenting
    BY <1>7 DEF WipeComments, WipeLikes, WipeMessages, Wipe, GoTo
  <2>4. QED BY <2>1, <2>2, <2>3
<1>8. ASSUME NEW r \in Requests, DeleteThread(r) PROVE Steady
  BY <1>8 DEF DeleteThread, Answer, request
<1>9. ASSUME NEW r \in Requests, FindComment(r) PROVE Steady
  BY <1>9 DEF FindComment, GoTo, Answer, tables, request
<1>10. ASSUME NEW r \in Requests, DeleteComment(r) \/ DeleteReplies(r) PROVE Steady
  BY <1>10 DEF DeleteComment, DeleteReplies, GoTo, Answer, request
<1>11. ASSUME NEW r \in Requests, CommentThread(r) \/ FindParent(r) \/ InsertComment(r)
       PROVE  Steady
  BY <1>11 DEF CommentThread, FindParent, InsertComment, GoTo, Answer, tables, request
<1>12. ASSUME NEW r \in Requests, LikeThread(r) \/ DeleteLike(r) \/ InsertLike(r)
       PROVE  Steady
  BY <1>12 DEF LikeThread, DeleteLike, InsertLike, GoTo, Answer, tables, request
<1>13. ASSUME NEW r \in Requests, FindLike(r) PROVE Steady
  <2>1. op[r] = "like"
    BY <1>13 DEF FindLike, Placed, LikeSteps
  <2>2. QED BY <1>13, <2>1 DEF FindLike, GoTo, tables, request
<1>14. ASSUME NEW r \in Requests, Count(r) \/ CountFails(r) PROVE Steady
  BY <1>14 DEF Count, CountFails, Answer, tables, request
<1>15. ASSUME NEW r \in Requests, ViewThread(r) \/ ViewLike(r) \/ ViewLikeFails(r)
       PROVE  Steady
  BY <1>15 DEF ViewThread, ViewLike, ViewLikeFails, GoTo, Answer, tables, request
<1>16. ASSUME NEW r \in Requests, StatementFails(r) PROVE Steady
  BY <1>16 DEF StatementFails, Answer, tables, request
<1>17. CASE Crash
  BY <1>17 DEF Crash, tables, request
<1>18. CASE UNCHANGED vars
  BY <1>18 DEF vars
<1>19. QED
  BY <1>1, <1>2, <1>3, <1>4, <1>5, <1>6, <1>7, <1>8, <1>9, <1>10, <1>11, <1>12, <1>13,
     <1>14, <1>15, <1>16, <1>17, <1>18 DEF Next, Request, Step

LEMMA EntitledStep ==
  ASSUME Sound, Entitled, [Next]_vars
  PROVE  Entitled'
<1>1. Steady
  BY SteadyStep
<1> SUFFICES ASSUME NEW q \in Requests
             PROVE  /\ pc'[q] \in Wiping => user'[q] = owner'[about'[q]]
                                            /\ thread'[about'[q]] # "none"
                    /\ pc'[q] \in Uncommenting => user'[q] = user'[target'[q]]
  BY DEF Entitled
<1>2. CASE pc'[q] \in Wiping
  <2>1. /\ pc[q] # "idle" /\ about[q] \in Threads
        /\ user[q] = owner[about[q]] /\ thread[about[q]] # "none"
    BY <1>1, <1>2 DEF Steady, Entitled, Wiping, Sound, TypeOK
  <2>2. QED BY <1>1, <1>2, <2>1 DEF Steady, Wiping, Uncommenting
<1>3. CASE pc'[q] \in Uncommenting
  <2>1. pc[q] # "idle" /\ pc[q] \in UncommentSteps /\ user[q] = user[target[q]]
    BY <1>1, <1>3 DEF Steady, Entitled, Uncommenting, UncommentSteps
  <2>2. op[q] = "uncomment"
    BY <2>1 DEF Sound, Placed
  <2>3. target[q] \in Requests /\ op[target[q]] = "comment"
    BY <2>2 DEF Sound, Rows
  <2>4. pc[target[q]] # "idle"
    BY <2>3 DEF Sound, Placed
  <2>5. target'[q] = target[q] /\ user'[q] = user[q] /\ user'[target[q]] = user[target[q]]
    BY <1>1, <2>1, <2>2, <2>3, <2>4 DEF Steady
  <2>6. QED BY <1>3, <2>1, <2>5 DEF Wiping, Uncommenting
<1>4. QED BY <1>2, <1>3

\* The rows among rs that are live go, and no other.
LEMMA SoftDeletedRows ==
  ASSUME TypeOK, NEW rs, row' = SoftDeleted(rs), NEW r \in Requests
  PROVE  /\ row[r] = "live" /\ row'[r] # "live" => r \in rs
         /\ row[r] = "gone" => row'[r] # "live"
BY DEF SoftDeleted, TypeOK

\* What a statement that deletes or inserts does to the row of r.
LEMMA LoudDeletes ==
  ASSUME Sound, Entitled, NEW q \in Requests, Loud(q), NEW r \in Requests
  PROVE  /\ row[r] = "live" /\ row'[r] # "live" => InFlight(q) /\ MayDelete(q, r)
         /\ row[r] = "gone" => row'[r] # "live"
<1> USE DEF Sound
<1>1. CASE WipeComments(q) \/ WipeLikes(q) \/ WipeMessages(q)
  <2>1. pc[q] \in Wiping /\ UNCHANGED <<op, about>>
        /\ (UNCHANGED row \/ \E o \in Operations : row' = SoftDeleted(RowsIn(o, about[q])))
    BY <1>1 DEF WipeComments, WipeLikes, WipeMessages, Wipe, Cascaded, Wiping, Operations, request
  <2>2. op[q] = "delete" /\ InFlight(q) /\ user[q] = owner[about[q]]
    BY <2>1 DEF Wiping, Placed, DeleteSteps, InFlight, Entitled
  <2>3. CASE UNCHANGED row
    BY <2>3
  <2>4. ASSUME NEW o \in Operations, row' = SoftDeleted(RowsIn(o, about[q]))
        PROVE  /\ row[r] = "live" /\ row'[r] # "live" => r \in RowsIn(o, about[q])
               /\ row[r] = "gone" => row'[r] # "live"
    BY <2>4, SoftDeletedRows
  <2>5. QED BY <2>1, <2>2, <2>3, <2>4 DEF MayDelete, RowsIn
<1>2. CASE DeleteThread(q)
  BY <1>2 DEF DeleteThread
<1>3. CASE InsertComment(q) \/ InsertLike(q)
  <2>1. row[q] = "none"
    BY <1>3 DEF InsertComment, InsertLike, Rows, TypeOK
  <2>2. row' = row \/ row' = [row EXCEPT ![q] = "live"]
    BY <1>3 DEF InsertComment, InsertLike, Inserted
  <2>3. QED BY <2>1, <2>2 DEF TypeOK
<1>4. CASE DeleteComment(q) \/ DeleteReplies(q)
  <2>1. pc[q] \in Uncommenting
        /\ (row' = SoftDeleted({target[q]}) \/ row' = SoftDeleted(Replies(target[q])))
    BY <1>4 DEF DeleteComment, DeleteReplies, RepliesDeleted, Uncommenting
  <2>2. op[q] = "uncomment" /\ InFlight(q) /\ user[q] = user[target[q]]
    BY <2>1 DEF Uncommenting, Placed, UncommentSteps, InFlight, Entitled
  <2>3. /\ row[r] = "live" /\ row'[r] # "live" => r \in Replies(target[q]) \cup {target[q]}
        /\ row[r] = "gone" => row'[r] # "live"
    BY <2>1, SoftDeletedRows
  <2>4. QED BY <2>2, <2>3 DEF MayDelete
<1>5. CASE DeleteLike(q)
  <2>1. pc[q] = "deleteLike" /\ row' = [row EXCEPT ![target[q]] = "none"]
    BY <1>5 DEF DeleteLike, WithoutLike
  <2>2. op[q] = "like" /\ InFlight(q) /\ SameLike(target[q], q)
    BY <2>1 DEF Placed, LikeSteps, InFlight, Rows
  <2>3. row'[r] = row[r] \/ (r = target[q] /\ row'[r] = "none")
    BY <2>1 DEF TypeOK
  <2>4. QED BY <2>2, <2>3 DEF MayDelete
<1>6. ASSUME NEW u \in Users, NEW t \in Threads, SaveMessage(q, u, t)
      PROVE  /\ row[r] = "live" => row'[r] = "live"
             /\ row[r] = "gone" => row'[r] # "live"
  BY <1>6 DEF SaveMessage, Begin, Inserted, Placed, TypeOK
<1>7. QED BY <1>1, <1>2, <1>3, <1>4, <1>5, <1>6 DEF Loud

\* A thread goes by the last statement of its deletion.
LEMMA ThreadDeletes ==
  ASSUME Sound, Entitled, [Next]_vars, NEW t \in Threads, thread[t] = "live", thread'[t] # "live"
  PROVE  \E q \in Requests : InFlight(q) /\ op[q] = "delete" /\ about[q] = t /\ user[q] = owner[t]
<1> USE DEF Sound
<1>1. thread'[t] # "none"
  BY SteadyStep DEF Steady
<1>2. TypeOK'
  BY SoundStep
<1>3. thread'[t] = "gone"
  BY <1>1, <1>2 DEF TypeOK
<1>4. PICK q \in Requests : Loud(q)
  BY <1>3, QuietOrLoud DEF Quiet
<1>5. DeleteThread(q)
  BY <1>4 DEF Loud, WipeComments, WipeLikes, WipeMessages, Wipe, InsertComment, DeleteComment,
              DeleteReplies, DeleteLike, InsertLike, SaveMessage
<1>6. about[q] = t
  BY <1>5 DEF DeleteThread, TypeOK
<1>7. pc[q] = "deleteThread" /\ op[q] = "delete" /\ InFlight(q)
  BY <1>5 DEF DeleteThread, Placed, DeleteSteps, InFlight
<1>8. user[q] = owner[t]
  BY <1>6, <1>7 DEF Entitled, Wiping
<1>9. QED BY <1>6, <1>7, <1>8

\* However requests overlap, nothing is deleted but by the request of somebody who
\* may delete it, and nothing that is gone comes back.
THEOREM OwnersDelete == Spec => OnlyOwnersDelete
<1> DEFINE ByOwner ==
      /\ \A t \in Threads : thread[t] = "live" /\ thread'[t] # "live" =>
           \E q \in Requests : InFlight(q) /\ op[q] = "delete" /\ about[q] = t
                               /\ user[q] = owner[t]
      /\ \A r \in Requests : row[r] = "live" /\ row'[r] # "live" =>
           \E q \in Requests : InFlight(q) /\ MayDelete(q, r)
      /\ \A r \in Requests : row[r] = "gone" => row'[r] # "live"
<1>1. Init => Entitled
  BY DEF Init, Entitled, Wiping, Uncommenting
<1>2. IInv /\ Entitled /\ [Next]_vars => Entitled'
  BY EntitledStep DEF IInv
<1>3. IInv /\ Entitled /\ [Next]_vars => ByOwner
  <2> SUFFICES ASSUME Sound, Entitled, [Next]_vars PROVE ByOwner
    BY DEF IInv
  <2>1. CASE Quiet
    BY <2>1, ThreadDeletes DEF Quiet
  <2>2. ASSUME NEW q \in Requests, Loud(q) PROVE ByOwner
    BY <2>2, ThreadDeletes, LoudDeletes
  <2>3. QED BY <2>1, <2>2, QuietOrLoud
<1>4. IInv /\ Entitled /\ [Next]_vars => [ByOwner]_vars
  BY <1>3
<1>5. Spec => [](IInv /\ Entitled)
  BY <1>1, <1>2, Invariance, PTL DEF Spec
<1>6. QED BY <1>4, <1>5, PTL DEF Spec, OnlyOwnersDelete
=============================================================================
