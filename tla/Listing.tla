------------------------------ MODULE Listing ------------------------------
(***************************************************************************)
(* The paginated listings (threads, searches, comments) while rows come and *)
(* go.  A client walks a listing: it asks for page after page, with the     *)
(* same limit, until the answer says there are no more.  The service        *)
(* replaces a limit it does not accept, counts the rows and then selects a  *)
(* page, two statements; the handler computes the number of pages from the  *)
(* limit of the query.                                                      *)
(*                                                                          *)
(* A listing is ordered by created_at and by nothing else: rows that were   *)
(* created at the same time come in any order, in another one with every    *)
(* query.  A row's time is set before it is inserted, by one of several     *)
(* goroutines, and need not be later than those of the rows before it.      *)
(* Negative limits, which the services treat like 0, are left out.          *)
(***************************************************************************)
EXTENDS Naturals, FiniteSets, Sequences, SequencesExt

CONSTANTS
  DefaultLimit,       \* what a limit out of range is replaced by (10)
  MaxLimit,           \* the largest accepted limit (100)
  Limits,             \* the limits clients ask for
  Rows,               \* bound: the rows ever inserted
  MaxTime             \* bound: the times at which rows are created

ASSUME ListingAssumption ==
  /\ DefaultLimit \in Nat \ {0}
  /\ MaxLimit \in Nat
  /\ DefaultLimit <= MaxLimit
  /\ Limits \subseteq Nat
  /\ IsFiniteSet(Rows)
  /\ MaxTime \in Nat

VARIABLES
  kind,       \* what is listed: threads (or the hits of a search) or comments
  rows,       \* the rows of the listing that are not deleted
  created,    \* created_at of every row ever inserted, 0 for the other ones
  pc,         \* where the walk is
  limit,      \* the limit of its queries
  page,       \* the page it asks for
  total,      \* what Count returned for this page
  items,      \* the rows of the last answer
  shown,      \* history: all rows the walk was shown, in the order of the answers
  there,      \* history: the rows there were when the walk began
  shifted,    \* history: was a row inserted, or one deleted, since then
  torn        \* history: did the rows change between a Count and its Find, or
              \* did a Count fail

vars == <<kind, rows, created, pc, limit, page, total, items, shown, there, shifted, torn>>

TypeOK ==
  /\ kind \in {"threads", "comments"}
  /\ rows \subseteq Rows
  /\ created \in [Rows -> 0..MaxTime]
  /\ pc \in {"idle", "count", "find", "over", "error", "panic"}
  /\ limit \in Limits
  /\ page \in Nat \ {0}
  /\ total \in 0..Cardinality(Rows)
  /\ items \in Seq(Rows) /\ Len(items) <= MaxLimit
  /\ shown \in Seq(Rows)
  /\ there \subseteq Rows
  /\ shifted \in [insert : BOOLEAN, delete : BOOLEAN]
  /\ torn \in BOOLEAN

Init ==
  /\ kind \in {"threads", "comments"}
  /\ rows = {}
  /\ created = [e \in Rows |-> 0]
  /\ pc = "idle"
  /\ limit \in Limits
  /\ page = 1
  /\ total = 0
  /\ items = <<>>
  /\ shown = <<>>
  /\ there = {}
  /\ shifted = [insert |-> FALSE, delete |-> FALSE]
  /\ torn = FALSE

-----------------------------------------------------------------------------
(***************************************************************************)
(* Plausible bugs: wrong versions of definitions below that no action uses. *)
(***************************************************************************)

\* A limit that is too large is accepted.
ServedUnbounded(n) == IF n < 1 THEN DefaultLimit ELSE n

\* The last page is not counted when it is not full.
TotalPageFloor(n, lim) == n \div lim

\* The page is taken for an offset.
OffsetOfPage(p, lim) == p - 1

\* Pages are counted from 0.
OffsetFromZero(p, lim) == p * lim

-----------------------------------------------------------------------------
(***************************************************************************)
(* Others insert and delete rows                                            *)
(***************************************************************************)

Changed(how) ==
  /\ shifted' = [shifted EXCEPT ![how] = pc # "idle"]
  /\ torn' = (torn \/ pc = "find")
  /\ UNCHANGED <<kind, pc, limit, page, total, items, shown, there>>

Insert ==
  /\ \E e \in Rows, time \in 1..MaxTime :
       /\ created[e] = 0
       /\ created' = [created EXCEPT ![e] = time]
       /\ rows' = rows \cup {e}
  /\ Changed("insert")

Delete ==
  /\ \E e \in rows : rows' = rows \ {e}
  /\ UNCHANGED created
  /\ Changed("delete")

-----------------------------------------------------------------------------
(***************************************************************************)
(* The walk through the pages                                               *)
(***************************************************************************)

\* GetAll, Search and GetByThread: the limit that is used.
Served(n) == IF n < 1 \/ n > MaxLimit THEN DefaultLimit ELSE n

Offset(p, lim) == (p - 1) * lim

\* Order("created_at DESC"): the orders in which the rows may be selected.
Newest == {s \in SetToSeqs(rows) :
             \A i, j \in DOMAIN s : i < j => created[s[i]] >= created[s[j]]}

\* Offset(offset).Limit(limit)
Page(s, p, lim) ==
  LET last == Offset(p, lim) + lim
  IN SubSeq(s, Offset(p, lim) + 1, IF last < Len(s) THEN last ELSE Len(s))

\* PaginatedJSON
TotalPage(n, lim) == n \div lim + (IF n % lim # 0 THEN 1 ELSE 0)

Begin ==
  /\ pc = "idle"
  /\ pc' = "count"
  /\ there' = rows
  /\ UNCHANGED <<kind, rows, created, limit, page, total, items, shown, shifted, torn>>

Count ==
  /\ pc = "count"
  /\ total' = Cardinality(rows)
  /\ pc' = "find"
  /\ UNCHANGED <<kind, rows, created, limit, page, items, shown, there, shifted, torn>>

\* FindByThreadID of the comments does not look at the error of Count, and goes
\* on with a total of 0.
CountFails ==
  /\ pc = "count"
  /\ \/ /\ kind = "comments"
        /\ total' = 0
        /\ torn' = TRUE
        /\ pc' = "find"
     \/ /\ kind = "threads"
        /\ pc' = "error"
        /\ UNCHANGED <<total, torn>>
  /\ UNCHANGED <<kind, rows, created, limit, page, items, shown, there, shifted>>

\* The page is selected and answered, with the number of pages by the limit of
\* the query, which PaginatedJSON divides by: with limit 0 the handler panics.
Find ==
  /\ pc = "find"
  /\ \E s \in Newest : items' = Page(s, page, Served(limit))
  /\ \/ /\ limit = 0
        /\ pc' = "panic"
        /\ UNCHANGED <<page, shown>>
     \/ /\ limit # 0
        /\ shown' = shown \o items'
        /\ IF page < TotalPage(total, limit)
           THEN page' = page + 1 /\ pc' = "count"
           ELSE pc' = "over" /\ UNCHANGED page
  /\ UNCHANGED <<kind, rows, created, limit, total, there, shifted, torn>>

FindFails ==
  /\ pc = "find"
  /\ pc' = "error"
  /\ UNCHANGED <<kind, rows, created, limit, page, total, items, shown, there, shifted, torn>>

-----------------------------------------------------------------------------
Next ==
  \/ Insert \/ Delete
  \/ Begin \/ Count \/ CountFails \/ Find \/ FindFails

Spec == Init /\ [][Next]_vars

-----------------------------------------------------------------------------
(***************************************************************************)
(* Properties                                                               *)
(***************************************************************************)

\* Another row was created at the same time.
Tied(e) == \E f \in Rows \ {e} : created[f] = created[e]

\* A walk shows a row twice only if rows were inserted meanwhile, or if the row is
\* tied with another one: deletions, and counts that are not those of the page,
\* repeat nothing.
ShownOnceUnlessInserted ==
  ~shifted.insert =>
    \A i, j \in DOMAIN shown : i < j /\ shown[i] = shown[j] => Tied(shown[i])

\* A walk with a limit the services accept misses a row that was there from the
\* beginning only if rows were deleted meanwhile, its counts were torn, or the row
\* is tied with another one.
NothingMissed ==
  pc = "over" /\ limit \in 1..MaxLimit /\ ~shifted.delete /\ ~torn
    => \A e \in there : e \in ToSet(shown) \/ Tied(e)

\* Whatever the limit, and whether or not the counts are those of the pages, a walk
\* leaves out nothing in the middle: unless rows were deleted, every row that was
\* there from the beginning, is newer than a row that was shown and is not tied was
\* shown as well.  (With a limit the services replace the number of pages is
\* wrong, after a Count that failed it is 0, and the walk ends too early; only the
\* oldest rows are missed then.)
NothingSkipped ==
  ~shifted.delete =>
    \A e \in there : \A i \in DOMAIN shown :
      created[e] > created[shown[i]] => e \in ToSet(shown) \/ Tied(e)
=============================================================================
