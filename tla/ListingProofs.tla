---------------------------- MODULE ListingProofs ----------------------------
(***************************************************************************)
(* For every number of rows, all times of creation and every limit: a walk  *)
(* shows no row twice if none are inserted, misses none if none are deleted *)
(* and no count is torn, and never leaves out one between others; rows that *)
(* are tied with other ones excepted.                                       *)
(*                                                                          *)
(* Of all the orders a query may choose, only one place is left to a row    *)
(* that is not tied: the one behind the rows that are newer.  Their number  *)
(* is compared with the offset of the next page.  What was shown and is     *)
(* still there is before the offset, as long as insertions do not push it   *)
(* behind (Once).  What is before the offset was shown, as long as          *)
(* deletions do not pull rows before it (Complete).                         *)
(***************************************************************************)
EXTENDS Listing, SequenceTheorems, FiniteSetTheorems, TLAPS

\* The rows that are newer than row e.
Newer(e) == {f \in rows : created[f] > created[e]}

-----------------------------------------------------------------------------
(***************************************************************************)
(* The operators                                                            *)
(***************************************************************************)

\* The limit that is used is an accepted one, and an accepted one is used.
LEMMA ServedAccepted ==
  ASSUME NEW n \in Limits
  PROVE  Served(n) \in 1..MaxLimit /\ (n \in 1..MaxLimit => Served(n) = n)
BY ListingAssumption DEF Served

LEMMA NextOffset ==
  ASSUME NEW p \in Nat \ {0}, NEW lim \in Nat
  PROVE  /\ Offset(p, lim) \in Nat
         /\ Offset(p + 1, lim) = Offset(p, lim) + lim
         /\ Offset(1, lim) = 0
<1>1. PICK q \in Nat : p = q + 1
  BY p - 1 \in Nat /\ p = (p - 1) + 1
<1>2. q * lim \in Nat /\ (q + 1) * lim = q * lim + lim /\ 0 * lim = 0
  OBVIOUS
<1>3. Offset(p, lim) = q * lim /\ Offset(p + 1, lim) = (q + 1) * lim /\ Offset(1, lim) = 0 * lim
  BY <1>1 DEF Offset
<1>4. QED BY <1>2, <1>3

\* The number of pages is enough for the rows.
LEMMA PagesSuffice ==
  ASSUME NEW n \in Nat, NEW lim \in Nat \ {0}, NEW p \in Nat \ {0}, ~(p < TotalPage(n, lim))
  PROVE  n <= Offset(p, lim) + lim
<1>1. /\ n \div lim \in Nat /\ n % lim \in 0..lim - 1
      /\ n = lim * (n \div lim) + (n % lim)
  <2>1. n \div lim \in Nat
    OBVIOUS
  <2>2. n % lim \in 0..lim - 1
    OBVIOUS
  <2>3. n = lim * (n \div lim) + (n % lim)
    OBVIOUS
  <2>4. QED BY <2>1, <2>2, <2>3
<1>2. PICK q \in Nat : p = q + 1
  BY p - 1 \in Nat /\ p = (p - 1) + 1
<1>3. Offset(p, lim) = q * lim
  BY <1>2 DEF Offset
<1>4. CASE n % lim = 0
  <2>1. n \div lim <= q + 1
    BY <1>1, <1>2, <1>4 DEF TotalPage
  <2>2. lim * (n \div lim) <= lim * (q + 1)
    BY <1>1, <2>1
  <2>3. lim * (q + 1) = q * lim + lim
    OBVIOUS
  <2>4. QED BY <1>1, <1>3, <1>4, <2>2, <2>3
<1>5. CASE n % lim # 0
  <2>1. n \div lim <= q
    BY <1>1, <1>2, <1>5 DEF TotalPage
  <2>2. lim * (n \div lim) <= lim * q
    BY <1>1, <2>1
  <2>3. lim * q = q * lim /\ q * lim \in Nat
    OBVIOUS
  <2>4. QED BY <1>1, <1>3, <2>2, <2>3
<1>6. QED BY <1>4, <1>5

\* A page is the part of a sequence that begins behind the offset.
LEMMA PageProperties ==
  ASSUME NEW S, NEW s \in Seq(S), NEW p \in Nat \ {0}, NEW lim \in Nat \ {0}
  PROVE  /\ Page(s, p, lim) \in Seq(S)
         /\ Len(Page(s, p, lim)) <= lim
         /\ \A k \in 1..Len(Page(s, p, lim)) :
              Offset(p, lim) + k \in 1..Len(s) /\ Page(s, p, lim)[k] = s[Offset(p, lim) + k]
         /\ \A i \in 1..Len(s) :
              Offset(p, lim) < i /\ i <= Offset(p, lim) + lim
                => i - Offset(p, lim) \in 1..Len(Page(s, p, lim))
<1> DEFINE n == Len(s)
           off == Offset(p, lim)
           end == IF off + lim < n THEN off + lim ELSE n
<1>1. n \in Nat /\ off \in Nat /\ end \in Nat /\ off + 1 \in Int /\ end <= n /\ end <= off + lim
  <2>1. n \in Nat
    BY LenProperties
  <2>2. off \in Nat
    BY NextOffset
  <2>3. QED BY <2>1, <2>2
<1>2. \A i \in off + 1 .. end : i \in 1..n /\ s[i] \in S
  BY <1>1, LenProperties
<1>3. Page(s, p, lim) = SubSeq(s, off + 1, end)
  BY DEF Page
<1>4. \A i \in 1..n : off < i /\ i <= off + lim => i <= end
  BY <1>1
<1> HIDE DEF n, off, end
<1>5. /\ Page(s, p, lim) \in Seq(S)
      /\ Len(Page(s, p, lim)) = IF off + 1 <= end THEN end - (off + 1) + 1 ELSE 0
      /\ \A k \in 1..end - (off + 1) + 1 : Page(s, p, lim)[k] = s[(off + 1) + k - 1]
  BY <1>1, <1>2, <1>3, SubSeqProperties
<1>6. end - (off + 1) + 1 = end - off
  BY <1>1
<1>7. Len(Page(s, p, lim)) = IF off + 1 <= end THEN end - off ELSE 0
  BY <1>5, <1>6
<1>8. ASSUME NEW k \in 1..Len(Page(s, p, lim))
      PROVE  off + k \in 1..n /\ Page(s, p, lim)[k] = s[off + k]
  <2>1. k \in 1..end - off /\ off + k \in 1..n /\ (off + 1) + k - 1 = off + k
    BY <1>1, <1>7
  <2>2. Page(s, p, lim)[k] = s[(off + 1) + k - 1]
    BY <1>5, <1>6, <2>1
  <2>3. QED BY <2>1, <2>2
<1>9. ASSUME NEW i \in 1..n, off < i, i <= off + lim
      PROVE  i - off \in 1..Len(Page(s, p, lim))
  <2>1. i <= end /\ off + 1 <= end
    BY <1>1, <1>4, <1>9 DEF n
  <2>2. Len(Page(s, p, lim)) = end - off
    BY <1>7, <2>1
  <2>3. i - off \in 1..end - off
    BY <1>1, <1>9, <2>1 DEF n
  <2>4. QED BY <2>2, <2>3
<1>10. Len(Page(s, p, lim)) <= lim
  BY <1>1, <1>7
<1>11. QED BY <1>5, <1>8, <1>9, <1>10 DEF n, off

\* A walk was shown the elements of its sequence.
LEMMA ToSetOf ==
  ASSUME NEW S, NEW s \in Seq(S)
  PROVE  \A e : e \in ToSet(s) <=> \E i \in 1..Len(s) : s[i] = e
BY LenProperties DEF ToSet

LEMMA NothingShown == \A e : e \notin ToSet(<<>>)
BY DEF ToSet

\* Every order of the rows has all of them, once, sorted.
LEMMA InOrder ==
  ASSUME TypeOK, NEW s \in Newest
  PROVE  /\ s \in Seq(Rows) /\ Len(s) = Cardinality(rows) /\ Len(s) \in Nat
         /\ \A i \in 1..Len(s) : s[i] \in rows
         /\ \A i, j \in 1..Len(s) : s[i] = s[j] => i = j
         /\ \A i, j \in 1..Len(s) : i < j => created[s[i]] >= created[s[j]]
         /\ \A e \in rows : \E i \in 1..Len(s) : s[i] = e
<1>1. IsFiniteSet(rows) /\ Cardinality(rows) \in Nat
  BY ListingAssumption, FS_Subset, FS_CardinalityType DEF TypeOK
<1> DEFINE n == Cardinality(rows)
<1>2. /\ s \in [1..n -> rows] /\ \A i, j \in 1..n : i # j => s[i] # s[j]
      /\ \A i, j \in DOMAIN s : i < j => created[s[i]] >= created[s[j]]
  BY DEF Newest, SetToSeqs
<1>3. s \in Seq(rows) /\ Len(s) = n
  <2>1. s \in Seq(rows)
    BY <1>1, <1>2, SeqDef
  <2>2. Len(s) \in Nat /\ 1..Len(s) = 1..n
    BY <1>2, <2>1, LenProperties
  <2>3. /\ n # 0 => n \in 1..Len(s)
        /\ Len(s) # 0 => Len(s) \in 1..n
    BY <1>1, <2>2
  <2>4. QED BY <1>1, <2>1, <2>2, <2>3
<1>4. s \in Seq(Rows)
  BY <1>3, SeqMonotonic DEF TypeOK
<1>5. s \in Injection(1..n, rows)
  BY <1>2 DEF Injection, IsInjective
<1>6. \A e \in rows : \E i \in 1..n : s[i] = e
  <2>1. IsFiniteSet(1..n) /\ Cardinality(1..n) = n
    BY <1>1, FS_Interval
  <2>2. s \in Surjection(1..n, rows)
    BY <1>1, <1>5, <2>1, FS_Injection
  <2>3. QED BY <2>2 DEF Surjection
<1>7. QED BY <1>1, <1>2, <1>3, <1>4, <1>6

\* A row that is not tied comes behind the newer ones in every order.
LEMMA Placed ==
  ASSUME TypeOK, NEW s \in Newest, NEW i \in 1..Len(s), NEW e, s[i] = e, ~Tied(e)
  PROVE  Cardinality(Newer(e)) = i - 1
<1>1. /\ Len(s) \in Nat /\ \A j \in 1..Len(s) : s[j] \in rows
      /\ \A j, k \in 1..Len(s) : s[j] = s[k] => j = k
      /\ \A j, k \in 1..Len(s) : j < k => created[s[j]] >= created[s[k]]
      /\ \A f \in rows : \E j \in 1..Len(s) : s[j] = f
  BY InOrder
<1>2. rows \subseteq Rows /\ \A f \in Rows : created[f] \in Int
  BY ListingAssumption DEF TypeOK
<1>3. ASSUME NEW j \in 1..i - 1 PROVE s[j] \in Newer(e)
  <2>1. j \in 1..Len(s) /\ j < i /\ j # i
    BY <1>1
  <2>2. s[j] \in rows /\ s[j] # e /\ created[s[j]] >= created[e]
    BY <1>1, <2>1
  <2>3. created[s[j]] # created[e]
    BY <1>2, <2>2 DEF Tied
  <2>4. created[s[j]] > created[e]
    BY <1>1, <1>2, <2>2, <2>3
  <2>5. QED BY <2>2, <2>4 DEF Newer
<1>4. ASSUME NEW f \in Newer(e) PROVE \E j \in 1..i - 1 : s[j] = f
  <2>1. f \in rows /\ created[f] > created[e]
    BY DEF Newer
  <2>2. PICK j \in 1..Len(s) : s[j] = f
    BY <1>1, <2>1
  <2>3. ~(i < j) /\ i # j
    BY <1>1, <1>2, <2>1, <2>2
  <2>4. j \in 1..i - 1
    BY <1>1, <2>3
  <2>5. QED BY <2>2, <2>4
<1> DEFINE b == [j \in 1..i - 1 |-> s[j]]
<1>5. b \in [1..i - 1 -> Newer(e)]
  BY <1>3
<1>6. \A j, k \in 1..i - 1 : b[j] = b[k] => j = k
  BY <1>1
<1>7. \A f \in Newer(e) : \E j \in 1..i - 1 : b[j] = f
  BY <1>4
<1> HIDE DEF b
<1>8. b \in Bijection(1..i - 1, Newer(e))
  BY <1>5, <1>6, <1>7 DEF Bijection, Injection, Surjection, IsInjective
<1>9. i - 1 \in Nat
  BY <1>1
<1>10. QED BY <1>8, <1>9, FS_CountingElements DEF ExistsBijection

\* The newer rows can be counted, and no others come before a row.
LEMMA NewerCounted ==
  ASSUME TypeOK, NEW e
  PROVE  IsFiniteSet(Newer(e)) /\ Cardinality(Newer(e)) \in Nat
<1>1. Newer(e) \subseteq Rows
  BY DEF Newer, TypeOK
<1>2. QED BY <1>1, ListingAssumption, FS_Subset, FS_CardinalityType

\* The offset of the next query.
LEMMA OffsetCounted ==
  ASSUME TypeOK
  PROVE  /\ Offset(page, Served(limit)) \in Nat
         /\ page = 1 => Offset(page, Served(limit)) = 0
<1>1. Served(limit) \in Nat /\ page \in Nat \ {0}
  BY ServedAccepted, ListingAssumption DEF TypeOK
<1>2. QED BY <1>1, NextOffset

-----------------------------------------------------------------------------
(***************************************************************************)
(* The invariant                                                            *)
(***************************************************************************)

\* Before it begins, a walk has seen nothing.
Unbegun ==
  pc = "idle" =>
    page = 1 /\ shown = <<>> /\ there = {} /\ ~shifted.insert /\ ~shifted.delete

\* What is there, or was shown, was inserted.
Existed ==
  \A e \in Rows : e \in rows \/ e \in there \/ e \in ToSet(shown) => created[e] # 0

\* A count that is not torn is that of the rows.
Counted == pc = "find" /\ ~torn => total = Cardinality(rows)

\* What was shown and is still there is before the offset.
Once ==
  ~shifted.insert =>
    /\ \A i, j \in 1..Len(shown) : i < j /\ shown[i] = shown[j] => Tied(shown[i])
    /\ pc \in {"idle", "count", "find"} =>
         \A e \in ToSet(shown) :
           e \in rows /\ ~Tied(e) => Cardinality(Newer(e)) < Offset(page, Served(limit))

\* Whatever was there and is before the offset was shown.
Complete ==
  ~shifted.delete =>
    /\ there \subseteq rows
    /\ pc \in {"count", "find"} =>
         \A e \in there :
           ~Tied(e) /\ Cardinality(Newer(e)) < Offset(page, Served(limit)) => e \in ToSet(shown)
    /\ \A e \in there : \A f \in ToSet(shown) :
         ~Tied(e) /\ created[e] > created[f] => e \in ToSet(shown)
    /\ limit \in 1..MaxLimit /\ ~torn /\ pc = "over" =>
         \A e \in there : ~Tied(e) => e \in ToSet(shown)

IInv == TypeOK /\ Unbegun /\ Existed /\ Counted /\ Once /\ Complete

LEMMA InvInit == Init => IInv
<1> SUFFICES ASSUME Init PROVE IInv
  OBVIOUS
<1>1. Len(shown) = 0 /\ Len(items) = 0 /\ items \in Seq(Rows) /\ shown \in Seq(Rows)
  BY EmptySeq DEF Init
<1>2. \A e : e \notin ToSet(shown)
  BY NothingShown DEF Init
<1>3. TypeOK
  <2>1. /\ MaxLimit \in Nat /\ 0 \in 0..Cardinality(Rows) /\ 0 \in 0..MaxTime
        /\ 1 \in Nat \ {0}
    BY ListingAssumption, FS_CardinalityType
  <2>2. /\ total \in 0..Cardinality(Rows) /\ Len(items) <= MaxLimit
        /\ page \in Nat \ {0} /\ there \subseteq Rows /\ rows \subseteq Rows
        /\ created \in [Rows -> 0..MaxTime]
    BY <1>1, <2>1 DEF Init
  <2>3. /\ kind \in {"threads", "comments"} /\ limit \in Limits /\ pc = "idle" /\ torn \in BOOLEAN
        /\ shifted \in [insert : BOOLEAN, delete : BOOLEAN]
    BY DEF Init
  <2>4. QED BY <1>1, <2>2, <2>3 DEF TypeOK
<1>4. QED
  BY <1>1, <1>2, <1>3 DEF Init, IInv, Unbegun, Existed, Counted, Once, Complete

\* A step of the walk that shows nothing.
LEMMA WalkKept ==
  ASSUME IInv, UNCHANGED <<kind, rows, created, limit, page, items, shown, shifted>>,
         pc # "over", pc' \in {"count", "find", "error", "panic"},
         pc' = "find" => pc = "count" /\ (torn' \/ total' = Cardinality(rows)),
         pc' = "count" => pc = "idle",
         pc = "idle" => there' = rows, pc # "idle" => UNCHANGED there,
         total' \in 0..Cardinality(Rows), torn' \in BOOLEAN, torn => torn'
  PROVE  IInv'
<1> USE DEF IInv
<1>1. there' \subseteq Rows
  BY DEF TypeOK
<1>2. TypeOK'
  BY <1>1 DEF TypeOK
<1>3. Unbegun' /\ Existed' /\ Counted'
  BY DEF Unbegun, Existed, Counted
<1>4. Once'
  BY DEF Once, Newer, Tied
<1>5. Complete'
  <2>1. CASE pc = "idle"
    <3>2. Offset(page, Served(limit)) = 0
      BY <2>1, OffsetCounted DEF Unbegun
    <3>3. \A e : ~(Cardinality(Newer(e)) < 0)
      BY NewerCounted
    <3>4. \A e : e \notin ToSet(shown)
      BY <2>1, NothingShown DEF Unbegun
    <3>5. there' = rows /\ pc' # "over"
      BY <2>1
    <3>6. QED BY <3>2, <3>3, <3>4, <3>5 DEF Complete, Newer, Tied
  <2>2. CASE pc # "idle"
    BY <2>2 DEF Complete, Newer, Tied
  <2>3. QED BY <2>1, <2>2
<1>6. QED BY <1>2, <1>3, <1>4, <1>5

LEMMA InsertStep == IInv /\ Insert => IInv'
<1> SUFFICES ASSUME IInv, Insert PROVE IInv'
  OBVIOUS
<1> USE DEF IInv
<1>1. PICK x \in Rows, time \in 1..MaxTime :
        created[x] = 0 /\ created' = [created EXCEPT ![x] = time] /\ rows' = rows \cup {x}
  BY DEF Insert
<1>2. /\ shifted' = [shifted EXCEPT !.insert = pc # "idle"] /\ torn' = (torn \/ pc = "find")
      /\ UNCHANGED <<kind, pc, limit, page, total, items, shown, there>>
  BY DEF Insert, Changed
<1>3. shifted' \in [insert : BOOLEAN, delete : BOOLEAN] /\ shifted'.delete = shifted.delete
      /\ shifted'.insert = (pc # "idle")
  BY <1>2 DEF TypeOK
<1>4. \A e \in Rows : created[e] # 0 => created'[e] = created[e] /\ e # x
  BY <1>1 DEF TypeOK
<1>5. ASSUME NEW e \in Rows, created[e] # 0, Tied(e) PROVE Tied(e)'
  <2>1. PICK f \in Rows \ {e} : created[f] = created[e]
    BY <1>5 DEF Tied
  <2>2. created'[f] = created'[e]
    BY <1>4, <1>5, <2>1
  <2>3. QED BY <2>1, <2>2 DEF Tied
<1>6. TypeOK'
  <2>1. created' \in [Rows -> 0..MaxTime] /\ rows' \subseteq Rows
    BY <1>1, ListingAssumption DEF TypeOK
  <2>2. QED BY <1>2, <1>3, <2>1 DEF TypeOK
<1>7. ASSUME NEW e \in Rows, created[e] # 0
      PROVE  Cardinality(Newer(e)) <= Cardinality(Newer(e)')
  <2>1. Newer(e) \subseteq Newer(e)'
    BY <1>1, <1>4, <1>7 DEF Newer, TypeOK, Existed
  <2>2. IsFiniteSet(Newer(e)')
    <3>1. Newer(e)' \subseteq Rows
      BY <1>6 DEF Newer, TypeOK
    <3>2. QED BY <3>1, ListingAssumption, FS_Subset
  <2>3. QED BY <2>1, <2>2, FS_Subset
<1>8. Unbegun' /\ Counted'
  BY <1>2, <1>3 DEF Unbegun, Counted
<1>9. Existed'
  <2>1. time # 0 /\ created'[x] = time
    BY <1>1, ListingAssumption DEF TypeOK
  <2>2. QED BY <1>1, <1>2, <1>4, <2>1 DEF Existed
<1>10. Once'
  <2>1. CASE pc = "idle"
    <3>1. \A e : e \notin ToSet(shown)
      BY <2>1, NothingShown DEF Unbegun
    <3>2. Len(shown) = 0
      BY <2>1, EmptySeq DEF Unbegun
    <3>3. \A i \in 1..Len(shown) : FALSE
      BY <3>2
    <3>4. QED BY <1>2, <3>1, <3>3 DEF Once
  <2>2. CASE pc # "idle"
    BY <1>3, <2>2 DEF Once
  <2>3. QED BY <2>1, <2>2
<1>11. Complete'
  <2> SUFFICES ASSUME ~shifted.delete PROVE Complete'
    BY <1>3 DEF Complete
  <2>1. there' \subseteq rows' /\ there' \subseteq Rows /\ shown \in Seq(Rows)
    BY <1>1, <1>2 DEF Complete, TypeOK
  <2>2. \A e \in there : created[e] # 0 /\ e \in Rows
    BY DEF Existed, TypeOK
  <2>3. \A e \in ToSet(shown) : created[e] # 0 /\ e \in Rows
    <3>1. \A e \in ToSet(shown) : e \in Rows
      BY <2>1, ToSetOf, ElementOfSeq
    <3>2. QED BY <3>1 DEF Existed
  <2>4. Offset(page, Served(limit)) \in Nat
    BY OffsetCounted
  <2>5. ASSUME pc \in {"count", "find"}, NEW e \in there,
               ~Tied(e)', Cardinality(Newer(e)') < Offset(page, Served(limit))
        PROVE  e \in ToSet(shown)
    <3>1. ~Tied(e)
      BY <1>5, <2>2, <2>5
    <3>2. Cardinality(Newer(e)) \in Nat /\ Cardinality(Newer(e)') \in Nat
      <4>1. Newer(e)' \subseteq Rows
        BY <1>6 DEF Newer, TypeOK
      <4>2. QED BY <4>1, NewerCounted, ListingAssumption, FS_Subset, FS_CardinalityType
    <3>3. Cardinality(Newer(e)) < Offset(page, Served(limit))
      BY <1>7, <2>2, <2>4, <2>5, <3>2
    <3>4. QED BY <2>5, <3>1, <3>3 DEF Complete
  <2>6. ASSUME NEW e \in there, NEW f \in ToSet(shown), ~Tied(e)', created'[e] > created'[f]
        PROVE  e \in ToSet(shown)
    <3>1. ~Tied(e) /\ created[e] > created[f]
      BY <1>4, <1>5, <2>2, <2>3, <2>6
    <3>2. QED BY <3>1 DEF Complete
  <2>7. ASSUME limit \in 1..MaxLimit, ~torn', pc = "over", NEW e \in there, ~Tied(e)'
        PROVE  e \in ToSet(shown)
    <3>1. ~Tied(e) /\ ~torn
      BY <1>2, <1>5, <2>2, <2>7
    <3>2. QED BY <2>7, <3>1 DEF Complete
  <2>8. QED BY <1>2, <2>1, <2>5, <2>6, <2>7 DEF Complete
<1>12. QED BY <1>6, <1>8, <1>9, <1>10, <1>11

LEMMA DeleteStep == IInv /\ Delete => IInv'
<1> SUFFICES ASSUME IInv, Delete PROVE IInv'
  OBVIOUS
<1> USE DEF IInv
<1>1. PICK d \in rows : rows' = rows \ {d}
  BY DEF Delete
<1>2. /\ created' = created
      /\ shifted' = [shifted EXCEPT !.delete = pc # "idle"] /\ torn' = (torn \/ pc = "find")
      /\ UNCHANGED <<kind, pc, limit, page, total, items, shown, there>>
  BY DEF Delete, Changed
<1>3. shifted' \in [insert : BOOLEAN, delete : BOOLEAN] /\ shifted'.insert = shifted.insert
      /\ shifted'.delete = (pc # "idle")
  BY <1>2 DEF TypeOK
<1>4. TypeOK'
  BY <1>1, <1>2, <1>3 DEF TypeOK
<1>5. Unbegun' /\ Existed' /\ Counted'
  BY <1>1, <1>2, <1>3 DEF Unbegun, Existed, Counted
<1>6. Once'
  <2> SUFFICES ASSUME ~shifted.insert PROVE Once'
    BY <1>3 DEF Once
  <2>1. Offset(page, Served(limit)) \in Nat
    BY OffsetCounted
  <2>2. ASSUME pc \in {"idle", "count", "find"}, NEW e \in ToSet(shown), e \in rows', ~Tied(e)
        PROVE  Cardinality(Newer(e)') < Offset(page, Served(limit))
    <3>1. Cardinality(Newer(e)) < Offset(page, Served(limit))
      BY <1>1, <2>2 DEF Once
    <3>2. Newer(e)' \subseteq Newer(e)
      BY <1>1, <1>2 DEF Newer
    <3>3. /\ Cardinality(Newer(e)) \in Nat /\ Cardinality(Newer(e)') \in Nat
          /\ Cardinality(Newer(e)') <= Cardinality(Newer(e))
      BY <3>2, NewerCounted, FS_Subset, FS_CardinalityType
    <3>4. QED BY <2>1, <3>1, <3>3
  <2>3. QED BY <1>2, <2>2 DEF Once, Tied
<1>7. Complete'
  <2>1. CASE pc = "idle"
    <3>1. there' = {} /\ \A e : e \notin ToSet(shown)
      BY <1>2, <2>1, NothingShown DEF Unbegun
    <3>2. QED BY <3>1 DEF Complete
  <2>2. CASE pc # "idle"
    BY <1>3, <2>2 DEF Complete
  <2>3. QED BY <2>1, <2>2
<1>8. QED BY <1>4, <1>5, <1>6, <1>7

\* The statement that shows a page.
LEMMA FindStep == IInv /\ Find => IInv'
<1> SUFFICES ASSUME IInv, Find PROVE IInv'
  OBVIOUS
<1> DEFINE lim == Served(limit)
           off == Offset(page, lim)
<1> USE DEF IInv
<1>1. PICK s \in Newest : items' = Page(s, page, lim)
  BY DEF Find
<1> DEFINE pg == Page(s, page, lim)
<1>2. pc = "find" /\ UNCHANGED <<kind, rows, created, limit, total, there, shifted, torn>>
  BY DEF Find
<1>3. /\ lim \in 1..MaxLimit /\ lim \in Nat \ {0} /\ limit \in Nat /\ page \in Nat \ {0}
      /\ MaxLimit \in Nat /\ (limit \in 1..MaxLimit => lim = limit)
  BY ServedAccepted, ListingAssumption DEF TypeOK
<1>4. /\ s \in Seq(Rows) /\ Len(s) = Cardinality(rows) /\ Len(s) \in Nat
      /\ \A i \in 1..Len(s) : s[i] \in rows
      /\ \A i, j \in 1..Len(s) : s[i] = s[j] => i = j
      /\ \A i, j \in 1..Len(s) : i < j => created[s[i]] >= created[s[j]]
      /\ \A e \in rows : \E i \in 1..Len(s) : s[i] = e
  BY InOrder
<1>5. off \in Nat /\ Offset(page + 1, lim) = off + lim
  BY <1>3, NextOffset
<1>6. /\ pg \in Seq(Rows) /\ Len(pg) <= lim
      /\ \A k \in 1..Len(pg) : off + k \in 1..Len(s) /\ pg[k] = s[off + k]
      /\ \A i \in 1..Len(s) : off < i /\ i <= off + lim => i - off \in 1..Len(pg)
  BY <1>3, <1>4, PageProperties
<1>7. shown \in Seq(Rows) /\ Len(shown) \in Nat /\ Len(pg) \in Nat
  BY <1>6, LenProperties DEF TypeOK
<1>8. \A e : \A i \in 1..Len(s) : s[i] = e /\ ~Tied(e) => Cardinality(Newer(e)) = i - 1
  BY Placed
<1>9. \A e \in Rows : created[e] \in Int
  BY ListingAssumption DEF TypeOK
<1> HIDE DEF lim, off, pg
<1>10. items' \in Seq(Rows) /\ Len(items') <= MaxLimit
  BY <1>1, <1>3, <1>6, <1>7 DEF pg
<1>11. ASSUME UNCHANGED <<page, shown>>, pc' = "panic" PROVE IInv'
  <2>1. TypeOK'
    BY <1>2, <1>10, <1>11 DEF TypeOK
  <2>2. Unbegun' /\ Existed' /\ Counted'
    BY <1>2, <1>11 DEF Unbegun, Existed, Counted
  <2>3. Once' /\ Complete'
    BY <1>2, <1>11 DEF Once, Complete, Newer, Tied
  <2>4. QED BY <2>1, <2>2, <2>3
<1>12. ASSUME shown' = shown \o pg,
              \/ page < TotalPage(total, limit) /\ page' = page + 1 /\ pc' = "count"
              \/ ~(page < TotalPage(total, limit)) /\ pc' = "over" /\ page' = page,
              limit # 0
       PROVE  IInv'
  <2>1. /\ shown' \in Seq(Rows) /\ Len(shown') = Len(shown) + Len(pg)
        /\ \A i \in 1..Len(shown) + Len(pg) :
             shown'[i] = IF i <= Len(shown) THEN shown[i] ELSE pg[i - Len(shown)]
    BY <1>6, <1>7, <1>12, ConcatProperties
  <2>2. ASSUME NEW i \in 1..Len(shown')
        PROVE  \/ i \in 1..Len(shown) /\ shown'[i] = shown[i]
               \/ \E k \in 1..Len(pg) : i = Len(shown) + k /\ shown'[i] = pg[k]
    <3>1. CASE i <= Len(shown)
      BY <1>7, <2>1, <3>1
    <3>2. CASE ~(i <= Len(shown))
      <4>1. i - Len(shown) \in 1..Len(pg) /\ i = Len(shown) + (i - Len(shown))
        BY <1>7, <2>1, <3>2
      <4>2. shown'[i] = pg[i - Len(shown)]
        BY <1>7, <2>1, <3>2
      <4>3. QED BY <4>1, <4>2
    <3>3. QED BY <3>1, <3>2
  <2>3. \A e : e \in ToSet(shown) \/ (\E k \in 1..Len(pg) : pg[k] = e) <=> e \in ToSet(shown')
    <3>1. ASSUME NEW e, e \in ToSet(shown) PROVE e \in ToSet(shown')
      <4>1. PICK i \in 1..Len(shown) : shown[i] = e
        BY <1>7, <3>1, ToSetOf
      <4>2. i \in 1..Len(shown') /\ shown'[i] = e
        BY <1>7, <2>1, <4>1
      <4>3. QED BY <2>1, <4>2, ToSetOf
    <3>2. ASSUME NEW k \in 1..Len(pg) PROVE pg[k] \in ToSet(shown')
      <4>1. /\ Len(shown) + k \in 1..Len(shown) + Len(pg) /\ ~(Len(shown) + k <= Len(shown))
            /\ Len(shown) + k - Len(shown) = k
        BY <1>7
      <4>2. Len(shown) + k \in 1..Len(shown') /\ shown'[Len(shown) + k] = pg[k]
        BY <2>1, <4>1
      <4>3. QED BY <2>1, <4>2, ToSetOf
    <3>3. ASSUME NEW e, e \in ToSet(shown')
          PROVE  e \in ToSet(shown) \/ \E k \in 1..Len(pg) : pg[k] = e
      <4>1. PICK i \in 1..Len(shown') : shown'[i] = e
        BY <2>1, <3>3, ToSetOf
      <4>2. QED BY <1>7, <2>2, <4>1, ToSetOf
    <3>4. QED BY <3>1, <3>2, <3>3
  <2>4. TypeOK'
    BY <1>2, <1>3, <1>10, <1>12, <2>1 DEF TypeOK
  <2>5. Unbegun' /\ Counted'
    BY <1>12 DEF Unbegun, Counted
  <2>6. Existed'
    <3>1. \A k \in 1..Len(pg) : pg[k] \in rows
      BY <1>4, <1>6
    <3>2. QED BY <1>2, <2>3, <3>1 DEF Existed
  <2>7. Once'
    <3> SUFFICES ASSUME ~shifted.insert PROVE Once'
      BY <1>2 DEF Once
    <3>1. ASSUME NEW i \in 1..Len(shown), NEW k \in 1..Len(pg), shown[i] = pg[k]
          PROVE  Tied(shown[i])
      <4>1. SUFFICES ASSUME ~Tied(shown[i]) PROVE FALSE
        OBVIOUS
      <4>2. shown[i] \in ToSet(shown) /\ shown[i] = s[off + k] /\ off + k \in 1..Len(s)
        BY <1>6, <1>7, <3>1, ToSetOf
      <4>3. Cardinality(Newer(shown[i])) < off
        BY <1>2, <1>4, <4>1, <4>2 DEF Once, off, lim
      <4>4. Cardinality(Newer(shown[i])) = off + k - 1
        BY <1>5, <1>7, <1>8, <4>1, <4>2
      <4>5. QED BY <1>5, <1>7, <4>3, <4>4
    <3>2. ASSUME NEW i \in 1..Len(shown'), NEW j \in 1..Len(shown'), i < j, shown'[i] = shown'[j]
          PROVE  Tied(shown'[i])
      <4>1. CASE j \in 1..Len(shown)
        <5>1. i \in 1..Len(shown) /\ shown'[i] = shown[i] /\ shown'[j] = shown[j]
          BY <1>7, <2>1, <3>2, <4>1
        <5>2. QED BY <3>2, <4>1, <5>1 DEF Once
      <4>2. ASSUME NEW l \in 1..Len(pg), j = Len(shown) + l, shown'[j] = pg[l]
            PROVE  Tied(shown'[i])
        <5>1. CASE i \in 1..Len(shown) /\ shown'[i] = shown[i]
          BY <3>1, <3>2, <4>2, <5>1
        <5>2. ASSUME NEW k \in 1..Len(pg), i = Len(shown) + k, shown'[i] = pg[k]
              PROVE  FALSE
          <6>1. k < l
            BY <1>7, <3>2, <4>2, <5>2
          <6>2. s[off + k] = s[off + l] /\ off + k \in 1..Len(s) /\ off + l \in 1..Len(s)
            BY <1>6, <3>2, <4>2, <5>2
          <6>3. off + k = off + l
            BY <1>4, <6>2
          <6>4. QED BY <1>5, <1>7, <6>1, <6>3
        <5>3. QED BY <2>2, <5>1, <5>2
      <4>3. QED BY <2>2, <4>1, <4>2
    <3>3. ASSUME pc' = "count", NEW e \in ToSet(shown'), e \in rows, ~Tied(e)
          PROVE  Cardinality(Newer(e)) < off + lim
      <4>1. CASE e \in ToSet(shown)
        <5>1. Cardinality(Newer(e)) < off
          BY <1>2, <3>3, <4>1 DEF Once, off, lim
        <5>2. Cardinality(Newer(e)) \in Nat
          BY NewerCounted
        <5>3. QED BY <1>3, <1>5, <5>1, <5>2
      <4>2. ASSUME NEW k \in 1..Len(pg), pg[k] = e PROVE Cardinality(Newer(e)) < off + lim
        <5>1. Cardinality(Newer(e)) = off + k - 1
          <6>1. off + k \in 1..Len(s) /\ e = s[off + k]
            BY <1>6, <4>2
          <6>2. QED BY <1>5, <1>7, <1>8, <3>3, <6>1
        <5>2. k <= lim
          BY <1>3, <1>6, <1>7
        <5>3. QED BY <1>3, <1>5, <1>7, <5>1, <5>2
      <4>3. QED BY <2>3, <3>3, <4>1, <4>2
    <3>4. pc' \in {"idle", "count", "find"} =>
            pc' = "count" /\ Offset(page', Served(limit')) = off + lim
      BY <1>2, <1>5, <1>12 DEF lim
    <3>5. \A e : Tied(e)' <=> Tied(e)
      BY <1>2 DEF Tied
    <3>6. \A e : Newer(e)' = Newer(e)
      BY <1>2 DEF Newer
    <3>7. pc' \in {"idle", "count", "find"} =>
            \A e \in ToSet(shown') : e \in rows' /\ ~Tied(e)'
              => Cardinality(Newer(e)') < Offset(page', Served(limit'))
      BY <1>2, <3>3, <3>4, <3>5, <3>6
    <3>8. QED BY <1>2, <3>2, <3>7 DEF Once, Tied
  <2>8. Complete'
    <3> SUFFICES ASSUME ~shifted.delete PROVE Complete'
      BY <1>2 DEF Complete
    <3>0. there \subseteq rows /\ rows \subseteq Rows
      BY DEF Complete, TypeOK
    <3>1. ASSUME NEW e \in there, ~Tied(e), NEW i \in 1..Len(s), s[i] = e, i <= off + lim
          PROVE  e \in ToSet(shown')
      <4>1. CASE i <= off
        <5>1. Cardinality(Newer(e)) < off
          BY <1>4, <1>5, <1>8, <3>1, <4>1
        <5>2. e \in ToSet(shown)
          BY <1>2, <3>1, <5>1 DEF Complete, off, lim
        <5>3. QED BY <2>3, <5>2
      <4>2. CASE ~(i <= off)
        <5>1. i - off \in 1..Len(pg) /\ off + (i - off) = i
          BY <1>4, <1>5, <1>6, <3>1, <4>2
        <5>2. pg[i - off] = e
          BY <1>6, <3>1, <5>1
        <5>3. QED BY <2>3, <5>1, <5>2
      <4>3. QED BY <4>1, <4>2
    <3>2. ASSUME NEW e \in there, ~Tied(e), Cardinality(Newer(e)) < off + lim
          PROVE  e \in ToSet(shown')
      <4>1. PICK i \in 1..Len(s) : s[i] = e
        BY <1>4, <3>0
      <4>2. i - 1 < off + lim
        BY <1>8, <3>2, <4>1
      <4>3. i <= off + lim
        BY <1>3, <1>4, <1>5, <4>2
      <4>4. QED BY <3>1, <3>2, <4>1, <4>3
    <3>3. ASSUME NEW e \in there, ~Tied(e), NEW f \in ToSet(shown'), created[e] > created[f]
          PROVE  e \in ToSet(shown')
      <4>1. CASE f \in ToSet(shown)
        <5>1. e \in ToSet(shown)
          BY <3>3, <4>1 DEF Complete
        <5>2. QED BY <2>3, <5>1
      <4>2. ASSUME NEW k \in 1..Len(pg), pg[k] = f PROVE e \in ToSet(shown')
        <5>1. PICK i \in 1..Len(s) : s[i] = e
          BY <1>4, <3>0
        <5>2. off + k \in 1..Len(s) /\ s[off + k] = f
          BY <1>6, <4>2
        <5>3. created[e] \in Int /\ created[f] \in Int
          BY <1>4, <1>9, <3>0, <5>2
        <5>4. ~(off + k < i)
          BY <1>4, <3>3, <5>1, <5>2, <5>3
        <5>5. i <= off + lim
          BY <1>3, <1>4, <1>5, <1>6, <1>7, <5>4
        <5>6. QED BY <3>1, <3>3, <5>1, <5>5
      <4>3. QED BY <2>3, <3>3, <4>1, <4>2
    <3>4. ASSUME limit \in 1..MaxLimit, ~torn, pc' = "over", NEW e \in there, ~Tied(e)
          PROVE  e \in ToSet(shown')
      <4>1. ~(page < TotalPage(total, limit)) /\ total = Len(s) /\ limit = lim
        BY <1>2, <1>3, <1>4, <1>12, <3>4 DEF Counted
      <4>2. Len(s) <= off + lim
        BY <1>3, <1>4, <4>1, PagesSuffice DEF off
      <4>3. PICK i \in 1..Len(s) : s[i] = e
        BY <1>4, <3>0
      <4>4. i <= off + lim
        BY <1>3, <1>4, <1>5, <4>2
      <4>5. QED BY <3>1, <3>4, <4>3, <4>4
    <3>5. pc' \in {"count", "find"} => Offset(page', Served(limit')) = off + lim
      BY <1>2, <1>5, <1>12 DEF lim
    <3>6. /\ \A e : Tied(e)' <=> Tied(e)
          /\ \A e : Newer(e)' = Newer(e)
      BY <1>2 DEF Tied, Newer
    <3>7. /\ there' \subseteq rows'
          /\ pc' \in {"count", "find"} =>
               \A e \in there' :
                 ~Tied(e)' /\ Cardinality(Newer(e)') < Offset(page', Served(limit'))
                   => e \in ToSet(shown')
          /\ \A e \in there' : \A f \in ToSet(shown') :
               ~Tied(e)' /\ created'[e] > created'[f] => e \in ToSet(shown')
          /\ limit' \in 1..MaxLimit /\ ~torn' /\ pc' = "over" =>
               \A e \in there' : ~Tied(e)' => e \in ToSet(shown')
      BY <1>2, <3>0, <3>2, <3>3, <3>4, <3>5, <3>6
    <3>8. QED BY <3>6, <3>7 DEF Complete
  <2>9. QED BY <2>4, <2>5, <2>6, <2>7, <2>8
<1>13. QED BY <1>1, <1>11, <1>12 DEF Find, pg, lim

LEMMA InvStep == IInv /\ [Next]_vars => IInv'
<1> SUFFICES ASSUME IInv, [Next]_vars PROVE IInv'
  OBVIOUS
<1>1. CASE Begin
  BY <1>1, WalkKept DEF Begin, IInv, TypeOK
<1>2. CASE Count
  <2>1. Cardinality(rows) \in 0..Cardinality(Rows)
    BY ListingAssumption, FS_Subset, FS_CardinalityType DEF IInv, TypeOK
  <2>2. QED BY <1>2, <2>1, WalkKept DEF Count, IInv, TypeOK
<1>3. CASE CountFails
  <2>1. /\ pc = "count" /\ pc' \in {"find", "error"} /\ (pc' = "find" => torn')
        /\ UNCHANGED <<kind, rows, created, limit, page, items, shown, there, shifted>>
    BY <1>3 DEF CountFails
  <2>2. total' \in 0..Cardinality(Rows)
    <3>1. 0 \in 0..Cardinality(Rows)
      BY ListingAssumption, FS_CardinalityType
    <3>2. QED BY <1>3, <3>1 DEF CountFails, IInv, TypeOK
  <2>3. torn' \in BOOLEAN /\ (torn => torn')
    BY <1>3 DEF CountFails, IInv, TypeOK
  <2>4. QED BY <2>1, <2>2, <2>3, WalkKept
<1>4. CASE FindFails
  BY <1>4, WalkKept DEF FindFails, IInv, TypeOK
<1>5. CASE UNCHANGED vars
  <2>1. TypeOK' /\ Unbegun' /\ Existed' /\ Counted'
    BY <1>5 DEF vars, IInv, TypeOK, Unbegun, Existed, Counted
  <2>2. Once' /\ Complete'
    BY <1>5 DEF vars, IInv, Once, Complete, Newer, Tied
  <2>3. QED BY <2>1, <2>2 DEF IInv
<1>6. QED
  BY <1>1, <1>2, <1>3, <1>4, <1>5, InsertStep, DeleteStep, FindStep DEF Next

-----------------------------------------------------------------------------
\* Every reachable state of a walk satisfies the invariant.
THEOREM Invariance == Spec => []IInv
<1>1. QED BY InvInit, InvStep, PTL DEF Spec

\* The variables of a walk keep their types, and no answer has more rows than the
\* largest limit.
THEOREM TypeCorrect == Spec => []TypeOK
<1>1. IInv => TypeOK
  BY DEF IInv
<1>2. QED BY <1>1, Invariance, PTL

\* Deletions, torn counts and odd limits never show a row twice that is not tied.
THEOREM ShownOnce == Spec => []ShownOnceUnlessInserted
<1>1. IInv => ShownOnceUnlessInserted
  BY LenProperties DEF IInv, Once, TypeOK, ShownOnceUnlessInserted
<1>2. QED BY <1>1, Invariance, PTL

\* Insertions alone never hide a row that is not tied from a walk with an accepted
\* limit.
THEOREM AllShown == Spec => []NothingMissed
<1>1. IInv => NothingMissed
  BY DEF IInv, Complete, NothingMissed
<1>2. QED BY <1>1, Invariance, PTL

\* Whatever the limit and the counts, a walk shows all rows that are not tied from
\* the newest to the last one it shows, unless rows are deleted.
THEOREM NoGap == Spec => []NothingSkipped
<1>1. IInv => NothingSkipped
  <2>1. SUFFICES ASSUME IInv, ~shifted.delete, NEW e \in there, NEW i \in DOMAIN shown,
                        created[e] > created[shown[i]], ~Tied(e)
                 PROVE  e \in ToSet(shown)
    BY DEF NothingSkipped
  <2>2. shown[i] \in ToSet(shown)
    BY DEF ToSet
  <2>3. QED BY <2>1, <2>2 DEF IInv, Complete
<1>2. QED BY <1>1, Invariance, PTL
=============================================================================
