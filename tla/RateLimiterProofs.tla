-------------------------- MODULE RateLimiterProofs --------------------------
(***************************************************************************)
(* For every limit, window and set of addresses: the types, that no more    *)
(* than Limit requests of an address are let through in a window, and that  *)
(* only an address that keeps asking is refused, exactly when Limiter says. *)
(*                                                                          *)
(* A visitor's counter speaks of the requests since the last reset.  So the *)
(* invariant splits the history there: the last Let(ip) admitted requests   *)
(* are those since the reset, and each of them came more than a window      *)
(* after each of the earlier ones (AdmitInv); among the last count requests *)
(* asked for there was no pause (AskInv), and before them there was one     *)
(* (CountsAll), which makes the answers those of Limiter.                   *)
(***************************************************************************)
EXTENDS RateLimiter, TLAPS, SequenceTheorems

\* The admitted requests of ip since its last reset.
Let(ip) == IF visitors[ip].count <= Limit THEN visitors[ip].count ELSE Limit

\* The admitted requests are not in the future, nor after lastSeen; those of a
\* forgotten address are more than a window old.
AdmitTimes(ip) ==
  /\ \A i \in 1..Len(admitted[ip]) : admitted[ip][i] <= now
  /\ Known(ip) => /\ visitors[ip].lastSeen <= now
                  /\ \A i \in 1..Len(admitted[ip]) : admitted[ip][i] <= visitors[ip].lastSeen
  /\ ~Known(ip) => \A i \in 1..Len(admitted[ip]) : now - admitted[ip][i] > Window

\* Each of the last k of the times L is more than a window after all before.
Parted(L, k) ==
  /\ k <= Len(L)
  /\ \A i \in 1..(Len(L) - k) : \A j \in (Len(L) - k + 1)..Len(L) : L[j] - L[i] > Window

\* Of any Limit + 1 of the times L, the last is more than a window after the first.
Spaced(L) == \A i \in 1..(Len(L) - Limit) : L[i + Limit] - L[i] > Window

\* Between the last k of the times L there is no pause.
Dense(L, k) ==
  /\ k <= Len(L)
  /\ \A i \in (Len(L) - k + 1)..(Len(L) - 1) : L[i + 1] - L[i] <= Window

AdmitInv(ip) ==
  AdmitTimes(ip) /\ Parted(admitted[ip], Let(ip)) /\ Spaced(admitted[ip])

AskInv(ip) ==
  /\ Dense(asked[ip], visitors[ip].count)
  /\ Known(ip) => Limit > 0 /\ asked[ip][Len(asked[ip])] = visitors[ip].lastSeen
  /\ answer[ip] = "no" => Dense(asked[ip], Limit + 1)

IInv == TypeOK /\ \A ip \in IPs : AdmitInv(ip) /\ AskInv(ip)

-----------------------------------------------------------------------------
\* What Append does to a history of times.
LEMMA AppendTime ==
  ASSUME NEW s \in Seq(Nat), NEW t \in Nat
  PROVE  /\ Append(s, t) \in Seq(Nat)
         /\ Len(s) \in Nat
         /\ Len(Append(s, t)) = Len(s) + 1
         /\ \A i \in 1..Len(s) : Append(s, t)[i] = s[i] /\ s[i] \in Nat
         /\ Append(s, t)[Len(s) + 1] = t
BY AppendProperties, LenProperties, ElementOfSeq

LEMMA TypeStep == TypeOK /\ [Next]_vars => TypeOK'
<1> SUFFICES ASSUME TypeOK, [Next]_vars PROVE TypeOK'
  OBVIOUS
<1> USE RateLimiterAssumption
<1>1. ASSUME NEW ip \in IPs, Request(ip) PROVE TypeOK'
  <2>1. now' = now /\ asked' \in [IPs -> Seq(Nat)]
    BY <1>1, AppendTime DEF Request, TypeOK
  <2>2. visitors' \in [IPs -> [count : Nat, lastSeen : Nat]]
    <3>1. CASE AllowNobody(ip)
      BY <3>1 DEF AllowNobody, TypeOK
    <3>2. CASE AllowFresh(ip)
      BY <3>2 DEF AllowFresh, Fresh, TypeOK
    <3>3. CASE AllowCounted(ip)
      BY <3>3 DEF AllowCounted, TypeOK
    <3>4. QED BY <1>1, <3>1, <3>2, <3>3 DEF Request
  <2>3. Admit(ip) \/ Refuse(ip)
    BY <1>1 DEF Request, AllowNobody, AllowFresh, AllowCounted
  <2>4. admitted' \in [IPs -> Seq(Nat)] /\ answer' \in [IPs -> {"none", "yes", "no"}]
    <3>1. CASE Admit(ip)
      BY <3>1, AppendTime DEF Admit, TypeOK
    <3>2. CASE Refuse(ip)
      BY <3>2 DEF Refuse, TypeOK
    <3>3. QED BY <2>3, <3>1, <3>2
  <2>5. QED BY <2>1, <2>2, <2>4 DEF TypeOK
<1>2. CASE Cleanup
  BY <1>2 DEF Cleanup, Absent, TypeOK
<1>3. CASE Tick
  BY <1>3 DEF Tick, TypeOK
<1>4. CASE UNCHANGED vars
  BY <1>4 DEF vars, TypeOK
<1>5. QED BY <1>1, <1>2, <1>3, <1>4 DEF Next

-----------------------------------------------------------------------------
\* A request changes the records of its own address only.
LEMMA RequestElsewhere ==
  ASSUME TypeOK, NEW ip \in IPs, Request(ip), NEW q \in IPs, q # ip
  PROVE  /\ visitors'[q] = visitors[q] /\ asked'[q] = asked[q]
         /\ admitted'[q] = admitted[q] /\ answer'[q] = answer[q] /\ now' = now
BY DEF Request, AllowNobody, AllowFresh, AllowCounted, Admit, Refuse, TypeOK

\* A request is refused as a whole, or let through because its address starts
\* afresh or is under the limit: what becomes of its records in each case.
LEMMA RequestHere ==
  ASSUME TypeOK, NEW ip \in IPs, Request(ip)
  PROVE  /\ now' = now /\ asked'[ip] = Append(asked[ip], now)
         /\ \/ /\ Limit = 0 /\ visitors'[ip] = visitors[ip]
               /\ admitted'[ip] = admitted[ip] /\ answer'[ip] = "no"
            \/ /\ Limit > 0 /\ (Known(ip) => Quiet(visitors[ip]))
               /\ visitors'[ip] = Fresh
               /\ admitted'[ip] = Append(admitted[ip], now) /\ answer'[ip] = "yes"
            \/ /\ Limit > 0 /\ Known(ip) /\ ~Quiet(visitors[ip])
               /\ visitors'[ip] = [count |-> visitors[ip].count + 1, lastSeen |-> now]
               /\ \/ /\ visitors[ip].count + 1 <= Limit
                     /\ admitted'[ip] = Append(admitted[ip], now) /\ answer'[ip] = "yes"
                  \/ /\ visitors[ip].count + 1 > Limit
                     /\ admitted'[ip] = admitted[ip] /\ answer'[ip] = "no"
<1>1. now' = now /\ asked'[ip] = Append(asked[ip], now)
  BY DEF Request, TypeOK
<1>2. Admit(ip) => admitted'[ip] = Append(admitted[ip], now) /\ answer'[ip] = "yes"
  BY DEF Admit, TypeOK
<1>3. Refuse(ip) => admitted'[ip] = admitted[ip] /\ answer'[ip] = "no"
  BY DEF Refuse, TypeOK
<1>4. CASE AllowNobody(ip)
  BY <1>1, <1>3, <1>4 DEF AllowNobody
<1>5. CASE AllowFresh(ip)
  BY <1>1, <1>2, <1>5 DEF AllowFresh, TypeOK
<1>6. CASE AllowCounted(ip)
  <2>1. visitors[ip].count \in Nat
    BY DEF TypeOK
  <2>2. visitors'[ip] = [count |-> visitors[ip].count + 1, lastSeen |-> now]
    BY <1>6 DEF AllowCounted, TypeOK
  <2>3. QED BY <1>1, <1>2, <1>3, <1>6, <2>1, <2>2, RateLimiterAssumption DEF AllowCounted
<1>7. QED BY <1>4, <1>5, <1>6 DEF Request

-----------------------------------------------------------------------------
\* A request let through while k - 1 are counted: k are counted now.
LEMMA PartedAppend ==
  ASSUME NEW L \in Seq(Nat), NEW t \in Nat, NEW k \in 1..Limit,
         k <= Len(L) + 1,
         \A i \in 1..(Len(L) + 1 - k) : t - L[i] > Window,
         \A i \in 1..(Len(L) + 1 - k) : \A j \in (Len(L) + 2 - k)..Len(L) :
           L[j] - L[i] > Window,
         Spaced(L)
  PROVE  Parted(Append(L, t), k) /\ Spaced(Append(L, t))
<1> DEFINE n == Len(L)
           S == Append(L, t)
<1>1. /\ n \in Nat /\ Limit \in Nat /\ Window \in Nat /\ k \in Nat /\ k >= 1 /\ k <= Limit
      /\ k <= n + 1
  BY LenProperties, RateLimiterAssumption
<1>2. /\ Len(S) = n + 1
      /\ \A i \in 1..n : S[i] = L[i]
      /\ S[n + 1] = t
  BY AppendTime
<1>3. /\ \A i \in 1..(n + 1 - k) : t - L[i] > Window
      /\ \A i \in 1..(n + 1 - k) : \A j \in (n + 2 - k)..n : L[j] - L[i] > Window
      /\ \A i \in 1..(n - Limit) : L[i + Limit] - L[i] > Window
  BY DEF Spaced
<1> HIDE DEF n, S
<1>4. ASSUME NEW i \in 1..(n + 1 - k), NEW j \in (n + 1 - k + 1)..(n + 1)
      PROVE  S[j] - S[i] > Window
  <2>1. i \in 1..n
    BY <1>1
  <2>2. CASE j = n + 1
    BY <1>2, <1>3, <2>1, <2>2
  <2>3. CASE j # n + 1
    <3>1. j \in (n + 2 - k)..n /\ j \in 1..n
      BY <1>1, <2>3
    <3>2. QED BY <1>2, <1>3, <2>1, <3>1
  <2>4. QED BY <2>2, <2>3
<1>5. ASSUME NEW i \in 1..(n + 1 - Limit) PROVE S[i + Limit] - S[i] > Window
  <2>1. i \in 1..n /\ i \in 1..(n + 1 - k)
    BY <1>1
  <2>2. CASE i + Limit = n + 1
    BY <1>2, <1>3, <2>1, <2>2
  <2>3. CASE i + Limit # n + 1
    <3>1. i \in 1..(n - Limit) /\ i + Limit \in 1..n
      BY <1>1, <2>3
    <3>2. QED BY <1>2, <1>3, <2>1, <3>1
  <2>4. QED BY <2>2, <2>3
<1>6. Parted(S, k) /\ Spaced(S)
  BY <1>1, <1>2, <1>4, <1>5 DEF Parted, Spaced
<1>7. QED BY <1>6 DEF S

\* A request within a window of the one before makes the dense end longer; any
\* request is a dense end of its own.
LEMMA DenseAppend ==
  ASSUME NEW L \in Seq(Nat), NEW t \in Nat, NEW k \in Nat, Dense(L, k),
         k > 0 => t - L[Len(L)] <= Window
  PROVE  Dense(Append(L, t), k + 1)
<1> DEFINE n == Len(L)
           S == Append(L, t)
<1>1. n \in Nat /\ k <= n /\ \A i \in (n - k + 1)..(n - 1) : L[i + 1] - L[i] <= Window
  BY LenProperties DEF Dense
<1>2. /\ Len(S) = n + 1
      /\ \A i \in 1..n : S[i] = L[i]
      /\ S[n + 1] = t
  BY AppendTime
<1>3. k > 0 => t - L[n] <= Window
  OBVIOUS
<1> HIDE DEF n, S
<1>4. ASSUME NEW i \in (n + 1 - (k + 1) + 1)..(n + 1 - 1)
      PROVE  S[i + 1] - S[i] <= Window
  <2>1. i \in 1..n /\ k > 0
    BY <1>1
  <2>2. CASE i = n
    BY <1>2, <1>3, <2>1, <2>2
  <2>3. CASE i # n
    <3>1. i + 1 \in 1..n /\ i \in (n - k + 1)..(n - 1)
      BY <1>1, <2>1, <2>3
    <3>2. QED BY <1>1, <1>2, <2>1, <3>1
  <2>4. QED BY <2>2, <2>3
<1>5. Dense(S, k + 1)
  BY <1>1, <1>2, <1>4 DEF Dense
<1>6. QED BY <1>5 DEF S

\* A dense end is dense from any later point on.
LEMMA DenseShorter ==
  ASSUME NEW L \in Seq(Nat), NEW k \in Nat, NEW l \in 0..k, Dense(L, k)
  PROVE  Dense(L, l)
<1>1. Len(L) \in Nat
  BY LenProperties
<1>2. QED BY <1>1 DEF Dense

-----------------------------------------------------------------------------
\* A request is let through, its address starting afresh (k = 1) or being under
\* the limit (k counts it).
LEMMA AdmitOne ==
  ASSUME TypeOK, NEW ip \in IPs, AdmitInv(ip), NEW k \in 1..Limit, now' = now,
         admitted'[ip] = Append(admitted[ip], now),
         visitors'[ip] = [count |-> k, lastSeen |-> now],
         k <= Len(admitted[ip]) + 1,
         \A i \in 1..(Len(admitted[ip]) + 1 - k) : now - admitted[ip][i] > Window,
         \A i \in 1..(Len(admitted[ip]) + 1 - k) :
           \A j \in (Len(admitted[ip]) + 2 - k)..Len(admitted[ip]) :
             admitted[ip][j] - admitted[ip][i] > Window
  PROVE  AdmitInv(ip)'
<1>1. admitted[ip] \in Seq(Nat) /\ now \in Nat /\ k \in Nat /\ k # 0 /\ k <= Limit
  BY RateLimiterAssumption DEF TypeOK
<1>2. Let(ip)' = k /\ Known(ip)' /\ visitors'[ip].lastSeen = now
  BY <1>1 DEF Let, Known
<1>3. Parted(admitted'[ip], k) /\ Spaced(admitted'[ip])
  BY <1>1, PartedAppend DEF AdmitInv
<1>4. \A i \in 1..Len(admitted'[ip]) : admitted'[ip][i] <= now
  <2>1. /\ Len(admitted[ip]) \in Nat
        /\ Len(admitted'[ip]) = Len(admitted[ip]) + 1
        /\ \A i \in 1..Len(admitted[ip]) : admitted'[ip][i] = admitted[ip][i]
        /\ admitted'[ip][Len(admitted[ip]) + 1] = now
    BY <1>1, AppendTime
  <2>2. SUFFICES ASSUME NEW i \in 1..Len(admitted'[ip]) PROVE admitted'[ip][i] <= now
    OBVIOUS
  <2>3. CASE i = Len(admitted[ip]) + 1
    BY <1>1, <2>1, <2>3
  <2>4. CASE i # Len(admitted[ip]) + 1
    <3>1. i \in 1..Len(admitted[ip])
      BY <2>1, <2>4
    <3>2. QED BY <2>1, <3>1 DEF AdmitInv, AdmitTimes
  <2>5. QED BY <2>3, <2>4
<1>5. AdmitTimes(ip)'
  BY <1>1, <1>2, <1>4 DEF AdmitTimes
<1>6. Parted(admitted[ip], Let(ip))' /\ Spaced(admitted[ip])'
  BY <1>2, <1>3 DEF Parted, Spaced
<1>7. QED BY <1>5, <1>6 DEF AdmitInv

\* The address that makes a request keeps the part about admitted requests.
LEMMA RequestAdmit ==
  ASSUME TypeOK, NEW ip \in IPs, Request(ip), AdmitInv(ip)
  PROVE  AdmitInv(ip)'
<1> DEFINE L == admitted[ip]
           n == Len(L)
           v == visitors[ip]
<1>1. /\ v.count \in Nat /\ v.lastSeen \in Nat /\ now \in Nat /\ Limit \in Nat
      /\ Window \in Nat /\ L \in Seq(Nat) /\ n \in Nat
      /\ \A i \in 1..n : L[i] \in Nat
  BY RateLimiterAssumption, LenProperties, ElementOfSeq DEF TypeOK
<1>2. /\ AdmitTimes(ip)
      /\ Let(ip) <= n
      /\ \A i \in 1..(n - Let(ip)) : \A j \in (n - Let(ip) + 1)..n : L[j] - L[i] > Window
  BY DEF AdmitInv, Parted
<1>3. now' = now
  BY RequestHere
<1>4. CASE visitors'[ip] = v /\ admitted'[ip] = L
  <2>1. (Let(ip)' = Let(ip)) /\ (Known(ip)' <=> Known(ip))
    BY <1>4 DEF Let, Known
  <2>2. AdmitTimes(ip)'
    BY <1>2, <1>3, <1>4, <2>1 DEF AdmitTimes
  <2>3. Parted(admitted[ip], Let(ip))' /\ Spaced(admitted[ip])'
    BY <1>4, <2>1 DEF AdmitInv, Parted, Spaced
  <2>4. QED BY <2>2, <2>3 DEF AdmitInv
<1>5. CASE /\ Limit > 0 /\ (Known(ip) => Quiet(v)) /\ visitors'[ip] = Fresh
           /\ admitted'[ip] = Append(L, now)
  <2>1. ASSUME NEW i \in 1..n PROVE now - L[i] > Window
    <3>1. CASE ~Known(ip)
      BY <1>2, <3>1 DEF AdmitTimes
    <3>2. CASE Known(ip)
      <4>1. L[i] <= v.lastSeen /\ now - v.lastSeen > Window
        BY <1>2, <1>5, <3>2 DEF AdmitTimes, Quiet
      <4>2. v.lastSeen \in Nat /\ now \in Nat /\ Window \in Nat /\ L[i] \in Nat
        BY <1>1
      <4>3. QED BY ONLY <4>1, <4>2
    <3>3. QED BY <3>1, <3>2
  <2>2. 1 \in 1..Limit /\ visitors'[ip] = [count |-> 1, lastSeen |-> now]
    BY <1>1, <1>5 DEF Fresh
  <2>3. /\ 1 <= n + 1
        /\ \A i \in 1..(n + 1 - 1) : now - L[i] > Window
        /\ \A i \in 1..(n + 1 - 1) : \A j \in (n + 2 - 1)..n : L[j] - L[i] > Window
    BY <1>1, <2>1
  <2>4. QED BY <1>3, <1>5, <2>2, <2>3, AdmitOne
<1>6. CASE /\ Known(ip) /\ v.count + 1 <= Limit
           /\ visitors'[ip] = [count |-> v.count + 1, lastSeen |-> now]
           /\ admitted'[ip] = Append(L, now)
  <2>1. Let(ip) = v.count /\ v.count >= 1 /\ v.count + 1 \in 1..Limit
    BY <1>1, <1>6 DEF Let, Known
  <2>2. n >= 1 /\ L[n] <= now
    BY <1>1, <1>2, <2>1 DEF AdmitTimes
  <2>3. \A i \in 1..(n - v.count) : L[n] - L[i] > Window
    <3>1. n \in (n - v.count + 1)..n
      BY <1>1, <2>1, <2>2
    <3>2. QED BY <1>2, <2>1, <3>1
  <2>4. \A i \in 1..(n - v.count) : i \in 1..n
    BY <1>1, <2>1
  <2>5. \A i \in 1..(n - v.count) : now - L[i] > Window
    <3>1. L[n] \in Nat
      BY <1>1, <2>2
    <3>2. QED BY <1>1, <2>2, <2>3, <2>4, <3>1
  <2>6. /\ v.count + 1 <= n + 1
        /\ n + 1 - (v.count + 1) = n - v.count
        /\ n + 2 - (v.count + 1) = n - v.count + 1
    <3>1. \A a, b \in Nat : /\ b <= a => b + 1 <= a + 1
                           /\ a + 1 - (b + 1) = a - b
                           /\ a + 2 - (b + 1) = a - b + 1
      OBVIOUS
    <3>2. n \in Nat /\ v.count \in Nat /\ v.count <= n
      BY <1>1, <1>2, <2>1
    <3>3. QED BY ONLY <3>1, <3>2
  <2>7. /\ \A i \in 1..(n + 1 - (v.count + 1)) : now - L[i] > Window
        /\ \A i \in 1..(n + 1 - (v.count + 1)) : \A j \in (n + 2 - (v.count + 1))..n :
             L[j] - L[i] > Window
    BY <1>2, <2>1, <2>5, <2>6
  <2>8. QED BY <1>3, <1>6, <2>1, <2>6, <2>7, AdmitOne
<1>7. CASE /\ Known(ip) /\ v.count + 1 > Limit
           /\ visitors'[ip] = [count |-> v.count + 1, lastSeen |-> now]
           /\ admitted'[ip] = L
  <2>1. Let(ip)' = Let(ip) /\ Known(ip)' /\ visitors'[ip].lastSeen = now
    BY <1>1, <1>7 DEF Let, Known
  <2>2. AdmitTimes(ip)'
    BY <1>1, <1>2, <1>3, <1>7, <2>1 DEF AdmitTimes
  <2>3. Parted(admitted[ip], Let(ip))' /\ Spaced(admitted[ip])'
    BY <1>7, <2>1 DEF AdmitInv, Parted, Spaced
  <2>4. QED BY <2>2, <2>3 DEF AdmitInv
<1>8. QED BY <1>4, <1>5, <1>6, <1>7, RequestHere

\* ... and the part about the requests asked for.
LEMMA RequestAsk ==
  ASSUME TypeOK, NEW ip \in IPs, Request(ip), AskInv(ip)
  PROVE  AskInv(ip)'
<1> DEFINE L == asked[ip]
           v == visitors[ip]
<1>1. /\ v.count \in Nat /\ v.lastSeen \in Nat /\ now \in Nat /\ Limit \in Nat
      /\ Window \in Nat /\ L \in Seq(Nat) /\ Len(L) \in Nat
  BY RateLimiterAssumption, LenProperties DEF TypeOK
<1>2. now' = now /\ asked'[ip] = Append(L, now)
  BY RequestHere
<1>3. /\ Append(L, now) \in Seq(Nat)
      /\ Append(L, now)[Len(Append(L, now))] = now
  BY <1>1, AppendTime
<1>4. Dense(L, 0) /\ Dense(Append(L, now), 0 + 1)
  <2>1. Dense(L, 0)
    BY <1>1 DEF Dense
  <2>2. QED BY <1>1, <2>1, DenseAppend
<1>5. CASE Limit = 0 /\ visitors'[ip] = v
  <2>1. v.count = 0 /\ ~Known(ip)'
    BY <1>5 DEF AskInv, Known
  <2>2. Dense(Append(L, now), 0)
    <3>1. 0 + 1 \in Nat /\ 0 \in 0..(0 + 1)
      OBVIOUS
    <3>2. QED BY <1>3, <1>4, <3>1, DenseShorter
  <2>3. QED BY <1>2, <1>4, <1>5, <2>1, <2>2 DEF AskInv, Dense
<1>6. CASE Limit > 0 /\ visitors'[ip] = Fresh /\ answer'[ip] = "yes"
  BY <1>2, <1>3, <1>4, <1>6 DEF AskInv, Dense, Fresh
<1>7. CASE /\ Limit > 0 /\ Known(ip) /\ ~Quiet(v)
           /\ visitors'[ip] = [count |-> v.count + 1, lastSeen |-> now]
           /\ answer'[ip] = "no" => v.count + 1 > Limit
  <2>1. now - L[Len(L)] <= Window
    BY <1>1, <1>7 DEF AskInv, Quiet
  <2>2. Dense(Append(L, now), v.count + 1)
    BY <1>1, <2>1, DenseAppend DEF AskInv
  <2>3. answer'[ip] = "no" => Dense(Append(L, now), Limit + 1)
    <3>1. SUFFICES ASSUME answer'[ip] = "no" PROVE Dense(Append(L, now), Limit + 1)
      OBVIOUS
    <3>2. v.count + 1 \in Nat /\ Limit + 1 \in 0..(v.count + 1)
      BY <1>1, <1>7, <3>1
    <3>3. QED BY <1>3, <2>2, <3>2, DenseShorter
  <2>4. visitors'[ip].count = v.count + 1 /\ visitors'[ip].lastSeen = now
    BY <1>7
  <2>5. Dense(asked[ip], visitors[ip].count)'
    BY <1>2, <2>2, <2>4 DEF Dense
  <2>6. (answer[ip] = "no" => Dense(asked[ip], Limit + 1))'
    BY <1>2, <2>3 DEF Dense
  <2>7. QED BY <1>2, <1>3, <1>7, <2>4, <2>5, <2>6 DEF AskInv
<1>8. QED BY <1>5, <1>6, <1>7, RequestHere

-----------------------------------------------------------------------------
LEMMA InvInit == Init => IInv
<1> SUFFICES ASSUME Init PROVE IInv
  OBVIOUS
<1>1. TypeOK
  BY EmptySeq DEF Init, Absent, TypeOK
<1>2. Len(<<>>) = 0
  BY EmptySeq
<1>3. ASSUME NEW ip \in IPs PROVE AdmitInv(ip) /\ AskInv(ip)
  BY <1>2, RateLimiterAssumption
     DEF Init, Absent, AdmitInv, AdmitTimes, Parted, Spaced, AskInv, Dense, Let, Known
<1>4. QED BY <1>1, <1>3 DEF IInv

LEMMA InvStep == IInv /\ [Next]_vars => IInv'
<1> SUFFICES ASSUME IInv, [Next]_vars PROVE IInv'
  OBVIOUS
<1>1. TypeOK /\ TypeOK'
  BY TypeStep DEF IInv
<1>2. SUFFICES ASSUME NEW q \in IPs PROVE AdmitInv(q)' /\ AskInv(q)'
  BY <1>1 DEF IInv
<1>3. AdmitInv(q) /\ AskInv(q)
  BY DEF IInv
<1>4. ASSUME UNCHANGED <<now, visitors[q], asked[q], admitted[q], answer[q]>>
      PROVE  AdmitInv(q)' /\ AskInv(q)'
  <2>1. Let(q)' = Let(q) /\ (Known(q)' <=> Known(q))
    BY <1>4 DEF Let, Known
  <2>2. QED BY <1>3, <1>4, <2>1 DEF AdmitInv, AdmitTimes, Parted, Spaced, AskInv, Dense
<1>5. ASSUME NEW ip \in IPs, Request(ip) PROVE AdmitInv(q)' /\ AskInv(q)'
  <2>1. CASE q = ip
    BY <1>1, <1>3, <1>5, <2>1, RequestAdmit, RequestAsk
  <2>2. CASE q # ip
    BY <1>1, <1>4, <1>5, <2>2, RequestElsewhere
  <2>3. QED BY <2>1, <2>2
<1>6. CASE Cleanup
  <2>1. UNCHANGED <<now, asked, admitted, answer>>
    BY <1>6 DEF Cleanup
  <2>2. CASE visitors'[q] = visitors[q]
    BY <1>4, <2>1, <2>2
  <2>3. CASE visitors'[q] = Absent /\ Known(q) /\ Quiet(visitors[q])
    <3>1. /\ visitors[q].lastSeen \in Nat /\ now \in Nat /\ Limit \in Nat /\ Window \in Nat
          /\ admitted[q] \in Seq(Nat) /\ asked[q] \in Seq(Nat)
          /\ Len(admitted[q]) \in Nat /\ Len(asked[q]) \in Nat
          /\ \A i \in 1..Len(admitted[q]) : admitted[q][i] \in Nat
      BY <1>1, RateLimiterAssumption, LenProperties, ElementOfSeq DEF TypeOK
    <3>2. ~Known(q)' /\ visitors'[q].count = 0 /\ Let(q)' = 0
      BY <2>3, <3>1 DEF Absent, Known, Let
    <3>3. ASSUME NEW i \in 1..Len(admitted[q]) PROVE now - admitted[q][i] > Window
      <4>1. admitted[q][i] <= visitors[q].lastSeen /\ now - visitors[q].lastSeen > Window
        BY <1>3, <2>3 DEF AdmitInv, AdmitTimes, Quiet
      <4>2. /\ visitors[q].lastSeen \in Nat /\ now \in Nat /\ Window \in Nat
            /\ admitted[q][i] \in Nat
        BY <3>1
      <4>3. QED BY ONLY <4>1, <4>2
    <3>4. AdmitInv(q)'
      BY <1>3, <2>1, <3>1, <3>2, <3>3 DEF AdmitInv, AdmitTimes, Parted, Spaced
    <3>5. AskInv(q)'
      BY <1>3, <2>1, <3>1, <3>2 DEF AskInv, Dense
    <3>6. QED BY <3>4, <3>5
  <2>4. QED BY <1>6, <2>2, <2>3 DEF Cleanup
<1>7. CASE Tick
  <2>1. /\ now' = now + 1
        /\ UNCHANGED <<visitors[q], asked[q], admitted[q], answer[q]>>
    BY <1>7 DEF Tick
  <2>2. /\ visitors[q].lastSeen \in Nat /\ now \in Nat /\ Window \in Nat
        /\ \A i \in 1..Len(admitted[q]) : admitted[q][i] \in Nat
    BY <1>1, RateLimiterAssumption, ElementOfSeq DEF TypeOK
  <2>3. Let(q)' = Let(q) /\ (Known(q)' <=> Known(q))
    BY <2>1 DEF Let, Known
  <2>4. AdmitTimes(q)'
    BY <1>3, <2>1, <2>2, <2>3 DEF AdmitInv, AdmitTimes
  <2>5. QED BY <1>3, <2>1, <2>3, <2>4 DEF AdmitInv, Parted, Spaced, AskInv, Dense
<1>8. CASE UNCHANGED vars
  BY <1>4, <1>8 DEF vars
<1>9. QED BY <1>5, <1>6, <1>7, <1>8 DEF Next

\* In every reachable state the invariant holds.
THEOREM Invariance == Spec => []IInv
<1>1. QED BY InvInit, InvStep, PTL DEF Spec

\* The variables of the limiter keep their types.
THEOREM TypeCorrect == Spec => []TypeOK
<1>1. IInv => TypeOK
  BY DEF IInv
<1>2. QED BY <1>1, Invariance, PTL

\* Whatever the limit and the window: of any Limit + 1 requests of an address
\* that Allow let through, the last came more than a window after the first.
THEOREM Limited == Spec => []AtMostLimitPerWindow
<1>1. IInv => AtMostLimitPerWindow
  BY DEF IInv, AdmitInv, Spaced, AtMostLimitPerWindow
<1>2. QED BY <1>1, Invariance, PTL

\* Somebody who is refused has asked more than Limit times without once being
\* quiet for longer than a window: a pause always helps.  (README, "20 req/min
\* per IP", would ask for more: who asks slowly but steadily is refused for ever.)
RefusedOnlyWhenBusy ==
  \A ip \in IPs : answer[ip] = "no" =>
    LET n == Len(asked[ip]) IN
      /\ n > Limit
      /\ \A i \in (n - Limit)..(n - 1) : asked[ip][i + 1] - asked[ip][i] <= Window

\* Whatever the cleanup forgets: a request is refused only after more than Limit
\* requests of its address with no pause longer than a window between them.
THEOREM RefusedBusy == Spec => []RefusedOnlyWhenBusy
<1>1. IInv => RefusedOnlyWhenBusy
  <2>1. SUFFICES ASSUME IInv, NEW ip \in IPs, answer[ip] = "no"
                 PROVE  /\ Len(asked[ip]) > Limit
                        /\ \A i \in (Len(asked[ip]) - Limit)..(Len(asked[ip]) - 1) :
                             asked[ip][i + 1] - asked[ip][i] <= Window
    BY DEF RefusedOnlyWhenBusy
  <2>2. Dense(asked[ip], Limit + 1) /\ Len(asked[ip]) \in Nat /\ Limit \in Nat
    BY <2>1, RateLimiterAssumption, LenProperties DEF IInv, AskInv, TypeOK
  <2>3. QED BY <2>2 DEF Dense
<1>2. QED BY <1>1, Invariance, PTL

-----------------------------------------------------------------------------
(***************************************************************************)
(* The implementation of Limiter                                            *)
(***************************************************************************)

\* There is a pause before the last k of the times L, if there is anything.
PauseBefore(L, k) ==
  k < Len(L) => L[Len(L) - k + 1] - L[Len(L) - k] > Window

\* The counter of a visitor reaches back to a pause, and nothing is forgotten
\* before there has been one.
CountsAll(ip) ==
  /\ Known(ip) => PauseBefore(asked[ip], visitors[ip].count)
  /\ ~Known(ip) /\ Limit > 0 /\ asked[ip] # <<>> =>
       now - asked[ip][Len(asked[ip])] > Window

CountInv == \A ip \in IPs : CountsAll(ip)

\* What Request finds in the records of its address when they make it start afresh.
LEMMA FreshAfterPause ==
  ASSUME IInv, NEW ip \in IPs, CountsAll(ip), Limit > 0,
         Known(ip) => Quiet(visitors[ip]), asked[ip] # <<>>
  PROVE  now - asked[ip][Len(asked[ip])] > Window
<1>1. CASE Known(ip)
  <2>1. asked[ip][Len(asked[ip])] = visitors[ip].lastSeen
    BY <1>1 DEF IInv, AskInv
  <2>2. QED BY <1>1, <2>1 DEF Quiet
<1>2. CASE ~Known(ip)
  BY <1>2 DEF CountsAll
<1>3. QED BY <1>1, <1>2

\* A request after a pause has the pause right before it.
LEMMA PauseAppendFresh ==
  ASSUME NEW L \in Seq(Nat), NEW t \in Nat, L # <<>> => t - L[Len(L)] > Window
  PROVE  PauseBefore(Append(L, t), 1)
<1>1. /\ Len(L) \in Nat /\ Len(Append(L, t)) = Len(L) + 1
      /\ \A i \in 1..Len(L) : Append(L, t)[i] = L[i]
      /\ Append(L, t)[Len(L) + 1] = t
  BY AppendTime
<1>2. SUFFICES ASSUME 1 < Len(L) + 1
               PROVE  Append(L, t)[Len(L) + 1 - 1 + 1] - Append(L, t)[Len(L) + 1 - 1] > Window
  BY <1>1 DEF PauseBefore
<1>3. L # <<>> /\ Len(L) \in 1..Len(L) /\ Len(L) + 1 - 1 = Len(L)
  BY <1>1, <1>2, EmptySeq
<1>4. QED BY <1>1, <1>3

\* One more request leaves the pause where it was.
LEMMA PauseAppend ==
  ASSUME NEW L \in Seq(Nat), NEW t \in Nat, NEW k \in Nat \ {0}, PauseBefore(L, k)
  PROVE  PauseBefore(Append(L, t), k + 1)
<1> DEFINE n == Len(L)
<1>1. /\ n \in Nat /\ Len(Append(L, t)) = n + 1
      /\ \A i \in 1..n : Append(L, t)[i] = L[i]
  BY AppendTime
<1>2. k < n => L[n - k + 1] - L[n - k] > Window
  BY DEF PauseBefore
<1> HIDE DEF n
<1>3. SUFFICES ASSUME k + 1 < n + 1
               PROVE  Append(L, t)[n + 1 - (k + 1) + 1] - Append(L, t)[n + 1 - (k + 1)] > Window
  BY <1>1 DEF PauseBefore
<1>4. /\ n + 1 - (k + 1) = n - k /\ n + 1 - (k + 1) + 1 = n - k + 1
      /\ n - k \in 1..n /\ n - k + 1 \in 1..n /\ k < n
  BY <1>1, <1>3
<1>5. QED BY <1>1, <1>2, <1>4

\* Up to Limit requests since a pause are not pressing.
LEMMA NotPressing ==
  ASSUME NEW L \in Seq(Nat), NEW k \in Nat \ {0}, k <= Limit, k <= Len(L), PauseBefore(L, k)
  PROVE  ~Promise!Pressing(L)
<1>1. Len(L) \in Nat /\ Limit \in Nat
  BY LenProperties, RateLimiterAssumption
<1>2. SUFFICES ASSUME Len(L) > Limit,
                      \A i \in (Len(L) - Limit)..(Len(L) - 1) : L[i + 1] - L[i] <= Window
               PROVE  FALSE
  BY DEF Promise!Pressing
<1>3. k < Len(L) /\ Len(L) - k \in (Len(L) - Limit)..(Len(L) - 1)
  BY <1>1, <1>2
<1>4. L[Len(L) - k + 1] - L[Len(L) - k] <= Window
  BY <1>2, <1>3
<1>5. L[Len(L) - k + 1] - L[Len(L) - k] > Window
  BY <1>3 DEF PauseBefore
<1>6. L[Len(L) - k + 1] \in Nat /\ L[Len(L) - k] \in Nat
  <2>1. Len(L) - k + 1 \in 1..Len(L) /\ Len(L) - k \in 1..Len(L)
    BY <1>1, <1>3
  <2>2. QED BY <2>1, ElementOfSeq
<1>7. QED BY <1>4, <1>5, <1>6, RateLimiterAssumption

\* More than Limit requests without a pause are.
LEMMA DensePresses ==
  ASSUME NEW L \in Seq(Nat), Dense(L, Limit + 1)
  PROVE  Promise!Pressing(L)
<1>1. Len(L) \in Nat /\ Limit \in Nat
  BY LenProperties, RateLimiterAssumption
<1>2. Len(L) - (Limit + 1) + 1 = Len(L) - Limit
  BY <1>1
<1>3. QED BY <1>1, <1>2 DEF Dense, Promise!Pressing

\* What Allow answers is what the times of the requests say, and the counter goes
\* on reaching back to a pause.
LEMMA RequestPromised ==
  ASSUME IInv, NEW ip \in IPs, CountsAll(ip), Request(ip)
  PROVE  /\ CountsAll(ip)'
         /\ answer'[ip] = IF Promise!Pressing(asked'[ip]) THEN "no" ELSE "yes"
<1> DEFINE L == asked[ip]
           v == visitors[ip]
<1>1. /\ v.count \in Nat /\ now \in Nat /\ Limit \in Nat /\ Window \in Nat
      /\ L \in Seq(Nat) /\ Len(L) \in Nat /\ Append(L, now) \in Seq(Nat)
      /\ Len(Append(L, now)) = Len(L) + 1 /\ v.count <= Len(L)
  BY RateLimiterAssumption, AppendTime DEF IInv, TypeOK, AskInv, Dense
<1>2. now' = now /\ asked'[ip] = Append(L, now)
  BY RequestHere DEF IInv
<1>3. answer'[ip] = "no" => Promise!Pressing(asked'[ip])
  <2>1. AskInv(ip)'
    BY RequestAsk DEF IInv
  <2>2. answer'[ip] = "no" => Dense(asked'[ip], Limit + 1)
    BY <2>1 DEF AskInv, Dense
  <2>3. QED BY <1>1, <1>2, <2>2, DensePresses
<1>4. CASE Limit = 0 /\ visitors'[ip] = v /\ answer'[ip] = "no"
  <2>1. ~Known(ip) /\ ~Known(ip)'
    BY <1>4 DEF IInv, AskInv, Known
  <2>2. QED BY <1>3, <1>4, <2>1 DEF CountsAll
<1>5. CASE /\ Limit > 0 /\ (Known(ip) => Quiet(v)) /\ visitors'[ip] = Fresh
           /\ answer'[ip] = "yes"
  <2>1. PauseBefore(Append(L, now), 1)
    BY <1>1, <1>5, FreshAfterPause, PauseAppendFresh
  <2>2. visitors'[ip].count = 1 /\ Known(ip)'
    BY <1>5 DEF Fresh, Known
  <2>3. CountsAll(ip)'
    BY <1>2, <2>1, <2>2 DEF CountsAll, PauseBefore
  <2>4. ~Promise!Pressing(Append(L, now))
    <3>1. 1 \in Nat \ {0} /\ 1 <= Limit /\ 1 <= Len(Append(L, now))
      BY <1>1, <1>5
    <3>2. QED BY <1>1, <2>1, <3>1, NotPressing
  <2>5. QED BY <1>2, <1>5, <2>3, <2>4
<1>6. CASE /\ Limit > 0 /\ Known(ip) /\ ~Quiet(v)
           /\ visitors'[ip] = [count |-> v.count + 1, lastSeen |-> now]
           /\ \/ v.count + 1 <= Limit /\ answer'[ip] = "yes"
              \/ v.count + 1 > Limit /\ answer'[ip] = "no"
  <2>1. v.count \in Nat \ {0} /\ v.count + 1 \in Nat \ {0}
    BY <1>1, <1>6 DEF Known
  <2>2. PauseBefore(Append(L, now), v.count + 1)
    BY <1>1, <1>6, <2>1, PauseAppend DEF CountsAll
  <2>3. visitors'[ip].count = v.count + 1 /\ Known(ip)'
    BY <1>6, <2>1 DEF Known
  <2>4. CountsAll(ip)'
    BY <1>2, <2>2, <2>3 DEF CountsAll, PauseBefore
  <2>5. v.count + 1 <= Limit => ~Promise!Pressing(Append(L, now))
    <3>1. v.count + 1 <= Len(Append(L, now))
      BY <1>1
    <3>2. QED BY <1>1, <2>1, <2>2, <3>1, NotPressing
  <2>6. QED BY <1>2, <1>3, <1>6, <2>4, <2>5
<1>7. QED BY <1>4, <1>5, <1>6, RequestHere DEF IInv

LEMMA CountInit == Init => CountInv
<1> SUFFICES ASSUME Init, NEW ip \in IPs PROVE CountsAll(ip)
  BY DEF CountInv
<1>1. visitors[ip].count = 0 /\ asked[ip] = <<>>
  BY DEF Init, Absent
<1>2. QED BY <1>1 DEF CountsAll, Known

\* An address that nothing is asked for keeps its count, or is forgotten after a
\* pause, and the pause only gets longer.
LEMMA CountStep == IInv /\ CountInv /\ [Next]_vars => CountInv'
<1> SUFFICES ASSUME IInv, CountInv, [Next]_vars, NEW q \in IPs PROVE CountsAll(q)'
  BY DEF CountInv
<1>1. CountsAll(q) /\ TypeOK
  BY DEF CountInv, IInv
<1>2. ASSUME NEW ip \in IPs, Request(ip) PROVE CountsAll(q)'
  <2>1. CASE q = ip
    BY <1>1, <1>2, <2>1, RequestPromised
  <2>2. CASE q # ip
    <3>1. visitors'[q] = visitors[q] /\ asked'[q] = asked[q] /\ now' = now
      BY <1>1, <1>2, <2>2, RequestElsewhere
    <3>2. QED BY <1>1, <3>1 DEF CountsAll, Known, PauseBefore
  <2>3. QED BY <2>1, <2>2
<1>3. CASE Cleanup
  <2>1. UNCHANGED <<now, asked>>
    BY <1>3 DEF Cleanup
  <2>2. CASE visitors'[q] = visitors[q]
    BY <1>1, <2>1, <2>2 DEF CountsAll, Known, PauseBefore
  <2>3. CASE visitors'[q] = Absent /\ Known(q) /\ Quiet(visitors[q])
    <3>1. ~Known(q)'
      BY <2>3 DEF Known, Absent
    <3>2. asked[q][Len(asked[q])] = visitors[q].lastSeen
      BY <2>3 DEF IInv, AskInv
    <3>3. QED BY <2>1, <2>3, <3>1, <3>2 DEF CountsAll, Quiet
  <2>4. QED BY <1>3, <2>2, <2>3 DEF Cleanup
<1>4. CASE Tick
  <2>1. now' = now + 1 /\ UNCHANGED <<visitors, asked>>
    BY <1>4 DEF Tick
  <2>2. CASE asked[q] = <<>>
    BY <1>1, <2>1, <2>2 DEF CountsAll, Known, PauseBefore
  <2>3. CASE asked[q] # <<>>
    <3>1. now \in Nat /\ Window \in Nat /\ asked[q][Len(asked[q])] \in Nat
      <4>1. asked[q] \in Seq(Nat) /\ Len(asked[q]) \in Nat /\ Len(asked[q]) # 0
        BY <1>1, <2>3, LenProperties, EmptySeq DEF TypeOK
      <4>2. Len(asked[q]) \in 1..Len(asked[q])
        BY <4>1
      <4>3. QED BY <1>1, <4>1, <4>2, ElementOfSeq, RateLimiterAssumption DEF TypeOK
    <3>2. QED BY <1>1, <2>1, <3>1 DEF CountsAll, Known, PauseBefore
  <2>4. QED BY <2>2, <2>3
<1>5. CASE UNCHANGED vars
  BY <1>1, <1>5 DEF vars, CountsAll, Known, PauseBefore
<1>6. QED BY <1>2, <1>3, <1>4, <1>5 DEF Next

\* Every request is an Ask, the cleanup is never noticed.
LEMMA StepPromised ==
  IInv /\ CountInv /\ [Next]_vars => [Promise!Next]_(Promise!vars)
<1> SUFFICES ASSUME IInv, CountInv, [Next]_vars
             PROVE  Promise!Next \/ UNCHANGED Promise!vars
  OBVIOUS
<1>1. ASSUME NEW ip \in IPs, Request(ip) PROVE Promise!Next
  <2>1. asked' = [asked EXCEPT ![ip] = Append(@, now)] /\ now' = now
    BY <1>1 DEF Request
  <2>2. answer'[ip] = IF Promise!Pressing(asked'[ip]) THEN "no" ELSE "yes"
    BY <1>1, RequestPromised DEF CountInv
  <2>3. answer' = [answer EXCEPT ![ip] = answer'[ip]]
    <3>1. \/ answer' = [answer EXCEPT ![ip] = "yes"]
          \/ answer' = [answer EXCEPT ![ip] = "no"]
      BY <1>1 DEF Request, AllowNobody, AllowFresh, AllowCounted, Admit, Refuse
    <3>2. QED BY <3>1 DEF IInv, TypeOK
  <2>4. Promise!Ask(ip)
    BY <2>1, <2>2, <2>3 DEF Promise!Ask
  <2>5. QED BY <2>4 DEF Promise!Next
<1>2. CASE Cleanup
  BY <1>2 DEF Cleanup, Promise!vars
<1>3. CASE Tick
  BY <1>3 DEF Tick, Promise!Next, Promise!Tick
<1>4. CASE UNCHANGED vars
  BY <1>4 DEF vars, Promise!vars
<1>5. QED BY <1>1, <1>2, <1>3, <1>4 DEF Next

\* Whatever the limit and the window, whenever the cleanup runs and however often:
\* a request is refused exactly when it and the Limit requests before it came
\* without a pause.
THEOREM ImplementsLimiter == Spec => RefinesLimiter
<1>1. Init => Promise!Init
  BY DEF Init, Promise!Init
<1>2. IInv /\ CountInv /\ [Next]_vars => [Promise!Next]_(Promise!vars)
  BY StepPromised
<1>3. Spec => []CountInv
  BY CountInit, CountStep, Invariance, PTL DEF Spec
<1>4. QED BY <1>1, <1>2, <1>3, Invariance, PTL DEF Spec, RefinesLimiter, Promise!Spec
=============================================================================
