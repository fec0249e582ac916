----------------------------- MODULE RateLimiter -----------------------------
(***************************************************************************)
(* The rate limiter of internal/middleware/rate_limiter.go: one visitor      *)
(* record per client address, a counter that starts again when the address  *)
(* has been quiet for more than the window, and a goroutine that deletes    *)
(* the records of quiet addresses.  Allow and the cleanup run under one     *)
(* mutex, so each is one step.                                              *)
(*                                                                          *)
(* Time is a clock of whole ticks; the two readings of it in one call of    *)
(* Allow are taken to be equal.  How the address is got from the request    *)
(* (getClientIP) is left out: an address is whatever it returns.            *)
(***************************************************************************)
EXTENDS Integers, Sequences

CONSTANTS
  IPs,          \* what getClientIP returns, the keys of visitors
  Limit,        \* RateLimiter.limit  (20 in the code)
  Window,       \* RateLimiter.window (one minute in the code), in ticks
  MaxTime,      \* bound: the clock stops here
  MaxRequests   \* bound: requests of one address

ASSUME RateLimiterAssumption ==
  /\ Limit \in Nat
  /\ Window \in Nat
  /\ MaxTime \in Nat
  /\ MaxRequests \in Nat

VARIABLES
  now,        \* the clock
  visitors,   \* RateLimiter.visitors; a count of 0 stands for an absent key
  asked,      \* history: asked[ip] are the times of the requests of ip
  admitted,   \* history: admitted[ip] are the times of those let through
  answer      \* history: what Allow returned for the last request of ip

vars == <<now, visitors, asked, admitted, answer>>

Absent == [count |-> 0, lastSeen |-> 0]

TypeOK ==
  /\ now \in Nat
  /\ visitors \in [IPs -> [count : Nat, lastSeen : Nat]]
  /\ asked \in [IPs -> Seq(Nat)]
  /\ admitted \in [IPs -> Seq(Nat)]
  /\ answer \in [IPs -> {"none", "yes", "no"}]

Init ==
  /\ now = 0
  /\ visitors = [ip \in IPs |-> Absent]
  /\ asked = [ip \in IPs |-> <<>>]
  /\ admitted = [ip \in IPs |-> <<>>]
  /\ answer = [ip \in IPs |-> "none"]

-----------------------------------------------------------------------------
(***************************************************************************)
(* Plausible bugs: wrong versions of definitions below that no action uses. *)
(***************************************************************************)

\* >= for >: a request exactly one window after the last one starts afresh.
QuietInclusive(v) == now - v.lastSeen >= Window

\* The moment the window ends is kept instead of the last request.
FreshBackdated == [count |-> 1, lastSeen |-> now - Window]

\* The cleanup deletes every visitor it finds.
CleanupOfAll ==
  /\ visitors' = [ip \in IPs |-> Absent]
  /\ UNCHANGED <<now, asked, admitted, answer>>

-----------------------------------------------------------------------------
\* time.Since(v.lastSeen) > rl.window
Quiet(v) == now - v.lastSeen > Window

Fresh == [count |-> 1, lastSeen |-> now]

Known(ip) == visitors[ip].count # 0

Admit(ip) ==
  /\ admitted' = [admitted EXCEPT ![ip] = Append(@, now)]
  /\ answer' = [answer EXCEPT ![ip] = "yes"]

Refuse(ip) ==
  /\ answer' = [answer EXCEPT ![ip] = "no"]
  /\ UNCHANGED admitted

\* Allow when the limit is 0: everybody is refused and nobody recorded.
AllowNobody(ip) ==
  /\ Limit = 0
  /\ Refuse(ip)
  /\ UNCHANGED visitors

\* Allow for an address that is not in the map, or has been quiet for long.
AllowFresh(ip) ==
  /\ Limit > 0
  /\ Known(ip) => Quiet(visitors[ip])
  /\ visitors' = [visitors EXCEPT ![ip] = Fresh]
  /\ Admit(ip)

\* Allow for an address that has been heard of within the window.  The request
\* is counted and moves lastSeen whether it is let through or not.
AllowCounted(ip) ==
  /\ Limit > 0
  /\ Known(ip)
  /\ ~Quiet(visitors[ip])
  /\ visitors' = [visitors EXCEPT ![ip] = [count |-> @.count + 1, lastSeen |-> now]]
  /\ IF visitors[ip].count + 1 <= Limit THEN Admit(ip) ELSE Refuse(ip)

\* A request reaches RateLimitMiddleware.
Request(ip) ==
  /\ Len(asked[ip]) < MaxRequests
  /\ asked' = [asked EXCEPT ![ip] = Append(@, now)]
  /\ AllowNobody(ip) \/ AllowFresh(ip) \/ AllowCounted(ip)
  /\ UNCHANGED now

\* The ticker of NewRateLimiter fires: quiet visitors are deleted.
Cleanup ==
  /\ visitors' = [ip \in IPs |->
       IF Known(ip) /\ Quiet(visitors[ip]) THEN Absent ELSE visitors[ip]]
  /\ UNCHANGED <<now, asked, admitted, answer>>

Tick ==
  /\ now < MaxTime
  /\ now' = now + 1
  /\ UNCHANGED <<visitors, asked, admitted, answer>>

Next ==
  \/ \E ip \in IPs : Request(ip)
  \/ Cleanup
  \/ Tick

Spec == Init /\ [][Next]_vars

-----------------------------------------------------------------------------
(***************************************************************************)
(* Properties                                                               *)
(***************************************************************************)

\* README, "20 req/min per IP", the half that holds: of any Limit + 1 requests
\* that were let through, the last came more than a window after the first,
\* whatever resets and cleanups happened in between.
AtMostLimitPerWindow ==
  \A ip \in IPs : \A i \in 1..(Len(admitted[ip]) - Limit) :
    admitted[ip][i + Limit] - admitted[ip][i] > Window

\* Counting from the last reset, and deleting records while nobody looks, come to
\* the same as what Limiter says about the times of the requests: nobody can tell
\* whether or when the cleanup runs.
Promise == INSTANCE Limiter

RefinesLimiter == Promise!Spec
=============================================================================
