------------------------------- MODULE Limiter -------------------------------
(***************************************************************************)
(* What the rate limiter promises to an address, in terms of nothing but    *)
(* the times of its requests: a request is refused exactly when it and the  *)
(* Limit requests before it came without a pause longer than a window.      *)
(* There is no counter here that starts again, and no record of a visitor   *)
(* that could be deleted: RateLimiter refines this module.                  *)
(***************************************************************************)
EXTENDS Integers, Sequences

CONSTANTS
  IPs,      \* the addresses
  Limit,    \* requests allowed without a pause
  Window    \* what is longer than this is a pause

VARIABLES
  now,      \* the clock
  asked,    \* asked[ip] are the times of the requests of ip
  answer    \* what the last request of ip was told

vars == <<now, asked, answer>>

Init ==
  /\ now = 0
  /\ asked = [ip \in IPs |-> <<>>]
  /\ answer = [ip \in IPs |-> "none"]

\* There was no pause between the last Limit + 1 of the times.
Pressing(times) ==
  LET n == Len(times) IN
    n > Limit /\ \A i \in (n - Limit)..(n - 1) : times[i + 1] - times[i] <= Window

Ask(ip) ==
  /\ asked' = [asked EXCEPT ![ip] = Append(@, now)]
  /\ answer' = [answer EXCEPT ![ip] = IF Pressing(asked'[ip]) THEN "no" ELSE "yes"]
  /\ UNCHANGED now

Tick ==
  /\ now' = now + 1
  /\ UNCHANGED <<asked, answer>>

Next == (\E ip \in IPs : Ask(ip)) \/ Tick

Spec == Init /\ [][Next]_vars
=============================================================================
