------------------------------- MODULE ChatRoom -------------------------------
(***************************************************************************)
(* What the chat promises to one connection, whatever goroutines, locks and *)
(* channels it is built from (README: "Join/leave events broadcast to       *)
(* room"; ChatHub refines this module):                                     *)
(*   - a connection enters its room once and leaves it once;                *)
(*   - it is handed events only while it is in the room, chat messages of   *)
(*     one sender in the order in which they were sent, none twice;         *)
(*   - it misses a message of a sender it has heard from only if it has     *)
(*     been marked as lagging, which happens to members only.               *)
(***************************************************************************)
EXTENDS Naturals, Sequences

CONSTANTS
  Clients,   \* the connections
  Events,    \* the join and leave events
  MaxSends   \* bound: chat messages of a connection

VARIABLES
  status,   \* "outside", "member" or "left"
  outbox,   \* events handed to the connection and not yet written to it
  heard,    \* heard[c][s]: number of the last message of s handed to c
  lagging   \* connections that were skipped by a broadcast

vars == <<status, outbox, heard, lagging>>

Init ==
  /\ status = [c \in Clients |-> "outside"]
  /\ outbox = [c \in Clients |-> <<>>]
  /\ heard = [c \in Clients |-> [s \in Clients |-> 0]]
  /\ lagging = {}

Join(c) ==
  /\ status[c] = "outside"
  /\ status' = [status EXCEPT ![c] = "member"]
  /\ UNCHANGED <<outbox, heard, lagging>>

Leave(c) ==
  /\ status[c] = "member"
  /\ status' = [status EXCEPT ![c] = "left"]
  /\ UNCHANGED <<outbox, heard, lagging>>

Announce(c, event) ==
  /\ status[c] = "member"
  /\ outbox' = [outbox EXCEPT ![c] = Append(@, event)]
  /\ UNCHANGED <<status, heard, lagging>>

Deliver(c, s, n) ==
  /\ status[c] = "member"
  /\ n > heard[c][s]
  /\ heard[c][s] # 0 /\ c \notin lagging => n = heard[c][s] + 1
  /\ heard' = [heard EXCEPT ![c][s] = n]
  /\ outbox' = [outbox EXCEPT ![c] =
                  Append(@, [type |-> "message", from |-> s, n |-> n])]
  /\ UNCHANGED <<status, lagging>>

Skip(c) ==
  /\ status[c] = "member"
  /\ lagging' = lagging \cup {c}
  /\ UNCHANGED <<status, outbox, heard>>

\* The connection takes an event, or loses it because it is broken.
Take(c) ==
  /\ outbox[c] # <<>>
  /\ outbox' = [outbox EXCEPT ![c] = Tail(@)]
  /\ UNCHANGED <<status, heard, lagging>>

Next ==
  \E c \in Clients :
    \/ Join(c)
    \/ Leave(c)
    \/ Skip(c)
    \/ Take(c)
    \/ \E s \in Clients : \E n \in 1..MaxSends : Deliver(c, s, n)
    \/ \E e \in Events : Announce(c, e)

Spec == Init /\ [][Next]_vars
=============================================================================
