--------------------------- MODULE ChatRoomProofs ---------------------------
(***************************************************************************)
(* For any number of clients and rooms and any channel capacities: ChatHub  *)
(* keeps what ChatRoom promises to a connection, and no loop of a broadcast *)
(* forgets a client.                                                        *)
(*                                                                          *)
(* Both rest on where each client stands with the messages of each sender   *)
(* (Hearing): before its loop starts, everybody is behind by one message;   *)
(* inside it, whoever is still to be visited is; and who was visited is up  *)
(* to date or was skipped.  Clients that come while the loop has given up   *)
(* its lock have heard nothing, since nobody comes a second time.           *)
(***************************************************************************)
EXTENDS ChatHubProofs

\* p is inside the range loop of broadcastToRoom, with the lock or without it.
Looping(p) == phase[p] \in {"iterate", "evict", "relock"}

\* c has not entered its room yet.
Newcomer(c) == Waiting(c) \/ read[c] = "absent"

\* A newcomer has heard nothing, and no loop knows it.
NewcomersHeardNothing ==
  \A p, c \in Clients : Newcomer(c) => c \notin base[p] /\ last[c][p] = 0

SentBounded == \A p \in Clients : sent[p] <= MaxSends

\* Nobody hears a message before it is sent to him.
Behind ==
  \A p, c \in Clients :
    /\ last[c][p] <= sent[p]
    /\ phase[p] = "start" => last[c][p] < sent[p]
    /\ Looping(p) /\ c \in todo[p] => c \in base[p]
    /\ Looping(p) /\ (c \in todo[p] \/ c \notin base[p]) => last[c][p] < sent[p]

\* A member that a loop has visited and not skipped has its message.
Visited ==
  \A p, c \in Clients :
    Looping(p) /\ c \in rooms[RoomOf[p]] /\ c \in base[p] \ todo[p] /\ c \notin missed
      => last[c][p] = sent[p]

\* A member that was not skipped and has heard from p lacks nothing but the message
\* that p is broadcasting.
Gapless ==
  \A p, c \in Clients :
    c \in rooms[RoomOf[p]] /\ c \notin missed /\ last[c][p] # 0 =>
      /\ phase[p] = "none" => last[c][p] = sent[p]
      /\ phase[p] = "start" => sent[p] = last[c][p] + 1
      /\ Looping(p) => c \in base[p]
      /\ Looping(p) /\ c \in todo[p] => sent[p] = last[c][p] + 1

Hearing == NewcomersHeardNothing /\ SentBounded /\ Behind /\ Visited /\ Gapless

-----------------------------------------------------------------------------
LEMMA HearingInit == Init => Hearing
BY BoundsAssumption DEF Init, Hearing, NewcomersHeardNothing, SentBounded, Behind, Visited,
   Gapless, Looping, Proc

\* Nobody becomes a newcomer again.
LEMMA NewcomerStep ==
  ASSUME IInv, [Next]_vars
  PROVE  \A c \in Clients : Newcomer(c)' => Newcomer(c)
<1> USE DEF IInv, Newcomer
<1>1. CASE ReceiveRegister
  <2>1. /\ Head(registerCh) = registerCh[1]
        /\ 1 \in 1..Len(registerCh)
        /\ Len(registerCh') = Len(registerCh) - 1
        /\ \A i \in 1..Len(registerCh') : registerCh'[i] = registerCh[i + 1]
        /\ Len(registerCh) \in Nat
    BY <1>1, HeadTailProperties, EmptySeq, LenProperties DEF ReceiveRegister, TypeOK
  <2>2. \A i \in 1..Len(registerCh') : i + 1 \in 1..Len(registerCh)
    BY <2>1
  <2>3. QED BY <1>1, <2>1, <2>2 DEF Waiting, ReceiveRegister, pumpVars
<1>2. CASE AddClient \/ ReceiveUnregister \/ RemoveClient
  BY <1>2 DEF AddClient, ReceiveUnregister, RemoveClient, Waiting, pumpVars
<1>3. ASSUME NEW p \in Proc, Cast(p) PROVE \A c \in Clients : Newcomer(c)' => Newcomer(c)
  BY <1>3, CastKeeps DEF Waiting
<1>4. ASSUME NEW d \in Clients, HandleWebSocket(d)
      PROVE  \A c \in Clients : Newcomer(c)' => Newcomer(c)
  <2>1. /\ Len(registerCh) \in Nat
        /\ Len(registerCh') = Len(registerCh) + 1
        /\ \A i \in 1..Len(registerCh) : registerCh'[i] = registerCh[i]
        /\ registerCh'[Len(registerCh) + 1] = d
    BY <1>4, AppendProperties, LenProperties DEF HandleWebSocket, TypeOK
  <2>2. \A i \in 1..Len(registerCh') : i \in 1..Len(registerCh) \/ i = Len(registerCh) + 1
    BY <2>1
  <2>3. QED BY <1>4, <2>1, <2>2 DEF Waiting, HandleWebSocket, TypeOK
<1>5. ASSUME NEW d \in Clients, ReadMessage(d) \/ ReadError(d) \/ ReadExit(d)
      PROVE  \A c \in Clients : Newcomer(c)' => Newcomer(c)
  <2>1. UNCHANGED <<registerCh, hubPc, hubClient>>
    BY <1>5 DEF ReadMessage, ReadError, ReadExit, hubVars
  <2>2. \A c \in Clients : read'[c] = "absent" => read[c] = "absent"
    BY <1>5 DEF ReadMessage, ReadError, ReadExit, TypeOK
  <2>3. QED BY <2>1, <2>2 DEF Waiting
<1>6. ASSUME NEW d \in Clients, WriteMessage(d) \/ WriteError(d) \/ WriteClosed(d)
      PROVE  \A c \in Clients : Newcomer(c)' => Newcomer(c)
  BY <1>6 DEF WriteMessage, WriteError, WriteClosed, Waiting, hubVars, pumpVars
<1>7. CASE Quiescent \/ UNCHANGED vars
  BY <1>7 DEF Quiescent, vars, Waiting
<1>8. QED BY <1>1, <1>2, <1>3, <1>4, <1>5, <1>6, <1>7 DEF Next

\* What a step leaves alone that is not of the loop of a ReadPump.
Aside ==
  /\ \A p \in Clients : /\ phase'[p] = phase[p] /\ todo'[p] = todo[p]
                        /\ base'[p] = base[p] /\ sent'[p] = sent[p]
                        /\ \A c \in Clients : last'[c][p] = last[c][p]
  /\ missed \subseteq missed'
  /\ \A p, c \in Clients : c \in rooms'[RoomOf[p]] => c \in rooms[RoomOf[p]] \/ Newcomer(c)

LEMMA HearingKept ==
  ASSUME IInv, Hearing, [Next]_vars, Aside
  PROVE  Hearing'
<1>1. \A c \in Clients : Newcomer(c)' => Newcomer(c)
  BY NewcomerStep
<1>2. \A p \in Clients : Looping(p)' <=> Looping(p)
  BY DEF Aside, Looping
<1>3. NewcomersHeardNothing'
  BY <1>1 DEF Hearing, NewcomersHeardNothing, Aside
<1>4. SentBounded' /\ Behind'
  BY <1>2 DEF Hearing, SentBounded, Behind, Aside
<1>5. Visited'
  BY <1>2 DEF Hearing, NewcomersHeardNothing, Visited, Aside
<1>6. Gapless'
  BY <1>2 DEF Hearing, NewcomersHeardNothing, Gapless, Aside
<1>7. QED BY <1>3, <1>4, <1>5, <1>6 DEF Hearing

\* The steps that are aside.
LEMMA StepsAside ==
  ASSUME IInv,
         \/ ReceiveRegister \/ AddClient \/ ReceiveUnregister \/ RemoveClient
         \/ Cast(Hub) \/ Quiescent \/ UNCHANGED vars
         \/ \E c \in Clients : \/ HandleWebSocket(c) \/ ReadError(c) \/ ReadExit(c)
                               \/ WriteMessage(c) \/ WriteError(c) \/ WriteClosed(c)
  PROVE  Aside
<1> USE ChatHubAssumption DEF IInv, Aside
<1>1. CASE ReceiveRegister \/ ReceiveUnregister
  BY <1>1 DEF ReceiveRegister, ReceiveUnregister, castVars, pumpVars
<1>2. CASE AddClient
  <2>1. Waiting(hubClient) /\ RoomOf[hubClient] \in Rooms
    BY <1>2 DEF AddClient, Waiting, HubControl
  <2>2. \A p, c \in Clients : c \in rooms'[RoomOf[p]] => c \in rooms[RoomOf[p]] \/ Newcomer(c)
    BY <1>2, <2>1 DEF AddClient, TypeOK, Newcomer
  <2>3. QED BY <1>2, <2>2 DEF AddClient, TypeOK, pumpVars, Proc
<1>3. CASE RemoveClient
  <2>1. RoomOf[hubClient] \in Rooms
    BY <1>3 DEF RemoveClient, HubControl
  <2>2. \A r \in Rooms : rooms'[r] \subseteq rooms[r]
    <3>1. CASE rooms' = rooms
      BY <3>1
    <3>2. CASE rooms' = [rooms EXCEPT ![RoomOf[hubClient]] = @ \ {hubClient}]
      BY <2>1, <3>2 DEF TypeOK
    <3>3. QED BY <1>3, <3>1, <3>2 DEF RemoveClient
  <2>3. QED BY <1>3, <2>2 DEF RemoveClient, TypeOK, pumpVars, Proc
<1>4. CASE Cast(Hub)
  <2>1. UNCHANGED <<rooms, sent>>
    BY <1>4 DEF Cast, CastBegin, CastSend, CastFull, CastEvict, CastRelock, CastEnd,
                hubVars, pumpVars
  <2>2. last' = last /\ missed \subseteq missed'
    BY <1>4 DEF Cast, CastBegin, CastSend, CastFull, CastEvict, CastRelock, CastEnd
  <2>3. \A p \in Clients : phase'[p] = phase[p]
    BY <1>4 DEF Cast, CastBegin, CastSend, CastFull, CastEvict, CastRelock, CastEnd,
                TypeOK, Proc
  <2>4. \A p \in Clients : todo'[p] = todo[p]
    BY <1>4 DEF Cast, CastBegin, CastSend, CastFull, CastEvict, CastRelock, CastEnd,
                TypeOK, Proc
  <2>5. \A p \in Clients : base'[p] = base[p]
    BY <1>4 DEF Cast, CastBegin, CastSend, CastFull, CastEvict, CastRelock, CastEnd,
                TypeOK, Proc
  <2>6. QED BY <2>1, <2>2, <2>3, <2>4, <2>5
<1>5. ASSUME NEW c \in Clients, HandleWebSocket(c) \/ ReadError(c) \/ ReadExit(c) PROVE Aside
  BY <1>5 DEF HandleWebSocket, ReadError, ReadExit, hubVars, castVars
<1>6. ASSUME NEW c \in Clients, WriteMessage(c) \/ WriteError(c) \/ WriteClosed(c) PROVE Aside
  BY <1>6 DEF WriteMessage, WriteError, WriteClosed, hubVars, castVars, pumpVars
<1>7. CASE Quiescent \/ UNCHANGED vars
  BY <1>7 DEF Quiescent, vars
<1>8. QED BY <1>1, <1>2, <1>3, <1>4, <1>5, <1>6, <1>7

-----------------------------------------------------------------------------
\* A message is read: everybody is behind by it.
LEMMA HearingRead ==
  ASSUME IInv, Hearing, NEW d \in Clients, ReadMessage(d)
  PROVE  Hearing'
<1>1. \A c \in Clients : Newcomer(c)' => Newcomer(c)
  BY NewcomerStep DEF Next
<1>2. /\ phase[d] = "none" /\ phase'[d] = "start" /\ sent'[d] = sent[d] + 1
      /\ \A p \in Clients : p # d => phase'[p] = phase[p] /\ sent'[p] = sent[p]
      /\ UNCHANGED <<rooms, todo, base, last, missed>>
  BY DEF ReadMessage, IInv, TypeOK, CastControl, hubVars, Proc
<1>3. \A p, c \in Clients : sent[p] \in Nat /\ last[c][p] \in Nat
  BY DEF IInv, TypeOK
<1>4. \A p \in Clients : (Looping(p)' <=> Looping(p)) /\ ~Looping(d)
  BY <1>2 DEF Looping
<1>5. NewcomersHeardNothing'
  BY <1>1, <1>2 DEF Hearing, NewcomersHeardNothing
<1>6. SentBounded'
  <2>1. sent' \in [Clients -> 0..MaxSends]
    BY BoundsAssumption DEF ReadMessage
  <2>2. \A p \in Clients : sent'[p] \in 0..MaxSends
    BY <2>1
  <2>3. QED BY <2>2, BoundsAssumption DEF SentBounded
<1>7. Behind'
  BY <1>2, <1>3, <1>4 DEF Hearing, Behind
<1>8. Visited'
  BY <1>2, <1>4 DEF Hearing, Visited
<1>9. Gapless'
  BY <1>2, <1>3, <1>4 DEF Hearing, Gapless
<1>10. QED BY <1>5, <1>6, <1>7, <1>8, <1>9 DEF Hearing

\* What the steps of the loop of p leave alone.
LoopOf(p) ==
  /\ \A q \in Clients \ {p} : phase'[q] = phase[q] /\ todo'[q] = todo[q] /\ base'[q] = base[q]
  /\ \A q \in Clients \ {p} : \A c \in Clients : last'[c][q] = last[c][q]
  /\ missed \subseteq missed'
  /\ UNCHANGED <<rooms, sent>>

LEMMA StepsOfLoop ==
  ASSUME IInv, NEW p \in Clients, Cast(p)
  PROVE  LoopOf(p)
<1> USE DEF IInv, LoopOf
<1>1. UNCHANGED <<rooms, sent>> /\ missed \subseteq missed'
  BY DEF Cast, CastBegin, CastSend, CastFull, CastEvict, CastRelock, CastEnd, hubVars, pumpVars
<1>2. \A q \in Clients \ {p} : phase'[q] = phase[q]
  BY DEF Cast, CastBegin, CastSend, CastFull, CastEvict, CastRelock, CastEnd, TypeOK, Proc
<1>3. \A q \in Clients \ {p} : todo'[q] = todo[q]
  BY DEF Cast, CastBegin, CastSend, CastFull, CastEvict, CastRelock, CastEnd, TypeOK, Proc
<1>4. \A q \in Clients \ {p} : base'[q] = base[q]
  BY DEF Cast, CastBegin, CastSend, CastFull, CastEvict, CastRelock, CastEnd, TypeOK, Proc
<1>5. \A q \in Clients \ {p} : \A c \in Clients : last'[c][q] = last[c][q]
  <2>1. CASE UNCHANGED last
    BY <2>1
  <2>2. ASSUME NEW d \in Clients, last' = [last EXCEPT ![d][p] = sent[p]]
        PROVE  \A q \in Clients \ {p} : \A c \in Clients : last'[c][q] = last[c][q]
    BY <2>2 DEF TypeOK
  <2>3. p # Hub
    BY ChatHubAssumption
  <2>4. QED
    BY <2>1, <2>2, <2>3 DEF Cast, CastBegin, CastSend, CastFull, CastEvict, CastRelock, CastEnd
<1>6. QED BY <1>1, <1>2, <1>3, <1>4, <1>5

\* It is enough to look at the loop that makes the step.
LEMMA HearingLoop ==
  ASSUME IInv, Hearing, NEW p \in Clients, Cast(p),
         \A c \in Clients :
           /\ Newcomer(c) => c \notin base'[p] /\ last'[c][p] = 0
           /\ last'[c][p] <= sent[p]
           /\ phase'[p] = "start" => last'[c][p] < sent[p]
           /\ Looping(p)' /\ c \in todo'[p] => c \in base'[p]
           /\ Looping(p)' /\ (c \in todo'[p] \/ c \notin base'[p]) => last'[c][p] < sent[p]
           /\ c \in rooms[RoomOf[p]] /\ c \notin missed' =>
                /\ Looping(p)' /\ c \in base'[p] \ todo'[p] => last'[c][p] = sent[p]
                /\ last'[c][p] # 0 =>
                     /\ phase'[p] = "none" => last'[c][p] = sent[p]
                     /\ phase'[p] = "start" => sent[p] = last'[c][p] + 1
                     /\ Looping(p)' => c \in base'[p]
                     /\ Looping(p)' /\ c \in todo'[p] => sent[p] = last'[c][p] + 1
  PROVE  Hearing'
<1>1. \A c \in Clients : Newcomer(c)' => Newcomer(c)
  BY NewcomerStep DEF Next, Proc
<1>2. LoopOf(p)
  BY StepsOfLoop
<1>3. \A q \in Clients \ {p} : Looping(q)' <=> Looping(q)
  BY <1>2 DEF LoopOf, Looping
<1>4. NewcomersHeardNothing'
  BY <1>1, <1>2 DEF Hearing, NewcomersHeardNothing, LoopOf
<1>5. SentBounded'
  BY <1>2 DEF Hearing, SentBounded, LoopOf
<1>6. Behind'
  BY <1>2, <1>3 DEF Hearing, Behind, LoopOf
<1>7. Visited'
  BY <1>2, <1>3 DEF Hearing, Visited, LoopOf
<1>8. Gapless'
  BY <1>2, <1>3 DEF Hearing, Gapless, LoopOf
<1>9. QED BY <1>4, <1>5, <1>6, <1>7, <1>8 DEF Hearing

\* The loop of a ReadPump, step by step.
LEMMA HearingCast ==
  ASSUME IInv, Hearing, NEW p \in Clients, Cast(p)
  PROVE  Hearing'
<1> USE DEF Looping
<1>1. /\ p \in Proc /\ p # Hub /\ Room(p) = RoomOf[p] /\ RoomOf[p] \in Rooms /\ Skipped(p) = {}
      /\ \A c \in Clients : last[c][p] \in Nat /\ sent[p] \in Nat
      /\ \A c \in Clients : c \in rooms[RoomOf[p]] => ~Newcomer(c)
  BY ChatHubAssumption DEF Proc, Room, Author, Skipped, IInv, TypeOK, Placement, InRoom, Newcomer
<1>2. CASE CastBegin(p)
  <2>1. /\ phase[p] = "start" /\ phase'[p] = "iterate"
        /\ base'[p] = rooms[RoomOf[p]] /\ todo'[p] = rooms[RoomOf[p]]
        /\ UNCHANGED <<last, missed>>
    BY <1>1, <1>2 DEF CastBegin, IInv, TypeOK
  <2>2. QED
    BY <1>1, <2>1, HearingLoop DEF Hearing, NewcomersHeardNothing, Behind, Visited, Gapless
<1>3. ASSUME NEW d \in Clients, CastSend(p, d) PROVE Hearing'
  <2>1. /\ phase[p] = "iterate" /\ phase'[p] = "iterate" /\ d \in todo[p]
        /\ todo'[p] = todo[p] \ {d} /\ UNCHANGED <<base, missed>>
    BY <1>1, <1>3 DEF CastSend, IInv, TypeOK
  <2>2. \A c \in Clients : last'[c][p] = IF c = d THEN sent[p] ELSE last[c][p]
    BY <1>1, <1>3 DEF CastSend, IInv, TypeOK
  <2>3. d \in rooms[RoomOf[p]]
    BY <1>1, <2>1 DEF IInv, LoopsInside
  <2>4. QED
    BY <1>1, <2>1, <2>2, <2>3, HearingLoop
       DEF Hearing, NewcomersHeardNothing, Behind, Visited, Gapless
<1>4. ASSUME NEW d \in Clients, CastFull(p, d) PROVE Hearing'
  <2>1. /\ phase[p] = "iterate" /\ phase'[p] = "evict" /\ d \in todo[p]
        /\ todo'[p] = todo[p] \ {d} /\ missed' = missed \cup {d} /\ UNCHANGED <<base, last>>
    BY <1>1, <1>4 DEF CastFull, IInv, TypeOK
  <2>2. QED
    BY <1>1, <2>1, HearingLoop DEF Hearing, NewcomersHeardNothing, Behind, Visited, Gapless
<1>5. CASE CastEvict(p)
  <2>1. /\ phase[p] = "evict" /\ phase'[p] = "relock" /\ UNCHANGED <<todo, base, last, missed>>
    BY <1>1, <1>5 DEF CastEvict, IInv, TypeOK
  <2>2. QED
    BY <1>1, <2>1, HearingLoop DEF Hearing, NewcomersHeardNothing, Behind, Visited, Gapless
<1>6. CASE CastRelock(p)
  <2>1. PICK added \in SUBSET (rooms[Room(p)] \ (base[p] \cup Skipped(p))) :
          /\ base' = [base EXCEPT ![p] = @ \cup added]
          /\ todo' = [todo EXCEPT ![p] = StillListed(p) \cup added]
    BY <1>6 DEF CastRelock
  <2>2. added \subseteq rooms[RoomOf[p]] \ base[p]
    BY <1>1, <2>1
  <2>3. base'[p] = base[p] \cup added /\ todo'[p] = (todo[p] \cap rooms[RoomOf[p]]) \cup added
    BY <1>1, <2>1 DEF StillListed, IInv, TypeOK
  <2>4. phase[p] = "relock" /\ phase'[p] = "iterate" /\ UNCHANGED <<last, missed>>
    BY <1>1, <1>6 DEF CastRelock, IInv, TypeOK
  <2>5. QED
    BY <1>1, <2>2, <2>3, <2>4, HearingLoop
       DEF Hearing, NewcomersHeardNothing, Behind, Visited, Gapless
<1>7. CASE CastEnd(p)
  <2>1. /\ phase[p] = "iterate" /\ phase'[p] = "none" /\ todo[p] = {} /\ base'[p] = {}
        /\ UNCHANGED <<todo, last, missed>>
    BY <1>1, <1>7 DEF CastEnd, IInv, TypeOK
  <2>2. QED
    BY <1>1, <2>1, HearingLoop DEF Hearing, NewcomersHeardNothing, Behind, Visited, Gapless
<1>8. QED BY <1>2, <1>3, <1>4, <1>5, <1>6, <1>7 DEF Cast

LEMMA HearingStep == IInv /\ Hearing /\ [Next]_vars => Hearing'
<1> SUFFICES ASSUME IInv, Hearing, [Next]_vars PROVE Hearing'
  OBVIOUS
<1>1. ASSUME NEW c \in Clients, ReadMessage(c) PROVE Hearing'
  BY <1>1, HearingRead
<1>2. ASSUME NEW p \in Proc, Cast(p) PROVE Hearing'
  <2>1. CASE p = Hub
    BY <1>2, <2>1, StepsAside, HearingKept
  <2>2. CASE p # Hub
    BY <1>2, <2>2, HearingCast DEF Proc
  <2>3. QED BY <2>1, <2>2
<1>3. CASE \/ ReceiveRegister \/ AddClient \/ ReceiveUnregister \/ RemoveClient
           \/ Quiescent \/ UNCHANGED vars
           \/ \E c \in Clients : \/ HandleWebSocket(c) \/ ReadError(c) \/ ReadExit(c)
                                 \/ WriteMessage(c) \/ WriteError(c) \/ WriteClosed(c)
  BY <1>3, StepsAside, HearingKept
<1>4. QED BY <1>1, <1>2, <1>3 DEF Next

-----------------------------------------------------------------------------
\* In every reachable state, each client stands with each sender as he should.
THEOREM Heard == Spec => [](IInv /\ Hearing)
<1>1. Init => Hearing
  BY HearingInit
<1>2. IInv /\ Hearing /\ [Next]_vars => Hearing'
  BY HearingStep
<1>3. QED BY <1>1, <1>2, Invariance, PTL DEF Spec

\* A broadcast loop of a ReadPump forgets no client of the room, although rooms
\* change while it waits to evict a slow one.
THEOREM NobodyForgotten == Spec => []EverybodyServed
<1>1. IInv /\ Hearing => EverybodyServed
  <2>1. SUFFICES ASSUME IInv, Hearing, NEW p \in Clients, phase[p] = "iterate",
                        NEW c \in (base[p] \cap rooms[Room(p)]) \ todo[p]
                 PROVE  last[c][p] = sent[p] \/ c \in missed
    BY DEF EverybodyServed
  <2>2. c \in Clients /\ Room(p) = RoomOf[p]
    BY <2>1, ChatHubAssumption DEF IInv, TypeOK, Proc, Room, Author
  <2>3. QED BY <2>1, <2>2 DEF Hearing, Visited, Looping
<1>2. QED BY <1>1, Heard, PTL

-----------------------------------------------------------------------------
(***************************************************************************)
(* The implementation of ChatRoom                                           *)
(***************************************************************************)

\* A step in which nobody enters or leaves.
LEMMA StatusKept ==
  ASSUME UNCHANGED <<rooms, closed>>
  PROVE  [c \in Clients |-> Status(c)]' = [c \in Clients |-> Status(c)]
BY DEF Status, InRoom

\* The client in the Hub's hands joins.
LEMMA AddJoins ==
  ASSUME IInv, AddClient
  PROVE  Abstract!Join(hubClient) /\ hubClient \in Clients
<1>1. /\ hubClient \in Clients /\ RoomOf[hubClient] \in Rooms /\ Waiting(hubClient)
      /\ UNCHANGED <<send, last, missed, closed>>
  BY ChatHubAssumption DEF AddClient, IInv, HubControl, Waiting
<1>2. Status(hubClient) = "outside"
  BY <1>1 DEF IInv, Placement, Status
<1>3. \A c \in Clients : InRoom(c)' <=> InRoom(c) \/ c = hubClient
  BY <1>1, ChatHubAssumption DEF AddClient, IInv, TypeOK, InRoom
<1>4. \A c \in Clients : Status(c)' = IF c = hubClient THEN "member" ELSE Status(c)
  BY <1>1, <1>3 DEF Status
<1>5. [c \in Clients |-> Status(c)]'
        = [[c \in Clients |-> Status(c)] EXCEPT ![hubClient] = "member"]
  BY <1>1, <1>4
<1>6. QED BY <1>1, <1>2, <1>5 DEF Abstract!Join

\* A member leaves; for anybody else nothing happens.
LEMMA RemoveLeaves ==
  ASSUME IInv, RemoveClient
  PROVE  (Abstract!Leave(hubClient) /\ hubClient \in Clients) \/ UNCHANGED Abstract!vars
<1>1. /\ hubClient \in Clients /\ RoomOf[hubClient] \in Rooms
      /\ UNCHANGED <<send, last, missed>>
  BY ChatHubAssumption DEF RemoveClient, IInv, HubControl
<1>2. CASE UNCHANGED <<rooms, closed>>
  BY <1>1, <1>2, StatusKept DEF Abstract!vars
<1>3. CASE /\ hubClient \in rooms[RoomOf[hubClient]]
           /\ rooms' = [rooms EXCEPT ![RoomOf[hubClient]] = @ \ {hubClient}]
           /\ closed' = [closed EXCEPT ![hubClient] = TRUE]
  <2>1. Status(hubClient) = "member"
    BY <1>3 DEF Status, InRoom
  <2>2. \A c \in Clients : /\ InRoom(c)' <=> InRoom(c) /\ c # hubClient
                           /\ closed'[c] = (closed[c] \/ c = hubClient)
    BY <1>1, <1>3, ChatHubAssumption DEF IInv, TypeOK, InRoom
  <2>3. \A c \in Clients : Status(c)' = IF c = hubClient THEN "left" ELSE Status(c)
    BY <1>1, <2>2 DEF Status
  <2>4. [c \in Clients |-> Status(c)]'
          = [[c \in Clients |-> Status(c)] EXCEPT ![hubClient] = "left"]
    BY <1>1, <2>3
  <2>5. QED BY <1>1, <2>1, <2>4 DEF Abstract!Leave
<1>4. QED BY <1>2, <1>3 DEF RemoveClient

\* A broadcast hands an event to a member, or skips one.
LEMMA CastPromised ==
  ASSUME IInv, Hearing, NEW p \in Proc, Cast(p)
  PROVE  Abstract!Next \/ UNCHANGED Abstract!vars
<1>1. [c \in Clients |-> Status(c)]' = [c \in Clients |-> Status(c)]
  BY CastKeeps, StatusKept DEF IInv
<1>2. ASSUME phase[p] = "iterate", NEW c \in todo[p]
      PROVE  c \in Clients /\ Status(c) = "member" /\ c \in rooms[Room(p)]
  <2>1. Room(p) \in Rooms
    BY <1>2, RoomIsRoom DEF IInv
  <2>2. c \in Clients /\ c \in rooms[Room(p)]
    BY <1>2 DEF IInv, TypeOK, LoopsInside
  <2>3. QED BY <2>1, <2>2 DEF IInv, Placement, Status, InRoom
<1>3. ASSUME NEW c \in Clients, CastSend(p, c), p = Hub PROVE Abstract!Next
  <2>1. Payload(p) \in Event
    BY <1>3 DEF CastSend, IInv, HubControl, Payload, Event
  <2>2. Abstract!Announce(c, Payload(p))
    BY <1>1, <1>2, <1>3 DEF CastSend, Abstract!Announce
  <2>3. QED BY <2>1, <2>2 DEF Abstract!Next
<1>4. ASSUME NEW c \in Clients, CastSend(p, c), p # Hub PROVE Abstract!Next
  <2>1. /\ p \in Clients /\ Room(p) = RoomOf[p] /\ phase[p] = "iterate" /\ c \in todo[p]
        /\ Payload(p) = [type |-> "message", from |-> p, n |-> sent[p]]
        /\ last' = [last EXCEPT ![c][p] = sent[p]]
        /\ send' = [send EXCEPT ![c] = Append(@, Payload(p))] /\ UNCHANGED missed
    BY <1>4 DEF CastSend, Proc, Room, Author, Payload
  <2>2. Status(c) = "member" /\ c \in rooms[RoomOf[p]]
    BY <1>2, <2>1
  <2>3. /\ sent[p] > last[c][p]
        /\ last[c][p] # 0 /\ c \notin missed => sent[p] = last[c][p] + 1
        /\ sent[p] \in 1..MaxSends
    <3>1. sent[p] \in Nat /\ last[c][p] \in Nat /\ MaxSends \in Nat /\ Looping(p)
      BY <2>1, BoundsAssumption DEF Looping, IInv, TypeOK
    <3>2. sent[p] > last[c][p] /\ sent[p] <= MaxSends
      BY <2>1, <3>1 DEF Hearing, Behind, SentBounded
    <3>3. last[c][p] # 0 /\ c \notin missed => sent[p] = last[c][p] + 1
      BY <2>1, <2>2, <3>1 DEF Hearing, Gapless
    <3>4. QED BY <3>1, <3>2, <3>3
  <2>4. Abstract!Deliver(c, p, sent[p])
    BY <1>1, <2>1, <2>2, <2>3 DEF Abstract!Deliver
  <2>5. QED BY <2>1, <2>3, <2>4 DEF Abstract!Next
<1>5. ASSUME NEW c \in Clients, CastFull(p, c) PROVE Abstract!Next
  <2>1. Abstract!Skip(c)
    BY <1>1, <1>2, <1>5 DEF CastFull, Abstract!Skip
  <2>2. QED BY <2>1 DEF Abstract!Next
<1>6. CASE CastBegin(p) \/ CastEvict(p) \/ CastRelock(p) \/ CastEnd(p)
  BY <1>1, <1>6 DEF CastBegin, CastEvict, CastRelock, CastEnd, Abstract!vars
<1>7. QED BY <1>3, <1>4, <1>5, <1>6 DEF Cast

LEMMA StepPromised ==
  IInv /\ Hearing /\ [Next]_vars => [Abstract!Next]_(Abstract!vars)
<1> SUFFICES ASSUME IInv, Hearing, [Next]_vars
             PROVE  Abstract!Next \/ UNCHANGED Abstract!vars
  OBVIOUS
<1>1. CASE AddClient
  BY <1>1, AddJoins DEF Abstract!Next
<1>2. CASE RemoveClient
  BY <1>2, RemoveLeaves DEF Abstract!Next
<1>3. ASSUME NEW p \in Proc, Cast(p) PROVE Abstract!Next \/ UNCHANGED Abstract!vars
  BY <1>3, CastPromised
<1>4. ASSUME NEW c \in Clients, WriteMessage(c) \/ WriteError(c)
      PROVE  Abstract!Next \/ UNCHANGED Abstract!vars
  <2>1. [d \in Clients |-> Status(d)]' = [d \in Clients |-> Status(d)]
        /\ UNCHANGED <<last, missed>>
    BY <1>4, StatusKept DEF WriteMessage, WriteError, hubVars
  <2>2. \/ send[c] # <<>> /\ send' = [send EXCEPT ![c] = Tail(@)]
        \/ UNCHANGED send
    BY <1>4 DEF WriteMessage, WriteError
  <2>3. QED BY <2>1, <2>2 DEF Abstract!Next, Abstract!Take, Abstract!vars
<1>5. CASE \/ ReceiveRegister \/ ReceiveUnregister \/ Quiescent \/ UNCHANGED vars
           \/ \E c \in Clients : \/ HandleWebSocket(c) \/ ReadMessage(c) \/ ReadError(c)
                                 \/ ReadExit(c) \/ WriteClosed(c)
  <2>1. UNCHANGED <<rooms, closed, send, last, missed>>
    BY <1>5 DEF ReceiveRegister, ReceiveUnregister, Quiescent, HandleWebSocket, ReadMessage,
                ReadError, ReadExit, WriteClosed, hubVars, vars
  <2>2. QED BY <2>1, StatusKept DEF Abstract!vars
<1>6. QED BY <1>1, <1>2, <1>3, <1>4, <1>5 DEF Next

\* The Hub and the pumps, however many, with their locks and channels, keep what
\* ChatRoom promises to every connection.
THEOREM ImplementsChatRoom == Spec => RefinesChatRoom
<1>1. Init => Abstract!Init
  BY ChatHubAssumption DEF Init, Abstract!Init, Status, InRoom
<1>2. IInv /\ Hearing /\ [Next]_vars => [Abstract!Next]_(Abstract!vars)
  BY StepPromised
<1>3. QED BY <1>1, <1>2, Heard, PTL DEF Spec, RefinesChatRoom, Abstract!Spec
=============================================================================
