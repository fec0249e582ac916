---------------------------- MODULE ChatHubProofs ----------------------------
(***************************************************************************)
(* For any number of clients and rooms and any channel capacities: the      *)
(* type invariant of ChatHub, and that the chat process cannot panic by a   *)
(* send on a closed channel or a second close.                              *)
(*                                                                          *)
(* NoPanic is not inductive.  It follows from three facts that are: a loop  *)
(* that holds the read lock has only members left to visit (LoopsInside), a *)
(* member's Send is open (Placement), and a client is in at most one of     *)
(* RegisterCh, the Hub's hands and its room, and only once (Placement and   *)
(* RegisteredOnce), so that nobody joins again after its Send was closed.   *)
(*                                                                          *)
(* Two more theorems delimit what goes wrong.  The goroutines block each    *)
(* other in one way only: the Hub waits for itself (DeadlockOnlyByHub).     *)
(* And a dead member whose removal is not under way was let in after its    *)
(* unregistration (LateGhosts).                                             *)
(***************************************************************************)
EXTENDS ChatHub, TLAPS, SequenceTheorems

\* The Hub handles a client, and broadcasts only a join or a leave.
HubControl ==
  /\ hubPc # "select" => hubClient \in Clients
  /\ phase[Hub] # "none" => hubPc \in {"join", "leave"}

\* A process that waits to evict has a victim; a ReadPump that broadcasts has
\* read a message and reads no other.
CastControl ==
  /\ \A p \in Proc : phase[p] = "evict" => victim[p] \in Clients
  /\ \A c \in Clients : phase[c] # "none" => sent[c] # 0 /\ read[c] = "casting"

\* c is on its way into its room.
Waiting(c) ==
  \/ \E i \in 1..Len(registerCh) : registerCh[i] = c
  \/ hubPc = "register" /\ hubClient = c

RegisteredOnce ==
  /\ \A i, j \in 1..Len(registerCh) : registerCh[i] = registerCh[j] => i = j
  /\ hubPc = "register" => \A i \in 1..Len(registerCh) : registerCh[i] # hubClient
  /\ \A c \in Clients : read[c] = "absent" => ~Waiting(c)

Placement ==
  /\ \A r \in Rooms : \A c \in rooms[r] : RoomOf[c] = r
  /\ \A c \in Clients : InRoom(c) => ~closed[c]
  /\ \A c \in Clients : Waiting(c) \/ read[c] = "absent" => ~InRoom(c) /\ ~closed[c]

\* A skipped client is on its way out and does not come back; nobody but a
\* process that waits to evict has a victim.
SkippedInv ==
  /\ SkippedAreDoomed
  /\ \A c \in missed : ~Waiting(c) /\ read[c] # "absent"
  /\ \A p \in Proc : phase[p] # "evict" => victim[p] = NoClient

LoopsInside ==
  \A p \in Proc : phase[p] = "iterate" => todo[p] \subseteq rooms[Room(p)]

IInv ==
  /\ TypeOK
  /\ HubControl
  /\ CastControl
  /\ RegisteredOnce
  /\ Placement
  /\ LoopsInside
  /\ SkippedInv

-----------------------------------------------------------------------------
\* A process broadcasts to a room of the map: its own client's, or the one of
\* the client the Hub handles.
LEMMA RoomIsRoom ==
  ASSUME TypeOK, HubControl, NEW p \in Proc, phase[p] # "none"
  PROVE  Room(p) \in Rooms
BY ChatHubAssumption DEF TypeOK, HubControl, Room, Author, Proc

\* What a process puts in a Send channel is a message.
LEMMA PayloadIsMsg ==
  ASSUME TypeOK, HubControl, CastControl, NEW p \in Proc, phase[p] # "none"
  PROVE  Payload(p) \in Msg
<1>1. CASE p = Hub
  BY <1>1 DEF TypeOK, HubControl, Payload, Msg, Event
<1>2. CASE p # Hub
  <2>1. p \in Clients /\ sent[p] \in Nat \ {0}
    BY <1>2 DEF TypeOK, CastControl, Proc
  <2>2. QED BY <1>2, <2>1 DEF Payload, Msg
<1>3. QED BY <1>1, <1>2

LEMMA TypeInit == Init => TypeOK
BY ChatHubAssumption DEF Init, TypeOK, Proc

\* Every action keeps the types.
LEMMA TypeStep == TypeOK /\ HubControl /\ CastControl /\ [Next]_vars => TypeOK'
<1> SUFFICES ASSUME TypeOK, HubControl, CastControl, [Next]_vars
             PROVE  TypeOK'
  OBVIOUS
<1> USE ChatHubAssumption
<1>1. CASE ReceiveRegister
  <2>1. Head(registerCh) \in Clients /\ Tail(registerCh) \in Seq(Clients)
    BY <1>1, HeadTailProperties DEF ReceiveRegister, TypeOK
  <2>2. QED BY <1>1, <2>1 DEF ReceiveRegister, TypeOK, castVars, pumpVars
<1>2. CASE AddClient
  BY <1>2 DEF AddClient, TypeOK, HubControl, pumpVars, Proc
<1>3. CASE ReceiveUnregister
  <2>1. Head(unregisterCh) \in Clients /\ Tail(unregisterCh) \in Seq(Clients)
    BY <1>3, HeadTailProperties DEF ReceiveUnregister, TypeOK
  <2>2. QED BY <1>3, <2>1 DEF ReceiveUnregister, TypeOK, castVars, pumpVars
<1>4. CASE RemoveClient
  <2>1. rooms' \in [Rooms -> SUBSET Clients]
    <3>1. CASE rooms' = rooms
      BY <3>1 DEF TypeOK
    <3>2. CASE rooms' = [rooms EXCEPT ![RoomOf[hubClient]] = @ \ {hubClient}]
      BY <3>2 DEF TypeOK
    <3>3. QED BY <1>4, <3>1, <3>2 DEF RemoveClient
  <2>2. closed' \in [Clients -> BOOLEAN]
    BY <1>4 DEF RemoveClient, TypeOK
  <2>3. QED BY <1>4, <2>1, <2>2 DEF RemoveClient, TypeOK, pumpVars, Proc
<1>5. ASSUME NEW p \in Proc, Cast(p) PROVE TypeOK'
  <2>1. CASE CastBegin(p)
    <3>1. Room(p) \in Rooms
      BY <2>1, RoomIsRoom DEF CastBegin
    <3>2. QED BY <2>1, <3>1 DEF CastBegin, TypeOK, hubVars, pumpVars
  <2>2. ASSUME NEW c \in Clients, CastSend(p, c) PROVE TypeOK'
    <3>1. Payload(p) \in Msg
      BY <2>2, PayloadIsMsg DEF CastSend
    <3>2. send' \in [Clients -> Seq(Msg)]
      BY <2>2, <3>1 DEF CastSend, TypeOK
    <3>3. last' \in [Clients -> [Clients -> Nat]]
      BY <2>2 DEF CastSend, TypeOK, Proc
    <3>4. QED BY <2>2, <3>2, <3>3 DEF CastSend, TypeOK, hubVars, pumpVars
  <2>3. ASSUME NEW c \in Clients, CastFull(p, c) PROVE TypeOK'
    BY <2>3 DEF CastFull, TypeOK, hubVars, pumpVars
  <2>4. CASE CastEvict(p)
    BY <2>4 DEF CastEvict, TypeOK, CastControl, pumpVars
  <2>5. CASE CastRelock(p)
    <3>1. Room(p) \in Rooms
      BY <2>5, RoomIsRoom DEF CastRelock
    <3>2. QED BY <2>5, <3>1 DEF CastRelock, StillListed, TypeOK, hubVars, pumpVars
  <2>6. CASE CastEnd(p)
    BY <2>6 DEF CastEnd, TypeOK
  <2>7. QED BY <1>5, <2>1, <2>2, <2>3, <2>4, <2>5, <2>6 DEF Cast
<1>6. ASSUME NEW c \in Clients, HandleWebSocket(c) PROVE TypeOK'
  <2>1. registerCh' \in Seq(Clients)
    BY <1>6 DEF HandleWebSocket, TypeOK
  <2>2. QED BY <1>6, <2>1 DEF HandleWebSocket, TypeOK, castVars
<1>7. ASSUME NEW c \in Clients, ReadMessage(c) PROVE TypeOK'
  BY <1>7 DEF ReadMessage, TypeOK, hubVars, Proc
<1>8. ASSUME NEW c \in Clients, ReadError(c) PROVE TypeOK'
  BY <1>8 DEF ReadError, TypeOK, hubVars, castVars
<1>9. ASSUME NEW c \in Clients, ReadExit(c) PROVE TypeOK'
  BY <1>9 DEF ReadExit, TypeOK, castVars
<1>10. ASSUME NEW c \in Clients, WriteMessage(c) PROVE TypeOK'
  <2>1. Tail(send[c]) \in Seq(Msg)
    BY <1>10, HeadTailProperties DEF WriteMessage, TypeOK
  <2>2. QED BY <1>10, <2>1 DEF WriteMessage, TypeOK, hubVars, castVars, pumpVars
<1>11. ASSUME NEW c \in Clients, WriteError(c) PROVE TypeOK'
  <2>1. send' \in [Clients -> Seq(Msg)]
    <3>1. CASE send[c] # <<>> /\ send' = [send EXCEPT ![c] = Tail(@)]
      <4>1. Tail(send[c]) \in Seq(Msg)
        BY <3>1, HeadTailProperties DEF TypeOK
      <4>2. QED BY <3>1, <4>1 DEF TypeOK
    <3>2. CASE send' = send
      BY <3>2 DEF TypeOK
    <3>3. QED BY <1>11, <3>1, <3>2 DEF WriteError
  <2>2. QED BY <1>11, <2>1 DEF WriteError, TypeOK, hubVars, castVars
<1>12. ASSUME NEW c \in Clients, WriteClosed(c) PROVE TypeOK'
  BY <1>12 DEF WriteClosed, TypeOK, hubVars, castVars
<1>13. CASE Quiescent \/ UNCHANGED vars
  BY <1>13 DEF Quiescent, vars, TypeOK
<1>14. QED
  BY <1>1, <1>2, <1>3, <1>4, <1>5, <1>6, <1>7, <1>8, <1>9, <1>10, <1>11,
     <1>12, <1>13 DEF Next

-----------------------------------------------------------------------------
LEMMA ControlInit == Init => HubControl /\ CastControl
BY DEF Init, HubControl, CastControl, Proc

\* Every action keeps the Hub and the loops under control.
LEMMA ControlStep ==
  TypeOK /\ HubControl /\ CastControl /\ [Next]_vars => HubControl' /\ CastControl'
<1> SUFFICES ASSUME TypeOK, HubControl, CastControl, [Next]_vars
             PROVE  HubControl' /\ CastControl'
  OBVIOUS
<1> USE ChatHubAssumption DEF HubControl, CastControl
<1>1. CASE ReceiveRegister
  <2>1. Head(registerCh) \in Clients
    BY <1>1, HeadTailProperties DEF ReceiveRegister, TypeOK
  <2>2. QED BY <1>1, <2>1 DEF ReceiveRegister, castVars, pumpVars
<1>2. CASE AddClient
  BY <1>2 DEF AddClient, TypeOK, pumpVars, Proc
<1>3. CASE ReceiveUnregister
  <2>1. Head(unregisterCh) \in Clients
    BY <1>3, HeadTailProperties DEF ReceiveUnregister, TypeOK
  <2>2. QED BY <1>3, <2>1 DEF ReceiveUnregister, castVars, pumpVars
<1>4. CASE RemoveClient
  BY <1>4 DEF RemoveClient, TypeOK, pumpVars, Proc
<1>5. ASSUME NEW p \in Proc, Cast(p) PROVE HubControl' /\ CastControl'
  <2>1. CASE CastBegin(p)
    BY <2>1 DEF CastBegin, TypeOK, hubVars, pumpVars, Proc
  <2>2. ASSUME NEW c \in Clients, CastSend(p, c) PROVE HubControl' /\ CastControl'
    BY <2>2 DEF CastSend, hubVars, pumpVars
  <2>3. ASSUME NEW c \in Clients, CastFull(p, c) PROVE HubControl' /\ CastControl'
    BY <2>3 DEF CastFull, TypeOK, hubVars, pumpVars, Proc
  <2>4. CASE CastEvict(p)
    BY <2>4 DEF CastEvict, TypeOK, pumpVars, Proc
  <2>5. CASE CastRelock(p)
    BY <2>5 DEF CastRelock, TypeOK, hubVars, pumpVars, Proc
  <2>6. CASE CastEnd(p)
    BY <2>6 DEF CastEnd, TypeOK, Proc
  <2>7. QED BY <1>5, <2>1, <2>2, <2>3, <2>4, <2>5, <2>6 DEF Cast
<1>6. ASSUME NEW c \in Clients, HandleWebSocket(c) PROVE HubControl' /\ CastControl'
  BY <1>6 DEF HandleWebSocket, TypeOK, castVars
<1>7. ASSUME NEW c \in Clients, ReadMessage(c) PROVE HubControl' /\ CastControl'
  <2>1. /\ read' = [read EXCEPT ![c] = "casting"] /\ sent' = [sent EXCEPT ![c] = @ + 1]
        /\ phase' = [phase EXCEPT ![c] = "start"] /\ UNCHANGED <<hubPc, hubClient, victim>>
    BY <1>7 DEF ReadMessage, hubVars
  <2>2. /\ read'[c] = "casting" /\ sent'[c] # 0 /\ phase'[c] = "start"
        /\ \A p \in Proc : p # c => phase'[p] = phase[p]
        /\ \A d \in Clients : d # c => read'[d] = read[d] /\ sent'[d] = sent[d]
    BY <2>1 DEF TypeOK, Proc
  <2>3. QED BY <2>1, <2>2 DEF Proc
<1>8. ASSUME NEW c \in Clients, ReadError(c) PROVE HubControl' /\ CastControl'
  BY <1>8 DEF ReadError, TypeOK, hubVars, castVars
<1>9. ASSUME NEW c \in Clients, ReadExit(c) PROVE HubControl' /\ CastControl'
  BY <1>9 DEF ReadExit, TypeOK, castVars
<1>10. ASSUME NEW c \in Clients, WriteMessage(c) PROVE HubControl' /\ CastControl'
  BY <1>10 DEF WriteMessage, hubVars, castVars, pumpVars
<1>11. ASSUME NEW c \in Clients, WriteError(c) PROVE HubControl' /\ CastControl'
  BY <1>11 DEF WriteError, hubVars, castVars
<1>12. ASSUME NEW c \in Clients, WriteClosed(c) PROVE HubControl' /\ CastControl'
  BY <1>12 DEF WriteClosed, hubVars, castVars
<1>13. CASE Quiescent \/ UNCHANGED vars
  BY <1>13 DEF Quiescent, vars
<1>14. QED
  BY <1>1, <1>2, <1>3, <1>4, <1>5, <1>6, <1>7, <1>8, <1>9, <1>10, <1>11,
     <1>12, <1>13 DEF Next

-----------------------------------------------------------------------------
LEMMA PlacementInit == Init => RegisteredOnce /\ Placement
BY ChatHubAssumption DEF Init, RegisteredOnce, Placement, Waiting, InRoom

\* A step that touches neither the rooms nor the way into them.
LEMMA PlacementKept ==
  ASSUME RegisteredOnce, Placement,
         UNCHANGED <<rooms, registerCh, closed>>,
         hubPc' = "register" => hubPc = "register" /\ hubClient' = hubClient,
         \A c \in Clients : read'[c] = "absent" => read[c] = "absent"
  PROVE  RegisteredOnce' /\ Placement'
<1>1. \A c : Waiting(c)' => Waiting(c)
  BY DEF Waiting
<1>2. RegisteredOnce'
  BY <1>1 DEF RegisteredOnce
<1>3. Placement'
  BY <1>1 DEF Placement, InRoom
<1>4. QED BY <1>2, <1>3

\* The Hub takes a client from RegisterCh: it waits in the Hub's hands instead.
LEMMA PlacementReceive ==
  ASSUME TypeOK, RegisteredOnce, Placement, ReceiveRegister
  PROVE  RegisteredOnce' /\ Placement'
<1>1. /\ Head(registerCh) = registerCh[1]
      /\ 1 \in 1..Len(registerCh)
      /\ Len(registerCh') = Len(registerCh) - 1
      /\ \A i \in 1..Len(registerCh') : registerCh'[i] = registerCh[i + 1]
      /\ Len(registerCh) \in Nat
  BY HeadTailProperties, EmptySeq, LenProperties DEF ReceiveRegister, TypeOK
<1>2. \A i \in 1..Len(registerCh') : i + 1 \in 1..Len(registerCh) /\ i + 1 # 1
  BY <1>1
<1>3. hubPc' = "register" /\ hubClient' = registerCh[1]
  BY <1>1 DEF ReceiveRegister
<1>4. \A c : Waiting(c)' => Waiting(c)
  BY <1>1, <1>2, <1>3 DEF Waiting
<1>5. UNCHANGED <<rooms, closed, read>>
  BY DEF ReceiveRegister, pumpVars
<1>6. RegisteredOnce'
  <2>1. \A i, j \in 1..Len(registerCh') : registerCh'[i] = registerCh'[j] => i = j
    <3>1. SUFFICES ASSUME NEW i \in 1..Len(registerCh'), NEW j \in 1..Len(registerCh'),
                          registerCh'[i] = registerCh'[j]
                   PROVE  i = j
      OBVIOUS
    <3>2. i + 1 = j + 1
      BY <1>1, <1>2, <3>1 DEF RegisteredOnce
    <3>3. QED BY <1>1, <3>2
  <2>2. \A i \in 1..Len(registerCh') : registerCh'[i] # hubClient'
    BY <1>1, <1>2, <1>3 DEF RegisteredOnce
  <2>3. QED BY <1>4, <1>5, <2>1, <2>2 DEF RegisteredOnce
<1>7. Placement'
  BY <1>4, <1>5 DEF Placement, InRoom
<1>8. QED BY <1>6, <1>7

\* The client in the Hub's hands enters its room and no longer waits.
LEMMA PlacementAdd ==
  ASSUME TypeOK, HubControl, RegisteredOnce, Placement, AddClient
  PROVE  RegisteredOnce' /\ Placement'
<1>1. /\ hubClient \in Clients /\ RoomOf[hubClient] \in Rooms
      /\ hubPc = "register" /\ hubPc' = "join"
      /\ UNCHANGED <<registerCh, hubClient, closed, read>>
  BY ChatHubAssumption DEF AddClient, HubControl, pumpVars
<1>2. Waiting(hubClient) /\ ~Waiting(hubClient)'
  BY <1>1 DEF Waiting, RegisteredOnce
<1>3. \A c : Waiting(c)' => Waiting(c) /\ c # hubClient
  BY <1>1, <1>2 DEF Waiting
<1>4. \A r \in Rooms : rooms'[r] = IF r = RoomOf[hubClient]
                                   THEN rooms[r] \cup {hubClient} ELSE rooms[r]
  BY <1>1 DEF AddClient, TypeOK
<1>5. \A c \in Clients : InRoom(c)' => InRoom(c) \/ c = hubClient
  BY <1>4, ChatHubAssumption DEF InRoom
<1>6. RegisteredOnce'
  BY <1>1, <1>3 DEF RegisteredOnce
<1>7. Placement'
  <2>1. \A r \in Rooms : \A c \in rooms'[r] : RoomOf[c] = r
    BY <1>4 DEF Placement
  <2>2. ~closed[hubClient] /\ read[hubClient] # "absent"
    BY <1>1, <1>2 DEF Placement, RegisteredOnce
  <2>3. QED BY <1>1, <1>3, <1>5, <2>1, <2>2 DEF Placement
<1>8. QED BY <1>6, <1>7

\* The client that leaves was a member, so it does not wait, and the other
\* members keep their channels open.
LEMMA PlacementRemove ==
  ASSUME TypeOK, HubControl, RegisteredOnce, Placement, RemoveClient
  PROVE  RegisteredOnce' /\ Placement'
<1>1. /\ hubClient \in Clients /\ RoomOf[hubClient] \in Rooms
      /\ hubPc = "unregister" /\ hubPc' = "leave"
      /\ UNCHANGED <<registerCh, hubClient, read>>
  BY ChatHubAssumption DEF RemoveClient, HubControl, pumpVars
<1>2. CASE UNCHANGED <<rooms, closed>>
  BY <1>1, <1>2, PlacementKept
<1>3. CASE /\ hubClient \in rooms[RoomOf[hubClient]]
           /\ rooms' = [rooms EXCEPT ![RoomOf[hubClient]] = @ \ {hubClient}]
           /\ closed' = [closed EXCEPT ![hubClient] = TRUE]
  <2>1. \A c : Waiting(c)' => Waiting(c)
    BY <1>1 DEF Waiting
  <2>2. RegisteredOnce'
    BY <1>1, <2>1 DEF RegisteredOnce
  <2>3. ~Waiting(hubClient) /\ read[hubClient] # "absent"
    BY <1>1, <1>3 DEF Placement, InRoom
  <2>4. \A r \in Rooms : rooms'[r] = IF r = RoomOf[hubClient]
                                     THEN rooms[r] \ {hubClient} ELSE rooms[r]
    BY <1>1, <1>3 DEF TypeOK
  <2>5. \A c \in Clients : InRoom(c)' => InRoom(c) /\ c # hubClient
    BY <1>1, <2>4, ChatHubAssumption DEF InRoom
  <2>6. \A c \in Clients : c # hubClient => closed'[c] = closed[c]
    BY <1>1, <1>3 DEF TypeOK
  <2>7. Placement'
    <3>1. \A r \in Rooms : \A c \in rooms'[r] : RoomOf[c] = r
      BY <2>4 DEF Placement
    <3>2. \A c \in Clients : InRoom(c)' => ~closed'[c]
      BY <2>5, <2>6 DEF Placement
    <3>3. \A c \in Clients : Waiting(c)' \/ read'[c] = "absent" => ~InRoom(c)' /\ ~closed'[c]
      BY <1>1, <2>1, <2>3, <2>5, <2>6 DEF Placement
    <3>4. QED BY <3>1, <3>2, <3>3 DEF Placement
  <2>8. QED BY <2>2, <2>7
<1>4. QED BY <1>2, <1>3 DEF RemoveClient

\* HandleWebSocket appends a client that was nowhere before.
LEMMA PlacementHandle ==
  ASSUME TypeOK, RegisteredOnce, Placement, NEW d \in Clients, HandleWebSocket(d)
  PROVE  RegisteredOnce' /\ Placement'
<1>1. /\ Len(registerCh) \in Nat
      /\ Len(registerCh') = Len(registerCh) + 1
      /\ \A i \in 1..Len(registerCh) : registerCh'[i] = registerCh[i]
      /\ registerCh'[Len(registerCh) + 1] = d
  BY AppendProperties, LenProperties DEF HandleWebSocket, TypeOK
<1>2. \A i \in 1..Len(registerCh') : i \in 1..Len(registerCh) \/ i = Len(registerCh) + 1
  BY <1>1
<1>3. read[d] = "absent" /\ UNCHANGED <<rooms, closed, hubPc, hubClient>>
  BY DEF HandleWebSocket
<1>4. \A c \in Clients : read'[c] = "absent" => read[c] = "absent" /\ c # d
  BY DEF HandleWebSocket, TypeOK
<1>5. \A c : Waiting(c)' => Waiting(c) \/ c = d
  BY <1>1, <1>2, <1>3 DEF Waiting
<1>6. ~Waiting(d) /\ ~InRoom(d) /\ ~closed[d]
  BY <1>3 DEF RegisteredOnce, Placement
<1>7. RegisteredOnce'
  <2>1. \A i, j \in 1..Len(registerCh') : registerCh'[i] = registerCh'[j] => i = j
    BY <1>1, <1>2, <1>6 DEF RegisteredOnce, Waiting
  <2>2. hubPc' = "register" => \A i \in 1..Len(registerCh') : registerCh'[i] # hubClient'
    BY <1>1, <1>2, <1>3, <1>6 DEF RegisteredOnce, Waiting
  <2>3. QED BY <1>4, <1>5, <2>1, <2>2 DEF RegisteredOnce
<1>8. Placement'
  BY <1>3, <1>4, <1>5, <1>6 DEF Placement, InRoom
<1>9. QED BY <1>7, <1>8

\* A step of a broadcast loop does not touch rooms, channels and closings.
LEMMA CastKeeps ==
  ASSUME TypeOK, HubControl, NEW p \in Proc, Cast(p)
  PROVE  /\ UNCHANGED <<rooms, registerCh, closed>>
         /\ hubPc' = "register" => hubPc = "register" /\ hubClient' = hubClient
         /\ \A c \in Clients : read'[c] = "absent" => read[c] = "absent"
<1>1. CASE CastBegin(p)
  BY <1>1 DEF CastBegin, hubVars, pumpVars
<1>2. ASSUME NEW c \in Clients, CastSend(p, c) \/ CastFull(p, c)
      PROVE  UNCHANGED <<rooms, registerCh, closed, hubPc, hubClient, read>>
  BY <1>2 DEF CastSend, CastFull, hubVars, pumpVars
<1>3. CASE CastEvict(p) \/ CastRelock(p)
  BY <1>3 DEF CastEvict, CastRelock, hubVars, pumpVars
<1>4. CASE CastEnd(p)
  BY <1>4 DEF CastEnd, TypeOK
<1>5. QED BY <1>1, <1>2, <1>3, <1>4 DEF Cast

LEMMA PlacementStep ==
  /\ TypeOK /\ HubControl /\ RegisteredOnce /\ Placement /\ [Next]_vars
  => RegisteredOnce' /\ Placement'
<1> SUFFICES ASSUME TypeOK, HubControl, RegisteredOnce, Placement, [Next]_vars
             PROVE  RegisteredOnce' /\ Placement'
  OBVIOUS
<1>1. CASE ReceiveRegister
  BY <1>1, PlacementReceive
<1>2. CASE AddClient
  BY <1>2, PlacementAdd
<1>3. CASE ReceiveUnregister
  BY <1>3, PlacementKept DEF ReceiveUnregister, pumpVars
<1>4. CASE RemoveClient
  BY <1>4, PlacementRemove
<1>5. ASSUME NEW p \in Proc, Cast(p) PROVE RegisteredOnce' /\ Placement'
  BY <1>5, CastKeeps, PlacementKept
<1>6. ASSUME NEW c \in Clients, HandleWebSocket(c) PROVE RegisteredOnce' /\ Placement'
  BY <1>6, PlacementHandle
<1>7. ASSUME NEW c \in Clients, ReadMessage(c) \/ ReadError(c) \/ ReadExit(c)
      PROVE  RegisteredOnce' /\ Placement'
  <2>1. \A d \in Clients : read'[d] = "absent" => read[d] = "absent"
    BY <1>7 DEF ReadMessage, ReadError, ReadExit, TypeOK
  <2>2. UNCHANGED <<rooms, registerCh, closed, hubPc, hubClient>>
    BY <1>7 DEF ReadMessage, ReadError, ReadExit, hubVars
  <2>3. QED BY <2>1, <2>2, PlacementKept
<1>8. ASSUME NEW c \in Clients, WriteMessage(c) \/ WriteError(c) \/ WriteClosed(c)
      PROVE  RegisteredOnce' /\ Placement'
  <2>1. UNCHANGED <<rooms, registerCh, closed, hubPc, hubClient, read>>
    BY <1>8 DEF WriteMessage, WriteError, WriteClosed, hubVars, pumpVars
  <2>2. QED BY <2>1, PlacementKept
<1>9. CASE Quiescent \/ UNCHANGED vars
  BY <1>9, PlacementKept DEF Quiescent, vars
<1>10. QED
  BY <1>1, <1>2, <1>3, <1>4, <1>5, <1>6, <1>7, <1>8, <1>9 DEF Next

-----------------------------------------------------------------------------
LEMMA LoopsInit == Init => LoopsInside
BY DEF Init, LoopsInside

\* A step that changes no room, and in which no loop takes up a lock, keeps the
\* loops inside their rooms.
LEMMA LoopsKept ==
  ASSUME LoopsInside, UNCHANGED rooms,
         \A p \in Proc : phase'[p] = "iterate" =>
           /\ phase[p] = "iterate"
           /\ todo'[p] \subseteq todo[p]
           /\ Room(p)' = Room(p)
  PROVE  LoopsInside'
BY DEF LoopsInside

LEMMA LoopsStep ==
  TypeOK /\ HubControl /\ LoopsInside /\ [Next]_vars => LoopsInside'
<1> SUFFICES ASSUME TypeOK, HubControl, LoopsInside, [Next]_vars
             PROVE  LoopsInside'
  OBVIOUS
<1>1. CASE ReceiveRegister \/ ReceiveUnregister
  <2>1. /\ phase[Hub] # "iterate" /\ UNCHANGED <<rooms, phase, todo>>
    BY <1>1 DEF ReceiveRegister, ReceiveUnregister, HubControl, castVars
  <2>2. QED BY <2>1, LoopsKept DEF Room, Author
<1>2. CASE AddClient \/ RemoveClient
  <2>1. \A p \in Proc : phase'[p] # "iterate"
    BY <1>2 DEF AddClient, RemoveClient, NoReader, TypeOK, Proc
  <2>2. QED BY <2>1 DEF LoopsInside
<1>3. ASSUME NEW p \in Proc, Cast(p) PROVE LoopsInside'
  <2>1. CASE CastBegin(p)
    <3>1. todo'[p] = rooms[Room(p)] \ Skipped(p)
      BY <2>1 DEF CastBegin, TypeOK
    <3>2. \A q \in Proc : q # p => phase'[q] = phase[q] /\ todo'[q] = todo[q]
      BY <2>1 DEF CastBegin, TypeOK
    <3>3. UNCHANGED <<rooms, hubClient>>
      BY <2>1 DEF CastBegin, hubVars
    <3>4. QED BY <3>1, <3>2, <3>3 DEF LoopsInside, Room, Author
  <2>2. ASSUME NEW c \in Clients, CastSend(p, c) \/ CastFull(p, c) PROVE LoopsInside'
    <3>1. UNCHANGED <<rooms, hubClient>>
      BY <2>2 DEF CastSend, CastFull, hubVars
    <3>2. \A q \in Proc : phase'[q] = "iterate" => phase[q] = "iterate"
      BY <2>2 DEF CastSend, CastFull, TypeOK
    <3>3. \A q \in Proc : todo'[q] \subseteq todo[q]
      <4>1. todo' = [todo EXCEPT ![p] = @ \ {c}]
        BY <2>2 DEF CastSend, CastFull
      <4>2. QED BY <4>1 DEF TypeOK
    <3>4. QED BY <3>1, <3>2, <3>3, LoopsKept DEF Room, Author
  <2>3. CASE CastEvict(p)
    BY <2>3, LoopsKept DEF CastEvict, TypeOK, Room, Author
  <2>4. CASE CastRelock(p)
    <3>1. todo'[p] \subseteq rooms[Room(p)]
      BY <2>4 DEF CastRelock, StillListed, TypeOK
    <3>2. \A q \in Proc : q # p => phase'[q] = phase[q] /\ todo'[q] = todo[q]
      BY <2>4 DEF CastRelock, TypeOK
    <3>3. UNCHANGED <<rooms, hubClient>>
      BY <2>4 DEF CastRelock, hubVars
    <3>4. QED BY <3>1, <3>2, <3>3 DEF LoopsInside, Room, Author
  <2>5. CASE CastEnd(p)
    <3>1. \A q \in Proc : phase'[q] = "iterate" => phase[q] = "iterate" /\ q # p
      BY <2>5 DEF CastEnd, TypeOK
    <3>2. UNCHANGED <<rooms, todo>> /\ (p # Hub => UNCHANGED hubClient)
      BY <2>5 DEF CastEnd
    <3>3. \A q \in Proc : q # p => Room(q)' = Room(q)
      BY <3>2 DEF Room, Author
    <3>4. QED BY <3>1, <3>2, <3>3, LoopsKept
  <2>6. QED BY <1>3, <2>1, <2>2, <2>3, <2>4, <2>5 DEF Cast
<1>4. ASSUME NEW c \in Clients, ReadMessage(c) PROVE LoopsInside'
  BY <1>4, LoopsKept DEF ReadMessage, hubVars, TypeOK, Room, Author
<1>5. ASSUME NEW c \in Clients,
             \/ HandleWebSocket(c) \/ ReadError(c) \/ ReadExit(c)
             \/ WriteMessage(c) \/ WriteError(c) \/ WriteClosed(c)
      PROVE  LoopsInside'
  <2>1. UNCHANGED <<rooms, hubClient, phase, todo>>
    BY <1>5 DEF HandleWebSocket, ReadError, ReadExit, WriteMessage, WriteError,
                WriteClosed, hubVars, castVars
  <2>2. QED BY <2>1, LoopsKept DEF Room, Author
<1>6. CASE Quiescent \/ UNCHANGED vars
  BY <1>6, LoopsKept DEF Quiescent, vars, Room, Author
<1>7. QED BY <1>1, <1>2, <1>3, <1>4, <1>5, <1>6 DEF Next

-----------------------------------------------------------------------------
LEMMA SkippedInit == Init => SkippedInv
BY DEF Init, SkippedInv, SkippedAreDoomed

\* A step that sends nobody in or out and keeps UnregisterCh and the victims.
LEMMA SkippedKept ==
  ASSUME SkippedInv,
         \A c \in Clients : InRoom(c)' => InRoom(c),
         \A c \in Clients : Doomed(c) => Doomed(c)' \/ ~InRoom(c)',
         \A c \in Clients : Waiting(c)' => Waiting(c),
         \A c \in Clients : read'[c] = "absent" => read[c] = "absent",
         \A p \in Proc : phase'[p] # "evict" => phase[p] # "evict" /\ victim'[p] = victim[p],
         missed \subseteq Clients, UNCHANGED missed
  PROVE  SkippedInv'
BY DEF SkippedInv, SkippedAreDoomed

\* A step that leaves the Hub's hands, the rooms, the channels, and the victims
\* alone.
LEMMA SkippedStill ==
  ASSUME TypeOK, SkippedInv,
         UNCHANGED <<rooms, registerCh, unregisterCh, hubPc, hubClient, victim, missed>>,
         \A p \in Proc : phase'[p] # "evict" => phase[p] # "evict",
         \A c \in Clients : read'[c] = "absent" => read[c] = "absent"
  PROVE  SkippedInv'
<1>1. \A c : (Doomed(c) => Doomed(c)') /\ (InRoom(c)' => InRoom(c))
  BY DEF Doomed, InRoom
<1>2. \A c : Waiting(c)' => Waiting(c)
  BY DEF Waiting
<1>3. missed \subseteq Clients
  BY DEF TypeOK
<1>4. QED BY <1>1, <1>2, <1>3, SkippedKept

\* A send on UnregisterCh keeps what was there and adds its client.
LEMMA UnregisterAppend ==
  ASSUME TypeOK, NEW d \in Clients, unregisterCh' = Append(unregisterCh, d)
  PROVE  \A c : (\E i \in 1..Len(unregisterCh) : unregisterCh[i] = c) \/ c = d
                => \E i \in 1..Len(unregisterCh') : unregisterCh'[i] = c
<1>1. /\ Len(unregisterCh) \in Nat
      /\ Len(unregisterCh') = Len(unregisterCh) + 1
      /\ \A i \in 1..Len(unregisterCh) : unregisterCh'[i] = unregisterCh[i]
      /\ unregisterCh'[Len(unregisterCh) + 1] = d
  BY AppendProperties, LenProperties DEF TypeOK
<1>2. /\ \A i \in 1..Len(unregisterCh) : i \in 1..Len(unregisterCh')
      /\ Len(unregisterCh) + 1 \in 1..Len(unregisterCh')
  BY <1>1
<1>3. QED BY <1>1, <1>2

LEMMA SkippedReceive ==
  ASSUME TypeOK, SkippedInv, ReceiveUnregister
  PROVE  SkippedInv'
<1>1. /\ Head(unregisterCh) = unregisterCh[1]
      /\ Len(unregisterCh) \in Nat
      /\ Len(unregisterCh') = Len(unregisterCh) - 1
      /\ \A i \in 1..Len(unregisterCh') : unregisterCh'[i] = unregisterCh[i + 1]
  BY HeadTailProperties, LenProperties DEF ReceiveUnregister, TypeOK
<1>2. ASSUME NEW c \in Clients, Doomed(c) PROVE Doomed(c)'
  <2>1. CASE \E p \in Proc : victim[p] = c
    BY <2>1 DEF Doomed, ReceiveUnregister, castVars
  <2>2. ASSUME NEW i \in 1..Len(unregisterCh), unregisterCh[i] = c PROVE Doomed(c)'
    <3>1. CASE i = 1
      BY <1>1, <2>2, <3>1 DEF Doomed, ReceiveUnregister
    <3>2. CASE i # 1
      <4>1. i - 1 \in 1..Len(unregisterCh') /\ (i - 1) + 1 = i
        BY <1>1, <3>2
      <4>2. unregisterCh'[i - 1] = c
        BY <1>1, <2>2, <4>1
      <4>3. QED BY <4>1, <4>2 DEF Doomed
    <3>3. QED BY <3>1, <3>2
  <2>3. QED BY <1>2, <2>1, <2>2 DEF Doomed, ReceiveUnregister
<1>3. \A c : Waiting(c)' => Waiting(c)
  BY DEF Waiting, ReceiveUnregister
<1>4. UNCHANGED <<rooms, phase, victim, read, missed>>
  BY DEF ReceiveUnregister, castVars, pumpVars
<1>5. missed \subseteq Clients
  BY DEF TypeOK
<1>6. \A c \in Clients : InRoom(c)' => InRoom(c)
  BY <1>4 DEF InRoom
<1>7. QED BY <1>2, <1>3, <1>4, <1>5, <1>6, SkippedKept

\* The client the Hub drops is out of its room.
LEMMA SkippedRemove ==
  ASSUME TypeOK, HubControl, SkippedInv, RemoveClient
  PROVE  SkippedInv'
<1>1. /\ hubClient \in Clients /\ RoomOf[hubClient] \in Rooms
      /\ hubPc = "unregister" /\ hubPc' = "leave"
      /\ UNCHANGED <<registerCh, unregisterCh, hubClient, victim, read, missed>>
  BY ChatHubAssumption DEF RemoveClient, HubControl, pumpVars
<1>2. \A r \in Rooms : rooms'[r] = IF r = RoomOf[hubClient]
                                   THEN rooms[r] \ {hubClient} ELSE rooms[r]
  <2>1. CASE hubClient \in rooms[RoomOf[hubClient]]
    BY <1>1, <2>1 DEF RemoveClient, TypeOK
  <2>2. CASE hubClient \notin rooms[RoomOf[hubClient]]
    BY <1>1, <2>2 DEF RemoveClient, TypeOK
  <2>3. QED BY <2>1, <2>2
<1>3. \A c \in Clients : InRoom(c)' => InRoom(c) /\ c # hubClient
  BY <1>1, <1>2, ChatHubAssumption DEF InRoom
<1>4. \A c \in Clients : Doomed(c) => Doomed(c)' \/ c = hubClient
  BY <1>1 DEF Doomed
<1>5. \A c : Waiting(c)' => Waiting(c)
  BY <1>1 DEF Waiting
<1>6. \A p \in Proc : phase'[p] # "evict" => phase[p] # "evict"
  BY <1>1 DEF RemoveClient, TypeOK, HubControl, Proc
<1>7. missed \subseteq Clients
  BY DEF TypeOK
<1>8. QED BY <1>1, <1>3, <1>4, <1>5, <1>6, <1>7, SkippedKept

\* The client the Hub lets in was waiting, so it had not been skipped.
LEMMA SkippedAdd ==
  ASSUME TypeOK, HubControl, SkippedInv, AddClient
  PROVE  SkippedInv'
<1>1. /\ hubClient \in Clients /\ RoomOf[hubClient] \in Rooms
      /\ hubPc = "register" /\ hubPc' = "join"
      /\ UNCHANGED <<registerCh, unregisterCh, hubClient, victim, read, missed>>
  BY ChatHubAssumption DEF AddClient, HubControl, pumpVars
<1>2. hubClient \notin missed
  BY <1>1 DEF SkippedInv, Waiting
<1>3. \A c \in Clients : c # hubClient => (InRoom(c)' => InRoom(c))
  BY <1>1, ChatHubAssumption DEF AddClient, InRoom, TypeOK
<1>4. \A c : (Doomed(c) => Doomed(c)') /\ (Waiting(c)' => Waiting(c))
  BY <1>1 DEF Doomed, Waiting
<1>5. \A p \in Proc : phase'[p] # "evict" => phase[p] # "evict"
  BY <1>1 DEF AddClient, TypeOK, HubControl, Proc
<1>6. missed \subseteq Clients
  BY DEF TypeOK
<1>7. QED BY <1>1, <1>2, <1>3, <1>4, <1>5, <1>6 DEF SkippedInv, SkippedAreDoomed

\* A broadcast that skips a client makes it its victim, then sends it away.
LEMMA SkippedCast ==
  ASSUME TypeOK, HubControl, CastControl, Placement, LoopsInside, SkippedInv,
         NEW p \in Proc, Cast(p)
  PROVE  SkippedInv'
<1>1. CASE CastBegin(p) \/ CastRelock(p)
  <2>1. UNCHANGED <<rooms, registerCh, unregisterCh, hubPc, hubClient, victim, missed, read>>
    BY <1>1 DEF CastBegin, CastRelock, hubVars, pumpVars
  <2>2. \A q \in Proc : phase'[q] # "evict" => phase[q] # "evict"
    BY <1>1 DEF CastBegin, CastRelock, TypeOK
  <2>3. QED BY <2>1, <2>2, SkippedStill
<1>2. ASSUME NEW c \in Clients, CastSend(p, c) PROVE SkippedInv'
  BY <1>2, SkippedStill DEF CastSend, hubVars, pumpVars
<1>3. ASSUME NEW c \in Clients, CastFull(p, c) PROVE SkippedInv'
  <2>1. c \in rooms[Room(p)] /\ Room(p) \in Rooms
    BY <1>3, RoomIsRoom DEF CastFull, LoopsInside, TypeOK
  <2>2. ~Waiting(c) /\ read[c] # "absent"
    BY <2>1 DEF Placement, InRoom
  <2>3. UNCHANGED <<rooms, registerCh, unregisterCh, hubPc, hubClient, read>>
    BY <1>3 DEF CastFull, hubVars, pumpVars
  <2>4. /\ victim'[p] = c /\ phase'[p] = "evict"
        /\ \A q \in Proc : q # p => victim'[q] = victim[q] /\ phase'[q] = phase[q]
        /\ missed' = missed \cup {c}
    BY <1>3 DEF CastFull, TypeOK
  <2>5. victim[p] = NoClient
    BY <1>3 DEF CastFull, SkippedInv
  <2>6. \A d \in Clients : Doomed(d) \/ d = c => Doomed(d)'
    BY <2>3, <2>4, <2>5, ChatHubAssumption DEF Doomed
  <2>7. \A d : (InRoom(d)' <=> InRoom(d)) /\ (Waiting(d)' <=> Waiting(d))
    BY <2>3 DEF InRoom, Waiting
  <2>8. missed \subseteq Clients
    BY DEF TypeOK
  <2>9. QED BY <2>2, <2>3, <2>4, <2>6, <2>7, <2>8 DEF SkippedInv, SkippedAreDoomed
<1>4. CASE CastEvict(p)
  <2>1. victim[p] \in Clients /\ unregisterCh' = Append(unregisterCh, victim[p])
    BY <1>4 DEF CastEvict, CastControl
  <2>2. /\ victim'[p] = NoClient
        /\ \A q \in Proc : q # p => victim'[q] = victim[q] /\ phase'[q] = phase[q]
        /\ UNCHANGED <<rooms, registerCh, hubPc, hubClient, read, missed>>
    BY <1>4 DEF CastEvict, TypeOK, pumpVars
  <2>3. \A d \in Clients : Doomed(d) => Doomed(d)'
    BY <2>1, <2>2, UnregisterAppend DEF Doomed
  <2>4. \A d : (InRoom(d)' <=> InRoom(d)) /\ (Waiting(d)' <=> Waiting(d))
    BY <2>2 DEF InRoom, Waiting
  <2>5. missed \subseteq Clients
    BY DEF TypeOK
  <2>6. QED BY <2>2, <2>3, <2>4, <2>5 DEF SkippedInv, SkippedAreDoomed
<1>5. CASE CastEnd(p)
  <2>1. UNCHANGED <<rooms, registerCh, unregisterCh, victim, missed>>
    BY <1>5 DEF CastEnd
  <2>2. \A q \in Proc : phase'[q] # "evict" => phase[q] # "evict"
    BY <1>5 DEF CastEnd, TypeOK
  <2>3. /\ hubPc' = "register" => hubPc = "register" /\ hubClient' = hubClient
        /\ hubPc = "unregister" => hubPc' = "unregister" /\ hubClient' = hubClient
        /\ \A c \in Clients : read'[c] = "absent" => read[c] = "absent"
    BY <1>5 DEF CastEnd, TypeOK, HubControl
  <2>4. \A c : (Doomed(c) => Doomed(c)') /\ (Waiting(c)' => Waiting(c))
    BY <2>1, <2>3 DEF Doomed, Waiting
  <2>5. \A c \in Clients : InRoom(c)' => InRoom(c)
    BY <2>1 DEF InRoom
  <2>6. missed \subseteq Clients
    BY DEF TypeOK
  <2>7. QED BY <2>1, <2>2, <2>3, <2>4, <2>5, <2>6, SkippedKept
<1>6. QED BY <1>1, <1>2, <1>3, <1>4, <1>5 DEF Cast

LEMMA SkippedStep ==
  IInv /\ [Next]_vars => SkippedInv'
<1> SUFFICES ASSUME IInv, [Next]_vars PROVE SkippedInv'
  OBVIOUS
<1> USE DEF IInv
<1>1. CASE ReceiveRegister
  <2>1. \A c \in Clients : Waiting(c)' => Waiting(c)
    <3>1. /\ Head(registerCh) = registerCh[1]
          /\ 1 \in 1..Len(registerCh)
          /\ Len(registerCh') = Len(registerCh) - 1
          /\ \A i \in 1..Len(registerCh') : registerCh'[i] = registerCh[i + 1]
          /\ Len(registerCh) \in Nat
      BY <1>1, HeadTailProperties, EmptySeq, LenProperties DEF ReceiveRegister, TypeOK
    <3>2. \A i \in 1..Len(registerCh') : i + 1 \in 1..Len(registerCh)
      BY <3>1
    <3>3. QED BY <1>1, <3>1, <3>2 DEF Waiting, ReceiveRegister
  <2>2. UNCHANGED <<rooms, unregisterCh, phase, victim, read, missed>> /\ hubPc = "select"
    BY <1>1 DEF ReceiveRegister, castVars, pumpVars
  <2>3. \A c : (Doomed(c) => Doomed(c)') /\ (InRoom(c)' => InRoom(c))
    BY <2>2 DEF Doomed, InRoom
  <2>4. missed \subseteq Clients
    BY DEF TypeOK
  <2>5. QED BY <2>1, <2>2, <2>3, <2>4, SkippedKept
<1>2. CASE AddClient
  BY <1>2, SkippedAdd
<1>3. CASE ReceiveUnregister
  BY <1>3, SkippedReceive
<1>4. CASE RemoveClient
  BY <1>4, SkippedRemove
<1>5. ASSUME NEW p \in Proc, Cast(p) PROVE SkippedInv'
  BY <1>5, SkippedCast
<1>6. ASSUME NEW d \in Clients, HandleWebSocket(d) PROVE SkippedInv'
  <2>1. \A c : Waiting(c)' => Waiting(c) \/ c = d
    <3>1. /\ Len(registerCh) \in Nat
          /\ Len(registerCh') = Len(registerCh) + 1
          /\ \A i \in 1..Len(registerCh) : registerCh'[i] = registerCh[i]
          /\ registerCh'[Len(registerCh) + 1] = d
      BY <1>6, AppendProperties, LenProperties DEF HandleWebSocket, TypeOK
    <3>2. \A i \in 1..Len(registerCh') : i \in 1..Len(registerCh) \/ i = Len(registerCh) + 1
      BY <3>1
    <3>3. QED BY <1>6, <3>1, <3>2 DEF Waiting, HandleWebSocket
  <2>2. /\ read[d] = "absent"
        /\ \A c \in Clients : read'[c] = "absent" => read[c] = "absent"
        /\ UNCHANGED <<rooms, unregisterCh, hubPc, hubClient, phase, victim, missed>>
    BY <1>6 DEF HandleWebSocket, TypeOK, castVars
  <2>3. \A c : (Doomed(c) <=> Doomed(c)') /\ (InRoom(c)' <=> InRoom(c))
    BY <2>2 DEF Doomed, InRoom
  <2>4. d \notin missed /\ missed \subseteq Clients
    BY <2>2 DEF SkippedInv, TypeOK
  <2>5. QED BY <2>1, <2>2, <2>3, <2>4 DEF SkippedInv, SkippedAreDoomed
<1>7. ASSUME NEW c \in Clients, ReadMessage(c) PROVE SkippedInv'
  <2>1. /\ \A p \in Proc : phase'[p] # "evict" => phase[p] # "evict"
        /\ \A d \in Clients : read'[d] = "absent" => read[d] = "absent"
    BY <1>7 DEF ReadMessage, TypeOK, CastControl
  <2>2. UNCHANGED <<rooms, registerCh, unregisterCh, hubPc, hubClient, victim, missed>>
    BY <1>7 DEF ReadMessage, hubVars
  <2>3. QED BY <2>1, <2>2, SkippedStill
<1>8. ASSUME NEW c \in Clients, ReadError(c) PROVE SkippedInv'
  BY <1>8, SkippedStill DEF ReadError, hubVars, castVars, TypeOK
<1>9. ASSUME NEW d \in Clients, ReadExit(d) PROVE SkippedInv'
  <2>1. /\ unregisterCh' = Append(unregisterCh, d)
        /\ \A c \in Clients : read'[c] = "absent" => read[c] = "absent"
        /\ UNCHANGED <<rooms, registerCh, hubPc, hubClient, phase, victim, missed>>
    BY <1>9 DEF ReadExit, TypeOK, castVars
  <2>2. \A c : Doomed(c) => Doomed(c)'
    BY <2>1, UnregisterAppend DEF Doomed
  <2>3. \A c : (InRoom(c)' => InRoom(c)) /\ (Waiting(c)' => Waiting(c))
    BY <2>1 DEF InRoom, Waiting
  <2>4. missed \subseteq Clients
    BY DEF TypeOK
  <2>5. QED BY <2>1, <2>2, <2>3, <2>4, SkippedKept
<1>10. ASSUME NEW c \in Clients, WriteMessage(c) \/ WriteError(c) \/ WriteClosed(c)
       PROVE  SkippedInv'
  <2>1. UNCHANGED <<rooms, registerCh, unregisterCh, hubPc, hubClient, phase, victim,
                    read, missed>>
    BY <1>10 DEF WriteMessage, WriteError, WriteClosed, hubVars, castVars, pumpVars
  <2>2. QED BY <2>1, SkippedStill
<1>11. CASE Quiescent \/ UNCHANGED vars
  BY <1>11, SkippedStill DEF Quiescent, vars
<1>12. QED BY <1>1, <1>2, <1>3, <1>4, <1>5, <1>6, <1>7, <1>8, <1>9, <1>10, <1>11 DEF Next

-----------------------------------------------------------------------------
\* The chat as a whole: in every reachable state the invariant holds.
THEOREM Invariance == Spec => []IInv
<1>1. Init => IInv
  BY TypeInit, ControlInit, PlacementInit, LoopsInit, SkippedInit DEF IInv
<1>2. IInv /\ [Next]_vars => IInv'
  BY TypeStep, ControlStep, PlacementStep, LoopsStep, SkippedStep DEF IInv
<1>3. QED BY <1>1, <1>2, PTL DEF Spec

\* The variables of the chat keep their types.
THEOREM TypeCorrect == Spec => []TypeOK
<1>1. IInv => TypeOK
  BY DEF IInv
<1>2. QED BY <1>1, Invariance, PTL

\* However many clients and rooms there are, and whatever the capacities: no
\* broadcast sends on a Send channel the Hub has closed, although it gives up
\* and retakes its lock inside the loop, and no Send channel is closed twice.
THEOREM PanicFree == Spec => []NoPanic
<1>1. IInv => NoPanic
  <2>1. SUFFICES ASSUME IInv PROVE NoPanic
    OBVIOUS
  <2>2. ASSUME NEW p \in Proc, phase[p] = "iterate", NEW c \in todo[p]
        PROVE  ~closed[c]
    <3>1. Room(p) \in Rooms
      BY <2>1, <2>2, RoomIsRoom DEF IInv
    <3>2. c \in Clients /\ c \in rooms[Room(p)]
      BY <2>1, <2>2 DEF IInv, TypeOK, LoopsInside
    <3>3. InRoom(c)
      BY <2>1, <3>1, <3>2 DEF IInv, Placement, InRoom
    <3>4. QED BY <2>1, <3>2, <3>3 DEF IInv, Placement
  <2>3. hubPc = "unregister" /\ InRoom(hubClient) => ~closed[hubClient]
    BY <2>1 DEF IInv, HubControl, Placement
  <2>4. QED BY <2>2, <2>3 DEF NoPanic
<1>2. QED BY <1>1, Invariance, PTL

\* A client that a broadcast skipped is, as long as it is in its room, named in
\* UnregisterCh, about to be named there, or in the Hub's hands.
THEOREM SkippedDoomed == Spec => []SkippedAreDoomed
<1>1. IInv => SkippedAreDoomed
  BY DEF IInv, SkippedInv
<1>2. QED BY <1>1, Invariance, PTL

-----------------------------------------------------------------------------
(***************************************************************************)
(* Who waits for whom                                                       *)
(***************************************************************************)

\* A process that is said to broadcast is in broadcastToRoom, and no Send holds
\* more than its buffer.
Going ==
  /\ hubPc \in {"join", "leave"} => phase[Hub] # "none"
  /\ \A c \in Clients : read[c] = "casting" => phase[c] # "none"
  /\ \A c \in Clients : Len(send[c]) <= SendCap

LEMMA GoingInit == Init => Going
BY ChatHubAssumption DEF Init, Going

\* A step that lets nobody's broadcast end and puts nothing in a Send.
LEMMA GoingKept ==
  ASSUME Going,
         hubPc' \in {"join", "leave"} => hubPc \in {"join", "leave"},
         \A c \in Clients : read'[c] = "casting" => read[c] = "casting",
         \A p \in Proc : phase[p] # "none" => phase'[p] # "none",
         UNCHANGED send
  PROVE  Going'
BY DEF Going, Proc

\* A broadcast step leaves its process inside broadcastToRoom, or ends it.
LEMMA GoingCast ==
  ASSUME IInv, Going, NEW p \in Proc, Cast(p)
  PROVE  Going'
<1> USE ChatHubAssumption DEF IInv
<1>1. CASE CastBegin(p) \/ CastEvict(p) \/ CastRelock(p)
  <2>1. UNCHANGED <<hubPc, read, send>>
    BY <1>1 DEF CastBegin, CastEvict, CastRelock, hubVars, pumpVars
  <2>2. \A q \in Proc : phase[q] # "none" => phase'[q] # "none"
    BY <1>1 DEF CastBegin, CastEvict, CastRelock, TypeOK
  <2>3. QED BY <2>1, <2>2, GoingKept
<1>2. ASSUME NEW c \in Clients, CastSend(p, c) PROVE Going'
  <2>1. UNCHANGED <<hubPc, read, phase>>
    BY <1>2 DEF CastSend, hubVars, pumpVars
  <2>2. send[c] \in Seq(Msg) /\ Len(send[c]) \in Nat /\ Payload(p) \in Msg
    BY <1>2, PayloadIsMsg, LenProperties DEF CastSend, TypeOK
  <2>3. Len(send'[c]) = Len(send[c]) + 1 /\ \A d \in Clients : d # c => send'[d] = send[d]
    BY <1>2, <2>2, AppendProperties DEF CastSend, TypeOK
  <2>4. Len(send'[c]) <= SendCap
    BY <1>2, <2>2, <2>3 DEF CastSend
  <2>5. QED BY <2>1, <2>3, <2>4 DEF Going
<1>3. ASSUME NEW c \in Clients, CastFull(p, c) PROVE Going'
  <2>1. UNCHANGED <<hubPc, read, send>>
    BY <1>3 DEF CastFull, hubVars, pumpVars
  <2>2. \A q \in Proc : phase[q] # "none" => phase'[q] # "none"
    BY <1>3 DEF CastFull, TypeOK
  <2>3. QED BY <2>1, <2>2, GoingKept
<1>4. CASE CastEnd(p)
  <2>1. UNCHANGED send /\ \A q \in Proc : q # p => phase'[q] = phase[q]
    BY <1>4 DEF CastEnd, TypeOK
  <2>2. CASE p = Hub
    <3>1. hubPc' = "select" /\ UNCHANGED read
      BY <1>4, <2>2 DEF CastEnd
    <3>2. \A c \in Clients : phase'[c] = phase[c]
      BY <2>1, <2>2 DEF Proc
    <3>3. QED BY <2>1, <3>1, <3>2 DEF Going
  <2>3. CASE p # Hub
    <3>1. p \in Clients /\ UNCHANGED hubPc /\ read' = [read EXCEPT ![p] = "reading"]
      BY <1>4, <2>3 DEF CastEnd, Proc
    <3>2. phase'[Hub] = phase[Hub] /\ \A c \in Clients : c # p => phase'[c] = phase[c]
      BY <2>1, <2>3 DEF Proc
    <3>3. \A c \in Clients : read'[c] = "casting" => c # p /\ read[c] = "casting"
      BY <3>1 DEF TypeOK
    <3>4. QED BY <2>1, <3>1, <3>2, <3>3 DEF Going
  <2>4. QED BY <2>2, <2>3
<1>5. QED BY <1>1, <1>2, <1>3, <1>4 DEF Cast

LEMMA GoingStep == IInv /\ Going /\ [Next]_vars => Going'
<1> SUFFICES ASSUME IInv, Going, [Next]_vars PROVE Going'
  OBVIOUS
<1> USE ChatHubAssumption DEF IInv
<1>1. CASE ReceiveRegister \/ ReceiveUnregister
  BY <1>1, GoingKept DEF ReceiveRegister, ReceiveUnregister, castVars, pumpVars
<1>2. CASE AddClient \/ RemoveClient
  <2>1. UNCHANGED <<read, send>> /\ phase' = [phase EXCEPT ![Hub] = "start"]
    BY <1>2 DEF AddClient, RemoveClient, pumpVars
  <2>2. phase'[Hub] = "start" /\ \A c \in Clients : phase'[c] = phase[c]
    BY <2>1 DEF TypeOK, Proc
  <2>3. QED BY <2>1, <2>2 DEF Going
<1>3. ASSUME NEW p \in Proc, Cast(p) PROVE Going'
  BY <1>3, GoingCast
<1>4. ASSUME NEW c \in Clients, HandleWebSocket(c) \/ ReadError(c) \/ ReadExit(c) PROVE Going'
  <2>1. UNCHANGED <<hubPc, phase, send>>
    BY <1>4 DEF HandleWebSocket, ReadError, ReadExit, hubVars, castVars
  <2>2. \A d \in Clients : read'[d] = "casting" => read[d] = "casting"
    BY <1>4 DEF HandleWebSocket, ReadError, ReadExit, TypeOK
  <2>3. QED BY <2>1, <2>2, GoingKept
<1>5. ASSUME NEW c \in Clients, ReadMessage(c) PROVE Going'
  <2>1. /\ UNCHANGED <<hubPc, send>> /\ phase' = [phase EXCEPT ![c] = "start"]
        /\ read' = [read EXCEPT ![c] = "casting"]
    BY <1>5 DEF ReadMessage, hubVars
  <2>2. /\ phase'[Hub] = phase[Hub] /\ phase'[c] = "start"
        /\ \A d \in Clients : d # c => phase'[d] = phase[d] /\ read'[d] = read[d]
    BY <2>1 DEF TypeOK, Proc
  <2>3. QED BY <2>1, <2>2 DEF Going
<1>6. ASSUME NEW c \in Clients, WriteMessage(c) \/ WriteError(c) \/ WriteClosed(c) PROVE Going'
  <2>1. UNCHANGED <<hubPc, phase, read>>
    BY <1>6 DEF WriteMessage, WriteError, WriteClosed, hubVars, castVars, pumpVars
  <2>2. \A d \in Clients : Len(send'[d]) <= SendCap
    <3>1. CASE send[c] # <<>> /\ send' = [send EXCEPT ![c] = Tail(@)]
      <4>1. send[c] \in Seq(Msg) /\ Len(send[c]) \in Nat /\ Len(send[c]) <= SendCap
        BY LenProperties DEF TypeOK, Going
      <4>2. Len(Tail(send[c])) = Len(send[c]) - 1
        BY <3>1, <4>1, HeadTailProperties
      <4>3. send'[c] = Tail(send[c]) /\ \A d \in Clients : d # c => send'[d] = send[d]
        BY <3>1 DEF TypeOK
      <4>4. Len(send'[c]) <= SendCap
        BY <4>1, <4>2, <4>3
      <4>5. QED BY <4>3, <4>4 DEF Going
    <3>2. CASE send' = send
      BY <3>2 DEF Going
    <3>3. QED BY <1>6, <3>1, <3>2 DEF WriteMessage, WriteError, WriteClosed
  <2>3. QED BY <2>1, <2>2 DEF Going
<1>7. CASE Quiescent \/ UNCHANGED vars
  BY <1>7 DEF Quiescent, vars, Going
<1>8. QED BY <1>1, <1>2, <1>3, <1>4, <1>5, <1>6, <1>7 DEF Next

\* A loop that holds the read lock goes on: no Send is more than full.
LEMMA LoopsGoOn ==
  ASSUME IInv, Going, NEW p \in Proc, phase[p] = "iterate"
  PROVE  CanGoOn(p)
<1>1. todo[p] \subseteq Clients
  BY DEF IInv, TypeOK
<1>2. CASE todo[p] = {}
  BY <1>2 DEF CanGoOn
<1>3. CASE todo[p] # {}
  <2>1. PICK c \in todo[p] : TRUE
    BY <1>3
  <2>2. Len(send[c]) <= SendCap
    BY <1>1, <2>1 DEF Going
  <2>3. QED BY <2>1, <2>2 DEF CanGoOn
<1>4. QED BY <1>2, <1>3

\* If somebody is busy and nobody can go on, then the Hub, the only reader of
\* UnregisterCh, waits for room in UnregisterCh: every other wait ends at the Hub.
THEOREM DeadlockOnlyByHub == Spec => []OnlyTheHubBlocks
<1>1. IInv /\ Going => OnlyTheHubBlocks
  <2> SUFFICES ASSUME IInv, Going, NEW p \in Proc, Busy(p), ~HubWaitsForItself,
                      \A q \in Proc : ~CanGoOn(q)
               PROVE  FALSE
    BY DEF OnlyTheHubBlocks
  <2> USE DEF IInv
  <2>1. Hub \in Proc /\ \A q \in Proc : phase[q] \in {"none", "evict"}
    BY LoopsGoOn DEF CanGoOn, TypeOK, Proc
  <2>2. hubPc \notin {"register", "unregister"}
    BY <2>1 DEF CanGoOn, NoReader
  <2>3. hubPc \notin {"join", "leave"}
    BY <2>1 DEF CanGoOn, HubWaitsForItself, Going
  <2>4. hubPc = "select" /\ registerCh = <<>> /\ unregisterCh = <<>>
    BY <2>1, <2>2, <2>3 DEF CanGoOn, TypeOK
  <2>5. ChannelHasRoom
    BY <2>4, ChatHubAssumption DEF ChannelHasRoom
  <2>6. p # Hub /\ p \in Clients /\ read[p] \in {"casting", "leaving"}
    BY <2>4 DEF Busy, Proc
  <2>7. CASE read[p] = "leaving"
    BY <2>5, <2>6, <2>7 DEF CanGoOn
  <2>8. CASE read[p] = "casting"
    <3>1. phase[p] = "evict"
      BY <2>1, <2>6, <2>8 DEF Going
    <3>2. QED BY <2>5, <3>1 DEF CanGoOn
  <2>9. QED BY <2>6, <2>7, <2>8
<1>2. Init => Going
  BY GoingInit
<1>3. IInv /\ Going /\ [Next]_vars => Going'
  BY GoingStep
<1>4. Spec => []Going
  BY <1>2, <1>3, Invariance, PTL DEF Spec
<1>5. QED BY <1>1, <1>4, Invariance, PTL

-----------------------------------------------------------------------------
(***************************************************************************)
(* Who is never removed                                                     *)
(***************************************************************************)

\* Whoever is on his way out stays so until he is out of his room.
LEMMA DoomedStays ==
  ASSUME IInv, [Next]_vars, NEW c \in Clients, Doomed(c)
  PROVE  Doomed(c)' \/ ~InRoom(c)'
<1> USE ChatHubAssumption DEF IInv
<1>1. CASE ReceiveRegister \/ AddClient
  BY <1>1 DEF ReceiveRegister, AddClient, Doomed, castVars
<1>2. CASE ReceiveUnregister
  <2>1. /\ Head(unregisterCh) = unregisterCh[1]
        /\ Len(unregisterCh) \in Nat
        /\ Len(unregisterCh') = Len(unregisterCh) - 1
        /\ \A i \in 1..Len(unregisterCh') : unregisterCh'[i] = unregisterCh[i + 1]
    BY <1>2, HeadTailProperties, LenProperties DEF ReceiveUnregister, TypeOK
  <2>2. hubPc = "select" /\ hubPc' = "unregister" /\ hubClient' = unregisterCh[1] /\ UNCHANGED victim
    BY <1>2, <2>1 DEF ReceiveUnregister, castVars
  <2>3. ASSUME NEW i \in 1..Len(unregisterCh), unregisterCh[i] = c, i # 1 PROVE Doomed(c)'
    <3>1. i - 1 \in 1..Len(unregisterCh') /\ (i - 1) + 1 = i
      BY <2>1, <2>3
    <3>2. unregisterCh'[i - 1] = c
      BY <2>1, <2>3, <3>1
    <3>3. QED BY <3>1, <3>2 DEF Doomed
  <2>4. QED BY <2>2, <2>3 DEF Doomed
<1>3. CASE RemoveClient
  <2>1. /\ hubClient \in Clients /\ RoomOf[hubClient] \in Rooms
        /\ UNCHANGED <<unregisterCh, victim>>
    BY <1>3 DEF RemoveClient, HubControl
  <2>2. hubClient \notin rooms'[RoomOf[hubClient]]
    BY <1>3, <2>1 DEF RemoveClient, TypeOK
  <2>3. QED BY <2>1, <2>2 DEF Doomed, InRoom
<1>4. ASSUME NEW p \in Proc, Cast(p) PROVE Doomed(c)'
  <2>1. CASE CastBegin(p) \/ CastRelock(p)
    BY <2>1 DEF CastBegin, CastRelock, hubVars, Doomed
  <2>2. ASSUME NEW d \in Clients, CastSend(p, d) PROVE Doomed(c)'
    BY <2>2 DEF CastSend, hubVars, Doomed
  <2>3. ASSUME NEW d \in Clients, CastFull(p, d) PROVE Doomed(c)'
    <3>1. victim[p] = NoClient
      BY <2>3 DEF CastFull, SkippedInv
    <3>2. \A q \in Proc : q # p => victim'[q] = victim[q]
      BY <2>3 DEF CastFull, TypeOK
    <3>3. QED BY <2>3, <3>1, <3>2 DEF CastFull, hubVars, Doomed
  <2>4. CASE CastEvict(p)
    <3>1. victim[p] \in Clients /\ unregisterCh' = Append(unregisterCh, victim[p])
      BY <2>4 DEF CastEvict, CastControl
    <3>2. (\A q \in Proc : q # p => victim'[q] = victim[q]) /\ UNCHANGED <<hubPc, hubClient>>
      BY <2>4 DEF CastEvict, TypeOK
    <3>3. QED BY <3>1, <3>2, UnregisterAppend DEF Doomed
  <2>5. CASE CastEnd(p)
    BY <2>5 DEF CastEnd, HubControl, Doomed
  <2>6. QED BY <1>4, <2>1, <2>2, <2>3, <2>4, <2>5 DEF Cast
<1>5. ASSUME NEW d \in Clients, ReadExit(d) PROVE Doomed(c)'
  BY <1>5, UnregisterAppend DEF ReadExit, castVars, Doomed
<1>6. ASSUME NEW d \in Clients, HandleWebSocket(d) \/ ReadMessage(d) \/ ReadError(d)
      PROVE  Doomed(c)'
  BY <1>6 DEF HandleWebSocket, ReadMessage, ReadError, hubVars, castVars, Doomed
<1>7. ASSUME NEW d \in Clients, WriteMessage(d) \/ WriteError(d) \/ WriteClosed(d)
      PROVE  Doomed(c)'
  BY <1>7 DEF WriteMessage, WriteError, WriteClosed, hubVars, castVars, Doomed
<1>8. CASE Quiescent \/ UNCHANGED vars
  BY <1>8 DEF Quiescent, vars, Doomed
<1>9. QED BY <1>1, <1>2, <1>3, <1>4, <1>5, <1>6, <1>7, <1>8 DEF Next

\* A ReadPump is over only by its deferred function, which sends its client on
\* UnregisterCh.
LEMMA DoneByExit ==
  ASSUME IInv, [Next]_vars, NEW c \in Clients, read'[c] = "done", read[c] # "done"
  PROVE  Doomed(c)'
<1> USE DEF IInv
<1>1. CASE ReceiveRegister \/ AddClient \/ ReceiveUnregister \/ RemoveClient
  BY <1>1 DEF ReceiveRegister, AddClient, ReceiveUnregister, RemoveClient, pumpVars
<1>2. ASSUME NEW p \in Proc, Cast(p) PROVE FALSE
  BY <1>2 DEF Cast, CastBegin, CastSend, CastFull, CastEvict, CastRelock, CastEnd, TypeOK, pumpVars
<1>3. ASSUME NEW d \in Clients, HandleWebSocket(d) \/ ReadMessage(d) \/ ReadError(d)
      PROVE  FALSE
  BY <1>3 DEF HandleWebSocket, ReadMessage, ReadError, TypeOK
<1>4. ASSUME NEW d \in Clients, ReadExit(d) PROVE Doomed(c)'
  <2>1. d = c /\ unregisterCh' = Append(unregisterCh, c)
    BY <1>4 DEF ReadExit, TypeOK
  <2>2. QED BY <2>1, UnregisterAppend DEF Doomed
<1>5. ASSUME NEW d \in Clients, WriteMessage(d) \/ WriteError(d) \/ WriteClosed(d)
      PROVE  FALSE
  BY <1>5 DEF WriteMessage, WriteError, WriteClosed, pumpVars
<1>6. CASE Quiescent \/ UNCHANGED vars
  BY <1>6 DEF Quiescent, vars
<1>7. QED BY <1>1, <1>2, <1>3, <1>4, <1>5, <1>6 DEF Next

\* A member whose connection ends is on his way out from then on and until he is
\* out: a client that stays until broadcasts have filled its buffer, with nobody to
\* empty it, was let in after its unregistration was handled.
THEOREM LateGhosts == Spec => GhostsComeLate
<1>1. IInv /\ [Next]_vars => \A c \in Clients : ~Ghost(c) /\ Ghost(c)' => ~InRoom(c)
  <2> SUFFICES ASSUME IInv, [Next]_vars, NEW c \in Clients, ~Ghost(c), Ghost(c)', InRoom(c)
               PROVE  FALSE
    OBVIOUS
  <2>1. InRoom(c)' /\ read'[c] = "done" /\ ~Doomed(c)'
    BY DEF Ghost
  <2>2. read[c] = "done" \/ Doomed(c)'
    BY <2>1, DoneByExit
  <2>3. Doomed(c)
    BY <2>1, <2>2 DEF Ghost
  <2>4. QED BY <2>1, <2>3, DoomedStays
<1>2. IInv /\ [Next]_vars => [\A c \in Clients : ~Ghost(c) /\ Ghost(c)' => ~InRoom(c)]_vars
  BY <1>1
<1>3. QED BY <1>2, Invariance, PTL DEF Spec, GhostsComeLate
=============================================================================
