------------------------------- MODULE ChatHub -------------------------------
(***************************************************************************)
(* The WebSocket chat of internal/services/chat_service.go: the Hub         *)
(* goroutine, and for every connection its ReadPump and WritePump           *)
(* goroutines.  They share the rooms map (guarded by Hub.mu), the channels  *)
(* RegisterCh and UnregisterCh, and one Send channel per client.            *)
(*                                                                          *)
(* broadcastToRoom is executed by the Hub (join and leave events) and by    *)
(* every ReadPump (chat messages), so a broadcast is a "cast" of a process  *)
(* in Proc, one step per client of the room: read locks are shared, so two  *)
(* casts interleave.  A critical section under the write lock is one step,  *)
(* enabled while nobody holds the read lock.                                *)
(*                                                                          *)
(* Left out: message bodies (a chat message is its sender and its number,   *)
(* an event its type), the frames ReadPump skips (`continue`, nothing       *)
(* changes), pings that succeed, and Hub.StopCh, on which only the tests    *)
(* send.                                                                    *)
(***************************************************************************)
EXTENDS Naturals, Sequences, FiniteSets

CONSTANTS
  Clients,    \* the *Client objects: one per accepted connection
  Rooms,      \* the ThreadID strings, the keys of Hub.rooms
  RoomOf,     \* Client.ThreadID
  Hub,        \* the goroutine running Hub.Run
  NoClient,   \* no client
  SendCap,    \* capacity of Client.Send     (256 in the code)
  RegCap,     \* capacity of Hub.RegisterCh   (256 in the code)
  UnregCap,   \* capacity of Hub.UnregisterCh (256 in the code)
  MaxSends,   \* bound: chat messages of one connection
  Talks       \* bound: how many messages the connections may have sent so far

ASSUME ChatHubAssumption ==
  /\ RoomOf \in [Clients -> Rooms]
  /\ Hub \notin Clients
  /\ NoClient \notin Clients
  /\ SendCap \in Nat \ {0}
  /\ RegCap \in Nat \ {0}
  /\ UnregCap \in Nat \ {0}

ASSUME BoundsAssumption ==
  /\ MaxSends \in Nat
  /\ Talks \subseteq [Clients -> 0..MaxSends]

VARIABLES
  rooms,        \* Hub.rooms; an empty set stands for an absent key
  registerCh,   \* contents of Hub.RegisterCh
  unregisterCh, \* contents of Hub.UnregisterCh
  hubPc,        \* where Hub.Run is: the select, a locked section, a broadcast
  hubClient,    \* the client Hub.Run received and is handling
  phase,        \* where each process is in broadcastToRoom
  todo,         \* clients the range loop of the process has still to visit
  base,         \* clients the range loop of the process must or did visit
  victim,       \* the client whose full buffer the process met
  send,         \* contents of Client.Send
  closed,       \* whether Client.Send is closed
  read,         \* where ReadPump is
  write,        \* where WritePump is
  sent,         \* number of chat messages read from the connection
  last,         \* history: last[c][s] is the last message of s put in c's Send
  missed        \* history: clients a broadcast skipped because Send was full

hubVars   == <<rooms, registerCh, unregisterCh, hubPc, hubClient>>
castVars  == <<phase, todo, base, victim>>
pumpVars  == <<read, write, sent>>
vars == <<rooms, registerCh, unregisterCh, hubPc, hubClient, phase, todo, base,
          victim, send, closed, read, write, sent, last, missed>>

Proc == Clients \cup {Hub}

Event == [type : {"join", "leave"}, from : {NoClient}, n : {0}]
Msg   == Event \cup [type : {"message"}, from : Clients, n : Nat \ {0}]

TypeOK ==
  /\ rooms \in [Rooms -> SUBSET Clients]
  /\ registerCh \in Seq(Clients)
  /\ unregisterCh \in Seq(Clients)
  /\ hubPc \in {"select", "register", "unregister", "join", "leave"}
  /\ hubClient \in Clients \cup {NoClient}
  /\ phase \in [Proc -> {"none", "start", "iterate", "evict", "relock"}]
  /\ todo \in [Proc -> SUBSET Clients]
  /\ base \in [Proc -> SUBSET Clients]
  /\ victim \in [Proc -> Clients \cup {NoClient}]
  /\ send \in [Clients -> Seq(Msg)]
  /\ closed \in [Clients -> BOOLEAN]
  /\ read \in [Clients -> {"absent", "reading", "casting", "leaving", "done"}]
  /\ write \in [Clients -> {"absent", "running", "done"}]
  /\ sent \in [Clients -> Nat]
  /\ last \in [Clients -> [Clients -> Nat]]
  /\ missed \in SUBSET Clients

Init ==
  /\ rooms = [r \in Rooms |-> {}]
  /\ registerCh = <<>>
  /\ unregisterCh = <<>>
  /\ hubPc = "select"
  /\ hubClient = NoClient
  /\ phase = [p \in Proc |-> "none"]
  /\ todo = [p \in Proc |-> {}]
  /\ base = [p \in Proc |-> {}]
  /\ victim = [p \in Proc |-> NoClient]
  /\ send = [c \in Clients |-> <<>>]
  /\ closed = [c \in Clients |-> FALSE]
  /\ read = [c \in Clients |-> "absent"]
  /\ write = [c \in Clients |-> "absent"]
  /\ sent = [c \in Clients |-> 0]
  /\ last = [c \in Clients |-> [s \in Clients |-> 0]]
  /\ missed = {}

-----------------------------------------------------------------------------
(***************************************************************************)
(* Plausible bugs: each is a wrong version of a definition below, and TLC   *)
(* finds that it breaks a property.  No action uses them.                   *)
(***************************************************************************)

\* The Hub changes a room without waiting for the loops over it to end.
NoReaderUnlocked == TRUE

\* broadcastToRoom keeps the read lock while it sends on UnregisterCh.
NoReaderEvicting == \A p \in Proc : phase[p] \notin {"iterate", "evict"}

\* The deferred function of ReadPump does not wait for room in UnregisterCh.
ReadExitDropping(c) ==
  /\ read[c] = "leaving"
  /\ unregisterCh' = IF Len(unregisterCh) < UnregCap THEN Append(unregisterCh, c) ELSE unregisterCh
  /\ read' = [read EXCEPT ![c] = "done"]
  /\ UNCHANGED <<rooms, registerCh, hubPc, hubClient, castVars, send, closed,
                 write, sent, last, missed>>

\* UnregisterCh is made with hardly any buffer.
UnregisterFitsTiny == unregisterCh = <<>>

\* A loop that waited to evict a client ends instead of going on.
StillListedNone(p) == {}

\* The message is built before the sender's counter is advanced.
PayloadStale(p) == [type |-> "message", from |-> hubClient, n |-> 0]

\* The default case drops the message and lets the slow client stay.
CastFullDrops(p, c) ==
  /\ phase[p] = "iterate" /\ c \in todo[p] /\ Len(send[c]) = SendCap
  /\ todo' = [todo EXCEPT ![p] = @ \ {c}]
  /\ missed' = missed \cup {c}
  /\ UNCHANGED <<hubVars, phase, base, victim, send, closed, pumpVars, last>>

\* WritePump goes round its loop again when it finds Send closed.
WriteClosedLoops(c) ==
  /\ write[c] = "running" /\ closed[c] /\ send[c] = <<>>
  /\ UNCHANGED vars

-----------------------------------------------------------------------------
(***************************************************************************)
(* The chat handler                                                         *)
(***************************************************************************)

\* HandleWebSocket: the upgraded connection is handed to the Hub (the handler
\* blocks while RegisterCh is full) and its two pumps are started.
HandleWebSocket(c) ==
  /\ read[c] = "absent"
  /\ Len(registerCh) < RegCap
  /\ registerCh' = Append(registerCh, c)
  /\ read' = [read EXCEPT ![c] = "reading"]
  /\ write' = [write EXCEPT ![c] = "running"]
  /\ UNCHANGED <<rooms, unregisterCh, hubPc, hubClient, castVars, send, closed,
                 sent, last, missed>>

-----------------------------------------------------------------------------
(***************************************************************************)
(* Hub.Run: the select, then the section under mu.Lock, then the broadcast  *)
(***************************************************************************)

\* A send on UnregisterCh does not block.
UnregisterFits == Len(unregisterCh) < UnregCap

\* Nobody is inside broadcastToRoom with the read lock, so mu.Lock succeeds.
NoReader == \A p \in Proc : phase[p] # "iterate"

ReceiveRegister ==
  /\ hubPc = "select"
  /\ registerCh # <<>>
  /\ hubPc' = "register"
  /\ hubClient' = Head(registerCh)
  /\ registerCh' = Tail(registerCh)
  /\ UNCHANGED <<rooms, unregisterCh, castVars, send, closed, pumpVars, last, missed>>

\* The client enters its room and the join event is broadcast to the others.
AddClient ==
  /\ hubPc = "register"
  /\ NoReader
  /\ rooms' = [rooms EXCEPT ![RoomOf[hubClient]] = @ \cup {hubClient}]
  /\ hubPc' = "join"
  /\ phase' = [phase EXCEPT ![Hub] = "start"]
  /\ UNCHANGED <<registerCh, unregisterCh, hubClient, todo, base, victim, send,
                 closed, pumpVars, last, missed>>

ReceiveUnregister ==
  /\ hubPc = "select"
  /\ unregisterCh # <<>>
  /\ hubPc' = "unregister"
  /\ hubClient' = Head(unregisterCh)
  /\ unregisterCh' = Tail(unregisterCh)
  /\ UNCHANGED <<rooms, registerCh, castVars, send, closed, pumpVars, last, missed>>

\* A member is deleted from its room and its Send is closed; for anybody else
\* nothing is done.  The leave event is broadcast in both cases.
RemoveClient ==
  /\ hubPc = "unregister"
  /\ NoReader
  /\ \/ /\ hubClient \in rooms[RoomOf[hubClient]]
        /\ rooms' = [rooms EXCEPT ![RoomOf[hubClient]] = @ \ {hubClient}]
        /\ closed' = [closed EXCEPT ![hubClient] = TRUE]
     \/ /\ hubClient \notin rooms[RoomOf[hubClient]]
        /\ UNCHANGED <<rooms, closed>>
  /\ hubPc' = "leave"
  /\ phase' = [phase EXCEPT ![Hub] = "start"]
  /\ UNCHANGED <<registerCh, unregisterCh, hubClient, todo, base, victim, send,
                 pumpVars, last, missed>>

-----------------------------------------------------------------------------
(***************************************************************************)
(* broadcastToRoom, by the Hub or by the ReadPump of a client               *)
(***************************************************************************)

\* The client on whose behalf p broadcasts, and the room it broadcasts to.
Author(p) == IF p = Hub THEN hubClient ELSE p
Room(p)   == RoomOf[Author(p)]

\* The client the loop skips: the one that joins.  Leave events and chat
\* messages are sent with a nil sender, to everybody.
Skipped(p) == IF p = Hub /\ hubPc = "join" THEN {hubClient} ELSE {}

Payload(p) == IF p = Hub
              THEN [type |-> hubPc, from |-> NoClient, n |-> 0]
              ELSE [type |-> "message", from |-> p, n |-> sent[p]]

\* The clients the loop has not visited and the room still has.
StillListed(p) == todo[p] \cap rooms[Room(p)]

\* mu.RLock, and the range loop over the room begins.
CastBegin(p) ==
  /\ phase[p] = "start"
  /\ phase' = [phase EXCEPT ![p] = "iterate"]
  /\ base' = [base EXCEPT ![p] = rooms[Room(p)] \ Skipped(p)]
  /\ todo' = [todo EXCEPT ![p] = rooms[Room(p)] \ Skipped(p)]
  /\ UNCHANGED <<hubVars, victim, send, closed, pumpVars, last, missed>>

\* The buffer of c has room: the message is put in it.
CastSend(p, c) ==
  /\ phase[p] = "iterate"
  /\ c \in todo[p]
  /\ Len(send[c]) < SendCap
  /\ send' = [send EXCEPT ![c] = Append(@, Payload(p))]
  /\ todo' = [todo EXCEPT ![p] = @ \ {c}]
  /\ last' = IF p = Hub THEN last ELSE [last EXCEPT ![c][p] = sent[p]]
  /\ UNCHANGED <<hubVars, phase, base, victim, closed, pumpVars, missed>>

\* The buffer of c is full: the default case gives up the read lock to send c
\* on UnregisterCh.
CastFull(p, c) ==
  /\ phase[p] = "iterate"
  /\ c \in todo[p]
  /\ Len(send[c]) = SendCap
  /\ phase' = [phase EXCEPT ![p] = "evict"]
  /\ victim' = [victim EXCEPT ![p] = c]
  /\ todo' = [todo EXCEPT ![p] = @ \ {c}]
  /\ missed' = missed \cup {c}
  /\ UNCHANGED <<hubVars, base, send, closed, pumpVars, last>>

\* UnregisterCh <- client: p blocks here while the channel is full.
CastEvict(p) ==
  /\ phase[p] = "evict"
  /\ UnregisterFits
  /\ unregisterCh' = Append(unregisterCh, victim[p])
  /\ victim' = [victim EXCEPT ![p] = NoClient]
  /\ phase' = [phase EXCEPT ![p] = "relock"]
  /\ UNCHANGED <<rooms, registerCh, hubPc, hubClient, todo, base, send, closed,
                 pumpVars, last, missed>>

\* mu.RLock again, and the loop goes on.  By Go's rules for a range over a map
\* that changed, clients deleted meanwhile are not visited, and clients added
\* meanwhile may be visited or not (never, if the room was empty in between and
\* has a new map: one of the choices below).
CastRelock(p) ==
  /\ phase[p] = "relock"
  /\ phase' = [phase EXCEPT ![p] = "iterate"]
  /\ \E added \in SUBSET (rooms[Room(p)] \ (base[p] \cup Skipped(p))) :
       /\ base' = [base EXCEPT ![p] = @ \cup added]
       /\ todo' = [todo EXCEPT ![p] = StillListed(p) \cup added]
  /\ UNCHANGED <<hubVars, victim, send, closed, pumpVars, last, missed>>

\* The loop is over: RUnlock, and p goes back to its select or to its reads.
CastEnd(p) ==
  /\ phase[p] = "iterate"
  /\ todo[p] = {}
  /\ phase' = [phase EXCEPT ![p] = "none"]
  /\ base' = [base EXCEPT ![p] = {}]
  /\ \/ /\ p = Hub
        /\ hubPc' = "select"
        /\ hubClient' = NoClient
        /\ UNCHANGED read
     \/ /\ p # Hub
        /\ read' = [read EXCEPT ![p] = "reading"]
        /\ UNCHANGED <<hubPc, hubClient>>
  /\ UNCHANGED <<rooms, registerCh, unregisterCh, todo, victim, send, closed,
                 write, sent, last, missed>>

-----------------------------------------------------------------------------
(***************************************************************************)
(* ReadPump and WritePump of one connection                                 *)
(***************************************************************************)

\* A well-formed chat message is read and saved; the broadcast comes next.  (A
\* frame that was received before the connection broke may be read after.)
ReadMessage(c) ==
  /\ read[c] = "reading"
  /\ sent' = [sent EXCEPT ![c] = @ + 1]
  /\ sent' \in Talks
  /\ read' = [read EXCEPT ![c] = "casting"]
  /\ phase' = [phase EXCEPT ![c] = "start"]
  /\ UNCHANGED <<hubVars, todo, base, victim, send, closed, write, last, missed>>

\* ReadMessage returns an error (the peer has gone, sent a frame over the read
\* limit or let the pong deadline pass, or WritePump has closed the connection):
\* the loop is left for the deferred function.
ReadError(c) ==
  /\ read[c] = "reading"
  /\ read' = [read EXCEPT ![c] = "leaving"]
  /\ UNCHANGED <<hubVars, castVars, send, closed, write, sent, last, missed>>

\* The deferred function: UnregisterCh <- c (blocks while the channel is full),
\* then Conn.Close (the connection is closed from here on, as it is once
\* WritePump is done).
ReadExit(c) ==
  /\ read[c] = "leaving"
  /\ UnregisterFits
  /\ unregisterCh' = Append(unregisterCh, c)
  /\ read' = [read EXCEPT ![c] = "done"]
  /\ UNCHANGED <<rooms, registerCh, hubPc, hubClient, castVars, send, closed,
                 write, sent, last, missed>>

\* A buffered message is written to the connection, which ReadPump has not
\* closed (a peer that is gone may still be written to for a while).
WriteMessage(c) ==
  /\ write[c] = "running"
  /\ send[c] # <<>>
  /\ read[c] # "done"
  /\ send' = [send EXCEPT ![c] = Tail(@)]
  /\ UNCHANGED <<hubVars, castVars, closed, pumpVars, last, missed>>

\* A write or a ping fails (on a closed connection, or because the write
\* deadline passes): the message is lost and WritePump closes the connection.
WriteError(c) ==
  /\ write[c] = "running"
  /\ \/ /\ send[c] # <<>>
        /\ send' = [send EXCEPT ![c] = Tail(@)]
     \/ send' = send
  /\ write' = [write EXCEPT ![c] = "done"]
  /\ UNCHANGED <<hubVars, castVars, closed, read, sent, last, missed>>

\* Send is closed and drained: a close frame, and WritePump is over.
WriteClosed(c) ==
  /\ write[c] = "running"
  /\ closed[c]
  /\ send[c] = <<>>
  /\ write' = [write EXCEPT ![c] = "done"]
  /\ UNCHANGED <<hubVars, castVars, send, closed, read, sent, last, missed>>

\* All connections are over and the Hub waits in its select: a server that is
\* idle for good, which is no deadlock.
Quiescent ==
  /\ hubPc = "select"
  /\ registerCh = <<>>
  /\ unregisterCh = <<>>
  /\ \A c \in Clients : read[c] = "done" /\ write[c] = "done"
  /\ UNCHANGED vars

-----------------------------------------------------------------------------
Cast(p) ==
  \/ CastBegin(p)
  \/ \E c \in Clients : CastSend(p, c)
  \/ \E c \in Clients : CastFull(p, c)
  \/ CastEvict(p)
  \/ CastRelock(p)
  \/ CastEnd(p)

Next ==
  \/ ReceiveRegister
  \/ AddClient
  \/ ReceiveUnregister
  \/ RemoveClient
  \/ \E p \in Proc : Cast(p)
  \/ \E c \in Clients :
       \/ HandleWebSocket(c)
       \/ ReadMessage(c)
       \/ ReadError(c)
       \/ ReadExit(c)
       \/ WriteMessage(c)
       \/ WriteError(c)
       \/ WriteClosed(c)
  \/ Quiescent

Spec == Init /\ [][Next]_vars

\* What the Go runtime grants, goroutine by goroutine: one that is able to go on,
\* or is so again and again, does.  SF because a select with several ready cases
\* picks one at random, a writer waiting for the RWMutex keeps new readers out,
\* and senders blocked on a channel are served in their order.  Of the errors
\* only those after Conn.Close are certain to come: ReadMessage meets it at once,
\* WritePump with its next ping at the latest.
Fairness ==
  /\ SF_vars(ReceiveRegister)
  /\ SF_vars(ReceiveUnregister)
  /\ SF_vars(AddClient \/ RemoveClient \/ Cast(Hub))
  /\ \A c \in Clients :
       /\ SF_vars(Cast(c) \/ ReadExit(c) \/ (write[c] = "done" /\ ReadError(c)))
       /\ WF_vars(WriteMessage(c) \/ WriteClosed(c) \/ (read[c] = "done" /\ WriteError(c)))

FairSpec == Spec /\ Fairness

-----------------------------------------------------------------------------
(***************************************************************************)
(* Properties                                                               *)
(***************************************************************************)

InRoom(c) == c \in rooms[RoomOf[c]]

\* c is on its way out: named in UnregisterCh, about to be, or being handled.
Doomed(c) ==
  \/ \E i \in 1..Len(unregisterCh) : unregisterCh[i] = c
  \/ \E p \in Proc : victim[p] = c
  \/ hubPc = "unregister" /\ hubClient = c

\* The process cannot panic: broadcastToRoom, which gives up and retakes its
\* lock in the middle of the loop, never sends on a Send channel the Hub has
\* closed, and the Hub never closes one twice.
NoPanic ==
  /\ \A p \in Proc : phase[p] = "iterate" => \A c \in todo[p] : ~closed[c]
  /\ hubPc = "unregister" /\ InRoom(hubClient) => ~closed[hubClient]

\* A client that a broadcast skipped has lost a message, so it may not stay:
\* while it is still in its room its eviction is under way.
SkippedAreDoomed == \A c \in missed : InRoom(c) => Doomed(c)

\* p is in the middle of something, or the Hub has something to receive: p waits
\* for no connection.
Busy(p) ==
  \/ p = Hub /\ (hubPc # "select" \/ registerCh # <<>> \/ unregisterCh # <<>>)
  \/ p # Hub /\ read[p] \in {"casting", "leaving"}

ChannelHasRoom == Len(unregisterCh) < UnregCap

\* No lock and no full channel is in the way of p's next step: the guards of the
\* Hub's receives, of AddClient and RemoveClient, of ReadExit, and of Cast.
CanGoOn(p) ==
  \/ p = Hub /\ hubPc = "select" /\ (registerCh # <<>> \/ unregisterCh # <<>>)
  \/ p = Hub /\ hubPc \in {"register", "unregister"} /\ NoReader
  \/ p # Hub /\ read[p] = "leaving" /\ ChannelHasRoom
  \/ phase[p] \in {"start", "relock"}
  \/ phase[p] = "iterate" /\ (todo[p] = {} \/ \E c \in todo[p] : Len(send[c]) <= SendCap)
  \/ phase[p] = "evict" /\ ChannelHasRoom

\* The Hub, the only reader of UnregisterCh, waits for room in it.
HubWaitsForItself == phase[Hub] = "evict" /\ ~ChannelHasRoom

\* The goroutines wait for each other in no other circle than this one: whoever
\* waits for room in UnregisterCh, or meets a full Send, does not hold the lock
\* that the Hub needs to make room.
OnlyTheHubBlocks ==
  (\E p \in Proc : Busy(p)) => (\E p \in Proc : CanGoOn(p)) \/ HubWaitsForItself

\* A broadcast loop forgets nobody, even when the room changes while it waits
\* to evict: a client it had to visit, which is still in the room, is still to
\* be visited, has the message, or was skipped (and is doomed).
EverybodyServed ==
  \A p \in Clients : phase[p] = "iterate" =>
    \A c \in (base[p] \cap rooms[Room(p)]) \ todo[p] :
      last[c][p] = sent[p] \/ c \in missed

\* The Hub and the pumps together keep what ChatRoom promises: membership is
\* entered and left once, only members are handed events, and a member that is
\* not marked as lagging gets every sender's messages in order without a gap.
Status(c) == IF InRoom(c) THEN "member" ELSE IF closed[c] THEN "left" ELSE "outside"

Abstract == INSTANCE ChatRoom WITH
              Events  <- Event,
              status  <- [c \in Clients |-> Status(c)],
              outbox  <- send,
              heard   <- last,
              lagging <- missed

RefinesChatRoom == Abstract!Spec

\* Chat_service_test: a room is deleted when its last client leaves.  Once all
\* that was sent to the Hub is handled, a connection whose ReadPump has ended
\* is in no room.
NoGhostMember ==
  \A c \in Clients :
    hubPc = "select" /\ registerCh = <<>> /\ unregisterCh = <<>> /\ read[c] = "done"
      => ~InRoom(c)

\* c is in its room, its connection is over, and nothing is under way to remove it.
Ghost(c) == InRoom(c) /\ read[c] = "done" /\ ~Doomed(c)

\* How far chat_service_test.go is right: a member whose connection is over has its
\* removal under way, however many skips, evictions and broadcasts overlap.  Who has
\* none was registered after its unregistration was handled, and stays until
\* broadcasts have filled its buffer.
GhostsComeLate ==
  [][\A c \in Clients : ~Ghost(c) /\ Ghost(c)' => ~InRoom(c)]_vars

\* The Hub is never stuck: it always gets back to its select.
HubKeepsServing == []<>(hubPc = "select")

\* Chat_service_test: a client whose buffer is full is unregistered.
SkippedLeave == \A c \in Clients : c \in missed ~> ~InRoom(c)

\* No goroutine or connection leaks: once the Hub has dropped a client, or its
\* ReadPump has ended, both of its pumps end.
PumpsEnd ==
  \A c \in Clients :
    closed[c] \/ read[c] = "done" ~> read[c] = "done" /\ write[c] = "done"
=============================================================================
