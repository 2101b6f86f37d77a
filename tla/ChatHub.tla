------------------------------ MODULE ChatHub ------------------------------
(***************************************************************************)
(* One chat room of the websocket hub, and the way of a chat message from  *)
(* the database to the people of the room: over their open connections, or *)
(* as a push notification when they are not connected.                     *)
(*                                                                         *)
(* The hub goroutine (run) handles registrations one at a time; everything *)
(* else takes the hub's mutex from its own goroutine: a read and a write   *)
(* pump per connection, and one goroutine per message.  Each critical      *)
(* section of the mutex is one action.  Send channels are bounded, and a   *)
(* connection whose channel is full when something is broadcast is thrown  *)
(* out of the room.                                                        *)
(***************************************************************************)
EXTENDS Naturals, Sequences

CONSTANTS
  Users,      \* the participants of the room
  Conns,      \* connections; each is opened once
  Owner,      \* the user of each connection
  Msgs,       \* messages
  Cap,        \* capacity of a Send channel (256 in the code)
  Pushed,     \* users who may have been pushed for the room just before
  NoConn      \* a message posted over HTTP came over no connection

ASSUME OwnerAssumption == Owner \in [Conns -> Users] /\ NoConn \notin Conns
ASSUME PushedAssumption == Pushed \subseteq Users
ASSUME CapAssumption   == Cap \in Nat \ {0}

VARIABLES
  clients, room,   \* Hub.Clients, and Hub.Rooms at this room
  closed,          \* connections whose Send channel has been closed
  queue,           \* Send: what each channel holds
  hub,             \* what run() has still to announce, or Quiet
  link,            \* each connection: "new", "up", "down", "over"
  writing,         \* connections whose writePump runs
  view,            \* whom the peer of each connection has been told is online
  ghosts,          \* users thrown out with no "user_left" announced
  stage, via,      \* each message: how far it is, the connection it came over
  author,
  covered,         \* ... who has got it over a connection, or been pushed for it
  late,            \* ... history: who entered the room after it was broadcast and is found
                   \*     there by the look at who is
  target,          \* ... whom a push is being prepared for
  deaf,            \* ... history: those among them who had no token or wanted no push
  recent,          \* users pushed for this room within the throttle window
  buzzed           \* users ever pushed for this room

hubVars  == <<clients, room, closed, queue, hub, ghosts>>
connVars == <<link, writing, view>>
pushVars == <<target, deaf, recent, buzzed>>
msgVars  == <<stage, via, author, covered, late, pushVars>>
vars     == <<hubVars, connVars, msgVars>>

Item  == [kind : {"snapshot", "joined", "left", "other"}, users : SUBSET Users]
Other == [kind |-> "other", users |-> {}]    \* messages, typing, delivered/seen
Quiet == [kind |-> "none", conn |-> NoConn]
Event == [kind : {"joined", "left"}, conn : Conns] \cup {Quiet}

Online(conns)  == {Owner[c] : c \in conns}
Recipients(m)  == Users \ {author[m]}

(* A non-blocking send: nothing is put into a full channel. *)
Offer(q, item) == IF Len(q) < Cap THEN Append(q, item) ELSE q

Init ==
  /\ clients = {} /\ room = {} /\ closed = {}
  /\ queue   = [c \in Conns |-> <<>>]
  /\ hub     = Quiet
  /\ ghosts  = {}
  /\ link    = [c \in Conns |-> "new"]
  /\ writing = {}
  /\ view    = [c \in Conns |-> {}]
  /\ stage   = [m \in Msgs |-> "unsent"]
  /\ via     = [m \in Msgs |-> NoConn]
  /\ author  \in [Msgs -> Users]
  /\ covered = [m \in Msgs |-> {}] /\ late = [m \in Msgs |-> {}]
  /\ target  = [m \in Msgs |-> {}] /\ deaf = [m \in Msgs |-> {}]
  /\ recent \in SUBSET Pushed   \* pushes of earlier messages
  /\ buzzed = recent

-----------------------------------------------------------------------------
(* BroadcastToRoom and BroadcastToRoomExceptSender: offer an item to some   *)
(* connections of the room and throw out those whose channel is full.       *)

Full(conns) == {c \in conns : Len(queue[c]) >= Cap}

Enqueue(conns, item) ==
  queue' = [c \in Conns |-> IF c \in conns THEN Offer(queue[c], item) ELSE queue[c]]

(* Mutant: a slow connection stays in Rooms after its channel is closed. *)
ThrowOutOfClients(slow) ==
  /\ closed'  = closed \cup slow
  /\ clients' = clients \ slow
  /\ ghosts'  = ghosts
  /\ UNCHANGED room

(* Mutant: a slow connection misses the item and stays. *)
SkipSlow(slow) == slow \subseteq Conns /\ UNCHANGED <<closed, clients, room, ghosts>>

ThrowOut(slow) ==
  /\ closed'  = closed \cup slow
  /\ clients' = clients \ slow
  /\ room'    = room \ slow
  /\ ghosts'  = ghosts \cup (Online(slow) \ Online(room \ slow))

Broadcast(conns, item) == Enqueue(conns, item) /\ ThrowOut(Full(conns))

-----------------------------------------------------------------------------
(* Connections.                                                            *)

(* WebSocketHandler has let the user in and NewClient waits until run takes *)
(* the registration: the newcomer gets a snapshot of who is there but none  *)
(* of the messages, and the others are told later, outside the critical     *)
(* section.                                                                 *)
HubRegister(c) ==
  /\ hub = Quiet
  /\ link[c] = "new"
  /\ clients' = clients \cup {c}
  /\ room'    = room \cup {c}
  /\ queue'   = [queue EXCEPT ![c] = Offer(@, [kind |-> "snapshot", users |-> Online(room')])]
  /\ hub'     = IF Owner[c] \in Online(room) THEN Quiet ELSE [kind |-> "joined", conn |-> c]
  /\ ghosts'  = ghosts \ {Owner[c]}
  /\ link'    = [link EXCEPT ![c] = "up"]
  /\ writing' = writing \cup {c}
  /\ late'    = [m \in Msgs |-> IF stage[m] = "sent" THEN late[m] \cup {Owner[c]} ELSE late[m]]
  /\ UNCHANGED <<closed, view, stage, via, author, covered, pushVars>>

(* Mutant: the others are told of every connection that ends. *)
LeavesAlways(c) == c \in Conns

Leaves(c) == Owner[c] \notin Online(room \ {c})

(* readPump has ended and run takes its Unregister; a connection thrown out *)
(* before is not in Clients any more, and nobody is told.  Nobody will read *)
(* what its channel holds: it is dropped here.                              *)
HubUnregister(c) ==
  /\ hub = Quiet
  /\ link[c] = "down"
  /\ link' = [link EXCEPT ![c] = "over"]
  /\ \/ /\ c \in clients
        /\ clients' = clients \ {c}
        /\ room'    = room \ {c}
        /\ closed'  = closed \cup {c}
        /\ hub'     = IF Leaves(c) THEN [kind |-> "left", conn |-> c] ELSE Quiet
     \/ c \notin clients /\ UNCHANGED <<clients, room, closed, hub>>
  /\ queue' = [queue EXCEPT ![c] = <<>>]
  /\ view'  = [view EXCEPT ![c] = {}]
  /\ UNCHANGED <<ghosts, writing, msgVars>>

HubAnnounce ==
  /\ hub # Quiet
  /\ Broadcast(IF hub.kind = "joined" THEN room \ {hub.conn} ELSE room,
               [kind |-> hub.kind, users |-> {Owner[hub.conn]}])
  /\ hub' = Quiet
  /\ UNCHANGED <<connVars, msgVars>>

(* The peer goes away, or stops answering pings or taking writes until the  *)
(* deadline: readPump gets an error and waits for the hub at Unregister.    *)
Break(c) ==
  /\ link[c] = "up"
  /\ link' = [link EXCEPT ![c] = "down"]
  /\ UNCHANGED <<hubVars, writing, view, msgVars>>

(* What the app makes of a presence item. *)
Told(known, item) ==
  CASE item.kind = "snapshot" -> item.users
    [] item.kind = "joined"   -> known \cup item.users
    [] item.kind = "left"     -> known \ item.users
    [] OTHER                  -> known

(* Also while readPump waits at Unregister: the connection is closed after. *)
WritePump(c) ==
  /\ c \in writing
  /\ queue[c] # <<>>
  /\ view'  = [view EXCEPT ![c] = Told(@, Head(queue[c]))]
  /\ queue' = [queue EXCEPT ![c] = Tail(@)]
  /\ UNCHANGED <<clients, room, closed, hub, ghosts, link, writing, msgVars>>

(* Mutant: writePump returns and leaves the connection open. *)
HangUpLater(c) == c \in Conns /\ UNCHANGED link

HangUp(c) == link' = [link EXCEPT ![c] = IF @ = "up" THEN "down" ELSE @]

(* A write fails, or the channel is closed and drained: writePump closes    *)
(* the connection, which ends readPump too.                                 *)
WritePumpEnd(c) ==
  /\ c \in writing
  /\ link[c] # "up" \/ (c \in closed /\ queue[c] = <<>>)
  /\ writing' = writing \ {c}
  /\ HangUp(c)
  /\ UNCHANGED <<hubVars, view, msgVars>>

(* A typing indicator goes to the others, a delivered/seen mark to all; the *)
(* sender may have been thrown out of the room.                             *)
Chatter(c) ==
  /\ link[c] = "up"
  /\ \E conns \in {room, room \ {c}} : Broadcast(conns, Other)
  /\ UNCHANGED <<hub, connVars, msgVars>>

-----------------------------------------------------------------------------
(* Messages.  The goroutine of a message outlives the connection it came    *)
(* over.                                                                    *)

Step(m, from, to) == stage[m] \in from /\ stage' = [stage EXCEPT ![m] = to]

SaveMessage(m) ==
  /\ Step(m, {"unsent"}, "saved")
  /\ \E c \in Conns \cup {NoConn} :
       /\ c # NoConn => Owner[c] = author[m] /\ link[c] \in {"up", "down", "over"}
       /\ via' = [via EXCEPT ![m] = c]
  /\ UNCHANGED <<hubVars, connVars, author, covered, late, pushVars>>

(* TrySend: no mutex; a send on a closed channel panics and is recovered. *)
Confirm(m) ==
  /\ Step(m, {"saved"}, "confirmed")
  /\ via[m] # NoConn
  /\ queue' = [queue EXCEPT ![via[m]] =
                 IF via[m] \in closed THEN @ ELSE Offer(@, Other)]
  /\ UNCHANGED <<clients, room, closed, hub, ghosts, connVars, via, author, covered, late, pushVars>>

BroadcastMessage(m) ==
  /\ Step(m, {"saved", "confirmed"}, "sent")
  /\ Broadcast(room, Other)
  /\ covered' = [covered EXCEPT ![m] = @ \cup Online(room \ Full(room))]
  /\ via' = [via EXCEPT ![m] = NoConn]
  /\ UNCHANGED <<hub, connVars, author, late, pushVars>>

(* FilterUsersNotInRoom, and IsUserActiveInRoom for a direct message. *)
FilterOffline(m) ==
  /\ Step(m, {"sent"}, "filtered")
  /\ target' = [target EXCEPT ![m] = Recipients(m) \ Online(room)]
  /\ late' = [late EXCEPT ![m] = @ \cap Online(room)]
  /\ UNCHANGED <<hubVars, connVars, via, author, covered, deaf, recent, buzzed>>

(* No push for anybody: there is no FCM service, the ride is muted, or one  *)
(* of the look-ups fails: of the sender, the ride and its bookings before   *)
(* the look at who is there, of the tokens after it.                        *)
GiveUp(m) ==
  /\ Step(m, {"sent", "filtered"}, "dropped")
  /\ target' = [target EXCEPT ![m] = {}]
  /\ UNCHANGED <<hubVars, connVars, via, author, covered, late, deaf, recent, buzzed>>

(* LoadAllowedFCMTokens leaves out who has no token or wants no such push;  *)
(* filterChatPushThrottle under its mutex, then the pushes.                 *)
Push(m) ==
  /\ Step(m, {"filtered"}, "done")
  /\ \E out \in SUBSET target[m] :
       LET allowed == (target[m] \ out) \ recent
       IN  /\ deaf'    = [deaf EXCEPT ![m] = out]
           /\ recent'  = recent \cup allowed
           /\ buzzed'  = buzzed \cup allowed
           /\ covered' = [covered EXCEPT ![m] = @ \cup allowed]
  /\ target' = [target EXCEPT ![m] = {}]
  /\ UNCHANGED <<hubVars, connVars, via, author, late>>

WindowPasses(u) ==
  /\ u \in recent
  /\ recent' = recent \ {u}
  /\ UNCHANGED <<hubVars, connVars, stage, via, author, covered, late, target, deaf, buzzed>>

-----------------------------------------------------------------------------
Next ==
  \/ HubAnnounce
  \/ \E c \in Conns : \/ HubRegister(c) \/ HubUnregister(c) \/ Break(c)
                      \/ WritePump(c) \/ WritePumpEnd(c) \/ Chatter(c)
  \/ \E m \in Msgs : \/ SaveMessage(m) \/ Confirm(m) \/ BroadcastMessage(m)
                     \/ FilterOffline(m) \/ GiveUp(m) \/ Push(m)
  \/ \E u \in Users : WindowPasses(u)

(* Go schedules every goroutine; run's select serves blocked senders in     *)
(* turn; a write that the peer does not take fails at its deadline, which   *)
(* is Break.  Nothing obliges a peer to connect, talk or hang up.           *)
Fairness ==
  /\ WF_vars(HubAnnounce)
  /\ \A c \in Conns : /\ WF_vars(HubUnregister(c))
                      /\ WF_vars(WritePump(c)) /\ WF_vars(WritePumpEnd(c))

Spec == Init /\ [][Next]_vars /\ Fairness

-----------------------------------------------------------------------------
(* Types, and no Send channel holds more than its capacity (make(chan, 256) *)
(* with the non-blocking sends of run, BroadcastToRoom and TrySend).        *)
TypeOK ==
  /\ clients \subseteq Conns /\ room \subseteq Conns /\ closed \subseteq Conns
  /\ \A c \in Conns : queue[c] \in Seq(Item) /\ Len(queue[c]) <= Cap
  /\ hub \in Event
  /\ ghosts \subseteq Users
  /\ link \in [Conns -> {"new", "up", "down", "over"}]
  /\ writing \subseteq Conns
  /\ view \in [Conns -> SUBSET Users]
  /\ stage \in [Msgs -> {"unsent", "saved", "confirmed", "sent", "filtered", "dropped", "done"}]
  /\ via \in [Msgs -> Conns \cup {NoConn}]
  /\ author \in [Msgs -> Users]
  /\ covered \in [Msgs -> SUBSET Users] /\ late \in [Msgs -> SUBSET Users]
  /\ target \in [Msgs -> SUBSET Users] /\ deaf \in [Msgs -> SUBSET Users]
  /\ recent \subseteq Users /\ buzzed \subseteq Users

(* The two maps of the hub agree, and neither holds a connection whose      *)
(* channel is closed: a broadcast never sends on a closed channel and       *)
(* nothing closes one twice, either of which would end the process, because *)
(* only TrySend recovers.  The channel of a connection that is over is      *)
(* closed, so its writePump can end.                                        *)
ChannelsSafe ==
  /\ clients = room
  /\ room \cap closed = {}
  /\ \A c \in Conns : link[c] = "over" => c \in closed

(* What an item tells about a user, and whom somebody who knew some users   *)
(* takes for online once he has read some items: the last one about a user  *)
(* counts.                                                                  *)
SaysHere(item, u) == item.kind \in {"snapshot", "joined"} /\ u \in item.users
SaysGone(item, u) == \/ item.kind = "snapshot" /\ u \notin item.users
                     \/ item.kind = "left" /\ u \in item.users

Reading(known, items) ==
  {u \in Users :
     \/ u \in known /\ \A i \in DOMAIN items : ~SaysGone(items[i], u)
     \/ \E i \in DOMAIN items : /\ SaysHere(items[i], u)
                               /\ \A j \in DOMAIN items : j > i => ~SaysGone(items[j], u)}

(* Whom a connection has been told is online, once it has read what is      *)
(* queued for it and run has made the announcement it is about to make.     *)
Awaited(c) ==
  IF hub = Quiet \/ (hub.kind = "joined" /\ hub.conn = c) THEN queue[c]
  ELSE Append(queue[c], [kind |-> hub.kind, users |-> {Owner[hub.conn]}])

Knows(c) == Reading(view[c], Awaited(c))

(* Presence: everyone in the room is told of everyone in it, whatever the   *)
(* order in which connections of one user come and go; the only users       *)
(* wrongly shown as online are those BroadcastToRoom has thrown out for     *)
(* being slow, whom nobody announces as gone.                               *)
PresenceHonest ==
  \A c \in room : /\ Online(room) \subseteq Knows(c)
                  /\ Knows(c) \subseteq Online(room) \cup ghosts

(* chat.go:900-1009, websocket.go:132-152: unless the fan-out gives up, no  *)
(* recipient is passed over, whatever connections do meanwhile: each had    *)
(* the message put on an open connection, or is sent a push, but for who    *)
(* has no token or wants none, and whom the throttle spares, having had one *)
(* for the room; or has entered the room after the broadcast and is found   *)
(* there by the look at who is.  He is taken to have seen the message, and  *)
(* gets it neither way: nothing but a separate request for the history      *)
(* shows it to him.  A connection thrown out by the broadcast itself is     *)
(* pushed.                                                                  *)
NobodyMissed ==
  \A m \in Msgs :
    /\ stage[m] = "filtered" => Recipients(m) \subseteq covered[m] \cup target[m] \cup late[m]
    /\ stage[m] = "done"     => Recipients(m) \subseteq covered[m] \cup buzzed \cup late[m] \cup deaf[m]

(* A connection that broke, or was thrown out while its peer is still       *)
(* there, is eventually unregistered and both its pumps end: no goroutine   *)
(* waits on a channel that nobody serves.                                   *)
ConnectionsEnd ==
  \A c \in Conns : (link[c] = "down" \/ c \in closed)
                     ~> (link[c] = "over" /\ c \notin room /\ c \notin writing)
=============================================================================
