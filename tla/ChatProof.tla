----------------------------- MODULE ChatProof ------------------------------
(***************************************************************************)
(* Machine-checked theorems about the chat, for any people, connections,   *)
(* messages, requests and ticks: the hub never uses a closed channel,      *)
(* everyone is shown who is really there, a fan-out that does not give up  *)
(* passes over nobody but latecomers and those who have or want no push,   *)
(* the read cursor hides nothing that the reader was not offered, and      *)
(* pages leave no gap but in the second in which one ends.                 *)
(***************************************************************************)
EXTENDS ChatHub, ChatHistory, FiniteSetTheorems, WellFoundedInduction, TLAPS

-----------------------------------------------------------------------------
(* The hub.                                                                *)

(* What the arguments below need to know of the state's shape. *)
Shaped ==
  /\ clients \subseteq Conns /\ room \subseteq Conns /\ closed \subseteq Conns
  /\ link \in [Conns -> {"new", "up", "down", "over"}]
  /\ stage \in [Msgs -> {"unsent", "saved", "confirmed", "sent", "filtered", "dropped", "done"}]
  /\ author \in [Msgs -> Users]
  /\ covered \in [Msgs -> SUBSET Users] /\ late \in [Msgs -> SUBSET Users]
  /\ target \in [Msgs -> SUBSET Users] /\ deaf \in [Msgs -> SUBSET Users]
  /\ recent \subseteq Users /\ buzzed \subseteq Users

LEMMA FullInside == \A conns : Full(conns) \subseteq conns
BY DEF Full

LEMMA OnlineUsers ==
  /\ \A conns \in SUBSET Conns : Online(conns) \subseteq Users
  /\ \A conns, others : conns \subseteq others => Online(conns) \subseteq Online(others)
BY OwnerAssumption DEF Online

(* A broadcast to connections of the room only shrinks the room. *)
LEMMA BroadcastShrinks ==
  ASSUME NEW conns, NEW item, conns \subseteq room, Broadcast(conns, item)
  PROVE  /\ closed' = closed \cup Full(conns) /\ Full(conns) \subseteq room
         /\ clients' = clients \ Full(conns) /\ room' = room \ Full(conns)
BY FullInside DEF Broadcast, ThrowOut

-----------------------------------------------------------------------------
(* Channels. *)

(* A connection that has been registered is in the room or has its channel  *)
(* closed, and before that neither.                                         *)
ChannelInv ==
  /\ clients = room /\ room \cap closed = {}
  /\ \A c \in Conns : /\ link[c] = "new" => c \notin room \cup closed
                      /\ link[c] # "new" => c \in room \cup closed
                      /\ link[c] = "over" => c \in closed

LEMMA ShapedStep == Shaped /\ [Next]_vars => Shaped'
<1>1. SUFFICES ASSUME Shaped, [Next]_vars PROVE Shaped'
  OBVIOUS
<1>2. CASE UNCHANGED vars
  BY <1>1, <1>2 DEF Shaped, vars, hubVars, connVars, msgVars, pushVars
<1>3. CASE HubAnnounce
  <2>1. /\ closed' \subseteq Conns /\ clients' \subseteq clients /\ room' \subseteq room
    BY <1>1, <1>3, FullInside DEF HubAnnounce, Broadcast, ThrowOut, Shaped
  <2>2. QED BY <1>1, <1>3, <2>1 DEF HubAnnounce, connVars, msgVars, pushVars, Shaped
<1>4. ASSUME NEW c \in Conns, HubRegister(c) PROVE Shaped'
  <2>1. Owner[c] \in Users
    BY OwnerAssumption
  <2>2. late' \in [Msgs -> SUBSET Users]
    BY <1>1, <1>4, <2>1 DEF HubRegister, Shaped
  <2>3. QED BY <1>1, <1>4, <2>2 DEF HubRegister, pushVars, Shaped
<1>5. ASSUME NEW c \in Conns, HubUnregister(c) PROVE Shaped'
  BY <1>1, <1>5 DEF HubUnregister, msgVars, pushVars, Shaped
<1>6. ASSUME NEW c \in Conns, Break(c) \/ WritePump(c) \/ WritePumpEnd(c) PROVE Shaped'
  BY <1>1, <1>6 DEF Break, WritePump, WritePumpEnd, HangUp, hubVars, msgVars, pushVars, Shaped
<1>7. ASSUME NEW c \in Conns, Chatter(c) PROVE Shaped'
  <2>1. PICK conns \in {room, room \ {c}} : Broadcast(conns, Other)
    BY <1>7 DEF Chatter
  <2>2. closed' \subseteq Conns /\ clients' \subseteq clients /\ room' \subseteq room
    BY <1>1, <2>1, BroadcastShrinks DEF Shaped
  <2>3. QED BY <1>1, <1>7, <2>2 DEF Chatter, connVars, msgVars, pushVars, Shaped
<1>8. ASSUME NEW m \in Msgs, SaveMessage(m) \/ Confirm(m) PROVE Shaped'
  BY <1>1, <1>8 DEF SaveMessage, Confirm, Step, hubVars, connVars, pushVars, Shaped
<1>9. ASSUME NEW m \in Msgs, BroadcastMessage(m) PROVE Shaped'
  <2>1. closed' \subseteq Conns /\ clients' \subseteq clients /\ room' \subseteq room
    BY <1>1, <1>9, BroadcastShrinks DEF BroadcastMessage, Shaped
  <2>2. Online(room \ Full(room)) \subseteq Users
    BY <1>1, OnlineUsers DEF Shaped
  <2>3. QED BY <1>1, <1>9, <2>1, <2>2 DEF BroadcastMessage, Step, connVars, pushVars, Shaped
<1>10. ASSUME NEW m \in Msgs, FilterOffline(m) \/ GiveUp(m) PROVE Shaped'
  BY <1>1, <1>10 DEF FilterOffline, GiveUp, Recipients, Step, hubVars, connVars, Shaped
<1>11. ASSUME NEW m \in Msgs, Push(m) PROVE Shaped'
  <2>1. PICK out \in SUBSET target[m] :
          LET allowed == (target[m] \ out) \ recent
          IN  /\ deaf' = [deaf EXCEPT ![m] = out] /\ recent' = recent \cup allowed
              /\ buzzed' = buzzed \cup allowed /\ covered' = [covered EXCEPT ![m] = @ \cup allowed]
    BY <1>11 DEF Push
  <2>2. target[m] \subseteq Users
    BY <1>1 DEF Shaped
  <2>3. QED BY <1>1, <1>11, <2>1, <2>2 DEF Push, Step, hubVars, connVars, Shaped
<1>12. ASSUME NEW u \in Users, WindowPasses(u) PROVE Shaped'
  BY <1>1, <1>12 DEF WindowPasses, hubVars, connVars, Shaped
<1>13. QED BY <1>1, <1>2, <1>3, <1>4, <1>5, <1>6, <1>7, <1>8, <1>9, <1>10, <1>11, <1>12 DEF Next

LEMMA ShapedAlways == Spec => []Shaped
<1>1. Init => Shaped
  BY PushedAssumption DEF Init, Shaped
<1>2. QED BY <1>1, ShapedStep, PTL DEF Spec

LEMMA ChannelStep == Shaped /\ ChannelInv /\ [Next]_vars => ChannelInv'
<1>1. SUFFICES ASSUME Shaped, ChannelInv, [Next]_vars PROVE ChannelInv'
  OBVIOUS
<1>2. CASE UNCHANGED <<clients, room, closed, link>>
  BY <1>1, <1>2 DEF ChannelInv
<1>3. ASSUME NEW conns, NEW item, conns \subseteq room, Broadcast(conns, item), link' = link PROVE ChannelInv'
  BY <1>1, <1>3, BroadcastShrinks DEF ChannelInv
<1>4. CASE HubAnnounce
  BY <1>3, <1>4 DEF HubAnnounce, connVars
<1>5. ASSUME NEW c \in Conns, HubRegister(c) PROVE ChannelInv'
  BY <1>1, <1>5 DEF HubRegister, ChannelInv, Shaped
<1>6. ASSUME NEW c \in Conns, HubUnregister(c) PROVE ChannelInv'
  BY <1>1, <1>6 DEF HubUnregister, ChannelInv, Shaped
<1>7. ASSUME NEW c \in Conns, Break(c) \/ WritePumpEnd(c) PROVE ChannelInv'
  <2>1. UNCHANGED <<clients, room, closed>>
    BY <1>7 DEF Break, WritePumpEnd, hubVars
  <2>2. \A d \in Conns : link'[d] = link[d] \/ (link[d] = "up" /\ link'[d] = "down")
    BY <1>1, <1>7 DEF Break, WritePumpEnd, HangUp, Shaped
  <2>3. QED BY <1>1, <2>1, <2>2 DEF ChannelInv
<1>8. ASSUME NEW c \in Conns, WritePump(c) PROVE ChannelInv'
  BY <1>2, <1>8 DEF WritePump
<1>9. ASSUME NEW c \in Conns, Chatter(c) PROVE ChannelInv'
  BY <1>3, <1>9 DEF Chatter, connVars
<1>10. ASSUME NEW m \in Msgs, BroadcastMessage(m) PROVE ChannelInv'
  BY <1>3, <1>10 DEF BroadcastMessage, connVars
<1>11. ASSUME NEW m \in Msgs, SaveMessage(m) \/ Confirm(m) \/ FilterOffline(m) \/ GiveUp(m) \/ Push(m)
       PROVE  ChannelInv'
  BY <1>2, <1>11 DEF SaveMessage, Confirm, FilterOffline, GiveUp, Push, hubVars, connVars
<1>12. ASSUME NEW u \in Users, WindowPasses(u) PROVE ChannelInv'
  BY <1>2, <1>12 DEF WindowPasses, hubVars, connVars
<1>13. CASE UNCHANGED vars
  BY <1>2, <1>13 DEF vars, hubVars, connVars
<1>14. QED BY <1>1, <1>4, <1>5, <1>6, <1>7, <1>8, <1>9, <1>10, <1>11, <1>12, <1>13 DEF Next

(* The hub's two maps agree and hold no closed channel, so that no          *)
(* broadcast panics and no channel is closed twice (hub.go); what is over   *)
(* is closed.                                                               *)
THEOREM ChannelsStaySafe == Spec => []ChannelsSafe
<1>1. Init => ChannelInv
  BY DEF Init, ChannelInv
<1>2. ChannelInv => ChannelsSafe
  BY DEF ChannelInv, ChannelsSafe
<1>3. QED BY <1>1, <1>2, ChannelStep, ShapedAlways, PTL DEF Spec

-----------------------------------------------------------------------------
(* Presence. *)

(* The rest of the state: what is queued, shown and pending.                *)
Queued ==
  /\ queue \in [Conns -> Seq(Item)]
  /\ \A c \in Conns : Len(queue[c]) <= Cap
  /\ hub \in Event
  /\ ghosts \subseteq Users
  /\ view \in [Conns -> SUBSET Users]
  /\ writing \subseteq Conns
  /\ via \in [Msgs -> Conns \cup {NoConn}]

LEMMA OfferTyped ==
  ASSUME NEW q \in Seq(Item), Len(q) <= Cap, NEW item \in Item
  PROVE  Offer(q, item) \in Seq(Item) /\ Len(Offer(q, item)) <= Cap
BY CapAssumption DEF Offer

LEMMA OtherItem == Other \in Item
BY DEF Other, Item

(* A broadcast keeps the queues what they are.                              *)
LEMMA BroadcastTyped ==
  ASSUME Shaped, Queued, NEW conns, conns \subseteq room, NEW item \in Item, Broadcast(conns, item)
  PROVE  /\ queue' \in [Conns -> Seq(Item)]
         /\ \A c \in Conns : Len(queue'[c]) <= Cap
         /\ ghosts' \subseteq Users
<1>1. queue' = [c \in Conns |-> IF c \in conns THEN Offer(queue[c], item) ELSE queue[c]]
  BY DEF Broadcast, Enqueue
<1>2. \A c \in Conns : queue[c] \in Seq(Item) /\ Len(queue[c]) <= Cap
  BY DEF Queued
<1>3. \A c \in Conns : queue'[c] \in Seq(Item) /\ Len(queue'[c]) <= Cap
  BY <1>1, <1>2, OfferTyped
<1>4. Full(conns) \subseteq Conns
  BY FullInside DEF Shaped
<1>5. ghosts' = ghosts \cup (Online(Full(conns)) \ Online(room \ Full(conns)))
  BY DEF Broadcast, ThrowOut
<1>6. QED BY <1>1, <1>3, <1>4, <1>5, OnlineUsers DEF Queued

LEMMA QueuedStep == Shaped /\ Queued /\ [Next]_vars => Queued'
<1>1. SUFFICES ASSUME Shaped, Queued, [Next]_vars PROVE Queued'
  OBVIOUS
<1>2. CASE UNCHANGED vars
  BY <1>1, <1>2 DEF Queued, vars, hubVars, connVars, msgVars
<1>3. CASE HubAnnounce
  <2>1. hub \in [kind : {"joined", "left"}, conn : Conns]
    BY <1>1, <1>3 DEF HubAnnounce, Queued, Event
  <2>2. [kind |-> hub.kind, users |-> {Owner[hub.conn]}] \in Item
    BY <2>1, OwnerAssumption DEF Item
  <2>3. /\ queue' \in [Conns -> Seq(Item)] /\ \A c \in Conns : Len(queue'[c]) <= Cap
        /\ ghosts' \subseteq Users
    BY <1>1, <1>3, <2>2, BroadcastTyped DEF HubAnnounce
  <2>4. UNCHANGED <<connVars, msgVars>> /\ hub' \in Event
    BY <1>3 DEF HubAnnounce, Event
  <2>5. QED BY <1>1, <2>3, <2>4 DEF Queued, connVars, msgVars
<1>4. ASSUME NEW c \in Conns, HubRegister(c) PROVE Queued'
  <2> DEFINE snapshot == [kind |-> "snapshot", users |-> Online(room')]
  <2>1. room' \subseteq Conns /\ room' = room \cup {c}
    BY <1>1, <1>4 DEF HubRegister, Shaped
  <2>2. snapshot \in Item
    BY <2>1, OnlineUsers DEF Item
  <2>3. Offer(queue[c], snapshot) \in Seq(Item) /\ Len(Offer(queue[c], snapshot)) <= Cap
    BY <1>1, <2>2, OfferTyped DEF Queued
  <2>4. queue' = [queue EXCEPT ![c] = Offer(queue[c], snapshot)]
    BY <1>4 DEF HubRegister
  <2>5. /\ queue' \in [Conns -> Seq(Item)]
        /\ \A d \in Conns : Len(queue'[d]) <= Cap
    BY <1>1, <2>3, <2>4 DEF Queued
  <2>6. hub' \in Event
    BY <1>1, <1>4 DEF HubRegister, Event
  <2>7. QED BY <1>1, <1>4, <2>5, <2>6 DEF HubRegister, Queued
<1>5. ASSUME NEW c \in Conns, HubUnregister(c) PROVE Queued'
  <2>1. queue' = [queue EXCEPT ![c] = <<>>] /\ view' = [view EXCEPT ![c] = {}]
    BY <1>5 DEF HubUnregister
  <2>2. <<>> \in Seq(Item) /\ Len(<<>>) <= Cap
    BY CapAssumption
  <2>3. /\ queue' \in [Conns -> Seq(Item)]
        /\ \A d \in Conns : Len(queue'[d]) <= Cap
        /\ view' \in [Conns -> SUBSET Users]
    BY <1>1, <2>1, <2>2 DEF Queued
  <2>4. hub' \in Event
    BY <1>1, <1>5 DEF HubUnregister, Event, Queued
  <2>5. QED BY <1>1, <1>5, <2>3, <2>4 DEF HubUnregister, Queued, msgVars
<1>6. ASSUME NEW c \in Conns, Break(c) \/ WritePumpEnd(c) PROVE Queued'
  BY <1>1, <1>6 DEF Break, WritePumpEnd, Queued, hubVars, msgVars
<1>7. ASSUME NEW c \in Conns, WritePump(c) PROVE Queued'
  <2>1. /\ queue[c] \in Seq(Item) /\ Len(queue[c]) <= Cap /\ queue[c] # <<>>
        /\ queue' = [queue EXCEPT ![c] = Tail(queue[c])]
        /\ view' = [view EXCEPT ![c] = Told(view[c], Head(queue[c]))]
        /\ UNCHANGED <<hub, ghosts, writing, via>>
    BY <1>1, <1>7 DEF WritePump, Queued, msgVars
  <2>2. Head(queue[c]) \in Item /\ Tail(queue[c]) \in Seq(Item) /\ Len(Tail(queue[c])) <= Cap
    BY <2>1, CapAssumption
  <2>3. Told(view[c], Head(queue[c])) \subseteq Users
    BY <1>1, <2>2 DEF Told, Item, Queued
  <2>4. /\ queue' \in [Conns -> Seq(Item)]
        /\ \A d \in Conns : Len(queue'[d]) <= Cap
    BY <1>1, <2>1, <2>2 DEF Queued
  <2>5. QED BY <1>1, <2>1, <2>3, <2>4 DEF Queued
<1>8. ASSUME NEW c \in Conns, Chatter(c) PROVE Queued'
  <2>1. PICK conns \in {room, room \ {c}} : Broadcast(conns, Other)
    BY <1>8 DEF Chatter
  <2>2. QED BY <1>1, <1>8, <2>1, BroadcastTyped, OtherItem DEF Chatter, Queued, connVars, msgVars
<1>9. ASSUME NEW m \in Msgs, SaveMessage(m) PROVE Queued'
  BY <1>1, <1>9 DEF SaveMessage, Queued, hubVars, connVars
<1>10. ASSUME NEW m \in Msgs, Confirm(m) PROVE Queued'
  <2>1. via[m] \in Conns
    BY <1>1, <1>10 DEF Confirm, Queued
  <2>2. /\ Offer(queue[via[m]], Other) \in Seq(Item) /\ Len(Offer(queue[via[m]], Other)) <= Cap
    BY <1>1, <2>1, OfferTyped, OtherItem DEF Queued
  <2>3. /\ queue' \in [Conns -> Seq(Item)]
        /\ \A d \in Conns : Len(queue'[d]) <= Cap
    BY <1>1, <1>10, <2>1, <2>2 DEF Confirm, Queued
  <2>4. QED BY <1>1, <1>10, <2>3 DEF Confirm, Queued, connVars
<1>11. ASSUME NEW m \in Msgs, BroadcastMessage(m) PROVE Queued'
  <2>1. /\ queue' \in [Conns -> Seq(Item)] /\ \A c \in Conns : Len(queue'[c]) <= Cap
        /\ ghosts' \subseteq Users
    BY <1>1, <1>11, BroadcastTyped, OtherItem DEF BroadcastMessage
  <2>2. QED BY <1>1, <1>11, <2>1 DEF BroadcastMessage, Queued, connVars
<1>12. ASSUME NEW m \in Msgs, FilterOffline(m) \/ GiveUp(m) \/ Push(m) PROVE Queued'
  BY <1>1, <1>12 DEF FilterOffline, GiveUp, Push, Queued, hubVars, connVars
<1>13. ASSUME NEW u \in Users, WindowPasses(u) PROVE Queued'
  BY <1>1, <1>13 DEF WindowPasses, Queued, hubVars, connVars
<1>14. QED BY <1>1, <1>2, <1>3, <1>4, <1>5, <1>6, <1>7, <1>8, <1>9, <1>10, <1>11, <1>12, <1>13 DEF Next

(* Every piece of the room's state has its type, and no Send channel ever   *)
(* holds more than its capacity (hub.go's make(chan, 256) and its           *)
(* non-blocking sends).                                                     *)
THEOREM HubTypeCorrect == Spec => []TypeOK
<1>1. Init => Queued
  <2>1. SUFFICES ASSUME Init PROVE Queued
    OBVIOUS
  <2>2. <<>> \in Seq(Item) /\ Len(<<>>) <= Cap
    BY CapAssumption
  <2>3. queue \in [Conns -> Seq(Item)] /\ \A c \in Conns : Len(queue[c]) <= Cap
    BY <2>1, <2>2 DEF Init
  <2>4. QED BY <2>1, <2>3 DEF Init, Queued, Event
<1>2. Shaped /\ Queued => TypeOK
  BY DEF Shaped, Queued, TypeOK
<1>3. QED BY <1>1, <1>2, QueuedStep, ShapedAlways, PTL DEF Spec

(* One more item at the end counts last; one taken from the front counts    *)
(* before the rest.                                                         *)
LEMMA ReadingAppend ==
  ASSUME NEW known, NEW items \in Seq(Item), NEW item
  PROVE  Reading(known, Append(items, item))
           = {u \in Users : SaysHere(item, u) \/ (u \in Reading(known, items) /\ ~SaysGone(item, u))}
<1> DEFINE longer == Append(items, item)
           n == Len(items)
<1>1. /\ n \in Nat /\ DOMAIN items = 1..n /\ DOMAIN longer = 1..(n + 1)
      /\ \A i \in 1..n : longer[i] = items[i]
      /\ longer[n + 1] = item
  OBVIOUS
<1>2. SUFFICES ASSUME NEW u \in Users
               PROVE  u \in Reading(known, longer)
                        <=> SaysHere(item, u) \/ (u \in Reading(known, items) /\ ~SaysGone(item, u))
  BY DEF Reading
<1> DEFINE Late(s, i) == SaysHere(s[i], u) /\ \A j \in DOMAIN s : j > i => ~SaysGone(s[j], u)
<1> HIDE DEF longer, n
<1>3. (\A i \in DOMAIN longer : ~SaysGone(longer[i], u))
        <=> (\A i \in DOMAIN items : ~SaysGone(items[i], u)) /\ ~SaysGone(item, u)
  <2>1. \A i \in 1..(n + 1) : i \in 1..n \/ i = n + 1
    BY <1>1
  <2>2. n + 1 \in 1..(n + 1) /\ 1..n \subseteq 1..(n + 1)
    BY <1>1
  <2>3. QED BY <1>1, <2>1, <2>2
<1>4. Late(longer, n + 1) <=> SaysHere(item, u)
  BY <1>1
<1>5. ASSUME NEW i \in 1..n PROVE Late(longer, i) <=> Late(items, i) /\ ~SaysGone(item, u)
  <2>1. \A j \in 1..(n + 1) : j \in 1..n \/ j = n + 1
    BY <1>1
  <2>2. n + 1 \in 1..(n + 1) /\ 1..n \subseteq 1..(n + 1) /\ n + 1 > i
    BY <1>1
  <2>3. QED BY <1>1, <2>1, <2>2
<1>6. (\E i \in DOMAIN longer : Late(longer, i))
        <=> SaysHere(item, u) \/ ((\E i \in DOMAIN items : Late(items, i)) /\ ~SaysGone(item, u))
  <2>1. \A j \in 1..(n + 1) : j \in 1..n \/ j = n + 1
    BY <1>1
  <2>2. n + 1 \in 1..(n + 1) /\ 1..n \subseteq 1..(n + 1)
    BY <1>1
  <2> HIDE DEF Late
  <2>3. QED BY <1>1, <1>4, <1>5, <2>1, <2>2
<1>7. \A s : u \in Reading(known, s) <=> \/ u \in known /\ \A i \in DOMAIN s : ~SaysGone(s[i], u)
                                         \/ \E i \in DOMAIN s : Late(s, i)
  BY <1>2 DEF Reading
<1> HIDE DEF Late
<1>8. QED BY <1>3, <1>6, <1>7

LEMMA ReadingTail ==
  ASSUME NEW known, NEW items \in Seq(Item), items # <<>>
  PROVE  Reading(Told(known, Head(items)), Tail(items)) = Reading(known, items)
<1> DEFINE first == Head(items)
           rest  == Tail(items)
           n     == Len(rest)
<1>1. /\ n \in Nat /\ DOMAIN rest = 1..n /\ DOMAIN items = 1..(n + 1)
      /\ \A i \in 1..n : rest[i] = items[i + 1]
      /\ items[1] = first /\ first \in Item
  OBVIOUS
<1> HIDE DEF first, rest, n
<1>2. SUFFICES ASSUME NEW u \in Users
               PROVE  u \in Reading(Told(known, first), rest) <=> u \in Reading(known, items)
  BY DEF Reading, first, rest
<1>3. u \in Told(known, first) <=> SaysHere(first, u) \/ (u \in known /\ ~SaysGone(first, u))
  BY <1>1 DEF Told, SaysHere, SaysGone, Item
<1> DEFINE Late(s, i) == SaysHere(s[i], u) /\ \A j \in DOMAIN s : j > i => ~SaysGone(s[j], u)
           Kept(s)    == \A i \in DOMAIN s : ~SaysGone(s[i], u)
<1>4. \A j \in 1..(n + 1) : j # 1 => j - 1 \in 1..n /\ j = (j - 1) + 1 /\ items[j] = rest[j - 1]
  <2>1. SUFFICES ASSUME NEW j \in 1..(n + 1), j # 1
                 PROVE  j - 1 \in 1..n /\ j = (j - 1) + 1 /\ items[j] = rest[j - 1]
    OBVIOUS
  <2>2. j - 1 \in 1..n /\ j = (j - 1) + 1
    BY <1>1, <2>1
  <2>3. QED BY <1>1, <2>2
<1>5. 1 \in 1..(n + 1) /\ \A j \in 1..n : j + 1 \in 1..(n + 1) /\ j + 1 > 1
  BY <1>1
<1>6. Kept(items) <=> ~SaysGone(first, u) /\ Kept(rest)
  <2>1. ASSUME Kept(items) PROVE ~SaysGone(first, u) /\ Kept(rest)
    <3>1. \A j \in 1..n : ~SaysGone(rest[j], u)
      BY <1>1, <1>5, <2>1
    <3>2. QED BY <1>1, <1>5, <2>1, <3>1
  <2>2. ASSUME ~SaysGone(first, u), Kept(rest) PROVE Kept(items)
    <3>1. \A j \in 1..(n + 1) : ~SaysGone(items[j], u)
      BY <1>1, <1>4, <2>2
    <3>2. QED BY <1>1, <3>1
  <2>3. QED BY <2>1, <2>2
<1>7. Late(items, 1) <=> SaysHere(first, u) /\ Kept(rest)
  <2>1. ASSUME \A j \in DOMAIN items : j > 1 => ~SaysGone(items[j], u) PROVE Kept(rest)
    <3>1. \A j \in 1..n : ~SaysGone(rest[j], u)
      BY <1>1, <1>5, <2>1
    <3>2. QED BY <1>1, <3>1
  <2>2. ASSUME Kept(rest), NEW j \in DOMAIN items, j > 1 PROVE ~SaysGone(items[j], u)
    <3>1. j # 1
      BY <2>2
    <3>2. QED BY <1>1, <1>4, <2>2, <3>1
  <2>3. QED BY <1>1, <2>1, <2>2
<1>8. ASSUME NEW i \in 1..n PROVE Late(items, i + 1) <=> Late(rest, i)
  <2>1. i + 1 \in 1..(n + 1) /\ items[i + 1] = rest[i]
    BY <1>1, <1>5
  <2>2. ASSUME \A j \in DOMAIN items : j > i + 1 => ~SaysGone(items[j], u),
               NEW j \in 1..n, j > i
        PROVE  ~SaysGone(rest[j], u)
    <3>1. j + 1 \in 1..(n + 1) /\ j + 1 > i + 1 /\ items[j + 1] = rest[j]
      BY <1>1, <1>5, <2>2
    <3>2. QED BY <1>1, <2>2, <3>1
  <2>3. ASSUME \A j \in DOMAIN rest : j > i => ~SaysGone(rest[j], u),
               NEW j \in 1..(n + 1), j > i + 1
        PROVE  ~SaysGone(items[j], u)
    <3>1. j # 1 /\ j - 1 > i
      BY <1>1, <2>3
    <3>2. j - 1 \in 1..n /\ items[j] = rest[j - 1]
      BY <1>4, <3>1
    <3>3. QED BY <1>1, <2>3, <3>1, <3>2
  <2>4. QED BY <1>1, <2>1, <2>2, <2>3
<1>9. (\E i \in DOMAIN items : Late(items, i)) <=> Late(items, 1) \/ \E i \in DOMAIN rest : Late(rest, i)
  <2> HIDE DEF Late
  <2>1. ASSUME NEW i \in DOMAIN items, Late(items, i), i # 1 PROVE \E k \in DOMAIN rest : Late(rest, k)
    <3>1. i - 1 \in 1..n /\ i = (i - 1) + 1
      BY <1>1, <1>4, <2>1
    <3>2. PICK k \in 1..n : i = k + 1
      BY <3>1
    <3>3. QED BY <1>1, <1>8, <2>1, <3>2
  <2>2. ASSUME NEW i \in DOMAIN rest, Late(rest, i) PROVE \E k \in DOMAIN items : Late(items, k)
    BY <1>1, <1>5, <1>8, <2>2
  <2>3. QED BY <1>1, <1>5, <2>1, <2>2
<1> HIDE DEF Late
<1>10. \A k, s : u \in Reading(k, s) <=> (u \in k /\ Kept(s)) \/ \E i \in DOMAIN s : Late(s, i)
  BY <1>2 DEF Reading, Late
<1> HIDE DEF Kept
<1>11. QED BY <1>3, <1>6, <1>7, <1>9, <1>10

(* Nothing is put into a channel before its connection is registered.       *)
Fresh ==
  /\ \A c \in Conns : link[c] = "new" => queue[c] = <<>>
  /\ \A m \in Msgs : via[m] \in Conns => link[via[m]] # "new"

LEMMA FreshStep == Shaped /\ ChannelInv /\ Queued /\ Fresh /\ [Next]_vars => Fresh'
<1>1. SUFFICES ASSUME Shaped, ChannelInv, Queued, Fresh, [Next]_vars PROVE Fresh'
  OBVIOUS
<1>2. CASE UNCHANGED <<link, queue, via>>
  BY <1>1, <1>2 DEF Fresh
<1>3. ASSUME NEW conns, NEW item, conns \subseteq room, Broadcast(conns, item), link' = link,
             \A m \in Msgs : via'[m] = via[m] \/ via'[m] = NoConn
      PROVE  Fresh'
  <2>1. \A c \in Conns : link[c] = "new" => queue'[c] = queue[c]
    BY <1>1, <1>3 DEF Broadcast, Enqueue, ChannelInv
  <2>2. QED BY <1>1, <1>3, <2>1, OwnerAssumption DEF Fresh
<1>4. CASE HubAnnounce
  <2>1. (IF hub.kind = "joined" THEN room \ {hub.conn} ELSE room) \subseteq room
    OBVIOUS
  <2>2. UNCHANGED <<link, via>>
    BY <1>4 DEF HubAnnounce, connVars, msgVars
  <2>3. QED BY <1>3, <1>4, <2>1, <2>2 DEF HubAnnounce
<1>5. ASSUME NEW c \in Conns, HubRegister(c) \/ HubUnregister(c) PROVE Fresh'
  <2>1. /\ via' = via /\ link'[c] # "new"
        /\ \A d \in Conns \ {c} : link'[d] = link[d] /\ queue'[d] = queue[d]
    BY <1>1, <1>5 DEF HubRegister, HubUnregister, Shaped, Queued, msgVars
  <2>2. QED BY <1>1, <2>1 DEF Fresh
<1>6. ASSUME NEW c \in Conns, Break(c) \/ WritePumpEnd(c) PROVE Fresh'
  <2>1. /\ queue' = queue /\ via' = via
        /\ \A d \in Conns : link'[d] = "new" <=> link[d] = "new"
    BY <1>1, <1>6 DEF Break, WritePumpEnd, HangUp, Shaped, hubVars, msgVars
  <2>2. QED BY <1>1, <2>1 DEF Fresh
<1>7. ASSUME NEW c \in Conns, WritePump(c) PROVE Fresh'
  <2>1. queue[c] # <<>> /\ link' = link /\ via' = via /\ \A d \in Conns \ {c} : queue'[d] = queue[d]
    BY <1>1, <1>7 DEF WritePump, Queued, msgVars
  <2>2. QED BY <1>1, <2>1 DEF Fresh
<1>8. ASSUME NEW c \in Conns, Chatter(c) PROVE Fresh'
  BY <1>3, <1>8 DEF Chatter, connVars, msgVars
<1>9. ASSUME NEW m \in Msgs, SaveMessage(m) PROVE Fresh'
  <2>1. PICK c \in Conns \cup {NoConn} : /\ c # NoConn => link[c] \in {"up", "down", "over"}
                                         /\ via' = [via EXCEPT ![m] = c]
    BY <1>9 DEF SaveMessage
  <2>2. via'[m] = c /\ \A k \in Msgs \ {m} : via'[k] = via[k]
    BY <1>1, <2>1 DEF Queued
  <2>3. UNCHANGED <<link, queue>>
    BY <1>9 DEF SaveMessage, hubVars, connVars
  <2>4. QED BY <1>1, <2>1, <2>2, <2>3, OwnerAssumption DEF Fresh
<1>10. ASSUME NEW m \in Msgs, Confirm(m) PROVE Fresh'
  <2>1. via[m] \in Conns /\ link[via[m]] # "new"
    BY <1>1, <1>10 DEF Confirm, Queued, Fresh
  <2>2. UNCHANGED <<link, via>> /\ \A d \in Conns \ {via[m]} : queue'[d] = queue[d]
    BY <1>1, <1>10 DEF Confirm, Queued, connVars
  <2>3. QED BY <1>1, <2>1, <2>2 DEF Fresh
<1>11. ASSUME NEW m \in Msgs, BroadcastMessage(m) PROVE Fresh'
  <2>1. link' = link /\ \A k \in Msgs : via'[k] = via[k] \/ via'[k] = NoConn
    BY <1>1, <1>11 DEF BroadcastMessage, Queued, connVars
  <2>2. QED BY <1>3, <1>11, <2>1 DEF BroadcastMessage
<1>12. ASSUME NEW m \in Msgs, FilterOffline(m) \/ GiveUp(m) \/ Push(m) PROVE Fresh'
  BY <1>2, <1>12 DEF FilterOffline, GiveUp, Push, hubVars, connVars
<1>13. ASSUME NEW u \in Users, WindowPasses(u) PROVE Fresh'
  BY <1>2, <1>13 DEF WindowPasses, hubVars, connVars
<1>14. CASE UNCHANGED vars
  BY <1>2, <1>14 DEF vars, hubVars, connVars, msgVars
<1>15. QED BY <1>1, <1>4, <1>5, <1>6, <1>7, <1>8, <1>9, <1>10, <1>11, <1>12, <1>13, <1>14 DEF Next

(* What somebody who has read some users as online makes of run's           *)
(* announcement, which the newcomer himself does not get.                   *)
Understood(read, event, c) ==
  IF event = Quiet \/ (event.kind = "joined" /\ event.conn = c) THEN read
  ELSE IF event.kind = "joined" THEN read \cup {Owner[event.conn]}
  ELSE read \ {Owner[event.conn]}

LEMMA UnderstoodWell ==
  ASSUME NEW known, NEW q \in Seq(Item), NEW event \in Event, NEW c
  PROVE  Reading(known, IF event = Quiet \/ (event.kind = "joined" /\ event.conn = c) THEN q
                        ELSE Append(q, [kind |-> event.kind, users |-> {Owner[event.conn]}]))
           = Understood(Reading(known, q), event, c)
<1> DEFINE item == [kind |-> event.kind, users |-> {Owner[event.conn]}]
<1>1. CASE event = Quiet \/ (event.kind = "joined" /\ event.conn = c)
  BY <1>1 DEF Understood
<1>2. CASE ~(event = Quiet \/ (event.kind = "joined" /\ event.conn = c))
  <2>1. event.kind \in {"joined", "left"} /\ Owner[event.conn] \in Users
    BY <1>2, OwnerAssumption DEF Event
  <2>2. Reading(known, Append(q, item))
          = {u \in Users : SaysHere(item, u) \/ (u \in Reading(known, q) /\ ~SaysGone(item, u))}
    BY ReadingAppend
  <2>3. Reading(known, q) \subseteq Users
    BY DEF Reading
  <2>4. CASE event.kind = "joined"
    <3>1. \A u \in Users : (SaysHere(item, u) <=> u = Owner[event.conn]) /\ ~SaysGone(item, u)
      BY <2>4 DEF SaysHere, SaysGone
    <3>2. Reading(known, Append(q, item)) = Reading(known, q) \cup {Owner[event.conn]}
      BY <2>1, <2>2, <2>3, <3>1
    <3>3. QED BY <1>2, <2>4, <3>2 DEF Understood
  <2>5. CASE event.kind = "left"
    <3>1. \A u \in Users : ~SaysHere(item, u) /\ (SaysGone(item, u) <=> u = Owner[event.conn])
      BY <2>5 DEF SaysHere, SaysGone
    <3>2. Reading(known, Append(q, item)) = Reading(known, q) \ {Owner[event.conn]}
      BY <2>1, <2>2, <2>3, <3>1
    <3>3. QED BY <1>2, <2>5, <3>2 DEF Understood
  <2>6. QED BY <2>1, <2>4, <2>5
<1>3. QED BY <1>1, <1>2

LEMMA KnowsNow ==
  ASSUME Queued, NEW c \in Conns
  PROVE  Knows(c) = Understood(Reading(view[c], queue[c]), hub, c)
BY UnderstoodWell DEF Knows, Awaited, Queued

LEMMA KnowsNext ==
  ASSUME Queued', NEW c \in Conns
  PROVE  Knows(c)' = Understood(Reading(view'[c], queue'[c]), hub', c)
BY UnderstoodWell DEF Knows, Awaited, Queued

LEMMA OtherSaysNothing ==
  ASSUME NEW known, NEW q \in Seq(Item)
  PROVE  Reading(known, Offer(q, Other)) = Reading(known, q)
<1>1. \A u : ~SaysHere(Other, u) /\ ~SaysGone(Other, u)
  BY DEF Other, SaysHere, SaysGone
<1>2. Reading(known, Append(q, Other)) = Reading(known, q)
  <2>1. Reading(known, q) \subseteq Users
    BY DEF Reading
  <2>2. QED BY <1>1, <2>1, ReadingAppend
<1>3. QED BY <1>2 DEF Offer

(* Nobody comes, goes or is announced, and nobody reads anything new.       *)
LEMMA PresenceFrame ==
  ASSUME PresenceHonest, Shaped, Queued, Queued', UNCHANGED <<room, hub, ghosts>>,
         \A c \in room : Reading(view'[c], queue'[c]) = Reading(view[c], queue[c])
  PROVE  PresenceHonest'
<1>1. Online(room)' = Online(room)
  BY DEF Online
<1>2. ASSUME NEW c \in room PROVE Knows(c)' = Knows(c)
  <2>1. c \in Conns
    BY DEF Shaped
  <2>2. QED BY <2>1, KnowsNow, KnowsNext
<1>3. QED BY <1>1, <1>2 DEF PresenceHonest

(* Who remains after a broadcast knows as much, whatever has become of the  *)
(* announcement; those thrown out are ghosts.                               *)
LEMMA PresenceBroadcast ==
  ASSUME PresenceHonest, Shaped, Queued, Queued', NEW conns, NEW item, conns \subseteq room,
         Broadcast(conns, item), \A c \in room' : Knows(c)' = Knows(c)
  PROVE  PresenceHonest'
<1>1. /\ room' = room \ Full(conns) /\ Full(conns) \subseteq room
      /\ ghosts' = ghosts \cup (Online(Full(conns)) \ Online(room \ Full(conns)))
  BY BroadcastShrinks DEF Broadcast, ThrowOut
<1>2. Online(room)' = Online(room \ Full(conns))
  BY <1>1 DEF Online
<1>3. Online(room) = Online(room \ Full(conns)) \cup Online(Full(conns))
  BY <1>1 DEF Online
<1>4. QED BY <1>1, <1>2, <1>3 DEF PresenceHonest

LEMMA PresenceChatter ==
  ASSUME PresenceHonest, Shaped, Queued, Queued', NEW conns, conns \subseteq room,
         Broadcast(conns, Other), UNCHANGED <<hub, view>>
  PROVE  PresenceHonest'
<1>1. ASSUME NEW c \in room' PROVE Knows(c)' = Knows(c)
  <2>1. c \in Conns
    BY <1>1, BroadcastShrinks DEF Shaped
  <2>2. queue[c] \in Seq(Item)
    BY <2>1 DEF Queued
  <2>3. queue'[c] = queue[c] \/ queue'[c] = Offer(queue[c], Other)
    BY <2>1 DEF Broadcast, Enqueue
  <2>4. Reading(view'[c], queue'[c]) = Reading(view[c], queue[c])
    BY <2>2, <2>3, OtherSaysNothing
  <2>5. QED BY <2>1, <2>4, KnowsNow, KnowsNext
<1>2. QED BY <1>1, PresenceBroadcast

LEMMA PresenceStep ==
  /\ Shaped /\ ChannelInv /\ Queued /\ Queued' /\ Fresh /\ PresenceHonest
  /\ [Next]_vars
  => PresenceHonest'
<1>1. SUFFICES ASSUME Shaped, ChannelInv, Queued, Queued', Fresh, PresenceHonest, [Next]_vars
               PROVE  PresenceHonest'
  OBVIOUS
<1>2. CASE UNCHANGED <<room, hub, ghosts, queue, view>>
  BY <1>1, <1>2, PresenceFrame
<1>3. CASE HubAnnounce
  <2> DEFINE conns == IF hub.kind = "joined" THEN room \ {hub.conn} ELSE room
             item  == [kind |-> hub.kind, users |-> {Owner[hub.conn]}]
  <2>1. conns \subseteq room /\ Broadcast(conns, item) /\ view' = view /\ hub # Quiet /\ hub' = Quiet
    BY <1>3 DEF HubAnnounce, connVars
  <2>2. hub \in [kind : {"joined", "left"}, conn : Conns]
    BY <1>1, <2>1 DEF Queued, Event
  <2>3. ASSUME NEW c \in room' PROVE Knows(c)' = Knows(c)
    <3>1. c \in room /\ c \in Conns /\ c \notin Full(conns)
      BY <1>1, <2>1, <2>3, BroadcastShrinks DEF Shaped
    <3>2. Awaited(c)' = queue'[c]
      BY <2>1 DEF Awaited
    <3>3. CASE hub.kind = "joined" /\ hub.conn = c
      <4>1. queue'[c] = queue[c]
        BY <2>1, <3>1, <3>3 DEF Broadcast, Enqueue
      <4>2. Awaited(c) = queue[c]
        BY <3>3 DEF Awaited
      <4>3. QED BY <2>1, <3>2, <4>1, <4>2 DEF Knows
    <3>4. CASE ~(hub.kind = "joined" /\ hub.conn = c)
      <4>1. c \in conns
        BY <3>1, <3>4
      <4>2. Len(queue[c]) < Cap
        BY <1>1, <3>1, <4>1, CapAssumption DEF Full, Queued
      <4>3. queue'[c] = Append(queue[c], item)
        BY <2>1, <3>1, <4>1, <4>2 DEF Broadcast, Enqueue, Offer
      <4>4. Awaited(c) = Append(queue[c], item)
        BY <2>1, <3>4 DEF Awaited
      <4>5. QED BY <2>1, <3>2, <4>3, <4>4 DEF Knows
    <3>5. QED BY <3>3, <3>4
  <2>4. QED BY <1>1, <2>1, <2>3, PresenceBroadcast
<1>4. ASSUME NEW c \in Conns, HubRegister(c) PROVE PresenceHonest'
  <2> DEFINE snapshot == [kind |-> "snapshot", users |-> Online(room')]
  <2>1. /\ hub = Quiet /\ link[c] = "new" /\ room' = room \cup {c} /\ view' = view
        /\ queue' = [queue EXCEPT ![c] = Offer(queue[c], snapshot)]
        /\ hub' = IF Owner[c] \in Online(room) THEN Quiet ELSE [kind |-> "joined", conn |-> c]
        /\ ghosts' = ghosts \ {Owner[c]}
    BY <1>4 DEF HubRegister
  <2>2. c \notin room /\ queue[c] = <<>> /\ room \subseteq Conns /\ Owner[c] \in Users
    BY <1>1, <2>1, OwnerAssumption DEF ChannelInv, Fresh, Shaped
  <2>3. Online(room)' = Online(room) \cup {Owner[c]} /\ Online(room') = Online(room)'
    BY <2>1 DEF Online
  <2>4. Online(room') \subseteq Users
    BY <2>2, <2>3, OnlineUsers
  <2>5. Knows(c)' = Online(room')
    <3>1. queue'[c] = Append(queue[c], snapshot)
      BY <1>1, <2>1, <2>2, CapAssumption DEF Offer, Queued
    <3>2. \A u \in Users : (SaysHere(snapshot, u) <=> u \in Online(room'))
                           /\ (SaysGone(snapshot, u) <=> u \notin Online(room'))
      BY DEF SaysHere, SaysGone
    <3> HIDE DEF snapshot
    <3>3. queue[c] \in Seq(Item)
      BY <1>1 DEF Queued
    <3>4. Reading(view'[c], queue'[c])
            = {u \in Users : \/ SaysHere(snapshot, u)
                             \/ u \in Reading(view'[c], queue[c]) /\ ~SaysGone(snapshot, u)}
      BY <3>1, <3>3, ReadingAppend
    <3>5. Reading(view'[c], queue'[c]) = Online(room')
      BY <2>4, <3>2, <3>4
    <3>6. Understood(Online(room'), hub', c) = Online(room')
      BY <2>1 DEF Understood
    <3>7. QED BY <1>1, <3>5, <3>6, KnowsNext
  <2>6. ASSUME NEW d \in room PROVE Knows(d)' = Knows(d) \cup {Owner[c]} \/ (Owner[c] \in Online(room) /\ Knows(d)' = Knows(d))
    <3>1. d \in Conns /\ d # c /\ queue'[d] = queue[d]
      BY <1>1, <2>1, <2>2, <2>6 DEF Queued
    <3>2. Knows(d) = Reading(view[d], queue[d])
      BY <1>1, <2>1, <3>1, KnowsNow DEF Understood
    <3>3. Knows(d)' = Understood(Reading(view[d], queue[d]), hub', d)
      BY <1>1, <2>1, <3>1, KnowsNext
    <3>4. CASE Owner[c] \in Online(room)
      BY <2>1, <3>2, <3>3, <3>4 DEF Understood
    <3>5. CASE Owner[c] \notin Online(room)
      <4>1. hub' = [kind |-> "joined", conn |-> c] /\ hub' # Quiet
        BY <2>1, <3>5 DEF Quiet
      <4>2. Understood(Reading(view[d], queue[d]), hub', d) = Reading(view[d], queue[d]) \cup {Owner[c]}
        BY <3>1, <4>1 DEF Understood
      <4>3. QED BY <3>2, <3>3, <4>2
    <3>6. QED BY <3>4, <3>5
  <2>7. ASSUME NEW d \in room'
        PROVE  Online(room)' \subseteq Knows(d)' /\ Knows(d)' \subseteq Online(room)' \cup ghosts'
    <3>1. CASE d = c
      BY <2>3, <2>5, <3>1
    <3>2. CASE d \in room
      <4>1. Online(room) \subseteq Knows(d) /\ Knows(d) \subseteq Online(room) \cup ghosts
        BY <1>1, <3>2 DEF PresenceHonest
      <4>2. QED BY <2>1, <2>3, <2>6, <3>2, <4>1
    <3>3. QED BY <2>1, <2>7, <3>1, <3>2
  <2>8. QED BY <2>7 DEF PresenceHonest
<1>5. ASSUME NEW c \in Conns, HubUnregister(c) PROVE PresenceHonest'
  <2>1. /\ hub = Quiet /\ ghosts' = ghosts
        /\ queue' = [queue EXCEPT ![c] = <<>>] /\ view' = [view EXCEPT ![c] = {}]
    BY <1>5 DEF HubUnregister
  <2>2. CASE c \notin clients /\ UNCHANGED <<clients, room, closed, hub>>
    <3>1. \A d \in room : d # c /\ d \in Conns
      BY <1>1, <2>2 DEF ChannelInv, Shaped
    <3>2. \A d \in room : queue'[d] = queue[d] /\ view'[d] = view[d]
      BY <1>1, <2>1, <3>1 DEF Queued
    <3>3. QED BY <1>1, <2>1, <2>2, <3>2, PresenceFrame
  <2>3. CASE /\ c \in clients /\ room' = room \ {c}
             /\ hub' = IF Leaves(c) THEN [kind |-> "left", conn |-> c] ELSE Quiet
    <3>1. Online(room)' = Online(room \ {c}) /\ c \in room
      BY <1>1, <2>3 DEF Online, ChannelInv
    <3>2. Online(room) = Online(room \ {c}) \cup {Owner[c]}
      BY <3>1 DEF Online
    <3>3. ASSUME NEW d \in room'
          PROVE  /\ Knows(d) = Reading(view[d], queue[d])
                 /\ Knows(d)' = Understood(Reading(view[d], queue[d]), hub', d)
      <4>1. d \in Conns /\ d # c /\ queue'[d] = queue[d] /\ view'[d] = view[d]
        BY <1>1, <2>1, <2>3, <3>3 DEF Shaped, Queued
      <4>2. QED BY <1>1, <2>1, <4>1, KnowsNow, KnowsNext DEF Understood
    <3>4. CASE Leaves(c)
      <4>1. hub' = [kind |-> "left", conn |-> c] /\ hub' # Quiet
        BY <2>3, <3>4 DEF Quiet
      <4>2. \A d \in room' : Knows(d)' = Knows(d) \ {Owner[c]}
        BY <3>3, <4>1 DEF Understood
      <4>3. Owner[c] \notin Online(room \ {c})
        BY <3>4 DEF Leaves
      <4>4. QED BY <1>1, <2>1, <2>3, <3>1, <3>2, <4>2, <4>3 DEF PresenceHonest
    <3>5. CASE ~Leaves(c)
      <4>1. hub' = Quiet
        BY <2>3, <3>5
      <4>2. \A d \in room' : Knows(d)' = Knows(d)
        BY <3>3, <4>1 DEF Understood
      <4>3. Owner[c] \in Online(room \ {c})
        BY <3>5 DEF Leaves
      <4>4. QED BY <1>1, <2>1, <2>3, <3>1, <3>2, <4>2, <4>3 DEF PresenceHonest
    <3>6. QED BY <3>4, <3>5
  <2>4. QED BY <1>5, <2>2, <2>3 DEF HubUnregister
<1>6. ASSUME NEW c \in Conns, Break(c) \/ WritePumpEnd(c) PROVE PresenceHonest'
  BY <1>2, <1>6 DEF Break, WritePumpEnd, hubVars
<1>7. ASSUME NEW c \in Conns, WritePump(c) PROVE PresenceHonest'
  <2>1. /\ queue[c] # <<>> /\ queue' = [queue EXCEPT ![c] = Tail(queue[c])]
        /\ view' = [view EXCEPT ![c] = Told(view[c], Head(queue[c]))]
        /\ UNCHANGED <<room, hub, ghosts>>
    BY <1>7 DEF WritePump
  <2>2. ASSUME NEW d \in room PROVE Reading(view'[d], queue'[d]) = Reading(view[d], queue[d])
    <3>1. d \in Conns /\ queue[d] \in Seq(Item)
      BY <1>1, <2>2 DEF Shaped, Queued
    <3>2. CASE d = c
      <4>1. view'[d] = Told(view[d], Head(queue[d])) /\ queue'[d] = Tail(queue[d])
        BY <1>1, <2>1, <3>1, <3>2 DEF Queued
      <4>2. QED BY <2>1, <3>1, <3>2, <4>1, ReadingTail
    <3>3. CASE d # c
      BY <1>1, <2>1, <3>1, <3>3 DEF Queued
    <3>4. QED BY <3>2, <3>3
  <2>3. QED BY <1>1, <2>1, <2>2, PresenceFrame
<1>8. ASSUME NEW c \in Conns, Chatter(c) PROVE PresenceHonest'
  <2>1. PICK conns \in {room, room \ {c}} : Broadcast(conns, Other)
    BY <1>8 DEF Chatter
  <2>2. conns \subseteq room /\ UNCHANGED <<hub, view>>
    BY <1>8 DEF Chatter, connVars
  <2>3. QED BY <1>1, <2>1, <2>2, PresenceChatter
<1>9. ASSUME NEW m \in Msgs, Confirm(m) PROVE PresenceHonest'
  <2>1. UNCHANGED <<room, hub, ghosts, view>>
    BY <1>9 DEF Confirm, connVars
  <2>2. ASSUME NEW d \in room PROVE Reading(view'[d], queue'[d]) = Reading(view[d], queue[d])
    <3>1. d \in Conns /\ queue[d] \in Seq(Item)
      BY <1>1, <2>2 DEF Shaped, Queued
    <3>2. queue'[d] = queue[d] \/ queue'[d] = Offer(queue[d], Other)
      BY <1>1, <1>9, <3>1 DEF Confirm, Queued
    <3>3. QED BY <2>1, <3>1, <3>2, OtherSaysNothing
  <2>3. QED BY <1>1, <2>1, <2>2, PresenceFrame
<1>10. ASSUME NEW m \in Msgs, BroadcastMessage(m) PROVE PresenceHonest'
  <2>1. Broadcast(room, Other) /\ UNCHANGED <<hub, view>>
    BY <1>10 DEF BroadcastMessage, connVars
  <2>2. QED BY <1>1, <2>1, PresenceChatter
<1>11. ASSUME NEW m \in Msgs, SaveMessage(m) \/ FilterOffline(m) \/ GiveUp(m) \/ Push(m) PROVE PresenceHonest'
  BY <1>2, <1>11 DEF SaveMessage, FilterOffline, GiveUp, Push, hubVars, connVars
<1>12. ASSUME NEW u \in Users, WindowPasses(u) PROVE PresenceHonest'
  BY <1>2, <1>12 DEF WindowPasses, hubVars, connVars
<1>13. CASE UNCHANGED vars
  BY <1>2, <1>13 DEF vars, hubVars, connVars
<1>14. QED BY <1>1, <1>3, <1>4, <1>5, <1>6, <1>7, <1>8, <1>9, <1>10, <1>11, <1>12, <1>13 DEF Next

(* Everyone in the room is told of everyone in it, and nobody else is shown *)
(* as online but those a full channel has thrown out, whatever the order in *)
(* which the connections of any number of users come, talk, stall and go    *)
(* (hub.go's run and BroadcastToRoom).                                      *)
THEOREM PresenceStaysHonest == Spec => []PresenceHonest
<1>1. Init => Queued /\ Fresh /\ PresenceHonest /\ ChannelInv
  <2>1. SUFFICES ASSUME Init PROVE Queued /\ Fresh /\ PresenceHonest /\ ChannelInv
    OBVIOUS
  <2>2. <<>> \in Seq(Item) /\ Len(<<>>) <= Cap
    BY CapAssumption
  <2>3. queue \in [Conns -> Seq(Item)] /\ \A c \in Conns : Len(queue[c]) <= Cap
    BY <2>1, <2>2 DEF Init
  <2>4. Queued
    BY <2>1, <2>3 DEF Init, Queued, Event
  <2>5. QED BY <2>1, <2>4, OwnerAssumption DEF Init, Fresh, PresenceHonest, ChannelInv
<1>2. QED BY <1>1, ShapedAlways, ChannelStep, QueuedStep, FreshStep, PresenceStep, PTL DEF Spec

-----------------------------------------------------------------------------
(* Messages. *)

(* Between a broadcast and the look at who is in the room, whoever is there *)
(* has the message or came late; and nobody is spared a push who never had  *)
(* one.                                                                     *)
CoverInv ==
  /\ recent \subseteq buzzed
  /\ \A m \in Msgs : stage[m] = "sent" => Online(room) \subseteq covered[m] \cup late[m]
  /\ NobodyMissed

(* A step that takes nobody's message away and lets nobody in.              *)
LEMMA CoverFrame ==
  ASSUME CoverInv, room' \subseteq room, UNCHANGED <<author, covered, late, target, deaf>>,
         recent' \subseteq recent, buzzed' = buzzed,
         \A m \in Msgs : stage'[m] \in {"sent", "filtered", "done"} => stage'[m] = stage[m]
  PROVE  CoverInv'
<1>1. Online(room') \subseteq Online(room)
  BY OnlineUsers
<1>2. \A m \in Msgs : Recipients(m)' = Recipients(m)
  BY DEF Recipients
<1>3. Online(room)' = Online(room')
  BY DEF Online
<1>4. QED BY <1>1, <1>2, <1>3 DEF CoverInv, NobodyMissed

LEMMA CoverStep == Shaped /\ CoverInv /\ [Next]_vars => CoverInv'
<1>1. SUFFICES ASSUME Shaped, CoverInv, [Next]_vars PROVE CoverInv'
  OBVIOUS
<1>2. CASE room' \subseteq room /\ UNCHANGED msgVars
  BY <1>1, <1>2, CoverFrame DEF msgVars, pushVars
<1>3. CASE UNCHANGED vars
  BY <1>2, <1>3 DEF vars, hubVars
<1>4. CASE HubAnnounce
  BY <1>2, <1>4, BroadcastShrinks DEF HubAnnounce
<1>5. ASSUME NEW c \in Conns, HubRegister(c) PROVE CoverInv'
  <2>1. /\ room' = room \cup {c} /\ UNCHANGED <<stage, author, covered, target, deaf, recent, buzzed>>
        /\ \A m \in Msgs : late'[m] = IF stage[m] = "sent" THEN late[m] \cup {Owner[c]} ELSE late[m]
    BY <1>1, <1>5 DEF HubRegister, pushVars
  <2>2. Online(room') = Online(room) \cup {Owner[c]} /\ Online(room)' = Online(room')
    BY <2>1 DEF Online
  <2>3. \A m \in Msgs : late[m] \subseteq late'[m] /\ Recipients(m)' = Recipients(m)
    BY <2>1 DEF Recipients
  <2>4. QED BY <1>1, <2>1, <2>2, <2>3 DEF CoverInv, NobodyMissed
<1>6. ASSUME NEW c \in Conns, HubUnregister(c) PROVE CoverInv'
  BY <1>2, <1>6 DEF HubUnregister
<1>7. ASSUME NEW c \in Conns, Break(c) \/ WritePump(c) \/ WritePumpEnd(c) PROVE CoverInv'
  BY <1>2, <1>7 DEF Break, WritePump, WritePumpEnd, hubVars
<1>8. ASSUME NEW c \in Conns, Chatter(c) PROVE CoverInv'
  BY <1>2, <1>8, BroadcastShrinks DEF Chatter
<1>9. ASSUME NEW m \in Msgs, SaveMessage(m) \/ Confirm(m) PROVE CoverInv'
  <2>1. /\ room' = room /\ UNCHANGED <<author, covered, late, target, deaf, recent, buzzed>>
        /\ \A k \in Msgs : stage'[k] \in {"sent", "filtered", "done"} => stage'[k] = stage[k]
    BY <1>1, <1>9 DEF SaveMessage, Confirm, Step, hubVars, pushVars, Shaped
  <2>2. QED BY <1>1, <2>1, CoverFrame
<1>10. ASSUME NEW m \in Msgs, BroadcastMessage(m) PROVE CoverInv'
  <2>1. room' = room \ Full(room) /\ UNCHANGED <<author, late, target, deaf, recent, buzzed>>
    BY <1>10, BroadcastShrinks DEF BroadcastMessage, pushVars
  <2>2. /\ stage'[m] = "sent" /\ covered'[m] = covered[m] \cup Online(room \ Full(room))
        /\ \A k \in Msgs \ {m} : stage'[k] = stage[k] /\ covered'[k] = covered[k]
    BY <1>1, <1>10 DEF BroadcastMessage, Step, Shaped
  <2>3. Online(room)' \subseteq Online(room) /\ Online(room)' = Online(room \ Full(room))
    BY <2>1, OnlineUsers DEF Online
  <2>4. \A k \in Msgs : Recipients(k)' = Recipients(k)
    BY <2>1 DEF Recipients
  <2>5. QED BY <1>1, <2>1, <2>2, <2>3, <2>4 DEF CoverInv, NobodyMissed
<1>11. ASSUME NEW m \in Msgs, FilterOffline(m) PROVE CoverInv'
  <2>1. UNCHANGED <<room, author, covered, deaf, recent, buzzed>>
    BY <1>11 DEF FilterOffline, hubVars
  <2>2. /\ stage[m] = "sent" /\ stage'[m] = "filtered" /\ target'[m] = Recipients(m) \ Online(room)
        /\ late'[m] = late[m] \cap Online(room)
        /\ \A k \in Msgs \ {m} : stage'[k] = stage[k] /\ target'[k] = target[k] /\ late'[k] = late[k]
    BY <1>1, <1>11 DEF FilterOffline, Step, Shaped
  <2>3. \A k \in Msgs : Recipients(k)' = Recipients(k)
    BY <2>1 DEF Recipients
  <2>4. Online(room)' = Online(room)
    BY <2>1 DEF Online
  <2>5. Recipients(m) \subseteq covered[m] \cup target'[m] \cup late'[m]
    BY <1>1, <2>2 DEF CoverInv
  <2>6. QED BY <1>1, <2>1, <2>2, <2>3, <2>4, <2>5 DEF CoverInv, NobodyMissed
<1>12. ASSUME NEW m \in Msgs, Push(m) PROVE CoverInv'
  <2>1. PICK out \in SUBSET target[m] :
          LET allowed == (target[m] \ out) \ recent
          IN  /\ deaf' = [deaf EXCEPT ![m] = out] /\ recent' = recent \cup allowed
              /\ buzzed' = buzzed \cup allowed /\ covered' = [covered EXCEPT ![m] = @ \cup allowed]
    BY <1>12 DEF Push
  <2> DEFINE allowed == (target[m] \ out) \ recent
  <2>2. UNCHANGED <<room, author, late>> /\ recent' = recent \cup allowed /\ buzzed' = buzzed \cup allowed
    BY <1>12, <2>1 DEF Push, hubVars
  <2>3. /\ stage[m] = "filtered" /\ stage'[m] = "done"
        /\ covered'[m] = covered[m] \cup allowed /\ deaf'[m] = out
        /\ \A k \in Msgs \ {m} : /\ stage'[k] = stage[k] /\ covered'[k] = covered[k]
                                /\ target'[k] = target[k] /\ deaf'[k] = deaf[k]
    BY <1>1, <1>12, <2>1 DEF Push, Step, Shaped
  <2>4. \A k \in Msgs : Recipients(k)' = Recipients(k)
    BY <2>2 DEF Recipients
  <2>5. Online(room)' = Online(room)
    BY <2>2 DEF Online
  <2>6. Recipients(m) \subseteq covered[m] \cup allowed \cup buzzed \cup late[m] \cup out
    BY <1>1, <2>3 DEF CoverInv, NobodyMissed
  <2>7. QED BY <1>1, <2>2, <2>3, <2>4, <2>5, <2>6 DEF CoverInv, NobodyMissed
<1>13. ASSUME NEW u \in Users, WindowPasses(u) PROVE CoverInv'
  BY <1>1, <1>13, CoverFrame DEF WindowPasses, hubVars
<1>14. ASSUME NEW m \in Msgs, GiveUp(m) PROVE CoverInv'
  <2>1. UNCHANGED <<room, author, covered, late, deaf, recent, buzzed>>
    BY <1>14 DEF GiveUp, hubVars
  <2>2. /\ stage'[m] = "dropped"
        /\ \A k \in Msgs \ {m} : stage'[k] = stage[k] /\ target'[k] = target[k]
    BY <1>1, <1>14 DEF GiveUp, Step, Shaped
  <2>3. Online(room)' = Online(room) /\ \A k \in Msgs : Recipients(k)' = Recipients(k)
    BY <2>1 DEF Online, Recipients
  <2>4. QED BY <1>1, <2>1, <2>2, <2>3 DEF CoverInv, NobodyMissed
<1>15. QED BY <1>1, <1>3, <1>4, <1>5, <1>6, <1>7, <1>8, <1>9, <1>10, <1>11, <1>12, <1>13, <1>14 DEF Next

(* Unless the fan-out gives up, every recipient has the message over a      *)
(* connection, or is sent a push for it or for one just before, but for who *)
(* has no token or wants no push, and for who entered the room after the    *)
(* broadcast and is found there (chat.go:900-1009 with the broadcast and    *)
(* the registration of websocket.go).                                       *)
THEOREM MessagesReach == Spec => []NobodyMissed
<1>1. Init => CoverInv
  BY DEF Init, CoverInv, NobodyMissed
<1>2. CoverInv => NobodyMissed
  BY DEF CoverInv
<1>3. QED BY <1>1, <1>2, CoverStep, ShapedAlways, PTL DEF Spec

-----------------------------------------------------------------------------
(* Pages and the read cursor.                                              *)

CallTypes == {NoCall} \cup [step : {"read"}] \cup [step : {"timed"}, at : 1..MaxClock]

(* What a read request may become. *)
LEMMA CallsTyped == HistoryTypeOK /\ [HistoryNext]_historyVars => HistoryTypeOK'
<1>1. SUFFICES ASSUME HistoryTypeOK, [HistoryNext]_historyVars PROVE HistoryTypeOK'
  OBVIOUS
<1>2. CASE UNCHANGED historyVars
  BY <1>1, <1>2 DEF HistoryTypeOK, historyVars
<1>3. CASE Tick
  BY <1>1, <1>3, HistoryAssumption DEF HistoryTypeOK, Tick
<1>4. ASSUME NEW x \in Messages, StampMessage(x) \/ StoreMessage(x) PROVE HistoryTypeOK'
  BY <1>1, <1>4, HistoryAssumption DEF HistoryTypeOK, StampMessage, StoreMessage
<1>5. ASSUME NEW q \in Calls, NEW mark \in BOOLEAN, GetMessages(q, mark) PROVE HistoryTypeOK'
  BY <1>1, <1>5 DEF HistoryTypeOK, GetMessages
<1>6. ASSUME NEW q \in Calls, MarkRead(q) PROVE HistoryTypeOK'
  BY <1>1, <1>6 DEF HistoryTypeOK, MarkRead
<1>7. ASSUME NEW q \in Calls, TakeTime(q) PROVE HistoryTypeOK'
  BY <1>1, <1>7 DEF HistoryTypeOK, TakeTime
<1>8. ASSUME NEW q \in Calls, UpsertReadCursor(q) PROVE HistoryTypeOK'
  <2>1. call[q] \in [step : {"timed"}, at : 1..MaxClock]
    BY <1>1, <1>8 DEF HistoryTypeOK, UpsertReadCursor, NoCall
  <2>2. cursor' \in 0..MaxClock
    BY <1>1, <1>8, <2>1, HistoryAssumption DEF HistoryTypeOK, UpsertReadCursor, CursorOf
  <2>3. QED BY <1>1, <1>8, <2>2 DEF HistoryTypeOK, UpsertReadCursor
<1>9. QED BY <1>1, <1>2, <1>3, <1>4, <1>5, <1>6, <1>7, <1>8 DEF HistoryNext

(* Messages carry times of the past, the cursor is one, and requests are    *)
(* well formed.                                                             *)
THEOREM HistoryTypeCorrect == HistorySpec => []HistoryTypeOK
<1>1. HistoryInit => HistoryTypeOK
  BY HistoryAssumption DEF HistoryInit, HistoryTypeOK, Messages
<1>2. QED BY <1>1, CallsTyped, PTL DEF HistorySpec

-----------------------------------------------------------------------------
(* The badge. *)

(* Whatever time the cursor has, or a request is about to give it, the      *)
(* messages before it were offered to the reader: later ones bear a later   *)
(* time, because the clock does not go back.                                *)
Offered(t) == \A x \in Messages : sent[x] = 0 \/ x \in excused \/ sent[x] >= t

OfferedInv ==
  /\ \A x \in stored : x \in Messages /\ sent[x] # 0
  /\ Offered(cursor)
  /\ \A q \in Calls : call[q].step = "timed" => Offered(call[q].at)
  /\ cursor <= now
  /\ \A q \in Calls : call[q].step = "timed" => call[q].at <= now

LEMMA OfferedEnough == HistoryTypeOK /\ OfferedInv => BadgeHonest
<1>1. SUFFICES ASSUME HistoryTypeOK, OfferedInv, NEW x \in stored \ Own
               PROVE  /\ x \notin Unread => x \in excused \/ sent[x] = cursor
                      /\ ReadBy(x) <=> x \notin Unread
  BY DEF BadgeHonest
<1>2. x \in Messages /\ sent[x] \in Nat /\ cursor \in Nat /\ sent[x] # 0
  BY <1>1, HistoryAssumption DEF HistoryTypeOK, OfferedInv
<1>3. x \in excused \/ sent[x] >= cursor
  BY <1>1, <1>2 DEF OfferedInv, Offered
<1>4. x \notin Unread <=> sent[x] <= cursor
  BY <1>1, <1>2 DEF Unread
<1>5. QED BY <1>2, <1>3, <1>4 DEF ReadBy

(* A message may be stamped, or offered, without breaking the promise.      *)
LEMMA OfferedKept ==
  ASSUME HistoryTypeOK, NEW t \in Nat, t <= now, Offered(t), excused \subseteq excused',
         \A x \in Messages : sent'[x] = sent[x] \/ sent'[x] = now
  PROVE  Offered(t)'
BY HistoryAssumption DEF HistoryTypeOK, Offered

LEMMA OfferedStep == HistoryTypeOK /\ OfferedInv /\ [HistoryNext]_historyVars => OfferedInv'
<1>1. SUFFICES ASSUME HistoryTypeOK, OfferedInv, [HistoryNext]_historyVars PROVE OfferedInv'
  OBVIOUS
<1>t. now \in Nat /\ cursor \in Nat /\ stored \subseteq Messages
  BY <1>1, HistoryAssumption DEF HistoryTypeOK
<1>a. \A q \in Calls : call[q].step = "timed" => call[q].at \in Nat
  BY <1>1, HistoryAssumption DEF HistoryTypeOK, NoCall
<1>2. CASE UNCHANGED historyVars
  BY <1>1, <1>2 DEF historyVars, OfferedInv, Offered
<1>3. CASE Tick
  <2>1. UNCHANGED <<sent, stored, cursor, call, excused>> /\ now' = now + 1
    BY <1>3 DEF Tick
  <2>2. cursor <= now' /\ \A q \in Calls : call[q].step = "timed" => call[q].at <= now'
    BY <1>1, <1>t, <1>a, <2>1 DEF OfferedInv
  <2>3. QED BY <1>1, <2>1, <2>2 DEF OfferedInv, Offered
<1>4. CASE \E x \in Messages : StampMessage(x) \/ StoreMessage(x)
  <2>1. UNCHANGED <<now, cursor, call, excused>>
    BY <1>4 DEF StampMessage, StoreMessage
  <2>2. \A x \in Messages : sent'[x] = sent[x] \/ sent'[x] = now
    BY <1>1, <1>4 DEF StampMessage, StoreMessage, HistoryTypeOK
  <2>3. \A x \in stored' : x \in Messages /\ sent'[x] # 0
    BY <1>1, <1>4 DEF StampMessage, StoreMessage, HistoryTypeOK, OfferedInv
  <2>4. Offered(cursor)'
    BY <1>1, <1>t, <2>1, <2>2, OfferedKept DEF OfferedInv, Offered
  <2>5. ASSUME NEW q \in Calls, call[q].step = "timed" PROVE Offered(call[q].at)'
    BY <1>1, <1>a, <2>1, <2>2, <2>5, OfferedKept DEF OfferedInv, Offered
  <2>6. QED BY <1>1, <2>1, <2>3, <2>4, <2>5 DEF OfferedInv
<1>5. ASSUME NEW q \in Calls, NEW r \in {[step |-> "read"]},
             UNCHANGED <<now, sent, stored, cursor>>, excused' = excused \cup stored,
             call' = call \/ call' = [call EXCEPT ![q] = r]
      PROVE  OfferedInv'
  <2>1. \A p \in Calls : call'[p].step = "timed" => call[p].step = "timed" /\ call'[p] = call[p]
    BY <1>1, <1>5 DEF HistoryTypeOK
  <2>2. QED BY <1>1, <1>5, <2>1 DEF OfferedInv, Offered
<1>6. CASE \E q \in Calls, mark \in BOOLEAN : GetMessages(q, mark) \/ MarkRead(q)
  BY <1>5, <1>6 DEF GetMessages, MarkRead
<1>7. ASSUME NEW q \in Calls, TakeTime(q) PROVE OfferedInv'
  <2>1. /\ UNCHANGED <<now, sent, stored, cursor>>
        /\ excused' = excused \cup {x \in Messages : sent[x] # 0}
        /\ call'[q] = [step |-> "timed", at |-> now]
        /\ \A p \in Calls \ {q} : call'[p] = call[p]
    BY <1>1, <1>7 DEF TakeTime, HistoryTypeOK
  <2>2. \A x \in Messages : sent'[x] = 0 \/ x \in excused'
    BY <2>1
  <2>3. now <= now
    BY <1>t
  <2>4. QED BY <1>1, <2>1, <2>2, <2>3 DEF OfferedInv, Offered
<1>8. ASSUME NEW q \in Calls, UpsertReadCursor(q) PROVE OfferedInv'
  <2>1. /\ UNCHANGED <<now, sent, stored, excused>>
        /\ call[q].step = "timed"
        /\ cursor' = call[q].at \/ cursor' = cursor
        /\ \A p \in Calls : call'[p].step = "timed" => call[p].step = "timed" /\ call'[p] = call[p]
    BY <1>1, <1>8 DEF UpsertReadCursor, HistoryTypeOK, CursorOf, NoCall
  <2>2. QED BY <1>1, <2>1 DEF OfferedInv, Offered
<1>9. QED BY <1>1, <1>2, <1>3, <1>4, <1>6, <1>7, <1>8 DEF HistoryNext

(* A message of somebody else leaves the badge only if it was there when    *)
(* the reader opened or marked the chat, or was posted before that request  *)
(* took its time, or in the same instant (chat.go:265-280, 1253-1266).      *)
THEOREM BadgesHonest == HistorySpec => []BadgeHonest
<1>1. HistoryInit => OfferedInv
  BY HistoryAssumption DEF HistoryInit, OfferedInv, Offered, NoCall
<1>2. QED BY <1>1, OfferedStep, OfferedEnough, HistoryTypeCorrect, PTL DEF HistorySpec

-----------------------------------------------------------------------------
(* The cursor's direction. *)

AloneInv == crossed \/
  /\ \A p, q \in Marking : p = q
  /\ \A q \in Calls : call[q].step = "timed" => call[q].at >= cursor

LEMMA AloneStep ==
  HistoryTypeOK /\ OfferedInv /\ AloneInv /\ [HistoryNext]_historyVars =>
    AloneInv' /\ (cursor' >= cursor \/ crossed)
<1>1. SUFFICES ASSUME HistoryTypeOK, OfferedInv, AloneInv, [HistoryNext]_historyVars
               PROVE  AloneInv' /\ (cursor' >= cursor \/ crossed)
  OBVIOUS
<1>t. /\ now \in Nat /\ cursor \in Nat /\ cursor <= now
      /\ \A q \in Calls : call[q].step = "timed" => call[q].at \in Nat /\ call[q] # NoCall
  BY <1>1, HistoryAssumption DEF HistoryTypeOK, NoCall, OfferedInv
<1>2. CASE UNCHANGED <<call, cursor, crossed>>
  BY <1>1, <1>t, <1>2 DEF AloneInv, Marking
<1>3. ASSUME NEW q \in Calls, UNCHANGED cursor, call[q] = NoCall,
             call' = [call EXCEPT ![q] = [step |-> "read"]], crossed' = (crossed \/ Marking # {})
      PROVE  AloneInv'
  <2>1. CASE crossed'
    BY <2>1 DEF AloneInv
  <2>2. CASE ~crossed'
    <3>1. Marking = {} /\ ~crossed
      BY <1>3, <2>2
    <3>2. \A p \in Calls : p # q => call'[p] = NoCall
      BY <1>1, <1>3, <3>1 DEF Marking, HistoryTypeOK
    <3>3. Marking' \subseteq {q}
      BY <3>2 DEF Marking
    <3>4. \A p \in Calls : call'[p].step # "timed"
      BY <1>1, <1>3, <3>2 DEF HistoryTypeOK, NoCall
    <3>5. QED BY <3>3, <3>4 DEF AloneInv
  <2>3. QED BY <2>1, <2>2
<1>4. ASSUME NEW q \in Calls, TakeTime(q) PROVE AloneInv'
  <2>1. /\ UNCHANGED <<cursor, crossed>> /\ call[q] # NoCall
        /\ call'[q] = [step |-> "timed", at |-> now]
        /\ \A p \in Calls \ {q} : call'[p] = call[p]
    BY <1>1, <1>4 DEF TakeTime, HistoryTypeOK, NoCall
  <2>2. Marking' \subseteq Marking
    BY <2>1 DEF Marking
  <2>3. QED BY <1>1, <1>t, <2>1, <2>2 DEF AloneInv
<1>5. ASSUME NEW q \in Calls, UpsertReadCursor(q) PROVE AloneInv' /\ (cursor' >= cursor \/ crossed)
  <2>1. /\ UNCHANGED crossed /\ call[q].step = "timed" /\ q \in Marking
        /\ cursor' = call[q].at \/ cursor' = cursor
        /\ call'[q] = NoCall
        /\ \A p \in Calls \ {q} : call'[p] = call[p]
    BY <1>1, <1>t, <1>5 DEF UpsertReadCursor, HistoryTypeOK, CursorOf, Marking
  <2>2. CASE crossed
    BY <2>1, <2>2 DEF AloneInv
  <2>3. CASE ~crossed
    <3>1. \A p \in Calls \ {q} : call[p] = NoCall
      BY <1>1, <2>1, <2>3 DEF AloneInv, Marking
    <3>2. \A p \in Calls : call'[p] = NoCall
      BY <2>1, <3>1
    <3>3. cursor' >= cursor
      BY <1>1, <1>t, <2>1, <2>3 DEF AloneInv
    <3>4. AloneInv'
      BY <3>2 DEF AloneInv, Marking, NoCall
    <3>5. QED BY <3>3, <3>4
  <2>4. QED BY <2>2, <2>3
<1>6. CASE Tick \/ \E x \in Messages : StampMessage(x) \/ StoreMessage(x)
  BY <1>2, <1>6 DEF Tick, StampMessage, StoreMessage
<1>7. CASE \E q \in Calls, mark \in BOOLEAN : GetMessages(q, mark)
  BY <1>2, <1>3, <1>t, <1>7 DEF GetMessages
<1>8. CASE \E q \in Calls : MarkRead(q)
  <2>1. cursor' = cursor /\ cursor' >= cursor
    BY <1>t, <1>8 DEF MarkRead
  <2>2. AloneInv'
    BY <1>3, <1>8 DEF MarkRead
  <2>3. QED BY <2>1, <2>2
<1>9. CASE \E q \in Calls : TakeTime(q)
  <2>1. cursor' = cursor /\ cursor' >= cursor
    BY <1>t, <1>9 DEF TakeTime
  <2>2. QED BY <1>4, <1>9, <2>1
<1>10. CASE UNCHANGED historyVars
  BY <1>2, <1>10 DEF historyVars
<1>11. QED BY <1>1, <1>5, <1>6, <1>7, <1>8, <1>9, <1>10 DEF HistoryNext

(* The upsert keeps no maximum, and yet the cursor, and with it badges and  *)
(* receipts, goes back only after two requests of the reader were under way *)
(* together (chat.go:265-280).                                              *)
THEOREM CursorOnlyForward == HistorySpec => CursorForward
<1>1. HistoryInit => AloneInv
  BY DEF HistoryInit, AloneInv, Marking, NoCall
<1>2. HistoryTypeOK /\ OfferedInv /\ AloneInv /\ [HistoryNext]_historyVars =>
        [cursor' >= cursor \/ crossed]_historyVars
  BY AloneStep
<1>3. HistoryInit => OfferedInv
  BY HistoryAssumption DEF HistoryInit, OfferedInv, Offered, NoCall
<1>4. QED BY <1>1, <1>2, <1>3, AloneStep, OfferedStep, HistoryTypeCorrect, PTL
            DEF HistorySpec, CursorForward

-----------------------------------------------------------------------------
(* Pages. *)

Scrolls == [open : BOOLEAN, first : SUBSET Messages, shown : SUBSET Messages, before : Nat,
            edges : SUBSET Nat, more : BOOLEAN]

(* What was there at first and is not shown yet is before the end of the    *)
(* last page, or in the second of an end.                                   *)
GapInv ==
  /\ scroll \in Scrolls
  /\ scroll.first \subseteq stored
  /\ scroll.open \/ (scroll.first = {} /\ scroll.before = 0)
  /\ \A x \in scroll.first \ scroll.shown :
       \/ scroll.more /\ (scroll.before = 0 \/ sent[x] < scroll.before)
       \/ SecondOf(sent[x]) \in scroll.edges

(* Division by a second: what the provers know of it. *)
LEMMA DivisionFacts ==
  ASSUME NEW m \in Nat, NEW n \in Nat, n > 0
  PROVE  m \div n \in Nat /\ n * (m \div n) <= m /\ m < n * (m \div n) + n
<1>1. m \div n \in Int
  OBVIOUS
<1>2. m \div n >= 0
  OBVIOUS
<1>3. m = n * (m \div n) + (m % n)
  OBVIOUS
<1>4. m % n \in 0..(n - 1)
  OBVIOUS
<1>5. n * (m \div n) \in Int
  BY <1>1
<1>6. QED BY <1>1, <1>2, <1>3, <1>4, <1>5

LEMMA QuotientUnique ==
  ASSUME NEW m \in Nat, NEW n \in Nat, n > 0, NEW q \in Nat, m >= q * n, m < q * n + n
  PROVE  m \div n = q
OBVIOUS

(* Between the beginning of a second and a time in it, there is no other.   *)
LEMMA SameSecond ==
  ASSUME NEW t \in Nat, NEW m \in Nat, t <= m, t >= Wire(m)
  PROVE  SecondOf(t) = SecondOf(m)
<1>0. Second \in Nat /\ Second > 0
  BY HistoryAssumption
<1> DEFINE q == m \div Second
<1>1. q \in Nat /\ Second * q <= m /\ m < Second * q + Second
  BY <1>0, DivisionFacts
<1>2. Wire(m) = q * Second
  BY DEF Wire, SecondOf
<1>3. q * Second = Second * q /\ q * Second \in Nat
  BY <1>0, <1>1
<1> HIDE DEF q
<1>4. t >= q * Second /\ t < q * Second + Second
  BY <1>0, <1>1, <1>2, <1>3
<1>5. t \div Second = q
  BY <1>0, <1>1, <1>4, QuotientUnique
<1>6. QED BY <1>5 DEF SecondOf, q

LEMMA WireTyped ==
  ASSUME NEW t \in Nat
  PROVE  Wire(t) \in Nat /\ SecondOf(t) \in Nat /\ Wire(t) <= t
<1>0. Second \in Nat /\ Second > 0
  BY HistoryAssumption
<1> DEFINE q == t \div Second
<1>1. q \in Nat /\ Second * q <= t
  BY <1>0, DivisionFacts
<1> HIDE DEF q
<1>2. q * Second = Second * q /\ q * Second \in Nat
  BY <1>0, <1>1
<1>3. QED BY <1>1, <1>2 DEF Wire, SecondOf, q

(* A page is the newest of what is older than the end of the last one.      *)
LEMMA PageFacts ==
  ASSUME HistoryTypeOK, NEW P \in Pages(scroll.before)
  PROVE  /\ P \subseteq stored /\ IsFiniteSet(P)
         /\ \A x \in stored \ P : scroll.before = 0 \/ sent[x] < scroll.before =>
              Cardinality(P) = PageLimit /\ \A y \in P : sent[y] >= sent[x]
<1> DEFINE older == {x \in stored : scroll.before = 0 \/ sent[x] < scroll.before}
           space  == {PageLimit, Cardinality(older)}
<1>1. IsFiniteSet(older) /\ Cardinality(older) \in Nat
  <2>1. IsFiniteSet(Messages)
    BY HistoryAssumption, FS_Interval DEF Messages
  <2>2. older \subseteq Messages
    BY DEF HistoryTypeOK
  <2>3. QED BY <2>1, <2>2, FS_Subset, FS_CardinalityType
<1>2. P \subseteq older /\ Cardinality(P) = Min(space)
      /\ \A x \in P, y \in older \ P : sent[x] >= sent[y]
  BY DEF Pages, kSubset
<1>3. Min(space) \in space /\ Min(space) <= Cardinality(older)
  <2>1. PageLimit \in Nat
    BY HistoryAssumption
  <2>2. \E m \in space : \A n \in space : m <= n
    BY <1>1, <2>1
  <2>3. QED BY <2>2 DEF Min
<1>4. IsFiniteSet(P)
  BY <1>1, <1>2, FS_Subset
<1>5. CASE Cardinality(P) = PageLimit
  BY <1>2, <1>4, <1>5
<1>6. CASE Cardinality(P) # PageLimit
  <2>1. Cardinality(P) = Cardinality(older)
    BY <1>2, <1>3, <1>6
  <2>2. P = older
    BY <1>1, <1>2, <2>1, FS_Subset
  <2>3. QED BY <1>2, <1>4, <2>2
<1>7. QED BY <1>5, <1>6

LEMMA LeastNumber ==
  ASSUME NEW T, T \subseteq Nat, T # {}
  PROVE  \E m \in T : \A n \in T : m <= n
<1>1. \E m \in T : \A n \in T : ~ (<<n, m>> \in OpToRel(<, Nat))
  BY NatLessThanWellFounded, WFMin
<1>2. PICK m \in T : \A n \in T : ~ (<<n, m>> \in OpToRel(<, Nat))
  BY <1>1
<1>3. ASSUME NEW n \in T PROVE m <= n
  <2>1. ~ (n < m)
    BY <1>2 DEF OpToRel
  <2>2. m \in Nat /\ n \in Nat
    OBVIOUS
  <2>3. QED BY <2>1, <2>2
<1>4. QED BY <1>3

(* The oldest of a page is one of its times. *)
LEMMA OldestFacts ==
  ASSUME HistoryTypeOK, NEW P, P \subseteq Messages, P # {}
  PROVE  /\ \E x \in P : Oldest(P) = sent[x]
         /\ Oldest(P) \in Nat
<1> DEFINE times == {sent[x] : x \in P}
<1>1. times \subseteq Nat /\ times # {}
  BY HistoryAssumption DEF HistoryTypeOK
<1>2. \E m \in times : \A n \in times : m <= n
  BY <1>1, LeastNumber
<1>3. Oldest(P) \in times
  BY <1>2 DEF Oldest, Min
<1>4. QED BY <1>1, <1>3

LEMMA PageKeepsGap ==
  ASSUME HistoryTypeOK, GapInv, scroll.more, NEW P \in Pages(scroll.before), scroll' = Turn(P),
         UNCHANGED <<sent, stored>>
  PROVE  GapInv'
<1>1. /\ P \subseteq stored /\ P \subseteq Messages /\ stored \subseteq Messages
      /\ \A x \in stored \ P : scroll.before = 0 \/ sent[x] < scroll.before =>
           Cardinality(P) = PageLimit /\ \A y \in P : sent[y] >= sent[x]
  BY PageFacts DEF HistoryTypeOK
<1>2. P # {} => /\ Oldest(P) \in Nat /\ Wire(Oldest(P)) \in Nat /\ SecondOf(Oldest(P)) \in Nat
                /\ \E y \in P : Oldest(P) = sent[y]
  BY <1>1, OldestFacts, WireTyped
<1>3. /\ scroll'.open /\ scroll'.first = (IF scroll.open THEN scroll.first ELSE stored)
      /\ scroll'.shown = scroll.shown \cup P
      /\ scroll'.edges = IF P = {} THEN scroll.edges ELSE scroll.edges \cup {SecondOf(Oldest(P))}
      /\ scroll'.before = IF P = {} THEN scroll.before ELSE Wire(Oldest(P))
      /\ scroll'.more = (Cardinality(P) = PageLimit)
      /\ scroll' \in Scrolls
  BY <1>1, <1>2 DEF GapInv, Scrolls, Turn
<1>4. ASSUME NEW x \in scroll'.first \ scroll'.shown
      PROVE  \/ scroll'.more /\ (scroll'.before = 0 \/ sent[x] < scroll'.before)
             \/ SecondOf(sent[x]) \in scroll'.edges
  <2>1. /\ x \in stored \ P /\ x \in Messages /\ sent[x] \in Nat
        /\ x \in scroll.first \ scroll.shown \/ ~scroll.open
    BY <1>1, <1>3, <1>4, HistoryAssumption DEF GapInv, HistoryTypeOK
  <2>2. CASE SecondOf(sent[x]) \in scroll.edges
    BY <1>3, <2>2
  <2>3. CASE scroll.before = 0 \/ sent[x] < scroll.before
    <3>1. Cardinality(P) = PageLimit /\ \A y \in P : sent[y] >= sent[x]
      BY <1>1, <2>1, <2>3
    <3>2. CASE P = {}
      BY <1>3, <2>3, <3>1, <3>2
    <3>3. CASE P # {}
      <4>1. Oldest(P) \in Nat /\ Wire(Oldest(P)) \in Nat /\ sent[x] <= Oldest(P)
        BY <1>2, <2>1, <3>1, <3>3
      <4>2. CASE sent[x] < Wire(Oldest(P))
        BY <1>3, <3>1, <3>3, <4>2
      <4>3. CASE sent[x] >= Wire(Oldest(P))
        BY <1>3, <2>1, <3>3, <4>1, <4>3, SameSecond
      <4>4. QED BY <2>1, <4>1, <4>2, <4>3
    <3>4. QED BY <3>2, <3>3
  <2>4. QED BY <2>1, <2>2, <2>3 DEF GapInv
<1>5. QED BY <1>1, <1>3, <1>4 DEF GapInv

LEMMA GapStep == HistoryTypeOK /\ OfferedInv /\ GapInv /\ [HistoryNext]_historyVars => GapInv'
<1>1. SUFFICES ASSUME HistoryTypeOK, OfferedInv, GapInv, [HistoryNext]_historyVars PROVE GapInv'
  OBVIOUS
<1>2. CASE UNCHANGED <<scroll, sent, stored>>
  BY <1>1, <1>2 DEF GapInv, Scrolls, SecondOf
<1>3. ASSUME NEW x \in Messages, StampMessage(x) PROVE GapInv'
  <2>1. UNCHANGED <<scroll, stored>> /\ sent[x] = 0 /\ \A y \in Messages \ {x} : sent'[y] = sent[y]
    BY <1>1, <1>3 DEF StampMessage, HistoryTypeOK
  <2>2. \A y \in scroll.first : sent'[y] = sent[y]
    BY <1>1, <2>1 DEF GapInv, OfferedInv
  <2>3. QED BY <1>1, <2>1, <2>2 DEF GapInv, Scrolls, SecondOf
<1>4. ASSUME NEW x \in Messages, StoreMessage(x) PROVE GapInv'
  BY <1>1, <1>4 DEF StoreMessage, GapInv, Scrolls, SecondOf
<1>5. ASSUME NEW q \in Calls, NEW mark \in BOOLEAN, GetMessages(q, mark) PROVE GapInv'
  BY <1>1, <1>5, PageKeepsGap DEF GetMessages
<1>6. CASE \E q \in Calls : MarkRead(q) \/ TakeTime(q) \/ UpsertReadCursor(q)
  BY <1>2, <1>6 DEF MarkRead, TakeTime, UpsertReadCursor
<1>7. CASE Tick \/ UNCHANGED historyVars
  BY <1>2, <1>7 DEF Tick, historyVars
<1>8. QED BY <1>1, <1>3, <1>4, <1>5, <1>6, <1>7 DEF HistoryNext

(* Who scrolls to the end has seen every message that was there at first,   *)
(* except some of the second in which a page ended (chat.go:241-257): for   *)
(* any page length, and whatever arrives meanwhile.                         *)
THEOREM HistoryScrolls == HistorySpec => []ScrollComplete
<1>1. HistoryInit => OfferedInv /\ GapInv
  BY HistoryAssumption DEF HistoryInit, OfferedInv, Offered, NoCall, GapInv, Scrolls, Unopened
<1>2. GapInv => ScrollComplete
  BY DEF GapInv, ScrollComplete, Scrolls
<1>3. QED BY <1>1, <1>2, GapStep, OfferedStep, HistoryTypeCorrect, PTL DEF HistorySpec

=============================================================================
