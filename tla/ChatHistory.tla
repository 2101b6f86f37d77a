---------------------------- MODULE ChatHistory ----------------------------
(***************************************************************************)
(* A chat room as a reader sees it over HTTP: pages of history, the read   *)
(* cursor, the unread badge and the read receipts.  Direct messages have   *)
(* the same code as rides.  Everybody here may read and post; who may is   *)
(* the subject of Surfaces.                                                *)
(*                                                                         *)
(* Time goes in ticks, several to a second; a message carries the time its *)
(* server put on it, and is there for others when its INSERT commits.      *)
(***************************************************************************)
EXTENDS Naturals, FiniteSets, FiniteSetsExt

CONSTANTS
  MaxMessages, \* bound: messages posted
  Own,         \* the reader's among them
  Calls,       \* the reader's requests that may run at the same time
  PageLimit,   \* 50 in the code unless the app asks otherwise
  Second,      \* ticks in a second
  MaxClock     \* bound

(* In the order in which their servers take the time. *)
Messages == 1..MaxMessages

ASSUME HistoryAssumption ==
  /\ MaxMessages \in Nat /\ Own \subseteq Messages
  /\ PageLimit \in Nat \ {0} /\ Second \in Nat \ {0}
  /\ MaxClock \in Nat /\ MaxClock >= Second

VARIABLES
  now,
  sent,     \* message |-> created_at, 0 until its server has taken the time
  stored,   \* messages whose INSERT has committed
  cursor,   \* last_read_at of the reader, 0 when there is no row
  call,     \* the reader's requests under way
  scroll,   \* the reader's list: what was there at first, what is shown, where it ends
  excused,  \* history: stored when the reader opened or marked the chat, or posted
            \* before that request took its time
  crossed   \* history: whether two marks of the reader overlapped

historyVars == <<now, sent, stored, cursor, call, scroll, excused, crossed>>

NoCall   == [step |-> "none"]
Unopened == [open |-> FALSE, first |-> {}, shown |-> {}, before |-> 0, edges |-> {}, more |-> TRUE]

(* No time is the zero of the clock, which stands for none. *)
HistoryInit ==
  /\ now = Second
  /\ sent = [x \in Messages |-> 0]
  /\ stored = {} /\ cursor = 0
  /\ call = [q \in Calls |-> NoCall]
  /\ scroll = Unopened
  /\ excused = {} /\ crossed = FALSE

Tick ==
  /\ now < MaxClock
  /\ now' = now + 1
  /\ UNCHANGED <<sent, stored, cursor, call, scroll, excused, crossed>>

(* Posting: the server takes the time, then the row becomes visible.        *)
StampMessage(x) ==
  /\ sent[x] = 0 /\ \A y \in 1..(x - 1) : sent[y] # 0
  /\ sent' = [sent EXCEPT ![x] = now]
  /\ UNCHANGED <<now, stored, cursor, call, scroll, excused, crossed>>

StoreMessage(x) ==
  /\ sent[x] # 0 /\ x \notin stored
  /\ stored' = stored \cup {x}
  /\ UNCHANGED <<now, sent, cursor, call, scroll, excused, crossed>>

-----------------------------------------------------------------------------
(* Pages. *)

SecondOf(t) == t \div Second

(* A timestamp goes to the app, and comes back as "before", in whole        *)
(* seconds.                                                                 *)
Wire(t) == SecondOf(t) * Second

(* Mutant: the oldest rows are taken. *)
PagesOldest(before) ==
  LET older == {x \in stored : before = 0 \/ sent[x] < before}
  IN  {P \in kSubset(Min({PageLimit, Cardinality(older)}), older) :
         \A x \in P, y \in older \ P : sent[x] <= sent[y]}

(* ORDER BY created_at DESC LIMIT: the newest rows, ties in any order.      *)
Pages(before) ==
  LET older == {x \in stored : before = 0 \/ sent[x] < before}
  IN  {P \in kSubset(Min({PageLimit, Cardinality(older)}), older) :
         \A x \in P, y \in older \ P : sent[x] >= sent[y]}

Oldest(P) == Min({sent[x] : x \in P})

(* The app asks for the messages before the oldest it got.                  *)
Turn(P) ==
  [scroll EXCEPT !.open = TRUE,
                 !.first = IF scroll.open THEN @ ELSE stored,
                 !.shown = @ \cup P,
                 !.edges = IF P = {} THEN @ ELSE @ \cup {SecondOf(Oldest(P))},
                 !.before = IF P = {} THEN @ ELSE Wire(Oldest(P)),
                 !.more = Cardinality(P) = PageLimit]

Marking == {q \in Calls : call[q] # NoCall}

(* GetRideMessages, GetDMMessages: one statement checks the reader and      *)
(* reads the page; with mark_read, the cursor is written after it.          *)
GetMessages(q, mark) ==
  /\ call[q] = NoCall
  /\ scroll.more
  /\ \E P \in Pages(scroll.before) : scroll' = Turn(P)
  /\ excused' = excused \cup stored
  /\ IF mark
     THEN call' = [call EXCEPT ![q] = [step |-> "read"]] /\ crossed' = (crossed \/ Marking # {})
     ELSE UNCHANGED <<call, crossed>>
  /\ UNCHANGED <<now, sent, stored, cursor>>

-----------------------------------------------------------------------------
(* The read cursor. *)

(* MarkRideRead, MarkDMRead, after their look at who asks. *)
MarkRead(q) ==
  /\ call[q] = NoCall
  /\ call' = [call EXCEPT ![q] = [step |-> "read"]]
  /\ excused' = excused \cup stored
  /\ crossed' = (crossed \/ Marking # {})
  /\ UNCHANGED <<now, sent, stored, cursor, scroll>>

TakeTime(q) ==
  /\ call[q].step = "read"
  /\ call' = [call EXCEPT ![q] = [step |-> "timed", at |-> now]]
  /\ excused' = excused \cup {x \in Messages : sent[x] # 0}
  /\ UNCHANGED <<now, sent, stored, cursor, scroll, crossed>>

(* Mutant: the database's own clock is taken. *)
CursorOfDatabase(q) == now

CursorOf(q) == call[q].at

(* ON CONFLICT DO UPDATE, whatever is there; a failure is only logged.      *)
UpsertReadCursor(q) ==
  /\ call[q].step = "timed"
  /\ call' = [call EXCEPT ![q] = NoCall]
  /\ cursor' = CursorOf(q) \/ UNCHANGED cursor
  /\ UNCHANGED <<now, sent, stored, scroll, excused, crossed>>

HistoryNext ==
  \/ Tick
  \/ \E x \in Messages : StampMessage(x) \/ StoreMessage(x)
  \/ \E q \in Calls : \/ \E mark \in BOOLEAN : GetMessages(q, mark)
                      \/ MarkRead(q) \/ TakeTime(q) \/ UpsertReadCursor(q)

HistorySpec == HistoryInit /\ [][HistoryNext]_historyVars

-----------------------------------------------------------------------------
HistoryTypeOK ==
  /\ now \in 1..MaxClock
  /\ sent \in [Messages -> 0..MaxClock]
  /\ stored \subseteq Messages
  /\ cursor \in 0..MaxClock
  /\ call \in [Calls -> {NoCall} \cup [step : {"read"}]
                         \cup [step : {"timed"}, at : 1..MaxClock]]

(* The badge of GetUserChats and the receipt under a message. *)
Unread    == {x \in stored \ Own : sent[x] > cursor}
ReadBy(x) == cursor >= sent[x]

(* chat.go:241-257, 384-385, 467: who scrolls to the end has seen every     *)
(* message that was there at first, except some of the second in which a    *)
(* page ended; those no page shows.                                         *)
ScrollComplete ==
  (scroll.open /\ ~scroll.more) =>
     \A x \in scroll.first \ scroll.shown : SecondOf(sent[x]) \in scroll.edges

(* chat.go:265-280, 369-372, 457-461, 1253-1266: a message of somebody else *)
(* leaves the badge only if it was there when the reader opened or marked   *)
(* the chat, or was posted before that very request took its time, or in    *)
(* the same instant; and exactly then its sender is shown that it was read. *)
BadgeHonest ==
  \A x \in stored \ Own :
    /\ x \notin Unread => x \in excused \/ sent[x] = cursor
    /\ ReadBy(x) <=> x \notin Unread

(* chat.go:265-280: the upsert keeps no maximum, so the cursor, and with it *)
(* badges and receipts, goes back only when two requests of the reader were *)
(* under way together.                                                      *)
CursorForward == [][cursor' >= cursor \/ crossed]_historyVars
=============================================================================
