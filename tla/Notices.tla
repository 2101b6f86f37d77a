------------------------------ MODULE Notices ------------------------------
(***************************************************************************)
(* The notification scheduler: a loop in the server wakes up every Period, *)
(* mails the travellers of tomorrow's rides and, 12 hours after the start, *)
(* sends them a push to rate each other.  One ride.                        *)
(*                                                                         *)
(* Mails are de-duplicated by a row per traveller, inserted before the     *)
(* mail is sent; pushes are not de-duplicated: the scan's window is as     *)
(* long as the period.  The server may crash at any moment and restart;    *)
(* the loop may be late, because its queries have no timeout.              *)
(***************************************************************************)
EXTENDS Naturals

CONSTANTS
  Users, Host,
  Period,             \* of the ticker (10 minutes)
  MailFrom, MailTo,   \* the ride starts in less than 36h, in at least 1h
  PromptFrom,         \* the ride has started 12h ago
  MaxTime,            \* bound on the clock
  MaxLag              \* bound on how late the loop is

ASSUME HostAssumption == Host \in Users
ASSUME TimeAssumption ==
  /\ Period \in Nat \ {0} /\ MaxLag \in 0..Period
  /\ {MailFrom, MailTo, PromptFrom, MaxTime} \subseteq Nat
  /\ MailFrom <= MailTo /\ MailTo < PromptFrom

VARIABLES
  now,
  accepted, held,   \* travellers, and since when each of them is one
  up,               \* the server runs
  timer, tick,      \* the ticker: time to the next tick; one tick is buffered
  loop, lag,        \* "wait" or "prompts"; how long the tick has waited
  leasing,          \* goroutines about to insert the row of a traveller
  sending,          \* travellers whose mail a goroutine is about to send
  leased,           \* trip_today_emails_sent
  mailed,           \* mails sent to each user
  prompting,        \* goroutines about to push to each user
  prompted,         \* pushes sent to each user
  calm              \* so far no crash and no failed query; the loop on time

clockVars  == <<now, timer, tick, lag>>
mailVars   == <<leasing, sending, leased, mailed>>
promptVars == <<prompting, prompted>>
vars       == <<clockVars, accepted, held, up, loop, mailVars, promptVars, calm>>

Init ==
  /\ now = 0
  /\ accepted \in {S \in SUBSET Users : Host \in S}
  /\ held = [u \in Users |-> 0]
  /\ up = TRUE
  /\ timer \in 1..Period /\ tick = FALSE
  /\ loop = "wait" /\ lag = 0
  /\ leasing = [u \in Users |-> 0] /\ sending = {} /\ leased = {}
  /\ mailed   = [u \in Users |-> 0]
  /\ prompting = [u \in Users |-> 0]
  /\ prompted = [u \in Users |-> 0]
  /\ calm = [server |-> TRUE, loop |-> TRUE]

-----------------------------------------------------------------------------
(* The rest of the system.                                                  *)

Busy == tick \/ loop # "wait"

(* A tick that finds the buffer full is dropped. *)
Tick ==
  /\ now < MaxTime
  /\ Busy => lag < MaxLag
  /\ now' = now + 1
  /\ IF up
     THEN /\ timer' = IF timer = 1 THEN Period ELSE timer - 1
          /\ tick'  = (tick \/ timer = 1)
          /\ lag'   = IF Busy THEN lag + 1 ELSE 0
     ELSE UNCHANGED <<timer, tick, lag>>
  /\ calm' = [calm EXCEPT !.loop = @ /\ ~Busy]
  /\ UNCHANGED <<accepted, held, up, loop, mailVars, promptVars>>

Accept(u) ==
  /\ u \notin accepted
  /\ accepted' = accepted \cup {u}
  /\ held' = [held EXCEPT ![u] = now]
  /\ UNCHANGED <<clockVars, up, loop, mailVars, promptVars, calm>>

Remove(u) ==
  /\ u \in accepted \ {Host}
  /\ accepted' = accepted \ {u}
  /\ UNCHANGED <<clockVars, held, up, loop, mailVars, promptVars, calm>>

(* The goroutines go with the process, the rows stay. *)
Crash ==
  /\ up
  /\ up' = FALSE
  /\ tick' = FALSE /\ loop' = "wait" /\ lag' = 0
  /\ leasing' = [u \in Users |-> 0] /\ sending' = {} /\ prompting' = [u \in Users |-> 0]
  /\ calm' = [calm EXCEPT !.server = FALSE]
  /\ UNCHANGED <<now, accepted, held, timer, leased, mailed, prompted>>

Restart ==
  /\ ~up
  /\ up' = TRUE
  /\ timer' = Period
  /\ UNCHANGED <<now, accepted, held, tick, loop, lag, mailVars, promptVars, calm>>

-----------------------------------------------------------------------------
(* The loop: checkTripTodayEmails, then checkRatingPrompts.                 *)

InMailWindow   == now > MailFrom /\ now <= MailTo
InPromptWindow == now >= PromptFrom /\ now <= PromptFrom + Period

(* One more goroutine for each of some users. *)
Spawn(count, users) == [u \in Users |-> IF u \in users THEN count[u] + 1 ELSE count[u]]

(* Mutant: one marker for the whole ride, as before migration 00006. *)
CandidatesPerRide == IF leased = {} THEN accepted ELSE {}

Candidates == accepted

ScanMails ==
  /\ up /\ loop = "wait" /\ tick
  /\ tick' = FALSE
  /\ loop' = "prompts"
  /\ \/ /\ leasing' = Spawn(leasing, IF InMailWindow THEN Candidates ELSE {})
        /\ UNCHANGED calm
     \/ UNCHANGED leasing /\ calm' = [calm EXCEPT !.server = FALSE]   \* the query fails
  /\ UNCHANGED <<now, timer, lag, accepted, held, up, sending, leased, mailed, promptVars>>

(* Mutant: the lookback ends when the next scan begins. *)
InShorterWindow == now >= PromptFrom /\ now < PromptFrom + Period - 1

Due == InPromptWindow

ScanPrompts ==
  /\ loop = "prompts"
  /\ loop' = "wait"
  /\ lag'  = 0
  /\ \/ /\ prompting' = Spawn(prompting, IF Due THEN accepted ELSE {})
        /\ UNCHANGED calm
     \/ UNCHANGED prompting /\ calm' = [calm EXCEPT !.server = FALSE]
  /\ UNCHANGED <<now, timer, tick, accepted, held, up, mailVars, prompted>>

-----------------------------------------------------------------------------
(* The goroutines.                                                          *)

(* Mutant: the row is written whether it is there or not. *)
MineAlways(u) == u \in Users

Mine(u) == u \notin leased

Record(u) == leased' = leased \cup {u}

(* INSERT ... ON CONFLICT DO NOTHING; the statement may fail. *)
Lease(u) ==
  /\ leasing[u] > 0
  /\ leasing' = [leasing EXCEPT ![u] = @ - 1]
  /\ \/ Mine(u) /\ Record(u) /\ sending' = sending \cup {u} /\ UNCHANGED calm
     \/ ~Mine(u) /\ UNCHANGED <<leased, sending, calm>>
     \/ UNCHANGED <<leased, sending>> /\ calm' = [calm EXCEPT !.server = FALSE]
  /\ UNCHANGED <<clockVars, accepted, held, up, loop, mailed, promptVars>>

(* A mail that SES refuses is not sent again. *)
SendMail(u) ==
  /\ u \in sending
  /\ sending' = sending \ {u}
  /\ \E n \in {0, 1} : mailed' = [mailed EXCEPT ![u] = @ + n]
  /\ UNCHANGED <<clockVars, accepted, held, up, loop, leasing, leased, promptVars, calm>>

SendPrompt(u) ==
  /\ prompting[u] > 0
  /\ prompting' = [prompting EXCEPT ![u] = @ - 1]
  /\ prompted'  = [prompted EXCEPT ![u] = @ + 1]
  /\ UNCHANGED <<clockVars, accepted, held, up, loop, mailVars, calm>>

-----------------------------------------------------------------------------
Next ==
  \/ Tick \/ Crash \/ Restart \/ ScanMails \/ ScanPrompts
  \/ \E u \in Users : \/ Accept(u) \/ Remove(u)
                      \/ Lease(u) \/ SendMail(u) \/ SendPrompt(u)

Spec == Init /\ [][Next]_vars

-----------------------------------------------------------------------------
(* Types; a mail is only ever on its way for a traveller who has the row.   *)
TypeOK ==
  /\ now \in 0..MaxTime
  /\ accepted \subseteq Users /\ held \in [Users -> 0..now]
  /\ up \in BOOLEAN /\ timer \in 1..Period /\ tick \in BOOLEAN
  /\ loop \in {"wait", "prompts"} /\ lag \in 0..MaxLag
  /\ leasing \in [Users -> Nat] /\ prompting \in [Users -> Nat]
  /\ sending \subseteq leased /\ leased \subseteq Users
  /\ mailed \in [Users -> Nat] /\ prompted \in [Users -> Nat]
  /\ calm \in [server : BOOLEAN, loop : BOOLEAN]

(* Nobody is mailed twice about a ride, however many scans see him, however *)
(* late the goroutines of earlier scans are and however often the server    *)
(* crashes (tryTripTodayEmail: "this avoids duplicate trip emails").        *)
MailOnce == \A u \in Users : mailed[u] + (IF u \in sending THEN 1 ELSE 0) <= 1

(* Passengers accepted late are mailed too (migration 00006: "Late-accepted *)
(* passengers get a row when their first tick after accept catches the      *)
(* ride"), unless the server was down or a statement failed: once the ride  *)
(* is about to start, everyone who was accepted a period and the delay of   *)
(* one scan before has the row, or a goroutine that is about to insert it.  *)
LateAcceptsMailed ==
  calm.server /\ now > MailTo =>
    \A u \in accepted :
      (held[u] >= MailFrom /\ held[u] + Period + MaxLag <= MailTo)
        => u \in leased \/ leasing[u] > 0

(* Without a flag per ride, the window of the rating prompts must meet one  *)
(* scan and no more (checkRatingPrompts: "each ride is eligible once"):     *)
(* while the loop is on time, no ride slips between two scans, and only a   *)
(* ride whose 12 hours end to the instant at a scan is seen by two.         *)
PromptsMeetScans ==
  calm.server /\ calm.loop =>
    \A u \in accepted :
      LET pushes == prompted[u] + prompting[u]
      IN  /\ pushes <= IF (now + timer) % Period = PromptFrom % Period THEN 2 ELSE 1
          /\ now > PromptFrom + Period /\ held[u] <= PromptFrom => pushes >= 1
=============================================================================
