------------------------- MODULE NotificationsProof -------------------------
(***************************************************************************)
(* Machine-checked theorems about what reaches phones and mailboxes, for   *)
(* any users, rooms, jobs and windows: travellers are mailed once, a dead  *)
(* token costs the app its new one only in a race, pushes are a window or  *)
(* a cooldown apart, and mutes are honoured whoever else edits the ride.   *)
(***************************************************************************)
EXTENDS Notices, Push, Mutes, Integers, TLAPS

-----------------------------------------------------------------------------
(* The scheduler.                                                          *)

LEMMA NumbersTyped ==
  /\ Period \in Nat /\ Period > 0 /\ MaxLag \in Nat /\ MaxLag <= Period
  /\ MailFrom \in Nat /\ MailTo \in Nat /\ PromptFrom \in Nat /\ MaxTime \in Nat
  /\ MailFrom <= MailTo /\ MailTo < PromptFrom
BY TimeAssumption

LEMMA SpawnTyped ==
  ASSUME NEW count \in [Users -> Nat], NEW users
  PROVE  Spawn(count, users) \in [Users -> Nat]
BY DEF Spawn

LEMMA NoticesTyped == TypeOK /\ [Next]_vars => TypeOK'
<1>1. SUFFICES ASSUME TypeOK, [Next]_vars PROVE TypeOK'
  OBVIOUS
<1>2. CASE UNCHANGED vars
  BY <1>1, <1>2 DEF TypeOK, vars, clockVars, mailVars, promptVars
<1>3. CASE Tick
  <2>1. now' \in 0..MaxTime /\ now' = now + 1
    BY <1>1, <1>3, NumbersTyped DEF Tick, TypeOK
  <2>2. held' \in [Users -> 0..now']
    BY <1>1, <1>3, <2>1, NumbersTyped DEF Tick, TypeOK
  <2>3. timer' \in 1..Period /\ tick' \in BOOLEAN
    <3>1. CASE up
      <4>1. timer' = (IF timer = 1 THEN Period ELSE timer - 1) /\ tick' = (tick \/ timer = 1)
        BY <1>3, <3>1 DEF Tick
      <4>2. tick' \in BOOLEAN
        BY <4>1
      <4>3. timer' \in 1..Period
        BY <1>1, <4>1, NumbersTyped DEF TypeOK
      <4>4. QED BY <4>2, <4>3
    <3>2. CASE ~up
      BY <1>1, <1>3, <3>2 DEF Tick, TypeOK
    <3>3. QED BY <3>1, <3>2
  <2>4. lag' \in 0..MaxLag
    <3>1. lag \in 0..MaxLag /\ (Busy => lag < MaxLag)
      BY <1>1, <1>3 DEF Tick, TypeOK
    <3>2. lag' = lag \/ lag' = 0 \/ (Busy /\ lag' = lag + 1)
      BY <1>3 DEF Tick
    <3>3. QED BY <3>1, <3>2, NumbersTyped
  <2>5. calm' \in [server : BOOLEAN, loop : BOOLEAN]
    BY <1>1, <1>3 DEF Tick, TypeOK
  <2>6. QED BY <1>1, <1>3, <2>1, <2>2, <2>3, <2>4, <2>5 DEF Tick, TypeOK, mailVars, promptVars
<1>4. ASSUME NEW u \in Users, Accept(u) \/ Remove(u) PROVE TypeOK'
  <2>1. held' \in [Users -> 0..now]
    BY <1>1, <1>4, NumbersTyped DEF Accept, Remove, TypeOK
  <2>2. QED BY <1>1, <1>4, <2>1 DEF Accept, Remove, TypeOK, clockVars, mailVars, promptVars
<1>5. CASE Crash
  <2>1. lag' \in 0..MaxLag /\ now' \in 0..MaxTime /\ timer' \in 1..Period
    BY <1>1, <1>5, NumbersTyped DEF Crash, TypeOK
  <2>2. leasing' \in [Users -> Nat] /\ prompting' \in [Users -> Nat] /\ sending' = {}
    BY <1>5 DEF Crash
  <2>3. calm' \in [server : BOOLEAN, loop : BOOLEAN]
    BY <1>1, <1>5 DEF Crash, TypeOK
  <2>4. QED BY <1>1, <1>5, <2>1, <2>2, <2>3 DEF Crash, TypeOK
<1>6. CASE Restart
  BY <1>1, <1>6, NumbersTyped DEF Restart, TypeOK, mailVars, promptVars
<1>7. CASE ScanMails
  <2>1. leasing' \in [Users -> Nat]
    BY <1>1, <1>7, SpawnTyped DEF ScanMails, TypeOK
  <2>2. QED BY <1>1, <1>7, <2>1 DEF ScanMails, TypeOK, promptVars
<1>8. CASE ScanPrompts
  <2>1. prompting' \in [Users -> Nat]
    BY <1>1, <1>8, SpawnTyped DEF ScanPrompts, TypeOK
  <2>2. lag' \in 0..MaxLag
    BY <1>8, NumbersTyped DEF ScanPrompts
  <2>3. calm' \in [server : BOOLEAN, loop : BOOLEAN]
    BY <1>1, <1>8 DEF ScanPrompts, TypeOK
  <2>4. QED BY <1>1, <1>8, <2>1, <2>2, <2>3 DEF ScanPrompts, TypeOK, mailVars
<1>9. ASSUME NEW u \in Users, Lease(u) PROVE TypeOK'
  <2>1. leasing' \in [Users -> Nat]
    BY <1>1, <1>9 DEF Lease, TypeOK
  <2>2. sending' \subseteq leased' /\ leased' \subseteq Users
    BY <1>1, <1>9 DEF Lease, Record, TypeOK
  <2>3. QED BY <1>1, <1>9, <2>1, <2>2 DEF Lease, TypeOK, clockVars, promptVars
<1>10. ASSUME NEW u \in Users, SendMail(u) PROVE TypeOK'
  <2>1. mailed' \in [Users -> Nat]
    BY <1>1, <1>10 DEF SendMail, TypeOK
  <2>2. QED BY <1>1, <1>10, <2>1 DEF SendMail, TypeOK, clockVars, promptVars
<1>11. ASSUME NEW u \in Users, SendPrompt(u) PROVE TypeOK'
  <2>1. prompting' \in [Users -> Nat] /\ prompted' \in [Users -> Nat]
    BY <1>1, <1>11 DEF SendPrompt, TypeOK
  <2>2. QED BY <1>1, <1>11, <2>1 DEF SendPrompt, TypeOK, clockVars, mailVars
<1>12. QED BY <1>1, <1>2, <1>3, <1>4, <1>5, <1>6, <1>7, <1>8, <1>9, <1>10, <1>11 DEF Next

(* Clocks, rows and goroutines stay well formed; a mail is only on its way  *)
(* for a traveller who has the row.                                         *)
THEOREM NoticesTypeCorrect == Spec => []TypeOK
<1>1. Init => TypeOK
  <2>1. SUFFICES ASSUME Init PROVE TypeOK
    OBVIOUS
  <2>2. now \in 0..MaxTime /\ lag \in 0..MaxLag /\ held \in [Users -> 0..now]
    BY <2>1, NumbersTyped DEF Init
  <2>3. QED BY <2>1, <2>2 DEF Init, TypeOK
<1>2. QED BY <1>1, NoticesTyped, PTL DEF Spec

-----------------------------------------------------------------------------
(* One mail. *)

(* Who has no row has no mail, and while his mail is on its way he has none *)
(* yet either.                                                              *)
MailInv ==
  \A u \in Users :
    /\ mailed[u] \in {0, 1}
    /\ u \notin leased \/ u \in sending => mailed[u] = 0

LEMMA MailStep == TypeOK /\ MailInv /\ [Next]_vars => MailInv'
<1>1. SUFFICES ASSUME TypeOK, MailInv, [Next]_vars PROVE MailInv'
  OBVIOUS
<1>2. CASE UNCHANGED <<leased, sending, mailed>>
  BY <1>1, <1>2 DEF MailInv
<1>3. CASE Crash
  BY <1>1, <1>3 DEF Crash, MailInv
<1>4. ASSUME NEW u \in Users, Lease(u) PROVE MailInv'
  BY <1>1, <1>4 DEF Lease, Mine, Record, MailInv, TypeOK
<1>5. ASSUME NEW u \in Users, SendMail(u) PROVE MailInv'
  <2>1. /\ u \in sending /\ sending' = sending \ {u} /\ UNCHANGED leased
        /\ mailed'[u] \in {mailed[u], mailed[u] + 1}
        /\ \A v \in Users \ {u} : mailed'[v] = mailed[v]
    BY <1>1, <1>5 DEF SendMail, TypeOK
  <2>2. mailed'[u] \in {0, 1} /\ u \in leased
    BY <1>1, <2>1 DEF MailInv, TypeOK
  <2>3. QED BY <1>1, <2>1, <2>2 DEF MailInv
<1>6. CASE \E u \in Users : Accept(u) \/ Remove(u) \/ SendPrompt(u)
  BY <1>2, <1>6 DEF Accept, Remove, SendPrompt, mailVars
<1>7. CASE Tick \/ Restart \/ ScanMails \/ ScanPrompts \/ UNCHANGED vars
  BY <1>2, <1>7 DEF Tick, Restart, ScanMails, ScanPrompts, vars, mailVars
<1>8. QED BY <1>1, <1>3, <1>4, <1>5, <1>6, <1>7 DEF Next

(* However many scans see a traveller, however late their goroutines are    *)
(* and however often the server crashes between the row and the mail, he is *)
(* mailed once (tryTripTodayEmailCandidate, notification_scheduler.go:336-362).      *)
THEOREM MailedOnce == Spec => []MailOnce
<1>1. Init => MailInv
  BY DEF Init, MailInv
<1>2. MailInv => MailOnce
  <2>1. SUFFICES ASSUME MailInv, NEW u \in Users
                 PROVE  mailed[u] + (IF u \in sending THEN 1 ELSE 0) <= 1
    BY DEF MailOnce
  <2>2. mailed[u] \in {0, 1}
    BY <2>1 DEF MailInv
  <2>3. CASE u \in sending
    <3>1. mailed[u] = 0
      BY <2>1, <2>3 DEF MailInv
    <3>2. QED BY <2>3, <3>1
  <2>4. CASE u \notin sending
    BY <2>2, <2>4
  <2>5. QED BY <2>3, <2>4
<1>3. QED BY <1>1, <1>2, MailStep, NoticesTypeCorrect, PTL DEF Spec

-----------------------------------------------------------------------------
(* Late passengers. *)

(* The loop's lag and the ticker: since the tick that the loop is at, the   *)
(* ticker has counted down, and a second tick comes only at the very end.   *)
LoopInv == calm.server =>
  /\ up
  /\ Busy => lag + timer = Period \/ (lag = Period /\ timer = Period)
  /\ loop = "prompts" /\ tick => lag = Period /\ timer = Period

(* A passenger who is accepted in time and whom no scan has seen yet.       *)
Unseen(u) ==
  /\ u \in accepted
  /\ held[u] >= MailFrom /\ held[u] + Period + MaxLag <= MailTo
  /\ u \notin leased /\ leasing[u] = 0

(* A tick comes to see him within a period of his acceptance.               *)
SoonSeen(u) ==
  IF tick THEN now <= held[u] + Period + (IF loop = "wait" THEN lag ELSE 0)
  ELSE now + timer <= held[u] + Period

LateInv == calm.server => \A u \in Users : Unseen(u) => SoonSeen(u)

LEMMA ClockTyped ==
  ASSUME TypeOK
  PROVE  /\ now \in Nat /\ timer \in Nat /\ timer >= 1 /\ timer <= Period
         /\ lag \in Nat /\ lag <= MaxLag
         /\ \A u \in Users : held[u] \in Nat /\ held[u] <= now
         /\ tick \in BOOLEAN
         /\ loop = "wait" \/ loop = "prompts"
         /\ loop = "wait" => loop # "prompts"
BY NumbersTyped DEF TypeOK

LEMMA LateTick == TypeOK /\ LoopInv /\ LateInv /\ Tick => LoopInv' /\ LateInv'
<1>1. SUFFICES ASSUME TypeOK, LoopInv, LateInv, Tick, calm'.server PROVE
                 /\ up'
                 /\ Busy' => lag' + timer' = Period \/ (lag' = Period /\ timer' = Period)
                 /\ loop' = "prompts" /\ tick' => lag' = Period /\ timer' = Period
                 /\ \A u \in Users : Unseen(u)' => SoonSeen(u)'
  BY DEF LoopInv, LateInv
<1>2. calm.server /\ up
  BY <1>1 DEF Tick, TypeOK, LoopInv
<1>3. /\ UNCHANGED <<accepted, held, up, loop, leased, leasing>>
      /\ now' = now + 1
      /\ timer' = IF timer = 1 THEN Period ELSE timer - 1
      /\ tick' = (tick \/ timer = 1)
      /\ lag' = IF Busy THEN lag + 1 ELSE 0
      /\ Busy => lag < MaxLag
  BY <1>1, <1>2 DEF Tick, mailVars
<1>4. Busy => lag + timer = Period /\ lag # Period
  BY <1>1, <1>2, <1>3, ClockTyped, NumbersTyped DEF LoopInv
<1>5. Busy <=> tick \/ loop = "prompts"
  BY <1>1, ClockTyped DEF Busy
<1>6. ~(loop = "prompts" /\ tick)
  BY <1>1, <1>2, <1>4, <1>5 DEF LoopInv
<1>7. Busy' <=> tick' \/ loop = "prompts"
  BY <1>1, <1>3, ClockTyped DEF Busy
<1>8. Busy' => lag' + timer' = Period \/ (lag' = Period /\ timer' = Period)
  <2>1. CASE Busy
    BY <1>1, <1>3, <1>4, <2>1, ClockTyped, NumbersTyped
  <2>2. CASE ~Busy
    <3>1. lag' = 0 /\ loop # "prompts" /\ (tick' => timer = 1)
      BY <1>3, <1>5, <2>2
    <3>2. Busy' => timer' = Period
      BY <1>3, <1>7, <3>1
    <3>3. QED BY <3>1, <3>2, NumbersTyped
  <2>3. QED BY <2>1, <2>2
<1>9. loop' = "prompts" /\ tick' => lag' = Period /\ timer' = Period
  BY <1>1, <1>3, <1>4, <1>5, <1>6, ClockTyped, NumbersTyped
<1>10. ASSUME NEW u \in Users, Unseen(u)' PROVE SoonSeen(u)'
  <2>1. SoonSeen(u)
    BY <1>1, <1>2, <1>3, <1>10 DEF Unseen, LateInv
  <2>2. held[u] \in Nat /\ held'[u] = held[u] /\ loop' = loop
    BY <1>1, <1>3, ClockTyped
  <2>3. CASE tick
    <3>1. loop = "wait" /\ tick' /\ lag' = lag + 1
      BY <1>1, <1>3, <1>5, <1>6, <2>3, ClockTyped
    <3>2. now <= held[u] + Period + lag
      BY <2>1, <2>3, <3>1 DEF SoonSeen
    <3>3. now' <= held'[u] + Period + lag'
      BY <1>1, <1>3, <2>2, <3>1, <3>2, ClockTyped, NumbersTyped
    <3>4. QED BY <2>2, <3>1, <3>3 DEF SoonSeen
  <2>4. CASE ~tick
    <3>1. now + timer <= held[u] + Period
      BY <2>1, <2>4 DEF SoonSeen
    <3>2. CASE timer = 1
      <4>1. tick' /\ now' <= held'[u] + Period
        BY <1>3, <2>2, <3>1, <3>2
      <4>2. lag' \in Nat
        BY <1>1, <1>3, ClockTyped
      <4>3. QED BY <1>1, <1>3, <2>2, <4>1, <4>2, ClockTyped, NumbersTyped DEF SoonSeen
    <3>3. CASE timer # 1
      <4>1. ~tick' /\ now' + timer' <= held'[u] + Period
        BY <1>1, <1>3, <2>2, <2>4, <3>1, <3>3, ClockTyped, NumbersTyped
      <4>2. QED BY <4>1 DEF SoonSeen
    <3>4. QED BY <3>2, <3>3
  <2>5. QED BY <2>3, <2>4
<1>11. QED BY <1>2, <1>3, <1>8, <1>9, <1>10

LEMMA LateScanMails == TypeOK /\ LoopInv /\ LateInv /\ ScanMails => LoopInv' /\ LateInv'
<1>1. SUFFICES ASSUME TypeOK, LoopInv, LateInv, ScanMails, calm'.server PROVE
                 /\ up'
                 /\ Busy' => lag' + timer' = Period \/ (lag' = Period /\ timer' = Period)
                 /\ loop' = "prompts" /\ tick' => lag' = Period /\ timer' = Period
                 /\ \A u \in Users : Unseen(u)' => SoonSeen(u)'
  BY DEF LoopInv, LateInv
<1>2. /\ calm.server /\ up
      /\ leasing' = Spawn(leasing, IF InMailWindow THEN Candidates ELSE {})
  BY <1>1 DEF ScanMails, TypeOK
<1>3. /\ UNCHANGED <<now, timer, lag, accepted, held, up, leased>>
      /\ loop = "wait" /\ tick /\ loop' = "prompts" /\ ~tick'
  BY <1>1 DEF ScanMails
<1>4. lag + timer = Period \/ (lag = Period /\ timer = Period)
  BY <1>1, <1>2, <1>3 DEF LoopInv, Busy
<1>5. ASSUME NEW u \in Users, Unseen(u)' PROVE SoonSeen(u)'
  <2>1. u \in accepted /\ leasing'[u] = 0 /\ leasing[u] \in Nat
    BY <1>1, <1>3, <1>5 DEF Unseen, TypeOK
  <2>2. leasing'[u] = IF u \in (IF InMailWindow THEN Candidates ELSE {}) THEN leasing[u] + 1 ELSE leasing[u]
    BY <1>2 DEF Spawn
  <2>3. leasing[u] = 0 /\ ~InMailWindow
    BY <2>1, <2>2 DEF Candidates
  <2>4. Unseen(u)
    BY <1>3, <1>5, <2>1, <2>3 DEF Unseen
  <2>5. now <= held[u] + Period + lag
    BY <1>1, <1>2, <1>3, <2>4 DEF LateInv, SoonSeen
  <2>6. held[u] \in Nat /\ held[u] <= now /\ held[u] >= MailFrom /\ held[u] + Period + MaxLag <= MailTo
    BY <1>1, <2>4, ClockTyped DEF Unseen
  <2>7. now <= MailTo
    BY <1>1, <2>5, <2>6, ClockTyped, NumbersTyped
  <2>8. now <= MailFrom
    BY <1>1, <2>3, <2>7, ClockTyped, NumbersTyped DEF InMailWindow
  <2>9. now + timer <= held[u] + Period
    BY <1>1, <2>6, <2>8, ClockTyped, NumbersTyped
  <2>10. QED BY <1>3, <2>9 DEF SoonSeen
<1>6. QED BY <1>2, <1>3, <1>4, <1>5

LEMMA LateScanPrompts == TypeOK /\ LoopInv /\ LateInv /\ ScanPrompts => LoopInv' /\ LateInv'
<1>1. SUFFICES ASSUME TypeOK, LoopInv, LateInv, ScanPrompts, calm'.server PROVE
                 /\ up'
                 /\ Busy' => lag' + timer' = Period \/ (lag' = Period /\ timer' = Period)
                 /\ loop' = "prompts" /\ tick' => lag' = Period /\ timer' = Period
                 /\ \A u \in Users : Unseen(u)' => SoonSeen(u)'
  BY DEF LoopInv, LateInv
<1>2. calm.server /\ up
  BY <1>1 DEF ScanPrompts, TypeOK, LoopInv
<1>3. /\ UNCHANGED <<now, timer, tick, accepted, held, up, leased, leasing>>
      /\ loop = "prompts" /\ loop' = "wait" /\ lag' = 0
  BY <1>1 DEF ScanPrompts, mailVars
<1>4. tick => timer = Period
  BY <1>1, <1>2, <1>3 DEF LoopInv
<1>5. ASSUME NEW u \in Users, Unseen(u)' PROVE SoonSeen(u)'
  <2>1. SoonSeen(u)
    BY <1>1, <1>2, <1>3, <1>5 DEF Unseen, LateInv
  <2>2. held[u] \in Nat
    BY <1>1, ClockTyped
  <2>3. QED BY <1>1, <1>3, <2>1, <2>2, NumbersTyped DEF SoonSeen
<1>6. Busy' => tick
  BY <1>3 DEF Busy
<1>7. QED BY <1>2, <1>3, <1>4, <1>5, <1>6, NumbersTyped

LEMMA LateStep == TypeOK /\ LoopInv /\ LateInv /\ [Next]_vars => LoopInv' /\ LateInv'
<1>1. SUFFICES ASSUME TypeOK, LoopInv, LateInv, [Next]_vars PROVE LoopInv' /\ LateInv'
  OBVIOUS
(* The steps that leave the loop alone and make nobody unseen. *)
<1>2. ASSUME UNCHANGED <<now, timer, tick, lag, loop, up>>, calm'.server => calm.server,
             calm'.server => \A u \in Users : Unseen(u)' => Unseen(u) /\ held'[u] = held[u]
      PROVE  LoopInv' /\ LateInv'
  <2>1. Busy' <=> Busy
    BY <1>2 DEF Busy
  <2>2. LoopInv'
    BY <1>1, <1>2, <2>1 DEF LoopInv
  <2>3. ASSUME NEW u \in Users, calm'.server, Unseen(u)' PROVE SoonSeen(u)'
    BY <1>1, <1>2, <2>3 DEF LateInv, SoonSeen
  <2>4. QED BY <2>2, <2>3 DEF LateInv
<1>3. CASE UNCHANGED vars
  BY <1>2, <1>3 DEF vars, clockVars, mailVars, Unseen
<1>4. ASSUME NEW u \in Users, Accept(u) PROVE LoopInv' /\ LateInv'
  <2>1. /\ UNCHANGED <<now, timer, tick, lag, loop, up, calm, leased, leasing>>
        /\ accepted' = accepted \cup {u} /\ held'[u] = now
        /\ \A v \in Users \ {u} : held'[v] = held[v]
    BY <1>1, <1>4 DEF Accept, clockVars, mailVars, TypeOK
  <2>2. Busy' <=> Busy
    BY <2>1 DEF Busy
  <2>3. LoopInv'
    BY <1>1, <2>1, <2>2 DEF LoopInv
  <2>4. SoonSeen(u)'
    BY <1>1, <2>1, ClockTyped, NumbersTyped DEF SoonSeen
  <2>5. ASSUME NEW v \in Users \ {u}, calm.server, Unseen(v)' PROVE SoonSeen(v)'
    BY <1>1, <2>1, <2>5 DEF LateInv, Unseen, SoonSeen
  <2>6. QED BY <2>1, <2>3, <2>4, <2>5 DEF LateInv
<1>5. ASSUME NEW u \in Users, Remove(u) PROVE LoopInv' /\ LateInv'
  BY <1>2, <1>5 DEF Remove, clockVars, mailVars, Unseen
<1>6. ASSUME NEW u \in Users, Lease(u) PROVE LoopInv' /\ LateInv'
  <2>1. /\ UNCHANGED <<now, timer, tick, lag, loop, up, accepted, held>>
        /\ calm'.server => calm.server
        /\ leased \subseteq leased'
        /\ calm'.server => u \in leased'
        /\ \A v \in Users \ {u} : leasing'[v] = leasing[v]
    BY <1>1, <1>6 DEF Lease, Mine, Record, TypeOK, clockVars
  <2>2. QED BY <1>2, <2>1 DEF Unseen
<1>7. ASSUME NEW u \in Users, SendMail(u) \/ SendPrompt(u) PROVE LoopInv' /\ LateInv'
  BY <1>2, <1>7 DEF SendMail, SendPrompt, clockVars, mailVars, Unseen
<1>8. CASE Crash
  BY <1>1, <1>8 DEF Crash, LoopInv, LateInv, TypeOK
<1>9. CASE Restart
  BY <1>1, <1>9 DEF Restart, LoopInv, LateInv
<1>10. QED BY <1>1, <1>3, <1>4, <1>5, <1>6, <1>7, <1>8, <1>9, LateTick, LateScanMails, LateScanPrompts DEF Next

(* A passenger who is accepted a period and the delay of one scan before    *)
(* the window closes has the row, or a goroutine that is about to insert    *)
(* it, once the ride is about to start; unless the server was down or a     *)
(* statement failed (00006_email_dedup_rework.sql:20-22).                   *)
THEOREM LatePassengersMailed == Spec => []LateAcceptsMailed
<1>1. Init => LoopInv /\ LateInv
  <2>1. SUFFICES ASSUME Init PROVE LoopInv /\ LateInv
    OBVIOUS
  <2>2. LoopInv
    BY <2>1 DEF Init, LoopInv, Busy
  <2>3. \A u \in Users : SoonSeen(u)
    <3>1. /\ now = 0 /\ ~tick /\ timer \in 1..Period
          /\ \A u \in Users : held[u] = 0
      BY <2>1 DEF Init
    <3>2. 0 + timer <= 0 + Period
      BY <3>1, NumbersTyped
    <3>3. QED BY <3>1, <3>2 DEF SoonSeen
  <2>4. QED BY <2>2, <2>3 DEF LateInv
<1>2. TypeOK /\ LateInv => LateAcceptsMailed
  <2>1. SUFFICES ASSUME TypeOK, LateInv, calm.server, now > MailTo, NEW u \in accepted,
                        held[u] >= MailFrom, held[u] + Period + MaxLag <= MailTo
                 PROVE  u \in leased \/ leasing[u] > 0
    BY DEF LateAcceptsMailed
  <2>2. u \in Users /\ held[u] \in Nat /\ leasing[u] \in Nat
    BY <2>1, ClockTyped DEF TypeOK
  <2>3. ~SoonSeen(u)
    BY <2>1, <2>2, ClockTyped, NumbersTyped DEF SoonSeen
  <2>4. ~Unseen(u)
    BY <2>1, <2>2, <2>3 DEF LateInv
  <2>5. QED BY <2>1, <2>2, <2>4 DEF Unseen
<1>3. QED BY <1>1, <1>2, LateStep, NoticesTypeCorrect, PTL DEF Spec

-----------------------------------------------------------------------------
(* Rating prompts. *)

(* Division, as far as the provers need it. *)
LEMMA Division ==
  ASSUME NEW m \in Nat, NEW n \in Nat, n > 0
  PROVE  \E q \in Nat, a \in Nat : a = n * q /\ q = m \div n /\ m = a + (m % n) /\ m % n \in 0 .. n - 1
<1>1. m \div n \in Nat
  <2>1. m \div n \in Int /\ m \div n >= 0
    OBVIOUS
  <2>2. QED BY <2>1
<1>2. PICK q \in Nat : q = m \div n
  BY <1>1
<1>3. n * q \in Nat
  OBVIOUS
<1>4. m = n * q + (m % n) /\ m % n \in 0 .. n - 1
  BY <1>2
<1>5. QED BY <1>2, <1>3, <1>4

LEMMA Quotient ==
  ASSUME NEW m \in Nat, NEW n \in Nat, n > 0, NEW q \in Nat, m >= n * q, m < n * q + n
  PROVE  m \div n = q
OBVIOUS

LEMMA SamePhase ==
  ASSUME NEW p \in Nat, p > 0, NEW x \in Nat
  PROVE  (x + p) % p = x % p
<1>1. PICK q \in Nat, a \in Nat, z \in 0 .. p - 1 : a = p * q /\ x = a + z /\ z = x % p
  BY Division
<1>2. p * (q + 1) = a + p
  BY <1>1
<1>3. x + p >= p * (q + 1) /\ x + p < p * (q + 1) + p
  BY <1>1, <1>2
<1>4. (x + p) \div p = q + 1
  BY <1>3, Quotient
<1>5. PICK r \in Nat, b \in Nat, y \in 0 .. p - 1 : b = p * r /\ r = (x + p) \div p /\ x + p = b + y /\ y = (x + p) % p
  BY Division
<1>6. b = a + p
  BY <1>2, <1>4, <1>5
<1>7. y = z
  BY <1>1, <1>5, <1>6
<1>8. QED BY <1>1, <1>5, <1>7

(* The next scan for ratings, or the one that is due now. *)
NextScan == IF Busy THEN now ELSE now + timer

Pushes(u) == prompted[u] + prompting[u]

(* While the loop is on time, the scans so far have been whole periods     *)
(* before the next one: so many of them can have met the window.           *)
PromptInv == calm.server /\ calm.loop =>
  /\ up /\ (Busy => timer = Period) /\ ~(loop = "prompts" /\ tick)
  /\ \A u \in Users :
       /\ NextScan < PromptFrom + Period => Pushes(u) = 0
       /\ NextScan < PromptFrom + Period + Period => Pushes(u) <= 1
       /\ Pushes(u) <= IF NextScan % Period = PromptFrom % Period THEN 2 ELSE 1
       /\ u \in accepted /\ held[u] <= PromptFrom /\ NextScan > PromptFrom + Period => Pushes(u) >= 1

(* What a calm state says of the numbers. *)
LEMMA PushesTyped ==
  ASSUME TypeOK
  PROVE  /\ NextScan \in Nat /\ NextScan <= now + Period
         /\ \A u \in Users : Pushes(u) \in Nat
         /\ PromptFrom \in Nat
BY ClockTyped, NumbersTyped DEF NextScan, Pushes, TypeOK

(* The steps that the loop and the window do not notice. *)
LEMMA PromptFrame ==
  ASSUME TypeOK, PromptInv, calm'.server => calm.server, calm'.loop => calm.loop,
         UNCHANGED <<now, timer, tick, loop, up>>,
         \A u \in Users : Pushes(u)' = Pushes(u),
         \A u \in accepted' : (u \in accepted /\ held'[u] = held[u]) \/ held'[u] = now
  PROVE  PromptInv'
<1>1. SUFFICES ASSUME calm'.server, calm'.loop PROVE PromptInv'
  BY DEF PromptInv
<1>2. calm.server /\ calm.loop
  BY <1>1
<1>3. (Busy' <=> Busy) /\ NextScan' = NextScan
  BY DEF Busy, NextScan
<1>4. ASSUME NEW u \in Users, u \in accepted', held'[u] <= PromptFrom, NextScan > PromptFrom + Period
      PROVE  Pushes(u) >= 1
  <2>1. CASE u \in accepted /\ held'[u] = held[u]
    BY <1>2, <1>4, <2>1 DEF PromptInv
  <2>2. CASE held'[u] = now
    BY <1>4, <2>2, ClockTyped, PushesTyped, NumbersTyped
  <2>3. QED BY <1>4, <2>1, <2>2
<1>5. QED BY <1>2, <1>3, <1>4 DEF PromptInv

LEMMA PromptTick == TypeOK /\ PromptInv /\ Tick => PromptInv'
<1>1. SUFFICES ASSUME TypeOK, PromptInv, Tick, calm'.server, calm'.loop PROVE PromptInv'
  BY DEF PromptInv
<1>2. calm.server /\ calm.loop /\ ~Busy /\ up
  BY <1>1 DEF Tick, TypeOK, PromptInv
<1>3. /\ UNCHANGED <<accepted, held, up, loop, prompting, prompted>>
      /\ now' = now + 1
      /\ timer' = IF timer = 1 THEN Period ELSE timer - 1
      /\ tick' = (timer = 1)
  BY <1>1, <1>2 DEF Tick, Busy, promptVars
<1>4. Busy' <=> timer = 1
  BY <1>1, <1>2, <1>3 DEF Busy
<1>5. NextScan' = NextScan
  BY <1>1, <1>2, <1>3, <1>4, ClockTyped, NumbersTyped DEF NextScan
<1>6. \A u \in Users : Pushes(u)' = Pushes(u)
  BY <1>3 DEF Pushes
<1>7. (Busy' => timer' = Period) /\ ~(loop' = "prompts" /\ tick')
  BY <1>2, <1>3, <1>4 DEF Busy
<1>8. up' /\ accepted' = accepted /\ held' = held
  BY <1>2, <1>3
<1>9. ASSUME NEW u \in Users
      PROVE  /\ NextScan' < PromptFrom + Period => Pushes(u)' = 0
             /\ NextScan' < PromptFrom + Period + Period => Pushes(u)' <= 1
             /\ Pushes(u)' <= IF NextScan' % Period = PromptFrom % Period THEN 2 ELSE 1
             /\ u \in accepted' /\ held'[u] <= PromptFrom /\ NextScan' > PromptFrom + Period => Pushes(u)' >= 1
  BY <1>1, <1>2, <1>5, <1>6, <1>8 DEF PromptInv
<1>10. QED BY <1>7, <1>8, <1>9 DEF PromptInv

LEMMA PromptScanMails == TypeOK /\ PromptInv /\ ScanMails => PromptInv'
<1>1. SUFFICES ASSUME TypeOK, PromptInv, ScanMails, calm'.server, calm'.loop PROVE PromptInv'
  BY DEF PromptInv
<1>2. /\ calm.server /\ calm.loop /\ tick /\ ~tick' /\ loop' = "prompts"
      /\ UNCHANGED <<now, timer, accepted, held, up, prompting, prompted>>
  BY <1>1 DEF ScanMails, TypeOK, promptVars
<1>3. Busy /\ Busy' /\ NextScan' = NextScan
  BY <1>2 DEF Busy, NextScan
<1>4. \A u \in Users : Pushes(u)' = Pushes(u)
  BY <1>2 DEF Pushes
<1>5. QED BY <1>1, <1>2, <1>3, <1>4 DEF PromptInv

LEMMA PromptScan == TypeOK /\ PromptInv /\ ScanPrompts => PromptInv'
<1>1. SUFFICES ASSUME TypeOK, PromptInv, ScanPrompts, calm'.server, calm'.loop PROVE PromptInv'
  BY DEF PromptInv
<1>2. /\ calm.server /\ calm.loop /\ loop = "prompts" /\ loop' = "wait"
      /\ prompting' = Spawn(prompting, IF Due THEN accepted ELSE {})
      /\ UNCHANGED <<now, timer, tick, accepted, held, up, prompted>>
  BY <1>1 DEF ScanPrompts, TypeOK
<1>3. up /\ timer = Period /\ ~tick /\ NextScan = now
  BY <1>1, <1>2 DEF PromptInv, Busy, NextScan
<1>4. ~Busy' /\ NextScan' = NextScan + Period
  BY <1>2, <1>3 DEF Busy, NextScan
<1>5. Due <=> PromptFrom <= NextScan /\ NextScan <= PromptFrom + Period
  BY <1>1, <1>3, PushesTyped, NumbersTyped DEF Due, InPromptWindow
<1>6. (NextScan + Period) % Period = NextScan % Period
  BY <1>1, PushesTyped, NumbersTyped, SamePhase
<1>7. (PromptFrom + Period) % Period = PromptFrom % Period
  BY NumbersTyped, SamePhase
<1>8. \A u \in Users : Pushes(u)' = IF Due /\ u \in accepted THEN Pushes(u) + 1 ELSE Pushes(u)
  <2>1. TAKE u \in Users
  <2>2. prompting'[u] = IF u \in (IF Due THEN accepted ELSE {}) THEN prompting[u] + 1 ELSE prompting[u]
    BY <1>2 DEF Spawn
  <2>3. prompted[u] \in Nat /\ prompting[u] \in Nat /\ prompted'[u] = prompted[u]
    BY <1>1, <1>2 DEF TypeOK
  <2>4. QED BY <2>2, <2>3 DEF Pushes
<1>9. ASSUME NEW u \in Users
      PROVE  /\ NextScan + Period < PromptFrom + Period => Pushes(u)' = 0
             /\ NextScan + Period < PromptFrom + Period + Period => Pushes(u)' <= 1
             /\ Pushes(u)' <= IF NextScan % Period = PromptFrom % Period THEN 2 ELSE 1
             /\ u \in accepted /\ held[u] <= PromptFrom /\ NextScan + Period > PromptFrom + Period => Pushes(u)' >= 1
  <2> DEFINE n  == Pushes(u)
             n1 == Pushes(u)'
             x  == NextScan
             same == x % Period = PromptFrom % Period
  <2>1. n \in Nat /\ x \in Nat /\ PromptFrom \in Nat /\ Period \in Nat /\ Period > 0
    BY <1>1, PushesTyped, NumbersTyped
  <2>2. /\ x < PromptFrom + Period => n = 0
        /\ x < PromptFrom + Period + Period => n <= 1
        /\ n <= IF same THEN 2 ELSE 1
        /\ u \in accepted /\ held[u] <= PromptFrom /\ x > PromptFrom + Period => n >= 1
    BY <1>1, <1>2 DEF PromptInv
  <2>3. n1 = IF Due /\ u \in accepted THEN n + 1 ELSE n
    BY <1>8
  <2>4. x = PromptFrom + Period => same
    BY <1>7
  <2> HIDE DEF n, n1, x, same
  <2>5. Due <=> PromptFrom <= x /\ x <= PromptFrom + Period
    BY <1>5 DEF x
  <2>6. x + Period < PromptFrom + Period => n1 = 0
    BY <2>1, <2>2, <2>3, <2>5
  <2>7. x + Period < PromptFrom + Period + Period => n1 <= 1
    BY <2>1, <2>2, <2>3, <2>5
  <2>8. n1 <= IF same THEN 2 ELSE 1
    BY <2>1, <2>2, <2>3, <2>4, <2>5
  <2>9. u \in accepted /\ held[u] <= PromptFrom /\ x + Period > PromptFrom + Period => n1 >= 1
    BY <2>1, <2>2, <2>3, <2>5
  <2>10. QED BY <2>6, <2>7, <2>8, <2>9 DEF n, n1, x, same
<1>10. QED BY <1>2, <1>3, <1>4, <1>6, <1>9 DEF PromptInv

LEMMA PromptStep == TypeOK /\ PromptInv /\ [Next]_vars => PromptInv'
<1>1. SUFFICES ASSUME TypeOK, PromptInv, [Next]_vars PROVE PromptInv'
  OBVIOUS
<1>2. CASE UNCHANGED vars
  BY <1>1, <1>2, PromptFrame DEF vars, clockVars, promptVars, Pushes
<1>3. CASE Crash
  BY <1>1, <1>3 DEF Crash, PromptInv, TypeOK
<1>4. CASE Restart
  BY <1>1, <1>4 DEF Restart, PromptInv
<1>5. ASSUME NEW u \in Users, Accept(u) \/ Remove(u) PROVE PromptInv'
  <2>1. UNCHANGED <<now, timer, tick, loop, up, calm, prompting, prompted>>
    BY <1>5 DEF Accept, Remove, clockVars, promptVars
  <2>2. \A v \in accepted' : (v \in accepted /\ held'[v] = held[v]) \/ held'[v] = now
    BY <1>1, <1>5 DEF Accept, Remove, TypeOK
  <2>3. QED BY <1>1, <2>1, <2>2, PromptFrame DEF Pushes
<1>6. ASSUME NEW u \in Users, Lease(u) PROVE PromptInv'
  <2>1. UNCHANGED <<now, timer, tick, loop, up, accepted, held, prompting, prompted>>
    BY <1>6 DEF Lease, clockVars, promptVars
  <2>2. (calm'.server => calm.server) /\ (calm'.loop => calm.loop)
    BY <1>1, <1>6 DEF Lease, TypeOK
  <2>3. QED BY <1>1, <2>1, <2>2, PromptFrame DEF Pushes
<1>7. ASSUME NEW u \in Users, SendMail(u) PROVE PromptInv'
  BY <1>1, <1>7, PromptFrame DEF SendMail, clockVars, promptVars, Pushes
<1>8. ASSUME NEW u \in Users, SendPrompt(u) PROVE PromptInv'
  <2>1. UNCHANGED <<now, timer, tick, loop, up, calm, accepted, held>>
    BY <1>8 DEF SendPrompt, clockVars
  <2>2. \A v \in Users : Pushes(v)' = Pushes(v)
    BY <1>1, <1>8 DEF SendPrompt, Pushes, TypeOK
  <2>3. QED BY <1>1, <2>1, <2>2, PromptFrame
<1>9. QED BY <1>1, <1>2, <1>3, <1>4, <1>5, <1>6, <1>7, <1>8, PromptTick, PromptScanMails, PromptScan DEF Next

(* While the loop is on time, every traveller of a ride is pushed once to   *)
(* rate it, and twice only when its 12 hours end to the instant at a scan:  *)
(* for any period the window meets one scan (checkRatingPrompts).           *)
THEOREM PromptedByOneScan == Spec => []PromptsMeetScans
<1>1. Init => PromptInv
  <2>1. SUFFICES ASSUME Init PROVE PromptInv
    OBVIOUS
  <2>2. up /\ ~Busy /\ timer \in 1 .. Period /\ NextScan = now + timer /\ now = 0 /\ loop = "wait"
    BY <2>1 DEF Init, Busy, NextScan
  <2>3. NextScan <= Period /\ NextScan \in Nat
    BY <2>2, NumbersTyped
  <2>4. \A u \in Users : Pushes(u) = 0
    <3>1. TAKE u \in Users
    <3>2. prompted[u] = 0 /\ prompting[u] = 0
      BY <2>1 DEF Init
    <3>3. prompted[u] + prompting[u] = 0
      BY <3>2
    <3>4. QED BY <3>3 DEF Pushes
  <2>5. ~(NextScan > PromptFrom + Period)
    BY <2>3, NumbersTyped
  <2>6. QED BY <2>2, <2>4, <2>5 DEF PromptInv
<1>2. TypeOK /\ PromptInv => PromptsMeetScans
  <2>1. SUFFICES ASSUME TypeOK, PromptInv, calm.server, calm.loop, NEW u \in accepted
                 PROVE  /\ Pushes(u) <= IF (now + timer) % Period = PromptFrom % Period THEN 2 ELSE 1
                        /\ now > PromptFrom + Period /\ held[u] <= PromptFrom => Pushes(u) >= 1
    BY DEF PromptsMeetScans, Pushes
  <2>2. u \in Users /\ (Busy => timer = Period)
    BY <2>1 DEF TypeOK, PromptInv
  <2>3. (now + timer) % Period = NextScan % Period
    <3>1. CASE Busy
      BY <2>1, <2>2, <3>1, ClockTyped, NumbersTyped, SamePhase DEF NextScan
    <3>2. CASE ~Busy
      BY <3>2 DEF NextScan
    <3>3. QED BY <3>1, <3>2
  <2>4. NextScan >= now
    BY <2>1, ClockTyped DEF NextScan
  <2>5. now > PromptFrom + Period => NextScan > PromptFrom + Period
    BY <2>1, <2>4, ClockTyped, PushesTyped, NumbersTyped
  <2>6. QED BY <2>1, <2>2, <2>3, <2>5 DEF PromptInv
<1>3. QED BY <1>1, <1>2, PromptStep, NoticesTypeCorrect, PTL DEF Spec

-----------------------------------------------------------------------------
(* Pushes and their tokens.                                                *)

Tokens == [Recipients -> 0..MaxTokens]

(* What a job may know. *)
JobTypes ==
  {NoJob}
  \cup [kind : {"chat", "edit"}, step : {"silent"}]
  \cup [kind : {"chat"}, step : {"timed"}, room : Rooms, to : Tokens, at : 1..MaxMinute]
  \cup [kind : {"chat"}, step : {"sending", "dead", "done"}, room : Rooms, to : Tokens, at : 1..MaxMinute,
        who : SUBSET Recipients]
  \cup [kind : {"edit"}, step : {"read"}, prev : 0..MaxMinute, beside : SUBSET Jobs, after : SUBSET Jobs]
  \cup [kind : {"edit"}, step : {"stamping"}, at : 1..MaxMinute, beside : SUBSET Jobs, after : SUBSET Jobs]
  \cup [kind : {"edit"}, step : {"sending", "dead", "done"}, to : Tokens, at : 1..MaxMinute,
        beside : SUBSET Jobs, after : SUBSET Jobs]

PushTyped ==
  /\ minute \in 1..MaxMinute
  /\ app \in [Recipients -> 1..MaxTokens]
  /\ token \in Tokens /\ saved \in Tokens
  /\ raced \subseteq Recipients /\ failed \subseteq Jobs
  /\ lastSent \in [Keys -> 0..MaxMinute] /\ notified \in 0..MaxMinute
  /\ job \in [Jobs -> JobTypes]

LEMMA BoundsTyped ==
  /\ MaxJobs \in Nat /\ Window \in Nat /\ Window > 0 /\ PurgeAfter \in Nat
  /\ PurgeAfter + 2 >= 2 * Window
  /\ Cooldown \in Nat /\ Cooldown > 0
  /\ MaxTokens \in Nat /\ MaxTokens >= 1 /\ MaxMinute \in Nat /\ MaxMinute >= 1
BY PushAssumption

(* What is known of a job from its step. *)
LEMMA JobFacts ==
  ASSUME PushTyped, NEW j \in Jobs
  PROVE  /\ job[j].step = "timed" =>
              job[j] \in [kind : {"chat"}, step : {"timed"}, room : Rooms, to : Tokens, at : 1..MaxMinute]
         /\ job[j].step = "read" =>
              job[j] \in [kind : {"edit"}, step : {"read"}, prev : 0..MaxMinute, beside : SUBSET Jobs,
                          after : SUBSET Jobs]
         /\ job[j].step = "stamping" =>
              job[j] \in [kind : {"edit"}, step : {"stamping"}, at : 1..MaxMinute, beside : SUBSET Jobs,
                          after : SUBSET Jobs]
         /\ job[j].step \in {"sending", "dead", "done"} =>
              \/ job[j] \in [kind : {"chat"}, step : {"sending", "dead", "done"}, room : Rooms, to : Tokens,
                             at : 1..MaxMinute, who : SUBSET Recipients]
              \/ job[j] \in [kind : {"edit"}, step : {"sending", "dead", "done"}, to : Tokens, at : 1..MaxMinute,
                             beside : SUBSET Jobs, after : SUBSET Jobs]
         /\ job[j] = NoJob => job[j].step = "idle"
<1>1. job[j] \in JobTypes
  BY DEF PushTyped
<1>2. QED BY <1>1 DEF JobTypes, NoJob

LEMMA NobodysTokens == [u \in Recipients |-> 0] \in Tokens
BY BoundsTyped DEF Tokens

LEMMA PushStepTyped == PushTyped /\ [PushNext]_pushVars => PushTyped'
<1>1. SUFFICES ASSUME PushTyped, [PushNext]_pushVars PROVE PushTyped'
  OBVIOUS
<1>2. CASE UNCHANGED pushVars
  BY <1>1, <1>2 DEF PushTyped, pushVars
<1>3. CASE PushTick
  BY <1>1, <1>3, BoundsTyped DEF PushTyped, PushTick
<1>4. ASSUME NEW u \in Recipients, NewToken(u) PROVE PushTyped'
  BY <1>1, <1>4, BoundsTyped DEF PushTyped, NewToken
<1>5. ASSUME NEW u \in Recipients, UpdateUserToken(u) \/ RemoveUserToken(u) PROVE PushTyped'
  <2>1. token' \in Tokens /\ saved' \in Tokens
    BY <1>1, <1>5, BoundsTyped DEF PushTyped, UpdateUserToken, RemoveUserToken, Tokens
  <2>2. QED BY <1>1, <1>5, <2>1 DEF PushTyped, UpdateUserToken, RemoveUserToken
<1>6. ASSUME NEW j \in Jobs, NEW room \in Rooms, FilterChatPushThrottle(j, room) PROVE PushTyped'
  <2>1. [kind |-> "chat", room |-> room, to |-> token, at |-> minute, step |-> "timed"] \in JobTypes
    BY <1>1 DEF PushTyped, JobTypes
  <2>2. QED BY <1>1, <1>6, <2>1 DEF PushTyped, FilterChatPushThrottle, Becomes
<1>7. ASSUME NEW j \in Jobs, FilterUnderLock(j) PROVE PushTyped'
  <2> DEFINE allowed == {u \in {v \in Recipients : job[j].to[v] # 0} : ~Throttled(j, u)}
             to == [u \in Recipients |-> IF u \in allowed THEN job[j].to[u] ELSE 0]
             sent == [k \in Keys |-> IF k[1] = job[j].room /\ k[2] \in allowed THEN job[j].at ELSE lastSent[k]]
  <2>1. job[j] \in [kind : {"chat"}, step : {"timed"}, room : Rooms, to : Tokens, at : 1..MaxMinute]
    BY <1>1, <1>7, JobFacts DEF FilterUnderLock, At
  <2>2. to \in Tokens /\ allowed \subseteq Recipients
    BY <2>1, BoundsTyped DEF Tokens
  <2>3. sent \in [Keys -> 0..MaxMinute]
    BY <1>1, <2>1, BoundsTyped DEF PushTyped
  <2> HIDE DEF to, sent
  <2>4. lastSent' \in [Keys -> 0..MaxMinute]
    <3>1. lastSent' = Purge(sent, job[j].at)
      BY <1>7 DEF FilterUnderLock, sent
    <3>2. QED BY <2>3, <3>1, BoundsTyped DEF Purge
  <2>5. job' = [job EXCEPT ![j] = IF allowed = {} THEN [kind |-> "chat", step |-> "silent"]
                                  ELSE [kind |-> "chat", room |-> job[j].room, at |-> job[j].at, who |-> allowed,
                                        to |-> to, step |-> "sending"]]
    BY <1>7 DEF FilterUnderLock, Becomes, to
  <2> HIDE DEF allowed
  <2>6. job' \in [Jobs -> JobTypes]
    <3>1. [kind |-> "chat", step |-> "silent"] \in JobTypes
      BY DEF JobTypes
    <3>2. [kind |-> "chat", room |-> job[j].room, at |-> job[j].at, who |-> allowed, to |-> to, step |-> "sending"]
            \in JobTypes
      BY <2>1, <2>2 DEF JobTypes
    <3>3. QED BY <1>1, <2>5, <3>1, <3>2 DEF PushTyped
  <2>7. QED BY <1>1, <1>7, <2>4, <2>6 DEF PushTyped, FilterUnderLock
<1>8. ASSUME NEW j \in Jobs, UpdateRide(j) PROVE PushTyped'
  <2> DEFINE after == {k \in Jobs : job[k].step \in {"sending", "dead", "done"} /\ job[k].kind = "edit"}
  <2>1. [kind |-> "edit", step |-> "read", prev |-> notified, beside |-> Overlapping, after |-> after] \in JobTypes
    BY <1>1 DEF PushTyped, JobTypes, Overlapping
  <2>2. ASSUME NEW i \in Overlapping PROVE [job[i] EXCEPT !.beside = @ \cup {j}] \in JobTypes
    <3>1. CASE job[i].step = "read"
      <4>1. job[i] \in [kind : {"edit"}, step : {"read"}, prev : 0..MaxMinute, beside : SUBSET Jobs,
                        after : SUBSET Jobs]
        BY <1>1, <2>2, <3>1, JobFacts DEF Overlapping
      <4>2. QED BY <4>1 DEF JobTypes
    <3>2. CASE job[i].step = "stamping"
      <4>1. job[i] \in [kind : {"edit"}, step : {"stamping"}, at : 1..MaxMinute, beside : SUBSET Jobs,
                        after : SUBSET Jobs]
        BY <1>1, <2>2, <3>2, JobFacts DEF Overlapping
      <4>2. QED BY <4>1 DEF JobTypes
    <3>3. QED BY <2>2, <3>1, <3>2 DEF Overlapping
  <2>3. job' \in [Jobs -> JobTypes]
    BY <1>1, <1>8, <2>1, <2>2 DEF PushTyped, UpdateRide
  <2>4. QED BY <1>1, <1>8, <2>3 DEF PushTyped, UpdateRide
<1>9. ASSUME NEW j \in Jobs, CheckCooldown(j) PROVE PushTyped'
  <2>1. job[j] \in [kind : {"edit"}, step : {"read"}, prev : 0..MaxMinute, beside : SUBSET Jobs, after : SUBSET Jobs]
    BY <1>1, <1>9, JobFacts DEF CheckCooldown, At
  <2>2. /\ [kind |-> "edit", step |-> "silent"] \in JobTypes
        /\ [at |-> minute, kind |-> "edit", step |-> "stamping", beside |-> job[j].beside, after |-> job[j].after]
             \in JobTypes
    BY <1>1, <2>1 DEF PushTyped, JobTypes
  <2>3. QED BY <1>1, <1>9, <2>2 DEF PushTyped, CheckCooldown, Becomes
<1>10. ASSUME NEW j \in Jobs, StampAndLoad(j) PROVE PushTyped'
  <2>1. job[j] \in [kind : {"edit"}, step : {"stamping"}, at : 1..MaxMinute, beside : SUBSET Jobs, after : SUBSET Jobs]
    BY <1>1, <1>10, JobFacts DEF StampAndLoad, At
  <2>2. \A to \in Tokens : [at |-> job[j].at, kind |-> "edit", to |-> to, beside |-> job[j].beside,
                            after |-> job[j].after, step |-> "sending"] \in JobTypes
    BY <2>1 DEF JobTypes
  <2>3. PICK to \in {token, [u \in Recipients |-> 0]} :
          job' = [job EXCEPT ![j] = [at |-> job[j].at, kind |-> "edit", to |-> to, beside |-> job[j].beside,
                                     after |-> job[j].after, step |-> "sending"]]
    BY <1>10 DEF StampAndLoad, Becomes
  <2>4. to \in Tokens
    BY <1>1, NobodysTokens DEF PushTyped
  <2>5. job' \in [Jobs -> JobTypes]
    BY <1>1, <2>2, <2>3, <2>4 DEF PushTyped
  <2>6. notified' \in 0..MaxMinute /\ failed' \subseteq Jobs
    BY <1>1, <1>10, <2>1, BoundsTyped DEF PushTyped, StampAndLoad
  <2>7. QED BY <1>1, <1>10, <2>5, <2>6 DEF PushTyped, StampAndLoad
<1>11. ASSUME NEW j \in Jobs, SendEach(j) PROVE PushTyped'
  <2>1. PICK a \in Answers(j) : job' = [job EXCEPT ![j].step = IF Dead(a) = {} THEN "done" ELSE "dead",
                                  ![j].to = [u \in Recipients |-> IF u \in Dead(a) THEN @[u] ELSE 0]]
    BY <1>11 DEF SendEach
  <2>2. job[j].to \in Tokens /\ job[j] \in JobTypes /\ job[j].step = "sending"
    BY <1>1, <1>11, JobFacts DEF SendEach, At, PushTyped
  <2> DEFINE to == [u \in Recipients |-> IF u \in Dead(a) THEN job[j].to[u] ELSE 0]
             step == IF Dead(a) = {} THEN "done" ELSE "dead"
  <2>3. to \in Tokens /\ step \in {"done", "dead"}
    BY <2>2, BoundsTyped DEF Tokens
  <2>4. job' = [job EXCEPT ![j] = [job[j] EXCEPT !.step = step, !.to = to]]
    BY <2>1, <2>2
  <2> HIDE DEF to, step
  <2>5. [job[j] EXCEPT !.step = step, !.to = to] \in JobTypes
    BY <1>1, <2>2, <2>3, JobFacts DEF JobTypes
  <2>6. QED BY <1>1, <1>11, <2>4, <2>5 DEF PushTyped, SendEach
<1>12. ASSUME NEW j \in Jobs, ClearTokens(j) PROVE PushTyped'
  <2>1. token' \in Tokens
    BY <1>1, <1>12, BoundsTyped DEF PushTyped, ClearTokens, Tokens
  <2>2. [job[j] EXCEPT !.step = "done"] \in JobTypes
    BY <1>1, <1>12, JobFacts DEF ClearTokens, At, JobTypes
  <2>3. QED BY <1>1, <1>12, <2>1, <2>2 DEF PushTyped, ClearTokens, Goes, Becomes
<1>13. QED BY <1>1, <1>2, <1>3, <1>4, <1>5, <1>6, <1>7, <1>8, <1>9, <1>10, <1>11, <1>12 DEF PushNext

(* Tokens, stamps and jobs stay well formed: each job carries what its step *)
(* uses.                                                                    *)
THEOREM PushTypeCorrect == PushSpec => []PushTyped
<1>1. PushInit => PushTyped
  BY BoundsTyped DEF PushInit, PushTyped, JobTypes, Tokens
<1>2. QED BY <1>1, PushStepTyped, PTL DEF PushSpec

-----------------------------------------------------------------------------
(* What a job keeps. *)

StaysStamped(j) ==
  /\ j \in Stamped /\ job'[j].step \in {"dead", "done"} /\ \A i \in Jobs \ {j} : job'[i] = job[i]
  /\ job'[j].kind = job[j].kind /\ job'[j].at = job[j].at
  /\ job[j].kind = "chat" => job'[j].room = job[j].room /\ job'[j].who = job[j].who
  /\ job[j].kind = "edit" => job'[j].beside = job[j].beside /\ job'[j].after = job[j].after

(* What is sent keeps what it was about. *)
LEMMA SentStaysStamped ==
  ASSUME PushTyped, NEW j \in Jobs, SendEach(j) \/ ClearTokens(j)
  PROVE  StaysStamped(j)
<1>1. job[j].step \in {"sending", "dead"} /\ j \in Stamped
  BY DEF SendEach, ClearTokens, At, Stamped
<1>2. \/ job[j] \in [kind : {"chat"}, step : {"sending", "dead", "done"}, room : Rooms, to : Tokens,
                     at : 1..MaxMinute, who : SUBSET Recipients]
      \/ job[j] \in [kind : {"edit"}, step : {"sending", "dead", "done"}, to : Tokens, at : 1..MaxMinute,
                     beside : SUBSET Jobs, after : SUBSET Jobs]
  BY <1>1, JobFacts
<1>3. CASE ClearTokens(j)
  <2>1. job' = [job EXCEPT ![j] = [job[j] EXCEPT !.step = "done"]]
    BY <1>3 DEF ClearTokens, Goes, Becomes
  <2>2. job'[j] = [job[j] EXCEPT !.step = "done"] /\ \A i \in Jobs \ {j} : job'[i] = job[i]
    BY <2>1 DEF PushTyped
  <2>3. QED BY <1>1, <1>2, <2>2 DEF StaysStamped
<1>4. CASE SendEach(j)
  <2>1. PICK a \in Answers(j) : job' = [job EXCEPT ![j].step = IF Dead(a) = {} THEN "done" ELSE "dead",
                                  ![j].to = [u \in Recipients |-> IF u \in Dead(a) THEN @[u] ELSE 0]]
    BY <1>4 DEF SendEach
  <2> DEFINE to == [u \in Recipients |-> IF u \in Dead(a) THEN job[j].to[u] ELSE 0]
             step == IF Dead(a) = {} THEN "done" ELSE "dead"
  <2>2. step \in {"done", "dead"}
    OBVIOUS
  <2>3. job' = [job EXCEPT ![j] = [job[j] EXCEPT !.step = step, !.to = to]]
    BY <1>2, <2>1
  <2> HIDE DEF to, step
  <2>4. job'[j] = [job[j] EXCEPT !.step = step, !.to = to] /\ \A i \in Jobs \ {j} : job'[i] = job[i]
    BY <2>3 DEF PushTyped
  <2>5. QED BY <1>1, <1>2, <2>2, <2>4 DEF StaysStamped
<1>5. QED BY <1>3, <1>4

Joins(j) ==
  /\ UNCHANGED <<minute, app, token, saved, raced, lastSent, notified, failed>>
  /\ job[j].step = "idle" /\ job'[j].step = "read" /\ job'[j].prev = notified
  /\ job'[j].beside = Overlapping /\ job'[j].after = StampedFor("edit")
  /\ \A i \in Overlapping : /\ job'[i].step = job[i].step /\ job'[i].after = job[i].after
                            /\ job'[i].beside = job[i].beside \cup {j}
                            /\ job[i].step = "read" => job'[i].prev = job[i].prev
                            /\ job[i].step = "stamping" => job'[i].at = job[i].at
  /\ \A i \in Jobs \ {j} : /\ job'[i].step = job[i].step
                           /\ i \notin Overlapping => job'[i] = job[i]

(* An edit that begins joins those that run beside it. *)
LEMMA RideJoins ==
  ASSUME PushTyped, NEW j \in Jobs, UpdateRide(j)
  PROVE  Joins(j)
<1>1. job[j].step = "idle" /\ j \notin Overlapping
  BY DEF UpdateRide, Begins, NoJob, Overlapping
<1>2. /\ job'[j].step = "read" /\ job'[j].prev = notified /\ job'[j].beside = Overlapping
      /\ job'[j].after = StampedFor("edit")
  BY DEF UpdateRide, StampedFor, Stamped
<1>3. ASSUME NEW i \in Overlapping
      PROVE  /\ job'[i].step = job[i].step /\ job'[i].after = job[i].after
             /\ job'[i].beside = job[i].beside \cup {j}
             /\ job[i].step = "read" => job'[i].prev = job[i].prev
             /\ job[i].step = "stamping" => job'[i].at = job[i].at
  <2>1. job'[i] = [job[i] EXCEPT !.beside = @ \cup {j}]
    BY <1>1, <1>3 DEF UpdateRide, Overlapping
  <2>2. \/ job[i] \in [kind : {"edit"}, step : {"read"}, prev : 0..MaxMinute, beside : SUBSET Jobs, after : SUBSET Jobs]
        \/ job[i] \in [kind : {"edit"}, step : {"stamping"}, at : 1..MaxMinute, beside : SUBSET Jobs, after : SUBSET Jobs]
    BY <1>3, JobFacts DEF Overlapping
  <2>3. QED BY <2>1, <2>2
<1>4. \A i \in Jobs \ {j} : i \notin Overlapping => job'[i] = job[i]
  BY DEF UpdateRide
<1>5. QED BY <1>1, <1>2, <1>3, <1>4 DEF UpdateRide, Joins, Overlapping

-----------------------------------------------------------------------------
(* Dead tokens. *)

Loaded(j) == job[j].step \in {"timed", "sending", "dead"}

(* Tokens are those of the past.  Who saved the app's token while no push   *)
(* to an older one was under way has it, and no such push came since; and   *)
(* what FCM called dead is old.                                             *)
TokenInv ==
  /\ \A u \in Recipients : token[u] <= app[u] /\ saved[u] <= app[u]
  /\ \A j \in Jobs : Loaded(j) => \A u \in Recipients : job[j].to[u] <= app[u]
  /\ \A j \in Jobs : job[j].step = "dead" => \A u \in Recipients : job[j].to[u] # 0 => job[j].to[u] < app[u]
  /\ \A u \in Recipients \ raced : saved[u] = app[u] =>
       /\ token[u] = saved[u]
       /\ \A j \in Jobs : Loaded(j) => job[j].to[u] \in {0, app[u]}

LEMMA TokenTyped ==
  ASSUME PushTyped
  PROVE  /\ \A u \in Recipients : app[u] \in Nat /\ app[u] >= 1 /\ token[u] \in Nat /\ saved[u] \in Nat
         /\ \A j \in Jobs : Loaded(j) => job[j].to \in Tokens
         /\ \A j \in Jobs : Loaded(j) => \A u \in Recipients : job[j].to[u] \in Nat
<1>1. \A u \in Recipients : app[u] \in Nat /\ app[u] >= 1 /\ token[u] \in Nat /\ saved[u] \in Nat
  BY BoundsTyped DEF PushTyped, Tokens
<1>2. ASSUME NEW j \in Jobs, Loaded(j) PROVE job[j].to \in Tokens
  BY <1>2, JobFacts DEF Loaded
<1>3. ASSUME NEW j \in Jobs, Loaded(j), NEW u \in Recipients PROVE job[j].to[u] \in Nat
  BY <1>2, <1>3, BoundsTyped DEF Tokens
<1>4. QED BY <1>1, <1>2, <1>3

(* A job that keeps some of the tokens it knew, or the present ones, and    *)
(* calls only old ones dead, breaks no promise.                             *)
LEMMA JobKeepsTokens ==
  ASSUME PushTyped, TokenInv, UNCHANGED <<app, token, saved, raced>>, NEW j \in Jobs,
         \A i \in Jobs \ {j} : job'[i].step \in {"timed", "sending", "dead"} => job'[i] = job[i],
         Loaded(j)' => \/ \A u \in Recipients : job'[j].to[u] \in {0, token[u]}
                       \/ Loaded(j) /\ \A u \in Recipients : job'[j].to[u] \in {0, job[j].to[u]},
         job'[j].step = "dead" => \A u \in Recipients : job'[j].to[u] # 0 => job'[j].to[u] < app[u]
  PROVE  TokenInv'
<1>1. \A i \in Jobs \ {j} : Loaded(i)' => Loaded(i) /\ job'[i] = job[i]
  BY DEF Loaded
<1>2. ASSUME NEW i \in Jobs, Loaded(i)', NEW u \in Recipients
      PROVE  /\ job'[i].to[u] <= app[u]
             /\ u \notin raced /\ saved[u] = app[u] => job'[i].to[u] \in {0, app[u]}
  <2>1. app[u] \in Nat /\ token[u] <= app[u]
    BY TokenTyped DEF TokenInv
  <2>2. CASE i # j
    BY <1>1, <1>2, <2>2 DEF TokenInv
  <2>3. CASE i = j /\ job'[j].to[u] \in {0, token[u]}
    BY <2>1, <2>3 DEF TokenInv
  <2>4. CASE i = j /\ Loaded(j) /\ job'[j].to[u] \in {0, job[j].to[u]}
    BY <2>1, <2>4 DEF TokenInv
  <2>5. QED BY <1>2, <2>2, <2>3, <2>4
<1>3. \A i \in Jobs : job'[i].step = "dead" => \A u \in Recipients : job'[i].to[u] # 0 => job'[i].to[u] < app[u]
  BY <1>1 DEF TokenInv, Loaded
<1>4. QED BY <1>2, <1>3 DEF TokenInv

LEMMA TokenStep == PushTyped /\ TokenInv /\ [PushNext]_pushVars => TokenInv'
<1>1. SUFFICES ASSUME PushTyped, TokenInv, [PushNext]_pushVars PROVE TokenInv'
  OBVIOUS
<1>2. CASE UNCHANGED <<app, token, saved, raced, job>>
  BY <1>1, <1>2 DEF TokenInv, Loaded
<1>3. CASE PushTick \/ UNCHANGED pushVars
  BY <1>2, <1>3 DEF PushTick, pushVars
<1>4. ASSUME NEW u \in Recipients, NewToken(u) PROVE TokenInv'
  <2>1. /\ UNCHANGED <<token, saved, raced, job>> /\ app'[u] = app[u] + 1
        /\ \A v \in Recipients \ {u} : app'[v] = app[v]
    BY <1>1, <1>4 DEF NewToken, PushTyped
  <2>2. \A v \in Recipients : app[v] <= app'[v] /\ app'[v] \in Nat
    BY <1>1, <2>1, TokenTyped
  <2>3. saved'[u] # app'[u]
    BY <1>1, <2>1, TokenTyped DEF TokenInv
  <2>4. \A v \in Recipients : token'[v] <= app'[v] /\ saved'[v] <= app'[v]
    BY <1>1, <2>1, <2>2, TokenTyped DEF TokenInv
  <2>5. ASSUME NEW j \in Jobs, Loaded(j)', NEW v \in Recipients PROVE job'[j].to[v] <= app'[v]
    BY <1>1, <2>1, <2>2, <2>5, TokenTyped DEF TokenInv, Loaded
  <2>6. ASSUME NEW j \in Jobs, job'[j].step = "dead", NEW v \in Recipients, job'[j].to[v] # 0
        PROVE  job'[j].to[v] < app'[v]
    BY <1>1, <2>1, <2>2, <2>6, TokenTyped DEF TokenInv, Loaded
  <2>7. QED BY <1>1, <2>1, <2>3, <2>4, <2>5, <2>6 DEF TokenInv, Loaded
<1>5. ASSUME NEW u \in Recipients, UpdateUserToken(u) PROVE TokenInv'
  <2>1. /\ UNCHANGED <<app, job>> /\ token'[u] = app[u] /\ saved'[u] = app[u] /\ raced \subseteq raced'
        /\ \A v \in Recipients \ {u} : token'[v] = token[v] /\ saved'[v] = saved[v]
        /\ u \notin raced' => InFlight(u) = {}
    BY <1>1, <1>5 DEF UpdateUserToken, PushTyped, Tokens
  <2>2. u \notin raced' => \A j \in Jobs : Loaded(j) => job[j].to[u] \in {0, app[u]}
    BY <2>1 DEF InFlight, Loaded
  <2>3. \A v \in Recipients : token'[v] <= app[v] /\ saved'[v] <= app[v]
    BY <1>1, <2>1, TokenTyped DEF TokenInv
  <2>4. QED BY <1>1, <2>1, <2>2, <2>3 DEF TokenInv, Loaded
<1>6. ASSUME NEW u \in Recipients, RemoveUserToken(u) PROVE TokenInv'
  <2>1. /\ UNCHANGED <<app, job, raced>> /\ token'[u] = 0 /\ saved'[u] = 0
        /\ \A v \in Recipients \ {u} : token'[v] = token[v] /\ saved'[v] = saved[v]
    BY <1>1, <1>6 DEF RemoveUserToken, PushTyped, Tokens
  <2>2. saved'[u] # app'[u] /\ token'[u] <= app[u] /\ saved'[u] <= app[u]
    BY <1>1, <2>1, TokenTyped
  <2>3. QED BY <1>1, <2>1, <2>2 DEF TokenInv, Loaded
<1>7. ASSUME NEW j \in Jobs, NEW room \in Rooms, FilterChatPushThrottle(j, room) PROVE TokenInv'
  <2>1. /\ UNCHANGED <<app, token, saved, raced>>
        /\ job'[j].step = "timed" /\ job'[j].to = token
        /\ \A i \in Jobs \ {j} : job'[i] = job[i]
    BY <1>1, <1>7 DEF FilterChatPushThrottle, Becomes, PushTyped
  <2>2. QED BY <1>1, <2>1, JobKeepsTokens
<1>8. ASSUME NEW j \in Jobs, FilterUnderLock(j) PROVE TokenInv'
  <2>1. /\ UNCHANGED <<app, token, saved, raced>> /\ Loaded(j)
        /\ \A i \in Jobs \ {j} : job'[i] = job[i]
        /\ \/ job'[j].step = "silent"
           \/ job'[j].step = "sending" /\ \A u \in Recipients : job'[j].to[u] \in {0, job[j].to[u]}
    BY <1>1, <1>8 DEF FilterUnderLock, Becomes, At, Loaded, PushTyped
  <2>2. QED BY <1>1, <2>1, JobKeepsTokens DEF Loaded
<1>9. ASSUME NEW j \in Jobs, UpdateRide(j) PROVE TokenInv'
  <2>0. Joins(j)
    BY <1>1, <1>9, RideJoins
  <2>1. /\ UNCHANGED <<app, token, saved, raced>>
        /\ job'[j].step = "read"
        /\ \A i \in Jobs \ {j} : job'[i].step = job[i].step /\ (i \notin Overlapping => job'[i] = job[i])
    BY <2>0 DEF Joins
  <2>2. \A i \in Jobs \ {j} : job'[i].step \in {"timed", "sending", "dead"} => job'[i] = job[i]
    BY <2>1 DEF Overlapping
  <2>3. QED BY <1>1, <2>1, <2>2, JobKeepsTokens DEF Loaded
<1>10. ASSUME NEW j \in Jobs, CheckCooldown(j) PROVE TokenInv'
  <2>1. /\ UNCHANGED <<app, token, saved, raced>> /\ job'[j].step \in {"silent", "stamping"}
        /\ \A i \in Jobs \ {j} : job'[i] = job[i]
    BY <1>1, <1>10 DEF CheckCooldown, Becomes, PushTyped
  <2>2. QED BY <1>1, <2>1, JobKeepsTokens DEF Loaded
<1>11. ASSUME NEW j \in Jobs, StampAndLoad(j) PROVE TokenInv'
  <2>1. /\ UNCHANGED <<app, token, saved, raced>> /\ job'[j].step = "sending"
        /\ \A i \in Jobs \ {j} : job'[i] = job[i]
        /\ \A u \in Recipients : job'[j].to[u] \in {0, token[u]}
    BY <1>1, <1>11 DEF StampAndLoad, Becomes, PushTyped
  <2>2. QED BY <1>1, <2>1, JobKeepsTokens
<1>12. ASSUME NEW j \in Jobs, SendEach(j) PROVE TokenInv'
  <2>1. PICK a \in Answers(j) : job' = [job EXCEPT ![j].step = IF Dead(a) = {} THEN "done" ELSE "dead",
                                  ![j].to = [u \in Recipients |-> IF u \in Dead(a) THEN @[u] ELSE 0]]
    BY <1>12 DEF SendEach
  <2>2. /\ UNCHANGED <<app, token, saved, raced>> /\ job[j].step = "sending" /\ Loaded(j)
        /\ \A i \in Jobs \ {j} : job'[i] = job[i]
    BY <1>1, <1>12, <2>1 DEF SendEach, At, PushTyped, Loaded
  <2>3. job'[j].to = [u \in Recipients |-> IF u \in Dead(a) THEN job[j].to[u] ELSE 0]
    BY <1>1, <2>1, <2>2, JobFacts DEF PushTyped
  <2>4. \A u \in Dead(a) : job[j].to[u] \notin {0, app[u]}
    BY DEF Answers, Dead
  <2>5. \A u \in Recipients : job'[j].to[u] # 0 => job'[j].to[u] < app[u]
    BY <1>1, <2>2, <2>3, <2>4, TokenTyped DEF TokenInv
  <2>6. \A u \in Recipients : job'[j].to[u] \in {0, job[j].to[u]}
    BY <2>3
  <2>7. QED BY <1>1, <2>2, <2>5, <2>6, JobKeepsTokens
<1>13. ASSUME NEW j \in Jobs, ClearTokens(j) PROVE TokenInv'
  <2>1. /\ UNCHANGED <<app, saved, raced>> /\ job[j].step = "dead" /\ Loaded(j)
        /\ \A i \in Jobs \ {j} : job'[i] = job[i]
        /\ job'[j].step = "done"
    BY <1>1, <1>13, JobFacts DEF ClearTokens, At, Goes, Becomes, PushTyped, Loaded
  <2>2. \A u \in Recipients : token'[u] = token[u] \/ (token'[u] = 0 /\ job[j].to[u] # 0)
    BY <1>1, <1>13 DEF ClearTokens
  <2>3. \A u \in Recipients \ raced : saved[u] = app[u] => job[j].to[u] = 0
    BY <1>1, <2>1, TokenTyped DEF TokenInv
  <2>4. \A u \in Recipients : token'[u] <= app[u]
    BY <1>1, <2>2, TokenTyped DEF TokenInv
  <2>5. QED BY <1>1, <2>1, <2>2, <2>3, <2>4 DEF TokenInv, Loaded
<1>14. QED BY <1>1, <1>3, <1>4, <1>5, <1>6, <1>7, <1>8, <1>9, <1>10, <1>11, <1>12, <1>13 DEF PushNext

(* A push that finds its token dead empties the user's column, whatever it  *)
(* holds by then; that costs the app the token it has saved since only when *)
(* it saved it while that push was on its way (fcm_service.go:103-109,      *)
(* 386-405).                                                                *)
THEOREM TokensKept == PushSpec => []TokenKept
<1>1. PushInit => TokenInv
  BY BoundsTyped DEF PushInit, TokenInv, Loaded, NoJob
<1>2. TokenInv => TokenKept
  BY DEF TokenInv, TokenKept
<1>3. QED BY <1>1, <1>2, TokenStep, PushTypeCorrect, PTL DEF PushSpec

-----------------------------------------------------------------------------
(* Pushes of a room. *)

ChatSpaced ==
  \A i, j \in StampedFor("chat") : (i # j /\ job[i].room = job[j].room /\ job[i].who \cap job[j].who # {}) =>
     job[i].at >= job[j].at + Window \/ job[j].at >= job[i].at + Window

(* The throttle remembers when whom a message spared was pushed to, or that *)
(* is longer ago than the purge waits.                                      *)
ThrottleInv ==
  /\ \A j \in Jobs : job[j].step = "timed" => job[j].at <= minute
  /\ \A j \in StampedFor("chat") : \A u \in job[j].who :
        lastSent[<<job[j].room, u>>] >= job[j].at \/ job[j].at + PurgeAfter < minute
  /\ ChatSpaced

LEMMA ChatTyped ==
  ASSUME PushTyped
  PROVE  /\ minute \in Nat
         /\ \A k \in Keys : lastSent[k] \in Nat
         /\ \A j \in Jobs : job[j].step = "timed" => job[j].at \in Nat /\ job[j].at >= 1 /\ job[j].room \in Rooms
         /\ \A j \in StampedFor("chat") : /\ job[j].at \in Nat /\ job[j].at >= 1
                                          /\ job[j].room \in Rooms /\ job[j].who \subseteq Recipients
<1>1. minute \in Nat /\ \A k \in Keys : lastSent[k] \in Nat
  BY BoundsTyped DEF PushTyped
<1>2. ASSUME NEW j \in Jobs, job[j].step = "timed"
      PROVE  job[j].at \in Nat /\ job[j].at >= 1 /\ job[j].room \in Rooms
  BY <1>2, JobFacts, BoundsTyped
<1>3. ASSUME NEW j \in StampedFor("chat")
      PROVE  job[j].at \in Nat /\ job[j].at >= 1 /\ job[j].room \in Rooms /\ job[j].who \subseteq Recipients
  <2>1. job[j] \in [kind : {"chat"}, step : {"sending", "dead", "done"}, room : Rooms, to : Tokens,
                    at : 1..MaxMinute, who : SUBSET Recipients]
    BY <1>3, JobFacts DEF StampedFor, Stamped
  <2>2. QED BY <2>1, BoundsTyped
<1>4. QED BY <1>1, <1>2, <1>3

(* A step that pushes no new message of a room and forgets nothing. *)
LEMMA ThrottleFrame ==
  ASSUME PushTyped, ThrottleInv, lastSent' = lastSent, minute' \in Nat, minute' >= minute,
         \A i \in Jobs : job'[i].step = "timed" => job'[i] = job[i] \/ job'[i].at = minute,
         \A i \in StampedFor("chat")' : /\ i \in StampedFor("chat") /\ job'[i].at = job[i].at
                                        /\ job'[i].room = job[i].room /\ job'[i].who = job[i].who
  PROVE  ThrottleInv'
<1>1. \A j \in Jobs : job'[j].step = "timed" => job'[j].at <= minute'
  BY ChatTyped DEF ThrottleInv
<1>2. \A j \in StampedFor("chat")' : \A u \in job'[j].who :
         lastSent'[<<job'[j].room, u>>] >= job'[j].at \/ job'[j].at + PurgeAfter < minute'
  BY ChatTyped, BoundsTyped DEF ThrottleInv
<1>3. ChatSpaced'
  BY DEF ThrottleInv, ChatSpaced
<1>4. QED BY <1>1, <1>2, <1>3 DEF ThrottleInv

LEMMA ThrottleStep == PushTyped /\ PushTyped' /\ ThrottleInv /\ [PushNext]_pushVars => ThrottleInv'
<1>1. SUFFICES ASSUME PushTyped, PushTyped', ThrottleInv, [PushNext]_pushVars PROVE ThrottleInv'
  OBVIOUS
<1>2. CASE lastSent' = lastSent /\ job' = job /\ minute' >= minute
  BY <1>1, <1>2, ThrottleFrame, BoundsTyped DEF StampedFor, Stamped, PushTyped
<1>3. CASE PushTick \/ UNCHANGED pushVars
  BY <1>1, <1>2, <1>3, ChatTyped DEF PushTick, pushVars
<1>4. ASSUME NEW u \in Recipients, NewToken(u) \/ UpdateUserToken(u) \/ RemoveUserToken(u) PROVE ThrottleInv'
  BY <1>1, <1>2, <1>4, ChatTyped DEF NewToken, UpdateUserToken, RemoveUserToken
<1> DEFINE Moves(j) == /\ lastSent' = lastSent /\ minute' = minute
                       /\ \A i \in Jobs \ {j} : job'[i].step = "timed" => job'[i] = job[i]
                       /\ \A i \in StampedFor("chat")' : i # j => i \in StampedFor("chat") /\ job'[i] = job[i]
<1>5. ASSUME NEW j \in Jobs, Moves(j), job'[j].step = "timed" => job'[j].at = minute,
             j \in StampedFor("chat")' => /\ j \in StampedFor("chat") /\ job'[j].at = job[j].at
                                          /\ job'[j].room = job[j].room /\ job'[j].who = job[j].who
      PROVE  ThrottleInv'
  BY <1>1, <1>5, ThrottleFrame, ChatTyped DEF StampedFor, Stamped
<1>6. ASSUME NEW j \in Jobs, lastSent' = lastSent, minute' = minute, \A i \in Jobs \ {j} : job'[i] = job[i]
      PROVE  Moves(j)
  BY <1>6 DEF StampedFor, Stamped
<1> HIDE DEF Moves
<1>7. ASSUME NEW j \in Jobs, NEW room \in Rooms, FilterChatPushThrottle(j, room) PROVE ThrottleInv'
  <2>1. job'[j].step = "timed" /\ job'[j].at = minute /\ Moves(j)
    BY <1>1, <1>6, <1>7 DEF FilterChatPushThrottle, Becomes, PushTyped
  <2>2. QED BY <2>1, <1>5 DEF StampedFor, Stamped
<1>8. ASSUME NEW j \in Jobs, FilterUnderLock(j) PROVE ThrottleInv'
  <2>1. /\ job[j].step = "timed" /\ minute < job[j].at + Window /\ job[j].at <= minute /\ minute' = minute
        /\ minute \in Nat /\ job[j].at \in Nat /\ job[j].at >= 1 /\ job[j].room \in Rooms
    BY <1>1, <1>8, ChatTyped DEF FilterUnderLock, At, ThrottleInv
  <2> DEFINE allowed == {u \in {v \in Recipients : job[j].to[v] # 0} : ~Throttled(j, u)}
             marked == [k \in Keys |-> IF k[1] = job[j].room /\ k[2] \in allowed THEN job[j].at ELSE lastSent[k]]
  <2>2. /\ \A i \in Jobs \ {j} : job'[i] = job[i]
        /\ \/ job'[j].step = "silent"
           \/ /\ job'[j].step = "sending" /\ job'[j].kind = "chat"
              /\ job'[j].room = job[j].room /\ job'[j].at = job[j].at /\ job'[j].who = allowed
    BY <1>1, <1>8 DEF FilterUnderLock, Becomes, PushTyped
  <2>3. lastSent' = Purge(marked, job[j].at)
    BY <1>8 DEF FilterUnderLock
  <2>4. \A u \in allowed : LET last == lastSent[<<job[j].room, u>>] IN last = 0 \/ job[j].at >= last + Window
    BY <1>1, <2>1, ChatTyped, BoundsTyped DEF Throttled, Keys
  <2> HIDE DEF allowed
  <2>5. \A k \in Keys : /\ k[1] = job[j].room /\ k[2] \in allowed => marked[k] = job[j].at
                        /\ ~(k[1] = job[j].room /\ k[2] \in allowed) => marked[k] = lastSent[k]
    OBVIOUS
  <2>6. \A k \in Keys : lastSent'[k] = marked[k] \/ marked[k] + PurgeAfter < job[j].at
    BY <2>3 DEF Purge
  <2> HIDE DEF marked
  <2>7. ASSUME NEW i \in StampedFor("chat"), NEW u \in job[i].who
        PROVE  lastSent'[<<job[i].room, u>>] >= job[i].at \/ job[i].at + PurgeAfter < minute
    <3> DEFINE k == <<job[i].room, u>>
    <3>1. k \in Keys /\ job[i].at \in Nat /\ job[i].at >= 1 /\ lastSent[k] \in Nat /\ k[1] = job[i].room /\ k[2] = u
      BY <1>1, <2>7, ChatTyped DEF Keys
    <3>2. lastSent[k] >= job[i].at \/ job[i].at + PurgeAfter < minute
      BY <1>1, <2>7 DEF ThrottleInv
    <3>3. lastSent'[k] = marked[k] \/ marked[k] + PurgeAfter < job[j].at
      BY <2>6, <3>1
    <3>4. marked[k] = lastSent[k] \/ (marked[k] = job[j].at /\ (lastSent[k] = 0 \/ job[j].at >= lastSent[k] + Window))
      BY <2>4, <2>5, <3>1
    <3> HIDE DEF k
    <3>5. lastSent'[k] >= job[i].at \/ job[i].at + PurgeAfter < minute
      BY <2>1, <3>1, <3>2, <3>3, <3>4, BoundsTyped
    <3>6. QED BY <3>5 DEF k
  <2>8. \A u \in allowed : u \in Recipients /\ lastSent'[<<job[j].room, u>>] >= job[j].at
    <3>1. \A u \in allowed : u \in Recipients /\ <<job[j].room, u>> \in Keys
      BY <2>1 DEF allowed, Keys
    <3>2. \A u \in allowed : marked[<<job[j].room, u>>] = job[j].at
      BY <2>5, <3>1
    <3>3. QED BY <2>1, <2>6, <3>1, <3>2, BoundsTyped
  <2>9. ASSUME NEW i \in StampedFor("chat"), i # j, job[i].room = job[j].room, NEW u \in job[i].who, u \in allowed
        PROVE  job[j].at >= job[i].at + Window
    <3> DEFINE last == lastSent[<<job[j].room, u>>]
    <3>1. last >= job[i].at \/ job[i].at + PurgeAfter < minute
      BY <1>1, <2>9 DEF ThrottleInv
    <3>2. last = 0 \/ job[j].at >= last + Window
      BY <2>4, <2>9
    <3>3. job[i].at \in Nat /\ job[i].at >= 1 /\ last \in Nat
      BY <1>1, <2>1, <2>9, ChatTyped DEF Keys
    <3> HIDE DEF last
    <3>4. QED BY <2>1, <3>1, <3>2, <3>3, BoundsTyped
  <2>10. \A i \in StampedFor("chat")' : i # j => i \in StampedFor("chat") /\ job'[i] = job[i]
    BY <2>2 DEF StampedFor, Stamped
  <2>11. j \in StampedFor("chat")' => job'[j].room = job[j].room /\ job'[j].at = job[j].at /\ job'[j].who = allowed
    BY <2>2 DEF StampedFor, Stamped
  <2>12. \A i \in Jobs : job'[i].step = "timed" => job'[i].at <= minute'
    BY <1>1, <2>1, <2>2 DEF ThrottleInv
  <2>13. \A i \in StampedFor("chat")' : \A u \in job'[i].who :
            lastSent'[<<job'[i].room, u>>] >= job'[i].at \/ job'[i].at + PurgeAfter < minute'
    BY <2>1, <2>7, <2>8, <2>10, <2>11
  <2>14. ChatSpaced'
    <3>1. SUFFICES ASSUME NEW i \in StampedFor("chat")', NEW k \in StampedFor("chat")', i # k,
                          job'[i].room = job'[k].room, NEW u \in job'[i].who \cap job'[k].who
                   PROVE  job'[i].at >= job'[k].at + Window \/ job'[k].at >= job'[i].at + Window
      BY DEF ChatSpaced
    <3>2. CASE i = j
      BY <2>9, <2>10, <2>11, <3>1, <3>2
    <3>3. CASE k = j
      BY <2>9, <2>10, <2>11, <3>1, <3>3
    <3>4. CASE i # j /\ k # j
      BY <1>1, <2>10, <3>1, <3>4 DEF ThrottleInv, ChatSpaced
    <3>5. QED BY <3>2, <3>3, <3>4
  <2>15. QED BY <2>12, <2>13, <2>14 DEF ThrottleInv
<1>9. ASSUME NEW j \in Jobs, UpdateRide(j) PROVE ThrottleInv'
  <2>0. Joins(j)
    BY <1>1, <1>9, RideJoins
  <2>1. /\ lastSent' = lastSent /\ minute' = minute /\ job'[j].step = "read"
        /\ \A i \in Jobs \ {j} : /\ job'[i].step = job[i].step
                                 /\ i \notin Overlapping => job'[i] = job[i]
    BY <2>0 DEF Joins
  <2>2. Moves(j)
    BY <2>1 DEF Moves, StampedFor, Stamped, Overlapping
  <2>3. QED BY <2>1, <2>2, <1>5 DEF StampedFor, Stamped
<1>10. ASSUME NEW j \in Jobs, CheckCooldown(j) PROVE ThrottleInv'
  <2>1. job'[j].step \in {"silent", "stamping"} /\ Moves(j)
    BY <1>1, <1>6, <1>10 DEF CheckCooldown, Becomes, PushTyped
  <2>2. QED BY <2>1, <1>5 DEF StampedFor, Stamped
<1>11. ASSUME NEW j \in Jobs, StampAndLoad(j) PROVE ThrottleInv'
  <2>1. job'[j].step = "sending" /\ job'[j].kind = "edit" /\ Moves(j)
    BY <1>1, <1>6, <1>11 DEF StampAndLoad, Becomes, PushTyped
  <2>2. QED BY <2>1, <1>5 DEF StampedFor, Stamped
<1>12. ASSUME NEW j \in Jobs, SendEach(j) \/ ClearTokens(j) PROVE ThrottleInv'
  <2>1. StaysStamped(j)
    BY <1>1, <1>12, SentStaysStamped
  <2>2. Moves(j)
    BY <1>1, <1>6, <1>12, <2>1 DEF SendEach, ClearTokens, StaysStamped
  <2>3. QED BY <2>1, <2>2, <1>5 DEF StaysStamped, StampedFor, Stamped
<1>13. QED BY <1>1, <1>3, <1>4, <1>7, <1>8, <1>9, <1>10, <1>11, <1>12 DEF PushNext

-----------------------------------------------------------------------------
(* Pushes of edits. *)

(* The stamp was written and no edit ran beside this one. *)
Clean(i) == i \notin failed /\ job[i].beside = {}

EditsSpaced ==
  \A j \in StampedFor("edit") : \A i \in job[j].after : Clean(i) => job[j].at >= job[i].at + Cooldown

(* Edits that run at the same time know of each other; an edit that ran     *)
(* alone is known to those that came after it, which read its stamp or a    *)
(* later one.                                                               *)
CooldownInv ==
  /\ \A i, k \in Overlapping : i # k => k \in job[i].beside
  /\ \A k \in Overlapping \cup StampedFor("edit") : job[k].after \subseteq StampedFor("edit")
  /\ \A i \in StampedFor("edit") : Clean(i) =>
       /\ notified >= job[i].at
       /\ \A k \in Overlapping :
            /\ i \in job[k].after
            /\ job[k].step = "read" => job[k].prev >= job[i].at
            /\ job[k].step = "stamping" => job[k].at >= job[i].at + Cooldown
  /\ EditsSpaced

LEMMA EditTyped ==
  ASSUME PushTyped
  PROVE  /\ minute \in Nat /\ notified \in Nat
         /\ \A j \in Jobs : job[j].step = "read" => job[j].prev \in Nat
         /\ \A j \in Jobs : job[j].step = "stamping" => job[j].at \in Nat
         /\ \A j \in StampedFor("edit") : job[j].at \in Nat /\ job[j].at >= 1
<1>1. minute \in Nat /\ notified \in Nat
  BY BoundsTyped DEF PushTyped
<1>2. \A j \in Jobs : job[j].step = "read" => job[j].prev \in Nat
  BY JobFacts, BoundsTyped
<1>3. \A j \in Jobs : job[j].step = "stamping" => job[j].at \in Nat
  BY JobFacts, BoundsTyped
<1>4. ASSUME NEW j \in StampedFor("edit") PROVE job[j].at \in Nat /\ job[j].at >= 1
  <2>1. job[j] \in [kind : {"edit"}, step : {"sending", "dead", "done"}, to : Tokens, at : 1..MaxMinute,
                    beside : SUBSET Jobs, after : SUBSET Jobs]
    BY <1>4, JobFacts DEF StampedFor, Stamped
  <2>2. QED BY <2>1, BoundsTyped
<1>5. QED BY <1>1, <1>2, <1>3, <1>4

(* A step that writes no stamp and begins no edit. *)
LEMMA CooldownFrame ==
  ASSUME CooldownInv, UNCHANGED <<notified, failed>>,
         \A i \in Overlapping' : i \in Overlapping /\ job'[i] = job[i],
         StampedFor("edit")' = StampedFor("edit"),
         \A i \in StampedFor("edit") : /\ job'[i].at = job[i].at /\ job'[i].beside = job[i].beside
                                       /\ job'[i].after = job[i].after
  PROVE  CooldownInv'
<1>1. \A i \in StampedFor("edit") : Clean(i)' = Clean(i)
  BY DEF Clean
<1>2. \A i, k \in Overlapping' : i # k => k \in job'[i].beside
  BY DEF CooldownInv
<1>3. \A k \in Overlapping' \cup StampedFor("edit")' : job'[k].after \subseteq StampedFor("edit")'
  BY DEF CooldownInv
<1>4. \A i \in StampedFor("edit")' : Clean(i)' =>
       /\ notified' >= job'[i].at
       /\ \A k \in Overlapping' :
            /\ i \in job'[k].after
            /\ job'[k].step = "read" => job'[k].prev >= job'[i].at
            /\ job'[k].step = "stamping" => job'[k].at >= job'[i].at + Cooldown
  BY <1>1 DEF CooldownInv
<1>5. EditsSpaced'
  BY <1>1 DEF CooldownInv, EditsSpaced
<1>6. QED BY <1>2, <1>3, <1>4, <1>5 DEF CooldownInv

LEMMA CooldownStep == PushTyped /\ PushTyped' /\ CooldownInv /\ [PushNext]_pushVars => CooldownInv'
<1>1. SUFFICES ASSUME PushTyped, PushTyped', CooldownInv, [PushNext]_pushVars PROVE CooldownInv'
  OBVIOUS
<1>2. CASE UNCHANGED <<notified, failed, job>>
  BY <1>1, <1>2 DEF CooldownInv, EditsSpaced, Clean, StampedFor, Stamped, Overlapping
<1>3. CASE PushTick \/ UNCHANGED pushVars
  BY <1>2, <1>3 DEF PushTick, pushVars
<1>4. ASSUME NEW u \in Recipients, NewToken(u) \/ UpdateUserToken(u) \/ RemoveUserToken(u) PROVE CooldownInv'
  BY <1>2, <1>4 DEF NewToken, UpdateUserToken, RemoveUserToken
<1>5. ASSUME NEW j \in Jobs, UNCHANGED <<notified, failed>>, \A i \in Jobs \ {j} : job'[i] = job[i],
             j \notin Overlapping', j \notin StampedFor("edit"), j \notin StampedFor("edit")'
      PROVE  CooldownInv'
  <2>1. \A i \in Overlapping' : i \in Overlapping /\ job'[i] = job[i]
    BY <1>5 DEF Overlapping
  <2>2. StampedFor("edit")' = StampedFor("edit")
    BY <1>5 DEF StampedFor, Stamped
  <2>3. \A i \in StampedFor("edit") : job'[i] = job[i]
    BY <1>5 DEF StampedFor, Stamped
  <2>4. QED BY <1>1, <1>5, <2>1, <2>2, <2>3, CooldownFrame
<1>7. ASSUME NEW j \in Jobs, NEW room \in Rooms, FilterChatPushThrottle(j, room) PROVE CooldownInv'
  <2>1. /\ UNCHANGED <<notified, failed>> /\ \A i \in Jobs \ {j} : job'[i] = job[i]
        /\ job[j].step = "idle" /\ job'[j].step = "timed"
    BY <1>1, <1>7 DEF FilterChatPushThrottle, Becomes, PushTyped, Begins, NoJob
  <2>2. QED BY <2>1, <1>5 DEF Overlapping, StampedFor, Stamped
<1>8. ASSUME NEW j \in Jobs, FilterUnderLock(j) PROVE CooldownInv'
  <2>1. /\ UNCHANGED <<notified, failed>> /\ \A i \in Jobs \ {j} : job'[i] = job[i]
        /\ job[j].step = "timed" /\ job'[j].kind = "chat" /\ job'[j].step \in {"silent", "sending"}
    BY <1>1, <1>8 DEF FilterUnderLock, At, Becomes, PushTyped
  <2>2. QED BY <2>1, <1>5 DEF Overlapping, StampedFor, Stamped
<1>9. ASSUME NEW j \in Jobs, UpdateRide(j) PROVE CooldownInv'
  <2>0. Joins(j)
    BY <1>1, <1>9, RideJoins
  <2>1. /\ UNCHANGED <<notified, failed>>
        /\ job[j].step = "idle" /\ job'[j].step = "read" /\ job'[j].prev = notified
        /\ job'[j].beside = Overlapping /\ job'[j].after = StampedFor("edit")
        /\ \A i \in Overlapping : /\ job'[i].step = job[i].step /\ job'[i].after = job[i].after
                                  /\ job'[i].beside = job[i].beside \cup {j}
                                  /\ job[i].step = "read" => job'[i].prev = job[i].prev
                                  /\ job[i].step = "stamping" => job'[i].at = job[i].at
        /\ \A i \in Jobs \ {j} : /\ job'[i].step = job[i].step
                                 /\ i \notin Overlapping => job'[i] = job[i]
    BY <2>0 DEF Joins
  <2>2. Overlapping' = Overlapping \cup {j} /\ j \notin Overlapping
    BY <2>1 DEF Overlapping
  <2>3. \A i \in StampedFor("edit") : i # j /\ job'[i] = job[i]
    BY <2>1 DEF StampedFor, Stamped, Overlapping
  <2>4. StampedFor("edit")' = StampedFor("edit")
    BY <2>1 DEF StampedFor, Stamped, Overlapping
  <2>5. \A i, k \in Overlapping' : i # k => k \in job'[i].beside
    BY <1>1, <2>1, <2>2 DEF CooldownInv
  <2>6. \A k \in Overlapping' \cup StampedFor("edit")' : job'[k].after \subseteq StampedFor("edit")'
    BY <1>1, <2>1, <2>2, <2>3, <2>4 DEF CooldownInv
  <2>7. ASSUME NEW i \in StampedFor("edit"), Clean(i)'
        PROVE  /\ notified' >= job'[i].at
               /\ \A k \in Overlapping' :
                    /\ i \in job'[k].after
                    /\ job'[k].step = "read" => job'[k].prev >= job'[i].at
                    /\ job'[k].step = "stamping" => job'[k].at >= job'[i].at + Cooldown
    <3>1. Clean(i) /\ job'[i] = job[i]
      BY <2>1, <2>3, <2>7 DEF Clean
    <3>2. notified >= job[i].at
      BY <1>1, <3>1 DEF CooldownInv
    <3>3. ASSUME NEW k \in Overlapping
          PROVE  /\ i \in job'[k].after
                 /\ job'[k].step = "read" => job'[k].prev >= job'[i].at
                 /\ job'[k].step = "stamping" => job'[k].at >= job'[i].at + Cooldown
      BY <1>1, <2>1, <3>1, <3>3 DEF CooldownInv
    <3>4. QED BY <2>1, <2>2, <3>1, <3>2, <3>3
  <2>8. EditsSpaced'
    BY <1>1, <2>1, <2>3, <2>4 DEF CooldownInv, EditsSpaced, Clean
  <2>9. QED BY <2>4, <2>5, <2>6, <2>7, <2>8 DEF CooldownInv
<1>10. ASSUME NEW j \in Jobs, CheckCooldown(j) PROVE CooldownInv'
  <2>1. /\ UNCHANGED <<notified, failed, minute>> /\ \A i \in Jobs \ {j} : job'[i] = job[i]
        /\ job[j].step = "read" /\ j \in Overlapping
    BY <1>1, <1>10 DEF CheckCooldown, Becomes, PushTyped, At, Overlapping
  <2>2. CASE job'[j].step = "silent"
    BY <2>1, <2>2, <1>5 DEF Overlapping, StampedFor, Stamped
  <2>3. CASE /\ ~CoolingDown(j) /\ job'[j].step = "stamping" /\ job'[j].at = minute
             /\ job'[j].beside = job[j].beside /\ job'[j].after = job[j].after
    <3>1. Overlapping' = Overlapping
      BY <2>1, <2>3 DEF Overlapping
    <3>2. \A i \in StampedFor("edit") : i # j /\ job'[i] = job[i]
      BY <2>1, <2>3 DEF StampedFor, Stamped
    <3>3. StampedFor("edit")' = StampedFor("edit")
      BY <2>1, <2>3 DEF StampedFor, Stamped
    <3>4. \A i, k \in Overlapping' : i # k => k \in job'[i].beside
      BY <1>1, <2>1, <2>3, <3>1 DEF CooldownInv, Overlapping
    <3>5. \A k \in Overlapping' \cup StampedFor("edit")' : job'[k].after \subseteq StampedFor("edit")'
      BY <1>1, <2>1, <2>3, <3>1, <3>2, <3>3 DEF CooldownInv, Overlapping
    <3>6. ASSUME NEW i \in StampedFor("edit"), Clean(i)'
          PROVE  /\ notified' >= job'[i].at
                 /\ \A k \in Overlapping' :
                      /\ i \in job'[k].after
                      /\ job'[k].step = "read" => job'[k].prev >= job'[i].at
                      /\ job'[k].step = "stamping" => job'[k].at >= job'[i].at + Cooldown
      <4>1. Clean(i) /\ job'[i] = job[i] /\ job[i].at \in Nat /\ job[i].at >= 1 /\ job[j].prev \in Nat /\ minute \in Nat
        BY <1>1, <2>1, <3>2, <3>6, EditTyped DEF Clean
      <4>2. i \in job[j].after /\ job[j].prev >= job[i].at
        BY <1>1, <2>1, <4>1 DEF CooldownInv
      <4>3. minute >= job[i].at + Cooldown
        BY <2>3, <4>1, <4>2, BoundsTyped DEF CoolingDown
      <4>4. \A k \in Overlapping \ {j} : job'[k] = job[k]
        BY <2>1 DEF Overlapping
      <4>5. QED BY <1>1, <2>1, <2>3, <3>1, <4>1, <4>2, <4>3, <4>4 DEF CooldownInv
    <3>7. EditsSpaced'
      BY <1>1, <2>1, <3>2, <3>3 DEF CooldownInv, EditsSpaced, Clean
    <3>8. QED BY <3>3, <3>4, <3>5, <3>6, <3>7 DEF CooldownInv
  <2>4. QED BY <1>1, <1>10, <2>2, <2>3 DEF CheckCooldown, Becomes, PushTyped
<1>11. ASSUME NEW j \in Jobs, StampAndLoad(j) PROVE CooldownInv'
  <2>1. /\ \A i \in Jobs \ {j} : job'[i] = job[i]
        /\ job[j].step = "stamping" /\ job'[j].step = "sending" /\ job'[j].kind = "edit"
        /\ job'[j].at = job[j].at /\ job'[j].beside = job[j].beside /\ job'[j].after = job[j].after
        /\ \/ notified' = job[j].at /\ UNCHANGED failed
           \/ failed' = failed \cup {j} /\ UNCHANGED notified
    BY <1>1, <1>11 DEF StampAndLoad, Becomes, PushTyped, At
  <2>2. j \in Overlapping /\ Overlapping' = Overlapping \ {j} /\ job[j].at \in Nat
    BY <1>1, <2>1, EditTyped DEF Overlapping
  <2>3. StampedFor("edit")' = StampedFor("edit") \cup {j} /\ j \notin StampedFor("edit")
    BY <2>1 DEF StampedFor, Stamped
  <2>4. \A i \in StampedFor("edit") \cup Overlapping' : i # j /\ job'[i] = job[i]
    BY <2>1 DEF StampedFor, Stamped, Overlapping
  <2>5. \A i \in StampedFor("edit") : Clean(i)' => Clean(i)
    BY <2>1, <2>4 DEF Clean
  <2>6. \A i \in StampedFor("edit") : Clean(i)' => i \in job[j].after /\ job[j].at >= job[i].at + Cooldown
    BY <1>1, <2>1, <2>2, <2>5 DEF CooldownInv
  <2>7. \A i, k \in Overlapping' : i # k => k \in job'[i].beside
    BY <1>1, <2>2, <2>4 DEF CooldownInv
  <2>8. \A k \in Overlapping' \cup StampedFor("edit")' : job'[k].after \subseteq StampedFor("edit")'
    <3>1. \A k \in Overlapping \cup StampedFor("edit") : job'[k].after = job[k].after
      BY <2>1, <2>2, <2>4
    <3>2. QED BY <1>1, <2>2, <2>3, <3>1 DEF CooldownInv
  <2>9. ASSUME NEW i \in StampedFor("edit"), Clean(i)'
        PROVE  /\ notified' >= job'[i].at
               /\ \A k \in Overlapping' :
                    /\ i \in job'[k].after
                    /\ job'[k].step = "read" => job'[k].prev >= job'[i].at
                    /\ job'[k].step = "stamping" => job'[k].at >= job'[i].at + Cooldown
    <3>1. Clean(i) /\ job'[i] = job[i] /\ job[i].at \in Nat /\ job[j].at >= job[i].at + Cooldown
      BY <1>1, <2>4, <2>5, <2>6, <2>9, EditTyped
    <3>2. job[j].at >= job[i].at
      BY <2>2, <3>1, BoundsTyped
    <3>3. notified' >= job'[i].at
      BY <1>1, <2>1, <3>1, <3>2 DEF CooldownInv
    <3>4. \A k \in Overlapping' : k \in Overlapping /\ job'[k] = job[k]
      BY <2>2, <2>4
    <3>5. QED BY <1>1, <3>1, <3>3, <3>4 DEF CooldownInv
  <2>10. ASSUME Clean(j)'
         PROVE  Overlapping' = {} /\ notified' >= job'[j].at
    <3>1. job[j].beside = {} /\ notified' = job[j].at
      BY <2>1, <2>10 DEF Clean
    <3>2. Overlapping = {j}
      BY <1>1, <2>2, <3>1 DEF CooldownInv
    <3>3. QED BY <2>1, <2>2, <3>1, <3>2
  <2>11. \A i \in StampedFor("edit")' : Clean(i)' =>
           /\ notified' >= job'[i].at
           /\ \A k \in Overlapping' :
                /\ i \in job'[k].after
                /\ job'[k].step = "read" => job'[k].prev >= job'[i].at
                /\ job'[k].step = "stamping" => job'[k].at >= job'[i].at + Cooldown
    BY <2>3, <2>9, <2>10
  <2>12. ASSUME NEW k \in StampedFor("edit")', NEW i \in job'[k].after, Clean(i)'
         PROVE  job'[k].at >= job'[i].at + Cooldown
    <3>1. CASE k = j
      <4>1. i \in StampedFor("edit") /\ job'[i] = job[i]
        BY <1>1, <2>1, <2>2, <2>4, <2>12, <3>1 DEF CooldownInv
      <4>2. QED BY <2>1, <2>6, <2>12, <3>1, <4>1
    <3>2. CASE k # j
      <4>1. k \in StampedFor("edit") /\ job'[k] = job[k]
        BY <2>3, <2>4, <3>2
      <4>2. i \in StampedFor("edit") /\ job'[i] = job[i] /\ Clean(i)
        BY <1>1, <2>4, <2>5, <2>12, <4>1 DEF CooldownInv
      <4>3. QED BY <1>1, <2>12, <4>1, <4>2 DEF CooldownInv, EditsSpaced
    <3>3. QED BY <3>1, <3>2
  <2>13. EditsSpaced'
    BY <2>12 DEF EditsSpaced
  <2>14. QED BY <2>7, <2>8, <2>11, <2>13 DEF CooldownInv
<1>12. ASSUME NEW j \in Jobs, SendEach(j) \/ ClearTokens(j) PROVE CooldownInv'
  <2>1. StaysStamped(j) /\ UNCHANGED <<notified, failed>>
    BY <1>1, <1>12, SentStaysStamped DEF SendEach, ClearTokens
  <2>2. \A i \in Overlapping' : i \in Overlapping /\ job'[i] = job[i]
    BY <2>1 DEF StaysStamped, Overlapping
  <2>3. StampedFor("edit")' = StampedFor("edit")
    BY <2>1 DEF StaysStamped, StampedFor, Stamped
  <2>4. \A i \in StampedFor("edit") : /\ job'[i].at = job[i].at /\ job'[i].beside = job[i].beside
                                      /\ job'[i].after = job[i].after
    BY <2>1 DEF StaysStamped, StampedFor, Stamped
  <2>5. QED BY <1>1, <2>1, <2>2, <2>3, <2>4, CooldownFrame
<1>13. QED BY <1>1, <1>3, <1>4, <1>7, <1>8, <1>9, <1>10, <1>11, <1>12 DEF PushNext

(* The pushes of a room are a window apart for every user, whatever the     *)
(* purge forgets and in whatever order the messages get the lock            *)
(* (chat.go:65-101); those of edits are a cooldown apart unless the earlier *)
(* edit's stamp failed or another edit ran beside it                        *)
(* (RideCRUDRoutes.go:321-387).                                             *)
THEOREM PushesAreSpaced == PushSpec => []PushesSpaced
<1>1. PushInit => ThrottleInv /\ CooldownInv
  BY DEF PushInit, ThrottleInv, ChatSpaced, CooldownInv, EditsSpaced, StampedFor, Stamped, Overlapping, NoJob
<1>2. ThrottleInv /\ CooldownInv => PushesSpaced
  BY DEF ThrottleInv, ChatSpaced, CooldownInv, EditsSpaced, Clean, PushesSpaced
<1>3. QED BY <1>1, <1>2, ThrottleStep, CooldownStep, PushTypeCorrect, PTL DEF PushSpec

-----------------------------------------------------------------------------
(* Preferences and the settings of a ride.                                 *)

EditTypes == {NoEdit} \cup [step : {"done"}] \cup [step : {"read"}, was : [Fields -> BOOLEAN]]

(* The part of the state that the settings depend on. *)
SettingsTyped ==
  /\ settings \in [Fields -> BOOLEAN] /\ wanted \in [Fields -> BOOLEAN]
  /\ edit \in [Edits -> EditTypes]
  /\ slighted \subseteq Fields

Reading == {q \in Edits : edit[q].step = "read"}

(* A field is as it was last set, but for those that an edit of the ride    *)
(* reset or ignored.                                                        *)
FieldsKept ==
  \A f \in Fields : /\ f \notin slighted => settings[f] = wanted[f]
                    /\ f \in slighted /\ settings[f] => ~wanted[f]

(* Unless a write came between the read and the write of a request, the one *)
(* that has read the settings knows what they still are.                    *)
EditInv == torn \/
  /\ FieldsKept
  /\ \A p, q \in Reading : p = q
  /\ \A q \in Reading : edit[q].was = settings

LEMMA UpdatedTyped ==
  ASSUME SettingsTyped, NEW q \in Edits, edit[q].step = "read"
  PROVE  /\ edit[q].was \in [Fields -> BOOLEAN]
         /\ Updated(q) \in [Fields -> BOOLEAN]
         /\ [wanted EXCEPT ![Changes[q].field] = Changes[q].to] \in [Fields -> BOOLEAN]
<1>1. edit[q] \in [step : {"read"}, was : [Fields -> BOOLEAN]]
  BY DEF SettingsTyped, EditTypes, NoEdit
<1>2. Changes[q].field \in Fields /\ Changes[q].to \in BOOLEAN
  BY MutesAssumption
<1>3. QED BY <1>1, <1>2 DEF SettingsTyped, Updated

LEMMA ParsedTyped ==
  ASSUME SettingsTyped, NEW b \in Bodies
  PROVE  /\ DOMAIN b \subseteq Fields
         /\ \A f \in DOMAIN b : b[f] \in BOOLEAN
         /\ Parsed(b) \in [Fields -> BOOLEAN]
         /\ [f \in Fields |-> IF f \in DOMAIN b THEN b[f] ELSE wanted[f]] \in [Fields -> BOOLEAN]
BY MutesAssumption DEF Parsed, SettingsTyped

LEMMA SettingsStep ==
  SettingsTyped /\ EditInv /\ [MutesNext]_mutesVars => SettingsTyped' /\ EditInv'
<1>1. SUFFICES ASSUME SettingsTyped, EditInv, [MutesNext]_mutesVars PROVE SettingsTyped' /\ EditInv'
  OBVIOUS
<1>2. CASE UNCHANGED <<settings, wanted, edit, torn, slighted>>
  BY <1>1, <1>2 DEF SettingsTyped, EditInv, FieldsKept, Reading
<1>3. ASSUME NEW q \in Edits, ReadSettings(q) PROVE SettingsTyped' /\ EditInv'
  <2>1. /\ UNCHANGED <<settings, wanted, slighted>>
        /\ edit'[q] = [step |-> "read", was |-> settings]
        /\ \A p \in Edits \ {q} : edit'[p] = edit[p]
        /\ torn' = (torn \/ Reading # {})
        /\ edit' \in [Edits -> EditTypes]
    BY <1>1, <1>3 DEF ReadSettings, SettingsTyped, EditTypes, Reading
  <2>2. SettingsTyped'
    BY <1>1, <2>1 DEF SettingsTyped
  <2>3. CASE torn'
    BY <2>2, <2>3 DEF EditInv
  <2>4. CASE ~torn'
    <3>1. Reading = {} /\ ~torn
      BY <2>1, <2>4
    <3>2. Reading' = {q}
      BY <2>1, <3>1 DEF Reading
    <3>3. QED BY <1>1, <2>1, <2>2, <3>1, <3>2 DEF EditInv, FieldsKept
  <2>5. QED BY <2>3, <2>4
<1>4. ASSUME NEW q \in Edits, UpdateRideSettings(q) PROVE SettingsTyped' /\ EditInv'
  <2>1. /\ UNCHANGED torn
        /\ q \in Reading /\ edit[q].step = "read"
        /\ edit'[q] = [step |-> "done"]
        /\ \A p \in Edits \ {q} : edit'[p] = edit[p]
        /\ edit' \in [Edits -> EditTypes]
        /\ \/ /\ settings' = Updated(q)
              /\ wanted' = [wanted EXCEPT ![Changes[q].field] = Changes[q].to]
              /\ slighted' = slighted \ {Changes[q].field}
           \/ UNCHANGED <<settings, wanted, slighted>>
    BY <1>1, <1>4 DEF UpdateRideSettings, SettingsTyped, EditTypes, Reading
  <2>2. SettingsTyped'
    BY <1>1, <2>1, UpdatedTyped DEF SettingsTyped
  <2>3. CASE torn
    BY <2>1, <2>2, <2>3 DEF EditInv
  <2>4. CASE ~torn
    <3>1. Reading' = {}
      BY <1>1, <2>1, <2>4 DEF EditInv, Reading
    <3>2. FieldsKept /\ edit[q].was = settings
      BY <1>1, <2>1, <2>4 DEF EditInv
    <3>3. Changes[q].field \in Fields
      BY MutesAssumption
    <3>4. FieldsKept'
      BY <1>1, <2>1, <3>2, <3>3 DEF FieldsKept, Updated, SettingsTyped
    <3>5. QED BY <2>2, <3>1, <3>4 DEF EditInv
  <2>5. QED BY <2>3, <2>4
<1>5. CASE \E u \in Members, e \in {"on", "off"} :
             SetRideChatMute(u, e) \/ \E c \in Categories : SetNotificationPreference(u, c, e)
  BY <1>2, <1>5 DEF SetRideChatMute, SetNotificationPreference
<1>6. CASE \E j \in Notes : LookAtRide(j) \/ Decide(j) \/ \E c \in Categories : Begin(j, c)
  BY <1>2, <1>6 DEF LookAtRide, Decide, Begin
<1>7. CASE UNCHANGED mutesVars
  BY <1>2, <1>7 DEF mutesVars
<1>8. ASSUME NEW b \in Bodies, UpdateRideByID(b) PROVE SettingsTyped' /\ EditInv'
  <2>1. /\ UNCHANGED edit
        /\ wanted' = [f \in Fields |-> IF f \in DOMAIN b THEN b[f] ELSE wanted[f]]
        /\ \/ Parsed(b) = Zero /\ slighted' = slighted \cup DOMAIN b /\ UNCHANGED settings
           \/ slighted' = Fields \ DOMAIN b /\ settings' = Parsed(b)
        /\ torn' = (torn \/ Reading # {})
    BY <1>8 DEF UpdateRideByID, Reading
  <2>2. SettingsTyped'
    BY <1>1, <2>1, ParsedTyped DEF SettingsTyped
  <2>3. CASE torn'
    BY <2>2, <2>3 DEF EditInv
  <2>4. CASE ~torn'
    <3>1. Reading' = {} /\ ~torn
      BY <2>1, <2>4 DEF Reading
    <3>2. FieldsKept
      BY <1>1, <3>1 DEF EditInv
    <3>3. DOMAIN b \subseteq Fields /\ \A f \in DOMAIN b : b[f] \in BOOLEAN
      BY <1>1, ParsedTyped
    <3>4. CASE Parsed(b) = Zero /\ slighted' = slighted \cup DOMAIN b /\ UNCHANGED settings
      <4>1. \A f \in DOMAIN b : ~b[f]
        BY <3>3, <3>4 DEF Parsed, Zero
      <4>2. FieldsKept'
        BY <2>1, <3>2, <3>3, <3>4, <4>1 DEF FieldsKept
      <4>3. QED BY <2>2, <3>1, <4>2 DEF EditInv
    <3>5. CASE slighted' = Fields \ DOMAIN b /\ settings' = Parsed(b)
      <4>1. FieldsKept'
        BY <2>1, <3>3, <3>5 DEF FieldsKept, Parsed
      <4>2. QED BY <2>2, <3>1, <4>1 DEF EditInv
    <3>6. QED BY <2>1, <3>4, <3>5
  <2>5. QED BY <2>3, <2>4
<1>9. QED BY <1>1, <1>3, <1>4, <1>5, <1>6, <1>7, <1>8 DEF MutesNext

(* The settings are written as a whole by two routes, and yet each field is *)
(* what it was last set to, unless a write came between the read and the    *)
(* write of UpdateRideSettings (rideSettings.go:134-160), or the host has   *)
(* edited the ride since with settings that left the field out, and reset   *)
(* it, or that were all false, and were ignored (RideCRUDRoutes.go:252,     *)
(* 314).                                                                    *)
THEOREM SettingsAreKept == MutesSpec => []SettingsKept
<1>1. MutesInit => SettingsTyped /\ EditInv
  BY DEF MutesInit, SettingsTyped, EditInv, FieldsKept, EditTypes, Reading, NoEdit
<1>2. EditInv => SettingsKept
  BY DEF EditInv, FieldsKept, SettingsKept
<1>3. QED BY <1>1, <1>2, SettingsStep, PTL DEF MutesSpec

-----------------------------------------------------------------------------
(* Whom a push reaches. *)

(* The records of the notes under way are known to the watch. *)
NoteTypes ==
  {NoMute} \cup [category : Categories, step : {"begun", "unmuted", "silent"}]
           \cup [category : Categories, step : {"sent"}, to : SUBSET Members, blind : BOOLEAN]

Wants(u, c) == IsNotificationAllowed(u, c)
Running(j)  == note[j].step \in {"begun", "unmuted"}

(* While a push is being decided, who wants it now is among who wanted it,  *)
(* who does not is among who did not, and a ride that is open is known to   *)
(* have been; for a push that has left, its recipients are.                 *)
WatchInv ==
  /\ note \in [Notes -> NoteTypes]
  /\ settings \in [Fields -> BOOLEAN] /\ open \in [Notes -> BOOLEAN]
  /\ \A j \in Notes : Running(j) =>
       /\ \A u \in Members : Wants(u, note[j].category) => u \in willing[j]
       /\ \A u \in Members : ~Wants(u, note[j].category) => u \in unwilling[j]
       /\ ~settings["notifications_muted"] => open[j]
  /\ \A j \in Notes : note[j].step = "unmuted" => open[j]
  /\ \A j \in Notes : note[j].step = "sent" /\ ~note[j].blind =>
       /\ note[j].to \subseteq willing[j] /\ Members \ note[j].to \subseteq unwilling[j]
       /\ note[j].category = Chat => open[j]

(* What a setter or the begin of a push writes is watched. *)
LEMMA WatchKeeps ==
  ASSUME WatchInv, Watch, note' \in [Notes -> NoteTypes], settings' \in [Fields -> BOOLEAN],
         \A j \in Notes : note'[j] = note[j] \/ note'[j].step = "begun"
  PROVE  WatchInv'
<1>1. "notifications_muted" \in Fields
  BY DEF Fields
<1>2. open' \in [Notes -> BOOLEAN] /\ \A j \in Notes : open[j] => open'[j]
  BY <1>1 DEF Watch, WatchInv
<1>3. \A j \in Notes : willing[j] \subseteq willing'[j] /\ unwilling[j] \subseteq unwilling'[j]
  BY DEF Watch
<1>4. ASSUME NEW j \in Notes, Running(j)'
      PROVE  /\ \A u \in Members : Wants(u, note[j].category)' => u \in willing'[j]
             /\ \A u \in Members : ~Wants(u, note[j].category)' => u \in unwilling'[j]
             /\ ~settings'["notifications_muted"] => open'[j]
  BY <1>4 DEF Watch, Running, Wants, IsNotificationAllowed
<1>5. QED BY <1>2, <1>3, <1>4 DEF WatchInv

LEMMA WatchStep == SettingsTyped /\ WatchInv /\ [MutesNext]_mutesVars => WatchInv'
<1>1. SUFFICES ASSUME SettingsTyped, WatchInv, [MutesNext]_mutesVars PROVE WatchInv'
  OBVIOUS
<1>2. CASE UNCHANGED mutesVars
  BY <1>1, <1>2 DEF mutesVars, WatchInv, Running, Wants, IsNotificationAllowed, LoadAllowed, Enabled
<1>3. CASE \E u \in Members, e \in {"on", "off"} :
             SetRideChatMute(u, e) \/ \E c \in Categories : SetNotificationPreference(u, c, e)
  <2>1. UNCHANGED <<note, settings>> /\ Watch
    BY <1>3 DEF SetRideChatMute, SetNotificationPreference
  <2>2. QED BY <1>1, <2>1, WatchKeeps DEF WatchInv
<1>4. ASSUME NEW q \in Edits, ReadSettings(q) \/ UpdateRideSettings(q) PROVE WatchInv'
  <2>1. UNCHANGED note /\ Watch
    BY <1>4 DEF ReadSettings, UpdateRideSettings
  <2>2. settings' \in [Fields -> BOOLEAN]
    BY <1>1, <1>4, UpdatedTyped DEF ReadSettings, UpdateRideSettings, SettingsTyped
  <2>3. QED BY <1>1, <2>1, <2>2, WatchKeeps DEF WatchInv
<1>5. ASSUME NEW j \in Notes, NEW c \in Categories, Begin(j, c) PROVE WatchInv'
  <2>1. Watch /\ UNCHANGED settings /\ note' = [note EXCEPT ![j] = [category |-> c, step |-> "begun"]]
    BY <1>5 DEF Begin
  <2>2. note' \in [Notes -> NoteTypes]
    BY <1>1, <2>1 DEF WatchInv, NoteTypes
  <2>3. \A i \in Notes : note'[i] = note[i] \/ note'[i].step = "begun"
    BY <1>1, <2>1 DEF WatchInv
  <2>4. QED BY <1>1, <2>1, <2>2, <2>3, WatchKeeps DEF WatchInv
<1>6. ASSUME NEW j \in Notes, UNCHANGED <<general, forRide, settings, willing, unwilling, open>>,
             \A i \in Notes \ {j} : note'[i] = note[i],
             note' \in [Notes -> NoteTypes],
             note'[j].step = "unmuted" => Running(j) /\ open[j] /\ note'[j].category = note[j].category,
             note'[j].step # "begun",
             note'[j].step = "sent" /\ ~note'[j].blind =>
               /\ note'[j].to \subseteq willing[j] /\ Members \ note'[j].to \subseteq unwilling[j]
               /\ note'[j].category = Chat => open[j]
      PROVE  WatchInv'
  <2>1. \A u, c : Wants(u, c)' <=> Wants(u, c)
    BY <1>6 DEF Wants, IsNotificationAllowed, LoadAllowed, Enabled
  <2>2. \A i \in Notes : Running(i)' => Running(i) /\ note'[i].category = note[i].category
    BY <1>6 DEF Running
  <2>3. \A i \in Notes : Running(i)' =>
          /\ \A u \in Members : Wants(u, note[i].category)' => u \in willing'[i]
          /\ \A u \in Members : ~Wants(u, note[i].category)' => u \in unwilling'[i]
          /\ ~settings'["notifications_muted"] => open'[i]
    BY <1>1, <1>6, <2>1, <2>2 DEF WatchInv
  <2>4. QED BY <1>1, <1>6, <2>3 DEF WatchInv
<1>7. ASSUME NEW j \in Notes, LookAtRide(j) PROVE WatchInv'
  <2>1. /\ note[j] \in [category : Categories, step : {"begun", "unmuted", "silent"}] /\ Running(j)
        /\ note' = [note EXCEPT ![j].step = IF settings["notifications_muted"] THEN "silent" ELSE "unmuted"]
    BY <1>1, <1>7 DEF LookAtRide, WatchInv, NoteTypes, NoMute, Running
  <2>2. /\ note' \in [Notes -> NoteTypes] /\ note'[j].category = note[j].category
        /\ note'[j].step = IF settings["notifications_muted"] THEN "silent" ELSE "unmuted"
        /\ \A i \in Notes \ {j} : note'[i] = note[i]
    BY <1>1, <2>1 DEF WatchInv, NoteTypes
  <2>3. ~settings["notifications_muted"] => open[j]
    BY <1>1, <2>1 DEF WatchInv
  <2>4. QED BY <1>6, <1>7, <2>1, <2>2, <2>3 DEF LookAtRide
<1>8. ASSUME NEW j \in Notes, Decide(j) PROVE WatchInv'
  <2>1. /\ Running(j)
        /\ note[j].category = Chat => note[j].step = "unmuted"
        /\ note[j] \in [category : Categories, step : {"begun", "unmuted", "silent"}]
    BY <1>1, <1>8 DEF Decide, WatchInv, NoteTypes, NoMute, Running
  <2>2. /\ Addressed(j) \subseteq Members
        /\ Addressed(j) \subseteq willing[j] /\ Members \ Addressed(j) \subseteq unwilling[j]
        /\ note[j].category = Chat => open[j]
    BY <1>1, <2>1 DEF WatchInv, Addressed, Wants
  <2>3. CASE note' = [note EXCEPT ![j] = [category |-> note[j].category, step |-> "sent", to |-> Addressed(j),
                                          blind |-> FALSE]]
    <3>1. /\ note'[j] = [category |-> note[j].category, step |-> "sent", to |-> Addressed(j), blind |-> FALSE]
          /\ note' \in [Notes -> NoteTypes] /\ \A i \in Notes \ {j} : note'[i] = note[i]
      BY <1>1, <2>1, <2>2, <2>3 DEF WatchInv, NoteTypes
    <3>2. QED BY <1>6, <1>8, <2>2, <3>1 DEF Decide
  <2>4. CASE note' = [note EXCEPT ![j].step = "silent"]
    <3>1. note'[j].step = "silent" /\ note' \in [Notes -> NoteTypes] /\ \A i \in Notes \ {j} : note'[i] = note[i]
      BY <1>1, <2>1, <2>4 DEF WatchInv, NoteTypes
    <3>2. QED BY <1>6, <1>8, <3>1 DEF Decide
  <2>5. CASE note' = [note EXCEPT ![j] = [category |-> note[j].category, step |-> "sent", to |-> Members,
                                          blind |-> TRUE]]
    <3>1. /\ note'[j] = [category |-> note[j].category, step |-> "sent", to |-> Members, blind |-> TRUE]
          /\ note' \in [Notes -> NoteTypes] /\ \A i \in Notes \ {j} : note'[i] = note[i]
      BY <1>1, <2>1, <2>5 DEF WatchInv, NoteTypes
    <3>2. QED BY <1>6, <1>8, <3>1 DEF Decide
  <2>6. QED BY <1>8, <2>3, <2>4, <2>5 DEF Decide
<1>9. ASSUME NEW b \in Bodies, UpdateRideByID(b) PROVE WatchInv'
  <2>1. UNCHANGED note /\ Watch
    BY <1>9 DEF UpdateRideByID
  <2>2. settings' \in [Fields -> BOOLEAN]
    BY <1>1, <1>9, ParsedTyped DEF UpdateRideByID, SettingsTyped
  <2>3. QED BY <1>1, <2>1, <2>2, WatchKeeps DEF WatchInv
<1>10. QED BY <1>1, <1>2, <1>3, <1>4, <1>5, <1>7, <1>8, <1>9 DEF MutesNext

-----------------------------------------------------------------------------
(* What the chat list shows. *)

RowsTyped == general \in [Members -> [Categories -> Rows]] /\ forRide \in [Members -> Rows]

LEMMA RowsStep == RowsTyped /\ [MutesNext]_mutesVars => RowsTyped'
<1>1. SUFFICES ASSUME RowsTyped, [MutesNext]_mutesVars PROVE RowsTyped'
  OBVIOUS
<1>2. CASE UNCHANGED <<general, forRide>>
  BY <1>1, <1>2 DEF RowsTyped
<1>3. ASSUME NEW u \in Members, NEW e \in {"on", "off"}, SetRideChatMute(u, e) PROVE RowsTyped'
  BY <1>1, <1>3 DEF SetRideChatMute, RowsTyped, Rows
<1>4. ASSUME NEW u \in Members, NEW e \in {"on", "off"}, NEW c \in Categories, SetNotificationPreference(u, c, e)
      PROVE  RowsTyped'
  BY <1>1, <1>4 DEF SetNotificationPreference, RowsTyped, Rows
<1>5. QED BY <1>1, <1>2, <1>3, <1>4
          DEF MutesNext, mutesVars, ReadSettings, UpdateRideSettings, UpdateRideByID, LookAtRide, Decide, Begin

LEMMA ListAgrees ==
  ASSUME RowsTyped, NEW u \in Members
  PROVE  LET silent == settings["notifications_muted"] \/ RideChatMute(u) IN
           /\ silent => ListMuted(u)
           /\ ListMuted(u) => silent \/ (general[u][Chat] = "off" /\ forRide[u] = "on")
<1>1. Chat \in Categories /\ general[u][Chat] \in Rows /\ forRide[u] \in Rows
  BY DEF RowsTyped, Categories
<1>2. RideChatMute(u) <=> forRide[u] = "off" \/ (forRide[u] = "none" /\ general[u][Chat] = "off")
  BY <1>1 DEF RideChatMute, IsNotificationAllowed, LoadAllowed, Enabled, Rows
<1>3. QED BY <1>1, <1>2 DEF ListMuted, Rows

(* What the watch writes down. *)
WatchTyped ==
  /\ torn \in BOOLEAN
  /\ willing \in [Notes -> SUBSET Members] /\ unwilling \in [Notes -> SUBSET Members]

LEMMA WatchTypedStep == WatchTyped /\ [MutesNext]_mutesVars => WatchTyped'
<1>1. SUFFICES ASSUME WatchTyped, [MutesNext]_mutesVars PROVE WatchTyped'
  OBVIOUS
<1>2. CASE UNCHANGED <<torn, willing, unwilling>>
  BY <1>1, <1>2 DEF WatchTyped
<1>3. ASSUME Watch, torn' \in BOOLEAN PROVE WatchTyped'
  <2>1. /\ willing' \in [Notes -> SUBSET Members]
        /\ unwilling' \in [Notes -> SUBSET Members]
    BY <1>1, <1>3 DEF Watch, WatchTyped
  <2>2. QED BY <1>3, <2>1 DEF WatchTyped
<1>4. ASSUME NEW u \in Members, NEW e \in {"on", "off"}, SetRideChatMute(u, e) PROVE WatchTyped'
  BY <1>1, <1>3, <1>4 DEF SetRideChatMute, WatchTyped
<1>5. ASSUME NEW u \in Members, NEW e \in {"on", "off"}, NEW c \in Categories, SetNotificationPreference(u, c, e)
      PROVE  WatchTyped'
  BY <1>1, <1>3, <1>5 DEF SetNotificationPreference, WatchTyped
<1>6. ASSUME NEW q \in Edits, ReadSettings(q) \/ UpdateRideSettings(q) PROVE WatchTyped'
  <2>1. Watch /\ (torn' = torn \/ torn' = (torn \/ \E p \in Edits : edit[p].step = "read"))
    BY <1>6 DEF ReadSettings, UpdateRideSettings
  <2>2. torn' \in BOOLEAN
    BY <1>1, <2>1 DEF WatchTyped
  <2>3. QED BY <1>3, <2>1, <2>2
<1>7. ASSUME NEW j \in Notes, NEW c \in Categories, Begin(j, c) PROVE WatchTyped'
  BY <1>1, <1>3, <1>7 DEF Begin, WatchTyped
<1>8. ASSUME NEW j \in Notes, LookAtRide(j) \/ Decide(j) PROVE WatchTyped'
  BY <1>2, <1>8 DEF LookAtRide, Decide
<1>9. ASSUME NEW b \in Bodies, UpdateRideByID(b) PROVE WatchTyped'
  <2>1. Watch /\ torn' = (torn \/ \E p \in Edits : edit[p].step = "read")
    BY <1>9 DEF UpdateRideByID
  <2>2. QED BY <1>1, <1>3, <2>1 DEF WatchTyped
<1>10. QED BY <1>1, <1>2, <1>4, <1>5, <1>6, <1>7, <1>8, <1>9 DEF MutesNext, mutesVars

LEMMA MutesInvariant == MutesSpec => [](SettingsTyped /\ EditInv /\ RowsTyped /\ WatchInv)
<1>1. MutesInit => SettingsTyped /\ EditInv /\ RowsTyped /\ WatchInv
  <2>1. MutesInit => SettingsTyped /\ EditInv
    BY DEF MutesInit, SettingsTyped, EditInv, FieldsKept, EditTypes, Reading, NoEdit
  <2>2. MutesInit => RowsTyped
    BY DEF MutesInit, RowsTyped, Rows
  <2>3. MutesInit => WatchInv
    BY DEF MutesInit, WatchInv, NoteTypes, NoMute, Running
  <2>4. QED BY <2>1, <2>2, <2>3
<1>2. QED BY <1>1, SettingsStep, RowsStep, WatchStep, PTL DEF MutesSpec

(* Preferences, settings, edits and the notes under way stay well formed.   *)
THEOREM MutesTypeCorrect == MutesSpec => []MutesTypeOK
<1>1. MutesInit => WatchTyped
  BY DEF MutesInit, WatchTyped
<1>2. SettingsTyped /\ RowsTyped /\ WatchInv /\ WatchTyped => MutesTypeOK
  <2>1. SUFFICES ASSUME SettingsTyped, RowsTyped, WatchInv, WatchTyped PROVE MutesTypeOK
    OBVIOUS
  <2>2. \A j \in Notes : note[j].step \in {"none", "begun", "unmuted", "silent", "sent"}
    <3>1. \A n \in NoteTypes : n.step \in {"none", "begun", "unmuted", "silent", "sent"}
      BY DEF NoteTypes, NoMute
    <3>2. QED BY <2>1, <3>1 DEF WatchInv
  <2>3. QED BY <2>1, <2>2 DEF MutesTypeOK, SettingsTyped, EditTypes, RowsTyped, WatchInv, WatchTyped
<1>3. QED BY <1>1, <1>2, MutesInvariant, WatchTypedStep, PTL DEF MutesSpec

(* A push goes to somebody only if there was a time, while it was being     *)
(* decided, when he wanted it, and leaves out only who at some such time    *)
(* did not; and the chat list calls a chat muted whose pushes would not     *)
(* come (chat.go:780-820, 930-990, notification_scheduler.go:256-272).      *)
THEOREM MutesHonoured == MutesSpec => []MutesAgree
<1>1. RowsTyped /\ WatchInv => MutesAgree
  BY ListAgrees DEF WatchInv, MutesAgree
<1>2. QED BY <1>1, MutesInvariant, PTL

=============================================================================
