------------------------- MODULE VerificationProof -------------------------
(***************************************************************************)
(* Machine-checked theorems about Verification, for any number of          *)
(* challenges and of requests in flight: how often a challenge confirms,   *)
(* how many wrong codes it takes, how mails are spaced, and that a used    *)
(* challenge has verified its user.                                        *)
(***************************************************************************)
EXTENDS Verification, FiniteSetTheorems, WellFoundedInduction, TLAPS

Consuming(r) == {p \in Procs : At(p, "consume") /\ loc[p].row = r}

(* Starts that the cooldown check has let through. *)
Granted == {p \in Procs : At(p, "insert") /\ loc[p].ok}

(* The open challenges made in one cooldown from t on. *)
MadeFrom(t) == {r \in Pending \ lapsed : born[r] \in t .. t + Cooldown - 1}

(* A request works on a row that has been inserted, at some time past. *)
RowsMade ==
  /\ \A p \in Procs : loc[p] # Idle /\ loc[p].pc # "insert" => state[loc[p].row] # "unborn"
  /\ \A r \in Rows : born[r] <= now
  /\ \A r \in lapsed : state[r] # "unborn"

(* A request that will use an open challenge came while it was not used:   *)
(* later ones find it consumed.                                            *)
UseInv ==
  \A r \in Rows :
    /\ state[r] \in {"unborn", "open"} => uses[r] = 0
    /\ uses[r] + Cardinality(Consuming(r)) <= Cardinality(Procs)

(* While the cooldown of the newest challenge lasts, starts that came      *)
(* before it are the only ones let through.                                *)
SpaceInv ==
  \A t \in 0 .. MaxNow :
    /\ IsFiniteSet(MadeFrom(t)) /\ Cardinality(MadeFrom(t)) <= Cardinality(Procs)
    /\ MadeFrom(t) # {} /\ now <= t + Cooldown - 1 =>
         Cardinality(MadeFrom(t)) + Cardinality(Granted) <= Cardinality(Procs)

VerifyInv == TypeOK /\ RowsMade /\ ConsumedVerifies /\ UseInv /\ SpaceInv

-----------------------------------------------------------------------------
LEMMA ProcsFinite ==
  /\ IsFiniteSet(Procs) /\ Cardinality(Procs) \in Nat
  /\ \A S \in SUBSET Procs : IsFiniteSet(S) /\ Cardinality(S) \in Nat /\ Cardinality(S) <= Cardinality(Procs)
BY ProcsAssumption, FS_CardinalityType, FS_Subset

LEMMA TaskParts ==
  ASSUME TypeOK, NEW p \in Procs, loc[p] # Idle
  PROVE  /\ loc[p].pc \in {"insert", "mail", "wrong", "consume"}
         /\ loc[p].pc = "insert" => loc[p].ok \in BOOLEAN
         /\ loc[p].pc # "insert" => loc[p].row \in Rows
         /\ loc[p].pc \in {"wrong", "consume"} => loc[p].seen \in Nat
<1>1. loc[p] \in Tasks
  BY DEF TypeOK
<1>2. QED BY <1>1 DEF Tasks

LEMMA TaskMade ==
  /\ \A ok \in BOOLEAN : [pc |-> "insert", ok |-> ok] \in Tasks
  /\ \A r \in Rows : [pc |-> "mail", row |-> r] \in Tasks
  /\ \A place \in {"wrong", "consume"}, r \in Rows, n \in Nat : [pc |-> place, row |-> r, seen |-> n] \in Tasks
  /\ Idle \notin Tasks
BY ProcsAssumption DEF Tasks

LEMMA GotoMoves ==
  ASSUME TypeOK, NEW p \in Procs, NEW l, Goto(p, l)
  PROVE  /\ \A q \in Procs : loc'[q] = IF q = p THEN l ELSE loc[q]
         /\ l \in Tasks \cup {Idle} => loc' \in [Procs -> Tasks \cup {Idle}]
BY DEF TypeOK, Goto

LEMMA Tunables == MaxAttempts \in Nat \ {0} /\ TTL \in Nat /\ Cooldown \in Nat /\ MaxNow \in Nat
BY TunablesAssumption

-----------------------------------------------------------------------------
(* Types. *)

LEMMA ReadsTyped ==
  ASSUME TypeOK, NEW p \in Procs,
         \/ StartCheck(p)
         \/ \E code \in mailed \cup {Wrong} : EnterCode(p, code)
         \/ \E r \in mailed : OpenLink(p, r)
  PROVE  /\ UNCHANGED <<now, rowVars, mailed, bookVars>>
         /\ \E l \in Tasks : /\ Goto(p, l)
                             /\ l.pc = "insert" => (l.ok => ~Cooling) /\ StartCheck(p)
                             /\ l.pc # "insert" => /\ l.pc \in {"wrong", "consume"} /\ l.row \in Pending
                                                   /\ l.seen = attempts[l.row]
                                                   /\ l.pc = "wrong" => AttemptsLeft(l.row)
<1>1. UNCHANGED <<now, rowVars, mailed, bookVars>>
  BY DEF StartCheck, EnterCode, OpenLink
<1>2. CASE StartCheck(p)
  BY <1>1, <1>2, TaskMade DEF StartCheck
<1>3. CASE \E code \in mailed \cup {Wrong} : EnterCode(p, code)
  <2>1. PICK r \in Latest, place \in {"wrong", "consume"} :
          AttemptsLeft(r) /\ Goto(p, [pc |-> place, row |-> r, seen |-> attempts[r]])
    BY <1>3 DEF EnterCode
  <2>2. r \in Pending /\ r \in Rows /\ attempts[r] \in Nat
    BY DEF Latest, Pending, TypeOK
  <2>3. QED BY <1>1, <2>1, <2>2, TaskMade
<1>4. CASE \E r \in mailed : OpenLink(p, r)
  <2>1. PICK r \in Pending : Goto(p, [pc |-> "consume", row |-> r, seen |-> attempts[r]])
    BY <1>4 DEF OpenLink
  <2>2. r \in Rows /\ attempts[r] \in Nat
    BY DEF Pending, TypeOK
  <2>3. QED BY <1>1, <2>1, <2>2, TaskMade
<1>5. QED BY <1>2, <1>3, <1>4

LEMMA WritesTyped ==
  ASSUME TypeOK, NEW p \in Procs, StartInsert(p) \/ StartMail(p) \/ CountWrong(p) \/ Consume(p)
  PROVE  TypeOK'
<1>0. loc[p] # Idle
  BY DEF At, StartInsert, StartMail, CountWrong, Consume
<1>1. ASSUME NEW l \in Tasks \cup {Idle}, Goto(p, l) PROVE loc' \in [Procs -> Tasks \cup {Idle}]
  BY <1>1, GotoMoves
<1>2. CASE StartInsert(p)
  <2>1. PICK r \in Rows :
          /\ state[r] = "unborn" /\ state' = [state EXCEPT ![r] = "open"]
          /\ born' = [born EXCEPT ![r] = now]
          /\ lapsed' = IF loc[p].ok THEN lapsed ELSE lapsed \cup {r}
          /\ Goto(p, [pc |-> "mail", row |-> r])
    BY <1>2 DEF StartInsert
  <2>2. loc' \in [Procs -> Tasks \cup {Idle}]
    BY <1>1, <2>1, TaskMade
  <2>3. QED BY <1>2, <2>1, <2>2 DEF StartInsert, TypeOK, States
<1>3. CASE StartMail(p)
  <2>1. loc[p].row \in Rows /\ Goto(p, Idle)
    BY <1>0, <1>3, TaskParts DEF StartMail, At, Return
  <2>2. loc' \in [Procs -> Tasks \cup {Idle}]
    BY <1>1, <2>1
  <2>3. mailed' \subseteq Rows /\ UNCHANGED <<now, verified, tried, uses>>
    BY <1>3, <2>1 DEF StartMail, TypeOK
  <2>4. CASE UNCHANGED <<state, born, attempts, lapsed>>
    BY <2>2, <2>3, <2>4 DEF TypeOK
  <2>5. CASE /\ state' = [state EXCEPT ![loc[p].row] = "gone"] /\ born' = [born EXCEPT ![loc[p].row] = 0]
             /\ attempts' = [attempts EXCEPT ![loc[p].row] = 0] /\ lapsed' = lapsed \ {loc[p].row}
    BY <2>1, <2>2, <2>3, <2>5, Tunables DEF TypeOK, States
  <2>6. QED BY <1>3, <2>4, <2>5 DEF StartMail
<1>4. CASE CountWrong(p)
  <2>1. loc[p].row \in Rows /\ loc[p].seen \in Nat /\ Goto(p, Idle)
    BY <1>0, <1>4, TaskParts DEF CountWrong, At, Return
  <2>2. loc' \in [Procs -> Tasks \cup {Idle}]
    BY <1>1, <2>1
  <2>3. QED BY <1>4, <2>1, <2>2 DEF CountWrong, TypeOK, Exists
<1>5. CASE Consume(p)
  <2>1. loc[p].row \in Rows /\ loc[p].seen \in Nat /\ Goto(p, Idle)
    BY <1>0, <1>5, TaskParts DEF Consume, At, Return
  <2>2. loc' \in [Procs -> Tasks \cup {Idle}]
    BY <1>1, <2>1
  <2>3. verified' \in BOOLEAN
    BY <1>5 DEF Consume, TypeOK
  <2>4. UNCHANGED <<now, born, mailed, tried, lapsed>>
    BY <1>5 DEF Consume
  <2>5. CASE UNCHANGED <<state, attempts, verified, uses>>
    BY <2>2, <2>4, <2>5 DEF TypeOK
  <2>6. CASE /\ state' = IF Exists(loc[p].row) THEN [state EXCEPT ![loc[p].row] = "consumed"] ELSE state
             /\ attempts' = IF Exists(loc[p].row) THEN [attempts EXCEPT ![loc[p].row] = loc[p].seen + 1] ELSE attempts
             /\ uses' = [uses EXCEPT ![loc[p].row] = @ + 1]
    BY <2>1, <2>2, <2>3, <2>4, <2>6 DEF TypeOK, Exists, States
  <2>7. QED BY <1>5, <2>5, <2>6 DEF Consume
<1>6. QED BY <1>2, <1>3, <1>4, <1>5

LEMMA TypedStep == TypeOK /\ [Next]_vars => TypeOK'
<1>1. SUFFICES ASSUME TypeOK, [Next]_vars PROVE TypeOK'
  OBVIOUS
<1>2. CASE UNCHANGED vars
  BY <1>1, <1>2 DEF vars, rowVars, bookVars, TypeOK
<1>3. CASE Tick
  BY <1>1, <1>3, Tunables DEF Tick, rowVars, bookVars, TypeOK
<1>4. ASSUME NEW p \in Procs, \/ StartCheck(p)
                             \/ \E code \in mailed \cup {Wrong} : EnterCode(p, code)
                             \/ \E r \in mailed : OpenLink(p, r)
      PROVE  TypeOK'
  <2>1. UNCHANGED <<now, rowVars, mailed, bookVars>> /\ \E l \in Tasks : Goto(p, l)
    BY <1>1, <1>4, ReadsTyped
  <2>2. loc' \in [Procs -> Tasks \cup {Idle}]
    BY <1>1, <2>1, GotoMoves
  <2>3. QED BY <1>1, <2>1, <2>2 DEF rowVars, bookVars, TypeOK
<1>5. QED BY <1>1, <1>2, <1>3, <1>4, WritesTyped DEF Next

(* What a step may do to a row. *)
RowMoves(r) ==
  /\ state'[r] = "unborn" => state[r] = "unborn"
  /\ state'[r] = "open" => state[r] \in {"unborn", "open"}
  /\ state[r] # "unborn" /\ state'[r] # "gone" => born'[r] = born[r] /\ (r \in lapsed => r \in lapsed')
  /\ state'[r] = "consumed" => state[r] = "consumed" \/ verified'
  /\ born'[r] \in {born[r], now, 0}
  /\ r \in lapsed' => r \in lapsed \/ state'[r] # "unborn"

LEMMA StepMovesRows ==
  ASSUME TypeOK, [Next]_vars
  PROVE  (\A r \in Rows : RowMoves(r)) /\ (verified => verified') /\ now' \in {now, now + 1}
<1>1. CASE UNCHANGED <<rowVars, bookVars>> /\ now' \in {now, now + 1}
  BY <1>1 DEF rowVars, bookVars, RowMoves
<1>2. ASSUME NEW p \in Procs, StartInsert(p)
      PROVE  (\A r \in Rows : RowMoves(r)) /\ (verified => verified') /\ now' = now
  BY <1>2 DEF StartInsert, RowMoves, TypeOK
<1>3. ASSUME NEW p \in Procs, StartMail(p)
      PROVE  (\A r \in Rows : RowMoves(r)) /\ (verified => verified') /\ now' = now
  BY <1>3 DEF StartMail, RowMoves, TypeOK
<1>4. ASSUME NEW p \in Procs, CountWrong(p) \/ Consume(p)
      PROVE  (\A r \in Rows : RowMoves(r)) /\ (verified => verified') /\ now' = now
  <2>1. UNCHANGED <<born, lapsed, now>>
    BY <1>4 DEF CountWrong, Consume
  <2>2. verified => verified'
    BY <1>4 DEF CountWrong, Consume
  <2>3. UNCHANGED state \/ (verified' /\ state' = [state EXCEPT ![loc[p].row] = "consumed"] /\ Exists(loc[p].row))
    BY <1>4 DEF CountWrong, Consume
  <2>4. QED BY <2>1, <2>2, <2>3 DEF RowMoves, TypeOK, Exists
<1>5. ASSUME NEW p \in Procs, \/ StartCheck(p)
                              \/ \E code \in mailed \cup {Wrong} : EnterCode(p, code)
                              \/ \E r \in mailed : OpenLink(p, r)
      PROVE  UNCHANGED <<now, rowVars, mailed, bookVars>>
  BY <1>5, ReadsTyped
<1>6. UNCHANGED vars \/ Tick => UNCHANGED <<rowVars, bookVars>> /\ now' \in {now, now + 1}
  BY DEF vars, Tick
<1>7. QED BY <1>1, <1>2, <1>3, <1>4, <1>5, <1>6 DEF Next

LEMMA RowsMadeStep == TypeOK /\ RowsMade /\ [Next]_vars => RowsMade'
<1>1. SUFFICES ASSUME TypeOK, RowsMade, [Next]_vars PROVE RowsMade'
  OBVIOUS
<1>2. (\A r \in Rows : RowMoves(r)) /\ now' \in {now, now + 1}
  BY <1>1, StepMovesRows
<1>3. (\A r \in Rows : born'[r] <= now') /\ (\A r \in lapsed' : state'[r] # "unborn")
  <2>1. \A r \in Rows : born'[r] <= now'
    BY <1>1, <1>2 DEF RowsMade, RowMoves, TypeOK
  <2>2. lapsed' \subseteq Rows
    BY <1>1, TypedStep DEF TypeOK
  <2>3. QED BY <1>1, <1>2, <2>1, <2>2 DEF RowsMade, RowMoves
<1>4. ASSUME NEW q \in Procs, loc'[q] = loc[q], loc[q] # Idle, loc[q].pc # "insert"
      PROVE  state'[loc'[q].row] # "unborn"
  BY <1>1, <1>2, <1>4, TaskParts DEF RowsMade, RowMoves
<1>5. CASE loc' = loc
  BY <1>3, <1>4, <1>5 DEF RowsMade
<1>6. ASSUME NEW p \in Procs, NEW l, Goto(p, l),
             l = Idle \/ l.pc = "insert" \/ (l.row \in Rows /\ state'[l.row] # "unborn")
      PROVE  RowsMade'
  <2>1. \A q \in Procs : loc'[q] = IF q = p THEN l ELSE loc[q]
    BY <1>1, <1>6, GotoMoves
  <2>2. QED BY <1>3, <1>4, <1>6, <2>1 DEF RowsMade
<1>7. ASSUME NEW p \in Procs, StartInsert(p) PROVE RowsMade'
  <2>1. PICK r \in Rows : state' = [state EXCEPT ![r] = "open"] /\ Goto(p, [pc |-> "mail", row |-> r])
    BY <1>7 DEF StartInsert
  <2>2. state'[r] = "open"
    BY <1>1, <2>1 DEF TypeOK
  <2>3. QED BY <1>6, <2>1, <2>2
<1>8. ASSUME NEW p \in Procs, StartMail(p) \/ CountWrong(p) \/ Consume(p) PROVE RowsMade'
  BY <1>6, <1>8 DEF StartMail, CountWrong, Consume, Return
<1>9. ASSUME NEW p \in Procs, \/ StartCheck(p)
                              \/ \E code \in mailed \cup {Wrong} : EnterCode(p, code)
                              \/ \E r \in mailed : OpenLink(p, r)
      PROVE  RowsMade'
  <2>1. UNCHANGED rowVars
    BY <1>1, <1>9, ReadsTyped
  <2>2. PICK l \in Tasks : Goto(p, l) /\ (l.pc # "insert" => l.row \in Pending)
    BY <1>1, <1>9, ReadsTyped
  <2>3. l.pc # "insert" => l.row \in Rows /\ state'[l.row] # "unborn"
    BY <2>1, <2>2 DEF Pending, rowVars
  <2>4. QED BY <1>6, <2>2, <2>3
<1>10. UNCHANGED vars \/ Tick => loc' = loc
  BY DEF vars, Tick
<1>11. QED BY <1>1, <1>5, <1>7, <1>8, <1>9, <1>10 DEF Next

LEMMA ConsumedStep == TypeOK /\ ConsumedVerifies /\ [Next]_vars => ConsumedVerifies'
BY StepMovesRows DEF ConsumedVerifies, RowMoves

-----------------------------------------------------------------------------
(* How often a challenge confirms. *)

(* A request that stops, or goes on elsewhere, uses no challenge. *)
LEMMA ConsumingKept ==
  ASSUME TypeOK, NEW p \in Procs, NEW l, Goto(p, l), l = Idle \/ l.pc # "consume", NEW r
  PROVE  Consuming(r)' = Consuming(r) \ {p}
<1>1. \A q \in Procs : loc'[q] = IF q = p THEN l ELSE loc[q]
  BY GotoMoves
<1>2. QED BY <1>1 DEF Consuming, At

LEMMA FewerConsuming ==
  ASSUME NEW S, NEW T, S \subseteq T, T \subseteq Procs
  PROVE  Cardinality(S) <= Cardinality(T) /\ Cardinality(S) \in Nat /\ Cardinality(T) \in Nat
BY ProcsFinite, FS_Subset

LEMMA UseStep == TypeOK /\ RowsMade /\ UseInv /\ [Next]_vars => UseInv'
<1>1. SUFFICES ASSUME TypeOK, RowsMade, UseInv, [Next]_vars PROVE UseInv'
  OBVIOUS
<1>2. \A r \in Rows : RowMoves(r)
  BY <1>1, StepMovesRows
<1>3. \A r \in Rows : uses[r] \in Nat /\ Consuming(r) \subseteq Procs
  BY <1>1 DEF TypeOK, Consuming
<1>4. ASSUME uses' = uses, \A r \in Rows : Consuming(r)' \subseteq Consuming(r)
      PROVE  UseInv'
  <2>1. \A r \in Rows : Cardinality(Consuming(r)') <= Cardinality(Consuming(r)) /\ Cardinality(Consuming(r)') \in Nat
                         /\ Cardinality(Consuming(r)) \in Nat
    BY <1>3, <1>4, FewerConsuming
  <2>2. QED BY <1>1, <1>2, <1>3, <1>4, <2>1, ProcsFinite DEF UseInv, RowMoves
<1>5. ASSUME NEW p \in Procs, NEW l, Goto(p, l), l = Idle \/ l.pc # "consume", uses' = uses PROVE UseInv'
  BY <1>1, <1>4, <1>5, ConsumingKept
<1>6. CASE UNCHANGED vars \/ Tick
  BY <1>4, <1>6 DEF vars, Tick, bookVars, Consuming, At
<1>7. ASSUME NEW p \in Procs, StartInsert(p) \/ StartMail(p) \/ CountWrong(p) PROVE UseInv'
  <2>1. uses' = uses
    BY <1>7 DEF StartInsert, StartMail, CountWrong
  <2>2. CASE StartInsert(p)
    <3>1. PICK r : Goto(p, [pc |-> "mail", row |-> r])
      BY <2>2 DEF StartInsert
    <3>2. QED BY <1>5, <2>1, <3>1
  <2>3. CASE StartMail(p) \/ CountWrong(p)
    BY <1>5, <2>1, <2>3 DEF StartMail, CountWrong, Return
  <2>4. QED BY <1>7, <2>2, <2>3
<1>8. ASSUME NEW p \in Procs, \/ StartCheck(p)
                              \/ \E code \in mailed \cup {Wrong} : EnterCode(p, code)
                              \/ \E r \in mailed : OpenLink(p, r)
      PROVE  UseInv'
  <2>1. UNCHANGED <<rowVars, bookVars>>
    BY <1>1, <1>8, ReadsTyped
  <2>2. PICK l \in Tasks : Goto(p, l) /\ (l.pc # "insert" => l.pc \in {"wrong", "consume"} /\ l.row \in Pending)
    BY <1>1, <1>8, ReadsTyped
  <2>3. CASE l.pc # "consume"
    BY <1>5, <2>1, <2>2, <2>3 DEF bookVars
  <2>4. CASE l.pc = "consume"
    <3>1. \A q \in Procs : loc'[q] = IF q = p THEN l ELSE loc[q]
      BY <1>1, <2>2, GotoMoves
    <3>2. l.row \in Rows /\ uses[l.row] = 0
      BY <1>1, <2>2, <2>4 DEF UseInv, Pending
    <3>3. \A r \in Rows : r # l.row => Consuming(r)' \subseteq Consuming(r)
      BY <3>1, <2>4 DEF Consuming, At
    <3>4. \A r \in Rows : Consuming(r)' \subseteq Procs
      BY DEF Consuming
    <3>5. \A r \in Rows : uses'[r] + Cardinality(Consuming(r)') <= Cardinality(Procs)
      <4>1. SUFFICES ASSUME NEW r \in Rows PROVE uses'[r] + Cardinality(Consuming(r)') <= Cardinality(Procs)
        OBVIOUS
      <4>2. uses'[r] = uses[r]
        BY <2>1 DEF bookVars
      <4>3. CASE r = l.row
        <5>1. Cardinality(Consuming(r)') <= Cardinality(Procs) /\ Cardinality(Consuming(r)') \in Nat
          BY <3>4, FewerConsuming
        <5>2. QED BY <3>2, <4>2, <4>3, <5>1, ProcsFinite
      <4>4. CASE r # l.row
        <5>1. /\ Cardinality(Consuming(r)') <= Cardinality(Consuming(r))
              /\ Cardinality(Consuming(r)') \in Nat /\ Cardinality(Consuming(r)) \in Nat
          BY <1>3, <3>3, <4>4, FewerConsuming
        <5>2. QED BY <1>1, <1>3, <4>2, <5>1, ProcsFinite DEF UseInv
      <4>5. QED BY <4>3, <4>4
    <3>6. QED BY <1>1, <2>1, <3>5 DEF UseInv, rowVars, bookVars
  <2>5. QED BY <2>3, <2>4
<1>9. ASSUME NEW p \in Procs, Consume(p) PROVE UseInv'
  <2>1. PICK r \in Rows : loc[p].row = r
    BY <1>1, <1>9, TaskParts DEF Consume, At
  <2>2. At(p, "consume") /\ Goto(p, Idle) /\ p \in Consuming(r)
    BY <1>9, <2>1 DEF Consume, Return, Consuming
  <2>3. CASE uses' = uses
    BY <1>5, <2>2, <2>3
  <2>4. CASE /\ state' = IF Exists(r) THEN [state EXCEPT ![r] = "consumed"] ELSE state
             /\ uses' = [uses EXCEPT ![r] = @ + 1]
    <3>1. \A s \in Rows : Consuming(s)' = Consuming(s) \ {p}
      BY <1>1, <2>2, ConsumingKept
    <3>2. Cardinality(Consuming(r)') = Cardinality(Consuming(r)) - 1 /\ Cardinality(Consuming(r)) \in Nat
      BY <1>3, <2>2, <3>1, ProcsFinite, FS_RemoveElement
    <3>3. uses'[r] = uses[r] + 1 /\ \A s \in Rows : s # r => uses'[s] = uses[s]
      BY <1>1, <2>4 DEF TypeOK
    <3>4. \A s \in Rows : uses'[s] + Cardinality(Consuming(s)') <= Cardinality(Procs)
      <4>1. SUFFICES ASSUME NEW s \in Rows PROVE uses'[s] + Cardinality(Consuming(s)') <= Cardinality(Procs)
        OBVIOUS
      <4>2. CASE s = r
        BY <1>1, <1>3, <3>2, <3>3, <4>2, ProcsFinite DEF UseInv
      <4>3. CASE s # r
        <5>1. /\ Cardinality(Consuming(s)') <= Cardinality(Consuming(s))
              /\ Cardinality(Consuming(s)') \in Nat /\ Cardinality(Consuming(s)) \in Nat
          BY <1>3, <3>1, FewerConsuming
        <5>2. QED BY <1>1, <1>3, <3>3, <4>3, <5>1, ProcsFinite DEF UseInv
      <4>4. QED BY <4>2, <4>3
    <3>5. state'[r] \notin {"unborn", "open"}
      <4>1. state[r] # "unborn"
        BY <1>1, <2>1, <2>2 DEF RowsMade, At
      <4>2. QED BY <1>1, <2>4, <4>1 DEF TypeOK, States, Exists
    <3>6. QED BY <1>1, <1>2, <3>3, <3>4, <3>5 DEF UseInv, RowMoves
  <2>5. QED BY <1>9, <2>1, <2>3, <2>4 DEF Consume
<1>10. QED BY <1>1, <1>6, <1>7, <1>8, <1>9 DEF Next

-----------------------------------------------------------------------------
(* How mails are spaced. *)

LEMMA LeastNumber ==
  ASSUME NEW T, T \subseteq Nat, T # {}
  PROVE  \E m \in T : \A n \in T : m <= n
<1>1. PICK m \in T : \A n \in T : ~ (<<n, m>> \in OpToRel(<, Nat))
  BY NatLessThanWellFounded, WFMin
<1>2. ASSUME NEW n \in T PROVE m <= n
  <2>1. m \in Nat /\ n \in Nat /\ ~ (n < m)
    BY <1>1 DEF OpToRel
  <2>2. QED BY <2>1
<1>3. QED BY <1>2

(* Of some open challenges one is the newest. *)
LEMMA NewestExists ==
  ASSUME TypeOK, Pending # {}
  PROVE  Latest # {}
<1> DEFINE Ages == {MaxNow - born[r] : r \in Pending}
<1>1. Pending \subseteq Rows /\ \A r \in Rows : born[r] \in Nat /\ MaxNow - born[r] \in Nat
  BY Tunables DEF TypeOK, Pending
<1>2. PICK m \in Ages : \A n \in Ages : m <= n
  BY <1>1, LeastNumber
<1>3. PICK r \in Pending : m = MaxNow - born[r]
  BY <1>2
<1>4. ASSUME NEW s \in Pending PROVE born[s] <= born[r]
  <2>1. m <= MaxNow - born[s]
    BY <1>2
  <2>2. QED BY <1>1, <1>3, <2>1, Tunables
<1>5. QED BY <1>3, <1>4 DEF Latest

(* Who is let through finds no challenge of the last cooldown. *)
LEMMA CooledDown ==
  ASSUME TypeOK, ~Cooling, NEW t \in 0 .. MaxNow, MadeFrom(t) # {}
  PROVE  now > t + Cooldown - 1
<1>1. PICK s \in MadeFrom(t) : TRUE
  OBVIOUS
<1>2. s \in Pending /\ born[s] >= t /\ s \in Rows
  BY <1>1 DEF MadeFrom, Pending
<1>3. PICK r \in Latest : TRUE
  BY <1>2, NewestExists
<1>4. r \in Rows /\ born[s] <= born[r] /\ ~(now - born[r] < Cooldown)
  BY <1>2, <1>3 DEF Latest, Pending, Cooling
<1>5. now \in Nat /\ born[r] \in Nat /\ born[s] \in Nat
  BY <1>2, <1>4, Tunables DEF TypeOK
<1>6. QED BY <1>2, <1>4, <1>5, Tunables

LEMMA GrantedSubset == Granted \subseteq Procs /\ Cardinality(Granted) \in Nat
                       /\ Cardinality(Granted) <= Cardinality(Procs)
BY ProcsFinite DEF Granted

(* A step that opens no challenge and lets nobody through. *)
LEMMA NothingMade ==
  ASSUME TypeOK, SpaceInv, [Next]_vars, Pending' \subseteq Pending,
         \A t \in 0 .. MaxNow : MadeFrom(t) # {} /\ now <= t + Cooldown - 1 => Granted' \subseteq Granted
  PROVE  SpaceInv'
<1>1. (\A r \in Rows : RowMoves(r)) /\ now' \in {now, now + 1}
  BY StepMovesRows
<1>2. SUFFICES ASSUME NEW t \in 0 .. MaxNow
               PROVE  /\ IsFiniteSet(MadeFrom(t)') /\ Cardinality(MadeFrom(t)') <= Cardinality(Procs)
                      /\ MadeFrom(t)' # {} /\ now' <= t + Cooldown - 1 =>
                           Cardinality(MadeFrom(t)') + Cardinality(Granted') <= Cardinality(Procs)
  BY DEF SpaceInv
<1>3. MadeFrom(t)' \subseteq MadeFrom(t)
  <2>1. SUFFICES ASSUME NEW r \in MadeFrom(t)' PROVE r \in MadeFrom(t)
    OBVIOUS
  <2>2. r \in Pending' /\ r \notin lapsed' /\ born'[r] \in t .. t + Cooldown - 1
    BY <2>1 DEF MadeFrom
  <2>3. r \in Pending /\ r \in Rows /\ state[r] = "open" /\ state'[r] = "open"
    BY <2>2 DEF Pending
  <2>4. born'[r] = born[r] /\ r \notin lapsed
    BY <1>1, <2>2, <2>3 DEF RowMoves
  <2>5. QED BY <2>2, <2>3, <2>4 DEF MadeFrom
<1>4. /\ IsFiniteSet(MadeFrom(t)) /\ Cardinality(MadeFrom(t)) \in Nat
      /\ Cardinality(MadeFrom(t)) <= Cardinality(Procs)
  BY FS_CardinalityType DEF SpaceInv
<1>5. /\ IsFiniteSet(MadeFrom(t)') /\ Cardinality(MadeFrom(t)') \in Nat
      /\ Cardinality(MadeFrom(t)') <= Cardinality(MadeFrom(t))
  BY <1>3, <1>4, FS_Subset, FS_CardinalityType
<1>6. ASSUME MadeFrom(t)' # {}, now' <= t + Cooldown - 1
      PROVE  Cardinality(MadeFrom(t)') + Cardinality(Granted') <= Cardinality(Procs)
  <2>1. MadeFrom(t) # {} /\ now <= t + Cooldown - 1
    BY <1>1, <1>3, <1>6, Tunables DEF TypeOK
  <2>2. Cardinality(Granted') <= Cardinality(Granted) /\ Cardinality(Granted') \in Nat
    BY <2>1, GrantedSubset, FewerConsuming
  <2>3. QED BY <1>4, <1>5, <2>1, <2>2, GrantedSubset, ProcsFinite DEF SpaceInv
<1>7. QED BY <1>4, <1>5, <1>6, ProcsFinite

LEMMA GrantedKept ==
  ASSUME TypeOK, NEW p \in Procs, NEW l, Goto(p, l), l = Idle \/ l.pc # "insert" \/ ~l.ok
  PROVE  Granted' = Granted \ {p}
<1>1. \A q \in Procs : loc'[q] = IF q = p THEN l ELSE loc[q]
  BY GotoMoves
<1>2. QED BY <1>1 DEF Granted, At

LEMMA InsertSpaced ==
  ASSUME TypeOK, SpaceInv, RowsMade, [Next]_vars, NEW p \in Procs, StartInsert(p)
  PROVE  SpaceInv'
<1>1. PICK r \in Rows :
        /\ state[r] = "unborn" /\ state' = [state EXCEPT ![r] = "open"]
        /\ born' = [born EXCEPT ![r] = now]
        /\ lapsed' = IF loc[p].ok THEN lapsed ELSE lapsed \cup {r}
        /\ Goto(p, [pc |-> "mail", row |-> r])
  BY DEF StartInsert
<1>2. now' = now /\ At(p, "insert")
  BY DEF StartInsert
<1>3. Granted' = Granted \ {p}
  BY <1>1, GrantedKept
<1>4. Pending' = Pending \cup {r} /\ r \notin Pending
  BY <1>1 DEF Pending, TypeOK
<1>5. born'[r] = now /\ \A s \in Rows \ {r} : born'[s] = born[s]
  BY <1>1 DEF TypeOK
<1>6. SUFFICES ASSUME NEW t \in 0 .. MaxNow
               PROVE  /\ IsFiniteSet(MadeFrom(t)') /\ Cardinality(MadeFrom(t)') <= Cardinality(Procs)
                      /\ MadeFrom(t)' # {} /\ now' <= t + Cooldown - 1 =>
                           Cardinality(MadeFrom(t)') + Cardinality(Granted') <= Cardinality(Procs)
  BY DEF SpaceInv
<1>7. /\ IsFiniteSet(MadeFrom(t)) /\ Cardinality(MadeFrom(t)) \in Nat
      /\ Cardinality(MadeFrom(t)) <= Cardinality(Procs)
  BY FS_CardinalityType DEF SpaceInv
<1>8. /\ Cardinality(Granted') \in Nat /\ Cardinality(Granted') <= Cardinality(Granted)
      /\ Cardinality(Granted) \in Nat /\ Cardinality(Granted) <= Cardinality(Procs)
  BY <1>3, GrantedSubset, FewerConsuming
<1>9. CASE ~loc[p].ok \/ now \notin t .. t + Cooldown - 1
  <2>1. MadeFrom(t)' = MadeFrom(t)
    <3>1. r \notin MadeFrom(t)' /\ r \notin MadeFrom(t)
      BY <1>1, <1>4, <1>5, <1>9 DEF MadeFrom
    <3>2. \A s \in Rows \ {r} : s \in MadeFrom(t)' <=> s \in MadeFrom(t)
      BY <1>1, <1>4, <1>5 DEF MadeFrom
    <3>3. MadeFrom(t)' \subseteq Rows /\ MadeFrom(t) \subseteq Rows
      BY DEF MadeFrom, Pending
    <3>4. QED BY <3>1, <3>2, <3>3
  <2>2. MadeFrom(t) # {} /\ now <= t + Cooldown - 1 =>
          Cardinality(MadeFrom(t)) + Cardinality(Granted) <= Cardinality(Procs)
    BY DEF SpaceInv
  <2>3. QED BY <1>2, <1>7, <1>8, <2>1, <2>2, ProcsFinite
<1>10. CASE loc[p].ok /\ now \in t .. t + Cooldown - 1
  <2>1. MadeFrom(t)' = MadeFrom(t) \cup {r} /\ r \notin MadeFrom(t)
    <3>1. r \in MadeFrom(t)' /\ r \notin MadeFrom(t)
      <4>1. r \notin lapsed'
        BY <1>1, <1>10 DEF RowsMade
      <4>2. QED BY <1>4, <1>5, <1>10, <4>1 DEF MadeFrom
    <3>2. \A s \in Rows \ {r} : s \in MadeFrom(t)' <=> s \in MadeFrom(t)
      BY <1>1, <1>4, <1>5 DEF MadeFrom
    <3>3. MadeFrom(t)' \subseteq Rows /\ MadeFrom(t) \subseteq Rows
      BY DEF MadeFrom, Pending
    <3>4. QED BY <3>1, <3>2, <3>3
  <2>2. IsFiniteSet(MadeFrom(t)') /\ Cardinality(MadeFrom(t)') = Cardinality(MadeFrom(t)) + 1
    BY <1>7, <2>1, FS_AddElement
  <2>3. p \in Granted /\ Cardinality(Granted') = Cardinality(Granted) - 1
    <3>1. p \in Granted
      BY <1>2, <1>10 DEF Granted
    <3>2. QED BY <1>3, <3>1, GrantedSubset, ProcsFinite, FS_RemoveElement
  <2>4. MadeFrom(t) # {} => Cardinality(MadeFrom(t)) + Cardinality(Granted) <= Cardinality(Procs)
    <3>1. now <= t + Cooldown - 1
      BY <1>10, Tunables
    <3>2. QED BY <3>1 DEF SpaceInv
  <2>5. MadeFrom(t) = {} => Cardinality(MadeFrom(t)) = 0
    BY FS_EmptySet
  <2>6. QED BY <1>7, <1>8, <2>2, <2>3, <2>4, <2>5, ProcsFinite
<1>11. QED BY <1>9, <1>10

LEMMA SpaceStep == TypeOK /\ RowsMade /\ SpaceInv /\ [Next]_vars => SpaceInv'
<1>1. SUFFICES ASSUME TypeOK, RowsMade, SpaceInv, [Next]_vars PROVE SpaceInv'
  OBVIOUS
<1>2. CASE UNCHANGED vars \/ Tick
  <2>1. Pending' = Pending /\ Granted' = Granted
    BY <1>2 DEF vars, Tick, rowVars, Pending, Granted, At
  <2>2. QED BY <1>1, <2>1, NothingMade
<1>3. ASSUME NEW p \in Procs, StartMail(p) \/ CountWrong(p) \/ Consume(p) PROVE SpaceInv'
  <2>1. Goto(p, Idle)
    BY <1>3 DEF StartMail, CountWrong, Consume, Return
  <2>2. Granted' = Granted \ {p}
    BY <1>1, <2>1, GrantedKept
  <2>3. Pending' \subseteq Pending
    <3>1. CASE StartMail(p)
      BY <1>1, <3>1 DEF StartMail, Pending, TypeOK
    <3>2. CASE CountWrong(p)
      BY <1>1, <3>2 DEF CountWrong, Pending, TypeOK
    <3>3. CASE Consume(p)
      BY <1>1, <3>3 DEF Consume, Pending, TypeOK
    <3>4. QED BY <1>3, <3>1, <3>2, <3>3
  <2>4. QED BY <1>1, <2>2, <2>3, NothingMade
<1>4. ASSUME NEW p \in Procs, \/ StartCheck(p)
                              \/ \E code \in mailed \cup {Wrong} : EnterCode(p, code)
                              \/ \E r \in mailed : OpenLink(p, r)
      PROVE  SpaceInv'
  <2>1. Pending' = Pending
    BY <1>1, <1>4, ReadsTyped DEF rowVars, Pending
  <2>2. PICK l \in Tasks : Goto(p, l) /\ (l.pc = "insert" => (l.ok => ~Cooling))
    BY <1>1, <1>4, ReadsTyped
  <2>3. CASE l.pc # "insert" \/ ~l.ok
    <3>1. Granted' = Granted \ {p}
      BY <1>1, <2>2, <2>3, GrantedKept
    <3>2. QED BY <1>1, <2>1, <3>1, NothingMade
  <2>4. CASE l.pc = "insert" /\ l.ok
    <3>1. \A t \in 0 .. MaxNow : ~(MadeFrom(t) # {} /\ now <= t + Cooldown - 1)
      <4>1. SUFFICES ASSUME NEW t \in 0 .. MaxNow, MadeFrom(t) # {}, now <= t + Cooldown - 1 PROVE FALSE
        OBVIOUS
      <4>2. now > t + Cooldown - 1
        BY <1>1, <2>2, <2>4, <4>1, CooledDown
      <4>3. QED BY <1>1, <4>1, <4>2, Tunables DEF TypeOK
    <3>2. QED BY <1>1, <2>1, <3>1, NothingMade
  <2>5. QED BY <2>3, <2>4
<1>5. QED BY <1>1, <1>2, <1>3, <1>4, InsertSpaced DEF Next

-----------------------------------------------------------------------------
LEMMA VerifyInit == Init => VerifyInv
<1>1. SUFFICES ASSUME Init PROVE VerifyInv
  OBVIOUS
<1>2. TypeOK
  <2>1. now \in 0 .. MaxNow /\ born \in [Rows -> 0 .. MaxNow]
    BY <1>1, Tunables DEF Init
  <2>2. /\ state \in [Rows -> States] /\ attempts \in [Rows -> Nat] /\ verified \in BOOLEAN
        /\ mailed \subseteq Rows /\ lapsed \subseteq Rows
        /\ tried \in [Rows -> Nat] /\ uses \in [Rows -> Nat]
        /\ loc \in [Procs -> Tasks \cup {Idle}]
    BY <1>1 DEF Init, States
  <2>3. \A r \in Rows : attempts[r] = 0
    BY <1>1 DEF Init
  <2>4. QED BY <2>1, <2>2, <2>3 DEF TypeOK
<1>3. Pending = {} /\ \A t : MadeFrom(t) = {}
  BY <1>1 DEF Init, Pending, MadeFrom
<1>4. \A r : Consuming(r) = {}
  BY <1>1 DEF Init, Consuming, At
<1>5. UseInv
  BY <1>1, <1>4, FS_EmptySet, ProcsFinite DEF Init, UseInv
<1>6. SpaceInv
  BY <1>3, FS_EmptySet, ProcsFinite DEF SpaceInv
<1>7. QED BY <1>1, <1>2, <1>5, <1>6 DEF Init, VerifyInv, RowsMade, ConsumedVerifies

LEMMA VerifyStep == VerifyInv /\ [Next]_vars => VerifyInv'
BY TypedStep, RowsMadeStep, ConsumedStep, UseStep, SpaceStep DEF VerifyInv

LEMMA VerifyInvariant == Spec => []VerifyInv
BY VerifyInit, VerifyStep, PTL DEF Spec

(* Rows of challenges and requests stay well formed, and a row that is     *)
(* deleted after a failed mail counts nothing.                             *)
THEOREM VerificationTypeCorrect == Spec => []TypeOK
<1>1. VerifyInv => TypeOK
  BY DEF VerifyInv
<1>2. QED BY <1>1, VerifyInvariant, PTL

(* A challenge that is used up has verified its user, whatever fails       *)
(* (ConfirmEmailVerification's transaction).                               *)
THEOREM UsedMeansVerified == Spec => []ConsumedVerifies
<1>1. VerifyInv => ConsumedVerifies
  BY DEF VerifyInv
<1>2. QED BY <1>1, VerifyInvariant, PTL

(* The "single-use" code or link confirms at most as many requests as are  *)
(* in flight at a time, although it is consumed by id alone.               *)
THEOREM ConfirmsBounded == Spec => []UsesBounded
<1>1. VerifyInv => UsesBounded
  <2>1. SUFFICES ASSUME VerifyInv, NEW r \in Rows PROVE uses[r] <= Cardinality(Procs)
    BY DEF UsesBounded
  <2>2. Cardinality(Consuming(r)) \in Nat /\ uses[r] \in Nat
    BY <2>1, ProcsFinite DEF Consuming, VerifyInv, TypeOK
  <2>3. QED BY <2>1, <2>2, ProcsFinite DEF VerifyInv, UseInv
<1>2. QED BY <1>1, VerifyInvariant, PTL

(* Of the challenges of one address that are still open, no more than one  *)
(* per overlapping request were made within one cooldown, failed checks    *)
(* aside (StartEmailVerification).                                         *)
THEOREM MailsAreSpaced == Spec => []MailsSpaced
<1>1. VerifyInv => MailsSpaced
  BY DEF VerifyInv, SpaceInv, MailsSpaced, MadeFrom
<1>2. QED BY <1>1, VerifyInvariant, PTL

-----------------------------------------------------------------------------
(* One request at a time: verifyMaxAttempts counts what it says. *)

TryInv ==
  /\ \A r \in Rows : /\ tried[r] <= MaxAttempts
                     /\ state[r] = "unborn" => tried[r] = 0
                     /\ Exists(r) => tried[r] <= attempts[r]
  /\ \A p \in Procs : loc[p] # Idle /\ loc[p].pc \in {"wrong", "consume"} =>
       /\ tried[loc[p].row] <= loc[p].seen
       /\ loc[p].pc = "wrong" => loc[p].seen < MaxAttempts

OneAtATime == \A p, q \in Procs : p = q

LEMMA TryStep == OneAtATime /\ TypeOK /\ RowsMade /\ TryInv /\ [Next]_vars => TryInv'
<1>1. SUFFICES ASSUME OneAtATime, TypeOK, RowsMade, TryInv, [Next]_vars PROVE TryInv'
  OBVIOUS
<1>2. CASE UNCHANGED vars \/ Tick
  BY <1>1, <1>2 DEF vars, Tick, rowVars, bookVars, TryInv, Exists
<1>3. ASSUME NEW p \in Procs, Goto(p, Idle) PROVE \A q \in Procs : loc'[q] = Idle
  BY <1>1, <1>3, GotoMoves DEF OneAtATime
<1>4. ASSUME NEW p \in Procs, StartInsert(p) PROVE TryInv'
  <2>1. PICK r \in Rows :
          /\ state[r] = "unborn" /\ state' = [state EXCEPT ![r] = "open"]
          /\ Goto(p, [pc |-> "mail", row |-> r]) /\ UNCHANGED <<attempts, tried>>
    BY <1>4 DEF StartInsert
  <2>2. \A q \in Procs : loc'[q] = [pc |-> "mail", row |-> r]
    BY <1>1, <2>1, GotoMoves DEF OneAtATime
  <2>3. \A s \in Rows : /\ tried'[s] <= MaxAttempts
                        /\ state'[s] = "unborn" => tried'[s] = 0
                        /\ Exists(s)' => tried'[s] <= attempts'[s]
    BY <1>1, <2>1 DEF TryInv, Exists, TypeOK
  <2>4. QED BY <2>2, <2>3 DEF TryInv
<1>5. ASSUME NEW p \in Procs, StartMail(p) PROVE TryInv'
  <2>1. \A q \in Procs : loc'[q] = Idle
    BY <1>3, <1>5 DEF StartMail, Return
  <2>2. /\ tried' = tried
        /\ \A s \in Rows : /\ state'[s] = "unborn" => state[s] = "unborn"
                           /\ Exists(s)' => Exists(s) /\ attempts'[s] = attempts[s]
    BY <1>1, <1>5 DEF StartMail, TypeOK, Exists
  <2>3. QED BY <1>1, <2>1, <2>2 DEF TryInv
<1>6. ASSUME NEW p \in Procs, CountWrong(p) PROVE TryInv'
  <2>1. PICK r \in Rows, n \in Nat : loc[p].row = r /\ loc[p].seen = n
    BY <1>1, <1>6, TaskParts DEF CountWrong, At
  <2>2. (\A q \in Procs : loc'[q] = Idle) /\ state' = state
    BY <1>3, <1>6 DEF CountWrong, Return
  <2>3. tried[r] <= n /\ n < MaxAttempts
    BY <1>1, <1>6, <2>1 DEF TryInv, CountWrong, At
  <2>4. \/ UNCHANGED <<attempts, tried>>
        \/ Exists(r) /\ attempts' = [attempts EXCEPT ![r] = n + 1] /\ tried' = [tried EXCEPT ![r] = @ + 1]
    BY <1>6, <2>1 DEF CountWrong
  <2>5. \A s \in Rows : /\ tried'[s] <= MaxAttempts
                        /\ state'[s] = "unborn" => tried'[s] = 0
                        /\ Exists(s)' => tried'[s] <= attempts'[s]
    BY <1>1, <2>1, <2>2, <2>3, <2>4, Tunables DEF TryInv, Exists, TypeOK
  <2>6. QED BY <2>2, <2>5 DEF TryInv
<1>7. ASSUME NEW p \in Procs, Consume(p) PROVE TryInv'
  <2>1. PICK r \in Rows, n \in Nat : loc[p].row = r /\ loc[p].seen = n
    BY <1>1, <1>7, TaskParts DEF Consume, At
  <2>2. (\A q \in Procs : loc'[q] = Idle) /\ tried' = tried
    BY <1>3, <1>7 DEF Consume, Return
  <2>3. tried[r] <= n
    BY <1>1, <1>7, <2>1 DEF TryInv, Consume, At
  <2>4. \/ UNCHANGED <<attempts, state>>
        \/ Exists(r) /\ attempts' = [attempts EXCEPT ![r] = n + 1] /\ state' = [state EXCEPT ![r] = "consumed"]
    BY <1>7, <2>1 DEF Consume
  <2>5. \A s \in Rows : /\ tried'[s] <= MaxAttempts
                        /\ state'[s] = "unborn" => tried'[s] = 0
                        /\ Exists(s)' => tried'[s] <= attempts'[s]
    BY <1>1, <2>1, <2>2, <2>3, <2>4, Tunables DEF TryInv, Exists, TypeOK
  <2>6. QED BY <2>2, <2>5 DEF TryInv
<1>8. ASSUME NEW p \in Procs, \/ StartCheck(p)
                              \/ \E code \in mailed \cup {Wrong} : EnterCode(p, code)
                              \/ \E r \in mailed : OpenLink(p, r)
      PROVE  TryInv'
  <2>1. UNCHANGED <<rowVars, bookVars>>
    BY <1>1, <1>8, ReadsTyped
  <2>2. PICK l \in Tasks :
          /\ Goto(p, l)
          /\ l.pc # "insert" => /\ l.pc \in {"wrong", "consume"} /\ l.row \in Pending
                                /\ l.seen = attempts[l.row] /\ (l.pc = "wrong" => AttemptsLeft(l.row))
    BY <1>1, <1>8, ReadsTyped
  <2>3. \A q \in Procs : loc'[q] = l
    BY <1>1, <2>2, GotoMoves DEF OneAtATime
  <2>4. l.pc # "insert" => /\ tried'[l.row] <= l.seen /\ (l.pc = "wrong" => l.seen < MaxAttempts)
    BY <1>1, <2>1, <2>2 DEF Pending, TryInv, Exists, AttemptsLeft, bookVars
  <2>5. \A s \in Rows : /\ tried'[s] <= MaxAttempts
                        /\ state'[s] = "unborn" => tried'[s] = 0
                        /\ Exists(s)' => tried'[s] <= attempts'[s]
    BY <1>1, <2>1 DEF TryInv, Exists, rowVars, bookVars
  <2>6. QED BY <2>3, <2>4, <2>5 DEF TryInv
<1>9. QED BY <1>1, <1>2, <1>4, <1>5, <1>6, <1>7, <1>8 DEF Next

(* While requests do not overlap, no challenge takes more wrong codes than *)
(* verifyMaxAttempts; what they get out of it when they do is              *)
(* ChallengesStayBounded below.                                            *)
THEOREM TriesOneByOne == OneAtATime /\ Spec => [](\A r \in Rows : tried[r] <= MaxAttempts)
<1>1. Init => TryInv
  BY Tunables DEF Init, TryInv, Exists
<1>2. TryInv => \A r \in Rows : tried[r] <= MaxAttempts
  BY DEF TryInv
<1>3. VerifyInv => TypeOK /\ RowsMade
  BY DEF VerifyInv
<1>4. ASSUME OneAtATime PROVE Spec => [](\A r \in Rows : tried[r] <= MaxAttempts)
  <2>1. TypeOK /\ RowsMade /\ TryInv /\ [Next]_vars => TryInv'
    BY <1>4, TryStep
  <2>2. QED BY <1>1, <1>2, <1>3, <2>1, VerifyInvariant, PTL DEF Spec
<1>5. QED BY <1>4

-----------------------------------------------------------------------------
(* Factorials. *)

(* The factorials up to k.                                                  *)
Table(f, k) ==
  f \in [0..k -> Nat] /\ f[0] = 1 /\ \A i \in 1..k : f[i] = i * f[i - 1]

LEMMA TableExists == \A k \in Nat : \E f : Table(f, k)
<1> DEFINE T == {k \in Nat : ~\E f : Table(f, k)}
<1>1. SUFFICES ASSUME T # {} PROVE FALSE
  OBVIOUS
<1>2. PICK k \in T : \A n \in T : k <= n
  <2>1. T \subseteq Nat
    OBVIOUS
  <2> HIDE DEF T
  <2>2. QED BY <1>1, <2>1, LeastNumber
<1>3. k \in Nat /\ ~\E f : Table(f, k)
  OBVIOUS
<1>4. CASE k = 0
  <2>1. Table([i \in 0..0 |-> 1], 0)
    BY DEF Table
  <2>2. QED BY <1>3, <1>4, <2>1
<1>5. CASE k # 0
  <2>1. k - 1 \in Nat /\ k - 1 \notin T
    BY <1>2, <1>3, <1>5
  <2>2. PICK f : Table(f, k - 1)
    BY <2>1
  <2> DEFINE g == [i \in 0..k |-> IF i = k THEN k * f[k - 1] ELSE f[i]]
  <2>3. f[k - 1] \in Nat /\ f \in [0..(k - 1) -> Nat] /\ f[0] = 1
    BY <2>1, <2>2 DEF Table
  <2>4. k * f[k - 1] \in Nat
    BY <1>3, <2>3
  <2>5. g \in [0..k -> Nat] /\ g[0] = 1 /\ g[k] = k * f[k - 1]
    BY <1>3, <1>5, <2>3, <2>4
  <2>6. \A i \in 0..(k - 1) : g[i] = f[i]
    BY <1>3
  <2> HIDE DEF g
  <2>7. \A i \in 1..k : g[i] = i * g[i - 1]
    <3>1. ASSUME NEW i \in 1..k, i # k PROVE g[i] = i * g[i - 1]
      <4>1. i \in 1..(k - 1) /\ i \in 0..(k - 1) /\ i - 1 \in 0..(k - 1)
        BY <1>3, <3>1
      <4>2. f[i] = i * f[i - 1]
        BY <2>2, <4>1 DEF Table
      <4>3. QED BY <2>6, <4>1, <4>2
    <3>2. g[k] = k * g[k - 1]
      BY <1>3, <1>5, <2>5, <2>6
    <3>3. QED BY <3>1, <3>2
  <2>8. Table(g, k)
    BY <2>5, <2>7 DEF Table
  <2>9. QED BY <1>3, <2>8
<1>6. QED BY <1>4, <1>5

LEMMA TableUnique ==
  ASSUME NEW k \in Nat, NEW n \in Nat, NEW f, NEW g, Table(f, k), Table(g, n), k <= n, NEW i \in 0..k
  PROVE  f[i] = g[i]
<1> DEFINE T == {j \in 0..k : f[j] # g[j]}
<1>1. SUFFICES ASSUME T # {} PROVE FALSE
  OBVIOUS
<1>2. PICK j \in T : \A m \in T : j <= m
  <2>1. T \subseteq Nat
    OBVIOUS
  <2> HIDE DEF T
  <2>2. QED BY <1>1, <2>1, LeastNumber
<1>3. j \in 0..k /\ f[j] # g[j]
  OBVIOUS
<1>4. j # 0
  BY <1>3 DEF Table
<1>5. j - 1 \in 0..k /\ j - 1 \notin T
  BY <1>2, <1>3, <1>4
<1>6. f[j - 1] = g[j - 1]
  BY <1>5
<1>7. j \in 1..k /\ j \in 1..n
  BY <1>3, <1>4
<1>8. f[j] = j * f[j - 1] /\ g[j] = j * g[j - 1]
  BY <1>7 DEF Table
<1>9. QED BY <1>3, <1>6, <1>8

LEMMA Factorials ==
  /\ factorial[0] = 1
  /\ \A n \in Nat : factorial[n] \in Nat /\ factorial[n + 1] = (n + 1) * factorial[n]
<1> DEFINE Upto(n) == CHOOSE f : Table(f, n)
           F == [n \in Nat |-> Upto(n)[n]]
<1>1. \A n \in Nat : Table(Upto(n), n)
  BY TableExists
<1> HIDE DEF Upto
<1>2. \A n \in Nat : F[n] \in Nat
  <2>1. ASSUME NEW n \in Nat PROVE F[n] \in Nat
    <3>1. Table(Upto(n), n) /\ n \in 0..n
      BY <1>1
    <3>2. Upto(n)[n] \in Nat
      BY <3>1 DEF Table
    <3>3. QED BY <3>2
  <2>2. QED BY <2>1
<1>3. F[0] = 1
  <2>1. Table(Upto(0), 0)
    BY <1>1
  <2>2. QED BY <2>1 DEF Table
<1>4. ASSUME NEW n \in Nat, n # 0 PROVE F[n] = n * F[n - 1]
  <2>1. n - 1 \in Nat /\ n - 1 <= n /\ n - 1 \in 0..(n - 1) /\ n \in 1..n
    BY <1>4
  <2>2. Table(Upto(n), n) /\ Table(Upto(n - 1), n - 1)
    BY <1>1, <2>1
  <2>3. Upto(n - 1)[n - 1] = Upto(n)[n - 1]
    BY <2>1, <2>2, TableUnique
  <2>4. Upto(n)[n] = n * Upto(n)[n - 1]
    BY <2>1, <2>2 DEF Table
  <2>5. QED BY <2>1, <2>3, <2>4
<1>5. F = [n \in Nat |-> IF n = 0 THEN 1 ELSE n * F[n - 1]]
  <2>1. \A n \in Nat : F[n] = IF n = 0 THEN 1 ELSE n * F[n - 1]
    BY <1>3, <1>4
  <2>2. DOMAIN F = Nat /\ F = [n \in Nat |-> F[n]]
    OBVIOUS
  <2> HIDE DEF F
  <2>3. QED BY <2>1, <2>2
<1> HIDE DEF F
<1>6. factorial = [n \in Nat |-> IF n = 0 THEN 1 ELSE n * factorial[n - 1]]
  <2> DEFINE Body(f) == [n \in Nat |-> IF n = 0 THEN 1 ELSE n * f[n - 1]]
  <2>1. factorial = CHOOSE f : f = Body(f)
    BY DEF factorial
  <2>2. F = Body(F)
    BY <1>5
  <2> HIDE DEF Body
  <2>3. factorial = Body(factorial)
    BY <2>1, <2>2
  <2>4. QED BY <2>3 DEF Body
<1>7. factorial[0] = 1
  BY <1>6
<1>8. ASSUME NEW n \in Nat PROVE factorial[n + 1] = (n + 1) * factorial[n]
  <2>1. n + 1 \in Nat /\ n + 1 # 0 /\ (n + 1) - 1 = n
    OBVIOUS
  <2>2. factorial[n + 1] = (n + 1) * factorial[(n + 1) - 1]
    BY <1>6, <2>1
  <2>3. QED BY <2>1, <2>2
<1>9. \A n \in Nat : factorial[n] \in Nat
  <2> DEFINE T == {n \in Nat : factorial[n] \notin Nat}
  <2>1. SUFFICES ASSUME T # {} PROVE FALSE
    OBVIOUS
  <2>2. PICK n \in T : \A m \in T : n <= m
    <3>1. T \subseteq Nat
      OBVIOUS
    <3> HIDE DEF T
    <3>2. QED BY <2>1, <3>1, LeastNumber
  <2>3. n \in Nat /\ factorial[n] \notin Nat
    OBVIOUS
  <2>4. n - 1 \in Nat /\ n - 1 \notin T
    BY <1>7, <2>2, <2>3
  <2>5. factorial[n - 1] \in Nat /\ factorial[(n - 1) + 1] = ((n - 1) + 1) * factorial[n - 1]
    BY <1>8, <2>4
  <2>6. (n - 1) + 1 = n
    BY <2>3
  <2>7. QED BY <2>3, <2>5, <2>6
<1>10. QED BY <1>7, <1>8, <1>9

(* The number of ways to set d steps among t others.                        *)
Ways(t, d) == choose(t + d, d)

LEMMA FactorialPositive == \A n \in Nat : factorial[n] \in Nat /\ factorial[n] >= 1
<1> DEFINE T == {n \in Nat : ~(factorial[n] >= 1)}
<1>1. SUFFICES ASSUME T # {} PROVE FALSE
  BY Factorials
<1>2. PICK n \in T : \A m \in T : n <= m
  <2>1. T \subseteq Nat
    OBVIOUS
  <2> HIDE DEF T
  <2>2. QED BY <1>1, <2>1, LeastNumber
<1>3. n \in Nat /\ ~(factorial[n] >= 1) /\ n # 0
  BY Factorials
<1>4. n - 1 \in Nat /\ n - 1 \notin T
  BY <1>2, <1>3
<1>5. factorial[n - 1] \in Nat /\ factorial[n - 1] >= 1 /\ (n - 1) + 1 = n
  <2>1. factorial[n - 1] >= 1
    BY <1>4
  <2>2. factorial[n - 1] \in Nat
    BY <1>4, Factorials
  <2>3. (n - 1) + 1 = n
    BY <1>3
  <2>4. QED BY <2>1, <2>2, <2>3
<1>6. factorial[n] = n * factorial[n - 1]
  BY <1>4, <1>5, Factorials
<1> DEFINE x == factorial[n - 1]
<1>7. x \in Nat /\ x >= 1 /\ factorial[n] = n * x
  BY <1>5, <1>6
<1> HIDE DEF x, T
<1>8. n * x >= 1
  BY <1>3, <1>7
<1>9. QED BY <1>3, <1>7, <1>8

LEMMA Rearrange ==
  ASSUME NEW a \in Nat, NEW b \in Nat, NEW x \in Nat, NEW y \in Nat
  PROVE  a * (b * (x * y)) = b * (x * (a * y)) /\ a * (b * (x * y)) = b * ((a * x) * y)
OBVIOUS

LEMMA ExactQuotient ==
  ASSUME NEW m \in Nat, NEW n \in Nat, n >= 1, NEW q \in Nat, m = q * n
  PROVE  m \div n = q
OBVIOUS

(* The two ways to reach one more, of which the last step decides.          *)
LEMMA PascalProduct ==
  ASSUME NEW t \in Nat, NEW d \in Nat, NEW b \in Nat, NEW c \in Nat,
         factorial[t + (d + 1)] = b * (factorial[d + 1] * factorial[t]),
         factorial[(t + 1) + d] = c * (factorial[d] * factorial[t + 1])
  PROVE  factorial[(t + 1) + (d + 1)] = (b + c) * (factorial[d + 1] * factorial[t + 1])
<1>1. /\ t + 1 \in Nat /\ d + 1 \in Nat /\ t + (d + 1) \in Nat
      /\ (t + 1) + d = t + (d + 1) /\ (t + 1) + (d + 1) = (t + (d + 1)) + 1
      /\ (t + (d + 1)) + 1 = (t + 1) + (d + 1)
  OBVIOUS
<1> DEFINE F == factorial[t + (d + 1)]
           x == factorial[d]
           y == factorial[t]
           X == factorial[d + 1]
           Y == factorial[t + 1]
<1>2. F \in Nat /\ x \in Nat /\ y \in Nat /\ X \in Nat /\ Y \in Nat
  BY <1>1, Factorials
<1>3. X = (d + 1) * x /\ Y = (t + 1) * y
  BY Factorials
<1>4. factorial[(t + 1) + (d + 1)] = ((t + (d + 1)) + 1) * F
  BY <1>1, Factorials
<1>5. F = b * (X * y) /\ F = c * (x * Y)
  BY <1>1
<1> HIDE DEF F, x, y, X, Y
<1>6. (t + 1) * F = b * (X * Y)
  BY <1>1, <1>2, <1>3, <1>5, Rearrange
<1>7. (d + 1) * F = c * (X * Y)
  BY <1>1, <1>2, <1>3, <1>5, Rearrange
<1> DEFINE Z == X * Y
<1>8. Z \in Nat
  BY <1>2
<1>9. (t + 1) * F = b * Z /\ (d + 1) * F = c * Z
  BY <1>6, <1>7
<1> HIDE DEF Z
<1>10. ((t + (d + 1)) + 1) * F = (b + c) * Z
  <2>1. ((t + (d + 1)) + 1) * F = (t + 1) * F + (d + 1) * F
    BY <1>2
  <2>2. (b + c) * Z = b * Z + c * Z
    BY <1>8
  <2>3. QED BY <1>9, <2>1, <2>2
<1>11. QED BY <1>4, <1>10 DEF F, X, Y, Z

LEMMA WaysDivide ==
  \A t, d \in Nat : \E b \in Nat : factorial[t + d] = b * (factorial[d] * factorial[t])
<1> DEFINE Divides(t, d) == \E b \in Nat : factorial[t + d] = b * (factorial[d] * factorial[t])
           T == {n \in Nat : \E t, d \in Nat : t + d = n /\ ~Divides(t, d)}
<1>1. SUFFICES ASSUME T # {} PROVE FALSE
  <2>1. ASSUME T = {}, NEW t \in Nat, NEW d \in Nat PROVE Divides(t, d)
    <3>1. t + d \in Nat
      OBVIOUS
    <3>2. t + d \notin T
      BY <2>1
    <3> HIDE DEF Divides
    <3>3. QED BY <3>1, <3>2
  <2>2. QED BY <2>1
<1>2. PICK n \in T : \A m \in T : n <= m
  <2>1. T \subseteq Nat
    OBVIOUS
  <2> HIDE DEF T
  <2>2. QED BY <1>1, <2>1, LeastNumber
<1>3. PICK t \in Nat, d \in Nat : t + d = n /\ ~Divides(t, d)
  OBVIOUS
<1>4. ASSUME NEW m \in Nat PROVE factorial[m] = 1 * (1 * factorial[m]) /\ factorial[m] = 1 * (factorial[m] * 1)
  <2>1. factorial[m] \in Nat
    BY Factorials
  <2>2. QED BY <2>1
<1>5. CASE d = 0
  <2>1. t + d = t /\ factorial[d] = 1
    BY <1>5, Factorials
  <2>2. QED BY <1>3, <1>4, <2>1
<1>6. CASE t = 0
  <2>1. t + d = d /\ factorial[t] = 1
    BY <1>6, Factorials
  <2>2. QED BY <1>3, <1>4, <2>1
<1>7. CASE t # 0 /\ d # 0
  <2>1. PICK i \in Nat, j \in Nat : t = i + 1 /\ d = j + 1
    <3>1. t - 1 \in Nat /\ d - 1 \in Nat /\ t = (t - 1) + 1 /\ d = (d - 1) + 1
      BY <1>7
    <3>2. QED BY <3>1
  <2>2. /\ i + (j + 1) \in Nat /\ i + (j + 1) < n /\ (i + 1) + j = i + (j + 1)
        /\ i + 1 \in Nat /\ j + 1 \in Nat
    BY <1>3, <2>1
  <2>3. i + (j + 1) \notin T
    BY <1>2, <2>2
  <2>4. Divides(i, j + 1) /\ Divides(i + 1, j)
    BY <2>2, <2>3
  <2>5. PICK b \in Nat, c \in Nat :
          /\ factorial[i + (j + 1)] = b * (factorial[j + 1] * factorial[i])
          /\ factorial[(i + 1) + j] = c * (factorial[j] * factorial[i + 1])
    BY <2>4
  <2>6. factorial[(i + 1) + (j + 1)] = (b + c) * (factorial[j + 1] * factorial[i + 1]) /\ b + c \in Nat
    BY <2>5, PascalProduct
  <2>7. QED BY <1>3, <2>1, <2>6
<1>8. QED BY <1>5, <1>6, <1>7

LEMMA WaysIs ==
  ASSUME NEW t \in Nat, NEW d \in Nat, NEW b \in Nat, factorial[t + d] = b * (factorial[d] * factorial[t])
  PROVE  Ways(t, d) = b
<1>1. t + d \in Nat /\ (t + d) - d = t
  OBVIOUS
<1>2. /\ factorial[d] \in Nat /\ factorial[t] \in Nat /\ factorial[d] >= 1 /\ factorial[t] >= 1
      /\ factorial[t + d] \in Nat
  BY <1>1, FactorialPositive
<1> DEFINE Z == factorial[d] * factorial[t]
<1>3. Z \in Nat /\ Z >= 1
  <2> DEFINE x == factorial[d]
             y == factorial[t]
  <2>1. x \in Nat /\ y \in Nat /\ x >= 1 /\ y >= 1
    BY <1>2
  <2> HIDE DEF x, y
  <2>2. x * y \in Nat /\ x * y >= 1
    BY <2>1
  <2>3. QED BY <2>2 DEF x, y
<1>4. Ways(t, d) = factorial[t + d] \div Z
  BY <1>1 DEF Ways, choose
<1>5. factorial[t + d] = b * Z
  OBVIOUS
<1> HIDE DEF Z
<1>6. QED BY <1>2, <1>3, <1>4, <1>5, ExactQuotient

LEMMA WaysTable ==
  /\ \A t, d \in Nat : Ways(t, d) \in Nat
  /\ \A t \in Nat : Ways(t, 0) = 1 /\ Ways(0, t) = 1
  /\ \A t, d \in Nat : Ways(t + 1, d + 1) = Ways(t, d + 1) + Ways(t + 1, d)
<1>1. ASSUME NEW t \in Nat, NEW d \in Nat
      PROVE  Ways(t, d) \in Nat /\ factorial[t + d] = Ways(t, d) * (factorial[d] * factorial[t])
  BY WaysDivide, WaysIs
<1>2. ASSUME NEW t \in Nat PROVE Ways(t, 0) = 1 /\ Ways(0, t) = 1
  <2>1. factorial[t] \in Nat /\ factorial[0] = 1 /\ t + 0 = t /\ 0 + t = t
    BY Factorials
  <2>2. factorial[t] = 1 * (1 * factorial[t]) /\ factorial[t] = 1 * (factorial[t] * 1)
    BY <2>1
  <2>3. QED BY <2>1, <2>2, WaysIs
<1>3. ASSUME NEW t \in Nat, NEW d \in Nat
      PROVE  Ways(t + 1, d + 1) = Ways(t, d + 1) + Ways(t + 1, d)
  <2>1. t + 1 \in Nat /\ d + 1 \in Nat
    OBVIOUS
  <2>2. /\ Ways(t, d + 1) \in Nat /\ Ways(t + 1, d) \in Nat
        /\ factorial[t + (d + 1)] = Ways(t, d + 1) * (factorial[d + 1] * factorial[t])
        /\ factorial[(t + 1) + d] = Ways(t + 1, d) * (factorial[d] * factorial[t + 1])
    BY <1>1, <2>1
  <2>3. factorial[(t + 1) + (d + 1)] = (Ways(t, d + 1) + Ways(t + 1, d)) * (factorial[d + 1] * factorial[t + 1])
    BY <2>2, PascalProduct
  <2>4. Ways(t, d + 1) + Ways(t + 1, d) \in Nat
    BY <2>2
  <2>5. QED BY <2>1, <2>3, <2>4, WaysIs
<1>4. QED BY <1>1, <1>2, <1>3


LEMMA WaysPositive == \A t, d \in Nat : Ways(t, d) \in Nat /\ Ways(t, d) >= 1
<1>1. SUFFICES ASSUME NEW d \in Nat PROVE \A t \in Nat : Ways(t, d) >= 1
  BY WaysTable
<1>2. CASE d = 0
  BY <1>2, WaysTable
<1>3. CASE d # 0
  <2> DEFINE T == {t \in Nat : ~(Ways(t, d) >= 1)}
  <2>1. SUFFICES ASSUME T # {} PROVE FALSE
    OBVIOUS
  <2>2. PICK t \in T : \A m \in T : t <= m
    <3>1. T \subseteq Nat
      OBVIOUS
    <3> HIDE DEF T
    <3>2. QED BY <2>1, <3>1, LeastNumber
  <2>3. t \in Nat /\ ~(Ways(t, d) >= 1) /\ Ways(0, d) = 1
    BY WaysTable
  <2>4. t # 0
    BY <2>3
  <2>5. PICK i \in Nat, j \in Nat : t = i + 1 /\ d = j + 1
    <3>1. t - 1 \in Nat /\ d - 1 \in Nat /\ t = (t - 1) + 1 /\ d = (d - 1) + 1
      BY <1>3, <2>3, <2>4
    <3>2. QED BY <3>1
  <2>6. i \notin T
    BY <2>2, <2>5
  <2>7. Ways(i, d) >= 1
    BY <2>6
  <2>8. Ways(i + 1, j + 1) = Ways(i, j + 1) + Ways(i + 1, j) /\ Ways(i + 1, j) \in Nat /\ Ways(i, j + 1) \in Nat
    <3>1. i + 1 \in Nat /\ j + 1 \in Nat
      OBVIOUS
    <3>2. QED BY <3>1, WaysTable
  <2>9. QED BY <2>3, <2>5, <2>7, <2>8
<1>4. QED BY <1>2, <1>3

(* What one more try at a count can bring, with d requests to come back.    *)
Gain(t, d) == Ways(t + 1, d) - Ways(t, d)

LEMMA GainFacts ==
  ASSUME NEW t \in Nat
  PROVE  /\ Gain(t, 0) = 0
         /\ \A d \in Nat : Gain(t, d) \in Nat /\ Gain(t, d + 1) = Gain(t, d) + Ways(t, d)
<1>1. t + 1 \in Nat
  OBVIOUS
<1>2. Gain(t, 0) = 0
  BY <1>1, WaysTable DEF Gain
<1>3. ASSUME NEW d \in Nat PROVE Gain(t, d + 1) = Ways(t + 1, d) /\ Gain(t, d + 1) \in Nat
  <2>1. d + 1 \in Nat
    OBVIOUS
  <2>2. /\ Ways(t + 1, d + 1) = Ways(t, d + 1) + Ways(t + 1, d)
        /\ Ways(t, d + 1) \in Nat /\ Ways(t + 1, d) \in Nat
    BY <1>1, <2>1, WaysTable
  <2>3. QED BY <2>2 DEF Gain
<1>4. ASSUME NEW d \in Nat PROVE Gain(t, d) \in Nat
  <2>1. CASE d = 0
    BY <1>2, <2>1
  <2>2. CASE d # 0
    <3>1. d - 1 \in Nat /\ (d - 1) + 1 = d
      BY <2>2
    <3>2. QED BY <1>3, <3>1
  <2>3. QED BY <2>1, <2>2
<1>5. ASSUME NEW d \in Nat PROVE Gain(t, d + 1) = Gain(t, d) + Ways(t, d)
  <2>1. Ways(t + 1, d) \in Nat /\ Ways(t, d) \in Nat
    BY <1>1, WaysTable
  <2>2. QED BY <1>3, <2>1 DEF Gain
<1>6. QED BY <1>2, <1>4, <1>5

LEMMA GainMonotone ==
  ASSUME NEW t \in Nat, NEW d \in Nat, NEW e \in Nat, d <= e
  PROVE  Gain(t, d) <= Gain(t, e)
<1> DEFINE T == {n \in Nat : d <= n /\ ~(Gain(t, d) <= Gain(t, n))}
<1>1. SUFFICES ASSUME T # {} PROVE FALSE
  OBVIOUS
<1>2. PICK n \in T : \A m \in T : n <= m
  <2>1. T \subseteq Nat
    OBVIOUS
  <2> HIDE DEF T
  <2>2. QED BY <1>1, <2>1, LeastNumber
<1>3. n \in Nat /\ d <= n /\ ~(Gain(t, d) <= Gain(t, n))
  OBVIOUS
<1>4. Gain(t, d) \in Nat
  BY GainFacts
<1>5. n # d
  BY <1>3, <1>4
<1>6. n - 1 \in Nat /\ d <= n - 1 /\ (n - 1) + 1 = n /\ ~(n <= n - 1)
  BY <1>3, <1>5
<1>7. n - 1 \notin T
  BY <1>2, <1>6
<1>8. Gain(t, d) <= Gain(t, n - 1)
  BY <1>6, <1>7
<1>9. Gain(t, (n - 1) + 1) = Gain(t, n - 1) + Ways(t, n - 1) /\ Gain(t, n - 1) \in Nat /\ Ways(t, n - 1) \in Nat
  BY <1>6, GainFacts, WaysTable
<1>10. QED BY <1>3, <1>4, <1>6, <1>8, <1>9

(* Gains with at most d requests to come back add up to the ways there are. *)
LEMMA GainsAddUp ==
  ASSUME NEW M \in Nat, NEW b \in 0..M, NEW d \in Nat, NEW S \in [0..M -> Nat], NEW C \in [0..(M - 1) -> Nat],
         \A v \in 0..(M - 1) : S[v + 1] <= S[v] + Gain((M - 1) - v, C[v]),
         \A v \in b..(M - 1) : C[v] <= d
  PROVE  S[M] <= S[b] + Ways(M - b, d) - 1
<1> DEFINE T == {j \in b..M : ~(S[j] + Ways(M - j, d) <= S[b] + Ways(M - b, d))}
<1>1. ASSUME T # {} PROVE FALSE
  <2>1. PICK j \in T : \A m \in T : j <= m
    <3>1. T \subseteq Nat
      OBVIOUS
    <3> HIDE DEF T
    <3>2. QED BY <1>1, <3>1, LeastNumber
  <2>2. j \in b..M /\ ~(S[j] + Ways(M - j, d) <= S[b] + Ways(M - b, d))
    OBVIOUS
  <2>3. M - b \in Nat /\ Ways(M - b, d) \in Nat /\ S[b] \in Nat
    BY WaysTable
  <2>4. j # b
    BY <2>2, <2>3
  <2>5. PICK i \in b..(M - 1) : j = i + 1
    <3>1. j - 1 \in b..(M - 1) /\ j = (j - 1) + 1
      BY <2>2, <2>4
    <3>2. QED BY <3>1
  <2>6. i \in b..M /\ i \in 0..(M - 1) /\ i \in 0..M /\ j \in 0..M /\ ~(j <= i)
    BY <2>5
  <2>7. i \notin T
    BY <2>1, <2>6
  <2>8. S[i] + Ways(M - i, d) <= S[b] + Ways(M - b, d)
    BY <2>6, <2>7
  <2>9. S[j] <= S[i] + Gain((M - 1) - i, C[i])
    BY <2>5, <2>6
  <2>10. (M - 1) - i \in Nat /\ M - j = (M - 1) - i /\ M - i = ((M - 1) - i) + 1 /\ M - i \in Nat /\ C[i] \in Nat
    BY <2>5, <2>6
  <2>11. Gain((M - 1) - i, C[i]) <= Gain((M - 1) - i, d)
    BY <2>5, <2>10, GainMonotone
  <2>12. Gain((M - 1) - i, d) = Ways(M - i, d) - Ways(M - j, d)
    BY <2>10 DEF Gain
  <2>13. Ways(M - i, d) \in Nat /\ Ways(M - j, d) \in Nat /\ S[i] \in Nat /\ S[j] \in Nat
    BY <2>6, <2>10, WaysTable
  <2>14. Gain((M - 1) - i, C[i]) \in Nat
    BY <2>10, GainFacts
  <2> DEFINE wi == Ways(M - i, d)
             wj == Ways(M - j, d)
             wb == Ways(M - b, d)
             gc == Gain((M - 1) - i, C[i])
             gd == Gain((M - 1) - i, d)
             si == S[i]
             sj == S[j]
             sb == S[b]
  <2>15. /\ wi \in Nat /\ wj \in Nat /\ wb \in Nat /\ gc \in Nat /\ si \in Nat /\ sj \in Nat /\ sb \in Nat
         /\ si + wi <= sb + wb /\ sj <= si + gc /\ gc <= gd /\ gd = wi - wj
    BY <2>3, <2>8, <2>9, <2>11, <2>12, <2>13, <2>14
  <2>16. ~(sj + wj <= sb + wb)
    BY <2>2
  <2> HIDE DEF wi, wj, wb, gc, gd, si, sj, sb
  <2>17. QED BY <2>15, <2>16
<1>2. M \in b..M /\ M - M = 0 /\ M \in 0..M
  OBVIOUS
<1>3. S[M] + Ways(M - M, d) <= S[b] + Ways(M - b, d)
  BY <1>1, <1>2
<1>4. Ways(M - M, d) = 1 /\ Ways(M - b, d) \in Nat /\ S[M] \in Nat /\ S[b] \in Nat
  <2>1. M - b \in Nat
    OBVIOUS
  <2>2. QED BY <1>2, <2>1, WaysTable
<1> HIDE DEF T
<1>5. QED BY <1>3, <1>4



-----------------------------------------------------------------------------
(* Requests that overlap: each stores the count that it has read plus one. *)

(* The requests that can still bring another try when the count is at v:    *)
(* all of them, once a wrong code was counted after v, but for those that   *)
(* wait to store a count of v or less.                                      *)
Ahead(r, v) ==
  {p \in Procs : /\ state[r] = "open" => attempts[r] > v
                 /\ At(p, "wrong") /\ loc[p].row = r => loc[p].seen > v}

(* S[v] bounds the tries that were brought while the count was below v.     *)
Tallied(r, S) ==
  /\ S \in [0..MaxAttempts -> Nat] /\ S[0] = 0
  /\ \A v \in 0..(MaxAttempts - 1) :
       S[v + 1] <= S[v] + Gain((MaxAttempts - 1) - v, Cardinality(Ahead(r, v)))
  /\ tried[r] <= S[MaxAttempts]

TallyInv ==
  /\ \A p \in Procs : At(p, "wrong") => loc[p].seen < MaxAttempts
  /\ \A r \in Rows : state[r] = "unborn" => tried[r] = 0
  /\ \A r \in Rows : \E S : Tallied(r, S)

LEMMA AheadFinite == \A r, v : Ahead(r, v) \subseteq Procs /\ Cardinality(Ahead(r, v)) \in Nat
BY ProcsFinite DEF Ahead

LEMMA AheadFinite1 == \A r, v : (Ahead(r, v) \subseteq Procs /\ Cardinality(Ahead(r, v)) \in Nat)'
BY ProcsFinite DEF Ahead

(* Who is ahead can only bring more. *)
LEMMA MoreAhead ==
  ASSUME NEW r, NEW v \in 0..(MaxAttempts - 1), Ahead(r, v) \subseteq Ahead(r, v)'
  PROVE  Gain((MaxAttempts - 1) - v, Cardinality(Ahead(r, v))) <= Gain((MaxAttempts - 1) - v, Cardinality(Ahead(r, v)'))
<1>1. (MaxAttempts - 1) - v \in Nat
  BY Tunables
<1>2. /\ Cardinality(Ahead(r, v)) \in Nat /\ Cardinality(Ahead(r, v)') \in Nat
      /\ Cardinality(Ahead(r, v)) <= Cardinality(Ahead(r, v)')
  BY AheadFinite1, FewerConsuming
<1>3. QED BY <1>1, <1>2, GainMonotone

LEMMA GainsAhead ==
  \A r, v : v \in 0..(MaxAttempts - 1) =>
    Gain((MaxAttempts - 1) - v, Cardinality(Ahead(r, v))) \in Nat /\ Gain((MaxAttempts - 1) - v, Cardinality(Ahead(r, v)')) \in Nat
<1>1. ASSUME NEW r, NEW v \in 0..(MaxAttempts - 1)
      PROVE  Gain((MaxAttempts - 1) - v, Cardinality(Ahead(r, v))) \in Nat /\ Gain((MaxAttempts - 1) - v, Cardinality(Ahead(r, v)')) \in Nat
  <2>1. (MaxAttempts - 1) - v \in Nat
    BY Tunables
  <2>2. Cardinality(Ahead(r, v)) \in Nat /\ Cardinality(Ahead(r, v)') \in Nat
    BY AheadFinite, AheadFinite1
  <2>3. QED BY <2>1, <2>2, GainFacts
<1>2. QED BY <1>1

LEMMA TallyKept ==
  ASSUME NEW r, NEW S, Tallied(r, S), tried'[r] = tried[r],
         \A v \in 0..(MaxAttempts - 1) : Ahead(r, v) \subseteq Ahead(r, v)'
  PROVE  Tallied(r, S)'
<1>1. ASSUME NEW v \in 0..(MaxAttempts - 1)
      PROVE  S[v + 1] <= S[v] + Gain((MaxAttempts - 1) - v, Cardinality(Ahead(r, v)'))
  <2> DEFINE g == Gain((MaxAttempts - 1) - v, Cardinality(Ahead(r, v)))
             h == Gain((MaxAttempts - 1) - v, Cardinality(Ahead(r, v)'))
  <2>1. g \in Nat /\ h \in Nat /\ g <= h
    BY MoreAhead, GainsAhead
  <2>2. S[v] \in Nat /\ S[v + 1] \in Nat
    BY Tunables DEF Tallied
  <2>3. S[v + 1] <= S[v] + g
    BY DEF Tallied
  <2> HIDE DEF g, h
  <2>4. S[v + 1] <= S[v] + h
    BY <2>1, <2>2, <2>3
  <2>5. QED BY <2>4 DEF h
<1>2. QED BY <1>1 DEF Tallied

(* A request that counts no wrong code, or not on this challenge, leaves    *)
(* those ahead where they are.                                              *)
LEMMA AheadKept ==
  ASSUME TypeOK, TypeOK', NEW p \in Procs, NEW l, Goto(p, l),
         NEW r \in Rows,
         l = Idle \/ l.pc # "wrong" \/ (l.row = r => state[r] = "open" /\ l.seen = attempts[r]),
         state'[r] = "open" => state[r] = "open" /\ attempts'[r] = attempts[r],
         NEW v
  PROVE  Ahead(r, v) \subseteq Ahead(r, v)'
<1>1. \A q \in Procs : loc'[q] = IF q = p THEN l ELSE loc[q]
  BY GotoMoves
<1>2. QED BY <1>1 DEF Ahead, At

(* One more is ahead at w, which the new try pays for. *)
LEMMA PaidOnce ==
  ASSUME NEW r, NEW w \in 0..(MaxAttempts - 1), NEW p \in Procs, p \notin Ahead(r, w), p \in Ahead(r, w)',
         Ahead(r, w) \subseteq Ahead(r, w)'
  PROVE  LET t == (MaxAttempts - 1) - w
             d == Cardinality(Ahead(r, w))
         IN  /\ t \in Nat /\ d \in Nat /\ Gain(t, d) \in Nat /\ Ways(t, d) \in Nat /\ Ways(t, d) >= 1
             /\ Gain(t, d) + Ways(t, d) <= Gain(t, Cardinality(Ahead(r, w)'))
             /\ Gain(t, Cardinality(Ahead(r, w)')) \in Nat
<1> DEFINE t == (MaxAttempts - 1) - w
           d == Cardinality(Ahead(r, w))
           e == Cardinality(Ahead(r, w)')
<1>1. t \in Nat
  BY Tunables
<1>2. d \in Nat /\ e \in Nat
  BY AheadFinite, AheadFinite1
<1>3. d + 1 <= e
  <2>1. IsFiniteSet(Ahead(r, w)) /\ Ahead(r, w) \subseteq Procs /\ Ahead(r, w)' \subseteq Procs
    BY AheadFinite, AheadFinite1, ProcsFinite
  <2>2. Cardinality(Ahead(r, w) \cup {p}) = d + 1
    BY <2>1, FS_AddElement
  <2>3. Ahead(r, w) \cup {p} \subseteq Ahead(r, w)'
    OBVIOUS
  <2>4. Cardinality(Ahead(r, w) \cup {p}) <= e
    BY <2>1, <2>3, FewerConsuming
  <2>5. QED BY <2>2, <2>4
<1> HIDE DEF t, d, e
<1>4. Gain(t, d + 1) <= Gain(t, e) /\ Gain(t, e) \in Nat
  <2>1. d + 1 \in Nat
    BY <1>2
  <2>2. QED BY <1>1, <1>2, <1>3, <2>1, GainMonotone, GainFacts
<1>5. Gain(t, d + 1) = Gain(t, d) + Ways(t, d) /\ Gain(t, d) \in Nat /\ Ways(t, d) \in Nat /\ Ways(t, d) >= 1
  BY <1>1, <1>2, GainFacts, WaysPositive
<1>6. QED BY <1>1, <1>2, <1>4, <1>5 DEF t, d, e

(* A try that takes nobody back. *)
LEMMA TallyOneMore ==
  ASSUME NEW r, NEW S, Tallied(r, S), tried[r] \in Nat, tried'[r] = tried[r] + 1,
         NEW w \in 0..(MaxAttempts - 1), NEW p \in Procs, p \notin Ahead(r, w), p \in Ahead(r, w)',
         \A v \in 0..(MaxAttempts - 1) : Ahead(r, v) \subseteq Ahead(r, v)'
  PROVE  \E T : Tallied(r, T)'
<1> DEFINE M == MaxAttempts
           T == [v \in 0..M |-> IF v <= w THEN S[v] ELSE S[v] + 1]
<1>0. M \in Nat /\ M # 0 /\ w \in 0..(M - 1) /\ S \in [0..M -> Nat]
  BY Tunables DEF Tallied
<1>1. \A v \in 0..M : T[v] = IF v <= w THEN S[v] ELSE S[v] + 1
  OBVIOUS
<1>2. T \in [0..M -> Nat] /\ T[0] = 0 /\ T[M] = S[M] + 1
  <2>1. T \in [0..M -> Nat]
    BY <1>0
  <2>2. S[0] = 0
    BY DEF Tallied
  <2>3. 0 \in 0..M /\ M \in 0..M /\ 0 <= w /\ ~(M <= w)
    BY <1>0
  <2> HIDE DEF T, M
  <2>4. QED BY <1>1, <2>1, <2>2, <2>3
<1>3. tried'[r] <= T[M]
  <2>1. tried[r] <= S[M] /\ S[M] \in Nat
    BY <1>0 DEF Tallied
  <2> HIDE DEF M, T
  <2>2. QED BY <1>2, <2>1
<1> HIDE DEF T
<1>4. ASSUME NEW v \in 0..(M - 1)
      PROVE  T[v + 1] <= T[v] + Gain((M - 1) - v, Cardinality(Ahead(r, v)'))
  <2> DEFINE g == Gain((M - 1) - v, Cardinality(Ahead(r, v)))
             h == Gain((M - 1) - v, Cardinality(Ahead(r, v)'))
  <2>1. g \in Nat /\ h \in Nat /\ g <= h
    BY MoreAhead, GainsAhead
  <2>2. v \in 0..M /\ v + 1 \in 0..M /\ S[v] \in Nat /\ S[v + 1] \in Nat
    BY <1>0
  <2>3. S[v + 1] <= S[v] + g
    BY DEF Tallied
  <2>4. v = w => g + 1 <= h
    <3>1. SUFFICES ASSUME v = w PROVE g + 1 <= h
      OBVIOUS
    <3> DEFINE y == Ways((M - 1) - v, Cardinality(Ahead(r, v)))
    <3>2. y \in Nat /\ y >= 1 /\ g + y <= h
      BY <3>1, PaidOnce
    <3> HIDE DEF y, g, h
    <3>3. QED BY <2>1, <3>2
  <2>5. T[v] = (IF v <= w THEN S[v] ELSE S[v] + 1) /\ T[v + 1] = (IF v + 1 <= w THEN S[v + 1] ELSE S[v + 1] + 1)
    BY <1>1, <2>2
  <2> HIDE DEF g, h, M
  <2>6. T[v + 1] <= T[v] + h
    BY <1>0, <2>1, <2>2, <2>3, <2>4, <2>5
  <2>7. QED BY <2>6 DEF h
<1>5. Tallied(r, T)'
  BY <1>2, <1>3, <1>4 DEF Tallied
<1>6. QED BY <1>5

(* A try that sets the count back to s + 1: whoever was ahead at s can      *)
(* bring all later tries again, and was all who brought them.               *)
LEMMA TallySetBack ==
  ASSUME NEW r, NEW S, Tallied(r, S), tried[r] \in Nat, tried'[r] = tried[r] + 1,
         NEW s \in 0..(MaxAttempts - 1), NEW p \in Procs, p \notin Ahead(r, s), p \in Ahead(r, s)',
         \A v \in 0..s : Ahead(r, v) \subseteq Ahead(r, v)',
         \A v \in (s + 1)..(MaxAttempts - 1) : Ahead(r, v) \subseteq Ahead(r, s)
  PROVE  \E T : Tallied(r, T)'
<1> DEFINE M == MaxAttempts
           t == (M - 1) - s
           d == Cardinality(Ahead(r, s))
           top == S[s] + (Gain(t, d) + Ways(t, d))
           C == [v \in 0..(M - 1) |-> Cardinality(Ahead(r, v))]
<1>0. M \in Nat /\ M # 0 /\ s \in 0..(M - 1) /\ S \in [0..M -> Nat]
  BY Tunables DEF Tallied
<1>1. /\ t \in Nat /\ d \in Nat /\ Gain(t, d) \in Nat /\ Ways(t, d) \in Nat
      /\ Gain(t, d) + Ways(t, d) <= Gain(t, Cardinality(Ahead(r, s)'))
  BY PaidOnce
<1>2. top \in Nat
  BY <1>0, <1>1
<1>3. S[M] + 1 <= top
  <2>1. C \in [0..(M - 1) -> Nat]
    BY AheadFinite
  <2>2. \A v \in 0..(M - 1) : S[v + 1] <= S[v] + Gain((M - 1) - v, C[v])
    BY DEF Tallied
  <2>3. \A v \in (s + 1)..(M - 1) : C[v] <= d
    <3>1. ASSUME NEW v \in (s + 1)..(M - 1) PROVE C[v] <= d
      <4>1. Cardinality(Ahead(r, v)) <= d
        BY AheadFinite, FewerConsuming
      <4>2. v \in 0..(M - 1)
        BY <1>0
      <4>3. QED BY <4>1, <4>2
    <3>2. QED BY <3>1
  <2>4. s + 1 \in 0..M /\ M - (s + 1) = t
    BY <1>0
  <2>5. S[s + 1] <= S[s] + Gain(t, d)
    BY <2>2
  <2> HIDE DEF C, M, t, d
  <2>6. S[M] <= S[s + 1] + Ways(M - (s + 1), d) - 1
    BY <1>0, <1>1, <2>1, <2>2, <2>3, <2>4, GainsAddUp
  <2>7. S[M] \in Nat /\ S[s] \in Nat /\ S[s + 1] \in Nat
    BY <1>0, <2>4
  <2>8. QED BY <1>1, <2>4, <2>5, <2>6, <2>7
<1> PICK T : T = [v \in 0..M |-> IF v <= s THEN S[v] ELSE top]
  OBVIOUS
<1>4. \A v \in 0..M : T[v] = IF v <= s THEN S[v] ELSE top
  OBVIOUS
<1>5. T \in [0..M -> Nat] /\ T[0] = 0 /\ T[M] = top
  <2>1. S[0] = 0
    BY DEF Tallied
  <2>2. 0 \in 0..M /\ M \in 0..M /\ 0 <= s /\ ~(M <= s)
    BY <1>0
  <2> HIDE DEF top, M
  <2>3. T \in [0..M -> Nat]
    BY <1>0, <1>2
  <2>4. QED BY <1>4, <2>1, <2>2, <2>3
<1>6. tried'[r] <= T[M]
  <2>1. tried[r] <= S[M] /\ S[M] \in Nat
    BY <1>0 DEF Tallied
  <2> HIDE DEF M, top
  <2>2. QED BY <1>2, <1>3, <1>5, <2>1
<1>7. ASSUME NEW v \in 0..(M - 1)
      PROVE  T[v + 1] <= T[v] + Gain((M - 1) - v, Cardinality(Ahead(r, v)'))
  <2> DEFINE h == Gain((M - 1) - v, Cardinality(Ahead(r, v)'))
  <2>1. h \in Nat
    BY GainsAhead
  <2>2. v \in 0..M /\ v + 1 \in 0..M /\ S[v] \in Nat /\ S[v + 1] \in Nat
    BY <1>0
  <2>3. CASE v + 1 <= s
    <3>1. T[v] = S[v] /\ T[v + 1] = S[v + 1]
      BY <1>0, <1>4, <2>2, <2>3
    <3> DEFINE g == Gain((M - 1) - v, Cardinality(Ahead(r, v)))
    <3>2. g \in Nat /\ g <= h
      <4>1. v \in 0..s
        BY <1>0, <2>3
      <4>2. QED BY <4>1, MoreAhead, GainsAhead
    <3>3. S[v + 1] <= S[v] + g
      BY DEF Tallied
    <3> HIDE DEF g, h, M
    <3>4. T[v + 1] <= T[v] + h
      BY <2>1, <2>2, <3>1, <3>2, <3>3
    <3>5. QED BY <3>4 DEF h
  <2>4. CASE v = s
    <3>1. T[v] = S[s] /\ T[v + 1] = top
      BY <1>0, <1>4, <2>2, <2>4
    <3>2. Gain(t, d) + Ways(t, d) <= h
      BY <1>1, <2>4
    <3> DEFINE g == Gain(t, d) + Ways(t, d)
    <3>3. g \in Nat /\ S[s] \in Nat /\ g <= h /\ T[v + 1] = S[s] + g
      BY <1>1, <2>2, <2>4, <3>1, <3>2
    <3> HIDE DEF g, h, M
    <3>4. T[v + 1] <= T[v] + h
      BY <2>1, <3>1, <3>3
    <3>5. QED BY <3>4 DEF h
  <2>5. CASE s < v
    <3>1. T[v] = top /\ T[v + 1] = top
      BY <1>0, <1>4, <2>2, <2>5
    <3> HIDE DEF top, h, M
    <3>2. T[v + 1] <= T[v] + h
      BY <1>2, <2>1, <3>1
    <3>3. QED BY <3>2 DEF h
  <2>6. QED BY <1>0, <2>3, <2>4, <2>5
<1>8. Tallied(r, T)'
  BY <1>5, <1>6, <1>7 DEF Tallied
<1>9. QED BY <1>8

(* A wrong code is counted: either nobody is taken back, or the count is.   *)
LEMMA TryTallied ==
  ASSUME TypeOK, TallyInv, NEW p \in Procs, At(p, "wrong"), Goto(p, Idle), state' = state,
         NEW r \in Rows, loc[p].row = r,
         attempts' = [attempts EXCEPT ![r] = loc[p].seen + 1],
         tried' = [tried EXCEPT ![r] = @ + 1]
  PROVE  \E S : Tallied(r, S)'
<1> DEFINE M == MaxAttempts
<1>0. M \in Nat
  BY Tunables
<1>1. PICK s \in 0..(M - 1) : loc[p].seen = s
  <2>1. loc[p].seen \in Nat /\ loc[p].seen < M
    BY TaskParts DEF TallyInv, At
  <2>2. QED BY <2>1, Tunables
<1>2. PICK S : Tallied(r, S)
  BY DEF TallyInv
<1>3. tried[r] \in Nat /\ tried'[r] = tried[r] + 1 /\ attempts[r] \in Nat /\ attempts'[r] = s + 1
  BY <1>1 DEF TypeOK
<1>4. \A q \in Procs : loc'[q] = IF q = p THEN Idle ELSE loc[q]
  BY GotoMoves
<1>5. loc[p] # Idle /\ loc[p].pc = "wrong"
  BY DEF At
<1>6. ASSUME NEW v \in 0..(M - 1), state[r] = "open" => v <= s \/ attempts[r] <= v
      PROVE  Ahead(r, v) \subseteq Ahead(r, v)'
  BY <1>3, <1>4, <1>6 DEF Ahead, At
<1>7. ASSUME NEW v \in 0..(M - 1), v <= s PROVE p \in Ahead(r, v)'
  BY <1>3, <1>4, <1>7 DEF Ahead, At
<1>8. p \notin Ahead(r, s)
  BY <1>1, <1>5 DEF Ahead, At
<1>9. CASE state[r] # "open"
  <2>1. \A v \in 0..(M - 1) : Ahead(r, v) \subseteq Ahead(r, v)'
    BY <1>6, <1>9
  <2>2. p \in Ahead(r, s)'
    BY <1>7
  <2>3. QED BY <1>2, <1>3, <1>8, <2>1, <2>2, TallyOneMore
<1>10. CASE state[r] = "open" /\ attempts[r] <= s
  <2>1. PICK w \in 0..(M - 1) : w = attempts[r]
    BY <1>0, <1>3, <1>10
  <2>2. p \notin Ahead(r, w) /\ p \in Ahead(r, w)'
    <3>1. p \in Ahead(r, w)'
      BY <1>7, <1>10, <2>1
    <3>2. QED BY <1>10, <2>1, <3>1 DEF Ahead
  <2>3. \A v \in 0..(M - 1) : Ahead(r, v) \subseteq Ahead(r, v)'
    <3>1. ASSUME NEW v \in 0..(M - 1) PROVE v <= s \/ attempts[r] <= v
      BY <1>3, <1>10
    <3>2. QED BY <1>6, <3>1
  <2>4. QED BY <1>2, <1>3, <2>2, <2>3, TallyOneMore
<1>11. CASE state[r] = "open" /\ attempts[r] > s
  <2>1. p \in Ahead(r, s)'
    BY <1>7
  <2>2. \A v \in 0..s : Ahead(r, v) \subseteq Ahead(r, v)'
    <3>1. ASSUME NEW v \in 0..s PROVE v \in 0..(M - 1) /\ v <= s
      BY <1>0
    <3>2. QED BY <1>6, <3>1
  <2>3. ASSUME NEW v \in (s + 1)..(M - 1) PROVE Ahead(r, v) \subseteq Ahead(r, s)
    <3>1. ASSUME NEW q \in Procs, At(q, "wrong"), loc[q].row = r, loc[q].seen > v PROVE loc[q].seen > s
      <4>1. loc[q].seen \in Nat
        BY <3>1, TaskParts DEF At
      <4>2. QED BY <3>1, <4>1
    <3>2. QED BY <1>11, <3>1 DEF Ahead
  <2>4. QED BY <1>2, <1>3, <1>8, <2>1, <2>2, <2>3, TallySetBack
<1>12. QED BY <1>3, <1>9, <1>10, <1>11

(* A request that counts no try leaves the tally of a row.                  *)
LEMMA RowTallied ==
  ASSUME TypeOK, TypeOK', TallyInv, NEW p \in Procs, NEW l, Goto(p, l), NEW r \in Rows,
         l = Idle \/ l.pc # "wrong" \/ (l.row = r => state[r] = "open" /\ l.seen = attempts[r]),
         state'[r] = "open" => state[r] = "open" /\ attempts'[r] = attempts[r],
         tried'[r] = tried[r]
  PROVE  \E S : Tallied(r, S)'
<1>1. PICK S : Tallied(r, S)
  BY DEF TallyInv
<1>2. \A v \in 0..(MaxAttempts - 1) : Ahead(r, v) \subseteq Ahead(r, v)'
  BY AheadKept
<1>3. QED BY <1>1, <1>2, TallyKept

(* A new challenge starts from nothing. *)
LEMMA FreshTallied == ASSUME NEW r, tried'[r] = 0 PROVE \E S : Tallied(r, S)'
<1> DEFINE S == [v \in 0..MaxAttempts |-> 0]
<1>1. S \in [0..MaxAttempts -> Nat] /\ S[0] = 0 /\ tried'[r] <= S[MaxAttempts]
  BY Tunables
<1>2. ASSUME NEW v \in 0..(MaxAttempts - 1)
      PROVE  S[v + 1] <= S[v] + Gain((MaxAttempts - 1) - v, Cardinality(Ahead(r, v)'))
  <2>1. Gain((MaxAttempts - 1) - v, Cardinality(Ahead(r, v)')) \in Nat
    BY GainsAhead
  <2>2. S[v] = 0 /\ S[v + 1] = 0
    BY Tunables
  <2> HIDE DEF S
  <2>3. QED BY <2>1, <2>2
<1>3. Tallied(r, S)'
  <2> HIDE DEF S
  <2>1. QED BY <1>1, <1>2 DEF Tallied
<1>4. QED BY <1>3

LEMMA SeenKept ==
  ASSUME TypeOK, TallyInv, NEW p \in Procs, NEW l, Goto(p, l),
         l = Idle \/ l.pc # "wrong" \/ l.seen < MaxAttempts
  PROVE  \A q \in Procs : At(q, "wrong")' => loc'[q].seen < MaxAttempts
<1>1. \A q \in Procs : loc'[q] = IF q = p THEN l ELSE loc[q]
  BY GotoMoves
<1>2. QED BY <1>1 DEF TallyInv, At

LEMMA TallyStep == TypeOK /\ TallyInv /\ [Next]_vars => TallyInv'
<1>1. SUFFICES ASSUME TypeOK, TallyInv, [Next]_vars PROVE TallyInv'
  OBVIOUS
<1>2. TypeOK'
  BY <1>1, TypedStep
<1>3. CASE UNCHANGED vars \/ Tick
  <2>1. UNCHANGED <<state, attempts, loc, tried>>
    BY <1>3 DEF vars, Tick, rowVars, bookVars
  <2>2. \A p : At(p, "wrong")' <=> At(p, "wrong")
    BY <2>1 DEF At
  <2>3. \A r, v : Ahead(r, v)' = Ahead(r, v)
    BY <2>1, <2>2 DEF Ahead
  <2>4. \A r, S : Tallied(r, S) => Tallied(r, S)'
    BY <2>1, <2>3 DEF Tallied
  <2>5. QED BY <1>1, <2>1, <2>2, <2>4 DEF TallyInv
<1>4. ASSUME NEW p \in Procs, StartInsert(p) PROVE TallyInv'
  <2>1. PICK r \in Rows :
          /\ state[r] = "unborn" /\ state' = [state EXCEPT ![r] = "open"]
          /\ Goto(p, [pc |-> "mail", row |-> r]) /\ UNCHANGED <<attempts, tried>>
    BY <1>4 DEF StartInsert
  <2>2. \A q \in Procs : At(q, "wrong")' => loc'[q].seen < MaxAttempts
    BY <1>1, <2>1, SeenKept
  <2>3. \A s \in Rows : state'[s] = "unborn" => tried'[s] = 0
    BY <1>1, <2>1 DEF TallyInv, TypeOK
  <2>4. ASSUME NEW s \in Rows PROVE \E S : Tallied(s, S)'
    <3>1. CASE s = r
      <4>1. tried'[s] = 0
        BY <1>1, <2>1, <3>1 DEF TallyInv
      <4>2. QED BY <4>1, FreshTallied
    <3>2. CASE s # r
      <4>1. state'[s] = state[s] /\ attempts'[s] = attempts[s] /\ tried'[s] = tried[s]
        BY <1>1, <2>1, <3>2 DEF TypeOK
      <4>2. QED BY <1>1, <1>2, <2>1, <4>1, RowTallied
    <3>3. QED BY <3>1, <3>2
  <2>5. QED BY <2>2, <2>3, <2>4 DEF TallyInv
<1>5. ASSUME NEW p \in Procs, StartMail(p) \/ Consume(p) PROVE TallyInv'
  <2>1. Goto(p, Idle) /\ tried' = tried
    BY <1>5 DEF StartMail, Consume, Return
  <2>2. \A r \in Rows : state'[r] = "unborn" => state[r] = "unborn"
    BY <1>1, StepMovesRows DEF RowMoves
  <2>3. ASSUME NEW r \in Rows, state'[r] = "open" PROVE state[r] = "open" /\ attempts'[r] = attempts[r]
    <3>1. CASE StartMail(p)
      BY <1>1, <2>3, <3>1 DEF StartMail, TypeOK
    <3>2. CASE Consume(p)
      BY <1>1, <2>3, <3>2 DEF Consume, TypeOK
    <3>3. QED BY <1>5, <3>1, <3>2
  <2>4. \A q \in Procs : At(q, "wrong")' => loc'[q].seen < MaxAttempts
    BY <1>1, <2>1, SeenKept
  <2>5. \A r \in Rows : \E S : Tallied(r, S)'
    BY <1>1, <1>2, <2>1, <2>3, RowTallied
  <2>6. \A r \in Rows : state'[r] = "unborn" => tried'[r] = 0
    BY <1>1, <2>1, <2>2 DEF TallyInv
  <2>7. QED BY <2>4, <2>5, <2>6 DEF TallyInv
<1>6. ASSUME NEW p \in Procs, CountWrong(p) PROVE TallyInv'
  <2>1. At(p, "wrong") /\ Goto(p, Idle) /\ state' = state
    BY <1>6 DEF CountWrong, Return
  <2>2. PICK r \in Rows : loc[p].row = r
    BY <1>1, <2>1, TaskParts DEF At
  <2>3. \A q \in Procs : At(q, "wrong")' => loc'[q].seen < MaxAttempts
    BY <1>1, <2>1, SeenKept
  <2>4. CASE UNCHANGED <<attempts, tried>>
    <3>1. \A s \in Rows : \E S : Tallied(s, S)'
      BY <1>1, <1>2, <2>1, <2>4, RowTallied
    <3>2. QED BY <1>1, <2>1, <2>3, <2>4, <3>1 DEF TallyInv
  <2>5. CASE /\ Exists(r) /\ attempts' = [attempts EXCEPT ![r] = loc[p].seen + 1]
             /\ tried' = [tried EXCEPT ![r] = @ + 1]
    <3>1. \E S : Tallied(r, S)'
      BY <1>1, <2>1, <2>2, <2>5, TryTallied
    <3>2. ASSUME NEW s \in Rows, s # r PROVE \E S : Tallied(s, S)'
      <4>1. attempts'[s] = attempts[s] /\ tried'[s] = tried[s]
        BY <1>1, <2>5, <3>2 DEF TypeOK
      <4>2. QED BY <1>1, <1>2, <2>1, <4>1, RowTallied
    <3>3. \A s \in Rows : state'[s] = "unborn" => tried'[s] = 0
      BY <1>1, <2>1, <2>5 DEF TallyInv, Exists, TypeOK
    <3>4. QED BY <2>3, <3>1, <3>2, <3>3 DEF TallyInv
  <2>6. QED BY <1>6, <2>2, <2>4, <2>5 DEF CountWrong
<1>7. ASSUME NEW p \in Procs, \/ StartCheck(p)
                              \/ \E code \in mailed \cup {Wrong} : EnterCode(p, code)
                              \/ \E r \in mailed : OpenLink(p, r)
      PROVE  TallyInv'
  <2>1. UNCHANGED <<rowVars, bookVars>>
    BY <1>1, <1>7, ReadsTyped
  <2>2. PICK l \in Tasks :
          /\ Goto(p, l)
          /\ l.pc # "insert" => /\ l.row \in Pending /\ l.seen = attempts[l.row]
                                /\ (l.pc = "wrong" => AttemptsLeft(l.row))
    BY <1>1, <1>7, ReadsTyped
  <2>3. l.pc = "wrong" => state[l.row] = "open" /\ l.seen = attempts[l.row] /\ l.seen < MaxAttempts
    BY <2>2 DEF Pending, AttemptsLeft
  <2>4. \A q \in Procs : At(q, "wrong")' => loc'[q].seen < MaxAttempts
    BY <1>1, <2>2, <2>3, SeenKept
  <2>5. UNCHANGED <<state, attempts, tried>>
    BY <2>1 DEF rowVars, bookVars
  <2>6. \A r \in Rows : \E S : Tallied(r, S)'
    BY <1>1, <1>2, <2>2, <2>3, <2>5, RowTallied
  <2>7. QED BY <1>1, <2>4, <2>5, <2>6 DEF TallyInv
<1>8. QED BY <1>1, <1>3, <1>4, <1>5, <1>6, <1>7 DEF Next

LEMMA TallyBounds ==
  ASSUME NEW r, NEW S, Tallied(r, S)
  PROVE  tried[r] <= choose(MaxAttempts + Cardinality(Procs), Cardinality(Procs)) - 1 \/ tried[r] \notin Nat
<1> DEFINE M == MaxAttempts
           n == Cardinality(Procs)
           C == [v \in 0..(M - 1) |-> Cardinality(Ahead(r, v))]
<1>1. M \in Nat /\ 0 \in 0..M /\ M - 0 = M /\ n \in Nat
  BY Tunables, ProcsFinite
<1>2. C \in [0..(M - 1) -> Nat]
  BY AheadFinite
<1>3. \A v \in 0..(M - 1) : C[v] <= n
  BY AheadFinite, FewerConsuming
<1>4. /\ S \in [0..M -> Nat] /\ S[0] = 0 /\ tried[r] <= S[M]
      /\ \A v \in 0..(M - 1) : S[v + 1] <= S[v] + Gain((M - 1) - v, C[v])
  BY DEF Tallied
<1> HIDE DEF M, n, C
<1>5. S[M] <= S[0] + Ways(M - 0, n) - 1
  BY <1>1, <1>2, <1>3, <1>4, GainsAddUp
<1>6. Ways(M, n) \in Nat /\ S[M] \in Nat
  <2>1. M \in 0..M
    BY <1>1
  <2>2. QED BY <1>1, <1>4, <2>1, WaysTable
<1>7. tried[r] \in Nat => tried[r] <= Ways(M, n) - 1
  BY <1>1, <1>4, <1>5, <1>6
<1>8. QED BY <1>7 DEF Ways, M, n

(* What overlapping requests can get out of one challenge: at most one     *)
(* confirmation each, and of wrong codes, as every request stores the count *)
(* that it has read plus one, (MaxAttempts + n over n) - 1 for n of them    *)
(* (ConfirmEmailVerification).                                             *)
THEOREM ChallengesStayBounded == Spec => []ChallengesBounded
<1>1. Init => TallyInv
  <2>1. SUFFICES ASSUME Init PROVE TallyInv
    OBVIOUS
  <2>2. ASSUME NEW r \in Rows PROVE \E S : Tallied(r, S)
    <3> DEFINE S == [v \in 0..MaxAttempts |-> 0]
    <3>1. S \in [0..MaxAttempts -> Nat] /\ S[0] = 0 /\ tried[r] <= S[MaxAttempts]
      BY <2>1, Tunables DEF Init
    <3>2. ASSUME NEW v \in 0..(MaxAttempts - 1)
          PROVE  S[v + 1] <= S[v] + Gain((MaxAttempts - 1) - v, Cardinality(Ahead(r, v)))
      <4>1. Gain((MaxAttempts - 1) - v, Cardinality(Ahead(r, v))) \in Nat
        BY GainsAhead
      <4>2. S[v] = 0 /\ S[v + 1] = 0
        BY Tunables
      <4> HIDE DEF S
      <4>3. QED BY <4>1, <4>2
    <3> HIDE DEF S
    <3>3. QED BY <3>1, <3>2 DEF Tallied
  <2>3. QED BY <2>1, <2>2 DEF Init, TallyInv, At
<1>2. VerifyInv /\ TallyInv => ChallengesBounded
  <2>1. SUFFICES ASSUME VerifyInv, TallyInv, NEW r \in Rows
                 PROVE  /\ tried[r] <= choose(MaxAttempts + Cardinality(Procs), Cardinality(Procs)) - 1
                        /\ uses[r] <= Cardinality(Procs)
    BY DEF ChallengesBounded, TriesBounded, UsesBounded
  <2>2. PICK S : Tallied(r, S)
    BY <2>1 DEF TallyInv
  <2>3. tried[r] \in Nat /\ uses[r] \in Nat /\ Cardinality(Consuming(r)) \in Nat
    BY <2>1, ProcsFinite DEF Consuming, VerifyInv, TypeOK
  <2>4. uses[r] <= Cardinality(Procs)
    BY <2>1, <2>3, ProcsFinite DEF VerifyInv, UseInv
  <2>5. QED BY <2>2, <2>3, <2>4, TallyBounds
<1>3. VerifyInv => TypeOK
  BY DEF VerifyInv
<1>4. QED BY <1>1, <1>2, <1>3, TallyStep, VerifyInvariant, PTL DEF Spec

=============================================================================
