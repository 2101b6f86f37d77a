--------------------------- MODULE AfterTripProof ---------------------------
(***************************************************************************)
(* Machine-checked theorems about AfterTrip and Surfaces, for any number   *)
(* of users and of requests in flight: one payment card per booking,       *)
(* ratings only between people who travelled together, and every handler   *)
(* that derives who a user is to the ride agreeing with the others.        *)
(***************************************************************************)
EXTENDS Surfaces, FiniteSetTheorems, TLAPS

(* Requests about to post a payment card for u's booking. *)
Marking(u) == {p \in Procs : At(p, "marker") /\ loc[p].user = u}

(* The dismissal that posts the card is recorded with it, and a booking    *)
(* whose row is gone does not come back.                                   *)
MarkerInv == \A u \in Users :
  /\ \A p, q \in Marking(u) : p = q
  /\ Marking(u) # {} => markers[u] = 0
  /\ markers[u] <= 1
  /\ Marking(u) # {} \/ markers[u] > 0 => signal[u] # NoSignal \/ bk[u] = "none"

(* A passenger who became the host before the trip keeps his accepted row, *)
(* soft-deleted; nobody else's is.                                         *)
HostInv ==
  /\ bk[Host] \in {"none", "accepted"}
  /\ promoted = {Host} \cap AcceptedRows
  /\ AcceptedRows \subseteq travelled

Together(u, v) == \E w \in travelled \ {Host} : <<u, v>> \in {<<Host, w>>, <<w, Host>>}

RateInv ==
  /\ \A pair \in rated : Together(pair[1], pair[2])
  /\ \A p \in Procs : At(p, "rate") => \A v \in loc[p].items : Together(loc[p].user, v)

TripInv == TypeOK /\ MarkerInv /\ HostInv /\ RateInv

-----------------------------------------------------------------------------
(* What a process carries. *)

ClaimTask(place, u, s) == [pc |-> place, user |-> u, signal |-> s]
AckTask(u, st)         == [pc |-> "ack", user |-> u, status |-> st]
RateTask(u, is)        == [pc |-> "rate", user |-> u, items |-> is]

LEMMA TaskMade ==
  /\ \A place \in {"claim", "rewrite", "marker"}, u \in Users, s \in Signals : ClaimTask(place, u, s) \in Tasks
  /\ \A u \in Users, st \in {"confirmed", "disputed"} : AckTask(u, st) \in Tasks
  /\ \A u \in Users, is \in SUBSET Users : RateTask(u, is) \in Tasks
  /\ Idle \notin Tasks
BY IdleAssumption DEF Tasks, ClaimTask, AckTask, RateTask

LEMMA TaskParts ==
  ASSUME TypeOK, NEW p \in Procs, loc[p] # Idle
  PROVE  /\ loc[p].user \in Users
         /\ loc[p].pc \in {"claim", "rewrite", "marker"} =>
              /\ loc[p].signal \in Signals
              /\ loc[p] = ClaimTask(loc[p].pc, loc[p].user, loc[p].signal)
         /\ loc[p].pc = "ack" => loc[p].status \in {"confirmed", "disputed"}
         /\ loc[p].pc = "rate" => loc[p].items \subseteq Users
<1>1. loc[p] \in Tasks
  BY DEF TypeOK
<1>2. QED BY <1>1 DEF Tasks, ClaimTask

LEMMA GotoMoves ==
  ASSUME TypeOK, NEW p \in Procs, NEW l, Goto(p, l)
  PROVE  /\ \A q \in Procs : loc'[q] = IF q = p THEN l ELSE loc[q]
         /\ l \in Tasks \cup {Idle} => loc' \in [Procs -> Tasks \cup {Idle}]
BY DEF TypeOK, Goto

-----------------------------------------------------------------------------
(* Types. *)

LEMMA ReadsTyped ==
  ASSUME TypeOK, NEW p \in Procs, NEW u \in Active,
         \/ \E s \in Signals : DismissRead(p, u, s)
         \/ \E a \in Acks : PaymentAckRead(p, u, a)
         \/ SubmitRatingRead(p, u)
  PROVE  TypeOK'
<1>0. u \in Users BY HostAssumption
<1>1. UNCHANGED <<phase, bookingVars, payVars, rated>>
  BY DEF DismissRead, PaymentAckRead, SubmitRatingRead
<1>2. \E l \in Tasks : Goto(p, l)
  <2>1. CASE \E s \in Signals : DismissRead(p, u, s)
    BY <1>0, <2>1, TaskMade DEF DismissRead, ClaimTask
  <2>2. CASE \E a \in Acks : PaymentAckRead(p, u, a)
    <3>1. PICK st \in {"confirmed", "disputed"} : Goto(p, [pc |-> "ack", user |-> u, status |-> st])
      BY <2>2 DEF PaymentAckRead
    <3>2. QED BY <1>0, <3>1, TaskMade DEF AckTask
  <2>3. CASE SubmitRatingRead(p, u)
    <3>1. SubmitTargets(u) \subseteq Users
      BY HostAssumption DEF SubmitTargets, MaySubmit, AllowedTargets, AcceptedRows
    <3>2. PICK is \in SUBSET Users : Goto(p, [pc |-> "rate", user |-> u, items |-> is])
      BY <2>3, <3>1 DEF SubmitRatingRead
    <3>3. QED BY <1>0, <3>2, TaskMade DEF RateTask
  <2>4. QED BY <2>1, <2>2, <2>3
<1>3. loc' \in [Procs -> Tasks \cup {Idle}]
  BY <1>2, GotoMoves
<1>4. QED BY <1>1, <1>3 DEF TypeOK, bookingVars, payVars

LEMMA RecordTyped ==
  ASSUME TypeOK, NEW u \in Users, NEW s \in Signals, Record(u, s), bk[u] # "none"
  PROVE  /\ signal' \in [Users -> Signals \cup {NoSignal}]
         /\ pay' \in [Users -> {"none", "pending", "confirmed", "disputed"}]
         /\ \A v \in Users : bk[v] = "none" => pay'[v] = "none"
BY DEF TypeOK, Record

LEMMA WritesTyped ==
  ASSUME TypeOK, NEW p \in Procs,
         DismissClaim(p) \/ DismissRewrite(p) \/ PostMarker(p) \/ PaymentAckWrite(p) \/ SubmitRatingUpsert(p)
  PROVE  TypeOK'
<1>0. loc[p] # Idle /\ UNCHANGED <<phase, bookingVars>>
  BY DEF At, DismissClaim, DismissRewrite, PostMarker, PaymentAckWrite, SubmitRatingUpsert
<1>1. ASSUME NEW l \in Tasks \cup {Idle}, Goto(p, l) PROVE loc' \in [Procs -> Tasks \cup {Idle}]
  BY <1>1, GotoMoves
<1>2. CASE DismissClaim(p)
  <2>1. loc[p].pc = "claim" /\ loc[p].user \in Users /\ loc[p].signal \in Signals
    BY <1>0, <1>2, TaskParts DEF DismissClaim, At
  <2>2. \E l \in Tasks \cup {Idle} : Goto(p, l)
    <3>1. loc[p] = ClaimTask("claim", loc[p].user, loc[p].signal)
      BY <1>0, <2>1, TaskParts
    <3>2. [loc[p] EXCEPT !.pc = "marker"] = ClaimTask("marker", loc[p].user, loc[p].signal)
          /\ [loc[p] EXCEPT !.pc = "rewrite"] = ClaimTask("rewrite", loc[p].user, loc[p].signal)
      BY <3>1 DEF ClaimTask
    <3>3. [loc[p] EXCEPT !.pc = "marker"] \in Tasks /\ [loc[p] EXCEPT !.pc = "rewrite"] \in Tasks
      BY <2>1, <3>2, TaskMade
    <3>4. QED BY <1>2, <3>3 DEF DismissClaim, Return
  <2>3. UNCHANGED <<signal, pay>> \/ (Record(loc[p].user, loc[p].signal) /\ bk[loc[p].user] # "none")
    BY <1>2 DEF DismissClaim, FirstDismiss, Row
  <2>4. /\ signal' \in [Users -> Signals \cup {NoSignal}]
        /\ pay' \in [Users -> {"none", "pending", "confirmed", "disputed"}]
        /\ \A v \in Users : bk[v] = "none" => pay'[v] = "none"
    BY <2>1, <2>3, RecordTyped DEF TypeOK
  <2>5. QED BY <1>0, <1>1, <1>2, <2>2, <2>4 DEF DismissClaim, TypeOK, bookingVars
<1>3. CASE DismissRewrite(p)
  <2>1. loc[p].user \in Users /\ loc[p].signal \in Signals /\ Goto(p, Idle)
    BY <1>0, <1>3, TaskParts DEF DismissRewrite, At, Return
  <2>2. UNCHANGED <<signal, pay>> \/ (Record(loc[p].user, loc[p].signal) /\ bk[loc[p].user] # "none")
    BY <1>3 DEF DismissRewrite, Row
  <2>3. /\ signal' \in [Users -> Signals \cup {NoSignal}]
        /\ pay' \in [Users -> {"none", "pending", "confirmed", "disputed"}]
        /\ \A v \in Users : bk[v] = "none" => pay'[v] = "none"
    BY <2>1, <2>2, RecordTyped DEF TypeOK
  <2>4. QED BY <1>0, <1>1, <1>3, <2>1, <2>3 DEF DismissRewrite, TypeOK, bookingVars
<1>4. CASE PostMarker(p)
  <2>1. loc[p].user \in Users /\ Goto(p, Idle)
    BY <1>0, <1>4, TaskParts DEF PostMarker, Return
  <2>2. markers' \in [Users -> Nat]
    BY <1>4, <2>1 DEF PostMarker, TypeOK
  <2>3. QED BY <1>0, <1>1, <1>4, <2>1, <2>2 DEF PostMarker, TypeOK, bookingVars
<1>5. CASE PaymentAckWrite(p)
  <2>1. loc[p].user \in Users /\ loc[p].status \in {"confirmed", "disputed"} /\ Goto(p, Idle)
    BY <1>0, <1>5, TaskParts DEF PaymentAckWrite, At, Return
  <2>2. /\ pay' \in [Users -> {"none", "pending", "confirmed", "disputed"}] /\ stamped' \subseteq Users
        /\ \A v \in Users : bk[v] = "none" => pay'[v] = "none" /\ v \notin stamped'
    BY <1>5, <2>1 DEF PaymentAckWrite, TypeOK, Row
  <2>3. QED BY <1>0, <1>1, <1>5, <2>1, <2>2 DEF PaymentAckWrite, TypeOK, bookingVars
<1>6. CASE SubmitRatingUpsert(p)
  <2>1. loc[p].user \in Users /\ loc[p].items \subseteq Users /\ Goto(p, Idle)
    BY <1>0, <1>6, TaskParts DEF SubmitRatingUpsert, At, Return
  <2>2. rated' \subseteq Users \X Users
    BY <1>6, <2>1 DEF SubmitRatingUpsert, TypeOK
  <2>3. QED BY <1>0, <1>1, <1>6, <2>1, <2>2 DEF SubmitRatingUpsert, TypeOK, bookingVars, payVars
<1>7. QED BY <1>2, <1>3, <1>4, <1>5, <1>6

LEMMA OthersTyped ==
  ASSUME TypeOK, Tick \/ \E u \in Users : Accept(u) \/ Reject(u) \/ Remove(u)
  PROVE  TypeOK'
<1>1. CASE Tick
  BY <1>1 DEF Tick, TypeOK, Phases, bookingVars, payVars
<1>2. CASE \E u \in Users : Accept(u)
  BY <1>2 DEF Accept, TypeOK, Status, payVars
<1>3. CASE \E u \in Users : Reject(u)
  BY <1>3 DEF Reject, TypeOK, Status, payVars
<1>4. CASE \E u \in Users : Remove(u)
  BY <1>4 DEF Remove, TypeOK
<1>5. QED BY <1>1, <1>2, <1>3, <1>4

LEMMA TypedStep == TypeOK /\ [Next]_vars => TypeOK'
<1>1. SUFFICES ASSUME TypeOK, [Next]_vars PROVE TypeOK'
  OBVIOUS
<1>2. CASE UNCHANGED vars
  BY <1>1, <1>2 DEF vars, bookingVars, payVars, TypeOK
<1>3. QED BY <1>1, <1>2, ReadsTyped, WritesTyped, OthersTyped DEF Next

-----------------------------------------------------------------------------
(* Who travels. *)

LEMMA HostStep == TypeOK /\ HostInv /\ [Next]_vars => HostInv' /\ travelled \subseteq travelled'
<1>1. SUFFICES ASSUME TypeOK, HostInv, [Next]_vars PROVE HostInv' /\ travelled \subseteq travelled'
  OBVIOUS
<1>2. CASE UNCHANGED bookingVars
  BY <1>1, <1>2 DEF bookingVars, HostInv, AcceptedRows
<1>3. CASE \E u \in Users : Accept(u)
  BY <1>1, <1>3, HostAssumption DEF Accept, HostInv, AcceptedRows, TypeOK
<1>4. CASE \E u \in Users : Reject(u)
  BY <1>1, <1>4, HostAssumption DEF Reject, HostInv, AcceptedRows, TypeOK
<1>5. CASE \E u \in Users : Remove(u)
  BY <1>1, <1>5, HostAssumption DEF Remove, HostInv, AcceptedRows, TypeOK
<1>6. UNCHANGED bookingVars \/ \E u \in Users : Accept(u) \/ Reject(u) \/ Remove(u)
  BY <1>1 DEF Next, vars, Tick, DismissRead, PaymentAckRead, SubmitRatingRead,
              DismissClaim, DismissRewrite, PostMarker, PaymentAckWrite, SubmitRatingUpsert
<1>7. QED BY <1>2, <1>3, <1>4, <1>5, <1>6

LEMMA RowsKept == ASSUME TypeOK, [Next]_vars, NEW u \in Users
                  PROVE  bk[u] = "none" => bk'[u] = "none"
<1>1. CASE UNCHANGED bookingVars
  BY <1>1 DEF bookingVars
<1>2. CASE \E v \in Users : Accept(v) \/ Reject(v) \/ Remove(v)
  BY <1>2 DEF Accept, Reject, Remove, TypeOK
<1>3. QED BY <1>1, <1>2 DEF Next, vars, Tick, DismissRead, PaymentAckRead, SubmitRatingRead,
              DismissClaim, DismissRewrite, PostMarker, PaymentAckWrite, SubmitRatingUpsert

-----------------------------------------------------------------------------
(* The payment card. *)

(* A step that posts no card and lets nobody post one. *)
LEMMA NoCard ==
  ASSUME TypeOK, MarkerInv, markers' = markers,
         \A u \in Users : Marking(u)' \subseteq Marking(u),
         \A u \in Users : signal[u] # NoSignal \/ bk[u] = "none" => signal'[u] # NoSignal \/ bk'[u] = "none"
  PROVE  MarkerInv'
BY DEF MarkerInv

LEMMA MarkingKept ==
  ASSUME TypeOK, NEW p \in Procs, NEW l, Goto(p, l), l = Idle \/ l.pc # "marker"
  PROVE  \A u \in Users : Marking(u)' \subseteq Marking(u) \ {p}
<1>1. \A q \in Procs : loc'[q] = IF q = p THEN l ELSE loc[q]
  BY GotoMoves
<1>2. QED BY <1>1 DEF Marking, At

LEMMA RecordKeepsSignals ==
  ASSUME TypeOK, NEW u \in Users, NEW s \in Signals, Record(u, s)
  PROVE  /\ \A v \in Users : signal[v] # NoSignal => signal'[v] # NoSignal
         /\ signal'[u] # NoSignal
BY DEF TypeOK, Record, Signals, NoSignal

LEMMA CardStep == TypeOK /\ MarkerInv /\ [Next]_vars => MarkerInv'
<1>1. SUFFICES ASSUME TypeOK, MarkerInv, [Next]_vars PROVE MarkerInv'
  OBVIOUS
<1>2. \A u \in Users : bk[u] = "none" => bk'[u] = "none"
  BY <1>1, RowsKept
<1>3. ASSUME NEW p \in Procs, NEW l, Goto(p, l), l = Idle \/ l.pc # "marker", markers' = markers, signal' = signal
      PROVE  MarkerInv'
  BY <1>1, <1>2, <1>3, MarkingKept, NoCard
<1>4. CASE UNCHANGED vars
  BY <1>1, <1>4 DEF vars, bookingVars, payVars, MarkerInv, Marking, At
<1>5. CASE Tick
  BY <1>1, <1>5 DEF Tick, bookingVars, payVars, MarkerInv, Marking, At
<1>6. CASE \E u \in Users : Accept(u) \/ Reject(u) \/ Remove(u)
  <2>1. markers' = markers /\ loc' = loc
    BY <1>6 DEF Accept, Reject, Remove, payVars
  <2>2. \A u \in Users : signal[u] # NoSignal \/ bk[u] = "none" => signal'[u] # NoSignal \/ bk'[u] = "none"
    BY <1>1, <1>6 DEF Accept, Reject, Remove, payVars, TypeOK
  <2>3. QED BY <1>1, <2>1, <2>2, NoCard DEF Marking, At
<1>7. CASE \E p \in Procs, u \in Active, s \in Signals : DismissRead(p, u, s)
  <2>1. PICK p \in Procs, u \in Active, s \in Signals : DismissRead(p, u, s)
    BY <1>7
  <2>2. QED BY <1>3, <2>1 DEF DismissRead, payVars
<1>8. CASE \E p \in Procs, u \in Active, a \in Acks : PaymentAckRead(p, u, a)
  <2>1. PICK p \in Procs, u \in Active, a \in Acks : PaymentAckRead(p, u, a)
    BY <1>8
  <2>2. QED BY <1>3, <2>1 DEF PaymentAckRead, payVars
<1>9. CASE \E p \in Procs, u \in Active : SubmitRatingRead(p, u)
  <2>1. PICK p \in Procs, u \in Active : SubmitRatingRead(p, u)
    BY <1>9
  <2>2. PICK is : Goto(p, [pc |-> "rate", user |-> u, items |-> is])
    BY <2>1 DEF SubmitRatingRead
  <2>3. QED BY <1>3, <2>1, <2>2 DEF SubmitRatingRead, payVars
<1>10. ASSUME NEW p \in Procs, DismissClaim(p) PROVE MarkerInv'
  <2>0. loc[p] # Idle /\ loc[p].pc = "claim" /\ loc[p].user \in Users /\ loc[p].signal \in Signals /\ markers' = markers
        /\ loc[p] = ClaimTask("claim", loc[p].user, loc[p].signal)
    BY <1>1, <1>10, TaskParts DEF DismissClaim, At
  <2>1. CASE ~FirstDismiss(p)
    <3>1. Goto(p, [loc[p] EXCEPT !.pc = "rewrite"]) /\ signal' = signal
      BY <1>10, <2>1 DEF DismissClaim
    <3>2. [loc[p] EXCEPT !.pc = "rewrite"].pc # "marker"
      BY <2>0 DEF ClaimTask
    <3>3. QED BY <1>3, <2>0, <3>1, <3>2
  <2>2. CASE FirstDismiss(p)
    <3>1. Record(loc[p].user, loc[p].signal) /\ Row(p) /\ signal[loc[p].user] = NoSignal /\ UNCHANGED bookingVars
      BY <1>10, <2>2 DEF DismissClaim, FirstDismiss
    <3>2. /\ \A v \in Users : signal[v] # NoSignal => signal'[v] # NoSignal
          /\ signal'[loc[p].user] # NoSignal
      BY <1>1, <2>0, <3>1, RecordKeepsSignals
    <3>3. Marking(loc[p].user) = {} /\ markers[loc[p].user] = 0
      BY <1>1, <2>0, <3>1 DEF MarkerInv, Row, TypeOK
    <3>4. CASE Goto(p, Idle)
      <4>1. \A u \in Users : Marking(u)' \subseteq Marking(u)
        BY <1>1, <3>4, MarkingKept
      <4>2. QED BY <1>1, <1>2, <2>0, <3>2, <4>1, NoCard
    <3>5. CASE Goto(p, [loc[p] EXCEPT !.pc = "marker"])
      <4>1. Goto(p, ClaimTask("marker", loc[p].user, loc[p].signal))
        BY <2>0, <3>5 DEF ClaimTask
      <4>2. \A q \in Procs : loc'[q] = IF q = p THEN ClaimTask("marker", loc[p].user, loc[p].signal) ELSE loc[q]
        BY <1>1, <4>1, GotoMoves
      <4>3. \A u \in Users : Marking(u)' \subseteq IF u = loc[p].user THEN Marking(u) \cup {p} ELSE Marking(u)
        BY <4>2 DEF Marking, At, ClaimTask
      <4>4. QED BY <1>1, <1>2, <2>0, <3>2, <3>3, <4>3 DEF MarkerInv
    <3>6. QED BY <1>10, <2>2, <3>4, <3>5 DEF DismissClaim, Return
  <2>3. QED BY <2>1, <2>2
<1>11. ASSUME NEW p \in Procs, DismissRewrite(p) PROVE MarkerInv'
  <2>1. loc[p].user \in Users /\ loc[p].signal \in Signals /\ Goto(p, Idle) /\ markers' = markers
    BY <1>1, <1>11, TaskParts DEF DismissRewrite, At, Return
  <2>2. \A v \in Users : signal[v] # NoSignal => signal'[v] # NoSignal
    BY <1>1, <1>11, <2>1, RecordKeepsSignals DEF DismissRewrite
  <2>3. \A u \in Users : Marking(u)' \subseteq Marking(u)
    BY <1>1, <2>1, MarkingKept
  <2>4. QED BY <1>1, <1>2, <2>1, <2>2, <2>3, NoCard
<1>12. ASSUME NEW p \in Procs, PostMarker(p) PROVE MarkerInv'
  <2>1. PICK u \in Users : loc[p].user = u
    BY <1>1, <1>12, TaskParts DEF PostMarker, At
  <2>2. p \in Marking(u) /\ Goto(p, Idle) /\ signal' = signal
    BY <1>12, <2>1 DEF PostMarker, Return, Marking
  <2>3. \A v \in Users : Marking(v)' \subseteq Marking(v) \ {p}
    BY <1>1, <2>2, MarkingKept
  <2>4. \A v \in Users : IF v = u THEN markers'[v] \in {markers[v], markers[v] + 1} ELSE markers'[v] = markers[v]
    BY <1>1, <1>12, <2>1 DEF PostMarker, TypeOK
  <2>5. Marking(u)' = {} /\ markers[u] = 0
    <3>1. \A q \in Marking(u) : q = p
      BY <1>1, <2>2 DEF MarkerInv
    <3>2. QED BY <1>1, <2>2, <2>3, <3>1 DEF MarkerInv
  <2>6. QED BY <1>1, <1>2, <2>2, <2>3, <2>4, <2>5 DEF MarkerInv
<1>13. CASE \E p \in Procs : PaymentAckWrite(p) \/ SubmitRatingUpsert(p)
  <2>1. PICK p \in Procs : PaymentAckWrite(p) \/ SubmitRatingUpsert(p)
    BY <1>13
  <2>2. Goto(p, Idle) /\ markers' = markers /\ signal' = signal
    BY <2>1 DEF PaymentAckWrite, SubmitRatingUpsert, Return, payVars
  <2>3. QED BY <1>3, <2>2
<1>14. QED BY <1>1, <1>4, <1>5, <1>6, <1>7, <1>8, <1>9, <1>10, <1>11, <1>12, <1>13 DEF Next

-----------------------------------------------------------------------------
(* Ratings. *)

LEMMA TargetsTravelled ==
  ASSUME HostInv, NEW u \in Users, NEW v \in SubmitTargets(u)
  PROVE  Together(u, v)
BY HostAssumption DEF SubmitTargets, MaySubmit, AllowedTargets, AcceptedRows, HostInv, Together

LEMMA RateStep == TypeOK /\ HostInv /\ RateInv /\ [Next]_vars => RateInv'
<1>1. SUFFICES ASSUME TypeOK, HostInv, RateInv, [Next]_vars PROVE RateInv'
  OBVIOUS
<1>2. \A u, v : Together(u, v) => Together(u, v)'
  BY <1>1, HostStep DEF Together
<1>3. ASSUME rated' = rated,
             \A p \in Procs : At(p, "rate")' => \/ At(p, "rate") /\ loc'[p] = loc[p]
                                             \/ \A v \in loc'[p].items : Together(loc'[p].user, v)
      PROVE  RateInv'
  BY <1>1, <1>2, <1>3 DEF RateInv
<1>4. ASSUME NEW p \in Procs, NEW l, Goto(p, l), l = Idle \/ l.pc # "rate", rated' = rated PROVE RateInv'
  <2>1. \A q \in Procs : loc'[q] = IF q = p THEN l ELSE loc[q]
    BY <1>1, <1>4, GotoMoves
  <2>2. QED BY <1>3, <1>4, <2>1 DEF At
<1>5. CASE rated' = rated /\ loc' = loc
  BY <1>3, <1>5 DEF At
<1>6. ASSUME NEW p \in Procs, NEW u \in Active, SubmitRatingRead(p, u) PROVE RateInv'
  <2>1. PICK is \in SUBSET SubmitTargets(u) : Goto(p, [pc |-> "rate", user |-> u, items |-> is])
    BY <1>6 DEF SubmitRatingRead
  <2>2. \A q \in Procs : loc'[q] = IF q = p THEN [pc |-> "rate", user |-> u, items |-> is] ELSE loc[q]
    BY <1>1, <2>1, GotoMoves
  <2>3. \A v \in is : Together(u, v)
    BY <1>1, <2>1, TargetsTravelled, HostAssumption
  <2>4. rated' = rated
    BY <1>6 DEF SubmitRatingRead
  <2>5. QED BY <1>3, <2>2, <2>3, <2>4 DEF At
<1>7. ASSUME NEW p \in Procs, SubmitRatingUpsert(p) PROVE RateInv'
  <2>1. /\ At(p, "rate") /\ Goto(p, Idle) /\ rated' = rated \cup ({loc[p].user} \X loc[p].items)
    BY <1>7 DEF SubmitRatingUpsert, Return
  <2>2. \A pair \in {loc[p].user} \X loc[p].items : Together(pair[1], pair[2])
    BY <1>1, <2>1 DEF RateInv
  <2>3. \A q \in Procs : loc'[q] = IF q = p THEN Idle ELSE loc[q]
    BY <1>1, <2>1, GotoMoves
  <2>4. \A pair \in rated' : Together(pair[1], pair[2])'
    BY <1>1, <1>2, <2>1, <2>2 DEF RateInv
  <2>5. \A q \in Procs : At(q, "rate")' => At(q, "rate") /\ loc'[q] = loc[q]
    BY <2>3 DEF At
  <2>6. QED BY <1>1, <1>2, <2>4, <2>5 DEF RateInv
<1>8. CASE UNCHANGED vars \/ Tick \/ \E u \in Users : Accept(u) \/ Reject(u) \/ Remove(u)
  BY <1>5, <1>8 DEF vars, Tick, Accept, Reject, Remove
<1>9. ASSUME NEW p \in Procs, NEW u \in Active,
             (\E s \in Signals : DismissRead(p, u, s)) \/ (\E a \in Acks : PaymentAckRead(p, u, a))
      PROVE  RateInv'
  <2>1. ASSUME NEW s \in Signals, DismissRead(p, u, s) PROVE RateInv'
    BY <1>4, <2>1 DEF DismissRead
  <2>2. ASSUME NEW a \in Acks, PaymentAckRead(p, u, a) PROVE RateInv'
    BY <1>4, <2>2 DEF PaymentAckRead
  <2>3. QED BY <1>9, <2>1, <2>2
<1>10. ASSUME NEW p \in Procs, DismissClaim(p) PROVE RateInv'
  <2>1. loc[p] = ClaimTask("claim", loc[p].user, loc[p].signal)
    BY <1>1, <1>10, TaskParts DEF DismissClaim, At
  <2>2. [loc[p] EXCEPT !.pc = "marker"].pc # "rate" /\ [loc[p] EXCEPT !.pc = "rewrite"].pc # "rate"
    BY <2>1 DEF ClaimTask
  <2>3. QED BY <1>4, <1>10, <2>2 DEF DismissClaim, Return
<1>11. ASSUME NEW p \in Procs, DismissRewrite(p) \/ PostMarker(p) \/ PaymentAckWrite(p) PROVE RateInv'
  BY <1>4, <1>11 DEF DismissRewrite, PostMarker, PaymentAckWrite, Return
<1>12. QED BY <1>1, <1>6, <1>7, <1>8, <1>9, <1>10, <1>11 DEF Next

-----------------------------------------------------------------------------
LEMMA TripInit == Init => TripInv
<1>1. SUFFICES ASSUME Init PROVE TripInv
  OBVIOUS
<1>2. TypeOK
  <2>1. /\ promoted \subseteq {Host} /\ travelled \subseteq Users /\ stamped \subseteq Users
        /\ rated \subseteq Users \X Users /\ phase \in Phases
        /\ bk \in [Users -> Status \cup {"none"}]
    BY <1>1, HostAssumption DEF Init, Phases
  <2>2. /\ signal \in [Users -> Signals \cup {NoSignal}] /\ markers \in [Users -> Nat]
        /\ pay \in [Users -> {"none", "pending", "confirmed", "disputed"}]
        /\ loc \in [Procs -> Tasks \cup {Idle}]
    BY <1>1 DEF Init
  <2>3. \A u \in Users : bk[u] = "none" => pay[u] = "none" /\ u \notin stamped
    BY <1>1 DEF Init
  <2>4. QED BY <2>1, <2>2, <2>3 DEF TypeOK
<1>3. MarkerInv
  BY <1>1 DEF Init, MarkerInv, Marking, At
<1>4. HostInv
  BY <1>1 DEF Init, HostInv, AcceptedRows
<1>5. RateInv
  BY <1>1 DEF Init, RateInv, At
<1>6. QED BY <1>2, <1>3, <1>4, <1>5 DEF TripInv

LEMMA TripStep == TripInv /\ [Next]_vars => TripInv'
BY TypedStep, CardStep, HostStep, RateStep DEF TripInv

LEMMA TripInvariant == Spec => []TripInv
BY TripInit, TripStep, PTL DEF Spec

(* Columns and messages are well formed, and a row that is gone has no     *)
(* dismissal and no payment left.                                          *)
THEOREM TripTypeCorrect == Spec => []TypeOK
<1>1. TripInv => TypeOK
  BY DEF TripInv
<1>2. QED BY <1>1, TripInvariant, PTL

(* However many dismissals of a booking race or are repeated, the host's   *)
(* chat shows one payment card for it (DismissTripCard).                   *)
THEOREM OneMarker == Spec => []MarkerOnce
<1>1. TripInv => MarkerOnce
  BY DEF TripInv, MarkerInv, MarkerOnce
<1>2. QED BY <1>1, TripInvariant, PTL

(* Every rating joins the host with somebody who was accepted on the ride, *)
(* whatever bookings do between SubmitRideRating's check and its upsert.   *)
THEOREM TravellersRate == Spec => []RatingsBetweenTravellers
<1>1. TripInv => RatingsBetweenTravellers
  <2>1. SUFFICES ASSUME TripInv, NEW pair \in rated
                 PROVE  \E u \in travelled \ {Host} : pair \in {<<Host, u>>, <<u, Host>>}
    BY DEF RatingsBetweenTravellers
  <2>2. pair = <<pair[1], pair[2]>>
    BY <2>1 DEF TripInv, TypeOK
  <2>3. Together(pair[1], pair[2])
    BY <2>1 DEF TripInv, RateInv
  <2>4. QED BY <2>2, <2>3 DEF Together
<1>2. QED BY <1>1, TripInvariant, PTL

-----------------------------------------------------------------------------
(* What the screens derive. The host has no booking of his own but the one *)
(* he was promoted from; everybody else's is what the column says.         *)

LEMMA BookingRead ==
  ASSUME TypeOK, HostInv
  PROVE  /\ Booking(Host) = "none"
         /\ \A u \in Users \ {Host} : Booking(u) = bk[u]
         /\ \A u \in Users : bk[u] \in {"pending", "accepted", "rejected", "none"}
         /\ AcceptedRows \ {Host} = Confirmed
         /\ PromptRows = Confirmed
         /\ Host \notin Confirmed
<1>1. Booking(Host) = "none"
  BY HostAssumption DEF HostInv, Booking, AcceptedRows
<1>2. \A u \in Users \ {Host} : Booking(u) = bk[u]
  BY DEF HostInv, Booking, AcceptedRows
<1>3. AcceptedRows \ {Host} = Confirmed /\ Host \notin Confirmed
  BY <1>1, <1>2, HostAssumption DEF Confirmed, Riding, AcceptedRows
<1>4. PromptRows = Confirmed
  BY <1>3 DEF PromptRows, HostInv, AcceptedRows, Confirmed, Riding, Booking
<1>5. QED BY <1>1, <1>2, <1>3, <1>4 DEF TypeOK, Status

LEMMA GatesAgree == TypeOK /\ HostInv => ChatGatesAgree
<1>1. SUFFICES ASSUME TypeOK, HostInv PROVE ChatGatesAgree
  OBVIOUS
<1>2. RideReaders = {Host} \cup Confirmed
  BY <1>1, BookingRead, HostAssumption DEF RideReaders, Confirmed
<1>3. RidePosters = {Host} \cup Confirmed /\ RideSockets = {Host} \cup Confirmed
  BY <1>1, BookingRead, HostAssumption
     DEF RidePosters, RideSockets, RideViewerRole, Members, Confirmed, Riding, TypeOK, Status
<1>4. \A s : RidePushed(s) = ({Host} \cup Confirmed) \ {s}
  BY <1>1, BookingRead DEF RidePushed
<1>5. \A u, v \in Users : /\ CanAccessDMRoom(u, v) = CanAccessDMRoom(v, u)
                          /\ CanAccessDMRoom(u, v) = MayReadDM(u, v)
  BY <1>1, BookingRead DEF CanAccessDMRoom, MayReadDM, Related, Requested
<1>6. QED BY <1>2, <1>3, <1>4, <1>5 DEF ChatGatesAgree

LEMMA ListsLead == TypeOK /\ HostInv => ListsLeadSomewhere
<1>1. SUFFICES ASSUME TypeOK, HostInv, NEW u \in Users, NEW g \in BOOLEAN
      PROVE  /\ InChatList(u, g) => /\ u \in RideMarkers
                                    /\ u \in RideReaders \/ CanAccessDMRoom(u, Host)
                                    /\ InInvolvedRides(u, g)
             /\ InInvolvedRides(u, g) => InUserRides(u, IF Past THEN "past" ELSE "upcoming")
             /\ \A v \in PendingRequests(u, g) \cup Acquaintances(u) :
                  CanAccessDMRoom(u, v) /\ MayReadDM(v, u)
  BY DEF ListsLeadSomewhere
<1>2. InChatList(u, g) => /\ u \in RideMarkers
                          /\ u \in RideReaders \/ CanAccessDMRoom(u, Host)
                          /\ InInvolvedRides(u, g)
  BY <1>1, BookingRead, HostAssumption
     DEF InChatList, RideMarkers, RideViewerRole, Members, RideReaders, CanAccessDMRoom, Related, Requested,
         InInvolvedRides, Riding
<1>3. InInvolvedRides(u, g) => InUserRides(u, IF Past THEN "past" ELSE "upcoming")
  BY DEF InInvolvedRides, InUserRides
<1>4. \A v \in PendingRequests(u, g) : CanAccessDMRoom(u, v) /\ MayReadDM(v, u)
  BY <1>1, BookingRead, HostAssumption DEF PendingRequests, InChatList, CanAccessDMRoom, MayReadDM, Related, Requested
<1>5. \A v \in Acquaintances(u) : CanAccessDMRoom(u, v) /\ MayReadDM(v, u)
  BY <1>1, BookingRead, HostAssumption DEF Acquaintances, CanAccessDMRoom, MayReadDM, Related, Requested, Riding
<1>6. QED BY <1>2, <1>3, <1>4, <1>5

(* The four handlers that say who may rate whom, in terms of Confirmed. *)
LEMMA TargetsAre ==
  ASSUME TypeOK, HostInv, NEW u \in Users
  PROVE  AllowedTargets(u) = IF u = Host THEN Confirmed ELSE IF u \in Confirmed THEN {Host} ELSE {}
BY BookingRead DEF AllowedTargets, AcceptedRows, Confirmed, Riding

LEMMA RatersAgree == TypeOK /\ HostInv => RatingSurfacesAgree
<1>1. SUFFICES ASSUME TypeOK, HostInv, NEW u \in Users
      PROVE  /\ phase \in 3..4 => PendingRatings(u) = EligibleTargets(u)
             /\ PendingRatings(u) \cup EligibleTargets(u) \subseteq MaySubmit(u)
  BY DEF RatingSurfacesAgree
<1>2. \A v \in Users : v \in PendingRatings(u) <=>
        phase \in 3..4 /\ v \in AllowedTargets(u) /\ <<u, v>> \notin rated
  BY <1>1, TargetsAre, BookingRead DEF PendingRatings
<1>3. AllowedTargets(u) \subseteq Users
  BY <1>1, TargetsAre, HostAssumption DEF Confirmed
<1>4. \A v : v \in PendingRatings(u) => v \in Users
  BY DEF PendingRatings
<1>5. phase \in 3..4 => phase \in 3..5
  BY <1>1 DEF TypeOK, Phases
<1>6. QED BY <1>2, <1>3, <1>4, <1>5 DEF EligibleTargets, MaySubmit

LEMMA CompanionsMutual == TypeOK /\ HostInv => CompanionsAgree
<1>1. SUFFICES ASSUME TypeOK, HostInv, NEW u \in Users, NEW v \in Users, NEW g \in BOOLEAN
      PROVE  /\ v \in Companions(u, g) => u \in Companions(v, g)
             /\ ~g /\ v \in MaySubmit(u) => v \in Companions(u, g)
  BY DEF CompanionsAgree
<1>2. v \in Companions(u, g) => u \in Companions(v, g)
  BY <1>1 DEF Companions, Confirmed
<1>3. ~g /\ v \in MaySubmit(u) => v \in Companions(u, g)
  <2>1. SUFFICES ASSUME ~g, v \in MaySubmit(u) PROVE v \in Companions(u, g)
    OBVIOUS
  <2>2. Started
    BY <1>1, <2>1 DEF MaySubmit, Started, TypeOK, Phases
  <2>3. v \in AllowedTargets(u)
    BY <2>1 DEF MaySubmit
  <2>4. QED BY <1>1, <2>1, <2>2, <2>3, TargetsAre, BookingRead DEF Companions, Confirmed
<1>4. QED BY <1>2, <1>3

(* Who belongs to a ride is derived alike by the page queries, the sends,  *)
(* the sockets, the pushes, both direct-message gates and the lists, for   *)
(* every status and for a soft-deleted booking; no row of a list is a dead *)
(* end.                                                                    *)
THEOREM MembershipDerivedAlike == Spec => []MembershipAgrees
<1>1. TripInv => MembershipAgrees
  BY GatesAgree, ListsLead DEF TripInv, MembershipAgrees
<1>2. QED BY <1>1, TripInvariant, PTL

(* Prompt, rating screen, submission and list of companions agree on who   *)
(* has travelled with whom, in every phase after the ride.                 *)
THEOREM TravellersDerivedAlike == Spec => []TravellersAgree
<1>1. TripInv => TravellersAgree
  BY RatersAgree, CompanionsMutual DEF TripInv, TravellersAgree
<1>2. QED BY <1>1, TripInvariant, PTL

-----------------------------------------------------------------------------
(* The two screens. *)

(* The seats in a car are counted without its host, or with him if he was  *)
(* a passenger once: the detail page and the column differ by at most him. *)
LEMMA SeatCounts ==
  ASSUME TypeOK, HostInv
  PROVE  /\ SeatsOnDetails \in Nat /\ BookedSeats \in Nat
         /\ SeatsOnDetails = Cardinality(Confirmed)
         /\ SeatsOnDetails <= BookedSeats
<1>1. IsFiniteSet(AcceptedRows) /\ Confirmed \in SUBSET AcceptedRows
  BY BookingRead, UsersAssumption, FS_Subset DEF AcceptedRows
<1>2. Confirmed \ {Host} = Confirmed
  BY BookingRead
<1>3. QED BY <1>1, <1>2, FS_Subset, FS_CardinalityType DEF SeatsOnDetails, BookedSeats

LEMMA ContextParts ==
  ASSUME NEW state, NEW actions
  PROVE  Context(state, actions).state = state /\ Context(state, actions).actions = actions
BY DEF Context

(* Only somebody without a booking sees a state that depends on the seats. *)
LEMMA StateOfRequester ==
  ASSUME TypeOK, HostInv, NEW u \in Users, u = Host \/ Requested(u), NEW g \in BOOLEAN, NEW s, NEW r, NEW t
  PROVE  ResolveViewerState(u, Booking(u), s, g, t) = ResolveViewerState(u, Booking(u), r, g, t)
BY DEF ResolveViewerState, Requested

(* "past" is the state of a ride that is past, and of no other. *)
LEMMA PastState ==
  ASSUME TypeOK, HostInv, NEW u \in Users, NEW g \in BOOLEAN, NEW s, NEW t
  PROVE  ResolveViewerState(u, Booking(u), s, g, t).state = "past" <=> Past
<1>1. CASE Past
  BY <1>1, ContextParts DEF ResolveViewerState
<1>2. CASE ~Past /\ u = Host
  BY <1>2, ContextParts DEF ResolveViewerState
<1>3. CASE ~Past /\ u # Host /\ Booking(u) # "none"
  <2>1. Booking(u) \in {"accepted", "pending", "rejected"}
    BY <1>3, BookingRead
  <2>2. BookingContext(Booking(u), g).state \in {"confirmed_passenger", "pending_passenger", "rejected_passenger"}
    BY <2>1, ContextParts DEF BookingContext
  <2>3. ResolveViewerState(u, Booking(u), s, g, t) = BookingContext(Booking(u), g)
    BY <1>3 DEF ResolveViewerState
  <2>4. QED BY <1>3, <2>2, <2>3
<1>4. CASE ~Past /\ u # Host /\ Booking(u) = "none"
  <2>1. SeatContext(s, t).state \in {"available", "full"}
    BY ContextParts DEF SeatContext
  <2>2. ResolveViewerState(u, Booking(u), s, g, t) = SeatContext(s, t)
    BY <1>4 DEF ResolveViewerState
  <2>3. QED BY <1>4, <2>1, <2>2
<1>5. QED BY <1>1, <1>2, <1>3, <1>4

LEMMA DetailsResolved ==
  ASSUME TypeOK, HostInv, NEW u \in Users, NEW g, NEW t
  PROVE  DetailsContext(u, g, t) = WithRating(u, ResolveViewerState(u, Booking(u), SeatsOnDetails, g, t))
BY BookingRead DEF DetailsContext

LEMMA ScreensSame == TypeOK /\ HostInv => ScreensAgree
<1>1. SUFFICES ASSUME TypeOK, HostInv, NEW u \in Users, NEW g \in BOOLEAN, NEW t \in Sizes,
                      NEW scope \in Scopes, InUserRides(u, scope)
               PROVE  ListContext(u, scope, g, t) = DetailsContext(u, g, t)
  BY DEF ScreensAgree
<1>2. u = Host \/ Requested(u)
  BY <1>1 DEF InUserRides
<1>3. ResolveViewerState(u, Booking(u), BookedSeats, g, t) = ResolveViewerState(u, Booking(u), SeatsOnDetails, g, t)
  BY <1>1, <1>2, StateOfRequester
<1>4. CASE scope = "upcoming"
  <2>1. ResolveViewerState(u, Booking(u), SeatsOnDetails, g, t).state # "past"
    BY <1>1, <1>4, PastState DEF InUserRides
  <2>2. QED BY <1>1, <1>3, <1>4, <2>1, DetailsResolved DEF ListContext, WithRating
<1>5. CASE scope # "upcoming"
  BY <1>1, <1>3, <1>5, DetailsResolved DEF ListContext
<1>6. QED BY <1>4, <1>5

LEMMA OffersHeld == TypeOK /\ HostInv => OffersHonoured
<1>1. SUFFICES ASSUME TypeOK, HostInv, NEW u \in Users, NEW g \in BOOLEAN, NEW t \in Sizes
      PROVE  /\ \A action \in DetailsContext(u, g, t).actions : Honoured(u, action, g, t)
             /\ RequestAccepted(u, g, t) => "request_seat" \in DetailsContext(u, g, t).actions
  BY DEF OffersHonoured
<1> DEFINE resolved == ResolveViewerState(u, Booking(u), SeatsOnDetails, g, t)
<1>2. DetailsContext(u, g, t) = WithRating(u, resolved)
  BY <1>1, DetailsResolved
<1>3. CASE Past
  <2>1. resolved = Context("past", {"open_chat"})
    BY <1>3 DEF ResolveViewerState
  <2>2. DetailsContext(u, g, t) = Context("past", {"open_chat"} \cup IF PendingRatings(u) # {} THEN {"rate"} ELSE {})
    BY <1>2, <2>1 DEF WithRating, Context
  <2>3. Honoured(u, "open_chat", g, t)
    BY <1>3 DEF Honoured
  <2>4. PendingRatings(u) # {} => Honoured(u, "rate", g, t)
    BY <1>1, RatersAgree DEF Honoured, RatingSurfacesAgree
  <2>5. ~RequestAccepted(u, g, t)
    BY <1>1, <1>3 DEF RequestAccepted, Past, Started, TypeOK, Phases
  <2>6. QED BY <2>2, <2>3, <2>4, <2>5, ContextParts
<1>4. ~Past => DetailsContext(u, g, t) = resolved
  BY <1>1, <1>2, PastState DEF WithRating
<1>5. CASE ~Past /\ u = Host
  <2>1. DetailsContext(u, g, t) = Context("host", {"accept_passengers", "open_chat"} \cup IF g THEN {} ELSE {"cancel_ride"})
    BY <1>4, <1>5 DEF ResolveViewerState
  <2>2. Honoured(u, "accept_passengers", g, t)
    BY <1>5 DEF Honoured
  <2>3. Honoured(u, "open_chat", g, t)
    BY <1>5 DEF Honoured, RideReaders, RideSockets, RideViewerRole, Members
  <2>4. Honoured(u, "cancel_ride", g, t)
    <3>1. promoted = {} /\ Confirmed = {} => AcceptedRows = {}
      BY <1>1, BookingRead DEF HostInv
    <3>2. QED BY <1>5, <3>1 DEF Honoured, DeleteRideAccepted
  <2>5. ~RequestAccepted(u, g, t)
    BY <1>5 DEF RequestAccepted
  <2>6. QED BY <2>1, <2>2, <2>3, <2>4, <2>5, ContextParts
<1>6. CASE ~Past /\ u # Host /\ Booking(u) # "none"
  <2>1. DetailsContext(u, g, t) = BookingContext(Booking(u), g)
    BY <1>4, <1>6 DEF ResolveViewerState
  <2>2. DetailsContext(u, g, t).actions \subseteq
          IF Booking(u) = "accepted" THEN {"open_chat", "cancel_booking"} ELSE {"cancel_booking"}
    <3>1. Booking(u) \in {"accepted", "pending", "rejected"}
      BY <1>1, <1>6, BookingRead
    <3>2. QED BY <2>1, <3>1, ContextParts DEF BookingContext
  <2>3. Honoured(u, "cancel_booking", g, t)
    BY <1>6 DEF Honoured, DeleteAccepted, Requested
  <2>4. Booking(u) = "accepted" => Honoured(u, "open_chat", g, t)
    BY <1>6 DEF Honoured, RideReaders, Riding, RideSockets, RideViewerRole, Members
  <2>5. ~RequestAccepted(u, g, t)
    BY <1>6 DEF RequestAccepted, Requested
  <2>6. QED BY <2>2, <2>3, <2>4, <2>5
<1>7. CASE ~Past /\ u # Host /\ Booking(u) = "none"
  <2>1. DetailsContext(u, g, t) = SeatContext(SeatsOnDetails, t)
    BY <1>4, <1>7 DEF ResolveViewerState
  <2>2. SeatsOnDetails = Cardinality(Confirmed)
    BY <1>1, SeatCounts
  <2>3. DetailsContext(u, g, t).actions =
          IF CanAcceptAnotherPassenger(t, Cardinality(Confirmed)) THEN {"request_seat"} ELSE {}
    BY <2>1, <2>2, ContextParts DEF SeatContext
  <2>4. CanAcceptAnotherPassenger(t, Cardinality(Confirmed)) => Honoured(u, "request_seat", g, t)
    BY <1>7 DEF Honoured, RequestAccepted, Requested
  <2>5. RequestAccepted(u, g, t) => CanAcceptAnotherPassenger(t, Cardinality(Confirmed))
    BY DEF RequestAccepted
  <2>6. QED BY <2>3, <2>4, <2>5
<1>8. QED BY <1>3, <1>5, <1>6, <1>7

(* What one screen shows of a ride the other shows, although one counts    *)
(* the bookings and the other reads booked_seats, and what they offer the  *)
(* endpoints accept, apart from the cases that Honoured names.             *)
THEOREM ScreensAreHonest == Spec => []ScreensHonest
<1>1. TripInv => ScreensHonest
  BY ScreensSame, OffersHeld DEF TripInv, ScreensHonest
<1>2. QED BY <1>1, TripInvariant, PTL

=============================================================================
