---------------------------- MODULE Verification ----------------------------
(***************************************************************************)
(* Proving that one owns an institute address: a challenge (a row with a   *)
(* code and a link) is mailed to it, and the user sends the code or taps   *)
(* the link.  One user and one address: other pairs do not meet these      *)
(* rows.  Requests are split at their statements, none of which, but the   *)
(* last, runs in a transaction.                                            *)
(***************************************************************************)
EXTENDS Naturals, FiniteSets, Combinatorics

CONSTANTS
  Rows,          \* ids of challenges
  Procs,         \* requests that can be in flight at the same time
  Idle,          \* the locals of a process that serves no request
  Wrong,         \* a code that is on no mail
  MaxAttempts,   \* verifyMaxAttempts
  TTL,           \* verifyCodeTTL, in ticks
  Cooldown,      \* verifyResendCooldown, in ticks
  MaxNow         \* bound on time

ASSUME TunablesAssumption ==
  /\ MaxAttempts \in Nat \ {0} /\ TTL \in Nat /\ Cooldown \in Nat /\ MaxNow \in Nat
  /\ Wrong \notin Rows

(* What a handler carries from one statement to the next. *)
Tasks ==
  [pc : {"insert"}, ok : BOOLEAN]
    \cup [pc : {"mail"}, row : Rows]
    \cup [pc : {"wrong", "consume"}, row : Rows, seen : Nat]

ASSUME ProcsAssumption == IsFiniteSet(Procs) /\ Idle \notin Tasks

VARIABLES
  now,
  state,      \* each row: not inserted, open, consumed, or deleted again
  born,       \* created_at; expires_at is TTL later
  attempts,
  verified,   \* is_email_verified
  mailed,     \* challenges whose mail reached the user
  loc,        \* each process: its next statement and what it has read
  tried,      \* wrong codes that were compared with a row, and counted
  uses,       \* requests that a row has confirmed
  lapsed      \* rows inserted after the cooldown query failed

rowVars  == <<state, born, attempts, verified>>
bookVars == <<tried, uses, lapsed>>
vars     == <<now, rowVars, mailed, loc, bookVars>>

States == {"unborn", "open", "consumed", "gone"}

Init ==
  /\ now = 0
  /\ state    = [r \in Rows |-> "unborn"]
  /\ born     = [r \in Rows |-> 0]
  /\ attempts = [r \in Rows |-> 0]
  /\ verified = FALSE
  /\ mailed   = {}
  /\ loc      = [p \in Procs |-> Idle]
  /\ tried    = [r \in Rows |-> 0]
  /\ uses     = [r \in Rows |-> 0]
  /\ lapsed   = {}

Tick == now < MaxNow /\ now' = now + 1 /\ UNCHANGED <<rowVars, mailed, loc, bookVars>>

Goto(p, l) == loc' = [loc EXCEPT ![p] = l]
Return(p)  == Goto(p, Idle)
At(p, pc)  == loc[p] # Idle /\ loc[p].pc = pc

Exists(r) == state[r] \in {"open", "consumed"}

(* Mutant: consumed_at IS NULL is forgotten. *)
PendingOrUsed == {r \in Rows : Exists(r)}

Pending == {r \in Rows : state[r] = "open"}

(* ORDER BY created_at DESC, the first: among equals any. *)
Latest == {r \in Pending : \A s \in Pending : born[s] <= born[r]}

Expired(r) == now > born[r] + TTL

-----------------------------------------------------------------------------
(* POST /verify/start. *)

(* Mutant: the comparison is the wrong way round. *)
CoolingAfterwards == \E r \in Latest : now - born[r] >= Cooldown

Cooling == \E r \in Latest : now - born[r] < Cooldown

(* A failed query is logged, and does not stop the request. *)
StartCheck(p) ==
  /\ loc[p] = Idle
  /\ \E ok \in BOOLEAN :
       /\ ok => ~Cooling
       /\ Goto(p, [pc |-> "insert", ok |-> ok])
  /\ UNCHANGED <<now, rowVars, mailed, bookVars>>

StartInsert(p) ==
  /\ At(p, "insert")
  /\ \E r \in Rows :
       /\ state[r] = "unborn"
       /\ state'  = [state EXCEPT ![r] = "open"]
       /\ born'   = [born EXCEPT ![r] = now]
       /\ lapsed' = IF loc[p].ok THEN lapsed ELSE lapsed \cup {r}
       /\ Goto(p, [pc |-> "mail", row |-> r])
  /\ UNCHANGED <<now, attempts, verified, mailed, tried, uses>>

(* SES may deliver a mail and still report an error, and the other way      *)
(* round; on an error the row is deleted, so that one can start again.      *)
StartMail(p) ==
  /\ At(p, "mail")
  /\ \E delivered, error \in BOOLEAN :
       LET r == loc[p].row IN
       /\ mailed' = IF delivered THEN mailed \cup {r} ELSE mailed
       /\ IF error THEN /\ state'    = [state EXCEPT ![r] = "gone"]
                        /\ born'     = [born EXCEPT ![r] = 0]
                        /\ attempts' = [attempts EXCEPT ![r] = 0]
                        /\ lapsed'   = lapsed \ {r}
                   ELSE UNCHANGED <<state, born, attempts, lapsed>>
  /\ Return(p)
  /\ UNCHANGED <<now, verified, tried, uses>>

-----------------------------------------------------------------------------
(* POST /verify/confirm. *)

AttemptsLeft(r) == attempts[r] < MaxAttempts

(* A code is compared with the newest open challenge of the address only. *)
EnterCode(p, code) ==
  /\ loc[p] = Idle
  /\ \E r \in Latest :
       /\ ~Expired(r)
       /\ AttemptsLeft(r)
       /\ Goto(p, [pc |-> IF code = r THEN "consume" ELSE "wrong",
                   row |-> r, seen |-> attempts[r]])
  /\ UNCHANGED <<now, rowVars, mailed, bookVars>>

(* A link names its challenge; attempts play no part. *)
OpenLink(p, r) ==
  /\ loc[p] = Idle
  /\ r \in Pending
  /\ ~Expired(r)
  /\ Goto(p, [pc |-> "consume", row |-> r, seen |-> attempts[r]])
  /\ UNCHANGED <<now, rowVars, mailed, bookVars>>

(* UPDATE ... SET attempts to the number read, plus one; its error is       *)
(* ignored.                                                                 *)
CountWrong(p) ==
  /\ At(p, "wrong")
  /\ LET r == loc[p].row IN
       \/ /\ Exists(r)
          /\ attempts' = [attempts EXCEPT ![r] = loc[p].seen + 1]
          /\ tried'    = [tried EXCEPT ![r] = @ + 1]
       \/ UNCHANGED <<attempts, tried>>
  /\ Return(p)
  /\ UNCHANGED <<now, state, born, verified, mailed, uses, lapsed>>

(* Mutant: the two UPDATEs are no transaction, and the second may fail. *)
ConsumeByHalves(p) ==
  /\ At(p, "consume")
  /\ LET r == loc[p].row IN
       /\ state'    = IF Exists(r) THEN [state EXCEPT ![r] = "consumed"] ELSE state
       /\ attempts' = IF Exists(r) THEN [attempts EXCEPT ![r] = loc[p].seen + 1] ELSE attempts
       /\ \E ok \in BOOLEAN : verified' = (verified \/ ok)
       /\ uses'     = [uses EXCEPT ![r] = @ + 1]
  /\ Return(p)
  /\ UNCHANGED <<now, born, mailed, tried, lapsed>>

(* One transaction: consume the row, by id alone, and mark the user.  It    *)
(* may fail as a whole; a row that is gone meanwhile does not stop it.      *)
Consume(p) ==
  /\ At(p, "consume")
  /\ LET r == loc[p].row IN
       \/ /\ state'    = IF Exists(r) THEN [state EXCEPT ![r] = "consumed"] ELSE state
          /\ attempts' = IF Exists(r) THEN [attempts EXCEPT ![r] = loc[p].seen + 1] ELSE attempts
          /\ verified' = TRUE
          /\ uses'     = [uses EXCEPT ![r] = @ + 1]
       \/ UNCHANGED <<state, attempts, verified, uses>>
  /\ Return(p)
  /\ UNCHANGED <<now, born, mailed, tried, lapsed>>

-----------------------------------------------------------------------------
Next ==
  \/ Tick
  \/ \E p \in Procs :
       \/ StartCheck(p) \/ StartInsert(p) \/ StartMail(p)
       \/ \E code \in mailed \cup {Wrong} : EnterCode(p, code)
       \/ \E r \in mailed : OpenLink(p, r)
       \/ CountWrong(p) \/ Consume(p)

Spec == Init /\ [][Next]_vars

-----------------------------------------------------------------------------
(* Rows and requests are well formed; a row that is gone counts nothing. *)
TypeOK ==
  /\ now \in 0 .. MaxNow
  /\ state \in [Rows -> States]
  /\ born \in [Rows -> 0 .. MaxNow]
  /\ attempts \in [Rows -> Nat]
  /\ \A r \in Rows : state[r] \in {"unborn", "gone"} => attempts[r] = 0
  /\ verified \in BOOLEAN
  /\ mailed \subseteq Rows /\ lapsed \subseteq Rows
  /\ tried \in [Rows -> Nat] /\ uses \in [Rows -> Nat]
  /\ loc \in [Procs -> Tasks \cup {Idle}]

(* How many wrong codes one challenge can take when requests overlap: each  *)
(* request stores the count that it read plus one, so a slow one sets the   *)
(* count back and others go on from there.  With n requests at a time the   *)
(* most is (MaxAttempts + n over n) - 1, and not MaxAttempts.               *)
TriesBounded ==
  LET n == Cardinality(Procs)
  IN  \A r \in Rows : tried[r] <= choose(MaxAttempts + n, n) - 1

(* A code or link is called single-use (EmailVerificationModel.go); it      *)
(* confirms at most the requests that were under way when it was first used. *)
UsesBounded == \A r \in Rows : uses[r] <= Cardinality(Procs)

(* What overlapping requests can get out of one challenge.                  *)
ChallengesBounded == TriesBounded /\ UsesBounded

(* Mails to an address are spaced by the cooldown: of the challenges still  *)
(* open, no more than one per overlapping request were made within one      *)
(* cooldown (those aside whose check failed).                               *)
MailsSpaced ==
  \A t \in 0 .. MaxNow :
    Cardinality({r \in Pending \ lapsed : born[r] \in t .. t + Cooldown - 1})
      <= Cardinality(Procs)

(* A challenge that is used up has verified its user: nobody is told that   *)
(* the code has been used already and stays unverified.                     *)
ConsumedVerifies == (\E r \in Rows : state[r] = "consumed") => verified
=============================================================================
