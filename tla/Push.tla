-------------------------------- MODULE Push --------------------------------
(***************************************************************************)
(* Sending pushes: the tokens they go to, the throttle of chat pushes (in  *)
(* memory) and the cooldown of ride-update pushes (in the ride's row).     *)
(*                                                                         *)
(* A job is the goroutine that pushes about one message or one edit of the *)
(* ride; jobs are numbered as they begin, and so are the tokens that FCM    *)
(* gives to the app, of which only the present one is alive.               *)
(***************************************************************************)
EXTENDS Naturals, FiniteSets

CONSTANTS
  Recipients, Rooms,
  MaxJobs,     \* bound
  Window,      \* chatPushThrottleWindow, 2 minutes
  PurgeAfter,  \* 10 windows
  MaxEntries,  \* 10000
  Cooldown,    \* 5 minutes
  MaxTokens, MaxMinute   \* bounds

Jobs == 1..MaxJobs

(* A purge forgets nobody whom a goroutine that waits for the lock may     *)
(* still have to spare.                                                     *)
ASSUME PushAssumption ==
  /\ MaxJobs \in Nat
  /\ Window \in Nat \ {0} /\ PurgeAfter \in Nat /\ PurgeAfter + 2 >= 2 * Window
  /\ MaxEntries \in Nat /\ Cooldown \in Nat \ {0}
  /\ MaxTokens \in Nat \ {0} /\ MaxMinute \in Nat \ {0}

VARIABLES
  minute,
  app,       \* the number of the app's present token
  token,     \* users.fcm_token, 0 when it is empty
  saved,     \* history: the token the app saved last, 0 after a logout
  raced,     \* history: whose token was saved while a push to an older one ran
  lastSent,  \* chatPushThrottle.lastSent, 0 where there is no entry
  notified,  \* update_notif_last_sent_at, 0 for NULL
  job,
  failed     \* history: edits whose stamp could not be written

pushVars == <<minute, app, token, saved, raced, lastSent, notified, job, failed>>

NoJob == [step |-> "idle"]
Keys  == Rooms \X Recipients

PushInit ==
  /\ minute = 1
  /\ app = [u \in Recipients |-> 1]
  /\ token = [u \in Recipients |-> 1]
  /\ saved = token /\ raced = {}
  /\ lastSent = [k \in Keys |-> 0]
  /\ notified = 0
  /\ job = [j \in Jobs |-> NoJob]
  /\ failed = {}

PushTick ==
  /\ minute < MaxMinute
  /\ minute' = minute + 1
  /\ UNCHANGED <<app, token, saved, raced, lastSent, notified, job, failed>>

Begins(j) == job[j] = NoJob /\ \A i \in 1..(j - 1) : job[i] # NoJob
At(j, step) == job[j].step = step
Becomes(j, r) == job' = [job EXCEPT ![j] = r]
Goes(j, step) == Becomes(j, [job[j] EXCEPT !.step = step])

-----------------------------------------------------------------------------
(* The app's tokens. *)

(* FCM gives the app another token (a new install, a rotation). *)
NewToken(u) ==
  /\ app[u] < MaxTokens
  /\ app' = [app EXCEPT ![u] = @ + 1]
  /\ UNCHANGED <<minute, token, saved, raced, lastSent, notified, job, failed>>

InFlight(u) == {j \in Jobs : job[j].step \in {"timed", "sending", "dead"} /\ job[j].to[u] \notin {0, app[u]}}

UpdateUserToken(u) ==
  /\ token' = [token EXCEPT ![u] = app[u]]
  /\ saved' = [saved EXCEPT ![u] = app[u]]
  /\ raced' = IF InFlight(u) # {} THEN raced \cup {u} ELSE raced
  /\ UNCHANGED <<minute, app, lastSent, notified, job, failed>>

RemoveUserToken(u) ==
  /\ token' = [token EXCEPT ![u] = 0]
  /\ saved' = [saved EXCEPT ![u] = 0]
  /\ UNCHANGED <<minute, app, raced, lastSent, notified, job, failed>>

-----------------------------------------------------------------------------
(* A chat message.  Its ride, bookings, preferences and who is connected    *)
(* are read before; here the room decides.                                  *)

(* The tokens are read and the time is taken before the lock. *)
FilterChatPushThrottle(j, room) ==
  /\ Begins(j)
  /\ Becomes(j, [kind |-> "chat", room |-> room, to |-> token, at |-> minute, step |-> "timed"])
  /\ UNCHANGED <<minute, app, token, saved, raced, lastSent, notified, failed>>

Throttled(j, u) ==
  LET last == lastSent[<<job[j].room, u>>] IN last # 0 /\ job[j].at < last + Window

Entries(sent) == {k \in Keys : sent[k] # 0}

(* Mutant: the purge cuts at the present time. *)
PurgeNow(sent, at) == [k \in Keys |-> IF Cardinality(Entries(sent)) > MaxEntries /\ sent[k] < at THEN 0 ELSE sent[k]]

Purge(sent, at) ==
  [k \in Keys |-> IF Cardinality(Entries(sent)) > MaxEntries /\ sent[k] + PurgeAfter < at THEN 0 ELSE sent[k]]

(* One critical section.  Bound: a goroutine gets the lock within a window. *)
FilterUnderLock(j) ==
  LET listed  == {u \in Recipients : job[j].to[u] # 0}
      allowed == {u \in listed : ~Throttled(j, u)}
  IN  /\ At(j, "timed") /\ minute < job[j].at + Window
      /\ lastSent' = Purge([k \in Keys |-> IF k[1] = job[j].room /\ k[2] \in allowed THEN job[j].at
                                           ELSE lastSent[k]], job[j].at)
      /\ Becomes(j, IF allowed = {} THEN [kind |-> "chat", step |-> "silent"]
                    ELSE [kind |-> "chat", room |-> job[j].room, at |-> job[j].at, who |-> allowed,
                          to |-> [u \in Recipients |-> IF u \in allowed THEN job[j].to[u] ELSE 0],
                          step |-> "sending"])
      /\ UNCHANGED <<minute, app, token, saved, raced, notified, failed>>

-----------------------------------------------------------------------------
(* An edit of the ride.  The stamp that counts is the one in the row the    *)
(* request began with.                                                      *)

(* Edits that ran at the same time as j: those that have read the row and   *)
(* not written their stamp.                                                 *)
Overlapping == {i \in Jobs : job[i].step \in {"read", "stamping"}}

UpdateRide(j) ==
  /\ Begins(j)
  /\ job' = [i \in Jobs |->
       IF i = j THEN [kind |-> "edit", step |-> "read", prev |-> notified, beside |-> Overlapping,
                      after |-> {k \in Jobs : job[k].step \in {"sending", "dead", "done"} /\ job[k].kind = "edit"}]
       ELSE IF i \in Overlapping THEN [job[i] EXCEPT !.beside = @ \cup {j}] ELSE job[i]]
  /\ UNCHANGED <<minute, app, token, saved, raced, lastSent, notified, failed>>

CoolingDown(j) == job[j].prev # 0 /\ minute < job[j].prev + Cooldown

(* Nothing that the passengers see has changed, or it is too early, or the  *)
(* bookings cannot be read; or the stamp is due.                            *)
CheckCooldown(j) ==
  /\ At(j, "read")
  /\ \/ Becomes(j, [kind |-> "edit", step |-> "silent"])
     \/ ~CoolingDown(j) /\ Becomes(j, [at |-> minute, kind |-> "edit", step |-> "stamping",
                                       beside |-> job[j].beside, after |-> job[j].after])
  /\ UNCHANGED <<minute, app, token, saved, raced, lastSent, notified, failed>>

(* The stamp is written, or not, and the tokens are read, or not. *)
StampAndLoad(j) ==
  /\ At(j, "stamping")
  /\ \/ notified' = job[j].at /\ UNCHANGED failed
     \/ failed' = failed \cup {j} /\ UNCHANGED notified
  /\ \E to \in {token, [u \in Recipients |-> 0]} :
       Becomes(j, [at |-> job[j].at, kind |-> "edit", to |-> to, beside |-> job[j].beside,
                   after |-> job[j].after, step |-> "sending"])
  /\ UNCHANGED <<minute, app, token, saved, raced, lastSent>>

-----------------------------------------------------------------------------
(* SendBatch. *)

(* What FCM says of each message: it was taken; it failed; or its token is  *)
(* dead.                                                                    *)
Answers(j) ==
  {a \in [Recipients -> {"sent", "failed", "gone"}] :
     \A u \in Recipients : /\ a[u] = "gone" => job[j].to[u] \notin {0, app[u]}
                           /\ a[u] = "sent" => job[j].to[u] \in {0, app[u]}
                           /\ a[u] = "failed" => job[j].to[u] # 0}

(* Mutant: every failure is taken for a dead token. *)
DeadOnError(a) == {u \in Recipients : a[u] # "sent"}

Dead(a) == {u \in Recipients : a[u] = "gone"}

SendEach(j) ==
  /\ At(j, "sending")
  /\ \E a \in Answers(j) :
       job' = [job EXCEPT ![j].step = IF Dead(a) = {} THEN "done" ELSE "dead",
                          ![j].to = [u \in Recipients |-> IF u \in Dead(a) THEN @[u] ELSE 0]]
  /\ UNCHANGED <<minute, app, token, saved, raced, lastSent, notified, failed>>

(* The column is emptied by user, whatever it holds by then. *)
ClearTokens(j) ==
  /\ At(j, "dead")
  /\ \/ token' = [u \in Recipients |-> IF job[j].to[u] # 0 THEN 0 ELSE token[u]]
     \/ UNCHANGED token
  /\ Goes(j, "done")
  /\ UNCHANGED <<minute, app, saved, raced, lastSent, notified, failed>>

PushNext ==
  \/ PushTick
  \/ \E u \in Recipients : NewToken(u) \/ UpdateUserToken(u) \/ RemoveUserToken(u)
  \/ \E j \in Jobs : \/ \E room \in Rooms : FilterChatPushThrottle(j, room)
                     \/ FilterUnderLock(j)
                     \/ UpdateRide(j) \/ CheckCooldown(j) \/ StampAndLoad(j)
                     \/ SendEach(j) \/ ClearTokens(j)

PushSpec == PushInit /\ [][PushNext]_pushVars

-----------------------------------------------------------------------------
PushTypeOK ==
  /\ minute \in 1..MaxMinute
  /\ app \in [Recipients -> 1..MaxTokens]
  /\ token \in [Recipients -> 0..MaxTokens] /\ saved \in [Recipients -> 0..MaxTokens]
  /\ raced \subseteq Recipients /\ failed \subseteq Jobs
  /\ lastSent \in [Keys -> 0..MaxMinute] /\ notified \in 0..MaxMinute
  /\ \A j \in Jobs : job[j].step \in {"idle", "timed", "silent", "read", "stamping",
                                      "sending", "dead", "done"}

(* fcm_service.go:103-109, 386-405: a push that finds its token dead        *)
(* empties the column, which costs the app the token it has saved since     *)
(* only when it saved it while that push was on its way.                    *)
TokenKept ==
  \A u \in Recipients : saved[u] = app[u] => token[u] = saved[u] \/ u \in raced

Stamped == {j \in Jobs : job[j].step \in {"sending", "dead", "done"}}
StampedFor(kind) == {j \in Stamped : job[j].kind = kind}

(* chat.go:65-101 and RideCRUDRoutes.go:321-387: the pushes of a room are a *)
(* window apart, whatever the purge forgets and in whatever order the       *)
(* messages get the lock; those of edits are a cooldown apart when the      *)
(* later request began after the earlier one's stamp, unless the stamp      *)
(* failed or an edit that ran beside the earlier one overwrote it.          *)
PushesSpaced ==
  /\ \A i, j \in StampedFor("chat") : (i # j /\ job[i].room = job[j].room /\ job[i].who \cap job[j].who # {}) =>
       job[i].at >= job[j].at + Window \/ job[j].at >= job[i].at + Window
  /\ \A j \in StampedFor("edit") : \A i \in job[j].after :
       \/ job[j].at >= job[i].at + Cooldown
       \/ i \in failed \/ job[i].beside # {}
=============================================================================
