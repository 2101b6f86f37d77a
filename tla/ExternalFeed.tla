--------------------------- MODULE ExternalFeed ---------------------------
(***************************************************************************)
(* The rides of another service: a cache that is filled by one fetch at a  *)
(* time, whoever asks for it, and the mails that invite a host of such a   *)
(* ride, at most one per user and ride.                                    *)
(*                                                                         *)
(* Requests search the feed or ask for an invite; those of Inviters are of *)
(* one user about one ride (a double tap, a retry).  A fetch runs in the   *)
(* request that found the cache empty, or in a goroutine of its own        *)
(* (Background) when the cache is only old.                                *)
(***************************************************************************)
EXTENDS Naturals, FiniteSets

CONSTANTS Searchers, Inviters, Background

Requests == Searchers \cup Inviters
Fetchers == Requests \cup {Background}

ASSUME FeedAssumption ==
  /\ Searchers \cap Inviters = {}
  /\ Background \notin Requests

VARIABLES
  at,        \* where each request and the background fetch are
  cache,     \* "cold", or what the last good fetch saw: "ride" or "gone"
  old,       \* whether the cache has outlived vigoCacheTTL
  inFlight,  \* vigoRefreshInFlight
  upstream,  \* "ride" while the other service lists the ride
  seen,      \* what each request got from getUsableVigoCache
  lease,     \* the row of external_invites_sent
  mails,     \* mails that left
  slips      \* history: what went wrong around the lease

feedVars == <<at, cache, old, inFlight, upstream, seen, lease, mails, slips>>

Slips == {"unconfirmed", "refused", "unreleased", "crash"}

FeedInit ==
  /\ at = [f \in Fetchers |-> "idle"]
  /\ cache = "cold" /\ old = FALSE /\ inFlight = FALSE
  /\ upstream = "ride"
  /\ seen = [p \in Requests |-> "nothing"]
  /\ lease = FALSE /\ mails = 0 /\ slips = {}

Moves(p, from, to) == at[p] = from /\ at' = [at EXCEPT ![p] = to]

(* Searches are done with what they got; invites look for the ride in it.   *)
AfterFeed(p, got) == IF p \in Inviters /\ got = "ride" THEN "lease" ELSE "done"

Gets(p, from, got) == Moves(p, from, AfterFeed(p, got)) /\ seen' = [seen EXCEPT ![p] = got]

Snapshot == IF cache = "cold" THEN "nothing" ELSE cache

-----------------------------------------------------------------------------
(* The cache. *)

Ask(p) ==
  /\ IF cache = "cold" THEN Moves(p, "idle", "cold") /\ UNCHANGED seen
     ELSE IF old THEN Moves(p, "idle", "old") /\ seen' = [seen EXCEPT ![p] = cache]
     ELSE Gets(p, "idle", cache)
  /\ UNCHANGED <<cache, old, inFlight, upstream, lease, mails, slips>>

(* An old cache is served as it is, and a fetch is started if none runs.    *)
RefreshInBackground(p) ==
  /\ at[p] = "old"
  /\ inFlight' = TRUE
  /\ at' = [at EXCEPT ![p] = AfterFeed(p, seen[p]),
                      ![Background] = IF inFlight THEN @ ELSE "fetching"]
  /\ UNCHANGED <<cache, old, upstream, seen, lease, mails, slips>>

RefreshSynchronously(p) ==
  /\ IF inFlight THEN Moves(p, "cold", "waiting") ELSE Moves(p, "cold", "fetching")
  /\ inFlight' = TRUE
  /\ UNCHANGED <<cache, old, upstream, seen, lease, mails, slips>>

(* The fetch ends, if only by its timeout; an error changes no cache. *)
Fetch(f) ==
  /\ Moves(f, "fetching", "fetched")
  /\ \/ cache' = upstream /\ old' = FALSE
     \/ UNCHANGED <<cache, old>>
  /\ UNCHANGED <<inFlight, upstream, seen, lease, mails, slips>>

(* inFlight goes down and everybody who waits is woken, in one critical     *)
(* section.                                                                 *)
Woken(who) == IF at[who] = "waiting" THEN "woken" ELSE at[who]

(* Mutant: only one of the waiting requests is woken. *)
WakeOne(f) ==
  /\ at[f] = "fetched"
  /\ inFlight' = FALSE
  /\ seen' = IF f = Background THEN seen ELSE [seen EXCEPT ![f] = Snapshot]
  /\ LET waiting == {w \in Fetchers : at[w] = "waiting"}
         next    == IF f = Background THEN "idle" ELSE AfterFeed(f, Snapshot)
     IN  IF waiting = {} THEN at' = [at EXCEPT ![f] = next]
         ELSE \E w \in waiting : at' = [at EXCEPT ![f] = next, ![w] = "woken"]
  /\ UNCHANGED <<cache, old, upstream, lease, mails, slips>>

WakeAll(f) ==
  /\ at[f] = "fetched"
  /\ inFlight' = FALSE
  /\ IF f = Background
     THEN at' = [w \in Fetchers |-> IF w = f THEN "idle" ELSE Woken(w)] /\ UNCHANGED seen
     ELSE /\ at' = [w \in Fetchers |-> IF w = f THEN AfterFeed(f, Snapshot) ELSE Woken(w)]
          /\ seen' = [seen EXCEPT ![f] = Snapshot]
  /\ UNCHANGED <<cache, old, upstream, lease, mails, slips>>

(* The loop around Cond.Wait looks again: another fetch may run by now.     *)
Recheck(p) ==
  /\ IF inFlight THEN Moves(p, "woken", "waiting") /\ UNCHANGED seen ELSE Gets(p, "woken", Snapshot)
  /\ UNCHANGED <<cache, old, inFlight, upstream, lease, mails, slips>>

GrowOld ==
  /\ cache # "cold" /\ ~old
  /\ old' = TRUE
  /\ UNCHANGED <<at, cache, inFlight, upstream, seen, lease, mails, slips>>

Delist ==
  /\ upstream = "ride"
  /\ upstream' = "gone"
  /\ UNCHANGED <<at, cache, old, inFlight, seen, lease, mails, slips>>

-----------------------------------------------------------------------------
(* The invite. *)

(* Mutant: a row that is there already is taken over. *)
TakeLeaseAnyway(p) ==
  /\ Moves(p, "lease", "sending")
  /\ lease' = TRUE
  /\ UNCHANGED <<cache, old, inFlight, upstream, seen, mails, slips>>

(* ON CONFLICT DO NOTHING: who inserts the row sends the mail.  The insert  *)
(* may fail, too.                                                           *)
TakeLease(p) ==
  /\ \/ ~lease /\ Moves(p, "lease", "sending") /\ lease' = TRUE
     \/ lease /\ Moves(p, "lease", "already") /\ UNCHANGED lease
     \/ Moves(p, "lease", "failed") /\ UNCHANGED lease
  /\ UNCHANGED <<cache, old, inFlight, upstream, seen, mails, slips>>

(* The mail leaves and is confirmed; is refused; or leaves although the     *)
(* call ends in an error.                                                   *)
SendInvite(p) ==
  /\ \/ Moves(p, "sending", "sent") /\ mails' = mails + 1 /\ UNCHANGED slips
     \/ Moves(p, "sending", "releasing") /\ slips' = slips \cup {"refused"} /\ UNCHANGED mails
     \/ /\ "unconfirmed" \notin slips
        /\ Moves(p, "sending", "releasing")
        /\ slips' = slips \cup {"unconfirmed"} /\ mails' = mails + 1
  /\ UNCHANGED <<cache, old, inFlight, upstream, seen, lease>>

(* The row is deleted so that the user may try again; nobody looks whether  *)
(* that worked.                                                             *)
ReleaseLease(p) ==
  /\ Moves(p, "releasing", "failed")
  /\ \/ lease' = FALSE /\ UNCHANGED slips
     \/ slips' = slips \cup {"unreleased"} /\ UNCHANGED lease
  /\ UNCHANGED <<cache, old, inFlight, upstream, seen, mails>>

(* Requests under way and the cache are lost; the row is not.               *)
FeedCrash ==
  /\ "crash" \notin slips
  /\ slips' = slips \cup {"crash"}
  /\ at' = [f \in Fetchers |-> IF f = Background THEN "idle"
                               ELSE IF at[f] \in {"idle", "already", "sent"} THEN at[f] ELSE "failed"]
  /\ cache' = "cold" /\ old' = FALSE /\ inFlight' = FALSE
  /\ UNCHANGED <<upstream, seen, lease, mails>>

-----------------------------------------------------------------------------
RequestStep(p) ==
  Ask(p) \/ RefreshInBackground(p) \/ RefreshSynchronously(p) \/ Recheck(p)
    \/ TakeLease(p) \/ SendInvite(p) \/ ReleaseLease(p)

FetchStep(f) == Fetch(f) \/ WakeAll(f)

FeedNext ==
  \/ \E p \in Requests : RequestStep(p)
  \/ \E f \in Fetchers : FetchStep(f)
  \/ GrowOld \/ Delist \/ FeedCrash

(* Goroutines are scheduled, and every call of the other service, of the    *)
(* database and of SES ends.                                                *)
FeedFairness ==
  /\ \A p \in Requests : WF_feedVars(RequestStep(p))
  /\ \A f \in Fetchers : WF_feedVars(FetchStep(f))

FeedSpec == FeedInit /\ [][FeedNext]_feedVars /\ FeedFairness

-----------------------------------------------------------------------------
Ended == {"done", "already", "sent", "failed"}

FeedTypeOK ==
  /\ at \in [Fetchers -> {"idle", "cold", "old", "fetching", "fetched", "waiting", "woken",
                          "lease", "sending", "releasing"} \cup Ended]
  /\ cache \in {"cold", "ride", "gone"}
  /\ old \in BOOLEAN /\ inFlight \in BOOLEAN /\ lease \in BOOLEAN
  /\ upstream \in {"ride", "gone"}
  /\ seen \in [Requests -> {"nothing", "ride", "gone"}]
  /\ mails \in Nat
  /\ slips \subseteq Slips

Fetching == {f \in Fetchers : at[f] \in {"fetching", "fetched"}}

(* external_rides.go:297-336: one fetch at a time, announced by the flag;   *)
(* and nobody waits on the condition variable while no fetch is there to    *)
(* wake it, however the ends of fetches, the crash and new requests mix.    *)
NobodyForgotten ==
  /\ inFlight <=> Fetching # {}
  /\ \A f, g \in Fetching : f = g
  /\ \A p \in Requests : at[p] = "waiting" => inFlight

(* external_rides.go:282-348: whoever asks for the feed is answered: a      *)
(* fetch that fails, or a second fetch that starts before a woken request   *)
(* has looked, leaves nobody waiting for ever.                              *)
FeedAnswers == \A p \in Requests : at[p] # "idle" ~> at[p] \in Ended

(* external_invite.go:79-116: the host gets one mail, and another only if   *)
(* one left that looked refused.  A lease stays without a mail only while   *)
(* its request is at work, after a crash, or after a DELETE that failed;    *)
(* and "already" without a mail was said while such a request was at work.  *)
InvitesOnce ==
  LET atWork == \E p \in Inviters : at[p] \in {"sending", "releasing"}
  IN  /\ mails <= 1 + Cardinality(slips \cap {"unconfirmed"})
      /\ (lease /\ mails = 0) => atWork \/ slips \cap {"crash", "unreleased"} # {}
      /\ (mails = 0 /\ \E p \in Inviters : at[p] = "already") =>
           atWork \/ slips \cap {"crash", "refused"} # {}
=============================================================================
