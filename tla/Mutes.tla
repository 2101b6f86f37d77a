------------------------------- MODULE Mutes -------------------------------
(***************************************************************************)
(* Who wants which pushes: a user's preferences (rows per category, and    *)
(* for chat messages also per ride), the ride's own settings, which any    *)
(* accepted traveller may change and the host overwrite, and the places    *)
(* that read them: fan-outs, the scheduler, the chat list and the settings *)
(* screens.                                                                *)
(*                                                                         *)
(* One ride.  A note is a push that is being decided.                       *)
(***************************************************************************)
EXTENDS Naturals, FiniteSets

CONSTANTS
  Members,   \* host and accepted passengers, all with a token
  Others,    \* categories besides chat_messages
  Changes,   \* request of UpdateRideSettings |-> [field, to]
  Bodies,    \* "settings" in what the host sends to edit the ride: field |-> value,
             \* for the fields that are in it
  Notes

Chat       == "chat_messages"
Categories == {Chat} \cup Others
Fields     == {"chat_name", "notifications_muted"}
Edits      == DOMAIN Changes

ASSUME MutesAssumption ==
  /\ Chat \notin Others
  /\ \A q \in Edits : Changes[q].field \in Fields /\ Changes[q].to \in BOOLEAN
  /\ \A b \in Bodies : DOMAIN b \subseteq Fields /\ \A f \in DOMAIN b : b[f] \in BOOLEAN

VARIABLES
  general,   \* preference row without a ride, by user and category: "none" without a row
  forRide,   \* the chat preference of a user for the ride
  settings,  \* rides.settings; a name is told by whether there is one
  edit,      \* requests of UpdateRideSettings under way
  wanted,    \* history: what each field was last set to
  torn,      \* history: whether anything else was written while such a request ran
  slighted,  \* history: fields that an edit of the ride has not left as they were set
  note,
  willing,   \* history: who wanted the note's push at some time since it began
  unwilling, \*          who did not
  open       \* history: whether the ride was not muted at some time since

mutesVars == <<general, forRide, settings, edit, wanted, torn, slighted, note, willing, unwilling, open>>

NoEdit == [step |-> "new"]
NoMute == [category |-> "none", step |-> "none"]

MutesInit ==
  /\ general = [u \in Members |-> [c \in Categories |-> "none"]]
  /\ forRide = [u \in Members |-> "none"]
  /\ settings = [f \in Fields |-> FALSE]
  /\ edit = [q \in Edits |-> NoEdit]
  /\ wanted = settings /\ torn = FALSE /\ slighted = {}
  /\ note = [j \in Notes |-> NoMute]
  /\ willing = [j \in Notes |-> {}] /\ unwilling = [j \in Notes |-> {}]
  /\ open = [j \in Notes |-> FALSE]

-----------------------------------------------------------------------------
(* Readers. *)

Enabled(row, otherwise) == IF row = "none" THEN otherwise ELSE row = "on"

(* COALESCE(rp.enabled, gp.enabled, TRUE): the ride's row goes before the   *)
(* general one.  Rows for a ride exist for chat messages only.              *)
LoadAllowed(g, r, u, c) ==
  IF c = Chat THEN Enabled(r[u], Enabled(g[u][c], TRUE)) ELSE Enabled(g[u][c], TRUE)

IsNotificationAllowed(u, c) == LoadAllowed(general, forRide, u, c)

(* GetRideChatMute, and "muted" of GetRideSettings. *)
RideChatMute(u) == ~IsNotificationAllowed(u, Chat)

(* Mutant: a muted ride is shown only by the user's own rows. *)
ListMutedOwnRows(u) == general[u][Chat] = "off" \/ forRide[u] = "off"

(* notifications_muted in GetUserChats. *)
ListMuted(u) ==
  settings["notifications_muted"] \/ general[u][Chat] = "off" \/ forRide[u] = "off"

-----------------------------------------------------------------------------
(* Setters.  What they write is watched by the notes under way. *)

Watch ==
  LET running == {j \in Notes : note'[j].step \in {"begun", "unmuted"}}
      wants(j) == {u \in Members : LoadAllowed(general', forRide', u, note'[j].category)}
  IN  /\ willing' = [j \in Notes |-> IF j \in running THEN willing[j] \cup wants(j) ELSE willing[j]]
      /\ unwilling' = [j \in Notes |-> IF j \in running THEN unwilling[j] \cup (Members \ wants(j))
                                      ELSE unwilling[j]]
      /\ open' = [j \in Notes |-> open[j] \/ (j \in running /\ ~settings'["notifications_muted"])]

SetNotificationPreference(u, c, enabled) ==
  /\ general' = [general EXCEPT ![u][c] = enabled]
  /\ UNCHANGED <<forRide, settings, edit, wanted, torn, slighted, note>>
  /\ Watch

SetRideChatMute(u, enabled) ==
  /\ forRide' = [forRide EXCEPT ![u] = enabled]
  /\ UNCHANGED <<general, settings, edit, wanted, torn, slighted, note>>
  /\ Watch

ReadSettings(q) ==
  /\ edit[q] = NoEdit
  /\ edit' = [edit EXCEPT ![q] = [step |-> "read", was |-> settings]]
  /\ torn' = (torn \/ \E p \in Edits : edit[p].step = "read")
  /\ UNCHANGED <<general, forRide, settings, wanted, slighted, note>>
  /\ Watch

(* Mutant: a field that the body leaves out gets its zero value. *)
UpdatedFromBody(q) ==
  [f \in Fields |-> IF f = Changes[q].field THEN Changes[q].to ELSE FALSE]

(* The one field in the settings that were read. *)
Updated(q) == [edit[q].was EXCEPT ![Changes[q].field] = Changes[q].to]

(* All of them are written. *)
UpdateRideSettings(q) ==
  /\ edit[q].step = "read"
  /\ \/ /\ settings' = Updated(q)
        /\ wanted' = [wanted EXCEPT ![Changes[q].field] = Changes[q].to]
        /\ slighted' = slighted \ {Changes[q].field}
     \/ UNCHANGED <<settings, wanted, slighted>>
  /\ edit' = [edit EXCEPT ![q] = [step |-> "done"]]
  /\ UNCHANGED <<general, forRide, torn, note>>
  /\ Watch

(* The settings that a body is parsed into. *)
Parsed(b) == [f \in Fields |-> f \in DOMAIN b /\ b[f]]
Zero      == [f \in Fields |-> FALSE]

(* UpdateRideByID: Updates writes the fields of the ride that are not zero, *)
(* the settings being one of them.  So what the body leaves out of them is  *)
(* reset, and settings that are all false are not written.                  *)
UpdateRideByID(b) ==
  /\ wanted' = [f \in Fields |-> IF f \in DOMAIN b THEN b[f] ELSE wanted[f]]
  /\ IF Parsed(b) = Zero
     THEN slighted' = slighted \cup DOMAIN b /\ UNCHANGED settings
     ELSE slighted' = Fields \ DOMAIN b /\ settings' = Parsed(b)
  /\ torn' = (torn \/ \E p \in Edits : edit[p].step = "read")
  /\ UNCHANGED <<general, forRide, edit, note>>
  /\ Watch

-----------------------------------------------------------------------------
(* Deciding a push. *)

Begin(j, c) ==
  /\ note[j] = NoMute
  /\ note' = [note EXCEPT ![j] = [category |-> c, step |-> "begun"]]
  /\ UNCHANGED <<general, forRide, settings, edit, wanted, torn, slighted>>
  /\ Watch

(* Fan-outs look at the ride first. *)
LookAtRide(j) ==
  /\ note[j].step = "begun" /\ note[j].category = Chat
  /\ note' = [note EXCEPT ![j].step = IF settings["notifications_muted"] THEN "silent" ELSE "unmuted"]
  /\ UNCHANGED <<general, forRide, settings, edit, wanted, torn, slighted, willing, unwilling, open>>

(* LoadAllowedFCMTokens and ...ByRide. *)
Addressed(j) == {u \in Members : IsNotificationAllowed(u, note[j].category)}

(* When they fail, a fan-out gives up, but the scheduler asks everybody.    *)
Decide(j) ==
  /\ note[j].step = (IF note[j].category = Chat THEN "unmuted" ELSE "begun")
  /\ \/ note' = [note EXCEPT ![j] = [category |-> note[j].category, step |-> "sent", to |-> Addressed(j),
                                   blind |-> FALSE]]
     \/ note[j].category = Chat /\ note' = [note EXCEPT ![j].step = "silent"]
     \/ note[j].category # Chat /\ note' = [note EXCEPT ![j] = [category |-> note[j].category, step |-> "sent",
                                                             to |-> Members, blind |-> TRUE]]
  /\ UNCHANGED <<general, forRide, settings, edit, wanted, torn, slighted, willing, unwilling, open>>

MutesNext ==
  \/ \E u \in Members, e \in {"on", "off"} :
       SetRideChatMute(u, e) \/ \E c \in Categories : SetNotificationPreference(u, c, e)
  \/ \E q \in Edits : ReadSettings(q) \/ UpdateRideSettings(q)
  \/ \E b \in Bodies : UpdateRideByID(b)
  \/ \E j \in Notes : LookAtRide(j) \/ Decide(j) \/ \E c \in Categories : Begin(j, c)

MutesSpec == MutesInit /\ [][MutesNext]_mutesVars

-----------------------------------------------------------------------------
Rows == {"none", "on", "off"}

MutesTypeOK ==
  /\ general \in [Members -> [Categories -> Rows]]
  /\ forRide \in [Members -> Rows]
  /\ settings \in [Fields -> BOOLEAN] /\ wanted \in [Fields -> BOOLEAN]
  /\ edit \in [Edits -> {NoEdit} \cup [step : {"done"}]
                              \cup [step : {"read"}, was : [Fields -> BOOLEAN]]]
  /\ torn \in BOOLEAN /\ slighted \subseteq Fields
  /\ \A j \in Notes : note[j].step \in {"none", "begun", "unmuted", "silent", "sent"}
  /\ willing \in [Notes -> SUBSET Members] /\ unwilling \in [Notes -> SUBSET Members]
  /\ open \in [Notes -> BOOLEAN]

(* chat.go:780-820, 930-990 and notification_scheduler.go:256-272: a push   *)
(* goes to somebody only if there was a time, while it was being decided,   *)
(* when he wanted it, and it leaves out only who at some such time did not; *)
(* save that the scheduler, when it cannot read preferences, asks all.  And *)
(* the chat list calls a chat muted whose pushes would not come, and no     *)
(* other but one that its user has muted in general and unmuted for it.     *)
MutesAgree ==
  /\ \A j \in Notes : note[j].step = "sent" /\ ~note[j].blind =>
       /\ note[j].to \subseteq willing[j] /\ Members \ note[j].to \subseteq unwilling[j]
       /\ note[j].category = Chat => open[j]
  /\ \A u \in Members :
       LET silent == settings["notifications_muted"] \/ RideChatMute(u) IN
         /\ silent => ListMuted(u)
         /\ ListMuted(u) => silent \/ (general[u][Chat] = "off" /\ forRide[u] = "on")

(* rideSettings.go:134-160, RideCRUDRoutes.go:252, 314: the settings are     *)
(* written as a whole by two routes, and yet a field is what somebody last  *)
(* asked it to be, unless a write came between the read and the write of    *)
(* UpdateRideSettings, or the host edited the ride since the field was set, *)
(* with settings that left it out (then it is reset) or that were all false *)
(* (then they are ignored).                                                 *)
SettingsKept ==
  \/ torn
  \/ \A f \in Fields : /\ f \notin slighted => settings[f] = wanted[f]
                       /\ f \in slighted /\ settings[f] => ~wanted[f]
=============================================================================
