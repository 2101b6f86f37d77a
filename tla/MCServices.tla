----------------------------- MODULE MCServices -----------------------------
(***************************************************************************)
(* The smaller services of the server for TLC.  They share no state, so a  *)
(* behaviour runs one of them (part) while the others rest.                *)
(***************************************************************************)
EXTENDS OtaStore, ChatHistory, Accounts, Push, Mutes, Places, TLC

CONSTANTS h, a, r1, r2

VARIABLE part

(* Whole archives with their files at the top, under dist/ or in both, one  *)
(* for a single platform, one whose metadata promises too much, broken      *)
(* ones, one without metadata.                                              *)
MCArchives ==
  {[files |-> Files, dist |-> {}, lists |-> Platforms, whole |-> w] : w \in BOOLEAN}
   \cup {[files |-> {}, dist |-> Files, lists |-> Platforms, whole |-> w] : w \in BOOLEAN}
   \cup {[files |-> {"ios"}, dist |-> {"metadata", "ios"}, lists |-> {"ios"}, whole |-> TRUE]}
   \cup {[files |-> {"metadata", "ios"}, dist |-> {}, lists |-> l, whole |-> TRUE] : l \in {{"ios"}, Platforms}}
   \cup {[files |-> {"ios"}, dist |-> {}, lists |-> {}, whole |-> TRUE]}

MCHosts == r1 :> h @@ r2 :> a
MCTotal == r1 :> 3 @@ r2 :> 3

MCChanges == "rename" :> [field |-> "chat_name", to |-> TRUE]
          @@ "mute"   :> [field |-> "notifications_muted", to |-> TRUE]

(* Edits of the ride: no settings, a name alone (which unmutes), all of     *)
(* them, unmuting alone (which is ignored).                                 *)
MCBodies == {<<>>, "chat_name" :> TRUE, "notifications_muted" :> FALSE,
             "chat_name" :> TRUE @@ "notifications_muted" :> TRUE}

(* Pushes: the third job comes only when the tokens rest. *)
Calm == job[3] # NoJob => \A u \in Recipients : app[u] = 1 /\ token[u] = 1 /\ saved[u] = 1

(* Places: "Gate" has rides 15 km apart, one between them under a longer    *)
(* name, and one without coordinates; "Pune" has drifted to where the user  *)
(* is.                                                                      *)
Names == {"Pune", "VIT", "Gate", "Gate, Vellore", "Osm", "Current location", "no Latin letter"}
MCCurated   == <<[name |-> "VIT", at |-> 3, priority |-> 120], [name |-> "Pune", at |-> 100, priority |-> 85]>>
MCSearches  == [query : {Empty, "ab", "long"}, limit : {1, 3}, user : {0, Nowhere}, include : {TRUE}]
MCTrips     == {[name |-> "Pune", at |-> 0], [name |-> "Gate", at |-> Nowhere], [name |-> "Gate", at |-> 0],
                [name |-> "Gate, Vellore", at |-> 8], [name |-> "Gate", at |-> 15]}
MCCanonical == [n \in Names |-> Nowhere]
MCPlain     == [n \in Names |-> CASE n = "Gate, Vellore" -> "Gate" [] n = "no Latin letter" -> Empty [] OTHER -> n]
MCOrder     == "Current location" :> 1 @@ "Gate" :> 2 @@ "Gate, Vellore" :> 3 @@ "Osm" :> 4 @@ "Pune" :> 5 @@ "VIT" :> 6
               @@ "no Latin letter" :> 7
MCTextFit   == "ab"   :> [n \in Names |-> IF n = "VIT" THEN 45 ELSE 75]
            @@ "long" :> [n \in Names |-> CASE n = "Gate" -> 130 [] n = "Gate, Vellore" -> 105
                                            [] n = "VIT" -> 0 [] OTHER -> 75]
MCRemote    == {<<>>, <<[name |-> "Gate", at |-> 120], [name |-> "Osm", at |-> 1]>>,
                <<[name |-> "Pune", at |-> 1], [name |-> "Gate", at |-> 5]>>}

otaRests      == UNCHANGED otaVars
historyRests  == UNCHANGED historyVars
accountsRest  == UNCHANGED accountsVars
pushRests     == UNCHANGED pushVars
mutesRest     == UNCHANGED mutesVars
placesRest    == UNCHANGED placesVars

Runs(x) ==
  /\ part = x /\ UNCHANGED part
  /\ x = "ota" \/ otaRests
  /\ x = "history" \/ historyRests
  /\ x = "accounts" \/ accountsRest
  /\ x = "push" \/ pushRests
  /\ x = "mutes" \/ mutesRest
  /\ x = "places" \/ placesRest

Parts == {"ota", "history", "accounts", "push", "mutes", "places"}

(* Who rests has one initial state. *)
MCInit ==
  /\ part \in Parts
  /\ OtaInit /\ HistoryInit /\ AccountsInit /\ PushInit /\ MutesInit /\ PlacesInit
  /\ part # "ota" => archive = CHOOSE f \in [Uploads -> Archives] : TRUE
  /\ part # "places" => search = CHOOSE x \in Searches : TRUE

MCNext ==
  \/ Runs("ota") /\ OtaNext
  \/ Runs("history") /\ HistoryNext
  \/ Runs("accounts") /\ AccountsNext
  \/ Runs("push") /\ PushNext /\ Calm'
  \/ Runs("mutes") /\ MutesNext
  \/ Runs("places") /\ PlacesNext

allVars == <<part, otaVars, historyVars, accountsVars, pushVars, mutesVars, placesVars>>

MCSpec == MCInit /\ [][MCNext]_allVars
=============================================================================
