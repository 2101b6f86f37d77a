--------------------------- MODULE ServicesProof ---------------------------
(***************************************************************************)
(* Machine-checked theorems about OtaStore, Accounts and Places, for any   *)
(* uploads and archives, people and rides, searches and places: a manifest *)
(* names files that are all there for as long as the app may ask, the update *)
(* published last is the one served, what deleting accounts leaves of      *)
(* rides and their seats, and that curated places win.                     *)
(***************************************************************************)
EXTENDS OtaStore, Accounts, Places, FiniteSetTheorems, WellFoundedInduction, TLAPS

-----------------------------------------------------------------------------
(* Types of the update store. *)

Answers == [id : Uploads, platform : Platforms, created : Nat]

OtaTyped == OtaTypeOK /\ answers \in Seq(Answers)

(* A write to the root of one directory moves the clock on. *)
LEMMA TouchTyped ==
  ASSUME OtaTypeOK, NEW u \in Uploads, Touch(u)
  PROVE  /\ clock' \in Nat /\ mtime' \in [Uploads -> 0..clock']
         /\ \A v \in Uploads \ {u} : mtime'[v] = mtime[v]
         /\ \A v \in Uploads \ {u} : mtime'[v] < mtime'[u]
BY DEF OtaTypeOK, Touch

(* Directories change only while an upload unpacks into them. *)
LEMMA ExtractTyped ==
  ASSUME OtaTypeOK, NEW u \in Uploads, ExtractTar(u)
  PROVE  OtaTypeOK'
<1>1. PICK f \in archive[u].files \cup archive[u].dist :
        /\ \/ inner' = [inner EXCEPT ![u] = @ \cup {f}] /\ UNCHANGED root
           \/ root' = [root EXCEPT ![u] = @ \cup {f}] /\ UNCHANGED inner
        /\ Touch(u) \/ UNCHANGED <<clock, mtime>>
        /\ UNCHANGED <<stage, archive, overlap, latest, asking, answers>>
  BY DEF ExtractTar
<1>2. f \in Files
  BY OtaAssumption DEF OtaTypeOK
<1>3. root' \in [Uploads -> SUBSET Files] /\ inner' \in [Uploads -> SUBSET Files]
  BY <1>1, <1>2 DEF OtaTypeOK
<1>4. clock' \in Nat /\ mtime' \in [Uploads -> 0..clock']
  BY <1>1, TouchTyped DEF OtaTypeOK
<1>5. QED BY <1>1, <1>3, <1>4 DEF OtaTypeOK

LEMMA MkStagingTyped ==
  ASSUME OtaTypeOK, NEW u \in Uploads, MkStaging(u)
  PROVE  OtaTypeOK'
<1>1. clock' \in Nat /\ mtime' \in [Uploads -> 0..clock']
  BY TouchTyped DEF MkStaging
<1>2. stage' \in [Uploads -> {"new", "unpacked", "published", "failed", "abandoned", "staging"}]
  BY DEF MkStaging, OtaTypeOK
<1>3. overlap' \in [Uploads -> SUBSET Uploads]
  BY DEF MkStaging, OtaTypeOK
<1>4. QED BY <1>1, <1>2, <1>3 DEF MkStaging, OtaTypeOK

(* A check keeps the files as they are, hoists some, or removes them all. *)
LEMMA CheckParts ==
  ASSUME OtaTypeOK, NEW u \in Uploads, CheckUnpacked(u)
  PROVE  /\ stage[u] = "staging" /\ UNCHANGED <<archive, overlap, latest, asking, answers>>
         /\ Touch(u) \/ UNCHANGED <<clock, mtime>>
         /\ root' \in [Uploads -> SUBSET Files] /\ inner' \in [Uploads -> SUBSET Files]
         /\ \A v \in Uploads \ {u} : root'[v] = root[v] /\ inner'[v] = inner[v]
         /\ \/ /\ stage' = [stage EXCEPT ![u] = "unpacked"]
               /\ Unpacked(u) /\ archive[u].whole
               /\ root[u] \subseteq root'[u]
               /\ root'[u] \cup inner'[u] = root[u] \cup inner[u]
            \/ stage' = [stage EXCEPT ![u] = "failed"]
<1>1. /\ stage[u] = "staging" /\ Unpacked(u) /\ UNCHANGED <<archive, overlap, latest, asking, answers>>
      /\ root \in [Uploads -> SUBSET Files] /\ inner \in [Uploads -> SUBSET Files]
  BY DEF CheckUnpacked, OtaTypeOK
<1>2. CASE RemoveAll(u)
  BY <1>1, <1>2 DEF RemoveAll
<1>3. CASE archive[u].whole /\ stage' = [stage EXCEPT ![u] = "unpacked"] /\ UNCHANGED <<root, inner, clock, mtime>>
  BY <1>1, <1>3
<1>4. CASE archive[u].whole /\ stage' = [stage EXCEPT ![u] = "unpacked"] /\ Hoist(u)
  <2>1. PICK moved \in SUBSET inner[u] :
          /\ root' = [root EXCEPT ![u] = @ \cup moved]
          /\ inner' = [inner EXCEPT ![u] = @ \ moved]
          /\ Touch(u) \/ UNCHANGED <<clock, mtime>>
    BY <1>4 DEF Hoist
  <2>2. moved \subseteq Files
    BY <1>1, <2>1
  <2>3. QED BY <1>1, <1>4, <2>1, <2>2
<1>5. QED BY <1>2, <1>3, <1>4 DEF CheckUnpacked

LEMMA CheckTyped ==
  ASSUME OtaTypeOK, NEW u \in Uploads, CheckUnpacked(u)
  PROVE  OtaTypeOK'
<1>1. clock' \in Nat /\ mtime' \in [Uploads -> 0..clock']
  BY CheckParts, TouchTyped DEF OtaTypeOK
<1>2. QED BY <1>1, CheckParts DEF OtaTypeOK

LEMMA PublishTyped ==
  ASSUME OtaTypeOK, NEW u \in Uploads, Publish(u)
  PROVE  OtaTypeOK'
<1>1. clock' \in Nat /\ mtime' \in [Uploads -> 0..clock']
  BY TouchTyped DEF Publish, RemoveAll, OtaTypeOK
<1>2. QED BY <1>1 DEF Publish, RemoveAll, OtaTypeOK

LEMMA OtaInitTyped == OtaInit => OtaTyped
BY DEF OtaInit, OtaTyped, OtaTypeOK

LEMMA OtaStepTyped == OtaTyped /\ [OtaNext]_otaVars => OtaTyped'
<1>1. SUFFICES ASSUME OtaTyped, [OtaNext]_otaVars PROVE OtaTyped'
  OBVIOUS
<1>2. CASE UNCHANGED otaVars
  BY <1>1, <1>2 DEF otaVars, OtaTyped, OtaTypeOK
<1>3. ASSUME NEW u \in Uploads, MkStaging(u) \/ ExtractTar(u) \/ CheckUnpacked(u) \/ Publish(u)
      PROVE  OtaTyped'
  <2>1. answers' = answers
    BY <1>3 DEF MkStaging, ExtractTar, CheckUnpacked, Publish
  <2>2. OtaTypeOK'
    BY <1>1, <1>3, MkStagingTyped, ExtractTyped, CheckTyped, PublishTyped DEF OtaTyped
  <2>3. QED BY <1>1, <2>1, <2>2 DEF OtaTyped
<1>4. ASSUME NEW p \in Platforms, LatestUpdateDir(p) PROVE OtaTyped'
  <2>1. PICK u \in Uploads : asking' = [platform |-> p, dir |-> u]
    BY <1>4 DEF LatestUpdateDir, Newest, Visible
  <2>2. QED BY <1>1, <1>4, <2>1 DEF LatestUpdateDir, OtaTyped, OtaTypeOK
<1>5. CASE Manifest
  <2>1. asking \in [platform : Platforms, dir : Uploads]
    BY <1>1, <1>5 DEF Manifest, OtaTyped, OtaTypeOK
  <2>2. PICK u \in Uploads, p \in Platforms : asking = [platform |-> p, dir |-> u]
    BY <2>1
  <2>3. [id |-> u, platform |-> p, created |-> mtime[u]] \in Answers
    BY <1>1 DEF OtaTyped, OtaTypeOK, Answers
  <2>4. answers' \in Seq(Answers)
    BY <1>1, <1>5, <2>2, <2>3 DEF Manifest, OtaTyped
  <2>5. QED BY <1>1, <1>5, <2>4 DEF Manifest, OtaTyped, OtaTypeOK
<1>6. CASE OtaCrash
  BY <1>1, <1>6 DEF OtaCrash, OtaTyped, OtaTypeOK
<1>7. QED BY <1>1, <1>2, <1>3, <1>4, <1>5, <1>6 DEF OtaNext

-----------------------------------------------------------------------------
(* Whole manifests. *)

(* What is unpacked is all of a whole archive; what came under dist/ may    *)
(* still be there.                                                          *)
Complete(u) ==
  /\ archive[u].whole /\ archive[u].files \subseteq root[u]
  /\ root[u] \cup inner[u] = archive[u].files \cup archive[u].dist

WholeInv == \A u \in Uploads : stage[u] \in {"unpacked", "published"} => Complete(u)

AnswersInv ==
  \A i \in DOMAIN answers :
    LET m == answers[i]
    IN  stage[m.id] = "published" /\ {"metadata", m.platform} \subseteq root[m.id] /\ m.created = mtime[m.id]

(* The directory that a manifest is being made from is newer than any that *)
(* an earlier one named.                                                   *)
AskingInv ==
  /\ asking # NotAsking => /\ stage[asking.dir] = "published"
                           /\ \A i \in DOMAIN answers : answers[i].created <= mtime[asking.dir]
  /\ \A i, j \in DOMAIN answers : i < j => answers[i].created <= answers[j].created

ManifestInv == WholeInv /\ AnswersInv /\ AskingInv

LEMMA AnswerParts ==
  ASSUME OtaTyped, NEW i \in DOMAIN answers
  PROVE  answers[i] \in Answers /\ answers[i].id \in Uploads /\ answers[i].created \in Nat
<1>1. answers[i] \in Answers
  BY DEF OtaTyped
<1>2. QED BY <1>1 DEF Answers

(* Nothing about a published directory ever changes. *)
LEMMA PublishedStays ==
  ASSUME OtaTyped, OtaNext, NEW u \in Uploads, stage[u] = "published"
  PROVE  /\ stage'[u] = "published" /\ root'[u] = root[u] /\ inner'[u] = inner[u] /\ mtime'[u] = mtime[u]
         /\ archive' = archive
<1>1. ASSUME NEW v \in Uploads, MkStaging(v) \/ ExtractTar(v) \/ CheckUnpacked(v) \/ Publish(v)
      PROVE  /\ stage'[u] = "published" /\ root'[u] = root[u] /\ inner'[u] = inner[u] /\ mtime'[u] = mtime[u]
             /\ archive' = archive
  <2>1. v # u
    BY <1>1 DEF MkStaging, ExtractTar, CheckUnpacked, Publish
  <2>2. CASE MkStaging(v)
    BY <2>1, <2>2 DEF MkStaging, Touch, OtaTyped, OtaTypeOK
  <2>3. CASE ExtractTar(v)
    BY <2>1, <2>3 DEF ExtractTar, Touch, OtaTyped, OtaTypeOK
  <2>4. CASE CheckUnpacked(v)
    BY <2>1, <2>4, CheckParts, TouchTyped DEF OtaTyped, OtaTypeOK
  <2>5. CASE Publish(v)
    BY <2>1, <2>5 DEF Publish, RemoveAll, Touch, OtaTyped, OtaTypeOK
  <2>6. QED BY <1>1, <2>2, <2>3, <2>4, <2>5
<1>2. ASSUME OtaCrash PROVE stage'[u] = "published" /\ UNCHANGED <<root, inner, mtime, archive>>
  BY <1>2 DEF OtaCrash, Working, OtaTyped, OtaTypeOK
<1>3. QED BY <1>1, <1>2 DEF OtaNext, LatestUpdateDir, Manifest

LEMMA WholeStep ==
  ASSUME OtaTyped, WholeInv, OtaNext
  PROVE  WholeInv'
<1>1. SUFFICES ASSUME NEW u \in Uploads, stage'[u] \in {"unpacked", "published"}
               PROVE  Complete(u)'
  BY DEF WholeInv
<1>2. ASSUME stage[u] \in {"unpacked", "published"}, UNCHANGED archive, root'[u] = root[u], inner'[u] = inner[u]
      PROVE  Complete(u)'
  BY <1>2 DEF WholeInv, Complete
<1>3. ASSUME NEW v \in Uploads, MkStaging(v) \/ ExtractTar(v) \/ CheckUnpacked(v) \/ Publish(v)
      PROVE  Complete(u)'
  <2>1. archive' = archive
    BY <1>3 DEF MkStaging, ExtractTar, CheckUnpacked, Publish
  <2>2. CASE MkStaging(v)
    BY <1>1, <1>2, <2>1, <2>2 DEF MkStaging, OtaTyped, OtaTypeOK
  <2>3. CASE ExtractTar(v)
    <3>1. u # v /\ stage'[u] = stage[u]
      BY <1>1, <2>3 DEF ExtractTar
    <3>2. root'[u] = root[u] /\ inner'[u] = inner[u]
      BY <2>3, <3>1 DEF ExtractTar, OtaTyped, OtaTypeOK
    <3>3. QED BY <1>1, <1>2, <2>1, <3>1, <3>2
  <2>4. CASE CheckUnpacked(v)
    <3>1. CASE u # v
      BY <1>1, <1>2, <2>1, <2>4, <3>1, CheckParts DEF OtaTyped, OtaTypeOK
    <3>2. CASE u = v
      <4>1. stage'[u] = "unpacked"
        BY <1>1, <2>4, <3>2, CheckParts DEF OtaTyped, OtaTypeOK
      <4>2. /\ Unpacked(u) /\ archive[u].whole /\ root[u] \subseteq root'[u]
            /\ root'[u] \cup inner'[u] = root[u] \cup inner[u]
        BY <2>4, <3>2, <4>1, CheckParts DEF OtaTyped, OtaTypeOK
      <4>3. QED BY <2>1, <4>2 DEF Complete, Unpacked
    <3>3. QED BY <3>1, <3>2
  <2>5. CASE Publish(v)
    BY <1>1, <1>2, <2>1, <2>5 DEF Publish, RemoveAll, OtaTyped, OtaTypeOK
  <2>6. QED BY <1>3, <2>2, <2>3, <2>4, <2>5
<1>4. CASE OtaCrash
  BY <1>1, <1>2, <1>4 DEF OtaCrash, Working, OtaTyped, OtaTypeOK
<1>5. CASE UNCHANGED <<stage, archive, root, inner>>
  BY <1>1, <1>2, <1>5
<1>6. QED BY <1>3, <1>4, <1>5 DEF OtaNext, LatestUpdateDir, Manifest

LEMMA AnswersStep ==
  ASSUME OtaTyped, AnswersInv, AskingInv, OtaNext
  PROVE  AnswersInv' /\ AskingInv'
<1>1. ASSUME NEW i \in DOMAIN answers
      PROVE  LET m == answers[i]
             IN  /\ m.id \in Uploads /\ stage'[m.id] = "published"
                 /\ {"metadata", m.platform} \subseteq root'[m.id] /\ m.created = mtime'[m.id]
  BY PublishedStays, AnswerParts DEF AnswersInv
<1>2. ASSUME asking # NotAsking
      PROVE  /\ asking.dir \in Uploads /\ asking.platform \in Platforms
             /\ stage'[asking.dir] = "published" /\ mtime'[asking.dir] = mtime[asking.dir]
  BY <1>2, PublishedStays DEF AskingInv, OtaTyped, OtaTypeOK
<1>3. CASE answers' = answers /\ (asking' = asking \/ asking' = NotAsking)
  <2>1. AnswersInv'
    BY <1>1, <1>3 DEF AnswersInv
  <2>2. AskingInv'
    BY <1>2, <1>3 DEF AskingInv
  <2>3. QED BY <2>1, <2>2
<1>4. ASSUME NEW p \in Platforms, LatestUpdateDir(p) PROVE AnswersInv' /\ AskingInv'
  <2>1. PICK u \in Newest(Visible) : asking' = [platform |-> p, dir |-> u]
    BY <1>4 DEF LatestUpdateDir
  <2>2. UNCHANGED <<stage, mtime, root, answers>>
    BY <1>4 DEF LatestUpdateDir
  <2>3. \A i \in DOMAIN answers : answers[i].created <= mtime[u]
    <3>1. TAKE i \in DOMAIN answers
    <3>2. answers[i].id \in Visible /\ answers[i].created = mtime[answers[i].id]
      BY AnswerParts DEF AnswersInv, Visible
    <3>3. QED BY <2>1, <3>2 DEF Newest
  <2>4. AnswersInv'
    BY <2>2 DEF AnswersInv
  <2>5. u \in Uploads /\ stage[u] = "published"
    BY <2>1 DEF Newest, Visible
  <2>6. AskingInv'
    BY <2>1, <2>2, <2>3, <2>5 DEF AskingInv
  <2>7. QED BY <2>4, <2>6
<1>5. ASSUME Manifest PROVE AnswersInv' /\ AskingInv'
  <2>1. asking # NotAsking /\ asking' = NotAsking /\ UNCHANGED <<stage, mtime, root>>
    BY <1>5 DEF Manifest
  <2>2. PICK u \in Uploads, p \in Platforms : asking = [platform |-> p, dir |-> u]
    BY <1>2, <2>1 DEF OtaTyped, OtaTypeOK
  <2>3. CASE answers' = answers
    BY <1>3, <2>1, <2>3
  <2>4. CASE {"metadata", p} \subseteq root[u] /\ answers' = Append(answers, [id |-> u, platform |-> p, created |-> mtime[u]])
    <3> DEFINE new == [id |-> u, platform |-> p, created |-> mtime[u]]
    <3>1. new \in Answers
      BY DEF OtaTyped, OtaTypeOK, Answers
    <3>2. /\ DOMAIN answers = 1 .. Len(answers) /\ DOMAIN answers' = 1 .. Len(answers) + 1 /\ Len(answers) \in Nat
          /\ \A i \in DOMAIN answers : answers'[i] = answers[i]
          /\ answers'[Len(answers) + 1] = new
      BY <2>4, <3>1 DEF OtaTyped
    <3>3. AnswersInv'
      <4>1. SUFFICES ASSUME NEW i \in DOMAIN answers'
                     PROVE  LET m == answers'[i]
                            IN  /\ stage'[m.id] = "published" /\ {"metadata", m.platform} \subseteq root'[m.id]
                                /\ m.created = mtime'[m.id]
        BY DEF AnswersInv
      <4>2. CASE i \in DOMAIN answers
        BY <1>1, <3>2, <4>2
      <4>3. CASE i = Len(answers) + 1
        BY <1>2, <2>1, <2>2, <2>4, <3>2, <4>3
      <4>4. QED BY <3>2, <4>1, <4>2, <4>3
    <3>4. \A i \in DOMAIN answers : answers[i].created <= mtime[u]
      BY <2>1, <2>2 DEF AskingInv
    <3>5. AskingInv'
      <4>1. SUFFICES ASSUME NEW i \in DOMAIN answers', NEW j \in DOMAIN answers', i < j
                     PROVE  answers'[i].created <= answers'[j].created
        BY <2>1 DEF AskingInv
      <4>2. i \in DOMAIN answers
        BY <3>2, <4>1
      <4>3. CASE j \in DOMAIN answers
        BY <3>2, <4>1, <4>2, <4>3 DEF AskingInv
      <4>4. CASE j = Len(answers) + 1
        BY <3>2, <3>4, <4>2, <4>4
      <4>5. QED BY <3>2, <4>1, <4>3, <4>4
    <3>6. QED BY <3>3, <3>5
  <2>5. QED BY <1>5, <2>2, <2>3, <2>4 DEF Manifest
<1>6. ASSUME NEW u \in Uploads, MkStaging(u) \/ ExtractTar(u) \/ CheckUnpacked(u) \/ Publish(u)
      PROVE  answers' = answers /\ asking' = asking
  BY <1>6 DEF MkStaging, ExtractTar, CheckUnpacked, Publish
<1>7. QED BY <1>3, <1>4, <1>5, <1>6 DEF OtaNext, OtaCrash

LEMMA ManifestInvariant == OtaSpec => [](OtaTyped /\ ManifestInv)
<1>1. OtaInit => OtaTyped /\ ManifestInv
  BY OtaInitTyped DEF OtaInit, ManifestInv, WholeInv, Complete, AnswersInv, AskingInv, NotAsking
<1>2. OtaTyped /\ ManifestInv /\ [OtaNext]_otaVars => (OtaTyped /\ ManifestInv)'
  <2>1. SUFFICES ASSUME OtaTyped, ManifestInv, [OtaNext]_otaVars PROVE OtaTyped' /\ ManifestInv'
    OBVIOUS
  <2>2. CASE UNCHANGED otaVars
    BY <2>1, <2>2, OtaStepTyped DEF otaVars, ManifestInv, WholeInv, Complete, AnswersInv, AskingInv
  <2>3. CASE OtaNext
    BY <2>1, <2>3, OtaStepTyped, WholeStep, AnswersStep DEF ManifestInv
  <2>4. QED BY <2>1, <2>2, <2>3
<1>3. QED BY <1>1, <1>2, PTL DEF OtaSpec

(* Stages, directories and their times stay well formed. *)
THEOREM OtaTypeCorrect == OtaSpec => []OtaTypeOK
<1>1. OtaTyped => OtaTypeOK
  BY DEF OtaTyped
<1>2. QED BY <1>1, OtaInitTyped, OtaStepTyped, PTL DEF OtaSpec

(* A manifest names an update that is published, unpacked from a whole     *)
(* archive with at most something left under dist/ (the hoist ignores its  *)
(* errors, ota.go:423-440), and what the manifest names is there to be     *)
(* fetched for as long as the app may ask; no app goes back to an older    *)
(* one (ManifestHandler, AssetHandler), whatever else is uploaded.         *)
THEOREM WholeUpdates == OtaSpec => []ManifestsWhole
<1>1. OtaTyped /\ ManifestInv => ManifestsWhole
  <2>1. SUFFICES ASSUME OtaTyped, ManifestInv PROVE ManifestsWhole
    OBVIOUS
  <2>2. ASSUME NEW i \in DOMAIN answers
        PROVE  LET m == answers[i]
               IN  /\ stage[m.id] = "published" /\ Complete(m.id)
                   /\ "metadata" \in root[m.id] /\ AssetByUpdate(m.id, m.platform) = {m.id}
    <3>1. answers[i].id \in Uploads
      BY <2>1, AnswerParts
    <3>2. QED BY <2>1, <3>1 DEF ManifestInv, WholeInv, AnswersInv, AssetByUpdate
  <2>3. QED BY <2>1, <2>2 DEF ManifestsWhole, ManifestInv, AskingInv, Complete
<1>2. QED BY <1>1, ManifestInvariant, PTL

-----------------------------------------------------------------------------
(* The update that is served. *)

AtWork == {u \in Uploads : stage[u] \in Working}

(* Uploads at work together know of each other.  One that is alone has     *)
(* written last; so has the published one that was alone, among those      *)
(* published.                                                              *)
ServedInv ==
  /\ \A u, v \in AtWork : u # v => v \in overlap[u]
  /\ \A u \in AtWork : overlap[u] = {} => \A v \in Uploads \ {u} : mtime[v] < mtime[u]
  /\ \A u \in latest :
       /\ u \in Visible
       /\ overlap[u] = {} => \A v \in Visible \ {u} : mtime[v] < mtime[u]

(* A step of an upload that is at work. *)
LEMMA WorkerStep ==
  ASSUME OtaTyped, ServedInv, NEW u \in AtWork, overlap' = overlap,
         Touch(u) \/ UNCHANGED <<clock, mtime>>,
         \A v \in Uploads \ {u} : stage'[v] = stage[v],
         \/ latest' = latest
         \/ latest' = {u} /\ stage'[u] = "published",
         stage'[u] # "published" \/ latest' = {u}
  PROVE  ServedInv'
<1>1. u \in Uploads /\ u \notin Visible
  BY DEF AtWork, Working, Visible
<1>2. /\ \A v \in Uploads \ {u} : mtime'[v] = mtime[v]
      /\ mtime' = mtime \/ \A v \in Uploads \ {u} : mtime'[v] < mtime'[u]
  BY <1>1, TouchTyped DEF OtaTyped
<1>3. AtWork' \subseteq AtWork
  BY <1>1 DEF AtWork
<1>4. \A v, w \in AtWork' : v # w => w \in overlap'[v]
  BY <1>3 DEF ServedInv
<1>5. \A v \in AtWork' : overlap'[v] = {} => \A w \in Uploads \ {v} : mtime'[w] < mtime'[v]
  <2>1. TAKE v \in AtWork'
  <2>2. HAVE overlap'[v] = {}
  <2>3. u = v
    BY <1>3, <2>2 DEF ServedInv
  <2>4. QED BY <1>2, <1>3, <2>2, <2>3 DEF ServedInv
<1>6. ASSUME NEW v \in latest'
      PROVE  v \in Visible' /\ (overlap'[v] = {} => \A w \in Visible' \ {v} : mtime'[w] < mtime'[v])
  <2>1. CASE v = u /\ latest' = {u}
    <3>1. v \in Visible'
      BY <1>1, <1>6, <2>1 DEF Visible, ServedInv
    <3>2. overlap[u] = {} => \A w \in Uploads \ {u} : mtime'[w] < mtime'[u]
      BY <1>2 DEF ServedInv
    <3>3. QED BY <2>1, <3>1, <3>2 DEF Visible
  <2>2. CASE latest' = latest /\ v # u
    <3>1. v \in Visible /\ Visible' \subseteq Visible \cup {u}
      BY <1>6, <2>2 DEF Visible, ServedInv
    <3>2. v \in Visible' /\ v \in Uploads
      BY <2>2, <3>1 DEF Visible
    <3>3. Visible' \subseteq Visible
      BY <1>6, <2>2, <3>1 DEF Visible
    <3>4. QED BY <1>1, <1>2, <1>6, <2>2, <3>2, <3>3 DEF ServedInv, Visible
  <2>3. QED BY <1>1, <1>6, <2>1, <2>2 DEF ServedInv
<1>7. QED BY <1>4, <1>5, <1>6 DEF ServedInv

LEMMA ServedStep ==
  ASSUME OtaTyped, ServedInv, [OtaNext]_otaVars
  PROVE  ServedInv'
<1>1. CASE UNCHANGED <<stage, overlap, mtime, latest>>
  BY <1>1 DEF ServedInv, AtWork, Visible
<1>2. ASSUME NEW u \in Uploads, MkStaging(u) PROVE ServedInv'
  <2>1. /\ stage[u] = "new" /\ stage' = [stage EXCEPT ![u] = "staging"] /\ latest' = latest
        /\ overlap' = [v \in Uploads |-> IF v = u THEN AtWork
                                         ELSE IF v \in AtWork THEN overlap[v] \cup {u} ELSE overlap[v]]
    BY <1>2 DEF MkStaging, AtWork
  <2>2. /\ \A v \in Uploads \ {u} : mtime'[v] = mtime[v]
        /\ \A v \in Uploads \ {u} : mtime'[v] < mtime'[u]
    BY <1>2, TouchTyped DEF MkStaging, OtaTyped
  <2>3. AtWork' = AtWork \cup {u} /\ u \notin AtWork
    BY <2>1 DEF AtWork, Working, OtaTyped, OtaTypeOK
  <2>4. Visible' = Visible /\ u \notin Visible
    BY <2>1 DEF Visible, OtaTyped, OtaTypeOK
  <2>5. \A v, w \in AtWork' : v # w => w \in overlap'[v]
    BY <2>1, <2>3 DEF ServedInv, AtWork
  <2>6. \A v \in AtWork' : overlap'[v] = {} => \A w \in Uploads \ {v} : mtime'[w] < mtime'[v]
    <3>1. TAKE v \in AtWork'
    <3>2. v \in AtWork => u \in overlap'[v]
      BY <2>1, <2>3 DEF AtWork
    <3>3. QED BY <2>2, <2>3, <3>2
  <2>7. ASSUME NEW v \in latest'
        PROVE  v \in Visible' /\ (overlap'[v] = {} => \A w \in Visible' \ {v} : mtime'[w] < mtime'[v])
    <3>1. v \in Visible /\ v \in latest
      BY <2>1 DEF ServedInv
    <3>2. v \in Uploads /\ v # u /\ v \notin AtWork
      BY <2>4, <3>1 DEF Visible, AtWork, Working
    <3>3. overlap'[v] = overlap[v]
      BY <2>1, <3>2
    <3>4. QED BY <2>2, <2>4, <3>1, <3>2, <3>3 DEF ServedInv, Visible
  <2>8. QED BY <2>5, <2>6, <2>7 DEF ServedInv
<1>3. ASSUME NEW u \in Uploads, ExtractTar(u) PROVE ServedInv'
  <2>1. UNCHANGED <<stage, overlap, latest>> /\ (Touch(u) \/ UNCHANGED <<clock, mtime>>) /\ stage[u] = "staging"
    BY <1>3 DEF ExtractTar
  <2>2. u \in AtWork
    BY <2>1 DEF AtWork, Working
  <2>3. QED BY <2>1, <2>2, WorkerStep
<1>4. ASSUME NEW u \in Uploads, CheckUnpacked(u) PROVE ServedInv'
  <2>1. /\ stage[u] = "staging" /\ UNCHANGED <<overlap, latest>> /\ (Touch(u) \/ UNCHANGED <<clock, mtime>>)
        /\ \E s \in {"unpacked", "failed"} : stage' = [stage EXCEPT ![u] = s]
    BY <1>4, CheckParts DEF OtaTyped
  <2>2. u \in AtWork
    BY <2>1 DEF AtWork, Working
  <2>3. stage'[u] # "published" /\ \A v \in Uploads \ {u} : stage'[v] = stage[v]
    BY <2>1 DEF OtaTyped, OtaTypeOK
  <2>4. QED BY <2>1, <2>2, <2>3, WorkerStep
<1>5. ASSUME NEW u \in Uploads, Publish(u) PROVE ServedInv'
  <2>1. /\ stage[u] = "unpacked" /\ UNCHANGED overlap /\ (Touch(u) \/ UNCHANGED <<clock, mtime>>)
        /\ \/ stage' = [stage EXCEPT ![u] = "published"] /\ latest' = {u}
           \/ stage' = [stage EXCEPT ![u] = "failed"] /\ latest' = latest
    BY <1>5 DEF Publish, RemoveAll
  <2>2. u \in AtWork
    BY <2>1 DEF AtWork, Working
  <2>3. /\ \A v \in Uploads \ {u} : stage'[v] = stage[v]
        /\ \/ stage'[u] = "published" /\ latest' = {u}
           \/ stage'[u] = "failed" /\ latest' = latest
    BY <2>1 DEF OtaTyped, OtaTypeOK
  <2>4. QED BY <2>1, <2>2, <2>3, WorkerStep
<1>6. CASE OtaCrash
  <2>1. AtWork' = {} /\ Visible' = Visible /\ UNCHANGED <<overlap, mtime, latest>>
    BY <1>6 DEF OtaCrash, AtWork, Visible, Working, OtaTyped, OtaTypeOK
  <2>2. QED BY <2>1 DEF ServedInv
<1>7. QED BY <1>1, <1>2, <1>3, <1>4, <1>5, <1>6 DEF OtaNext, LatestUpdateDir, Manifest, otaVars

(* The update published last is the one served, unless another upload was  *)
(* at work at the same time (latestUpdateDir orders by the last write). *)
THEOREM LastIsServed == OtaSpec => []LastUploadServed
<1>1. OtaInit => OtaTyped /\ ServedInv
  BY OtaInitTyped DEF OtaInit, ServedInv, AtWork, Working
<1>2. OtaTyped /\ ServedInv /\ [OtaNext]_otaVars => (OtaTyped /\ ServedInv)'
  BY OtaStepTyped, ServedStep
<1>3. OtaTyped /\ ServedInv => LastUploadServed
  <2>1. SUFFICES ASSUME OtaTyped, ServedInv, NEW u \in latest, overlap[u] = {} PROVE Newest(Visible) = {u}
    BY DEF LastUploadServed
  <2>2. u \in Visible /\ \A v \in Visible \ {u} : mtime[v] < mtime[u]
    BY <2>1 DEF ServedInv
  <2>3. \A v \in Visible : mtime[v] \in Nat
    BY <2>1 DEF Visible, OtaTyped, OtaTypeOK
  <2>4. QED BY <2>2, <2>3 DEF Newest
<1>4. QED BY <1>1, <1>2, <1>3, PTL DEF OtaSpec

-----------------------------------------------------------------------------
(* Accounts: what its bookings say of a ride. *)

(* The order of bookings is one of them, and strict. *)
OrderInv ==
  \A r \in Rides :
    /\ older[r] \subseteq Booked(r) \X Booked(r)
    /\ \A u \in People : <<u, u>> \notin older[r]
    /\ \A u, v, w \in People : <<u, v>> \in older[r] /\ <<v, w>> \in older[r] => <<u, w>> \in older[r]

(* Only a host who once was a passenger has a dead booking, an accepted    *)
(* one, and he has no other.                                               *)
RowsInv ==
  \A r \in Rides :
    /\ Booked(r) \subseteq users /\ host[r] \in users \cup {NoRide}
    /\ dead[r] \subseteq Accepted(r) \cap {host[r]}
    /\ host[r] \in Booked(r) => host[r] \in dead[r]
    /\ dead[r] # {} => r \in handed
    /\ ~There(r) => Booked(r) = {}

SeatInv ==
  \A r \in Rides : There(r) => /\ booked[r] = Cardinality(Riders(r)) + ghosts[r]
                               /\ booked[r] <= PassengerCapacity(Total[r])

NameInv == \A u \in People : author[u] \in {Silent, Nameless} \cup ({u} \cap users)

AccountsInv ==
  AccountsTypeOK /\ OrderInv /\ RowsInv /\ SeatInv /\ NameInv /\ \A x \in lost : x[1] \in handed

LEMMA LeastNumber ==
  ASSUME NEW T, T \subseteq Nat, T # {}
  PROVE  \E m \in T : \A n \in T : m <= n
<1>1. PICK m \in T : \A n \in T : ~ (<<n, m>> \in OpToRel(<, Nat))
  BY NatLessThanWellFounded, WFMin
<1>2. ASSUME NEW n \in T PROVE m <= n
  <2>1. m \in Nat /\ n \in Nat /\ ~ (n < m)
    BY <1>1 DEF OpToRel
  <2>2. QED BY <2>1
<1>3. QED BY <1>2

(* Of some accepted passengers one is the first. *)
LEMMA FirstExists ==
  ASSUME OrderInv, NEW r \in Rides, Accepted(r) # {}
  PROVE  FirstAccepted(r) \in Accepted(r)
<1> DEFINE Earlier(u) == {v \in Accepted(r) : <<v, u>> \in older[r]}
<1>1. \A u : IsFiniteSet(Earlier(u)) /\ Cardinality(Earlier(u)) \in Nat
  BY AccountsAssumption, FS_Subset, FS_CardinalityType DEF Accepted
<1>2. PICK u \in Accepted(r) : \A v \in Accepted(r) : Cardinality(Earlier(u)) <= Cardinality(Earlier(v))
  <2> DEFINE T == {Cardinality(Earlier(v)) : v \in Accepted(r)}
  <2>1. T \subseteq Nat /\ T # {}
    BY <1>1
  <2>2. PICK m \in T : \A n \in T : m <= n
    <3> HIDE DEF T
    <3>1. QED BY <2>1, LeastNumber
  <2>3. QED BY <2>2
<1>3. ASSUME NEW v \in Accepted(r), <<v, u>> \in older[r] PROVE FALSE
  <2>1. u \in People /\ v \in People
    BY DEF Accepted
  <2>2. Earlier(v) \subseteq Earlier(u)
    BY <1>3, <2>1 DEF OrderInv, Accepted
  <2>3. v \in Earlier(u) /\ v \notin Earlier(v)
    BY <1>3, <2>1 DEF OrderInv
  <2>4. Cardinality(Earlier(v)) <= Cardinality(Earlier(u)) /\ Cardinality(Earlier(v)) # Cardinality(Earlier(u))
    <3> HIDE DEF Earlier
    <3>1. QED BY <1>1, <2>2, <2>3, FS_Subset
  <2>5. Cardinality(Earlier(u)) <= Cardinality(Earlier(v))
    BY <1>2
  <2>6. QED
    <3> HIDE DEF Earlier
    <3>1. QED BY <1>1, <2>4, <2>5
<1>4. \E x \in Accepted(r) : \A v \in Accepted(r) : <<v, x>> \notin older[r]
  BY <1>2, <1>3
<1>5. QED BY <1>4 DEF FirstAccepted

LEMMA RidersCounted ==
  ASSUME NEW r
  PROVE  /\ IsFiniteSet(Riders(r)) /\ Cardinality(Riders(r)) \in Nat
         /\ Cardinality(Riders(r)) > 0 <=> Riders(r) # {}
BY AccountsAssumption, FS_Subset, FS_CardinalityType, FS_EmptySet DEF Riders, Accepted

(* A single booking changes. *)
LEMMA BookingSet ==
  ASSUME AccountsTypeOK, NEW r \in Rides, NEW u \in People, NEW st \in {"none", "pending", "accepted"},
         booking' = [booking EXCEPT ![r][u] = st]
  PROVE  /\ booking' \in [Rides -> [People -> {"none", "pending", "accepted"}]]
         /\ \A q \in Rides \ {r} : booking'[q] = booking[q]
         /\ booking'[r][u] = st /\ \A v \in People \ {u} : booking'[r][v] = booking[r][v]
BY DEF AccountsTypeOK

LEMMA OthersRest ==
  ASSUME NEW r, UNCHANGED <<booking[r], dead[r]>>
  PROVE  Booked(r)' = Booked(r) /\ Accepted(r)' = Accepted(r) /\ Riders(r)' = Riders(r)
BY DEF Booked, Accepted, Riders

-----------------------------------------------------------------------------
(* Requests of the booking flow. *)

LEMMA RequestSeatKeeps ==
  ASSUME AccountsInv, NEW r \in Rides, NEW u \in People, RequestSeat(r, u)
  PROVE  AccountsInv'
<1>1. /\ There(r) /\ u \in users /\ u # host[r] /\ booking[r][u] = "none"
      /\ booking' = [booking EXCEPT ![r][u] = "pending"]
      /\ older' = [older EXCEPT ![r] = @ \cup (Booked(r) \X {u})]
      /\ UNCHANGED <<users, host, due, ongoing, dead, booked, author, ghosts, handed, lost>>
  BY DEF RequestSeat, historyOfRides
<1>2. /\ booking' \in [Rides -> [People -> {"none", "pending", "accepted"}]]
      /\ \A q \in Rides \ {r} : booking'[q] = booking[q]
      /\ booking'[r][u] = "pending" /\ \A v \in People \ {u} : booking'[r][v] = booking[r][v]
  BY <1>1, BookingSet DEF AccountsInv
<1>3. /\ Booked(r)' = Booked(r) \cup {u} /\ u \notin Booked(r) /\ Accepted(r)' = Accepted(r)
      /\ Riders(r)' = Riders(r)
  BY <1>1, <1>2 DEF Booked, Accepted, Riders
<1>4. \A q \in Rides \ {r} : Booked(q)' = Booked(q) /\ Accepted(q)' = Accepted(q) /\ Riders(q)' = Riders(q)
  BY <1>1, <1>2, OthersRest
<1>5. AccountsTypeOK'
  BY <1>1, <1>2 DEF AccountsInv, AccountsTypeOK, Booked
<1>6. OrderInv'
  <2>1. \A q \in Rides \ {r} : older'[q] = older[q]
    BY <1>1 DEF AccountsInv, AccountsTypeOK
  <2>2. older'[r] = older[r] \cup (Booked(r) \X {u})
    BY <1>1 DEF AccountsInv, AccountsTypeOK
  <2>3. /\ older'[r] \subseteq Booked(r)' \X Booked(r)'
        /\ \A v \in People : <<v, v>> \notin older'[r]
    BY <1>3, <2>2 DEF AccountsInv, OrderInv
  <2>4. \A v, w, x \in People : <<v, w>> \in older'[r] /\ <<w, x>> \in older'[r] => <<v, x>> \in older'[r]
    BY <1>3, <2>2 DEF AccountsInv, OrderInv
  <2>5. QED BY <1>4, <2>1, <2>3, <2>4 DEF AccountsInv, OrderInv
<1>7. RowsInv'
  BY <1>1, <1>3, <1>4 DEF AccountsInv, RowsInv, There
<1>8. SeatInv'
  BY <1>1, <1>3, <1>4 DEF AccountsInv, SeatInv, There
<1>9. QED BY <1>1, <1>5, <1>6, <1>7, <1>8 DEF AccountsInv, NameInv

LEMMA AcceptKeeps ==
  ASSUME AccountsInv, NEW r \in Rides, NEW u \in People, AcceptPassenger(r, u)
  PROVE  AccountsInv'
<1>1. /\ booking[r][u] = "pending" /\ u \notin dead[r] /\ booked[r] < Total[r] - 1
      /\ booking' = [booking EXCEPT ![r][u] = "accepted"]
      /\ booked' = [booked EXCEPT ![r] = @ + 1]
      /\ UNCHANGED <<users, host, due, ongoing, dead, older, author, ghosts, handed, lost>>
  BY DEF AcceptPassenger, historyOfRides, PassengerSeatsLeftPredicate
<1>2. /\ booking' \in [Rides -> [People -> {"none", "pending", "accepted"}]]
      /\ \A q \in Rides \ {r} : booking'[q] = booking[q]
      /\ booking'[r][u] = "accepted" /\ \A v \in People \ {u} : booking'[r][v] = booking[r][v]
  BY <1>1, BookingSet DEF AccountsInv
<1>3. /\ Booked(r)' = Booked(r) /\ Accepted(r)' = Accepted(r) \cup {u}
      /\ Riders(r)' = Riders(r) \cup {u} /\ u \notin Riders(r)
  BY <1>1, <1>2 DEF Booked, Accepted, Riders
<1>4. \A q \in Rides \ {r} : Booked(q)' = Booked(q) /\ Accepted(q)' = Accepted(q) /\ Riders(q)' = Riders(q)
  BY <1>1, <1>2, OthersRest
<1>5. /\ booked[r] \in Nat /\ booked'[r] = booked[r] + 1 /\ \A q \in Rides \ {r} : booked'[q] = booked[q]
      /\ booked' \in [Rides -> Nat]
  BY <1>1 DEF AccountsInv, AccountsTypeOK
<1>6. AccountsTypeOK'
  BY <1>1, <1>2, <1>5 DEF AccountsInv, AccountsTypeOK
<1>7. OrderInv'
  BY <1>1, <1>3, <1>4 DEF AccountsInv, OrderInv
<1>8. RowsInv'
  BY <1>1, <1>3, <1>4 DEF AccountsInv, RowsInv, There
<1>9. SeatInv'
  <2>1. Cardinality(Riders(r)') = Cardinality(Riders(r)) + 1 /\ Cardinality(Riders(r)) \in Nat
    BY <1>3, RidersCounted, FS_AddElement
  <2>2. booked'[r] <= PassengerCapacity(Total[r])
    BY <1>1, <1>5, AccountsAssumption DEF PassengerCapacity
  <2>3. There(r) => booked'[r] = Cardinality(Riders(r)') + ghosts[r]
    BY <1>5, <2>1 DEF AccountsInv, SeatInv, AccountsTypeOK
  <2>4. QED BY <1>1, <1>4, <1>5, <2>2, <2>3 DEF AccountsInv, SeatInv, There
<1>10. QED BY <1>1, <1>6, <1>7, <1>8, <1>9 DEF AccountsInv, NameInv

(* An order stays one when somebody leaves it. *)
LEMMA OrderLess ==
  ASSUME OrderInv, NEW r \in Rides, NEW u \in People
  PROVE  /\ OlderWithout(r, u) \subseteq (Booked(r) \ {u}) \X (Booked(r) \ {u})
         /\ \A v \in People : <<v, v>> \notin OlderWithout(r, u)
         /\ \A v, w, x \in People :
              <<v, w>> \in OlderWithout(r, u) /\ <<w, x>> \in OlderWithout(r, u) => <<v, x>> \in OlderWithout(r, u)
BY DEF OrderInv, OlderWithout

LEMMA GiveUpKeeps ==
  ASSUME AccountsInv, NEW r \in Rides, NEW u \in People, GiveUpSeat(r, u)
  PROVE  AccountsInv'
<1>1. /\ u \in Booked(r) /\ u \notin dead[r]
      /\ booking' = [booking EXCEPT ![r][u] = "none"]
      /\ older' = [older EXCEPT ![r] = OlderWithout(r, u)]
      /\ booked' = [booked EXCEPT ![r] = IF u \in Riders(r) /\ @ > 0 THEN @ - 1 ELSE @]
      /\ UNCHANGED <<users, host, due, ongoing, dead, author, ghosts, handed, lost>>
  BY DEF GiveUpSeat, historyOfRides
<1>2. /\ booking' \in [Rides -> [People -> {"none", "pending", "accepted"}]]
      /\ \A q \in Rides \ {r} : booking'[q] = booking[q]
      /\ booking'[r][u] = "none" /\ \A v \in People \ {u} : booking'[r][v] = booking[r][v]
  BY <1>1, BookingSet DEF AccountsInv
<1>3. /\ Booked(r)' = Booked(r) \ {u} /\ Accepted(r)' = Accepted(r) \ {u}
      /\ Riders(r)' = Riders(r) \ {u}
  BY <1>1, <1>2 DEF Booked, Accepted, Riders
<1>4. \A q \in Rides \ {r} : Booked(q)' = Booked(q) /\ Accepted(q)' = Accepted(q) /\ Riders(q)' = Riders(q)
  BY <1>1, <1>2, OthersRest
<1>5. /\ older'[r] = OlderWithout(r, u) /\ \A q \in Rides \ {r} : older'[q] = older[q]
      /\ older' \in [Rides -> SUBSET (People \X People)]
  BY <1>1 DEF AccountsInv, AccountsTypeOK, OlderWithout
<1>6. /\ booked[r] \in Nat /\ booked'[r] = IF u \in Riders(r) /\ booked[r] > 0 THEN booked[r] - 1 ELSE booked[r]
      /\ \A q \in Rides \ {r} : booked'[q] = booked[q]
      /\ booked' \in [Rides -> Nat]
  BY <1>1 DEF AccountsInv, AccountsTypeOK
<1>7. AccountsTypeOK'
  BY <1>1, <1>2, <1>5, <1>6 DEF AccountsInv, AccountsTypeOK
<1>8. OrderInv'
  BY <1>1, <1>3, <1>4, <1>5, OrderLess DEF AccountsInv, OrderInv
<1>9. RowsInv'
  BY <1>1, <1>3, <1>4 DEF AccountsInv, RowsInv, There
<1>10. SeatInv'
  <2>1. Cardinality(Riders(r)') = Cardinality(Riders(r)) - (IF u \in Riders(r) THEN 1 ELSE 0)
    BY <1>3, RidersCounted, FS_RemoveElement
  <2>2. Cardinality(Riders(r)) \in Nat /\ (u \in Riders(r) => Cardinality(Riders(r)) > 0) /\ ghosts[r] \in Nat
    BY RidersCounted DEF AccountsInv, AccountsTypeOK
  <2>3. There(r) => /\ booked'[r] = Cardinality(Riders(r)') + ghosts[r]
                    /\ booked'[r] <= booked[r]
    BY <1>6, <2>1, <2>2 DEF AccountsInv, SeatInv
  <2>4. There(r) => booked'[r] <= PassengerCapacity(Total[r])
    BY <1>6, <2>3, AccountsAssumption DEF AccountsInv, SeatInv, PassengerCapacity
  <2>5. QED BY <1>1, <1>4, <1>6, <2>3, <2>4 DEF AccountsInv, SeatInv, There
<1>11. QED BY <1>1, <1>7, <1>8, <1>9, <1>10 DEF AccountsInv, NameInv

LEMMA DeleteRideKeeps ==
  ASSUME AccountsInv, NEW r \in Rides, DeleteHostedRide(r)
  PROVE  AccountsInv'
<1>1. /\ host' = [host EXCEPT ![r] = NoRide] /\ booking' = [booking EXCEPT ![r] = NoBookings]
      /\ dead' = [dead EXCEPT ![r] = {}] /\ older' = [older EXCEPT ![r] = {}]
      /\ UNCHANGED <<users, due, ongoing, booked, author, ghosts, handed, lost>>
  BY DEF DeleteHostedRide, historyOfRides
<1>2. /\ booking' \in [Rides -> [People -> {"none", "pending", "accepted"}]]
      /\ booking'[r] = NoBookings /\ host'[r] = NoRide /\ dead'[r] = {} /\ older'[r] = {}
      /\ \A q \in Rides \ {r} : UNCHANGED <<booking[q], host[q], dead[q], older[q]>>
  BY <1>1 DEF AccountsInv, AccountsTypeOK, NoBookings
<1>3. Booked(r)' = {} /\ Accepted(r)' = {}
  BY <1>2 DEF Booked, Accepted, NoBookings
<1>4. \A q \in Rides \ {r} : Booked(q)' = Booked(q) /\ Accepted(q)' = Accepted(q) /\ Riders(q)' = Riders(q)
  BY <1>2, OthersRest
<1>5. AccountsTypeOK'
  BY <1>1, <1>2 DEF AccountsInv, AccountsTypeOK
<1>6. OrderInv'
  BY <1>2, <1>3, <1>4 DEF AccountsInv, OrderInv
<1>7. RowsInv'
  BY <1>1, <1>2, <1>3, <1>4 DEF AccountsInv, RowsInv, There
<1>8. SeatInv'
  BY <1>1, <1>2, <1>4 DEF AccountsInv, SeatInv, There
<1>9. QED BY <1>1, <1>5, <1>6, <1>7, <1>8 DEF AccountsInv, NameInv

LEMMA RestKeeps ==
  ASSUME AccountsInv, \/ UNCHANGED accountsVars
                      \/ \E r \in Rides : StartRide(r) \/ TimePasses(r)
                      \/ \E u \in People : Write(u)
  PROVE  AccountsInv'
<1>1. UNCHANGED <<users, host, bookingRows, booked, historyOfRides>>
  BY DEF StartRide, TimePasses, Write, accountsVars
<1>2. \A r \in Rides : Booked(r)' = Booked(r) /\ Accepted(r)' = Accepted(r) /\ Riders(r)' = Riders(r)
  BY <1>1, OthersRest DEF bookingRows
<1>3. AccountsTypeOK'
  <2>1. author' \in [People -> People \cup {Silent, Nameless}]
    BY DEF AccountsInv, AccountsTypeOK, StartRide, TimePasses, Write, accountsVars
  <2>2. due' \in [Rides -> {"later", "soon", "past"}] /\ ongoing' \in [Rides -> BOOLEAN]
    BY DEF AccountsInv, AccountsTypeOK, StartRide, TimePasses, Write, accountsVars
  <2>3. QED BY <1>1, <2>1, <2>2 DEF AccountsInv, AccountsTypeOK, bookingRows, historyOfRides
<1>4. NameInv'
  BY <1>1 DEF AccountsInv, AccountsTypeOK, NameInv, StartRide, TimePasses, Write, accountsVars
<1>5. OrderInv' /\ RowsInv' /\ SeatInv'
  BY <1>1, <1>2 DEF AccountsInv, OrderInv, RowsInv, SeatInv, There, bookingRows, historyOfRides
<1>6. QED BY <1>1, <1>3, <1>4, <1>5 DEF AccountsInv, historyOfRides

-----------------------------------------------------------------------------
(* An account goes. *)

(* What becomes of a ride: another host keeps it, its first passenger gets *)
(* it, or it goes too.                                                     *)
LEMMA RideAfter ==
  ASSUME AccountsInv, NEW u \in People, DeleteUser(u), NEW r \in Rides
  PROVE  \/ /\ host[r] # u /\ There(r) /\ host'[r] = host[r] /\ r \notin HandedOver(u)
            /\ booking'[r] = [booking[r] EXCEPT ![u] = "none"] /\ dead'[r] = dead[r] /\ older'[r] = OlderWithout(r, u)
         \/ /\ host[r] = u /\ r \in HandedOver(u)
            /\ host'[r] \in Accepted(r) \ {u} /\ dead'[r] = {host'[r]}
            /\ booking'[r] = [booking[r] EXCEPT ![u] = "none"] /\ older'[r] = OlderWithout(r, u)
         \/ /\ host'[r] = NoRide /\ r \notin HandedOver(u)
            /\ booking'[r] = NoBookings /\ dead'[r] = {} /\ older'[r] = {}
<1> DEFINE f == FirstAccepted(r)
<1>1. /\ host'[r] = HostAfter(r, u)
      /\ booking'[r] = IF HostAfter(r, u) # NoRide THEN [booking[r] EXCEPT ![u] = "none"] ELSE NoBookings
      /\ dead'[r] = IF HostAfter(r, u) # NoRide THEN DeadAfter(r, u) ELSE {}
      /\ older'[r] = IF HostAfter(r, u) # NoRide THEN OlderWithout(r, u) ELSE {}
  BY DEF DeleteUser
<1>2. u # NoRide /\ dead[r] \subseteq {host[r]} /\ (~There(r) => dead[r] = {})
  BY AccountsAssumption DEF AccountsInv, RowsInv, There, Booked, Accepted
<1>3. CASE HostAfter(r, u) = NoRide
  BY <1>1, <1>3 DEF HandedOver
<1>4. CASE host[r] # u /\ HostAfter(r, u) # NoRide
  <2>1. host'[r] = host[r] /\ There(r) /\ r \notin HandedOver(u)
    BY <1>1, <1>4 DEF HostAfter, There, HandedOver
  <2>2. dead'[r] = dead[r]
    BY <1>1, <1>2, <1>4 DEF DeadAfter, Transferred, HostedBy
  <2>3. QED BY <1>1, <1>4, <2>1, <2>2
<1>5. CASE host[r] = u /\ HostAfter(r, u) # NoRide
  <2>1. r \in Transferred(u) /\ f # u /\ HostAfter(r, u) = f
    BY <1>5 DEF HostAfter
  <2>2. f \in Accepted(r)
    BY <2>1, FirstExists DEF AccountsInv, Transferred
  <2>3. dead'[r] = {f}
    BY <1>1, <1>2, <1>5, <2>1 DEF DeadAfter, Promote
  <2>4. r \in HandedOver(u)
    BY <1>5, <2>1 DEF HandedOver
  <2>5. QED BY <1>1, <1>5, <2>1, <2>2, <2>3, <2>4
<1>6. QED BY <1>3, <1>4, <1>5

(* ... and of its passengers. *)
LEMMA RowsAfter ==
  ASSUME AccountsInv, NEW u \in People, DeleteUser(u), NEW r \in Rides, There(r)'
  PROVE  /\ Booked(r)' = Booked(r) \ {u} /\ Accepted(r)' = Accepted(r) \ {u}
         /\ OlderWithout(r, u) = older'[r] /\ There(r)
         /\ \/ /\ Riders(r)' = Riders(r) \ {u} /\ r \notin HandedOver(u)
            \/ /\ Riders(r)' = Riders(r) \ {host'[r]} /\ r \in HandedOver(u)
               /\ host'[r] \in Riders(r) /\ u \notin Riders(r)
<1>1. /\ booking'[r] = [booking[r] EXCEPT ![u] = "none"] /\ older'[r] = OlderWithout(r, u)
      /\ There(r)
  BY RideAfter, AccountsAssumption DEF There
<1>2. Booked(r)' = Booked(r) \ {u} /\ Accepted(r)' = Accepted(r) \ {u}
  BY <1>1 DEF Booked, Accepted, AccountsInv, AccountsTypeOK
<1>3. CASE host[r] # u
  <2>1. dead'[r] = dead[r] /\ r \notin HandedOver(u)
    BY <1>3, RideAfter DEF There
  <2>2. QED BY <1>1, <1>2, <2>1 DEF Riders
<1>4. CASE host[r] = u
  <2>1. dead'[r] = {host'[r]} /\ host'[r] \in Accepted(r) \ {u} /\ r \in HandedOver(u)
    BY <1>4, RideAfter DEF There
  <2>2. dead[r] \subseteq {u} /\ (u \in Accepted(r) => u \in dead[r])
    BY <1>4 DEF AccountsInv, RowsInv, Accepted, Booked
  <2>3. Riders(r)' = Riders(r) \ {host'[r]} /\ host'[r] \in Riders(r) /\ u \notin Riders(r)
    BY <1>2, <2>1, <2>2 DEF Riders
  <2>4. QED BY <1>1, <1>2, <2>1, <2>3
<1>5. QED BY <1>3, <1>4

LEMMA GoneAfter ==
  ASSUME AccountsInv, NEW u \in People, DeleteUser(u), NEW r \in Rides, ~There(r)'
  PROVE  Booked(r)' = {} /\ Accepted(r)' = {} /\ dead'[r] = {} /\ older'[r] = {} /\ host'[r] = NoRide
<1>1. booking'[r] = NoBookings /\ dead'[r] = {} /\ older'[r] = {} /\ host'[r] = NoRide
  BY RideAfter, AccountsAssumption DEF There, Accepted
<1>2. QED BY <1>1 DEF Booked, Accepted, NoBookings

LEMMA DeleteTyped ==
  ASSUME AccountsInv, NEW u \in People, DeleteUser(u)
  PROVE  AccountsTypeOK'
<1>1. \A r \in Rides : /\ booking'[r] \in [People -> {"none", "pending", "accepted"}]
                       /\ dead'[r] \in SUBSET People /\ older'[r] \in SUBSET (People \X People)
                       /\ host'[r] \in People \cup {NoRide}
  <2>1. TAKE r \in Rides
  <2>2. /\ booking[r] \in [People -> {"none", "pending", "accepted"}] /\ dead[r] \in SUBSET People
        /\ OlderWithout(r, u) \in SUBSET (People \X People) /\ host[r] \in People \cup {NoRide}
    BY DEF AccountsInv, AccountsTypeOK, OlderWithout
  <2>3. NoBookings \in [People -> {"none", "pending", "accepted"}] /\ Accepted(r) \subseteq People
    BY DEF NoBookings, Accepted
  <2>4. [booking[r] EXCEPT ![u] = "none"] \in [People -> {"none", "pending", "accepted"}]
    BY <2>2
  <2>5. booking'[r] \in [People -> {"none", "pending", "accepted"}]
    BY <2>3, <2>4, RideAfter
  <2>6. host'[r] \in People \cup {NoRide} /\ dead'[r] \in SUBSET People
    <3>1. \/ host'[r] = host[r] /\ dead'[r] = dead[r]
          \/ host'[r] \in People /\ dead'[r] = {host'[r]}
          \/ host'[r] = NoRide /\ dead'[r] = {}
      BY <2>3, RideAfter
    <3>2. QED BY <2>2, <3>1
  <2>7. older'[r] \in SUBSET (People \X People)
    BY <2>2, RideAfter
  <2>8. QED BY <2>5, <2>6, <2>7
<1>2. DOMAIN booking' = Rides /\ DOMAIN dead' = Rides /\ DOMAIN older' = Rides /\ DOMAIN host' = Rides
  BY DEF DeleteUser
<1>3. /\ booking' = [r \in Rides |-> booking'[r]] /\ dead' = [r \in Rides |-> dead'[r]]
      /\ older' = [r \in Rides |-> older'[r]] /\ host' = [r \in Rides |-> host'[r]]
  BY DEF DeleteUser
<1>4. /\ booking' \in [Rides -> [People -> {"none", "pending", "accepted"}]]
      /\ dead' \in [Rides -> SUBSET People] /\ older' \in [Rides -> SUBSET (People \X People)]
      /\ host' \in [Rides -> People \cup {NoRide}]
  BY <1>1, <1>3
<1>5. users' \subseteq People /\ UNCHANGED <<due, ongoing, booked>> /\ ghosts' \in [Rides -> Nat]
  BY DEF DeleteUser, AccountsInv, AccountsTypeOK
<1>6. author' \in [People -> People \cup {Silent, Nameless}]
  BY DEF DeleteUser, AuthorAfter, AccountsInv, AccountsTypeOK
<1>7. handed' \subseteq Rides /\ lost' \subseteq Rides \X People
  BY DEF DeleteUser, HandedOver, HostedBy, AccountsInv, AccountsTypeOK
<1>8. QED BY <1>4, <1>5, <1>6, <1>7 DEF AccountsInv, AccountsTypeOK

LEMMA DeleteUserKeeps ==
  ASSUME AccountsInv, NEW u \in People, DeleteUser(u)
  PROVE  AccountsInv'
<1>1. /\ users' = users \ {u} /\ UNCHANGED booked /\ handed' = handed \cup HandedOver(u)
      /\ author' = [x \in People |-> AuthorAfter(x, u)]
      /\ \A r \in Rides : ghosts'[r] = IF u \in Riders(r) \/ r \in HandedOver(u) THEN ghosts[r] + 1 ELSE ghosts[r]
  BY DEF DeleteUser
<1>2. OrderInv'
  <2>1. SUFFICES ASSUME NEW r \in Rides
                 PROVE  /\ older'[r] \subseteq Booked(r)' \X Booked(r)'
                        /\ \A v \in People : <<v, v>> \notin older'[r]
                        /\ \A v, w, x \in People :
                             <<v, w>> \in older'[r] /\ <<w, x>> \in older'[r] => <<v, x>> \in older'[r]
    BY DEF OrderInv
  <2>2. CASE There(r)'
    <3>1. older'[r] = OlderWithout(r, u) /\ Booked(r)' = Booked(r) \ {u}
      BY <2>2, RowsAfter
    <3>2. QED BY <3>1, OrderLess DEF AccountsInv
  <2>3. CASE ~There(r)'
    BY <2>3, GoneAfter
  <2>4. QED BY <2>2, <2>3
<1>3. RowsInv'
  <2>1. SUFFICES ASSUME NEW r \in Rides
                 PROVE  /\ Booked(r)' \subseteq users' /\ host'[r] \in users' \cup {NoRide}
                        /\ dead'[r] \subseteq Accepted(r)' \cap {host'[r]}
                        /\ host'[r] \in Booked(r)' => host'[r] \in dead'[r]
                        /\ dead'[r] # {} => r \in handed'
                        /\ ~There(r)' => Booked(r)' = {}
    BY DEF RowsInv
  <2>2. CASE There(r)' /\ host[r] # u
    <3>1. host'[r] = host[r] /\ dead'[r] = dead[r]
      BY <2>2, RideAfter DEF There
    <3>2. Booked(r)' = Booked(r) \ {u} /\ Accepted(r)' = Accepted(r) \ {u}
      BY <2>2, RowsAfter
    <3>3. QED BY <1>1, <2>2, <3>1, <3>2 DEF AccountsInv, RowsInv
  <2>3. CASE There(r)' /\ host[r] = u
    <3>1. host'[r] \in Accepted(r) \ {u} /\ dead'[r] = {host'[r]} /\ r \in HandedOver(u)
      BY <2>3, RideAfter DEF There
    <3>2. Booked(r)' = Booked(r) \ {u} /\ Accepted(r)' = Accepted(r) \ {u} /\ Accepted(r) \subseteq Booked(r)
      BY <2>3, RowsAfter DEF Accepted, Booked
    <3>3. QED BY <1>1, <2>3, <3>1, <3>2 DEF AccountsInv, RowsInv
  <2>4. CASE ~There(r)'
    BY <2>4, GoneAfter
  <2>5. QED BY <2>2, <2>3, <2>4
<1>4. SeatInv'
  <2>1. SUFFICES ASSUME NEW r \in Rides, There(r)'
                 PROVE  booked'[r] = Cardinality(Riders(r)') + ghosts'[r] /\ booked'[r] <= PassengerCapacity(Total[r])
    BY DEF SeatInv
  <2>2. There(r) /\ booked'[r] = booked[r]
    BY <1>1, <2>1, RowsAfter
  <2>3. Cardinality(Riders(r)) \in Nat /\ IsFiniteSet(Riders(r)) /\ ghosts[r] \in Nat
    BY RidersCounted DEF AccountsInv, AccountsTypeOK
  <2>4. CASE Riders(r)' = Riders(r) \ {u} /\ r \notin HandedOver(u)
    <3>1. Cardinality(Riders(r)') = IF u \in Riders(r) THEN Cardinality(Riders(r)) - 1 ELSE Cardinality(Riders(r))
      BY <2>3, <2>4, FS_RemoveElement
    <3>2. QED BY <1>1, <2>2, <2>3, <2>4, <3>1 DEF AccountsInv, SeatInv
  <2>5. CASE Riders(r)' = Riders(r) \ {host'[r]} /\ r \in HandedOver(u) /\ host'[r] \in Riders(r)
    <3>1. Cardinality(Riders(r)') = Cardinality(Riders(r)) - 1
      BY <2>3, <2>5, FS_RemoveElement
    <3>2. QED BY <1>1, <2>2, <2>3, <2>5, <3>1 DEF AccountsInv, SeatInv
  <2>6. QED BY <2>1, <2>4, <2>5, RowsAfter
<1>5. NameInv'
  BY <1>1 DEF AccountsInv, NameInv, AuthorAfter
<1>6. \A x \in lost' : x[1] \in handed'
  <2>1. SUFFICES ASSUME NEW r \in Rides, NEW x \in Riders(r) \ {u}, host[r] = u, HostAfter(r, u) = NoRide
                 PROVE  r \in handed
    BY <1>1 DEF DeleteUser, HostedBy, AccountsInv
  <2>2. r \in Transferred(u)
    BY <2>1 DEF Transferred, HostedBy, Riders
  <2>3. FirstAccepted(r) \in Accepted(r)
    BY <2>2, FirstExists DEF AccountsInv, Transferred
  <2>4. FirstAccepted(r) = u
    BY <2>1, <2>2, <2>3, AccountsAssumption DEF HostAfter, Accepted
  <2>5. QED BY <2>1, <2>3, <2>4 DEF AccountsInv, RowsInv, Accepted, Booked
<1>7. QED BY <1>2, <1>3, <1>4, <1>5, <1>6, DeleteTyped DEF AccountsInv

LEMMA AccountsInvariant == AccountsSpec => []AccountsInv
<1>1. AccountsInit => AccountsInv
  <2>1. SUFFICES ASSUME AccountsInit PROVE AccountsInv
    OBVIOUS
  <2>2. AccountsTypeOK
    BY <2>1, AccountsAssumption DEF AccountsInit, AccountsTypeOK, NoBookings
  <2>3. \A r \in Rides : Booked(r) = {} /\ Accepted(r) = {} /\ Riders(r) = {}
    BY <2>1 DEF AccountsInit, NoBookings, Booked, Accepted, Riders
  <2>4. OrderInv /\ RowsInv
    BY <2>1, <2>3, AccountsAssumption DEF AccountsInit, OrderInv, RowsInv, There
  <2>5. SeatInv
    <3>1. Cardinality({}) = 0 /\ \A r \in Rides : booked[r] = 0 /\ ghosts[r] = 0
      BY <2>1, FS_EmptySet DEF AccountsInit
    <3>2. \A r \in Rides : 0 <= PassengerCapacity(Total[r])
      BY AccountsAssumption DEF PassengerCapacity
    <3>3. QED BY <2>3, <3>1, <3>2 DEF SeatInv
  <2>6. NameInv /\ lost = {}
    BY <2>1 DEF AccountsInit, NameInv
  <2>7. QED BY <2>2, <2>4, <2>5, <2>6 DEF AccountsInv
<1>2. AccountsInv /\ [AccountsNext]_accountsVars => AccountsInv'
  BY RequestSeatKeeps, AcceptKeeps, GiveUpKeeps, DeleteRideKeeps, RestKeeps, DeleteUserKeeps DEF AccountsNext
<1>3. QED BY <1>1, <1>2, PTL DEF AccountsSpec

(* Users, rides, bookings and their order stay well formed.                *)
THEOREM AccountsTypeCorrect == AccountsSpec => []AccountsTypeOK
<1>1. AccountsInv => AccountsTypeOK
  BY DEF AccountsInv
<1>2. QED BY <1>1, AccountsInvariant, PTL

(* No ride is overbooked, or left to somebody who is not there or rides in *)
(* it as a passenger, and the seat counter exceeds the passengers by those *)
(* who left or became the host, whatever accounts are deleted (DeleteUser).*)
THEOREM SeatsAfterDeletions == AccountsSpec => []SeatsOutliveAccounts
<1>1. AccountsInv => SeatsOutliveAccounts
  <2>1. SUFFICES ASSUME AccountsInv, NEW r \in Rides, There(r)
                 PROVE  /\ booked[r] = Cardinality(Riders(r)) + ghosts[r]
                        /\ booked[r] <= PassengerCapacity(Total[r])
                        /\ host[r] \in users /\ Booked(r) \subseteq users
                        /\ host[r] \notin Booked(r) \ dead[r]
                        /\ \A u \in People \ users : author[u] \in {Silent, Nameless}
    BY DEF SeatsOutliveAccounts
  <2>2. QED BY <2>1 DEF AccountsInv, SeatInv, RowsInv, NameInv, There
<1>2. QED BY <1>1, AccountsInvariant, PTL

(* An accepted passenger keeps the ride when its host's account goes, save *)
(* when the ride had been handed over before (handleHostedRides), and only *)
(* such rides refuse to be deleted for passengers they do not have.        *)
THEOREM RidesAfterDeletions == AccountsSpec => []RidesOutliveHosts
<1>1. AccountsInv => RidesOutliveHosts
  BY DEF AccountsInv, RowsInv, RidesOutliveHosts, MayDeleteRide, Riders
<1>2. QED BY <1>1, AccountsInvariant, PTL

-----------------------------------------------------------------------------
(* Lists of places. *)

StrictOrder(S, before) ==
  /\ before \in [S -> SUBSET S]
  /\ \A i \in S : i \notin before[i]
  /\ \A i, j \in S : i \in before[j] => before[i] \subseteq before[j]
  /\ \A i, j \in S : i # j => i \in before[j] \/ j \in before[i]

LEMMA PlaceInOrder ==
  ASSUME NEW S, IsFiniteSet(S), NEW before, StrictOrder(S, before)
  PROVE  /\ Cardinality(S) \in Nat
         /\ \A i \in S : Cardinality(before[i]) \in 0..(Cardinality(S) - 1)
         /\ \A i, j \in S : i \in before[j] => Cardinality(before[i]) < Cardinality(before[j])
<1>1. \A i \in S : before[i] \subseteq S /\ IsFiniteSet(before[i]) /\ Cardinality(before[i]) \in Nat
  <2>1. \A i \in S : before[i] \subseteq S
    BY DEF StrictOrder
  <2>2. QED BY <2>1, FS_Subset, FS_CardinalityType
<1>2. Cardinality(S) \in Nat
  BY FS_CardinalityType
<1>3. ASSUME NEW A, NEW B, IsFiniteSet(B), A \subseteq B, NEW x \in B, x \notin A
      PROVE  Cardinality(A) < Cardinality(B)
  <2>1. Cardinality(A) <= Cardinality(B) /\ A # B
    BY <1>3, FS_Subset
  <2>2. IsFiniteSet(A) /\ Cardinality(A) \in Nat /\ Cardinality(B) \in Nat
    BY <1>3, FS_Subset, FS_CardinalityType
  <2>3. Cardinality(A) # Cardinality(B)
    BY <1>3, <2>1, FS_Subset
  <2>4. QED BY <2>1, <2>2, <2>3
<1>4. ASSUME NEW i \in S PROVE Cardinality(before[i]) \in 0..(Cardinality(S) - 1)
  <2>1. i \notin before[i] /\ before[i] \subseteq S
    BY <1>1 DEF StrictOrder
  <2>2. Cardinality(before[i]) < Cardinality(S)
    BY <1>3, <2>1
  <2>3. QED BY <1>1, <1>2, <2>2
<1>5. ASSUME NEW i \in S, NEW j \in S, i \in before[j] PROVE Cardinality(before[i]) < Cardinality(before[j])
  <2>1. i \notin before[i] /\ before[i] \subseteq before[j]
    BY <1>5 DEF StrictOrder
  <2>2. QED BY <1>1, <1>3, <1>5, <2>1
<1>6. QED BY <1>2, <1>4, <1>5

(* Every element has a place of its own. *)
LEMMA Ordered ==
  ASSUME NEW S, IsFiniteSet(S), NEW before, StrictOrder(S, before)
  PROVE  /\ InOrder(S, before) \in [1..Cardinality(S) -> S]
         /\ \A k \in 1..Cardinality(S) : Cardinality(before[InOrder(S, before)[k]]) = k - 1
         /\ \A i \in S : InOrder(S, before)[Cardinality(before[i]) + 1] = i
<1> DEFINE n == Cardinality(S)
           Position == [i \in S |-> Cardinality(before[i]) + 1]
<1>1. n \in Nat /\ \A i \in S : Cardinality(before[i]) \in 0..(n - 1)
  BY PlaceInOrder
<1>2. Position \in [S -> 1..n] /\ \A i \in S : Position[i] = Cardinality(before[i]) + 1
  BY <1>1
<1>3. ASSUME NEW i \in S, NEW j \in S, i # j PROVE Cardinality(before[i]) # Cardinality(before[j])
  <2>1. Cardinality(before[i]) \in Nat /\ Cardinality(before[j]) \in Nat
    BY <1>1
  <2>2. i \in before[j] \/ j \in before[i]
    BY <1>3 DEF StrictOrder
  <2>3. Cardinality(before[i]) < Cardinality(before[j]) \/ Cardinality(before[j]) < Cardinality(before[i])
    BY <2>2, PlaceInOrder
  <2>4. QED BY <2>1, <2>3
<1>4. \A k \in 1..n : \E i \in S : Cardinality(before[i]) = k - 1
  <2> DEFINE P == {Position[i] : i \in S}
  <2>1. Position \in Bijection(S, P)
    <3>1. \A i, j \in S : Position[i] = Position[j] => i = j
      <4>1. ASSUME NEW i \in S, NEW j \in S, Position[i] = Position[j] PROVE i = j
        <5>1. Cardinality(before[i]) \in Nat /\ Cardinality(before[j]) \in Nat
          BY <1>1
        <5>2. Cardinality(before[i]) = Cardinality(before[j])
          BY <1>2, <4>1, <5>1
        <5>3. QED BY <1>3, <5>2
      <4>2. QED BY <4>1
    <3> HIDE DEF Position
    <3>2. QED BY <1>2, <3>1 DEF Bijection, Injection, Surjection, IsInjective
  <2>2. IsFiniteSet(P) /\ Cardinality(P) = n
    BY <2>1, FS_Bijection DEF ExistsBijection
  <2>3. P \subseteq 1..n
    BY <1>2
  <2>4. IsFiniteSet(1..n) /\ Cardinality(1..n) = n
    BY <1>1, FS_Interval
  <2> HIDE DEF P, n
  <2>5. P = 1..n
    BY <2>2, <2>3, <2>4, FS_Subset
  <2>6. QED
    <3>1. ASSUME NEW k \in 1..n PROVE \E i \in S : Cardinality(before[i]) = k - 1
      <4>1. PICK i \in S : Position[i] = k
        BY <2>5 DEF P
      <4>2. Cardinality(before[i]) \in Nat /\ Cardinality(before[i]) + 1 = k
        BY <1>1, <1>2, <4>1
      <4>3. QED BY <4>2
    <3>2. QED BY <3>1
<1>5. ASSUME NEW k \in 1..n
      PROVE  InOrder(S, before)[k] \in S /\ Cardinality(before[InOrder(S, before)[k]]) = k - 1
  <2>1. InOrder(S, before)[k] = CHOOSE i \in S : Cardinality(before[i]) = k - 1
    BY DEF InOrder
  <2>2. QED BY <1>4, <2>1
<1>6. InOrder(S, before) \in [1..n -> S]
  <2>1. InOrder(S, before) = [k \in 1..n |-> InOrder(S, before)[k]]
    BY DEF InOrder
  <2>2. QED BY <1>5, <2>1
<1>7. ASSUME NEW i \in S PROVE InOrder(S, before)[Cardinality(before[i]) + 1] = i
  <2> DEFINE k == Cardinality(before[i]) + 1
  <2>1. k \in 1..n /\ k - 1 = Cardinality(before[i])
    BY <1>1
  <2>2. InOrder(S, before)[k] \in S /\ Cardinality(before[InOrder(S, before)[k]]) = Cardinality(before[i])
    BY <1>5, <2>1
  <2>3. QED BY <1>3, <2>2
<1>8. QED BY <1>5, <1>6, <1>7

LEMMA KeptTyped ==
  ASSUME NEW S, NEW s \in Seq(S), NEW K
  PROVE  Kept(s, K) \in Seq(S \cap K)
<1> DEFINE hits == {i \in DOMAIN s : s[i] \in K}
           before == [i \in hits |-> {j \in hits : j < i}]
           order == InOrder(hits, before)
<1>1. hits \subseteq 1..Len(s) /\ IsFiniteSet(hits)
  <2>1. hits \subseteq 1..Len(s)
    OBVIOUS
  <2>2. IsFiniteSet(1..Len(s))
    BY FS_Interval
  <2>3. QED BY <2>1, <2>2, FS_Subset
<1>2. StrictOrder(hits, before)
  <2>1. \A i \in hits : i \in Nat
    BY <1>1
  <2>2. \A i \in hits : before[i] = {j \in hits : j < i}
    OBVIOUS
  <2>3. before \in [hits -> SUBSET hits]
    OBVIOUS
  <2> HIDE DEF hits, before
  <2>4. QED BY <2>1, <2>2, <2>3 DEF StrictOrder
<1>3. \A i \in hits : s[i] \in S \cap K
  OBVIOUS
<1>4. Kept(s, K) = [k \in DOMAIN order |-> s[order[k]]]
  BY DEF Kept
<1> HIDE DEF hits, before
<1>5. order \in [1..Cardinality(hits) -> hits] /\ Cardinality(hits) \in Nat
  BY <1>1, <1>2, Ordered, FS_CardinalityType
<1> HIDE DEF order
<1> DEFINE T == S \cap K
           n == Cardinality(hits)
<1>6. \A k \in 1..n : s[order[k]] \in T
  BY <1>3, <1>5
<1>7. DOMAIN order = 1..n
  BY <1>5
<1>8. n \in Nat
  BY <1>5
<1> HIDE DEF T, n
<1>9. [k \in 1..n |-> s[order[k]]] \in Seq(T)
  BY <1>6, <1>8
<1>10. QED BY <1>4, <1>7, <1>9 DEF T

-----------------------------------------------------------------------------
(* Merging. *)

(* What is merged after each of the first k results. *)
Merging(L, m, k) ==
  /\ m = [n \in 0..k |-> m[n]] /\ m[0] = <<>>
  /\ \A n \in 1..k : m[n] = MergeInto(m[n - 1], L[n])

LEMMA MergingExists == ASSUME NEW L PROVE \A k \in Nat : \E m : Merging(L, m, k)
<1> DEFINE T == {k \in Nat : ~\E m : Merging(L, m, k)}
<1>1. SUFFICES ASSUME T # {} PROVE FALSE
  OBVIOUS
<1>2. PICK k \in T : \A n \in T : k <= n
  <2>1. T \subseteq Nat
    OBVIOUS
  <2> HIDE DEF T
  <2>2. QED BY <1>1, <2>1, LeastNumber
<1>3. k \in Nat /\ ~\E m : Merging(L, m, k)
  OBVIOUS
<1>4. CASE k = 0
  <2>1. Merging(L, [n \in 0..0 |-> <<>>], 0)
    BY DEF Merging
  <2>2. QED BY <1>3, <1>4, <2>1
<1>5. CASE k # 0
  <2>1. k - 1 \in Nat /\ k - 1 \notin T
    BY <1>2, <1>3, <1>5
  <2>2. PICK m : Merging(L, m, k - 1)
    BY <2>1
  <2> DEFINE g == [n \in 0..k |-> IF n = k THEN MergeInto(m[k - 1], L[k]) ELSE m[n]]
  <2>3. m[0] = <<>> /\ \A n \in 1..(k - 1) : m[n] = MergeInto(m[n - 1], L[n])
    BY <2>2 DEF Merging
  <2>4. g = [n \in 0..k |-> g[n]] /\ g[k] = MergeInto(m[k - 1], L[k]) /\ \A n \in 0..(k - 1) : g[n] = m[n]
    BY <1>3
  <2> HIDE DEF g
  <2>5. g[0] = <<>>
    <3>1. 0 \in 0..(k - 1)
      BY <2>1
    <3>2. QED BY <2>3, <2>4, <3>1
  <2>6. \A n \in 1..k : g[n] = MergeInto(g[n - 1], L[n])
    <3>1. ASSUME NEW n \in 1..k, n # k PROVE g[n] = MergeInto(g[n - 1], L[n])
      <4>1. n \in 1..(k - 1) /\ n \in 0..(k - 1) /\ n - 1 \in 0..(k - 1)
        BY <1>3, <3>1
      <4>2. QED BY <2>3, <2>4, <4>1
    <3>2. g[k] = MergeInto(g[k - 1], L[k])
      BY <2>1, <2>4
    <3>3. QED BY <3>1, <3>2
  <2>7. Merging(L, g, k)
    BY <2>4, <2>5, <2>6 DEF Merging
  <2>8. QED BY <1>3, <2>7
<1>6. QED BY <1>4, <1>5

LEMMA MergedBySteps ==
  ASSUME NEW S, NEW L \in Seq(S)
  PROVE  \E m : Merging(L, m, Len(L)) /\ Merged(L) = m[Len(L)]
<1> DEFINE N == Len(L)
           Body(f) == [n \in 0..N |-> IF n = 0 THEN <<>> ELSE MergeInto(f[n - 1], L[n])]
           m == CHOOSE f : f = Body(f)
<1>1. N \in Nat
  OBVIOUS
<1>2. PICK g : Merging(L, g, N)
  BY <1>1, MergingExists
<1>3. g = Body(g)
  <2>1. \A n \in 0..N : g[n] = IF n = 0 THEN <<>> ELSE MergeInto(g[n - 1], L[n])
    BY <1>1, <1>2 DEF Merging
  <2>2. g = [n \in 0..N |-> g[n]]
    BY <1>2 DEF Merging
  <2>3. QED BY <2>1, <2>2
<1>4. m = Body(m)
  <2> HIDE DEF Body
  <2>1. QED BY <1>3
<1>5. Merged(L) = m[N]
  BY DEF Merged
<1> HIDE DEF m
<1>6. Merging(L, m, N)
  <2>1. 0 \in 0..N /\ \A n \in 1..N : n \in 0..N /\ n # 0
    BY <1>1
  <2>2. m = [n \in 0..N |-> m[n]]
    BY <1>4
  <2>3. m[0] = <<>> /\ \A n \in 1..N : m[n] = MergeInto(m[n - 1], L[n])
    BY <1>4, <2>1
  <2>4. QED BY <2>2, <2>3 DEF Merging
<1>7. QED BY <1>5, <1>6

Sources == {"current", "curated", "ride_history", "osm"}
Results == [name : PlaceNames, source : Sources, at : Int, score : Int]

Alike(a, b) == Plain[a.name] = Plain[b.name]

(* Of the same name, and kept apart all the same. *)
Apart(out) ==
  \A i, j \in 1..Len(out) : i # j /\ Alike(out[i], out[j]) => out[i].source # "curated" /\ out[i].at # Nowhere

(* A result that has its say, itself or in another of the same name.        *)
Stands(r, s) == Alike(s, r) /\ (r.source = "curated" => s = r \/ s.source = "current")

(* What is merged of the first n results. *)
MergedFrom(L, out, n) ==
  /\ out \in Seq(Results) /\ Len(out) <= n
  /\ \A i \in 1..Len(out) : \E m \in 1..n : out[i] = L[m] /\ Counts(L[m])
  /\ \A m \in 1..n : Counts(L[m]) => \E i \in 1..Len(out) : Stands(L[m], out[i])
  /\ Apart(out)

(* Of one name, nothing but the place of the user comes before a curated    *)
(* place, and no place is followed by one without a position that scores    *)
(* higher.                                                                  *)
Mergeable(L) ==
  /\ L \in Seq(Results)
  /\ \A m \in 1..Len(L) : L[m].source = "current" => L[m].at # Nowhere
  /\ \A k, m \in 1..Len(L) : L[k].source = "current" /\ L[m].source = "curated" => L[k].score >= L[m].score
  /\ \A k \in 1..Len(L) : \A m \in 1..(k - 1) :
       Counts(L[k]) /\ Counts(L[m]) /\ Alike(L[m], L[k]) =>
         /\ L[k].source = "curated" => L[m].source = "current" \/ L[m] = L[k]
         /\ L[k].at = Nowhere /\ L[m].at # Nowhere /\ L[m].source \notin {"curated", "current"} =>
              L[m].score >= L[k].score

LEMMA MergeInKinds ==
  ASSUME NEW out \in Seq(Results), NEW r \in Results
  PROVE  \/ ~Counts(r) /\ MergeInto(out, r) = out
         \/ Counts(r) /\ (\A i \in 1..Len(out) : ~Duplicate(out[i], r)) /\ MergeInto(out, r) = Append(out, r)
         \/ Counts(r) /\ \E i \in 1..Len(out) :
              Duplicate(out[i], r) /\ MergeInto(out, r) = [out EXCEPT ![i] = Better(out[i], r)]
<1> DEFINE same == {i \in DOMAIN out : Duplicate(out[i], r)}
<1>1. DOMAIN out = 1..Len(out) /\ Len(out) \in Nat
  OBVIOUS
<1>2. CASE same # {}
  <2>1. PICK i \in same : \A j \in same : i <= j
    <3>1. same \subseteq Nat
      BY <1>1
    <3> HIDE DEF same
    <3>2. QED BY <1>2, <3>1, LeastNumber
  <2>2. Min(same) \in same
    <3> HIDE DEF same
    <3>1. QED BY <2>1 DEF Min
  <2>3. Min(same) \in 1..Len(out) /\ Duplicate(out[Min(same)], r)
    BY <1>1, <2>2
  <2>4. Counts(r) => MergeInto(out, r) = [out EXCEPT ![Min(same)] = Better(out[Min(same)], r)]
    BY <1>2 DEF MergeInto
  <2>5. ~Counts(r) => MergeInto(out, r) = out
    BY DEF MergeInto
  <2> HIDE DEF same
  <2>6. QED BY <2>3, <2>4, <2>5
<1>3. CASE same = {}
  <2>1. \A i \in 1..Len(out) : ~Duplicate(out[i], r)
    BY <1>1, <1>3
  <2>2. (Counts(r) => MergeInto(out, r) = Append(out, r)) /\ (~Counts(r) => MergeInto(out, r) = out)
    BY <1>3 DEF MergeInto
  <2>3. QED BY <2>1, <2>2
<1>4. QED BY <1>2, <1>3

LEMMA BetterIs ==
  ASSUME NEW a, NEW b
  PROVE  /\ Better(a, b) \in {a, b}
         /\ a.source = "current" => Better(a, b) = a
         /\ a.source = "curated" /\ b.source # "current" => Better(a, b) = a
         /\ a.source = "curated" /\ b.source = "current" => Better(a, b) = b
         /\ a.source \notin {"current", "curated"} /\ b.source \in {"current", "curated"} => Better(a, b) = b
         /\ a.source \notin {"current", "curated"} /\ b.source \notin {"current", "curated"} /\ a.score >= b.score =>
              Better(a, b) = a
BY DEF Better

LEMMA AppendStep ==
  ASSUME NEW L, Mergeable(L), NEW n \in 0..(Len(L) - 1), NEW out, MergedFrom(L, out, n),
         Counts(L[n + 1]), \A i \in 1..Len(out) : ~Duplicate(out[i], L[n + 1])
  PROVE  MergedFrom(L, Append(out, L[n + 1]), n + 1)
<1> DEFINE r == L[n + 1]
           new == Append(out, r)
<1>1. n \in Nat /\ n + 1 \in 1..Len(L) /\ r \in Results /\ \A m \in 1..(n + 1) : m \in 1..n \/ m = n + 1
  BY DEF Mergeable
<1>2. out \in Seq(Results) /\ Len(out) <= n
  BY DEF MergedFrom
<1>3. /\ new \in Seq(Results) /\ Len(new) = Len(out) + 1 /\ new[Len(out) + 1] = r
      /\ \A i \in 1..Len(out) : new[i] = out[i]
      /\ \A i \in 1..Len(new) : i \in 1..Len(out) \/ i = Len(out) + 1
  BY <1>1, <1>2
<1> HIDE DEF new, r
<1>4. Len(new) <= n + 1
  BY <1>1, <1>2, <1>3
<1>5. \A i \in 1..Len(new) : \E m \in 1..(n + 1) : new[i] = L[m] /\ Counts(L[m])
  <2>1. ASSUME NEW i \in 1..Len(out) PROVE \E m \in 1..(n + 1) : new[i] = L[m] /\ Counts(L[m])
    <3>1. PICK m \in 1..n : out[i] = L[m] /\ Counts(L[m])
      BY DEF MergedFrom
    <3>2. m \in 1..(n + 1)
      BY <1>1
    <3>3. QED BY <1>3, <3>1, <3>2
  <2>2. n + 1 \in 1..(n + 1)
    BY <1>1
  <2>3. QED BY <1>3, <2>1, <2>2 DEF r
<1>6. \A m \in 1..(n + 1) : Counts(L[m]) => \E i \in 1..Len(new) : Stands(L[m], new[i])
  <2>1. ASSUME NEW m \in 1..n, Counts(L[m]) PROVE \E i \in 1..Len(new) : Stands(L[m], new[i])
    <3>1. PICK i \in 1..Len(out) : Stands(L[m], out[i])
      BY <2>1 DEF MergedFrom
    <3>2. i \in 1..Len(new)
      BY <1>2, <1>3
    <3>3. QED BY <1>3, <3>1, <3>2
  <2>2. Stands(r, r)
    BY DEF Stands, Alike
  <2>3. Len(out) + 1 \in 1..Len(new)
    BY <1>2, <1>3
  <2>4. QED BY <1>1, <1>3, <2>1, <2>2, <2>3 DEF r
<1>7. Apart(new)
  <2>1. \A i \in 1..Len(out) : Alike(out[i], r) => /\ out[i].source # "curated" /\ out[i].at # Nowhere
                                                  /\ r.source # "curated" /\ r.at # Nowhere
    BY DEF Duplicate, Alike, r
  <2>2. Apart(out)
    BY DEF MergedFrom
  <2>3. \A a, b : Alike(a, b) => Alike(b, a)
    BY DEF Alike
  <2>4. QED BY <1>3, <2>1, <2>2, <2>3 DEF Apart
<1>8. QED BY <1>3, <1>4, <1>5, <1>6, <1>7 DEF MergedFrom, new, r

LEMMA ReplaceStep ==
  ASSUME NEW L, Mergeable(L), NEW n \in 0..(Len(L) - 1), NEW out, MergedFrom(L, out, n),
         Counts(L[n + 1]), NEW i \in 1..Len(out), Duplicate(out[i], L[n + 1])
  PROVE  MergedFrom(L, [out EXCEPT ![i] = Better(out[i], L[n + 1])], n + 1)
<1> DEFINE r == L[n + 1]
           a == out[i]
           b == Better(a, r)
           new == [out EXCEPT ![i] = b]
<1>1. n \in Nat /\ n + 1 \in 1..Len(L) /\ r \in Results /\ \A m \in 1..(n + 1) : m \in 1..n \/ m = n + 1
  BY DEF Mergeable
<1>2. out \in Seq(Results) /\ Len(out) <= n /\ a \in Results
  BY DEF MergedFrom
<1>3. b \in {a, r}
  BY BetterIs
<1>4. new \in Seq(Results) /\ Len(new) = Len(out) /\ new[i] = b /\ \A j \in 1..Len(out) \ {i} : new[j] = out[j]
  <2>1. b \in Results
    BY <1>1, <1>2, <1>3
  <2> HIDE DEF b
  <2>2. QED BY <1>2, <2>1
<1>5. Alike(a, r) /\ Alike(r, a) /\ Alike(b, a)
  BY <1>3 DEF Duplicate, Alike
<1>6. PICK m0 \in 1..n : a = L[m0] /\ Counts(L[m0])
  BY DEF MergedFrom
<1>7. /\ r.source = "curated" => a.source = "current" \/ a = r
      /\ r.at = Nowhere /\ a.at # Nowhere /\ a.source \notin {"curated", "current"} => a.score >= r.score
      /\ r.source = "current" => r.at # Nowhere
  <2>1. m0 \in 1..((n + 1) - 1) /\ Alike(L[m0], L[n + 1])
    BY <1>1, <1>5, <1>6
  <2>2. QED BY <1>1, <1>6, <2>1 DEF Mergeable
<1> HIDE DEF new, r, a
<1>8. Len(new) <= n + 1
  BY <1>1, <1>2, <1>4
<1>9. \A j \in 1..Len(new) : \E m \in 1..(n + 1) : new[j] = L[m] /\ Counts(L[m])
  <2>1. ASSUME NEW j \in 1..Len(out), j # i PROVE \E m \in 1..(n + 1) : new[j] = L[m] /\ Counts(L[m])
    <3>1. PICK m \in 1..n : out[j] = L[m] /\ Counts(L[m])
      BY DEF MergedFrom
    <3>2. m \in 1..(n + 1)
      BY <1>1
    <3>3. QED BY <1>4, <2>1, <3>1, <3>2
  <2>2. n + 1 \in 1..(n + 1) /\ m0 \in 1..(n + 1)
    BY <1>1
  <2>3. \E m \in 1..(n + 1) : b = L[m] /\ Counts(L[m])
    BY <1>3, <1>6, <2>2 DEF r
  <2>4. QED BY <1>4, <2>1, <2>3
<1>10. \A m \in 1..(n + 1) : Counts(L[m]) => \E j \in 1..Len(new) : Stands(L[m], new[j])
  <2>1. ASSUME NEW s, Stands(s, a) PROVE Stands(s, b)
    <3>1. Alike(b, s)
      BY <1>5, <2>1 DEF Stands, Alike
    <3>2. ASSUME s.source = "curated" PROVE b = s \/ b.source = "current"
      <4>1. CASE a.source = "current"
        BY <4>1, BetterIs
      <4>2. CASE a = s /\ r.source # "current"
        BY <3>2, <4>2, BetterIs
      <4>3. CASE a = s /\ r.source = "current"
        BY <3>2, <4>3, BetterIs
      <4>4. QED BY <2>1, <3>2, <4>1, <4>2, <4>3 DEF Stands
    <3>3. QED BY <3>1, <3>2 DEF Stands
  <2>2. Stands(r, b)
    <3>1. Alike(b, r)
      BY <1>5 DEF Alike
    <3>2. ASSUME r.source = "curated" PROVE b = r \/ b.source = "current"
      <4>1. CASE a.source = "current"
        BY <4>1, BetterIs
      <4>2. CASE a = r
        BY <1>3, <4>2
      <4>3. QED BY <1>7, <3>2, <4>1, <4>2
    <3>3. QED BY <3>1, <3>2 DEF Stands
  <2>3. ASSUME NEW m \in 1..n, Counts(L[m]) PROVE \E j \in 1..Len(new) : Stands(L[m], new[j])
    <3>1. PICK j \in 1..Len(out) : Stands(L[m], out[j])
      BY <2>3 DEF MergedFrom
    <3>2. j = i => Stands(L[m], new[j])
      BY <1>4, <2>1, <3>1 DEF a
    <3>3. j # i => Stands(L[m], new[j])
      BY <1>4, <3>1
    <3>4. QED BY <1>4, <3>2, <3>3
  <2>4. QED BY <1>1, <1>4, <2>2, <2>3 DEF r
<1>11. Apart(new)
  <2>1. Apart(out)
    BY DEF MergedFrom
  <2>2. ASSUME NEW j \in 1..Len(out), j # i, Alike(out[j], a)
        PROVE  b.source # "curated" /\ b.at # Nowhere /\ out[j].source # "curated" /\ out[j].at # Nowhere
    <3>1. /\ a.source # "curated" /\ a.at # Nowhere /\ out[j].source # "curated" /\ out[j].at # Nowhere
      <4>1. Alike(a, out[j])
        BY <2>2 DEF Alike
      <4>2. QED BY <2>1, <2>2, <4>1 DEF Apart, a
    <3>2. CASE b = a
      BY <3>1, <3>2
    <3>3. CASE b = r /\ b # a
      <4>1. a.source # "current"
        BY <3>3, BetterIs
      <4>2. r.source # "curated"
        BY <1>7, <3>3, <4>1
      <4>3. r.at # Nowhere
        <5>1. CASE r.source = "current"
          BY <1>7, <5>1
        <5>2. CASE r.source # "current"
          <6>1. ~(a.score >= r.score)
            BY <3>1, <3>3, <4>1, <4>2, <5>2, BetterIs
          <6>2. QED BY <1>7, <3>1, <4>1, <6>1
        <5>3. QED BY <5>1, <5>2
      <4>4. QED BY <3>1, <3>3, <4>2, <4>3
    <3>4. QED BY <1>3, <3>2, <3>3
  <2>3. ASSUME NEW j \in 1..Len(new), NEW k \in 1..Len(new), j # k, Alike(new[j], new[k])
        PROVE  new[j].source # "curated" /\ new[j].at # Nowhere
    <3>1. CASE j = i
      <4>1. Alike(out[k], a) /\ new[k] = out[k] /\ new[j] = b
        BY <1>4, <1>5, <2>3, <3>1 DEF Alike
      <4>2. QED BY <1>4, <2>2, <2>3, <3>1, <4>1
    <3>2. CASE k = i
      <4>1. Alike(out[j], a) /\ new[j] = out[j]
        BY <1>4, <1>5, <2>3, <3>2 DEF Alike
      <4>2. QED BY <1>4, <2>2, <2>3, <3>2, <4>1
    <3>3. CASE j # i /\ k # i
      BY <1>4, <2>1, <2>3, <3>3 DEF Apart
    <3>4. QED BY <3>1, <3>2, <3>3
  <2>4. QED BY <2>3 DEF Apart
<1>12. QED BY <1>4, <1>8, <1>9, <1>10, <1>11 DEF MergedFrom, new, a, r

LEMMA MergedAll ==
  ASSUME NEW L, Mergeable(L)
  PROVE  MergedFrom(L, Merged(L), Len(L))
<1> DEFINE N == Len(L)
<1>1. L \in Seq(Results) /\ N \in Nat
  BY DEF Mergeable
<1>2. PICK m : Merging(L, m, N) /\ Merged(L) = m[N]
  BY <1>1, MergedBySteps
<1> DEFINE T == {n \in 0..N : ~MergedFrom(L, m[n], n)}
<1>3. ASSUME T # {} PROVE FALSE
  <2>1. PICK n \in T : \A k \in T : n <= k
    <3>1. T \subseteq Nat
      OBVIOUS
    <3> HIDE DEF T
    <3>2. QED BY <1>3, <3>1, LeastNumber
  <2>2. n \in 0..N /\ ~MergedFrom(L, m[n], n)
    OBVIOUS
  <2>3. MergedFrom(L, m[0], 0)
    <3>1. m[0] = <<>>
      BY <1>2 DEF Merging
    <3>2. QED BY <3>1 DEF MergedFrom, Apart
  <2>4. n # 0
    BY <2>2, <2>3
  <2>5. n - 1 \in 0..(N - 1) /\ n - 1 \in 0..N /\ (n - 1) + 1 = n /\ n \in 1..N /\ ~(n <= n - 1)
    BY <1>1, <2>2, <2>4
  <2>6. n - 1 \notin T
    BY <2>1, <2>5
  <2>7. MergedFrom(L, m[n - 1], n - 1)
    BY <2>5, <2>6
  <2>8. m[n] = MergeInto(m[n - 1], L[n]) /\ m[n - 1] \in Seq(Results) /\ L[n] \in Results
    <3>1. m[n] = MergeInto(m[n - 1], L[n])
      BY <1>2, <2>5 DEF Merging
    <3>2. m[n - 1] \in Seq(Results)
      BY <2>7 DEF MergedFrom
    <3>3. L[n] \in Results
      BY <1>1, <2>5
    <3>4. QED BY <3>1, <3>2, <3>3
  <2>9. CASE ~Counts(L[n]) /\ m[n] = m[n - 1]
    <3>1. n \in Nat /\ n - 1 \in Nat /\ Len(m[n - 1]) \in Nat /\ \A k \in 1..n : k \in 1..(n - 1) \/ k = n
      BY <2>5, <2>8
    <3>2. 1..(n - 1) \subseteq 1..n
      BY <3>1
    <3>3. Len(m[n]) <= n
      BY <2>7, <2>9, <3>1 DEF MergedFrom
    <3>4. MergedFrom(L, m[n], n)
      BY <2>7, <2>9, <3>1, <3>2, <3>3 DEF MergedFrom
    <3>5. QED BY <2>2, <3>4
  <2>10. CASE Counts(L[n]) /\ (\A i \in 1..Len(m[n - 1]) : ~Duplicate(m[n - 1][i], L[n]))
              /\ m[n] = Append(m[n - 1], L[n])
    <3>1. MergedFrom(L, Append(m[n - 1], L[(n - 1) + 1]), (n - 1) + 1)
      BY <2>5, <2>7, <2>10, AppendStep
    <3>2. QED BY <2>2, <2>5, <2>10, <3>1
  <2>11. ASSUME Counts(L[n]), NEW i \in 1..Len(m[n - 1]), Duplicate(m[n - 1][i], L[n]),
                m[n] = [m[n - 1] EXCEPT ![i] = Better(m[n - 1][i], L[n])]
         PROVE  FALSE
    <3>1. MergedFrom(L, [m[n - 1] EXCEPT ![i] = Better(m[n - 1][i], L[(n - 1) + 1])], (n - 1) + 1)
      BY <2>5, <2>7, <2>11, ReplaceStep
    <3>2. QED BY <2>2, <2>5, <2>11, <3>1
  <2>12. QED BY <2>8, <2>9, <2>10, <2>11, MergeInKinds
<1>4. N \in 0..N
  BY <1>1
<1>5. QED BY <1>2, <1>3, <1>4

-----------------------------------------------------------------------------
(* Sorting and cutting. *)

LEMMA MinOfTwo == ASSUME NEW a \in Nat, NEW b \in Nat PROVE Min({a, b}) = IF a <= b THEN a ELSE b
<1>1. \E x \in {a, b} : \A y \in {a, b} : x <= y
  OBVIOUS
<1>2. Min({a, b}) \in {a, b} /\ \A y \in {a, b} : Min({a, b}) <= y
  BY <1>1 DEF Min
<1>3. QED BY <1>2

LEMMA BeforeIsStrict ==
  ASSUME NEW out \in Seq(Results)
  PROVE  StrictOrder(1..Len(out), [i \in 1..Len(out) |-> {j \in 1..Len(out) : Before(out, j, i)}])
<1> DEFINE S == 1..Len(out)
           before == [i \in S |-> {j \in S : Before(out, j, i)}]
<1>1. \A i \in S : out[i].score \in Int /\ Order[out[i].name] \in Int /\ i \in Int
  <2>1. \A i \in S : out[i] \in Results
    OBVIOUS
  <2>2. \A x \in PlaceNames : Order[x] \in Int
    BY PlacesAssumption DEF PlacesAssumption
  <2> HIDE DEF S
  <2>3. \A i \in S : out[i].score \in Int /\ out[i].name \in PlaceNames
    BY <2>1 DEF Results
  <2>4. QED BY <2>2, <2>3 DEF S
<1>2. \A i \in S : ~Before(out, i, i)
  BY <1>1 DEF Before
<1>3. \A i, j, k \in S : Before(out, i, j) /\ Before(out, j, k) => Before(out, i, k)
  <2>1. ASSUME NEW i \in S, NEW j \in S, NEW k \in S, Before(out, i, j), Before(out, j, k)
        PROVE  Before(out, i, k)
    BY <1>1, <2>1 DEF Before
  <2>2. QED BY <2>1
<1>4. \A i, j \in S : i # j => Before(out, i, j) \/ Before(out, j, i)
  BY <1>1 DEF Before
<1>5. before \in [S -> SUBSET S] /\ \A i \in S : before[i] = {j \in S : Before(out, j, i)}
  OBVIOUS
<1> HIDE DEF S, before
<1>6. StrictOrder(S, before)
  BY <1>2, <1>3, <1>4, <1>5 DEF StrictOrder
<1>7. QED BY <1>6 DEF S, before

(* What is shown of a list: its best places, as many as were asked for.     *)
LEMMA SortedAndCut ==
  ASSUME NEW L, NEW out \in Seq(Results), out = Merged(L), search.limit \in Nat
  PROVE  LET D == DedupeAndSort(L) IN
         /\ D \in Seq(Results) /\ Len(D) <= search.limit
         /\ \E p \in [1..Len(D) -> 1..Len(out)] :
              /\ \A k \in 1..Len(D) : D[k] = out[p[k]]
              /\ \A j, k \in 1..Len(D) : p[j] = p[k] => j = k
              /\ \A i \in 1..Len(out) :
                   \/ \E k \in 1..Len(D) : p[k] = i
                   \/ /\ Len(D) = search.limit /\ Len(out) > search.limit
                      /\ \A k \in 1..Len(D) : D[k].score >= out[i].score
<1> DEFINE D == DedupeAndSort(L)
           S == 1..Len(out)
           before == [i \in S |-> {j \in S : Before(out, j, i)}]
           p == InOrder(S, before)
           n == Len(out)
           c == Min({n, search.limit})
<1>1. DOMAIN out = S /\ n \in Nat
  OBVIOUS
<1>2. D = [k \in 1..c |-> out[p[k]]]
  BY <1>1 DEF DedupeAndSort
<1>3. c = (IF n <= search.limit THEN n ELSE search.limit) /\ c \in Nat /\ c <= n /\ c <= search.limit
  BY <1>1, MinOfTwo
<1>4. StrictOrder(S, before)
  BY BeforeIsStrict
<1>5. IsFiniteSet(S) /\ Cardinality(S) = n
  <2>1. 1 \in Int /\ n \in Int /\ (IF 1 > n THEN 0 ELSE n - 1 + 1) = n
    BY <1>1
  <2> HIDE DEF n
  <2>2. IsFiniteSet(1..n) /\ Cardinality(1..n) = IF 1 > n THEN 0 ELSE n - 1 + 1
    BY <2>1, FS_Interval
  <2>3. QED BY <2>1, <2>2 DEF n
<1>6. \A i \in S : before[i] = {j \in S : Before(out, j, i)}
  OBVIOUS
<1>7. \A i \in S : out[i].score \in Int /\ out[i] \in Results
  <2>1. \A i \in S : out[i] \in Results
    OBVIOUS
  <2>2. QED BY <2>1 DEF Results
<1> HIDE DEF D, S, before, c
<1>8. /\ p \in [1..n -> S]
      /\ \A k \in 1..n : Cardinality(before[p[k]]) = k - 1
      /\ \A i \in S : p[Cardinality(before[i]) + 1] = i
  BY <1>4, <1>5, Ordered
<1>9. \A i \in S : Cardinality(before[i]) \in 0..(n - 1)
  BY <1>4, <1>5, PlaceInOrder
<1>10. \A i, j \in S : i \in before[j] => Cardinality(before[i]) < Cardinality(before[j])
  BY <1>4, <1>5, PlaceInOrder
<1> HIDE DEF p, n
<1>11. \A k \in 1..c : k \in 1..n
  BY <1>1, <1>3
<1>12. \A k \in 1..c : out[p[k]] \in Results
  BY <1>7, <1>8, <1>11
<1>13. D \in Seq(Results) /\ Len(D) = c /\ \A k \in 1..c : D[k] = out[p[k]]
  BY <1>2, <1>3, <1>12
<1> DEFINE q == [k \in 1..c |-> p[k]]
<1>14. q \in [1..c -> S] /\ \A k \in 1..c : q[k] = p[k]
  BY <1>8, <1>11
<1>15. ASSUME NEW j \in 1..c, NEW k \in 1..c, p[j] = p[k] PROVE j = k
  <2>1. j - 1 = k - 1
    BY <1>8, <1>11, <1>15
  <2>2. QED BY <2>1, <1>3
<1>16. ASSUME NEW i \in S
       PROVE  \/ \E k \in 1..c : p[k] = i
              \/ c = search.limit /\ n > search.limit /\ \A k \in 1..c : D[k].score >= out[i].score
  <2> DEFINE b == Cardinality(before[i])
  <2>1. b \in 0..(n - 1) /\ p[b + 1] = i
    BY <1>8, <1>9
  <2> HIDE DEF b
  <2>2. CASE b + 1 <= c
    <3>1. b + 1 \in 1..c
      BY <1>1, <1>3, <2>1, <2>2
    <3>2. QED BY <2>1, <3>1
  <2>3. CASE b + 1 > c
    <3>1. c = search.limit /\ n > search.limit
      BY <1>1, <1>3, <2>1, <2>3
    <3>2. ASSUME NEW k \in 1..c PROVE D[k].score >= out[i].score
      <4>1. p[k] \in S /\ Cardinality(before[p[k]]) = k - 1 /\ k \in 1..n
        BY <1>8, <1>11
      <4>2. k - 1 < b
        BY <1>1, <1>3, <2>1, <2>3
      <4>3. p[k] # i /\ i \notin before[p[k]]
        <5>1. ~(b < k - 1) /\ b # k - 1
          BY <1>1, <1>3, <2>1, <4>2
        <5>2. QED BY <1>10, <4>1, <5>1 DEF b
      <4>4. p[k] \in before[i]
        BY <1>4, <4>1, <4>3 DEF StrictOrder
      <4>5. Before(out, p[k], i)
        BY <1>6, <4>4
      <4>6. out[p[k]].score >= out[i].score
        BY <1>7, <4>1, <4>5 DEF Before
      <4>7. QED BY <1>13, <4>6
    <3>3. QED BY <3>1, <3>2
  <2>4. QED BY <1>1, <1>3, <2>1, <2>2, <2>3
<1>17. \A i \in S : \/ \E k \in 1..c : q[k] = i
                    \/ c = search.limit /\ n > search.limit /\ \A k \in 1..c : D[k].score >= out[i].score
  BY <1>14, <1>16
<1>18. \A j, k \in 1..c : q[j] = q[k] => j = k
  BY <1>14, <1>15
<1> HIDE DEF q
<1>19. \E r \in [1..Len(D) -> S] :
         /\ \A k \in 1..Len(D) : D[k] = out[r[k]]
         /\ \A j, k \in 1..Len(D) : r[j] = r[k] => j = k
         /\ \A i \in S : \/ \E k \in 1..Len(D) : r[k] = i
                         \/ /\ Len(D) = search.limit /\ n > search.limit
                            /\ \A k \in 1..Len(D) : D[k].score >= out[i].score
  <2>1. q \in [1..Len(D) -> S]
    BY <1>13, <1>14
  <2> WITNESS q \in [1..Len(D) -> S]
  <2>2. QED BY <1>13, <1>14, <1>17, <1>18
<1>20. Len(D) <= search.limit
  BY <1>3, <1>13
<1>21. QED BY <1>13, <1>19, <1>20 DEF D, S, n

-----------------------------------------------------------------------------
(* What a list shows. *)

Best(L, D) ==
  /\ D \in Seq(Results) /\ Len(D) <= search.limit /\ Apart(D)
  /\ \A k \in 1..Len(D) : \E m \in 1..Len(L) : D[k] = L[m] /\ Counts(L[m])
  /\ \A m \in 1..Len(L) : Counts(L[m]) =>
       \/ \E k \in 1..Len(D) : Stands(L[m], D[k])
       \/ /\ Len(D) = search.limit /\ Len(L) > search.limit
          /\ L[m].source = "curated" => \A k \in 1..Len(D) : D[k].score >= L[m].score

LEMMA ShownIsBest ==
  ASSUME NEW L, Mergeable(L), search.limit \in Nat
  PROVE  Best(L, DedupeAndSort(L))
<1> DEFINE out == Merged(L)
           D == DedupeAndSort(L)
<1>1. L \in Seq(Results) /\ Len(L) \in Nat /\ \A m \in 1..Len(L) : L[m] \in Results /\ L[m].score \in Int
  <2>1. L \in Seq(Results)
    BY DEF Mergeable
  <2>2. \A r \in Results : r.score \in Int
    BY DEF Results
  <2>3. QED BY <2>1, <2>2
<1>2. MergedFrom(L, out, Len(L))
  BY MergedAll
<1>3. out \in Seq(Results) /\ Len(out) \in Nat /\ Len(out) <= Len(L)
  BY <1>2 DEF MergedFrom
<1>4. /\ D \in Seq(Results) /\ Len(D) <= search.limit
      /\ \E p \in [1..Len(D) -> 1..Len(out)] :
           /\ \A k \in 1..Len(D) : D[k] = out[p[k]]
           /\ \A j, k \in 1..Len(D) : p[j] = p[k] => j = k
           /\ \A i \in 1..Len(out) :
                \/ \E k \in 1..Len(D) : p[k] = i
                \/ /\ Len(D) = search.limit /\ Len(out) > search.limit
                   /\ \A k \in 1..Len(D) : D[k].score >= out[i].score
  <2> HIDE DEF out
  <2>1. out = Merged(L)
    BY DEF out
  <2>2. QED BY <1>3, <2>1, SortedAndCut
<1> HIDE DEF out, D
<1>5. PICK p \in [1..Len(D) -> 1..Len(out)] :
        /\ \A k \in 1..Len(D) : D[k] = out[p[k]]
        /\ \A j, k \in 1..Len(D) : p[j] = p[k] => j = k
        /\ \A i \in 1..Len(out) :
             \/ \E k \in 1..Len(D) : p[k] = i
             \/ /\ Len(D) = search.limit /\ Len(out) > search.limit
                /\ \A k \in 1..Len(D) : D[k].score >= out[i].score
  BY <1>4
<1>6. \A k \in 1..Len(D) : p[k] \in 1..Len(out)
  OBVIOUS
<1>7. Apart(D)
  <2>1. Apart(out)
    BY <1>2 DEF MergedFrom
  <2>2. ASSUME NEW j \in 1..Len(D), NEW k \in 1..Len(D), j # k, Alike(D[j], D[k])
        PROVE  D[j].source # "curated" /\ D[j].at # Nowhere
    <3>1. p[j] # p[k] /\ D[j] = out[p[j]] /\ D[k] = out[p[k]] /\ p[j] \in 1..Len(out) /\ p[k] \in 1..Len(out)
      BY <1>5, <1>6, <2>2
    <3>2. QED BY <2>1, <2>2, <3>1 DEF Apart
  <2>3. QED BY <2>2 DEF Apart
<1>8. \A k \in 1..Len(D) : \E m \in 1..Len(L) : D[k] = L[m] /\ Counts(L[m])
  <2>1. \A i \in 1..Len(out) : \E m \in 1..Len(L) : out[i] = L[m] /\ Counts(L[m])
    BY <1>2 DEF MergedFrom
  <2>2. ASSUME NEW k \in 1..Len(D) PROVE \E m \in 1..Len(L) : D[k] = L[m] /\ Counts(L[m])
    <3>1. D[k] = out[p[k]] /\ p[k] \in 1..Len(out)
      BY <1>5, <1>6
    <3>2. PICK m \in 1..Len(L) : out[p[k]] = L[m] /\ Counts(L[m])
      BY <2>1, <3>1
    <3>3. QED BY <3>1, <3>2
  <2>3. QED BY <2>2
<1>9. ASSUME NEW m \in 1..Len(L), Counts(L[m])
      PROVE  \/ \E k \in 1..Len(D) : Stands(L[m], D[k])
             \/ /\ Len(D) = search.limit /\ Len(L) > search.limit
                /\ L[m].source = "curated" => \A k \in 1..Len(D) : D[k].score >= L[m].score
  <2>1. PICK i \in 1..Len(out) : Stands(L[m], out[i])
    BY <1>2, <1>9 DEF MergedFrom
  <2>2. CASE \E k \in 1..Len(D) : p[k] = i
    BY <1>5, <2>1, <2>2
  <2>3. CASE /\ Len(D) = search.limit /\ Len(out) > search.limit
             /\ \A k \in 1..Len(D) : D[k].score >= out[i].score
    <3>1. Len(L) > search.limit
      BY <1>1, <1>3, <2>3
    <3>2. ASSUME L[m].source = "curated", NEW k \in 1..Len(D) PROVE D[k].score >= L[m].score
      <4>1. PICK o \in 1..Len(L) : out[i] = L[o]
        BY <1>2 DEF MergedFrom
      <4>2. out[i].score >= L[m].score
        <5>1. CASE out[i] = L[m]
          <6>1. L[m].score \in Int
            BY <1>1
          <6>2. QED BY <5>1, <6>1
        <5>2. CASE out[i].source = "current"
          <6>1. L[o].source = "current" /\ L[o].score >= L[m].score
            BY <3>2, <4>1, <5>2 DEF Mergeable
          <6>2. QED BY <4>1, <6>1
        <5>3. QED BY <2>1, <3>2, <5>1, <5>2 DEF Stands
      <4>3. D[k].score >= out[i].score
        BY <2>3
      <4>4. D[k].score \in Int /\ out[i].score \in Int /\ L[m].score \in Int
        BY <1>1, <1>8, <4>1
      <4>5. QED BY <4>2, <4>3, <4>4
    <3>3. QED BY <2>3, <3>1, <3>2
  <2>4. QED BY <1>5, <2>2, <2>3
<1>10. Best(L, D)
  BY <1>4, <1>7, <1>8, <1>9 DEF Best
<1>11. QED BY <1>10 DEF D

-----------------------------------------------------------------------------
(* The lists of a search. *)

(* A text fits two names of the same place about as well: within the points *)
(* that a position is worth.                                                *)
TextsAlike ==
  \A x \in Searches : \A s, t \in Trips :
    /\ x.query # Empty /\ Plain[s.name] = Plain[t.name]
    /\ TextFit[x.query][s.name] >= 75 /\ TextFit[x.query][t.name] >= 75
    => TextFit[x.query][s.name] <= TextFit[x.query][t.name] + 35

LEMMA Element == ASSUME NEW S, NEW s \in Seq(S), NEW i \in 1..Len(s) PROVE s[i] \in S
OBVIOUS

LEMMA Boosts == \A at : BoostAt(at) \in 0..45 /\ (at = Nowhere => BoostAt(at) = 0)
BY DEF BoostAt, NearbyBoost

Priorities == 0..900

LEMMA Scores ==
  ASSUME search \in Searches, NEW name \in PlaceNames, NEW priority \in Priorities, NEW at \in Int
  PROVE  /\ ScoreCandidate(name, priority, at) \in Int
         /\ search.query = Empty => ScoreCandidate(name, priority, at) <= 945
<1> DEFINE fit == TextFit[search.query][name]
           boost == BoostAt(at)
<1>1. boost \in 0..45
  BY Boosts
<1>2. search.query # Empty => fit \in Nat
  BY PlacesAssumption DEF PlacesAssumption
<1> HIDE DEF fit, boost
<1>3. ScoreCandidate(name, priority, at) =
        IF search.query = Empty
        THEN IF search.user = Nowhere THEN priority
             ELSE IF at = Nowhere THEN 0
             ELSE IF Distance(search.user, at) > 150 THEN 0 ELSE priority + boost
        ELSE IF fit = 0 THEN 0 ELSE priority + fit + boost
  BY DEF ScoreCandidate, fit, boost
<1>4. QED BY <1>1, <1>2, <1>3 DEF Priorities

LEMMA CuratedTyped ==
  ASSUME search \in Searches
  PROVE  /\ CuratedResults \in Seq(Results) /\ Len(CuratedResults) = Len(Curated)
         /\ \A i \in 1..Len(Curated) :
              /\ CuratedResults[i].source = "curated"
              /\ CuratedResults[i].name = Curated[i].name
              /\ search.query = Empty => CuratedResults[i].score <= 945
<1>1. \A n \in PlaceNames, p \in Priorities, x \in Int :
        ScoreCandidate(n, p, x) \in Int /\ (search.query = Empty => ScoreCandidate(n, p, x) <= 945)
  BY Scores
<1> DEFINE Places == [name : PlaceNames, at : Int, priority : Priorities]
           score(c) == ScoreCandidate(c.name, c.priority, c.at)
           row(c) == Result(c.name, "curated", c.at, score(c))
<1>2. Curated \in Seq(Places)
  BY CuratedAssumption DEF CuratedAssumption, Priorities
<1>3. CuratedResults = [i \in DOMAIN Curated |-> row(Curated[i])]
  BY DEF CuratedResults
<1>4. ASSUME NEW c \in Places
      PROVE  /\ row(c) \in Results /\ row(c).source = "curated" /\ row(c).name = c.name
             /\ search.query = Empty => row(c).score <= 945
  <2>1. c.name \in PlaceNames /\ c.at \in Int /\ c.priority \in Priorities
    OBVIOUS
  <2>2. score(c) \in Int /\ (search.query = Empty => score(c) <= 945)
    BY <1>1, <2>1
  <2>3. row(c) = [name |-> c.name, source |-> "curated", at |-> c.at, score |-> score(c)]
    BY DEF Result
  <2> HIDE DEF score, row
  <2>4. QED BY <2>1, <2>2, <2>3 DEF Results, Sources
<1> HIDE DEF row, Places
<1>5. DOMAIN Curated = 1..Len(Curated) /\ Len(Curated) \in Nat /\ \A i \in 1..Len(Curated) : Curated[i] \in Places
  BY <1>2
<1>6. CuratedResults \in Seq(Results) /\ Len(CuratedResults) = Len(Curated)
  BY <1>3, <1>4, <1>5
<1>7. \A i \in 1..Len(Curated) : CuratedResults[i] = row(Curated[i])
  BY <1>3, <1>5
<1>8. QED BY <1>4, <1>5, <1>6, <1>7

(* The places of past rides: those with a position are worth 35 more.       *)
LEMMA RidesTyped ==
  ASSUME search \in Searches, trips \in Seq(Trips)
  PROVE  /\ RideResults \in Seq(Results)
         /\ \A i \in 1..Len(RideResults) :
              /\ RideResults[i].source = "ride_history"
              /\ \E t \in Trips :
                   /\ search.query # Empty => TextFit[search.query][t.name] >= 75
                   /\ RideResults[i].name = t.name
                   /\ RideResults[i].score =
                        ScoreCandidate(t.name, IF RideResults[i].at = Nowhere THEN 45 ELSE 80, RideResults[i].at)
<1>0. \A n \in PlaceNames, p \in Priorities, x \in Int : ScoreCandidate(n, p, x) \in Int
  BY Scores
<1> DEFINE fitting == {t \in Trips : search.query = Empty \/ TextFit[search.query][t.name] >= 75}
           hits == Kept(trips, fitting)
           rows == RideLocationCandidates
           cut == Min({Len(hits), 4 * search.limit})
           place(t) == IF Canonical[t.name] # Nowhere THEN Canonical[t.name] ELSE t.at
           row(t) == Result(t.name, "ride_history", place(t),
                            ScoreCandidate(t.name, IF place(t) = Nowhere THEN 45 ELSE 80, place(t)))
<1>1. hits \in Seq(fitting)
  <2>1. hits \in Seq(Trips \cap fitting)
    BY KeptTyped
  <2>2. Trips \cap fitting = fitting
    OBVIOUS
  <2> HIDE DEF hits, fitting
  <2>3. QED BY <2>1, <2>2
<1>2. search.limit \in Nat
  BY PlacesAssumption DEF PlacesAssumption
<1>3. rows \in Seq(fitting)
  <2>1. rows = SubSeq(hits, 1, cut)
    BY DEF RideLocationCandidates
  <2> HIDE DEF hits, fitting
  <2>2. Len(hits) \in Nat /\ 4 * search.limit \in Nat
    BY <1>1, <1>2
  <2>3. cut \in Nat /\ cut <= Len(hits)
    BY <2>2, MinOfTwo
  <2> HIDE DEF cut
  <2>4. QED BY <1>1, <2>1, <2>2, <2>3
<1>4. RideResults = [i \in DOMAIN rows |-> row(rows[i])]
  BY DEF RideResults
<1>5. ASSUME NEW t \in fitting
      PROVE  /\ row(t) \in Results /\ row(t).source = "ride_history" /\ row(t).name = t.name
             /\ row(t).score = ScoreCandidate(t.name, IF row(t).at = Nowhere THEN 45 ELSE 80, row(t).at)
  <2>1. t.name \in PlaceNames /\ t.at \in Int /\ Canonical[t.name] \in Int
    BY PlacesAssumption DEF PlacesAssumption, PlaceNames
  <2>2. place(t) \in Int
    BY <2>1
  <2> DEFINE score == ScoreCandidate(t.name, IF place(t) = Nowhere THEN 45 ELSE 80, place(t))
  <2>3. score \in Int
    <3> DEFINE priority == IF place(t) = Nowhere THEN 45 ELSE 80
    <3>1. priority \in Priorities
      BY DEF Priorities
    <3> HIDE DEF priority, place
    <3>2. ScoreCandidate(t.name, priority, place(t)) \in Int
      BY <1>0, <2>1, <2>2, <3>1
    <3>3. QED BY <3>2 DEF priority
  <2>4. row(t) = Result(t.name, "ride_history", place(t), score)
    OBVIOUS
  <2> HIDE DEF row, place
  <2>5. row(t) \in Results /\ row(t).source = "ride_history" /\ row(t).name = t.name
        /\ row(t).at = place(t) /\ row(t).score = score
    <3> HIDE DEF score
    <3>1. QED BY <2>1, <2>2, <2>3, <2>4 DEF Result, Results, Sources
  <2>6. QED BY <2>5
<1>6. \A t \in fitting : t \in Trips /\ (search.query # Empty => TextFit[search.query][t.name] >= 75)
  OBVIOUS
<1> HIDE DEF rows, row, fitting
<1>7. DOMAIN rows = 1..Len(rows) /\ Len(rows) \in Nat /\ \A i \in 1..Len(rows) : rows[i] \in fitting
  BY <1>3
<1>8. RideResults \in Seq(Results) /\ Len(RideResults) = Len(rows)
  BY <1>4, <1>5, <1>7
<1>9. \A i \in 1..Len(rows) : RideResults[i] = row(rows[i])
  BY <1>4, <1>7
<1>10. QED BY <1>5, <1>6, <1>7, <1>8, <1>9

LEMMA RemoteTyped ==
  ASSUME search \in Searches, search.query # Empty, NEW rs \in Seq([name : PlaceNames, at : Int \ {Nowhere}])
  PROVE  /\ RemoteResults(rs) \in Seq(Results) /\ Len(RemoteResults(rs)) = Len(rs)
         /\ \A i \in 1..Len(rs) : RemoteResults(rs)[i].source = "osm" /\ RemoteResults(rs)[i].at # Nowhere
<1> DEFINE row(i) == Result(rs[i].name, "osm", rs[i].at, TextFit[search.query][rs[i].name] + 20 + BoostAt(rs[i].at))
<1>1. RemoteResults(rs) = [i \in DOMAIN rs |-> row(i)]
  BY DEF RemoteResults
<1>2. ASSUME NEW i \in 1..Len(rs) PROVE row(i) \in Results /\ row(i).source = "osm" /\ row(i).at # Nowhere
  <2>1. rs[i].name \in PlaceNames /\ rs[i].at \in Int \ {Nowhere}
    <3> DEFINE Places == [name : PlaceNames, at : Int \ {Nowhere}]
    <3>1. rs \in Seq(Places)
      OBVIOUS
    <3> HIDE DEF Places
    <3>2. rs[i] \in Places
      BY <3>1, Element
    <3>3. QED BY <3>2 DEF Places
  <2> DEFINE score == TextFit[search.query][rs[i].name] + 20 + BoostAt(rs[i].at)
  <2>2. score \in Int
    <3>1. TextFit[search.query][rs[i].name] \in Int
      BY <2>1, PlacesAssumption DEF PlacesAssumption
    <3>2. BoostAt(rs[i].at) \in 0..45
      BY Boosts
    <3> DEFINE fit == TextFit[search.query][rs[i].name]
               boost == BoostAt(rs[i].at)
    <3>3. score = fit + 20 + boost
      OBVIOUS
    <3> HIDE DEF fit, boost, score
    <3>4. fit \in Int /\ boost \in 0..45
      BY <3>1, <3>2 DEF fit, boost
    <3>5. QED BY <3>3, <3>4
  <2>3. row(i) = Result(rs[i].name, "osm", rs[i].at, score)
    OBVIOUS
  <2> HIDE DEF score, row
  <2>4. QED BY <2>1, <2>2, <2>3 DEF Result, Results, Sources
<1> HIDE DEF row
<1>3. DOMAIN rs = 1..Len(rs) /\ Len(rs) \in Nat
  OBVIOUS
<1>4. QED BY <1>1, <1>2, <1>3

LEMMA Joined ==
  ASSUME NEW S, NEW a \in Seq(S), NEW b \in Seq(S)
  PROVE  /\ a \o b \in Seq(S) /\ Len(a) \in Nat /\ Len(b) \in Nat /\ Len(a \o b) = Len(a) + Len(b)
         /\ \A i \in 1..Len(a) : i \in 1..Len(a \o b) /\ (a \o b)[i] = a[i]
         /\ \A i \in 1..Len(b) : Len(a) + i \in 1..Len(a \o b) /\ (a \o b)[Len(a) + i] = b[i]
         /\ \A k \in 1..Len(a \o b) : k \in 1..Len(a) \/ (k - Len(a) \in 1..Len(b) /\ (a \o b)[k] = b[k - Len(a)])
<1> DEFINE L == a \o b
           n == Len(a)
           l == Len(b)
<1>1. n \in Nat /\ l \in Nat
  OBVIOUS
<1>2. L \in Seq(S) /\ Len(L) = n + l
  OBVIOUS
<1>3. ASSUME NEW k \in 1..(n + l) PROVE L[k] = IF k <= n THEN a[k] ELSE b[k - n]
  OBVIOUS
<1> HIDE DEF L, n, l
<1>4. ASSUME NEW i \in 1..n PROVE i \in 1..Len(L) /\ L[i] = a[i]
  BY <1>1, <1>2, <1>3
<1>5. ASSUME NEW i \in 1..l PROVE n + i \in 1..Len(L) /\ L[n + i] = b[i]
  <2>1. n + i \in 1..(n + l) /\ ~(n + i <= n) /\ (n + i) - n = i
    BY <1>1
  <2>2. QED BY <1>2, <1>3, <2>1
<1>6. ASSUME NEW k \in 1..Len(L) PROVE k \in 1..n \/ (k - n \in 1..l /\ L[k] = b[k - n])
  BY <1>1, <1>2, <1>3
<1>7. QED BY <1>1, <1>2, <1>4, <1>5, <1>6 DEF L, n, l

LEMMA RidesAlike ==
  ASSUME TextsAlike, search \in Searches, trips \in Seq(Trips),
         NEW k \in 1..Len(RideResults), NEW m \in 1..Len(RideResults),
         Counts(RideResults[k]), Alike(RideResults[m], RideResults[k]),
         RideResults[k].at = Nowhere, RideResults[m].at # Nowhere, Counts(RideResults[m])
  PROVE  RideResults[m].score >= RideResults[k].score
<1> DEFINE a == RideResults[k]
           b == RideResults[m]
<1>1. PICK s \in Trips : /\ search.query # Empty => TextFit[search.query][s.name] >= 75
                         /\ a.name = s.name
                        /\ a.score = ScoreCandidate(s.name, IF a.at = Nowhere THEN 45 ELSE 80, a.at)
                         BY RidesTyped
<1>2. PICK t \in Trips : /\ search.query # Empty => TextFit[search.query][t.name] >= 75
                         /\ b.name = t.name
                        /\ b.score = ScoreCandidate(t.name, IF b.at = Nowhere THEN 45 ELSE 80, b.at)
                         BY RidesTyped
<1>3. Plain[s.name] = Plain[t.name]
  BY <1>1, <1>2 DEF Alike
<1> DEFINE boost == BoostAt(b.at)
           near == Distance(search.user, b.at) > 150
<1>4. boost \in 0..45 /\ BoostAt(a.at) = 0
  BY Boosts
<1>5. a.score > 0 /\ b.score > 0 /\ a.at = Nowhere /\ b.at # Nowhere
  BY DEF Counts
<1>6. a.score = ScoreCandidate(s.name, 45, Nowhere) /\ b.score = ScoreCandidate(t.name, 80, b.at)
  BY <1>1, <1>2
<1> HIDE DEF a, b, boost, near
<1>7. CASE search.query = Empty
  <2>1. a.score = (IF search.user = Nowhere THEN 45 ELSE 0)
    BY <1>6, <1>7 DEF ScoreCandidate
  <2>2. search.user = Nowhere
    BY <1>5, <2>1
  <2>3. b.score = 80
    BY <1>6, <1>7, <2>2 DEF ScoreCandidate
  <2>4. QED BY <2>1, <2>2, <2>3 DEF a, b
<1>8. CASE search.query # Empty
  <2> DEFINE f == TextFit[search.query][s.name]
             g == TextFit[search.query][t.name]
  <2>1. f \in Nat /\ g \in Nat
    <3>1. s.name \in PlaceNames /\ t.name \in PlaceNames
      BY DEF PlaceNames
    <3>2. QED BY <1>8, <3>1, PlacesAssumption DEF PlacesAssumption
  <2>2. f <= g + 35
    BY <1>1, <1>2, <1>3, <1>8 DEF TextsAlike
  <2>3. a.score = IF f = 0 THEN 0 ELSE 45 + f + BoostAt(Nowhere)
    BY <1>6, <1>8 DEF ScoreCandidate
  <2>4. b.score = IF g = 0 THEN 0 ELSE 80 + g + boost
    BY <1>6, <1>8 DEF ScoreCandidate, boost
  <2>5. BoostAt(Nowhere) = 0
    BY Boosts
  <2> HIDE DEF f, g
  <2>6. f # 0 /\ g # 0
    BY <1>5, <2>3, <2>4
  <2>7. a.score = 45 + f /\ b.score = 80 + g + boost
    BY <2>1, <2>3, <2>4, <2>5, <2>6
  <2>8. boost \in Nat
    BY <1>4
  <2>9. b.score >= a.score
    BY <2>1, <2>2, <2>7, <2>8
  <2>10. QED BY <2>9 DEF a, b
<1>9. QED BY <1>7, <1>8

(* The curated places come first, and none has the name of another.         *)
LEMMA LocalIsMergeable ==
  ASSUME TextsAlike, search \in Searches, trips \in Seq(Trips)
  PROVE  Mergeable(CuratedResults \o RideResults)
<1> DEFINE a == CuratedResults
           b == RideResults
           L == a \o b
           n == Len(a)
<1>1. a \in Seq(Results) /\ n = Len(Curated) /\ \A i \in 1..n : a[i].source = "curated" /\ a[i].name = Curated[i].name
  BY CuratedTyped
<1>2. b \in Seq(Results) /\ \A i \in 1..Len(b) : b[i].source = "ride_history"
  BY RidesTyped
<1>3. \A k, m \in 1..Len(b) :
        /\ Counts(b[k]) /\ Counts(b[m]) /\ Alike(b[m], b[k]) /\ b[k].at = Nowhere /\ b[m].at # Nowhere
        => b[m].score >= b[k].score
  BY RidesAlike
<1>4. \A i, j \in 1..n : i # j => ~Alike(a[i], a[j])
  <2>1. \A i, j \in DOMAIN Curated : i # j => Plain[Curated[i].name] # Plain[Curated[j].name]
    BY CuratedAssumption DEF CuratedAssumption
  <2>2. DOMAIN Curated = 1..Len(Curated)
    BY CuratedAssumption DEF CuratedAssumption
  <2> HIDE DEF a, n
  <2>3. QED BY <1>1, <2>1, <2>2 DEF Alike
<1> HIDE DEF a, b
<1>5. /\ L \in Seq(Results) /\ n \in Nat /\ Len(b) \in Nat /\ Len(L) = n + Len(b)
      /\ \A i \in 1..n : L[i] = a[i]
      /\ \A k \in 1..Len(L) : k \in 1..n \/ (k - n \in 1..Len(b) /\ L[k] = b[k - n])
  <2>1. a \in Seq(Results) /\ b \in Seq(Results)
    BY <1>1, <1>2
  <2> HIDE DEF L, n
  <2>2. L = a \o b /\ n = Len(a)
    BY DEF L, n
  <2>3. QED BY <2>1, <2>2, Joined
<1> HIDE DEF L, n
<1>6. \A k \in 1..Len(L) : L[k].source # "current"
  BY <1>1, <1>2, <1>5
<1>7. ASSUME NEW k \in 1..Len(L), NEW m \in 1..(k - 1), Counts(L[k]), Counts(L[m]), Alike(L[m], L[k])
      PROVE  /\ L[k].source = "curated" => L[m].source = "current" \/ L[m] = L[k]
             /\ L[k].at = Nowhere /\ L[m].at # Nowhere /\ L[m].source \notin {"curated", "current"} =>
                  L[m].score >= L[k].score
  <2>1. m \in 1..Len(L) /\ m < k /\ m \in Nat /\ k \in Nat
    BY <1>5
  <2>2. CASE k \in 1..n
    <3>1. m \in 1..n /\ m # k
      BY <1>5, <2>1, <2>2
    <3>2. L[m] = a[m] /\ L[k] = a[k]
      BY <1>5, <2>2, <3>1
    <3>3. FALSE
      BY <1>4, <1>7, <2>2, <3>1, <3>2
    <3>4. QED BY <3>3
  <2>3. CASE k - n \in 1..Len(b) /\ L[k] = b[k - n]
    <3>1. L[k].source # "curated"
      BY <1>2, <2>3
    <3>2. CASE m \in 1..n
      <4>1. L[m].source = "curated"
        BY <1>1, <1>5, <3>2
      <4>2. QED BY <3>1, <4>1
    <3>3. CASE m - n \in 1..Len(b) /\ L[m] = b[m - n]
      BY <1>3, <1>7, <2>3, <3>1, <3>3
    <3>4. QED BY <1>5, <2>1, <3>2, <3>3
  <2>4. QED BY <1>5, <2>2, <2>3
<1>8. Mergeable(L)
  BY <1>5, <1>6, <1>7 DEF Mergeable
<1>9. QED BY <1>8 DEF L, a, b

(* What was ranked can be ranked again, after the place of the user or      *)
(* before Nominatim's.                                                      *)
LEMMA ApartIsMergeable ==
  ASSUME NEW a \in Seq(Results), NEW b \in Seq(Results),
         \A i \in 1..Len(a) : a[i].source = "current" => a[i].at # Nowhere,
         \A i \in 1..Len(b) : b[i].source # "current",
         \A i, j \in 1..Len(a) : a[i].source = "current" /\ a[j].source = "curated" => a[i].score >= a[j].score,
         \A i \in 1..Len(a) : \A j \in 1..Len(b) :
           a[i].source = "current" /\ b[j].source = "curated" => a[i].score >= b[j].score,
         Apart(a), Apart(b),
         \/ \A i \in 1..Len(a) : a[i].source = "current"
         \/ \A i \in 1..Len(b) : b[i].source # "curated" /\ b[i].at # Nowhere
  PROVE  Mergeable(a \o b)
<1> DEFINE L == a \o b
           n == Len(a)
<1>1. /\ L \in Seq(Results) /\ n \in Nat /\ Len(b) \in Nat /\ Len(L) = n + Len(b)
      /\ \A i \in 1..n : L[i] = a[i]
      /\ \A k \in 1..Len(L) : k \in 1..n \/ (k - n \in 1..Len(b) /\ L[k] = b[k - n])
  BY Joined
<1> HIDE DEF L
<1>2. \A k \in 1..Len(L) : L[k].source = "current" => k \in 1..n /\ L[k].at # Nowhere
  BY <1>1
<1>3. ASSUME NEW k \in 1..Len(L), NEW m \in 1..Len(L), L[k].source = "current", L[m].source = "curated"
      PROVE  L[k].score >= L[m].score
  <2>1. k \in 1..n /\ L[k] = a[k] /\ a[k].source = "current"
    BY <1>1, <1>2, <1>3
  <2>2. CASE m \in 1..n
    BY <1>1, <1>3, <2>1, <2>2
  <2>3. CASE m - n \in 1..Len(b) /\ L[m] = b[m - n]
    BY <1>3, <2>1, <2>3
  <2>4. QED BY <1>1, <2>2, <2>3
<1>4. ASSUME NEW k \in 1..Len(L), NEW m \in 1..(k - 1), Alike(L[m], L[k])
      PROVE  /\ L[k].source = "curated" => L[m].source = "current"
             /\ L[k].at = Nowhere => L[m].source = "current"
  <2>1. m \in 1..Len(L) /\ m < k /\ m \in Nat /\ k \in Nat /\ Alike(L[k], L[m])
    BY <1>1, <1>4 DEF Alike
  <2>2. CASE k \in 1..n
    <3>1. m \in 1..n /\ m # k /\ L[m] = a[m] /\ L[k] = a[k]
      BY <1>1, <2>1, <2>2
    <3>2. a[k].source # "curated" /\ a[k].at # Nowhere
      BY <2>1, <2>2, <3>1 DEF Apart
    <3>3. QED BY <3>1, <3>2
  <2>3. CASE k - n \in 1..Len(b) /\ L[k] = b[k - n] /\ m \in 1..n
    BY <1>1, <2>3
  <2>4. CASE k - n \in 1..Len(b) /\ L[k] = b[k - n] /\ m - n \in 1..Len(b) /\ L[m] = b[m - n]
    <3>1. k - n # m - n
      BY <1>1, <2>1
    <3>2. b[k - n].source # "curated" /\ b[k - n].at # Nowhere
      BY <2>1, <2>4, <3>1 DEF Apart
    <3>3. QED BY <2>4, <3>2
  <2>5. QED BY <1>1, <2>1, <2>2, <2>3, <2>4
<1>5. Mergeable(L)
  BY <1>1, <1>2, <1>3, <1>4 DEF Mergeable
<1>6. QED BY <1>5 DEF L

-----------------------------------------------------------------------------
(* Searching. *)

Known == {c \in ToSet(CuratedResults) : c.score > 0}

(* What CuratedWins says of the results of a search.                        *)
Right(rs, local, full, known) ==
  /\ \A c \in known :
       \/ \E i \in DOMAIN rs : Plain[rs[i].name] = Plain[c.name] /\ (rs[i] = c \/ rs[i].source = "current")
       \/ full /\ \A i \in DOMAIN rs : rs[i].score >= c.score
  /\ \A i, j \in DOMAIN rs : i # j /\ Plain[rs[i].name] = Plain[rs[j].name] =>
       rs[i].source # "curated" /\ rs[i].at # Nowhere
  /\ \A i \in DOMAIN local : \E j \in DOMAIN rs : Plain[rs[j].name] = Plain[local[i].name]

LEMMA KnownIs ==
  ASSUME search \in Searches, NEW c \in Known
  PROVE  /\ c.source = "curated" /\ Counts(c) /\ c.score \in Int
         /\ search.query = Empty => c.score <= 945
         /\ \E i \in 1..Len(CuratedResults) : CuratedResults[i] = c
<1> DEFINE a == CuratedResults
<1>1. a \in Seq(Results) /\ Len(a) = Len(Curated)
      /\ \A i \in 1..Len(Curated) : /\ a[i].source = "curated" /\ a[i].name = Curated[i].name
                                    /\ search.query = Empty => a[i].score <= 945
  BY CuratedTyped
<1>2. DOMAIN a = 1..Len(a) /\ \A r \in Results : r.score \in Int
  BY <1>1 DEF Results
<1>3. c.score > 0 /\ c \in ToSet(a)
  BY DEF Known
<1> HIDE DEF a
<1>4. PICK i \in 1..Len(a) : a[i] = c
  BY <1>2, <1>3 DEF ToSet
<1>5. a[i] \in Results
  BY <1>1, Element
<1>6. Plain[Curated[i].name] # Empty
  <2>1. DOMAIN Curated = 1..Len(Curated)
    BY CuratedAssumption DEF CuratedAssumption
  <2>2. QED BY <1>1, <2>1, CuratedAssumption DEF CuratedAssumption
<1>7. QED BY <1>1, <1>2, <1>3, <1>4, <1>5, <1>6 DEF Counts, a

(* What is ranked: no place of the user is in it yet.                       *)
LEMMA RankedIsRight ==
  ASSUME TextsAlike, search \in Searches, trips \in Seq(Trips)
  PROVE  LET R == MergeAndRank IN
         /\ R \in Seq(Results) /\ Len(R) <= search.limit /\ Apart(R)
         /\ \A k \in 1..Len(R) : /\ Counts(R[k]) /\ R[k].source # "current" /\ R[k].score \in Int
                                 /\ search.query = Empty /\ R[k].source = "curated" => R[k].score <= 945
         /\ \A c \in Known : \/ \E k \in 1..Len(R) : R[k] = c
                             \/ Len(R) = search.limit /\ \A k \in 1..Len(R) : R[k].score >= c.score
<1> DEFINE a == CuratedResults
           b == RideResults
           L == a \o b
           R == MergeAndRank
<1>1. search.limit \in Nat
  BY PlacesAssumption DEF PlacesAssumption
<1>2. Best(L, R)
  BY <1>1, LocalIsMergeable, ShownIsBest DEF MergeAndRank
<1>3. a \in Seq(Results) /\ Len(a) = Len(Curated)
      /\ \A i \in 1..Len(a) : /\ a[i].source = "curated"
                              /\ search.query = Empty => a[i].score <= 945
  BY CuratedTyped
<1>4. b \in Seq(Results) /\ \A i \in 1..Len(b) : b[i].source = "ride_history"
  BY RidesTyped
<1> HIDE DEF a, b, R
<1>5. /\ \A i \in 1..Len(a) : i \in 1..Len(L) /\ L[i] = a[i]
      /\ \A k \in 1..Len(L) : k \in 1..Len(a) \/ (k - Len(a) \in 1..Len(b) /\ L[k] = b[k - Len(a)])
  <2>1. a \in Seq(Results) /\ b \in Seq(Results)
    BY <1>3, <1>4
  <2> HIDE DEF L
  <2>2. L = a \o b
    BY DEF L
  <2>3. QED BY <2>1, <2>2, Joined
<1> HIDE DEF L
<1>6. \A k \in 1..Len(L) : /\ L[k].source # "current"
                           /\ search.query = Empty /\ L[k].source = "curated" => L[k].score <= 945
  <2>1. ASSUME NEW k \in 1..Len(L)
        PROVE  /\ L[k].source # "current"
               /\ search.query = Empty /\ L[k].source = "curated" => L[k].score <= 945
    <3>1. CASE k \in 1..Len(a)
      <4>1. L[k] = a[k] /\ a[k].source = "curated" /\ (search.query = Empty => a[k].score <= 945)
        BY <1>3, <1>5, <3>1
      <4>2. QED BY <4>1
    <3>2. CASE k - Len(a) \in 1..Len(b) /\ L[k] = b[k - Len(a)]
      <4>1. L[k].source = "ride_history"
        BY <1>4, <3>2
      <4>2. QED BY <4>1
    <3>3. QED BY <1>5, <3>1, <3>2
  <2>2. QED BY <2>1
<1>7. R \in Seq(Results) /\ Len(R) <= search.limit /\ Apart(R)
  BY <1>2 DEF Best
<1>8. \A k \in 1..Len(R) : /\ Counts(R[k]) /\ R[k].source # "current"
                           /\ search.query = Empty /\ R[k].source = "curated" => R[k].score <= 945
  BY <1>2, <1>6 DEF Best
<1>9. \A k \in 1..Len(R) : R[k].score \in Int
  <2>1. \A k \in 1..Len(R) : R[k] \in Results
    BY <1>7, Element
  <2>2. QED BY <2>1 DEF Results
<1>10. ASSUME NEW c \in Known
       PROVE  \/ \E k \in 1..Len(R) : R[k] = c
              \/ Len(R) = search.limit /\ \A k \in 1..Len(R) : R[k].score >= c.score
  <2>1. c.source = "curated" /\ Counts(c)
    BY KnownIs
  <2>2. PICK m \in 1..Len(L) : L[m] = c
    <3>1. \E i \in 1..Len(a) : a[i] = c
      BY KnownIs DEF a
    <3>2. QED BY <1>5, <3>1
  <2>3. \/ \E k \in 1..Len(R) : Stands(c, R[k])
        \/ Len(R) = search.limit /\ \A k \in 1..Len(R) : R[k].score >= c.score
    BY <1>2, <2>1, <2>2 DEF Best
  <2>4. QED BY <1>8, <2>1, <2>3 DEF Stands
<1>11. QED BY <1>7, <1>8, <1>9, <1>10 DEF R

(* The first lists: alone, after the place of the user, before Nominatim's. *)
LEMMA RightAlone ==
  ASSUME TextsAlike, search \in Searches, trips \in Seq(Trips)
  PROVE  LET R == MergeAndRank IN Right(R, R, Len(R) = search.limit, Known)
<1> DEFINE R == MergeAndRank
<1>1. /\ R \in Seq(Results) /\ Apart(R)
      /\ \A c \in Known : \/ \E k \in 1..Len(R) : R[k] = c
                          \/ Len(R) = search.limit /\ \A k \in 1..Len(R) : R[k].score >= c.score
  BY RankedIsRight
<1> HIDE DEF R
<1>2. DOMAIN R = 1..Len(R)
  BY <1>1
<1>3. Right(R, R, Len(R) = search.limit, Known)
  BY <1>1, <1>2 DEF Right, Apart, Alike
<1>4. QED BY <1>3 DEF R

LEMMA RightWithCurrent ==
  ASSUME TextsAlike, search \in Searches, trips \in Seq(Trips), NEW name \in Here,
         search.query = Empty, search.user # Nowhere
  PROVE  LET R == MergeAndRank
             D == DedupeAndSort(<<Result(name, "current", search.user, 1000)>> \o R)
         IN  Right(D, D, Len(R) = search.limit, Known)
<1> DEFINE R == MergeAndRank
           r == Result(name, "current", search.user, 1000)
           u == <<r>>
           L == u \o R
           D == DedupeAndSort(L)
<1>1. /\ R \in Seq(Results) /\ Len(R) <= search.limit /\ Apart(R)
      /\ \A k \in 1..Len(R) : /\ Counts(R[k]) /\ R[k].source # "current" /\ R[k].score \in Int
                              /\ search.query = Empty /\ R[k].source = "curated" => R[k].score <= 945
      /\ \A c \in Known : \/ \E k \in 1..Len(R) : R[k] = c
                          \/ Len(R) = search.limit /\ \A k \in 1..Len(R) : R[k].score >= c.score
  BY RankedIsRight
<1>2. search.limit \in Nat /\ search.user \in Int /\ name \in PlaceNames
  BY PlacesAssumption DEF PlacesAssumption, PlaceNames
<1>3. r \in Results /\ r.source = "current" /\ r.at # Nowhere /\ r.score = 1000
  <2>1. r = [name |-> name, source |-> "current", at |-> search.user, score |-> 1000]
    BY DEF Result
  <2> HIDE DEF r
  <2>2. QED BY <1>2, <2>1 DEF Results, Sources
<1> HIDE DEF R, r
<1>4. /\ u \in Seq(Results) /\ Len(u) = 1 /\ \A i \in 1..Len(u) : u[i] = r /\ i = 1
  BY <1>3
<1> HIDE DEF u
<1>5. Mergeable(L)
  <2>1. u \in Seq(Results) /\ R \in Seq(Results)
    BY <1>1, <1>4
  <2>2. \A i \in 1..Len(u) : u[i].source = "current" /\ u[i].at # Nowhere /\ u[i].source # "curated"
    BY <1>3, <1>4
  <2>3. \A i \in 1..Len(R) : R[i].source # "current"
    BY <1>1
  <2>4. \A i \in 1..Len(u) : \A j \in 1..Len(R) :
          u[i].source = "current" /\ R[j].source = "curated" => u[i].score >= R[j].score
    <3>1. ASSUME NEW i \in 1..Len(u), NEW j \in 1..Len(R), R[j].source = "curated" PROVE u[i].score >= R[j].score
      <4>1. u[i].score = 1000 /\ R[j].score <= 945 /\ R[j].score \in Int
        BY <1>1, <1>3, <1>4, <3>1
      <4>2. QED BY <4>1
    <3>2. QED BY <3>1
  <2>5. Apart(u)
    BY <1>4 DEF Apart
  <2>6. Apart(R)
    BY <1>1
  <2>7. \A i, j \in 1..Len(u) : u[i].source = "current" /\ u[j].source = "curated" => u[i].score >= u[j].score
    BY <2>2
  <2>8. \A i \in 1..Len(u) : u[i].source = "current" => u[i].at # Nowhere
    BY <2>2
  <2>9. \A i \in 1..Len(u) : u[i].source = "current"
    BY <2>2
  <2>10. QED BY <2>1, <2>3, <2>4, <2>5, <2>6, <2>7, <2>8, <2>9, ApartIsMergeable
<1>6. /\ Len(R) \in Nat /\ Len(L) = 1 + Len(R)
      /\ \A k \in 1..Len(R) : 1 + k \in 1..Len(L) /\ L[1 + k] = R[k]
      /\ \A k \in 1..Len(L) : k \in 1..1 \/ (k - 1 \in 1..Len(R) /\ L[k] = R[k - 1])
      /\ \A k \in 1..1 : L[k] = u[k]
  <2>1. u \in Seq(Results) /\ R \in Seq(Results)
    BY <1>1, <1>4
  <2> HIDE DEF L
  <2>2. L = u \o R
    BY DEF L
  <2>3. /\ Len(R) \in Nat /\ Len(L) = Len(u) + Len(R)
        /\ \A k \in 1..Len(u) : L[k] = u[k]
        /\ \A k \in 1..Len(R) : Len(u) + k \in 1..Len(L) /\ L[Len(u) + k] = R[k]
        /\ \A k \in 1..Len(L) : k \in 1..Len(u) \/ (k - Len(u) \in 1..Len(R) /\ L[k] = R[k - Len(u)])
    BY <2>1, <2>2, Joined
  <2>4. Len(u) = 1
    BY <1>4
  <2>5. QED BY <2>3, <2>4
<1>7. Best(L, D)
  BY <1>2, <1>5, ShownIsBest
<1> HIDE DEF L, D
<1>8. D \in Seq(Results) /\ Apart(D) /\ DOMAIN D = 1..Len(D)
  BY <1>7 DEF Best
<1>9. \A k \in 1..Len(L) : L[k] = r \/ \E m \in 1..Len(R) : L[k] = R[m]
  BY <1>4, <1>6
<1>10. ASSUME NEW c \in Known
       PROVE  \/ \E i \in 1..Len(D) : Stands(c, D[i])
              \/ Len(R) = search.limit /\ \A i \in 1..Len(D) : D[i].score >= c.score
  <2>1. c.source = "curated" /\ Counts(c) /\ c.score \in Int /\ c.score <= 945
    BY KnownIs
  <2>2. CASE \E k \in 1..Len(R) : R[k] = c
    <3>1. PICK m \in 1..Len(L) : L[m] = c
      BY <1>6, <2>2
    <3>2. CASE \E k \in 1..Len(D) : Stands(L[m], D[k])
      BY <3>1, <3>2
    <3>3. CASE Len(L) > search.limit /\ \A k \in 1..Len(D) : D[k].score >= L[m].score
      <4>1. Len(R) = search.limit
        BY <1>1, <1>2, <1>6, <3>3
      <4>2. QED BY <3>1, <3>3, <4>1
    <3>4. QED BY <1>7, <2>1, <3>1, <3>2, <3>3 DEF Best
  <2>3. CASE Len(R) = search.limit /\ \A k \in 1..Len(R) : R[k].score >= c.score
    <3>1. ASSUME NEW i \in 1..Len(D) PROVE D[i].score >= c.score
      <4>1. PICK k \in 1..Len(L) : D[i] = L[k]
        BY <1>7 DEF Best
      <4>2. CASE L[k] = r
        BY <1>3, <2>1, <4>1, <4>2
      <4>3. CASE \E m \in 1..Len(R) : L[k] = R[m]
        BY <2>3, <4>1, <4>3
      <4>4. QED BY <1>9, <4>2, <4>3
    <3>2. QED BY <2>3, <3>1
  <2>4. QED BY <1>1, <2>2, <2>3
<1>11. \A c \in Known : c.source = "curated"
  BY KnownIs
<1>12. Right(D, D, Len(R) = search.limit, Known)
  BY <1>8, <1>10, <1>11 DEF Right, Apart, Alike, Stands
<1>13. QED BY <1>12 DEF R, r, u, L, D

LEMMA RightWithRemote ==
  ASSUME TextsAlike, search \in Searches, trips \in Seq(Trips), search.query # Empty,
         NEW few \in Seq([name : PlaceNames, at : Int \ {Nowhere}]),
         Len(MergeAndRank) < search.limit, Len(few) <= search.limit - Len(MergeAndRank)
  PROVE  LET R == MergeAndRank
         IN  Right(DedupeAndSort(R \o RemoteResults(few)), R, Len(R) = search.limit, Known)
<1> DEFINE R == MergeAndRank
           o == RemoteResults(few)
           L == R \o o
           D == DedupeAndSort(L)
<1>1. /\ R \in Seq(Results) /\ Len(R) <= search.limit /\ Apart(R)
      /\ \A k \in 1..Len(R) : Counts(R[k]) /\ R[k].source # "current"
      /\ \A c \in Known : \/ \E k \in 1..Len(R) : R[k] = c
                          \/ Len(R) = search.limit
  BY RankedIsRight
<1>2. search.limit \in Nat
  BY PlacesAssumption DEF PlacesAssumption
<1>3. /\ o \in Seq(Results) /\ Len(o) = Len(few)
      /\ \A i \in 1..Len(few) : o[i].source = "osm" /\ o[i].at # Nowhere
  BY RemoteTyped
<1>4. Len(R) < search.limit /\ Len(o) <= search.limit - Len(R)
  BY <1>3
<1> HIDE DEF R, o
<1>5. Mergeable(L)
  <2>1. R \in Seq(Results) /\ o \in Seq(Results)
    BY <1>1, <1>3
  <2>2. \A i \in 1..Len(o) : o[i].source # "curated" /\ o[i].at # Nowhere
    BY <1>3
  <2>3. \A i \in 1..Len(o) : o[i].source # "current"
    BY <1>3
  <2>4. \A i \in 1..Len(R) : R[i].source # "current"
    BY <1>1
  <2>5. Apart(o)
    BY <2>2 DEF Apart
  <2>6. Apart(R)
    BY <1>1
  <2>7. QED BY <2>1, <2>2, <2>3, <2>4, <2>5, <2>6, ApartIsMergeable
<1>6. /\ Len(R) \in Nat /\ Len(o) \in Nat /\ Len(L) = Len(R) + Len(o)
      /\ \A k \in 1..Len(R) : k \in 1..Len(L) /\ L[k] = R[k]
  <2>1. R \in Seq(Results) /\ o \in Seq(Results)
    BY <1>1, <1>3
  <2> HIDE DEF L
  <2>2. L = R \o o
    BY DEF L
  <2>3. QED BY <2>1, <2>2, Joined
<1>7. Best(L, D)
  BY <1>2, <1>5, ShownIsBest
<1> HIDE DEF L, D
<1>8. D \in Seq(Results) /\ Apart(D) /\ DOMAIN D = 1..Len(D) /\ DOMAIN R = 1..Len(R)
  BY <1>1, <1>7 DEF Best
<1>9. ~(Len(L) > search.limit) /\ Len(R) # search.limit
  BY <1>2, <1>4, <1>6
<1>10. \A k \in 1..Len(R) : \E j \in 1..Len(D) : Stands(R[k], D[j])
  BY <1>1, <1>6, <1>7, <1>9 DEF Best
<1>11. \A c \in Known : c.source = "curated" /\ \E k \in 1..Len(R) : R[k] = c
  BY <1>1, <1>9, KnownIs
<1>12. \A c \in Known : \E j \in 1..Len(D) : Alike(D[j], c) /\ (D[j] = c \/ D[j].source = "current")
  BY <1>10, <1>11 DEF Stands
<1>13. Right(D, R, Len(R) = search.limit, Known)
  BY <1>8, <1>10, <1>12 DEF Right, Apart, Alike, Stands
<1>14. QED BY <1>13 DEF R, o, L, D

-----------------------------------------------------------------------------
(* An entry of the cache, and what is answered from it.                     *)
EntryRight(e) == e # NoEntry => Right(e.results, e.local, e.full, e.known)

PlacesInv == search \in Searches /\ trips \in Seq(Trips) /\ EntryRight(entry) /\ EntryRight(answer)

LEMMA SearchIsRight ==
  ASSUME TextsAlike, search \in Searches, trips \in Seq(Trips), SearchLocations
  PROVE  EntryRight(entry')
<1> DEFINE R == MergeAndRank
           asks(local) == Len(local) < search.limit /\ Long(search.query)
           few(remote, local) == SubSeq(remote, 1, Min({Len(remote), search.limit - Len(local)}))
<1>1. PICK name \in Here, remote \in Remote :
        LET local == WithCurrent(name, R) IN
        entry' = [results |-> IF asks(local) THEN DedupeAndSort(local \o RemoteResults(few(remote, local))) ELSE local,
                  made |-> time, full |-> Len(R) = search.limit, local |-> local, known |-> Known]
  BY DEF SearchLocations, Known
<1> DEFINE local == WithCurrent(name, R)
           results == IF asks(local) THEN DedupeAndSort(local \o RemoteResults(few(remote, local))) ELSE local
<1>2. entry' = [results |-> results, made |-> time, full |-> Len(R) = search.limit, local |-> local, known |-> Known]
  BY <1>1
<1>3. Right(results, local, Len(R) = search.limit, Known)
  <2>1. CASE search.query = Empty /\ search.user # Nowhere /\ search.include
    <3>1. local = DedupeAndSort(<<Result(name, "current", search.user, 1000)>> \o R)
      BY <2>1 DEF WithCurrent
    <3>2. results = local
      BY <2>1 DEF Long
    <3>3. Right(local, local, Len(R) = search.limit, Known)
      BY <2>1, <3>1, RightWithCurrent
    <3>4. QED BY <3>2, <3>3
  <2>2. CASE ~(search.query = Empty /\ search.user # Nowhere /\ search.include) /\ ~asks(R)
    <3>1. local = R /\ results = R
      BY <2>2 DEF WithCurrent
    <3>2. QED BY <3>1, RightAlone
  <2>3. CASE ~(search.query = Empty /\ search.user # Nowhere /\ search.include) /\ asks(R)
    <3> DEFINE f == few(remote, R)
               Names == [name : PlaceNames, at : Int \ {Nowhere}]
               room == search.limit - Len(R)
    <3>1. local = R
      BY <2>3 DEF WithCurrent
    <3>2. results = DedupeAndSort(R \o RemoteResults(f))
      BY <2>3, <3>1
    <3>3. search.query # Empty /\ Len(R) < search.limit
      BY <2>3 DEF Long
    <3>4. f \in Seq(Names) /\ Len(f) <= room
      <4>1. remote \in Seq(Names) /\ search.limit \in Nat
        BY PlacesAssumption DEF PlacesAssumption
      <4>2. R \in Seq(Results)
        BY RankedIsRight
      <4> DEFINE cut == Min({Len(remote), room})
      <4>3. f = SubSeq(remote, 1, cut)
        OBVIOUS
      <4> HIDE DEF Names, R
      <4>4. Len(remote) \in Nat /\ room \in Nat
        BY <3>3, <4>1, <4>2
      <4> HIDE DEF room
      <4>5. cut \in Nat /\ cut <= Len(remote) /\ cut <= room
        BY <4>4, MinOfTwo
      <4> HIDE DEF cut
      <4>6. SubSeq(remote, 1, cut) \in Seq(Names) /\ Len(SubSeq(remote, 1, cut)) = cut
        BY <4>1, <4>4, <4>5
      <4> HIDE DEF f
      <4>7. QED BY <4>3, <4>5, <4>6
    <3> HIDE DEF f
    <3>5. Right(DedupeAndSort(R \o RemoteResults(f)), R, Len(R) = search.limit, Known)
      BY <3>3, <3>4, RightWithRemote
    <3>6. QED BY <3>1, <3>2, <3>5
  <2>4. QED BY <2>1, <2>2, <2>3
<1> HIDE DEF results, local, R
<1>4. QED BY <1>2, <1>3 DEF EntryRight

(* search.go:78-164, 278-395: if the texts of like names fit alike, then    *)
(* what is answered, found now or kept, shows every curated place that fits *)
(* unless enough others fit better; it shows no name twice because of a     *)
(* place that is curated or has no position; and no local place goes when   *)
(* Nominatim's come.                                                        *)
THEOREM CuratedPlacesWin == TextsAlike /\ PlacesSpec => []CuratedWins
<1> SUFFICES ASSUME TextsAlike PROVE PlacesSpec => []CuratedWins
  OBVIOUS
<1>1. PlacesInit => PlacesInv
  <2>1. <<>> \in Seq(Trips)
    OBVIOUS
  <2>2. QED BY <2>1 DEF PlacesInit, PlacesInv, EntryRight
<1>2. PlacesInv /\ [PlacesNext]_placesVars => PlacesInv'
  <2> SUFFICES ASSUME PlacesInv, [PlacesNext]_placesVars PROVE PlacesInv'
    OBVIOUS
  <2> USE DEF PlacesInv
  <2>1. ASSUME NEW t \in Trips, PostTrip(t) PROVE PlacesInv'
    <3>1. Kept(trips, Trips \ {t}) \in Seq(Trips \cap (Trips \ {t}))
      BY KeptTyped DEF PlacesInv
    <3> DEFINE K == Kept(trips, Trips \ {t})
    <3>2. K \in Seq(Trips)
      <4>1. Trips \cap (Trips \ {t}) \subseteq Trips
        OBVIOUS
      <4> HIDE DEF K
      <4>2. \A S, T : S \subseteq T => Seq(S) \subseteq Seq(T)
        OBVIOUS
      <4>3. QED BY <3>1, <4>1, <4>2 DEF K
    <3>3. trips' = <<t>> \o K /\ UNCHANGED <<search, entry, answer>>
      BY <2>1 DEF PostTrip
    <3> HIDE DEF K
    <3>4. trips' \in Seq(Trips)
      BY <3>2, <3>3
    <3>5. QED BY <3>3, <3>4 DEF EntryRight
  <2>2. ASSUME TimePassesBy PROVE PlacesInv'
    BY <2>2 DEF TimePassesBy, EntryRight
  <2>3. ASSUME AskCached PROVE PlacesInv'
    BY <2>3 DEF AskCached, EntryRight
  <2>4. ASSUME SearchLocations PROVE PlacesInv'
    <3>1. EntryRight(entry')
      BY <2>4, SearchIsRight
    <3>2. answer' = entry' /\ search' = search /\ trips' = trips
      BY <2>4 DEF SearchLocations
    <3>3. QED BY <3>1, <3>2 DEF EntryRight
  <2>5. CASE UNCHANGED placesVars
    BY <2>5 DEF placesVars, EntryRight
  <2>6. QED BY <2>1, <2>2, <2>3, <2>4, <2>5 DEF PlacesNext
<1>3. PlacesInv => CuratedWins
  BY DEF PlacesInv, EntryRight, Right, CuratedWins, Shown
<1>4. QED BY <1>1, <1>2, <1>3, PTL DEF PlacesSpec

LEMMA KeptShorter ==
  ASSUME NEW S, NEW s \in Seq(S), NEW K
  PROVE  /\ Len(Kept(s, K)) <= Len(s)
         /\ (\E i \in DOMAIN s : s[i] \notin K) => Len(Kept(s, K)) < Len(s)
<1> DEFINE hits == {i \in DOMAIN s : s[i] \in K}
           order == InOrder(hits, [i \in hits |-> {j \in hits : j < i}])
           n == Len(s)
           c == Cardinality(hits)
<1>1. n \in Nat /\ DOMAIN s = 1..n
  OBVIOUS
<1>2. IsFiniteSet(1..n) /\ Cardinality(1..n) = n
  <2>1. 1 \in Int /\ n \in Int /\ (IF 1 > n THEN 0 ELSE n - 1 + 1) = n
    BY <1>1
  <2> HIDE DEF n
  <2>2. IsFiniteSet(1..n) /\ Cardinality(1..n) = IF 1 > n THEN 0 ELSE n - 1 + 1
    BY <2>1, FS_Interval
  <2>3. QED BY <2>1, <2>2
<1>3. hits \subseteq 1..n /\ ((\E i \in DOMAIN s : s[i] \notin K) => hits # 1..n)
  BY <1>1
<1> HIDE DEF hits, n
<1>4. c \in Nat /\ c <= n /\ (hits # 1..n => c # n)
  BY <1>2, <1>3, FS_Subset, FS_CardinalityType
<1>5. Kept(s, K) = [k \in DOMAIN order |-> s[order[k]]]
  BY DEF Kept, hits
<1>6. DOMAIN order = 1..c
  BY DEF InOrder
<1> HIDE DEF order, c
<1>7. Len(Kept(s, K)) = c
  <2>1. Kept(s, K) = [k \in 1..c |-> s[order[k]]]
    BY <1>5, <1>6
  <2>2. DOMAIN Kept(s, K) = 1..c
    BY <2>1
  <2>3. Kept(s, K) \in Seq(S \cap K)
    BY KeptTyped
  <2>4. DOMAIN Kept(s, K) = 1..Len(Kept(s, K)) /\ Len(Kept(s, K)) \in Nat
    BY <2>3
  <2>5. QED BY <1>4, <2>2, <2>4
<1>8. n \in Nat /\ Len(Kept(s, K)) <= n /\ (hits # 1..n => Len(Kept(s, K)) < n)
  BY <1>1, <1>4, <1>7
<1>9. (\E i \in DOMAIN s : s[i] \notin K) => Len(Kept(s, K)) < n
  BY <1>3, <1>8, Zenon
<1>10. QED BY <1>8, <1>9 DEF n

(* What Places keeps stays well formed, whatever is posted and asked.       *)
THEOREM PlacesTypeCorrect == PlacesSpec => []PlacesTypeOK
<1>1. PlacesInit => PlacesTypeOK
  <2>1. <<>> \in Seq(Trips) /\ Len(<<>>) = 0
    OBVIOUS
  <2>2. MaxTrips \in Nat /\ MaxTime \in Nat
    BY PlacesAssumption DEF PlacesAssumption
  <2>3. QED BY <2>1, <2>2 DEF PlacesInit, PlacesTypeOK, NoEntry
<1>2. PlacesTypeOK /\ [PlacesNext]_placesVars => PlacesTypeOK'
  <2> SUFFICES ASSUME PlacesTypeOK, [PlacesNext]_placesVars PROVE PlacesTypeOK'
    OBVIOUS
  <2>1. MaxTrips \in Nat /\ MaxTime \in Nat
    BY PlacesAssumption DEF PlacesAssumption
  <2>2. ASSUME NEW t \in Trips, PostTrip(t) PROVE PlacesTypeOK'
    <3> DEFINE K == Kept(trips, Trips \ {t})
    <3>1. trips \in Seq(Trips) /\ Len(trips) <= MaxTrips
      BY DEF PlacesTypeOK
    <3>2. trips' = <<t>> \o K /\ UNCHANGED <<search, time, entry, answer>>
      BY <2>2 DEF PostTrip
    <3>3. K \in Seq(Trips)
      <4>1. K \in Seq(Trips \cap (Trips \ {t}))
        BY <3>1, KeptTyped
      <4>2. Trips \cap (Trips \ {t}) \subseteq Trips
        OBVIOUS
      <4> HIDE DEF K
      <4>3. \A S, T : S \subseteq T => Seq(S) \subseteq Seq(T)
        OBVIOUS
      <4>4. QED BY <4>1, <4>2, <4>3
    <3>4. /\ Len(K) <= Len(trips)
          /\ (\E i \in DOMAIN trips : trips[i] \notin Trips \ {t}) => Len(K) < Len(trips)
      BY <3>1, KeptShorter
    <3>5. Len(trips) < MaxTrips \/ \E i \in DOMAIN trips : trips[i] \notin Trips \ {t}
      BY <2>2 DEF PostTrip, ToSet
    <3> HIDE DEF K
    <3>6. trips' \in Seq(Trips) /\ Len(trips') = 1 + Len(K)
      BY <3>2, <3>3
    <3>7. Len(K) \in Nat /\ Len(trips) \in Nat
      BY <3>1, <3>3
    <3>8. Len(trips') <= MaxTrips
      BY <2>1, <3>1, <3>4, <3>5, <3>6, <3>7
    <3>9. QED BY <3>2, <3>6, <3>8 DEF PlacesTypeOK
  <2>3. ASSUME TimePassesBy PROVE PlacesTypeOK'
    BY <2>1, <2>3 DEF TimePassesBy, PlacesTypeOK
  <2>4. ASSUME AskCached PROVE PlacesTypeOK'
    BY <2>4 DEF AskCached, PlacesTypeOK
  <2>5. ASSUME SearchLocations PROVE PlacesTypeOK'
    <3>1. entry'.made = time /\ answer' = entry' /\ UNCHANGED <<search, trips, time>>
      BY <2>5 DEF SearchLocations
    <3>2. time \in -1..MaxTime
      BY DEF PlacesTypeOK
    <3>3. QED BY <3>1, <3>2 DEF PlacesTypeOK
  <2>6. CASE UNCHANGED placesVars
    BY <2>6 DEF placesVars, PlacesTypeOK
  <2>7. QED BY <2>2, <2>3, <2>4, <2>5, <2>6 DEF PlacesNext
<1>3. QED BY <1>1, <1>2, PTL DEF PlacesSpec
=============================================================================
