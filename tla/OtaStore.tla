----------------------------- MODULE OtaStore -----------------------------
(***************************************************************************)
(* The app bundles of one runtime version on disk: uploads unpack into a   *)
(* directory of their own and rename it into place; manifests are made     *)
(* from the newest directory, and assets served from the one they name.    *)
(*                                                                         *)
(* A file's content is told by the upload that it came with.  "metadata"   *)
(* lists the bundles of the platforms; a bundle is named as its platform.  *)
(***************************************************************************)
EXTENDS Naturals, Sequences

CONSTANTS
  Uploads,   \* requests of /api/ota/upload
  Archives,  \* what may be in their bodies: files at the top and under dist/,
             \* the platforms that the metadata lists, whether it breaks off
  MaxAsks    \* bound: manifests asked for

Platforms == {"ios", "android"}
Files     == Platforms \cup {"metadata"}

ASSUME OtaAssumption ==
  Archives \subseteq [files : SUBSET Files, dist : SUBSET Files, lists : SUBSET Platforms, whole : BOOLEAN]

VARIABLES
  stage,    \* how far each upload is
  archive,
  root,     \* files at the root of its directory
  inner,    \* files under dist/ in it
  mtime,    \* when an entry of the root was last written
  clock,
  overlap,  \* history: the uploads that were at work while this one was
  latest,   \* history: the upload that was published last
  asking,   \* the manifest request: its platform and the directory it took
  answers   \* the manifests answered

otaVars == <<stage, archive, root, inner, mtime, clock, overlap, latest, asking, answers>>

NotAsking == [platform |-> "none"]
Working   == {"staging", "unpacked"}

OtaInit ==
  /\ stage = [u \in Uploads |-> "new"]
  /\ archive \in [Uploads -> Archives]
  /\ root = [u \in Uploads |-> {}]
  /\ inner = [u \in Uploads |-> {}]
  /\ mtime = [u \in Uploads |-> 0]
  /\ clock = 0
  /\ overlap = [u \in Uploads |-> {}]
  /\ latest = {}
  /\ asking = NotAsking
  /\ answers = <<>>

Touch(u) == clock' = clock + 1 /\ mtime' = [mtime EXCEPT ![u] = clock + 1]

-----------------------------------------------------------------------------
(* Uploading. *)

MkStaging(u) ==
  LET others == {v \in Uploads : stage[v] \in Working}
  IN  /\ stage[u] = "new"
      /\ stage' = [stage EXCEPT ![u] = "staging"]
      /\ overlap' = [v \in Uploads |-> IF v = u THEN others
                                       ELSE IF v \in others THEN overlap[v] \cup {u} ELSE overlap[v]]
      /\ Touch(u)
      /\ UNCHANGED <<archive, root, inner, latest, asking, answers>>

(* One entry of the archive; the first under dist/ makes that directory.    *)
ExtractTar(u) ==
  /\ stage[u] = "staging"
  /\ \/ \E f \in archive[u].files \ root[u] :
          root' = [root EXCEPT ![u] = @ \cup {f}] /\ Touch(u) /\ UNCHANGED inner
     \/ \E f \in archive[u].dist \ inner[u] :
          /\ inner' = [inner EXCEPT ![u] = @ \cup {f}] /\ UNCHANGED root
          /\ IF inner[u] = {} THEN Touch(u) ELSE UNCHANGED <<clock, mtime>>
  /\ UNCHANGED <<stage, archive, overlap, latest, asking, answers>>

RemoveAll(u) ==
  /\ stage' = [stage EXCEPT ![u] = "failed"]
  /\ root' = [root EXCEPT ![u] = {}]
  /\ inner' = [inner EXCEPT ![u] = {}]
  /\ UNCHANGED <<clock, mtime>>

Unpacked(u) == root[u] = archive[u].files /\ inner[u] = archive[u].dist

(* Entries of dist/ are moved up one by one, and nobody looks at errors: the *)
(* listing may fail, and so may any rename, as onto a directory that is not *)
(* empty.  What is not moved stays behind.                                  *)
Hoist(u) ==
  \E moved \in SUBSET inner[u] :
    /\ root' = [root EXCEPT ![u] = @ \cup moved]
    /\ inner' = [inner EXCEPT ![u] = @ \ moved]
    /\ IF moved # {} THEN Touch(u) ELSE UNCHANGED <<clock, mtime>>

(* A body that breaks off, or brings no metadata.json, is cleared away; one *)
(* that brings it only under dist/ has that hoisted.                        *)
CheckUnpacked(u) ==
  /\ stage[u] = "staging" /\ Unpacked(u)
  /\ IF archive[u].whole /\ "metadata" \in root[u] \cup inner[u]
     THEN /\ stage' = [stage EXCEPT ![u] = "unpacked"]
          /\ IF "metadata" \in root[u] THEN UNCHANGED <<root, inner, clock, mtime>> ELSE Hoist(u)
     ELSE RemoveAll(u)
  /\ UNCHANGED <<archive, overlap, latest, asking, answers>>

(* message.txt is written, and the directory becomes visible at once; the   *)
(* rename does not count as a write to it.                                  *)
Publish(u) ==
  /\ stage[u] = "unpacked"
  /\ \/ /\ stage' = [stage EXCEPT ![u] = "published"]
        /\ latest' = {u}
        /\ Touch(u) \/ UNCHANGED <<clock, mtime>>
        /\ UNCHANGED <<root, inner>>
     \/ RemoveAll(u) /\ UNCHANGED latest
  /\ UNCHANGED <<archive, overlap, asking, answers>>

(* Mutant: the files are unpacked in place. *)
VisibleEarly == {u \in Uploads : stage[u] \in {"staging", "unpacked", "published"}}

(* The directories that a listing shows: not those that end in .incoming.   *)
Visible == {u \in Uploads : stage[u] = "published"}

(* A crash leaves the staging directory behind for good. *)
OtaCrash ==
  /\ \E u \in Uploads : stage[u] \in Working
  /\ stage' = [u \in Uploads |-> IF stage[u] \in Working THEN "abandoned" ELSE stage[u]]
  /\ asking' = NotAsking
  /\ UNCHANGED <<archive, root, inner, mtime, clock, overlap, latest, answers>>

-----------------------------------------------------------------------------
(* Downloading. *)

(* Mutant: any of the directories is taken. *)
NewestAny(S) == S

Newest(S) == {u \in S : \A v \in S : mtime[v] <= mtime[u]}

LatestUpdateDir(platform) ==
  /\ asking = NotAsking
  /\ Len(answers) < MaxAsks
  /\ \E u \in Newest(Visible) :
       asking' = [platform |-> platform, dir |-> u]
  /\ UNCHANGED <<stage, archive, root, inner, mtime, clock, overlap, latest, answers>>

(* The metadata and every file it lists for the platform are read; one that *)
(* is missing makes the answer an error.                                    *)
Manifest ==
  LET u == asking.dir
  IN  /\ asking # NotAsking
      /\ answers' = IF /\ "metadata" \in root[u]
                       /\ asking.platform \in archive[u].lists
                       /\ asking.platform \in root[u]
                    THEN Append(answers, [id |-> u, platform |-> asking.platform, created |-> mtime[u]])
                    ELSE answers
      /\ asking' = NotAsking
      /\ UNCHANGED <<stage, archive, root, inner, mtime, clock, overlap, latest>>

(* The upload whose file an asset request gets; old manifests name no       *)
(* update, and get the newest file of that name.                            *)
AssetByUpdate(id, f) == IF f \in root[id] THEN {id} ELSE {}
AssetByName(f) == Newest({u \in Visible : f \in root[u]})

OtaNext ==
  \/ \E u \in Uploads : MkStaging(u) \/ ExtractTar(u) \/ CheckUnpacked(u) \/ Publish(u)
  \/ \E p \in Platforms : LatestUpdateDir(p)
  \/ Manifest \/ OtaCrash

OtaSpec == OtaInit /\ [][OtaNext]_otaVars

-----------------------------------------------------------------------------
OtaTypeOK ==
  /\ stage \in [Uploads -> {"new", "unpacked", "published", "failed", "abandoned", "staging"}]
  /\ archive \in [Uploads -> Archives]
  /\ root \in [Uploads -> SUBSET Files] /\ inner \in [Uploads -> SUBSET Files]
  /\ mtime \in [Uploads -> 0..clock]
  /\ clock \in Nat
  /\ overlap \in [Uploads -> SUBSET Uploads]
  /\ latest \in SUBSET Uploads
  /\ asking = NotAsking \/ asking \in [platform : Platforms, dir : Uploads]

(* ota.go:118-363: a manifest names an update that is published, unpacked   *)
(* from a whole archive with at most something left under dist/, and all    *)
(* that the manifest names is there to be fetched for as long as the app    *)
(* may ask: uploads at work, broken ones, half-hoisted ones, newer ones and *)
(* crashes change nothing about it.  And no app is sent back to an older    *)
(* update.                                                                  *)
ManifestsWhole ==
  /\ \A i \in DOMAIN answers :
       LET m == answers[i] IN
         /\ stage[m.id] = "published"
         /\ archive[m.id].whole /\ archive[m.id].files \subseteq root[m.id]
         /\ root[m.id] \cup inner[m.id] = archive[m.id].files \cup archive[m.id].dist
         /\ "metadata" \in root[m.id] /\ AssetByUpdate(m.id, m.platform) = {m.id}
  /\ \A i, j \in DOMAIN answers : i < j => answers[i].created <= answers[j].created

(* ota.go:17-21, 461-508: the update published last is the one that is      *)
(* served, unless another upload was at work at the same time: the order is *)
(* that of the last writes, and not of the renames.                         *)
LastUploadServed ==
  \A u \in latest : overlap[u] = {} => Newest(Visible) = {u}
=============================================================================
