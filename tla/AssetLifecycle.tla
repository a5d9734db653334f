--------------------------- MODULE AssetLifecycle ---------------------------
(***************************************************************************)
(* The private media assets of one workspace: uploads and generated        *)
(* results (assets/service.ts, official-generation/worker.ts), the         *)
(* references canvases, checkpoints and community posts hold               *)
(* (postgresAssetReferences.ts, postgresProjectSnapshotService.ts,         *)
(* contentService.ts), the storage quota (workspaces/usage.ts) and the     *)
(* cleaner that removes what nothing needs (postgresAssetMaintenance.ts).  *)
(*                                                                         *)
(* A transaction whose statements read rows it does not lock is split into *)
(* its statements: tx holds what the open graph transaction of a project   *)
(* has decided so far, removal the statement that deletes a project, and   *)
(* creating the upload transaction that holds the workspace row.  A row    *)
(* lock is a guard on the steps of the others.                             *)
(***************************************************************************)
EXTENDS Totals

CONSTANTS
    Assets,
    Projects,
    Checkpoints,    \* ids of project_snapshots rows
    Posts,          \* ids of community_posts rows
    Size,           \* byte_size of an asset
    Quota,          \* storage_quota_bytes
    None,           \* NULL
    MayDie          \* whether the cleaner's process may die

ASSUME AssetAssumption ==
    /\ IsFiniteSet(Assets)
    /\ Size \in [Assets -> Nat \ {0}]
    /\ Quota \in Nat
    /\ None \notin Assets \cup Projects \cup Checkpoints
    /\ MayDie \in BOOLEAN

VARIABLES
    project,        \* "none", "active", "archived" or "deleted"
    status,         \* assets.status, "none" before insertion
    kind,           \* made by an "upload" or "generated" by an executor
    origin,         \* origin_project_id
    released,       \* assets with quota_released_at
    aged,           \* assets whose gc_eligible_at is older than the grace period
    expired,        \* assets whose asset_uploads.expires_at has passed
    stored,         \* assets whose object is in the object store
    confirming,     \* assets a completeUpload request has verified
    running,        \* generated assets whose executor is still at work
    shielded,       \* unacknowledged results, result_protected_until > now()
    refs,           \* assets the nodes of a project name: asset_references
    checkpoint,     \* project, asset_manifest_json and is_valid of a checkpoint
    post,           \* status and asset of a community post
    revived,        \* history: rejected posts that were edited, and so shown to the
                    \* moderators again, when the cleaner had or took their image
    tx,             \* open graph transaction of a project
    removal,        \* running DELETE of a project
    creating,       \* the createUpload transaction holding the workspace row
    cleaner,        \* what the cleaner has locked, and how far it is
    lost            \* history: objects removed by a cleaner that died before it
                    \* could mark their rows

assetVars   == <<status, kind, origin, released, aged>>
uploadVars  == <<expired, confirming, running, shielded, creating>>
objectVars  == <<stored, lost>>
postVars    == <<post, revived>>
claimVars   == <<refs, checkpoint, postVars>>
serverVars  == <<tx, removal, cleaner>>
vars == <<project, assetVars, uploadVars, objectVars, claimVars, serverVars>>

NoTx      == [step |-> "none", drop |-> {}, add |-> {}, release |-> {}, backup |-> None]
NoRemoval == [step |-> "none", drop |-> {}, release |-> {}, invalid |-> {}]
NoUpload  == [asset |-> None, origin |-> None]
NoRow     == [asset |-> None, step |-> "none"]

Init ==
    /\ project = [p \in Projects |-> "none"]
    /\ status = [a \in Assets |-> "none"]
    /\ kind = [a \in Assets |-> "none"]
    /\ origin = [a \in Assets |-> None]
    /\ released = {} /\ aged = {} /\ expired = {} /\ stored = {} /\ lost = {}
    /\ confirming = {} /\ running = {} /\ shielded = {}
    /\ refs = [p \in Projects |-> {}]
    /\ checkpoint = [s \in Checkpoints |-> [project |-> None, manifest |-> {}, valid |-> FALSE]]
    /\ post = [k \in Posts |-> [status |-> "none", asset |-> None]]
    /\ revived = {}
    /\ tx = [p \in Projects |-> NoTx]
    /\ removal = [p \in Projects |-> NoRemoval]
    /\ creating = NoUpload
    /\ cleaner = NoRow

-----------------------------------------------------------------------------
(* Rows, locks and the quota *)

Undeleted(p) == project[p] \in {"active", "archived"}

\* Row locks on assets: FOR SHARE of open graph transactions, FOR UPDATE of the
\* cleaner.
SharedBy(a) == {p \in Projects : tx[p].step # "none" /\ a \in tx[p].add}
Cleaned(a) == cleaner.asset = a
Unlocked(a) == SharedBy(a) = {} /\ ~Cleaned(a)

\* billableAssetPredicate.
Billed ==
    {a \in Assets :
        /\ status[a] \in {"pending", "completed"}
        /\ a \notin released
        /\ \/ origin[a] = None
           \/ Undeleted(origin[a])
           \/ \E p \in Projects : Undeleted(p) /\ a \in refs[p]}

Usage == Total(Billed, Size)

\* updated_at = now(): the grace period starts again, except where
\* quota_released_at is set and decides.
Touched(a) == IF a \in released THEN aged ELSE aged \ {a}

-----------------------------------------------------------------------------
(* Projects *)

CreateProject(p) ==
    /\ project[p] = "none"
    /\ project' = [project EXCEPT ![p] = "active"]
    /\ UNCHANGED <<assetVars, uploadVars, objectVars, claimVars, serverVars>>

\* archiveProject and restoreProject wait for an open graph transaction.
ArchiveProject(p) ==
    /\ project[p] = "active" /\ tx[p] = NoTx
    /\ project' = [project EXCEPT ![p] = "archived"]
    /\ UNCHANGED <<assetVars, uploadVars, objectVars, claimVars, serverVars>>

RestoreProject(p) ==
    /\ project[p] = "archived" /\ tx[p] = NoTx
    /\ project' = [project EXCEPT ![p] = "active"]
    /\ UNCHANGED <<assetVars, uploadVars, objectVars, claimVars, serverVars>>

\* deleteProject is one statement: candidate_assets, the snapshots and the
\* references are read from the snapshot the statement starts with ...
BeginDelete(p) ==
    /\ Undeleted(p)
    /\ removal[p] = NoRemoval
    /\ removal' = [removal EXCEPT ![p] =
         [step |-> "waiting",
          drop |-> refs[p],
          release |-> {a \in Assets :
              /\ status[a] \in {"pending", "completed"}
              /\ origin[a] # None
              /\ a \in refs[p] \/ origin[a] = p
              /\ origin[a] = p \/ ~Undeleted(origin[a])
              /\ \A q \in Projects \ {p} : Undeleted(q) => a \notin refs[q]},
          invalid |-> {s \in Checkpoints : checkpoint[s].valid /\ checkpoint[s].project = p}]]
    /\ UNCHANGED <<project, assetVars, uploadVars, objectVars, claimVars, tx, cleaner>>

\* ... and written when the project row and the asset rows are unlocked.
EndDelete(p) ==
    /\ removal[p].step = "waiting"
    /\ tx[p] = NoTx
    /\ \A a \in removal[p].release : Unlocked(a)
    /\ released' = released \cup removal[p].release
    /\ aged' = aged \ (removal[p].release \ released)
    /\ project' = [project EXCEPT ![p] = "deleted"]
    /\ refs' = [refs EXCEPT ![p] = @ \ removal[p].drop]
    /\ checkpoint' = [s \in Checkpoints |->
         [checkpoint[s] EXCEPT !.valid = @ /\ s \notin removal[p].invalid]]
    /\ removal' = [removal EXCEPT ![p] = NoRemoval]
    /\ UNCHANGED <<status, kind, origin, uploadVars, objectVars, postVars, tx, cleaner>>

-----------------------------------------------------------------------------
(* Uploads and generated results *)

\* createUpload locks the workspace row and looks at the project; a repeated
\* idempotency key is answered with the upload that exists.
BeginUpload(a, p) ==
    /\ creating = NoUpload
    /\ status[a] = "none"
    /\ p \in Projects => project[p] = "active"
    /\ creating' = [asset |-> a, origin |-> p]
    /\ UNCHANGED <<project, assetVars, expired, confirming, running, shielded, objectVars,
                   claimVars, serverVars>>

InsertUpload ==
    LET a == creating.asset
    IN  /\ a # None
        /\ Usage + Size[a] <= Quota
        /\ status' = [status EXCEPT ![a] = "pending"]
        /\ kind' = [kind EXCEPT ![a] = "upload"]
        /\ origin' = [origin EXCEPT ![a] = creating.origin]
        /\ creating' = NoUpload
        /\ UNCHANGED <<project, released, aged, expired, confirming, running, shielded, objectVars,
                       claimVars, serverVars>>

\* Quota exceeded, or the connection is lost.
AbortUpload ==
    /\ creating # NoUpload
    /\ creating' = NoUpload
    /\ UNCHANGED <<project, assetVars, expired, confirming, running, shielded, objectVars,
                   claimVars, serverVars>>

\* Fault: an object is put before its row is inserted.
PutObjectBeforeRow(a) ==
    /\ kind[a] # "generated"
    /\ stored' = stored \cup {a}
    /\ UNCHANGED <<project, assetVars, uploadVars, claimVars, serverVars, lost>>

\* The browser puts the object under a presigned URL.  A repeated createUpload
\* gives a new one, so that this may come at any time.
PutObject(a) ==
    /\ kind[a] = "upload"
    /\ stored' = stored \cup {a}
    /\ UNCHANGED <<project, assetVars, uploadVars, claimVars, serverVars, lost>>

\* completeUpload reads the upload and verifies the object without a lock ...
BeginConfirm(a) ==
    /\ kind[a] = "upload" /\ status[a] = "pending"
    /\ a \notin expired
    /\ a \in stored
    /\ confirming' = confirming \cup {a}
    /\ UNCHANGED <<project, assetVars, expired, running, shielded, creating, objectVars,
                   claimVars, serverVars>>

\* ... and marks the asset if it is still pending.
EndConfirm(a) ==
    /\ a \in confirming
    /\ ~Cleaned(a)
    /\ status' = IF status[a] = "pending" THEN [status EXCEPT ![a] = "completed"] ELSE status
    /\ aged' = IF status[a] = "pending" THEN Touched(a) ELSE aged
    /\ confirming' = confirming \ {a}
    /\ UNCHANGED <<project, kind, origin, released, expired, running, shielded, creating, objectVars,
                   claimVars, serverVars>>

\* persistSuccess: the executor does not look at the task's project again, which
\* may be archived or deleted since.
InsertGenerated(a, p) ==
    /\ creating = NoUpload
    /\ status[a] = "none"
    /\ project[p] # "none"
    /\ Usage + Size[a] <= Quota
    /\ status' = [status EXCEPT ![a] = "pending"]
    /\ kind' = [kind EXCEPT ![a] = "generated"]
    /\ origin' = [origin EXCEPT ![a] = p]
    /\ running' = running \cup {a}
    /\ UNCHANGED <<project, released, aged, expired, confirming, shielded, creating, objectVars,
                   claimVars, serverVars>>

StoreGenerated(a) ==
    /\ a \in running
    /\ stored' = stored \cup {a}
    /\ UNCHANGED <<project, assetVars, uploadVars, claimVars, serverVars, lost>>

CompleteGenerated(a) ==
    /\ a \in running \cap stored
    /\ ~Cleaned(a)
    /\ status' = [status EXCEPT ![a] = "completed"]
    /\ aged' = Touched(a)
    /\ running' = running \ {a}
    /\ shielded' = shielded \cup {a}
    /\ UNCHANGED <<project, kind, origin, released, expired, confirming, creating, objectVars,
                   claimVars, serverVars>>

\* The catch block: each of its two steps may fail silently, or the process dies.
FailGenerated(a) ==
    /\ a \in running
    /\ ~Cleaned(a)
    /\ running' = running \ {a}
    /\ stored' \in {stored, stored \ {a}}
    /\ \/ /\ status' = [status EXCEPT ![a] = "failed"]
          /\ released' = released \cup {a}
          /\ aged' = aged \ {a}
       \/ UNCHANGED <<status, released, aged>>
    /\ UNCHANGED <<project, kind, origin, expired, confirming, shielded, creating, lost,
                   claimVars, serverVars>>

\* The result is acknowledged, or thirty days pass.
EndShield(a) ==
    /\ a \in shielded
    /\ shielded' = shielded \ {a}
    /\ UNCHANGED <<project, assetVars, expired, confirming, running, creating, objectVars,
                   claimVars, serverVars>>

\* Fifteen minutes pass.
ExpireUpload(a) ==
    /\ kind[a] = "upload" /\ a \notin expired
    /\ expired' = expired \cup {a}
    /\ UNCHANGED <<project, assetVars, confirming, running, shielded, creating, objectVars,
                   claimVars, serverVars>>

\* Seven days pass since gc_eligible_at.  No request and no executor is at work
\* for that long.
Age(a) ==
    /\ status[a] # "none" /\ a \notin aged
    /\ kind[a] = "upload" => a \in expired
    /\ a \notin confirming \cup running
    /\ aged' = aged \cup {a}
    /\ UNCHANGED <<project, status, kind, origin, released, uploadVars, objectVars,
                   claimVars, serverVars>>

-----------------------------------------------------------------------------
(* Canvas transactions *)

Completed(S) == \A a \in S : status[a] = "completed" /\ ~Cleaned(a)

\* Fault: the assets are checked without FOR SHARE, a running cleaner is not seen.
BeginSaveUnlocked(p, drop, add) ==
    /\ project[p] = "active" /\ tx[p] = NoTx
    /\ drop \subseteq refs[p]
    /\ drop \cup add # {}
    /\ add \cap (refs[p] \ drop) = {}
    /\ \A a \in add : status[a] = "completed"
    /\ tx' = [tx EXCEPT ![p] = [NoTx EXCEPT !.step = "removing", !.drop = drop, !.add = add]]
    /\ UNCHANGED <<project, assetVars, uploadVars, objectVars, claimVars, removal, cleaner>>

\* applyOperations locks the project row, and FOR SHARE the completed assets the
\* upserted nodes name.  drop is what the nodes of the batch named so far; the
\* other nodes of the project name other assets.
BeginSave(p, drop, add) ==
    /\ project[p] = "active" /\ tx[p] = NoTx
    /\ drop \subseteq refs[p]
    /\ drop \cup add # {}
    /\ add \cap (refs[p] \ drop) = {}
    /\ Completed(add)
    /\ tx' = [tx EXCEPT ![p] = [NoTx EXCEPT !.step = "removing", !.drop = drop, !.add = add]]
    /\ UNCHANGED <<project, assetVars, uploadVars, objectVars, claimVars, removal, cleaner>>

\* restoreRevision: the whole canvas is replaced by a checkpoint, after one of
\* the present canvas (backup) is written.
BeginRestore(p, s, backup) ==
    /\ project[p] = "active" /\ tx[p] = NoTx
    /\ checkpoint[s].valid /\ checkpoint[s].project = p
    /\ checkpoint[backup].project = None
    /\ \A q \in Projects : tx[q].backup # backup
    /\ Completed(refs[p] \cup checkpoint[s].manifest)
    /\ tx' = [tx EXCEPT ![p] =
         [NoTx EXCEPT !.step = "removing", !.drop = refs[p], !.add = checkpoint[s].manifest,
                      !.backup = backup]]
    /\ UNCHANGED <<project, assetVars, uploadVars, objectVars, claimVars, removal, cleaner>>

\* releaseRemovedAssetQuota decides by the references committed so far which of
\* the dropped assets nothing else names ...
FindUnreferenced(p) ==
    /\ tx[p].step = "removing"
    /\ tx' = [tx EXCEPT
         ![p].step = "releasing",
         ![p].release = {a \in tx[p].drop : \A q \in Projects \ {p} : Undeleted(q) => a \notin refs[q]}]
    /\ UNCHANGED <<project, assetVars, uploadVars, objectVars, claimVars, removal, cleaner>>

\* What restoreReleasedAssetQuota bills again.
Rebilled(p) == tx[p].add \cap (released \cup tx[p].release)

\* Fault: assets are billed again without a look at the quota.
CommitSaveUnbilled(p) ==
    /\ tx[p].step = "releasing"
    /\ LET release == tx[p].release
           rebill  == Rebilled(p)
       IN  /\ \A a \in release \cup rebill : SharedBy(a) \subseteq {p} /\ ~Cleaned(a)
           /\ released' = (released \cup release) \ rebill
           /\ aged' = aged \ ((release \ released) \cup rebill)
    /\ refs' = [refs EXCEPT ![p] = (@ \ tx[p].drop) \cup tx[p].add]
    /\ checkpoint' = [s \in Checkpoints |->
         IF s = tx[p].backup
         THEN [project |-> p, manifest |-> refs[p], valid |-> TRUE]
         ELSE checkpoint[s]]
    /\ tx' = [tx EXCEPT ![p] = NoTx]
    /\ UNCHANGED <<project, status, kind, origin, uploadVars, objectVars, postVars, removal, cleaner>>

\* ... and waits for their row locks, but does not decide again.  Assets that
\* were released are billed again under the workspace lock; then it commits.
CommitSave(p) ==
    /\ tx[p].step = "releasing"
    /\ LET release == tx[p].release
           rebill  == Rebilled(p)
       IN  /\ \A a \in release \cup rebill : SharedBy(a) \subseteq {p} /\ ~Cleaned(a)
           /\ rebill # {} =>
                /\ creating = NoUpload
                /\ Total(Billed \ release, Size) + Total(rebill, Size) <= Quota
           /\ released' = (released \cup release) \ rebill
           /\ aged' = aged \ ((release \ released) \cup rebill)
    /\ refs' = [refs EXCEPT ![p] = (@ \ tx[p].drop) \cup tx[p].add]
    /\ checkpoint' = [s \in Checkpoints |->
         IF s = tx[p].backup
         THEN [project |-> p, manifest |-> refs[p], valid |-> TRUE]
         ELSE checkpoint[s]]
    /\ tx' = [tx EXCEPT ![p] = NoTx]
    /\ UNCHANGED <<project, status, kind, origin, uploadVars, objectVars, postVars, removal, cleaner>>

\* Quota exceeded, chosen as a deadlock victim, or the connection is lost.
AbortSave(p) ==
    /\ tx[p] # NoTx
    /\ tx' = [tx EXCEPT ![p] = NoTx]
    /\ UNCHANGED <<project, assetVars, uploadVars, objectVars, claimVars, removal, cleaner>>

\* createCheckpoint: the manifest is what the nodes name, checked FOR SHARE.
CreateCheckpoint(p, s) ==
    /\ project[p] = "active" /\ tx[p] = NoTx
    /\ checkpoint[s].project = None
    /\ \A q \in Projects : tx[q].backup # s
    /\ Completed(refs[p])
    /\ checkpoint' = [checkpoint EXCEPT ![s] = [project |-> p, manifest |-> refs[p], valid |-> TRUE]]
    /\ UNCHANGED <<project, assetVars, uploadVars, objectVars, refs, postVars, serverVars>>

-----------------------------------------------------------------------------
(* Community posts *)

Shown == {"pending_review", "published"}

Moderated(k, from, to) ==
    /\ post[k].status \in from
    /\ post' = [post EXCEPT ![k].status = to]
    /\ UNCHANGED <<project, assetVars, uploadVars, objectVars, refs, checkpoint, serverVars>>

\* create locks the asset, the workspace and the membership FOR UPDATE.
CreatePost(k, a) ==
    /\ post[k].status = "none"
    /\ status[a] = "completed"
    /\ Unlocked(a) /\ creating = NoUpload
    /\ post' = [post EXCEPT ![k] = [status |-> "pending_review", asset |-> a]]
    /\ UNCHANGED <<project, assetVars, uploadVars, objectVars, refs, checkpoint, revived,
                   serverVars>>

\* update: what is edited is queued for review again; the asset is not looked at.
EditPost(k) ==
    /\ Moderated(k, {"published", "rejected"}, "pending_review")
    /\ revived' = IF post[k].status = "rejected" /\ ~Completed({post[k].asset})
                  THEN revived \cup {k} ELSE revived

WithdrawPost(k) == Moderated(k, Shown, "withdrawn") /\ UNCHANGED revived
ApprovePost(k)  == Moderated(k, {"pending_review"}, "published") /\ UNCHANGED revived
RejectPost(k)   == Moderated(k, {"pending_review"}, "rejected") /\ UNCHANGED revived
RemovePost(k)   == Moderated(k, {"published"}, "removed") /\ UNCHANGED revived

-----------------------------------------------------------------------------
(* The cleaner *)

\* assetSelect: what protects an asset.
Referenced(a)   == \E p \in Projects : Undeleted(p) /\ a \in refs[p]
InCheckpoint(a) == \E s \in Checkpoints :
                       /\ checkpoint[s].valid /\ Undeleted(checkpoint[s].project)
                       /\ a \in checkpoint[s].manifest
InPost(a)       == \E k \in Posts : post[k].status \in Shown /\ post[k].asset = a

\* Fault: checkpoints do not protect.
EligibleButCheckpoint(a) ==
    /\ ~Referenced(a) /\ a \notin shielded
    /\ ~InPost(a)
    /\ a \in aged

\* Fault: posts under review or published do not protect.
EligibleButPost(a) ==
    /\ ~Referenced(a) /\ a \notin shielded
    /\ ~InCheckpoint(a)
    /\ a \in aged

\* classifyAssetGcRetention.
Eligible(a) ==
    /\ ~Referenced(a) /\ a \notin shielded
    /\ ~InCheckpoint(a)
    /\ ~InPost(a)
    /\ a \in aged

\* Fault: a candidate found without its lock is not classified again.
LockUnclassified(a) ==
    /\ cleaner = NoRow
    /\ status[a] # "none" /\ Unlocked(a)
    /\ a \in aged
    /\ status[a] # "deleted" \/ a \in stored
    /\ cleaner' = [asset |-> a, step |-> "locked"]
    /\ UNCHANGED <<project, assetVars, uploadVars, objectVars, claimVars, tx, removal>>

\* applyAsset locks the candidate (SKIP LOCKED) and classifies it in a new
\* snapshot; an asset that is deleted already and has no object is left alone.
LockCandidate(a) ==
    /\ cleaner = NoRow
    /\ status[a] # "none" /\ Unlocked(a)
    /\ Eligible(a)
    /\ status[a] # "deleted" \/ a \in stored
    /\ cleaner' = [asset |-> a, step |-> "locked"]
    /\ UNCHANGED <<project, assetVars, uploadVars, objectVars, claimVars, tx, removal>>

\* The object, if it exists, is deleted while the row is locked ...
RemoveObject ==
    /\ cleaner.step = "locked"
    /\ stored' = stored \ {cleaner.asset}
    /\ cleaner' = [cleaner EXCEPT !.step = "removed"]
    /\ UNCHANGED <<project, assetVars, uploadVars, lost, claimVars, tx, removal>>

\* ... then the row is marked and unlocked.
MarkDeleted ==
    LET a == cleaner.asset
    IN  /\ cleaner.step = "removed"
        /\ status' = [status EXCEPT ![a] = "deleted"]
        /\ aged' = IF status[a] = "deleted" THEN aged ELSE Touched(a)
        /\ lost' = lost \ {a}
        /\ cleaner' = NoRow
        /\ UNCHANGED <<project, kind, origin, released, uploadVars, stored, claimVars, tx, removal>>

\* The object store reports an error, or the process or its connection dies: the
\* row lock is gone and the row unchanged.
CleanerDies ==
    /\ cleaner # NoRow
    /\ cleaner.step = "locked" \/ MayDie
    /\ lost' = IF cleaner.step = "removed" THEN lost \cup {cleaner.asset} ELSE lost
    /\ cleaner' = NoRow
    /\ UNCHANGED <<project, assetVars, uploadVars, stored, claimVars, tx, removal>>

-----------------------------------------------------------------------------

ProjectStep ==
    \E p \in Projects :
        \/ CreateProject(p) \/ ArchiveProject(p) \/ RestoreProject(p)
        \/ BeginDelete(p) \/ EndDelete(p)

AssetStep ==
    \/ \E a \in Assets, p \in Projects \cup {None} : BeginUpload(a, p)
    \/ InsertUpload \/ AbortUpload
    \/ \E a \in Assets :
         \/ PutObject(a) \/ BeginConfirm(a) \/ EndConfirm(a) \/ ExpireUpload(a)
         \/ StoreGenerated(a) \/ CompleteGenerated(a) \/ FailGenerated(a) \/ EndShield(a)
         \/ Age(a)
    \/ \E a \in Assets, p \in Projects : InsertGenerated(a, p)

CanvasStep ==
    \E p \in Projects :
        \/ \E drop, add \in SUBSET Assets : BeginSave(p, drop, add)
        \/ \E s, backup \in Checkpoints : BeginRestore(p, s, backup)
        \/ FindUnreferenced(p) \/ CommitSave(p) \/ AbortSave(p)
        \/ \E s \in Checkpoints : CreateCheckpoint(p, s)

CommunityStep ==
    \E k \in Posts :
        \/ \E a \in Assets : CreatePost(k, a)
        \/ EditPost(k) \/ WithdrawPost(k) \/ ApprovePost(k) \/ RejectPost(k) \/ RemovePost(k)

CleanerStep ==
    \/ \E a \in Assets : LockCandidate(a)
    \/ RemoveObject \/ MarkDeleted \/ CleanerDies

Next == ProjectStep \/ AssetStep \/ CanvasStep \/ CommunityStep \/ CleanerStep

Spec == Init /\ [][Next]_vars

-----------------------------------------------------------------------------
(* Properties *)

\* Every column keeps its type, and nothing is known of an asset, nor is there an
\* object, before its row is inserted.
TypeOK ==
    /\ project \in [Projects -> {"none", "active", "archived", "deleted"}]
    /\ status \in [Assets -> {"none", "pending", "completed", "failed", "deleted"}]
    /\ kind \in [Assets -> {"none", "upload", "generated"}]
    /\ origin \in [Assets -> Projects \cup {None}]
    /\ \A S \in {released, aged, expired, stored, lost, confirming, running, shielded} : S \subseteq Assets
    /\ \A a \in Assets : status[a] = "none" =>
         /\ kind[a] = "none" /\ origin[a] = None
         /\ a \notin released \cup aged \cup expired \cup stored \cup lost
         /\ a \notin confirming \cup running \cup shielded
    /\ refs \in [Projects -> SUBSET Assets]
    /\ checkpoint \in [Checkpoints ->
         [project: Projects \cup {None}, manifest: SUBSET Assets, valid: BOOLEAN]]
    /\ post \in [Posts ->
         [status: Shown \cup {"none", "withdrawn", "rejected", "removed"}, asset: Assets \cup {None}]]
    /\ revived \subseteq Posts
    /\ tx \in [Projects ->
         [step: {"none", "removing", "releasing"}, drop: SUBSET Assets, add: SUBSET Assets,
          release: SUBSET Assets, backup: Checkpoints \cup {None}]]
    /\ removal \in [Projects ->
         [step: {"none", "waiting"}, drop: SUBSET Assets, release: SUBSET Assets,
          invalid: SUBSET Checkpoints]]
    /\ creating \in [asset: Assets \cup {None}, origin: Projects \cup {None}]
    /\ cleaner \in [asset: Assets \cup {None}, step: {"none", "locked", "removed"}]

\* An asset that can still be read: its object is gone only if a cleaner died
\* between the deletion of the object and the update of the row.
Readable(a) == status[a] = "completed" /\ a \in stored \cup lost

\* What a canvas shows can be read, whatever the cleaner, concurrent saves of
\* other projects and the deletion of projects do.
ReferencedReadable == \A a \in Assets : Referenced(a) => Readable(a)

\* A valid checkpoint can be restored as far as its assets are concerned.
CheckpointReadable == \A a \in Assets : InCheckpoint(a) => Readable(a)

\* A post under review or published has its image, unless the cleaner had it, or was at it,
\* when an edit of the author brought the post back.
ShownByPost(a) == \E k \in Posts \ revived : post[k].status \in Shown /\ post[k].asset = a
PostReadable == \A a \in Assets : ShownByPost(a) => Readable(a)

\* The quota is not oversold to the assets of living projects and of the
\* workspace, by any race of uploads, executors, saves and restores.
QuotaKept ==
    Total({a \in Billed : origin[a] = None \/ Undeleted(origin[a])}, Size) <= Quota

-----------------------------------------------------------------------------
(* What is promised to whatever names an asset: AssetRetention *)

Claims ==
    {c \in Projects \X Assets : Undeleted(c[1]) /\ c[2] \in refs[c[1]]}
    \cup {c \in Checkpoints \X Assets :
             /\ checkpoint[c[1]].valid /\ Undeleted(checkpoint[c[1]].project)
             /\ c[2] \in checkpoint[c[1]].manifest}
    \cup {c \in (Posts \ revived) \X Assets : post[c[1]].status \in Shown /\ post[c[1]].asset = c[2]}

Retention == INSTANCE AssetRetention
    WITH Claimants <- Projects \cup Checkpoints \cup Posts,
         kept <- {a \in Assets : status[a] = "completed"},
         claims <- Claims

ImplementsRetention == Retention!Spec
=============================================================================
