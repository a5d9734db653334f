--------------------------- MODULE AssetTheorems ---------------------------
(***************************************************************************)
(* What holds of the assets of a workspace for any number of assets,       *)
(* projects, checkpoints and posts, any sizes and any quota.  An asset is  *)
(* held by an open transaction, a canvas, a checkpoint or a post; every    *)
(* way to hold one passes a look at its row while the cleaner does not     *)
(* have it, and what is held is completed (ClaimInv).  Each part of the    *)
(* invariant is proved over the five groups of actions, whose frames come  *)
(* first.                                                                  *)
(***************************************************************************)
EXTENDS AssetLifecycle, TotalsTheorems

Lives     == {"none", "active", "archived", "deleted"}
Statuses  == {"none", "pending", "completed", "failed", "deleted"}
Manifests == [project: Projects \cup {None}, manifest: SUBSET Assets, valid: BOOLEAN]
PostRows  == [status: Shown \cup {"none", "withdrawn", "rejected", "removed"},
              asset: Assets \cup {None}]
TxStates  == [step: {"none", "removing", "releasing"}, drop: SUBSET Assets, add: SUBSET Assets,
              release: SUBSET Assets, backup: Checkpoints \cup {None}]
Removals  == [step: {"none", "waiting"}, drop: SUBSET Assets, release: SUBSET Assets,
              invalid: SUBSET Checkpoints]

\* The types, in the parts that the actions disturb separately.
RowType ==
    /\ status \in [Assets -> Statuses]
    /\ kind \in [Assets -> {"none", "upload", "generated"}]
    /\ origin \in [Assets -> Projects \cup {None}]
SetType ==
    /\ released \subseteq Assets /\ aged \subseteq Assets /\ expired \subseteq Assets
    /\ stored \subseteq Assets /\ lost \subseteq Assets
    /\ confirming \subseteq Assets /\ running \subseteq Assets /\ shielded \subseteq Assets
NewType ==
    \A a \in Assets : status[a] = "none" =>
        /\ kind[a] = "none" /\ origin[a] = None
        /\ a \notin released /\ a \notin aged /\ a \notin expired /\ a \notin stored /\ a \notin lost
        /\ a \notin confirming /\ a \notin running /\ a \notin shielded
ClaimType ==
    /\ refs \in [Projects -> SUBSET Assets]
    /\ checkpoint \in [Checkpoints -> Manifests]
    /\ post \in [Posts -> PostRows]
    /\ revived \subseteq Posts
ServerType ==
    /\ project \in [Projects -> Lives]
    /\ tx \in [Projects -> TxStates]
    /\ removal \in [Projects -> Removals]
    /\ creating \in [asset: Assets \cup {None}, origin: Projects \cup {None}]
    /\ cleaner \in [asset: Assets \cup {None}, step: {"none", "locked", "removed"}]

\* TypeOK is the conjunction of the parts.
LEMMA TypeParts == TypeOK <=> RowType /\ SetType /\ NewType /\ ClaimType /\ ServerType
<1>1. (\A S \in {released, aged, expired, stored, lost, confirming, running, shielded} : S \subseteq Assets)
        <=> SetType
  BY DEF SetType
<1>2. (\A a \in Assets : status[a] = "none" =>
         /\ kind[a] = "none" /\ origin[a] = None
         /\ a \notin released \cup aged \cup expired \cup stored \cup lost
         /\ a \notin confirming \cup running \cup shielded) <=> NewType
  BY DEF NewType
<1> QED
  BY <1>1, <1>2, Zenon DEF TypeOK, RowType, ClaimType, ServerType, Lives, Statuses, Manifests,
         PostRows, TxStates, Removals

\* Who works on an asset: an executor on a pending result of its own, a confirmation on an
\* upload whose object is there.  Neither is old enough for the cleaner, and an upload
\* that is has expired.  The workspace lock keeps the row a createUpload will insert free.
WorkInv ==
    /\ \A a \in running : status[a] = "pending" /\ kind[a] = "generated" /\ a \notin aged
    /\ \A a \in confirming : kind[a] = "upload" /\ a \in stored /\ a \notin aged
    /\ \A a \in aged : kind[a] = "upload" => a \in expired
    /\ creating # NoUpload =>
         /\ creating.asset \in Assets /\ status[creating.asset] = "none"

\* Projects, transactions and checkpoints: only an active project is saved to, and what
\* refers to a project refers to one that was created.
RowInv ==
    /\ \A p \in Projects :
         /\ project[p] = "none" => refs[p] = {}
         /\ tx[p].step = "none" => tx[p] = NoTx
         /\ tx[p] # NoTx => project[p] = "active"
    /\ \A a \in Assets : origin[a] # None => project[origin[a]] # "none"
    /\ creating.origin # None => project[creating.origin] # "none"
    /\ \A s \in Checkpoints :
         checkpoint[s].valid => /\ checkpoint[s].project \in Projects
                                /\ project[checkpoint[s].project] # "none"

\* What references, transactions and deletions name has a row.
KnownInv ==
    \A p \in Projects :
        \A a \in refs[p] \cup tx[p].drop \cup tx[p].add \cup tx[p].release \cup removal[p].release :
            status[a] # "none"

\* The asset that the cleaner has locked stays old: its row is written by nobody else.
CleanerInv ==
    cleaner # NoRow => cleaner.asset \in aged /\ cleaner.step \in {"locked", "removed"}

\* What protects an asset, FOR SHARE locks included; a post only unless it was brought back
\* too late.  What is held is completed and not in the hands of the cleaner.
Held(a) == SharedBy(a) # {} \/ Referenced(a) \/ InCheckpoint(a) \/ ShownByPost(a)
ClaimInv == \A a \in Assets : Held(a) => status[a] = "completed" /\ ~Cleaned(a)

\* Only the cleaner takes objects of completed assets away.
StoredInv ==
    \A a \in Assets : status[a] = "completed" =>
        a \in stored \cup lost \/ cleaner = [asset |-> a, step |-> "removed"]

\* The inductive invariant.
Inv == TypeOK /\ WorkInv /\ RowInv /\ KnownInv /\ CleanerInv /\ ClaimInv /\ StoredInv

-----------------------------------------------------------------------------
\* What each group of actions leaves alone.
LEMMA ProjectFrame ==
    ASSUME ProjectStep
    PROVE  UNCHANGED <<status, kind, origin, expired, stored, confirming, running, shielded,
                       postVars, tx, creating, cleaner, lost>>
BY DEF ProjectStep, CreateProject, ArchiveProject, RestoreProject, BeginDelete, EndDelete,
       assetVars, uploadVars, objectVars, claimVars, serverVars

\* Uploads and executors write assets only.
LEMMA AssetFrame ==
    ASSUME AssetStep
    PROVE  UNCHANGED <<project, refs, checkpoint, postVars, tx, removal, cleaner, lost>>
BY DEF AssetStep, BeginUpload, InsertUpload, AbortUpload, PutObject, BeginConfirm, EndConfirm,
       ExpireUpload, StoreGenerated, CompleteGenerated, FailGenerated, EndShield, Age,
       InsertGenerated, assetVars, uploadVars, objectVars, claimVars, serverVars

\* Canvas transactions write references, checkpoints and the quota columns.
LEMMA CanvasFrame ==
    ASSUME CanvasStep
    PROVE  UNCHANGED <<project, status, kind, origin, expired, stored, confirming, running,
                       shielded, postVars, removal, creating, cleaner, lost>>
BY DEF CanvasStep, BeginSave, BeginRestore, FindUnreferenced, CommitSave, AbortSave,
       CreateCheckpoint, assetVars, uploadVars, objectVars, claimVars, serverVars

\* Community actions write posts only.
LEMMA CommunityFrame ==
    ASSUME CommunityStep
    PROVE  UNCHANGED <<project, status, kind, origin, released, aged, expired, stored,
                       confirming, running,
                       shielded, refs, checkpoint, tx, removal, creating, cleaner, lost>>
BY DEF CommunityStep, CreatePost, EditPost, WithdrawPost, ApprovePost, RejectPost, RemovePost,
       Moderated, assetVars, uploadVars, objectVars, claimVars, serverVars

\* The cleaner writes the asset it has locked and its object.
LEMMA CleanerFrame ==
    ASSUME CleanerStep
    PROVE  UNCHANGED <<project, kind, origin, released, expired, confirming, running, shielded,
                       refs, checkpoint, postVars, tx, removal, creating>>
BY DEF CleanerStep, LockCandidate, RemoveObject, MarkDeleted, CleanerDies,
       assetVars, uploadVars, objectVars, claimVars, serverVars

-----------------------------------------------------------------------------
\* Every group of actions keeps the types of rows, locks and claims.
LEMMA ProjectServerType ==
    ASSUME ServerType, ClaimType, ProjectStep
    PROVE  ServerType' /\ ClaimType'
<1>1. UNCHANGED <<post, revived, tx, creating, cleaner>>
  BY ProjectFrame DEF postVars
<1>2. ASSUME NEW p \in Projects, CreateProject(p) \/ ArchiveProject(p) \/ RestoreProject(p)
      PROVE  project' \in [Projects -> Lives] /\ UNCHANGED <<removal, refs, checkpoint>>
  BY <1>2 DEF ServerType, Lives, CreateProject, ArchiveProject, RestoreProject, serverVars,
         claimVars
<1>3. ASSUME NEW p \in Projects, BeginDelete(p)
      PROVE  removal' \in [Projects -> Removals] /\ UNCHANGED <<project, refs, checkpoint>>
  BY <1>3 DEF ServerType, ClaimType, Removals, BeginDelete, claimVars
<1>4. ASSUME NEW p \in Projects, EndDelete(p)
      PROVE  /\ project' \in [Projects -> Lives] /\ removal' \in [Projects -> Removals]
             /\ refs' \in [Projects -> SUBSET Assets] /\ checkpoint' \in [Checkpoints -> Manifests]
  <2>1. project' \in [Projects -> Lives] /\ refs' \in [Projects -> SUBSET Assets]
    BY <1>4 DEF ServerType, ClaimType, Lives, EndDelete
  <2>2. removal' \in [Projects -> Removals]
    BY <1>4 DEF ServerType, Removals, EndDelete, NoRemoval
  <2>3. checkpoint' \in [Checkpoints -> Manifests]
    <3>1. ASSUME NEW s \in Checkpoints, NEW b \in BOOLEAN
          PROVE  [checkpoint[s] EXCEPT !.valid = b] \in Manifests
      BY DEF ClaimType, Manifests
    <3>2. checkpoint' = [s \in Checkpoints |->
            [checkpoint[s] EXCEPT !.valid = checkpoint[s].valid /\ s \notin removal[p].invalid]]
      BY <1>4 DEF EndDelete
    <3>3. \A s \in Checkpoints : (checkpoint[s].valid /\ s \notin removal[p].invalid) \in BOOLEAN
      OBVIOUS
    <3> QED
      BY <3>1, <3>2, <3>3
  <2> QED
    BY <2>1, <2>2, <2>3
<1> QED
  BY <1>1, <1>2, <1>3, <1>4 DEF ServerType, ClaimType, ProjectStep

\* Uploads and executors: the row lock of createUpload.
LEMMA AssetServerType ==
    ASSUME ServerType, ClaimType, AssetStep
    PROVE  ServerType' /\ ClaimType'
<1>1. UNCHANGED <<project, refs, checkpoint, post, revived, tx, removal, cleaner>>
  BY AssetFrame DEF postVars
<1>2. creating' \in [asset: Assets \cup {None}, origin: Projects \cup {None}]
  BY DEF ServerType, NoUpload, AssetStep, BeginUpload, InsertUpload, AbortUpload, PutObject,
         BeginConfirm, EndConfirm, ExpireUpload, StoreGenerated, CompleteGenerated,
         FailGenerated, EndShield, Age, InsertGenerated, uploadVars
<1> QED
  BY <1>1, <1>2 DEF ServerType, ClaimType

\* Canvas transactions: tx, references and checkpoints.
LEMMA CanvasServerType ==
    ASSUME ServerType, ClaimType, CanvasStep
    PROVE  ServerType' /\ ClaimType'
<1>1. UNCHANGED <<project, post, revived, removal, creating, cleaner>>
  BY CanvasFrame DEF postVars
<1>2. NoTx \in TxStates
  BY DEF NoTx, TxStates
<1>3. ASSUME NEW p \in Projects, NEW drop \in SUBSET Assets, NEW add \in SUBSET Assets,
             BeginSave(p, drop, add)
      PROVE  tx' \in [Projects -> TxStates] /\ UNCHANGED <<refs, checkpoint>>
  BY <1>3 DEF ServerType, BeginSave, NoTx, TxStates, claimVars
<1>4. ASSUME NEW p \in Projects, NEW s \in Checkpoints, NEW backup \in Checkpoints,
             BeginRestore(p, s, backup)
      PROVE  tx' \in [Projects -> TxStates] /\ UNCHANGED <<refs, checkpoint>>
  <2>1. refs[p] \in SUBSET Assets /\ checkpoint[s].manifest \in SUBSET Assets
    BY DEF ClaimType, Manifests
  <2> QED
    BY <1>4, <2>1 DEF ServerType, BeginRestore, NoTx, TxStates, claimVars
<1>5. ASSUME NEW p \in Projects, FindUnreferenced(p)
      PROVE  tx' \in [Projects -> TxStates] /\ UNCHANGED <<refs, checkpoint>>
  <2> DEFINE R == {a \in tx[p].drop : \A q \in Projects \ {p} : Undeleted(q) => a \notin refs[q]}
  <2>1. tx' = [tx EXCEPT ![p] = [tx[p] EXCEPT !.step = "releasing", !.release = R]]
    BY <1>5 DEF FindUnreferenced
  <2>2. R \in SUBSET Assets /\ tx[p] \in TxStates
    BY DEF ServerType, TxStates
  <2> HIDE DEF R
  <2>3. [tx[p] EXCEPT !.step = "releasing", !.release = R] \in TxStates
    BY <2>2 DEF TxStates
  <2>4. tx' \in [Projects -> TxStates]
    BY <2>1, <2>3 DEF ServerType
  <2> QED
    BY <1>5, <2>4 DEF FindUnreferenced, claimVars
<1>6. ASSUME NEW p \in Projects, AbortSave(p)
      PROVE  tx' \in [Projects -> TxStates] /\ UNCHANGED <<refs, checkpoint>>
  BY <1>2, <1>6 DEF ServerType, AbortSave, claimVars
<1>7. ASSUME NEW p \in Projects, NEW s \in Checkpoints, CreateCheckpoint(p, s)
      PROVE  checkpoint' \in [Checkpoints -> Manifests] /\ UNCHANGED <<refs, tx>>
  BY <1>7 DEF ServerType, ClaimType, CreateCheckpoint, Manifests, serverVars
<1>8. ASSUME NEW p \in Projects, CommitSave(p)
      PROVE  /\ tx' \in [Projects -> TxStates] /\ refs' \in [Projects -> SUBSET Assets]
             /\ checkpoint' \in [Checkpoints -> Manifests]
  <2>1. tx' \in [Projects -> TxStates]
    BY <1>2, <1>8 DEF ServerType, CommitSave
  <2>2. tx[p].add \in SUBSET Assets /\ refs[p] \in SUBSET Assets
    BY DEF ServerType, ClaimType, TxStates
  <2>3. refs' \in [Projects -> SUBSET Assets]
    BY <1>8, <2>2 DEF ClaimType, CommitSave
  <2>4. checkpoint' \in [Checkpoints -> Manifests]
    BY <1>8, <2>2 DEF ClaimType, CommitSave, Manifests
  <2> QED
    BY <2>1, <2>3, <2>4
<1> QED
  BY <1>1, <1>3, <1>4, <1>5, <1>6, <1>7, <1>8 DEF ServerType, ClaimType, CanvasStep

\* Posts.
LEMMA CommunityServerType ==
    ASSUME ServerType, ClaimType, CommunityStep
    PROVE  ServerType' /\ ClaimType'
<1>1. UNCHANGED <<project, refs, checkpoint, tx, removal, creating, cleaner>>
  BY CommunityFrame
<1>2. ASSUME NEW k \in Posts, NEW a \in Assets, CreatePost(k, a)
      PROVE  post' \in [Posts -> PostRows]
  BY <1>2 DEF ClaimType, CreatePost, PostRows, Shown
<1>3. ASSUME NEW k \in Posts, NEW from, NEW to \in Shown \cup {"withdrawn", "rejected",
             "removed"},
             Moderated(k, from, to)
      PROVE  post' \in [Posts -> PostRows]
  BY <1>3 DEF ClaimType, Moderated, PostRows
<1>4. ASSUME NEW k \in Posts,
             EditPost(k) \/ WithdrawPost(k) \/ ApprovePost(k) \/ RejectPost(k) \/ RemovePost(k)
      PROVE  post' \in [Posts -> PostRows]
  BY <1>3, <1>4 DEF EditPost, WithdrawPost, ApprovePost, RejectPost, RemovePost, Shown
<1>5. post' \in [Posts -> PostRows]
  BY <1>2, <1>4 DEF CommunityStep
<1>6. revived' \subseteq Posts
  BY DEF ClaimType, CommunityStep, CreatePost, EditPost, WithdrawPost, ApprovePost, RejectPost,
         RemovePost
<1> QED
  BY <1>1, <1>5, <1>6 DEF ServerType, ClaimType

\* The cleaner's lock.
LEMMA CleanerServerType ==
    ASSUME ServerType, ClaimType, CleanerStep
    PROVE  ServerType' /\ ClaimType'
<1>1. UNCHANGED <<project, refs, checkpoint, post, revived, tx, removal, creating>>
  BY CleanerFrame DEF postVars
<1>2. cleaner' \in [asset: Assets \cup {None}, step: {"none", "locked", "removed"}]
  BY DEF ServerType, NoRow, CleanerStep, LockCandidate, RemoveObject, MarkDeleted, CleanerDies
<1> QED
  BY <1>1, <1>2 DEF ServerType, ClaimType

-----------------------------------------------------------------------------
\* A row that is inserted stays.
LEMMA RowsStay ==
    ASSUME TypeOK, [Next]_vars, NEW a \in Assets, status[a] # "none"
    PROVE  status'[a] # "none"
<1>1. status \in [Assets -> Statuses]
  BY TypeParts DEF RowType
<1>2. CASE AssetStep
  BY <1>1, <1>2 DEF Statuses, AssetStep, BeginUpload, InsertUpload, AbortUpload, PutObject,
         BeginConfirm, EndConfirm, ExpireUpload, StoreGenerated, CompleteGenerated,
         FailGenerated, EndShield, Age, InsertGenerated, assetVars
<1>3. CASE CleanerStep
  BY <1>1, <1>3 DEF CleanerStep, LockCandidate, RemoveObject, MarkDeleted, CleanerDies, assetVars
<1>4. CASE ProjectStep \/ CanvasStep \/ CommunityStep \/ UNCHANGED vars
  BY <1>4, ProjectFrame, CanvasFrame, CommunityFrame DEF vars, assetVars
<1> QED
  BY <1>2, <1>3, <1>4 DEF Next

\* References, transactions and deletions go on naming inserted rows.
LEMMA KnownStep ==
    ASSUME TypeOK, KnownInv, [Next]_vars
    PROVE  KnownInv'
<1> DEFINE Known(S) == \A a \in S : status[a] # "none"
           Later(S) == \A a \in S : status'[a] # "none"
<1>1. ASSUME NEW S \in SUBSET Assets, Known(S)
      PROVE  Later(S)
  BY <1>1, RowsStay
<1>2. /\ RowType /\ ClaimType /\ ServerType
      /\ \A p \in Projects : /\ refs[p] \in SUBSET Assets /\ tx[p].drop \in SUBSET Assets
                             /\ tx[p].add \in SUBSET Assets /\ tx[p].release \in SUBSET Assets
                             /\ removal[p].release \in SUBSET Assets
  BY TypeParts DEF ClaimType, ServerType, TxStates, Removals
<1>3. \A p \in Projects : /\ Later(refs[p]) /\ Later(tx[p].drop) /\ Later(tx[p].add)
                          /\ Later(tx[p].release) /\ Later(removal[p].release)
  BY <1>1, <1>2 DEF KnownInv
<1>4. SUFFICES ASSUME NEW p \in Projects
               PROVE  /\ Later(refs'[p]) /\ Later(tx'[p].drop) /\ Later(tx'[p].add)
                      /\ Later(tx'[p].release) /\ Later(removal'[p].release)
  BY DEF KnownInv
<1>5. CASE UNCHANGED <<refs, tx, removal>>
  BY <1>3, <1>5
<1>6. CASE ProjectStep
  <2>1. tx' = tx
    BY <1>6, ProjectFrame
  <2>2. Later(refs'[p])
    BY <1>2, <1>3, <1>6 DEF ClaimType, ProjectStep, CreateProject, ArchiveProject,
           RestoreProject, BeginDelete, EndDelete, claimVars
  <2>3. Later(removal'[p].release)
    <3>1. ASSUME NEW q \in Projects, BeginDelete(q) PROVE Later(removal'[p].release)
      <4>1. CASE q = p
        <5>1. removal'[p].release \subseteq {a \in Assets : status[a] \in {"pending", "completed"}}
          BY <1>2, <3>1, <4>1 DEF ServerType, BeginDelete
        <5> QED
          BY <1>1, <5>1
      <4>2. CASE q # p
        BY <1>2, <1>3, <3>1, <4>2 DEF ServerType, BeginDelete
      <4> QED
        BY <4>1, <4>2
    <3>2. ASSUME NEW q \in Projects, EndDelete(q) PROVE Later(removal'[p].release)
      BY <1>2, <1>3, <3>2 DEF ServerType, EndDelete, NoRemoval
    <3> QED
      BY <1>3, <1>6, <3>1, <3>2 DEF ProjectStep, CreateProject, ArchiveProject, RestoreProject,
             serverVars
  <2> QED
    BY <1>3, <2>1, <2>2, <2>3
<1>7. CASE CanvasStep
  <2>1. removal' = removal
    BY <1>7, CanvasFrame
  <2>2. \A a \in Assets : status[a] = "completed" => status'[a] # "none"
    BY RowsStay
  <2>3. ASSUME NEW q \in Projects, NEW drop \in SUBSET Assets, NEW add \in SUBSET Assets,
               BeginSave(q, drop, add)
        PROVE  /\ Later(refs'[p]) /\ Later(tx'[p].drop) /\ Later(tx'[p].add) /\ Later(tx'[p].release)
    BY <1>2, <1>3, <2>2, <2>3 DEF ServerType, BeginSave, Completed, NoTx, claimVars
  <2>4. ASSUME NEW q \in Projects, NEW s \in Checkpoints, NEW backup \in Checkpoints,
               BeginRestore(q, s, backup)
        PROVE  /\ Later(refs'[p]) /\ Later(tx'[p].drop) /\ Later(tx'[p].add) /\ Later(tx'[p].release)
    <3>1. checkpoint[s].manifest \in SUBSET Assets
      BY <1>2 DEF ClaimType, Manifests
    <3> QED
      BY <1>2, <1>3, <2>2, <2>4, <3>1 DEF ServerType, BeginRestore, Completed, NoTx, claimVars
  <2>5. ASSUME NEW q \in Projects, FindUnreferenced(q)
        PROVE  /\ Later(refs'[p]) /\ Later(tx'[p].drop) /\ Later(tx'[p].add) /\ Later(tx'[p].release)
    BY <1>2, <1>3, <2>5 DEF ServerType, TxStates, FindUnreferenced, claimVars
  <2>6. ASSUME NEW q \in Projects, AbortSave(q)
        PROVE  /\ Later(refs'[p]) /\ Later(tx'[p].drop) /\ Later(tx'[p].add) /\ Later(tx'[p].release)
    BY <1>2, <1>3, <2>6 DEF ServerType, AbortSave, NoTx, claimVars
  <2>7. ASSUME NEW q \in Projects, CommitSave(q)
        PROVE  /\ Later(refs'[p]) /\ Later(tx'[p].drop) /\ Later(tx'[p].add) /\ Later(tx'[p].release)
    BY <1>2, <1>3, <2>7 DEF ServerType, ClaimType, CommitSave, NoTx
  <2>8. ASSUME NEW q \in Projects, NEW s \in Checkpoints, CreateCheckpoint(q, s)
        PROVE  /\ Later(refs'[p]) /\ Later(tx'[p].drop) /\ Later(tx'[p].add) /\ Later(tx'[p].release)
    BY <1>3, <2>8 DEF CreateCheckpoint, serverVars
  <2> QED
    BY <1>3, <1>7, <2>1, <2>3, <2>4, <2>5, <2>6, <2>7, <2>8 DEF CanvasStep
<1> QED
  BY <1>5, <1>6, <1>7, AssetFrame, CommunityFrame, CleanerFrame DEF Next, vars, claimVars,
         serverVars
-----------------------------------------------------------------------------
\* The columns of assets and who works on them: uploads and executors.
LEMMA AssetRows ==
    ASSUME TypeOK, WorkInv, AssetStep
    PROVE  RowType' /\ SetType' /\ NewType' /\ WorkInv'
<1>1. RowType /\ SetType /\ NewType /\ ServerType /\ lost' = lost
  BY TypeParts, AssetFrame
<1> USE AssetAssumption DEF RowType, SetType, NewType, WorkInv, Statuses, assetVars, uploadVars, objectVars
<1>2. ASSUME NEW a \in Assets, NEW p \in Projects \cup {None}, BeginUpload(a, p)
      PROVE  RowType' /\ SetType' /\ NewType' /\ WorkInv'
  BY <1>1, <1>2 DEF BeginUpload, NoUpload
<1>3. ASSUME InsertUpload
      PROVE  RowType' /\ SetType' /\ NewType' /\ WorkInv'
  <2>1. creating.asset \in Assets /\ creating.origin \in Projects \cup {None} /\ status[creating.asset] = "none"
    BY <1>1, <1>3 DEF ServerType, InsertUpload, NoUpload
  <2> QED
    BY <1>1, <1>3, <2>1 DEF InsertUpload
<1>4. ASSUME AbortUpload
      PROVE  RowType' /\ SetType' /\ NewType' /\ WorkInv'
  BY <1>1, <1>4 DEF AbortUpload
<1>5. ASSUME NEW a \in Assets, NEW p \in Projects, InsertGenerated(a, p)
      PROVE  RowType' /\ SetType' /\ NewType' /\ WorkInv'
  BY <1>1, <1>5 DEF InsertGenerated
<1>6. ASSUME NEW a \in Assets, PutObject(a)
      PROVE  RowType' /\ SetType' /\ NewType' /\ WorkInv'
  BY <1>1, <1>6 DEF PutObject, Touched
<1>7. ASSUME NEW a \in Assets, BeginConfirm(a)
      PROVE  RowType' /\ SetType' /\ NewType' /\ WorkInv'
  BY <1>1, <1>7 DEF BeginConfirm, Touched
<1>8. ASSUME NEW a \in Assets, EndConfirm(a)
      PROVE  RowType' /\ SetType' /\ NewType' /\ WorkInv'
  BY <1>1, <1>8 DEF EndConfirm, Touched
<1>9. ASSUME NEW a \in Assets, ExpireUpload(a)
      PROVE  RowType' /\ SetType' /\ NewType' /\ WorkInv'
  BY <1>1, <1>9 DEF ExpireUpload, Touched
<1>10. ASSUME NEW a \in Assets, StoreGenerated(a)
      PROVE  RowType' /\ SetType' /\ NewType' /\ WorkInv'
  BY <1>1, <1>10 DEF StoreGenerated, Touched
<1>11. ASSUME NEW a \in Assets, CompleteGenerated(a)
      PROVE  RowType' /\ SetType' /\ NewType' /\ WorkInv'
  BY <1>1, <1>11 DEF CompleteGenerated, Touched
<1>12. ASSUME NEW a \in Assets, FailGenerated(a)
      PROVE  RowType' /\ SetType' /\ NewType' /\ WorkInv'
  BY <1>1, <1>12 DEF FailGenerated, Touched
<1>13. ASSUME NEW a \in Assets, EndShield(a)
      PROVE  RowType' /\ SetType' /\ NewType' /\ WorkInv'
  BY <1>1, <1>13 DEF EndShield, Touched
<1>14. ASSUME NEW a \in Assets, Age(a)
      PROVE  RowType' /\ SetType' /\ NewType' /\ WorkInv'
  BY <1>1, <1>14 DEF Age, Touched
<1> QED
  BY <1>2, <1>3, <1>4, <1>5, <1>6, <1>7, <1>8, <1>9, <1>10, <1>11, <1>12, <1>13, <1>14
     DEF AssetStep

\* Deleting a project releases inserted assets only.
LEMMA ProjectRows ==
    ASSUME TypeOK, KnownInv, WorkInv, ProjectStep
    PROVE  RowType' /\ SetType' /\ NewType' /\ WorkInv'
<1>1. RowType /\ SetType /\ NewType /\ ServerType
  BY TypeParts
<1>2. UNCHANGED <<status, kind, origin, expired, stored, confirming, running, shielded, creating,
                  lost>>
  BY ProjectFrame
<1>3. aged' \subseteq aged /\ \A a \in released' : a \in released \/ (a \in Assets /\ status[a] # "none")
  <2>1. ASSUME NEW p \in Projects, EndDelete(p)
        PROVE  aged' \subseteq aged /\ \A a \in released' : a \in released \/ (a \in Assets /\ status[a] # "none")
    BY <1>1, <2>1 DEF EndDelete, KnownInv, ServerType, Removals
  <2> QED
    BY <2>1 DEF ProjectStep, CreateProject, ArchiveProject, RestoreProject, BeginDelete, assetVars
<1> QED
  BY <1>1, <1>2, <1>3 DEF RowType, SetType, NewType, WorkInv

\* So does a save.
LEMMA CanvasRows ==
    ASSUME TypeOK, KnownInv, WorkInv, CanvasStep
    PROVE  RowType' /\ SetType' /\ NewType' /\ WorkInv'
<1>1. RowType /\ SetType /\ NewType /\ ServerType
  BY TypeParts
<1>2. UNCHANGED <<status, kind, origin, expired, stored, confirming, running, shielded, creating,
                  lost>>
  BY CanvasFrame
<1>3. aged' \subseteq aged /\ \A a \in released' : a \in released \/ (a \in Assets /\ status[a] # "none")
  <2>1. ASSUME NEW p \in Projects, CommitSave(p)
        PROVE  aged' \subseteq aged /\ \A a \in released' : a \in released \/ (a \in Assets /\ status[a] # "none")
    BY <1>1, <2>1 DEF CommitSave, KnownInv, ServerType, TxStates
  <2> QED
    BY <2>1 DEF CanvasStep, BeginSave, BeginRestore, FindUnreferenced, AbortSave,
           CreateCheckpoint, assetVars
<1> QED
  BY <1>1, <1>2, <1>3 DEF RowType, SetType, NewType, WorkInv

\* The cleaner's asset has nobody at work on it.
LEMMA CleanerRows ==
    ASSUME TypeOK, WorkInv, CleanerInv, CleanerStep
    PROVE  RowType' /\ SetType' /\ NewType' /\ WorkInv'
<1>1. RowType /\ SetType /\ NewType /\ ServerType
  BY TypeParts
<1>2. UNCHANGED <<kind, origin, released, expired, confirming, running, shielded, creating>>
  BY CleanerFrame
<1> USE DEF RowType, SetType, NewType, WorkInv, Statuses
<1>3. ASSUME NEW a \in Assets, LockCandidate(a)
      PROVE  RowType' /\ SetType' /\ NewType' /\ WorkInv'
  BY <1>1, <1>2, <1>3 DEF LockCandidate, assetVars, objectVars
<1>4. ASSUME RemoveObject
      PROVE  RowType' /\ SetType' /\ NewType' /\ WorkInv'
  BY <1>1, <1>2, <1>4 DEF RemoveObject, CleanerInv, NoRow, assetVars
<1>5. ASSUME MarkDeleted
      PROVE  RowType' /\ SetType' /\ NewType' /\ WorkInv'
  BY <1>1, <1>2, <1>5 DEF MarkDeleted, CleanerInv, NoRow, Touched
<1>6. ASSUME CleanerDies
      PROVE  RowType' /\ SetType' /\ NewType' /\ WorkInv'
  BY <1>1, <1>2, <1>6 DEF CleanerDies, CleanerInv, assetVars
<1> QED
  BY <1>3, <1>4, <1>5, <1>6 DEF CleanerStep

\* Types and work, over all steps.
LEMMA RowsStep ==
    ASSUME TypeOK, WorkInv, KnownInv, CleanerInv, [Next]_vars
    PROVE  TypeOK' /\ WorkInv'
<1>1. RowType /\ SetType /\ NewType /\ ServerType /\ ClaimType
  BY TypeParts
<1>2. RowType' /\ SetType' /\ NewType' /\ WorkInv'
  <2>1. CASE CommunityStep \/ UNCHANGED vars
    BY <1>1, <2>1, CommunityFrame DEF vars, assetVars, uploadVars, objectVars, RowType, SetType,
           NewType, WorkInv
  <2> QED
    BY <2>1, ProjectRows, AssetRows, CanvasRows, CleanerRows DEF Next
<1>3. ServerType' /\ ClaimType'
  <2>1. CASE UNCHANGED vars
    BY <1>1, <2>1 DEF vars, uploadVars, claimVars, postVars, serverVars, ServerType, ClaimType
  <2> QED
    BY <1>1, <2>1, ProjectServerType, AssetServerType, CanvasServerType, CommunityServerType,
       CleanerServerType DEF Next
<1>4. TypeOK' <=> RowType' /\ SetType' /\ NewType' /\ ClaimType' /\ ServerType'
  BY TypeParts, PTL
<1> QED
  BY <1>2, <1>3, <1>4

-----------------------------------------------------------------------------
\* Every writer of an asset row waits for the cleaner's lock.
LEMMA CleanerStays ==
    ASSUME TypeOK, CleanerInv, [Next]_vars
    PROVE  CleanerInv'
<1>1. ServerType /\ SetType
  BY TypeParts
<1>2. CASE CleanerStep
  <2>1. ASSUME NEW a \in Assets, LockCandidate(a) PROVE CleanerInv'
    BY <2>1 DEF LockCandidate, Eligible, CleanerInv, assetVars
  <2>2. ASSUME RemoveObject PROVE CleanerInv'
    BY <1>1, <2>2 DEF RemoveObject, ServerType, CleanerInv, NoRow, assetVars
  <2>3. ASSUME MarkDeleted \/ CleanerDies PROVE CleanerInv'
    BY <2>3 DEF MarkDeleted, CleanerDies, CleanerInv
  <2> QED
    BY <1>2, <2>1, <2>2, <2>3 DEF CleanerStep
<1>3. CASE AssetStep
  <2>1. cleaner' = cleaner
    BY <1>3, AssetFrame
  <2>2. cleaner.asset \in aged => cleaner.asset \in aged'
    BY <1>3 DEF AssetStep, BeginUpload, InsertUpload, AbortUpload, PutObject, BeginConfirm,
       EndConfirm, ExpireUpload, StoreGenerated, CompleteGenerated, FailGenerated, EndShield, Age,
       InsertGenerated, assetVars, Touched, Cleaned
  <2> QED
    BY <2>1, <2>2 DEF CleanerInv
<1>4. CASE ProjectStep
  <2>1. cleaner' = cleaner
    BY <1>4, ProjectFrame
  <2>2. cleaner.asset \in aged => cleaner.asset \in aged'
    BY <1>4 DEF ProjectStep, CreateProject, ArchiveProject, RestoreProject, BeginDelete,
           EndDelete, assetVars, Unlocked, Cleaned
  <2> QED
    BY <2>1, <2>2 DEF CleanerInv
<1>5. CASE CanvasStep
  <2>1. cleaner' = cleaner
    BY <1>5, CanvasFrame
  <2>2. cleaner.asset \in aged => cleaner.asset \in aged'
    BY <1>5 DEF CanvasStep, BeginSave, BeginRestore, FindUnreferenced, CommitSave, AbortSave,
           CreateCheckpoint, assetVars, Cleaned
  <2> QED
    BY <2>1, <2>2 DEF CleanerInv
<1>6. CASE CommunityStep \/ UNCHANGED vars
  BY <1>6, CommunityFrame DEF vars, assetVars, serverVars, CleanerInv
<1> QED
  BY <1>2, <1>3, <1>4, <1>5, <1>6 DEF Next

\* Projects, transactions and checkpoints over all steps.
LEMMA RowInvStep ==
    ASSUME TypeOK, RowInv, [Next]_vars
    PROVE  RowInv'
<1>1. RowType /\ ServerType /\ ClaimType
  BY TypeParts
<1>2. CASE ProjectStep
  <2>1. UNCHANGED <<origin, tx, creating>>
    BY <1>2, ProjectFrame
  <2>2. \A p \in Projects : /\ project[p] # "none" => project'[p] # "none"
                            /\ project[p] = "active" /\ tx[p] # NoTx => project'[p] = "active"
                            /\ project'[p] = "none" => project[p] = "none" /\ refs'[p] \subseteq refs[p]
    BY <1>1, <1>2 DEF ServerType, Lives, ClaimType, Undeleted, ProjectStep, CreateProject,
           ArchiveProject, RestoreProject, BeginDelete, EndDelete, claimVars
  <2>3. \A s \in Checkpoints : /\ checkpoint'[s].valid => checkpoint[s].valid
                               /\ checkpoint'[s].project = checkpoint[s].project
    BY <1>1, <1>2 DEF ClaimType, Manifests, ProjectStep, CreateProject, ArchiveProject,
           RestoreProject, BeginDelete, EndDelete, claimVars
  <2>4. creating.origin \in Projects \cup {None} /\ \A a \in Assets : origin[a] \in Projects \cup {None}
    BY <1>1 DEF RowType, ServerType
  <2> QED
    BY <2>1, <2>2, <2>3, <2>4 DEF RowInv
<1>3. CASE AssetStep
  <2>1. UNCHANGED <<project, refs, checkpoint, tx>>
    BY <1>3, AssetFrame
  <2>2. /\ \A a \in Assets : origin'[a] # None => project[origin'[a]] # "none"
        /\ creating'.origin # None => project[creating'.origin] # "none"
    BY <1>1, <1>3 DEF RowInv, RowType, ServerType, NoUpload, AssetStep, BeginUpload,
           InsertUpload, AbortUpload, PutObject, BeginConfirm, EndConfirm, ExpireUpload,
           StoreGenerated, CompleteGenerated, FailGenerated, EndShield, Age, InsertGenerated,
           assetVars, uploadVars
  <2> QED
    BY <2>1, <2>2 DEF RowInv
<1>4. CASE CanvasStep
  <2>1. UNCHANGED <<project, origin, creating>>
    BY <1>4, CanvasFrame
  <2> DEFINE Rows == \A p \in Projects : /\ project[p] = "none" => refs'[p] = {}
                                         /\ tx'[p].step = "none" => tx'[p] = NoTx
                                         /\ tx'[p] # NoTx => project[p] = "active"
             Points == \A s \in Checkpoints :
                         checkpoint'[s].valid => /\ checkpoint'[s].project \in Projects
                                                 /\ project[checkpoint'[s].project] # "none"
  <2>2. ASSUME NEW p \in Projects, NEW drop \in SUBSET Assets, NEW add \in SUBSET Assets,
               BeginSave(p, drop, add)
        PROVE  Rows /\ Points
    BY <1>1, <2>2 DEF RowInv, ServerType, NoTx, BeginSave, claimVars
  <2>3. ASSUME NEW p \in Projects, NEW s \in Checkpoints, NEW backup \in Checkpoints,
               BeginRestore(p, s, backup)
        PROVE  Rows /\ Points
    BY <1>1, <2>3 DEF RowInv, ServerType, NoTx, BeginRestore, claimVars
  <2>4. ASSUME NEW p \in Projects, FindUnreferenced(p)
        PROVE  Rows /\ Points
    <3>1. tx'[p].step = "releasing" /\ \A q \in Projects \ {p} : tx'[q] = tx[q]
      BY <1>1, <2>4 DEF ServerType, TxStates, FindUnreferenced
    <3>2. tx[p] # NoTx
      BY <2>4 DEF FindUnreferenced, NoTx
    <3> QED
      BY <2>4, <3>1, <3>2 DEF RowInv, FindUnreferenced, claimVars
  <2>5. ASSUME NEW p \in Projects, AbortSave(p)
        PROVE  Rows /\ Points
    BY <1>1, <2>5 DEF RowInv, ServerType, AbortSave, claimVars
  <2>6. ASSUME NEW p \in Projects, NEW s \in Checkpoints, CreateCheckpoint(p, s)
        PROVE  Rows /\ Points
    BY <1>1, <2>6 DEF RowInv, ClaimType, CreateCheckpoint, serverVars
  <2>7. ASSUME NEW p \in Projects, CommitSave(p)
        PROVE  Rows /\ Points
    <3>1. tx[p] # NoTx /\ project[p] = "active"
      BY <2>7 DEF CommitSave, NoTx, RowInv
    <3>2. \A q \in Projects : tx'[q] = IF q = p THEN NoTx ELSE tx[q]
      BY <1>1, <2>7 DEF CommitSave, ServerType
    <3>3. \A q \in Projects \ {p} : refs'[q] = refs[q]
      BY <1>1, <2>7 DEF CommitSave, ClaimType
    <3>4. Rows
      BY <3>1, <3>2, <3>3 DEF RowInv
    <3>5. Points
      BY <2>7, <3>1 DEF CommitSave, RowInv
    <3> QED
      BY <3>4, <3>5
  <2>8. Rows /\ Points
    BY <1>4, <2>2, <2>3, <2>4, <2>5, <2>6, <2>7 DEF CanvasStep
  <2> QED
    BY <2>1, <2>8 DEF RowInv
<1>5. CASE CommunityStep \/ CleanerStep \/ UNCHANGED vars
  BY <1>5, CommunityFrame, CleanerFrame DEF vars, assetVars, uploadVars, claimVars, serverVars,
         RowInv
<1> QED
  BY <1>2, <1>3, <1>4, <1>5 DEF Next

-----------------------------------------------------------------------------
\* Objects of completed assets over all steps.
LEMMA StoredStep ==
    ASSUME TypeOK, WorkInv, CleanerInv, StoredInv, [Next]_vars
    PROVE  StoredInv'
<1>1. RowType /\ SetType /\ ServerType
  BY TypeParts
<1>2. CASE ProjectStep \/ CanvasStep \/ CommunityStep \/ UNCHANGED vars
  BY <1>2, ProjectFrame, CanvasFrame, CommunityFrame DEF vars, assetVars, objectVars, serverVars,
         StoredInv
<1>3. CASE AssetStep
  <2>1. lost' = lost /\ cleaner' = cleaner
    BY <1>3, AssetFrame
  <2> DEFINE Good(a) == status'[a] = "completed" =>
                           a \in stored' \/ (status[a] = "completed" /\ (a \in stored => a \in stored'))
  <2>2. ASSUME NEW b \in Assets, EndConfirm(b) \/ CompleteGenerated(b) \/ FailGenerated(b)
        PROVE  \A a \in Assets : Good(a)
    BY <1>1, <2>2 DEF RowType, WorkInv, EndConfirm, CompleteGenerated, FailGenerated, assetVars,
           objectVars
  <2>3. ASSUME InsertUpload PROVE \A a \in Assets : Good(a)
    BY <1>1, <2>3 DEF RowType, InsertUpload, objectVars
  <2>4. ASSUME NEW b \in Assets, NEW p \in Projects, InsertGenerated(b,
               p) PROVE \A a \in Assets : Good(a)
    BY <1>1, <2>4 DEF RowType, InsertGenerated, objectVars
  <2>5. ASSUME status' = status, stored \subseteq stored' PROVE \A a \in Assets : Good(a)
    BY <2>5
  <2>6. \A a \in Assets : Good(a)
    BY <1>3, <2>2, <2>3, <2>4, <2>5 DEF AssetStep, BeginUpload, AbortUpload, PutObject,
       BeginConfirm, ExpireUpload, StoreGenerated, EndShield, Age, assetVars, objectVars
  <2> QED
    BY <2>1, <2>6 DEF StoredInv
<1>4. CASE CleanerStep
  <2>1. ASSUME NEW a \in Assets, LockCandidate(a) PROVE StoredInv'
    BY <2>1 DEF LockCandidate, StoredInv, assetVars, objectVars, NoRow
  <2>2. ASSUME RemoveObject PROVE StoredInv'
    BY <1>1, <2>2 DEF RemoveObject, ServerType, StoredInv, assetVars
  <2>3. ASSUME MarkDeleted PROVE StoredInv'
    BY <1>1, <2>3 DEF MarkDeleted, RowType, ServerType, StoredInv
  <2>4. ASSUME CleanerDies PROVE StoredInv'
    BY <1>1, <2>4 DEF CleanerDies, ServerType, StoredInv, assetVars
  <2> QED
    BY <1>4, <2>1, <2>2, <2>3, <2>4 DEF CleanerStep
<1> QED
  BY <1>2, <1>3, <1>4 DEF Next

-----------------------------------------------------------------------------
\* What a look at the row of an asset finds before it is held.
Free(a) == status[a] = "completed" /\ ~Cleaned(a)

\* What holds an asset does not change with the asset.
LEMMA SameHolds ==
    ASSUME UNCHANGED <<project, refs, checkpoint, postVars, tx>>, NEW a \in Assets, Held(a)'
    PROVE  Held(a)
BY DEF Held, SharedBy, Referenced, InCheckpoint, ShownByPost, postVars, Undeleted

\* Creating, archiving, restoring and deleting a project hold nothing new.
LEMMA ProjectHolds ==
    ASSUME TypeOK, RowInv, ProjectStep, NEW a \in Assets, Held(a)'
    PROVE  Held(a)
<1>1. ServerType /\ ClaimType
  BY TypeParts
<1>2. UNCHANGED <<post, revived, tx>>
  BY ProjectFrame DEF postVars
<1>3. \A p \in Projects : /\ refs'[p] \subseteq refs[p]
                          /\ project'[p] \in {"active", "archived"} =>
                               project[p] \in {"active", "archived"} \/ project[p] = "none"
  BY <1>1 DEF ServerType, Lives, ClaimType, Undeleted, ProjectStep, CreateProject,
         ArchiveProject, RestoreProject, BeginDelete, EndDelete, claimVars
<1>4. \A s \in Checkpoints : /\ checkpoint'[s].valid => checkpoint[s].valid
                             /\ checkpoint'[s].project = checkpoint[s].project
                             /\ checkpoint'[s].manifest = checkpoint[s].manifest
  BY <1>1 DEF ClaimType, Manifests, ProjectStep, CreateProject, ArchiveProject, RestoreProject,
     BeginDelete, EndDelete, claimVars
<1>5. SharedBy(a)' = SharedBy(a) /\ ShownByPost(a)' = ShownByPost(a)
  BY <1>2 DEF SharedBy, ShownByPost
<1>6. Referenced(a)' => Referenced(a)
  BY <1>3 DEF Referenced, Undeleted, RowInv
<1>7. InCheckpoint(a)' => InCheckpoint(a)
  BY <1>3, <1>4 DEF InCheckpoint, Undeleted, RowInv
<1> QED
  BY <1>5, <1>6, <1>7 DEF Held

\* A save and a restore look at what they add; a commit turns a lock into a reference,
\* and a reference into a backup checkpoint.
LEMMA CanvasHolds ==
    ASSUME TypeOK, RowInv, CanvasStep, NEW a \in Assets, Held(a)'
    PROVE  Held(a) \/ Free(a)
<1>1. ServerType /\ ClaimType
  BY TypeParts
<1>2. project' = project /\ ShownByPost(a)' = ShownByPost(a)
  BY CanvasFrame DEF ShownByPost, postVars
<1>3. ASSUME NEW p \in Projects, NEW drop \in SUBSET Assets, NEW add \in SUBSET Assets,
             BeginSave(p, drop, add)
      PROVE  Held(a) \/ Free(a)
  <2>1. SharedBy(a)' \subseteq SharedBy(a) \cup {p} /\ (p \in SharedBy(a)' => a \in add)
    BY <1>1, <1>3 DEF ServerType, BeginSave, NoTx, SharedBy
  <2>2. Referenced(a)' = Referenced(a) /\ InCheckpoint(a)' = InCheckpoint(a)
    BY <1>2, <1>3 DEF BeginSave, claimVars, Referenced, InCheckpoint, Undeleted
  <2> QED
    BY <1>2, <1>3, <2>1, <2>2 DEF Held, Free, BeginSave, Completed
<1>4. ASSUME NEW p \in Projects, NEW s \in Checkpoints, NEW backup \in Checkpoints,
             BeginRestore(p, s, backup)
      PROVE  Held(a) \/ Free(a)
  <2>1. SharedBy(a)' \subseteq SharedBy(a) \cup {p} /\ (p \in SharedBy(a)' => a \in checkpoint[s].manifest)
    BY <1>1, <1>4 DEF ServerType, BeginRestore, NoTx, SharedBy
  <2>2. Referenced(a)' = Referenced(a) /\ InCheckpoint(a)' = InCheckpoint(a)
    BY <1>2, <1>4 DEF BeginRestore, claimVars, Referenced, InCheckpoint, Undeleted
  <2> QED
    BY <1>2, <1>4, <2>1, <2>2 DEF Held, Free, BeginRestore, Completed
<1>5. ASSUME NEW p \in Projects, FindUnreferenced(p) \/ AbortSave(p)
      PROVE  Held(a)
  <2>1. SharedBy(a)' \subseteq SharedBy(a)
    <3>1. CASE FindUnreferenced(p)
      <4>1. \A q \in Projects : tx'[q].add = tx[q].add /\ (q # p => tx'[q] = tx[q])
        BY <1>1, <3>1 DEF ServerType, TxStates, FindUnreferenced
      <4> QED
        BY <3>1, <4>1 DEF SharedBy, FindUnreferenced
    <3>2. CASE AbortSave(p)
      BY <1>1, <3>2 DEF ServerType, AbortSave, NoTx, SharedBy
    <3> QED
      BY <1>5, <3>1, <3>2
  <2>2. Referenced(a)' = Referenced(a) /\ InCheckpoint(a)' = InCheckpoint(a)
    BY <1>2, <1>5 DEF FindUnreferenced, AbortSave, claimVars, Referenced, InCheckpoint, Undeleted
  <2> QED
    BY <1>2, <2>1, <2>2 DEF Held
<1>6. ASSUME NEW p \in Projects, CommitSave(p)
      PROVE  Held(a)
  <2>1. project[p] = "active" /\ tx[p].step # "none"
    BY <1>6 DEF CommitSave, NoTx, RowInv
  <2>2. a \in tx[p].add => SharedBy(a) # {}
    BY <2>1 DEF SharedBy
  <2>3. a \in refs[p] => Referenced(a)
    BY <2>1 DEF Referenced, Undeleted
  <2>4. SharedBy(a)' \subseteq SharedBy(a)
    BY <1>1, <1>6 DEF ServerType, CommitSave, NoTx, SharedBy
  <2>5. Referenced(a)' => Referenced(a) \/ a \in tx[p].add
    BY <1>1, <1>2, <1>6 DEF ClaimType, CommitSave, Referenced, Undeleted
  <2>6. InCheckpoint(a)' => InCheckpoint(a) \/ a \in refs[p]
    BY <1>2, <1>6 DEF CommitSave, InCheckpoint, Undeleted
  <2> QED
    BY <1>2, <2>2, <2>3, <2>4, <2>5, <2>6 DEF Held
<1>7. ASSUME NEW p \in Projects, NEW s \in Checkpoints, CreateCheckpoint(p, s)
      PROVE  Held(a)
  <2>1. SharedBy(a)' = SharedBy(a) /\ Referenced(a)' = Referenced(a)
    BY <1>2, <1>7 DEF CreateCheckpoint, serverVars, SharedBy, Referenced, Undeleted
  <2>2. a \in refs[p] => Referenced(a)
    BY <1>7 DEF CreateCheckpoint, Referenced, Undeleted
  <2>3. InCheckpoint(a)' => InCheckpoint(a) \/ a \in refs[p]
    BY <1>1, <1>2, <1>7 DEF ClaimType, CreateCheckpoint, InCheckpoint, Undeleted
  <2> QED
    BY <1>2, <2>1, <2>2, <2>3 DEF Held
<1> QED
  BY <1>3, <1>4, <1>5, <1>6, <1>7 DEF CanvasStep

\* A post is created for an asset that was looked at.
LEMMA CommunityHolds ==
    ASSUME TypeOK, CommunityStep, NEW a \in Assets, Held(a)'
    PROVE  Held(a) \/ Free(a)
<1>1. ClaimType
  BY TypeParts
<1>2. UNCHANGED <<project, refs, checkpoint, tx>>
  BY CommunityFrame
<1>3. SharedBy(a)' = SharedBy(a) /\ Referenced(a)' = Referenced(a) /\ InCheckpoint(a)' = InCheckpoint(a)
  BY <1>2 DEF SharedBy, Referenced, InCheckpoint, Undeleted
<1>4. ASSUME ShownByPost(a)'
      PROVE  ShownByPost(a) \/ Free(a)
  <2>1. ASSUME NEW k \in Posts, NEW b \in Assets, CreatePost(k, b)
        PROVE  ShownByPost(a) \/ Free(a)
    BY <1>1, <1>4, <2>1 DEF ClaimType, CreatePost, ShownByPost, Free, Unlocked
  <2>2. ASSUME NEW k \in Posts, NEW from, NEW to, Moderated(k, from, to),
               revived \subseteq revived'
        PROVE  \/ ShownByPost(a)
               \/ post[k].status \notin Shown /\ k \notin revived' /\ post[k].asset = a
    <3>1. \A i \in Posts : post'[i].asset = post[i].asset /\ (i # k => post'[i] = post[i])
      BY <1>1, <2>2 DEF ClaimType, PostRows, Moderated
    <3> QED
      BY <1>4, <2>2, <3>1 DEF ShownByPost
  <2>3. ASSUME NEW k \in Posts, WithdrawPost(k) \/ ApprovePost(k) \/ RejectPost(k) \/ RemovePost(k)
        PROVE  ShownByPost(a)
    <3>1. PICK from, to :
           from \subseteq Shown /\ Moderated(k, from, to) /\ revived' = revived
      BY <2>3 DEF WithdrawPost, ApprovePost, RejectPost, RemovePost, Shown
    <3>2. post[k].status \in Shown
      BY <3>1 DEF Moderated
    <3> QED
      BY <2>2, <3>1, <3>2
  <2>4. ASSUME NEW k \in Posts, EditPost(k)
        PROVE  ShownByPost(a) \/ Free(a)
    <3>1. revived \subseteq revived'
      BY <2>4 DEF EditPost
    <3>2. ShownByPost(a) \/ (post[k].status \notin Shown /\ k \notin revived' /\ post[k].asset = a)
      BY <2>2, <2>4, <3>1 DEF EditPost
    <3>3. post[k].status \in {"published", "rejected"}
      BY <2>4 DEF EditPost, Moderated
    <3> QED
      BY <2>4, <3>2, <3>3 DEF EditPost, Completed, Free, Shown
  <2> QED
    BY <2>1, <2>3, <2>4 DEF CommunityStep
<1> QED
  BY <1>3, <1>4 DEF Held

\* Held assets stay completed: the cleaner locks what is not held, and what it has locked
\* nobody begins to hold.
LEMMA ClaimStep ==
    ASSUME TypeOK, WorkInv, RowInv, CleanerInv, ClaimInv, [Next]_vars
    PROVE  ClaimInv'
<1>1. RowType /\ SetType /\ ServerType
  BY TypeParts
<1>2. SUFFICES ASSUME NEW a \in Assets, Held(a)'
               PROVE  Free(a)'
  BY DEF ClaimInv, Free
<1>3. Held(a) => Free(a)
  BY DEF ClaimInv, Free
<1>4. CASE ProjectStep \/ CanvasStep \/ CommunityStep \/ UNCHANGED vars
  <2>1. Free(a)
    <3>1. CASE UNCHANGED vars
      BY <1>2, <1>3, <3>1, SameHolds DEF vars, claimVars, serverVars
    <3> QED
      BY <1>2, <1>3, <1>4, <3>1, ProjectHolds, CanvasHolds, CommunityHolds
  <2> QED
    BY <1>4, <2>1, ProjectFrame, CanvasFrame, CommunityFrame DEF vars, assetVars, serverVars,
           Free, Cleaned
<1>5. CASE AssetStep
  <2>1. UNCHANGED <<project, refs, checkpoint, postVars, tx, cleaner>>
    BY <1>5, AssetFrame
  <2>2. Free(a)
    BY <1>2, <1>3, <2>1, SameHolds
  <2>3. status'[a] = "completed"
    BY <1>1, <1>5, <2>2 DEF Free, RowType, WorkInv, AssetStep, BeginUpload, InsertUpload,
           AbortUpload, PutObject, BeginConfirm, EndConfirm, ExpireUpload, StoreGenerated,
           CompleteGenerated, FailGenerated, EndShield, Age, InsertGenerated, assetVars, NoUpload
  <2> QED
    BY <2>1, <2>2, <2>3 DEF Free, Cleaned
<1>6. CASE CleanerStep
  <2>1. UNCHANGED <<project, refs, checkpoint, postVars, tx>>
    BY <1>6, CleanerFrame
  <2>2. Held(a) /\ Free(a)
    BY <1>2, <1>3, <2>1, SameHolds
  <2>3. ASSUME NEW b \in Assets, LockCandidate(b) PROVE Free(a)'
    <3>1. ~Held(b)
      BY <2>3 DEF LockCandidate, Eligible, Unlocked, Held, InPost, ShownByPost
    <3> QED
      BY <2>2, <2>3, <3>1 DEF LockCandidate, Free, Cleaned, assetVars
  <2>4. ASSUME RemoveObject PROVE Free(a)'
    BY <1>1, <2>2, <2>4 DEF RemoveObject, ServerType, Free, Cleaned, assetVars
  <2>5. ASSUME MarkDeleted PROVE Free(a)'
    BY <1>1, <2>2, <2>5, AssetAssumption DEF MarkDeleted, RowType, Free, Cleaned, NoRow
  <2>6. ASSUME CleanerDies PROVE Free(a)'
    BY <2>2, <2>6, AssetAssumption DEF CleanerDies, Free, Cleaned, NoRow, assetVars
  <2> QED
    BY <1>6, <2>3, <2>4, <2>5, <2>6 DEF CleanerStep
<1> QED
  BY <1>4, <1>5, <1>6 DEF Next

\* Every step keeps the invariant.
LEMMA InvStep == Inv /\ [Next]_vars => Inv'
BY RowsStep, KnownStep, CleanerStays, RowInvStep, StoredStep, ClaimStep DEF Inv

\* Nothing exists at first.
LEMMA InvInit == Init => Inv
<1> SUFFICES ASSUME Init PROVE Inv
  OBVIOUS
<1>1. RowType /\ SetType /\ NewType /\ ClaimType /\ ServerType
  BY DEF Init, RowType, SetType, NewType, ClaimType, ServerType, Statuses, Lives, Manifests,
         PostRows, TxStates, Removals, NoTx, NoRemoval, NoUpload, NoRow
<1>2. TypeOK
  BY <1>1, TypeParts
<1>3. WorkInv /\ KnownInv /\ CleanerInv /\ StoredInv
  BY DEF Init, WorkInv, KnownInv, CleanerInv, StoredInv, NoTx, NoRemoval
<1>4. RowInv
  BY DEF Init, RowInv, NoTx, NoUpload
<1>5. ClaimInv
  BY DEF Init, ClaimInv, Held, SharedBy, Referenced, InCheckpoint, ShownByPost, NoTx, Shown
<1> QED
  BY <1>2, <1>3, <1>4, <1>5 DEF Inv

\* The invariant holds for ever.
LEMMA Invariance == Spec => []Inv
BY InvInit, InvStep, PTL DEF Spec

\* Every column keeps its type, and nothing is known of an asset before its row is inserted.
THEOREM AssetTypes == Spec => []TypeOK
<1>1. Inv => TypeOK
  BY DEF Inv
<1> QED
  BY <1>1, Invariance, PTL

\* What is held can be read.
LEMMA HeldReadable ==
    ASSUME Inv, NEW a \in Assets, Held(a)
    PROVE  Readable(a)
BY DEF Inv, ClaimInv, StoredInv, Cleaned, Readable

\* Whatever the cleaner, its crashes, other saves and deletions do, a canvas shows assets
\* that can be read.
THEOREM CanvasReadable == Spec => []ReferencedReadable
<1>1. Inv => ReferencedReadable
  BY HeldReadable DEF ReferencedReadable, Held
<1> QED
  BY <1>1, Invariance, PTL

\* Every valid checkpoint of a living project can be restored as far as its assets go.
THEOREM CheckpointsRestorable == Spec => []CheckpointReadable
<1>1. Inv => CheckpointReadable
  BY HeldReadable DEF CheckpointReadable, Held
<1> QED
  BY <1>1, Invariance, PTL

\* A post that is shown has its image, unless an edit brought it back when the cleaner had
\* the image or was at it.
THEOREM PostsHaveImages == Spec => []PostReadable
<1>1. Inv => PostReadable
  BY HeldReadable DEF PostReadable, Held
<1> QED
  BY <1>1, Invariance, PTL


-----------------------------------------------------------------------------
\* The assets that QuotaKept counts.
Living ==
    {a \in Assets : /\ status[a] \in {"pending", "completed"} /\ a \notin released
                    /\ origin[a] = None \/ Undeleted(origin[a])}

\* QuotaKept is about the sum over the living billed assets.
LEMMA LivingCounted ==
    /\ Living \subseteq Billed /\ Billed \subseteq Assets
    /\ QuotaKept <=> Total(Living, Size) <= Quota
<1>1. Living = {a \in Billed : origin[a] = None \/ Undeleted(origin[a])}
  BY DEF Living, Billed
<1> QED
  BY <1>1 DEF QuotaKept, Billed

\* Sums over sets of assets.
LEMMA SumBound ==
    ASSUME NEW T \in SUBSET Assets, NEW S \in SUBSET T
    PROVE  Total(S, Size) \in Nat /\ Total(T, Size) \in Nat /\ Total(S, Size) <= Total(T, Size)
<1>1. IsFiniteSet(S) /\ IsFiniteSet(T) /\ Size \in [Assets -> Nat]
  BY AssetAssumption, FS_Subset
<1> QED
  BY <1>1, TotalType, TotalMonotone

\* One more asset adds its size at most.
LEMMA SumOne ==
    ASSUME NEW S \in SUBSET Assets, NEW a \in Assets
    PROVE  Total(S \cup {a}, Size) <= Total(S, Size) + Size[a]
<1>1. IsFiniteSet(S) /\ Size \in [Assets -> Nat]
  BY AssetAssumption, FS_Subset
<1>2. CASE a \in S
  <2>1. S \cup {a} = S /\ Size[a] \in Nat /\ Total(S, Size) \in Nat
    BY <1>1, <1>2, SumBound
  <2> QED
    BY <2>1
<1>3. CASE a \notin S
  <2>1. Total(S \cup {a}, Size) = Total(S, Size) + Size[a]
    BY <1>1, <1>3, TotalAdd
  <2>2. Size[a] \in Nat /\ Total(S, Size) \in Nat
    BY <1>1, SumBound
  <2> QED
    BY <2>1, <2>2
<1> QED
  BY <1>2, <1>3

\* Whoever enlarges what is counted has compared the larger sum with the quota.
LEMMA LivingGrows ==
    ASSUME Inv, [Next]_vars
    PROVE  \/ Living' \subseteq Living
           \/ \E a \in Assets : Living' \subseteq Living \cup {a} /\ Usage + Size[a] <= Quota
           \/ \E S, T \in SUBSET Assets :
                /\ Living' \subseteq S \cup T
                /\ Total(S, Size) + Total(T, Size) <= Quota
<1>1. RowType /\ SetType /\ ServerType /\ RowInv /\ WorkInv
  BY TypeParts DEF Inv
<1>2. CASE ProjectStep
  <2>1. status' = status /\ origin' = origin
    BY <1>2, ProjectFrame
  <2>2. released \subseteq released'
    BY <1>2 DEF ProjectStep, CreateProject, ArchiveProject, RestoreProject, BeginDelete,
           EndDelete, assetVars
  <2>3. \A p \in Projects : project'[p] \in {"active", "archived"} =>
                               project[p] \in {"active", "archived"} \/ project[p] = "none"
    BY <1>1, <1>2 DEF ServerType, Lives, Undeleted, ProjectStep, CreateProject, ArchiveProject,
           RestoreProject, BeginDelete, EndDelete
  <2>4. \A a \in Assets : origin[a] # None => origin[a] \in Projects /\ project[origin[a]] # "none"
    BY <1>1 DEF RowType, RowInv
  <2>5. Living' \subseteq Living
    BY <2>1, <2>2, <2>3, <2>4 DEF Living, Undeleted
  <2> QED
    BY <2>5
<1>3. CASE AssetStep
  <2>1. project' = project
    BY <1>3, AssetFrame
  <2>2. ASSUME InsertUpload
        PROVE  \E a \in Assets : Living' \subseteq Living \cup {a} /\ Usage + Size[a] <= Quota
    <3>1. creating.asset \in Assets
      BY <1>1, <2>2 DEF InsertUpload, ServerType
    <3>2. Living' \subseteq Living \cup {creating.asset}
      BY <1>1, <2>1, <2>2 DEF InsertUpload, RowType, Living, Undeleted
    <3> QED
      BY <2>2, <3>1, <3>2 DEF InsertUpload
  <2>3. ASSUME NEW a \in Assets, NEW p \in Projects, InsertGenerated(a, p)
        PROVE  Living' \subseteq Living \cup {a} /\ Usage + Size[a] <= Quota
    BY <1>1, <2>1, <2>3 DEF InsertGenerated, RowType, Living, Undeleted
  <2>4. ASSUME NEW a \in Assets, EndConfirm(a) \/ CompleteGenerated(a) \/ FailGenerated(a)
        PROVE  Living' \subseteq Living
    BY <1>1, <2>1, <2>4 DEF EndConfirm, CompleteGenerated, FailGenerated, RowType, WorkInv,
           Living, Undeleted, assetVars
  <2>5. ASSUME UNCHANGED <<status, origin, released>>
        PROVE  Living' \subseteq Living
    BY <2>1, <2>5 DEF Living, Undeleted
  <2> QED
    BY <1>3, <2>2, <2>3, <2>4, <2>5 DEF AssetStep, BeginUpload, AbortUpload, PutObject,
       BeginConfirm, ExpireUpload, StoreGenerated, EndShield, Age, assetVars
<1>4. CASE CanvasStep
  <2>1. project' = project /\ status' = status /\ origin' = origin
    BY <1>4, CanvasFrame
  <2>2. ASSUME NEW p \in Projects, CommitSave(p)
        PROVE  \/ Living' \subseteq Living
               \/ \E S, T \in SUBSET Assets :
                    /\ Living' \subseteq S \cup T
                    /\ Total(S, Size) + Total(T, Size) <= Quota
    <3>1. released' = (released \cup tx[p].release) \ Rebilled(p)
      BY <2>2 DEF CommitSave
    <3>2. CASE Rebilled(p) = {}
      <4>1. released \subseteq released'
        BY <3>1, <3>2
      <4> QED
        BY <2>1, <4>1 DEF Living, Undeleted
    <3>3. CASE Rebilled(p) # {}
      <4>1. Total(Billed \ tx[p].release, Size) + Total(Rebilled(p), Size) <= Quota
        BY <2>2, <3>3 DEF CommitSave
      <4>2. Living' \subseteq (Billed \ tx[p].release) \cup Rebilled(p)
        BY <2>1, <3>1 DEF Living, Undeleted, Billed
      <4>3. Billed \ tx[p].release \in SUBSET Assets /\ Rebilled(p) \in SUBSET Assets
        BY <1>1 DEF Billed, Rebilled, ServerType, TxStates
      <4> QED
        BY <4>1, <4>2, <4>3
    <3> QED
      BY <3>2, <3>3
  <2>3. ASSUME released' = released
        PROVE  Living' \subseteq Living
    BY <2>1, <2>3 DEF Living, Undeleted
  <2> QED
    BY <1>4, <2>2, <2>3 DEF CanvasStep, BeginSave, BeginRestore, FindUnreferenced, AbortSave,
           CreateCheckpoint, assetVars
<1>5. CASE CleanerStep
  <2>1. UNCHANGED <<project, origin, released>>
    BY <1>5, CleanerFrame
  <2>2. \A a \in Assets : status'[a] \in {"pending", "completed"} => status'[a] = status[a]
    BY <1>1, <1>5 DEF RowType, CleanerStep, LockCandidate, RemoveObject, MarkDeleted,
           CleanerDies, assetVars
  <2>3. Living' \subseteq Living
    BY <2>1, <2>2 DEF Living, Undeleted
  <2> QED
    BY <2>3
<1>6. CASE CommunityStep \/ UNCHANGED vars
  <2>1. UNCHANGED <<project, status, origin, released>>
    BY <1>6, CommunityFrame DEF vars, assetVars
  <2>2. Living' \subseteq Living
    BY <2>1 DEF Living, Undeleted
  <2> QED
    BY <2>2
<1> QED
  BY <1>2, <1>3, <1>4, <1>5, <1>6 DEF Next

\* No race of uploads, executors, saves and restores sells the quota twice.
THEOREM QuotaNeverOversold == Spec => []QuotaKept
<1>1. Init => QuotaKept
  <2> SUFFICES ASSUME Init PROVE QuotaKept
    OBVIOUS
  <2>1. Living = {}
    BY DEF Init, Living
  <2> QED
    BY <2>1, LivingCounted, TotalEmpty, AssetAssumption
<1>2. ASSUME Inv, QuotaKept, [Next]_vars
      PROVE  QuotaKept'
  <2>1. Living' \in SUBSET Assets /\ Living \in SUBSET Assets /\ Living \in SUBSET Billed
        /\ Billed \in SUBSET Assets
    BY LivingCounted DEF Living
  <2>2. Total(Living', Size) <= Quota => QuotaKept'
    <3>1. (QuotaKept <=> Total(Living, Size) <= Quota)'
      BY LivingCounted, PTL
    <3> QED
      BY <3>1
  <2>3. CASE Living' \subseteq Living
    <3>1. Total(Living', Size) <= Total(Living, Size) /\ Total(Living, Size) <= Quota
      BY <1>2, <2>1, <2>3, SumBound, LivingCounted
    <3> QED
      BY <2>1, <2>2, <3>1, SumBound, AssetAssumption
  <2>4. ASSUME NEW a \in Assets, Living' \subseteq Living \cup {a}, Usage + Size[a] <= Quota
        PROVE  QuotaKept'
    <3>1. Total(Living', Size) <= Total(Living \cup {a}, Size)
      BY <2>1, <2>4, SumBound
    <3>2. Total(Living \cup {a}, Size) <= Total(Living, Size) + Size[a]
      BY <2>1, SumOne
    <3>3. Total(Living, Size) <= Usage
      BY <2>1, SumBound DEF Usage
    <3>4. /\ Total(Living', Size) \in Nat /\ Total(Living \cup {a}, Size) \in Nat
          /\ Total(Living, Size) \in Nat /\ Usage \in Nat /\ Size[a] \in Nat /\ Quota \in Nat
      BY <2>1, SumBound, AssetAssumption DEF Usage
    <3>5. Total(Living', Size) <= Quota
      BY <2>4, <3>1, <3>2, <3>3, <3>4
    <3> QED
      BY <2>2, <3>5
  <2>5. ASSUME NEW S \in SUBSET Assets, NEW T \in SUBSET Assets,
               Living' \subseteq S \cup T, Total(S, Size) + Total(T, Size) <= Quota
        PROVE  QuotaKept'
    <3>1. Total(Living', Size) <= Total(S \cup T, Size)
      BY <2>1, <2>5, SumBound
    <3>2. Total(S \cup T, Size) <= Total(S, Size) + Total(T, Size)
      <4>1. IsFiniteSet(S) /\ IsFiniteSet(T) /\ Size \in [Assets -> Nat]
        BY AssetAssumption, FS_Subset
      <4> QED
        BY <4>1, TotalUnion
    <3>3. /\ Total(Living', Size) \in Nat /\ Total(S \cup T, Size) \in Nat
          /\ Total(S, Size) \in Nat /\ Total(T, Size) \in Nat /\ Quota \in Nat
      BY <2>1, SumBound, AssetAssumption
    <3>4. Total(Living', Size) <= Quota
      BY <2>5, <3>1, <3>2, <3>3
    <3> QED
      BY <2>2, <3>4
  <2> QED
    BY <1>2, <2>3, <2>4, <2>5, LivingGrows
<1> QED
  BY <1>1, <1>2, Invariance, PTL DEF Spec

-----------------------------------------------------------------------------
(* The assets implement AssetRetention.                                    *)

Kept == {a \in Assets : status[a] = "completed"}

\* Which assets are claimed.
LEMMA ClaimsType ==
    /\ Claims \subseteq (Projects \cup Checkpoints \cup Posts) \X Assets
    /\ \A c \in Claims : Referenced(c[2]) \/ InCheckpoint(c[2]) \/ ShownByPost(c[2])
BY DEF Claims, Referenced, InCheckpoint, ShownByPost

\* A claimed asset is kept and the cleaner is not at work on it.
LEMMA ClaimedFree ==
    ASSUME Inv, NEW a \in Retention!Claimed(Claims)
    PROVE  a \in Kept /\ ~Cleaned(a)
<1>1. PICK c \in Claims : a = c[2]
  BY DEF Retention!Claimed
<1>2. a \in Assets /\ Held(a)
  BY <1>1, ClaimsType DEF Held
<1> QED
  BY <1>2 DEF Inv, ClaimInv, Kept

\* What is claimed is kept.
LEMMA ClaimsKept == Inv => Retention!Claimed(Claims) \subseteq Kept
BY ClaimedFree

\* Claims come and go while nothing else happens.
LEMMA ClaimsMove ==
    ASSUME Inv, Inv', Kept' = Kept
    PROVE  Retention!Claim
<1>1. Claims' \subseteq (Projects \cup Checkpoints \cup Posts) \X Assets
  <2>1. (Claims \subseteq (Projects \cup Checkpoints \cup Posts) \X Assets)'
    BY ClaimsType, PTL
  <2> QED
    BY <2>1
<1>2. \A a \in Retention!Claimed(Claims') : a \in Kept'
  <2>1. (Inv => Retention!Claimed(Claims) \subseteq Kept)'
    BY ClaimsKept, PTL
  <2> QED
    BY <2>1
<1>3. Retention!Claimed(Claims' \ Claims) \subseteq Retention!Claimed(Claims')
  BY DEF Retention!Claimed
<1> QED
  BY <1>1, <1>2, <1>3 DEF Retention!Claim, Kept

\* Confirming an upload or completing a result keeps an asset, the cleaner drops one
\* that nothing claims, and whatever else happens only claims.
LEMMA RetentionStep ==
    ASSUME Inv, Inv', [Next]_vars
    PROVE  Retention!Next
<1>1. RowType /\ SetType /\ ServerType
  BY TypeParts DEF Inv
<1>2. CASE Kept' = Kept
  BY <1>2, ClaimsMove DEF Retention!Next
<1>3. ASSUME UNCHANGED <<project, refs, checkpoint, postVars>>
      PROVE  Claims' = Claims
  BY <1>3 DEF Claims, Undeleted, postVars
<1>4. CASE AssetStep
  <2>1. Claims' = Claims
    BY <1>3, <1>4, AssetFrame
  <2>2. \/ Kept' = Kept
        \/ \E a \in Assets : Kept' = Kept \cup {a}
    <3>1. ASSUME NEW a \in Assets, EndConfirm(a) \/ CompleteGenerated(a)
          PROVE  Kept' = Kept \/ Kept' = Kept \cup {a}
      BY <1>1, <3>1 DEF EndConfirm, CompleteGenerated, RowType, Kept
    <3>2. ASSUME NEW a \in Assets, FailGenerated(a)
          PROVE  Kept' = Kept
      BY <1>1, <3>2 DEF FailGenerated, RowType, Inv, WorkInv, Kept
    <3>3. ASSUME InsertUpload
          PROVE  Kept' = Kept
      BY <1>1, <3>3 DEF InsertUpload, RowType, Inv, WorkInv, NoUpload, Kept
    <3>4. ASSUME NEW a \in Assets, NEW p \in Projects, InsertGenerated(a, p)
          PROVE  Kept' = Kept
      BY <1>1, <3>4 DEF InsertGenerated, RowType, Kept
    <3>5. ASSUME status' = status
          PROVE  Kept' = Kept
      BY <3>5 DEF Kept
    <3> QED
      BY <1>4, <3>1, <3>2, <3>3, <3>4, <3>5 DEF AssetStep, BeginUpload, AbortUpload, PutObject,
         BeginConfirm, ExpireUpload, StoreGenerated, EndShield, Age, assetVars
  <2> QED
    BY <1>2, <2>1, <2>2 DEF Retention!Next, Retention!Keep, Kept
<1>5. CASE CleanerStep
  <2>1. Claims' = Claims
    BY <1>3, <1>5, CleanerFrame
  <2>2. CASE MarkDeleted
    <3>1. cleaner.asset \in Assets /\ Cleaned(cleaner.asset)
      BY <1>1, <2>2 DEF MarkDeleted, Inv, CleanerInv, NoRow, SetType, Cleaned
    <3>2. Kept' = Kept \ {cleaner.asset}
      BY <1>1, <2>2, <3>1 DEF MarkDeleted, RowType, Kept
    <3>3. cleaner.asset \notin Retention!Claimed(Claims)
      BY <3>1, ClaimedFree
    <3> QED
      BY <2>1, <3>1, <3>2, <3>3 DEF Retention!Next, Retention!Drop, Kept
  <2>3. CASE ~MarkDeleted
    <3>1. Kept' = Kept
      BY <1>5, <2>3 DEF CleanerStep, LockCandidate, RemoveObject, CleanerDies, assetVars, Kept
    <3> QED
      BY <1>2, <3>1
  <2> QED
    BY <2>2, <2>3
<1>6. CASE ProjectStep \/ CanvasStep \/ CommunityStep \/ UNCHANGED vars
  <2>1. Kept' = Kept
    BY <1>6, ProjectFrame, CanvasFrame, CommunityFrame DEF vars, assetVars, Kept
  <2> QED
    BY <1>2, <2>1
<1> QED
  BY <1>4, <1>5, <1>6 DEF Next

\* Whatever names an asset relies on AssetRetention alone, a post as long as no edit has
\* brought it back too late.
THEOREM AssetsRetained == Spec => ImplementsRetention
<1>1. Init => Retention!Init
  BY DEF Init, Retention!Init, Claims, Undeleted, Shown
<1>2. Inv /\ Inv' /\ [Next]_vars => [Retention!Next]_<<{a \in Assets : status[a] = "completed"}, Claims>>
  BY RetentionStep
<1> QED
  BY <1>1, <1>2, Invariance, PTL DEF Spec, ImplementsRetention, Retention!Spec
=============================================================================
