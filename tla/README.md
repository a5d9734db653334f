# AI Canvas Cloud: a verification development

TLA+ models of the server and browser code of AI Canvas Cloud where money, other
people's data and concurrent actors meet: the credit accounts, the executors of
official image generation, the private assets with their quota and cleaner, the
saving of a project from several browser tabs, the browser's generation queue, the
import and the export of projects, and accounts with their sessions and their
erasure.  TLC checks the models on small instances; TLAPS proves the safety
properties of every model, and two refinements, for instances of any size.

Paths below are relative to the repository.  `PROJECT.json` maps every definition
that models code to its source lines.

## 1. Inventory

One PostgreSQL database and one S3-compatible object store serve any number of API
processes (`apps/api`) and admin processes (`apps/admin-api`); the browser application
(`apps/web`) keeps the canvas in memory and talks to the API.  Processes share no
memory: transactions, row locks and unique indexes are all the coordination there is.

| Part | State | Operations | What makes it correct |
|---|---|---|---|
| Credits (`server/modules/official-generation/service.ts`, `admin/officialGenerationAdminService.ts`) | `credit_accounts`, `credit_ledger_entries`, `credit_settings`, redemption batches and codes | open with bonus, redeem, revoke, adjust, reserve, capture, release | balances are the sum of the ledger; a code and the bonus count once |
| Official generation (`official-generation/service.ts`, `worker.ts`) | `official_generation_tasks`, one executor per process (timer, claimed task) | submit, cancel, acknowledge, claim, execute, settle, drain, recover | one executor per task, one settlement, charged users have the image |
| Private assets (`assets/service.ts`, `assets/postgresAssetMaintenance.ts`, `project-graph/postgresAssetReferences.ts`, `workspaces/usage.ts`) | `assets`, `asset_uploads`, `asset_references`, objects | upload, confirm, reference, release, restore, collect | what is named can be read; the quota is not oversold |
| Project graph (`project-graph/postgresProjectGraphService.ts`) | `projects.version`, `project_nodes`, `project_edges`, `project_changes` | apply a batch, read graph, read changes | requests apply once, on the version they name; edges have nodes |
| Saving client (`apps/web/src/platform/cloud`, `store/useProjectStore.ts`) | `CloudProjectState` per project: version, baseline, pending request | diff, batch, retry, catch up, report a conflict, checkpoint | nobody's change is overwritten unseen; what can be saved is saved |
| Snapshots (`project-snapshots`) | `project_snapshots` with asset manifests | checkpoint, restore | a valid checkpoint can be restored |
| Community (`community`) | posts and their moderation | create, edit, withdraw, approve, reject, remove | a visible post has its image |
| Projects, workspaces | rows, roles, quota | create, archive, delete | deletion gives back the quota of what nobody else uses |
| Accounts (`auth/postgresAuthService.ts`, `admin/userOperationsService.ts`) | users, sessions, devices | register, log in (with force), check, log out, revoke, remove a device, change or reset the password, ban | one session is left of those answered with, none to who is barred |
| Deletion and erasure (`admin/accountDeletionService.ts`, `accountErasureMaintenance.ts`) | jobs, the workspace, its objects | delete, claim, erase, fail, take over | every object goes, before the rows that name it |
| Imports (`migrations/postgresMigrationImportService.ts`, `migrationAssetUploadService.ts`) | imports, uploads, staging objects, multipart uploads | prepare, upload parts, complete, cancel, commit, expire, clean | an import is committed once and completely, what it adopts stays |
| Exports (`migrations/postgresMigrationExportService.ts`) | exports, one archive object each | prepare, execute, cancel, retry, recover, expire, maintain | a completed export has its archive, and no other keeps one |
| Browser generation queue (`apps/web/src/features/generateQueue`, `store/useTaskQueueStore.ts`) | tasks of the open project, executions, the device vault | enqueue, launch, execute, retry, cancel, remove, save, reopen | lanes keep their limits; what arrived is not requested again; the newest result is shown |
| Configuration (`admin/{smtp,objectStorage,site}Config*`) | revisions, publication | publish, roll back | no lost publication |

How they interact: `createTask` reserves credits and inserts a task; an executor of any
process claims it, inserts an asset against the workspace quota, stores an object and
captures the credits in the same transaction that completes the asset.  The browser
puts the asset on the canvas and saves; the save's transaction checks and locks the
assets it names, replaces the references of its nodes, and releases from the quota
what nothing names any more.  Deleting a project, restoring a checkpoint and
moderating a post change what names an asset; the cleaner classifies, locks and
removes what is named by nothing after its grace period.  The browser's queue calls
`createTask`, or a provider directly, and hands results to the canvas.  A login makes a
personal workspace if there is none; deleting an account ends its sessions, takes the
workspace away and leaves a job, which a maintenance command executes days later.  An
import fills staging objects and turns them into assets and a project in one
transaction; an export reads a project's assets into an archive.

What is hard here, and listed line by line under `hazards` in `PROJECT.json`: executors
that list before they lock; two status columns guarded by different transactions; a
process or a COMMIT answer lost between object store and database; statements that
decide from a snapshot and then wait for a lock; a client that moves its version
without its content; a request retried after a lost answer; an error that is permanent
and treated as passing; executions in a browser that outlive the state they began in;
deletions of objects decided in a transaction and carried out after it; a login whose
statements are not one transaction; a job taken over from a run that is only slow.

## 2. Modules

| Module | Role |
|---|---|
| `Totals` | sums over finite sets, from the folds of the community modules |
| `Credits` | accounts, ledger, bonus, redemption, adjustment, and the account halves of reserve, capture, release |
| `OfficialGeneration` | extends `Credits`: tasks, settings, executors, result assets |
| `CreditHolds` | abstract: a balance and, per task, one hold that ends once |
| `AssetLifecycle` | assets, uploads, references, checkpoints, posts, quota, cleaner |
| `AssetRetention` | abstract: what is claimed stays readable |
| `ProjectGraph` | the server's log of changes and the tabs that save to it |
| `GenerateQueue` | the queue of one browser tab, its executions and its vault |
| `MigrationImport` | one import: row, uploads, staging objects, requests, cleaner |
| `MigrationExport` | one export: row, archive, executions |
| `AccountErasure` | the erasure job of an account and the runs that execute it |
| `Accounts` | extends `AccountErasure`: sessions, devices, logins, the administrator |
| `MC...` (one for each of `Credits`, `OfficialGeneration`, `AssetLifecycle`, `ProjectGraph`, `GenerateQueue`, `MigrationImport`, `MigrationExport`, `Accounts`) | instances for TLC |
| `TotalsTheorems`, `OfficialGenerationTheorems` (with those of `Credits`), `AssetTheorems`, `ProjectGraphTheorems`, `GenerateQueueTheorems`, `MigrationImportTheorems`, `MigrationExportTheorems`, `AccountsTheorems` | theorems and proofs |

**Grain.**  A transaction that locks what it reads is one step.  A transaction with
statements that read rows it does not lock is split at those statements
(`AssetLifecycle`: `tx`, `removal`, `creating`), with row locks as guards on the steps
of the others.  In an executor, every transaction, provider call and object-store call
is a step; the same holds for imports, exports and the erasure.  A login has no
transaction at all, so its steps are its statements; a call of the authentication library
is no transaction either, and is split between the statements that others can see.  In
the browser, an `await` is a step boundary wherever something that others read or write,
or a request to a provider or to the server, comes both before and after it.

**Faults for the mutation runs.**  Each property has one deliberately wrong variant of a
definition, kept directly before it and commented `Fault`; nothing refers to it in the
specification.  Putting it in place of the right one must break the property.

### Credits and OfficialGeneration

`available`, `reserved`, `ledger`, `redeemed`, `batch`, `opened` are the tables of
migration 0044.  `Credit(u, d, E)` is the account half of every transaction: it opens
the account if necessary (`ensureAccount`, with the bonus if the user signed up after
the bonus was set), moves the balance by `d` and writes the entries `E` and those of
the bonus.  References of ledger entries are unique per type, as the index makes them.

A task is a row of `official_generation_tasks` (`status`, `billing`, `price`, `category`,
`timedOut`, `acknowledged`) and the asset and object made for it.  `pc[w]` is where
`runOnce` of process `w` is: reading the platform switch, draining, claiming, generating,
inserting the asset (`reserving`), uploading, settling, cleaning up after a failure
(`removing`, `discarding`), releasing.  A submission reads the platform's switch and the
user's before its transaction (`submitting`).  `recovering` is `recoverInterrupted`, which
runs once per start.  `Crash` may come in any of them; `shutdown`
(`apps/api/src/index.ts`) does not wait for a running task and is a crash for it.
`SettleAnswerLost` and `InsertAnswerLost` are a COMMIT that took effect and an answer that
did not come; after the second the asset stays pending, as nothing cleans up there.
`NothingToClaim` may come with tasks queued: `SKIP LOCKED` passes over a row that is
locked. Time is one bit per task: `timedOut`, claimed more than thirty minutes ago.

### AssetLifecycle

`kind`, `status`, `origin`, `released`, `aged` are columns of `assets`; `stored` is the
object store; `refs`, `checkpoint` and `post` are the three kinds of claim.
`BeginSave` is the part of `applyOperations` and its helpers that locks and checks
assets (`FOR SHARE`), `FindUnreferenced` the statement that decides from its snapshot
what leaves the quota, `CommitSave` the rest; `BeginRestore` starts the same
transaction from a checkpoint.  `BeginDelete` decides what the deletion of a project
releases, `EndDelete` does it after the lock waits.  `LockCandidate`, `RemoveObject`
and `MarkDeleted` are the cleaner's `applyAsset`.  `aged` is one bit for the grace
period and `expired` one for the life of an upload.  An object may be put at any time
after its row, since `createUpload` issues a new URL whenever it is repeated.  Two history
variables name cases that properties make an exception of: `lost`, objects removed by a
cleaner that died before it marked the row, and `revived`, rejected posts edited back when
the cleaner had taken their image or was at it.

### ProjectGraph

The server's graph is the last `result` of its `log`; `version` and `last_sequence`
start at 0 and grow together, so the length of the log stands for both.  A batch is a
function from the nodes and edges it writes to their contents or `Gone`.
`ApplyOperations(r)` has the order of the code: the idempotency key first (`Replay`),
then the version (`RejectStale`), then topology and quota (`RejectInvalid`), then
`AppendChange`.  The storage quota is a number of images there is room for (`spare`): a
batch may bring deleted images back if they fit after the ones it deletes, because
deletions come first in a batch; other projects take room away (`UploadElsewhere`).

A tab has the canvas shown, the `CloudProjectState` and a flow: `SendChanges` and
`PostBatch` are `saveCloudProject`; `Advanced`, `CatchUp`, `Rebase`, `RebaseFails`,
`GiveUp` are `flushPendingGraphSave` and `tryRebasePendingGraphSave`; `ReadHead` and
`Missed` are the two statements of `getChanges`.  A request may be handled after its
sender gave up, also after the tab reloaded.  A request is identified by tab, life of
the loaded state and serial number, which stands for its random idempotency key.
`result`, `loaded` and `drafted` in the log are history fields for the properties, and
`overlapped` holds the tabs in which, since they were loaded, a flow started while another
was under way.

### GenerateQueue

`task` is `useTaskQueueStore`: status, phase, whether the provider's task id is known, and
`createdAt` as the number of results asked for before.  `Launchable` is
`selectLaunchableTaskIds`; the runner marks a task as running and starts an execution, a
record with the task, the runtime version it began in and the `await` it is at. Images of
a provider, official images and videos have executions of their own (`taskExecution.ts`);
the inputs of an image are fetched (`preparing`), then it is requested (`Ask`, without a
look at the version), perhaps polled, staged in the vault and uploaded. A task whose
result node is gone fails as soon as it is launched (`Refused`).  `Recovered` is what
`taskQueueSnapshot.ts` makes of a saved queue, `Switch` (to another project and back) and
`Reopen` (of a closed or dead page, with what the vault has by then) both go through it;
after `Switch` the old executions live on.  `SettledOutput` is what the source node shows
once a task has settled (`taskCanvasState.ts`).

### MigrationImport

`import` and `upload` are the rows; an upload has a status, the number of the object key
it was given last, whether a multipart upload is open, and what a commit did with it.
`objects` and `open` are in the storage.  A request of `completeUpload` is at
`assembling`, `checking` or `recording`, the three places between its transactions, at
`closing` or `adding` inside the last one, or `failing`.  That transaction locks the row
of its upload, counts the others in the snapshot of its next statement and commits what it
made of the count (`CountCompleted`, `Record`); meanwhile nobody else updates that row
(`Locked`), but rows of other uploads and the import may change.  `doomed` holds the
objects that a request or the cleaner has decided to delete and has not deleted yet; a
deletion comes late or never.  `lapsed` and `idle` are the two clocks, the life of an
import and the grace time of the cleaner.  Two history variables say that two completions
of one upload ran beside each other (`overlapped`) and that an upload was recorded after
the expiry (`revived`).

### MigrationExport

`status`, `asked` (a cancellation was requested), `retries` are the row, `archive` is the
object, and `execution[g]` is where a call of `processExport` is: reading the assets,
having stored the archive, withdrawing it, marking the row.  `RecoverExports` is what a
starting process does; it does not know whether an execution is alive (`overtaken`).
`FinishAnswerLost` is a COMMIT without an answer (`unsure`); `MarkThrows` is the row of a
canceled export that could not be written, or not for all the execution knows, after its
archive was deleted.

### AccountErasure and Accounts

A session is the login that made it.  `Verify`, `SignIn`, `CheckOthers`, `RevokeOthers`,
`House`, `RecordDevice`, `Answer` are the statements of `login` in their order; `Register`
makes the user and `SignUp` its first session, which joins after the revocation.  Changing
the password is the library's (`BeginChange`, `EndAll`, `RenewSession`): it ends all
sessions and inserts a new one, and removing a device is two statements (`EndRemoved`,
`ForgetDevice`).  The library looks neither at the status nor at other sessions when it
inserts one: those it inserted across another login's session, or for a user barred
meanwhile, are in `crossed`. `device` is `auth_devices`.  `DeleteUser` is the transaction
of `accountDeletionService`; its part about the workspace and the job is `BeginErasure`.
In `AccountErasure` a run claims the job, then lists the objects that rows name
(`ListFiles`; nothing puts the job back if that fails), deletes them one by one and
removes the rows; `ReleaseJob` takes a job back from a run of more than fifteen minutes.
`late` records that a login or a session check made a new personal workspace for a deleted
user.

## 3. Runs

| Run | Checks | Instance | Shows |
|---|---|---|---|
| `credits` | `LedgerProjection`, `CodesRedeemedOnce`, `BonusOnlyAtOpening` | two users, two codes of one batch, two keys, one adjustment of +1 or -2, bonus 0, 1 or 2 | no order of the account operations breaks the books |
| `official_races` | `TypeOK`, `ReservedIsHeld`, `SettledOnce`, `StatusMatchesBilling`, `ExclusiveExecution`, `ResultIsPaid`, `SettlementIsFinal`, `ImplementsHolds` | one user, two tasks, two executors, room for one result, crashes and lost COMMIT answers | one executor per task and one settlement, and the accounts keep the promise of `CreditHolds` |
| `official_recovery` | `CapturedHasResult`, `ClaimedSettles`, `QueuedIsTaken`, `RecoveryReleases` | one executor that may die, fair scheduling, no lost COMMIT answer | progress, and charged users have their image |
| `assets_claims` | `TypeOK`, `ReferencedReadable`, `CheckpointReadable`, `ImplementsRetention` | one asset, two projects, two checkpoints | what is named can be read, and the store implements `AssetRetention` |
| `assets_quota` | `PostReadable`, `QuotaKept` | two assets, quota of one, one project, one post | no race oversells the quota |
| `graph_sync` | `GraphTypeOK`, `EdgesAnchored`, `RebasedIsDisjoint`, `ConflictIsReal`, `BaselineExplained` | two tabs, one with two flows that may overlap and one with one, two nodes and an edge, batches of one, five acts, lost answers | saves from several tabs keep the graph sound, and conflicts honest where flows did not overlap |
| `queue` | `NewestWins`, `QueuedLeaves` | two of an image, an official image and a video, three results asked for, lanes of one, fair | the source node shows the newest result; nothing but executions at work keeps a task waiting in its lane |
| `queue_reload` | `RunningIsExecuted`, `NoRegeneration` | an image and an official image, two results asked for, one reopening or death of the page | what runs has exactly one execution; an image that has arrived is not requested again by what the reopened project starts |
| `imports` | `ReadyIsComplete`, `AdoptedIsStored`, `EndedIsFinal` | two assets, one in parts, two completions at a time whose last transactions interleave, two keys per upload | an import is ready only with everything; late requests and deletions change nothing that has ended |
| `exports` | `ArchiveIfCompleted`, `CancelHonoured`, `ExportEnds` | two executions, the three retries of the code, fair time and maintenance | archive and row agree, cancellation is honoured, every export ends |
| `accounts` | `OneAnswered`, `BarredLeavesNone`, `ErasedIsGone`, `ErasureCompletes` | two logins from two browsers, two runs, two objects | overlapping logins leave one session, a barred user none; erasure is complete |

One run ends in a counterexample, a sentence of the repository that the code does not
keep; `findings` in `PROJECT.json` quotes it.

| Run | Property | In short |
|---|---|---|
| `graph_lost_update` | `NoLostUpdate` | after catching up, a tab overwrites a change it has never loaded |

Some properties carry a condition, which names a case in which the code does lose what
the property promises; section 6 says how.

| Property | Except |
|---|---|
| `CapturedHasResult` | when the answer of a COMMIT is lost (`MayLoseCommit`) |
| `ReferencedReadable`, `CheckpointReadable`, `PostReadable` | objects whose cleaner died before it marked the row (`lost`) |
| `PostReadable`, `ImplementsRetention` | posts edited back too late (`revived`) |
| `QuotaKept` | assets of deleted projects that another project alone refers to |
| `ConflictIsReal`, `BaselineExplained` | tabs in which flows have overlapped since they were loaded (`overlapped`) |
| `NewestWins` | when a success at least as new has lost its result node |
| `RunningIsExecuted` | tasks removed while an execution works for them |
| `NoRegeneration` | executions of an earlier version that still fetched their inputs |
| `QueuedLeaves` | lanes full of executions at work, which may take for ever (`AtLimit`) |
| `AdoptedIsStored` | overlapping completions of one upload, uploads recorded after the expiry (`overlapped`, `revived`) |
| `ArchiveIfCompleted` | executions that recovery overtook, lost answers (`overtaken`, `unsure`) |
| `OneAnswered`, `BarredLeavesNone` | sessions the library inserted across another's or a ban (`crossed`); logins that broke off |

**Bounds, and why they are enough.**  Two executors, two tabs or two projects, because
every race in the code is between a statement of one actor and a transaction of
another; a third actor of the same kind has the same guards.  Two tasks of one user
share one account; two users share codes and nothing else, so the runs with tasks have
one.  `Capacity`, `Quota` and `Room` are as small as they can be while one request
fits or none does.  `MaxActs` bounds the edits, the
reloads and the starts of flows in `ProjectGraph`, not what a flow does: five are an edit
and a save of each tab and one more of either kind, six let both tabs save twice with two
edits between them.  `MaxTasks`, `MaxAsks` and
`MaxLoads` bound `GenerateQueue`: two tasks are what a lane of one and the order of
results need, a third request makes an older task settle last, and one reopening makes
executions of two versions meet (the kinds of the code never mix in one lane but for
the two kinds of images).  `MaxKeys` is two: an upload and its repetition under a new
key.  Two completions, two executions, two logins and two runs are one and one that
overlaps with it.  `BatchSize` is one in
`graph_sync`, so that each save of two changes is two transactions, and two in the
others.  Prices, amounts and the bonus are small numbers; no code depends on their
size other than by comparison.  Nothing else is bounded: tasks, codes, adjustments,
assets, posts and logins are used once by the code, and the state spaces are finite.

**Symmetry** is used over users, codes and keys, over workers, over assets, projects,
checkpoints and posts, over the two ends of the edge and the two flows of one tab, and over
the requests of an import, in runs that check safety only (invariants and step properties).

**Deadlock** is checked in `credits` and in the `official_*` runs.  The systems of the
others may stop: all projects are deleted and every asset collected, the bound on
user acts is reached and everything is saved or settled, an import or an export has
ended and been cleaned up, an account is erased.

**Fairness.**  `OfficialGeneration`: weak fairness of each executor's next step (an
interval timer calls `runOnce` every second; a step is a database, provider or
object-store call with an end), of starting processes and of time passing, and strong
fairness of claiming: the row of a queued task, locked for moments by others, is not
locked at every look of an executor.  Crashes, users and administrators get none.
`QueuedIsTaken` is about systems whose processes stay up from some time on (`<>[]AllUp`).
`GenerateQueue`: the runner launches (its effect runs after each change of the queue).
Nothing is assumed of executions: the polls of an official task have no time limit and its
requests none either (`taskExecution.ts:365`, `cloudApiClient.ts:54`), so `QueuedLeaves`
lets them fill a lane for ever. `MigrationExport`: time passes, and the maintenance, every
fifteen minutes in each process, comes around; executions get none, so an export ends even
if they all hang. `Accounts`: only the erasure has fairness: time passes, the command is
started again and again, a run goes on, and from some moment on runs neither fail nor take
more than fifteen minutes (the last is needed: `ReleaseJob` may take the job from a slow
run every time). The other modules are checked for safety only.

## 4. Proofs

The theorems are about any finite sets of users, tasks, codes and workers, any prices,
amounts and capacity, any tabs and save flows on any finite canvas, any assets, requests,
executions, logins, browsers and runs, under the named assumptions of the modules
(`TotalsTheorems` needs none; the `...Assumption` of each module says which constants are
finite, which are numbers, who owns a task, which browser a login comes from, and that a
project starts with a canvas whose edges have their nodes).

- `OfficialGenerationTheorems`, about `Credits`: `CreditsBalance`, balances are the sums
  of the ledger.  The induction needs that a fresh entry is not yet in the ledger: the
  unique reference of each type, and that an account which is not open has no entries and
  a zero balance (`FreshAccounts`).  `Post` and `CreditPosts` say what one balanced entry
  does to the sums; each action is then one use of them.  `BonusAtOpening`: the lines of
  the bonus belong to open accounts and no two to one (`BonusOnce`), and only an account
  that is not open yet gets one.  `CodeCreditsOnce`: the lines of a code are what its row
  tells (`CodesOnce`), so that redeeming it adds the only one, and the counter of a batch
  grows with the set of its redeemed codes.
- `OfficialGenerationTheorems`, about `OfficialGeneration`: `TypeCorrect`,
  `ReservedBacked`, `LedgerBalances`, `TaskSettledOnce`, `StatusConsistent`,
  `MutualExclusion`, `CompletedPaid`, `SettlementFinal`, `ResultDelivered`.
  `ReservedIsHeld` and `SettledOnce` are not inductive alone: that a release finds enough
  in `reserved` needs the sum over the tasks held, and that its entry is new (the code's
  `ON CONFLICT DO NOTHING` would hide a second one) needs the entries of the task to be
  exactly those its `billing` tells.  So one invariant `Inv` carries types, books, holds,
  entries, statuses and executors.  The proof first classifies each step by what it does
  to the accounts (quiet, granted, placed, captured, released: `StepKinds`), to the task
  rows (`StepRows`) and to the executors (`StepExecutors`), and then proves each part of
  `Inv` from the kind of the step alone.  `ResultDelivered` adds an invariant of the asset
  and object of a task that is being settled (`ResultStep`); it assumes that no COMMIT
  answer is lost. `AccountsHold`: the accounts refine `CreditHolds`, each kind of step is
  one abstract action or a stutter.
- `AssetTheorems`: `AssetTypes`, `CanvasReadable`, `CheckpointsRestorable`,
  `PostsHaveImages`, `QuotaNeverOversold`, `AssetsRetained`.  An asset is checked by one
  statement and claimed by a later one, and it is collected in three steps, so the
  invariant is about what happens in between: whatever is held, by a claim or by the `FOR
  SHARE` lock of an open canvas transaction, is completed and not in the hands of the
  cleaner (`ClaimInv`), and only the cleaner takes objects of completed assets away
  (`StoredInv`).  These need the states of confirmations and executors (`WorkInv`), of
  projects and checkpoints (`RowInv`), that what is named has a row (`KnownInv`) and that
  the cleaner works on old assets only (`CleanerInv`).  Readability is a corollary, and
  `AssetsRetained` follows action by action: claims are made on completed assets, and only
  `MarkDeleted` takes one away.  Posts keep their images as they hold their assets against
  the cleaner; one that was edited back is held if its asset was still completed and
  unlocked, which `revived` says of all but those.  `QuotaKept` is inductive beside it: the
  assets billed to the workspace and its living projects grow only by what a step has just
  found room for (`LivingGrows`), and the sum over them by no more (`TotalMonotone`,
  `TotalUnion`).
- `ProjectGraphTheorems`: `GraphTypes` (with the quota never negative),
  `EdgesHaveNodes`, `RebasesDisjoint`.  That a change is disjoint from everything it was
  carried over is decided in a tab, long before the server records it and from a log that
  goes on growing. The invariant follows the request: wherever it is (pending in a tab,
  held by a flow, on its way), every version between the one it was drafted on and its
  base is in the log and disjoint from it (`Sound`).  It needs that a pending request's
  base is the version its tab believes in, that a flow which catches up compares
  everything after its request's base, and that the head it read exists.  A step of a flow
  is first shown to be a `Moved`: it replaces the flow and perhaps its tab's state by good
  ones and sends only sound requests.  The server's only write appends a valid request
  whose base is the version of the log. `BaselinesExplained`, `ConflictsAreReal`, for any
  number of flows in a tab.  They say that a tab in which no flow has started beside
  another since it was loaded (with overlapping flows both fail, section 6) is never wrong
  about its own saves, although answers get lost, requests are repeated under one key and
  copies of them arrive after their author gave up.  Requests of earlier lives, in which
  flows may have overlapped, are told apart by `LifeInv`: none names a life that its tab
  has not begun.  `SoleInv` relates the tab to the log: after the version it believes in,
  nothing of its present life was recorded but, perhaps, its pending request (`Tracks`);
  any other request it ever sent is recorded already or has a base the log has passed
  (`Accounted`, `Spent`); the flow waits for just the pending request (`Follows`); and a
  reported conflict is witnessed by an entry that is not its own (`Warned`). Each version
  is the one before it changed by one entry (`LogChain`), which as an invariant of the log
  replaces an induction over it.
- `GenerateQueueTheorems`: `RunningTasksExecuted`, `NewestResultWins`,
  `ArrivedNotRequested`.  A step of an execution goes on, settles its task or is dropped
  (`StepKinds`); any other step leaves the executions alone, claims a batch, or shelves
  and opens (`NextKinds`).  `QueueInv` is then kept by kinds: a running task has one
  execution of the current version at work and other listed tasks have none, none
  acknowledges before its task is done, and none is of a version to come (`Executed`);
  dates are distinct (`AllDated`), because the claim takes tasks by date; and lanes keep
  their limits (`LanesKept`), for which the newest task of a batch counts those claimed
  before it (`ClaimsFit`).  `NoRegeneration` needs `Kept`, about images of direct
  providers: once the result arrived (the saved row says so, or an execution of any
  version holds it), the listed row is persisting, done or removed; and while an execution
  of the current version still asks the provider, the row is not persisting.  So neither a
  crash nor reopening puts a task whose result arrived back to the request; `Unstored` says
  the same of what the vault has, also for tasks that are no longer listed.  `NewestWins`
  needs the types and that a finite set of dates has a latest (`LargestRow`, from the
  library's well-foundedness of strict subsets of a finite set).
- `AccountsTheorems`: `OneGoodSession` from `SoleSession`: already from the statement that
  revokes the others on, not only once it has answered, a login's session is the only one
  of its kind; sessions before that statement do not count, and each login passes it.  A
  session that the library inserts across another's counts as `crossed` until it ends, and
  a registration under way is at few stages (`RegistrationStages`). `BarredHasNone` from
  `BarredPending`: a session of a user who is not active is crossed or belongs to a login
  that has yet to look at the status, because ban and deletion end all sessions and the
  look comes last.  `ErasedObjectsGone` from `ErasureInv`: what is left in the storage is
  on the list of every run, so whichever run completes has deleted all of it.
- `MigrationExportTheorems`: `StopsWhenAsked`, `ArchiveAccounted`.  The row alone lets
  executions in; as long as recovery overtakes nobody, one is at work and the row says
  so (`OneAtWork`), and therefore the archive is that of the row or of the execution
  (`Accounted`).
- `MigrationImportTheorems`: `ReadyHasAll`, `EndedStays`, `AdoptedStays`.  The first two
  come from the rows (`RowInv`: what a commit has taken is completed, and so is the
  import).  A completion that counted itself as the last one commits later; `Counted` says
  that the count is still true then, because no completed upload of an active import is
  undone and its own row is locked. The third is about deletions that are under way when
  the commit comes: an object that somebody is about to delete belongs to an upload that
  can no longer be committed with the key it has (`Lost`), which needs that an upload has
  one request at a time (`Single`) and that the cleaner finds no upload that is being
  completed (`ClockInv`).
- `TotalsTheorems`: what adding an element, changing one value, taking a larger set or a
  union does to a sum, from the definition of the fold.

What only TLC checks: the liveness properties (`ClaimedSettles`, `QueuedIsTaken`,
`RecoveryReleases`, `QueuedLeaves`, `ExportEnds`, `ErasureCompletes`), since liveness
under fairness and `ENABLED` are out of the prover's reach.  No module uses `RECURSIVE`;
nothing is proved by induction over data beyond what the library's theorems on finite sets
give.

## 5. What is not modelled

- Provider protocols, image conversion, encryption of request snapshots, prices per
  resolution: the executor sees success or failure.
- Node contents, parents and layout of a canvas; archiving while a tab saves; importing
  and restoring as writers of the log (a restore is in `AssetLifecycle` for its assets).
- Quarantined and site assets, orphan objects, changes of the quota, workspace members.
- Deadlocks inside the database: a transaction is a step or may abort.  The lock orders
  that can meet are listed as hazards.
- Codes sent by e-mail (registration, password reset), their attempts and limits; the
  rows of the authentication library; the hand-over of team workspaces on deletion.
- What is in a migration package, its validation, and how a replacing import rewrites a
  project; downloads of an archive.
- In the browser's queue: the contents of requests, telemetry, the texts of errors, and
  repeating a refused request with fresh input URLs.
- Configuration.  A publication is one transaction of one administrator: mail and object
  storage lock the current revision and compare the expected one, the site settings
  compare nothing.  There is nothing between two steps for a model to interleave.
- User interface, routes, deployment and pure I/O.

## 6. Observations

What the models, or reading for them, showed beyond the one finding.  Where a property has
a condition because of it, the property is named.

Official generation and assets
- Draining releases a task that another executor has just claimed, although
  `docs/DEVELOPMENT.md:335` says running tasks go on when the platform is disabled.
- Recovery runs when a process starts and finds claims of more than thirty minutes; a
  restart sooner than that leaves the task running until the next one.
- With `MayLoseCommit = TRUE`, `CapturedHasResult` fails: `persistSuccess` takes a lost
  COMMIT answer for a failure, deletes the object and fails the asset of a captured task.
- Deleting a project decides from a snapshot what leaves the quota; an asset that
  another project starts to use meanwhile may be referenced and not billed.  Two projects
  that drop their last references to one asset together both keep it billed.
- The answer of the COMMIT that inserts a result's asset can be lost as well: it leaves a
  pending asset that reserves quota and that nothing but the cleaner removes
  (`InsertAnswerLost`, `worker.ts:335`).
- Editing a rejected post brings it back although the cleaner may have collected its image
  (`PostReadable`, `revived`; `contentService.ts:456`).
- A cleaner that dies after it removed the object leaves a completed asset that can be
  named although it cannot be read, until a later pass (`lost`).
- After the quota is lowered below the usage, saving a node that keeps its asset can be
  refused; two projects that bring back the same released asset can deadlock in the
  database (`postgresAssetReferences.ts`), which aborts one of them.

Saving
- A request the server refuses for good stays pending, and every later save sends it
  first until the tab is reloaded (`cloudPlatform.ts:495`).
- Where flows of one tab overlap, `ConflictIsReal` fails: the checkpoint after an autosave
  may race the next autosave and tell a lone user that the project was updated elsewhere.
  `BaselineExplained` fails too (`overlapped`): an autosave and a manual save or
  checkpoint share the tab's state, and each keeps only itself from running twice
  (`useProjectStore.ts:504`, `ProjectBootstrap.tsx:214`).

Queue
- An execution that fetches the inputs of an image looks at no version before it posts the
  request.  After leaving and reopening the project, the task is launched again: both ask
  the provider, and the answer to the older one is dropped (`NoRegeneration` is about
  executions of the current version for this reason; `taskExecution.ts:1088`).
- Polling an official task has no time limit, nor have its requests: eight tasks that are
  never answered hold the lane of images for ever (`QueuedLeaves`, `AtLimit`).
- Reopening a project drops the remote id of a polled task that was being retried; its
  request is posted again (`taskQueueSnapshot.ts:222`).
- A successful image is marked as persisting before it is staged; when staging fails,
  retrying it finds nothing to upload.
- An acknowledgement that fails turns an official task that is done into an error.
- Removing a task waits for the vault; a task retried meanwhile is removed while an
  execution works for it (`RunningIsExecuted` is about listed tasks for this reason).
- A reload makes errors of running tasks without telling their source node.
- When the newest success has lost its result node, the source node shows whichever
  settles last, even over a newer success that has its node (`taskCanvasState.ts:98`);
  hence the condition of `NewestWins`.

Imports and exports
- Two overlapping completions of one upload can lose the object that a commit adopted:
  the one that fails deletes it (`AdoptedIsStored`, `overlapped`).
- Two last completions may each count the other's upload as unfinished, because each sees
  the rows of before the other's COMMIT: all uploads are complete and the import stays
  `uploading` until it expires, since a repeated completion finds nothing to do
  (`migrationAssetUploadService.ts:844`).
- An upload recorded after the expiry makes an expired import active again, and the commit
  does not look at `expires_at` (`revived`).
- An import without assets never becomes ready; a canceled upload can never be prepared
  again; the staged object of an asset that the commit found elsewhere is not deleted by it.
- The maintenance of staging objects marks no row as cleaned, so that a hundred old rows
  keep newer ones from being cleaned.
- The archive key is on completed rows only, and the maintenance of exports looks for it
  on others: a stale archive is never found.  The archive of an execution that dies
  between storing and completing is named by no row, and the erasure of the account does
  not find it either.
- Executions of one export share the key of the archive: one that recovery overtook can
  delete the archive of a completed export (`ArchiveIfCompleted`, `overtaken`).
- A lost COMMIT answer makes the execution delete the archive of a completed export
  (`unsure`).
- Completing and retrying an export do not look at `expires_at`.
- An upload that is completed when its import is canceled or expires stays completed and
  uncommitted: its bytes stay reserved in the quota for good (`usage.ts:198`), although
  the maintenance deletes its object.  A completion recorded after the expiry reserves
  its bytes again without looking at the quota, and the commit asserts the capacity for
  zero bytes (`postgresMigrationImportService.ts:977`).

Accounts
- Two logins without force that overlap are both refused; two with force may delete each
  other's session and both answer with success: at most one session is left, perhaps none.
- Changing the password ends all sessions and inserts a new one, in statements of their own
  and without a look at the status.  A login that comes between them leaves two sessions
  that were answered, a ban that comes between leaves a barred user with one (`crossed`).
  The first session of a registration may cross in the same way.
- A login that breaks off after the sign-in leaves a session that blocks other browsers.
  So does changing the password, whose new session no device is known for.
- Removing a device reads its row first and may delete the row of a browser that has
  logged in again meanwhile.
- A login or session check that overlaps with the deletion of its account makes a new
  personal workspace, which the erasure never removes (`late`).
- A slow run of the erasure that fails puts the job of the run that took over back to
  pending; it is done twice, which is harmless.

## 7. Plan

1. Credits, official generation, their abstract specification and proofs.  *Done.*
2. Assets with retention; the project graph with its saving client.  *Done: modelled,
   checked and proved, the client's baseline and conflicts where flows do not overlap.*
3. The browser's queue, imports, exports, accounts and erasure.  *Done: modelled, checked
   and proved.*
4. Left to prove: what still holds of a tab whose flows overlapped (which baselines an
   overlapping checkpoint can leave); refinements of an abstract queue and an abstract
   log, the safety halves of the liveness properties (an export that ends stays ended).
5. Left to model: an import's commit as a third writer of `ProjectGraph`'s log and as
   a source of assets in `AssetLifecycle`; the codes sent by e-mail with their attempts
   (a wrong guess and a right one at the same time); changes of the quota.
