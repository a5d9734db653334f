------------------------- MODULE OfficialGeneration -------------------------
(***************************************************************************)
(* Platform-managed image tasks (official-generation/service.ts) and the   *)
(* executors that run them (official-generation/worker.ts).  Every API     *)
(* process starts one executor; executors share the database and the       *)
(* object store and nothing else.  A database transaction is one step; the *)
(* steps of an executor between two transactions, a provider call or an    *)
(* object-store call are separate, and other executors, users and          *)
(* administrators act in between.                                          *)
(***************************************************************************)
EXTENDS Credits

CONSTANTS
    Owner,          \* the user whose client made the task's clientTaskId
    Prices,         \* prices an active model may ask at a resolution
    Workers,        \* API processes, each with one executor
    Capacity,       \* generated assets that fit the workspace quota
    DrainLimit,     \* LIMIT of the query that lists queued tasks (100 in code)
    NoTask,         \* an executor that has claimed nothing
    MayCrash,       \* whether processes may die (TRUE) or run forever
    MayLoseCommit   \* whether the answer to a COMMIT may be lost after the
                    \* database has committed

ASSUME OfficialAssumption ==
    /\ Owner \in [Tasks -> Users]
    /\ Prices \subseteq Nat \ {0}
    /\ IsFiniteSet(Workers)
    /\ Capacity \in Nat
    /\ DrainLimit \in Nat \ {0}
    /\ NoTask \notin Tasks
    /\ MayCrash \in BOOLEAN /\ MayLoseCommit \in BOOLEAN

VARIABLES
    platformEnabled,  \* officialGenerationEnabled of the site publication
    userEnabled,      \* user_feature_preferences
    submitting,       \* which switches a createTask call has found on, or "no" call
    status,           \* official_generation_tasks.status, "none" before insertion
    billing,          \* billing_status, "none" before insertion
    price,            \* price frozen at submission, 0 before insertion
    category,         \* failure_category
    timedOut,         \* tasks whose claimed_at is more than 30 minutes old
    acknowledged,     \* tasks with acknowledged_at
    asset,            \* status of the asset row made for the task's result
    objects,          \* tasks whose result object is in the object store
    pc,               \* where the executor of a process is
    job,              \* the task the executor has claimed
    todo              \* tasks the executor listed and has yet to release

settingVars == <<platformEnabled, userEnabled>>
taskVars    == <<status, billing, price, category, timedOut, acknowledged>>
storeVars   == <<asset, objects>>
workerVars  == <<pc, job, todo>>
vars == <<creditVars, settingVars, submitting, taskVars, storeVars, workerVars>>

Generating == {"generating", "reserving", "uploading", "settling"}
CleaningUp == {"removing", "discarding"}
Working    == Generating \cup CleaningUp \cup {"releasing"}
Listing    == {"recovering", "draining"}

Init ==
    /\ CreditsInit
    /\ platformEnabled = FALSE
    /\ userEnabled = [u \in Users |-> FALSE]
    /\ submitting = [t \in Tasks |-> "no"]
    /\ status = [t \in Tasks |-> "none"]
    /\ billing = [t \in Tasks |-> "none"]
    /\ price = [t \in Tasks |-> 0]
    /\ category = [t \in Tasks |-> "none"]
    /\ timedOut = {}
    /\ acknowledged = {}
    /\ asset = [t \in Tasks |-> "none"]
    /\ objects = {}
    /\ pc = [w \in Workers |-> "stopped"]
    /\ job = [w \in Workers |-> NoTask]
    /\ todo = [w \in Workers |-> {}]

-----------------------------------------------------------------------------
(* Users and administrators *)

\* A site configuration publication switches the whole feature.
PublishPlatform(on) ==
    /\ platformEnabled # on
    /\ platformEnabled' = on
    /\ UNCHANGED <<creditVars, userEnabled, submitting, taskVars, storeVars, workerVars>>

\* updatePreferences: switching on needs the platform, switching off does not.
UpdatePreferences(u, on) ==
    /\ joined[u] # "no"
    /\ on => platformEnabled
    /\ userEnabled[u] # on
    /\ userEnabled' = [userEnabled EXCEPT ![u] = on]
    /\ UNCHANGED <<creditVars, platformEnabled, submitting, taskVars, storeVars, workerVars>>

\* createTask reads two switches in two concurrent queries that lock nothing, so
\* the platform may be off again when the user's is read ...
BeginCreateTask(t) ==
    /\ joined[Owner[t]] # "no"
    /\ submitting[t] = "no"
    /\ platformEnabled
    /\ submitting' = [submitting EXCEPT ![t] = "platform_on"]
    /\ UNCHANGED <<creditVars, settingVars, taskVars, storeVars, workerVars>>

\* (The other order admits nothing more: a user switches on only while the
\* platform is on, and the transaction may follow the reads at any distance.)
ReadPreference(t) ==
    /\ submitting[t] = "platform_on"
    /\ userEnabled[Owner[t]]
    /\ submitting' = [submitting EXCEPT ![t] = "both_on"]
    /\ UNCHANGED <<creditVars, settingVars, taskVars, storeVars, workerVars>>

\* Fault: a repeated submission is not recognised.
CreateTaskAgain(t, p) ==
    /\ submitting[t] = "both_on"
    /\ Reserve(Owner[t], t, p)
    /\ submitting' = [submitting EXCEPT ![t] = "no"]
    /\ status' = [status EXCEPT ![t] = "queued"]
    /\ billing' = [billing EXCEPT ![t] = "reserved"]
    /\ price' = [price EXCEPT ![t] = p]
    /\ UNCHANGED <<grantVars, settingVars, category, timedOut, acknowledged, storeVars, workerVars>>

\* ... then, both being on and holding the account lock, finds no task of this client id or
\* idempotency key, debits the account and inserts the task.
CreateTask(t, p) ==
    /\ submitting[t] = "both_on"
    /\ status[t] = "none"
    /\ Reserve(Owner[t], t, p)
    /\ submitting' = [submitting EXCEPT ![t] = "no"]
    /\ status' = [status EXCEPT ![t] = "queued"]
    /\ billing' = [billing EXCEPT ![t] = "reserved"]
    /\ price' = [price EXCEPT ![t] = p]
    /\ UNCHANGED <<grantVars, settingVars, category, timedOut, acknowledged, storeVars, workerVars>>

\* A switch is off, the task exists already (a repeated submission is answered with it), or the
\* project, model, input assets or balance are refused, or the connection is
\* lost: the transaction leaves no trace.
EndSubmission(t) ==
    /\ submitting[t] # "no"
    /\ submitting' = [submitting EXCEPT ![t] = "no"]
    /\ UNCHANGED <<creditVars, settingVars, taskVars, storeVars, workerVars>>

\* cancelTask: queued tasks only.
CancelTask(t) ==
    /\ status[t] = "queued"
    /\ ~HasEntry(Owner[t], "generation_release", t)
    /\ status' = [status EXCEPT ![t] = "canceled"]
    /\ billing' = [billing EXCEPT ![t] = "released"]
    /\ Release(Owner[t], t, price[t])
    /\ UNCHANGED <<grantVars, settingVars, submitting, price, category, timedOut, acknowledged,
                   storeVars, workerVars>>

\* acknowledgeTask: the client has put the result into a project.
AcknowledgeTask(t) ==
    /\ status[t] = "succeeded"
    /\ t \notin acknowledged
    /\ acknowledged' = acknowledged \cup {t}
    /\ UNCHANGED <<creditVars, settingVars, submitting, status, billing, price, category, timedOut,
                   storeVars, workerVars>>

-----------------------------------------------------------------------------
(* The executor *)

\* Fault: releaseTask does not look at billing_status.
ReleaseTaskAgain(t, why) ==
    /\ status' = [status EXCEPT ![t] = "failed"]
    /\ billing' = [billing EXCEPT ![t] = "released"]
    /\ category' = [category EXCEPT ![t] = why]
    /\ Release(Owner[t], t, price[t])
    /\ UNCHANGED <<price, timedOut, acknowledged>>

\* releaseTask: a task whose billing is settled, or is gone, is left alone.
ReleaseTask(t, why) ==
    IF billing[t] = "reserved"
    THEN /\ status' = [status EXCEPT ![t] = "failed"]
         /\ billing' = [billing EXCEPT ![t] = "released"]
         /\ category' = [category EXCEPT ![t] = why]
         /\ Release(Owner[t], t, price[t])
         /\ UNCHANGED <<price, timedOut, acknowledged>>
    ELSE UNCHANGED <<taskVars, accountVars>>

Goto(w, label) == pc' = [pc EXCEPT ![w] = label]

\* start(): recoverInterrupted lists the tasks whose claim has timed out.
StartWorker(w) ==
    /\ pc[w] = "stopped"
    /\ Goto(w, "recovering")
    /\ todo' = [todo EXCEPT ![w] = {t \in timedOut : status[t] = "running"}]
    /\ UNCHANGED <<creditVars, settingVars, submitting, taskVars, storeVars, job>>

\* Fault: recovery expects the listed task to be queued, as draining does.
ReleaseListedQueued(w, t) ==
    /\ pc[w] \in Listing
    /\ t \in todo[w]
    /\ IF status[t] = "queued"
       THEN ReleaseTask(t, "configuration")
       ELSE UNCHANGED <<taskVars, accountVars>>
    /\ todo' = [todo EXCEPT ![w] = @ \ {t}]
    /\ UNCHANGED <<grantVars, settingVars, submitting, storeVars, pc, job>>

\* Both loops over listed tasks: one releaseTask transaction per task, some time
\* after the query that listed it.
ReleaseListed(w, t) ==
    /\ pc[w] \in Listing
    /\ t \in todo[w]
    /\ ReleaseTask(t, IF pc[w] = "recovering" THEN "worker_interrupted" ELSE "configuration")
    /\ todo' = [todo EXCEPT ![w] = @ \ {t}]
    /\ UNCHANGED <<grantVars, settingVars, submitting, storeVars, pc, job>>

FinishListed(w) ==
    /\ pc[w] \in Listing
    /\ todo[w] = {}
    /\ Goto(w, "idle")
    /\ UNCHANGED <<creditVars, settingVars, submitting, taskVars, storeVars, job, todo>>

Queued == {t \in Tasks : status[t] = "queued"}

\* runOnce, first statement, platform enabled: go on to claim.
SeeEnabled(w) ==
    /\ pc[w] = "idle"
    /\ platformEnabled
    /\ Goto(w, "claiming")
    /\ UNCHANGED <<creditVars, settingVars, submitting, taskVars, storeVars, job, todo>>

\* Fault: a disabled platform only stops claiming.
SeeDisabledWaits(w) ==
    /\ pc[w] = "idle"
    /\ ~platformEnabled
    /\ Goto(w, "draining")
    /\ UNCHANGED <<creditVars, settingVars, submitting, taskVars, storeVars, job, todo>>

\* Platform disabled: list at most DrainLimit queued tasks to release.
SeeDisabled(w) ==
    /\ pc[w] = "idle"
    /\ ~platformEnabled
    /\ \E listed \in SUBSET Queued :
         /\ \/ Cardinality(listed) = DrainLimit
            \/ listed = Queued /\ Cardinality(listed) < DrainLimit
         /\ todo' = [todo EXCEPT ![w] = listed]
    /\ Goto(w, "draining")
    /\ UNCHANGED <<creditVars, settingVars, submitting, taskVars, storeVars, job>>

\* Fault: the claim does not see what others committed since it listed the row.
ClaimTaskStale(w, t) ==
    /\ pc[w] = "claiming"
    /\ status[t] \in {"queued", "running", "canceled"}
    /\ status' = [status EXCEPT ![t] = "running"]
    /\ job' = [job EXCEPT ![w] = t]
    /\ Goto(w, "generating")
    /\ UNCHANGED <<creditVars, settingVars, submitting, billing, price, category, timedOut,
                   acknowledged, storeVars, todo>>

\* claim: the oldest queued row no other transaction has locked (SKIP LOCKED),
\* so any queued task may be the one.
ClaimTask(w, t) ==
    /\ pc[w] = "claiming"
    /\ status[t] = "queued"
    /\ status' = [status EXCEPT ![t] = "running"]
    /\ job' = [job EXCEPT ![w] = t]
    /\ Goto(w, "generating")
    /\ UNCHANGED <<creditVars, settingVars, submitting, billing, price, category, timedOut,
                   acknowledged, storeVars, todo>>

\* No task is queued, or SKIP LOCKED passes over those another transaction has
\* locked just now.
NothingToClaim(w) ==
    /\ pc[w] = "claiming"
    /\ Goto(w, "idle")
    /\ UNCHANGED <<creditVars, settingVars, submitting, taskVars, storeVars, job, todo>>

\* executeProvider loads the inputs, calls the provider, returns an image.
ProviderAnswers(w) ==
    /\ pc[w] = "generating"
    /\ Goto(w, "reserving")
    /\ UNCHANGED <<creditVars, settingVars, submitting, taskVars, storeVars, job, todo>>

\* Inputs gone, provider refusal or timeout, or not an image.
ProviderFails(w) ==
    /\ pc[w] = "generating"
    /\ Goto(w, "releasing")
    /\ UNCHANGED <<creditVars, settingVars, submitting, taskVars, storeVars, job, todo>>

QuotaUsed == Cardinality({t \in Tasks : asset[t] \in {"pending", "completed"}})

\* Fault: the asset row is inserted as completed.
InsertAssetCompleted(w) ==
    /\ pc[w] = "reserving"
    /\ QuotaUsed < Capacity
    /\ asset' = [asset EXCEPT ![job[w]] = "completed"]
    /\ Goto(w, "uploading")
    /\ UNCHANGED <<creditVars, settingVars, submitting, taskVars, objects, job, todo>>

\* persistSuccess, first transaction: under the workspace quota lock, insert the
\* pending asset.
InsertAsset(w) ==
    /\ pc[w] = "reserving"
    /\ QuotaUsed < Capacity
    /\ asset' = [asset EXCEPT ![job[w]] = "pending"]
    /\ Goto(w, "uploading")
    /\ UNCHANGED <<creditVars, settingVars, submitting, taskVars, objects, job, todo>>

\* The quota refuses the result (assertWorkspaceStorageCapacity), or the
\* transaction fails and is rolled back.
InsertFails(w) ==
    /\ pc[w] = "reserving"
    /\ Goto(w, "releasing")
    /\ UNCHANGED <<creditVars, settingVars, submitting, taskVars, storeVars, job, todo>>

\* The transaction commits and its answer is lost.  It stands outside the try that
\* cleans up, so the pending asset row stays.
InsertAnswerLost(w) ==
    /\ MayLoseCommit
    /\ pc[w] = "reserving"
    /\ QuotaUsed < Capacity
    /\ asset' = [asset EXCEPT ![job[w]] = "pending"]
    /\ Goto(w, "releasing")
    /\ UNCHANGED <<creditVars, settingVars, submitting, taskVars, objects, job, todo>>

PutObject(w) ==
    /\ pc[w] = "uploading"
    /\ objects' = objects \cup {job[w]}
    /\ Goto(w, "settling")
    /\ UNCHANGED <<creditVars, settingVars, submitting, taskVars, asset, job, todo>>

\* Fault: the error of putObject is ignored.
PutFailsUnnoticed(w) ==
    /\ pc[w] = "uploading"
    /\ objects' \in {objects, objects \cup {job[w]}}
    /\ Goto(w, "settling")
    /\ UNCHANGED <<creditVars, settingVars, submitting, taskVars, asset, job, todo>>

\* putObject reports an error; the object may have been stored all the same.
PutFails(w) ==
    /\ pc[w] = "uploading"
    /\ objects' \in {objects, objects \cup {job[w]}}
    /\ Goto(w, "removing")
    /\ UNCHANGED <<creditVars, settingVars, submitting, taskVars, asset, job, todo>>

\* persistSuccess, second transaction: the task must still be reserved.
CommitSuccess(t) ==
    /\ billing[t] = "reserved"
    /\ asset' = [asset EXCEPT ![t] = "completed"]
    /\ status' = [status EXCEPT ![t] = "succeeded"]
    /\ billing' = [billing EXCEPT ![t] = "captured"]
    /\ Capture(Owner[t], t, price[t])
    /\ UNCHANGED <<price, category, timedOut, acknowledged>>

SettleTask(w) ==
    /\ pc[w] = "settling"
    /\ CommitSuccess(job[w])
    /\ Goto(w, "idle")
    /\ job' = [job EXCEPT ![w] = NoTask]
    /\ UNCHANGED <<grantVars, settingVars, submitting, objects, todo>>

\* "Official task was already settled", or the transaction fails and is rolled
\* back: the result is thrown away.
SettleFails(w) ==
    /\ pc[w] = "settling"
    /\ Goto(w, "removing")
    /\ UNCHANGED <<creditVars, settingVars, submitting, taskVars, storeVars, job, todo>>

\* The database commits, the executor is told the connection broke.
SettleAnswerLost(w) ==
    /\ MayLoseCommit
    /\ pc[w] = "settling"
    /\ CommitSuccess(job[w])
    /\ Goto(w, "removing")
    /\ UNCHANGED <<grantVars, settingVars, submitting, objects, job, todo>>

\* The catch block: delete the object, then mark the asset; either may fail and
\* the error is swallowed.
RemoveObject(w) ==
    /\ pc[w] = "removing"
    /\ objects' \in {objects, objects \ {job[w]}}
    /\ Goto(w, "discarding")
    /\ UNCHANGED <<creditVars, settingVars, submitting, taskVars, asset, job, todo>>

DiscardAsset(w) ==
    /\ pc[w] = "discarding"
    /\ asset' \in {asset, [asset EXCEPT ![job[w]] = "failed"]}
    /\ Goto(w, "releasing")
    /\ UNCHANGED <<creditVars, settingVars, submitting, taskVars, objects, job, todo>>

\* Fault: the error is swallowed, the task is not released.
ReleaseForgotten(w) ==
    /\ pc[w] = "releasing"
    /\ Goto(w, "idle")
    /\ job' = [job EXCEPT ![w] = NoTask]
    /\ UNCHANGED <<creditVars, settingVars, submitting, taskVars, storeVars, todo>>

\* The catch of runOnce.
ReleaseClaimed(w) ==
    /\ pc[w] = "releasing"
    /\ ReleaseTask(job[w], "upstream")
    /\ Goto(w, "idle")
    /\ job' = [job EXCEPT ![w] = NoTask]
    /\ UNCHANGED <<grantVars, settingVars, submitting, storeVars, todo>>

\* The process dies or is redeployed.  A database error in runOnce outside its
\* inner try, such as a failing releaseTask, ends here too: nothing handles the
\* rejection of void runOnce().
Crash(w) ==
    /\ MayCrash
    /\ pc[w] # "stopped"
    /\ Goto(w, "stopped")
    /\ job' = [job EXCEPT ![w] = NoTask]
    /\ todo' = [todo EXCEPT ![w] = {}]
    /\ UNCHANGED <<creditVars, settingVars, submitting, taskVars, storeVars>>

\* Thirty minutes pass since claimed_at; an executor may still be at work, the
\* object-store calls have no time limit.
ClaimTimesOut(t) ==
    /\ status[t] = "running"
    /\ t \notin timedOut
    /\ timedOut' = timedOut \cup {t}
    /\ UNCHANGED <<creditVars, settingVars, submitting, status, billing, price, category,
                   acknowledged, storeVars, workerVars>>

-----------------------------------------------------------------------------

OuterVars == <<settingVars, submitting, taskVars, storeVars, workerVars>>

UserStep ==
    \/ CreditsNext /\ UNCHANGED OuterVars
    \/ \E on \in BOOLEAN : PublishPlatform(on)
    \/ \E u \in Users, on \in BOOLEAN : UpdatePreferences(u, on)
    \/ \E t \in Tasks : BeginCreateTask(t) \/ ReadPreference(t) \/ EndSubmission(t)
    \/ \E t \in Tasks, p \in Prices : CreateTask(t, p)
    \/ \E t \in Tasks : CancelTask(t) \/ AcknowledgeTask(t)

\* What the timer of a running process drives.
WorkerStep(w) ==
    \/ \E t \in Tasks : ReleaseListed(w, t) \/ ClaimTask(w, t)
    \/ FinishListed(w) \/ SeeEnabled(w) \/ SeeDisabled(w) \/ NothingToClaim(w)
    \/ ProviderAnswers(w) \/ ProviderFails(w)
    \/ InsertAsset(w) \/ InsertFails(w) \/ InsertAnswerLost(w) \/ PutObject(w) \/ PutFails(w)
    \/ SettleTask(w) \/ SettleFails(w) \/ SettleAnswerLost(w)
    \/ RemoveObject(w) \/ DiscardAsset(w) \/ ReleaseClaimed(w)

Next ==
    \/ UserStep
    \/ \E w \in Workers : WorkerStep(w) \/ StartWorker(w) \/ Crash(w)
    \/ \E t \in Tasks : ClaimTimesOut(t)

Spec == Init /\ [][Next]_vars

\* Processes are started, their timers fire, and time passes.  A queued row is
\* not locked by another transaction each time an executor looks.
Fairness ==
    /\ \A w \in Workers : WF_vars(WorkerStep(w)) /\ WF_vars(StartWorker(w))
    /\ \A w \in Workers : SF_vars(\E t \in Tasks : ClaimTask(w, t))
    /\ \A t \in Tasks : WF_vars(ClaimTimesOut(t))

FairSpec == Spec /\ Fairness
-----------------------------------------------------------------------------
(* Properties *)

Labels == Working \cup Listing \cup {"stopped", "idle", "claiming"}

TypeOK ==
    /\ CreditsTypeOK
    /\ platformEnabled \in BOOLEAN
    /\ userEnabled \in [Users -> BOOLEAN]
    /\ submitting \in [Tasks -> {"no", "platform_on", "both_on"}]
    /\ status \in [Tasks -> {"none", "queued", "running", "succeeded", "failed", "canceled"}]
    /\ billing \in [Tasks -> {"none", "reserved", "captured", "released"}]
    /\ price \in [Tasks -> Nat]
    /\ category \in [Tasks -> {"none", "upstream", "configuration", "worker_interrupted"}]
    /\ timedOut \subseteq Tasks /\ acknowledged \subseteq Tasks
    /\ asset \in [Tasks -> {"none", "pending", "completed", "failed"}]
    /\ objects \subseteq Tasks
    /\ pc \in [Workers -> Labels]
    /\ job \in [Workers -> Tasks \cup {NoTask}]
    /\ todo \in [Workers -> SUBSET Tasks]

\* The tasks whose price sits in the reserved balance of u.
Held(u) == {t \in Tasks : Owner[t] = u /\ billing[t] = "reserved"}

\* The reserved balance of an account is the sum of the prices of its unsettled
\* tasks, whatever cancels, captures and releases race for them.
ReservedIsHeld == \A u \in Users : reserved[u] = Total(Held(u), price)

\* The ledger tells the story of a task: one reservation when it was inserted,
\* then one capture or one release, for the frozen price and for its owner.
ReserveEntry(t) == Entry(Owner[t], "generation_reserve", t, -price[t], price[t])
CaptureEntry(t) == Entry(Owner[t], "generation_capture", t, 0, -price[t])
ReleaseEntry(t) == Entry(Owner[t], "generation_release", t, price[t], -price[t])

TaskEntries(t) ==
    CASE billing[t] = "none"     -> {}
      [] billing[t] = "reserved" -> {ReserveEntry(t)}
      [] billing[t] = "captured" -> {ReserveEntry(t), CaptureEntry(t)}
      [] billing[t] = "released" -> {ReserveEntry(t), ReleaseEntry(t)}

GenerationTypes == {"generation_reserve", "generation_capture", "generation_release"}

SettledOnce ==
    \A t \in Tasks :
        {e \in ledger : e.ref = t /\ e.type \in GenerationTypes} = TaskEntries(t)

\* The two status columns of a task never contradict each other, although
\* releaseTask and persistSuccess look at billing_status only and claim and
\* cancelTask at status only.
StatusMatchesBilling ==
    \A t \in Tasks :
        /\ status[t] = "none" <=> billing[t] = "none"
        /\ status[t] \in {"queued", "running"} <=> billing[t] = "reserved"
        /\ status[t] = "succeeded" <=> billing[t] = "captured"

\* Two executors never work for the same task, so the provider is asked for it
\* at most once at a time.
ExclusiveExecution ==
    \A v, w \in Workers : job[v] = job[w] /\ job[v] # NoTask => v = w

\* A user who is charged has the image: "reserved credits are deducted once the
\* asset has been stored".
CapturedHasResult ==
    \A t \in Tasks : billing[t] = "captured" => asset[t] = "completed" /\ t \in objects

\* A completed result asset belongs to a task that was paid for, however the
\* executor that made it was interrupted.
ResultIsPaid == \A t \in Tasks : asset[t] = "completed" => billing[t] = "captured"

\* A settled task is never settled again, reopened or priced anew.
SettlementIsFinal ==
    [][\A t \in Tasks : billing[t] \in {"captured", "released"} =>
          billing'[t] = billing[t] /\ status'[t] = status[t] /\ price'[t] = price[t]]_vars

\* An executor settles what it claimed, whatever the provider and the object
\* store answer, unless its process dies.
ClaimedSettles ==
    \A w \in Workers, t \in Tasks :
        job[w] = t ~> billing[t] # "reserved" \/ pc[w] = "stopped"

\* Once processes no longer die, each queued task is claimed, canceled or
\* released, also when the platform is switched off and on meanwhile.
AllUp == \A w \in Workers : pc[w] # "stopped"
QueuedIsTaken ==
    <>[]AllUp => \A t \in Tasks : status[t] = "queued" ~> status[t] # "queued"

\* What a starting process listed for recovery is settled, or it dies first.
RecoveryReleases ==
    \A w \in Workers, t \in Tasks :
        pc[w] = "recovering" /\ t \in todo[w] ~>
            billing[t] # "reserved" \/ pc[w] = "stopped"

-----------------------------------------------------------------------------
(* What accounts promise: CreditHolds *)

HoldState == [none |-> "none", reserved |-> "held", captured |-> "kept", released |-> "returned"]

Holds == INSTANCE CreditHolds
    WITH balance <- available,
         hold <- [t \in Tasks |-> [state |-> HoldState[billing[t]], amount |-> price[t]]]

ImplementsHolds == Holds!Spec
=============================================================================
