---------------------------- MODULE GenerateQueue ----------------------------
(***************************************************************************)
(* The generation queue of one browser tab (apps/web, features/            *)
(* generateQueue and useTaskQueueStore).  The queue is a store that the    *)
(* runner, the executions and the user write; an execution is an async     *)
(* function, which others overtake at its awaits.  Opening a project       *)
(* replaces the store and starts a new runtime version; executions of      *)
(* earlier versions live on until they notice, unless the page was closed. *)
(* Images and videos have a lane each, and one source node each.           *)
(***************************************************************************)
EXTENDS Totals

CONSTANTS
    Tasks,      \* tasks that can be enqueued (their ids are UUIDs)
    Kind,       \* "image" or "video"
    Official,   \* image tasks that the platform runs
    Limit,      \* concurrency of a lane (8 images, 1 video)
    MaxTasks,   \* bound: tasks enqueued
    MaxAsks,    \* bound: enqueued tasks and retries that ask for a new result
    MaxLoads,   \* bound: times the project is opened again
    MayDie,     \* whether a page may die before its vault has the queue
    NoTask

Lanes == {"image", "video"}

ASSUME QueueAssumption ==
    /\ IsFiniteSet(Tasks) /\ NoTask \notin Tasks
    /\ Kind \in [Tasks -> Lanes]
    /\ Official \subseteq {t \in Tasks : Kind[t] = "image"}
    /\ Limit \in [Lanes -> Nat \ {0}]
    /\ MaxTasks \in Nat /\ MaxAsks \in Nat /\ MaxLoads \in Nat
    /\ MayDie \in BOOLEAN

VARIABLES
    task,       \* the store: status, phase, whether a remote id is known, createdAt
    version,    \* runtimeVersion
    runs,       \* executions: their task, the version they began in, where they are
    staged,     \* tasks whose result waits for its upload (memory and device vault)
    saved,      \* the queue in the device vault
    preview,    \* result node: none, empty or with an image
    output,     \* the task whose image the source node of the images shows
    removing,   \* removals and sweeps that wait for the vault
    asked       \* results the user has asked for, per task

storeVars  == <<task, version>>
canvasVars == <<preview, output>>
vars == <<storeVars, runs, staged, saved, canvasVars, removing, asked>>

Record(s, p, r, o) == [status |-> s, phase |-> p, remote |-> r, order |-> o]
Unborn  == Record("unborn", "none", FALSE, 0)
Removed == Record("removed", "none", FALSE, 0)

Statuses == {"queued", "running", "done", "error"}
Phases   == {"none", "requesting", "polling", "persisting"}
Listed(t) == task[t].status \in Statuses

\* A write to the store by id does nothing when the task is not listed.
Store(t, r) == task' = IF Listed(t) THEN [task EXCEPT ![t] = r] ELSE task
Phase(t, p) == [task[t] EXCEPT !.phase = p]
Finished(t, s, p) == [task[t] EXCEPT !.status = s, !.phase = p]

Image(t) == Kind[t] = "image"
Sweep == "sweep"       \* clearFinishedGenerateTasks, among the removals

\* Date.now() as createdAt: results asked for so far number the moments.
TotalAsked == Total(Tasks, asked)
Now == TotalAsked + 1

Init ==
    /\ task = [t \in Tasks |-> Unborn]
    /\ version = 0
    /\ runs = {}
    /\ staged = {}
    /\ saved = [t \in Tasks |-> Unborn]
    /\ preview = [t \in Tasks |-> "none"]
    /\ output = NoTask
    /\ removing = {}
    /\ asked = [t \in Tasks |-> 0]

-----------------------------------------------------------------------------
(* What the source node of the images shows *)

Active(q, t) == \E u \in Tasks : Kind[u] = Kind[t] /\ q[u].status \in {"queued", "running"}
Successes(q) == {u \in Tasks : Image(u) /\ q[u].status = "done"}
Newest(q) == CHOOSE u \in Successes(q) : \A v \in Successes(q) : q[v].order <= q[u].order

\* Fault: whoever settles last is shown.
SettledOutputAny(q, p, t, own) ==
    IF Active(q, t) \/ ~Image(t) \/ own = NoTask THEN output ELSE own

\* syncSourceNodeAfterTaskSettles for t, in the queue q with result nodes p; own is
\* the image that just settled, if there is one.
SettledOutput(q, p, t, own) ==
    IF Active(q, t) \/ ~Image(t) THEN output
    ELSE IF Successes(q) # {} /\ p[Newest(q)] = "image" THEN Newest(q)
    ELSE IF own # NoTask THEN own
    ELSE output

-----------------------------------------------------------------------------
(* The runner *)

Usage(lane) == Cardinality({t \in Tasks : Kind[t] = lane /\ task[t].status = "running"})
Ahead(t) == {u \in Tasks : Kind[u] = Kind[t] /\ task[u].status = "queued"
                              /\ task[u].order < task[t].order}
\* selectLaunchableTaskIds
Launchable == {t \in Tasks : /\ task[t].status = "queued"
                             /\ Usage(Kind[t]) + Cardinality(Ahead(t)) < Limit[Kind[t]]}

\* claimTask keeps a phase that is to be resumed, and forgets the remote task otherwise.
Claimed(r) ==
    IF r.phase \in {"persisting", "polling"} THEN [r EXCEPT !.status = "running"]
    ELSE [r EXCEPT !.status = "running", !.phase = "requesting", !.remote = FALSE]

\* Fault: a task whose result waits for its upload is requested again.
EntryAgain(t) ==
    CASE t \in Official -> "creating"
      [] t \notin Official /\ task[t].phase = "polling" /\ task[t].remote -> "polling"
      [] OTHER -> "preparing"

\* Where runGenerateTask first waits: a video's request leaves at once, an image's inputs
\* are resolved and downloaded before.
Entry(t) ==
    CASE t \in Official -> "creating"
      [] t \notin Official /\ task[t].phase = "polling" /\ task[t].remote -> "polling"
      [] t \notin Official /\ task[t].phase = "persisting" -> "loading"
      [] OTHER -> IF Image(t) THEN "preparing" ELSE "requesting"

\* getTaskRuntime finds the result node of a claimed task, or the task fails at once.
Begun == {t \in Launchable : preview[t] # "none"}
Refused(r) == [Claimed(r) EXCEPT !.status = "error"]

\* The effect of TaskQueueRunner: it claims what is launchable and starts it.
Launch ==
    LET lost == Launchable \ Begun
        q == [t \in Tasks |-> IF t \in Begun THEN Claimed(task[t])
                              ELSE IF t \in lost THEN Refused(task[t]) ELSE task[t]]
    IN  /\ Launchable # {}
        /\ task' = q
        /\ runs' = runs \cup {[task |-> t, version |-> version, at |-> Entry(t)] : t \in Begun}
        /\ output' = IF \E t \in lost : Image(t)
                     THEN SettledOutput(q, preview, CHOOSE t \in lost : Image(t), NoTask)
                     ELSE output
        /\ UNCHANGED <<version, staged, saved, preview, removing, asked>>

-----------------------------------------------------------------------------
(* Executions *)

Current(r) == r.version = version
End(r) == runs' = runs \ {r}
Goto(r, at) == runs' = (runs \ {r}) \cup {[r EXCEPT !.at = at]}

\* An execution of an earlier version returns at its next check.
Stale(r) ==
    /\ ~Current(r)
    /\ r.at \in {"requesting", "polling"}
    /\ End(r)
    /\ UNCHANGED <<storeVars, staged, saved, canvasVars, removing, asked>>

\* The inputs of an image are there, and its request leaves, whatever version is current.
Ask(r) ==
    /\ r.at = "preparing"
    /\ Goto(r, "requesting")
    /\ UNCHANGED <<storeVars, staged, saved, canvasVars, removing, asked>>

\* The provider answers a request with a result, or with the id of a remote task.
Answer(r) ==
    /\ r.at = "requesting" /\ Current(r)
    /\ \/ /\ Image(r.task)
          /\ Store(r.task, Phase(r.task, "persisting"))
          /\ Goto(r, "staging")
       \/ /\ Store(r.task, [task[r.task] EXCEPT !.remote = TRUE, !.phase = "polling"])
          /\ Goto(r, "polling")
    /\ UNCHANGED <<version, staged, saved, canvasVars, removing, asked>>

\* The remote task has a result: finalizeSuccessfulTask says so before it downloads;
\* finalizeSuccessfulVideoTask downloads and uploads in the polling phase.
Poll(r) ==
    /\ r.at = "polling" /\ r.task \notin Official /\ Current(r)
    /\ IF Image(r.task)
       THEN Store(r.task, Phase(r.task, "persisting")) /\ Goto(r, "staging")
       ELSE UNCHANGED task /\ Goto(r, "saving")
    /\ UNCHANGED <<version, staged, saved, canvasVars, removing, asked>>

\* stageGeneratedImageResult, whatever version is current.
Stage(r) ==
    /\ r.at = "staging"
    /\ staged' = staged \cup {r.task}
    /\ Store(r.task, Phase(r.task, "persisting"))
    /\ Goto(r, "saving")
    /\ UNCHANGED <<version, saved, canvasVars, removing, asked>>

\* loadStagedGeneratedImageResult finds the result of an earlier execution.
LoadStaged(r) ==
    /\ r.at = "loading" /\ r.task \in staged
    /\ Store(r.task, Phase(r.task, "persisting"))
    /\ Goto(r, "saving")
    /\ UNCHANGED <<version, staged, saved, canvasVars, removing, asked>>

\* The result is on the canvas, the task is done, its source node shows the newest.
Deliver(r, at) ==
    LET t == r.task
        p == IF preview[t] # "none" THEN [preview EXCEPT ![t] = "image"] ELSE preview
        q == IF Listed(t) THEN [task EXCEPT ![t] = Finished(t, "done", "none")] ELSE task
    IN  /\ task' = q
        /\ preview' = p
        /\ output' = IF at = "clearing" THEN output ELSE SettledOutput(q, p, t, t)
        /\ IF at = "end" THEN End(r) ELSE Goto(r, at)

\* The upload is done.  An image waits for its staged copy to go before the source
\* node is brought up to date.
Save(r) ==
    /\ r.at = "saving"
    /\ IF Current(r) THEN Deliver(r, IF Image(r.task) THEN "clearing" ELSE "end")
                     ELSE End(r) /\ UNCHANGED <<task, canvasVars>>
    /\ UNCHANGED <<version, staged, saved, removing, asked>>

ClearStaged(r) ==
    /\ r.at = "clearing"
    /\ staged' = staged \ {r.task}
    /\ output' = SettledOutput(task, preview, r.task, r.task)
    /\ End(r)
    /\ UNCHANGED <<storeVars, saved, preview, removing, asked>>

\* createOfficialImageTask is answered, or the task known already is fetched.  Nothing
\* checks the version before the answer is written to the store.
CreateOfficial(r) ==
    /\ r.at = "creating"
    /\ Store(r.task, [task[r.task] EXCEPT !.remote = TRUE, !.phase = "polling"])
    /\ Goto(r, "polling")
    /\ UNCHANGED <<version, staged, saved, canvasVars, removing, asked>>

\* The official task has succeeded (without a check of the version when the first
\* answer says so) ...
PollOfficial(r) ==
    /\ r.at = "polling" /\ r.task \in Official
    /\ Store(r.task, Phase(r.task, "persisting"))
    /\ Goto(r, "resolving")
    /\ UNCHANGED <<version, staged, saved, canvasVars, removing, asked>>

\* ... its asset is resolved and delivered, unless the version is another, and it is
\* acknowledged either way.
ResolveOfficial(r) ==
    /\ r.at = "resolving"
    /\ IF Current(r) THEN Deliver(r, "acknowledging")
                     ELSE Goto(r, "acknowledging") /\ UNCHANGED <<task, canvasVars>>
    /\ UNCHANGED <<version, staged, saved, removing, asked>>

Acknowledge(r) ==
    /\ r.at = "acknowledging"
    /\ End(r)
    /\ UNCHANGED <<storeVars, staged, saved, canvasVars, removing, asked>>

\* Fault: the failure of an upload does not settle the task.
FailSilently(r) ==
    /\ r.at # "clearing" /\ (r.at = "loading" => r.task \notin staged)
    /\ IF Current(r) /\ r.at # "saving"
            /\ Listed(r.task)
       THEN LET q == [task EXCEPT ![r.task] = Finished(r.task, "error", task[r.task].phase)]
            IN  task' = q /\ output' = SettledOutput(q, preview, r.task, NoTask)
       ELSE UNCHANGED <<task, output>>
    /\ End(r)
    /\ UNCHANGED <<version, staged, saved, preview, removing, asked>>

\* A request, download or upload fails, or there is nothing to load: the task is an
\* error, and one whose result was to be saved stays to be saved.
Fail(r) ==
    LET t == r.task
        phase == IF Image(t) /\ t \notin Official /\ r.at \in {"staging", "loading", "saving"}
                 THEN "persisting" ELSE task[t].phase
        q == [task EXCEPT ![t] = Finished(t, "error", phase)]
    IN  /\ r.at # "clearing"
        /\ r.at = "loading" => t \notin staged
        /\ IF Current(r) /\ Listed(t)
           THEN task' = q /\ output' = SettledOutput(q, preview, t, NoTask)
           ELSE UNCHANGED <<task, output>>
        /\ End(r)
        /\ UNCHANGED <<version, staged, saved, preview, removing, asked>>

Step(r) ==
    \/ Stale(r) \/ Ask(r) \/ Answer(r) \/ Poll(r)
    \/ Stage(r) \/ LoadStaged(r) \/ Save(r) \/ ClearStaged(r)
    \/ CreateOfficial(r) \/ PollOfficial(r) \/ ResolveOfficial(r) \/ Acknowledge(r)
    \/ Fail(r)

-----------------------------------------------------------------------------
(* The user *)

\* enqueueGenerateTask and its siblings make a result node and a queued task.
Enqueue(t) ==
    /\ task[t] = Unborn
    /\ Cardinality({u \in Tasks : task[u] # Unborn}) < MaxTasks
    /\ TotalAsked < MaxAsks
    /\ task' = [task EXCEPT ![t] = Record("queued", "none", FALSE, Now)]
    /\ preview' = [preview EXCEPT ![t] = "empty"]
    /\ asked' = [asked EXCEPT ![t] = @ + 1]
    /\ UNCHANGED <<version, runs, staged, saved, output, removing>>

\* retryGenerateTask: a result that was to be saved is saved again, a remote task is
\* polled again ...
RetryResumes(t) ==
    /\ task[t].status = "error"
    /\ \/ /\ Image(t) /\ task[t].phase = "persisting"
          /\ Store(t, Finished(t, "queued", "persisting"))
       \/ /\ ~(Image(t) /\ task[t].phase = "persisting")
          /\ task[t].remote
          /\ Store(t, Finished(t, "queued", "polling"))
    /\ UNCHANGED <<version, runs, staged, saved, canvasVars, removing, asked>>

\* ... and anything else, or a remote task whose provider has been configured anew, is
\* asked for again, with a result node of its own.
RetryAsks(t) ==
    /\ task[t].status = "error"
    /\ ~(Image(t) /\ task[t].phase = "persisting")
    /\ task[t].remote => t \notin Official
    /\ TotalAsked < MaxAsks
    /\ task' = [task EXCEPT ![t] = Record("queued", "none", FALSE, Now)]
    /\ preview' = [preview EXCEPT ![t] = "empty"]
    /\ asked' = [asked EXCEPT ![t] = @ + 1]
    /\ UNCHANGED <<version, runs, staged, saved, output, removing>>

\* cancelQueuedGenerateTask: a task no provider knows of, or an official one that the
\* server agrees to cancel.
Cancel(t) ==
    /\ \/ task[t].status = "queued" /\ task[t].phase = "none" /\ ~task[t].remote
       \/ task[t].status = "running" /\ task[t].phase = "polling" /\ task[t].remote
            /\ t \in Official
    /\ LET q == [task EXCEPT ![t] = Removed] IN
         /\ task' = q
         /\ output' = SettledOutput(q, preview, t, NoTask)
    /\ preview' = IF preview[t] = "empty" THEN [preview EXCEPT ![t] = "none"] ELSE preview
    /\ staged' = staged \ {t}
    /\ UNCHANGED <<version, runs, saved, removing, asked>>

Settled == {t \in Tasks : task[t].status \in {"done", "error"}}

\* removeGenerateTask deletes the staged result of an image, waits for the vault, then
\* removes the task whatever has become of it meanwhile.  Bound: one removal or sweep
\* waits at a time (removing = {}).
BeginRemove(t) ==
    /\ t \in Settled /\ Image(t) /\ removing = {}
    /\ removing' = removing \cup {t}
    /\ staged' = staged \ {t}
    /\ UNCHANGED <<storeVars, runs, saved, canvasVars, asked>>

EndRemove(t) ==
    /\ t \in removing \/ (t \in Settled /\ ~Image(t))
    /\ removing' = removing \ {t}
    /\ LET q == IF Listed(t) THEN [task EXCEPT ![t] = Removed] ELSE task IN
         /\ task' = q
         /\ output' = SettledOutput(q, preview, t, NoTask)
    /\ UNCHANGED <<version, runs, staged, saved, preview, asked>>

\* clearFinishedGenerateTasks looks again when the vault has answered.
BeginSweep ==
    /\ Settled # {} /\ removing = {}
    /\ removing' = removing \cup {Sweep}
    /\ staged' = staged \ Settled
    /\ UNCHANGED <<storeVars, runs, saved, canvasVars, asked>>

EndSweep ==
    /\ Sweep \in removing
    /\ removing' = removing \ {Sweep}
    /\ task' = [t \in Tasks |-> IF t \in Settled THEN Removed ELSE task[t]]
    /\ UNCHANGED <<version, runs, staged, saved, canvasVars, asked>>

DeletePreview(t) ==
    /\ preview[t] # "none"
    /\ preview' = [preview EXCEPT ![t] = "none"]
    /\ UNCHANGED <<storeVars, runs, staged, saved, output, removing, asked>>

-----------------------------------------------------------------------------
(* Saving the queue and opening the project again *)

\* Writes to the vault follow the store one after the other.  What is written after the
\* last opening within the bound is never read.
Persist ==
    /\ saved # task /\ version < MaxLoads
    /\ saved' = task
    /\ UNCHANGED <<storeVars, runs, staged, canvasVars, removing, asked>>

\* Fault: the queue is taken over as it was saved.
RecoveredAsIs(t, r) == r

\* recoverTaskAfterSnapshotLoad; "unborn" and "removed" are tasks it does not see.
Recovered(t, r) ==
    CASE Image(t) /\ r.phase = "persisting" /\ r.status \in {"queued", "running", "error"}
                                                   -> [r EXCEPT !.status = "queued"]
      [] ~(Image(t) /\ r.phase = "persisting") /\ r.status = "running"
                 -> IF r.remote THEN [r EXCEPT !.status = "queued", !.phase = "polling"]
                    ELSE [r EXCEPT !.status = "error", !.phase = "requesting"]
      [] ~(Image(t) /\ r.phase = "persisting") /\ r.status = "queued"
                 -> [r EXCEPT !.phase = "none", !.remote = FALSE]
      [] OTHER -> r

\* replaceSnapshot, then restoreTaskQueueAfterSnapshotLoad, which drops the tasks
\* whose result node is gone; what it does with running tasks never happens, since
\* none is running after the recovery.  The recovered queue is saved at once.
Open(queue) ==
    /\ version < MaxLoads
    /\ version' = version + 1
    /\ task' = [t \in Tasks |->
                  IF queue[t].status \in Statuses /\ preview[t] # "none" THEN Recovered(t, queue[t])
                  ELSE IF task[t] = Unborn THEN Unborn ELSE Removed]
    /\ saved' = task'
    /\ UNCHANGED <<staged, canvasVars, asked>>

\* To another project and back: the executions live on.
Switch ==
    /\ Open(task)
    /\ UNCHANGED <<runs, removing>>

\* The page is closed or dies, and is opened again on the same device.
Reopen ==
    /\ MayDie \/ (saved = task /\ Launchable = {})
    /\ runs' = {} /\ removing' = {}
    /\ Open(saved)

\* The runner's effect follows a change of the store before the user's next click, and
\* so does the write to the vault; a page that dies may die before either.
User ==
    /\ Launchable = {}
    /\ saved = task \/ version = MaxLoads
    /\ \/ \E t \in Tasks : \/ Enqueue(t) \/ RetryResumes(t) \/ RetryAsks(t) \/ Cancel(t)
                           \/ BeginRemove(t) \/ DeletePreview(t)
       \/ BeginSweep \/ Switch

Next ==
    \/ Launch
    \/ \E r \in runs : Step(r)
    \/ User
    \/ \E t \in Tasks : EndRemove(t)
    \/ EndSweep
    \/ Persist \/ Reopen

\* The effect runs after every change of the store.  Nothing is assumed of executions:
\* the requests of the platform's tasks have no time limit, nor has their polling.
Fairness == WF_vars(Launch)

Spec == Init /\ [][Next]_vars
FairSpec == Spec /\ Fairness
-----------------------------------------------------------------------------
(* Properties *)

\* The executions of this version that still have to settle t.
Working(t) == {r \in runs : r.task = t /\ Current(r) /\ r.at \notin {"clearing", "acknowledging"}}

\* What the store calls running is what is being worked on: a listed task that runs has
\* exactly one execution of the current version, others have none, and so the
\* executions of listed tasks keep to the limit of their lane.
RunningIsExecuted ==
    /\ \A t \in Tasks :
         Listed(t) => Cardinality(Working(t)) = IF task[t].status = "running" THEN 1 ELSE 0
    /\ \A lane \in Lanes :
         Cardinality({t \in Tasks : Kind[t] = lane /\ Listed(t) /\ Working(t) # {}}) <= Limit[lane]

\* An image whose result has arrived, as far as the device knows, is not requested from
\* its provider again, whether the page dies or the upload fails; unless by an execution
\* of an earlier version that was still fetching its inputs when the project was left.
NoRegeneration ==
    [][\A r \in runs' \ runs :
         r.at = "requesting" /\ Image(r.task) /\ Current(r)
         => ~(saved[r.task].phase = "persisting" /\ saved[r.task].status \in Statuses)]_vars

\* In whatever order tasks settle, fail, are canceled or removed, an older success does
\* not replace a newer one that is still listed; unless a success at least as new has
\* lost its result node, when the source node shows whichever settles.
NewestWins ==
    [][\A u \in Tasks : (/\ output = u /\ output' \in Tasks
                         /\ task[u].status = "done" /\ task'[u] = task[u]
                         /\ task'[output'].status = "done"
                         /\ \A v \in Successes(task') :
                              task'[v].order >= task[u].order => preview'[v] = "image")
                        => task'[output'].order >= task[u].order]_vars

\* The tasks of a lane that executions of this version work for fill it.
AtLimit(lane) ==
    Cardinality({u \in Tasks : Kind[u] = lane /\ Listed(u) /\ Working(u) # {}}) >= Limit[lane]

\* A queued task is launched or leaves the queue, unless executions at work fill its lane:
\* nothing else, no failure, removal or retry of another task, holds a place in it.
QueuedLeaves ==
    \A t \in Tasks : (task[t].status = "queued")
                       ~> (task[t].status # "queued" \/ AtLimit(Kind[t]))

=============================================================================
