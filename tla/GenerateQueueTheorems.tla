----------------------- MODULE GenerateQueueTheorems -----------------------
(***************************************************************************)
(* What holds of the browser's generation queue for any tasks, limits and  *)
(* numbers of reloads: the typed executions are those of claimed tasks, a  *)
(* running task always has one, what arrived is not asked for again, and   *)
(* the source node shows the newest result.                                *)
(*                                                                         *)
(* A step of an execution is one of three kinds (StepKinds) and any other  *)
(* step leaves the executions alone, claims a batch, shelves the open      *)
(* tasks or opens the stored ones (NextKinds).  The invariants are kept by *)
(* kinds, so that each case is about what a step does to the executions    *)
(* and not about which await it left.                                      *)
(***************************************************************************)
EXTENDS GenerateQueue, TotalsTheorems, WellFoundedInduction

\* What the store holds of a task, where an execution can be, and the types.
Rows == [status : Statuses \cup {"unborn", "removed"}, phase : Phases,
         remote : BOOLEAN, order : Nat]
Places == {"preparing", "requesting", "polling", "staging", "loading", "saving", "clearing",
           "creating", "resolving", "acknowledging"}
Executions == [task : Tasks, version : Nat, at : Places]

QueueTypeOK ==
    /\ task \in [Tasks -> Rows] /\ saved \in [Tasks -> Rows]
    /\ version \in Nat
    /\ runs \subseteq Executions
    /\ preview \in [Tasks -> {"none", "empty", "image"}]
    /\ output \in {t \in Tasks : Image(t)} \cup {NoTask}
    /\ asked \in [Tasks -> Nat]

\* A nonempty finite set of rows has one with the largest number.
LEMMA LargestRow ==
    ASSUME NEW S, IsFiniteSet(S), S # {}, NEW f, \A x \in S : f[x] \in Int
    PROVE  \E m \in S : \A x \in S : f[x] <= f[m]
<1> DEFINE above(x) == {y \in S : f[y] > f[x]}
           T == {above(x) : x \in S}
<1>1. T \subseteq SUBSET S /\ T # {}
  OBVIOUS
<1>2. IsWellFoundedOn(StrictSubsetOrdering(S), SUBSET S)
  BY FS_StrictSubsetOrderingWellFounded, FS_FiniteSubsetsOfFinite
<1>3. PICK M \in T : \A U \in T : ~(<<U, M>> \in StrictSubsetOrdering(S))
  <2> HIDE DEF T
  <2> QED
    BY <1>1, <1>2, WFMin
<1>4. PICK m \in S : M = above(m)
  OBVIOUS
<1>5. ASSUME NEW x \in S, ~(f[x] <= f[m])
      PROVE  FALSE
  <2>1. f[x] > f[m]
    BY <1>5
  <2>2. above(x) \subseteq above(m) /\ x \in above(m) /\ x \notin above(x)
    BY <2>1
  <2>3. <<above(x), above(m)>> \in StrictSubsetOrdering(S)
    BY <2>2 DEF StrictSubsetOrdering
  <2> QED
    BY <1>3, <1>4, <2>3
<1> QED
  BY <1>5

\* selectLatestSuccessfulImageTask returns a success that is as new as any.
LEMMA NewestIsNewest ==
    ASSUME NEW q \in [Tasks -> Rows], Successes(q) # {}
    PROVE  /\ Newest(q) \in Successes(q)
           /\ \A v \in Successes(q) : q[v].order <= q[Newest(q)].order
<1> DEFINE f == [u \in Tasks |-> q[u].order]
<1>1. IsFiniteSet(Successes(q))
  BY QueueAssumption, FS_Subset DEF Successes
<1>2. \A u \in Successes(q) : u \in Tasks /\ f[u] = q[u].order /\ f[u] \in Int
  BY DEF Successes, Rows
<1> HIDE DEF f
<1>3. \E m \in Successes(q) : \A x \in Successes(q) : f[x] <= f[m]
  BY <1>1, <1>2, LargestRow
<1>4. \E m \in Successes(q) : \A x \in Successes(q) : q[x].order <= q[m].order
  BY <1>2, <1>3
<1> QED
  BY <1>4 DEF Newest

\* The source node shows an image, if anything.
LEMMA OutputType ==
    ASSUME QueueTypeOK, NEW q \in [Tasks -> Rows], NEW p, NEW t \in Tasks, NEW own \in {t, NoTask}
    PROVE  SettledOutput(q, p, t, own) \in {u \in Tasks : Image(u)} \cup {NoTask}
BY NewestIsNewest DEF SettledOutput, Successes, QueueTypeOK

\* What claimTask makes of a row.
LEMMA ClaimedRow ==
    ASSUME NEW w \in Rows
    PROVE  /\ Claimed(w) \in Rows
           /\ Claimed(w).status = "running" /\ Claimed(w).order = w.order
           /\ Claimed(w).phase = IF w.phase \in {"persisting", "polling"} THEN w.phase
                                 ELSE "requesting"
BY DEF Claimed, Rows, Statuses, Phases

\* What becomes of a row whose result node is gone.
LEMMA RefusedRow ==
    ASSUME NEW w \in Rows
    PROVE  /\ Refused(w) \in Rows
           /\ Refused(w).status = "error" /\ Refused(w).order = w.order
           /\ Refused(w).phase = Claimed(w).phase
<1> DEFINE c == Claimed(w)
<1>1. c \in Rows /\ c.order = w.order
  BY ClaimedRow
<1>2. Refused(w) = [c EXCEPT !.status = "error"]
  BY DEF Refused
<1> HIDE DEF c
<1>3. /\ [c EXCEPT !.status = "error"] \in Rows
      /\ [c EXCEPT !.status = "error"].status = "error"
      /\ [c EXCEPT !.status = "error"].phase = c.phase
      /\ [c EXCEPT !.status = "error"].order = c.order
  BY <1>1 DEF Rows, Statuses
<1> QED
  BY <1>1, <1>2, <1>3 DEF c

\* What the runner makes of the rows: it claims those it can begin, and the others fail.
LEMMA LaunchRows ==
    ASSUME Launch
    PROVE  /\ Begun \subseteq Launchable /\ Launchable \subseteq Tasks
           /\ \A t \in Tasks : t \in Launchable => task[t].status = "queued"
           /\ task' = [t \in Tasks |-> IF t \in Begun THEN Claimed(task[t])
                                      ELSE IF t \in Launchable THEN Refused(task[t])
                                      ELSE task[t]]
BY DEF Launch, Begun, Launchable

\* The runner brings the source node up to date when a task fails at once.
LEMMA LaunchOutput ==
    ASSUME Launch
    PROVE  \/ UNCHANGED output
           \/ \E t \in Tasks : output' = SettledOutput(task', preview, t, NoTask)
BY DEF Launch, Launchable

\* A write to the store by id changes at most the row of that id.
LEMMA StoreRow ==
    ASSUME task \in [Tasks -> Rows], NEW t \in Tasks, NEW w \in Rows, Store(t, w)
    PROVE  /\ task' \in [Tasks -> Rows]
           /\ \A u \in Tasks : u # t => task'[u] = task[u]
           /\ task'[t] = IF Listed(t) THEN w ELSE task[t]
BY DEF Store

\* What a write makes of a row is a row.
LEMMA RowTypes ==
    ASSUME NEW w \in Rows
    PROVE  /\ w.status \in Statuses \cup {"unborn", "removed"} /\ w.phase \in Phases
           /\ w.remote \in BOOLEAN /\ w.order \in Nat
           /\ \A s \in Statuses \cup {"unborn", "removed"} :
                [w EXCEPT !.status = s] \in Rows
           /\ \A p \in Phases : [w EXCEPT !.phase = p] \in Rows
           /\ \A p \in Phases, b \in BOOLEAN : [w EXCEPT !.remote = b, !.phase = p] \in Rows
           /\ \A s \in Statuses \cup {"unborn", "removed"}, p \in Phases :
                [w EXCEPT !.status = s, !.phase = p] \in Rows
           /\ \A s \in Statuses \cup {"unborn", "removed"}, p \in Phases, b \in BOOLEAN :
                [w EXCEPT !.status = s, !.phase = p, !.remote = b] \in Rows
BY DEF Rows

\* A write to some fields of a row keeps the others.
LEMMA RowFields ==
    ASSUME NEW w \in Rows, NEW s \in Statuses \cup {"unborn", "removed"}, NEW p \in Phases
    PROVE  /\ [w EXCEPT !.status = s, !.phase = p].status = s
           /\ [w EXCEPT !.status = s, !.phase = p].phase = p
           /\ [w EXCEPT !.status = s, !.phase = p].remote = w.remote
           /\ [w EXCEPT !.status = s, !.phase = p].order = w.order
           /\ [w EXCEPT !.phase = p].status = w.status
           /\ [w EXCEPT !.phase = p].phase = p
           /\ [w EXCEPT !.phase = p].order = w.order
           /\ \A b \in BOOLEAN :
                /\ [w EXCEPT !.remote = b, !.phase = p].status = w.status
                /\ [w EXCEPT !.remote = b, !.phase = p].phase = p
                /\ [w EXCEPT !.remote = b, !.phase = p].order = w.order
BY DEF Rows

\* What settling or requeueing makes of a task's row: its date stays.
LEMMA FinishedRow ==
    ASSUME NEW t \in Tasks, task[t] \in Rows, NEW p \in Phases,
           NEW s \in Statuses \cup {"unborn", "removed"}
    PROVE  /\ Finished(t, s, p) \in Rows
           /\ Finished(t, s, p).status = s /\ Finished(t, s, p).phase = p
           /\ Finished(t, s, p).order = task[t].order
<1> DEFINE w == task[t]
<1>1. w \in Rows
  OBVIOUS
<1>2. Finished(t, s, p) = [w EXCEPT !.status = s, !.phase = p]
  BY DEF Finished
<1> HIDE DEF w
<1>3. /\ [w EXCEPT !.status = s, !.phase = p].status = s
      /\ [w EXCEPT !.status = s, !.phase = p].phase = p
      /\ [w EXCEPT !.status = s, !.phase = p].order = w.order
  BY <1>1, RowFields
<1>4. [w EXCEPT !.status = s, !.phase = p] \in Rows
  BY <1>1, RowTypes
<1> QED
  BY <1>2, <1>3, <1>4 DEF w

\* What a change of phase makes of a task's row: its status and date stay.
LEMMA PhaseRow ==
    ASSUME NEW t \in Tasks, task[t] \in Rows, NEW p \in Phases
    PROVE  /\ Phase(t, p) \in Rows
           /\ Phase(t, p).status = task[t].status /\ Phase(t, p).phase = p
           /\ Phase(t, p).order = task[t].order
           /\ [task[t] EXCEPT !.remote = TRUE, !.phase = p] \in Rows
           /\ [task[t] EXCEPT !.remote = TRUE, !.phase = p].status = task[t].status
           /\ [task[t] EXCEPT !.remote = TRUE, !.phase = p].order = task[t].order
           /\ [task[t] EXCEPT !.remote = TRUE, !.phase = p].phase = p
<1> DEFINE w == task[t]
<1>1. w \in Rows
  OBVIOUS
<1>2. Phase(t, p) = [w EXCEPT !.phase = p]
  BY DEF Phase
<1> HIDE DEF w
<1>3. /\ [w EXCEPT !.phase = p].status = w.status
      /\ [w EXCEPT !.phase = p].phase = p
      /\ [w EXCEPT !.phase = p].order = w.order
      /\ [w EXCEPT !.remote = TRUE, !.phase = p].status = w.status
      /\ [w EXCEPT !.remote = TRUE, !.phase = p].order = w.order
      /\ [w EXCEPT !.remote = TRUE, !.phase = p].phase = p
  BY <1>1, RowFields
<1>4. [w EXCEPT !.phase = p] \in Rows /\ [w EXCEPT !.remote = TRUE, !.phase = p] \in Rows
  BY <1>1, RowTypes
<1> QED
  BY <1>2, <1>3, <1>4 DEF w

\* An execution that ends or goes on leaves executions.
LEMMA MovedRuns ==
    ASSUME runs \subseteq Executions, NEW r \in runs
    PROVE  /\ r.task \in Tasks /\ r.version \in Nat /\ r.at \in Places
           /\ End(r) => runs' \subseteq Executions
           /\ \A at \in Places : Goto(r, at) => runs' \subseteq Executions
BY DEF Executions, End, Goto

\* Delivering a result (the task done, the result node filled) keeps the types.
LEMMA DeliverTypes ==
    ASSUME QueueTypeOK, NEW r \in runs, NEW at \in Places \cup {"end"}, Deliver(r, at)
    PROVE  /\ task' \in [Tasks -> Rows] /\ runs' \subseteq Executions
           /\ preview' \in [Tasks -> {"none", "empty", "image"}]
           /\ output' \in {t \in Tasks : Image(t)} \cup {NoTask}
<1>1. r.task \in Tasks
  BY MovedRuns DEF QueueTypeOK
<1>2. task[r.task] \in Rows
  BY <1>1 DEF QueueTypeOK
<1>3. Finished(r.task, "done", "none") \in Rows
  BY <1>2, RowTypes DEF Finished, Statuses, Phases
<1>4. task' \in [Tasks -> Rows]
  BY <1>1, <1>3 DEF Deliver, QueueTypeOK
<1>5. runs' \subseteq Executions
  BY MovedRuns DEF Deliver, QueueTypeOK
<1>6. preview' \in [Tasks -> {"none", "empty", "image"}]
  BY <1>1 DEF Deliver, QueueTypeOK
<1>7. output' \in {t \in Tasks : Image(t)} \cup {NoTask}
  <2>1. output' = output \/ output' = SettledOutput(task', preview', r.task, r.task)
    BY DEF Deliver
  <2>2. SettledOutput(task', preview', r.task, r.task) \in {t \in Tasks : Image(t)} \cup {NoTask}
    BY <1>1, <1>4, OutputType
  <2> QED
    BY <2>1, <2>2 DEF QueueTypeOK
<1> QED
  BY <1>4, <1>5, <1>6, <1>7

\* What recovery makes of a stored row is a row.
LEMMA RecoveredType ==
    ASSUME NEW t \in Tasks, NEW w \in Rows
    PROVE  Recovered(t, w) \in Rows
BY RowTypes DEF Recovered, Statuses, Phases

\* Every step of an execution keeps the types.
LEMMA StepTypes ==
    ASSUME QueueTypeOK, NEW r \in runs, Step(r)
    PROVE  QueueTypeOK'
<1> USE DEF QueueTypeOK, vars, storeVars, canvasVars
<1>1. r.task \in Tasks /\ task[r.task] \in Rows
  BY MovedRuns
<1>2. \A s \in Statuses, p \in Phases : Finished(r.task, s, p) \in Rows
  BY <1>1, RowTypes DEF Finished
<1>3. \A p \in Phases : Phase(r.task, p) \in Rows
  BY <1>1, RowTypes DEF Phase
<1>4. [task[r.task] EXCEPT !.remote = TRUE, !.phase = "polling"] \in Rows
  BY <1>1, RowTypes DEF Phases
<1>5. "persisting" \in Phases /\ {"done", "error"} \subseteq Statuses
  BY DEF Phases, Statuses
<1>6. {"preparing", "requesting", "polling", "staging", "loading", "saving", "clearing",
       "creating", "resolving", "acknowledging"} = Places
  BY DEF Places
<1>7. ASSUME NEW p \in Phases, Store(r.task, Phase(r.task, p))
      PROVE  task' \in [Tasks -> Rows]
  BY <1>1, <1>3, <1>7, StoreRow
<1>8. ASSUME Store(r.task, [task[r.task] EXCEPT !.remote = TRUE, !.phase = "polling"])
      PROVE  task' \in [Tasks -> Rows]
  BY <1>1, <1>4, <1>8, StoreRow
<1>9. /\ End(r) => runs' \subseteq Executions
      /\ \A at \in Places : Goto(r, at) => runs' \subseteq Executions
  BY MovedRuns
<1>10. \A p : \A q \in [Tasks -> Rows], own \in {r.task, NoTask} :
         SettledOutput(q, p, r.task, own) \in {u \in Tasks : Image(u)} \cup {NoTask}
  BY <1>1, OutputType
<1>11. CASE Stale(r) \/ Ask(r)
  BY <1>6, <1>9, <1>11 DEF Stale, Ask
<1>12. CASE Answer(r)
  BY <1>5, <1>6, <1>7, <1>8, <1>9, <1>12 DEF Answer
<1>13. CASE Poll(r)
  BY <1>5, <1>6, <1>7, <1>9, <1>13 DEF Poll
<1>14. CASE Stage(r)
  BY <1>5, <1>6, <1>7, <1>9, <1>14 DEF Stage
<1>15. CASE LoadStaged(r)
  BY <1>5, <1>6, <1>7, <1>9, <1>15 DEF LoadStaged
<1>16. CASE Save(r)
  <2>1. CASE Current(r)
    BY <1>6, <1>16, <2>1, DeliverTypes DEF Save
  <2>2. CASE ~Current(r)
    BY <1>9, <1>16, <2>2 DEF Save
  <2> QED
    BY <2>1, <2>2
<1>17. CASE ClearStaged(r)
  <2>1. SettledOutput(task, preview, r.task, r.task) \in {u \in Tasks : Image(u)} \cup {NoTask}
    BY <1>10
  <2>2. runs' \subseteq Executions
    BY <1>9, <1>17 DEF ClearStaged
  <2> QED
    BY <1>17, <2>1, <2>2 DEF ClearStaged
<1>18. CASE CreateOfficial(r)
  BY <1>6, <1>8, <1>9, <1>18 DEF CreateOfficial
<1>19. CASE PollOfficial(r)
  BY <1>5, <1>6, <1>7, <1>9, <1>19 DEF PollOfficial
<1>20. CASE ResolveOfficial(r)
  <2>1. CASE Current(r)
    BY <1>6, <1>20, <2>1, DeliverTypes DEF ResolveOfficial
  <2>2. CASE ~Current(r)
    BY <1>6, <1>9, <1>20, <2>2 DEF ResolveOfficial
  <2> QED
    BY <2>1, <2>2
<1>21. CASE Acknowledge(r)
  BY <1>9, <1>21 DEF Acknowledge
<1>22. CASE Fail(r)
  <2>1. PICK phase \in Phases, q \in [Tasks -> Rows] :
          \/ task' = q /\ output' = SettledOutput(q, preview, r.task, NoTask)
          \/ UNCHANGED <<task, output>>
    BY <1>1, <1>2, <1>5, <1>22, RowTypes DEF Fail
  <2>2. End(r) /\ UNCHANGED <<version, staged, saved, preview, removing, asked>>
    BY <1>22 DEF Fail
  <2>3. SettledOutput(q, preview, r.task, NoTask) \in {u \in Tasks : Image(u)} \cup {NoTask}
    BY <1>10
  <2>4. task' \in [Tasks -> Rows] /\ output' \in {u \in Tasks : Image(u)} \cup {NoTask}
    BY <2>1, <2>3
  <2>5. runs' \subseteq Executions
    BY <1>9, <2>2
  <2> QED
    BY <2>2, <2>4, <2>5
<1> QED
  BY <1>11, <1>12, <1>13, <1>14, <1>15, <1>16, <1>17, <1>18, <1>19, <1>20, <1>21, <1>22
     DEF Step

\* Results asked for are counted.
LEMMA AskedCount ==
    ASSUME QueueTypeOK
    PROVE  TotalAsked \in Nat /\ Now \in Nat /\ Now = TotalAsked + 1
BY QueueAssumption, TotalType DEF QueueTypeOK, TotalAsked, Now

\* Every step keeps the types.
LEMMA TypeStep ==
    ASSUME QueueTypeOK, [Next]_vars
    PROVE  QueueTypeOK'
<1> USE DEF QueueTypeOK, vars, storeVars, canvasVars
<1>0. /\ Record("queued", "none", FALSE, Now) \in Rows
      /\ Unborn \in Rows /\ Removed \in Rows
  BY AskedCount DEF Record, Unborn, Removed, Rows, Statuses, Phases
<1>1. CASE Launch
  <2>1. \A t \in Tasks : Claimed(task[t]) \in Rows /\ Refused(task[t]) \in Rows
    BY ClaimedRow, RefusedRow
  <2>2. task' \in [Tasks -> Rows]
    BY <1>1, <2>1, LaunchRows
  <2>3. \A t \in Begun : [task |-> t, version |-> version, at |-> Entry(t)] \in Executions
    BY DEF Begun, Launchable, Executions, Entry, Places
  <2>4. runs' \subseteq Executions
    BY <1>1, <2>3 DEF Launch
  <2>5. output' \in {u \in Tasks : Image(u)} \cup {NoTask}
    BY <1>1, <2>2, LaunchOutput, OutputType
  <2> QED
    BY <1>1, <2>2, <2>4, <2>5 DEF Launch
<1>2. CASE \E r \in runs : Step(r)
  BY <1>2, StepTypes
<1>3. ASSUME NEW t \in Tasks, Enqueue(t) \/ RetryAsks(t)
      PROVE  QueueTypeOK'
  <2>1. task' \in [Tasks -> Rows]
    BY <1>0, <1>3 DEF Enqueue, RetryAsks
  <2>2. /\ preview' = [preview EXCEPT ![t] = "empty"] /\ asked' = [asked EXCEPT ![t] = @ + 1]
        /\ UNCHANGED <<version, runs, saved, output>>
    BY <1>3 DEF Enqueue, RetryAsks
  <2>3. preview' \in [Tasks -> {"none", "empty", "image"}] /\ asked' \in [Tasks -> Nat]
    BY <2>2
  <2> QED
    BY <2>1, <2>2, <2>3
<1>4. ASSUME NEW t \in Tasks, RetryResumes(t)
      PROVE  QueueTypeOK'
  <2>1. Finished(t, "queued", "persisting") \in Rows /\ Finished(t, "queued", "polling") \in Rows
    BY RowTypes DEF Finished, Statuses, Phases
  <2>2. task' \in [Tasks -> Rows]
    BY <1>4, <2>1, StoreRow DEF RetryResumes
  <2> QED
    BY <1>4, <2>2 DEF RetryResumes
<1>5. ASSUME NEW t \in Tasks, Cancel(t)
      PROVE  QueueTypeOK'
  <2>1. task' \in [Tasks -> Rows] /\ preview' \in [Tasks -> {"none", "empty", "image"}]
    BY <1>0, <1>5 DEF Cancel
  <2>2. output' \in {u \in Tasks : Image(u)} \cup {NoTask}
    BY <1>5, <2>1, OutputType DEF Cancel
  <2> QED
    BY <1>5, <2>1, <2>2 DEF Cancel
<1>6. ASSUME NEW t \in Tasks, EndRemove(t)
      PROVE  QueueTypeOK'
  <2>1. task' \in [Tasks -> Rows]
    BY <1>0, <1>6 DEF EndRemove
  <2>2. output' \in {u \in Tasks : Image(u)} \cup {NoTask}
    BY <1>6, <2>1, OutputType DEF EndRemove
  <2> QED
    BY <1>6, <2>1, <2>2 DEF EndRemove
<1>7. CASE EndSweep
  BY <1>0, <1>7 DEF EndSweep
<1>8. ASSUME NEW t \in Tasks, BeginRemove(t) \/ DeletePreview(t)
      PROVE  QueueTypeOK'
  BY <1>8 DEF BeginRemove, DeletePreview
<1>9. CASE BeginSweep \/ Persist \/ UNCHANGED vars
  BY <1>9 DEF BeginSweep, Persist
<1>10. ASSUME NEW q \in [Tasks -> Rows], Open(q)
       PROVE  /\ task' \in [Tasks -> Rows] /\ saved' \in [Tasks -> Rows] /\ version' \in Nat
              /\ UNCHANGED <<preview, output, asked>>
  <2>1. task' \in [Tasks -> Rows]
    BY <1>0, <1>10, RecoveredType DEF Open
  <2> QED
    BY <1>10, <2>1 DEF Open
<1>11. CASE Switch
  BY <1>10, <1>11 DEF Switch
<1>12. CASE Reopen
  BY <1>10, <1>12 DEF Reopen
<1> QED
  BY <1>1, <1>2, <1>3, <1>4, <1>5, <1>6, <1>7, <1>8, <1>9, <1>11, <1>12 DEF Next, User

-----------------------------------------------------------------------------
(* The kinds of steps *)

\* An execution goes on to its next await; its task keeps status and date.
Advances(r) ==
    /\ r.at \notin {"clearing", "acknowledging"}
    /\ \E at \in Places \ {"preparing", "clearing", "acknowledging"} : Goto(r, at)
    /\ \E w \in Rows :
         w.status = task[r.task].status /\ w.order = task[r.task].order /\ Store(r.task, w)

\* An execution of the current version settles its task, if it is listed.
Settles(r) ==
    /\ Current(r) /\ r.at # "clearing"
    /\ \E w \in Rows :
         /\ w.order = task[r.task].order /\ Store(r.task, w)
         /\ \/ w.status = "error" /\ End(r)
            \/ /\ w.status = "done" /\ r.at # "acknowledging"
               /\ End(r) \/ Goto(r, "clearing") \/ Goto(r, "acknowledging")

\* An execution whose task is settled, or that began before the last opening, ends or
\* acknowledges.
Drops(r) ==
    /\ ~Current(r) \/ r.at \in {"clearing", "acknowledging"}
    /\ UNCHANGED task
    /\ End(r) \/ (~Current(r) /\ Goto(r, "acknowledging"))

\* Every step of an execution is one of the three.
LEMMA StepKinds ==
    ASSUME QueueTypeOK, NEW r \in runs, Step(r)
    PROVE  (Advances(r) \/ Settles(r) \/ Drops(r)) /\ UNCHANGED <<version, saved, asked>>
<1>0. {"done", "error"} \subseteq Statuses \cup {"unborn", "removed"} /\ "none" \in Phases
  BY DEF Statuses, Phases
<1>1. r.task \in Tasks /\ r.at \in Places /\ task[r.task] \in Rows
  BY MovedRuns DEF QueueTypeOK
<1>2. ASSUME NEW p \in Phases, Store(r.task, Phase(r.task, p))
      PROVE  \E w \in Rows : /\ w.status = task[r.task].status /\ w.order = task[r.task].order
                             /\ Store(r.task, w)
  <2>1. /\ Phase(r.task, p) \in Rows /\ Phase(r.task, p).status = task[r.task].status
        /\ Phase(r.task, p).order = task[r.task].order
    BY <1>1, PhaseRow
  <2> QED
    BY <1>2, <2>1
<1>3. ASSUME Store(r.task, [task[r.task] EXCEPT !.remote = TRUE, !.phase = "polling"])
      PROVE  \E w \in Rows : /\ w.status = task[r.task].status /\ w.order = task[r.task].order
                             /\ Store(r.task, w)
  <2> DEFINE w == [task[r.task] EXCEPT !.remote = TRUE, !.phase = "polling"]
  <2>1. "polling" \in Phases
    BY DEF Phases
  <2>2. w \in Rows /\ w.status = task[r.task].status /\ w.order = task[r.task].order
    BY <1>1, <2>1, PhaseRow
  <2> QED
    BY <1>3, <2>2
<1>4. UNCHANGED task => \E w \in Rows : /\ w.status = task[r.task].status
                                      /\ w.order = task[r.task].order /\ Store(r.task, w)
  BY <1>1 DEF Store, QueueTypeOK
<1>5. {"preparing", "requesting", "polling", "staging", "loading", "saving", "clearing",
       "creating", "resolving", "acknowledging"} = Places /\ "persisting" \in Phases
  BY DEF Places, Phases
<1>6. ASSUME NEW at \in {"clearing", "acknowledging", "end"}, Deliver(r, at), Current(r),
             r.at \notin {"clearing", "acknowledging"}
      PROVE  Settles(r)
  <2> DEFINE w == Finished(r.task, "done", "none")
  <2>1. w \in Rows /\ w.status = "done" /\ w.order = task[r.task].order
    BY <1>0, <1>1, FinishedRow
  <2>2. Store(r.task, w)
    BY <1>6 DEF Deliver, Store
  <2>3. End(r) \/ Goto(r, "clearing") \/ Goto(r, "acknowledging")
    BY <1>6 DEF Deliver
  <2> QED
    BY <1>6, <2>1, <2>2, <2>3 DEF Settles
<1>7. UNCHANGED <<version, saved, asked>>
  BY DEF Step, Stale, Answer, Poll, Stage, LoadStaged, Save, ClearStaged, CreateOfficial,
         PollOfficial, ResolveOfficial, Acknowledge, Fail, Ask, storeVars
<1>8. CASE Stale(r) \/ ClearStaged(r) \/ Acknowledge(r)
  BY <1>7, <1>8 DEF Stale, ClearStaged, Acknowledge, Drops, storeVars
<1>9. CASE Ask(r) \/ Answer(r)
  BY <1>7, <1>2, <1>3, <1>4, <1>5, <1>9 DEF Ask, Answer, Advances, storeVars
<1>10. CASE Poll(r)
  BY <1>7, <1>2, <1>4, <1>5, <1>10 DEF Poll, Advances
<1>11. CASE Stage(r) \/ LoadStaged(r)
  BY <1>7, <1>2, <1>5, <1>11 DEF Stage, LoadStaged, Advances
<1>12. CASE CreateOfficial(r)
  BY <1>7, <1>3, <1>5, <1>12 DEF CreateOfficial, Advances
<1>13. CASE PollOfficial(r)
  BY <1>7, <1>2, <1>5, <1>13 DEF PollOfficial, Advances
<1>14. CASE Save(r)
  BY <1>7, <1>6, <1>14 DEF Save, Drops
<1>15. CASE ResolveOfficial(r)
  BY <1>7, <1>6, <1>15 DEF ResolveOfficial, Drops
<1>16. CASE Fail(r)
  <2>1. CASE Current(r)
    <3>1. PICK p \in Phases : Store(r.task, Finished(r.task, "error", p))
      BY <1>1, <1>5, <1>16, <2>1, RowTypes DEF Fail, Store, QueueTypeOK
    <3>2. /\ Finished(r.task, "error", p) \in Rows
          /\ Finished(r.task, "error", p).status = "error"
          /\ Finished(r.task, "error", p).order = task[r.task].order
      BY <1>0, <1>1, FinishedRow
    <3> QED
      BY <1>7, <1>16, <2>1, <3>1, <3>2 DEF Fail, Settles
  <2>2. CASE ~Current(r)
    BY <1>7, <1>16, <2>2 DEF Fail, Drops
  <2> QED
    BY <2>1, <2>2
<1> QED
  BY <1>8, <1>9, <1>10, <1>11, <1>12, <1>13, <1>14, <1>15, <1>16 DEF Step

\* Enqueueing, retrying, canceling, removing and saving leave the executions alone: a
\* task is queued, if it was not there or was an error, or removed.
Reshelves ==
    /\ UNCHANGED <<runs, version>>
    /\ \A t \in Tasks :
         \/ task'[t].status \in {task[t].status, "removed"}
         \/ task[t].status \in {"unborn", "error"} /\ task'[t].status = "queued"

\* The project is opened again: what it recovers does not run.
Opens ==
    /\ version' = version + 1 /\ runs' \subseteq runs
    /\ \A t \in Tasks : task'[t].status # "running"

\* Recovery leaves no task running.
LEMMA RecoveredStatus ==
    ASSUME NEW t \in Tasks, NEW w \in Rows, w.status \in Statuses
    PROVE  Recovered(t, w).status \in Statuses \ {"running"} /\ Recovered(t, w).order = w.order
BY DEF Recovered, Rows, Statuses, Phases

\* Every step is one of these kinds.
LEMMA NextKinds ==
    ASSUME QueueTypeOK, [Next]_vars
    PROVE  \/ Launch
           \/ \E r \in runs : (Advances(r) \/ Settles(r) \/ Drops(r)) /\ UNCHANGED version
           \/ Reshelves \/ Opens
<1>0. /\ Record("queued", "none", FALSE, Now).status = "queued"
      /\ Unborn.status = "unborn" /\ Removed.status = "removed"
  BY DEF Record, Unborn, Removed
<1>1. task \in [Tasks -> Rows]
  BY DEF QueueTypeOK
<1>2. CASE \E r \in runs : Step(r)
  BY <1>2, StepKinds
<1>3. ASSUME NEW t \in Tasks, Enqueue(t) \/ RetryAsks(t)
      PROVE  Reshelves
  <2>1. \A u \in Tasks : task'[u] = IF u = t THEN Record("queued", "none", FALSE, Now)
                                             ELSE task[u]
    BY <1>1, <1>3 DEF Enqueue, RetryAsks
  <2>2. task[t].status \in {"unborn", "error"}
    BY <1>0, <1>3 DEF Enqueue, RetryAsks
  <2>3. UNCHANGED <<runs, version>>
    BY <1>3 DEF Enqueue, RetryAsks
  <2> QED
    BY <1>0, <2>1, <2>2, <2>3 DEF Reshelves
<1>4. ASSUME NEW t \in Tasks, RetryResumes(t)
      PROVE  Reshelves
  <2>1. PICK p \in Phases : Store(t, Finished(t, "queued", p))
    BY <1>4 DEF RetryResumes, Phases
  <2>2. Finished(t, "queued", p) \in Rows /\ Finished(t, "queued", p).status = "queued"
    BY <1>1, FinishedRow DEF Statuses
  <2>3. \A u \in Tasks : task'[u] = task[u] \/ (u = t /\ task'[u].status = "queued")
    BY <1>1, <2>1, <2>2, StoreRow
  <2>4. task[t].status = "error" /\ UNCHANGED <<runs, version>>
    BY <1>4 DEF RetryResumes
  <2> QED
    BY <2>3, <2>4 DEF Reshelves
<1>5. ASSUME NEW t \in Tasks, Cancel(t) \/ EndRemove(t)
      PROVE  Reshelves
  <2>1. \A u \in Tasks : task'[u] = task[u] \/ task'[u] = Removed
    BY <1>1, <1>5 DEF Cancel, EndRemove
  <2>2. UNCHANGED <<runs, version>>
    BY <1>5 DEF Cancel, EndRemove
  <2> QED
    BY <1>0, <2>1, <2>2 DEF Reshelves
<1>6. CASE EndSweep
  <2>1. \A u \in Tasks : task'[u] = task[u] \/ task'[u] = Removed
    BY <1>1, <1>6 DEF EndSweep
  <2> QED
    BY <1>0, <1>6, <2>1 DEF EndSweep, Reshelves
<1>7. ASSUME NEW t \in Tasks, BeginRemove(t) \/ DeletePreview(t)
      PROVE  Reshelves
  <2>1. UNCHANGED <<task, runs, version>>
    BY <1>7 DEF BeginRemove, DeletePreview, storeVars
  <2> QED
    BY <2>1 DEF Reshelves
<1>8. CASE BeginSweep \/ Persist \/ UNCHANGED vars
  <2>1. UNCHANGED <<task, runs, version>>
    BY <1>8 DEF BeginSweep, Persist, storeVars, vars
  <2> QED
    BY <2>1 DEF Reshelves
<1>9. ASSUME NEW q \in [Tasks -> Rows], Open(q)
      PROVE  version' = version + 1 /\ \A t \in Tasks : task'[t].status # "running"
  <2>1. ASSUME NEW t \in Tasks
        PROVE  task'[t].status # "running"
    <3>1. CASE q[t].status \in Statuses /\ preview[t] # "none"
      <4>1. Recovered(t, q[t]).status # "running"
        BY <3>1, RecoveredStatus
      <4>2. task'[t] = Recovered(t, q[t])
        BY <1>9, <3>1 DEF Open
      <4> QED
        BY <4>1, <4>2
    <3>2. CASE ~(q[t].status \in Statuses /\ preview[t] # "none")
      <4>1. task'[t] = Unborn \/ task'[t] = Removed
        BY <1>9, <3>2 DEF Open
      <4> QED
        BY <1>0, <4>1
    <3> QED
      BY <3>1, <3>2
  <2> QED
    BY <1>9, <2>1 DEF Open
<1>10. CASE Switch
  BY <1>1, <1>9, <1>10 DEF Switch, Opens
<1>11. CASE Reopen
  BY <1>9, <1>11 DEF Reopen, Opens, QueueTypeOK
<1> QED
  BY <1>2, <1>3, <1>4, <1>5, <1>6, <1>7, <1>8, <1>10, <1>11 DEF Next, User

-----------------------------------------------------------------------------
(* What runs is executed *)

\* Executions of the current version that still have to acknowledge.
Acknowledging(t) == {r \in runs : r.task = t /\ Current(r) /\ r.at = "acknowledging"}

Executed ==
    /\ \A r \in runs : r.version <= version
    /\ \A t \in Tasks :
         /\ task[t].status = "running" => \E r \in runs : Working(t) = {r}
         /\ task[t].status \in {"unborn", "queued", "done", "error"} => Working(t) = {}
         /\ task[t].status \in {"unborn", "queued", "running", "error"} => Acknowledging(t) = {}

\* An execution that goes on is the same execution.
LEMMA AdvancesExecuted ==
    ASSUME QueueTypeOK, Executed, NEW r \in runs, Advances(r), UNCHANGED version
    PROVE  Executed'
<1>1. PICK at \in Places \ {"preparing", "clearing", "acknowledging"} : Goto(r, at)
  BY DEF Advances
<1>2. PICK w \in Rows : w.status = task[r.task].status /\ Store(r.task, w)
  BY DEF Advances
<1>3. r \in Executions /\ r.task \in Tasks
  BY DEF QueueTypeOK, Executions
<1> DEFINE s == [r EXCEPT !.at = at]
<1>4. s.task = r.task /\ s.version = r.version /\ s.at = at
  BY <1>3 DEF Executions
<1>5. runs' = (runs \ {r}) \cup {s}
  BY <1>1 DEF Goto
<1>6. \A t \in Tasks : task'[t].status = task[t].status
  BY <1>2, <1>3, StoreRow DEF QueueTypeOK
<1>7. r.at \notin {"clearing", "acknowledging"} /\ at \notin {"clearing", "acknowledging"}
  BY <1>1 DEF Advances
<1> HIDE DEF s
<1>8. \A x \in runs' : x.version <= version'
  BY <1>4, <1>5 DEF Executed
<1>9. ASSUME NEW t \in Tasks
      PROVE  Working(t)' = (IF r \in Working(t) THEN (Working(t) \ {r}) \cup {s} ELSE Working(t))
  <2>1. \A x : x \in Working(t)' <=> x \in runs' /\ x.task = t /\ x.version = version
                                      /\ x.at \notin {"clearing", "acknowledging"}
    BY DEF Working, Current
  <2>2. \A x : x \in Working(t) <=> x \in runs /\ x.task = t /\ x.version = version
                                      /\ x.at \notin {"clearing", "acknowledging"}
    BY DEF Working, Current
  <2> QED
    BY <1>4, <1>5, <1>7, <2>1, <2>2
<1>10. \A t \in Tasks : Acknowledging(t)' = Acknowledging(t)
  BY <1>4, <1>5, <1>7 DEF Acknowledging, Current
<1>11. ASSUME NEW t \in Tasks, task[t].status = "running"
       PROVE  \E x \in runs' : Working(t)' = {x}
  <2>1. PICK x \in runs : Working(t) = {x}
    BY <1>11 DEF Executed
  <2>2. CASE x = r
    BY <1>5, <1>9, <2>1, <2>2
  <2>3. CASE x # r
    BY <1>5, <1>9, <2>1, <2>3
  <2> QED
    BY <2>2, <2>3
<1>12. ASSUME NEW t \in Tasks, Working(t) = {}
       PROVE  Working(t)' = {}
  BY <1>9, <1>12
<1> QED
  BY <1>6, <1>8, <1>10, <1>11, <1>12 DEF Executed

\* The only execution that has to settle a task ends, or goes on to clear up.
LEMMA SettlesExecuted ==
    ASSUME QueueTypeOK, Executed, NEW r \in runs, Settles(r), UNCHANGED version
    PROVE  Executed'
<1>1. PICK w \in Rows :
        /\ Store(r.task, w)
        /\ \/ w.status = "error" /\ End(r)
           \/ /\ w.status = "done" /\ r.at # "acknowledging"
              /\ End(r) \/ Goto(r, "clearing") \/ Goto(r, "acknowledging")
  BY DEF Settles
<1>2. r \in Executions /\ r.task \in Tasks /\ Current(r) /\ r.at # "clearing"
  BY DEF QueueTypeOK, Executions, Settles
<1>3. PICK s : /\ runs' \subseteq (runs \ {r}) \cup {s}
               /\ s.task = r.task /\ s.version = r.version
               /\ s.at \in {"clearing", "acknowledging"}
               /\ w.status = "error" => runs' = runs \ {r}
               /\ runs \ {r} \subseteq runs'
  <2>1. ASSUME NEW at \in {"clearing", "acknowledging"}, Goto(r, at), w.status = "done"
        PROVE  \E s : /\ runs' \subseteq (runs \ {r}) \cup {s}
                      /\ s.task = r.task /\ s.version = r.version
                      /\ s.at \in {"clearing", "acknowledging"}
                      /\ w.status = "error" => runs' = runs \ {r}
                      /\ runs \ {r} \subseteq runs'
    <3> DEFINE s == [r EXCEPT !.at = at]
    <3>1. s.task = r.task /\ s.version = r.version /\ s.at = at
      BY <1>2 DEF Executions
    <3>2. runs' = (runs \ {r}) \cup {s}
      BY <2>1 DEF Goto
    <3> QED
      BY <2>1, <3>1, <3>2
  <2>2. ASSUME End(r)
        PROVE  \E s : /\ runs' \subseteq (runs \ {r}) \cup {s}
                      /\ s.task = r.task /\ s.version = r.version
                      /\ s.at \in {"clearing", "acknowledging"}
                      /\ w.status = "error" => runs' = runs \ {r}
                      /\ runs \ {r} \subseteq runs'
    <3> DEFINE s == [r EXCEPT !.at = "clearing"]
    <3>1. s.task = r.task /\ s.version = r.version /\ s.at = "clearing"
      BY <1>2 DEF Executions
    <3>2. runs' = runs \ {r}
      BY <2>2 DEF End
    <3> QED
      BY <3>1, <3>2
  <2> QED
    BY <1>1, <2>1, <2>2
<1>4. \A t \in Tasks : t # r.task => task'[t] = task[t]
  BY <1>1, <1>2, StoreRow DEF QueueTypeOK
<1>5. \A x \in runs' : x.version <= version'
  BY <1>3 DEF Executed
<1>6. \A t : \A x : /\ x \in Working(t)' <=> x \in runs' /\ x.task = t /\ x.version = version
                                      /\ x.at \notin {"clearing", "acknowledging"}
                    /\ x \in Acknowledging(t)' <=> x \in runs' /\ x.task = t /\ x.version = version
                                      /\ x.at = "acknowledging"
  BY DEF Working, Acknowledging, Current
<1>7. \A t : \A x : /\ x \in Working(t) <=> x \in runs /\ x.task = t /\ x.version = version
                                      /\ x.at \notin {"clearing", "acknowledging"}
                    /\ x \in Acknowledging(t) <=> x \in runs /\ x.task = t /\ x.version = version
                                      /\ x.at = "acknowledging"
  BY DEF Working, Acknowledging, Current
<1>8. ASSUME NEW t \in Tasks, t # r.task
      PROVE  Working(t)' = Working(t) /\ Acknowledging(t)' = Acknowledging(t)
  <2>1. \A x : x \in runs' /\ x.task = t <=> x \in runs /\ x.task = t
    BY <1>3, <1>8
  <2>2. \A x : x \in Working(t)' <=> x \in Working(t)
    BY <1>6, <1>7, <2>1
  <2>3. \A x : x \in Acknowledging(t)' <=> x \in Acknowledging(t)
    BY <1>6, <1>7, <2>1
  <2> QED
    BY <2>2, <2>3
<1>9. CASE ~Listed(r.task)
  <2>1. UNCHANGED task
    BY <1>1, <1>9 DEF Store
  <2>2. task[r.task].status \in {"unborn", "removed"}
    BY <1>2, <1>9, RowTypes DEF Listed, QueueTypeOK
  <2>3. task[r.task].status = "removed"
    <3>1. r \in Working(r.task) \/ r \in Acknowledging(r.task)
      BY <1>2, <1>7 DEF Current
    <3> QED
      BY <1>2, <2>2, <3>1 DEF Executed
  <2>4. ASSUME NEW t \in Tasks
        PROVE  /\ task'[t].status = "running" => \E x \in runs' : Working(t)' = {x}
               /\ task'[t].status \in {"unborn", "queued", "done", "error"} => Working(t)' = {}
               /\ task'[t].status \in {"unborn", "queued", "running", "error"}
                    => Acknowledging(t)' = {}
    <3>1. CASE t = r.task
      BY <2>1, <2>3, <3>1
    <3>2. CASE t # r.task
      <4>1. Working(t)' = Working(t) /\ Acknowledging(t)' = Acknowledging(t)
        BY <1>8, <3>2
      <4>2. \A x \in runs : Working(t) = {x} => x \in runs'
        BY <1>3, <1>7, <3>2
      <4> QED
        BY <2>1, <4>1, <4>2 DEF Executed
    <3> QED
      BY <3>1, <3>2
  <2> QED
    BY <1>5, <2>4 DEF Executed
<1>10. CASE Listed(r.task)
  <2>1. task'[r.task] = w
    BY <1>1, <1>2, <1>10, StoreRow DEF QueueTypeOK
  <2>2. Working(r.task) \subseteq {r}
    <3>1. CASE task[r.task].status = "running"
      <4>1. PICK x \in runs : Working(r.task) = {x}
        BY <1>2, <3>1 DEF Executed
      <4>2. Acknowledging(r.task) = {}
        BY <1>2, <3>1 DEF Executed
      <4>3. r \in Working(r.task)
        BY <1>2, <1>7, <4>2 DEF Current
      <4> QED
        BY <4>1, <4>3
    <3>2. CASE task[r.task].status # "running"
      <4>1. Working(r.task) = {}
        BY <1>2, <1>10, <3>2 DEF Executed, Listed, Statuses
      <4> QED
        BY <4>1
    <3> QED
      BY <3>1, <3>2
  <2>3. Working(r.task)' = {}
    BY <1>3, <1>6, <1>7, <2>2
  <2>4. w.status = "error" => Acknowledging(r.task)' = {}
    <3>1. ASSUME w.status = "error", NEW x \in Acknowledging(r.task)'
          PROVE  FALSE
      <4>1. runs' = runs \ {r}
        BY <1>3, <3>1
      <4>2. x \in Acknowledging(r.task) /\ x # r
        BY <1>6, <1>7, <3>1, <4>1
      <4>3. r.at = "acknowledging"
        <5>1. task[r.task].status = "done"
          BY <1>2, <1>10, <4>2 DEF Executed, Listed, Statuses
        <5>2. Working(r.task) = {}
          BY <1>2, <5>1 DEF Executed
        <5> QED
          BY <1>2, <1>7, <5>2 DEF Current
      <4>4. x = r
        BY <1>2, <1>7, <4>2, <4>3 DEF QueueTypeOK, Executions, Current
      <4> QED
        BY <4>2, <4>4
    <3> QED
      BY <3>1
  <2>5. ASSUME NEW t \in Tasks
        PROVE  /\ task'[t].status = "running" => \E x \in runs' : Working(t)' = {x}
               /\ task'[t].status \in {"unborn", "queued", "done", "error"} => Working(t)' = {}
               /\ task'[t].status \in {"unborn", "queued", "running", "error"}
                    => Acknowledging(t)' = {}
    <3>1. CASE t = r.task
      BY <1>1, <2>1, <2>3, <2>4, <3>1
    <3>2. CASE t # r.task
      <4>1. Working(t)' = Working(t) /\ Acknowledging(t)' = Acknowledging(t)
        BY <1>8, <3>2
      <4>2. \A x \in runs : Working(t) = {x} => x \in runs'
        BY <1>3, <1>7, <3>2
      <4>3. task'[t] = task[t]
        BY <1>4, <3>2
      <4> QED
        BY <4>1, <4>2, <4>3 DEF Executed
    <3> QED
      BY <3>1, <3>2
  <2> QED
    BY <1>5, <2>5 DEF Executed
<1> QED
  BY <1>9, <1>10

\* Other executions do not count.
LEMMA DropsExecuted ==
    ASSUME QueueTypeOK, Executed, NEW r \in runs, Drops(r), UNCHANGED version
    PROVE  Executed'
<1>1. r \in Executions /\ r.task \in Tasks
  BY DEF QueueTypeOK, Executions
<1>2. PICK s : /\ runs \ {r} \subseteq runs' /\ runs' \subseteq (runs \ {r}) \cup {s}
               /\ s \in runs' \/ runs' = runs \ {r}
               /\ s \in runs' => ~Current(r) /\ s.version = r.version
  <2>1. CASE End(r)
    BY <2>1 DEF End
  <2>2. CASE ~Current(r) /\ Goto(r, "acknowledging")
    <3>1. [r EXCEPT !.at = "acknowledging"].version = r.version
      BY <1>1 DEF Executions
    <3> QED
      BY <2>2, <3>1 DEF Goto
  <2> QED
    BY <2>1, <2>2 DEF Drops
<1>3. ASSUME NEW t \in Tasks
      PROVE  Working(t)' = Working(t) /\ Acknowledging(t)' \subseteq Acknowledging(t)
  <2>1. r \notin Working(t)
    BY DEF Drops, Working
  <2>2. s \in runs' => s.version # version
    BY <1>2 DEF Current
  <2>3. \A x : /\ x \in Working(t)' <=> x \in runs' /\ x.task = t /\ x.version = version
                                      /\ x.at \notin {"clearing", "acknowledging"}
               /\ x \in Acknowledging(t)' <=> x \in runs' /\ x.task = t /\ x.version = version
                                      /\ x.at = "acknowledging"
    BY DEF Working, Acknowledging, Current
  <2>4. \A x : /\ x \in Working(t) <=> x \in runs /\ x.task = t /\ x.version = version
                                      /\ x.at \notin {"clearing", "acknowledging"}
               /\ x \in Acknowledging(t) <=> x \in runs /\ x.task = t /\ x.version = version
                                      /\ x.at = "acknowledging"
    BY DEF Working, Acknowledging, Current
  <2> QED
    BY <1>2, <2>1, <2>2, <2>3, <2>4
<1>4. \A x \in runs' : x.version <= version'
  BY <1>2 DEF Executed
<1>5. \A t \in Tasks : \A x : Working(t) = {x} => x \in runs'
  BY <1>3 DEF Working
<1>6. UNCHANGED task
  BY DEF Drops
<1> QED
  BY <1>3, <1>4, <1>5, <1>6 DEF Executed

\* What the runner claims gets one execution of the current version.
LEMMA LaunchExecuted ==
    ASSUME QueueTypeOK, Executed, Launch
    PROVE  Executed'
<1> DEFINE new(t) == [task |-> t, version |-> version, at |-> Entry(t)]
<1>1. \A t : Entry(t) \notin {"clearing", "acknowledging"}
  BY DEF Entry
<1>2. /\ runs' = runs \cup {new(t) : t \in Begun}
      /\ version' = version
  BY DEF Launch
<1>3. \A t : new(t).task = t /\ new(t).version = version /\ new(t).at = Entry(t)
  OBVIOUS
<1> HIDE DEF new
<1>4. /\ \A t \in Tasks : t \in Launchable => task[t].status = "queued"
      /\ \A t \in Tasks : t \in Begun => task[t].status = "queued"
  BY LaunchRows
<1>5. ASSUME NEW t \in Tasks
      PROVE  \/ t \in Begun /\ task'[t].status = "running"
             \/ t \in Launchable \ Begun /\ task'[t].status = "error"
             \/ t \notin Begun /\ task'[t].status = task[t].status
  <2>1. task'[t] = IF t \in Begun THEN Claimed(task[t])
                   ELSE IF t \in Launchable THEN Refused(task[t]) ELSE task[t]
    BY LaunchRows
  <2>2. Claimed(task[t]).status = "running" /\ Refused(task[t]).status = "error"
    BY ClaimedRow, RefusedRow DEF QueueTypeOK
  <2> QED
    BY <2>1, <2>2
<1>6. \A x \in runs' : x.version <= version'
  BY <1>2, <1>3 DEF Executed, QueueTypeOK
<1>7. ASSUME NEW t \in Tasks
      PROVE  Working(t)' = IF t \in Begun THEN Working(t) \cup {new(t)} ELSE Working(t)
  <2>1. \A x : /\ x \in Working(t)' <=> x \in runs' /\ x.task = t /\ x.version = version
                                      /\ x.at \notin {"clearing", "acknowledging"}
               /\ x \in Working(t) <=> x \in runs /\ x.task = t /\ x.version = version
                                      /\ x.at \notin {"clearing", "acknowledging"}
    BY <1>2 DEF Working, Current
  <2>2. \A x : x \in runs' <=> x \in runs \/ \E u \in Begun : x = new(u)
    BY <1>2
  <2>3. CASE t \in Begun
    <3>1. \A x : x \in Working(t)' <=> x \in Working(t) \cup {new(t)}
      BY <1>1, <1>3, <2>1, <2>2, <2>3
    <3> QED
      BY <2>3, <3>1
  <2>4. CASE t \notin Begun
    <3>1. \A x : x \in Working(t)' <=> x \in Working(t)
      BY <1>1, <1>3, <2>1, <2>2, <2>4
    <3> QED
      BY <2>4, <3>1
  <2> QED
    BY <2>3, <2>4
<1>8. ASSUME NEW t \in Tasks
      PROVE  Acknowledging(t)' = Acknowledging(t)
  <2>1. \A x : /\ x \in Acknowledging(t)' <=> x \in runs' /\ x.task = t /\ x.version = version
                                      /\ x.at = "acknowledging"
               /\ x \in Acknowledging(t) <=> x \in runs /\ x.task = t /\ x.version = version
                                      /\ x.at = "acknowledging"
    BY <1>2 DEF Acknowledging, Current
  <2>2. \A x : x \in runs' <=> x \in runs \/ \E u \in Begun : x = new(u)
    BY <1>2
  <2>3. \A x : x \in Acknowledging(t)' <=> x \in Acknowledging(t)
    BY <1>1, <1>3, <2>1, <2>2
  <2> QED
    BY <2>3
<1>9. ASSUME NEW t \in Tasks
      PROVE  /\ task'[t].status = "running" => \E x \in runs' : Working(t)' = {x}
             /\ task'[t].status \in {"unborn", "queued", "done", "error"} => Working(t)' = {}
             /\ task'[t].status \in {"unborn", "queued", "running", "error"}
                  => Acknowledging(t)' = {}
  <2>1. CASE t \in Begun /\ task'[t].status = "running"
    <3>1. Working(t) = {} /\ Acknowledging(t) = {}
      BY <1>4, <2>1 DEF Executed
    <3>2. Working(t)' = {new(t)} /\ new(t) \in runs'
      BY <1>2, <1>7, <2>1, <3>1
    <3> QED
      BY <1>8, <2>1, <3>1, <3>2
  <2>2. CASE t \notin Begun /\ task'[t].status = task[t].status
    BY <1>2, <1>7, <1>8, <2>2 DEF Executed
  <2>3. CASE t \in Launchable \ Begun /\ task'[t].status = "error"
    <3>1. Working(t) = {} /\ Acknowledging(t) = {}
      BY <1>4, <2>3 DEF Executed
    <3> QED
      BY <1>7, <1>8, <2>3, <3>1
  <2> QED
    BY <1>5, <2>1, <2>2, <2>3
<1> QED
  BY <1>6, <1>9 DEF Executed

\* No step of any actor leaves a running task without its execution, or gives it two.
LEMMA ExecutedStep ==
    ASSUME QueueTypeOK, Executed, [Next]_vars
    PROVE  Executed'
<1>1. CASE Reshelves
  <2>1. \A t \in Tasks : Working(t)' = Working(t) /\ Acknowledging(t)' = Acknowledging(t)
    BY <1>1 DEF Reshelves, Working, Acknowledging, Current
  <2>2. \A t \in Tasks : task[t].status \in {"unborn", "error"}
                            => Working(t) = {} /\ Acknowledging(t) = {}
    BY DEF Executed
  <2>3. \A x \in runs' : x.version <= version'
    BY <1>1 DEF Reshelves, Executed
  <2>4. ASSUME NEW t \in Tasks
        PROVE  /\ task'[t].status = "running" => \E x \in runs' : Working(t)' = {x}
               /\ task'[t].status \in {"unborn", "queued", "done", "error"} => Working(t)' = {}
               /\ task'[t].status \in {"unborn", "queued", "running", "error"}
                    => Acknowledging(t)' = {}
    <3>1. CASE task'[t].status = task[t].status
      BY <1>1, <2>1, <3>1 DEF Executed, Reshelves
    <3>2. CASE task'[t].status = "removed"
      BY <3>2
    <3>3. CASE task[t].status \in {"unborn", "error"} /\ task'[t].status = "queued"
      BY <2>1, <2>2, <3>3
    <3> QED
      BY <1>1, <3>1, <3>2, <3>3 DEF Reshelves
  <2> QED
    BY <2>3, <2>4 DEF Executed
<1>2. CASE Opens
  <2>1. \A x \in runs' : x.version < version'
    BY <1>2 DEF Opens, Executed, QueueTypeOK, Executions
  <2>2. ASSUME NEW x \in runs'
        PROVE  ~(x.version = version')
    <3>1. x.version \in Nat /\ version' \in Nat
      BY <1>2 DEF Opens, QueueTypeOK, Executions
    <3> QED
      BY <2>1, <3>1
  <2>4. \A t \in Tasks : Working(t)' = {} /\ Acknowledging(t)' = {}
    BY <2>2 DEF Working, Acknowledging, Current
  <2>3. \A x \in runs' : x.version <= version'
    BY <1>2 DEF Opens, Executed, QueueTypeOK, Executions
  <2> QED
    BY <1>2, <2>3, <2>4 DEF Executed, Opens
<1> QED
  BY <1>1, <1>2, NextKinds, LaunchExecuted, AdvancesExecuted, SettlesExecuted, DropsExecuted

-----------------------------------------------------------------------------
(* Dates *)

\* No two listed tasks of a queue are of the same moment, and none is of the future.
Dated(q, n) ==
    /\ \A t \in Tasks : q[t].status \in Statuses => q[t].order <= n
    /\ \A t, u \in Tasks :
         /\ q[t].status \in Statuses /\ q[u].status \in Statuses
         /\ q[t].order = q[u].order
         => t = u

AllDated == Dated(task, TotalAsked) /\ Dated(saved, TotalAsked)

\* Dates stay distinct when tasks leave the list and none takes another date.
LEMMA DatedLess ==
    ASSUME NEW q, NEW n, NEW p, Dated(q, n),
           \A t \in Tasks : p[t].status \in Statuses
                              => q[t].status \in Statuses /\ p[t].order = q[t].order
    PROVE  Dated(p, n)
BY DEF Dated

\* Dates stay distinct when a task takes a date later than every other.
LEMMA DatedMore ==
    ASSUME NEW q \in [Tasks -> Rows], NEW n \in Nat, Dated(q, n), NEW t \in Tasks,
           NEW p \in [Tasks -> Rows], \A u \in Tasks : u # t => p[u] = q[u],
           p[t].order = n + 1
    PROVE  Dated(p, n + 1)
<1>1. \A u \in Tasks : q[u].order \in Nat /\ p[u].order \in Nat
  BY RowTypes
<1>3. (\A u \in Tasks : u # t => p[u] = q[u]) /\ p[t].order = n + 1
  OBVIOUS
<1>4. ASSUME NEW u \in Tasks, p[u].status \in Statuses
      PROVE  p[u].order <= n + 1 /\ (u # t => q[u].status \in Statuses /\ p[u].order <= n)
  <2>1. CASE u = t
    BY <1>3, <2>1
  <2>2. CASE u # t
    <3>1. p[u] = q[u] /\ q[u].order \in Nat
      BY <1>1, <1>3, <2>2
    <3>2. q[u].order <= n
      BY <1>4, <3>1 DEF Dated
    <3> QED
      BY <1>4, <3>1, <3>2
  <2> QED
    BY <2>1, <2>2
<1>5. ASSUME NEW u \in Tasks, NEW v \in Tasks, p[u].status \in Statuses, p[v].status \in Statuses,
             p[u].order = p[v].order
      PROVE  u = v
  <2>1. CASE u # t /\ v # t
    BY <1>3, <1>5, <2>1 DEF Dated
  <2>2. CASE u = t /\ v # t
    <3>1. p[v] = q[v] /\ p[v].order \in Nat /\ p[v].order <= n /\ p[u].order = n + 1
      BY <1>1, <1>3, <1>4, <1>5, <2>2
    <3> QED
      BY <1>5, <3>1
  <2>3. CASE u # t /\ v = t
    <3>1. p[u] = q[u] /\ p[u].order \in Nat /\ p[u].order <= n /\ p[v].order = n + 1
      BY <1>1, <1>3, <1>4, <1>5, <2>3
    <3> QED
      BY <1>5, <3>1
  <2> QED
    BY <2>1, <2>2, <2>3
<1> QED
  BY <1>4, <1>5 DEF Dated

\* Dates that lie in the past lie in the past later on.
LEMMA DatedLater ==
    ASSUME NEW q \in [Tasks -> Rows], NEW n \in Nat, Dated(q, n)
    PROVE  Dated(q, n + 1)
<1>1. \A u \in Tasks : q[u].order \in Nat
  BY RowTypes
<1> QED
  BY <1>1 DEF Dated

\* Steps of executions, and openings, give no task another date.
LEMMA DatedStep ==
    ASSUME QueueTypeOK, AllDated, [Next]_vars
    PROVE  AllDated'
<1>0. /\ task \in [Tasks -> Rows] /\ saved \in [Tasks -> Rows] /\ asked \in [Tasks -> Nat]
      /\ TotalAsked \in Nat /\ Now = TotalAsked + 1
  BY AskedCount DEF QueueTypeOK
<1>1. ASSUME UNCHANGED <<saved, asked>>,
             \A t \in Tasks : task'[t].status \in Statuses
                                => task[t].status \in Statuses /\ task'[t].order = task[t].order
      PROVE  AllDated'
  <2>1. TotalAsked' = TotalAsked
    BY <1>1 DEF TotalAsked
  <2>2. Dated(task', TotalAsked)
    BY <1>1, DatedLess DEF AllDated
  <2> QED
    BY <1>1, <2>1, <2>2 DEF AllDated, Dated
<1>2. ASSUME NEW r \in runs, Step(r)
      PROVE  AllDated'
  <2>1. r.task \in Tasks
    BY MovedRuns DEF QueueTypeOK
  <2>2. UNCHANGED <<saved, asked>>
    BY <1>2, StepKinds
  <2>3. \/ UNCHANGED task
        \/ \E w \in Rows : w.order = task[r.task].order /\ Store(r.task, w)
    BY <1>2, StepKinds DEF Advances, Settles, Drops
  <2>4. ASSUME NEW w \in Rows, w.order = task[r.task].order, Store(r.task, w)
        PROVE  \A t \in Tasks : task'[t].status \in Statuses
                  => task[t].status \in Statuses /\ task'[t].order = task[t].order
    BY <1>0, <2>1, <2>4, StoreRow DEF Listed
  <2> QED
    BY <1>1, <2>2, <2>3, <2>4
<1>3. ASSUME NEW t \in Tasks, Enqueue(t) \/ RetryAsks(t)
      PROVE  AllDated'
  <2>1. /\ task' = [task EXCEPT ![t] = Record("queued", "none", FALSE, TotalAsked + 1)]
        /\ asked' = [asked EXCEPT ![t] = @ + 1] /\ saved' = saved
    BY <1>0, <1>3 DEF Enqueue, RetryAsks
  <2>2. TotalAsked' = TotalAsked + 1
    <3>1. Total(Tasks, [asked EXCEPT ![t] = @ + 1]) = Total(Tasks, asked) + 1
      BY <1>0, QueueAssumption, TotalIncrement
    <3> QED
      BY <2>1, <3>1 DEF TotalAsked
  <2>3. Dated(task', TotalAsked + 1)
    <3>1. Record("queued", "none", FALSE, TotalAsked + 1).order = TotalAsked + 1
      BY DEF Record
    <3>2. task' \in [Tasks -> Rows]
      BY TypeStep DEF QueueTypeOK
    <3>3. (\A u \in Tasks : u # t => task'[u] = task[u]) /\ task'[t].order = TotalAsked + 1
      BY <1>0, <2>1, <3>1
    <3>4. Dated(task, TotalAsked)
      BY DEF AllDated
    <3> QED
      BY <1>0, <3>2, <3>3, <3>4, DatedMore
  <2>4. Dated(saved, TotalAsked + 1)
    BY <1>0, DatedLater DEF AllDated
  <2> QED
    BY <2>1, <2>2, <2>3, <2>4 DEF AllDated, Dated
<1>4. ASSUME NEW t \in Tasks, RetryResumes(t)
      PROVE  AllDated'
  <2>1. PICK p \in Phases : Store(t, Finished(t, "queued", p))
    BY <1>4 DEF RetryResumes, Phases
  <2>2. Finished(t, "queued", p) \in Rows /\ Finished(t, "queued", p).order = task[t].order
    BY <1>0, FinishedRow DEF Statuses
  <2>3. \A u \in Tasks : task'[u].status \in Statuses
                => task[u].status \in Statuses /\ task'[u].order = task[u].order
    BY <1>0, <2>1, <2>2, StoreRow DEF Listed
  <2> QED
    BY <1>1, <1>4, <2>3 DEF RetryResumes
<1>5. ASSUME \A u \in Tasks : task'[u] = task[u] \/ task'[u] = Removed,
             UNCHANGED <<saved, asked>>
      PROVE  AllDated'
  <2>1. Removed.status \notin Statuses
    BY DEF Removed, Record, Statuses
  <2> QED
    BY <1>1, <1>5, <2>1
<1>6. ASSUME NEW t \in Tasks, Cancel(t) \/ EndRemove(t)
      PROVE  AllDated'
  <2>1. \A u \in Tasks : task'[u] = task[u] \/ task'[u] = Removed
    BY <1>0, <1>6 DEF Cancel, EndRemove
  <2> QED
    BY <1>5, <1>6, <2>1 DEF Cancel, EndRemove
<1>7. CASE EndSweep
  <2>1. \A u \in Tasks : task'[u] = task[u] \/ task'[u] = Removed
    BY <1>7 DEF EndSweep
  <2> QED
    BY <1>5, <1>7, <2>1 DEF EndSweep
<1>8. ASSUME NEW t \in Tasks, BeginRemove(t) \/ DeletePreview(t)
      PROVE  AllDated'
  BY <1>5, <1>8 DEF BeginRemove, DeletePreview, storeVars
<1>9. CASE BeginSweep \/ UNCHANGED vars
  BY <1>5, <1>9 DEF BeginSweep, storeVars, vars
<1>10. CASE Persist
  BY <1>10 DEF Persist, AllDated, Dated, TotalAsked, storeVars
<1>11. CASE Launch
  <2>1. \A t \in Tasks : /\ Claimed(task[t]).order = task[t].order
                         /\ Refused(task[t]).order = task[t].order
    BY <1>0, ClaimedRow, RefusedRow
  <2>2. ASSUME NEW t \in Tasks, task'[t].status \in Statuses
        PROVE  task[t].status \in Statuses /\ task'[t].order = task[t].order
    <3>1. /\ task'[t] = IF t \in Begun THEN Claimed(task[t])
                        ELSE IF t \in Launchable THEN Refused(task[t]) ELSE task[t]
          /\ t \in Launchable => task[t].status \in Statuses
          /\ t \in Begun => t \in Launchable
      BY <1>11, LaunchRows DEF Statuses
    <3> QED
      BY <2>1, <2>2, <3>1
  <2> QED
    BY <1>1, <1>11, <2>2 DEF Launch
<1>12. ASSUME NEW q \in [Tasks -> Rows], Dated(q, TotalAsked), Open(q)
       PROVE  AllDated'
  <2>1. ASSUME NEW t \in Tasks, task'[t].status \in Statuses
        PROVE  q[t].status \in Statuses /\ task'[t].order = q[t].order
    <3>1. Unborn.status \notin Statuses /\ Removed.status \notin Statuses
      BY DEF Unborn, Removed, Record, Statuses
    <3>2. task'[t] = IF q[t].status \in Statuses /\ preview[t] # "none" THEN Recovered(t, q[t])
                     ELSE IF task[t] = Unborn THEN Unborn ELSE Removed
      BY <1>12 DEF Open
    <3>3. q[t].status \in Statuses /\ task'[t] = Recovered(t, q[t])
      BY <2>1, <3>1, <3>2
    <3> QED
      BY <3>3, RecoveredStatus
  <2>2. Dated(task', TotalAsked)
    BY <1>12, <2>1, DatedLess
  <2>3. saved' = task' /\ TotalAsked' = TotalAsked
    BY <1>12 DEF Open, TotalAsked
  <2> QED
    BY <2>2, <2>3 DEF AllDated, Dated
<1>13. CASE Switch
  BY <1>0, <1>12, <1>13 DEF Switch, AllDated
<1>14. CASE Reopen
  BY <1>0, <1>12, <1>14 DEF Reopen, AllDated
<1> QED
  BY <1>2, <1>3, <1>4, <1>6, <1>7, <1>8, <1>9, <1>10, <1>11, <1>13, <1>14 DEF Next, User

-----------------------------------------------------------------------------
(* Lanes *)

LanesKept == \A lane \in Lanes : Usage(lane) <= Limit[lane]

Running(lane) == {t \in Tasks : Kind[t] = lane /\ task[t].status = "running"}
Claims(lane) == {t \in Launchable : Kind[t] = lane}

\* Two finite sets together have no more elements than the one and the other.
LEMMA UnionBound ==
    ASSUME NEW S, IsFiniteSet(S), NEW T, IsFiniteSet(T)
    PROVE  /\ IsFiniteSet(S \cup T) /\ Cardinality(S) \in Nat /\ Cardinality(T) \in Nat
           /\ Cardinality(S \cup T) <= Cardinality(S) + Cardinality(T)
<1>1. /\ IsFiniteSet(S \cup T)
      /\ Cardinality(S \cup T) = Cardinality(S) + Cardinality(T) - Cardinality(S \cap T)
  BY FS_Union
<1>2. Cardinality(S \cap T) \in Nat /\ Cardinality(S) \in Nat /\ Cardinality(T) \in Nat
  BY FS_Intersection, FS_CardinalityType
<1> QED
  BY <1>1, <1>2

\* The newest task that is claimed has all the others of its lane ahead of it, and was
\* launchable with them.
LEMMA ClaimsFit ==
    ASSUME QueueTypeOK, AllDated, LanesKept, NEW lane \in Lanes
    PROVE  Cardinality(Running(lane) \cup Claims(lane)) <= Limit[lane]
<1>1. IsFiniteSet(Running(lane)) /\ IsFiniteSet(Claims(lane)) /\ Limit[lane] \in Nat
  BY QueueAssumption, FS_Subset DEF Running, Claims, Launchable
<1>2. Cardinality(Running(lane)) <= Limit[lane]
  BY DEF LanesKept, Usage, Running
<1>3. CASE Claims(lane) = {}
  <2>1. Running(lane) \cup Claims(lane) = Running(lane)
    BY <1>3
  <2> QED
    BY <1>2, <2>1
<1>4. CASE Claims(lane) # {}
  <2> DEFINE f == [t \in Tasks |-> task[t].order]
  <2>1. \A t \in Claims(lane) : t \in Tasks /\ f[t] = task[t].order /\ task[t].order \in Nat
    BY RowTypes DEF Claims, Launchable, QueueTypeOK
  <2> HIDE DEF f
  <2>2. PICK m \in Claims(lane) : \A t \in Claims(lane) : f[t] <= f[m]
    <3>1. \A t \in Claims(lane) : f[t] \in Int
      BY <2>1
    <3> QED
      BY <1>1, <1>4, <3>1, LargestRow
  <2>3. Claims(lane) \subseteq Ahead(m) \cup {m}
    <3>1. ASSUME NEW t \in Claims(lane), t # m
          PROVE  t \in Ahead(m)
      <4>1. /\ t \in Tasks /\ m \in Tasks /\ Kind[t] = lane /\ Kind[m] = lane
            /\ task[t].status = "queued" /\ task[m].status = "queued"
        BY DEF Claims, Launchable
      <4>2. task[t].order # task[m].order
        BY <3>1, <4>1 DEF AllDated, Dated, Statuses
      <4>3. task[t].order < task[m].order
        <5>1. f[t] <= f[m]
          BY <2>2
        <5>2. /\ f[t] = task[t].order /\ f[m] = task[m].order
              /\ task[t].order \in Nat /\ task[m].order \in Nat
          BY <2>1
        <5> QED
          BY <4>2, <5>1, <5>2
      <4> QED
        BY <4>1, <4>3 DEF Ahead
    <3> QED
      BY <3>1
  <2>4. IsFiniteSet(Ahead(m)) /\ IsFiniteSet({m}) /\ Cardinality({m}) = 1
    BY QueueAssumption, FS_Subset, FS_Singleton DEF Ahead
  <2>5. Cardinality(Running(lane)) + Cardinality(Ahead(m)) < Limit[lane]
    BY DEF Claims, Launchable, Usage, Running
  <2>6. /\ IsFiniteSet(Ahead(m) \cup {m})
        /\ Cardinality(Ahead(m) \cup {m}) <= Cardinality(Ahead(m)) + 1
        /\ Cardinality(Ahead(m)) \in Nat
    BY <2>4, UnionBound
  <2>7. /\ IsFiniteSet(Running(lane) \cup (Ahead(m) \cup {m}))
        /\ Cardinality(Running(lane) \cup (Ahead(m) \cup {m}))
             <= Cardinality(Running(lane)) + Cardinality(Ahead(m) \cup {m})
        /\ Cardinality(Running(lane)) \in Nat /\ Cardinality(Ahead(m) \cup {m}) \in Nat
    BY <1>1, <2>6, UnionBound
  <2>8. Cardinality(Running(lane) \cup Claims(lane))
          <= Cardinality(Running(lane) \cup (Ahead(m) \cup {m}))
    <3>1. Running(lane) \cup Claims(lane) \subseteq Running(lane) \cup (Ahead(m) \cup {m})
      BY <2>3
    <3> QED
      BY <2>7, <3>1, FS_Subset
  <2>9. /\ Cardinality(Running(lane) \cup (Ahead(m) \cup {m})) \in Nat
        /\ Cardinality(Running(lane) \cup Claims(lane)) \in Nat
    BY <1>1, <2>7, UnionBound, FS_CardinalityType
  <2> QED
    BY <1>1, <2>5, <2>6, <2>7, <2>8, <2>9
<1> QED
  BY <1>3, <1>4

\* Only the runner makes tasks run, and only as many as fit.
LEMMA LanesStep ==
    ASSUME QueueTypeOK, AllDated, LanesKept, Executed, [Next]_vars
    PROVE  LanesKept'
<1>1. ASSUME \A t \in Tasks : task'[t].status = "running" => task[t].status = "running"
      PROVE  LanesKept'
  <2>1. ASSUME NEW lane \in Lanes
        PROVE  Usage(lane)' <= Limit[lane]
    <3>1. Running(lane)' \subseteq Running(lane) /\ IsFiniteSet(Running(lane))
      BY <1>1, QueueAssumption, FS_Subset DEF Running
    <3>2. /\ Cardinality(Running(lane)') <= Cardinality(Running(lane))
          /\ Cardinality(Running(lane)') \in Nat /\ Cardinality(Running(lane)) \in Nat
      BY <3>1, FS_Subset, FS_CardinalityType
    <3>3. /\ Usage(lane)' = Cardinality(Running(lane)')
          /\ Usage(lane) = Cardinality(Running(lane))
      BY DEF Usage, Running
    <3>4. Limit[lane] \in Nat
      BY QueueAssumption
    <3> QED
      BY <3>2, <3>3, <3>4 DEF LanesKept
  <2> QED
    BY <2>1 DEF LanesKept
<1>2. CASE Launch
  <2>1. ASSUME NEW lane \in Lanes
        PROVE  Usage(lane)' <= Limit[lane]
    <3>1. \A t \in Tasks : task'[t].status = "running"
                             => task[t].status = "running" \/ t \in Launchable
      BY <1>2, LaunchRows
    <3>2. Running(lane)' \subseteq Running(lane) \cup Claims(lane)
      BY <3>1 DEF Running, Claims
    <3>3. IsFiniteSet(Running(lane) \cup Claims(lane))
      BY QueueAssumption, FS_Subset, FS_Union DEF Running, Claims, Launchable
    <3>4. /\ Cardinality(Running(lane)') <= Cardinality(Running(lane) \cup Claims(lane))
          /\ Cardinality(Running(lane)') \in Nat
          /\ Cardinality(Running(lane) \cup Claims(lane)) \in Nat /\ Limit[lane] \in Nat
      BY <3>2, <3>3, QueueAssumption, FS_Subset, FS_CardinalityType
    <3>5. Usage(lane)' = Cardinality(Running(lane)')
      BY DEF Usage, Running
    <3> QED
      BY <3>4, <3>5, ClaimsFit
  <2> QED
    BY <2>1 DEF LanesKept
<1>3. ASSUME NEW r \in runs, NEW w \in Rows, Store(r.task, w),
             w.status \in {task[r.task].status, "error", "done"}
      PROVE  LanesKept'
  <2>1. r.task \in Tasks
    BY MovedRuns DEF QueueTypeOK
  <2>2. \A t \in Tasks : task'[t].status = "running" => task[t].status = "running"
    BY <1>3, <2>1, StoreRow DEF QueueTypeOK
  <2> QED
    BY <1>1, <2>2
<1>4. CASE \E r \in runs : Advances(r) \/ Settles(r) \/ Drops(r)
  BY <1>1, <1>3, <1>4 DEF Advances, Settles, Drops
<1>5. CASE Reshelves \/ Opens
  BY <1>1, <1>5 DEF Reshelves, Opens
<1> QED
  BY <1>2, <1>4, <1>5, NextKinds

-----------------------------------------------------------------------------
(* The results *)

QueueInv == QueueTypeOK /\ Executed /\ AllDated /\ LanesKept

\* The empty queue satisfies the invariant.
LEMMA QueueInitInv == ASSUME Init PROVE QueueInv
<1>1. /\ Unborn \in Rows /\ Unborn.status = "unborn"
  BY DEF Unborn, Record, Rows, Statuses, Phases
<1>2. QueueTypeOK
  BY <1>1 DEF Init, QueueTypeOK
<1>3. Executed
  <2>1. \A t \in Tasks : Working(t) = {} /\ Acknowledging(t) = {} /\ task[t].status = "unborn"
    BY <1>1 DEF Init, Working, Acknowledging
  <2>2. runs = {}
    BY DEF Init
  <2> QED
    BY <2>1, <2>2 DEF Executed
<1>4. AllDated
  BY <1>1 DEF Init, AllDated, Dated, Statuses
<1>5. LanesKept
  <2>1. ASSUME NEW lane \in Lanes
        PROVE  Usage(lane) <= Limit[lane]
    <3>1. {t \in Tasks : Kind[t] = lane /\ task[t].status = "running"} = {}
      BY <1>1 DEF Init
    <3>2. Limit[lane] \in Nat
      BY QueueAssumption
    <3>3. Usage(lane) = 0
      BY <3>1, FS_EmptySet DEF Usage
    <3> QED
      BY <3>2, <3>3
  <2> QED
    BY <2>1 DEF LanesKept
<1> QED
  BY <1>2, <1>3, <1>4, <1>5 DEF QueueInv

\* The typed rows and executions, a claimed task's one execution, the distinct dates and
\* the limits of the lanes hold in every reachable state: the invariant that the
\* theorems about the queue follow from.
THEOREM QueueInvariance == Spec => []QueueInv
<1>1. QueueInv /\ [Next]_vars => QueueInv'
  BY TypeStep, ExecutedStep, DatedStep, LanesStep DEF QueueInv
<1> QED
  BY <1>1, QueueInitInv, PTL DEF Spec

\* RunningIsExecuted, for any tasks, limits and numbers of retries and reloads: a task
\* that runs has exactly one execution of the current version, and no lane exceeds its limit.
THEOREM RunningTasksExecuted == Spec => []RunningIsExecuted
<1>1. ASSUME QueueInv
      PROVE  RunningIsExecuted
  <2>1. ASSUME NEW t \in Tasks, Listed(t)
        PROVE  Cardinality(Working(t)) = IF task[t].status = "running" THEN 1 ELSE 0
    <3>1. CASE task[t].status = "running"
      BY <1>1, <3>1, FS_Singleton DEF QueueInv, Executed
    <3>2. CASE task[t].status # "running"
      <4>1. Working(t) = {}
        BY <1>1, <2>1, <3>2 DEF QueueInv, Executed, Listed, Statuses
      <4> QED
        BY <3>2, <4>1, FS_EmptySet
    <3> QED
      BY <3>1, <3>2
  <2>2. ASSUME NEW lane \in Lanes
        PROVE  Cardinality({t \in Tasks : Kind[t] = lane /\ Listed(t) /\ Working(t) # {}})
                 <= Limit[lane]
    <3> DEFINE busy == {t \in Tasks : Kind[t] = lane /\ Listed(t) /\ Working(t) # {}}
    <3>1. busy \subseteq Running(lane)
      BY <1>1 DEF QueueInv, Executed, Listed, Statuses, Running
    <3>2. IsFiniteSet(Running(lane))
      BY QueueAssumption, FS_Subset DEF Running
    <3> HIDE DEF busy
    <3>3. /\ Cardinality(busy) <= Cardinality(Running(lane))
          /\ Cardinality(busy) \in Nat /\ Cardinality(Running(lane)) \in Nat
      BY <3>1, <3>2, FS_Subset, FS_CardinalityType
    <3>4. Cardinality(Running(lane)) <= Limit[lane] /\ Limit[lane] \in Nat
      BY <1>1, QueueAssumption DEF QueueInv, LanesKept, Usage, Running
    <3>5. Cardinality(busy) <= Limit[lane]
      BY <3>3, <3>4
    <3> QED
      BY <3>5 DEF busy
  <2> QED
    BY <2>1, <2>2 DEF RunningIsExecuted
<1> QED
  BY <1>1, QueueInvariance, PTL

\* The runs' property of the newest result: only a settling task, a cancellation or a
\* removal brings the source node up to date, each from the queue it leaves.
Resettles ==
    \E t \in Tasks : \E own \in {t, NoTask} : \E p :
      /\ output' = SettledOutput(task', p, t, own)
      /\ \A v \in Successes(task') : p[v] = preview'[v]

\* Every step leaves what the source node shows, or settles it for some task.
LEMMA OutputKinds ==
    ASSUME QueueTypeOK, [Next]_vars
    PROVE  UNCHANGED output \/ Resettles
<1>1. ASSUME NEW t \in Tasks, NEW own \in {t, NoTask}, NEW p,
             output' = SettledOutput(task', p, t, own),
             \A v \in Successes(task') : p[v] = preview'[v]
      PROVE  Resettles
  BY <1>1 DEF Resettles
<1>2. ASSUME NEW r \in runs, Step(r)
      PROVE  UNCHANGED output \/ Resettles
  <2>1. r.task \in Tasks
    BY MovedRuns DEF QueueTypeOK
  <2>2. ASSUME NEW at, Deliver(r, at)
        PROVE  UNCHANGED output \/ Resettles
    <3>1. output' = output \/ output' = SettledOutput(task', preview', r.task, r.task)
      BY <2>2 DEF Deliver
    <3> QED
      BY <1>1, <2>1, <3>1
  <2>3. CASE ClearStaged(r)
    <3>1. /\ output' = SettledOutput(task, preview, r.task, r.task)
          /\ task' = task /\ preview' = preview
      BY <2>3 DEF ClearStaged, storeVars
    <3>2. output' = SettledOutput(task', preview', r.task, r.task)
      BY <3>1
    <3> QED
      BY <1>1, <2>1, <3>2
  <2>4. CASE Save(r) \/ ResolveOfficial(r)
    BY <2>2, <2>4 DEF Save, ResolveOfficial, canvasVars
  <2>5. CASE Fail(r)
    <3>1. /\ output' = output \/ output' = SettledOutput(task', preview, r.task, NoTask)
          /\ preview' = preview
      BY <2>5 DEF Fail
    <3> QED
      BY <1>1, <2>1, <3>1
  <2>6. CASE Stale(r) \/ Ask(r) \/ Answer(r) \/ Poll(r) \/ Stage(r) \/ LoadStaged(r)
               \/ CreateOfficial(r) \/ PollOfficial(r) \/ Acknowledge(r)
    BY <2>6 DEF Stale, Ask, Answer, Poll, Stage, LoadStaged, CreateOfficial, PollOfficial,
                Acknowledge, canvasVars
  <2> QED
    BY <1>2, <2>3, <2>4, <2>5, <2>6 DEF Step
<1>3. ASSUME NEW t \in Tasks, Cancel(t)
      PROVE  Resettles
  <2>1. /\ output' = SettledOutput(task', preview, t, NoTask)
        /\ task' = [task EXCEPT ![t] = Removed]
        /\ preview' = IF preview[t] = "empty" THEN [preview EXCEPT ![t] = "none"] ELSE preview
    BY <1>3 DEF Cancel
  <2>2. ASSUME NEW v \in Successes(task')
        PROVE  preview[v] = preview'[v]
    <3>1. v \in Tasks /\ task'[v].status = "done" /\ Removed.status = "removed"
      BY DEF Successes, Removed, Record
    <3>2. v # t
      BY <2>1, <3>1 DEF QueueTypeOK
    <3> QED
      BY <2>1, <3>1, <3>2 DEF QueueTypeOK
  <2> QED
    BY <1>1, <2>1, <2>2
<1>4. ASSUME NEW t \in Tasks, EndRemove(t)
      PROVE  Resettles
  <2>1. output' = SettledOutput(task', preview, t, NoTask) /\ preview' = preview
    BY <1>4 DEF EndRemove
  <2> QED
    BY <1>1, <2>1
<1>5. ASSUME NEW t \in Tasks, \/ Enqueue(t) \/ RetryResumes(t) \/ RetryAsks(t) \/ BeginRemove(t)
                              \/ DeletePreview(t)
      PROVE  UNCHANGED output
  BY <1>5 DEF Enqueue, RetryResumes, RetryAsks, BeginRemove, DeletePreview, canvasVars
<1>6. CASE BeginSweep \/ EndSweep \/ Persist \/ UNCHANGED vars
  BY <1>6 DEF BeginSweep, EndSweep, Persist, canvasVars, vars
<1>8. CASE Launch
  <2>1. UNCHANGED preview
    BY <1>8 DEF Launch
  <2> QED
    BY <1>1, <1>8, <2>1, LaunchOutput
<1>7. CASE Switch \/ Reopen
  BY <1>7 DEF Switch, Reopen, Open, canvasVars
<1> QED
  BY <1>2, <1>3, <1>4, <1>5, <1>6, <1>7, <1>8 DEF Next, User

\* NewestWins: an older success does not replace a newer one on the source node, as long as
\* the successes at least as new have their result nodes.
THEOREM NewestResultWins == Spec => NewestWins
<1> DEFINE Wins(u) ==
      (/\ output = u /\ output' \in Tasks
       /\ task[u].status = "done" /\ task'[u] = task[u]
       /\ task'[output'].status = "done"
       /\ \A v \in Successes(task') : task'[v].order >= task[u].order => preview'[v] = "image")
      => task'[output'].order >= task[u].order
<1>1. ASSUME QueueInv, [Next]_vars, NEW u \in Tasks
      PROVE  Wins(u)
  <2>1. QueueTypeOK /\ task' \in [Tasks -> Rows]
    BY <1>1, TypeStep DEF QueueInv, QueueTypeOK
  <2>2. \A v \in Tasks : task[v].order \in Nat /\ task'[v].order \in Nat
    BY <2>1, RowTypes DEF QueueTypeOK
  <2> SUFFICES ASSUME output = u, output' \in Tasks, task[u].status = "done", task'[u] = task[u],
                      \A v \in Successes(task') :
                         task'[v].order >= task[u].order => preview'[v] = "image"
               PROVE  task'[output'].order >= task[u].order
    OBVIOUS
  <2>3. CASE output' = output
    BY <2>2, <2>3
  <2>4. CASE Resettles /\ output' # output
    <3>0. PICK t \in Tasks : \E own \in {t, NoTask} : \E p :
            /\ output' = SettledOutput(task', p, t, own)
            /\ \A v \in Successes(task') : p[v] = preview'[v]
      BY <2>4 DEF Resettles
    <3>1. PICK own, p :
            /\ output' = SettledOutput(task', p, t, own)
            /\ \A v \in Successes(task') : p[v] = preview'[v]
      BY <3>0
    <3>2. u \in Successes(task')
      <4>1. Image(u)
        BY <2>1, QueueAssumption DEF QueueTypeOK
      <4> QED
        BY <4>1 DEF Successes
    <3>3. /\ Newest(task') \in Successes(task')
          /\ task'[u].order <= task'[Newest(task')].order
      BY <2>1, <3>2, NewestIsNewest
    <3>4. Newest(task') \in Tasks
      BY <3>3 DEF Successes
    <3>5. p[Newest(task')] = "image"
      BY <2>2, <3>1, <3>3, <3>4
    <3>6. output' = Newest(task')
      BY <2>4, <3>1, <3>2, <3>5 DEF SettledOutput
    <3> QED
      BY <2>2, <3>3, <3>4, <3>6
  <2> QED
    BY <1>1, <2>1, <2>3, <2>4, OutputKinds
<1>2. QueueInv /\ [Next]_vars => [\A u \in Tasks : Wins(u)]_vars
  BY <1>1
<1> QED
  BY <1>2, QueueInvariance, PTL DEF Spec, NewestWins

-----------------------------------------------------------------------------
(* What has arrived is kept *)

\* Images that a provider makes: their result exists once only.
Provided(t) == Image(t) /\ t \notin Official

\* The result of t has arrived, as the vault or an execution knows.
Arrived(t) ==
    \/ saved[t].status \in Statuses /\ saved[t].phase = "persisting"
    \/ \E r \in runs : r.task = t /\ r.at \in {"staging", "loading", "saving"}

\* A row that keeps its result to be saved, or is through with it.
Keeps(w) == w.status \in {"done", "removed"} \/ (w.status \in Statuses /\ w.phase = "persisting")

\* Somebody of the current version still asks the provider about t, or is about to.
Waiting == {"preparing", "requesting", "polling"}
Asking(t) == \E r \in runs : r.task = t /\ Current(r) /\ r.at \in Waiting

Kept ==
    /\ \A r \in runs : r.task \notin Official =>
                    r.at \notin {"creating", "resolving", "acknowledging"}
    /\ \A t \in Tasks : Provided(t) =>
         /\ Arrived(t) => Keeps(task[t])
         /\ Asking(t) /\ task[t].status \in Statuses => task[t].phase # "persisting"

\* An execution at work has a running task, or one that was removed meanwhile.
LEMMA AtWork ==
    ASSUME QueueTypeOK, Executed, NEW r \in runs, Current(r),
           r.at \notin {"clearing", "acknowledging"}
    PROVE  /\ task[r.task].status \in {"running", "removed"}
           /\ task[r.task].status = "running" =>
                \A x \in runs : /\ x.task = r.task /\ Current(x)
                                /\ x.at \notin {"clearing", "acknowledging"}
                                => x = r
<1>1. r.task \in Tasks /\ task[r.task] \in Rows
  BY MovedRuns DEF QueueTypeOK
<1>2. r \in Working(r.task)
  BY DEF Working
<1>3. task[r.task].status \in Statuses \cup {"unborn", "removed"}
  BY <1>1, RowTypes
<1>4. task[r.task].status \in {"running", "removed"}
  BY <1>1, <1>2, <1>3 DEF Executed, Statuses
<1>5. ASSUME task[r.task].status = "running", NEW x \in runs, x.task = r.task, Current(x),
             x.at \notin {"clearing", "acknowledging"}
      PROVE  x = r
  <2>1. PICK y \in runs : Working(r.task) = {y}
    BY <1>1, <1>5 DEF Executed
  <2>2. x \in Working(r.task)
    BY <1>5 DEF Working
  <2> QED
    BY <1>2, <2>1, <2>2
<1> QED
  BY <1>4, <1>5

\* A step of an execution concerns its own task only.
LEMMA KeptOthers ==
    ASSUME QueueTypeOK, Kept, NEW r \in runs, Step(r), NEW t \in Tasks, t # r.task, Provided(t)
    PROVE  /\ Arrived(t)' => Keeps(task'[t])
           /\ Asking(t)' /\ task'[t].status \in Statuses => task'[t].phase # "persisting"
<1>1. r \in Executions /\ r.task \in Tasks
  BY MovedRuns DEF QueueTypeOK
<1>2. UNCHANGED <<version, saved>>
  BY StepKinds
<1>3. task'[t] = task[t]
  <2>1. UNCHANGED task \/ \E w \in Rows : Store(r.task, w)
    BY StepKinds DEF Advances, Settles, Drops
  <2> QED
    BY <1>1, <2>1, StoreRow DEF QueueTypeOK
<1>4. \A x \in runs' : x.task = t => x \in runs
  <2>1. End(r) \/ \E at \in Places : Goto(r, at)
    BY StepKinds DEF Advances, Settles, Drops, Places
  <2>2. \A at : [r EXCEPT !.at = at].task = r.task
    BY <1>1 DEF Executions
  <2> QED
    BY <2>1, <2>2 DEF End, Goto
<1>5. Arrived(t)' => Arrived(t)
  BY <1>2, <1>4 DEF Arrived
<1>6. Asking(t)' => Asking(t)
  BY <1>2, <1>4 DEF Asking, Current
<1> QED
  BY <1>3, <1>5, <1>6 DEF Kept

\* The executions that there are after a step of r.
LEMMA NextRuns ==
    ASSUME QueueTypeOK, NEW r \in runs
    PROVE  /\ End(r) => \A x \in runs' : x \in runs /\ x # r
           /\ \A at \in Places : Goto(r, at) =>
                \A x \in runs' : \/ x \in runs /\ x # r
                                 \/ x.task = r.task /\ x.version = r.version /\ x.at = at
BY DEF QueueTypeOK, Executions, End, Goto

\* A step of an execution keeps what has arrived for its own task.
LEMMA KeptOwn ==
    ASSUME QueueTypeOK, Executed, Kept, NEW r \in runs, Step(r), Provided(r.task)
    PROVE  /\ Arrived(r.task)' => Keeps(task'[r.task])
           /\ Asking(r.task)' /\ task'[r.task].status \in Statuses
                => task'[r.task].phase # "persisting"
<1> DEFINE t == r.task
           Goal == /\ Arrived(t)' => Keeps(task'[t])
                   /\ Asking(t)' /\ task'[t].status \in Statuses => task'[t].phase # "persisting"
<1>1. t \in Tasks /\ t \notin Official /\ Image(t) /\ task[t] \in Rows /\ r.at \in Places
  BY MovedRuns DEF QueueTypeOK, Provided
<1>2. UNCHANGED <<version, saved>>
  BY StepKinds
<1>3. task[t].status \in Statuses \cup {"unborn", "removed"} /\ "persisting" \in Phases
      /\ "polling" \in Phases /\ "none" \in Phases /\ "error" \in Statuses /\ "done" \in Statuses
  BY <1>1, RowTypes DEF Phases, Statuses
<1>4. /\ Arrived(t) => Keeps(task[t])
      /\ Asking(t) /\ task[t].status \in Statuses => task[t].phase # "persisting"
  BY <1>1 DEF Kept, Provided
<1>5. r.at \in {"staging", "loading", "saving"} => Arrived(t)
  BY DEF Arrived
<1>6. r.at \notin {"creating", "resolving", "acknowledging"}
  BY <1>1 DEF Kept
<1>7. /\ Current(r) /\ r.at # "clearing" => task[t].status \in {"running", "removed"}
      /\ Current(r) /\ r.at # "clearing" /\ task[t].status = "running" =>
           \A x \in runs : /\ x.task = t /\ Current(x)
                           /\ x.at \in Waiting
                           => x = r
  BY <1>6, AtWork DEF Waiting
\* A write of the phase, if there is something to write to.
<1>8. ASSUME NEW p \in Phases, Store(t, Phase(t, p))
      PROVE  /\ task'[t].status = task[t].status
             /\ task[t].status \in Statuses => task'[t].phase = p
             /\ task[t].status \notin Statuses => task'[t] = task[t]
  <2>1. Phase(t, p) \in Rows /\ Phase(t, p).status = task[t].status /\ Phase(t, p).phase = p
    BY <1>1, PhaseRow
  <2> QED
    BY <1>1, <1>8, <2>1, StoreRow DEF Listed, QueueTypeOK
<1>9. ASSUME End(r), UNCHANGED task
      PROVE  Goal
  <2>1. \A x \in runs' : x \in runs
    BY <1>9, NextRuns
  <2>2. (Arrived(t)' => Arrived(t)) /\ (Asking(t)' => Asking(t))
    BY <1>2, <2>1 DEF Arrived, Asking, Current
  <2> QED
    BY <1>4, <1>9, <2>2
\* The answer has come.
<1>10. ASSUME Current(r), r.at \in Waiting, Store(t, Phase(t, "persisting")),
              Goto(r, "staging")
       PROVE  Goal
  <2>1. task[t].status \in {"running", "removed"}
    BY <1>7, <1>10 DEF Waiting
  <2>2. CASE task[t].status = "removed"
    <3>1. task'[t].status = "removed"
      BY <1>3, <1>8, <1>10, <2>2
    <3> QED
      BY <3>1 DEF Keeps, Statuses
  <2>3. CASE task[t].status = "running"
    <3>1. task'[t].status = "running" /\ task'[t].phase = "persisting"
      BY <1>3, <1>8, <1>10, <2>3 DEF Statuses
    <3>2. Keeps(task'[t])
      BY <3>1 DEF Keeps, Statuses
    <3>3. ~Asking(t)'
      <4>1. \A x \in runs' : (x \in runs /\ x # r) \/ x.at = "staging"
        BY <1>10, NextRuns DEF Places
      <4>2. ASSUME NEW x \in runs', x.task = t,
                   x.version = version, x.at \in Waiting
            PROVE  FALSE
        BY <1>7, <1>10, <2>3, <4>1, <4>2 DEF Current, Waiting
      <4> QED
        BY <1>2, <4>2 DEF Asking, Current
    <3> QED
      BY <3>2, <3>3
  <2> QED
    BY <2>1, <2>2, <2>3
\* The result goes on to be saved.
<1>11. ASSUME r.at \in {"staging", "loading"}, Store(t, Phase(t, "persisting")), Goto(r, "saving")
       PROVE  Goal
  <2>1. Keeps(task[t])
    BY <1>4, <1>5, <1>11
  <2>2. /\ task'[t].status = task[t].status
        /\ task[t].status \in Statuses => task'[t].phase = "persisting"
    BY <1>3, <1>8, <1>11
  <2>3. Keeps(task'[t])
    BY <2>1, <2>2 DEF Keeps
  <2>4. ASSUME Asking(t)', task[t].status \in Statuses
        PROVE  FALSE
    <3>1. PICK x \in runs' : x.task = t /\ x.version = version /\ x.at \in Waiting
      BY <1>2, <2>4 DEF Asking, Current
    <3>2. x \in runs
      BY <1>11, <3>1, NextRuns DEF Places, Waiting
    <3>3. Asking(t) /\ task[t].status \in {"running", "removed"}
      BY <3>1, <3>2, AtWork DEF Asking, Current, Waiting
    <3>4. task[t].phase = "persisting"
      BY <2>1, <2>4, <3>3 DEF Keeps, Statuses
    <3> QED
      BY <1>4, <2>4, <3>3, <3>4
  <2> QED
    BY <2>2, <2>3, <2>4
<1>19. CASE Ask(r)
  <2>1. r.at = "preparing" /\ Goto(r, "requesting") /\ UNCHANGED task
    BY <1>19 DEF Ask, storeVars
  <2>2. \A x \in runs' : \/ x \in runs
                         \/ x.task = t /\ x.version = r.version /\ x.at = "requesting"
    BY <2>1, NextRuns DEF Places
  <2>3. Arrived(t)' => Arrived(t)
    BY <1>2, <2>2 DEF Arrived
  <2>4. Asking(t)' => Asking(t)
    BY <1>2, <2>1, <2>2 DEF Asking, Current, Waiting
  <2> QED
    BY <1>4, <2>1, <2>3, <2>4
<1>12. CASE Stale(r) \/ ClearStaged(r) \/ Acknowledge(r)
  BY <1>9, <1>12 DEF Stale, ClearStaged, Acknowledge, storeVars
<1>13. CASE Answer(r)
  <2>1. CASE Store(t, Phase(t, "persisting")) /\ Goto(r, "staging")
    BY <1>10, <1>13, <2>1 DEF Answer, Waiting
  <2>2. CASE /\ Store(t, [task[t] EXCEPT !.remote = TRUE, !.phase = "polling"])
             /\ Goto(r, "polling")
    <3> DEFINE w == [task[t] EXCEPT !.remote = TRUE, !.phase = "polling"]
    <3>1. w \in Rows /\ w.status = task[t].status /\ w.phase = "polling"
      BY <1>1, <1>3, PhaseRow
    <3>2. /\ task[t].status \in Statuses => task'[t].phase = "polling"
          /\ task'[t].status = task[t].status
      BY <1>1, <2>2, <3>1, StoreRow DEF Listed, QueueTypeOK
    <3>3. Current(r) /\ r.at = "requesting" /\ task[t].status \in {"running", "removed"}
      BY <1>7, <1>13 DEF Answer
    <3>4. CASE task[t].status = "removed"
      BY <3>2, <3>4 DEF Keeps, Statuses
    <3>5. CASE task[t].status = "running"
      <4>1. Asking(t)
        BY <3>3 DEF Asking, Waiting
      <4>2. ~Arrived(t)
        BY <1>4, <3>5, <4>1 DEF Keeps, Statuses
      <4>3. \A x \in runs' : x \in runs \/ x.at = "polling"
        BY <2>2, NextRuns DEF Places
      <4>4. ~Arrived(t)'
        BY <1>2, <4>2, <4>3 DEF Arrived
      <4> QED
        BY <3>2, <3>5, <4>4 DEF Statuses
    <3> QED
      BY <3>3, <3>4, <3>5
  <2> QED
    BY <1>13, <2>1, <2>2 DEF Answer
<1>14. CASE Poll(r)
  BY <1>1, <1>10, <1>14 DEF Poll, Waiting
<1>15. CASE Stage(r) \/ LoadStaged(r)
  BY <1>11, <1>15 DEF Stage, LoadStaged
<1>16. CASE Save(r)
  <2>1. CASE Current(r)
    <3>1. r.at = "saving" /\ Deliver(r, "clearing")
      BY <1>1, <1>16, <2>1 DEF Save
    <3>2. task[t].status \in {"running", "removed"}
      BY <1>7, <2>1, <3>1
    <3>3. task' = IF Listed(t) THEN [task EXCEPT ![t] = Finished(t, "done", "none")] ELSE task
      BY <3>1 DEF Deliver
    <3>4. Finished(t, "done", "none").status = "done" /\ Finished(t, "done", "none").phase = "none"
      BY <1>1, <1>3, FinishedRow
    <3>5. CASE Listed(t)
      <4>1. task'[t].status = "done" /\ task'[t].phase = "none"
        BY <1>1, <3>3, <3>4, <3>5 DEF QueueTypeOK
      <4> QED
        BY <4>1 DEF Keeps
    <3>6. CASE ~Listed(t)
      <4>1. task'[t] = task[t] /\ task[t].status = "removed"
        BY <3>2, <3>3, <3>6 DEF Listed, Statuses
      <4> QED
        BY <4>1 DEF Keeps, Statuses
    <3> QED
      BY <3>5, <3>6
  <2>2. CASE ~Current(r)
    BY <1>9, <1>16, <2>2 DEF Save
  <2> QED
    BY <2>1, <2>2
<1>17. CASE CreateOfficial(r) \/ PollOfficial(r) \/ ResolveOfficial(r)
  BY <1>1, <1>6, <1>17 DEF CreateOfficial, PollOfficial, ResolveOfficial
<1>18. CASE Fail(r)
  <2>1. CASE Current(r)
    <3>1. /\ r.at # "clearing" /\ End(r)
          /\ \E phase \in {"persisting", task[t].phase} :
               task' = IF Listed(t) THEN [task EXCEPT ![t] = Finished(t, "error", phase)]
                                    ELSE task
      BY <1>18, <2>1 DEF Fail
    <3>2. task[t].status \in {"running", "removed"}
      BY <1>7, <2>1, <3>1
    <3>3. PICK phase \in {"persisting", task[t].phase} :
            task' = IF Listed(t) THEN [task EXCEPT ![t] = Finished(t, "error", phase)] ELSE task
      BY <3>1
    <3>4. phase \in Phases
      BY <1>1, <1>3, RowTypes
    <3>5. Finished(t, "error", phase).status = "error" /\ Finished(t, "error", phase).phase = phase
      BY <1>1, <1>3, <3>4, FinishedRow
    <3>6. \A x \in runs' : x \in runs /\ x # r
      BY <3>1, NextRuns
    <3>7. Arrived(t)' => Arrived(t)
      BY <1>2, <3>6 DEF Arrived
    <3>8. CASE task[t].status = "removed"
      <4>1. task'[t] = task[t]
        BY <3>3, <3>8 DEF Listed, Statuses
      <4> QED
        BY <3>8, <4>1 DEF Keeps, Statuses
    <3>9. CASE task[t].status = "running"
      <4>1. task'[t].status = "error" /\ task'[t].phase = phase
        BY <1>1, <3>3, <3>5, <3>9 DEF QueueTypeOK, Listed, Statuses
      <4>2. Arrived(t) => phase = "persisting"
        BY <1>4, <3>9 DEF Keeps, Statuses
      <4>3. ~Asking(t)'
        <5>1. ASSUME NEW x \in runs', x.task = t,
                     x.version = version, x.at \in Waiting
              PROVE  FALSE
          BY <1>7, <2>1, <3>1, <3>6, <3>9, <5>1 DEF Current
        <5> QED
          BY <1>2, <5>1 DEF Asking, Current
      <4> QED
        BY <1>3, <3>7, <4>1, <4>2, <4>3 DEF Keeps
    <3> QED
      BY <3>2, <3>8, <3>9
  <2>2. CASE ~Current(r)
    BY <1>9, <1>18, <2>2 DEF Fail
  <2> QED
    BY <2>1, <2>2
<1> QED
  BY <1>12, <1>13, <1>14, <1>15, <1>16, <1>17, <1>18, <1>19 DEF Step

\* An execution of the platform's is never one of a provider's image.
LEMMA PlacesStep ==
    ASSUME QueueTypeOK, Kept, [Next]_vars
    PROVE  \A x \in runs' : x.task \notin Official =>
                        x.at \notin {"creating", "resolving", "acknowledging"}
<1>1. \A x \in runs : x.task \notin Official =>
                   x.at \notin {"creating", "resolving", "acknowledging"}
  BY DEF Kept
<1>2. ASSUME runs' \subseteq runs
      PROVE  \A x \in runs' : x.task \notin Official =>
                          x.at \notin {"creating", "resolving", "acknowledging"}
  BY <1>1, <1>2
<1>3. CASE Launch
  <2>1. \A x \in runs' : x \in runs \/ \E t \in Begun : x.task = t /\ x.at = Entry(t)
    BY <1>3 DEF Launch
  <2>2. \A t : t \notin Official => Entry(t) \notin {"creating", "resolving", "acknowledging"}
    BY DEF Entry
  <2> QED
    BY <1>1, <2>1, <2>2
<1>4. ASSUME NEW r \in runs, Step(r)
      PROVE  \A x \in runs' : x.task \notin Official =>
                          x.at \notin {"creating", "resolving", "acknowledging"}
  <2>1. ASSUME NEW at \in Places \ {"creating", "resolving", "acknowledging"}, Goto(r, at)
        PROVE  \A x \in runs' : x.task \notin Official =>
                            x.at \notin {"creating", "resolving", "acknowledging"}
    BY <1>1, <2>1, NextRuns
  <2>2. ASSUME NEW at \in Places, Goto(r, at), r.task \in Official
        PROVE  \A x \in runs' : x.task \notin Official =>
                            x.at \notin {"creating", "resolving", "acknowledging"}
    BY <1>1, <2>2, NextRuns
  <2>3. End(r) => runs' \subseteq runs
    BY NextRuns
  <2>4. {"preparing", "requesting", "polling", "staging", "loading", "saving", "clearing"}
           = Places \ {"creating", "resolving", "acknowledging"}
        /\ "resolving" \in Places /\ "acknowledging" \in Places
    BY DEF Places
  <2>5. CASE Stale(r) \/ ClearStaged(r) \/ Acknowledge(r) \/ Fail(r)
    BY <1>2, <2>3, <2>5 DEF Stale, ClearStaged, Acknowledge, Fail
  <2>6. CASE Ask(r) \/ Answer(r) \/ Poll(r) \/ Stage(r) \/ LoadStaged(r) \/ CreateOfficial(r)
    BY <2>1, <2>4, <2>6 DEF Ask, Answer, Poll, Stage, LoadStaged, CreateOfficial
  <2>7. CASE Save(r)
    <3>1. End(r) \/ Goto(r, "clearing")
      BY <2>7 DEF Save, Deliver
    <3> QED
      BY <1>2, <2>1, <2>3, <2>4, <3>1
  <2>8. CASE PollOfficial(r)
    BY <2>2, <2>4, <2>8 DEF PollOfficial
  <2>9. CASE ResolveOfficial(r)
    <3>1. r.at = "resolving" /\ Goto(r, "acknowledging")
      BY <2>9 DEF ResolveOfficial, Deliver
    <3>2. r.task \in Official
      BY <1>1, <3>1
    <3> QED
      BY <2>2, <2>4, <3>1, <3>2
  <2> QED
    BY <1>4, <2>5, <2>6, <2>7, <2>8, <2>9 DEF Step
<1>5. CASE Reshelves \/ Opens
  BY <1>2, <1>5 DEF Reshelves, Opens
<1>6. CASE ~(\E r \in runs : Step(r)) /\ ~Launch
  <2>1. runs' \subseteq runs
    BY <1>6 DEF Next, User, Enqueue, RetryResumes, RetryAsks, Cancel, BeginRemove, DeletePreview,
                BeginSweep, Switch, EndRemove, EndSweep, Persist, Reopen, vars
  <2> QED
    BY <1>2, <2>1
<1> QED
  BY <1>3, <1>4, <1>6

\* What the runner claims to ask for has not arrived.
LEMMA KeptLaunch ==
    ASSUME QueueTypeOK, Executed, Kept, Launch, NEW t \in Tasks, Provided(t)
    PROVE  /\ Arrived(t)' => Keeps(task'[t])
           /\ Asking(t)' /\ task'[t].status \in Statuses => task'[t].phase # "persisting"
<1>1. /\ task[t] \in Rows /\ t \notin Official /\ UNCHANGED <<version, saved>>
      /\ task'[t] = IF t \in Begun THEN Claimed(task[t])
                    ELSE IF t \in Launchable THEN Refused(task[t]) ELSE task[t]
  BY LaunchRows DEF QueueTypeOK, Provided, Launch
<1>2. \A x \in runs' : x.task = t => x \in runs \/ (t \in Launchable /\ x.at = Entry(t))
  BY LaunchRows DEF Launch
<1>3. /\ Arrived(t) => Keeps(task[t])
      /\ Asking(t) /\ task[t].status \in Statuses => task[t].phase # "persisting"
  BY DEF Kept
<1>4. /\ Claimed(task[t]).status = "running"
      /\ Claimed(task[t]).phase = IF task[t].phase \in {"persisting", "polling"}
                                     THEN task[t].phase
                                  ELSE "requesting"
      /\ Refused(task[t]).status = "error" /\ Refused(task[t]).phase = Claimed(task[t]).phase
  BY <1>1, ClaimedRow, RefusedRow
<1>5. /\ Entry(t) \in {"polling", "loading", "preparing", "requesting"}
      /\ Entry(t) = "loading" <=> task[t].phase = "persisting"
  BY <1>1 DEF Entry
<1>6. CASE t \in Launchable
  <2>1. task[t].status = "queued" /\ Working(t) = {}
    <3>1. task[t].status = "queued"
      BY <1>6 DEF Launchable
    <3> QED
      BY <3>1 DEF Executed
  <2>2. Arrived(t)' => Arrived(t) \/ task[t].phase = "persisting"
    BY <1>1, <1>2, <1>5 DEF Arrived
  <2>3. Arrived(t)' => task[t].phase = "persisting"
    BY <1>3, <2>1, <2>2 DEF Keeps
  <2>4. Asking(t)' => Entry(t) # "loading"
    <3>1. ASSUME NEW x \in runs', x.task = t,
                 x.version = version, x.at \in Waiting
          PROVE  x.at = Entry(t)
      <4>1. x \notin runs
        BY <2>1, <3>1 DEF Working, Current, Waiting
      <4> QED
        BY <1>2, <3>1, <4>1
    <3>2. Asking(t)' => \E x \in runs' : x.task = t /\ x.version = version
                                           /\ x.at \in Waiting
      BY <1>1 DEF Asking, Current
    <3> QED
      BY <3>1, <3>2 DEF Waiting
  <2>5. /\ task'[t].status \in {"running", "error"}
        /\ task'[t].phase = "persisting" <=> task[t].phase = "persisting"
    BY <1>1, <1>4, <1>6
  <2> QED
    BY <1>5, <2>3, <2>4, <2>5 DEF Keeps, Statuses
<1>7. CASE t \notin Launchable
  <2>1. (Arrived(t)' => Arrived(t)) /\ (Asking(t)' => Asking(t))
    BY <1>1, <1>2, <1>7 DEF Arrived, Asking, Current
  <2>2. t \notin Begun
    BY <1>7, LaunchRows
  <2> QED
    BY <1>1, <1>3, <1>7, <2>1, <2>2
<1> QED
  BY <1>6, <1>7

\* Opening the project keeps results that are to be saved.
LEMMA KeptOpen ==
    ASSUME QueueTypeOK, Executed, Kept, NEW q \in [Tasks -> Rows], Open(q),
           (runs' = runs /\ q = task) \/ runs' = {},
           NEW t \in Tasks, Provided(t)
    PROVE  /\ Arrived(t)' => Keeps(task'[t])
           /\ Asking(t)' /\ task'[t].status \in Statuses => task'[t].phase # "persisting"
<1>1. /\ saved' = task' /\ version' = version + 1 /\ version \in Nat
      /\ task'[t] = IF q[t].status \in Statuses /\ preview[t] # "none" THEN Recovered(t, q[t])
                    ELSE IF task[t] = Unborn THEN Unborn ELSE Removed
  BY DEF Open, QueueTypeOK
<1>2. ~Asking(t)'
  <2>1. \A x \in runs' : x.version \in Nat /\ x.version <= version
    BY DEF Executed, QueueTypeOK, Executions
  <2>2. \A x \in runs' : x.version # version'
    BY <1>1, <2>1
  <2> QED
    BY <2>2 DEF Asking, Current
<1>3. CASE saved'[t].status \in Statuses /\ saved'[t].phase = "persisting"
  BY <1>1, <1>2, <1>3 DEF Keeps
<1>4. CASE /\ runs' = runs /\ q = task
           /\ \E r \in runs : r.task = t /\ r.at \in {"staging", "loading", "saving"}
  <2>1. Keeps(task[t]) /\ task[t] \in Rows
    BY <1>4 DEF Kept, Arrived, QueueTypeOK
  <2>2. Removed.status = "removed" /\ Unborn.status = "unborn"
    BY DEF Removed, Unborn, Record
  <2>3. task[t] # Unborn
    BY <2>1, <2>2 DEF Keeps, Statuses
  <2>4. CASE task[t].status \in Statuses /\ preview[t] # "none"
    <3>1. task'[t] = Recovered(t, task[t])
      BY <1>1, <1>4, <2>4
    <3>2. CASE task[t].status = "done"
      <4>1. Recovered(t, task[t]) = task[t]
        BY <3>2 DEF Recovered
      <4> QED
        BY <1>2, <3>1, <3>2, <4>1 DEF Keeps
    <3>3. CASE task[t].status # "done"
      <4>1. task[t].phase = "persisting" /\ task[t].status \in {"queued", "running", "error"} /\ Image(t)
        BY <2>1, <2>4, <3>3 DEF Keeps, Statuses, Provided
      <4>2. Recovered(t, task[t]) = [task[t] EXCEPT !.status = "queued"]
        BY <4>1 DEF Recovered
      <4>3. task'[t].status = "queued" /\ task'[t].phase = "persisting"
        BY <2>1, <3>1, <4>1, <4>2 DEF Rows
      <4> QED
        BY <1>2, <4>3 DEF Keeps, Statuses
    <3> QED
      BY <3>2, <3>3
  <2>5. CASE ~(task[t].status \in Statuses /\ preview[t] # "none")
    <3>1. task'[t] = Removed
      BY <1>1, <1>4, <2>3, <2>5
    <3> QED
      BY <1>2, <2>2, <3>1 DEF Keeps
  <2> QED
    BY <2>4, <2>5
<1>5. Arrived(t)' => \/ saved'[t].status \in Statuses /\ saved'[t].phase = "persisting"
                     \/ runs' = runs /\ q = task
                          /\ \E r \in runs : r.task = t
                                             /\ r.at \in {"staging", "loading", "saving"}
  BY DEF Arrived
<1> QED
  BY <1>2, <1>3, <1>4, <1>5

\* What the user and the vault do keeps what has arrived.
LEMMA KeptStill ==
    ASSUME QueueTypeOK, Executed, Kept, UNCHANGED <<runs, version>>,
           saved' = saved \/ (saved' = task /\ task' = task),
           NEW t \in Tasks, Provided(t),
           \/ task'[t] = task[t]
           \/ task'[t] = Removed
           \/ ~Keeps(task[t]) /\ task'[t].phase # "persisting"
           \/ task'[t].status = "queued" /\ task[t].status = "error" /\ task'[t].phase = "persisting"
    PROVE  /\ Arrived(t)' => Keeps(task'[t])
           /\ Asking(t)' /\ task'[t].status \in Statuses => task'[t].phase # "persisting"
<1>1. /\ Arrived(t) => Keeps(task[t])
      /\ Asking(t) /\ task[t].status \in Statuses => task[t].phase # "persisting"
  BY DEF Kept
<1>2. Asking(t)' = Asking(t)
  BY DEF Asking, Current
<1>3. ASSUME Arrived(t)'
      PROVE  Keeps(task[t])
  <2>1. Arrived(t) \/ (task[t].status \in Statuses /\ task[t].phase = "persisting")
    BY <1>3 DEF Arrived
  <2> QED
    BY <1>1, <2>1 DEF Keeps
<1>4. CASE task'[t] = task[t]
  BY <1>1, <1>2, <1>3, <1>4
<1>5. CASE task'[t] = Removed
  <2>1. Removed.status = "removed"
    BY DEF Removed, Record
  <2> QED
    BY <1>5, <2>1 DEF Keeps, Statuses
<1>6. CASE ~Keeps(task[t]) /\ task'[t].phase # "persisting"
  BY <1>3, <1>6
<1>7. CASE task'[t].status = "queued" /\ task[t].status = "error" /\ task'[t].phase = "persisting"
  <2>1. ~Asking(t)
    <3>1. Working(t) = {}
      BY <1>7 DEF Executed
    <3> QED
      BY <3>1 DEF Asking, Working, Waiting
  <2> QED
    BY <1>2, <1>7, <2>1 DEF Keeps, Statuses
<1> QED
  BY <1>4, <1>5, <1>6, <1>7

\* Every step keeps what arrived, and the asking executions before their results.
LEMMA KeptStep ==
    ASSUME QueueTypeOK, Executed, Kept, [Next]_vars
    PROVE  Kept'
<1> DEFINE Goal(t) == /\ Arrived(t)' => Keeps(task'[t])
                      /\ Asking(t)' /\ task'[t].status \in Statuses => task'[t].phase # "persisting"
<1>0. /\ task \in [Tasks -> Rows] /\ saved \in [Tasks -> Rows]
      /\ Record("queued", "none", FALSE, Now).phase = "none"
      /\ Unborn.status = "unborn"
  BY DEF QueueTypeOK, Record, Unborn
<1> SUFFICES ASSUME NEW t \in Tasks, Provided(t)
             PROVE  Goal(t)
  BY PlacesStep DEF Kept, Provided
<1>1. CASE Launch
  BY <1>1, KeptLaunch
<1>2. ASSUME NEW r \in runs, Step(r)
      PROVE  Goal(t)
  <2>1. CASE t = r.task
    BY <1>2, <2>1, KeptOwn
  <2>2. CASE t # r.task
    BY <1>2, <2>2, KeptOthers
  <2> QED
    BY <2>1, <2>2
<1>3. ASSUME UNCHANGED <<runs, version, saved>>,
             \A u \in Tasks : task'[u] = task[u] \/ task'[u] = Removed
      PROVE  Goal(t)
  BY <1>3, KeptStill
<1>4. ASSUME NEW u \in Tasks, Enqueue(u) \/ RetryAsks(u)
      PROVE  Goal(t)
  <2>1. /\ UNCHANGED <<runs, version, saved>>
        /\ task' = [task EXCEPT ![u] = Record("queued", "none", FALSE, Now)]
        /\ \/ task[u].status = "unborn"
           \/ task[u].status = "error" /\ ~(Image(u) /\ task[u].phase = "persisting")
    BY <1>0, <1>4 DEF Enqueue, RetryAsks
  <2>2. CASE t = u
    <3>1. ~Keeps(task[t])
      BY <2>1, <2>2 DEF Keeps, Provided, Statuses
    <3>2. task'[t].phase # "persisting"
      BY <1>0, <2>1, <2>2
    <3> QED
      BY <2>1, <3>1, <3>2, KeptStill
  <2>3. CASE t # u
    <3>1. task'[t] = task[t]
      BY <1>0, <2>1, <2>3
    <3> QED
      BY <2>1, <3>1, KeptStill
  <2> QED
    BY <2>2, <2>3
<1>5. ASSUME NEW u \in Tasks, RetryResumes(u)
      PROVE  Goal(t)
  <2>1. /\ UNCHANGED <<runs, version, saved>> /\ task[u].status = "error"
        /\ \/ Store(u, Finished(u, "queued", "persisting"))
           \/ /\ ~(Image(u) /\ task[u].phase = "persisting")
              /\ Store(u, Finished(u, "queued", "polling"))
    BY <1>5 DEF RetryResumes
  <2>2. /\ Finished(u, "queued", "persisting") \in Rows
        /\ Finished(u, "queued", "persisting").status = "queued"
        /\ Finished(u, "queued", "persisting").phase = "persisting"
        /\ Finished(u, "queued", "polling") \in Rows
        /\ Finished(u, "queued", "polling").phase = "polling"
    BY <1>0, FinishedRow DEF Phases, Statuses
  <2>3. Listed(u)
    BY <2>1 DEF Listed, Statuses
  <2>4. CASE t # u
    <3>1. task'[t] = task[t]
      BY <1>0, <2>1, <2>2, <2>4, StoreRow
    <3> QED
      BY <2>1, <3>1, KeptStill
  <2>5. CASE t = u /\ Store(u, Finished(u, "queued", "persisting"))
    <3>1. task'[t].status = "queued" /\ task'[t].phase = "persisting"
      BY <1>0, <2>2, <2>3, <2>5, StoreRow
    <3> QED
      BY <2>1, <2>5, <3>1, KeptStill
  <2>6. CASE /\ t = u /\ ~(Image(u) /\ task[u].phase = "persisting")
             /\ Store(u, Finished(u, "queued", "polling"))
    <3>1. task'[t].phase = "polling"
      BY <1>0, <2>2, <2>3, <2>6, StoreRow
    <3>2. ~Keeps(task[t])
      BY <2>1, <2>6 DEF Keeps, Provided
    <3> QED
      BY <2>1, <3>1, <3>2, KeptStill
  <2> QED
    BY <2>1, <2>4, <2>5, <2>6
<1>6. ASSUME NEW u \in Tasks, Cancel(u) \/ EndRemove(u)
      PROVE  Goal(t)
  <2>1. \A v \in Tasks : task'[v] = task[v] \/ task'[v] = Removed
    BY <1>0, <1>6 DEF Cancel, EndRemove
  <2>2. UNCHANGED <<runs, version, saved>>
    BY <1>6 DEF Cancel, EndRemove
  <2> QED
    BY <1>3, <2>1, <2>2
<1>7. CASE EndSweep
  <2>1. \A u \in Tasks : task'[u] = task[u] \/ task'[u] = Removed
    BY <1>7 DEF EndSweep
  <2> QED
    BY <1>3, <1>7, <2>1 DEF EndSweep
<1>8. ASSUME NEW u \in Tasks, BeginRemove(u) \/ DeletePreview(u)
      PROVE  Goal(t)
  <2>1. UNCHANGED <<task, runs, version, saved>>
    BY <1>8 DEF BeginRemove, DeletePreview, storeVars
  <2> QED
    BY <1>3, <2>1
<1>9. CASE BeginSweep \/ UNCHANGED vars
  <2>1. UNCHANGED <<task, runs, version, saved>>
    BY <1>9 DEF BeginSweep, storeVars, vars
  <2> QED
    BY <1>3, <2>1
<1>10. CASE Persist
  <2>1. UNCHANGED <<task, runs, version>> /\ saved' = task
    BY <1>10 DEF Persist, storeVars
  <2> QED
    BY <2>1, KeptStill
<1>11. CASE Switch
  <2>1. Open(task) /\ runs' = runs
    BY <1>11 DEF Switch
  <2> QED
    BY <1>0, <2>1, KeptOpen
<1>12. CASE Reopen
  <2>1. Open(saved) /\ runs' = {}
    BY <1>12 DEF Reopen
  <2> QED
    BY <1>0, <2>1, KeptOpen
<1> QED
  BY <1>1, <1>2, <1>4, <1>5, <1>6, <1>7, <1>8, <1>9, <1>10, <1>11, <1>12 DEF Next, User

\* What arrived is kept, for any tasks, limits and numbers of reloads.
LEMMA KeptInvariance == Spec => []Kept
<1>1. ASSUME Init
      PROVE  Kept
  <2>1. Unborn.status = "unborn"
    BY DEF Unborn, Record
  <2>2. runs = {} /\ \A t \in Tasks : ~Arrived(t) /\ ~Asking(t)
    BY <1>1, <2>1 DEF Init, Arrived, Asking, Statuses
  <2> QED
    BY <2>2 DEF Kept
<1>2. QueueInv /\ Kept /\ [Next]_vars => Kept'
  BY KeptStep DEF QueueInv
<1> QED
  BY <1>1, <1>2, QueueInvariance, PTL DEF Spec

\* The vault has a result of t to be saved.
Stored(t) == saved[t].status \in Statuses /\ saved[t].phase = "persisting"

\* Nobody of the current version asks for what the vault has, listed or not; an execution
\* that fetches inputs is that of an image that a provider makes.
Unstored ==
    /\ \A t \in Tasks : Provided(t) /\ Asking(t) => ~Stored(t)
    /\ \A r \in runs : r.at = "preparing" => r.task \notin Official

\* Executions fetch their inputs before anything else.
LEMMA PreparingFirst ==
    ASSUME QueueTypeOK, Unstored, [Next]_vars
    PROVE  \A x \in runs' : x.at = "preparing" => x.task \notin Official
<1> SUFFICES ASSUME NEW x \in runs', x.at = "preparing"
             PROVE  x.task \notin Official
  OBVIOUS
<1>1. CASE x \in runs
  BY <1>1 DEF Unstored
<1>2. CASE Launch /\ x \notin runs
  BY <1>2 DEF Launch, Entry
<1>3. ASSUME NEW r \in runs, Advances(r) \/ Settles(r) \/ Drops(r)
      PROVE  x \in runs
  <2>1. End(r) \/ \E at \in Places \ {"preparing"} : Goto(r, at)
    BY <1>3 DEF Advances, Settles, Drops, Places
  <2> QED
    BY <2>1, NextRuns
<1> QED
  BY <1>1, <1>2, <1>3, NextKinds DEF Reshelves, Opens

\* The executions that ask are those that asked before, and those that begin.
LEMMA AskingStep ==
    ASSUME QueueTypeOK, Executed, Kept, [Next]_vars, NEW t \in Tasks, Provided(t), Asking(t)',
           UNCHANGED version
    PROVE  \/ Asking(t)
           \/ UNCHANGED saved /\ t \in Launchable /\ task[t].phase # "persisting"
<1>1. PICK x \in runs' : x.task = t /\ x.version = version /\ x.at \in Waiting
  BY DEF Asking, Current
<1>2. CASE x \in runs
  BY <1>1, <1>2 DEF Asking, Current
<1>3. CASE Launch /\ x \notin runs
  <2>1. t \in Launchable /\ x.at = Entry(t) /\ UNCHANGED saved
    BY <1>1, <1>3, LaunchRows DEF Launch
  <2>2. task[t].phase = "persisting" => Entry(t) = "loading"
    BY DEF Entry, Provided
  <2> QED
    BY <1>1, <2>1, <2>2 DEF Waiting
<1>4. ASSUME NEW r \in runs, Step(r), x \notin runs
      PROVE  Asking(t)
  <2>1. PICK at \in Places : Goto(r, at)
    <3>1. ~End(r)
      BY <1>4 DEF End
    <3> QED
      BY <1>4, <3>1, StepKinds DEF Advances, Settles, Drops, Places
  <2>2. x.task = r.task /\ x.version = r.version /\ x.at = at
    BY <1>4, <2>1, NextRuns
  <2>3. r.task = t /\ Current(r) /\ t \notin Official /\ Image(t)
    BY <1>1, <2>2 DEF Current, Provided
  <2>4. \A p, q \in Places : Goto(r, p) /\ Goto(r, q) => p = q
    BY <1>4, <2>1, <2>2, NextRuns
  <2>5. r.at \in Waiting
    <3>1. r.at \notin {"creating", "resolving", "acknowledging"}
      BY <2>3 DEF Kept
    <3>2. {"preparing", "requesting", "polling", "staging", "saving", "clearing",
           "resolving", "acknowledging"} \subseteq Places
      BY DEF Places
    <3>3. ~End(r)
      BY <1>4 DEF End
    <3>4. Ask(r) \/ Answer(r) \/ Poll(r) \/ Stage(r) \/ LoadStaged(r) \/ Save(r)
      BY <1>4, <2>3, <3>1, <3>3 DEF Step, Stale, ClearStaged, CreateOfficial, PollOfficial,
           ResolveOfficial, Acknowledge, Fail
    <3>5. Stage(r) \/ LoadStaged(r) \/ Save(r) => at \in {"saving", "clearing"}
      BY <2>1, <2>3, <2>4, <3>2, <3>3 DEF Stage, LoadStaged, Save, Deliver
    <3>6. at \in Waiting
      BY <1>1, <2>2
    <3> QED
      BY <3>4, <3>5, <3>6 DEF Ask, Answer, Poll, Waiting
  <2> QED
    BY <2>3, <2>5 DEF Asking
<1>5. CASE ~(\E r \in runs : Step(r)) /\ ~Launch
  <2>1. runs' \subseteq runs
    BY <1>5 DEF Next, User, Enqueue, RetryResumes, RetryAsks, Cancel, BeginRemove, DeletePreview,
                BeginSweep, Switch, EndRemove, EndSweep, Persist, Reopen, vars
  <2> QED
    BY <1>2, <2>1
<1> QED
  BY <1>2, <1>3, <1>4, <1>5

\* The vault is written with the queue of the moment, and what an opening recovers is
\* not asked for.
LEMMA UnstoredStep ==
    ASSUME QueueTypeOK, Executed, Kept, Unstored, [Next]_vars
    PROVE  Unstored'
<1>0. \A x \in runs' : x.at = "preparing" => x.task \notin Official
  BY PreparingFirst
<1> SUFFICES ASSUME NEW t \in Tasks, Provided(t), Asking(t)', Stored(t)'
             PROVE  FALSE
  BY <1>0 DEF Unstored, Provided
<1>1. UNCHANGED version
  <2>1. ASSUME version' = version + 1, runs' \subseteq runs
        PROVE  FALSE
    <3>1. \A x \in runs' : x.version \in Nat /\ x.version <= version /\ version \in Nat
      BY <2>1 DEF Executed, QueueTypeOK, Executions
    <3>2. \A x \in runs' : x.version # version'
      BY <2>1, <3>1
    <3> QED
      BY <3>2 DEF Asking, Current
  <2> QED
    BY <2>1, NextKinds DEF Launch, Reshelves, Opens
<1>2. CASE UNCHANGED saved
  <2>1. Stored(t)
    BY <1>2 DEF Stored
  <2>2. ~Asking(t)
    BY <2>1 DEF Unstored
  <2>3. t \in Launchable /\ task[t].phase # "persisting"
    BY <1>1, <2>2, AskingStep
  <2>4. Keeps(task[t])
    BY <2>1 DEF Kept, Arrived, Stored
  <2> QED
    BY <2>3, <2>4 DEF Keeps, Launchable
<1>3. CASE Persist
  <2>1. UNCHANGED <<runs, version>> /\ saved' = task
    BY <1>3 DEF Persist, storeVars
  <2>2. Asking(t) /\ task[t].status \in Statuses /\ task[t].phase = "persisting"
    BY <2>1 DEF Asking, Current, Stored
  <2> QED
    BY <2>2 DEF Kept
<1>4. CASE ~Persist /\ saved' # saved
  <2>1. ~(\E r \in runs : Step(r))
    BY <1>4, StepKinds
  <2>2. version' = version + 1
    BY <1>4, <2>1 DEF Next, User, Launch, Enqueue, RetryResumes, RetryAsks, Cancel, BeginRemove,
         DeletePreview, BeginSweep, Switch, EndRemove, EndSweep, Reopen, Open, vars
  <2>3. version \in Nat
    BY DEF QueueTypeOK
  <2> QED
    BY <1>1, <2>2, <2>3
<1> QED
  BY <1>2, <1>3, <1>4

\* NoRegeneration: no execution of the current version asks a provider again for an image
\* whose result has arrived, as far as the vault knows.
THEOREM ArrivedNotRequested == Spec => NoRegeneration
<1>1. Init => Unstored
  BY DEF Init, Unstored, Asking
<1>2. QueueInv /\ Kept /\ Unstored /\ [Next]_vars => Unstored'
  BY UnstoredStep DEF QueueInv
<1>3. ASSUME QueueInv, Kept, Unstored, [Next]_vars, NEW x \in runs' \ runs,
             x.at = "requesting", Image(x.task), Current(x), Stored(x.task)
      PROVE  FALSE
  <2>1. x \in Executions' /\ x.task \in Tasks
    BY <1>3, TypeStep DEF QueueInv, QueueTypeOK, Executions
  <2>2. CASE Launch
    <3>1. x.at = Entry(x.task)
      BY <1>3, <2>2 DEF Launch
    <3> QED
      BY <1>3, <3>1 DEF Entry
  <2>3. CASE \E r \in runs : Step(r)
    <3>1. PICK r \in runs : Step(r)
      BY <2>3
    <3>2. PICK at \in Places : Goto(r, at)
      BY <1>3, <3>1, StepKinds DEF QueueInv, Advances, Settles, Drops, End, Places
    <3>3. x.task = r.task /\ x.version = r.version /\ x.at = at
      BY <1>3, <3>2, NextRuns DEF QueueInv
    <3>4. Ask(r)
      <4>1. Goto(r, "requesting") /\ ~End(r)
        BY <1>3, <3>2, <3>3 DEF End
      <4>2. \A p \in Places : Goto(r, p) => p = "requesting"
        BY <1>3, <3>3, <4>1, NextRuns DEF QueueInv
      <4>3. {"polling", "staging", "saving", "clearing", "resolving", "acknowledging"}
              \subseteq Places
        BY DEF Places
      <4> QED
        BY <3>1, <4>1, <4>2, <4>3
           DEF Step, Stale, Answer, Poll, Stage, LoadStaged, Save, ClearStaged, CreateOfficial,
               PollOfficial, ResolveOfficial, Acknowledge, Fail, Deliver
    <3>5. r.at = "preparing" /\ Current(r)
      BY <1>3, <3>3, <3>4 DEF Ask, Current
    <3>6. Asking(x.task)
      BY <3>3, <3>5 DEF Asking, Waiting
    <3>7. Provided(x.task)
      BY <1>3, <3>3, <3>5 DEF Provided, Unstored
    <3> QED
      BY <1>3, <2>1, <3>6, <3>7 DEF Unstored
  <2>4. CASE ~(\E r \in runs : Step(r)) /\ ~Launch
    <3>1. runs' \subseteq runs
      BY <1>3, <2>4 DEF Next, User, Enqueue, RetryResumes, RetryAsks, Cancel, BeginRemove,
           DeletePreview, BeginSweep, Switch, EndRemove, EndSweep, Persist, Reopen, vars
    <3> QED
      BY <1>3, <3>1
  <2> QED
    BY <2>2, <2>3, <2>4
<1>4. QueueInv /\ Kept /\ Unstored /\ [Next]_vars =>
        [\A r \in runs' \ runs :
           r.at = "requesting" /\ Image(r.task) /\ Current(r)
           => ~(saved[r.task].phase = "persisting" /\ saved[r.task].status \in Statuses)]_vars
  BY <1>3 DEF Stored
<1>5. Spec => []Unstored
  BY <1>1, <1>2, QueueInvariance, KeptInvariance, PTL DEF Spec
<1> QED
  BY <1>4, <1>5, QueueInvariance, KeptInvariance, PTL DEF Spec, NoRegeneration
=============================================================================
