----------------------- MODULE MigrationExportTheorems -----------------------
(***************************************************************************)
(* For any executions and any number of retries: an export that was asked  *)
(* to stop is not completed, and the archive is there exactly when the row *)
(* or an execution answers for it.  As long as recovery overtakes nobody,  *)
(* the row alone lets one execution in: it leaves "generating" only as the *)
(* execution ends, or to "expired", from where nothing begins again.       *)
(***************************************************************************)
EXTENDS MigrationExport, TLAPS

\* The row, the clock and the executions keep their types.
THEOREM ExportTypes == Spec => []ExportTypeOK
<1>1. Init => ExportTypeOK
  <2> SUFFICES ASSUME Init PROVE ExportTypeOK
    OBVIOUS
  <2>1. retries \in 0 .. MaxRetries
    BY ExportAssumption DEF Init
  <2>2. status \in Statuses /\ execution \in [Executions -> Stages]
    BY DEF Init, Statuses, Stages
  <2>3. asked \in BOOLEAN /\ lapsed \in BOOLEAN /\ archive \in BOOLEAN
    BY DEF Init
  <2>4. overtaken \in BOOLEAN /\ unsure \in BOOLEAN
    BY DEF Init
  <2> QED
    BY <2>1, <2>2, <2>3, <2>4 DEF ExportTypeOK
<1>2. ExportTypeOK /\ [Next]_vars => ExportTypeOK'
  <2> SUFFICES ASSUME ExportTypeOK, [Next]_vars PROVE ExportTypeOK'
    OBVIOUS
  <2> USE DEF ExportTypeOK, Statuses, Open, Stages, Named, Goto, At, row, history
  <2>1. CASE Lapse \/ PrepareExport \/ ExpireExport \/ CancelExport \/ MaintainExports
    BY <2>1 DEF Lapse, PrepareExport, ExpireExport, CancelExport, MaintainExports, Overdue
  <2>2. CASE RetryExport
    <3>1. retries' \in 0 .. MaxRetries
      BY <2>2, ExportAssumption DEF RetryExport
    <3> QED
      BY <2>2, <3>1 DEF RetryExport
  <2>3. CASE RecoverExports
    <3>1. overtaken' \in BOOLEAN
      BY <2>3 DEF RecoverExports
    <3> QED
      BY <2>3, <3>1 DEF RecoverExports
  <2>4. ASSUME NEW g \in Executions, Begin(g) PROVE ExportTypeOK'
    BY <2>4 DEF Begin
  <2>5. ASSUME NEW g \in Executions, Step(g) PROVE ExportTypeOK'
    <3>1. CASE SeeCancel(g) \/ ReadFails(g) \/ PutObject(g) \/ PutFails(g)
      BY <3>1 DEF SeeCancel, ReadFails, PutObject, PutFails
    <3>2. CASE Finish(g) \/ FinishFails(g) \/ FinishAnswerLost(g)
      BY <3>2 DEF Finish, FinishFails, FinishAnswerLost, Complete
    <3>3. CASE DeleteArchive(g)
      BY <3>3 DEF DeleteArchive
    <3>4. CASE MarkFailed(g) \/ MarkCanceled(g) \/ MarkThrows(g)
      BY <3>4 DEF MarkFailed, MarkCanceled, MarkThrows
    <3> QED
      BY <2>5, <3>1, <3>2, <3>3, <3>4 DEF Step
  <2>6. ASSUME NEW g \in Executions, Die(g) PROVE ExportTypeOK'
    <3>1. unsure' \in BOOLEAN
      BY <2>6 DEF Die
    <3> QED
      BY <2>6, <3>1 DEF Die
  <2>7. CASE UNCHANGED vars
    BY <2>7 DEF vars
  <2> QED
    BY <2>1, <2>2, <2>3, <2>4, <2>5, <2>6, <2>7 DEF Next
<1> QED
  BY <1>1, <1>2, PTL DEF Spec

\* An export that was asked to stop is not completed: both transactions that complete it
\* look at the request under the lock of the row.
THEOREM StopsWhenAsked == Spec => CancelHonoured
<1>1. [Next]_vars => [asked /\ asked' /\ status # "completed" => status' # "completed"]_vars
  <2> SUFFICES ASSUME [Next]_vars, asked, asked', status # "completed"
               PROVE  status' # "completed"
    OBVIOUS
  <2> USE DEF row
  <2>1. CASE \E g \in Executions : Step(g)
    BY <2>1 DEF Step, SeeCancel, ReadFails, PutObject, PutFails, Finish, FinishFails,
                FinishAnswerLost, Withdrawn, DeleteArchive, MarkFailed, MarkCanceled,
                MarkThrows
  <2>2. CASE \E g \in Executions : Begin(g) \/ Die(g)
    BY <2>2 DEF Begin, Die
  <2>3. CASE Lapse \/ PrepareExport \/ ExpireExport \/ CancelExport \/ RetryExport
    BY <2>3 DEF Lapse, PrepareExport, ExpireExport, CancelExport, RetryExport
  <2>4. CASE MaintainExports \/ RecoverExports \/ UNCHANGED vars
    BY <2>4 DEF MaintainExports, RecoverExports, vars
  <2> QED
    BY <2>1, <2>2, <2>3, <2>4 DEF Next
<1> QED
  BY <1>1, PTL DEF Spec, CancelHonoured

-----------------------------------------------------------------------------
(* The archive *)

Idle(g) == At(g, "idle")

\* While an execution is under way the row says so, unless it has expired, and there is no
\* other execution.
OneAtWork ==
    /\ \A g \in Executions : ~Idle(g) => status \in {"generating", "expired"}
    /\ \A g, h \in Executions : ~Idle(g) /\ ~Idle(h) => g = h

\* The row or an execution answers for the archive, and it is there if they say so.
Accounted ==
    /\ \A g \in Executions : At(g, "stored") => archive
    /\ status = "completed" => archive
    /\ archive => status = "completed" \/ \E g \in Executions : execution[g] \in Named

Orderly == ~overtaken /\ ~unsure
ArchiveInv == ExportTypeOK /\ (Orderly => OneAtWork /\ Accounted)

\* The archive of a completed export is there, and no other once no execution is under way.
THEOREM ArchiveAccounted == Spec => []ArchiveIfCompleted
<1>1. Init => (OneAtWork /\ Accounted)
  BY DEF Init, OneAtWork, Accounted, Idle, At
<1>2. ArchiveInv /\ ExportTypeOK' /\ [Next]_vars => ArchiveInv'
  <2> SUFFICES ASSUME ArchiveInv, [Next]_vars, Orderly' PROVE (OneAtWork /\ Accounted)'
    BY DEF ArchiveInv
  <2>0. Orderly
    <3>1. overtaken => overtaken'
      BY DEF Next, vars, history, Lapse, PrepareExport, ExpireExport, CancelExport, RetryExport,
             Begin, Step, SeeCancel, ReadFails, PutObject, PutFails, Finish, FinishFails,
             FinishAnswerLost, DeleteArchive, MarkFailed, MarkCanceled, MarkThrows, Die,
             MaintainExports, RecoverExports
    <3>2. unsure => unsure'
      BY DEF Next, vars, history, Lapse, PrepareExport, ExpireExport, CancelExport, RetryExport,
             Begin, Step, SeeCancel, ReadFails, PutObject, PutFails, Finish, FinishFails,
             FinishAnswerLost, DeleteArchive, MarkFailed, MarkCanceled, MarkThrows, Die,
             MaintainExports, RecoverExports
    <3> QED
      BY <3>1, <3>2 DEF Orderly
  <2>a. OneAtWork /\ Accounted /\ ExportTypeOK
    BY <2>0 DEF ArchiveInv
  <2>b. execution \in [Executions -> Stages]
    BY <2>a DEF ExportTypeOK
  <2> USE <2>a, <2>b DEF OneAtWork, Accounted, Idle, At, Goto, Named, row, history
  <2>1. CASE Lapse \/ PrepareExport \/ RetryExport
    BY <2>1 DEF Lapse, PrepareExport, RetryExport
  <2>2. CASE ExpireExport \/ CancelExport \/ MaintainExports
    BY <2>2 DEF ExpireExport, CancelExport, MaintainExports, Overdue, Open
  <2>3. CASE RecoverExports
    BY <2>3 DEF RecoverExports, Orderly
  <2>4. ASSUME NEW g \in Executions, Begin(g) PROVE (OneAtWork /\ Accounted)'
    BY <2>4 DEF Begin, Ready
  <2>5. ASSUME NEW g \in Executions, Step(g) PROVE (OneAtWork /\ Accounted)'
    <3>1. CASE SeeCancel(g) \/ ReadFails(g) \/ PutObject(g) \/ PutFails(g)
      BY <3>1 DEF SeeCancel, ReadFails, PutObject, PutFails
    <3>2. CASE Finish(g) \/ FinishFails(g)
      BY <3>2 DEF Finish, FinishFails, Complete
    <3>3. CASE FinishAnswerLost(g)
      BY <3>3 DEF FinishAnswerLost, Orderly
    <3>4. CASE DeleteArchive(g)
      BY <3>4 DEF DeleteArchive, Orderly
    <3>5. CASE MarkFailed(g) \/ MarkCanceled(g) \/ MarkThrows(g)
      BY <3>5 DEF MarkFailed, MarkCanceled, MarkThrows, Orderly
    <3> QED
      BY <2>5, <3>1, <3>2, <3>3, <3>4, <3>5 DEF Step
  <2>6. ASSUME NEW g \in Executions, Die(g) PROVE (OneAtWork /\ Accounted)'
    BY <2>6 DEF Die, Orderly
  <2>7. CASE UNCHANGED vars
    BY <2>7 DEF vars
  <2> QED
    BY <2>1, <2>2, <2>3, <2>4, <2>5, <2>6, <2>7 DEF Next
<1>3. ArchiveInv => ArchiveIfCompleted
  BY DEF ArchiveInv, Orderly, Accounted, ArchiveIfCompleted
<1> QED
  BY <1>1, <1>2, <1>3, ExportTypes, PTL DEF Spec, ArchiveInv

=============================================================================
