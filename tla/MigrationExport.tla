--------------------------- MODULE MigrationExport ---------------------------
(***************************************************************************)
(* One export of a project (postgresMigrationExportService): a row, and    *)
(* executions of processExport, which read the assets, write one archive   *)
(* to the object storage and record it.  Preparing, preparing again with   *)
(* the same key, retrying and the start of a process all call it, and the  *)
(* row alone tells an execution whether it has anything to do.  All of     *)
(* them write the archive to the same key.                                 *)
(***************************************************************************)
EXTENDS Naturals, FiniteSets

CONSTANTS
    Executions, \* executions of processExport that can be under way together
    MaxRetries  \* MIGRATION_EXPORT_MAX_RETRIES (3)

ASSUME ExportAssumption == IsFiniteSet(Executions) /\ MaxRetries \in Nat

VARIABLES
    status,     \* migration_exports.status
    asked,      \* cancel_requested_at is set
    retries,    \* retry_count
    lapsed,     \* expires_at has passed
    archive,    \* the archive is in the storage
    execution,  \* where each execution is
    overtaken,  \* history: recovery put back an export that was being executed
    unsure      \* history: the answer of a COMMIT, or the deletion of an archive, was lost

row == <<status, asked, retries>>
history == <<overtaken, unsure>>
vars == <<row, lapsed, archive, execution, history>>

Open == {"prepared", "generating"}
Statuses == Open \cup {"none", "completed", "failed", "canceled", "expired"}

\* From "stored" on an execution has given its archive a name to delete it by.
Named == {"stored", "discarding", "withdrawing"}
Stages == Named \cup {"idle", "reading", "failing", "canceling", "withdrawn"}

At(g, stage) == execution[g] = stage
Goto(g, stage) == execution' = [execution EXCEPT ![g] = stage]

Init ==
    /\ status = "none" /\ asked = FALSE /\ retries = 0
    /\ lapsed = FALSE
    /\ archive = FALSE
    /\ execution = [g \in Executions |-> "idle"]
    /\ overtaken = FALSE /\ unsure = FALSE

Lapse ==
    /\ status # "none" /\ ~lapsed
    /\ lapsed' = TRUE
    /\ UNCHANGED <<row, archive, execution, history>>

-----------------------------------------------------------------------------
(* Requests of the user *)

PrepareExport ==
    /\ status = "none"
    /\ status' = "prepared"
    /\ UNCHANGED <<asked, retries, lapsed, archive, execution, history>>

\* expireExport, which reading and canceling begin with.
ExpireExport ==
    /\ lapsed /\ status \in Open \cup {"failed"}
    /\ status' = "expired"
    /\ UNCHANGED <<asked, retries, lapsed, archive, execution, history>>

\* An export that is being generated is only asked to stop.
CancelExport ==
    /\ ~lapsed /\ status \in Open
    /\ asked' = TRUE
    /\ status' = IF status = "generating" THEN status ELSE "canceled"
    /\ UNCHANGED <<retries, lapsed, archive, execution, history>>

\* A row that is not completed names no archive, so that there is none to delete.
RetryExport ==
    /\ status \in {"failed", "canceled"} /\ retries < MaxRetries
    /\ status' = "prepared" /\ asked' = FALSE /\ retries' = retries + 1
    /\ UNCHANGED <<lapsed, archive, execution, history>>

-----------------------------------------------------------------------------
(* processExport *)

\* Fault: an export that is being generated is begun again.
ReadyAny == status \in Open
Ready == status = "prepared"

Begin(g) ==
    /\ At(g, "idle") /\ Ready
    /\ status' = "generating"
    /\ Goto(g, "reading")
    /\ UNCHANGED <<asked, retries, lapsed, archive, history>>

\* Fault: only a row that says so counts as canceled.
WithdrawnUnasked == status = "canceled"
Withdrawn == asked \/ status = "canceled"

\* Looked at before each asset is read; there may be none.
SeeCancel(g) ==
    /\ At(g, "reading") /\ Withdrawn
    /\ Goto(g, "canceling")
    /\ UNCHANGED <<row, lapsed, archive, history>>

\* An asset is gone or has changed, or the package exceeds its limits.
ReadFails(g) ==
    /\ At(g, "reading")
    /\ Goto(g, "failing")
    /\ UNCHANGED <<row, lapsed, archive, history>>

PutObject(g) ==
    /\ At(g, "reading")
    /\ archive' = TRUE
    /\ Goto(g, "stored")
    /\ UNCHANGED <<row, lapsed, history>>

\* The storage has not got the archive (when it has, PutObject and FinishFails).
PutFails(g) ==
    /\ At(g, "reading")
    /\ Goto(g, "discarding")
    /\ UNCHANGED <<row, lapsed, archive, history>>

\* The last transaction completes the export from whatever state it is in.
Complete == status' = "completed" /\ UNCHANGED <<asked, retries>>

Finish(g) ==
    /\ At(g, "stored")
    /\ IF Withdrawn THEN Goto(g, "withdrawing") /\ UNCHANGED row
                    ELSE Goto(g, "idle") /\ Complete
    /\ UNCHANGED <<lapsed, archive, history>>

FinishFails(g) ==
    /\ At(g, "stored")
    /\ Goto(g, "discarding")
    /\ UNCHANGED <<row, lapsed, archive, history>>

FinishAnswerLost(g) ==
    /\ At(g, "stored") /\ ~Withdrawn
    /\ Complete
    /\ Goto(g, "discarding")
    /\ unsure' = TRUE
    /\ UNCHANGED <<lapsed, archive, overtaken>>

\* The archive is deleted first and the row written last; an error of the storage is
\* swallowed.
DeleteArchive(g) ==
    /\ \/ At(g, "discarding") /\ Goto(g, "failing")
       \/ At(g, "withdrawing") /\ Goto(g, "withdrawn")
    /\ \/ archive' = FALSE /\ UNCHANGED unsure
       \/ unsure' = TRUE /\ UNCHANGED archive
    /\ UNCHANGED <<row, lapsed, overtaken>>

\* canceled_at of a row that is canceled refuses (terminal_time_check).
MarkFailed(g) ==
    /\ At(g, "failing")
    /\ status' = IF status \in {"completed", "canceled"} THEN status ELSE "failed"
    /\ Goto(g, "idle")
    /\ UNCHANGED <<asked, retries, lapsed, archive, history>>

MarkCanceled(g) ==
    /\ \/ At(g, "canceling") /\ status' = IF status = "completed" THEN status ELSE "canceled"
       \/ At(g, "withdrawn") /\ status' = IF status = "generating" THEN "canceled" ELSE status
    /\ Goto(g, "idle")
    /\ UNCHANGED <<asked, retries, lapsed, archive, history>>

\* The row could not be written, or its writing is not known of, after the archive of a
\* withdrawn export was deleted: the catch block deletes it again and fails the export.
MarkThrows(g) ==
    /\ At(g, "withdrawn")
    /\ \/ UNCHANGED <<status, unsure>>
       \/ status = "generating" /\ status' = "canceled" /\ unsure' = TRUE
    /\ Goto(g, "discarding")
    /\ UNCHANGED <<asked, retries, lapsed, archive, overtaken>>

\* The process ends, or the row cannot be written.
Die(g) ==
    /\ ~At(g, "idle")
    /\ Goto(g, "idle")
    /\ unsure' = (unsure \/ execution[g] \in Named)
    /\ UNCHANGED <<row, lapsed, archive, overtaken>>

-----------------------------------------------------------------------------
(* Recovery and maintenance *)

\* Fault: an execution is trusted to end.
OverdueUnbegun == lapsed /\ status = "prepared"
Overdue == lapsed /\ status \in Open

\* Every 15 minutes, and before recovery.
MaintainExports ==
    /\ Overdue
    /\ status' = "expired"
    /\ UNCHANGED <<asked, retries, lapsed, archive, execution, history>>

\* When a process starts; it does not know of the executions of others.
RecoverExports ==
    /\ ~lapsed /\ status = "generating"
    /\ status' = "prepared"
    /\ overtaken' = (overtaken \/ \E g \in Executions : ~At(g, "idle"))
    /\ UNCHANGED <<asked, retries, lapsed, archive, execution, unsure>>

-----------------------------------------------------------------------------

Step(g) ==
    \/ SeeCancel(g) \/ ReadFails(g) \/ PutObject(g) \/ PutFails(g)
    \/ Finish(g) \/ FinishFails(g) \/ FinishAnswerLost(g)
    \/ DeleteArchive(g) \/ MarkFailed(g) \/ MarkCanceled(g) \/ MarkThrows(g)

Next ==
    \/ Lapse \/ PrepareExport \/ ExpireExport \/ CancelExport \/ RetryExport
    \/ \E g \in Executions : Begin(g) \/ Step(g) \/ Die(g)
    \/ MaintainExports \/ RecoverExports

Spec == Init /\ [][Next]_vars

\* Time passes and the maintenance runs, in whichever process there is.
Fairness == WF_vars(Lapse) /\ WF_vars(MaintainExports)
FairSpec == Spec /\ Fairness

-----------------------------------------------------------------------------
(* Properties *)

ExportTypeOK ==
    /\ status \in Statuses /\ asked \in BOOLEAN /\ retries \in 0 .. MaxRetries
    /\ lapsed \in BOOLEAN /\ archive \in BOOLEAN
    /\ execution \in [Executions -> Stages]
    /\ overtaken \in BOOLEAN /\ unsure \in BOOLEAN

\* The archive of a completed export can be downloaded, and nobody else's stays in the
\* storage once no execution is under way: however often the export was begun, canceled,
\* retried, recovered or expired, unless recovery overtook a living execution or an answer
\* was lost.
ArchiveIfCompleted ==
    ~overtaken /\ ~unsure =>
        /\ status = "completed" => archive
        /\ archive => status = "completed" \/ \E g \in Executions : execution[g] \in Named

\* An export that was asked to stop is not completed, whatever fails, dies or is recovered
\* in between, unless the user has asked for it again.
CancelHonoured == [][asked /\ asked' /\ status # "completed" => status' # "completed"]_vars

\* An export ends, if only by its expiry.
ExportEnds == status \in Open ~> status \notin Open

=============================================================================
