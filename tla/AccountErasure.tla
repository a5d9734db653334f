--------------------------- MODULE AccountErasure ---------------------------
(***************************************************************************)
(* The second phase of deleting an account (accountErasureMaintenance): a  *)
(* job that becomes due seven days after the deletion, and runs of the     *)
(* maintenance command, each of which claims the job, deletes the objects  *)
(* of the personal workspace from the storage one by one, and removes the  *)
(* rows at last.  A run may fail or die anywhere, and a second run takes   *)
(* the job of one that has been at it for 15 minutes, whether it died or   *)
(* is slow.                                                                *)
(***************************************************************************)
EXTENDS FiniteSets

CONSTANTS
    Runs,       \* runs of the maintenance command that can be under way together
    Files       \* objects of the personal workspace

ASSUME ErasureAssumption == IsFiniteSet(Runs) /\ IsFiniteSet(Files)

VARIABLES
    job,        \* account_erasure_jobs.status
    due,        \* purge_after has passed
    overdue,    \* locked_at is more than 15 minutes ago
    files,      \* objects in the storage
    space,      \* the personal workspace and all that hangs on it
    run         \* runs: the objects each has yet to delete

erasureVars == <<job, due, overdue, files, space, run>>

NoRun == [at |-> "idle"]
Listing == [at |-> "listing"]
Cleaning(left) == [at |-> "cleaning", left |-> left]

ErasureInit ==
    /\ job = "none"
    /\ due = FALSE
    /\ overdue = FALSE
    /\ files = Files
    /\ space = "open"
    /\ run = [r \in Runs |-> NoRun]

\* The part of deleteUser that is about the personal workspace.
BeginErasure ==
    /\ job' = "pending"
    /\ space' = "deleted"
    /\ UNCHANGED <<due, overdue, files, run>>

ComeDue ==
    /\ job = "pending" /\ ~due
    /\ due' = TRUE
    /\ UNCHANGED <<job, overdue, files, space, run>>

\* FOR UPDATE SKIP LOCKED
Claim(r) ==
    /\ run[r] = NoRun
    /\ job = "pending" /\ due
    /\ job' = "processing"
    /\ overdue' = FALSE
    /\ run' = [run EXCEPT ![r] = Listing]
    /\ UNCHANGED <<due, files, space>>

\* The keys that the rows name at this time: none when another run has removed the rows.
ListFiles(r) ==
    /\ run[r] = Listing
    /\ run' = [run EXCEPT ![r] = Cleaning(IF space = "gone" THEN {} ELSE Files)]
    /\ UNCHANGED <<job, due, overdue, files, space>>

AtWork(r) == run[r] \notin {NoRun, Listing}

DeleteFile(r) ==
    /\ AtWork(r)
    /\ \E f \in run[r].left :
          /\ files' = files \ {f}
          /\ run' = [run EXCEPT ![r] = Cleaning(run[r].left \ {f})]
    /\ UNCHANGED <<job, due, overdue, space>>

\* Fault: the rows are removed while objects are left.
CleanedAny(r) == AtWork(r)
Cleaned(r) == AtWork(r) /\ run[r].left = {}

\* completeJob does nothing for a job that is no longer being processed.
CompleteJob(r) ==
    /\ Cleaned(r)
    /\ IF job = "processing" THEN job' = "completed" /\ space' = "gone"
       ELSE UNCHANGED <<job, space>>
    /\ run' = [run EXCEPT ![r] = NoRun]
    /\ UNCHANGED <<due, overdue, files>>

\* markJobFailed: the storage, or completeJob, has failed.
FailJob(r) ==
    /\ AtWork(r)
    /\ job' = IF job = "processing" THEN "pending" ELSE job
    /\ run' = [run EXCEPT ![r] = NoRun]
    /\ UNCHANGED <<due, overdue, files, space>>

\* The process ends, or the keys cannot be read, which nothing catches.
Die(r) ==
    /\ run[r] # NoRun
    /\ run' = [run EXCEPT ![r] = NoRun]
    /\ UNCHANGED <<job, due, overdue, files, space>>

ComeOverdue ==
    /\ job = "processing" /\ ~overdue
    /\ overdue' = TRUE
    /\ UNCHANGED <<job, due, files, space, run>>

\* Fault: a job whose run died is never taken up again.
ReleasableNever == job = "released"
Releasable == job = "processing" /\ overdue

\* What every run with --apply begins with.
ReleaseJob ==
    /\ Releasable
    /\ job' = "pending"
    /\ UNCHANGED <<due, overdue, files, space, run>>

ErasureNext ==
    \/ ComeDue \/ ComeOverdue \/ ReleaseJob
    \/ \E r \in Runs : Claim(r) \/ ListFiles(r) \/ DeleteFile(r) \/ CompleteJob(r) \/ FailJob(r) \/ Die(r)

=============================================================================
