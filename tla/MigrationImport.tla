-------------------------- MODULE MigrationImport --------------------------
(***************************************************************************)
(* One import of a directory package (server/modules/migrations): the row  *)
(* of the import, an upload row and staging objects for each asset of the  *)
(* package, and the commit that turns all of it into a project.  Every     *)
(* request is a few transactions with calls to the object storage between  *)
(* them, and the storage is outside of every transaction.  What an ended   *)
(* row may no longer become is left to the CHECK constraints of the        *)
(* tables.                                                                 *)
(*                                                                         *)
(* An upload expires with its import: 24 hours from now are never before   *)
(* the 24 hours of the import, and the earlier moment is taken.  A request *)
(* that throws inside a transaction changes nothing, so it is no action,   *)
(* even where it has marked a row as expired first.  The two strategies of *)
(* the commit write the same rows here; refusals for want of quota, of     *)
(* access or of the expected version of the target are not told apart.     *)
(***************************************************************************)
EXTENDS Integers, FiniteSets

CONSTANTS
    Assets,     \* logical assets of the package
    Multipart,  \* those that are uploaded in parts
    Requests,   \* completion requests that can be under way together
    MaxKeys     \* bound: object keys an upload is given

ASSUME ImportAssumption ==
    /\ IsFiniteSet(Assets) /\ Assets # {}
    /\ Multipart \subseteq Assets
    /\ IsFiniteSet(Requests)
    /\ MaxKeys \in Nat

VARIABLES
    import,     \* status of the row in migration_imports
    upload,     \* migration_import_asset_uploads, by asset
    lapsed,     \* expires_at has passed
    idle,       \* assets whose row was not updated for the grace time of the cleaner
    objects,    \* staging objects, as <<asset, key>>
    open,       \* multipart uploads at the storage, neither completed nor aborted
    doomed,     \* objects that a request or the cleaner is about to delete
    request,    \* completeUpload requests under way
    overlapped, \* history: two completions of one upload were under way together
    revived     \* history: an upload was recorded for an import that had expired

rows == <<import, upload>>
clock == <<lapsed, idle>>
storage == <<objects, open>>
history == <<overlapped, revived>>
vars == <<rows, clock, storage, doomed, request, history>>

Active == {"prepared", "uploading", "ready"}
Running == {"uploading", "validating"}
ImportStatuses == Active \cup {"none", "completed", "canceled", "expired"}
UploadStatuses == Running \cup {"none", "completed", "failed", "canceled", "expired"}

Upload == [status : UploadStatuses, key : 0 .. MaxKeys, parts : BOOLEAN,
           committed : {"no", "reused", "adopted"}]
Objects == Assets \X (1 .. MaxKeys)

Idle == [at |-> "idle"]
Committing == {"closing", "adding"}
Stages == {"assembling", "checking", "recording", "failing"} \cup Committing
UnderWay == [at : Stages, object : Objects]

Current(a) == <<a, upload[a].key>>
Completing(a) == {r \in Requests : request[r] # Idle /\ request[r].object[1] = a}

\* The last transaction of a completion has updated the row, and is not at its end: who
\* wants to lock or to update the row waits, and then reads it anew.
Locked(a) == \E r \in Completing(a) : request[r].at \in Committing

\* An UPDATE of an upload row touches updated_at.
SetUpload(a, u) ==
    /\ upload' = [upload EXCEPT ![a] = u]
    /\ idle' = idle \ {a}

Init ==
    /\ import = "none"
    /\ upload = [a \in Assets |-> [status |-> "none", key |-> 0, parts |-> FALSE,
                                   committed |-> "no"]]
    /\ lapsed = FALSE
    /\ idle = {}
    /\ objects = {}
    /\ open = {}
    /\ doomed = {}
    /\ request = [r \in Requests |-> Idle]
    /\ overlapped = FALSE
    /\ revived = FALSE

-----------------------------------------------------------------------------
(* Time *)

Lapse ==
    /\ import # "none" /\ ~lapsed
    /\ lapsed' = TRUE
    /\ UNCHANGED <<rows, idle, storage, doomed, request, history>>

\* The grace time is as long as the life of an import, and no request lasts that long.
GoIdle(a) ==
    /\ lapsed /\ upload[a].status # "none" /\ Completing(a) = {} /\ a \notin idle
    /\ idle' = idle \cup {a}
    /\ UNCHANGED <<rows, lapsed, storage, doomed, request, history>>

-----------------------------------------------------------------------------
(* The import *)

\* A second prepare with the same idempotency key answers with the row, after ExpireImport.
PrepareImport ==
    /\ import = "none"
    /\ import' = "prepared"
    /\ UNCHANGED <<upload, clock, storage, doomed, request, history>>

EndRunning(status) ==
    /\ \A a \in Assets : upload[a].status \in Running => ~Locked(a)
    /\ upload' = [a \in Assets |-> IF upload[a].status \in Running
                                   THEN [upload[a] EXCEPT !.status = status] ELSE upload[a]]
    /\ idle' = {a \in idle : upload[a].status \notin Running}

\* expireImport, which reading, canceling and preparing again begin with; getUpload too.
ExpireImport ==
    /\ lapsed /\ import \in Active
    /\ import' = "expired"
    /\ EndRunning("expired")
    /\ UNCHANGED <<lapsed, storage, doomed, request, history>>

CancelImport ==
    /\ ~lapsed /\ import \in Active
    /\ import' = "canceled"
    /\ EndRunning("canceled")
    /\ UNCHANGED <<lapsed, storage, doomed, request, history>>

\* Reused: assets of which the workspace has a completed copy already.  Nothing here
\* looks at expires_at.  A second commit with the same key answers as the first.
CommitImport(reused) ==
    /\ import = "ready"
    /\ \A a \in Assets :
          upload[a].status = "completed" /\ upload[a].committed = "no" /\ ~Locked(a)
    /\ import' = "completed"
    /\ upload' = [a \in Assets |-> [upload[a] EXCEPT !.committed =
                      IF a \in reused THEN "reused" ELSE "adopted"]]
    /\ UNCHANGED <<clock, storage, doomed, request, history>>

-----------------------------------------------------------------------------
(* The uploads *)

\* prepareOrGet for an upload that has no row, or one that failed: it gets a new object
\* key, and the object of the old one is deleted.
PrepareUpload(a) ==
    /\ import \in Active /\ ~lapsed
    /\ upload[a].status \in {"none", "failed", "expired"}
    /\ upload[a].key < MaxKeys /\ ~Locked(a)
    /\ SetUpload(a, [status |-> "uploading", key |-> upload[a].key + 1, parts |-> FALSE,
                     committed |-> "no"])
    /\ import' = "uploading"
    /\ doomed' = IF upload[a].status = "none" THEN doomed ELSE doomed \cup {Current(a)}
    /\ open' = IF a \in Multipart THEN open \cup {<<a, upload[a].key + 1>>} ELSE open
    /\ UNCHANGED <<lapsed, objects, request, history>>

\* The browser writes the object to the signed address, which outlives the upload.
PutObject(a) ==
    /\ a \notin Multipart /\ upload[a].status # "none"
    /\ objects' = objects \cup {Current(a)}
    /\ UNCHANGED <<rows, clock, open, doomed, request, history>>

\* The browser sends the parts, and reports each of them; those that a completion brings
\* itself are as if reported before it.
RecordParts(a) ==
    /\ a \in Multipart /\ ~upload[a].parts
    /\ import \in Active /\ upload[a].status = "uploading" /\ ~lapsed /\ ~Locked(a)
    /\ SetUpload(a, [upload[a] EXCEPT !.parts = TRUE])
    /\ UNCHANGED <<import, lapsed, storage, doomed, request, history>>

\* getUpload for a row that its import left running.
GetUpload(a) ==
    /\ lapsed /\ import \notin Active /\ upload[a].status \in Running /\ ~Locked(a)
    /\ SetUpload(a, [upload[a] EXCEPT !.status = "expired"])
    /\ UNCHANGED <<import, lapsed, storage, doomed, request, history>>

CancelUpload(a) ==
    /\ import # "completed" /\ upload[a].status \in Running /\ ~Locked(a)
    /\ SetUpload(a, [upload[a] EXCEPT !.status = "canceled"])
    /\ doomed' = doomed \cup {Current(a)}
    /\ UNCHANGED <<import, lapsed, storage, request, history>>

-----------------------------------------------------------------------------
(* completeUpload *)

Goto(r, stage) == request' = [request EXCEPT ![r].at = stage]
Leave(r) == request' = [request EXCEPT ![r] = Idle]

\* The first transaction.  A row that is validating already is taken again.
BeginComplete(r, a) ==
    /\ request[r] = Idle
    /\ import \in Active /\ upload[a].status \in Running /\ ~lapsed /\ ~Locked(a)
    /\ a \in Multipart => upload[a].parts
    /\ SetUpload(a, [upload[a] EXCEPT !.status = "validating"])
    /\ request' = [request EXCEPT ![r] =
           [at |-> IF a \in Multipart THEN "assembling" ELSE "checking", object |-> Current(a)]]
    /\ overlapped' = (overlapped \/ Completing(a) # {})
    /\ UNCHANGED <<import, lapsed, storage, doomed, revived>>

\* The storage knows a multipart upload only until it is completed or aborted.
Assemble(r) ==
    /\ request[r] # Idle /\ request[r].at = "assembling"
    /\ request[r].object \in open
    /\ objects' = objects \cup {request[r].object}
    /\ open' = open \ {request[r].object}
    /\ Goto(r, "checking")
    /\ UNCHANGED <<rows, clock, doomed, history>>

\* assertObjectMatches reads the object to its end.
Check(r) ==
    /\ request[r] # Idle /\ request[r].at = "checking"
    /\ request[r].object \in objects
    /\ Goto(r, "recording")
    /\ UNCHANGED <<rows, clock, storage, doomed, history>>

\* The object or the multipart upload is missing, does not match, or is out of reach.
Refuse(r) ==
    /\ request[r] # Idle /\ request[r].at \in {"assembling", "checking"}
    /\ Goto(r, "failing")
    /\ UNCHANGED <<rows, clock, storage, doomed, history>>

\* Faults: completed_at is not checked, of an upload that fails; of an import.
MayFailAny(u) == u.status # "canceled"
MayProceedAny == import # "none"

\* What the CHECK constraints let a row become: canceled_at and completed_at of an upload
\* are cleared by PrepareUpload only, those of an import never.
MayFail(u) == u.status \notin {"canceled", "completed"}
MayComplete(u) == u.status # "canceled"
MayProceed == import \notin {"canceled", "completed"}

\* The transaction of the failure, and the deletions after it, which it does not reach
\* when the row refuses.
Fail(r) ==
    /\ request[r] # Idle /\ request[r].at = "failing"
    /\ LET a == request[r].object[1] IN
       /\ ~Locked(a)
       /\ IF MayFail(upload[a])
          THEN /\ SetUpload(a, [upload[a] EXCEPT !.status = "failed"])
               /\ doomed' = doomed \cup {request[r].object}
          ELSE UNCHANGED <<upload, idle, doomed>>
    /\ Leave(r)
    /\ UNCHANGED <<import, lapsed, storage, history>>

AllCompleted(u) == \A a \in Assets : u[a].status = "completed"
OthersCompleted(a) == \A b \in Assets \ {a} : upload[b].status = "completed"

\* The last transaction.  Its first statement finds the row by its id, whatever has
\* become of it, and keeps it locked; the second counts what is completed as it begins,
\* its own upload included and those of transactions that have not ended left out.
CountCompleted(r) ==
    /\ request[r] # Idle /\ request[r].at = "recording"
    /\ LET a == request[r].object[1] IN
       /\ ~Locked(a)
       /\ IF MayComplete(upload[a])
          THEN Goto(r, IF OthersCompleted(a) THEN "closing" ELSE "adding")
          ELSE Leave(r)
    /\ UNCHANGED <<rows, clock, storage, doomed, history>>

\* The second statement has waited for the row of the import, sets its status by what it
\* had counted, and the transaction commits, unless the row refuses.
Record(r) ==
    /\ request[r] # Idle /\ request[r].at \in Committing
    /\ IF MayProceed
       THEN /\ LET a == request[r].object[1]
               IN SetUpload(a, [upload[a] EXCEPT !.status = "completed"])
            /\ import' = IF request[r].at = "closing" THEN "ready" ELSE "uploading"
            /\ revived' = (revived \/ import = "expired")
       ELSE UNCHANGED <<upload, idle, import, revived>>
    /\ Leave(r)
    /\ UNCHANGED <<lapsed, storage, doomed, overlapped>>

\* The process ends, or the connection to the database does.
Abandon(r) ==
    /\ request[r] # Idle
    /\ Leave(r)
    /\ UNCHANGED <<rows, clock, storage, doomed, history>>

-----------------------------------------------------------------------------
(* The cleaner, every 15 minutes, and deletions *)

MaintainImports ==
    /\ lapsed /\ import \in Active
    /\ import' = "expired"
    /\ UNCHANGED <<upload, clock, storage, doomed, request, history>>

MaintainUploads ==
    /\ lapsed /\ \E a \in Assets : upload[a].status \in Running
    /\ EndRunning("expired")
    /\ UNCHANGED <<import, lapsed, storage, doomed, request, history>>

\* Fault: the objects of a committed import are selected too.
StaleAny(a) ==
    /\ a \in idle
    /\ upload[a].status \in {"failed", "canceled", "expired", "completed"}

Stale(a) ==
    /\ a \in idle /\ upload[a].committed = "no"
    /\ \/ upload[a].status \in {"failed", "canceled", "expired"}
       \/ upload[a].status = "completed" /\ import \in {"canceled", "expired"}

\* The query; the objects are deleted afterwards, and their rows stay as they are.
SelectStale ==
    /\ \E a \in Assets : Stale(a)
    /\ doomed' = doomed \cup {Current(a) : a \in {b \in Assets : Stale(b)}}
    /\ UNCHANGED <<rows, clock, storage, request, history>>

DeleteObject(o) ==
    /\ o \in doomed
    /\ doomed' = doomed \ {o}
    /\ objects' = objects \ {o}
    /\ open' = open \ {o}
    /\ UNCHANGED <<rows, clock, request, history>>

\* An error of the storage is swallowed, and a process may end before it gets there.
LoseDeletion(o) ==
    /\ o \in doomed
    /\ doomed' = doomed \ {o}
    /\ UNCHANGED <<rows, clock, storage, request, history>>

-----------------------------------------------------------------------------

Next ==
    \/ Lapse \/ PrepareImport \/ ExpireImport \/ CancelImport
    \/ \E reused \in SUBSET Assets : CommitImport(reused)
    \/ \E a \in Assets : \/ GoIdle(a) \/ PrepareUpload(a) \/ PutObject(a) \/ RecordParts(a)
                         \/ GetUpload(a) \/ CancelUpload(a)
    \/ \E r \in Requests : \/ Assemble(r) \/ Check(r) \/ Refuse(r) \/ Fail(r)
                           \/ CountCompleted(r) \/ Record(r) \/ Abandon(r)
                           \/ \E a \in Assets : BeginComplete(r, a)
    \/ MaintainImports \/ MaintainUploads \/ SelectStale
    \/ \E o \in Objects : DeleteObject(o) \/ LoseDeletion(o)

Spec == Init /\ [][Next]_vars

-----------------------------------------------------------------------------
(* Properties *)

\* The rows, the storage and the requests under way.
ImportTypeOK ==
    /\ import \in ImportStatuses
    /\ upload \in [Assets -> Upload]
    /\ lapsed \in BOOLEAN /\ idle \subseteq Assets
    /\ objects \subseteq Objects /\ open \subseteq Objects /\ doomed \subseteq Objects
    /\ request \in [Requests -> UnderWay \cup {Idle}]
    /\ overlapped \in BOOLEAN /\ revived \in BOOLEAN

\* What has ended stays as it ended, whichever request of before arrives late: an import
\* that was completed or canceled, an upload that was canceled, and the upload of an asset
\* that a commit has taken.  (An import that expired is not among them: Record.)
EndedIsFinal == [][
    /\ import \in {"completed", "canceled"} => import' = import
    /\ \A a \in Assets :
          upload[a].status = "canceled" \/ upload[a].committed # "no" => upload'[a] = upload[a]]_vars

\* An import that is ready, or completed, has a completed upload for every asset, so that
\* nothing needs to be looked at between the last upload and the commit.
ReadyIsComplete == import \in {"ready", "completed"} => AllCompleted(upload)

\* The object of an asset that a commit has adopted is in the storage, and nobody is about
\* to delete it -- as long as no two completions of one upload were under way together and
\* no upload was recorded for an import that had expired.  Either loses it, see the README.
AdoptedIsStored ==
    ~overlapped /\ ~revived =>
        \A a \in Assets : upload[a].committed = "adopted" =>
            Current(a) \in objects /\ Current(a) \notin doomed

=============================================================================
