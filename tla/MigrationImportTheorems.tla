----------------------- MODULE MigrationImportTheorems -----------------------
(***************************************************************************)
(* For any package, requests and number of keys: what has ended stays      *)
(* ended, an import that is ready has all its uploads, and what a commit   *)
(* adopts is in the storage.  The last follows an object from the moment a *)
(* request has read it: whoever is about to delete the object an upload    *)
(* has at present has first put the upload into a state from which it is   *)
(* committed under another key, or never (Lost).                           *)
(***************************************************************************)
EXTENDS MigrationImport, TLAPS

-----------------------------------------------------------------------------
(* Types *)

\* An upload that was begun has a key.
Keyed == \A a \in Assets : upload[a].status # "none" => upload[a].key # 0

\* A request is about an upload that was begun.
Begun == \A r \in Requests : request[r] # Idle => upload[request[r].object[1]].status # "none"

Typed == ImportTypeOK /\ Keyed /\ Begun

\* The object an upload points at is an object.
LEMMA CurrentType ==
    ASSUME Typed, NEW a \in Assets, upload[a].status # "none"
    PROVE  Current(a) \in Objects
BY ImportAssumption DEF Typed, ImportTypeOK, Keyed, Current, Objects, Upload

\* Writing the row of one upload keeps types and keys, and the others' rows.
LEMMA SetUploadType ==
    ASSUME Typed, NEW a \in Assets, NEW u \in Upload, u.status # "none" => u.key # 0,
           SetUpload(a, u)
    PROVE  /\ upload' \in [Assets -> Upload]
           /\ upload'[a] = u
           /\ \A b \in Assets \ {a} : upload'[b] = upload[b]
           /\ idle' \subseteq Assets /\ idle' = idle \ {a}
           /\ Keyed'
BY DEF Typed, ImportTypeOK, Keyed, SetUpload

\* Expiring or canceling the running uploads keeps types, keys and what was committed.
LEMMA EndRunningType ==
    ASSUME Typed, NEW s \in {"expired", "canceled"}, EndRunning(s)
    PROVE  /\ upload' \in [Assets -> Upload]
           /\ \A a \in Assets : /\ upload'[a].key = upload[a].key
                                /\ upload'[a].committed = upload[a].committed
                                /\ upload[a].status \in Running => upload'[a].status = s
                                /\ upload[a].status \notin Running => upload'[a] = upload[a]
           /\ idle' \subseteq idle
           /\ Keyed'
<1>1. \A a \in Assets : /\ [upload[a] EXCEPT !.status = s] \in Upload
                        /\ [upload[a] EXCEPT !.status = s].key = upload[a].key
                        /\ [upload[a] EXCEPT !.status = s].committed = upload[a].committed
                        /\ [upload[a] EXCEPT !.status = s].status = s
  BY DEF Typed, ImportTypeOK, Upload, UploadStatuses, Running
<1>2. upload' \in [Assets -> Upload]
  BY <1>1 DEF EndRunning, Typed, ImportTypeOK
<1>3. \A a \in Assets : /\ upload'[a].key = upload[a].key
                        /\ upload'[a].committed = upload[a].committed
                        /\ upload[a].status \in Running => upload'[a].status = s
                        /\ upload[a].status \notin Running => upload'[a] = upload[a]
  BY <1>1 DEF EndRunning
<1>4. idle' \subseteq idle
  BY DEF EndRunning
<1>5. Keyed'
  BY <1>3 DEF Keyed, Typed, Running
<1> QED
  BY <1>2, <1>3, <1>4, <1>5

\* A request that goes on keeps its object, and the others are as they were.
LEMMA GotoType ==
    ASSUME Typed, NEW r \in Requests, request[r] # Idle, NEW s \in Stages, Goto(r, s)
    PROVE  /\ request' \in [Requests -> UnderWay \cup {Idle}]
           /\ request'[r].object = request[r].object /\ request'[r].at = s
           /\ request'[r] # Idle
           /\ \A q \in Requests \ {r} : request'[q] = request[q]
<1>1. request[r] \in UnderWay /\ request \in [Requests -> UnderWay \cup {Idle}]
  BY DEF Typed, ImportTypeOK
<1>2. request' = [request EXCEPT ![r] = [request[r] EXCEPT !.at = s]]
  BY DEF Goto
<1>3. [request[r] EXCEPT !.at = s] \in UnderWay
  BY <1>1 DEF UnderWay
<1>4. [request[r] EXCEPT !.at = s].object = request[r].object
      /\ [request[r] EXCEPT !.at = s].at = s
  BY <1>1 DEF UnderWay
<1>5. request'[r] = [request[r] EXCEPT !.at = s]
  BY <1>1, <1>2
<1>6. s # "idle"
  BY DEF Stages, Committing
<1> QED
  BY <1>1, <1>2, <1>3, <1>4, <1>5, <1>6 DEF Idle

\* A request that ends is idle, and the others are as they were.
LEMMA LeaveType ==
    ASSUME Typed, NEW r \in Requests, Leave(r)
    PROVE  /\ request' \in [Requests -> UnderWay \cup {Idle}]
           /\ request'[r] = Idle
           /\ \A q \in Requests \ {r} : request'[q] = request[q]
BY DEF Typed, ImportTypeOK, Leave

\* The object of a request is one of an asset of the package.
LEMMA RequestType ==
    ASSUME Typed, NEW r \in Requests, request[r] # Idle
    PROVE  /\ request[r].object \in Objects /\ request[r].object[1] \in Assets
           /\ request[r].at \in Stages
BY DEF Typed, ImportTypeOK, UnderWay, Objects

TypedRows == ImportTypeOK /\ Keyed

\* Every step keeps the types of the rows.
LEMMA RowTypesKept == Typed /\ [Next]_vars => TypedRows'
<1> SUFFICES ASSUME Typed, [Next]_vars PROVE TypedRows'
  OBVIOUS
<1> USE DEF rows, clock, storage, history
<1>0. ImportTypeOK /\ Keyed /\ Begun
  BY DEF Typed
<1>1. CASE Lapse \/ PrepareImport \/ MaintainImports
  BY <1>0, <1>1 DEF Lapse, PrepareImport, MaintainImports, TypedRows, ImportTypeOK, Keyed,
                    ImportStatuses, Active
<1>2. CASE ExpireImport
  BY <1>0, <1>2, EndRunningType DEF ExpireImport, TypedRows, ImportTypeOK, ImportStatuses
<1>3. CASE CancelImport
  BY <1>0, <1>3, EndRunningType DEF CancelImport, TypedRows, ImportTypeOK, ImportStatuses
<1>4. CASE MaintainUploads
  BY <1>0, <1>4, EndRunningType DEF MaintainUploads, TypedRows, ImportTypeOK
<1>5. ASSUME NEW reused \in SUBSET Assets, CommitImport(reused) PROVE TypedRows'
  <2> DEFINE taken(a) == [upload[a] EXCEPT !.committed =
                             IF a \in reused THEN "reused" ELSE "adopted"]
  <2>1. \A a \in Assets : /\ taken(a) \in Upload /\ taken(a).key = upload[a].key
                          /\ taken(a).status = upload[a].status
    BY <1>0 DEF ImportTypeOK, Upload
  <2>2. upload' = [a \in Assets |-> taken(a)]
    BY <1>5 DEF CommitImport
  <2>3. upload' \in [Assets -> Upload] /\ Keyed'
    BY <1>0, <2>1, <2>2 DEF Keyed
  <2> QED
    BY <1>0, <1>5, <2>3 DEF CommitImport, TypedRows, ImportTypeOK, ImportStatuses
<1>6. ASSUME NEW a \in Assets, GoIdle(a) \/ PutObject(a) PROVE TypedRows'
  BY <1>0, <1>6, CurrentType DEF GoIdle, PutObject, TypedRows, ImportTypeOK, Keyed
<1>7. ASSUME NEW a \in Assets, PrepareUpload(a) PROVE TypedRows'
  <2> DEFINE u == [status |-> "uploading", key |-> upload[a].key + 1, parts |-> FALSE,
                   committed |-> "no"]
  <2>1. u \in Upload /\ u.key # 0 /\ <<a, u.key>> \in Objects
    BY <1>0, <1>7, ImportAssumption DEF PrepareUpload, ImportTypeOK, Upload, UploadStatuses,
                                        Running, Objects
  <2>2. upload' \in [Assets -> Upload] /\ idle' \subseteq Assets /\ Keyed'
    BY <1>7, <2>1, SetUploadType DEF PrepareUpload
  <2>3. open' \subseteq Objects
    BY <1>0, <1>7, <2>1 DEF PrepareUpload, ImportTypeOK
  <2>4. doomed' \subseteq Objects
    BY <1>0, <1>7, CurrentType DEF PrepareUpload, ImportTypeOK
  <2> QED
    BY <1>0, <1>7, <2>2, <2>3, <2>4 DEF PrepareUpload, TypedRows, ImportTypeOK, ImportStatuses, Active
<1>8. ASSUME NEW a \in Assets, RecordParts(a) PROVE TypedRows'
  <2> DEFINE u == [upload[a] EXCEPT !.parts = TRUE]
  <2>1. u \in Upload /\ u.key = upload[a].key /\ u.status = upload[a].status
    BY <1>0 DEF ImportTypeOK, Upload
  <2>2. SetUpload(a, u)
    BY <1>8 DEF RecordParts
  <2>3. upload' \in [Assets -> Upload] /\ idle' \subseteq Assets /\ Keyed'
    BY <1>0, <2>1, <2>2, SetUploadType DEF Keyed
  <2> QED
    BY <1>0, <1>8, <2>3 DEF RecordParts, TypedRows, ImportTypeOK
<1>9. ASSUME NEW a \in Assets, NEW s \in UploadStatuses, upload[a].status # "none",
             SetUpload(a, [upload[a] EXCEPT !.status = s])
      PROVE  upload' \in [Assets -> Upload] /\ idle' \subseteq Assets /\ Keyed'
  <2> DEFINE u == [upload[a] EXCEPT !.status = s]
  <2>1. u \in Upload /\ u.key = upload[a].key
    BY <1>0 DEF ImportTypeOK, Upload
  <2> QED
    BY <1>0, <1>9, <2>1, SetUploadType DEF Keyed
<1>10. ASSUME NEW a \in Assets, GetUpload(a) \/ CancelUpload(a) PROVE TypedRows'
  <2>1. upload' \in [Assets -> Upload] /\ idle' \subseteq Assets /\ Keyed'
    BY <1>9, <1>10 DEF GetUpload, CancelUpload, Running, UploadStatuses
  <2> QED
    BY <1>0, <1>10, <2>1, CurrentType DEF GetUpload, CancelUpload, Running, TypedRows, ImportTypeOK
<1>11. ASSUME NEW r \in Requests, NEW a \in Assets, BeginComplete(r, a) PROVE TypedRows'
  <2>1. upload' \in [Assets -> Upload] /\ idle' \subseteq Assets /\ Keyed'
    BY <1>9, <1>11 DEF BeginComplete, Running, UploadStatuses
  <2>2. Current(a) \in Objects
    BY <1>11, CurrentType DEF BeginComplete, Running
  <2>3. request' \in [Requests -> UnderWay \cup {Idle}]
    BY <1>0, <1>11, <2>2 DEF BeginComplete, ImportTypeOK, UnderWay, Stages
  <2>4. overlapped' \in BOOLEAN
    BY <1>11 DEF BeginComplete
  <2> QED
    BY <1>0, <1>11, <2>1, <2>3, <2>4 DEF BeginComplete, TypedRows, ImportTypeOK
<1>12. ASSUME NEW r \in Requests, Assemble(r) \/ Check(r) \/ Refuse(r) PROVE TypedRows'
  <2>1. request' \in [Requests -> UnderWay \cup {Idle}]
    BY <1>12, GotoType DEF Assemble, Check, Refuse, Stages
  <2> QED
    BY <1>0, <1>12, <2>1, RequestType DEF Assemble, Check, Refuse, TypedRows, ImportTypeOK, Keyed
<1>13. ASSUME NEW r \in Requests, Fail(r) PROVE TypedRows'
  <2> DEFINE a == request[r].object[1]
  <2>1. a \in Assets /\ request[r].object \in Objects
    BY <1>13, RequestType DEF Fail
  <2>2. request' \in [Requests -> UnderWay \cup {Idle}]
    BY <1>13, LeaveType DEF Fail
  <2>3. CASE UNCHANGED <<upload, idle, doomed>>
    BY <1>0, <1>13, <2>2, <2>3 DEF Fail, TypedRows, ImportTypeOK, Keyed
  <2>4. CASE /\ SetUpload(a, [upload[a] EXCEPT !.status = "failed"])
             /\ doomed' = doomed \cup {request[r].object}
    <3>1. upload[a].status # "none"
      BY <1>0, <1>13 DEF Fail, Begun
    <3> QED
      BY <1>0, <1>9, <1>13, <2>1, <2>2, <2>4, <3>1 DEF Fail, TypedRows, ImportTypeOK, UploadStatuses
  <2> QED
    BY <1>13, <2>3, <2>4 DEF Fail, MayFail
<1>14. ASSUME NEW r \in Requests, Record(r) PROVE TypedRows'
  <2> DEFINE a == request[r].object[1]
  <2>1. a \in Assets /\ upload[a].status # "none"
    BY <1>0, <1>14, RequestType DEF Record, Begun
  <2>2. request' \in [Requests -> UnderWay \cup {Idle}]
    BY <1>14, LeaveType DEF Record
  <2>3. CASE UNCHANGED <<upload, idle, import, revived>>
    BY <1>0, <1>14, <2>2, <2>3 DEF Record, TypedRows, ImportTypeOK, Keyed
  <2>4. CASE MayProceed
    <3>1. import' \in ImportStatuses /\ revived' \in BOOLEAN
      BY <1>14, <2>4 DEF Record, ImportStatuses, Active
    <3>2. upload' \in [Assets -> Upload] /\ idle' \subseteq Assets /\ Keyed'
      BY <1>9, <1>14, <2>1, <2>4 DEF Record, UploadStatuses
    <3> QED
      BY <1>0, <1>14, <2>2, <3>1, <3>2 DEF Record, TypedRows, ImportTypeOK
  <2> QED
    BY <1>14, <2>3, <2>4 DEF Record
<1>19. ASSUME NEW r \in Requests, CountCompleted(r) PROVE TypedRows'
  <2>1. request' \in [Requests -> UnderWay \cup {Idle}]
    BY <1>19, GotoType, LeaveType DEF CountCompleted, Stages, Committing
  <2> QED
    BY <1>0, <1>19, <2>1 DEF CountCompleted, TypedRows, ImportTypeOK, Keyed
<1>15. ASSUME NEW r \in Requests, Abandon(r) PROVE TypedRows'
  BY <1>0, <1>15, LeaveType DEF Abandon, TypedRows, ImportTypeOK, Keyed
<1>16. CASE SelectStale
  <2>1. doomed' \subseteq Objects
    BY <1>0, <1>16, CurrentType DEF SelectStale, Stale, ImportTypeOK
  <2> QED
    BY <1>0, <1>16, <2>1 DEF SelectStale, TypedRows, ImportTypeOK, Keyed
<1>17. ASSUME NEW o \in Objects, DeleteObject(o) \/ LoseDeletion(o) PROVE TypedRows'
  BY <1>0, <1>17 DEF DeleteObject, LoseDeletion, TypedRows, ImportTypeOK, Keyed
<1>18. CASE UNCHANGED vars
  BY <1>0, <1>18 DEF vars, TypedRows, ImportTypeOK, Keyed
<1> QED
  BY <1>1, <1>2, <1>3, <1>4, <1>5, <1>6, <1>7, <1>8, <1>10, <1>11, <1>12, <1>13, <1>14, <1>15,
     <1>16, <1>17, <1>18, <1>19 DEF Next

\* Once begun, an upload stays begun; the requests that a step leaves or makes are about
\* uploads that were.
LEMMA BegunKept == Typed /\ TypedRows' /\ [Next]_vars => Begun'
<1> SUFFICES ASSUME Typed, TypedRows', [Next]_vars PROVE Begun'
  OBVIOUS
<1> USE DEF rows, clock, storage, history
<1>0. ImportTypeOK /\ Keyed /\ Begun /\ upload \in [Assets -> Upload]
  BY DEF Typed, ImportTypeOK
<1>1. ASSUME \A a \in Assets : upload[a].status # "none" => upload'[a].status # "none",
             \A r \in Requests : request'[r] # Idle =>
                 \/ request[r] # Idle /\ request'[r].object = request[r].object
                 \/ upload'[request'[r].object[1]].status # "none"
      PROVE  Begun'
  <2>1. \A r \in Requests : request[r] # Idle => request[r].object[1] \in Assets
    BY RequestType
  <2> QED
    BY <1>0, <1>1, <2>1 DEF Begun
<1>2. ASSUME NEW a \in Assets, NEW u, SetUpload(a, u), u.status # "none"
      PROVE  \A b \in Assets : upload[b].status # "none" => upload'[b].status # "none"
  BY <1>0, <1>2 DEF SetUpload
<1>3. CASE UNCHANGED <<upload, request>>
  BY <1>0, <1>3 DEF Begun
<1>4. CASE UNCHANGED request /\ (EndRunning("expired") \/ EndRunning("canceled"))
  BY <1>1, <1>4, EndRunningType DEF Running
<1>5. ASSUME NEW reused \in SUBSET Assets, CommitImport(reused) PROVE Begun'
  <2>1. \A a \in Assets : upload'[a].status = upload[a].status
    BY <1>0, <1>5 DEF CommitImport, Upload
  <2> QED
    BY <1>1, <1>5, <2>1 DEF CommitImport
<1>6. ASSUME NEW a \in Assets, PrepareUpload(a) PROVE Begun'
  BY <1>1, <1>2, <1>6 DEF PrepareUpload
<1>7. ASSUME NEW a \in Assets, NEW s \in UploadStatuses \ {"none"}
      PROVE  /\ [upload[a] EXCEPT !.status = s].status # "none"
             /\ [upload[a] EXCEPT !.parts = TRUE].status = upload[a].status
  BY <1>0 DEF Upload
<1>8. ASSUME NEW a \in Assets, RecordParts(a) PROVE Begun'
  <2>1. [upload[a] EXCEPT !.parts = TRUE].status # "none"
    BY <1>7, <1>8 DEF RecordParts, UploadStatuses, Running
  <2> QED
    BY <1>1, <1>2, <1>8, <2>1 DEF RecordParts
<1>9. ASSUME NEW a \in Assets, GetUpload(a) \/ CancelUpload(a) PROVE Begun'
  BY <1>1, <1>2, <1>7, <1>9 DEF GetUpload, CancelUpload, UploadStatuses
<1>10. ASSUME NEW r \in Requests, NEW a \in Assets, BeginComplete(r, a) PROVE Begun'
  <2>1. \A b \in Assets : upload[b].status # "none" => upload'[b].status # "none"
    BY <1>2, <1>7, <1>10 DEF BeginComplete, UploadStatuses, Running
  <2>2. request'[r].object[1] = a /\ \A q \in Requests \ {r} : request'[q] = request[q]
    BY <1>0, <1>10 DEF BeginComplete, ImportTypeOK, Current
  <2>3. upload'[a].status # "none"
    BY <1>10, <2>1 DEF BeginComplete, Running
  <2> QED
    BY <1>1, <2>1, <2>2, <2>3
<1>11. ASSUME NEW r \in Requests, Assemble(r) \/ Check(r) \/ Refuse(r) PROVE Begun'
  <2>1. /\ request'[r].object = request[r].object /\ request[r] # Idle
        /\ \A q \in Requests \ {r} : request'[q] = request[q]
    BY <1>11, GotoType DEF Assemble, Check, Refuse, Stages
  <2> QED
    BY <1>1, <1>11, <2>1 DEF Assemble, Check, Refuse
<1>12. ASSUME NEW r \in Requests, Leave(r)
       PROVE  \A q \in Requests : request'[q] # Idle =>
                  request[q] # Idle /\ request'[q].object = request[q].object
  BY <1>12, LeaveType
<1>13. ASSUME NEW r \in Requests, Fail(r) PROVE Begun'
  <2>1. request[r].object[1] \in Assets
    BY <1>13, RequestType DEF Fail
  <2>2. \A b \in Assets : upload[b].status # "none" => upload'[b].status # "none"
    BY <1>2, <1>7, <1>13, <2>1 DEF Fail, UploadStatuses
  <2> QED
    BY <1>1, <1>12, <1>13, <2>2 DEF Fail
<1>14. ASSUME NEW r \in Requests, Record(r) PROVE Begun'
  <2>1. request[r].object[1] \in Assets
    BY <1>14, RequestType DEF Record
  <2>2. \A b \in Assets : upload[b].status # "none" => upload'[b].status # "none"
    BY <1>2, <1>7, <1>14, <2>1 DEF Record, UploadStatuses
  <2> QED
    BY <1>1, <1>12, <1>14, <2>2 DEF Record
<1>20. ASSUME NEW r \in Requests, CountCompleted(r) PROVE Begun'
  <2>1. \A q \in Requests : request'[q] # Idle =>
            request[q] # Idle /\ request'[q].object = request[q].object
    BY <1>20, GotoType, LeaveType DEF CountCompleted, Stages, Committing
  <2> QED
    BY <1>1, <1>20, <2>1 DEF CountCompleted
<1>15. ASSUME NEW r \in Requests, Abandon(r) PROVE Begun'
  BY <1>1, <1>12, <1>15 DEF Abandon
<1>16. ASSUME NEW a \in Assets, GoIdle(a) \/ PutObject(a) PROVE Begun'
  BY <1>3, <1>16 DEF GoIdle, PutObject
<1>17. CASE Lapse \/ PrepareImport \/ MaintainImports \/ SelectStale \/ UNCHANGED vars
  BY <1>3, <1>17 DEF Lapse, PrepareImport, MaintainImports, SelectStale, vars
<1>18. CASE ExpireImport \/ CancelImport \/ MaintainUploads
  BY <1>4, <1>18 DEF ExpireImport, CancelImport, MaintainUploads
<1>19. ASSUME NEW o \in Objects, DeleteObject(o) \/ LoseDeletion(o) PROVE Begun'
  BY <1>3, <1>19 DEF DeleteObject, LoseDeletion
<1> QED
  BY <1>5, <1>6, <1>8, <1>9, <1>10, <1>11, <1>13, <1>14, <1>15, <1>16, <1>17, <1>18, <1>19,
     <1>20 DEF Next

\* The rows, the storage and the requests under way keep their types.
THEOREM ImportTypes == Spec => []Typed
<1>1. Init => Typed
  <2> SUFFICES ASSUME Init PROVE Typed
    OBVIOUS
  <2>1. upload \in [Assets -> Upload] /\ Keyed /\ Begun
    BY ImportAssumption DEF Init, Upload, UploadStatuses, Keyed, Begun
  <2>2. lapsed \in BOOLEAN /\ overlapped \in BOOLEAN /\ revived \in BOOLEAN
    BY DEF Init
  <2> QED
    BY <2>1, <2>2 DEF Init, Typed, ImportTypeOK, ImportStatuses
<1>2. Typed /\ [Next]_vars => Typed'
  BY RowTypesKept, BegunKept DEF Typed, TypedRows
<1> QED
  BY <1>1, <1>2, PTL DEF Spec

-----------------------------------------------------------------------------
(* What has ended *)

\* What a change of one upload's status does to the rows.
LEMMA StatusSet ==
    ASSUME Typed, NEW a \in Assets, NEW s \in UploadStatuses,
           SetUpload(a, [upload[a] EXCEPT !.status = s])
    PROVE  /\ upload'[a].status = s /\ upload'[a].key = upload[a].key
           /\ upload'[a].committed = upload[a].committed
           /\ \A b \in Assets \ {a} : upload'[b] = upload[b]
           /\ idle' = idle \ {a}
BY DEF Typed, ImportTypeOK, Upload, SetUpload

\* A commit takes all the assets of the import together.
CommittedDone ==
    \A a \in Assets : upload[a].committed # "no" =>
        upload[a].status = "completed" /\ import = "completed"

RowInv == CommittedDone /\ ReadyIsComplete

Frozen(a) == upload[a].status = "canceled" \/ upload[a].committed # "no"

\* A completion that is about to commit has an upload that may become completed; if it
\* counted itself as the last one, it still is.
Counted ==
    \A r \in Requests : request[r] # Idle /\ request[r].at \in Committing =>
        /\ upload[request[r].object[1]].status # "canceled"
        /\ request[r].at = "closing" => OthersCompleted(request[r].object[1])

\* Nobody cancels an upload whose row is locked, and none stops being completed.
LEMMA CountedKeeps ==
    ASSUME Typed, Counted,
           \A a \in Assets : upload[a].status = "completed" => upload'[a].status = "completed",
           \A a \in Assets : upload'[a].status = "canceled" =>
               upload[a].status = "canceled" \/ ~Locked(a),
           \A r \in Requests : request'[r] # Idle /\ request'[r].at \in Committing =>
               request[r] # Idle /\ request'[r] = request[r]
    PROVE  Counted'
<1> SUFFICES ASSUME NEW r \in Requests, request'[r] # Idle, request'[r].at \in Committing
             PROVE  /\ upload'[request'[r].object[1]].status # "canceled"
                    /\ request'[r].at = "closing" =>
                           \A b \in Assets \ {request'[r].object[1]} : upload'[b].status = "completed"
  BY DEF Counted, OthersCompleted
<1> DEFINE a == request[r].object[1]
<1>1. /\ request[r] # Idle /\ request'[r] = request[r] /\ request[r].at \in Committing
      /\ a \in Assets
  BY RequestType
<1>2. Locked(a)
  BY <1>1 DEF Locked, Completing
<1>3. upload'[a].status # "canceled"
  BY <1>1, <1>2 DEF Counted
<1>4. request[r].at = "closing" => OthersCompleted(a)
  BY <1>1 DEF Counted
<1>5. request[r].at = "closing" => \A b \in Assets \ {a} : upload'[b].status = "completed"
  BY <1>4 DEF OthersCompleted
<1> QED
  BY <1>1, <1>3, <1>5

\* What a completion counted stays true until it commits.
LEMMA CountedStep == Typed /\ Counted /\ [Next]_vars => Counted'
<1> SUFFICES ASSUME Typed, Counted, [Next]_vars PROVE Counted'
  OBVIOUS
<1> USE DEF rows, clock, storage, history
<1>0. upload \in [Assets -> Upload] /\ request \in [Requests -> UnderWay \cup {Idle}]
  BY DEF Typed, ImportTypeOK
<1>1. CASE UNCHANGED <<upload, request>>
  BY <1>1, CountedKeeps
<1>2. CASE UNCHANGED request /\ (EndRunning("expired") \/ EndRunning("canceled"))
  <2>1. \A a \in Assets : upload[a].status \in Running => ~Locked(a)
    BY <1>2 DEF EndRunning
  <2>2. \A a \in Assets : upload[a].status \notin Running => upload'[a] = upload[a]
    BY <1>2, EndRunningType
  <2> QED
    BY <1>2, <2>1, <2>2, CountedKeeps DEF Running
<1>3. ASSUME NEW reused \in SUBSET Assets, CommitImport(reused) PROVE Counted'
  <2>1. \A a \in Assets : upload'[a].status = upload[a].status
    BY <1>0, <1>3 DEF CommitImport, Upload
  <2> QED
    BY <1>3, <2>1, CountedKeeps DEF CommitImport
<1>4. ASSUME NEW a \in Assets, ~Locked(a), upload[a].status # "completed",
             \A b \in Assets \ {a} : upload'[b] = upload[b],
             \A q \in Requests : request'[q] # Idle /\ request'[q].at \in Committing =>
                 request[q] # Idle /\ request'[q] = request[q]
      PROVE  Counted'
  BY <1>4, CountedKeeps
<1>5. ASSUME NEW a \in Assets,
             PrepareUpload(a) \/ RecordParts(a) \/ GetUpload(a) \/ CancelUpload(a)
      PROVE  Counted'
  <2>1. ~Locked(a) /\ upload[a].status # "completed" /\ UNCHANGED request
    BY <1>5 DEF PrepareUpload, RecordParts, GetUpload, CancelUpload, Running
  <2>2. \A b \in Assets \ {a} : upload'[b] = upload[b]
    BY <1>0, <1>5 DEF PrepareUpload, RecordParts, GetUpload, CancelUpload, SetUpload
  <2> QED
    BY <1>4, <2>1, <2>2
<1>6. ASSUME NEW r \in Requests, NEW a \in Assets, BeginComplete(r, a) PROVE Counted'
  <2>1. ~Locked(a) /\ upload[a].status # "completed"
    BY <1>6 DEF BeginComplete, Running
  <2>2. \A b \in Assets \ {a} : upload'[b] = upload[b]
    BY <1>0, <1>6 DEF BeginComplete, SetUpload
  <2>3. /\ request'[r].at \notin Committing
        /\ \A q \in Requests \ {r} : request'[q] = request[q]
    BY <1>0, <1>6 DEF BeginComplete, Committing
  <2> QED
    BY <1>4, <2>1, <2>2, <2>3
<1>7. ASSUME NEW r \in Requests, Assemble(r) \/ Check(r) \/ Refuse(r) PROVE Counted'
  <2>1. request'[r].at \notin Committing /\ \A q \in Requests \ {r} : request'[q] = request[q]
    BY <1>7, GotoType DEF Assemble, Check, Refuse, Stages, Committing
  <2>2. UNCHANGED upload
    BY <1>7 DEF Assemble, Check, Refuse
  <2> QED
    BY <2>1, <2>2, CountedKeeps
<1>8. ASSUME NEW r \in Requests, Leave(r)
      PROVE  \A q \in Requests : request'[q] # Idle =>
                 request[q] # Idle /\ request'[q] = request[q]
  BY <1>8, LeaveType
<1>9. ASSUME NEW r \in Requests, Fail(r) PROVE Counted'
  <2> DEFINE a == request[r].object[1]
  <2>1. a \in Assets /\ ~Locked(a) /\ Leave(r)
    BY <1>9, RequestType DEF Fail
  <2>2. CASE UNCHANGED upload
    BY <1>8, <2>1, <2>2, CountedKeeps
  <2>3. CASE MayFail(upload[a]) /\ SetUpload(a, [upload[a] EXCEPT !.status = "failed"])
    <3>1. \A b \in Assets \ {a} : upload'[b] = upload[b]
      BY <1>0, <2>3 DEF SetUpload
    <3> QED
      BY <1>4, <1>8, <2>1, <2>3, <3>1 DEF MayFail
  <2> QED
    BY <1>9, <2>2, <2>3 DEF Fail
<1>10. ASSUME NEW r \in Requests, CountCompleted(r) PROVE Counted'
  <2> DEFINE a == request[r].object[1]
  <2>1. a \in Assets /\ UNCHANGED upload /\ request[r] # Idle
    BY <1>10, RequestType DEF CountCompleted
  <2>2. CASE Leave(r)
    BY <1>8, <2>1, <2>2, CountedKeeps
  <2>3. CASE MayComplete(upload[a]) /\ Goto(r, IF OthersCompleted(a) THEN "closing" ELSE "adding")
    <3> DEFINE s == IF OthersCompleted(a) THEN "closing" ELSE "adding"
    <3>1. /\ request'[r].object = request[r].object /\ request'[r].at = s
          /\ \A q \in Requests \ {r} : request'[q] = request[q]
      BY <2>1, <2>3, GotoType DEF Stages, Committing
    <3>2. upload[a].status # "canceled" /\ (s = "closing" => OthersCompleted(a))
      BY <2>3 DEF MayComplete
    <3>3. OthersCompleted(a)' <=> OthersCompleted(a)
      BY <2>1, <3>1 DEF OthersCompleted
    <3>4. ASSUME NEW q \in Requests \ {r}, request[q] # Idle, request[q].at \in Committing
          PROVE  /\ upload'[request[q].object[1]].status # "canceled"
                 /\ request[q].at = "closing" =>
                        \A b \in Assets \ {request[q].object[1]} : upload'[b].status = "completed"
      BY <2>1, <3>4 DEF Counted, OthersCompleted
    <3> QED
      BY <2>1, <3>1, <3>2, <3>3, <3>4 DEF Counted, OthersCompleted
  <2> QED
    BY <1>10, <2>2, <2>3 DEF CountCompleted
<1>11. ASSUME NEW r \in Requests, Record(r) PROVE Counted'
  <2> DEFINE a == request[r].object[1]
  <2>1. a \in Assets /\ Leave(r)
    BY <1>11, RequestType DEF Record
  <2>2. CASE UNCHANGED upload
    BY <1>8, <2>1, <2>2, CountedKeeps
  <2>3. CASE SetUpload(a, [upload[a] EXCEPT !.status = "completed"])
    <3>1. /\ upload'[a].status = "completed"
          /\ \A b \in Assets \ {a} : upload'[b] = upload[b]
      BY <2>1, <2>3, StatusSet DEF UploadStatuses
    <3> QED
      BY <1>8, <2>1, <3>1, CountedKeeps
  <2> QED
    BY <1>11, <2>2, <2>3 DEF Record
<1>12. ASSUME NEW r \in Requests, Abandon(r) PROVE Counted'
  BY <1>8, <1>12, CountedKeeps DEF Abandon
<1>13. CASE ExpireImport \/ CancelImport \/ MaintainUploads
  BY <1>2, <1>13 DEF ExpireImport, CancelImport, MaintainUploads
<1>14. CASE Lapse \/ PrepareImport \/ MaintainImports \/ SelectStale \/ UNCHANGED vars
  BY <1>1, <1>14 DEF Lapse, PrepareImport, MaintainImports, SelectStale, vars
<1>15. ASSUME NEW a \in Assets, GoIdle(a) \/ PutObject(a) PROVE Counted'
  BY <1>1, <1>15 DEF GoIdle, PutObject
<1>16. ASSUME NEW o \in Objects, DeleteObject(o) \/ LoseDeletion(o) PROVE Counted'
  BY <1>1, <1>16 DEF DeleteObject, LoseDeletion
<1> QED
  BY <1>3, <1>5, <1>6, <1>7, <1>9, <1>10, <1>11, <1>12, <1>13, <1>14, <1>15, <1>16 DEF Next

\* What the completions have counted holds in every reachable state.
LEMMA CountedKept == Spec => []Counted
<1>1. Init => Counted
  BY DEF Init, Counted
<1> QED
  BY <1>1, CountedStep, ImportTypes, PTL DEF Spec

\* One step: what has ended is as it was, and the invariant goes on.
Ended ==
    /\ import \in {"completed", "canceled"} => import' = import
    /\ \A a \in Assets : Frozen(a) => upload'[a] = upload[a]

\* Every step keeps the invariant of the rows and leaves alone what has ended.
LEMMA RowStep == Typed /\ Counted /\ RowInv /\ [Next]_vars => RowInv' /\ Ended
<1> SUFFICES ASSUME Typed, Counted, RowInv, [Next]_vars PROVE RowInv' /\ Ended
  OBVIOUS
<1> USE DEF rows, clock, storage, history
<1>0. CommittedDone /\ ReadyIsComplete /\ upload \in [Assets -> Upload]
  BY DEF RowInv, Typed, ImportTypeOK
<1>1. CASE UNCHANGED <<upload, import>>
  BY <1>0, <1>1 DEF RowInv, Ended, CommittedDone, ReadyIsComplete, AllCompleted
<1>2. CASE PrepareImport \/ MaintainImports
  BY <1>0, <1>2 DEF PrepareImport, MaintainImports, Active, RowInv, Ended, CommittedDone,
                    ReadyIsComplete, AllCompleted
<1>3. ASSUME NEW s \in {"expired", "canceled"}, EndRunning(s),
             import' = import \/ (import \in Active /\ import' = s)
      PROVE  RowInv' /\ Ended
  <2>1. \A a \in Assets : /\ upload'[a].committed = upload[a].committed
                          /\ upload[a].status \notin Running => upload'[a] = upload[a]
    BY <1>3, EndRunningType
  <2>2. \A a \in Assets : Frozen(a) => upload'[a] = upload[a]
    BY <1>0, <2>1 DEF Frozen, CommittedDone, Running
  <2>3. CommittedDone'
    BY <1>0, <1>3, <2>1, <2>2 DEF CommittedDone, Frozen, Active
  <2>4. ReadyIsComplete'
    BY <1>0, <1>3, <2>1 DEF ReadyIsComplete, AllCompleted, Running
  <2> QED
    BY <1>3, <2>2, <2>3, <2>4 DEF RowInv, Ended, Active
<1>4. ASSUME NEW reused \in SUBSET Assets, CommitImport(reused) PROVE RowInv' /\ Ended
  <2>1. \A a \in Assets : upload'[a].status = upload[a].status
    BY <1>0, <1>4 DEF CommitImport, Upload
  <2> QED
    BY <1>4, <2>1 DEF CommitImport, RowInv, Ended, Frozen, CommittedDone, ReadyIsComplete,
                      AllCompleted
<1>5. ASSUME NEW a \in Assets, PrepareUpload(a) PROVE RowInv' /\ Ended
  <2>1. /\ upload'[a].status = "uploading" /\ upload'[a].committed = "no"
        /\ \A b \in Assets \ {a} : upload'[b] = upload[b]
    BY <1>0, <1>5 DEF PrepareUpload, SetUpload
  <2> QED
    BY <1>0, <1>5, <2>1 DEF PrepareUpload, RowInv, Ended, Frozen, CommittedDone,
                            ReadyIsComplete, Active
<1>6. ASSUME NEW a \in Assets, upload[a].status \in Running, import' = import,
             \A b \in Assets \ {a} : upload'[b] = upload[b],
             upload'[a].committed = upload[a].committed
      PROVE  RowInv' /\ Ended
  <2>1. upload[a].committed = "no" /\ import \notin {"ready", "completed"}
    BY <1>0, <1>6 DEF CommittedDone, ReadyIsComplete, AllCompleted, Running
  <2> QED
    BY <1>0, <1>6, <2>1 DEF RowInv, Ended, Frozen, CommittedDone, ReadyIsComplete, Running
<1>7. ASSUME NEW a \in Assets, RecordParts(a) PROVE RowInv' /\ Ended
  BY <1>0, <1>6, <1>7 DEF RecordParts, SetUpload, Upload, Running
<1>8. ASSUME NEW a \in Assets, GetUpload(a) \/ CancelUpload(a) PROVE RowInv' /\ Ended
  BY <1>6, <1>8, StatusSet DEF GetUpload, CancelUpload, UploadStatuses
<1>9. ASSUME NEW r \in Requests, NEW a \in Assets, BeginComplete(r, a) PROVE RowInv' /\ Ended
  BY <1>6, <1>9, StatusSet DEF BeginComplete, UploadStatuses, Running
<1>10. ASSUME NEW r \in Requests, Fail(r) PROVE RowInv' /\ Ended
  <2> DEFINE a == request[r].object[1]
  <2>1. a \in Assets /\ import' = import
    BY <1>10, RequestType DEF Fail
  <2>2. CASE UNCHANGED upload
    BY <1>1, <2>1, <2>2
  <2>3. CASE MayFail(upload[a]) /\ SetUpload(a, [upload[a] EXCEPT !.status = "failed"])
    <3>1. /\ upload'[a].committed = upload[a].committed
          /\ \A b \in Assets \ {a} : upload'[b] = upload[b]
      BY <2>1, <2>3, StatusSet DEF UploadStatuses
    <3>2. ~Frozen(a) /\ import \notin {"ready", "completed"}
      BY <1>0, <2>1, <2>3 DEF MayFail, Frozen, CommittedDone, ReadyIsComplete, AllCompleted
    <3> QED
      BY <1>0, <2>1, <3>1, <3>2 DEF RowInv, Ended, Frozen, CommittedDone, ReadyIsComplete
  <2> QED
    BY <1>10, <2>2, <2>3 DEF Fail
<1>11. ASSUME NEW r \in Requests, Record(r) PROVE RowInv' /\ Ended
  <2> DEFINE a == request[r].object[1]
  <2>1. a \in Assets
    BY <1>11, RequestType DEF Record
  <2>2. CASE UNCHANGED <<upload, import>>
    BY <1>1, <2>2
  <2>3. CASE MayProceed
    <3>1. /\ upload'[a].committed = upload[a].committed /\ upload'[a].status = "completed"
          /\ \A b \in Assets \ {a} : upload'[b] = upload[b]
      BY <1>11, <2>1, <2>3, StatusSet DEF Record, UploadStatuses
    <3>2. ~Frozen(a) /\ import \notin {"completed", "canceled"}
          /\ \A b \in Assets : upload[b].committed = "no"
      BY <1>0, <1>11, <2>1, <2>3 DEF Record, Counted, MayProceed, Frozen, CommittedDone
    <3>3. ReadyIsComplete'
      <4>1. import' = "ready" => OthersCompleted(a)
        BY <1>11, <2>3 DEF Record, Counted
      <4>2. import' \in {"ready", "uploading"}
        BY <1>11, <2>3 DEF Record
      <4> QED
        BY <3>1, <4>1, <4>2 DEF ReadyIsComplete, AllCompleted, OthersCompleted
    <3>4. CommittedDone'
      BY <2>1, <3>1, <3>2 DEF CommittedDone
    <3> QED
      BY <2>1, <3>1, <3>2, <3>3, <3>4 DEF RowInv, Ended, Frozen
  <2> QED
    BY <1>11, <2>2, <2>3 DEF Record
<1>12. CASE Lapse \/ SelectStale \/ UNCHANGED vars
  BY <1>1, <1>12 DEF Lapse, SelectStale, vars
<1>13. CASE ExpireImport \/ CancelImport \/ MaintainUploads
  BY <1>3, <1>13 DEF ExpireImport, CancelImport, MaintainUploads
<1>14. ASSUME NEW a \in Assets, GoIdle(a) \/ PutObject(a) PROVE RowInv' /\ Ended
  BY <1>1, <1>14 DEF GoIdle, PutObject
<1>15. ASSUME NEW r \in Requests, Assemble(r) \/ Check(r) \/ Refuse(r) \/ CountCompleted(r) \/ Abandon(r)
       PROVE  RowInv' /\ Ended
  BY <1>1, <1>15 DEF Assemble, Check, Refuse, CountCompleted, Abandon
<1>16. ASSUME NEW o \in Objects, DeleteObject(o) \/ LoseDeletion(o) PROVE RowInv' /\ Ended
  BY <1>1, <1>16 DEF DeleteObject, LoseDeletion
<1> QED
  BY <1>2, <1>4, <1>5, <1>7, <1>8, <1>9, <1>10, <1>11, <1>12, <1>13, <1>14, <1>15, <1>16 DEF Next

\* The invariant of the rows holds in every reachable state.
LEMMA RowsKept == Spec => []RowInv
<1>1. Init => RowInv
  BY DEF Init, RowInv, CommittedDone, ReadyIsComplete
<1> QED
  BY <1>1, RowStep, CountedKept, ImportTypes, PTL DEF Spec

\* An import that is ready or completed has a completed upload for every asset.
THEOREM ReadyHasAll == Spec => []ReadyIsComplete
<1>1. RowInv => ReadyIsComplete
  BY DEF RowInv
<1> QED
  BY <1>1, RowsKept, PTL

\* What was completed, canceled or committed stays so, whichever request comes late.
THEOREM EndedStays == Spec => EndedIsFinal
<1>1. Typed /\ Counted /\ RowInv /\ [Next]_vars => [
          /\ import \in {"completed", "canceled"} => import' = import
          /\ \A a \in Assets : upload[a].status = "canceled" \/ upload[a].committed # "no"
                                 => upload'[a] = upload[a]]_vars
  BY RowStep DEF Ended, Frozen
<1> QED
  BY <1>1, RowsKept, CountedKept, ImportTypes, PTL DEF Spec, EndedIsFinal

-----------------------------------------------------------------------------
(* What is about to be deleted *)

\* An upload expires with its import; the cleaner finds no upload that is being completed;
\* requests and deletions are about keys that were given.
ClockInv ==
    /\ \A a \in Assets : upload[a].status = "expired" => lapsed
    /\ \A r \in Requests : request[r] # Idle =>
          /\ request[r].object[1] \notin idle
          /\ request[r].object[2] <= upload[request[r].object[1]].key
    /\ \A o \in doomed : o[2] <= upload[o[1]].key

\* What the steps that begin no request have in common.
LEMMA ClockKeeps ==
    ASSUME Typed, Typed', ClockInv,
           \A a \in Assets : upload[a].key <= upload'[a].key,
           \A a \in Assets : upload'[a].status = "expired" => upload[a].status = "expired" \/ lapsed,
           lapsed => lapsed',
           idle' \subseteq idle,
           \A r \in Requests : request'[r] # Idle =>
               request[r] # Idle /\ request'[r].object = request[r].object,
           \A o \in doomed' : o \in doomed \/ o[2] <= upload'[o[1]].key
    PROVE  ClockInv'
<1>1. \A a \in Assets : upload[a].key \in Int /\ upload'[a].key \in Int
  BY ImportAssumption DEF Typed, ImportTypeOK, Upload
<1>2. \A r \in Requests : request[r] # Idle =>
          request[r].object[1] \in Assets /\ request[r].object[2] \in Int
  BY RequestType, ImportAssumption DEF Objects
<1>3. \A o \in doomed : o[1] \in Assets /\ o[2] \in Int
  BY ImportAssumption DEF Typed, ImportTypeOK, Objects
<1>4. \A r \in Requests : request'[r] # Idle =>
          /\ request'[r].object[1] \notin idle'
          /\ request'[r].object[2] <= upload'[request'[r].object[1]].key
  <2> SUFFICES ASSUME NEW r \in Requests, request'[r] # Idle
               PROVE  /\ request'[r].object[1] \notin idle'
                      /\ request'[r].object[2] <= upload'[request'[r].object[1]].key
    OBVIOUS
  <2> DEFINE a == request[r].object[1]
  <2>1. /\ request[r] # Idle /\ request'[r].object = request[r].object
        /\ a \in Assets /\ request[r].object[2] \in Int
        /\ a \notin idle /\ request[r].object[2] <= upload[a].key
    BY <1>2 DEF ClockInv
  <2>2. upload[a].key <= upload'[a].key /\ upload[a].key \in Int /\ upload'[a].key \in Int
    BY <1>1, <2>1
  <2> QED
    BY <2>1, <2>2
<1>5. \A o \in doomed' : o[2] <= upload'[o[1]].key
  <2> SUFFICES ASSUME NEW o \in doomed', o \in doomed PROVE o[2] <= upload'[o[1]].key
    OBVIOUS
  <2>1. o[1] \in Assets /\ o[2] \in Int /\ o[2] <= upload[o[1]].key
    BY <1>3 DEF ClockInv
  <2>2. /\ upload[o[1]].key <= upload'[o[1]].key
        /\ upload[o[1]].key \in Int /\ upload'[o[1]].key \in Int
    BY <1>1, <2>1
  <2> QED
    BY <2>1, <2>2
<1>6. \A a \in Assets : upload'[a].status = "expired" => lapsed'
  BY DEF ClockInv
<1> QED
  BY <1>4, <1>5, <1>6 DEF ClockInv

\* The object an upload points at is its own, under its last key.
LEMMA KeyOfCurrent ==
    ASSUME Typed, NEW a \in Assets
    PROVE  Current(a)[1] = a /\ Current(a)[2] = upload[a].key /\ upload[a].key \in Nat
BY ImportAssumption DEF Typed, ImportTypeOK, Upload, Current

\* Every step keeps what is known of expired uploads, requests and deletions.
LEMMA ClockStep == Typed /\ Typed' /\ ClockInv /\ [Next]_vars => ClockInv'
<1> SUFFICES ASSUME Typed, Typed', ClockInv, [Next]_vars PROVE ClockInv'
  OBVIOUS
<1> USE DEF rows, clock, storage, history
<1>0. /\ upload \in [Assets -> Upload]
      /\ \A a \in Assets : upload[a].key \in Int
      /\ \A a \in Assets : upload[a].key <= upload[a].key
  BY ImportAssumption DEF Typed, ImportTypeOK, Upload
<1>1. CASE UNCHANGED <<upload, idle, request, doomed>> /\ (lapsed => lapsed')
  BY <1>0, <1>1, ClockKeeps
<1>2. CASE ExpireImport \/ CancelImport \/ MaintainUploads
  <2>1. CASE EndRunning("expired") /\ lapsed
    BY <1>0, <1>2, <2>1, EndRunningType, ClockKeeps
       DEF ExpireImport, CancelImport, MaintainUploads, Running
  <2>2. CASE EndRunning("canceled")
    BY <1>0, <1>2, <2>2, EndRunningType, ClockKeeps
       DEF ExpireImport, CancelImport, MaintainUploads, Running
  <2> QED
    BY <1>2, <2>1, <2>2 DEF ExpireImport, CancelImport, MaintainUploads
<1>3. ASSUME NEW reused \in SUBSET Assets, CommitImport(reused) PROVE ClockInv'
  <2>1. \A a \in Assets : /\ upload'[a].status = upload[a].status
                          /\ upload'[a].key = upload[a].key
    BY <1>0, <1>3 DEF CommitImport, Upload
  <2> QED
    BY <1>0, <1>3, <2>1, ClockKeeps DEF CommitImport
<1>4. ASSUME NEW a \in Assets, GoIdle(a) PROVE ClockInv'
  <2>1. \A r \in Requests : request[r] # Idle => request[r].object[1] # a
    BY <1>4 DEF GoIdle, Completing
  <2> QED
    BY <1>4, <2>1 DEF GoIdle, ClockInv
<1>5. ASSUME NEW a \in Assets, PrepareUpload(a) PROVE ClockInv'
  <2>1. /\ upload'[a].status = "uploading" /\ upload'[a].key = upload[a].key + 1
        /\ \A b \in Assets \ {a} : upload'[b] = upload[b]
        /\ idle' \subseteq idle /\ request' = request /\ lapsed' = lapsed
    BY <1>0, <1>5 DEF PrepareUpload, SetUpload
  <2>2. \A b \in Assets : upload[b].key <= upload'[b].key
    BY <1>0, <2>1
  <2>3. \A o \in doomed' : o \in doomed \/ o = Current(a)
    BY <1>5 DEF PrepareUpload
  <2> QED
    BY <2>1, <2>2, <2>3, KeyOfCurrent, ClockKeeps
<1>6. ASSUME NEW a \in Assets, NEW s \in UploadStatuses, s = "expired" => lapsed,
             SetUpload(a, [upload[a] EXCEPT !.status = s])
      PROVE  /\ \A b \in Assets : upload[b].key = upload'[b].key
             /\ \A b \in Assets : upload[b].key <= upload'[b].key
             /\ \A b \in Assets : upload'[b].status = "expired"
                                     => upload[b].status = "expired" \/ lapsed
             /\ idle' \subseteq idle
  BY <1>0, <1>6, StatusSet
<1>7. ASSUME NEW a \in Assets, RecordParts(a) PROVE ClockInv'
  <2>1. /\ upload'[a].key = upload[a].key /\ upload'[a].status = upload[a].status
        /\ \A b \in Assets \ {a} : upload'[b] = upload[b]
        /\ idle' \subseteq idle
    BY <1>0, <1>7 DEF RecordParts, SetUpload, Upload
  <2>2. \A b \in Assets : upload[b].key <= upload'[b].key
    BY <1>0, <2>1
  <2>3. \A b \in Assets : upload'[b].status = upload[b].status
    BY <2>1
  <2> QED
    BY <1>7, <2>1, <2>2, <2>3, ClockKeeps DEF RecordParts
<1>8. ASSUME NEW a \in Assets, GetUpload(a) \/ CancelUpload(a) PROVE ClockInv'
  <2>1. \A o \in doomed' : o \in doomed \/ o[2] <= upload'[o[1]].key
    BY <1>6, <1>8, KeyOfCurrent DEF GetUpload, CancelUpload, UploadStatuses
  <2> QED
    BY <1>6, <1>8, <2>1, ClockKeeps DEF GetUpload, CancelUpload, UploadStatuses
<1>9. ASSUME NEW r \in Requests, NEW a \in Assets, BeginComplete(r, a) PROVE ClockInv'
  <2>1. /\ \A b \in Assets : upload[b].key = upload'[b].key
        /\ \A b \in Assets : upload'[b].status = "expired" => upload[b].status = "expired"
        /\ idle' = idle \ {a} /\ doomed' = doomed /\ lapsed' = lapsed
    BY <1>9, StatusSet DEF BeginComplete, UploadStatuses, Running
  <2>2. /\ request'[r].object = Current(a)
        /\ \A q \in Requests \ {r} : request'[q] = request[q]
    BY <1>9 DEF BeginComplete, Typed, ImportTypeOK
  <2>3. \A q \in Requests : request[q] # Idle => request[q].object[1] \in Assets
    BY RequestType
  <2>4. \A o \in doomed : o[1] \in Assets
    BY DEF Typed, ImportTypeOK, Objects
  <2>5. /\ Current(a)[1] = a /\ Current(a)[2] = upload[a].key
        /\ upload[a].key \in Nat
    BY KeyOfCurrent
  <2>6. \A q \in Requests : request'[q] # Idle =>
            /\ request'[q].object[1] \notin idle'
            /\ request'[q].object[2] <= upload'[request'[q].object[1]].key
    <3> SUFFICES ASSUME NEW q \in Requests, request'[q] # Idle
                 PROVE  /\ request'[q].object[1] \notin idle'
                        /\ request'[q].object[2] <= upload'[request'[q].object[1]].key
      OBVIOUS
    <3>1. CASE q = r
      BY <2>1, <2>2, <2>5, <3>1
    <3>2. CASE q # r
      BY <2>1, <2>2, <2>3, <3>2 DEF ClockInv
    <3> QED
      BY <3>1, <3>2
  <2>7. \A o \in doomed' : o[2] <= upload'[o[1]].key
    BY <2>1, <2>4 DEF ClockInv
  <2>8. \A b \in Assets : upload'[b].status = "expired" => lapsed'
    BY <2>1 DEF ClockInv
  <2> QED
    BY <2>6, <2>7, <2>8 DEF ClockInv
<1>10. ASSUME NEW r \in Requests, Assemble(r) \/ Check(r) \/ Refuse(r) PROVE ClockInv'
  <2>1. \A q \in Requests : request'[q] # Idle =>
            request[q] # Idle /\ request'[q].object = request[q].object
    BY <1>10, GotoType DEF Assemble, Check, Refuse, Stages
  <2> QED
    BY <1>0, <1>10, <2>1, ClockKeeps DEF Assemble, Check, Refuse
<1>11. ASSUME NEW r \in Requests, Leave(r)
       PROVE  \A q \in Requests : request'[q] # Idle =>
                  request[q] # Idle /\ request'[q].object = request[q].object
  BY <1>11, LeaveType
<1>12. ASSUME NEW r \in Requests, Fail(r) PROVE ClockInv'
  <2> DEFINE a == request[r].object[1]
  <2>1. a \in Assets /\ request[r].object[2] <= upload[a].key /\ lapsed' = lapsed
    BY <1>12, RequestType DEF Fail, ClockInv
  <2>2. CASE UNCHANGED <<upload, idle, doomed>>
    BY <1>0, <1>11, <1>12, <2>1, <2>2, ClockKeeps DEF Fail
  <2>3. CASE /\ SetUpload(a, [upload[a] EXCEPT !.status = "failed"])
             /\ doomed' = doomed \cup {request[r].object}
    <3>1. \A o \in doomed' : o \in doomed \/ o[2] <= upload'[o[1]].key
      BY <1>6, <2>1, <2>3 DEF UploadStatuses
    <3> QED
      BY <1>6, <1>11, <1>12, <2>1, <2>3, <3>1, ClockKeeps DEF Fail, UploadStatuses
  <2> QED
    BY <1>12, <2>2, <2>3 DEF Fail
<1>13. ASSUME NEW r \in Requests, Record(r) PROVE ClockInv'
  <2> DEFINE a == request[r].object[1]
  <2>1. a \in Assets /\ lapsed' = lapsed /\ doomed' = doomed
    BY <1>13, RequestType DEF Record
  <2>2. CASE UNCHANGED <<upload, idle>>
    BY <1>0, <1>11, <1>13, <2>1, <2>2, ClockKeeps DEF Record
  <2>3. CASE SetUpload(a, [upload[a] EXCEPT !.status = "completed"])
    <3>1. /\ \A b \in Assets : upload[b].key <= upload'[b].key
          /\ \A b \in Assets : upload'[b].status = "expired" => upload[b].status = "expired"
          /\ idle' \subseteq idle
      BY <1>6, <2>1, <2>3, StatusSet DEF UploadStatuses
    <3>2. \A q \in Requests : request'[q] # Idle =>
              request[q] # Idle /\ request'[q].object = request[q].object
      BY <1>11, <1>13 DEF Record
    <3> QED
      BY <2>1, <3>1, <3>2, ClockKeeps
  <2> QED
    BY <1>13, <2>2, <2>3 DEF Record
<1>19. ASSUME NEW r \in Requests, CountCompleted(r) PROVE ClockInv'
  <2>1. \A q \in Requests : request'[q] # Idle =>
            request[q] # Idle /\ request'[q].object = request[q].object
    BY <1>19, GotoType, LeaveType DEF CountCompleted, Stages, Committing
  <2> QED
    BY <1>0, <1>19, <2>1, ClockKeeps DEF CountCompleted
<1>14. ASSUME NEW r \in Requests, Abandon(r) PROVE ClockInv'
  BY <1>0, <1>11, <1>14, ClockKeeps DEF Abandon
<1>15. CASE SelectStale
  <2>1. \A o \in doomed' : o \in doomed \/ \E a \in Assets : o = Current(a)
    BY <1>15 DEF SelectStale
  <2>2. \A o \in doomed' : o \in doomed \/ o[2] <= upload'[o[1]].key
    BY <1>15, <2>1, KeyOfCurrent DEF SelectStale
  <2> QED
    BY <1>0, <1>15, <2>2, ClockKeeps DEF SelectStale
<1>16. ASSUME NEW o \in Objects, DeleteObject(o) \/ LoseDeletion(o) PROVE ClockInv'
  BY <1>0, <1>16, ClockKeeps DEF DeleteObject, LoseDeletion
<1>17. CASE Lapse \/ PrepareImport \/ MaintainImports \/ UNCHANGED vars
  BY <1>1, <1>17 DEF Lapse, PrepareImport, MaintainImports, vars
<1>18. ASSUME NEW a \in Assets, PutObject(a) PROVE ClockInv'
  BY <1>1, <1>18 DEF PutObject
<1> QED
  BY <1>2, <1>3, <1>4, <1>5, <1>7, <1>8, <1>9, <1>10, <1>12, <1>13, <1>14, <1>15, <1>16, <1>17,
     <1>18, <1>19 DEF Next

-----------------------------------------------------------------------------
(* What a commit has adopted *)

\* The stages of a completion that has read its object to the end.
Checked == {"recording"} \cup Committing

Clean == ~overlapped /\ ~revived

Gone == import \in {"canceled", "expired"}

\* An upload has one request at a time, about its present key, and no outcome before it.
Single ==
    /\ \A r \in Requests : request[r] # Idle =>
          /\ request[r].object = Current(request[r].object[1])
          /\ upload[request[r].object[1]].status \notin {"none", "failed", "completed"}
    /\ \A r, q \in Requests :
          request[r] # Idle /\ request[q] # Idle /\ request[r].object[1] = request[q].object[1]
              => r = q

\* From none of these does an upload come to be committed under the key it has.
Lost(a) ==
    \/ upload[a].status \in {"canceled", "failed"}
    \/ upload[a].status = "expired" /\ Completing(a) = {}
    \/ upload[a].status = "completed" /\ Gone

StoreInv ==
    /\ Single
    /\ \A a \in Assets : Current(a) \in doomed => Lost(a)
    /\ \A a \in Assets : upload[a].status = "completed" => Current(a) \in objects \/ Gone
    /\ \A r \in Requests : request[r] # Idle /\ request[r].at \in Checked =>
          request[r].object \in objects \/ upload[request[r].object[1]].status = "canceled"

\* What the steps have in common that neither give a key, nor begin a request, nor end one
\* with an outcome.
Quiet ==
    /\ \A a \in Assets : upload'[a].key = upload[a].key
    /\ \A a \in Assets : \/ upload'[a].status = upload[a].status
                         \/ /\ upload[a].status \in Running
                            /\ upload'[a].status \in {"expired", "canceled"}
    /\ \A r \in Requests : request'[r] # Idle =>
          /\ request[r] # Idle /\ request'[r].object = request[r].object
          /\ \/ request'[r].at \notin Checked
             \/ request[r].at \in Checked
             \/ request[r].object \in objects
    /\ import \in {"canceled", "expired"} => import' \in {"canceled", "expired"}
    /\ \A o \in objects : o \in objects' \/ o \in doomed
    /\ \A a \in Assets : Current(a) \in doomed' =>
          \/ Current(a) \in doomed \/ upload'[a].status = "canceled"
          \/ Lost(a) /\ UNCHANGED <<upload, import, request>>

\* Quiet steps keep what is known of uploads, requests and deletions.
LEMMA StoreKeeps ==
    ASSUME Typed, StoreInv, Quiet
    PROVE  StoreInv'
<1> USE DEF Quiet
<1>1. \A a \in Assets : Current(a)' = Current(a)
  BY DEF Current
<1>2. \A r \in Requests : request[r] # Idle => request[r].object[1] \in Assets
  BY RequestType
<1>3. Single'
  BY <1>1, <1>2 DEF StoreInv, Single, Running
<1>4. ASSUME NEW a \in Assets, Current(a) \in doomed PROVE Lost(a) /\ Lost(a)'
  <2>1. Lost(a)
    BY <1>4 DEF StoreInv
  <2>2. Completing(a)' \subseteq Completing(a)
    BY DEF Completing
  <2>3. upload'[a].status = upload[a].status
    BY <2>1 DEF Lost, Running
  <2> QED
    BY <2>1, <2>2, <2>3 DEF Lost, Gone
<1>5. ASSUME NEW a \in Assets, Current(a)' \in doomed' PROVE Lost(a)'
  <2>1. CASE Current(a) \in doomed
    BY <1>4, <2>1
  <2>2. CASE upload'[a].status = "canceled"
    BY <2>2 DEF Lost
  <2>3. CASE Lost(a) /\ UNCHANGED <<upload, import, request>>
    BY <2>3 DEF Lost, Completing, Gone
  <2> QED
    BY <1>1, <1>5, <2>1, <2>2, <2>3
<1>6. ASSUME NEW a \in Assets, upload'[a].status = "completed"
      PROVE  Current(a)' \in objects' \/ Gone'
  <2>1. upload[a].status = "completed"
    BY <1>6
  <2>2. CASE Gone
    BY <2>2 DEF Gone
  <2>3. CASE Current(a) \in objects /\ ~Gone
    <3>1. Current(a) \notin doomed
      BY <1>4, <2>1, <2>3 DEF Lost
    <3>2. Current(a) \in objects'
      BY <2>3, <3>1
    <3> QED
      BY <1>1, <3>2
  <2> QED
    BY <2>1, <2>2, <2>3 DEF StoreInv
<1>7. ASSUME NEW r \in Requests, request'[r] # Idle, request'[r].at \in Checked
      PROVE  request'[r].object \in objects' \/ upload'[request'[r].object[1]].status = "canceled"
  <2> DEFINE a == request[r].object[1]
  <2>1. /\ a \in Assets /\ request[r] # Idle /\ request'[r].object = request[r].object
        /\ request[r].object = Current(a)
        /\ upload[a].status \notin {"none", "failed", "completed"}
    BY <1>2, <1>7 DEF StoreInv, Single
  <2>2. CASE upload[a].status = "canceled"
    BY <2>1, <2>2 DEF Running
  <2>3. CASE upload[a].status # "canceled"
    <3>1. request[r].object \in objects
      BY <1>7, <2>1, <2>3 DEF StoreInv
    <3>2. r \in Completing(a)
      BY <2>1 DEF Completing
    <3>3. Current(a) \notin doomed
      BY <1>4, <2>1, <2>3, <3>2 DEF Lost
    <3> QED
      BY <2>1, <3>1, <3>3
  <2> QED
    BY <2>2, <2>3
<1> QED
  BY <1>3, <1>5, <1>6, <1>7 DEF StoreInv

\* So does every step that does not reach one of the excepted cases.
LEMMA StoreStep ==
    ASSUME Typed, Counted, ClockInv, StoreInv, [Next]_vars, Clean'
    PROVE  StoreInv'
<1> USE DEF rows, clock, storage, history
<1>0. /\ upload \in [Assets -> Upload]
      /\ \A a \in Assets : upload[a].key \in Int
      /\ request \in [Requests -> UnderWay \cup {Idle}]
      /\ objects \subseteq Objects /\ doomed \subseteq Objects
  BY ImportAssumption DEF Typed, ImportTypeOK, Upload
<1>1. CASE /\ UNCHANGED <<upload, request, doomed>> /\ objects \subseteq objects'
           /\ (Gone => Gone')
  BY <1>1, StoreKeeps DEF Quiet, Gone
<1>2. CASE ExpireImport \/ CancelImport \/ MaintainUploads
  <2>1. PICK s \in {"expired", "canceled"} : EndRunning(s)
    BY <1>2 DEF ExpireImport, CancelImport, MaintainUploads
  <2>2. /\ \A a \in Assets : upload'[a].key = upload[a].key
        /\ \A a \in Assets : \/ upload'[a].status = upload[a].status
                              \/ /\ upload[a].status \in Running
                                 /\ upload'[a].status \in {"expired", "canceled"}
    BY <2>1, EndRunningType
  <2>3. UNCHANGED <<objects, doomed, request>> /\ (Gone => Gone')
    BY <1>2 DEF ExpireImport, CancelImport, MaintainUploads, Gone
  <2> QED
    BY <2>2, <2>3, StoreKeeps DEF Quiet, Gone
<1>3. ASSUME NEW reused \in SUBSET Assets, CommitImport(reused) PROVE StoreInv'
  <2>1. \A a \in Assets : /\ upload'[a].status = upload[a].status
                          /\ upload'[a].key = upload[a].key
    BY <1>0, <1>3 DEF CommitImport, Upload
  <2>2. UNCHANGED <<objects, doomed, request>> /\ ~Gone
    BY <1>3 DEF CommitImport, Gone
  <2> QED
    BY <2>1, <2>2, StoreKeeps DEF Quiet, Gone
<1>4. ASSUME NEW a \in Assets, RecordParts(a) PROVE StoreInv'
  <2>1. /\ upload'[a].key = upload[a].key /\ upload'[a].status = upload[a].status
        /\ \A b \in Assets \ {a} : upload'[b] = upload[b]
    BY <1>0, <1>4 DEF RecordParts, SetUpload, Upload
  <2>2. \A b \in Assets : upload'[b].key = upload[b].key /\ upload'[b].status = upload[b].status
    BY <2>1
  <2>3. UNCHANGED <<import, objects, doomed, request>>
    BY <1>4 DEF RecordParts
  <2> QED
    BY <2>2, <2>3, StoreKeeps DEF Quiet, Gone
<1>5. ASSUME NEW a \in Assets, GetUpload(a) \/ CancelUpload(a) PROVE StoreInv'
  <2>1. PICK s \in {"expired", "canceled"} :
            /\ SetUpload(a, [upload[a] EXCEPT !.status = s])
            /\ upload[a].status \in Running
            /\ doomed' = doomed \/ (s = "canceled" /\ doomed' = doomed \cup {Current(a)})
    BY <1>5 DEF GetUpload, CancelUpload
  <2>2. /\ upload'[a].status = s
        /\ \A b \in Assets : upload'[b].key = upload[b].key
        /\ \A b \in Assets \ {a} : upload'[b].status = upload[b].status
    BY <2>1, StatusSet DEF UploadStatuses
  <2>3. \A b \in Assets : Current(b) \in doomed' =>
            Current(b) \in doomed \/ upload'[b].status = "canceled"
    BY <2>1, <2>2, KeyOfCurrent
  <2>4. UNCHANGED <<import, objects, request>>
    BY <1>5 DEF GetUpload, CancelUpload
  <2> QED
    BY <2>1, <2>2, <2>3, <2>4, StoreKeeps DEF Quiet, Gone
<1>6. CASE SelectStale
  <2>1. UNCHANGED <<upload, import, objects, request>>
    BY <1>6 DEF SelectStale
  <2>2. \A a \in Assets : Stale(a) => Lost(a)
    <3> SUFFICES ASSUME NEW a \in Assets, Stale(a) PROVE Lost(a)
      OBVIOUS
    <3>1. Completing(a) = {}
      BY DEF Stale, ClockInv, Completing
    <3> QED
      BY <3>1 DEF Stale, Lost, Gone
  <2>3. \A a \in Assets : Current(a) \in doomed' => Current(a) \in doomed \/ Stale(a)
    BY <1>6, KeyOfCurrent DEF SelectStale
  <2> QED
    BY <2>1, <2>2, <2>3, StoreKeeps DEF Quiet, Gone
<1>7. ASSUME NEW o \in Objects, DeleteObject(o) \/ LoseDeletion(o) PROVE StoreInv'
  <2>1. /\ UNCHANGED <<upload, import, request>> /\ doomed' \subseteq doomed
        /\ o \in doomed /\ (objects' = objects \/ objects' = objects \ {o})
    BY <1>7 DEF DeleteObject, LoseDeletion
  <2> QED
    BY <2>1, StoreKeeps DEF Quiet, Gone
<1>8. ASSUME NEW r \in Requests, Assemble(r) \/ Check(r) \/ Refuse(r) PROVE StoreInv'
  <2>1. /\ UNCHANGED <<upload, import, doomed>> /\ objects \subseteq objects'
        /\ Check(r) => request[r].object \in objects
    BY <1>8 DEF Assemble, Check, Refuse
  <2>2. \A q \in Requests : request'[q] # Idle =>
            /\ request[q] # Idle /\ request'[q].object = request[q].object
            /\ request'[q].at \in Checked =>
                   request[q].at \in Checked \/ request[q].object \in objects
    BY <1>8, <2>1, GotoType DEF Assemble, Check, Refuse, Stages, Checked, Committing
  <2> QED
    BY <2>1, <2>2, StoreKeeps DEF Quiet, Gone
<1>9. ASSUME NEW r \in Requests, Leave(r), UNCHANGED <<upload, import, doomed, objects>>
      PROVE  StoreInv'
  BY <1>9, LeaveType, StoreKeeps DEF Quiet, Gone
<1>10. \A q \in Requests : request[q] # Idle => request[q].object[1] \in Assets
  BY RequestType
<1>11. ASSUME NEW a \in Assets, \A b \in Assets \ {a} : upload'[b] = upload[b],
              NEW b \in Assets \ {a}
       PROVE  /\ Current(b)' = Current(b) /\ upload'[b] = upload[b]
              /\ Current(b)[1] = b /\ Current(a)[1] = a
              /\ Current(b)'[1] = b /\ Current(a)'[1] = a
  BY <1>11 DEF Current
<1>12. ASSUME NEW a \in Assets, PrepareUpload(a) PROVE StoreInv'
  <2>1. /\ upload'[a].status = "uploading" /\ upload'[a].key = upload[a].key + 1
        /\ \A b \in Assets \ {a} : upload'[b] = upload[b]
        /\ UNCHANGED <<objects, request>> /\ ~Gone
        /\ doomed' \subseteq doomed \cup {Current(a)}
    BY <1>0, <1>12 DEF PrepareUpload, SetUpload, Gone, Active
  <2>2. \A r \in Requests : request[r] # Idle => request[r].object[1] # a
    BY <1>12 DEF PrepareUpload, StoreInv, Single, ClockInv
  <2>3. Current(a)' \notin doomed'
    <3>1. Current(a)'[1] = a /\ Current(a)'[2] = upload[a].key + 1
      BY <2>1 DEF Current
    <3>2. Current(a)' # Current(a)
      BY <1>0, <3>1, KeyOfCurrent
    <3>3. Current(a)' \notin doomed
      BY <1>0, <3>1 DEF ClockInv
    <3> QED
      BY <2>1, <3>2, <3>3
  <2>4. Single'
    BY <1>10, <1>11, <2>1, <2>2 DEF StoreInv, Single
  <2>5. ASSUME NEW b \in Assets, Current(b)' \in doomed' PROVE Lost(b)'
    <3>1. b # a /\ Current(b) \in doomed /\ upload'[b] = upload[b]
      BY <1>11, <2>1, <2>3, <2>5
    <3> QED
      BY <2>1, <3>1 DEF StoreInv, Lost, Completing
  <2>6. \A b \in Assets : upload'[b].status = "completed" => Current(b)' \in objects' \/ Gone'
    BY <1>11, <2>1 DEF StoreInv
  <2>7. \A r \in Requests : request'[r] # Idle /\ request'[r].at \in Checked =>
            request'[r].object \in objects' \/ upload'[request'[r].object[1]].status = "canceled"
    BY <1>10, <2>1, <2>2 DEF StoreInv
  <2> QED
    BY <2>4, <2>5, <2>6, <2>7 DEF StoreInv
<1>13. ASSUME NEW r \in Requests, NEW a \in Assets, BeginComplete(r, a) PROVE StoreInv'
  <2>1. /\ upload'[a].status = "validating" /\ upload[a].status \in Running
        /\ \A b \in Assets : upload'[b].key = upload[b].key
        /\ \A b \in Assets \ {a} : upload'[b] = upload[b]
        /\ UNCHANGED <<import, objects, doomed>>
    BY <1>13, StatusSet DEF BeginComplete, UploadStatuses, Running
  <2>2. \A q \in Requests : request[q] # Idle => request[q].object[1] # a
    BY <1>13 DEF BeginComplete, Clean, Completing
  <2>3. /\ request'[r].object = Current(a) /\ request'[r].at \notin Checked
        /\ \A q \in Requests \ {r} : request'[q] = request[q]
    BY <1>0, <1>13 DEF BeginComplete, Checked, Committing
  <2>4. \A b \in Assets : Current(b)' = Current(b) /\ Current(b)[1] = b
    BY <2>1 DEF Current
  <2>5. Single'
    <3>1. ASSUME NEW q \in Requests, request'[q] # Idle
          PROVE  /\ request'[q].object = Current(request[q].object[1])'
                 /\ upload'[request'[q].object[1]].status \notin {"none", "failed", "completed"}
      <4>1. CASE q = r
        BY <2>1, <2>3, <2>4, <4>1 DEF Current
      <4>2. CASE q # r
        <5> DEFINE b == request[q].object[1]
        <5>1. request'[q] = request[q] /\ request[q] # Idle
          BY <2>3, <3>1, <4>2
        <5>2. b \in Assets \ {a}
          BY <1>10, <2>2, <5>1
        <5>3. /\ request[q].object = Current(b)
              /\ upload[b].status \notin {"none", "failed", "completed"}
          BY <5>1 DEF StoreInv, Single
        <5>4. Current(b)' = Current(b) /\ upload'[b] = upload[b]
          BY <2>1, <5>1, <5>2 DEF Current
        <5> QED
          BY <5>1, <5>3, <5>4 DEF Current
      <4> QED
        BY <4>1, <4>2
    <3>2. ASSUME NEW p \in Requests, NEW q \in Requests, request'[p] # Idle, request'[q] # Idle,
                 request'[p].object[1] = request'[q].object[1]
          PROVE  p = q
      BY <2>2, <2>3, <2>4, <3>2 DEF StoreInv, Single
    <3> QED
      BY <3>1, <3>2 DEF Single
  <2>6. ASSUME NEW b \in Assets, Current(b)' \in doomed' PROVE Lost(b)'
    <3>1. Lost(b)
      BY <2>1, <2>4, <2>6 DEF StoreInv
    <3>2. b # a
      BY <2>1, <3>1 DEF Lost, Running
    <3>3. Completing(b) = {} => Completing(b)' = {}
      BY <2>3, <2>4, <3>2 DEF Completing
    <3> QED
      BY <2>1, <3>1, <3>2, <3>3 DEF Lost, Gone
  <2>7. \A b \in Assets : upload'[b].status = "completed" => Current(b)' \in objects' \/ Gone'
    BY <2>1, <2>4 DEF StoreInv, Gone
  <2>8. \A q \in Requests : request'[q] # Idle /\ request'[q].at \in Checked =>
            request'[q].object \in objects' \/ upload'[request'[q].object[1]].status = "canceled"
    BY <1>10, <2>1, <2>2, <2>3 DEF StoreInv
  <2> QED
    BY <2>5, <2>6, <2>7, <2>8 DEF StoreInv
<1>14. ASSUME NEW r \in Requests, NEW a \in Assets, request[r] # Idle,
              request[r].object[1] = a, Leave(r),
              NEW s \in {"failed", "completed"},
              SetUpload(a, [upload[a] EXCEPT !.status = s]),
              objects' = objects, doomed' \subseteq doomed \cup {Current(a)},
              s = "completed" => /\ Current(a) \in objects /\ Current(a) \notin doomed'
                                 /\ ~Gone,
              Gone <=> Gone'
       PROVE  StoreInv'
  <2>1. /\ upload'[a].status = s
        /\ \A b \in Assets : upload'[b].key = upload[b].key
        /\ \A b \in Assets \ {a} : upload'[b] = upload[b]
    BY <1>14, StatusSet DEF UploadStatuses
  <2>2. /\ request'[r] = Idle
        /\ \A q \in Requests \ {r} : request'[q] = request[q]
        /\ \A q \in Requests \ {r} : request[q] # Idle => request[q].object[1] # a
    BY <1>14, LeaveType DEF StoreInv, Single
  <2>3. \A b \in Assets : Current(b)' = Current(b) /\ Current(b)[1] = b
    BY <2>1 DEF Current
  <2>4. Single'
    <3>1. ASSUME NEW q \in Requests, request'[q] # Idle
          PROVE  /\ request'[q].object = Current(request[q].object[1])'
                 /\ upload'[request'[q].object[1]].status \notin {"none", "failed", "completed"}
      <4> DEFINE b == request[q].object[1]
      <4>1. request'[q] = request[q] /\ request[q] # Idle /\ q # r
        BY <2>2, <3>1
      <4>2. b \in Assets \ {a}
        BY <1>10, <2>2, <4>1
      <4>3. /\ request[q].object = Current(b)
            /\ upload[b].status \notin {"none", "failed", "completed"}
        BY <4>1 DEF StoreInv, Single
      <4>4. Current(b)' = Current(b) /\ upload'[b] = upload[b]
        BY <2>1, <4>1, <4>2 DEF Current
      <4> QED
        BY <4>1, <4>3, <4>4 DEF Current
    <3>2. ASSUME NEW p \in Requests, NEW q \in Requests, request'[p] # Idle, request'[q] # Idle,
                 request'[p].object[1] = request'[q].object[1]
          PROVE  p = q
      BY <2>2, <3>2 DEF StoreInv, Single
    <3> QED
      BY <3>1, <3>2 DEF Single
  <2>5. ASSUME NEW b \in Assets, Current(b)' \in doomed' PROVE Lost(b)'
    <3>1. CASE b = a
      BY <1>14, <2>1, <2>3, <2>5, <3>1 DEF Lost
    <3>2. CASE b # a
      <4>1. Lost(b)
        BY <1>14, <2>3, <2>5, <3>2 DEF StoreInv
      <4>2. Completing(b) = {} => Completing(b)' = {}
        BY <2>2 DEF Completing
      <4> QED
        BY <1>14, <2>1, <3>2, <4>1, <4>2 DEF Lost
    <3> QED
      BY <3>1, <3>2
  <2>6. \A b \in Assets : upload'[b].status = "completed" => Current(b)' \in objects' \/ Gone'
    BY <1>14, <2>1, <2>3 DEF StoreInv
  <2>7. \A q \in Requests : request'[q] # Idle /\ request'[q].at \in Checked =>
            request'[q].object \in objects' \/ upload'[request'[q].object[1]].status = "canceled"
    BY <1>10, <1>14, <2>1, <2>2 DEF StoreInv
  <2> QED
    BY <2>4, <2>5, <2>6, <2>7 DEF StoreInv
<1>15. ASSUME NEW r \in Requests, Fail(r) PROVE StoreInv'
  <2> DEFINE a == request[r].object[1]
  <2>1. /\ a \in Assets /\ request[r] # Idle /\ Leave(r)
        /\ request[r].object = Current(a) /\ UNCHANGED <<import, objects>>
    BY <1>10, <1>15 DEF Fail, StoreInv, Single
  <2>2. CASE UNCHANGED <<upload, idle, doomed>>
    BY <1>9, <2>1, <2>2
  <2>3. CASE /\ SetUpload(a, [upload[a] EXCEPT !.status = "failed"])
             /\ doomed' = doomed \cup {request[r].object}
    BY <1>14, <2>1, <2>3 DEF Gone
  <2> QED
    BY <1>15, <2>2, <2>3 DEF Fail
<1>16. ASSUME NEW r \in Requests, Record(r) PROVE StoreInv'
  <2> DEFINE a == request[r].object[1]
  <2>1. /\ a \in Assets /\ request[r] # Idle /\ Leave(r)
        /\ request[r].object = Current(a) /\ UNCHANGED <<doomed, objects>>
        /\ upload[a].status \notin {"none", "failed", "completed", "canceled"}
    BY <1>10, <1>16 DEF Record, StoreInv, Single, Counted
  <2>2. CASE UNCHANGED <<upload, idle, import, revived>>
    BY <1>9, <2>1, <2>2
  <2>3. CASE MayProceed
    <3>1. SetUpload(a, [upload[a] EXCEPT !.status = "completed"])
      BY <1>16, <2>3 DEF Record
    <3>2. Current(a) \in objects
      BY <1>16, <2>1 DEF Record, StoreInv, Checked
    <3>3. r \in Completing(a)
      BY <2>1 DEF Completing
    <3>4. Current(a) \notin doomed
      BY <2>1, <3>3 DEF StoreInv, Lost
    <3>5. ~Gone
      BY <1>16, <2>3 DEF Record, Gone, MayProceed, Clean
    <3>6. ~Gone'
      BY <1>16, <2>3 DEF Record, Gone
    <3> QED
      BY <1>14, <2>1, <3>1, <3>2, <3>4, <3>5, <3>6
  <2> QED
    BY <1>16, <2>2, <2>3 DEF Record
<1>20. ASSUME NEW r \in Requests, CountCompleted(r) PROVE StoreInv'
  <2>1. UNCHANGED <<upload, import, doomed, objects>> /\ request[r].at \in Checked
    BY <1>20 DEF CountCompleted, Checked
  <2>2. \A q \in Requests : request'[q] # Idle =>
            /\ request[q] # Idle /\ request'[q].object = request[q].object
            /\ request'[q].at \in Checked => request[q].at \in Checked
    BY <1>20, <2>1, GotoType, LeaveType DEF CountCompleted, Stages, Committing
  <2> QED
    BY <2>1, <2>2, StoreKeeps DEF Quiet, Gone
<1>17. ASSUME NEW r \in Requests, Abandon(r) PROVE StoreInv'
  BY <1>9, <1>17 DEF Abandon
<1>18. CASE Lapse \/ PrepareImport \/ MaintainImports \/ UNCHANGED vars
  BY <1>1, <1>18 DEF Lapse, PrepareImport, MaintainImports, Gone, vars
<1>19. ASSUME NEW a \in Assets, GoIdle(a) \/ PutObject(a) PROVE StoreInv'
  BY <1>1, <1>19 DEF GoIdle, PutObject, Gone
<1> QED
  BY <1>2, <1>3, <1>4, <1>5, <1>6, <1>7, <1>8, <1>12, <1>13, <1>15, <1>16, <1>17, <1>18, <1>19,
     <1>20 DEF Next

\* The history of a run only grows.
LEMMA CleanBefore ==
    ASSUME [Next]_vars, Clean'
    PROVE  Clean
<1>1. overlapped => overlapped'
  BY DEF Next, vars, history, Lapse, PrepareImport, ExpireImport, CancelImport, CommitImport, GoIdle,
         PrepareUpload, PutObject, RecordParts, GetUpload, CancelUpload, BeginComplete, Assemble,
         Check, Refuse, Fail, CountCompleted, Record, Abandon, MaintainImports, MaintainUploads, SelectStale,
         DeleteObject, LoseDeletion
<1>2. revived => revived'
  BY DEF Next, vars, history, Lapse, PrepareImport, ExpireImport, CancelImport, CommitImport, GoIdle,
         PrepareUpload, PutObject, RecordParts, GetUpload, CancelUpload, BeginComplete, Assemble,
         Check, Refuse, Fail, CountCompleted, Record, Abandon, MaintainImports, MaintainUploads, SelectStale,
         DeleteObject, LoseDeletion
<1> QED
  BY <1>1, <1>2 DEF Clean

\* The object of an adopted asset is in the storage and stays, unless completions of one
\* upload overlapped or an upload was recorded for an expired import.
THEOREM AdoptedStays == Spec => []AdoptedIsStored
<1>1. Init => ClockInv /\ (Clean => StoreInv)
  BY DEF Init, ClockInv, StoreInv, Single
<1>2. Typed /\ Typed' /\ Counted /\ ClockInv /\ (Clean => StoreInv) /\ [Next]_vars
        => ClockInv' /\ (Clean => StoreInv)'
  BY ClockStep, StoreStep, CleanBefore
<1>3. Typed /\ RowInv /\ (Clean => StoreInv) => AdoptedIsStored
  <2> SUFFICES ASSUME Typed, RowInv, StoreInv, NEW a \in Assets,
                      upload[a].committed = "adopted"
               PROVE  Current(a) \in objects /\ Current(a) \notin doomed
    BY DEF AdoptedIsStored, Clean
  <2>1. upload[a].status = "completed" /\ ~Gone
    BY DEF RowInv, CommittedDone, Gone
  <2> QED
    BY <2>1 DEF StoreInv, Lost
<1> QED
  BY <1>1, <1>2, <1>3, ImportTypes, CountedKept, RowsKept, PTL DEF Spec

=============================================================================
