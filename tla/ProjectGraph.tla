---------------------------- MODULE ProjectGraph ----------------------------
(***************************************************************************)
(* One project's canvas: the server's numbered log of changes              *)
(* (project-graph/postgresProjectGraphService.ts) and the browser tabs     *)
(* that save to it (platform/cloud/cloudPlatform.ts, cloudProjectGraph.ts).*)
(*                                                                         *)
(* The server handles a request in one transaction that locks the project: *)
(* one step.  In a tab every await is a step boundary: a save flow waits   *)
(* for an answer while the user edits, other flows of the tab run and      *)
(* other tabs save.  A request whose answer is lost may still be handled   *)
(* later.  version and last_sequence start at 0 and grow together in every *)
(* transaction that writes them, so one number stands for both.            *)
(***************************************************************************)
EXTENDS Naturals, Sequences, FiniteSets

CONSTANTS
    Nodes, Edges,   \* ids of canvas nodes and edges
    Ends,           \* the two nodes of an edge
    Values,         \* contents of a node or an edge
    Gone,           \* no such node or edge
    Start,          \* the canvas when the model begins
    Room,           \* images the workspace quota has room for at the start
    Tabs,           \* open tabs of one or more users
    Flows, TabOf,   \* asynchronous save flows, and the tab each runs in
    BatchSize,      \* PROJECT_GRAPH_OPERATION_BATCH_SIZE (500 in code)
    NoRequest,
    Lossy,          \* whether answers may be lost or late
    MaxActs         \* bound: edits, reloads and starts of flows in one behaviour

Entities == Nodes \cup Edges
Graphs == [Entities -> Values \cup {Gone}]
Anchored(g) == \A e \in Edges : g[e] # Gone => \A n \in Ends[e] : g[n] # Gone

ASSUME GraphAssumption ==
    /\ Nodes \cap Edges = {}
    /\ IsFiniteSet(Nodes) /\ IsFiniteSet(Edges)
    /\ Ends \in [Edges -> SUBSET Nodes]
    /\ Gone \notin Values
    /\ Start \in Graphs /\ Anchored(Start)
    /\ Room \in Nat
    /\ TabOf \in [Flows -> Tabs]
    /\ BatchSize \in Nat \ {0}
    /\ Lossy \in BOOLEAN
    /\ MaxActs \in Nat

VARIABLES
    log,       \* project_changes: the accepted requests, each with the graph
               \* it results in (result, a history field)
    spare,     \* images the quota still has room for
    canvas,    \* what a tab shows
    cloud,     \* CloudProjectState of a tab
    conflict,  \* persistenceConflictByProjectId of a tab
    flow,      \* where a save flow is
    inflight,  \* requests on their way to the server
    overlapped, \* tabs in which, since they were loaded, a flow started while
               \* another one of the tab was under way (history)
    acts       \* edits, reloads and starts so far, bounded by MaxActs

serverVars == <<log, spare>>
vars == <<log, spare, canvas, cloud, conflict, flow, inflight, overlapped, acts>>

NoOps == [x \in {} |-> Gone]
NoAnswer == [result |-> "none", version |-> 0]
IdleFlow == [pc |-> "idle", kind |-> "save", stage |-> "leftover",
             target |-> Start, rest |-> NoOps, request |-> NoRequest,
             mayRebase |-> TRUE, after |-> 0, head |-> 0, answer |-> NoAnswer]

GraphAt(v) == IF v = 0 THEN Start ELSE log[v].result
Version == Len(log)
Graph == GraphAt(Version)

Init ==
    /\ log = <<>>
    /\ spare = Room
    /\ canvas = [t \in Tabs |-> Start]
    /\ cloud = [t \in Tabs |-> [life |-> 0, loaded |-> 0, version |-> 0,
                                baseline |-> Start, pending |-> NoRequest,
                                serial |-> 0]]
    /\ conflict = [t \in Tabs |-> FALSE]
    /\ flow = [f \in Flows |-> IdleFlow]
    /\ inflight = {}
    /\ overlapped = {}
    /\ acts = 0

-----------------------------------------------------------------------------
(* Operations: ops[x] is the new content of x, Gone to delete it.  Deleting *)
(* a node deletes its edges, in the database and in the client's baseline.  *)

Applied(g, ops) ==
    [x \in Entities |->
        IF x \in DOMAIN ops THEN ops[x]
        ELSE IF x \in Edges /\ \E n \in Ends[x] \cap DOMAIN ops : ops[n] = Gone
             THEN Gone ELSE g[x]]

Diff(g, h) == [x \in {y \in Entities : g[y] # h[y]} |-> h[x]]

(* What a batch touches: an edge it writes touches the nodes of the edge.   *)
Touched(ops) ==
    DOMAIN ops \cup
    UNION {Ends[e] : e \in {x \in DOMAIN ops \cap Edges : ops[x] # Gone}}

(* Deleted edges go first, then deleted nodes, nodes, and edges.            *)
Rank(ops, x) ==
    IF ops[x] = Gone THEN (IF x \in Edges THEN 0 ELSE 1)
                     ELSE (IF x \in Edges THEN 3 ELSE 2)

Batches(ops) ==
    {B \in SUBSET DOMAIN ops :
        /\ \/ Cardinality(B) = BatchSize
           \/ B = DOMAIN ops /\ Cardinality(B) < BatchSize
        /\ \A x \in B, y \in DOMAIN ops \ B : Rank(ops, x) <= Rank(ops, y)}

Only(ops, S) == [x \in S |-> ops[x]]

-----------------------------------------------------------------------------
(* The server.                                                              *)

Removed(ops) == {n \in DOMAIN ops \cap Nodes : ops[n] = Gone /\ Graph[n] # Gone}
Revived(ops) == {n \in DOMAIN ops \cap Nodes : ops[n] # Gone /\ Graph[n] = Gone}

(* Faults for the mutation runs: no quota check, no check of the edges.     *)
ValidUncounted(ops) ==
    \A e \in DOMAIN ops \cap Edges :
        ops[e] # Gone => \A n \in Ends[e] : Applied(Graph, ops)[n] # Gone
ValidUnanchored(ops) ==
    Cardinality(Revived(ops)) <= spare + Cardinality(Removed(ops))

Valid(ops) ==
    /\ \A e \in DOMAIN ops \cap Edges :
          ops[e] # Gone => \A n \in Ends[e] : Applied(Graph, ops)[n] # Gone
    /\ Cardinality(Revived(ops)) <= spare + Cardinality(Removed(ops))

SameRequest(r, s) == r.tab = s.tab /\ r.life = s.life /\ r.serial = s.serial
Recorded(r) == {v \in 1..Version : SameRequest(log[v], r)}

Record(r) == [tab |-> r.tab, life |-> r.life, serial |-> r.serial,
              loaded |-> r.loaded, drafted |-> r.drafted, ops |-> r.ops,
              result |-> Applied(Graph, r.ops)]

Answer(r, result, version) ==
    /\ inflight' = inflight \ {r}
    /\ flow' = [f \in Flows |->
          IF flow[f].pc = "sent" /\ flow[f].request = r
          THEN [flow[f] EXCEPT !.answer = [result |-> result, version |-> version]]
          ELSE flow[f]]
    /\ UNCHANGED <<canvas, cloud, conflict, overlapped, acts>>

Replay(r) ==
    \E v \in Recorded(r) :
        /\ Answer(r, "accepted", v)
        /\ UNCHANGED serverVars

(* Fault: the version is compared before the idempotency key is looked up.  *)
RejectStaleFirst(r) ==
    /\ r.base # Version
    /\ Answer(r, "conflict", Version)
    /\ UNCHANGED serverVars

RejectStale(r) ==
    /\ Recorded(r) = {} /\ r.base # Version
    /\ Answer(r, "conflict", Version)
    /\ UNCHANGED serverVars

RejectInvalid(r) ==
    /\ Recorded(r) = {} /\ r.base = Version /\ ~Valid(r.ops)
    /\ Answer(r, "refused", Version)
    /\ UNCHANGED serverVars

AppendChange(r) ==
    /\ Recorded(r) = {} /\ r.base = Version /\ Valid(r.ops)
    /\ log' = Append(log, Record(r))
    /\ spare' = spare + Cardinality(Removed(r.ops)) - Cardinality(Revived(r.ops))
    /\ Answer(r, "accepted", Version + 1)

ApplyOperations(r) ==
    Replay(r) \/ RejectStale(r) \/ RejectInvalid(r) \/ AppendChange(r)

(* Another project of the workspace takes room in the quota.                *)
UploadElsewhere ==
    /\ spare > 0
    /\ spare' = spare - 1
    /\ UNCHANGED <<log, canvas, cloud, conflict, flow, inflight, overlapped, acts>>

-----------------------------------------------------------------------------
(* A tab.                                                                   *)

(* The user changes one node or edge; deleting a node removes its edges,    *)
(* and an edge needs its nodes.                                             *)
Edit(t) ==
    /\ acts < MaxActs
    /\ \E x \in Entities, v \in Values \cup {Gone} :
          /\ v # canvas[t][x]
          /\ x \in Edges /\ v # Gone => \A n \in Ends[x] : canvas[t][n] # Gone
          /\ canvas' = [canvas EXCEPT ![t] = Applied(@, [y \in {x} |-> v])]
    /\ acts' = acts + 1
    /\ UNCHANGED <<log, spare, cloud, conflict, flow, inflight, overlapped>>

(* Opening the project or reloading it.  Flows that were running keep the   *)
(* discarded state object: only their requests in flight still matter.      *)
LoadProject(t) ==
    /\ acts < MaxActs
    /\ canvas' = [canvas EXCEPT ![t] = Graph]
    /\ cloud' = [cloud EXCEPT ![t] =
          [life |-> @.life + 1, loaded |-> Version, version |-> Version,
           baseline |-> Graph, pending |-> NoRequest, serial |-> 0]]
    /\ conflict' = [conflict EXCEPT ![t] = FALSE]
    /\ flow' = [f \in Flows |-> IF TabOf[f] = t THEN IdleFlow ELSE flow[f]]
    /\ overlapped' = overlapped \ {t}
    /\ acts' = acts + 1
    /\ UNCHANGED <<log, spare, inflight>>

(* PATCH the request; the flow goes on when the answer is there.            *)
Post(f, r, stage) ==
    /\ flow' = [flow EXCEPT ![f] = [stage EXCEPT !.pc = "sent", !.request = r,
                                                 !.answer = NoAnswer]]
    /\ inflight' = inflight \cup {r}

(* The next batch of a save: drafted on the state c, kept as pending.       *)
PostBatch(f, c, ops, stage) ==
    \E B \in Batches(ops) :
        LET r == [tab |-> TabOf[f], life |-> c.life, serial |-> c.serial,
                  loaded |-> c.loaded, drafted |-> c.version,
                  base |-> c.version, ops |-> Only(ops, B),
                  target |-> Applied(c.baseline, Only(ops, B))]
        IN  /\ cloud' = [cloud EXCEPT ![TabOf[f]] =
                  [c EXCEPT !.pending = r, !.serial = @ + 1]]
            /\ Post(f, r, [stage EXCEPT !.stage = "batch", !.mayRebase = TRUE,
                                        !.rest = Only(ops, DOMAIN ops \ B)])

(* Every save and every checkpoint first sends what an earlier save left.   *)
StartFlow(f, kind, next) ==
    LET t == TabOf[f]
        begun == [IdleFlow EXCEPT !.kind = kind, !.target = canvas[t]]
    IN  /\ acts < MaxActs
        /\ flow[f].pc = "idle"
        /\ IF cloud[t].pending # NoRequest
           THEN Post(f, cloud[t].pending, begun)
           ELSE /\ flow' = [flow EXCEPT ![f] = [begun EXCEPT !.pc = next]]
                /\ UNCHANGED inflight
        /\ overlapped' = overlapped \cup
              {u \in {t} : \E g \in Flows \ {f} : TabOf[g] = u /\ flow[g].pc # "idle"}
        /\ acts' = acts + 1
        /\ UNCHANGED <<log, spare, canvas, cloud, conflict>>

StartSave(f) ==
    /\ canvas[TabOf[f]] # cloud[TabOf[f]].baseline \/ cloud[TabOf[f]].pending # NoRequest
    /\ StartFlow(f, "save", "preparing")

StartCheckpoint(f) == StartFlow(f, "checkpoint", "checkpointing")

SaveDone(f) ==
    /\ flow' = [flow EXCEPT ![f] = IdleFlow]
    /\ conflict' = [conflict EXCEPT ![TabOf[f]] = FALSE]

(* The rest of saveCloudProject once nothing is left over: compare with the *)
(* baseline, cut into batches and send the first.                           *)
SendChanges(f) ==
    LET c == cloud[TabOf[f]]
        ops == Diff(c.baseline, flow[f].target)
    IN  /\ flow[f].pc = "preparing"
        /\ \/ /\ DOMAIN ops = {}
              /\ SaveDone(f)
              /\ UNCHANGED <<cloud, inflight>>
           \/ /\ DOMAIN ops # {}
              /\ PostBatch(f, c, ops, flow[f])
              /\ UNCHANGED conflict
        /\ UNCHANGED <<log, spare, canvas, overlapped, acts>>

Answered(f, result) == flow[f].pc = "sent" /\ flow[f].answer.result = result

(* Fault: the whole canvas counts as saved when its first batch is.         *)
AdvancedToTarget(f) == [cloud[TabOf[f]] EXCEPT !.version = flow[f].answer.version,
                                               !.baseline = flow[f].target,
                                               !.pending = NoRequest]

(* The state of the tab after its request was accepted.                     *)
Advanced(f) == [cloud[TabOf[f]] EXCEPT !.version = flow[f].answer.version,
                                       !.baseline = flow[f].request.target,
                                       !.pending = NoRequest]

LeftoverAccepted(f) ==
    /\ Answered(f, "accepted") /\ flow[f].stage = "leftover"
    /\ cloud' = [cloud EXCEPT ![TabOf[f]] = Advanced(f)]
    /\ flow' = [flow EXCEPT ![f] =
          [IdleFlow EXCEPT !.kind = flow[f].kind, !.target = flow[f].target,
              !.pc = IF flow[f].kind = "save" THEN "preparing" ELSE "checkpointing"]]
    /\ UNCHANGED <<log, spare, canvas, conflict, inflight, overlapped, acts>>

BatchAccepted(f) ==
    /\ Answered(f, "accepted") /\ flow[f].stage = "batch"
    /\ DOMAIN flow[f].rest # {}
    /\ PostBatch(f, Advanced(f), flow[f].rest, flow[f])
    /\ UNCHANGED <<log, spare, canvas, conflict, overlapped, acts>>

LastBatchAccepted(f) ==
    /\ Answered(f, "accepted") /\ flow[f].stage = "batch"
    /\ DOMAIN flow[f].rest = {}
    /\ cloud' = [cloud EXCEPT ![TabOf[f]] =
                    [Advanced(f) EXCEPT !.baseline = flow[f].target]]
    /\ SaveDone(f)
    /\ UNCHANGED <<log, spare, canvas, inflight, overlapped, acts>>

(* The flow ends and pending stays, to be sent again by the next flow.      *)
GiveUp(f) ==
    /\ flow' = [flow EXCEPT ![f] = IdleFlow]
    /\ UNCHANGED <<log, spare, canvas, cloud, inflight, overlapped, acts>>

ReportConflict(f) ==
    /\ GiveUp(f)
    /\ conflict' = [conflict EXCEPT ![TabOf[f]] = TRUE]

(* A conflict is answered by one attempt to catch up.                       *)
BatchConflicts(f) ==
    /\ Answered(f, "conflict")
    /\ ~flow[f].mayRebase \/ cloud[TabOf[f]].pending = NoRequest
    /\ ReportConflict(f)

CatchUp(f) ==
    /\ Answered(f, "conflict")
    /\ flow[f].mayRebase /\ cloud[TabOf[f]].pending # NoRequest
    /\ flow' = [flow EXCEPT ![f] =
          [@ EXCEPT !.pc = "catching", !.request = cloud[TabOf[f]].pending,
                    !.after = cloud[TabOf[f]].version, !.answer = NoAnswer]]
    /\ UNCHANGED <<log, spare, canvas, cloud, conflict, inflight, overlapped, acts>>

(* getChanges reads the project row and then, in a statement of its own,    *)
(* the changes: there may be more of them than the row counts.              *)
ReadHead(f) ==
    /\ flow[f].pc = "catching"
    /\ flow' = [flow EXCEPT ![f].pc = "reading", ![f].head = Version]
    /\ UNCHANGED <<log, spare, canvas, cloud, conflict, inflight, overlapped, acts>>

(* Fault: only the last page of changes is compared.                        *)
MissedLast(f) == IF Version > flow[f].after THEN {Version} ELSE {}

Missed(f) == flow[f].after + 1 .. Version

Disjoint(ops, other) == Touched(ops) \cap Touched(other) = {}

Rebase(f) ==
    LET t == TabOf[f]
        r == [flow[f].request EXCEPT !.base = flow[f].head,
                                     !.serial = cloud[t].serial]
    IN  /\ flow[f].pc = "reading"
        /\ Missed(f) # {}
        /\ \A v \in Missed(f) : Disjoint(flow[f].request.ops, log[v].ops)
        /\ cloud' = [cloud EXCEPT ![t] =
              [cloud[t] EXCEPT !.version = flow[f].head, !.pending = r, !.serial = @ + 1]]
        /\ Post(f, r, [flow[f] EXCEPT !.mayRebase = FALSE, !.after = 0, !.head = 0])
        /\ UNCHANGED <<log, spare, canvas, conflict, overlapped, acts>>

RebaseFails(f) ==
    /\ flow[f].pc = "reading"
    /\ \/ Missed(f) = {}
       \/ \E v \in Missed(f) : ~Disjoint(flow[f].request.ops, log[v].ops)
    /\ ReportConflict(f)

(* Any other error ends the flow: the server refuses the batch, or the      *)
(* answer never arrives, whether or not the request is handled.             *)
BatchRefused(f) ==
    /\ Answered(f, "refused")
    /\ GiveUp(f)
    /\ UNCHANGED conflict

LoseAnswer(f) ==
    /\ Lossy
    /\ flow[f].pc \in {"sent", "catching", "reading"}
    /\ GiveUp(f)
    /\ UNCHANGED conflict

(* POST /checkpoints asks for the version and sequence the tab believes in. *)
CreateCheckpoint(f) ==
    /\ flow[f].pc = "checkpointing"
    /\ \/ /\ cloud[TabOf[f]].version = Version
          /\ GiveUp(f)
          /\ UNCHANGED conflict
       \/ /\ cloud[TabOf[f]].version # Version
          /\ ReportConflict(f)

FlowStep(f) ==
    \/ SendChanges(f) \/ LeftoverAccepted(f) \/ BatchAccepted(f)
    \/ LastBatchAccepted(f) \/ BatchConflicts(f) \/ CatchUp(f) \/ ReadHead(f)
    \/ Rebase(f) \/ RebaseFails(f) \/ BatchRefused(f) \/ CreateCheckpoint(f)

Next ==
    \/ \E r \in inflight : ApplyOperations(r)
    \/ UploadElsewhere
    \/ \E t \in Tabs : Edit(t) \/ LoadProject(t)
    \/ \E f \in Flows : StartSave(f) \/ StartCheckpoint(f) \/ FlowStep(f) \/ LoseAnswer(f)

Spec == Init /\ [][Next]_vars

-----------------------------------------------------------------------------
(* Properties.                                                              *)

(* Types; in particular the quota never goes below zero, whichever deleted  *)
(* images a batch brings back (restoreReleasedAssetQuota).                  *)
Request == [tab : Tabs, life : Nat, serial : Nat, loaded : Nat, drafted : Nat,
            base : Nat, ops : UNION {[S -> Values \cup {Gone}] : S \in SUBSET Entities},
            target : Graphs]

(* Having no pending request is told from every request.                    *)
ASSUME NoRequestAssumption == NoRequest \notin Request

GraphTypeOK ==
    /\ \A v \in 1..Version : log[v].result \in Graphs
    /\ spare \in Nat
    /\ canvas \in [Tabs -> Graphs]
    /\ \A t \in Tabs : cloud[t].baseline \in Graphs
                       /\ cloud[t].pending \in Request \cup {NoRequest}
    /\ conflict \in [Tabs -> BOOLEAN]
    /\ \A f \in Flows : flow[f].request \in Request \cup {NoRequest}
    /\ inflight \subseteq Request
    /\ overlapped \subseteq Tabs

(* No saved edge hangs in the air, although tabs delete nodes that other    *)
(* tabs connect and go on saving from canvases that still show them         *)
(* (validateEdgeEndpoints, applyNodeOperation).                             *)
EdgesAnchored == \A v \in 0..Version : Anchored(GraphAt(v))

(* A change that was carried over other changes touches nothing they touch  *)
(* (tryRebasePendingGraphSave).                                             *)
RebasedIsDisjoint ==
    \A v \in 1..Version : \A w \in log[v].drafted + 1 .. v - 1 :
        Disjoint(log[v].ops, log[w].ops)

(* A tab in which no flow overlapped another since it was loaded reports    *)
(* that the project was updated elsewhere only if it was: lost answers,     *)
(* retries and late requests of its own, of earlier lives in which flows    *)
(* did overlap too, do not look like somebody else's changes (the           *)
(* idempotency key).                                                        *)
Elsewhere(v, t) == log[v].tab # t \/ log[v].life # cloud[t].life
ConflictIsReal ==
    \A t \in Tabs \ overlapped : conflict[t] =>
        \E v \in cloud[t].loaded + 1 .. Version : Elsewhere(v, t)

(* What such a tab takes for saved is what the server holds at the version  *)
(* the tab believes in, but for what others changed since the tab loaded    *)
(* it: a difference the tab does not see is never sent.                     *)
BaselineExplained ==
    \A t \in Tabs \ overlapped, x \in Entities :
        \/ cloud[t].baseline[x] = GraphAt(cloud[t].version)[x]
        \/ \E v \in cloud[t].loaded + 1 .. cloud[t].version :
              Elsewhere(v, t) /\ GraphAt(v)[x] # GraphAt(v - 1)[x]

(* DEVELOPMENT.md:292: a tab catches up only with changes of other          *)
(* entities and otherwise asks the user.  So no accepted change overwrites  *)
(* another tab's change that its author has never loaded.                   *)
NoLostUpdate ==
    \A v \in 1..Version : \A w \in log[v].loaded + 1 .. v - 1 :
        (log[w].tab # log[v].tab) => DOMAIN log[w].ops \cap DOMAIN log[v].ops = {}

=============================================================================
