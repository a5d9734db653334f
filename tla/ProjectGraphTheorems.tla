----------------------- MODULE ProjectGraphTheorems -----------------------
(***************************************************************************)
(* Safety of saving a project from any number of tabs, with any number of  *)
(* save flows in each: types, anchored edges and disjoint rebased changes. *)
(* The invariant follows a request from its drafting over rebasing to the  *)
(* log: whatever it was carried over is in the log and disjoint from it.   *)
(*                                                                         *)
(* The second part is about tabs in which, since they were loaded, no flow *)
(* started while another one was under way: such a tab is not wrong about  *)
(* its own saves, and conflicts it reports have others as cause.           *)
(***************************************************************************)
EXTENDS ProjectGraph, FiniteSetTheorems, TLAPS

Contents == Values \cup {Gone}
Ops == UNION {[S -> Contents] : S \in SUBSET Entities}

Entry == [tab : Tabs, life : Nat, serial : Nat, loaded : Nat, drafted : Nat,
          ops : Ops, result : Graphs]
State == [life : Nat, loaded : Nat, version : Nat, baseline : Graphs,
          pending : Request \cup {NoRequest}, serial : Nat]
Answers == [result : {"none", "accepted", "conflict", "refused"}, version : Nat]
FlowState == [pc : {"idle", "preparing", "sent", "catching", "reading", "checkpointing"},
              kind : {"save", "checkpoint"}, stage : {"leftover", "batch"},
              target : Graphs, rest : Ops, request : Request \cup {NoRequest},
              mayRebase : BOOLEAN, after : Nat, head : Nat, answer : Answers]

\* The changes a request was carried over are in the log and disjoint from it.
Sound(r) ==
    /\ r \in Request
    /\ \A w \in r.drafted + 1 .. r.base : w <= Version /\ Disjoint(r.ops, log[w].ops)

\* A pending request has the version its tab believes in.
GoodState(c) ==
    /\ c \in State
    /\ c.pending # NoRequest => Sound(c.pending) /\ c.pending.base = c.version

\* A flow that catches up compares everything after its request's version, and
\* the version it catches up to exists.
GoodFlow(x) ==
    /\ x \in FlowState
    /\ x.pc \in {"sent", "catching", "reading"} => Sound(x.request)
    /\ x.pc \in {"catching", "reading"} => x.request.base = x.after
    /\ x.pc = "reading" => x.head <= Version

LogInv ==
    /\ log \in Seq(Entry)
    /\ RebasedIsDisjoint
    /\ EdgesAnchored

TabsInv ==
    /\ \A t \in Tabs : GoodState(cloud[t])
    /\ \A f \in Flows : GoodFlow(flow[f])
    /\ \A r \in inflight : Sound(r)

ShapeInv ==
    /\ spare \in Nat
    /\ canvas \in [Tabs -> Graphs]
    /\ conflict \in [Tabs -> BOOLEAN]
    /\ DOMAIN cloud = Tabs /\ cloud = [t \in Tabs |-> cloud[t]]
    /\ flow = [f \in Flows |-> flow[f]]
    /\ overlapped \subseteq Tabs

Inv == LogInv /\ TabsInv /\ ShapeInv

-----------------------------------------------------------------------------
(* Graphs and operations *)

\* Operators on graphs and batches keep their types.
LEMMA AppliedType ==
    ASSUME NEW g \in Graphs, NEW ops \in Ops
    PROVE  Applied(g, ops) \in Graphs
<1>1. PICK S \in SUBSET Entities : ops \in [S -> Contents]
  BY DEF Ops
<1>2. \A x \in Entities : Applied(g, ops)[x] \in Contents
  BY <1>1 DEF Applied, Graphs, Contents
<1> QED
  BY <1>2 DEF Applied, Graphs, Contents

\* The difference of two graphs is a batch of operations.
LEMMA DiffType ==
    ASSUME NEW g \in Graphs, NEW h \in Graphs
    PROVE  Diff(g, h) \in Ops
<1> DEFINE S == {y \in Entities : g[y] # h[y]}
<1>1. Diff(g, h) \in [S -> Contents]
  BY DEF Diff, Graphs, Contents
<1> QED
  BY <1>1 DEF Ops

\* A part of a batch is a batch.
LEMMA OnlyType ==
    ASSUME NEW ops \in Ops, NEW B \in SUBSET DOMAIN ops
    PROVE  Only(ops, B) \in Ops
<1>1. PICK S \in SUBSET Entities : ops \in [S -> Contents]
  BY DEF Ops
<1>2. Only(ops, B) \in [B -> Contents] /\ B \in SUBSET Entities
  BY <1>1 DEF Only
<1> QED
  BY <1>2 DEF Ops

\* A version of the log is a graph.
LEMMA GraphType ==
    ASSUME LogInv, NEW v \in 0..Version
    PROVE  GraphAt(v) \in Graphs
<1>1. CASE v = 0
  BY <1>1, GraphAssumption DEF GraphAt
<1>2. CASE v # 0
  <2>1. v \in 1..Len(log)
    BY <1>2 DEF LogInv, Version
  <2>2. log[v] \in Entry
    BY <2>1 DEF LogInv
  <2> QED
    BY <1>2, <2>2 DEF GraphAt, Entry
<1> QED
  BY <1>1, <1>2

\* A batch the server finds valid leaves every edge with its nodes: the edges it
\* writes by validateEdgeEndpoints, the others because deleting a node deletes
\* its edges.
LEMMA ValidAnchored ==
    ASSUME NEW ops, Anchored(Graph), Valid(ops)
    PROVE  Anchored(Applied(Graph, ops))
<1> DEFINE g == Graph
           h == Applied(g, ops)
<1> SUFFICES ASSUME NEW e \in Edges, h[e] # Gone, NEW n \in Ends[e]
             PROVE  h[n] # Gone
  BY DEF Anchored
<1>1. n \in Nodes /\ n \notin Edges /\ e \in Entities /\ n \in Entities
  BY GraphAssumption DEF Entities
<1>2. CASE e \in DOMAIN ops
  <2>1. h[e] = ops[e]
    BY <1>1, <1>2 DEF Applied
  <2> QED
    BY <1>2, <2>1 DEF Valid
<1>3. CASE e \notin DOMAIN ops
  <2>1. h[e] = g[e] /\ ~(n \in DOMAIN ops /\ ops[n] = Gone)
    BY <1>1, <1>3 DEF Applied
  <2>2. g[n] # Gone
    BY <2>1 DEF Anchored
  <2>3. h[n] = IF n \in DOMAIN ops THEN ops[n] ELSE g[n]
    BY <1>1 DEF Applied
  <2> QED
    BY <2>1, <2>2, <2>3
<1> QED
  BY <1>2, <1>3

\* The quota stays a natural number: restoreReleasedAssetQuota refuses what
\* does not fit after the deletions of the batch.
LEMMA SpareType ==
    ASSUME spare \in Nat, NEW ops, Valid(ops)
    PROVE  spare + Cardinality(Removed(ops)) - Cardinality(Revived(ops)) \in Nat
<1>1. Removed(ops) \subseteq Nodes /\ Revived(ops) \subseteq Nodes
  BY DEF Removed, Revived
<1>2. IsFiniteSet(Removed(ops)) /\ IsFiniteSet(Revived(ops))
  BY <1>1, GraphAssumption, FS_Subset
<1>3. Cardinality(Removed(ops)) \in Nat /\ Cardinality(Revived(ops)) \in Nat
  BY <1>2, FS_CardinalityType
<1> QED
  BY <1>3 DEF Valid

-----------------------------------------------------------------------------
(* The server *)

\* A new change leaves what is known of requests, tabs and flows true.
LEMMA SoundAppend ==
    ASSUME LogInv, NEW e \in Entry, log' = Append(log, e), NEW r, Sound(r)
    PROVE  Sound(r)'
<1>1. Len(log') = Len(log) + 1 /\ \A w \in 1..Len(log) : log'[w] = log[w]
  BY DEF LogInv
<1>2. Len(log) \in Nat
  BY DEF LogInv
<1> SUFFICES ASSUME NEW w \in r.drafted + 1 .. r.base
             PROVE  w <= Len(log') /\ Disjoint(r.ops, log'[w].ops)
  BY DEF Sound, Version, Disjoint, Touched
<1>3. w \in Nat /\ 1 <= w /\ w <= Len(log) /\ Disjoint(r.ops, log[w].ops)
  BY DEF Sound, Version, Request
<1>4. log'[w] = log[w]
  BY <1>1, <1>2, <1>3
<1> QED
  BY <1>1, <1>2, <1>3, <1>4

\* A tab's state that fits the log fits it after one more entry.
LEMMA StateAppend ==
    ASSUME LogInv, NEW e \in Entry, log' = Append(log, e), NEW c, GoodState(c)
    PROVE  GoodState(c)'
BY SoundAppend DEF GoodState

\* A flow that fits the log fits it after one more entry.
LEMMA FlowAppend ==
    ASSUME LogInv, NEW e \in Entry, log' = Append(log, e), NEW x, GoodFlow(x)
    PROVE  GoodFlow(x)'
<1>1. Version \in Nat /\ Version' = Version + 1
  BY DEF LogInv, Version
<1>2. x.head \in Nat
  BY DEF GoodFlow, FlowState
<1>3. x.pc = "reading" => x.head <= Version'
  BY <1>1, <1>2 DEF GoodFlow
<1>4. x.pc \in {"sent", "catching", "reading"} => Sound(x.request)'
  BY SoundAppend DEF GoodFlow
<1> QED
  BY <1>3, <1>4 DEF GoodFlow

\* The server writes the request into the log as it got it.
LEMMA RecordType ==
    ASSUME LogInv, NEW r, Sound(r)
    PROVE  Record(r) \in Entry /\ Record(r).ops = r.ops /\ Record(r).drafted = r.drafted
                /\ Record(r).result = Applied(Graph, r.ops)
<1>1. Graph \in Graphs
  <2>1. Version \in 0..Version
    BY DEF LogInv, Version
  <2> QED
    BY <2>1, GraphType DEF Graph
<1>2. r.ops \in Ops /\ r \in Request
  BY DEF Sound, Request, Ops, Contents
<1>3. Applied(Graph, r.ops) \in Graphs
  BY <1>1, <1>2, AppliedType
<1> QED
  BY <1>2, <1>3 DEF Record, Entry, Request

\* An accepted batch keeps the log sound: it was checked against the newest graph,
\* and it names the newest version, so it was carried over every change before it.
LEMMA AppendLog ==
    ASSUME LogInv, NEW r, Sound(r), r.base = Version, Valid(r.ops),
           log' = Append(log, Record(r))
    PROVE  LogInv'
<1> DEFINE n == Len(log)
           e == Record(r)
<1>1. /\ e \in Entry /\ e.ops = r.ops /\ e.drafted = r.drafted
      /\ e.result = Applied(Graph, r.ops)
  BY RecordType
<1>2. /\ n \in Nat /\ Len(log') = n + 1 /\ log'[n + 1] = e
      /\ \A w \in 1..n : log'[w] = log[w]
      /\ log' \in Seq(Entry) /\ \A v \in 1..Len(log') : log'[v] \in Entry
  BY <1>1 DEF LogInv
<1>3. RebasedIsDisjoint'
  <2> SUFFICES ASSUME NEW v \in 1..Len(log'), NEW w \in log'[v].drafted + 1 .. v - 1
               PROVE  Disjoint(log'[v].ops, log'[w].ops)
    BY DEF RebasedIsDisjoint, Version, Disjoint, Touched
  <2>1. log'[v].drafted \in Nat
    BY <1>2 DEF Entry
  <2>2. w \in 1..n /\ w < v
    BY <1>2, <2>1
  <2>3. CASE v = n + 1
    <3>1. w \in r.drafted + 1 .. r.base
      BY <1>1, <1>2, <2>3 DEF Version
    <3> QED
      BY <1>1, <1>2, <2>2, <2>3, <3>1 DEF Sound
  <2>4. CASE v # n + 1
    <3>1. v \in 1..n
      BY <1>2, <2>4
    <3> QED
      BY <1>2, <2>2, <3>1 DEF LogInv, RebasedIsDisjoint, Version
  <2> QED
    BY <2>3, <2>4
<1>4. EdgesAnchored'
  <2> SUFFICES ASSUME NEW v \in 0..(n + 1)
               PROVE  Anchored(IF v = 0 THEN Start ELSE log'[v].result)
    BY <1>2 DEF EdgesAnchored, Version, GraphAt, Anchored
  <2>1. CASE v = n + 1
    <3>1. Anchored(Graph)
      BY <1>2 DEF LogInv, EdgesAnchored, Graph, Version
    <3>2. Anchored(e.result)
      BY <1>1, <3>1, ValidAnchored
    <3> QED
      BY <1>2, <2>1, <3>2
  <2>2. CASE v # n + 1
    <3>1. v \in 0..n /\ (v # 0 => log'[v] = log[v])
      BY <1>2, <2>2
    <3>2. Anchored(GraphAt(v))
      BY <3>1 DEF LogInv, EdgesAnchored, Version
    <3> QED
      BY <3>1, <3>2 DEF GraphAt
  <2> QED
    BY <2>1, <2>2
<1> QED
  BY <1>2, <1>3, <1>4 DEF LogInv

\* An answer changes nothing but the answer field of the flows that wait for it.
LEMMA AnsweredFlow ==
    ASSUME NEW x, GoodFlow(x), NEW a \in Answers
    PROVE  GoodFlow([x EXCEPT !.answer = a])
<1> DEFINE y == [x EXCEPT !.answer = a]
<1>1. x \in FlowState
  BY DEF GoodFlow
<1>2. /\ y \in FlowState /\ y.pc = x.pc /\ y.request = x.request
      /\ y.after = x.after /\ y.head = x.head
  BY <1>1 DEF FlowState
<1> QED
  BY <1>2 DEF GoodFlow

\* An answer leaves every flow one that fits.
LEMMA AnswerFlows ==
    ASSUME TabsInv, ShapeInv, NEW r, NEW result \in {"accepted", "conflict", "refused"},
           NEW v \in Nat, Answer(r, result, v), NEW f \in Flows
    PROVE  GoodFlow(flow'[f]) /\ flow' = [g \in Flows |-> flow'[g]]
<1> DEFINE a == [result |-> result, version |-> v]
<1>1. a \in Answers
  BY DEF Answers
<1>2. flow'[f] \in {flow[f], [flow[f] EXCEPT !.answer = a]}
  BY DEF Answer
<1>3. flow' = [g \in Flows |-> flow'[g]]
  BY DEF Answer
<1>4. GoodFlow(flow[f]) /\ GoodFlow([flow[f] EXCEPT !.answer = a])
  BY <1>1, AnsweredFlow DEF TabsInv
<1> QED
  BY <1>2, <1>3, <1>4

\* What is known of requests, tabs and flows depends on the log only.
LEMMA SameLog ==
    ASSUME log' = log, NEW q
    PROVE  (Sound(q) => Sound(q)') /\ (GoodState(q) => GoodState(q)') /\ (GoodFlow(q) => GoodFlow(q)')
<1>1. Version' = Version
  BY DEF Version
<1>2. \A r : Sound(r)' = Sound(r)
  BY <1>1 DEF Sound, Disjoint, Touched
<1>3. GoodState(q) => GoodState(q)'
  BY <1>2 DEF GoodState
<1>4. GoodFlow(q) => GoodFlow(q)'
  BY <1>1, <1>2 DEF GoodFlow
<1> QED
  BY <1>2, <1>3, <1>4

\* The invariant of the log is about the log alone.
LEMMA SameLogInv ==
    ASSUME LogInv, log' = log
    PROVE  LogInv'
<1>1. Version' = Version /\ \A v \in 0..Version : GraphAt(v)' = GraphAt(v)
  BY DEF Version, GraphAt
<1>2. EdgesAnchored'
  BY <1>1 DEF LogInv, EdgesAnchored, Anchored
<1>3. RebasedIsDisjoint'
  BY <1>1 DEF LogInv, RebasedIsDisjoint, Disjoint, Touched
<1> QED
  BY <1>2, <1>3 DEF LogInv

\* A request that changes nothing in the database: replayed or rejected.
LEMMA AnswerOnly ==
    ASSUME Inv, NEW r, NEW result \in {"accepted", "conflict", "refused"}, NEW v \in Nat,
           Answer(r, result, v), UNCHANGED serverVars
    PROVE  Inv'
<1>1. log' = log /\ spare' = spare /\ canvas' = canvas /\ cloud' = cloud /\ conflict' = conflict
      /\ inflight' \subseteq inflight
  BY DEF serverVars, Answer
<1>2. LogInv'
  BY <1>1, SameLogInv DEF Inv
<1>3. \A q : (Sound(q) => Sound(q)') /\ (GoodState(q) => GoodState(q)') /\ (GoodFlow(q) => GoodFlow(q)')
  BY <1>1, SameLog
<1>4. \A f \in Flows : GoodFlow(flow'[f]) /\ flow' = [g \in Flows |-> flow'[g]]
  BY AnswerFlows DEF Inv
<1>5. \A f \in Flows : GoodFlow(flow[f])'
  BY <1>3, <1>4
<1>6. TabsInv'
  BY <1>1, <1>3, <1>5 DEF Inv, TabsInv
<1>7. ShapeInv'
  BY <1>1 DEF Inv, ShapeInv, Answer
<1> QED
  BY <1>2, <1>6, <1>7 DEF Inv

\* applyOperations.
LEMMA ServerStep ==
    ASSUME Inv, NEW r \in inflight, ApplyOperations(r)
    PROVE  Inv'
<1>1. Version \in Nat /\ Sound(r)
  BY DEF Inv, LogInv, TabsInv, Version
<1>2. CASE Replay(r)
  <2>1. PICK v \in Recorded(r) : Answer(r, "accepted", v) /\ UNCHANGED serverVars
    BY <1>2 DEF Replay
  <2>2. v \in Nat
    BY <1>1 DEF Recorded
  <2> QED
    BY <2>1, <2>2, AnswerOnly
<1>3. CASE RejectStale(r)
  BY <1>1, <1>3, AnswerOnly DEF RejectStale
<1>4. CASE RejectInvalid(r)
  BY <1>1, <1>4, AnswerOnly DEF RejectInvalid
<1>5. CASE AppendChange(r)
  <2> DEFINE e == Record(r)
  <2>1. /\ r.base = Version /\ Valid(r.ops) /\ log' = Append(log, e)
        /\ spare' = spare + Cardinality(Removed(r.ops)) - Cardinality(Revived(r.ops))
        /\ Answer(r, "accepted", Version + 1)
    BY <1>5 DEF AppendChange
  <2>2. LogInv /\ e \in Entry
    BY <1>1, RecordType DEF Inv
  <2>3. LogInv'
    BY <1>1, <2>1, <2>2, AppendLog
  <2>4. canvas' = canvas /\ cloud' = cloud /\ conflict' = conflict /\ inflight' \subseteq inflight
    BY <2>1 DEF Answer
  <2>5. \A f \in Flows : GoodFlow(flow'[f])
    <3>1. Version + 1 \in Nat /\ TabsInv /\ ShapeInv
      BY <1>1 DEF Inv
    <3> QED
      BY <2>1, <3>1, AnswerFlows
  <2>6. \A f \in Flows : GoodFlow(flow[f])'
    <3> TAKE f \in Flows
    <3> DEFINE x == flow'[f]
    <3>1. GoodFlow(x)
      BY <2>5
    <3> HIDE DEF x
    <3>2. \A y : GoodFlow(y) => GoodFlow(y)'
      BY <2>1, <2>2, FlowAppend
    <3> QED
      BY <3>1, <3>2 DEF x
  <2>7. TabsInv'
    BY <2>1, <2>2, <2>4, <2>6, SoundAppend, StateAppend DEF Inv, TabsInv
  <2>8. ShapeInv'
    BY <2>1, <2>4, SpareType DEF Inv, ShapeInv, Answer
  <2> QED
    BY <2>3, <2>7, <2>8 DEF Inv
<1> QED
  BY <1>2, <1>3, <1>4, <1>5 DEF ApplyOperations

-----------------------------------------------------------------------------
(* The tabs *)

\* A step of a flow replaces the flow and perhaps the state of its tab, and sends
\* sound requests.
Moved(f, x) ==
    /\ GoodFlow(x)
    /\ flow' = [flow EXCEPT ![f] = x]
    /\ \/ cloud' = cloud
       \/ \E c : GoodState(c) /\ cloud' = [cloud EXCEPT ![TabOf[f]] = c]
    /\ \/ conflict' = conflict
       \/ \E b \in BOOLEAN : conflict' = [conflict EXCEPT ![TabOf[f]] = b]
    /\ \A r \in inflight' : r \in inflight \/ Sound(r)
    /\ UNCHANGED <<log, spare, canvas>>

\* A step of a flow overlaps flows of its own tab only, and only when it starts.
LEMMA FlowOverlaps ==
    ASSUME NEW f \in Flows,
           StartSave(f) \/ StartCheckpoint(f) \/ FlowStep(f) \/ LoseAnswer(f)
    PROVE  /\ overlapped \subseteq overlapped'
           /\ overlapped' \subseteq overlapped \cup {TabOf[f]}
           /\ \/ flow[f].pc # "idle"
              \/ TabOf[f] \in overlapped'
              \/ \A g \in Flows \ {f} : TabOf[g] = TabOf[f] => flow[g].pc = "idle"
<1>1. CASE StartSave(f) \/ StartCheckpoint(f)
  BY <1>1 DEF StartSave, StartCheckpoint, StartFlow
<1>2. CASE FlowStep(f)
  <2>1. CASE SendChanges(f) \/ LeftoverAccepted(f) \/ BatchAccepted(f) \/ LastBatchAccepted(f)
    BY <2>1 DEF SendChanges, LeftoverAccepted, BatchAccepted, LastBatchAccepted, Answered
  <2>2. CASE CatchUp(f) \/ ReadHead(f) \/ Rebase(f)
    BY <2>2 DEF CatchUp, ReadHead, Rebase, Answered
  <2>3. CASE BatchConflicts(f) \/ RebaseFails(f) \/ BatchRefused(f) \/ CreateCheckpoint(f)
    BY <2>3 DEF BatchConflicts, RebaseFails, BatchRefused, CreateCheckpoint, ReportConflict,
                GiveUp, Answered
  <2> QED
    BY <1>2, <2>1, <2>2, <2>3 DEF FlowStep
<1>3. CASE LoseAnswer(f)
  BY <1>3 DEF LoseAnswer, GiveUp
<1> QED
  BY <1>1, <1>2, <1>3

\* A flow that is moved keeps the invariant.
LEMMA MovedInv ==
    ASSUME Inv, NEW f \in Flows, NEW x, Moved(f, x),
           overlapped' \subseteq overlapped \cup {TabOf[f]}
    PROVE  Inv'
<1>1. log' = log /\ spare' = spare /\ canvas' = canvas
  BY DEF Moved
<1>2. LogInv'
  BY <1>1, SameLogInv DEF Inv
<1>3. \A q : (Sound(q) => Sound(q)') /\ (GoodState(q) => GoodState(q)') /\ (GoodFlow(q) => GoodFlow(q)')
  BY <1>1, SameLog
<1>4. \A g \in Flows : GoodFlow(flow[g])'
  <2> SUFFICES ASSUME NEW g \in Flows PROVE GoodFlow(flow'[g])
    BY <1>3
  <2>1. flow'[g] = IF g = f THEN x ELSE flow[g]
    BY DEF Moved, Inv, ShapeInv
  <2> QED
    BY <2>1 DEF Moved, Inv, TabsInv
<1>5. \A t \in Tabs : GoodState(cloud[t])'
  <2> SUFFICES ASSUME NEW t \in Tabs PROVE GoodState(cloud'[t])
    BY <1>3
  <2>1. CASE cloud' = cloud
    BY <2>1 DEF Inv, TabsInv
  <2>2. ASSUME NEW c, GoodState(c), cloud' = [cloud EXCEPT ![TabOf[f]] = c]
        PROVE  GoodState(cloud'[t])
    <3>1. cloud'[t] = IF t = TabOf[f] THEN c ELSE cloud[t]
      BY <2>2 DEF Inv, ShapeInv
    <3> QED
      BY <2>2, <3>1 DEF Inv, TabsInv
  <2> QED
    BY <2>1, <2>2 DEF Moved
<1>6. \A r \in inflight' : Sound(r)'
  BY <1>3 DEF Moved, Inv, TabsInv
<1>7. TabsInv'
  BY <1>4, <1>5, <1>6 DEF TabsInv
<1>8. ShapeInv'
  <2>1. conflict' \in [Tabs -> BOOLEAN]
    BY DEF Moved, Inv, ShapeInv
  <2>2. DOMAIN cloud' = Tabs /\ cloud' = [t \in Tabs |-> cloud'[t]]
    BY DEF Moved, Inv, ShapeInv
  <2>3. flow' = [g \in Flows |-> flow'[g]]
    BY DEF Moved, Inv, ShapeInv
  <2>4. overlapped' \subseteq Tabs
    BY GraphAssumption DEF Inv, ShapeInv
  <2> QED
    BY <1>1, <2>1, <2>2, <2>3, <2>4 DEF Inv, ShapeInv
<1> QED
  BY <1>2, <1>7, <1>8 DEF Inv

\* An idle flow fits any log.
LEMMA IdleType == IdleFlow \in FlowState /\ GoodFlow(IdleFlow)
<1>1. NoOps \in [{} -> Contents] /\ {} \in SUBSET Entities
  BY DEF NoOps
<1>2. NoOps \in Ops
  BY <1>1 DEF Ops
<1> QED
  BY <1>2, GraphAssumption DEF IdleFlow, NoAnswer, FlowState, Answers, GoodFlow

\* What Inv says of a flow and its tab.
LEMMA FlowFacts ==
    ASSUME Inv, NEW f \in Flows
    PROVE  /\ TabOf[f] \in Tabs /\ GoodFlow(flow[f]) /\ flow[f] \in FlowState
           /\ GoodState(cloud[TabOf[f]]) /\ cloud[TabOf[f]] \in State
           /\ canvas[TabOf[f]] \in Graphs /\ Version \in Nat
BY GraphAssumption DEF Inv, TabsInv, ShapeInv, LogInv, GoodFlow, GoodState, Version

\* A batch is drafted on the version its tab believes in.
LEMMA PostBatchMoves ==
    ASSUME Inv, NEW f \in Flows, NEW c, GoodState(c), NEW ops \in Ops,
           PostBatch(f, c, ops, flow[f]), UNCHANGED <<log, spare, canvas, conflict>>
    PROVE  \E x : Moved(f, x)
<1> DEFINE t == TabOf[f]
<1>1. PICK B \in Batches(ops) :
        LET r == [tab |-> t, life |-> c.life, serial |-> c.serial,
                  loaded |-> c.loaded, drafted |-> c.version,
                  base |-> c.version, ops |-> Only(ops, B),
                  target |-> Applied(c.baseline, Only(ops, B))]
        IN  /\ cloud' = [cloud EXCEPT ![t] = [c EXCEPT !.pending = r, !.serial = @ + 1]]
            /\ Post(f, r, [flow[f] EXCEPT !.stage = "batch", !.mayRebase = TRUE,
                                          !.rest = Only(ops, DOMAIN ops \ B)])
  BY DEF PostBatch
<1> DEFINE r == [tab |-> t, life |-> c.life, serial |-> c.serial,
                 loaded |-> c.loaded, drafted |-> c.version,
                 base |-> c.version, ops |-> Only(ops, B),
                 target |-> Applied(c.baseline, Only(ops, B))]
           d == [c EXCEPT !.pending = r, !.serial = @ + 1]
           x == [flow[f] EXCEPT !.stage = "batch", !.mayRebase = TRUE,
                                !.rest = Only(ops, DOMAIN ops \ B), !.pc = "sent",
                                !.request = r, !.answer = NoAnswer]
<1>2. c \in State /\ t \in Tabs /\ flow[f] \in FlowState
  BY FlowFacts DEF GoodState
<1>3. B \in SUBSET DOMAIN ops /\ DOMAIN ops \ B \in SUBSET DOMAIN ops
  BY DEF Batches
<1>4. Only(ops, B) \in Ops /\ Only(ops, DOMAIN ops \ B) \in Ops
  BY <1>3, OnlyType
<1>5. c.baseline \in Graphs
  BY <1>2 DEF State
<1>6. Applied(c.baseline, Only(ops, B)) \in Graphs
  BY <1>4, <1>5, AppliedType
<1>7. r \in Request /\ r.base = c.version /\ r.drafted = c.version /\ c.version \in Nat
  BY <1>2, <1>4, <1>6 DEF Request, State, Ops, Contents
<1>8. Sound(r)
  <2>1. r.drafted + 1 .. r.base = {}
    BY <1>7
  <2> QED
    BY <1>7, <2>1 DEF Sound
<1> HIDE DEF r
<1>9. GoodState(d)
  <2>1. d \in State /\ d.pending = r /\ d.version = c.version
    <3>1. c.serial + 1 \in Nat
      BY <1>2 DEF State
    <3> DEFINE n == c.serial + 1
    <3> HIDE DEF n
    <3>2. [c EXCEPT !.pending = r, !.serial = n] \in State
      BY <1>2, <1>7, <3>1 DEF State, n
    <3> QED
      BY <1>2, <3>2 DEF n, State
  <2> QED
    BY <1>7, <1>8, <2>1 DEF GoodState
<1>10. GoodFlow(x)
  <2>1. x \in FlowState /\ x.pc = "sent" /\ x.request = r
    BY <1>2, <1>4, <1>7 DEF FlowState, NoAnswer, Answers
  <2> QED
    BY <1>8, <2>1 DEF GoodFlow
<1>11. /\ cloud' = [cloud EXCEPT ![t] = d] /\ flow' = [flow EXCEPT ![f] = x]
       /\ inflight' = inflight \cup {r}
  BY <1>1 DEF Post, r
<1> HIDE DEF d, x
<1> QED
  BY <1>8, <1>9, <1>10, <1>11 DEF Moved

\* Starting a save or a checkpoint moves the flow.
LEMMA StartFlowMoves ==
    ASSUME Inv, NEW f \in Flows, NEW kind \in {"save", "checkpoint"},
           NEW next \in {"preparing", "checkpointing"}, StartFlow(f, kind, next)
    PROVE  \E x : Moved(f, x)
<1> DEFINE t == TabOf[f]
           begun == [IdleFlow EXCEPT !.kind = kind, !.target = canvas[t]]
           sent == [begun EXCEPT !.pc = "sent", !.request = cloud[t].pending, !.answer = NoAnswer]
           ready == [begun EXCEPT !.pc = next]
<1>1. GoodState(cloud[t]) /\ canvas[t] \in Graphs
  BY FlowFacts
<1>2. begun \in FlowState
  BY <1>1, IdleType DEF FlowState
<1>3. UNCHANGED <<log, spare, canvas, cloud, conflict>>
  BY DEF StartFlow
<1>4. CASE cloud[t].pending # NoRequest
  <2>1. flow' = [flow EXCEPT ![f] = sent] /\ inflight' = inflight \cup {cloud[t].pending}
    BY <1>4 DEF StartFlow, Post
  <2>2. Sound(cloud[t].pending)
    BY <1>1, <1>4 DEF GoodState
  <2>3. sent \in FlowState /\ sent.pc = "sent" /\ sent.request = cloud[t].pending
    <3> HIDE DEF begun
    <3>1. cloud[t].pending \in Request
      BY <2>2 DEF Sound
    <3> QED
      BY <1>2, <3>1 DEF FlowState, NoAnswer, Answers
  <2>4. GoodFlow(sent)
    BY <2>2, <2>3 DEF GoodFlow
  <2> HIDE DEF sent
  <2> QED
    BY <1>3, <2>1, <2>2, <2>4 DEF Moved
<1>5. CASE cloud[t].pending = NoRequest
  <2>1. flow' = [flow EXCEPT ![f] = ready] /\ inflight' = inflight
    BY <1>5 DEF StartFlow
  <2>2. GoodFlow(ready)
    <3> HIDE DEF begun
    <3> QED
      BY <1>2 DEF FlowState, GoodFlow
  <2> HIDE DEF ready
  <2> QED
    BY <1>3, <2>1, <2>2 DEF Moved
<1> QED
  BY <1>4, <1>5

\* Sending the differences moves the flow.
LEMMA SendChangesMoves ==
    ASSUME Inv, NEW f \in Flows, SendChanges(f)
    PROVE  \E x : Moved(f, x)
<1> DEFINE c == cloud[TabOf[f]]
           ops == Diff(c.baseline, flow[f].target)
<1>1. UNCHANGED <<log, spare, canvas>>
  BY DEF SendChanges
<1>2. CASE SaveDone(f) /\ UNCHANGED <<cloud, inflight>>
  BY <1>1, <1>2, IdleType DEF SaveDone, Moved
<1>3. CASE PostBatch(f, c, ops, flow[f]) /\ UNCHANGED conflict
  <2>1. c.baseline \in Graphs /\ flow[f].target \in Graphs /\ GoodState(c)
    BY FlowFacts DEF State, FlowState
  <2>2. ops \in Ops
    BY <2>1, DiffType
  <2> QED
    BY <1>1, <1>3, <2>1, <2>2, PostBatchMoves
<1> QED
  BY <1>2, <1>3 DEF SendChanges

\* What an accepted request leaves in the tab.
LEMMA AdvancedGood ==
    ASSUME Inv, NEW f \in Flows, flow[f].pc = "sent"
    PROVE  GoodState(Advanced(f)) /\ GoodState([Advanced(f) EXCEPT !.baseline = flow[f].target])
<1>1. flow[f].request \in Request /\ flow[f].answer.version \in Nat /\ flow[f].target \in Graphs
  BY FlowFacts DEF GoodFlow, FlowState, Sound, Answers
<1>2. flow[f].request.target \in Graphs
  BY <1>1 DEF Request
<1>3. Advanced(f) \in State /\ Advanced(f).pending = NoRequest
  BY <1>1, <1>2, FlowFacts DEF Advanced, State
<1> DEFINE d == [Advanced(f) EXCEPT !.baseline = flow[f].target]
<1>4. d \in State /\ d.pending = NoRequest
  BY <1>1, <1>3 DEF State
<1> QED
  BY <1>3, <1>4 DEF GoodState

\* The acceptance of a request left over by an earlier save moves the flow.
LEMMA LeftoverAcceptedMoves ==
    ASSUME Inv, NEW f \in Flows, LeftoverAccepted(f)
    PROVE  \E x : Moved(f, x)
<1> DEFINE x == [IdleFlow EXCEPT !.kind = flow[f].kind, !.target = flow[f].target,
                    !.pc = IF flow[f].kind = "save" THEN "preparing" ELSE "checkpointing"]
<1>1. GoodState(Advanced(f))
  BY AdvancedGood DEF LeftoverAccepted, Answered
<1>2. GoodFlow(x)
  BY IdleType, FlowFacts DEF FlowState, GoodFlow
<1>3. /\ cloud' = [cloud EXCEPT ![TabOf[f]] = Advanced(f)] /\ flow' = [flow EXCEPT ![f] = x]
      /\ UNCHANGED <<log, spare, canvas, conflict, inflight>>
  BY DEF LeftoverAccepted
<1> HIDE DEF x
<1> QED
  BY <1>1, <1>2, <1>3 DEF Moved

\* The acceptance of a batch that others follow moves the flow.
LEMMA BatchAcceptedMoves ==
    ASSUME Inv, NEW f \in Flows, BatchAccepted(f)
    PROVE  \E x : Moved(f, x)
<1>1. GoodState(Advanced(f)) /\ flow[f].rest \in Ops
  BY AdvancedGood, FlowFacts DEF BatchAccepted, Answered, FlowState
<1> QED
  BY <1>1, PostBatchMoves DEF BatchAccepted

\* The acceptance of the last batch moves the flow.
LEMMA LastBatchAcceptedMoves ==
    ASSUME Inv, NEW f \in Flows, LastBatchAccepted(f)
    PROVE  \E x : Moved(f, x)
<1> DEFINE c == [Advanced(f) EXCEPT !.baseline = flow[f].target]
<1>1. GoodState(c)
  BY AdvancedGood DEF LastBatchAccepted, Answered
<1>2. /\ cloud' = [cloud EXCEPT ![TabOf[f]] = c] /\ flow' = [flow EXCEPT ![f] = IdleFlow]
      /\ conflict' = [conflict EXCEPT ![TabOf[f]] = FALSE]
      /\ UNCHANGED <<log, spare, canvas, inflight>>
  BY DEF LastBatchAccepted, SaveDone
<1> HIDE DEF c
<1> QED
  BY <1>1, <1>2, IdleType DEF Moved

\* Errors and conflicts end the flow and leave the tab's state alone.
LEMMA GiveUpMoves ==
    ASSUME Inv, NEW f \in Flows, GiveUp(f),
           conflict' = conflict \/ conflict' = [conflict EXCEPT ![TabOf[f]] = TRUE]
    PROVE  \E x : Moved(f, x)
BY IdleType DEF GiveUp, Moved

\* Starting to catch up moves the flow.
LEMMA CatchUpMoves ==
    ASSUME Inv, NEW f \in Flows, CatchUp(f)
    PROVE  \E x : Moved(f, x)
<1> DEFINE c == cloud[TabOf[f]]
           x == [flow[f] EXCEPT !.pc = "catching", !.request = c.pending,
                                !.after = c.version, !.answer = NoAnswer]
<1>1. flow' = [flow EXCEPT ![f] = x] /\ UNCHANGED <<log, spare, canvas, cloud, conflict,
                                                    inflight>>
  BY DEF CatchUp
<1>2. Sound(c.pending) /\ c.pending.base = c.version /\ c.pending \in Request /\ c.version \in Nat
  BY FlowFacts DEF CatchUp, GoodState, Sound, State
<1>3. /\ x \in FlowState /\ x.pc = "catching" /\ x.request = c.pending /\ x.after = c.version
  <2>1. flow[f] \in FlowState /\ NoAnswer \in Answers
    BY FlowFacts DEF NoAnswer, Answers
  <2> QED
    BY <1>2, <2>1 DEF FlowState
<1>4. GoodFlow(x)
  BY <1>2, <1>3 DEF GoodFlow
<1> HIDE DEF x
<1> QED
  BY <1>1, <1>4 DEF Moved

\* Reading the version of the project moves the flow.
LEMMA ReadHeadMoves ==
    ASSUME Inv, NEW f \in Flows, ReadHead(f)
    PROVE  \E x : Moved(f, x)
<1> DEFINE x == [flow[f] EXCEPT !.pc = "reading", !.head = Version]
<1>1. flow' = [flow EXCEPT ![f] = x] /\ UNCHANGED <<log, spare, canvas, cloud, conflict,
                                                    inflight>>
  BY FlowFacts DEF ReadHead, FlowState, Inv, ShapeInv
<1>2. /\ x \in FlowState /\ x.pc = "reading" /\ x.request = flow[f].request
      /\ x.after = flow[f].after /\ x.head = Version
  BY FlowFacts DEF FlowState
<1>3. GoodFlow(x)
  BY <1>2, FlowFacts DEF GoodFlow, ReadHead
<1> HIDE DEF x
<1> QED
  BY <1>1, <1>3 DEF Moved

\* A rebased request is disjoint from what it was carried over before and from
\* everything that has followed, which includes all up to its new base.
LEMMA RebaseMoves ==
    ASSUME Inv, NEW f \in Flows, Rebase(f)
    PROVE  \E x : Moved(f, x)
<1> DEFINE t == TabOf[f]
           q == flow[f].request
           h == flow[f].head
           r == [q EXCEPT !.base = h, !.serial = cloud[t].serial]
           c == [cloud[t] EXCEPT !.version = h, !.pending = r, !.serial = @ + 1]
           y == [flow[f] EXCEPT !.mayRebase = FALSE, !.after = 0, !.head = 0]
           x == [y EXCEPT !.pc = "sent", !.request = r, !.answer = NoAnswer]
<1>1. /\ cloud' = [cloud EXCEPT ![t] = c] /\ flow' = [flow EXCEPT ![f] = x]
      /\ inflight' = inflight \cup {r} /\ UNCHANGED <<log, spare, canvas, conflict>>
      /\ \A v \in flow[f].after + 1 .. Version : Disjoint(q.ops, log[v].ops)
      /\ flow[f].pc = "reading"
  <2>1. /\ flow[f].pc = "reading" /\ UNCHANGED <<log, spare, canvas, conflict>>
        /\ \A v \in Missed(f) : Disjoint(q.ops, log[v].ops)
    BY DEF Rebase
  <2>2. cloud' = [cloud EXCEPT ![t] = c] /\ Post(f, r, y)
    BY DEF Rebase
  <2>3. flow' = [flow EXCEPT ![f] = x] /\ inflight' = inflight \cup {r}
    <3> HIDE DEF y, r
    <3> QED
      BY <2>2, Zenon DEF Post
  <2> HIDE DEF c, x, r
  <2> QED
    BY <2>1, <2>2, <2>3 DEF Missed
<1>2. /\ cloud[t] \in State /\ flow[f] \in FlowState /\ Version \in Nat
      /\ Sound(q) /\ q \in Request /\ q.base = flow[f].after /\ h <= Version
      /\ h \in Nat /\ cloud[t].serial \in Nat
  BY <1>1, FlowFacts DEF GoodFlow, Sound, FlowState, State
<1>3. r \in Request /\ r.base = h /\ r.drafted = q.drafted /\ r.ops = q.ops
  BY <1>2 DEF Request
<1>4. Sound(r)
  <2> SUFFICES ASSUME NEW w \in q.drafted + 1 .. h
               PROVE  w <= Version /\ Disjoint(q.ops, log[w].ops)
    BY <1>3 DEF Sound
  <2>1. q.drafted \in Nat /\ q.base \in Nat /\ w \in Nat
    BY <1>2 DEF Request
  <2>2. w \in q.drafted + 1 .. q.base \/ w \in flow[f].after + 1 .. Version
    BY <1>2, <2>1
  <2> QED
    BY <1>1, <1>2, <2>1, <2>2 DEF Sound
<1> HIDE DEF r
<1>5. GoodState(c)
  <2> DEFINE n == cloud[t].serial + 1
  <2>1. n \in Nat
    BY <1>2
  <2> HIDE DEF n
  <2>2. [cloud[t] EXCEPT !.version = h, !.pending = r, !.serial = n] \in State
    BY <1>2, <1>3, <2>1 DEF State
  <2>3. c \in State /\ c.pending = r /\ c.version = h
    BY <1>2, <2>2 DEF n, State
  <2> QED
    BY <1>3, <1>4, <2>3 DEF GoodState
<1>6. GoodFlow(x)
  <2>1. y \in FlowState
    BY <1>2 DEF FlowState
  <2>2. x \in FlowState /\ x.pc = "sent" /\ x.request = r
    <3> HIDE DEF y
    <3> QED
      BY <1>3, <2>1 DEF FlowState, NoAnswer, Answers
  <2> QED
    BY <1>4, <2>2 DEF GoodFlow
<1> HIDE DEF c, x
<1> QED
  BY <1>1, <1>4, <1>5, <1>6 DEF Moved

\* The other actions of a flow end it; those that start it draft or repeat.
LEMMA FlowMoves ==
    ASSUME Inv, NEW f \in Flows,
           StartSave(f) \/ StartCheckpoint(f) \/ FlowStep(f) \/ LoseAnswer(f)
    PROVE  \E x : Moved(f, x)
<1>1. CASE StartSave(f)
  BY <1>1, StartFlowMoves DEF StartSave
<1>2. CASE StartCheckpoint(f)
  BY <1>2, StartFlowMoves DEF StartCheckpoint
<1>3. CASE LoseAnswer(f)
  BY <1>3, GiveUpMoves DEF LoseAnswer
<1>4. CASE BatchConflicts(f) \/ RebaseFails(f)
  BY <1>4, GiveUpMoves DEF BatchConflicts, RebaseFails, ReportConflict
<1>5. CASE BatchRefused(f)
  BY <1>5, GiveUpMoves DEF BatchRefused
<1>6. CASE CreateCheckpoint(f)
  BY <1>6, GiveUpMoves DEF CreateCheckpoint, ReportConflict
<1> QED
  BY <1>1, <1>2, <1>3, <1>4, <1>5, <1>6, SendChangesMoves, LeftoverAcceptedMoves,
     BatchAcceptedMoves, LastBatchAcceptedMoves, CatchUpMoves, ReadHeadMoves, RebaseMoves
     DEF FlowStep

-----------------------------------------------------------------------------
(* The invariant *)

\* A project that has just been loaded by all tabs satisfies the invariant.
LEMMA InvInit == Init => Inv
<1> SUFFICES ASSUME Init PROVE Inv
  OBVIOUS
<1>1. log = <<>> /\ Version = 0 /\ Start \in Graphs
  BY GraphAssumption DEF Init, Version
<1>2. LogInv
  <2>1. \A v \in 0..0 : Anchored(GraphAt(v))
    BY GraphAssumption DEF GraphAt
  <2> QED
    BY <1>1, <2>1 DEF LogInv, RebasedIsDisjoint, EdgesAnchored
<1>3. TabsInv
  <2>1. \A t \in Tabs : GoodState(cloud[t])
    BY <1>1 DEF Init, GoodState, State
  <2>2. \A f \in Flows : GoodFlow(flow[f])
    BY IdleType DEF Init
  <2> QED
    BY <2>1, <2>2 DEF Init, TabsInv
<1>4. ShapeInv
  <2>1. spare \in Nat /\ canvas \in [Tabs -> Graphs] /\ conflict \in [Tabs -> BOOLEAN]
    BY <1>1, GraphAssumption DEF Init
  <2>2. DOMAIN cloud = Tabs /\ cloud = [t \in Tabs |-> cloud[t]]
    BY DEF Init
  <2>3. flow = [f \in Flows |-> flow[f]]
    BY DEF Init
  <2>4. overlapped \subseteq Tabs
    BY DEF Init
  <2> QED
    BY <2>1, <2>2, <2>3, <2>4 DEF ShapeInv
<1> QED
  BY <1>2, <1>3, <1>4 DEF Inv

\* Editing changes nothing but the canvas.
LEMMA EditStep ==
    ASSUME Inv, NEW t \in Tabs, Edit(t)
    PROVE  Inv'
<1>1. PICK x \in Entities, v \in Contents :
        canvas' = [canvas EXCEPT ![t] = Applied(@, [y \in {x} |-> v])]
  BY DEF Edit, Contents
<1> DEFINE ops == [y \in {x} |-> v]
<1>2. ops \in Ops
  <2>1. ops \in [{x} -> Contents] /\ {x} \in SUBSET Entities
    OBVIOUS
  <2> QED
    BY <2>1 DEF Ops
<1>3. Applied(canvas[t], ops) \in Graphs
  BY <1>2, AppliedType DEF Inv, ShapeInv
<1>4. canvas' \in [Tabs -> Graphs]
  <2> HIDE DEF ops
  <2>1. canvas' = [canvas EXCEPT ![t] = Applied(canvas[t], ops)]
    BY <1>1 DEF ops
  <2> QED
    BY <1>3, <2>1 DEF Inv, ShapeInv
<1>5. UNCHANGED <<log, spare, cloud, conflict, flow, inflight, overlapped>>
  BY DEF Edit
<1>6. LogInv' /\ \A r : Sound(r)' <=> Sound(r)
  BY <1>5, SameLogInv DEF Inv, Sound, Version
<1>7. TabsInv'
  BY <1>5, <1>6 DEF Inv, TabsInv, GoodState, GoodFlow, Version
<1>8. ShapeInv'
  BY <1>4, <1>5 DEF Inv, ShapeInv
<1> QED
  BY <1>6, <1>7, <1>8 DEF Inv

\* A reloaded tab holds the latest graph and nothing pending; its flows are gone.
LEMMA LoadStep ==
    ASSUME Inv, NEW t \in Tabs, LoadProject(t)
    PROVE  Inv'
<1> DEFINE c == [life |-> cloud[t].life + 1, loaded |-> Version, version |-> Version,
                 baseline |-> Graph, pending |-> NoRequest, serial |-> 0]
<1>1. Version \in Nat /\ Graph \in Graphs
  <2>1. Version \in Nat
    BY DEF Inv, LogInv, Version
  <2> QED
    BY <2>1, GraphType DEF Inv, Graph
<1>2. /\ UNCHANGED <<log, spare, inflight>> /\ canvas' = [canvas EXCEPT ![t] = Graph]
      /\ conflict' = [conflict EXCEPT ![t] = FALSE]
      /\ flow' = [f \in Flows |-> IF TabOf[f] = t THEN IdleFlow ELSE flow[f]]
      /\ cloud' = [cloud EXCEPT ![t] = c] /\ overlapped' \subseteq overlapped
  BY DEF LoadProject
<1>3. GoodState(c)
  <2>1. cloud[t].life \in Nat
    BY DEF Inv, TabsInv, GoodState, State
  <2>2. c \in State /\ c.pending = NoRequest
    BY <1>1, <2>1 DEF State
  <2> QED
    BY <2>2 DEF GoodState
<1> HIDE DEF c
<1>4. LogInv' /\ Version' = Version /\ \A r : Sound(r)' <=> Sound(r)
  BY <1>2, SameLogInv DEF Inv, Sound, Version
<1>5. TabsInv'
  <2>1. ASSUME NEW s \in Tabs PROVE GoodState(cloud[s])'
    <3>1. cloud'[s] = IF s = t THEN c ELSE cloud[s]
      BY <1>2 DEF Inv, ShapeInv
    <3> QED
      BY <1>3, <1>4, <3>1 DEF Inv, TabsInv, GoodState
  <2>2. ASSUME NEW f \in Flows PROVE GoodFlow(flow[f])'
    <3>1. GoodFlow(flow'[f])
      BY <1>2, IdleType DEF Inv, TabsInv
    <3> QED
      BY <1>4, <3>1 DEF GoodFlow
  <2>3. \A r \in inflight' : Sound(r)'
    BY <1>2, <1>4 DEF Inv, TabsInv
  <2> QED
    BY <2>1, <2>2, <2>3 DEF TabsInv
<1>6. ShapeInv'
  <2>1. /\ canvas' \in [Tabs -> Graphs] /\ conflict' \in [Tabs -> BOOLEAN] /\ spare' \in Nat
        /\ overlapped' \subseteq Tabs
    BY <1>1, <1>2 DEF Inv, ShapeInv
  <2>2. DOMAIN cloud' = Tabs /\ cloud' = [s \in Tabs |-> cloud'[s]]
    BY <1>2 DEF Inv, ShapeInv
  <2>3. flow' = [f \in Flows |-> flow'[f]]
    BY <1>2 DEF Inv, ShapeInv
  <2> QED
    BY <2>1, <2>2, <2>3 DEF ShapeInv
<1> QED
  BY <1>4, <1>5, <1>6 DEF Inv

\* Every step keeps the invariant.
LEMMA InvStep == Inv /\ [Next]_vars => Inv'
<1> SUFFICES ASSUME Inv, [Next]_vars PROVE Inv'
  OBVIOUS
<1>1. ASSUME NEW r \in inflight, ApplyOperations(r) PROVE Inv'
  BY <1>1, ServerStep
<1>2. CASE UploadElsewhere
  <2>1. spare' \in Nat /\ UNCHANGED <<log, canvas, cloud, conflict, flow, inflight, overlapped>>
    BY <1>2 DEF UploadElsewhere, Inv, ShapeInv
  <2>2. LogInv' /\ TabsInv'
    BY <2>1, SameLogInv
       DEF Inv, TabsInv, GoodState, GoodFlow, Sound, Version
  <2> QED
    BY <2>1, <2>2 DEF Inv, ShapeInv
<1>3. ASSUME NEW t \in Tabs, Edit(t) PROVE Inv'
  BY <1>3, EditStep
<1>4. ASSUME NEW t \in Tabs, LoadProject(t) PROVE Inv'
  BY <1>4, LoadStep
<1>5. ASSUME NEW f \in Flows,
             StartSave(f) \/ StartCheckpoint(f) \/ FlowStep(f) \/ LoseAnswer(f)
      PROVE  Inv'
  BY <1>5, FlowMoves, FlowOverlaps, MovedInv
<1>6. CASE UNCHANGED vars
  <2>1. UNCHANGED <<log, spare, canvas, cloud, conflict, flow, inflight, overlapped>>
    BY <1>6 DEF vars
  <2>2. LogInv' /\ TabsInv'
    BY <2>1, SameLogInv DEF Inv, TabsInv, GoodState, GoodFlow, Sound, Version
  <2> QED
    BY <2>1, <2>2 DEF Inv, ShapeInv
<1> QED
  BY <1>1, <1>2, <1>3, <1>4, <1>5, <1>6 DEF Next

\* Requests, tabs, flows and the log keep the invariant, whatever the tabs do and
\* in whatever order answers arrive or get lost.
THEOREM Invariance == Spec => []Inv
BY InvInit, InvStep, PTL DEF Spec

\* Every version of the log and every baseline is a graph, and the workspace quota
\* never goes below zero, whichever deleted images a batch brings back.
THEOREM GraphTypes == Spec => []GraphTypeOK
<1>1. Inv => GraphTypeOK
  <2> SUFFICES ASSUME Inv PROVE GraphTypeOK
    OBVIOUS
  <2>1. \A v \in 1..Version : log[v].result \in Graphs
    <3> SUFFICES ASSUME NEW v \in 1..Len(log) PROVE log[v].result \in Graphs
      BY DEF Version
    <3>1. log[v] \in Entry
      BY DEF Inv, LogInv
    <3> QED
      BY <3>1 DEF Entry
  <2>2. \A t \in Tabs : /\ cloud[t].baseline \in Graphs
                        /\ cloud[t].pending \in Request \cup {NoRequest}
    BY DEF Inv, TabsInv, GoodState, State
  <2>3. \A f \in Flows : flow[f].request \in Request \cup {NoRequest}
    BY DEF Inv, TabsInv, GoodFlow, FlowState
  <2>4. inflight \subseteq Request
    BY DEF Inv, TabsInv, Sound
  <2> QED
    BY <2>1, <2>2, <2>3, <2>4 DEF GraphTypeOK, Inv, ShapeInv
<1> QED
  BY <1>1, Invariance, PTL

\* No version of a project has an edge without its nodes, although tabs delete
\* nodes that others connect (validateEdgeEndpoints, applyNodeOperation).
THEOREM EdgesHaveNodes == Spec => []EdgesAnchored
<1>1. Inv => EdgesAnchored
  BY DEF Inv, LogInv
<1> QED
  BY <1>1, Invariance, PTL

\* Whatever a change was carried over, it touches none of the same nodes and
\* edges (tryRebasePendingGraphSave).
THEOREM RebasesDisjoint == Spec => []RebasedIsDisjoint
<1>1. Inv => RebasedIsDisjoint
  BY DEF Inv, LogInv
<1> QED
  BY <1>1, Invariance, PTL

-----------------------------------------------------------------------------
(* What a tab takes for saved, and its conflicts.                            *)
(*                                                                         *)
(* LifeInv holds of every tab: what it sent is of its present life or of an *)
(* earlier one, so a reload leaves behind everything sent before it.         *)
(*                                                                         *)
(* SoleInv relates a tab whose flows did not overlap since it was loaded to *)
(* the log: of the present life of the tab nothing was recorded after its   *)
(* version but, perhaps, its pending request (Tracks); everything else it   *)
(* ever sent can never be recorded (Accounted, Spent); and the one flow     *)
(* that is under way waits for just that request (Follows).  So what passes *)
(* between the tab's version and the log's is by others, unless it is the   *)
(* pending request, which is the baseline changed by its operations.        *)

\* Request q is one of tab t, of its present life or an earlier one.
OfTab(t, q) == q # NoRequest => q.tab = t /\ q.life <= cloud[t].life

LifeInv ==
    /\ \A w \in 1..Version : log[w].life <= cloud[log[w].tab].life
    /\ \A q \in inflight : q.life <= cloud[q.tab].life
    /\ \A t \in Tabs : OfTab(t, cloud[t].pending)
    /\ \A f \in Flows : OfTab(TabOf[f], flow[f].request)

\* Entry w of the log comes from this life of the tab.
Own(w, t, life) == log[w].tab = t /\ log[w].life = life

\* BaselineExplained for a state c of tab t.
Explained(t, c) ==
    \A x \in Entities :
        \/ c.baseline[x] = GraphAt(c.version)[x]
        \/ \E v \in c.loaded + 1 .. c.version :
              ~Own(v, t, c.life) /\ GraphAt(v)[x] # GraphAt(v - 1)[x]

\* State c of tab t and the log.
Tracks(t, c) ==
    /\ c.loaded <= c.version /\ c.version <= Version
    /\ \A w \in 1..Version : log[w].tab = t => log[w].life <= c.life
    /\ \A w \in 1..Version : Own(w, t, c.life) => log[w].serial < c.serial
    /\ \A w \in c.version + 1 .. Version :
          Own(w, t, c.life) => c.pending # NoRequest /\ SameRequest(log[w], c.pending)
    /\ c.pending # NoRequest =>
          /\ c.pending.tab = t /\ c.pending.life = c.life /\ c.pending.serial < c.serial
          /\ c.pending.target = Applied(c.baseline, c.pending.ops)
          /\ \A v \in Recorded(c.pending) :
                log[v].ops = c.pending.ops /\ v = c.pending.base + 1
    /\ Explained(t, c)

\* The server will not record q any more.
Spent(q) == Recorded(q) # {} \/ q.base < Version

\* A request of tab t on its way is its pending one, or nothing comes of it.
Accounted(t, c, q) ==
    q.tab = t =>
        /\ q.life <= c.life
        /\ q.life = c.life =>
              /\ q.base <= Version /\ q.serial < c.serial
              /\ (c.pending # NoRequest /\ q = c.pending) \/ Spent(q)

\* Flow x and the state c of its tab.  In a save, what is left of it (rest) and
\* what was sent (target of the request) make up the canvas being saved.
Follows(c, x) ==
    /\ x.pc \in {"preparing", "checkpointing"} => c.pending = NoRequest
    /\ x.pc \in {"sent", "catching", "reading"} =>
          /\ c.pending # NoRequest /\ x.request = c.pending
          /\ x.stage = "batch" =>
                \A y \in Entities :
                    x.target[y] = IF y \in DOMAIN x.rest THEN x.rest[y] ELSE x.request.target[y]
    /\ x.pc \in {"catching", "reading"} \/ (x.pc = "sent" /\ x.answer.result = "conflict") =>
          Recorded(c.pending) = {} /\ c.pending.base < Version
    /\ x.pc = "sent" /\ x.answer.result = "accepted" => x.answer.version \in Recorded(c.pending)
    /\ x.pc = "reading" => c.version <= x.head
    /\ x.pc # "idle" => Anchored(x.target)

\* ConflictIsReal for a state c of tab t.
Warned(t, c, told) == told => \E v \in c.loaded + 1 .. Version : ~Own(v, t, c.life)

\* Each entry is its operations applied to the graph before it; a node or an edge
\* that differs between two versions was changed by an entry between them.
LogChain ==
    /\ \A v \in 1..Version : log[v].result = Applied(GraphAt(v - 1), log[v].ops)
    /\ \A v \in 0..Version : \A u \in 0..v : \A x \in Entities :
          \/ GraphAt(u)[x] = GraphAt(v)[x]
          \/ \E w \in u + 1 .. v : GraphAt(w)[x] # GraphAt(w - 1)[x]

SoleInv ==
    /\ LogChain
    /\ \A t \in Tabs : Anchored(canvas[t])
    /\ \A t \in Tabs \ overlapped :
          /\ Tracks(t, cloud[t]) /\ Warned(t, cloud[t], conflict[t])
          /\ \A q \in inflight : Accounted(t, cloud[t], q)
    /\ \A f \in Flows : TabOf[f] \notin overlapped => Follows(cloud[TabOf[f]], flow[f])
    /\ \A f, g \in Flows :
          f # g /\ TabOf[f] = TabOf[g] /\ TabOf[f] \notin overlapped =>
             flow[f].pc = "idle" \/ flow[g].pc = "idle"

\* What SoleInv says of a flow and its tab.
LEMMA SoleFacts ==
    ASSUME Inv, SoleInv, NEW f \in Flows, TabOf[f] \notin overlapped
    PROVE  /\ TabOf[f] \in Tabs /\ Follows(cloud[TabOf[f]], flow[f])
           /\ Tracks(TabOf[f], cloud[TabOf[f]])
           /\ Warned(TabOf[f], cloud[TabOf[f]], conflict[TabOf[f]])
           /\ \A q \in inflight : Accounted(TabOf[f], cloud[TabOf[f]], q)
           /\ Anchored(canvas[TabOf[f]])
           /\ NoRequest \notin Request
BY GraphAssumption, NoRequestAssumption DEF SoleInv

\* Types of a tab's state and of the log.
LEMMA StateFacts ==
    ASSUME NEW c, GoodState(c)
    PROVE  /\ c.life \in Nat /\ c.loaded \in Nat /\ c.version \in Nat /\ c.serial \in Nat
           /\ c.baseline \in Graphs
           /\ c.pending # NoRequest =>
                 /\ c.pending \in Request /\ c.pending.base = c.version
                 /\ c.pending.ops \in Ops /\ c.pending.serial \in Nat
                 /\ c.pending.life \in Nat /\ c.pending.target \in Graphs
BY DEF GoodState, State, Sound, Request, Ops, Contents

\* The versions of the log are numbered, and entries have serial numbers.
LEMMA LogFacts ==
    ASSUME LogInv
    PROVE  /\ Version \in Nat /\ Version = Len(log)
           /\ \A w \in 1..Version : log[w] \in Entry /\ log[w].serial \in Nat
<1>1. Len(log) \in Nat /\ \A w \in 1..Len(log) : log[w] \in Entry
  BY DEF LogInv
<1> QED
  BY <1>1 DEF Version, Entry

\* Where nothing of the log changes, what is known of it does not.
LEMMA SameLogSole ==
    ASSUME log' = log
    PROVE  \A t, c, x, q, b :
              /\ Tracks(t, c) => Tracks(t, c)'
              /\ Accounted(t, c, q) => Accounted(t, c, q)'
              /\ Follows(c, x) => Follows(c, x)'
              /\ Warned(t, c, b) => Warned(t, c, b)'
<1>1. Version' = Version /\ \A v : GraphAt(v)' = GraphAt(v)
  BY DEF Version, GraphAt
<1>2. \A q : Recorded(q)' = Recorded(q)
  BY <1>1 DEF Recorded, SameRequest
<1>3. \A q : Spent(q)' = Spent(q)
  BY <1>1, <1>2 DEF Spent
<1>4. \A v, t, l : Own(v, t, l)' = Own(v, t, l)
  BY DEF Own
<1>5. \A t, c : Explained(t, c) => Explained(t, c)'
  BY <1>1, <1>4 DEF Explained
<1> TAKE t, c, x, q, b
<1>6. Tracks(t, c) => Tracks(t, c)'
  BY <1>1, <1>2, <1>4, <1>5 DEF Tracks, SameRequest
<1>7. Accounted(t, c, q) => Accounted(t, c, q)'
  BY <1>1, <1>3 DEF Accounted
<1>8. Follows(c, x) => Follows(c, x)'
  BY <1>1, <1>2 DEF Follows, Anchored
<1>9. Warned(t, c, b) => Warned(t, c, b)'
  BY <1>1, <1>4 DEF Warned
<1> QED
  BY <1>6, <1>7, <1>8, <1>9

\* The chain of results depends on the log alone.
LEMMA SameLogChain ==
    ASSUME log' = log, LogChain
    PROVE  LogChain'
<1>1. Version' = Version /\ \A v : GraphAt(v)' = GraphAt(v)
  BY DEF Version, GraphAt
<1> QED
  BY <1>1 DEF LogChain, Applied

-----------------------------------------------------------------------------
(* The server *)

\* A tab's next entry can only be its pending request.
LEMMA OwnAppend ==
    ASSUME Inv, SoleInv, NEW r \in inflight, AppendChange(r), NEW t \in Tabs \ overlapped,
           r.tab = t
    PROVE  /\ r.life <= cloud[t].life
           /\ r.life = cloud[t].life => cloud[t].pending # NoRequest /\ r = cloud[t].pending
<1>1. Accounted(t, cloud[t], r) /\ Recorded(r) = {} /\ r.base = Version /\ Version \in Nat
  BY LogFacts DEF SoleInv, AppendChange, Inv
<1> QED
  BY <1>1 DEF Accounted, Spent

\* One more entry: what the log says of the entries before it stays.
LEMMA AppendFacts ==
    ASSUME Inv, NEW r \in inflight, AppendChange(r), NEW n, n = Version
    PROVE  /\ n \in Nat /\ Version' = n + 1
           /\ \A v \in 1..n : log'[v] = log[v]
           /\ log'[n + 1] = Record(r)
           /\ \A v \in 0..n : GraphAt(v)' = GraphAt(v)
           /\ GraphAt(n + 1)' = Applied(GraphAt(n), r.ops)
           /\ \A q : Recorded(q)' = IF SameRequest(r, q) THEN Recorded(q) \cup {n + 1}
                                    ELSE Recorded(q)
           /\ \A t, l, v : v \in 1..n => Own(v, t, l)' = Own(v, t, l)
           /\ \A t, l : Own(n + 1, t, l)' = (r.tab = t /\ r.life = l)
           /\ Recorded(r) = {} /\ r.base = n
<1>1. n \in Nat /\ n = Len(log) /\ log' = Append(log, Record(r))
  BY LogFacts DEF Inv, AppendChange
<1>2. Len(log') = n + 1 /\ log'[n + 1] = Record(r) /\ \A v \in 1..n : log'[v] = log[v]
  BY <1>1 DEF Inv, LogInv
<1>3. Version' = n + 1
  BY <1>2 DEF Version
<1>4. \A v \in 0..n : GraphAt(v)' = GraphAt(v)
  BY <1>1, <1>2 DEF GraphAt
<1>5. GraphAt(n + 1)' = Applied(GraphAt(n), r.ops)
  <2>1. GraphAt(n + 1)' = log'[n + 1].result
    BY <1>1 DEF GraphAt
  <2> QED
    BY <1>2, <2>1 DEF Record, Graph
<1>6. ASSUME NEW q
      PROVE  Recorded(q)' = IF SameRequest(r, q) THEN Recorded(q) \cup {n + 1} ELSE Recorded(q)
  <2>1. Recorded(q) = {v \in 1..n : SameRequest(log[v], q)}
    BY DEF Recorded
  <2>2. Recorded(q)' = {v \in 1..(n + 1) : SameRequest(log'[v], q)}
    BY <1>3 DEF Recorded, SameRequest
  <2>3. SameRequest(log'[n + 1], q) <=> SameRequest(r, q)
    BY <1>2 DEF SameRequest, Record
  <2>4. \A v \in 1..n : SameRequest(log'[v], q) <=> SameRequest(log[v], q)
    BY <1>2
  <2>5. \A v : v \in 1..(n + 1) <=> v \in 1..n \/ v = n + 1
    BY <1>1
  <2> QED
    BY <2>1, <2>2, <2>3, <2>4, <2>5
<1>7. \A t, l, v : v \in 1..n => Own(v, t, l)' = Own(v, t, l)
  BY <1>2 DEF Own
<1>8. \A t, l : Own(n + 1, t, l)' = (r.tab = t /\ r.life = l)
  <2>1. log'[n + 1].tab = r.tab /\ log'[n + 1].life = r.life
    BY <1>2 DEF Record
  <2> QED
    BY <2>1 DEF Own
<1> QED
  BY <1>1, <1>2, <1>3, <1>4, <1>5, <1>6, <1>7, <1>8 DEF AppendChange

\* The server records r, and of this life of the tab r is the pending request or
\* nothing.
Mine(t, c, r) ==
    r.tab = t => /\ r.life <= c.life
                 /\ r.life = c.life => c.pending # NoRequest /\ r = c.pending

\* A tab keeps track of the log when a request of another tab, of an earlier life,
\* or its pending request is recorded.
LEMMA TracksAppend ==
    ASSUME Inv, NEW r \in inflight, AppendChange(r), NEW t, NEW c, GoodState(c),
           Tracks(t, c), Mine(t, c, r)
    PROVE  Tracks(t, c)'
<1>0. PICK n : n = Version
  OBVIOUS
<1>a. /\ n \in Nat /\ Version' = n + 1
      /\ \A v \in 1..n : log'[v] = log[v]
      /\ log'[n + 1] = Record(r)
      /\ \A v \in 0..n : GraphAt(v)' = GraphAt(v)
      /\ \A q : Recorded(q)' = IF SameRequest(r, q) THEN Recorded(q) \cup {n + 1} ELSE Recorded(q)
      /\ \A l, v : v \in 1..n => Own(v, t, l)' = Own(v, t, l)
      /\ \A l : Own(n + 1, t, l)' = (r.tab = t /\ r.life = l)
      /\ r.base = n
  BY <1>0, AppendFacts
<1>2. /\ c.loaded \in Nat /\ c.version \in Nat /\ c.loaded <= c.version /\ c.version <= n
      /\ c.pending # NoRequest => c.pending.serial < c.serial /\ c.pending.base = c.version
  BY <1>0, StateFacts DEF Tracks
<1>3. Own(n + 1, t, c.life)' => c.pending # NoRequest /\ r = c.pending
  BY <1>a DEF Mine
<1>4. \A w \in 1..(n + 1) : Own(w, t, c.life)' => log'[w].serial < c.serial
  <2> TAKE w \in 1..(n + 1)
  <2>1. CASE w = n + 1
    <3>1. log'[w].serial = r.serial
      BY <1>a, <2>1 DEF Record
    <3> QED
      BY <1>2, <1>3, <2>1, <3>1
  <2>2. CASE w # n + 1
    <3>1. w \in 1..n
      BY <1>a, <2>2
    <3> QED
      BY <1>0, <1>a, <3>1 DEF Tracks
  <2> QED
    BY <2>1, <2>2
<1>8. \A w \in 1..(n + 1) : log'[w].tab = t => log'[w].life <= c.life
  <2> TAKE w \in 1..(n + 1)
  <2>1. CASE w = n + 1
    <3>1. log'[w].tab = r.tab /\ log'[w].life = r.life
      BY <1>a, <2>1 DEF Record
    <3> QED
      BY <3>1 DEF Mine
  <2>2. CASE w # n + 1
    <3>1. w \in 1..n
      BY <1>a, <2>2
    <3> QED
      BY <1>0, <1>a, <3>1 DEF Tracks
  <2> QED
    BY <2>1, <2>2
<1>5. \A w \in c.version + 1 .. n + 1 :
         Own(w, t, c.life)' => c.pending # NoRequest /\ SameRequest(log'[w], c.pending)
  <2> TAKE w \in c.version + 1 .. n + 1
  <2>1. CASE w = n + 1
    <3>1. SameRequest(log'[w], r)
      BY <1>a, <2>1 DEF SameRequest, Record
    <3> QED
      BY <1>3, <2>1, <3>1
  <2>2. CASE w # n + 1
    <3>1. w \in 1..n /\ w \in c.version + 1 .. n
      BY <1>a, <1>2, <2>2
    <3> QED
      BY <1>0, <1>a, <3>1 DEF Tracks
  <2> QED
    BY <2>1, <2>2
<1>7. c.pending # NoRequest => \A v \in Recorded(c.pending)' :
        log'[v].ops = c.pending.ops /\ v = c.pending.base + 1
  <2> SUFFICES ASSUME c.pending # NoRequest, NEW v \in Recorded(c.pending)'
               PROVE  log'[v].ops = c.pending.ops /\ v = c.pending.base + 1
    OBVIOUS
  <2>1. v \in Recorded(c.pending) \/ (SameRequest(r, c.pending) /\ v = n + 1)
    BY <1>a
  <2>2. CASE v \in Recorded(c.pending)
    <3>1. v \in 1..n
      BY <1>0, <2>2 DEF Recorded
    <3> QED
      BY <1>a, <2>2, <3>1 DEF Tracks
  <2>3. CASE SameRequest(r, c.pending) /\ v = n + 1
    <3>1. r = c.pending
      BY <2>3 DEF SameRequest, Tracks, Mine
    <3> QED
      BY <1>a, <2>3, <3>1 DEF Record
  <2> QED
    BY <2>1, <2>2, <2>3
<1>9. Explained(t, c)'
  <2> SUFFICES ASSUME NEW x \in Entities
               PROVE  \/ c.baseline[x] = GraphAt(c.version)'[x]
                      \/ \E v \in c.loaded + 1 .. c.version :
                            ~Own(v, t, c.life)' /\ GraphAt(v)'[x] # GraphAt(v - 1)'[x]
    BY DEF Explained
  <2>0. Explained(t, c) /\ c.version \in 0..n
    BY <1>a, <1>2 DEF Tracks
  <2>1. CASE c.baseline[x] = GraphAt(c.version)[x]
    BY <1>a, <2>0, <2>1
  <2>2. ASSUME NEW v \in c.loaded + 1 .. c.version,
               ~Own(v, t, c.life), GraphAt(v)[x] # GraphAt(v - 1)[x]
        PROVE  ~Own(v, t, c.life)' /\ GraphAt(v)'[x] # GraphAt(v - 1)'[x]
    <3>1. v \in 1..n /\ v \in 0..n /\ v - 1 \in 0..n
      BY <1>a, <1>2
    <3> QED
      BY <1>a, <2>2, <3>1
  <2> QED
    BY <2>0, <2>1, <2>2 DEF Explained
<1>10. c.version <= Version'
  BY <1>a, <1>2
<1> QED
  BY <1>a, <1>2, <1>4, <1>5, <1>7, <1>8, <1>9, <1>10 DEF Tracks, SameRequest

\* What will not be recorded, never will.
LEMMA AccountedAppend ==
    ASSUME Inv, NEW r \in inflight, AppendChange(r), NEW t, NEW c, NEW q \in inflight,
           Accounted(t, c, q)
    PROVE  Accounted(t, c, q)'
<1>1. (Spent(q) => Spent(q)') /\ (q.base <= Version => q.base <= Version')
  <2>1. PICK n : n = Version
    OBVIOUS
  <2>2. Version' = n + 1 /\ n \in Nat /\ (Recorded(q) # {} => Recorded(q)' # {})
    BY <2>1, AppendFacts
  <2>3. q.base \in Nat
    BY DEF Inv, TabsInv, Sound, Request
  <2> QED
    BY <2>1, <2>2, <2>3 DEF Spent
<1> QED
  BY <1>1 DEF Accounted

\* A change of somebody else remains one.
LEMMA WarnedAppend ==
    ASSUME Inv, NEW r \in inflight, AppendChange(r), NEW t, NEW c, GoodState(c), NEW told,
           Warned(t, c, told)
    PROVE  Warned(t, c, told)'
<1> SUFFICES ASSUME told, NEW v \in c.loaded + 1 .. Version, ~Own(v, t, c.life)
             PROVE  v \in c.loaded + 1 .. Version' /\ ~Own(v, t, c.life)'
  BY DEF Warned
<1>1. PICK n : n = Version
  OBVIOUS
<1>2. /\ n \in Nat /\ Version' = n + 1 /\ c.loaded \in Nat
      /\ \A l, w : w \in 1..n => Own(w, t, l)' = Own(w, t, l)
  BY <1>1, AppendFacts, StateFacts
<1>3. v \in 1..n
  BY <1>1, <1>2
<1> QED
  BY <1>1, <1>2, <1>3

\* A flow's knowledge stays right when a request is recorded, and the flow that
\* waits for it learns the version it got.
LEMMA FollowsAppend ==
    ASSUME Inv, NEW r \in inflight, AppendChange(r), NEW t, NEW c, GoodState(c),
           Tracks(t, c), Mine(t, c, r), NEW x, Follows(c, x), NEW y,
           \/ y = x
           \/ /\ x.pc = "sent" /\ x.request = r
              /\ x \in FlowState
              /\ y = [x EXCEPT !.answer = [result |-> "accepted", version |-> Version + 1]]
    PROVE  Follows(c, y)'
<1>0. PICK n : n = Version
  OBVIOUS
<1>a. /\ n \in Nat /\ Version' = n + 1
      /\ \A q : Recorded(q)' = IF SameRequest(r, q) THEN Recorded(q) \cup {n + 1} ELSE Recorded(q)
      /\ r.base = n
  BY <1>0, AppendFacts
<1>1. Recorded(c.pending) = {} /\ c.pending.base < Version /\ c.pending # NoRequest
      => Recorded(c.pending)' = {} /\ c.pending.base < Version'
  <2> SUFFICES ASSUME Recorded(c.pending) = {}, c.pending.base < Version, c.pending # NoRequest
               PROVE  Recorded(c.pending)' = {} /\ c.pending.base < Version'
    OBVIOUS
  <2>1. c.pending.base \in Nat
    BY StateFacts
  <2>2. ~SameRequest(r, c.pending)
    <3> SUFFICES ASSUME SameRequest(r, c.pending) PROVE FALSE
      OBVIOUS
    <3>1. r = c.pending
      BY DEF SameRequest, Tracks, Mine
    <3> QED
      BY <1>0, <1>a, <2>1, <3>1
  <2> QED
    BY <1>0, <1>a, <2>1, <2>2
<1>2. Recorded(c.pending) \subseteq Recorded(c.pending)'
  BY <1>a
<1>3. CASE y = x
  BY <1>1, <1>2, <1>3 DEF Follows, Anchored
<1>4. CASE y # x
  <2>1. /\ y.pc = "sent" /\ x.pc = "sent" /\ y.request = x.request /\ y.stage = x.stage /\ y.target = x.target
        /\ y.rest = x.rest /\ y.answer.result = "accepted" /\ y.answer.version = n + 1
        /\ x.request = r
    BY <1>0, <1>4 DEF FlowState
  <2>2. c.pending # NoRequest /\ r = c.pending
    BY <2>1 DEF Follows
  <2>3. n + 1 \in Recorded(c.pending)'
    BY <1>a, <2>2 DEF SameRequest
  <2> QED
    BY <2>1, <2>2, <2>3 DEF Follows, Anchored
<1> QED
  BY <1>3, <1>4

\* What an answer does to the flow that waits for it: a version it got, or a
\* request the server will never record.
LEMMA AnswerFollows ==
    ASSUME NEW c, NEW x, Follows(c, x), x \in FlowState, x.pc = "sent", NEW res, NEW v,
           res = "accepted" => v \in Recorded(x.request),
           res = "conflict" => Recorded(x.request) = {} /\ x.request.base < Version
    PROVE  Follows(c, [x EXCEPT !.answer = [result |-> res, version |-> v]])
<1> DEFINE y == [x EXCEPT !.answer = [result |-> res, version |-> v]]
<1>1. /\ y.pc = "sent" /\ y.request = x.request /\ y.stage = x.stage /\ y.target = x.target
      /\ y.rest = x.rest /\ y.answer.result = res /\ y.answer.version = v
  BY DEF FlowState
<1> HIDE DEF y
<1>2. Follows(c, y)
  BY <1>1 DEF Follows
<1> QED
  BY <1>2 DEF y

\* An answer moves no flow.
LEMMA AnswerIdle ==
    ASSUME Inv, NEW r, NEW res, NEW v, Answer(r, res, v), NEW f \in Flows
    PROVE  flow'[f].pc = flow[f].pc /\ flow'[f].request = flow[f].request
<1>1. flow[f] \in FlowState
  BY DEF Inv, TabsInv, GoodFlow
<1>2. flow'[f] \in {flow[f], [flow[f] EXCEPT !.answer = [result |-> res, version |-> v]]}
  BY DEF Answer
<1> QED
  BY <1>1, <1>2 DEF FlowState

\* A request that is replayed or rejected.
LEMMA AnswerOnlySole ==
    ASSUME Inv, SoleInv, NEW r \in inflight, NEW res, NEW v, Answer(r, res, v),
           UNCHANGED serverVars,
           res = "accepted" => v \in Recorded(r),
           res = "conflict" => Recorded(r) = {} /\ r.base # Version
    PROVE  SoleInv'
<1>1. /\ log' = log /\ canvas' = canvas /\ cloud' = cloud /\ conflict' = conflict
      /\ inflight' \subseteq inflight /\ overlapped' = overlapped
  BY DEF serverVars, Answer
<1>2. ASSUME NEW f \in Flows, TabOf[f] \notin overlapped
      PROVE  Follows(cloud[TabOf[f]], flow'[f])
  <2> DEFINE t == TabOf[f]
  <2>1. Follows(cloud[t], flow[f]) /\ flow[f] \in FlowState
    BY <1>2 DEF SoleInv, Inv, TabsInv, GoodFlow
  <2>2. flow'[f] = IF flow[f].pc = "sent" /\ flow[f].request = r
                   THEN [flow[f] EXCEPT !.answer = [result |-> res, version |-> v]]
                   ELSE flow[f]
    BY DEF Answer
  <2>3. ASSUME flow[f].pc = "sent", flow[f].request = r
        PROVE  r.base <= Version
    <3>1. Tracks(t, cloud[t]) /\ Accounted(t, cloud[t], r)
      BY <1>2, SoleFacts
    <3>2. cloud[t].pending # NoRequest /\ r = cloud[t].pending
      BY <2>1, <2>3 DEF Follows
    <3>3. r.tab = t /\ r.life = cloud[t].life
      BY <3>1, <3>2 DEF Tracks
    <3> QED
      BY <3>1, <3>3 DEF Accounted
  <2>4. r.base \in Nat /\ Version \in Nat
    BY LogFacts DEF Inv, TabsInv, Sound, Request
  <2> QED
    BY <2>1, <2>2, <2>3, <2>4, AnswerFollows
<1>3. \A f \in Flows : TabOf[f] \notin overlapped => Follows(cloud[TabOf[f]], flow[f])'
  BY <1>1, <1>2, SameLogSole
<1>4. \A t \in Tabs \ overlapped :
          /\ Tracks(t, cloud[t])' /\ Warned(t, cloud[t], conflict[t])'
          /\ \A q \in inflight' : Accounted(t, cloud[t], q)'
  BY <1>1, SameLogSole DEF SoleInv
<1>5. LogChain' /\ \A t \in Tabs : Anchored(canvas[t])'
  BY <1>1, SameLogChain DEF SoleInv, Anchored
<1>6. \A f \in Flows : flow'[f].pc = flow[f].pc
  BY AnswerIdle
<1> QED
  BY <1>1, <1>3, <1>4, <1>5, <1>6 DEF SoleInv

\* applyOperations.
LEMMA ServerSole ==
    ASSUME Inv, SoleInv, NEW r \in inflight, ApplyOperations(r)
    PROVE  SoleInv'
<1>1. CASE Replay(r)
  <2>1. PICK v \in Recorded(r) : Answer(r, "accepted", v) /\ UNCHANGED serverVars
    BY <1>1 DEF Replay
  <2> QED
    BY <2>1, AnswerOnlySole
<1>2. CASE RejectStale(r)
  BY <1>2, AnswerOnlySole DEF RejectStale
<1>3. CASE RejectInvalid(r)
  BY <1>3, AnswerOnlySole DEF RejectInvalid
<1>4. CASE AppendChange(r)
  <2>1. /\ canvas' = canvas /\ cloud' = cloud /\ conflict' = conflict
        /\ inflight' \subseteq inflight /\ overlapped' = overlapped
    BY <1>4 DEF AppendChange, Answer
  <2>2. ASSUME NEW t \in Tabs \ overlapped
        PROVE  Mine(t, cloud[t], r) /\ GoodState(cloud[t]) /\ Tracks(t, cloud[t])
    BY <1>4, OwnAppend DEF Mine, SoleInv, Inv, TabsInv
  <2>3. ASSUME NEW t \in Tabs \ overlapped PROVE Tracks(t, cloud[t])'
    <3>1. \A c : GoodState(c) /\ Tracks(t, c) /\ Mine(t, c, r) => Tracks(t, c)'
      BY <1>4, TracksAppend
    <3> QED
      BY <2>1, <2>2, <3>1
  <2>4. ASSUME NEW t \in Tabs \ overlapped PROVE Warned(t, cloud[t], conflict[t])'
    <3>1. \A c, b : GoodState(c) /\ Warned(t, c, b) => Warned(t, c, b)'
      BY <1>4, WarnedAppend
    <3> QED
      BY <2>1, <2>2, <3>1 DEF SoleInv
  <2>5. ASSUME NEW t \in Tabs \ overlapped, NEW q \in inflight' PROVE Accounted(t, cloud[t], q)'
    <3>1. \A c : Accounted(t, c, q) => Accounted(t, c, q)'
      BY <1>4, <2>1, AccountedAppend
    <3> QED
      BY <2>1, <3>1 DEF SoleInv
  <2>6. ASSUME NEW f \in Flows, TabOf[f] \notin overlapped
        PROVE  Follows(cloud[TabOf[f]], flow[f])'
    <3> DEFINE t == TabOf[f]
               y == flow'[f]
    <3>1. t \in Tabs \ overlapped /\ Follows(cloud[t], flow[f]) /\ flow[f] \in FlowState
      BY <2>6, GraphAssumption DEF SoleInv, Inv, TabsInv, GoodFlow
    <3>2. \/ y = flow[f]
          \/ /\ flow[f].pc = "sent" /\ flow[f].request = r
             /\ y = [flow[f] EXCEPT !.answer = [result |-> "accepted", version |-> Version + 1]]
      BY <1>4 DEF AppendChange, Answer
    <3> HIDE DEF y
    <3>3. \A c, x, z :
            /\ GoodState(c) /\ Tracks(t, c) /\ Mine(t, c, r) /\ Follows(c, x)
            /\ \/ z = x
               \/ /\ x.pc = "sent" /\ x.request = r /\ x \in FlowState
                  /\ z = [x EXCEPT !.answer = [result |-> "accepted", version |-> Version + 1]]
            => Follows(c, z)'
      BY <1>4, FollowsAppend
    <3>4. \A z : z = y => Follows(cloud[t], z)'
      BY <2>1, <2>2, <3>1, <3>2, <3>3
    <3> QED
      BY <3>4 DEF y
  <2>7. LogChain'
    <3>1. PICK n : n = Version
      OBVIOUS
    <3>2. /\ n \in Nat /\ Version' = n + 1 /\ \A v \in 1..n : log'[v] = log[v]
          /\ \A v \in 0..n : GraphAt(v)' = GraphAt(v)
          /\ GraphAt(n + 1)' = Applied(GraphAt(n), r.ops)
          /\ log'[n + 1] = Record(r)
      BY <1>4, <3>1, AppendFacts
    <3>3. Record(r).result = Applied(GraphAt(n), r.ops) /\ Record(r).ops = r.ops
      BY <3>1 DEF Record, Graph
    <3>4. ASSUME NEW v \in 1..(n + 1)
          PROVE  log'[v].result = Applied(GraphAt(v - 1)', log'[v].ops)
      <4>1. CASE v = n + 1
        BY <3>2, <3>3, <4>1
      <4>2. CASE v # n + 1
        <5>1. v \in 1..n /\ v - 1 \in 0..n
          BY <3>2, <4>2
        <5> QED
          BY <3>1, <3>2, <5>1 DEF SoleInv, LogChain
      <4> QED
        BY <4>1, <4>2
    <3>5. ASSUME NEW v \in 0..(n + 1), NEW u \in 0..v, NEW x \in Entities,
                 GraphAt(u)'[x] # GraphAt(v)'[x]
          PROVE  \E w \in u + 1 .. v : GraphAt(w)'[x] # GraphAt(w - 1)'[x]
      <4> DEFINE m == IF v = n + 1 THEN n ELSE v
      <4>1. ASSUME u \in 0..m, GraphAt(u)[x] # GraphAt(m)[x]
            PROVE  \E w \in u + 1 .. v : GraphAt(w)'[x] # GraphAt(w - 1)'[x]
        <5>1. PICK w \in u + 1 .. m : GraphAt(w)[x] # GraphAt(w - 1)[x]
          BY <3>1, <3>2, <4>1 DEF SoleInv, LogChain
        <5>2. w \in u + 1 .. v /\ w \in 0..n /\ w - 1 \in 0..n
          BY <3>2
        <5>3. GraphAt(w)' = GraphAt(w) /\ GraphAt(w - 1)' = GraphAt(w - 1)
          BY <3>2, <5>2
        <5> QED
          BY <5>1, <5>2, <5>3
      <4>2. CASE v # n + 1
        <5>1. v \in 0..n /\ u \in 0..n /\ m = v
          BY <3>2, <4>2
        <5> QED
          BY <3>2, <3>5, <4>1, <5>1
      <4>3. CASE v = n + 1
        <5>1. u # v
          BY <3>5
        <5>2. u \in 0..n /\ m = n /\ v \in u + 1 .. v /\ v - 1 = n /\ n \in 0..n
          BY <3>2, <4>3, <5>1
        <5>3. GraphAt(n)' = GraphAt(n) /\ GraphAt(u)' = GraphAt(u)
          BY <3>2, <5>2
        <5>4. CASE GraphAt(v)'[x] # GraphAt(v - 1)'[x]
          BY <5>2, <5>4
        <5>5. CASE GraphAt(v)'[x] = GraphAt(v - 1)'[x]
          BY <3>5, <4>1, <5>2, <5>3, <5>5
        <5> QED
          BY <5>4, <5>5
      <4> QED
        BY <4>2, <4>3
    <3>6. (\A v \in 1..Version : log[v].result = Applied(GraphAt(v - 1), log[v].ops))'
      BY <3>2, <3>4 DEF Applied
    <3>7. (\A v \in 0..Version : \A u \in 0..v : \A x \in Entities :
             \/ GraphAt(u)[x] = GraphAt(v)[x]
             \/ \E w \in u + 1 .. v : GraphAt(w)[x] # GraphAt(w - 1)[x])'
      BY <3>2, <3>5
    <3> QED
      BY <3>6, <3>7 DEF LogChain
  <2>8. \A t \in Tabs : Anchored(canvas[t])'
    BY <2>1 DEF SoleInv, Anchored
  <2>9. \A f \in Flows : flow'[f].pc = flow[f].pc
    BY <1>4, AnswerIdle DEF AppendChange
  <2> QED
    BY <2>1, <2>3, <2>4, <2>5, <2>6, <2>7, <2>8, <2>9 DEF SoleInv
<1> QED
  BY <1>1, <1>2, <1>3, <1>4 DEF ApplyOperations

-----------------------------------------------------------------------------
(* The lives of tabs *)

\* A step of a flow, whatever the other flows do: it changes its own tab, keeps the
\* tab's life, and sends requests of that tab.
LifeMoved(f, c, x) ==
    /\ flow' = [flow EXCEPT ![f] = x]
    /\ cloud' = [cloud EXCEPT ![TabOf[f]] = c]
    /\ c.life = cloud[TabOf[f]].life
    /\ OfTab(TabOf[f], c.pending) /\ OfTab(TabOf[f], x.request)
    /\ \A q \in inflight' :
          q \in inflight \/ (q.tab = TabOf[f] /\ q.life <= cloud[TabOf[f]].life)
    /\ \E told : conflict' = [conflict EXCEPT ![TabOf[f]] = told]
    /\ UNCHANGED <<log, canvas>>

\* What LifeInv says of a flow and its tab.
LEMMA LifeFacts ==
    ASSUME Inv, LifeInv, NEW f \in Flows
    PROVE  /\ TabOf[f] \in Tabs /\ GoodState(cloud[TabOf[f]]) /\ flow[f] \in FlowState
           /\ OfTab(TabOf[f], cloud[TabOf[f]].pending) /\ OfTab(TabOf[f], flow[f].request)
           /\ cloud[TabOf[f]].life \in Nat
           /\ cloud' = cloud => cloud' = [cloud EXCEPT ![TabOf[f]] = cloud[TabOf[f]]]
           /\ conflict' = conflict =>
                 conflict' = [conflict EXCEPT ![TabOf[f]] = conflict[TabOf[f]]]
<1>1. TabOf[f] \in Tabs /\ GoodState(cloud[TabOf[f]]) /\ flow[f] \in FlowState
  BY GraphAssumption DEF Inv, TabsInv, GoodFlow
<1>2. cloud[TabOf[f]].life \in Nat
  BY <1>1, StateFacts
<1> QED
  BY <1>1, <1>2 DEF LifeInv, Inv, ShapeInv

\* The end of a flow and the steps that change only the flow.
LEMMA QuietLife ==
    ASSUME Inv, LifeInv, NEW f \in Flows, NEW x, flow' = [flow EXCEPT ![f] = x],
           OfTab(TabOf[f], x.request), UNCHANGED <<log, canvas, cloud>>,
           \A q \in inflight' : q \in inflight \/ (q # NoRequest /\ q = cloud[TabOf[f]].pending),
           \/ conflict' = conflict
           \/ \E told : conflict' = [conflict EXCEPT ![TabOf[f]] = told]
    PROVE  \E c, y : LifeMoved(f, c, y)
<1>1. cloud' = [cloud EXCEPT ![TabOf[f]] = cloud[TabOf[f]]]
  BY LifeFacts
<1>2. \E told : conflict' = [conflict EXCEPT ![TabOf[f]] = told]
  BY LifeFacts
<1>3. OfTab(TabOf[f], cloud[TabOf[f]].pending)
  BY LifeFacts
<1>4. LifeMoved(f, cloud[TabOf[f]], x)
  BY <1>1, <1>2, <1>3 DEF LifeMoved, OfTab
<1> QED
  BY <1>4

\* The next batch of a save is one of the tab's present life.
LEMMA PostBatchLife ==
    ASSUME Inv, LifeInv, NEW f \in Flows, NEW c, c \in State, c.life = cloud[TabOf[f]].life,
           NEW ops, PostBatch(f, c, ops, flow[f]), UNCHANGED <<log, canvas, conflict>>
    PROVE  \E d, x : LifeMoved(f, d, x)
<1> DEFINE t == TabOf[f]
<1>1. PICK B \in Batches(ops) :
        LET r == [tab |-> t, life |-> c.life, serial |-> c.serial,
                  loaded |-> c.loaded, drafted |-> c.version,
                  base |-> c.version, ops |-> Only(ops, B),
                  target |-> Applied(c.baseline, Only(ops, B))]
        IN  /\ cloud' = [cloud EXCEPT ![t] = [c EXCEPT !.pending = r, !.serial = @ + 1]]
            /\ Post(f, r, [flow[f] EXCEPT !.stage = "batch", !.mayRebase = TRUE,
                                          !.rest = Only(ops, DOMAIN ops \ B)])
  BY DEF PostBatch
<1> DEFINE r == [tab |-> t, life |-> c.life, serial |-> c.serial,
                 loaded |-> c.loaded, drafted |-> c.version,
                 base |-> c.version, ops |-> Only(ops, B),
                 target |-> Applied(c.baseline, Only(ops, B))]
           d == [c EXCEPT !.pending = r, !.serial = @ + 1]
           x == [flow[f] EXCEPT !.stage = "batch", !.mayRebase = TRUE,
                                !.rest = Only(ops, DOMAIN ops \ B), !.pc = "sent",
                                !.request = r, !.answer = NoAnswer]
<1>2. /\ cloud' = [cloud EXCEPT ![t] = d] /\ flow' = [flow EXCEPT ![f] = x]
      /\ inflight' = inflight \cup {r}
  BY <1>1 DEF Post
<1>3. r.tab = t /\ r.life = cloud[t].life
  OBVIOUS
<1>4. cloud[t].life \in Nat /\ flow[f] \in FlowState
  BY LifeFacts
<1> HIDE DEF r
<1>5. d.life = cloud[t].life /\ d.pending = r /\ x.request = r
  BY <1>4 DEF State, FlowState
<1>6. conflict' = [conflict EXCEPT ![t] = conflict[t]]
  BY LifeFacts
<1> HIDE DEF d, x
<1>7. OfTab(t, r) /\ \A q \in inflight' : q \in inflight \/ (q.tab = t /\ q.life <= cloud[t].life)
  BY <1>2, <1>3, <1>4 DEF OfTab
<1> QED
  BY <1>2, <1>5, <1>6, <1>7 DEF LifeMoved

\* Every step of a flow is one of its own tab.
LEMMA FlowLife ==
    ASSUME Inv, LifeInv, NEW f \in Flows,
           StartSave(f) \/ StartCheckpoint(f) \/ FlowStep(f) \/ LoseAnswer(f)
    PROVE  \E c, x : LifeMoved(f, c, x)
<1> DEFINE t == TabOf[f]
<1>0. /\ OfTab(t, NoRequest) /\ IdleFlow.request = NoRequest
      /\ flow[f] \in FlowState /\ cloud[t] \in State
      /\ OfTab(t, cloud[t].pending) /\ OfTab(t, flow[f].request)
  BY LifeFacts DEF OfTab, IdleFlow, GoodState
<1>1. ASSUME NEW kind, NEW next, StartFlow(f, kind, next)
      PROVE  \E c, x : LifeMoved(f, c, x)
  <2> DEFINE begun == [IdleFlow EXCEPT !.kind = kind, !.target = canvas[t]]
             sent == [begun EXCEPT !.pc = "sent", !.request = cloud[t].pending,
                                   !.answer = NoAnswer]
             ready == [begun EXCEPT !.pc = next]
  <2>1. sent.request = cloud[t].pending /\ ready.request = NoRequest
    BY DEF IdleFlow
  <2>2. /\ UNCHANGED <<log, canvas, cloud, conflict>>
        /\ \/ cloud[t].pending # NoRequest /\ flow' = [flow EXCEPT ![f] = sent]
              /\ inflight' = inflight \cup {cloud[t].pending}
           \/ flow' = [flow EXCEPT ![f] = ready] /\ inflight' = inflight
    BY <1>1 DEF StartFlow, Post
  <2> HIDE DEF sent, ready
  <2> QED
    BY <1>0, <2>1, <2>2, QuietLife
<1>2. ASSUME GiveUp(f), \/ conflict' = conflict
                        \/ conflict' = [conflict EXCEPT ![t] = TRUE]
      PROVE  \E c, x : LifeMoved(f, c, x)
  BY <1>0, <1>2, QuietLife DEF GiveUp
<1>3. CASE \/ BatchConflicts(f) \/ RebaseFails(f) \/ BatchRefused(f) \/ CreateCheckpoint(f)
           \/ LoseAnswer(f)
  BY <1>2, <1>3 DEF BatchConflicts, RebaseFails, BatchRefused, CreateCheckpoint, LoseAnswer,
                    ReportConflict
<1>4. CASE SendChanges(f)
  <2>1. CASE SaveDone(f) /\ UNCHANGED <<cloud, inflight>>
    BY <1>0, <1>4, <2>1, QuietLife DEF SaveDone, SendChanges
  <2>2. CASE PostBatch(f, cloud[t], Diff(cloud[t].baseline, flow[f].target), flow[f])
             /\ UNCHANGED conflict
    BY <1>0, <1>4, <2>2, PostBatchLife DEF SendChanges
  <2> QED
    BY <1>4, <2>1, <2>2 DEF SendChanges
<1>5. Advanced(f).life = cloud[t].life /\ Advanced(f).pending = NoRequest
      /\ [Advanced(f) EXCEPT !.baseline = flow[f].target].life = cloud[t].life
      /\ [Advanced(f) EXCEPT !.baseline = flow[f].target].pending = NoRequest
  BY <1>0 DEF Advanced, State
<1>6. cloud[t].life \in Nat /\ (conflict' = conflict => conflict' = [conflict EXCEPT ![t] = conflict[t]])
  BY LifeFacts
<1>7. CASE LeftoverAccepted(f)
  <2> DEFINE x == [IdleFlow EXCEPT !.kind = flow[f].kind, !.target = flow[f].target,
                      !.pc = IF flow[f].kind = "save" THEN "preparing" ELSE "checkpointing"]
  <2>1. x.request = NoRequest
    BY DEF IdleFlow
  <2>2. /\ cloud' = [cloud EXCEPT ![t] = Advanced(f)] /\ flow' = [flow EXCEPT ![f] = x]
        /\ UNCHANGED <<log, canvas, conflict, inflight>>
    BY <1>7 DEF LeftoverAccepted
  <2> HIDE DEF x
  <2> QED
    BY <1>0, <1>5, <1>6, <2>1, <2>2 DEF LifeMoved
<1>8. CASE LastBatchAccepted(f)
  <2> DEFINE d == [Advanced(f) EXCEPT !.baseline = flow[f].target]
  <2>1. /\ cloud' = [cloud EXCEPT ![t] = d] /\ flow' = [flow EXCEPT ![f] = IdleFlow]
        /\ conflict' = [conflict EXCEPT ![t] = FALSE] /\ UNCHANGED <<log, canvas, inflight>>
    BY <1>8 DEF LastBatchAccepted, SaveDone
  <2>2. d.life = cloud[t].life /\ d.pending = NoRequest
    BY <1>5
  <2> HIDE DEF d
  <2> QED
    BY <1>0, <2>1, <2>2 DEF LifeMoved
<1>9. CASE BatchAccepted(f)
  <2>1. Advanced(f) \in State
    BY <1>9, AdvancedGood DEF BatchAccepted, Answered, GoodState
  <2> QED
    BY <1>5, <1>9, <2>1, PostBatchLife DEF BatchAccepted
<1>10. CASE CatchUp(f)
  <2> DEFINE x == [flow[f] EXCEPT !.pc = "catching", !.request = cloud[t].pending,
                                  !.after = cloud[t].version, !.answer = NoAnswer]
  <2>1. x.request = cloud[t].pending
    BY <1>0 DEF FlowState
  <2>2. flow' = [flow EXCEPT ![f] = x] /\ UNCHANGED <<log, canvas, cloud, conflict, inflight>>
    BY <1>10 DEF CatchUp
  <2> HIDE DEF x
  <2> QED
    BY <1>0, <2>1, <2>2, QuietLife
<1>11. CASE ReadHead(f)
  <2> DEFINE x == [flow[f] EXCEPT !.pc = "reading", !.head = Version]
  <2>1. x.request = flow[f].request
    BY <1>0 DEF FlowState
  <2>2. flow' = [flow EXCEPT ![f] = x] /\ UNCHANGED <<log, canvas, cloud, conflict, inflight>>
    BY <1>0, <1>11 DEF ReadHead, FlowState, Inv, ShapeInv
  <2> HIDE DEF x
  <2> QED
    BY <1>0, <2>1, <2>2, QuietLife
<1>12. CASE Rebase(f)
  <2> DEFINE q == flow[f].request
             h == flow[f].head
             r == [q EXCEPT !.base = h, !.serial = cloud[t].serial]
             d == [cloud[t] EXCEPT !.version = h, !.pending = r, !.serial = @ + 1]
             y == [flow[f] EXCEPT !.mayRebase = FALSE, !.after = 0, !.head = 0]
             x == [y EXCEPT !.pc = "sent", !.request = r, !.answer = NoAnswer]
  <2>1. cloud' = [cloud EXCEPT ![t] = d] /\ Post(f, r, y) /\ UNCHANGED <<log, canvas, conflict>>
        /\ flow[f].pc = "reading"
    BY <1>12 DEF Rebase
  <2>2. flow' = [flow EXCEPT ![f] = x] /\ inflight' = inflight \cup {r}
    <3> HIDE DEF y, r
    <3> QED
      BY <2>1, Zenon DEF Post
  <2>3. q \in Request
    BY <2>1, FlowFacts DEF GoodFlow, Sound
  <2>4. q # NoRequest
    BY <2>3, NoRequestAssumption
  <2>5. r.tab = t /\ r.life = q.life /\ q.life <= cloud[t].life
    BY <1>0, <2>3, <2>4 DEF OfTab, Request
  <2> HIDE DEF r
  <2>6. d.life = cloud[t].life /\ d.pending = r /\ x.request = r
    BY <1>0 DEF State, FlowState
  <2> HIDE DEF d, x, y
  <2>7. OfTab(t, r) /\ \A p \in inflight' :
          p \in inflight \/ (p.tab = t /\ p.life <= cloud[t].life)
    BY <2>2, <2>5 DEF OfTab
  <2> QED
    BY <1>6, <2>1, <2>2, <2>6, <2>7 DEF LifeMoved
<1> QED
  BY <1>1, <1>3, <1>4, <1>7, <1>8, <1>9, <1>10, <1>11, <1>12
     DEF StartSave, StartCheckpoint, FlowStep

\* Lives only grow, and what was sent stays of a life its tab has had.
LEMMA LifeStep == Inv /\ LifeInv /\ [Next]_vars => LifeInv'
<1> SUFFICES ASSUME Inv, LifeInv, [Next]_vars PROVE LifeInv'
  OBVIOUS
<1>0. /\ Version \in Nat /\ \A w \in 1..Version : log[w].tab \in Tabs /\ log[w].life \in Nat
      /\ \A q \in inflight : q.tab \in Tabs /\ q.life \in Nat
      /\ \A t \in Tabs : cloud[t].life \in Nat
  <2>1. \A w \in 1..Version : log[w].tab \in Tabs /\ log[w].life \in Nat
    BY LogFacts DEF Inv, Entry
  <2> QED
    BY <2>1, LogFacts, StateFacts DEF Inv, TabsInv, Sound, Request
<1>1. CASE UNCHANGED <<log, cloud, flow, inflight>>
  <2>1. \A t, q : OfTab(t, q) => OfTab(t, q)'
    BY <1>1 DEF OfTab
  <2> QED
    BY <1>1, <2>1 DEF LifeInv, Version
<1>2. ASSUME NEW r \in inflight, ApplyOperations(r) PROVE LifeInv'
  <2>1. cloud' = cloud /\ inflight' \subseteq inflight
        /\ (log' = log \/ log' = Append(log, Record(r)))
        /\ \A f \in Flows : flow'[f].request = flow[f].request
    <3>1. PICK res, v : Answer(r, res, v)
      BY <1>2 DEF ApplyOperations, Replay, RejectStale, RejectInvalid, AppendChange
    <3>2. log' = log \/ log' = Append(log, Record(r))
      BY <1>2 DEF ApplyOperations, Replay, RejectStale, RejectInvalid, AppendChange, serverVars
    <3> QED
      BY <3>1, <3>2, AnswerIdle DEF Answer
  <2>2. \A t, q : OfTab(t, q) => OfTab(t, q)'
    BY <2>1 DEF OfTab
  <2>3. \A w \in 1..Version' : log'[w].life <= cloud[log'[w].tab].life
    <3>1. CASE log' = log
      BY <3>1 DEF LifeInv, Version
    <3>2. CASE log' = Append(log, Record(r))
      <4>1. Version' = Version + 1 /\ log'[Version + 1] = Record(r)
            /\ \A w \in 1..Version : log'[w] = log[w]
        BY <3>2 DEF Version, Inv, LogInv
      <4>2. Record(r).life = r.life /\ Record(r).tab = r.tab
        BY DEF Record
      <4>3. \A w \in 1..Version' : w = Version + 1 \/ w \in 1..Version
        BY <1>0, <4>1
      <4> QED
        BY <4>1, <4>2, <4>3 DEF LifeInv
    <3> QED
      BY <2>1, <3>1, <3>2
  <2> QED
    BY <2>1, <2>2, <2>3 DEF LifeInv
<1>3. ASSUME NEW t \in Tabs, LoadProject(t) PROVE LifeInv'
  <2>1. /\ UNCHANGED <<log, inflight>>
        /\ \A s \in Tabs \ {t} : cloud'[s] = cloud[s]
        /\ cloud'[t].life = cloud[t].life + 1 /\ cloud'[t].pending = NoRequest
        /\ \A f \in Flows : flow'[f] = IF TabOf[f] = t THEN IdleFlow ELSE flow[f]
    BY <1>3 DEF LoadProject, Inv, ShapeInv
  <2>2. \A s \in Tabs : cloud[s].life <= cloud'[s].life /\ cloud'[s].life \in Nat
    BY <1>0, <2>1
  <2>3. \A w \in 1..Version' : log'[w].life <= cloud'[log'[w].tab].life
    BY <1>0, <2>1, <2>2 DEF LifeInv, Version
  <2>4. \A q \in inflight' : q.life <= cloud'[q.tab].life
    BY <1>0, <2>1, <2>2 DEF LifeInv
  <2>5. \A s \in Tabs : OfTab(s, cloud[s].pending)'
    BY <2>1 DEF LifeInv, OfTab
  <2>6. \A f \in Flows : OfTab(TabOf[f], flow[f].request)'
    BY <2>1, GraphAssumption DEF LifeInv, OfTab, IdleFlow
  <2> QED
    BY <2>3, <2>4, <2>5, <2>6 DEF LifeInv
<1>4. ASSUME NEW f \in Flows, NEW c, NEW x, LifeMoved(f, c, x) PROVE LifeInv'
  <2> DEFINE t == TabOf[f]
  <2>1. /\ t \in Tabs /\ log' = log
        /\ \A s \in Tabs : cloud'[s] = IF s = t THEN c ELSE cloud[s]
        /\ \A g \in Flows : flow'[g] = IF g = f THEN x ELSE flow[g]
    BY <1>4, GraphAssumption DEF LifeMoved, Inv, ShapeInv
  <2>2. \A s \in Tabs : cloud'[s].life = cloud[s].life
    BY <1>4, <2>1 DEF LifeMoved
  <2>3. \A s \in Tabs : \A q : OfTab(s, q) => OfTab(s, q)'
    BY <2>2 DEF OfTab
  <2>4. \A w \in 1..Version' : log'[w].life <= cloud'[log'[w].tab].life
    BY <1>0, <2>1, <2>2 DEF LifeInv, Version
  <2>5. \A q \in inflight' : q.life <= cloud'[q.tab].life
    BY <1>0, <1>4, <2>1, <2>2 DEF LifeInv, LifeMoved
  <2>6. \A s \in Tabs : OfTab(s, cloud[s].pending)'
    BY <1>4, <2>1, <2>3 DEF LifeInv, LifeMoved
  <2>7. \A g \in Flows : OfTab(TabOf[g], flow[g].request)'
    BY <1>4, <2>1, <2>3, GraphAssumption DEF LifeInv, LifeMoved
  <2> QED
    BY <2>4, <2>5, <2>6, <2>7 DEF LifeInv
<1>5. ASSUME NEW t \in Tabs, Edit(t) PROVE LifeInv'
  BY <1>1, <1>5 DEF Edit
<1>6. CASE UploadElsewhere \/ UNCHANGED vars
  BY <1>1, <1>6 DEF UploadElsewhere, vars
<1> QED
  BY <1>2, <1>3, <1>4, <1>5, <1>6, FlowLife DEF Next

-----------------------------------------------------------------------------
(* The tabs *)

\* A step of a flow: flow x and tab state c follow each other and the log.
SoleMoved(f, c, x) ==
    /\ flow' = [flow EXCEPT ![f] = x]
    /\ cloud' = [cloud EXCEPT ![TabOf[f]] = c]
    /\ Tracks(TabOf[f], c) /\ Follows(c, x)
    /\ \A q \in inflight' : Accounted(TabOf[f], c, q)
    /\ \A q \in inflight' : q \in inflight \/ q.tab = TabOf[f]
    /\ \E told : /\ Warned(TabOf[f], c, told)
                 /\ conflict' = [conflict EXCEPT ![TabOf[f]] = told]
    /\ UNCHANGED <<log, canvas>>

\* An idle flow has nothing to follow.
LEMMA IdleFollows ==
    (\A c, x : x.pc = "idle" => Follows(c, x)) /\ (\A c : Follows(c, IdleFlow))
BY DEF Follows, IdleFlow

\* A step of a flow leaves the other tabs alone.  If its tab is one whose flows have
\* not overlapped, the tab's other flows are idle.
LEMMA SoleMovedInv ==
    ASSUME Inv, SoleInv, NEW f \in Flows, NEW d, NEW y, LifeMoved(f, d, y),
           overlapped \subseteq overlapped', overlapped' \subseteq overlapped \cup {TabOf[f]},
           TabOf[f] \notin overlapped' =>
              /\ \E c, x : SoleMoved(f, c, x)
              /\ \A g \in Flows \ {f} : TabOf[g] = TabOf[f] => flow[g].pc = "idle"
    PROVE  SoleInv'
<1> DEFINE t == TabOf[f]
<1>1. /\ t \in Tabs /\ log' = log /\ canvas' = canvas
      /\ \A s \in Tabs \ {t} : cloud'[s] = cloud[s] /\ conflict'[s] = conflict[s]
      /\ \A g \in Flows \ {f} : flow'[g] = flow[g]
      /\ \A q \in inflight' : q \in inflight \/ q.tab = t
  BY GraphAssumption DEF LifeMoved, Inv, ShapeInv
<1>2. ASSUME t \notin overlapped'
      PROVE  /\ Tracks(t, cloud'[t]) /\ Warned(t, cloud'[t], conflict'[t])
             /\ \A q \in inflight' : Accounted(t, cloud'[t], q)
             /\ Follows(cloud'[t], flow'[f])
  <2>1. PICK c, x : SoleMoved(f, c, x)
    BY <1>2
  <2>2. cloud'[t] = c /\ flow'[f] = x
    BY <1>1, <2>1 DEF SoleMoved, Inv, ShapeInv
  <2>3. Warned(t, c, conflict'[t])
    BY <1>1, <2>1 DEF SoleMoved, Inv, ShapeInv
  <2> QED
    BY <2>1, <2>2, <2>3 DEF SoleMoved
<1>3. ASSUME NEW s \in Tabs \ overlapped'
      PROVE  /\ Tracks(s, cloud'[s]) /\ Warned(s, cloud'[s], conflict'[s])
             /\ \A q \in inflight' : Accounted(s, cloud'[s], q)
  <2>1. CASE s = t
    BY <1>2, <2>1
  <2>2. CASE s # t
    <3>1. s \in Tabs \ overlapped
      OBVIOUS
    <3>2. \A q \in inflight' : Accounted(s, cloud[s], q)
      BY <1>1, <2>2, <3>1 DEF SoleInv, Accounted
    <3> QED
      BY <1>1, <2>2, <3>1, <3>2 DEF SoleInv
  <2> QED
    BY <2>1, <2>2
<1>4. ASSUME NEW g \in Flows, TabOf[g] \notin overlapped'
      PROVE  Follows(cloud'[TabOf[g]], flow'[g])
  <2>1. TabOf[g] \in Tabs
    BY GraphAssumption
  <2>2. CASE g = f
    BY <1>2, <1>4, <2>2
  <2>3. CASE g # f /\ TabOf[g] = t
    BY <1>1, <1>4, <2>3, IdleFollows
  <2>4. CASE TabOf[g] # t
    <3>1. TabOf[g] \notin overlapped
      BY <1>4
    <3>2. Follows(cloud[TabOf[g]], flow[g])
      BY <3>1 DEF SoleInv
    <3> QED
      BY <1>1, <2>1, <2>4, <3>2
  <2> QED
    BY <2>2, <2>3, <2>4
<1>5. \A g, h \in Flows : g # h /\ TabOf[g] = TabOf[h] /\ TabOf[g] \notin overlapped' =>
                              flow'[g].pc = "idle" \/ flow'[h].pc = "idle"
  <2> SUFFICES ASSUME NEW g \in Flows, NEW h \in Flows, g # h, TabOf[g] = TabOf[h],
                      TabOf[g] \notin overlapped'
               PROVE  flow'[g].pc = "idle" \/ flow'[h].pc = "idle"
    OBVIOUS
  <2>1. CASE g = f \/ h = f
    BY <1>1, <2>1
  <2>2. CASE g # f /\ h # f
    <3>1. TabOf[g] \notin overlapped
      OBVIOUS
    <3> QED
      BY <1>1, <2>2, <3>1 DEF SoleInv
  <2> QED
    BY <2>1, <2>2
<1>6. \A s \in Tabs \ overlapped' : /\ Tracks(s, cloud[s])' /\ Warned(s, cloud[s], conflict[s])'
                                    /\ \A q \in inflight' : Accounted(s, cloud[s], q)'
  BY <1>1, <1>3, SameLogSole
<1>7. \A g \in Flows : TabOf[g] \notin overlapped' => Follows(cloud[TabOf[g]], flow[g])'
  BY <1>1, <1>4, SameLogSole
<1>8. LogChain' /\ \A s \in Tabs : Anchored(canvas[s])'
  BY <1>1, SameLogChain DEF SoleInv, Anchored
<1> QED
  BY <1>5, <1>6, <1>7, <1>8 DEF SoleInv

\* An unsaved tab whose request was overtaken, or whose version is not the latest
\* while it has nothing on its way, has missed somebody else's change.
LEMMA OvertakenWarned ==
    ASSUME LogInv, NEW t, NEW c, GoodState(c), Tracks(t, c),
           \/ c.pending # NoRequest /\ Recorded(c.pending) = {} /\ c.pending.base < Version
           \/ c.pending = NoRequest /\ c.version # Version
    PROVE  Warned(t, c, TRUE)
<1>1. /\ Version \in Nat /\ c.loaded \in Nat /\ c.version \in Nat /\ c.loaded <= c.version
      /\ c.version < Version
  BY LogFacts, StateFacts DEF Tracks
<1>2. Version \in c.version + 1 .. Version /\ Version \in c.loaded + 1 .. Version
  BY <1>1
<1>3. ~Own(Version, t, c.life)
  <2> SUFFICES ASSUME Own(Version, t, c.life) PROVE FALSE
    OBVIOUS
  <2>1. c.pending # NoRequest /\ SameRequest(log[Version], c.pending)
    BY <1>2 DEF Tracks
  <2>2. Version \in Recorded(c.pending)
    BY <1>1, <2>1 DEF Recorded
  <2> QED
    BY <2>1, <2>2
<1> QED
  BY <1>2, <1>3 DEF Warned

\* Errors and conflicts end the flow.
LEMMA GiveUpSole ==
    ASSUME Inv, SoleInv, NEW f \in Flows, TabOf[f] \notin overlapped,
           GiveUp(f),
           \/ conflict' = conflict
           \/ /\ conflict' = [conflict EXCEPT ![TabOf[f]] = TRUE]
              /\ Warned(TabOf[f], cloud[TabOf[f]], TRUE)
    PROVE  \E c, x : SoleMoved(f, c, x)
<1> DEFINE t == TabOf[f]
<1>1. cloud' = [cloud EXCEPT ![t] = cloud[t]] /\ flow' = [flow EXCEPT ![f] = IdleFlow]
      /\ UNCHANGED <<log, canvas, inflight>>
  BY DEF GiveUp, Inv, ShapeInv
<1>2. \E told : Warned(t, cloud[t], told) /\ conflict' = [conflict EXCEPT ![t] = told]
  <2>1. CASE conflict' = conflict
    <3>1. conflict' = [conflict EXCEPT ![t] = conflict[t]]
      BY <2>1 DEF Inv, ShapeInv
    <3> QED
      BY <3>1, SoleFacts
  <2> QED
    BY <2>1
<1>3. Follows(cloud[t], IdleFlow)
  BY IdleFollows
<1> QED
  BY <1>1, <1>2, <1>3, SoleFacts DEF SoleMoved

\* A conflict that is not retried moves the tab's only busy flow, with a warning.
LEMMA BatchConflictsSole ==
    ASSUME Inv, SoleInv, NEW f \in Flows, TabOf[f] \notin overlapped,
           BatchConflicts(f)
    PROVE  \E c, x : SoleMoved(f, c, x)
<1> DEFINE c == cloud[TabOf[f]]
<1>1. /\ c.pending # NoRequest /\ Recorded(c.pending) = {} /\ c.pending.base < Version
      /\ Tracks(TabOf[f], c) /\ GoodState(c)
  BY SoleFacts, FlowFacts DEF BatchConflicts, Answered, Follows
<1>2. Warned(TabOf[f], c, TRUE)
  BY <1>1, OvertakenWarned DEF Inv
<1> QED
  BY <1>2, GiveUpSole DEF BatchConflicts, ReportConflict

\* A change that cannot be carried over moves the tab's only busy flow, with a warning.
LEMMA RebaseFailsSole ==
    ASSUME Inv, SoleInv, NEW f \in Flows, TabOf[f] \notin overlapped,
           RebaseFails(f)
    PROVE  \E c, x : SoleMoved(f, c, x)
<1> DEFINE c == cloud[TabOf[f]]
<1>1. /\ c.pending # NoRequest /\ Recorded(c.pending) = {} /\ c.pending.base < Version
      /\ Tracks(TabOf[f], c) /\ GoodState(c)
  BY SoleFacts, FlowFacts DEF RebaseFails, Follows
<1>2. Warned(TabOf[f], c, TRUE)
  BY <1>1, OvertakenWarned DEF Inv
<1> QED
  BY <1>2, GiveUpSole DEF RebaseFails, ReportConflict

\* A checkpoint moves the tab's only busy flow, with a warning if the versions differ.
LEMMA CreateCheckpointSole ==
    ASSUME Inv, SoleInv, NEW f \in Flows, TabOf[f] \notin overlapped,
           CreateCheckpoint(f)
    PROVE  \E c, x : SoleMoved(f, c, x)
<1> DEFINE c == cloud[TabOf[f]]
<1>1. c.pending = NoRequest /\ Tracks(TabOf[f], c) /\ GoodState(c)
  BY SoleFacts, FlowFacts DEF CreateCheckpoint, Follows
<1>2. c.version # Version => Warned(TabOf[f], c, TRUE)
  BY <1>1, OvertakenWarned DEF Inv
<1> QED
  BY <1>2, GiveUpSole DEF CreateCheckpoint, ReportConflict

\* A step that changes the flow only.
LEMMA SameTabSole ==
    ASSUME Inv, SoleInv, NEW f \in Flows, TabOf[f] \notin overlapped,
           NEW x, Follows(cloud[TabOf[f]], x),
           flow' = [flow EXCEPT ![f] = x], UNCHANGED <<log, canvas, cloud, conflict>>,
           inflight' \subseteq inflight \cup {cloud[TabOf[f]].pending},
           cloud[TabOf[f]].pending = NoRequest => inflight' = inflight
    PROVE  \E c, z : SoleMoved(f, c, z)
<1> DEFINE t == TabOf[f]
           c == cloud[t]
<1>1. cloud' = [cloud EXCEPT ![t] = c] /\ conflict' = [conflict EXCEPT ![t] = conflict[t]]
  BY DEF Inv, ShapeInv
<1>2. /\ Tracks(t, c) /\ Warned(t, c, conflict[t]) /\ GoodState(c)
      /\ \A q \in inflight : Accounted(t, c, q)
  BY SoleFacts, FlowFacts
<1>3. c.pending # NoRequest => c.pending.tab = t /\ Accounted(t, c, c.pending)
  <2> SUFFICES ASSUME c.pending # NoRequest
               PROVE  c.pending.tab = t /\ Accounted(t, c, c.pending)
    OBVIOUS
  <2>1. /\ c.pending.tab = t /\ c.pending.life = c.life /\ c.pending.serial < c.serial
        /\ c.pending.base = c.version /\ c.version <= Version /\ c.life \in Nat
    BY <1>2, StateFacts DEF Tracks
  <2> QED
    BY <2>1 DEF Accounted
<1>4. \A q \in inflight' : Accounted(t, c, q) /\ (q \in inflight \/ q.tab = t)
  BY <1>2, <1>3
<1> QED
  BY <1>1, <1>2, <1>4 DEF SoleMoved

\* Starting a save or a checkpoint moves the tab's only busy flow.
LEMMA StartFlowSole ==
    ASSUME Inv, SoleInv, NEW f \in Flows, TabOf[f] \notin overlapped,
           NEW kind, NEW next \in {"preparing", "checkpointing"},
           StartFlow(f, kind, next)
    PROVE  \E c, x : SoleMoved(f, c, x)
<1> DEFINE t == TabOf[f]
           c == cloud[t]
           begun == [IdleFlow EXCEPT !.kind = kind, !.target = canvas[t]]
           sent == [begun EXCEPT !.pc = "sent", !.request = c.pending, !.answer = NoAnswer]
           ready == [begun EXCEPT !.pc = next]
<1>1. Anchored(canvas[t]) /\ UNCHANGED <<log, canvas, cloud, conflict>>
  BY SoleFacts DEF StartFlow
<1>2. CASE c.pending # NoRequest
  <2>1. flow' = [flow EXCEPT ![f] = sent] /\ inflight' = inflight \cup {c.pending}
    BY <1>2 DEF StartFlow, Post
  <2>2. /\ sent.pc = "sent" /\ sent.request = c.pending /\ sent.stage = "leftover"
        /\ sent.target = canvas[t] /\ sent.answer = NoAnswer
    BY DEF IdleFlow
  <2> HIDE DEF sent
  <2>3. Follows(c, sent)
    BY <1>1, <1>2, <2>2 DEF Follows, NoAnswer
  <2> QED
    BY <1>1, <1>2, <2>1, <2>3, SameTabSole
<1>3. CASE c.pending = NoRequest
  <2>1. flow' = [flow EXCEPT ![f] = ready] /\ inflight' = inflight
    BY <1>3 DEF StartFlow
  <2>2. ready.pc = next /\ ready.target = canvas[t]
    BY DEF IdleFlow
  <2> HIDE DEF ready
  <2>3. Follows(c, ready)
    BY <1>1, <1>3, <2>2 DEF Follows
  <2> QED
    BY <1>1, <2>1, <2>3, SameTabSole
<1> QED
  BY <1>2, <1>3

\* Starting to catch up moves the tab's only busy flow.
LEMMA CatchUpSole ==
    ASSUME Inv, SoleInv, NEW f \in Flows, TabOf[f] \notin overlapped,
           CatchUp(f)
    PROVE  \E c, x : SoleMoved(f, c, x)
<1> DEFINE c == cloud[TabOf[f]]
           x == [flow[f] EXCEPT !.pc = "catching", !.request = c.pending,
                                !.after = c.version, !.answer = NoAnswer]
<1>1. flow' = [flow EXCEPT ![f] = x] /\ UNCHANGED <<log, canvas, cloud, conflict, inflight>>
  BY DEF CatchUp
<1>2. Follows(c, flow[f]) /\ flow[f] \in FlowState /\ flow[f].pc = "sent" /\ flow[f].answer.result = "conflict"
  BY SoleFacts, FlowFacts DEF CatchUp, Answered
<1>3. /\ x.pc = "catching" /\ x.request = flow[f].request /\ x.stage = flow[f].stage
      /\ x.target = flow[f].target /\ x.rest = flow[f].rest
  BY <1>2 DEF FlowState, Follows
<1> HIDE DEF x
<1>4. Follows(c, x)
  BY <1>2, <1>3 DEF Follows
<1> QED
  BY <1>1, <1>4, SameTabSole

\* Reading the version of the project moves the tab's only busy flow.
LEMMA ReadHeadSole ==
    ASSUME Inv, SoleInv, NEW f \in Flows, TabOf[f] \notin overlapped,
           ReadHead(f)
    PROVE  \E c, x : SoleMoved(f, c, x)
<1> DEFINE c == cloud[TabOf[f]]
           x == [flow[f] EXCEPT !.pc = "reading", !.head = Version]
<1>1. flow' = [flow EXCEPT ![f] = x] /\ UNCHANGED <<log, canvas, cloud, conflict, inflight>>
  BY FlowFacts DEF ReadHead, FlowState, Inv, ShapeInv
<1>2. Follows(c, flow[f]) /\ flow[f] \in FlowState /\ flow[f].pc = "catching" /\ Tracks(TabOf[f], c)
  BY SoleFacts, FlowFacts DEF ReadHead
<1>3. /\ x.pc = "reading" /\ x.request = flow[f].request /\ x.stage = flow[f].stage
      /\ x.target = flow[f].target /\ x.rest = flow[f].rest /\ x.head = Version
  BY <1>2 DEF FlowState
<1> HIDE DEF x
<1>4. Follows(c, x)
  BY <1>2, <1>3 DEF Follows, Tracks
<1> QED
  BY <1>1, <1>4, SameTabSole

\* A request that was drafted on the newest state of its tab is applied to what
\* the tab has for saved as the server applied it to the version before.
LEMMA AdvancedSole ==
    ASSUME Inv, SoleInv, NEW f \in Flows, TabOf[f] \notin overlapped,
           Answered(f, "accepted")
    PROVE  /\ Tracks(TabOf[f], Advanced(f)) /\ Advanced(f).pending = NoRequest
           /\ \A q \in inflight : Accounted(TabOf[f], Advanced(f), q)
           /\ Warned(TabOf[f], Advanced(f), conflict[TabOf[f]])
           /\ Advanced(f).baseline = flow[f].request.target
           /\ flow[f].request.target \in Graphs
<1> DEFINE t == TabOf[f]
           c == cloud[t]
           v == flow[f].answer.version
           p == c.pending
           d == Advanced(f)
<1>1. /\ c.pending # NoRequest /\ flow[f].request = p /\ v \in Recorded(p)
      /\ Tracks(t, c) /\ c \in State /\ GoodState(c)
      /\ \A q \in inflight : Accounted(t, c, q)
      /\ Warned(t, c, conflict[t])
  BY SoleFacts, FlowFacts DEF Answered, Follows
<1>2. /\ p \in Request /\ p.base = c.version /\ p.ops \in Ops /\ p.target \in Graphs
      /\ c.version \in Nat /\ c.loaded \in Nat /\ c.serial \in Nat /\ c.life \in Nat
      /\ c.baseline \in Graphs
  BY <1>1, StateFacts
<1>3. /\ log[v].ops = p.ops /\ v = c.version + 1 /\ v \in 1..Version /\ Version \in Nat
      /\ p.tab = t /\ p.life = c.life
      /\ p.target = Applied(c.baseline, p.ops) /\ c.loaded <= c.version
      /\ SameRequest(log[v], p)
  <2>1. v \in 1..Version /\ SameRequest(log[v], p) /\ Version \in Nat
    BY <1>1, LogFacts DEF Recorded, Inv
  <2>2. /\ log[v].ops = p.ops /\ v = p.base + 1 /\ p.tab = t /\ p.life = c.life
        /\ p.target = Applied(c.baseline, p.ops) /\ c.loaded <= c.version
    BY <1>1 DEF Tracks
  <2> QED
    BY <1>2, <2>1, <2>2
<1>4. /\ d.life = c.life /\ d.loaded = c.loaded /\ d.version = v /\ d.baseline = p.target
      /\ d.pending = NoRequest /\ d.serial = c.serial
  BY <1>1 DEF Advanced, State
<1>5. GraphAt(v) = Applied(GraphAt(v - 1), p.ops) /\ v - 1 = c.version
  <2>1. v # 0 /\ v - 1 = c.version
    BY <1>2, <1>3
  <2>2. log[v].result = Applied(GraphAt(v - 1), log[v].ops)
    BY <1>3 DEF SoleInv, LogChain
  <2> QED
    BY <1>3, <2>1, <2>2 DEF GraphAt
<1> HIDE DEF d
<1>6. Explained(t, d)
  <2> SUFFICES ASSUME NEW x \in Entities
               PROVE  \/ p.target[x] = GraphAt(v)[x]
                      \/ \E w \in c.loaded + 1 .. v :
                            ~Own(w, t, c.life) /\ GraphAt(w)[x] # GraphAt(w - 1)[x]
    BY <1>4 DEF Explained
  <2>1. \/ c.baseline[x] = GraphAt(c.version)[x]
        \/ \E w \in c.loaded + 1 .. c.version :
              ~Own(w, t, c.life) /\ GraphAt(w)[x] # GraphAt(w - 1)[x]
    BY <1>1 DEF Tracks, Explained
  <2>2. CASE c.baseline[x] = GraphAt(c.version)[x]
    <3>1. /\ p.target = Applied(c.baseline, p.ops)
          /\ GraphAt(v) = Applied(GraphAt(c.version), p.ops)
      BY <1>3, <1>5
    <3>2. Applied(c.baseline, p.ops)[x] = Applied(GraphAt(c.version), p.ops)[x]
      BY <2>2 DEF Applied
    <3> QED
      BY <3>1, <3>2
  <2>3. ASSUME NEW w \in c.loaded + 1 .. c.version
        PROVE  w \in c.loaded + 1 .. v
    BY <1>2, <1>3
  <2> QED
    BY <2>1, <2>2, <2>3
<1>7. \A w \in v + 1 .. Version : ~Own(w, t, c.life)
  <2> SUFFICES ASSUME NEW w \in v + 1 .. Version, Own(w, t, c.life) PROVE FALSE
    OBVIOUS
  <2>1. w \in c.version + 1 .. Version /\ w \in 1..Version /\ w # v
    BY <1>2, <1>3
  <2>2. SameRequest(log[w], p)
    BY <1>1, <2>1 DEF Tracks
  <2>3. w = p.base + 1
    BY <1>1, <2>1, <2>2 DEF Tracks, Recorded
  <2> QED
    BY <1>2, <1>3, <2>1, <2>3
<1>8. Tracks(t, d)
  <2>1. c.loaded <= v /\ v <= Version
    BY <1>2, <1>3
  <2> QED
    BY <1>1, <1>4, <1>6, <1>7, <2>1 DEF Tracks
<1>9. \A q \in inflight : Accounted(t, d, q)
  <2>1. Spent(p)
    BY <1>1 DEF Spent
  <2> QED
    BY <1>1, <1>4, <2>1 DEF Accounted
<1>10. Warned(t, d, conflict[t])
  BY <1>1, <1>4 DEF Warned
<1> QED
  BY <1>1, <1>2, <1>4, <1>8, <1>9, <1>10 DEF d

\* The acceptance of a request left over by an earlier save moves the tab's only busy flow.
LEMMA LeftoverAcceptedSole ==
    ASSUME Inv, SoleInv, NEW f \in Flows, TabOf[f] \notin overlapped,
           LeftoverAccepted(f)
    PROVE  \E c, x : SoleMoved(f, c, x)
<1> DEFINE d == Advanced(f)
           x == [IdleFlow EXCEPT !.kind = flow[f].kind, !.target = flow[f].target,
                    !.pc = IF flow[f].kind = "save" THEN "preparing" ELSE "checkpointing"]
<1>1. /\ cloud' = [cloud EXCEPT ![TabOf[f]] = d] /\ flow' = [flow EXCEPT ![f] = x]
      /\ UNCHANGED <<log, canvas, conflict, inflight>> /\ Answered(f, "accepted")
  BY DEF LeftoverAccepted
<1>2. x.pc \in {"preparing", "checkpointing"} /\ x.target = flow[f].target
  BY DEF IdleFlow
<1>3. Anchored(flow[f].target)
  BY <1>1, SoleFacts DEF Answered, Follows
<1>4. d.pending = NoRequest
  BY <1>1, AdvancedSole
<1> HIDE DEF x
<1>5. Follows(d, x)
  BY <1>2, <1>3, <1>4 DEF Follows
<1>6. conflict' = [conflict EXCEPT ![TabOf[f]] = conflict[TabOf[f]]]
  BY <1>1 DEF Inv, ShapeInv
<1> QED
  BY <1>1, <1>5, <1>6, AdvancedSole DEF SoleMoved

\* The acceptance of the last batch moves the tab's only busy flow.
LEMMA LastBatchAcceptedSole ==
    ASSUME Inv, SoleInv, NEW f \in Flows, TabOf[f] \notin overlapped,
           LastBatchAccepted(f)
    PROVE  \E c, x : SoleMoved(f, c, x)
<1> DEFINE d == [Advanced(f) EXCEPT !.baseline = flow[f].target]
<1>1. /\ cloud' = [cloud EXCEPT ![TabOf[f]] = d] /\ flow' = [flow EXCEPT ![f] = IdleFlow]
      /\ conflict' = [conflict EXCEPT ![TabOf[f]] = FALSE]
      /\ UNCHANGED <<log, canvas, inflight>> /\ Answered(f, "accepted")
      /\ flow[f].stage = "batch" /\ DOMAIN flow[f].rest = {}
  BY DEF LastBatchAccepted, SaveDone
<1>2. flow[f].target \in Graphs /\ flow[f].request.target \in Graphs
  BY <1>1, FlowFacts, AdvancedSole DEF FlowState
<1>3. \A y \in Entities : flow[f].target[y] = flow[f].request.target[y]
  BY <1>1, SoleFacts DEF Follows, Answered
<1>4. flow[f].target = flow[f].request.target
  BY <1>2, <1>3 DEF Graphs
<1>5. d = Advanced(f)
  <2>1. Advanced(f) \in State
    BY <1>1, AdvancedGood DEF Answered, GoodState
  <2>2. Advanced(f).baseline = flow[f].target
    BY <1>1, <1>4, AdvancedSole
  <2> QED
    BY <2>1, <2>2 DEF State
<1>6. Follows(d, IdleFlow) /\ Warned(TabOf[f], d, FALSE)
  BY IdleFollows DEF Warned
<1> HIDE DEF d
<1> QED
  BY <1>1, <1>5, <1>6, AdvancedSole DEF SoleMoved

\* The next batch of a save: what is left after it is what the target still has
\* to change.
LEMMA PostBatchSole ==
    ASSUME Inv, SoleInv, NEW f \in Flows, TabOf[f] \notin overlapped,
           NEW c, GoodState(c), Tracks(TabOf[f], c),
           c.pending = NoRequest, NEW ops \in Ops, PostBatch(f, c, ops, flow[f]),
           \A q \in inflight : Accounted(TabOf[f], c, q),
           Warned(TabOf[f], c, conflict[TabOf[f]]),
           flow[f].pc # "idle",
           \A y \in Entities :
              flow[f].target[y] = IF y \in DOMAIN ops THEN ops[y] ELSE c.baseline[y],
           UNCHANGED <<log, canvas, conflict>>
    PROVE  \E d, x : SoleMoved(f, d, x)
<1> DEFINE t == TabOf[f]
           g == flow[f].target
<1>1. PICK B \in Batches(ops) :
        LET r == [tab |-> t, life |-> c.life, serial |-> c.serial,
                  loaded |-> c.loaded, drafted |-> c.version,
                  base |-> c.version, ops |-> Only(ops, B),
                  target |-> Applied(c.baseline, Only(ops, B))]
        IN  /\ cloud' = [cloud EXCEPT ![t] = [c EXCEPT !.pending = r, !.serial = @ + 1]]
            /\ Post(f, r, [flow[f] EXCEPT !.stage = "batch", !.mayRebase = TRUE,
                                          !.rest = Only(ops, DOMAIN ops \ B)])
  BY DEF PostBatch
<1> DEFINE r == [tab |-> t, life |-> c.life, serial |-> c.serial,
                 loaded |-> c.loaded, drafted |-> c.version,
                 base |-> c.version, ops |-> Only(ops, B),
                 target |-> Applied(c.baseline, Only(ops, B))]
           d == [c EXCEPT !.pending = r, !.serial = @ + 1]
           x == [flow[f] EXCEPT !.stage = "batch", !.mayRebase = TRUE,
                                !.rest = Only(ops, DOMAIN ops \ B), !.pc = "sent",
                                !.request = r, !.answer = NoAnswer]
<1>2. /\ c \in State /\ flow[f] \in FlowState /\ t \in Tabs /\ Version \in Nat
      /\ c.life \in Nat /\ c.loaded \in Nat /\ c.version \in Nat /\ c.serial \in Nat
      /\ c.baseline \in Graphs /\ c.loaded <= c.version /\ c.version <= Version
  BY FlowFacts, StateFacts DEF GoodState, Tracks
<1>3. B \in SUBSET DOMAIN ops /\ DOMAIN ops \ B \in SUBSET DOMAIN ops
  BY DEF Batches
<1>4. Only(ops, B) \in Ops
  BY <1>3, OnlyType
<1>5. /\ cloud' = [cloud EXCEPT ![t] = d] /\ flow' = [flow EXCEPT ![f] = x]
      /\ inflight' = inflight \cup {r}
  BY <1>1 DEF Post
<1>6. r # NoRequest
  <2>1. Applied(c.baseline, Only(ops, B)) \in Graphs
    BY <1>2, <1>4, AppliedType
  <2>2. r \in Request
    BY <1>2, <1>4, <2>1 DEF Request, Ops, Contents
  <2> QED
    BY <2>2, SoleFacts
<1>7. /\ r.tab = t /\ r.life = c.life /\ r.serial = c.serial /\ r.base = c.version
      /\ r.ops = Only(ops, B) /\ r.target = Applied(c.baseline, Only(ops, B))
  OBVIOUS
<1> HIDE DEF r
<1>8. /\ d.life = c.life /\ d.loaded = c.loaded /\ d.version = c.version
      /\ d.baseline = c.baseline /\ d.pending = r /\ d.serial = c.serial + 1
  BY <1>2 DEF State
<1>9. /\ x.pc = "sent" /\ x.request = r /\ x.stage = "batch" /\ x.target = g
      /\ x.rest = Only(ops, DOMAIN ops \ B) /\ x.answer = NoAnswer
  BY <1>2 DEF FlowState
<1> HIDE DEF d, x
<1>10. Recorded(r) = {}
  BY <1>2, <1>7, LogFacts DEF Recorded, Tracks, Own, SameRequest, Inv
<1>11. Tracks(t, d)
  <2>1. \A w \in 1..Version : Own(w, t, d.life) => log[w].serial < d.serial
    <3> TAKE w \in 1..Version
    <3>1. log[w].serial \in Nat /\ (Own(w, t, c.life) => log[w].serial < c.serial)
      BY LogFacts DEF Inv, Tracks
    <3> QED
      BY <1>2, <1>8, <3>1
  <2>2. \A w \in d.version + 1 .. Version : ~Own(w, t, d.life)
    BY <1>8 DEF Tracks
  <2>3. Explained(t, d)
    BY <1>8 DEF Tracks, Explained
  <2>4. d.pending.serial < d.serial
    BY <1>2, <1>7, <1>8
  <2> QED
    BY <1>2, <1>7, <1>8, <1>10, <2>1, <2>2, <2>3, <2>4 DEF Tracks
<1>12. \A q \in inflight' : Accounted(t, d, q) /\ (q \in inflight \/ q.tab = t)
  <2> TAKE q \in inflight'
  <2>1. CASE q = r
    BY <1>2, <1>6, <1>7, <1>8, <2>1 DEF Accounted
  <2>2. CASE q # r
    <3>1. q \in inflight
      BY <1>5, <2>2
    <3>2. Accounted(t, c, q) /\ q.serial \in Nat
      BY <3>1 DEF Inv, TabsInv, Sound, Request
    <3>3. q.serial < c.serial => q.serial < d.serial
      BY <1>2, <1>8, <3>2
    <3> QED
      BY <1>8, <3>1, <3>2, <3>3 DEF Accounted
  <2> QED
    BY <2>1, <2>2
<1>13. Anchored(g)
  BY SoleFacts DEF Follows
<1>14. ASSUME NEW y \in Entities
       PROVE  g[y] = IF y \in DOMAIN x.rest THEN x.rest[y] ELSE r.target[y]
  <2> DEFINE rest == Only(ops, DOMAIN ops \ B)
             now == Only(ops, B)
  <2>1. /\ DOMAIN rest = DOMAIN ops \ B /\ DOMAIN now = B
        /\ \A z \in DOMAIN ops \ B : rest[z] = ops[z]
        /\ \A z \in B : now[z] = ops[z]
    BY <1>3 DEF Only
  <2> HIDE DEF rest, now
  <2>2. CASE y \in DOMAIN ops \ B
    BY <1>9, <2>1, <2>2 DEF rest
  <2>3. CASE y \in B
    <3>1. Applied(c.baseline, now)[y] = ops[y]
      BY <2>1, <2>3 DEF Applied
    <3> QED
      BY <1>3, <1>7, <1>9, <2>1, <2>3, <3>1 DEF rest, now
  <2>4. CASE y \notin DOMAIN ops
    <3>1. r.target[y] = IF y \in Edges /\ \E n \in Ends[y] \cap B : now[n] = Gone
                        THEN Gone ELSE c.baseline[y]
      BY <1>3, <1>7, <2>1, <2>4 DEF Applied, now
    <3>2. ASSUME y \in Edges, NEW n \in Ends[y] \cap B, now[n] = Gone
          PROVE  g[y] = Gone
      <4>1. n \in Entities /\ n \in DOMAIN ops
        BY <1>3, <3>2, GraphAssumption DEF Entities
      <4>2. g[n] = Gone
        BY <2>1, <3>2, <4>1
      <4> QED
        BY <1>13, <3>2, <4>2 DEF Anchored
    <3> QED
      BY <1>3, <1>9, <2>1, <2>4, <3>1, <3>2 DEF rest
  <2> QED
    BY <2>2, <2>3, <2>4
<1>15. Follows(d, x)
  BY <1>6, <1>8, <1>9, <1>13, <1>14 DEF Follows, NoAnswer
<1>16. /\ Warned(t, d, conflict[t]) /\ conflict' = [conflict EXCEPT ![t] = conflict[t]]
  BY <1>8 DEF Warned, Inv, ShapeInv
<1> QED
  BY <1>5, <1>11, <1>12, <1>15, <1>16 DEF SoleMoved

\* Sending the differences moves the tab's only busy flow.
LEMMA SendChangesSole ==
    ASSUME Inv, SoleInv, NEW f \in Flows, TabOf[f] \notin overlapped,
           SendChanges(f)
    PROVE  \E c, x : SoleMoved(f, c, x)
<1> DEFINE t == TabOf[f]
           c == cloud[t]
           g == flow[f].target
           ops == Diff(c.baseline, g)
<1>1. /\ UNCHANGED <<log, canvas>> /\ flow[f].pc = "preparing"
      /\ c.pending = NoRequest /\ GoodState(c) /\ Tracks(t, c) /\ t \in Tabs
      /\ Warned(t, c, conflict[t]) /\ \A q \in inflight : Accounted(t, c, q)
  BY SoleFacts, FlowFacts DEF SendChanges, Follows
<1>2. CASE SaveDone(f) /\ UNCHANGED <<cloud, inflight>>
  <2>1. /\ flow' = [flow EXCEPT ![f] = IdleFlow] /\ cloud' = [cloud EXCEPT ![t] = c]
        /\ conflict' = [conflict EXCEPT ![t] = FALSE]
    BY <1>2 DEF SaveDone, Inv, ShapeInv
  <2>2. Warned(t, c, FALSE) /\ Follows(c, IdleFlow)
    BY IdleFollows DEF Warned
  <2> QED
    BY <1>1, <1>2, <2>1, <2>2 DEF SoleMoved
<1>3. CASE PostBatch(f, c, ops, flow[f]) /\ UNCHANGED conflict
  <2>1. c.baseline \in Graphs /\ g \in Graphs
    BY FlowFacts DEF State, FlowState
  <2>2. ops \in Ops /\ \A y \in Entities : g[y] = IF y \in DOMAIN ops THEN ops[y] ELSE c.baseline[y]
    BY <2>1, DiffType DEF Diff
  <2> HIDE DEF ops
  <2> QED
    BY <1>1, <1>3, <2>2, PostBatchSole
<1> QED
  BY <1>2, <1>3 DEF SendChanges

\* The acceptance of a batch that others follow moves the tab's only busy flow.
LEMMA BatchAcceptedSole ==
    ASSUME Inv, SoleInv, NEW f \in Flows, TabOf[f] \notin overlapped,
           BatchAccepted(f)
    PROVE  \E c, x : SoleMoved(f, c, x)
<1> DEFINE d == Advanced(f)
<1>1. /\ Answered(f, "accepted") /\ flow[f].stage = "batch" /\ flow[f].pc = "sent"
      /\ PostBatch(f, d, flow[f].rest, flow[f]) /\ UNCHANGED <<log, canvas, conflict>>
  BY DEF BatchAccepted, Answered
<1>2. GoodState(d) /\ flow[f].rest \in Ops
  BY <1>1, AdvancedGood, FlowFacts DEF FlowState
<1>3. \A y \in Entities :
        flow[f].target[y] = IF y \in DOMAIN flow[f].rest THEN flow[f].rest[y] ELSE d.baseline[y]
  BY <1>1, AdvancedSole, SoleFacts DEF Follows
<1> HIDE DEF d
<1>4. /\ Tracks(TabOf[f], d) /\ d.pending = NoRequest
      /\ \A q \in inflight : Accounted(TabOf[f], d, q)
      /\ Warned(TabOf[f], d, conflict[TabOf[f]])
  BY <1>1, AdvancedSole DEF d
<1> QED
  BY <1>1, <1>2, <1>3, <1>4, PostBatchSole

\* Catching up moves the version over changes of others only: a request of its
\* own between them would be the pending one, and that was overtaken.
LEMMA RebaseSole ==
    ASSUME Inv, SoleInv, NEW f \in Flows, TabOf[f] \notin overlapped,
           Rebase(f)
    PROVE  \E c, x : SoleMoved(f, c, x)
<1> DEFINE t == TabOf[f]
           c == cloud[t]
           q == flow[f].request
           h == flow[f].head
           r == [q EXCEPT !.base = h, !.serial = cloud[t].serial]
           d == [cloud[t] EXCEPT !.version = h, !.pending = r, !.serial = @ + 1]
           y == [flow[f] EXCEPT !.mayRebase = FALSE, !.after = 0, !.head = 0]
           x == [y EXCEPT !.pc = "sent", !.request = r, !.answer = NoAnswer]
<1>1. /\ cloud' = [cloud EXCEPT ![t] = d] /\ flow' = [flow EXCEPT ![f] = x]
      /\ inflight' = inflight \cup {r} /\ UNCHANGED <<log, canvas, conflict>>
      /\ flow[f].pc = "reading"
  <2>1. flow[f].pc = "reading" /\ UNCHANGED <<log, canvas, conflict>>
    BY DEF Rebase
  <2>2. cloud' = [cloud EXCEPT ![t] = d] /\ Post(f, r, y)
    BY DEF Rebase
  <2>3. flow' = [flow EXCEPT ![f] = x] /\ inflight' = inflight \cup {r}
    <3> HIDE DEF y, r
    <3> QED
      BY <2>2, Zenon DEF Post
  <2> HIDE DEF d, x, r
  <2> QED
    BY <2>1, <2>2, <2>3
<1>2. /\ c \in State /\ GoodState(c) /\ flow[f] \in FlowState /\ Version \in Nat
      /\ h <= Version /\ h \in Nat /\ Tracks(t, c) /\ Follows(c, flow[f])
      /\ Warned(t, c, conflict[t]) /\ t \in Tabs
      /\ \A p \in inflight : Accounted(t, c, p)
  BY <1>1, FlowFacts, SoleFacts DEF GoodFlow, FlowState
<1>3. /\ c.pending # NoRequest /\ q = c.pending /\ Recorded(q) = {} /\ q.base < Version
      /\ c.version <= h /\ Anchored(flow[f].target)
      /\ flow[f].stage = "batch" => \A z \in Entities : flow[f].target[z] =
            IF z \in DOMAIN flow[f].rest THEN flow[f].rest[z] ELSE q.target[z]
  BY <1>1, <1>2 DEF Follows
<1>4. /\ q \in Request /\ q.base = c.version /\ c.version \in Nat /\ c.loaded \in Nat
      /\ c.serial \in Nat /\ c.life \in Nat /\ c.loaded <= c.version /\ q.tab = t
      /\ q.life = c.life /\ q.target = Applied(c.baseline, q.ops)
  BY <1>2, <1>3, StateFacts DEF Tracks
<1>5. /\ r.tab = t /\ r.life = c.life /\ r.serial = c.serial /\ r.base = h
      /\ r.ops = q.ops /\ r.target = q.target /\ r \in Request
  BY <1>2, <1>4 DEF Request
<1> HIDE DEF r
<1>6. r # NoRequest
  BY <1>5, SoleFacts
<1>7. /\ d.life = c.life /\ d.loaded = c.loaded /\ d.version = h
      /\ d.baseline = c.baseline /\ d.pending = r /\ d.serial = c.serial + 1
  BY <1>2 DEF State
<1>8. /\ x.pc = "sent" /\ x.request = r /\ x.stage = flow[f].stage /\ x.target = flow[f].target
      /\ x.rest = flow[f].rest /\ x.answer = NoAnswer
  BY <1>2 DEF FlowState
<1> HIDE DEF d, x, y
<1>9. Recorded(r) = {}
  BY <1>2, <1>5, LogFacts DEF Recorded, Tracks, Own, SameRequest, Inv
<1>10. \A w \in c.version + 1 .. Version : ~Own(w, t, c.life)
  <2> SUFFICES ASSUME NEW w \in c.version + 1 .. Version, Own(w, t, c.life) PROVE FALSE
    OBVIOUS
  <2>1. SameRequest(log[w], q) /\ w \in 1..Version
    BY <1>2, <1>3, <1>4 DEF Tracks
  <2> QED
    BY <1>3, <2>1 DEF Recorded
<1>11. Explained(t, d)
  <2> SUFFICES ASSUME NEW z \in Entities
               PROVE  \/ c.baseline[z] = GraphAt(h)[z]
                      \/ \E w \in c.loaded + 1 .. h :
                            ~Own(w, t, c.life) /\ GraphAt(w)[z] # GraphAt(w - 1)[z]
    BY <1>7 DEF Explained
  <2>1. \/ c.baseline[z] = GraphAt(c.version)[z]
        \/ \E w \in c.loaded + 1 .. c.version :
              ~Own(w, t, c.life) /\ GraphAt(w)[z] # GraphAt(w - 1)[z]
    BY <1>2 DEF Tracks, Explained
  <2>2. \/ GraphAt(c.version)[z] = GraphAt(h)[z]
        \/ \E w \in c.version + 1 .. h : GraphAt(w)[z] # GraphAt(w - 1)[z]
    <3>1. h \in 0..Version /\ c.version \in 0..h
      BY <1>2, <1>3, <1>4
    <3> QED
      BY <3>1 DEF SoleInv, LogChain
  <2>3. ASSUME NEW w \in c.loaded + 1 .. c.version
        PROVE  w \in c.loaded + 1 .. h
    BY <1>2, <1>3, <1>4
  <2>4. ASSUME NEW w \in c.version + 1 .. h
        PROVE  w \in c.loaded + 1 .. h /\ ~Own(w, t, c.life)
    BY <1>2, <1>3, <1>4, <1>10
  <2> QED
    BY <2>1, <2>2, <2>3, <2>4
<1>12. Tracks(t, d)
  <2>1. \A w \in 1..Version : Own(w, t, d.life) => log[w].serial < d.serial
    <3> TAKE w \in 1..Version
    <3>1. log[w].serial \in Nat /\ (Own(w, t, c.life) => log[w].serial < c.serial)
      BY <1>2, LogFacts DEF Inv, Tracks
    <3> QED
      BY <1>4, <1>7, <3>1
  <2>2. \A w \in d.version + 1 .. Version : ~Own(w, t, d.life)
    BY <1>2, <1>3, <1>4, <1>7, <1>10
  <2>3. d.pending.serial < d.serial /\ d.loaded <= d.version
    BY <1>2, <1>3, <1>4, <1>5, <1>7
  <2> QED
    BY <1>2, <1>4, <1>5, <1>7, <1>9, <1>11, <2>1, <2>2, <2>3 DEF Tracks
<1>13. \A p \in inflight' : Accounted(t, d, p) /\ (p \in inflight \/ p.tab = t)
  <2> TAKE p \in inflight'
  <2>1. CASE p = r
    BY <1>2, <1>4, <1>5, <1>6, <1>7, <2>1 DEF Accounted
  <2>2. CASE p # r
    <3>1. p \in inflight
      BY <1>1, <2>2
    <3>2. Accounted(t, c, p) /\ p.serial \in Nat
      BY <1>2, <3>1 DEF Inv, TabsInv, Sound, Request
    <3>3. p.serial < c.serial => p.serial < d.serial
      BY <1>4, <1>7, <3>2
    <3>4. p = c.pending => Spent(p)
      BY <1>3 DEF Spent
    <3> QED
      BY <1>7, <3>1, <3>2, <3>3, <3>4 DEF Accounted
  <2> QED
    BY <2>1, <2>2
<1>14. Follows(d, x)
  BY <1>3, <1>5, <1>6, <1>7, <1>8 DEF Follows, NoAnswer
<1>15. /\ Warned(t, d, conflict[t]) /\ conflict' = [conflict EXCEPT ![t] = conflict[t]]
  BY <1>1, <1>2, <1>7 DEF Warned, Inv, ShapeInv
<1> QED
  BY <1>1, <1>12, <1>13, <1>14, <1>15 DEF SoleMoved

\* Every step of a flow moves the tab's only busy flow.
LEMMA FlowSole ==
    ASSUME Inv, SoleInv, NEW f \in Flows, TabOf[f] \notin overlapped,
          
           StartSave(f) \/ StartCheckpoint(f) \/ FlowStep(f) \/ LoseAnswer(f)
    PROVE  \E c, x : SoleMoved(f, c, x)
<1>1. CASE StartSave(f) \/ StartCheckpoint(f)
  BY <1>1, StartFlowSole DEF StartSave, StartCheckpoint
<1>2. CASE LoseAnswer(f) \/ BatchRefused(f)
  BY <1>2, GiveUpSole DEF LoseAnswer, BatchRefused
<1> QED
  BY <1>1, <1>2, BatchConflictsSole, RebaseFailsSole, CreateCheckpointSole, CatchUpSole,
     ReadHeadSole, LeftoverAcceptedSole, LastBatchAcceptedSole, SendChangesSole,
     BatchAcceptedSole, RebaseSole DEF FlowStep

\* The user edits: an edge needs its nodes, and loses them with the deletion.
LEMMA EditSole ==
    ASSUME Inv, SoleInv, NEW t \in Tabs, Edit(t)
    PROVE  SoleInv'
<1>1. UNCHANGED <<log, cloud, conflict, flow, inflight, overlapped>>
  BY DEF Edit
<1>2. ASSUME NEW s \in Tabs PROVE Anchored(canvas'[s])
  <2>1. PICK x \in Entities, v \in Contents :
          /\ x \in Edges /\ v # Gone => \A n \in Ends[x] : canvas[t][n] # Gone
          /\ canvas' = [canvas EXCEPT ![t] = Applied(canvas[t], [y \in {x} |-> v])]
    BY DEF Edit, Contents
  <2> DEFINE ops == [y \in {x} |-> v]
  <2>2. Anchored(Applied(canvas[t], ops))
    <3> SUFFICES ASSUME NEW e \in Edges, Applied(canvas[t], ops)[e] # Gone, NEW n \in Ends[e]
                 PROVE  Applied(canvas[t], ops)[n] # Gone
      BY DEF Anchored
    <3>1. n \in Nodes /\ n \notin Edges /\ e \in Entities /\ n \in Entities /\ e \notin Nodes
      BY GraphAssumption DEF Entities
    <3>2. DOMAIN ops = {x} /\ ops[x] = v
      OBVIOUS
    <3> HIDE DEF ops
    <3>3. Applied(canvas[t], ops)[n] = IF n = x THEN v ELSE canvas[t][n]
      BY <3>1, <3>2 DEF Applied
    <3>4. CASE e = x
      <4>1. v # Gone /\ n # x
        BY <3>1, <3>2, <3>4 DEF Applied
      <4> QED
        BY <2>1, <3>3, <3>4, <4>1
    <3>5. CASE e # x
      <4>1. canvas[t][e] # Gone /\ ~(n = x /\ v = Gone)
        BY <3>1, <3>2, <3>5 DEF Applied
      <4>2. canvas[t][n] # Gone
        BY <4>1 DEF SoleInv, Anchored
      <4> QED
        BY <3>3, <4>1, <4>2
    <3> QED
      BY <3>4, <3>5
  <2> HIDE DEF ops
  <2>3. canvas' = [canvas EXCEPT ![t] = Applied(canvas[t], ops)]
    BY <2>1 DEF ops
  <2>4. canvas'[s] = IF s = t THEN Applied(canvas[t], ops) ELSE canvas[s]
    BY <2>3 DEF Inv, ShapeInv
  <2> QED
    BY <2>2, <2>4 DEF SoleInv
<1>3. LogChain' /\ \A s \in Tabs \ overlapped :
          /\ Tracks(s, cloud[s])' /\ Warned(s, cloud[s], conflict[s])'
          /\ \A q \in inflight' : Accounted(s, cloud[s], q)'
  BY <1>1, SameLogSole, SameLogChain DEF SoleInv
<1>4. \A f \in Flows : TabOf[f] \notin overlapped => Follows(cloud[TabOf[f]], flow[f])'
  BY <1>1, SameLogSole DEF SoleInv
<1>5. \A s \in Tabs : Anchored(canvas[s])'
  BY <1>2 DEF Anchored
<1> QED
  BY <1>1, <1>3, <1>4, <1>5 DEF SoleInv

\* A loaded tab has the latest graph and begins a life in which it has written
\* and sent nothing.
LEMMA LoadSole ==
    ASSUME Inv, LifeInv, SoleInv, NEW t \in Tabs, LoadProject(t)
    PROVE  SoleInv'
<1> DEFINE c == [life |-> cloud[t].life + 1, loaded |-> Version, version |-> Version,
                 baseline |-> Graph, pending |-> NoRequest, serial |-> 0]
<1>1. /\ UNCHANGED <<log, inflight>> /\ canvas' = [canvas EXCEPT ![t] = Graph]
      /\ conflict' = [conflict EXCEPT ![t] = FALSE]
      /\ flow' = [f \in Flows |-> IF TabOf[f] = t THEN IdleFlow ELSE flow[f]]
      /\ cloud' = [cloud EXCEPT ![t] = c] /\ overlapped' = overlapped \ {t}
  BY DEF LoadProject
<1>2. Version \in Nat /\ cloud[t].life \in Nat
  BY LogFacts, StateFacts DEF Inv, TabsInv
<1>3. /\ c.life = cloud[t].life + 1 /\ c.loaded = Version /\ c.version = Version
      /\ c.baseline = Graph /\ c.pending = NoRequest /\ c.serial = 0
  OBVIOUS
<1> HIDE DEF c
<1>4. \A w \in 1..Version : log[w].tab = t => log[w].life < c.life
  <2> TAKE w \in 1..Version
  <2>1. log[w].life \in Nat /\ (log[w].tab = t => log[w].life <= cloud[t].life)
    BY LogFacts DEF Inv, Entry, LifeInv
  <2> QED
    BY <1>2, <1>3, <2>1
<1>5. \A w \in 1..Version : ~Own(w, t, c.life) /\ (log[w].tab = t => log[w].life <= c.life)
  <2> TAKE w \in 1..Version
  <2>1. log[w] \in Entry
    BY LogFacts DEF Inv
  <2>2. log[w].life \in Nat /\ c.life \in Nat
    BY <1>2, <1>3, <2>1 DEF Entry
  <2> QED
    BY <1>4, <2>2 DEF Own
<1>6. Tracks(t, c)
  <2>1. Explained(t, c)
    BY <1>3 DEF Explained, Graph
  <2>2. \A w \in c.version + 1 .. Version : FALSE
    BY <1>2, <1>3
  <2> QED
    BY <1>2, <1>3, <1>5, <2>1, <2>2 DEF Tracks
<1>7. \A q \in inflight : Accounted(t, c, q)
  <2> TAKE q \in inflight
  <2>1. q.life \in Nat /\ (q.tab = t => q.life <= cloud[t].life)
    BY DEF LifeInv, Inv, TabsInv, Sound, Request
  <2>2. q.tab = t => q.life < c.life
    BY <1>2, <1>3, <2>1
  <2> QED
    BY <1>2, <1>3, <2>1, <2>2 DEF Accounted
<1>8. ASSUME NEW s \in Tabs \ overlapped'
      PROVE  /\ Tracks(s, cloud'[s]) /\ Warned(s, cloud'[s], conflict'[s])
             /\ \A q \in inflight' : Accounted(s, cloud'[s], q)
  <2>1. CASE s = t
    <3>1. cloud'[s] = c /\ conflict'[s] = FALSE
      BY <1>1, <2>1 DEF Inv, ShapeInv
    <3> QED
      BY <1>1, <1>6, <1>7, <2>1, <3>1 DEF Warned
  <2>2. CASE s # t
    <3>1. s \in Tabs \ overlapped /\ cloud'[s] = cloud[s] /\ conflict'[s] = conflict[s]
      BY <1>1, <2>2 DEF Inv, ShapeInv
    <3> QED
      BY <1>1, <3>1 DEF SoleInv
  <2> QED
    BY <2>1, <2>2
<1>9. ASSUME NEW f \in Flows, TabOf[f] \notin overlapped'
      PROVE  Follows(cloud'[TabOf[f]], flow'[f])
  <2>1. TabOf[f] \in Tabs
    BY GraphAssumption
  <2>2. CASE TabOf[f] = t
    BY <1>1, <2>2, IdleFollows
  <2>3. CASE TabOf[f] # t
    <3>1. /\ cloud'[TabOf[f]] = cloud[TabOf[f]] /\ flow'[f] = flow[f]
          /\ TabOf[f] \notin overlapped
      BY <1>1, <1>9, <2>1, <2>3 DEF Inv, ShapeInv
    <3> QED
      BY <3>1 DEF SoleInv
  <2> QED
    BY <2>2, <2>3
<1>10. LogChain' /\ \A s \in Tabs \ overlapped' :
          /\ Tracks(s, cloud[s])' /\ Warned(s, cloud[s], conflict[s])'
          /\ \A q \in inflight' : Accounted(s, cloud[s], q)'
  BY <1>1, <1>8, SameLogSole, SameLogChain DEF SoleInv
<1>11. \A f \in Flows : TabOf[f] \notin overlapped' => Follows(cloud[TabOf[f]], flow[f])'
  BY <1>1, <1>9, SameLogSole
<1>12. ASSUME NEW s \in Tabs PROVE Anchored(canvas[s])'
  <2>1. canvas'[s] = IF s = t THEN Graph ELSE canvas[s]
    BY <1>1 DEF Inv, ShapeInv
  <2>2. Anchored(Graph)
    BY <1>2 DEF Inv, LogInv, EdgesAnchored, Graph
  <2>3. Anchored(canvas'[s])
    BY <2>1, <2>2 DEF SoleInv
  <2> QED
    BY <2>3 DEF Anchored
<1>13. \A f, g \in Flows :
          f # g /\ TabOf[f] = TabOf[g] /\ TabOf[f] \notin overlapped' =>
             flow'[f].pc = "idle" \/ flow'[g].pc = "idle"
  <2>1. IdleFlow.pc = "idle"
    BY DEF IdleFlow
  <2> QED
    BY <1>1, <2>1 DEF SoleInv
<1> QED
  BY <1>10, <1>11, <1>12, <1>13 DEF SoleInv

\* The invariant holds at the start.
LEMMA SoleInit == Init => LifeInv /\ SoleInv
<1> SUFFICES ASSUME Init PROVE LifeInv /\ SoleInv
  OBVIOUS
<1>1. log = <<>> /\ Version = 0 /\ inflight = {}
  BY DEF Init, Version
<1>2. LogChain
  BY <1>1 DEF LogChain
<1>3. ASSUME NEW t \in Tabs
      PROVE  Anchored(canvas[t]) /\ Tracks(t, cloud[t]) /\ Warned(t, cloud[t], conflict[t])
  <2>1. /\ canvas[t] = Start /\ conflict[t] = FALSE /\ cloud[t].loaded = 0 /\ cloud[t].version = 0
        /\ cloud[t].baseline = Start /\ cloud[t].pending = NoRequest
    BY DEF Init
  <2>2. Explained(t, cloud[t])
    BY <2>1 DEF Explained, GraphAt
  <2> QED
    BY <1>1, <2>1, <2>2, GraphAssumption DEF Tracks, Warned
<1>4. \A f \in Flows : Follows(cloud[TabOf[f]], flow[f])
  BY IdleFollows DEF Init
<1>5. LifeInv
  BY <1>1, GraphAssumption DEF Init, LifeInv, OfTab, IdleFlow
<1>6. \A f \in Flows : flow[f].pc = "idle"
  BY DEF Init, IdleFlow
<1> QED
  BY <1>1, <1>2, <1>3, <1>4, <1>5, <1>6 DEF SoleInv

\* Every step keeps what relates a tab whose flows have not overlapped to the log.
LEMMA SoleStep == Inv /\ LifeInv /\ SoleInv /\ [Next]_vars => SoleInv'
<1> SUFFICES ASSUME Inv, LifeInv, SoleInv, [Next]_vars PROVE SoleInv'
  OBVIOUS
<1>1. ASSUME NEW r \in inflight, ApplyOperations(r) PROVE SoleInv'
  BY <1>1, ServerSole
<1>2. CASE UploadElsewhere \/ UNCHANGED vars
  <2>1. UNCHANGED <<log, canvas, cloud, conflict, flow, inflight, overlapped>>
    BY <1>2 DEF UploadElsewhere, vars
  <2>2. LogChain' /\ \A s \in Tabs \ overlapped :
            /\ Tracks(s, cloud[s])' /\ Warned(s, cloud[s], conflict[s])'
            /\ \A q \in inflight' : Accounted(s, cloud[s], q)'
    BY <2>1, SameLogSole, SameLogChain DEF SoleInv
  <2>3. \A f \in Flows : TabOf[f] \notin overlapped => Follows(cloud[TabOf[f]], flow[f])'
    BY <2>1, SameLogSole DEF SoleInv
  <2>4. \A s \in Tabs : Anchored(canvas[s])'
    BY <2>1 DEF SoleInv, Anchored
  <2> QED
    BY <2>1, <2>2, <2>3, <2>4 DEF SoleInv
<1>3. ASSUME NEW t \in Tabs, Edit(t) \/ LoadProject(t) PROVE SoleInv'
  BY <1>3, EditSole, LoadSole
<1>4. ASSUME NEW f \in Flows,
             StartSave(f) \/ StartCheckpoint(f) \/ FlowStep(f) \/ LoseAnswer(f)
      PROVE  SoleInv'
  <2>1. PICK d, y : LifeMoved(f, d, y)
    BY <1>4, FlowLife
  <2>2. /\ overlapped \subseteq overlapped' /\ overlapped' \subseteq overlapped \cup {TabOf[f]}
        /\ \/ flow[f].pc # "idle"
           \/ TabOf[f] \in overlapped'
           \/ \A g \in Flows \ {f} : TabOf[g] = TabOf[f] => flow[g].pc = "idle"
    BY <1>4, FlowOverlaps
  <2>3. ASSUME TabOf[f] \notin overlapped'
        PROVE  /\ \E c, x : SoleMoved(f, c, x)
               /\ \A g \in Flows \ {f} : TabOf[g] = TabOf[f] => flow[g].pc = "idle"
    <3>1. TabOf[f] \notin overlapped
      BY <2>2, <2>3
    <3>2. \E c, x : SoleMoved(f, c, x)
      BY <1>4, <3>1, FlowSole
    <3> QED
      BY <2>2, <2>3, <3>1, <3>2 DEF SoleInv
  <2> QED
    BY <2>1, <2>2, <2>3, SoleMovedInv
<1> QED
  BY <1>1, <1>2, <1>3, <1>4 DEF Next

\* Tabs whose flows have not overlapped stay in step with the log, whatever answers
\* get lost and whatever their earlier lives and the other tabs sent.
THEOREM SoleInvariance == Spec => [](Inv /\ LifeInv /\ SoleInv)
<1>1. Init => Inv /\ LifeInv /\ SoleInv
  BY InvInit, SoleInit
<1>2. Inv /\ LifeInv /\ SoleInv /\ [Next]_vars => Inv' /\ LifeInv' /\ SoleInv'
  BY InvStep, LifeStep, SoleStep
<1> QED
  BY <1>1, <1>2, PTL DEF Spec

\* A tab in which no save or checkpoint has started while another one was under way
\* since the tab was loaded never takes for saved what the server does not hold at the
\* version the tab believes in, except where others changed the same node or edge since
\* then: over lost answers, retries, rebases and reloads, no difference escapes
\* diffCanvasSnapshots.
THEOREM BaselinesExplained == Spec => []BaselineExplained
<1>1. SoleInv => BaselineExplained
  BY DEF SoleInv, Tracks, Explained, Own, BaselineExplained, Elsewhere
<1> QED
  BY <1>1, SoleInvariance, PTL

\* Such a tab reports a conflict only if another tab, or an earlier life of it, has
\* changed the project since it was loaded: its own lost answers and retries never
\* look like somebody else's changes, nor do late requests of a life before the reload
\* in which its flows overlapped.
THEOREM ConflictsAreReal == Spec => []ConflictIsReal
<1>1. SoleInv => ConflictIsReal
  BY DEF SoleInv, Warned, Own, ConflictIsReal, Elsewhere
<1> QED
  BY <1>1, SoleInvariance, PTL
=============================================================================
