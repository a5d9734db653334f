--------------------------- MODULE MCProjectGraph ---------------------------
(* Instances of ProjectGraph: two nodes joined by one edge, with two tabs  *)
(* of one flow each (graph_lost_update) or of two and one (graph_sync).    *)
EXTENDS ProjectGraph, TLC

CONSTANTS n1, n2, e1, a, b, t1, t2, f1, f2, f3

JoinedBy == [e \in {e1} |-> {n1, n2}]
AllShown == [x \in {n1, n2, e1} |-> a]
OneFlowEach == (f1 :> t1 @@ f2 :> t2)
TwoFlowsInOne == (f1 :> t1 @@ f2 :> t1 @@ f3 :> t2)
NodeSymmetry == Permutations({n1, n2})
TwinFlows == Permutations({f1, f2}) \cup NodeSymmetry
=============================================================================
