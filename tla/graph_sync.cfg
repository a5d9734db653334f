CONSTANTS
    n1 = n1  n2 = n2  e1 = e1  a = a  b = b
    t1 = t1  t2 = t2  f1 = f1  f2 = f2  f3 = f3
    Nodes = {n1, n2}
    Edges = {e1}
    Ends <- JoinedBy
    Values = {a, b}
    Gone = Gone
    Start <- AllShown
    Room = 0
    Tabs = {t1, t2}
    Flows = {f1, f2, f3}
    TabOf <- TwoFlowsInOne
    BatchSize = 1
    NoRequest = NoRequest
    Lossy = TRUE
    MaxActs = 5
SYMMETRY TwinFlows
SPECIFICATION Spec
INVARIANTS GraphTypeOK EdgesAnchored RebasedIsDisjoint  BaselineExplained
CHECK_DEADLOCK FALSE
