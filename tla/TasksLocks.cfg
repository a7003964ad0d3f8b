SPECIFICATION Spec
CONSTANTS
    n1 = n1
    n2 = n2
    n3 = n3
    r1 = r1
    r2 = r2
    None = None
    Nodes = {n1, n2}
    Pools <- SmallPools
    Beats <- MCBeats
    Classes = {1, 2}
    Pinned = {2}
    Threshold = 1
    Requests = {r1}
    Ops = {"health", "probe", "egress", "manual", "txn"}
INVARIANTS
    NoCircularWait
PROPERTIES
    PinnedStays
    EgressKeepsNode
