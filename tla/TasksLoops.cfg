\* Comments on the background loops that the code does not keep:
\* tlc -continue shows a counterexample to each.
SPECIFICATION Spec
CONSTANTS
    n1 = n1
    n2 = n2
    n3 = n3
    r1 = r1
    r2 = r2
    None = None
    Nodes = {n1, n2, n3}
    Pools <- OnePool
    Beats <- MCBeats
    Classes = {1}
    Pinned = {}
    Threshold = 2
    Requests = {r1}
    Ops = {"health", "probe", "manual"}
PROPERTIES
    VerdictBookedOnMeasured
    ChallengerBeatsIncumbent
