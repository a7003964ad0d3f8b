\* Two starts and a legacy daemon on a host that restarts once, killed anywhere.
SPECIFICATION Spec
CONSTANTS
    a = a
    b = b
    c = c
    legacy = legacy
    None = None
    Legacy = legacy
    Daemons = {a, b}
    Pids = {1, 2}
    Confirmations = 3
    DyingConnects = 2
    MaxBoots = 2
    MaxGrabs = 2
    DirectHosts = TRUE
    Faults = {"sweep"}
SYMMETRY Symmetry
CHECK_DEADLOCK FALSE
INVARIANTS
    OneDaemon
    SocketJudged
    NothingOrphaned
    ReadyOwnsPorts
