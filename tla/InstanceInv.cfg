\* The inductive invariant of DaemonInstance, part by part, on the instance of Instance.cfg.
SPECIFICATION Spec
CONSTANTS
    a = a
    b = b
    c = c
    legacy = legacy
    None = None
    Legacy = legacy
    Daemons = {a, b}
    Pids = {1, 2}
    Confirmations = 3
    DyingConnects = 2
    MaxBoots = 2
    MaxGrabs = 2
    DirectHosts = TRUE
    Faults = {"sweep"}
SYMMETRY Symmetry
CHECK_DEADLOCK FALSE
INVARIANTS
    TypeOK
    SocketInv
    JudgeInv
    HandleInv
    FilesInv
    IdentityInv
    SweepInv
