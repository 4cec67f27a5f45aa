CONSTANTS
    Gets = {c1, c2, c3}
    Reloads = {r1}
    Aliases = {a1}
    None = None
    Faults = {"connect", "tmux", "break", "cancel", "toml"}
    MaxFaults = 2
    MaxEdits = 1
    Interval = 2
    MaxTime = 4
SPECIFICATION Spec
SYMMETRY PoolSymmetry
CHECK_DEADLOCK FALSE
INVARIANTS
    TypeOK
    OpenIsCached
    ServedIsReady
    UnchangedUndisturbed
    MaintenanceThrottled
