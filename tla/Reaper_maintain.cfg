\* Two sessions, three steps of shells and humans in any place, two faults.
CONSTANTS
    Names = {s1, s2}
    None = None
    Timeouts = {0, 1}
    Faults = {"drop", "tmux", "pgrep", "audit", "exit"}
    MaxFaults = 2
    MaxMoves = 3
    MaxTime = 2
SPECIFICATION LiveSpec
CHECK_DEADLOCK FALSE
INVARIANTS
    OnlyIdleIsReaped
    RecordTellsKills
    IdleIsReaped
PROPERTIES
    MaintenanceEnds
