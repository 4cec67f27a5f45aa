\* The transport lives, nothing is reset, only session_run overlaps.
CONSTANTS
    Calls = {c1, c2, c3}
    Sessions = {s1, s2}
    None = None
    Ops = {"run", "wait", "kill"}
    Overlapping = {"run"}
    Faults = {"kill", "exec", "cancel", "disk"}
    MaxFaults = 1
    MaxLog = 1
SPECIFICATION Spec
SYMMETRY CallSymmetry
CHECK_DEADLOCK FALSE
INVARIANTS
    BusyPaneIsTracked
