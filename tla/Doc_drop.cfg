\* The network drops and comes back while a command runs.
CONSTANTS
    Calls = {c1, c2, c3}
    Sessions = {s1}
    None = None
    Ops = {"run"}
    Overlapping = {}
    Faults = {"drop"}
    MaxFaults = 1
    MaxLog = 0
SPECIFICATION Spec
SYMMETRY CallSymmetry
CHECK_DEADLOCK FALSE
INVARIANTS
    PaneSerial
