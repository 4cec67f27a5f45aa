\* One poller: the client awaits each wait and reset before its next call.
CONSTANTS
    Calls = {c1, c2, c3}
    Sessions = {s1}
    None = None
    Ops = {"run", "wait", "kill", "reset"}
    Overlapping = {"run", "kill"}
    Faults = {"drop", "reboot", "delist", "kill", "exec"}
    MaxFaults = 1
    MaxLog = 1
SPECIFICATION Spec
SYMMETRY CallSymmetry
CHECK_DEADLOCK FALSE
INVARIANTS
    AssertionsHold
    OwnSentinel
    CursorExact
    NoMissedSentinel
