\* Any overlap of calls, any two faults; a program prints its sentinel only.
CONSTANTS
    Calls = {c1, c2, c3}
    Sessions = {s1}
    None = None
    Ops = {"run", "wait", "kill", "reset"}
    Overlapping = {"run", "wait", "kill", "reset"}
    Faults = {"drop", "reboot", "delist", "cancel", "disk"}
    MaxFaults = 2
    MaxLog = 0
SPECIFICATION Spec
SYMMETRY CallSymmetry
CHECK_DEADLOCK FALSE
INVARIANTS
    OwnKeystrokes
    ResetClearsWhatItAudited
    NoGhostBusy
    RunExitIsOwn
    AuditOnce
PROPERTIES
    ImplementsSlot
