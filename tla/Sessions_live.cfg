\* Every call ends.
CONSTANTS
    Calls = {c1, c2}
    Sessions = {s1}
    None = None
    Ops = {"run", "wait", "kill", "reset"}
    Overlapping = {"run", "wait", "kill", "reset"}
    Faults = {"drop", "reboot", "cancel", "disk"}
    MaxFaults = 1
    MaxLog = 1
SPECIFICATION LiveSpec
CHECK_DEADLOCK FALSE
PROPERTIES
    CallsReturn
