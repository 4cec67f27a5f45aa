\* Two tool calls, a maintenance task, a midnight, every fault.
CONSTANTS
    Calls = {c1, c2}
    Background = {b1}
    None = None
    Faults = {"cancel", "crash", "open", "full"}
    MaxFaults = 2
    Retention = 0
    LastDay = 1
SPECIFICATION LiveSpec
CHECK_DEADLOCK FALSE
INVARIANTS
    TypeOK
    Durable
    LinesInOrder
    NoCallFindsItsFileClosed
PROPERTIES
    RecordsEnd
