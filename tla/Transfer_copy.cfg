\* Two transfers in any directions, a rewritten file, two faults of any kind.
CONSTANTS
    Calls = {c1, c2}
    MaxLen = 2
    MaxEdits = 1
    Faults = {"break", "connect", "sftp", "denied", "local", "audit", "cancel"}
    MaxFaults = 2
SPECIFICATION LiveSpec
CHECK_DEADLOCK FALSE
INVARIANTS
    CopyIsWhole
    SizeIsOfDigest
    AuditOnce
    ReportedNotServed
PROPERTIES
    TransfersEnd
