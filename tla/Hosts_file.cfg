\* Three commands about two hosts, which overlap freely, and a fault.
CONSTANTS
    Procs = {p1, p2, p3}
    Aliases = {h1, h2}
    Faults = {"crash", "keychain", "disk"}
    MaxFaults = 1
SPECIFICATION Spec
CHECK_DEADLOCK FALSE
INVARIANTS
    UpdatesKept
    ListedHasSecret
    RemovedIsGone
    SecretIsRemovable
