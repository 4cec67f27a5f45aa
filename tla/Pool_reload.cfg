\* Two reloads that may overlap and be cancelled, two gets, any fault;
\* every call and every reload ends.
CONSTANTS
    Gets = {c1, c2}
    Reloads = {r1, r2}
    Aliases = {a1, a2}
    None = None
    Faults = {"connect", "tmux", "break", "cancel", "toml"}
    MaxFaults = 1
    MaxEdits = 1
    Interval = 2
    MaxTime = 1
SPECIFICATION LiveSpec
CHECK_DEADLOCK FALSE
INVARIANTS
    CachedIsCurrent
    ReloadTakesEffect
PROPERTIES
    TasksEnd
