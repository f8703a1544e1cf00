CONSTANTS
    MaxGen = 3
    CrashPossible = TRUE
    ConcurrentLoad = FALSE
    None = None
    Absent = Absent
    Torn = Torn
SPECIFICATION Spec
INVARIANTS
    SaveOrderVisible
PROPERTIES
    NoRollback
