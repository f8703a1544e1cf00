CONSTANTS
    MaxGen = 3
    CrashPossible = FALSE
    ConcurrentLoad = TRUE
    None = None
    Absent = Absent
    Torn = Torn
SPECIFICATION Spec
INVARIANTS
    LoadedBundleConsistent
