CONSTANTS
    MaxGen = 3
    CrashPossible = FALSE
    ConcurrentLoad = FALSE
    None = None
    Absent = Absent
    Torn = Torn
SPECIFICATION Spec
INVARIANTS
    TypeOK
    RoundTrip
PROPERTIES
    BundleStoreRefined
