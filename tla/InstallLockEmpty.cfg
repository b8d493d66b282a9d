\* One process dies between creating the file and writing its pid.
CONSTANTS
    Procs = {p1, p2}
    NoFile = NoFile
    NoPid = NoPid
    CrashPoints = {"writing"}
    MaxCrashes = 1
SPECIFICATION LockFairSpec
CHECK_DEADLOCK FALSE
PROPERTIES
    StaleLockGoes
