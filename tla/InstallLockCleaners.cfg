\* Three processes: one dies inside, two find its lock.
CONSTANTS
    Procs = {p1, p2, p3}
    NoFile = NoFile
    NoPid = NoPid
    CrashPoints = {"held"}
    MaxCrashes = 1
SPECIFICATION LockSpec
CHECK_DEADLOCK FALSE
INVARIANTS
    Exclusive
