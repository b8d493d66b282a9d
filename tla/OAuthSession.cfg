\* Two commands under the clock, with a death and a failing save.
CONSTANTS
    Procs = {p1, p2}
    Nobody = Nobody
    Logins = {l1, l2}
    NoSession = NoSession
    MaxAttempts = 2
    ReplayWindow = 2
    RefreshAhead = 1
    Backoff = 1
    Lifetime = 2
    MaxTokens = 2
    MaxTime = 3
    MaxOps = 2
    MaxCrashes = 1
    MaxFaults = 1
SPECIFICATION Spec
SYMMETRY Symmetry
CHECK_DEADLOCK FALSE
INVARIANTS
    SentIsFenced
    ReplaysCounted
    ReadyIsVouched
    RotationKept
PROPERTIES
    ReplayedInWindow
    ImplementsLifecycle
