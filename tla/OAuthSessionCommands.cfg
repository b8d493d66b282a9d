\* Three commands of two processes over two logins; the clock may expire the
\* access token once. No symmetry, as LockComesFree is temporal.
CONSTANTS
    Procs = {p1, p2}
    Nobody = Nobody
    Logins = {l1, l2}
    NoSession = NoSession
    MaxAttempts = 1
    ReplayWindow = 2
    RefreshAhead = 1
    Backoff = 1
    Lifetime = 2
    MaxTokens = 2
    MaxTime = 1
    MaxOps = 3
    MaxCrashes = 0
    MaxFaults = 0
SPECIFICATION FairSpec
CHECK_DEADLOCK FALSE
INVARIANTS
    ConfirmedIsOver
PROPERTIES
    OnlySelectedReplaced
    LockComesFree
