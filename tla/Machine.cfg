\* Three processes on one cache slot, two placers and one reader of an
\* adapter, a login of up to four polls, a request of up to three attempts.
CONSTANTS
    Fetcher = {f1, f2, f3}
    MaxTampers = 1
    Placer = {p1, p2}
    Reader = {r1}
    Generation = {g1, g2, g3}
    Nobody = Nobody
    MaxDeaths = 1
    MinPollInterval = 2
    MaxPollInterval = 3
    Lifetime = 8
    MaxPollAttempts = 4
    ClockSettings <- MCClockSettings
    MaxTransients = 3
    RequestTimeout = 2
    Horizon = 13
    Method = {"GET", "POST"}
    Retryable = {"GET"}
    MaxAttempts = 3
SPECIFICATION Spec
SYMMETRY Symmetry
CHECK_DEADLOCK FALSE
INVARIANTS
    ServesAnchored
    RunsOutAsExpired
    RetriesAccounted
PROPERTIES
    BrokenIsReplaced
    KeepsInterval
