\* Two files, two directories, two batches of up to two mutations, nobody
\* else.
CONSTANTS
    top = top
    sub = sub
    boundary = boundary
    below = below
    Paths <- TwoPaths
    Dirs <- TwoDirs
    Chain <- TwoChains
    Contents = {c1, c2}
    Absent = Absent
    Unrecorded = Unrecorded
    MaxBatches = 2
    MaxBatchLen = 2
    MaxEdits = 0
SPECIFICATION Spec
CHECK_DEADLOCK FALSE
INVARIANTS
    FailedBatchLeavesNothing
    ReportIsTruthful
    BoundarySurvives
    NoDirectoryLeftBehind
    RolledBackToStart
PROPERTIES
    ImplementsAtomicBatches
