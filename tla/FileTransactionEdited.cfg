\* One batch of up to two mutations, and two edits by another program.
\* No symmetry, as UndoingEnds is temporal.
CONSTANTS
    top = top
    sub = sub
    boundary = boundary
    below = below
    Paths <- TwoPaths
    Dirs <- TwoDirs
    Chain <- TwoChains
    Contents = {c1, c2}
    Absent = Absent
    Unrecorded = Unrecorded
    MaxBatches = 1
    MaxBatchLen = 2
    MaxEdits = 2
SPECIFICATION FairSpec
CHECK_DEADLOCK FALSE
INVARIANTS
    AccountedFor
    NothingOrphaned
PROPERTIES
    NoBlindWrite
    UndoingEnds
