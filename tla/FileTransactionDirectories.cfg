\* One batch is enough to lose an empty directory.
CONSTANTS
    top = top
    sub = sub
    boundary = boundary
    below = below
    Paths <- TwoPaths
    Dirs <- TwoDirs
    Chain <- TwoChains
    Contents = {c1, c2}
    Absent = Absent
    Unrecorded = Unrecorded
    MaxBatches = 1
    MaxBatchLen = 1
    MaxEdits = 0
SPECIFICATION Spec
CHECK_DEADLOCK FALSE
INVARIANTS
    PreexistingDirectoriesSurvive
