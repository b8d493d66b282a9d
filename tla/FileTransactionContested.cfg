\* Two batches on one file, with an edit between them.
CONSTANTS
    top = top
    sub = sub
    boundary = boundary
    below = below
    Paths <- TwoPaths
    Dirs <- TwoDirs
    Chain <- TwoChains
    Contents = {c1, c2}
    Absent = Absent
    Unrecorded = Unrecorded
    MaxBatches = 2
    MaxBatchLen = 1
    MaxEdits = 1
SPECIFICATION Spec
CHECK_DEADLOCK FALSE
PROPERTIES
    ConcurrentEditPreserved
