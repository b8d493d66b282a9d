\* Four processes at one lock, two of which may die anywhere; a run that asks
\* up to four questions; a workspace of up to three revisions; an edit session
\* of up to three changes in the form.  No symmetry, as two properties are temporal.
CONSTANTS
    Procs = {p1, p2, p3, p4}
    NoFile = NoFile
    NoPid = NoPid
    CrashPoints <- Anywhere
    MaxCrashes = 2
    MaxPrompts = 4
    Facet = {"f", "g", "h"}
    AssetName = {"x", "y", "z"}
    ServerName = {"s", "t"}
    IllegalAlias = {"X"}
    Requests <- MCRequests
    MaxRevisions = 3
    Skill = {"s1", "s2"}
    Agent = {"a1"}
    Companion = {"c1", "c2", ".c"}
    Dotfile = {".c"}
    RootFile = {"LICENSE"}
    Readme = {"README"}
    Projects <- MCProjects
    MaxFormEdits = 3
SPECIFICATION Spec
CHECK_DEADLOCK FALSE
INVARIANTS
    ExclusiveUnlessRaced
    HolderOwnsFile
    AcceptedWasShown
    BlockersAreOnScreen
    ConfirmedIntentIsOwn
    LossesWereAskedFor
    DeclaredIsOnDisk
PROPERTIES
    WrittenStaleLockGoes
    InterruptEndsRun
