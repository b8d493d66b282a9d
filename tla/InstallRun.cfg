\* Two processes, one command each, on five projects, with one edit of others
\* and one death.
CONSTANTS
    Facet = {"f", "g"}
    AssetName = {"x", "y", "z"}
    ServerName = {"s", "t"}
    IllegalAlias = {"X"}
    Declares <- MCDeclares
    Releases <- MCReleases
    Commands <- MCCommands
    Answers <- MCAnswers
    Pulls <- MCPulls
    Worlds <- MCWorlds
    Proc = {p1, p2}
    None = None
    MaxEdits = 1
    MaxCrashes = 1
SPECIFICATION Spec
SYMMETRY Symmetry
CHECK_DEADLOCK FALSE
INVARIANTS
    ReceiptIsTrue
    NothingStranded
    FailedRunLeavesProject
    OnlyApprovedRuns
PROPERTIES
    TakeoversDisclosed
    UpdateAppliesReviewed
    ImplementsProjectState
