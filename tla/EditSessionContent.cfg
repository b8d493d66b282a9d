\* A session with one change in the form.
CONSTANTS
    Skill = {"s1", "s2"}
    Agent = {"a1"}
    Companion = {"c1", "c2", ".c"}
    Dotfile = {".c"}
    RootFile = {"LICENSE"}
    Readme = {"README"}
    Projects <- MCProjects
    MaxFormEdits = 1
SPECIFICATION EditSpec
CHECK_DEADLOCK FALSE
INVARIANTS
    ContentPreserved
