SPECIFICATION Spec
CONSTANTS
    None = None
    Names = {a, b}
    InodeCap = 2
    PageCap = 1
    CacheCap = 1
    Handles = {h1}
    MaxGen = 0
    MaxLinks = 1
    Ops = {"file", "rename"}
    NoSpace = TRUE
    Races = FALSE
SYMMETRY Symmetry
PROPERTIES CommitKeepsNames
