SPECIFICATION Spec
CONSTANTS
    None = None
    Names = {a, b}
    InodeCap = 3
    PageCap = 2
    CacheCap = 1
    Handles = {h1}
    MaxGen = 1
    MaxLinks = 2
    Ops = {"file", "dir", "rename", "move_dir"}
    NoSpace = TRUE
    Races = FALSE
SYMMETRY Symmetry
INVARIANTS NoLoop
PROPERTIES MoveKeepsName
