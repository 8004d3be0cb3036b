SPECIFICATION Spec
CONSTANTS
    None = None
    Names = {a, b}
    InodeCap = 3
    PageCap = 2
    CacheCap = 1
    Handles = {h1}
    MaxGen = 2
    MaxLinks = 3
    Ops = {"dir", "rmdir", "rename", "move_dir", "commit"}
    NoSpace = FALSE
    Races = FALSE
SYMMETRY Symmetry
INVARIANTS FreeUnused
