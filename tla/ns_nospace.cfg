SPECIFICATION Spec
CONSTANTS
    None = None
    Names = {a, b}
    InodeCap = 3
    PageCap = 1
    CacheCap = 1
    Handles = {h1}
    MaxGen = 0
    MaxLinks = 2
    Ops = {"lookup", "link", "dir", "unlink", "rmdir", "hardlink", "commit"}
    NoSpace = TRUE
    Races = FALSE
SYMMETRY Symmetry
INVARIANTS CacheMirrors NamesCounted
PROPERTIES ImplementsNameTree
