SPECIFICATION Spec
CONSTANTS
    None = None
    Names = {a, b}
    InodeCap = 3
    PageCap = 2
    CacheCap = 1
    Handles = {h1}
    MaxGen = 1
    MaxLinks = 2
    Ops = {"file", "dir", "write", "unlink", "rmdir", "rename", "open", "commit"}
    NoSpace = FALSE
    Races = FALSE
SYMMETRY Symmetry
INVARIANTS Consistent NoDeadData HandleKeepsFile
PROPERTIES ImplementsNameTree
