SPECIFICATION Spec
CONSTANTS
    Junk = Junk
    None = None
    wide = wide
    Keys = {k1, wide}
    Holders = {h1, h2}
    Size <- SizeOf
    Total = 4
    DataStart = 1
    DropsOnError = FALSE
SYMMETRY Symmetry
INVARIANTS TablesAgree LiveReadable StableIntact NoSpaceIsReal
PROPERTIES NoLeakWhileRunning CommitsAtomically
