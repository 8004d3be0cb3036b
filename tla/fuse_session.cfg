SPECIFICATION Spec
CONSTANTS
    None = None
    Names = {a, b}
    Ids = {i, j}
    MaxFh = 2
    MaxGen = 1
    MaxFails = 1
    Buffer = {3}
INVARIANTS ScanExact HandlesSound ReclaimedExactly
PROPERTIES HandleKeepsInode ScanEnds
