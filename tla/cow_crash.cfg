SPECIFICATION Spec
CONSTANTS
    Junk = Junk
    None = None
    Fresh = s0
    Snapshots = {s0, s1, s2, big}
    Oversized = {big}
    Garbled = Garbled
    MetaBlocks = 2
    MaxSeq = 4
    FlipFaults = {}
    Reformats = FALSE
INVARIANTS Recoverable LiveMetadataUntouched AckIsDurable
PROPERTIES NeverRollsBack ImplementsAtomicCommit
