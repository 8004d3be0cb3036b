SPECIFICATION Spec
CONSTANTS
    Junk = Junk
    None = None
    Fresh = s0
    Snapshots = {s0, s1, s2, big}
    Oversized = {big}
    Garbled = Garbled
    MetaBlocks = 2
    MaxSeq = 3
    FlipFaults = {"error", "kill"}
    Reformats = TRUE
CONSTRAINT NotHasty
INVARIANTS SettledRecoverable
