SPECIFICATION Spec
CONSTANTS
    None = None
    n1 = n1
    n2 = n2
    n3 = n3
    Names <- MCNames
    FilterKey <- MCKey
    GateKey <- MCKey
    NameHash <- MCNameHash
    InodeOf <- MCInodeOf
    PageOf <- MCPageOf
    HalfWord = 4
    BlockBits = 4
    NumBlocks = 2
    K = 2
    SegCap = 2
    RebuildPart = 2
    MinCapacity = 2
    TombPart = 2
    MaxSeq = 1
    MaxFails = 1
INVARIANTS IndexSound AnswersExact
