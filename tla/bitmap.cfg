SPECIFICATION Spec
CONSTANTS
    Total = 6
    DataStart = 1
INVARIANTS UsedExact RunsDisjoint
PROPERTIES AllocIsFirstFit
