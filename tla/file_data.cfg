SPECIFICATION Spec
CONSTANTS
    None = None
    Files = {f, g}
    Edited = {f}
    MaxSize = 3
    MaxSurplus = 1
    Limits <- MCLimits
    Sizes <- MCSizes
    Chunks <- MCChunks
    Blobs <- MCBlobs
INVARIANTS RefsCover RecordsSound ReadAtExact
PROPERTIES LeaksOnlyOnFailure ImplementsByteFiles
