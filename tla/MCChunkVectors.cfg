SPECIFICATION Spec
CONSTANTS
    WindowSize = 2
    ChunkCount = 3
    Spaces = {encoder, hash}
    Sessions = {s1, s2, s3}
    MaxGenerations = 3
    NoSpace = NoSpace
    NoIndex = NoIndex
SYMMETRY VectorSymmetry
CHECK_DEADLOCK FALSE
INVARIANTS
    TypeOK
    ReindexingsDoNotDeadlock
PROPERTIES
    ImplementsIndexedText
