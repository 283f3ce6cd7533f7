SPECIFICATION MCSpec
CONSTANTS
    NoBuffer = NoBuffer
    Users = {u1, u2, u3}
    Buffers = {b1, b2, b3, b4}
    MaxPoolSize = 2
    MaxReadSize = 2
    FileSizes = {0, 3}
    Nil = Nil
    Endpoints = {e1, e2, e3, e4, e5}
INVARIANTS
    NoAliasing
    WellLinked
    BodyIntact
    LabelsOfFile
PROPERTIES
    HandedOutEmpty
    IsSequence
SYMMETRY BufSymmetry
CHECK_DEADLOCK FALSE
