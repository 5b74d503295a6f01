CONSTANTS
    b1 = b1
    b2 = b2
    NoBlock = NoBlock
    Block <- MCBlock
    Debug = TRUE
    MaxInsns = 3
    MaxTable = 1
SPECIFICATION Spec
INVARIANT
    PredsMatchEdges
SYMMETRY BlockSymmetry
CHECK_DEADLOCK FALSE
