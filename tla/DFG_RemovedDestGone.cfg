CONSTANTS
    v1 = v1
    v2 = v2
    b1 = b1
    b2 = b2
    NoBlock = NoBlock
    Value <- MCValue
    Block <- MCBlock
    MaxInsn = 2
    MaxArgs = 3
SPECIFICATION Spec
SYMMETRY Symmetry
PROPERTY
    RemovedDestGone
