CONSTANTS
    t1 = t1
    t2 = t2
    t3 = t3
    n1 = n1
    n2 = n2
    NoRef = NoRef
    NoThread = NoThread
    Thread <- MCThread
    Name <- MCName
SPECIFICATION Spec
SYMMETRY ThreadSymmetry
CHECK_DEADLOCK FALSE
INVARIANT
    DeclareIdempotent
