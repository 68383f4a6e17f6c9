SPECIFICATION Spec
CONSTANTS
    N = 2
    OffPath = OffPath
    None = None
    Messages <- MCMessages
INVARIANTS OrderIndependent SecureMeansChain InsecureMeansProof
CHECK_DEADLOCK FALSE
