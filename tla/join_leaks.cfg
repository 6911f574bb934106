SPECIFICATION Spec
CONSTANTS
    Node <- MCNode
    Workflows <- DiamondOnly
    FaultKinds = {}
    MaxFaults = 0
INVARIANTS RestMeansZero
CHECK_DEADLOCK FALSE
