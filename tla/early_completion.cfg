SPECIFICATION Spec
CONSTANTS
    Node <- MCNode
    Workflows <- UnevenOnly
    FaultKinds = {}
    MaxFaults = 0
INVARIANTS CompletedMeansDone
CHECK_DEADLOCK FALSE
