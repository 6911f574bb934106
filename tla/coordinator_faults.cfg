SPECIFICATION Spec
CONSTANTS
    Node <- MCNode
    Workflows <- FaultWorkflows
    FaultKinds = {"crash", "duplicate", "error", "loss"}
    MaxFaults = 1
INVARIANTS CounterAccounting ZeroMeansDone
PROPERTIES ZeroIsFinal
CHECK_DEADLOCK FALSE
