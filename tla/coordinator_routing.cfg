SPECIFICATION FairSpec
CONSTANTS
    Node <- MCNode
    Workflows <- GraphWorkflows
    FaultKinds = {}
    MaxFaults = 0
INVARIANTS OutputBeforeToken AgentSeesOwnPatch LoopBackBound
PROPERTIES ComesToRest Drains
CHECK_DEADLOCK FALSE
