SPECIFICATION Spec
CONSTANTS
    n1 = n1
    n2 = n2
    w1 = w1
    a1 = a1
    a2 = a2
    Nodes <- TwoNodes
    Workers <- OneWorker
    Approvers <- TwoApprovers
    MaxTokens = 2
    MaxPosts = 2
    Eager = TRUE
    FaultKinds = {"crash", "error", "expiry", "username"}
    MaxFaults = 1
SYMMETRY Symmetric
INVARIANTS NoLostDecision
PROPERTIES DecisionStands
CHECK_DEADLOCK FALSE
