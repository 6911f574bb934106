SPECIFICATION FairSpec
CONSTANTS
    n1 = n1
    n2 = n2
    w1 = w1
    a1 = a1
    a2 = a2
    Nodes <- TwoNodes
    Workers <- OneWorker
    Approvers <- TwoApprovers
    MaxTokens = 2
    MaxPosts = 2
    Eager = FALSE
    FaultKinds = {}
    MaxFaults = 0
INVARIANTS SignalledOnce PendingAccounting NodeStatusSettles
PROPERTIES EveryNodeAsked EveryPostDecides
CHECK_DEADLOCK FALSE
