SPECIFICATION Spec
CONSTANTS
    n1 = n1
    n2 = n2
    e1 = e1
    e2 = e2
    u1 = u1
    u2 = u2
    Entry <- TwoNodes
    Agents <- OneAgent
    Executors <- TwoExecutors
    Updaters <- OneUpdater
    FaultKinds = {"apicrash", "crash", "duplicate", "error", "workflow", "task"}
    MaxFaults = 3
SYMMETRY Symmetric
INVARIANTS
    StartedOnce
    CompletedMeansAll
CHECK_DEADLOCK FALSE
