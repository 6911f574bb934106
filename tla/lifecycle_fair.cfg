SPECIFICATION FairSpec
CONSTANTS
    n1 = n1
    n2 = n2
    e1 = e1
    e2 = e2
    u1 = u1
    u2 = u2
    Entry <- TwoNodes
    Agents <- OneAgent
    Executors <- TwoExecutors
    Updaters <- TwoUpdaters
    FaultKinds = {"duplicate"}
    MaxFaults = 1
PROPERTIES
    AcceptedRunEnds
    RowFollowsKey
    CompletedIsShown
    StatusIsFinal
CHECK_DEADLOCK FALSE
