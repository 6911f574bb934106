SPECIFICATION FairSpec
CONSTANTS
    Node <- MCNode
    Cond = {"p", "q"}
    Workflows <- MCWorkflows
    Edits <- MCEdits
    RunPatch <- MCRunPatch
    UnknownType = {"cron"}
    MaxChanges = 3
INVARIANTS TypeOK RefusedHasCycle IRWellFormed
PROPERTIES EditKeeps CompilationEnds
CHECK_DEADLOCK FALSE
