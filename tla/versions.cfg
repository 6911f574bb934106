SPECIFICATION Spec
CONSTANTS
    s1 = s1  s2 = s2  t1 = t1  n1 = n1  n2 = n2
    Slot <- Slots
    Tag <- Tags
    Item <- Items
    Workflow <- Workflows
    Patch <- Patches
    CompactDepth = 1
    MaxRequests = 3
INVARIANTS TagsComplete VersionsStable ReadableIfValidated CompactedIsSame RunFrozen
PROPERTY MoveExtends
SYMMETRY Symmetric
CHECK_DEADLOCK FALSE
