SPECIFICATION Spec
CONSTANTS
    p1 = p1  p2 = p2  p3 = p3  r1 = r1
    Poster <- Posters
    Reader <- Readers
    Content <- Contents
    FaultKinds = {"error", "timeout"}
    MaxFaults = 1
INVARIANT ReloadCoversAcked
PROPERTY ImplementsPatchLog
CHECK_DEADLOCK FALSE
SYMMETRY Symmetric
