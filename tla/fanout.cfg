SPECIFICATION FairSpec
CONSTANTS
    c1 = c1
    c2 = c2
    u1 = u1
    Client <- Connections
    User <- OneUser
    Username <- MCUsername
    SendCap = 2
    QueueCap = 1
    MaxEvents = 4
INVARIANTS TypeOK Gapless BurstBacked PanicsAfterOverflow
PROPERTIES GoneIsUnregistered QueuedIsWritten
CHECK_DEADLOCK FALSE
