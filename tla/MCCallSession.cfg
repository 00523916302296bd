CONSTANTS
    MaxTurns = 2
    QueueMax = 1
    MaxFaults = 2
    None = None
SPECIFICATION FairSpec
INVARIANTS EveryTurnAccounted PromiseKept OneTicket
PROPERTY CallCloses
CHECK_DEADLOCK FALSE
