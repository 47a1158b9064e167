SPECIFICATION FairSpec
CONSTANTS
    drain = drain
    heartbeat = heartbeat
    closer = closer
    Publishers = {drain, heartbeat}
    Closer = closer
    IdSpace = 4
    IdsOutrun = FALSE
    Verdicts = {"ok"}
    MaxPublishes = 2
CHECK_DEADLOCK FALSE
PROPERTIES EveryCallReturns DeathIsNoticed
