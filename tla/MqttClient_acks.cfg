SPECIFICATION Spec
CONSTANTS
    drain = drain
    heartbeat = heartbeat
    closer = closer
    Publishers = {drain, heartbeat}
    Closer = closer
    IdSpace = 3
    IdsOutrun = FALSE
    Verdicts = {"ok", "rejected"}
    MaxPublishes = 3
CHECK_DEADLOCK FALSE
SYMMETRY PublisherSymmetry
INVARIANTS TypeOK NilMeansAccepted NoLostWaiter PendingIsOwned
