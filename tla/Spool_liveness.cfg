SPECIFICATION FairSpec
CONSTANTS
    loop = loop
    onConnect = onConnect
    ta = ta
    tb = tb
    NoDrainer = NoDrainer
    Drainers = {loop, onConnect}
    Topics = {ta, tb}
    Batches <- Observations
    MaxMessages = 2
    MaxBytes = 5
    QoS = 0
    ClockMonotone = TRUE
    IOFaults = FALSE
    MaxRecords = 3
    MaxCrashes = 1
    MaxTmps = 1
    MaxStrays = 1
    MaxUndone = 3
    MaxMiscounts = 0
PROPERTY EventuallyLeaves
