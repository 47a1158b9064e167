SPECIFICATION Spec
CONSTANTS
    loop = loop
    onConnect = onConnect
    ta = ta
    tb = tb
    NoDrainer = NoDrainer
    Drainers = {loop}
    Topics = {ta, tb}
    Batches <- LargeObservations
    MaxMessages = 4
    MaxBytes = 3
    QoS = 1
    ClockMonotone = TRUE
    IOFaults = FALSE
    MaxRecords = 3
    MaxCrashes = 0
    MaxTmps = 0
    MaxStrays = 0
    MaxUndone = 0
    MaxMiscounts = 0
PROPERTY DropsOnlyWhatItMust
