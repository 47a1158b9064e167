SPECIFICATION Spec
CONSTANTS
    loop = loop
    onConnect = onConnect
    ta = ta
    tb = tb
    NoDrainer = NoDrainer
    Drainers = {loop, onConnect}
    Topics = {ta, tb}
    Batches <- LargeObservations
    MaxMessages = 3
    MaxBytes = 4
    QoS = 1
    ClockMonotone = TRUE
    IOFaults = TRUE
    MaxRecords = 4
    MaxCrashes = 1
    MaxTmps = 0
    MaxStrays = 1
    MaxUndone = 1
    MaxMiscounts = 1
SYMMETRY DrainerSymmetry
INVARIANTS TypeOK NoSilentLoss HolesAreSuperseded RetainedIsLatest WithinLimits
PROPERTIES ReplayedInOrder KeepsWhatFits KeepsPromise
