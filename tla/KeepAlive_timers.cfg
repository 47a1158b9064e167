SPECIFICATION FairSpec
CONSTANTS
    KeepAlives <- SomeAlives
    DefaultAlive = 12
    MinInterval = 2
    MaxWire = 6
    WriteTimeout = 6
    MaxStall = 1
    Ahead = 1
    SendBuffer = 2
INVARIANTS TypeOK DeadlineIsMoved BrokerIsPatient
PROPERTY CutIsNoticed
