SPECIFICATION FairSpec
CONSTANTS
    service = service
    shell = shell
    Nobody = nobody
    Places = {service, shell}
    Commands <- AgentAndShell
    MaxRuns = 2
    MaxBreaks = 1
CHECK_DEADLOCK FALSE
INVARIANTS TypeOK GracefulOffline
PROPERTIES EventuallyOnline CrashIsSeen ConnectionIsNoticed
