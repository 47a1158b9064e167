SPECIFICATION FairSpec
CONSTANTS
    codex = codex
    claude = claude
    Cycle = cycle
    Cost = cost
    Providers <- OneProvider
    Classes = {"event", "snapshot"}
    MaxRounds <- ProbesTwice
    MaxFaults = 1
CHECK_DEADLOCK FALSE
INVARIANTS TypeOK CliRunsApart Bracketed AccountedFor HealthIsHonest
PROPERTY JobsEnd
