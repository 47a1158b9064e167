SPECIFICATION Spec
CONSTANTS
    service = service
    shell = shell
    Nobody = nobody
    Places = {service}
    Commands <- AgentAlone
    MaxRuns = 1
    MaxBreaks = 0
CHECK_DEADLOCK FALSE
INVARIANT NeverStaleOnline
