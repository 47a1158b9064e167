SPECIFICATION FairSpec
CONSTANTS
    agent = agent
    once = once
    Nobody = nobody
    Agents = {agent, once}
    Once = {once}
    MaxFaults = 2
    MaxExits = 2
INVARIANTS TypeOK ChildrenAreWaitedFor
PROPERTIES EndsAfterCancel ServedAgain
