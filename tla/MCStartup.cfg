SPECIFICATION FairSpec
CONSTANTS
    Files <- MCFiles
    Platforms <- MCPlatforms
    Infos <- MCInfos
    Ports <- MCPorts
    Held = {1080}
    Generations = 3
    MaxFaults = 1
INVARIANTS
    TypeOK
    OneServer
    ExactRights
    StartableStarts
    StdoutIsTunnels
    StrategyResolves
    RoutesAsConfigured
PROPERTIES
    Recovers
CHECK_DEADLOCK FALSE
