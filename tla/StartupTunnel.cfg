SPECIFICATION Spec
CONSTANTS
    Files <- TunnelFiles
    Platforms <- MCPlatforms
    Infos <- MCInfos
    Ports <- MCPorts
    Held = {1080}
    Generations = 3
    MaxFaults = 1
INVARIANTS
    TunnelListens
CHECK_DEADLOCK FALSE
