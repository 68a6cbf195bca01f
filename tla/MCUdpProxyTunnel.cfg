SPECIFICATION Spec
CONSTANTS
    a = a
    b = b
    Sources <- MCSources
    MaxSessions <- MCMaxSessions
    Timeout <- MCTimeout
    MaxLag <- MCMaxLag
    MaxStall <- MCMaxStall
INVARIANTS
    TypeOK
    MapIsLive
    ChannelFollowsMap
    WriteHitsMappedSession
PROPERTIES
    OnlyIdleOrFailed
    EvictedIsReleased
    IdleIsEvicted
