SPECIFICATION RelaysSpec
CONSTANTS
    d1 = d1
    d2 = d2
    r1 = r1
    c1 = c1
    c2 = c2
    None = None
    Forever = Forever
    Devices = {d1, d2}
    Founders = {d1}
    Requests = {r1}
    Conns = {c1, c2}
    SpaceLimit = 1
    MembersPerSpace = 2
    TotalMembers = 2
    Outstanding = 1
    LastAddress = 2
    Lives = {1}
    Ttls = {2}
    Uses = {1}
    MaxSpaces = 1
    MaxInvites = 1
    MaxClock = 1
    MaxLag = 0
    AccessTtl = 2
    MaxSessions = 2
    MaxConns = 2
    Chunks <- ThenOne
    Cap = 1
    WireCap = 2
INVARIANTS RelayIsSound TunnelIsSound
PROPERTIES RelayOnlyMembers StrangerIsDropped CloseEnds
CHECK_DEADLOCK FALSE
