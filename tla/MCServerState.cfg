SPECIFICATION ServerSpec
CONSTANTS
    x1 = x1
    x2 = x2
    x3 = x3
    y1 = y1
    y2 = y2
    a1 = a1
    i1 = i1
    i2 = i2
    None = None
    Numbers = {y1, y2}
    Visitors = {x1, x2, x3}
    Anons = {a1}
    IPs = {i1, i2}
    Setups <- ThreeSetups
    MaxRooms = 2
    MaxMembers = 4
    MaxTotal = 5
    MaxCreated = 3
    Devices = {x1, x2, x3}
    Founders = {x1, x2, x3}
    Requests = {y1, y2}
    Forever = Forever
    SpaceLimit = 2
    MembersPerSpace = 3
    TotalMembers = 3
    Outstanding = 1
    LastAddress = 3
    Lives = {2}
    Ttls = {1}
    Uses = {2}
    MaxSpaces = 2
    MaxInvites = 2
    MaxClock = 2
    MaxLag = 1
SYMMETRY Interchangeable
INVARIANTS RegistryIsSound TablesAreSound
PROPERTIES HistoryIsKept
CHECK_DEADLOCK FALSE
