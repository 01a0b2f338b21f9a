SPECIFICATION ServicesSpec
CONSTANTS
    s1 = s1
    m1 = m1
    c1 = c1
    Vacant = Vacant
    Members = {m1}
    Commands = {c1}
    MaxTokens = 2
    MaxTries = 2
    MaxJobs = 2
    Nothing = Nothing
    MaxIds = 1
    MaxChunks <- GuestTalks
    Beaters = {"guest"}
    QueueCap = 1
    ChanCap = 1
    EventCap = 2
    Limit = 1
    Sources = {s1}
INVARIANTS MuxIsSound RoomIsConsistent
PROPERTIES StreamsEndTogether ChangesReachAll
CHECK_DEADLOCK FALSE
