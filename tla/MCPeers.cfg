SPECIFICATION PeersSpec
CONSTANTS
    None = None
    Guests = {g1}
    Socks = {1, 2}
    MaxUnread = 1
    MaxTasks = 1
    MaxJoins = 2
    A = A
    B = B
    Key = Key
    Nothing = Nothing
    Window = 2
    Senders = {A, B}
    MaxSent = 3
    MaxFaults = 1
    MaxNonces = 8
INVARIANTS MeshIsConsistent ReplayIsSound
PROPERTIES LinksDieOfTheirOwn GuestsGetLinked BoundInTheEnd
CHECK_DEADLOCK FALSE
