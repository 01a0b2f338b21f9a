SPECIFICATION TasksSpec
CONSTANTS
    h1 = h1
    g1 = g1
    g2 = g2
    u = u
    r = r
    a = a
    b = b
    Dash = Dash
    None = None
    Conns = {h1, g1, g2}
    Hosts = {h1}
    Keys = {u, Dash}
    Key <- OneKey
    Capacity = 2
    MaxTokens = 2
    Device = {a, b}
    Request = {r}
    Absent = Absent
    QueueCap = 1
    MaxBinds = 2
    MaxSockets = 2
    MaxCuts = 1
INVARIANTS PairingIsSound IngressIsSound
PROPERTIES PlacesAreKept WithdrawnEnd
CHECK_DEADLOCK FALSE
