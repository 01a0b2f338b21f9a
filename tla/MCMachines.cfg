SPECIFICATION MachinesSpec
CONSTANTS
    g = g
    h = h
    Host = Host
    Guest = {g, h}
    lan = lan
    Address = {g, h, Host, lan}
    Announced <- Networks
    WireCap = 1
    QueueCap = 1
    MaxPackets <- OnePacket
    MaxPings <- Beats
    Frail = {h}
    w1 = w1
    w2 = w2
    fore = fore
    j0 = j0
    j1 = j1
    Nobody = Nobody
    Broken = Broken
    Workers = {w1, w2}
    Clients = {w1, w2, fore, g}
    Machines = {{w1, w2}, {fore, g}}
    Role <- RoleOf
    Cidrs = {"lan"}
    On = {j1}
    Off = {j0}
    Admin = FALSE
    MaxFaults = 2
    MaxAsked = 2
INVARIANTS PlaneIsSound NodeIsSound
PROPERTIES LinksGoOn JobsAreFollowed
CHECK_DEADLOCK FALSE
