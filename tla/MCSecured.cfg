SPECIFICATION SecuredSpec
CONSTANTS
    a = a
    b = b
    A = a
    B = b
    Data = {1}
    IoCap = 1
    WireCap = 1
    MaxWrites <- TwoAndNone
    Droppers = {b}
    Device = {d}
    Request = {r}
    Anew = Anew
    None = None
    Ttl = 1
    Capacity = 2
    Slots = 2
    QueueCap = 2
    MaxCalls = 2
    MaxRepeats = 1
    MaxClock = 1
INVARIANTS EncIsSound CallsAreSound
PROPERTIES PipeSpec NobodyParksForEver SlotsComeBack
CHECK_DEADLOCK FALSE
