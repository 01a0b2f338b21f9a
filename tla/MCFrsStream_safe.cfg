SPECIFICATION SafeSpec
CONSTANTS
    A = A
    B = B
    d1 = d1
    d2 = d2
    Data = {d1, d2}
    NoData = NoData
    Window = 2
    OutCap = 1
    RxCap = 1
    MaxSeq = 3
    LiveTicks = 1
    Grace = 1
    CloseTicks = 1
    MaxLate = 1
    MaxNet <- NetTwoOne
    Closers = {A}
    Droppers = {}
    MaxWrites <- WritesTwoNone
INVARIANTS StreamIsSound UserIsToldTheTruth
PROPERTIES PipeSpec
CHECK_DEADLOCK FALSE
