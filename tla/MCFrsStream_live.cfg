SPECIFICATION LiveSpec
CONSTANTS
    A = A
    B = B
    d1 = d1
    d2 = d2
    Data = {d1}
    NoData = NoData
    Window = 1
    OutCap = 1
    RxCap = 1
    MaxSeq = 9
    LiveTicks = 1
    Grace = 1
    CloseTicks = 1
    MaxLate = 1
    MaxNet <- NetOneOne
    Closers = {A}
    Droppers = {B}
    MaxWrites <- WritesOneNone
PROPERTIES WaitersAreHeard DataArrives
CHECK_DEADLOCK FALSE
