SPECIFICATION PathsSpec
CONSTANTS
    h = h
    g = g
    None = None
    Session = {h, g}
    MaxSockets = 2
    MaxPort = 2
    Attempts = 2
    MaxLosses = 1
INVARIANTS TurnIsSound SessionIsSound
SYMMETRY Alike
CHECK_DEADLOCK FALSE
