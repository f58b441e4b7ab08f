\* A strategy of one side that never reverses; answers, fills and updates get lost.
SPECIFICATION Spec
CONSTANTS
    None = None
    Order = {o1, o2, o3}
    SignalSides = {"long"}
    ReversingSides = {}
    Faults = {"lost answer", "cancel", "disconnect"}
    MaxPosition = 2
    MaxFeed = 3
SYMMETRY Symmetry
INVARIANTS
    TypeOK
    PositionsKnown
PROPERTY
    OneOpenPerExposure
