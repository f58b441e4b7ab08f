\* A strategy that reverses: both tasks evaluate the symbol.
SPECIFICATION Spec
CONSTANTS
    None = None
    Order = {o1, o2, o3}
    SignalSides = {"long", "short"}
    ReversingSides = {"long", "short"}
    Faults = {"cancel", "disconnect"}
    MaxPosition = 2
    MaxFeed = 2
SYMMETRY Symmetry
PROPERTY
    ReverseOpensFlat
