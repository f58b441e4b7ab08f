\* Answers get lost; what the exchange executes is reported in the end.
SPECIFICATION FairSpec
CONSTANTS
    None = None
    Order = {o1, o2, o3}
    SignalSides = {"long"}
    ReversingSides = {}
    Faults = {"lost answer"}
    MaxPosition = 2
    MaxFeed = 2
PROPERTY
    SymbolUnblocks
