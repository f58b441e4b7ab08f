\* No fixed snapshot: a publisher writes snapshots while the trader runs.
SPECIFICATION Spec
CONSTANTS
    None = None
    NumSymbols = 1
    PublicFaults = {"public_ws_disconnected"}
    PrivateFaults = {}
    StickyWarn = {}
    StickyCritical = {}
    DefaultRunMode = 0
    FixedSnapshot = None
    Publishable <- PublishMixed
    MaxSignals = 1
    MaxVersion = 2
INVARIANTS
    StoreShowsRuntime
PROPERTY
    RelaxesOnlyWhenClean
