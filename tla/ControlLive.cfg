\* What must eventually happen, in the production setup.
SPECIFICATION FairSpec
CONSTANTS
    None = None
    NumSymbols = 1
    PublicFaults = {"public_ws_disconnected"}
    PrivateFaults = {"private_ws_disconnected"}
    StickyWarn = {}
    StickyCritical = {}
    DefaultRunMode = 0
    FixedSnapshot <- FixedNormal
    Publishable <- PublishNothing
    MaxSignals = 0
    MaxVersion = 1
PROPERTIES
    ReleaseServed
    StreamFaultsClear
