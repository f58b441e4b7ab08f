\* One symbol, flat or held at first: two orders of up to two units, among them
\* a reversal's close and open, and a snapshot that comes and goes.
SPECIFICATION Spec
CONSTANTS
    None = None
    Version = {v1}
    FixedVersion = None
    HeldAtStart = {0, 1}
    MaxOrders = 2
    MaxSize = 2
    MaxBacklog = 1
    MaxFaults = 2
INVARIANTS
    TypeOK
PROPERTIES
    RestartJudged
    NothingForgotten
