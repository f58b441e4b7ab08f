\* A request of exactly one contract.
SPECIFICATION Spec
CONSTANTS
    None = None
    Candle <- MCCandle
    Periods = 7
    ClosedAtStart = {3, 6}
    Strategies <- MCStrategies
    RsiPeriod = 2
    LeastVoteRows = 4
    LeastBreakoutRows = 3
    MostRows = 4
    PageLimit = 4
    RowsLimit = 6
    InitialEquity = 3001
    InitialAvailable = 3001
    RequestNum = 1
    RequestDen = 451
    LotsPerContract = 4
    Leverage = 2
    FeeNum = 1
    FeeDen = 40
    MarginPercent = 95
PROPERTY
    RefusedOnlyWhenShort
CHECK_DEADLOCK FALSE
