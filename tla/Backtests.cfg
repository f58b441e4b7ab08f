\* Every market of seven candles: long, short and trailing positions that win,
\* lose or lose everything, while the download runs over several pages.
SPECIFICATION FairSpec
CONSTANTS
    None = None
    Candle <- MCCandle
    Periods = 7
    ClosedAtStart = {3, 6}
    Strategies <- MCStrategies
    RsiPeriod = 2
    LeastVoteRows = 4
    LeastBreakoutRows = 3
    MostRows = 4
    PageLimit = 4
    RowsLimit = 6
    InitialEquity = 3001
    InitialAvailable = 3001
    RequestNum = 1
    RequestDen = 301
    LotsPerContract = 4
    Leverage = 2
    FeeNum = 1
    FeeDen = 40
    MarginPercent = 95
INVARIANTS
    TypeOK
    FetchedIsLatest
    LedgerBalances
    FeesCovered
    TradesInOrder
    SignalsDifferInDoubt
    DrawdownIsWorst
PROPERTIES
    DownloadEnds
CHECK_DEADLOCK FALSE
