---------------------------- MODULE MCBacktests ----------------------------
EXTENDS Backtests

VoteTrend(short) ==
    [kind |-> "vote_trend", fast |-> 1, slow |-> 2, lookback |-> 1, channel |-> 2,
     threshold |-> 0, votes |-> IF short THEN 4 ELSE 5, stop |-> 2500, take |-> 5000, hold |-> 3,
     short |-> short]
VolBreakout == [kind |-> "vol_breakout", k |-> 5, trailing |-> 10, hold |-> 2,
                atr |-> 1, ema |-> 3]
Momentum == [kind |-> "momentum", lookback |-> 2, stop |-> 2500, take |-> 5000, hold |-> 2]

MCStrategies == {VoteTrend(TRUE), VoteTrend(FALSE), VolBreakout, Momentum}
MCCandle == {[high |-> 3, low |-> 2, close |-> 2], [high |-> 4, low |-> 3, close |-> 4],
             [high |-> 9, low |-> 4, close |-> 8]}
=============================================================================
