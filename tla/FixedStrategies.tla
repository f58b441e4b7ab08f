-------------------------- MODULE FixedStrategies --------------------------
(***************************************************************************)
(* The signals of the fixed strategies on a sequence of candles.  The      *)
(* backtests look at all the candles they downloaded up to the one they    *)
(* are at; the trader and the notifier's /entrygap fetch the last of the   *)
(* market's candles, a bounded number, and start their averages with the   *)
(* first of them.  Averages are fractions: an average over i values is     *)
(* num / den exactly.                                                      *)
(***************************************************************************)
EXTENDS Integers, SequencesExt, FiniteSetsExt

CONSTANTS
    RsiPeriod,          \* 14
    LeastVoteRows,      \* the least candles vote_trend is evaluated on live (240)
    LeastBreakoutRows,  \* the same of vol_breakout (120)
    MostRows            \* the most of either (300)

ASSUME StrategyConstants ==
    /\ RsiPeriod \in Nat \ {0} /\ MostRows \in Nat \ {0}
    /\ LeastVoteRows \in Nat /\ LeastBreakoutRows \in Nat

Greatest(a, b) == IF a > b THEN a ELSE b
Abs(a) == IF a < 0 THEN -a ELSE a

Closes(rows) == [i \in DOMAIN rows |-> rows[i].close]

-----------------------------------------------------------------------------
(* Indicators at the end of a sequence of values.                          *)

\* _ema: alpha is 2 / (period + 1).
Ema(values, period) ==
    LET num[i \in DOMAIN values] ==
            IF i = 1 THEN values[1]
            ELSE 2 * values[i] * (period + 1) ^ (i - 2) + (period - 1) * num[i - 1]
    IN  [num |-> num[Len(values)], den |-> (period + 1) ^ (Len(values) - 1)]

Above(value, e) == value * e.den > e.num
Below(value, e) == value * e.den < e.num
GreaterAverage(e, f) == e.num * f.den > f.num * e.den
Prefix(values, i) == SubSeq(values, 1, i)

Gains(closes) ==
    [i \in DOMAIN closes |-> IF i = 1 THEN 0 ELSE Greatest(closes[i] - closes[i - 1], 0)]
Losses(closes) ==
    [i \in DOMAIN closes |-> IF i = 1 THEN 0 ELSE Greatest(closes[i - 1] - closes[i], 0)]

\* _rsi compared with 50; without a loss it is 100.
RsiAbove50(gain, loss) == loss.num = 0 \/ gain.num > loss.num
RsiBelow50(gain, loss) == loss.num > 0 /\ gain.num < loss.num

TrueRanges(rows) ==
    [i \in DOMAIN rows |->
        IF i = 1 THEN rows[i].high - rows[i].low
        ELSE Greatest(rows[i].high - rows[i].low,
                      Greatest(Abs(rows[i].high - rows[i - 1].close),
                               Abs(rows[i].low - rows[i - 1].close)))]

Atr(rows, i, period) == Ema(Prefix(TrueRanges(rows), i), period)

-----------------------------------------------------------------------------
(* vote_trend: five votes for each side.                                   *)

VoteTrendWarmup(p) == Max({p.slow, p.lookback, p.channel, RsiPeriod})

PeeksAheadBug(p, rows, i) ==
    {rows[j] : j \in (i - p.channel .. i + 1) \intersect (DOMAIN rows \ {i})}

\* The candles of the channel: those before the i-th.
Channel(p, rows, i) == {rows[j] : j \in i - p.channel .. i - 1}

\* What the votes at the i-th candle look at.
View(p, rows, i) ==
    LET closes == Prefix(Closes(rows), i)
    IN  [close |-> closes[i],
         before |-> closes[i - p.lookback],
         fast |-> Ema(closes, p.fast), slow |-> Ema(closes, p.slow),
         high |-> Max({c.high : c \in Channel(p, rows, i)}),
         low |-> Min({c.low : c \in Channel(p, rows, i)}),
         gain |-> Ema(Gains(closes), RsiPeriod), loss |-> Ema(Losses(closes), RsiPeriod)]

Vote(condition) == IF condition THEN 1 ELSE 0

LongVotes(p, v) ==
    Vote(Above(v.close, v.slow)) + Vote(GreaterAverage(v.fast, v.slow))
    + Vote(10000 * (v.close - v.before) > p.threshold * v.before)
    + Vote(v.close > v.high) + Vote(RsiAbove50(v.gain, v.loss))

ShortVotes(p, v) ==
    Vote(Below(v.close, v.slow)) + Vote(GreaterAverage(v.slow, v.fast))
    + Vote(10000 * (v.close - v.before) < -(p.threshold * v.before))
    + Vote(v.close < v.low) + Vote(RsiBelow50(v.gain, v.loss))

\* _signal_side on a view.
SideOf(p, v) ==
    CASE LongVotes(p, v) >= p.votes -> "long"
      [] LongVotes(p, v) < p.votes /\ p.short /\ ShortVotes(p, v) >= p.votes -> "short"
      [] OTHER -> "none"

\* What /entrygap says of the symbol.
VoteTrendReady(p, v) ==
    LongVotes(p, v) >= p.votes \/ (p.short /\ ShortVotes(p, v) >= p.votes)

-----------------------------------------------------------------------------
(* vol_breakout: k and trailing are in tenths.                             *)

VolBreakoutWarmup(p) == Greatest(p.ema, p.atr + 1)

\* close > closes[i - 1] + k * atr[i - 1]
BreaksOut(p, rows, i) ==
    \E atr \in {Atr(rows, i - 1, p.atr)} :
        10 * (rows[i].close - rows[i - 1].close) * atr.den > p.k * atr.num

AboveEma(p, rows, i) == Above(rows[i].close, Ema(Prefix(Closes(rows), i), p.ema))

\* close < highest_close - trailing_atr * atr[i]
BelowTrailingStop(p, rows, highest, i) ==
    \E atr \in {Atr(rows, i, p.atr)} :
        10 * (highest - rows[i].close) * atr.den > p.trailing * atr.num

-----------------------------------------------------------------------------
(* One strategy of the three.                                              *)

Warmup(p) ==
    CASE p.kind = "vote_trend" -> VoteTrendWarmup(p)
      [] p.kind = "vol_breakout" -> VolBreakoutWarmup(p)
      [] p.kind = "momentum" -> p.lookback

\* The side a backtest would open at the i-th candle of its rows.
Signal(p, rows, i) ==
    CASE p.kind = "vote_trend" -> SideOf(p, View(p, rows, i))
      [] p.kind = "vol_breakout" ->
            IF AboveEma(p, rows, i) /\ BreaksOut(p, rows, i) THEN "long" ELSE "none"
      [] p.kind = "momentum" ->
            IF rows[i].close > rows[i - p.lookback].close THEN "long" ELSE "none"

-----------------------------------------------------------------------------
(* The trader and /entrygap.                                               *)

\* How many candles they ask for; both have the same two formulas.
LiveRowsLimit(p) ==
    LET least == IF p.kind = "vote_trend" THEN LeastVoteRows ELSE LeastBreakoutRows
        needed == Warmup(p) + 3 + IF p.kind = "vote_trend" THEN p.hold ELSE 0
    IN  Min({Greatest(needed, least), MostRows})

LiveRowsBeforeBug(p, candles, t) ==
    SubSeq(candles, Greatest(1, t - LiveRowsLimit(p) + 1), t - 1)

\* What they have when the t-th candle of the market is the last.
LiveRows(p, candles, t) == SubSeq(candles, Greatest(1, t - LiveRowsLimit(p) + 1), t)

\* The side the trader opens on the rows it has.
LiveSide(p, rows) ==
    CASE Len(rows) <= Warmup(p) -> "none"
      [] Len(rows) > Warmup(p) /\ p.kind = "vote_trend" -> SideOf(p, View(p, rows, Len(rows)))
      [] Len(rows) > Warmup(p) /\ p.kind = "vol_breakout" ->
            IF ~AboveEma(p, rows, Len(rows)) \/ ~BreaksOut(p, rows, Len(rows))
            THEN "none" ELSE "long"

\* Whether /entrygap shows the symbol as ready to open on these rows.
ReportsReady(p, rows) ==
    /\ Len(rows) > Warmup(p)
    /\ \/ p.kind = "vote_trend" /\ VoteTrendReady(p, View(p, rows, Len(rows)))
       \/ /\ p.kind = "vol_breakout"
          /\ AboveEma(p, rows, Len(rows)) /\ BreaksOut(p, rows, Len(rows))
=============================================================================
