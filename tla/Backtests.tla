----------------------------- MODULE Backtests -----------------------------
(***************************************************************************)
(* A backtest: fetch_okx_history_rows downloads the latest candles page by *)
(* page, newest page first, while candles go on closing; then one of       *)
(* evaluate_vote_trend, evaluate_vol_breakout and                          *)
(* evaluate_momentum_candidate goes through them, one candle a step.       *)
(* Candles are named by their position in time.                            *)
(***************************************************************************)
EXTENDS FixedStrategies, PositionSizer

CONSTANTS
    None,            \* no position, no page fetched yet
    Candle,          \* the candles that may occur: [high, low, close]
    Periods,         \* bound: candles that close in a behaviour
    ClosedAtStart,   \* how many of them have closed when the download starts
    Strategies,      \* the strategies with their parameters
    PageLimit,       \* candles in a page (100)
    RowsLimit,       \* the limit of the download
    InitialEquity, InitialAvailable,
    RequestNum, RequestDen  \* per_symbol_max_position * risk_fraction, in
                            \* lots per unit of equity

\* The positions that may be open, _OpenPosition.
Positions ==
    [side: {"long", "short"}, entry: Nat, price: Nat, highest: Nat, lots: Nat, margin: Nat, fee: Nat]

ASSUME BacktestConstants ==
    /\ Candle \subseteq [high: Nat \ {0}, low: Nat \ {0}, close: Nat \ {0}]
    /\ Periods \in Nat /\ ClosedAtStart \subseteq 0 .. Periods
    /\ PageLimit \in Nat \ {0} /\ RowsLimit \in Nat \ {0}
    /\ InitialEquity \in Nat \ {0} /\ InitialAvailable \in Nat
    /\ RequestNum \in Nat /\ RequestDen \in Nat \ {0}
    /\ \A s \in Strategies :
        /\ s.kind \in {"vote_trend", "vol_breakout", "momentum"}
        /\ s.hold \in Nat \ {0}
        /\ s.kind = "vote_trend" =>
            s.slow \in Nat /\ s.lookback \in Nat /\ s.channel \in Nat /\ s.votes \in Nat
        /\ s.kind = "vol_breakout" => s.ema \in Nat /\ s.atr \in Nat
        /\ s.kind = "momentum" => s.lookback \in Nat
    /\ None \notin Nat /\ None \notin Positions

VARIABLES
    candles,   \* external: the market
    closed,    \* external: how many candles have closed
    strategy,  \* the strategy that is evaluated
    pc,        \* "fetch", "scan" or "done"
    fetched,   \* the candles of rows_by_timestamp
    after,     \* the oldest candle of the last page
    latest,    \* auxiliary: how many candles had closed at the first page
    rows,      \* the candles in order of time
    index,     \* the candle the loop is at
    position,  \* the open position or None
    account,   \* equity and available balance
    points,    \* equity_points
    trades,    \* the trades closed so far
    blocked    \* blocked_signal_count

market == <<candles, strategy>>
download == <<closed, fetched, after, latest, rows>>
vars == <<candles, closed, strategy, pc, fetched, after, latest, rows, index, position,
          account, points, trades, blocked>>

HasAccount == strategy.kind # "momentum"

-----------------------------------------------------------------------------
(* The download.                                                           *)

\* external: a page of history candles, the latest before the given one.
Page(limit) ==
    LET older == {t \in 1 .. closed : after = None \/ t < after}
    IN  {t \in older : Cardinality({u \in older : u > t}) < limit}

SkipsOneBug(batch) == Min(batch) - 1
Oldest(batch) == Min(batch)

\* The rows of the result, sorted by timestamp; evaluation starts behind the
\* warm-up and does not start on too few rows.
Downloaded(found) ==
    /\ rows' = [i \in 1 .. Cardinality(found) |->
                    candles[CHOOSE t \in found : Cardinality({u \in found : u <= t}) = i]]
    /\ index' = Warmup(strategy) + 1
    /\ pc' = IF Cardinality(found) <= Warmup(strategy) THEN "done" ELSE "scan"
    /\ UNCHANGED after

\* The conditions that end the loop after a page.
LastPage(batch, found, requested) ==
    Cardinality(found) >= RowsLimit \/ Cardinality(batch) < requested \/ after = Oldest(batch)

\* The first page is what sets which candles are the latest.
Asked == latest' = IF fetched = {} THEN closed ELSE latest

SamePageBug ==
    /\ pc = "fetch" /\ Asked
    /\ LET requested == Smaller(PageLimit, RowsLimit - Cardinality(fetched))
           found == fetched \union Page(requested)
       IN  /\ fetched' = found
           /\ IF Cardinality(found) >= RowsLimit \/ Cardinality(Page(requested)) < requested
              THEN Downloaded(found) ELSE UNCHANGED <<pc, after, rows, index>>
    /\ UNCHANGED <<market, closed, position, account, points, trades, blocked>>

NewestDroppedBug ==
    /\ pc = "fetch" /\ Asked
    /\ LET requested == Smaller(PageLimit, RowsLimit - Cardinality(fetched))
           batch == Page(requested)
           found == fetched \union {t \in batch : t < closed}
       IN  /\ fetched' = found
           /\ IF LastPage(batch, found, requested) THEN Downloaded(found)
              ELSE after' = Oldest(batch) /\ UNCHANGED <<pc, rows, index>>
    /\ UNCHANGED <<market, closed, position, account, points, trades, blocked>>

FetchPage ==
    /\ pc = "fetch" /\ Asked
    /\ LET requested == Smaller(PageLimit, RowsLimit - Cardinality(fetched))
           batch == Page(requested)
           found == fetched \union batch
       IN  /\ fetched' = found
           /\ IF LastPage(batch, found, requested) THEN Downloaded(found)
              ELSE after' = Oldest(batch) /\ UNCHANGED <<pc, rows, index>>
    /\ UNCHANGED <<market, closed, position, account, points, trades, blocked>>

CandleCloses ==
    /\ pc = "fetch" /\ closed < Periods
    /\ closed' = closed + 1
    /\ UNCHANGED <<market, pc, fetched, after, latest, rows, index, position, account,
                   points, trades, blocked>>

-----------------------------------------------------------------------------
(* The positions of a backtest.                                            *)

Price == rows[index].close

\* What the position gained per unit and per contract.
Gain(p, price) == IF p.side = "short" THEN p.price - price ELSE price - p.price
Pnl(p, price) == Notional(Gain(p, price), p.lots)

\* The rules that close a position at the current candle.
ReturnLimits(p) ==
    \/ 10000 * Gain(p, Price) <= -(strategy.stop * p.price)
    \/ 10000 * Gain(p, Price) >= strategy.take * p.price
HeldLong(p) == index - p.entry >= strategy.hold

Exits(p, signal) ==
    CASE strategy.kind = "vote_trend" ->
            \/ ReturnLimits(p) \/ HeldLong(p)
            \/ signal \in {"long", "short"} \ {p.side}
      [] strategy.kind = "vol_breakout" ->
            \/ BelowTrailingStop(strategy, rows, Greatest(p.highest, Price), index)
            \/ HeldLong(p)
      [] strategy.kind = "momentum" -> ReturnLimits(p) \/ HeldLong(p)

FeeOnceBug(p, price) == Pnl(p, price) - Fee(price, p.lots)
NetPnl(p, price) == Pnl(p, price) - p.fee - Fee(price, p.lots)

MarginKeptBug(p, price) ==
    [equity |-> account.equity + Pnl(p, price) - Fee(price, p.lots),
     available |-> account.available + Pnl(p, price) - Fee(price, p.lots)]

\* _close_position: the account afterwards.
Settled(p, price) ==
    [equity |-> account.equity + Pnl(p, price) - Fee(price, p.lots),
     available |-> account.available + p.margin + Pnl(p, price) - Fee(price, p.lots)]

\* The position closes at the price of the i-th candle.
Closing(i) ==
    /\ trades' = Append(trades, [entry |-> position.entry, exit |-> i,
                                 side |-> position.side,
                                 pnl |-> IF HasAccount THEN NetPnl(position, rows[i].close)
                                         ELSE Pnl(position, rows[i].close)])
    /\ account' = IF HasAccount THEN Settled(position, rows[i].close) ELSE account
    /\ points' = IF HasAccount THEN Append(points, account'.equity) ELSE points
    /\ position' = None

Position(side, lots) ==
    [side |-> side, entry |-> index, price |-> Price, highest |-> Price, lots |-> lots,
     margin |-> Margin(Price, lots), fee |-> Fee(Price, lots)]

\* At least one contract.
RequestedSize ==
    IF account.equity * RequestNum <= LotsPerContract * RequestDen
    THEN [num |-> LotsPerContract, den |-> 1]
    ELSE [num |-> account.equity * RequestNum, den |-> RequestDen]

-----------------------------------------------------------------------------
(* The loop.                                                               *)

AtCandle == pc = "scan" /\ index <= Len(rows)
NextCandle ==
    /\ index' = index + 1
    /\ UNCHANGED <<market, download, pc>>

ReentersBug(signal) ==
    /\ position # None /\ Exits(position, signal)
    /\ Closing(index)
    /\ UNCHANGED <<market, download, pc, index, blocked>>

\* A candle that closes the position opens no other.
Exit(signal) ==
    /\ position # None /\ Exits(position, signal)
    /\ Closing(index)
    /\ NextCandle
    /\ UNCHANGED blocked

\* vote_trend marks the account to the market, vol_breakout moves the stop.
Hold(signal) ==
    /\ position # None /\ ~Exits(position, signal)
    /\ position' = IF strategy.kind # "vol_breakout" THEN position
                   ELSE [position EXCEPT !.highest = Greatest(@, Price)]
    /\ points' = IF strategy.kind # "vote_trend" THEN points
                 ELSE Append(points, account.equity + Pnl(position, Price))
    /\ NextCandle
    /\ UNCHANGED <<account, trades, blocked>>

\* There is nothing to open, or only the last candle to do it at.
Pass(signal) ==
    /\ position = None
    /\ signal = "none" \/ index = Len(rows)
    /\ NextCandle
    /\ UNCHANGED <<position, account, points, trades, blocked>>

\* A momentum backtest takes positions of one unit and keeps no account.
EnterUnsized(side) ==
    /\ ~HasAccount
    /\ position' = [Position(side, 1) EXCEPT !.margin = 0, !.fee = 0]
    /\ UNCHANGED <<account, points, blocked>>

EnterSized(side) ==
    /\ HasAccount
    /\ \E sizing \in OpenOrderSizes(RequestedSize, account.equity, account.available, Price) :
        \/ /\ sizing.block # Unblocked
           /\ blocked' = blocked + 1
           /\ UNCHANGED <<position, account, points>>
        \/ /\ sizing.block = Unblocked
           /\ position' = Position(side, sizing.lots)
           /\ account' = [equity |-> account.equity - position'.fee,
                          available |-> account.available - position'.margin - position'.fee]
           /\ points' = Append(points, account'.equity)
           /\ UNCHANGED blocked

Enter(signal) ==
    /\ position = None /\ signal # "none" /\ index < Len(rows)
    /\ EnterUnsized(signal) \/ EnterSized(signal)
    /\ NextCandle
    /\ UNCHANGED trades

EvaluateCandle ==
    /\ AtCandle
    /\ \E signal \in {Signal(strategy, rows, index)} :
        Exit(signal) \/ Hold(signal) \/ Pass(signal) \/ Enter(signal)

\* Behind the last candle an open position is closed at the last price.
Finish ==
    /\ pc = "scan" /\ index > Len(rows)
    /\ pc' = "done"
    /\ \/ position # None /\ Closing(Len(rows))
       \/ position = None /\ UNCHANGED <<position, account, points, trades>>
    /\ UNCHANGED <<market, download, index, blocked>>

Init ==
    /\ candles \in [1 .. Periods -> Candle]
    /\ closed \in ClosedAtStart
    /\ strategy \in Strategies
    /\ pc = "fetch" /\ fetched = {} /\ after = None /\ latest = 0 /\ rows = <<>> /\ index = 0
    /\ position = None
    /\ account = [equity |-> InitialEquity, available |-> InitialAvailable]
    /\ points = <<InitialEquity>> /\ trades = <<>> /\ blocked = 0

Program == FetchPage \/ EvaluateCandle \/ Finish
Next == Program \/ CandleCloses
Spec == Init /\ [][Next]_vars

\* Each request is answered; the market need not go on.
FairSpec == Spec /\ WF_vars(FetchPage)

-----------------------------------------------------------------------------
(* What the result reports.                                                *)

\* A fraction of equity lost, as num / den.
Worse(a, b) == a.num * b.den > b.num * a.den

StalePeakBug(equities) ==
    LET step(acc, equity) ==
            LET loss == [num |-> acc.peak - equity, den |-> acc.peak]
            IN  [peak |-> equity,
                 worst |-> IF acc.peak > 0 /\ Worse(loss, acc.worst) THEN loss ELSE acc.worst]
    IN  FoldLeft(step, [peak |-> Head(equities), worst |-> [num |-> 0, den |-> 1]],
                 equities).worst

\* _max_drawdown: one pass with the peak so far.
MaxDrawdown(equities) ==
    LET step(acc, equity) ==
            LET peak == Greatest(acc.peak, equity)
                loss == [num |-> peak - equity, den |-> peak]
            IN  [peak |-> peak,
                 worst |-> IF peak > 0 /\ Worse(loss, acc.worst) THEN loss ELSE acc.worst]
    IN  FoldLeft(step, [peak |-> Head(equities), worst |-> [num |-> 0, den |-> 1]],
                 equities).worst

Total(pnls) == FoldLeft(LAMBDA sum, trade : sum + trade.pnl, 0, pnls)

-----------------------------------------------------------------------------
(* Properties.                                                             *)

TypeOK ==
    /\ pc \in {"fetch", "scan", "done"}
    /\ closed \in 0 .. Periods /\ fetched \subseteq 1 .. closed
    /\ after = None \/ after \in fetched
    /\ latest \in 0 .. closed
    /\ Len(rows) <= RowsLimit
    /\ index \in Nat /\ (pc = "scan" => index \in 1 .. Len(rows) + 1)
    /\ position # None => /\ position \in Positions /\ position.entry \in 1 .. Len(rows) - 1
                          /\ position.lots > 0 /\ position.highest >= position.price
    /\ blocked \in Nat

\* The download returns the candles that were the latest when it began, without
\* a gap and as many as there were up to the limit, although candles close
\* between its pages.
FetchedIsLatest ==
    pc # "fetch" =>
        fetched = (IF latest > RowsLimit THEN latest - RowsLimit + 1 ELSE 1) .. latest

\* The download ends, however many candles there are.
DownloadEnds == <>(pc # "fetch")

Open == position # None
OpenFee == IF Open THEN position.fee ELSE 0
OpenMargin == IF Open THEN position.margin ELSE 0

\* The account is the initial one plus the net results of the trades, less
\* what the open position holds: each fee is paid once and every reserved
\* margin comes back.
LedgerBalances ==
    HasAccount =>
        /\ account.equity = InitialEquity + Total(trades) - OpenFee
        /\ account.available = InitialAvailable + Total(trades) - OpenFee - OpenMargin

\* The part of the balance the sizer leaves aside pays for the entry fee; an
\* account with nothing at all left is not checked.
FeesCovered ==
    Open /\ HasAccount /\ account.equity + position.fee > 0 => account.available >= 0

\* Positions never overlap, none opens at the candle that closed the one
\* before or at the last candle, none outlives the longest hold, and none is
\* left open.
TradesInOrder ==
    /\ \A i \in DOMAIN trades :
        /\ trades[i].entry < trades[i].exit /\ trades[i].entry < Len(rows)
        /\ trades[i].exit - trades[i].entry <= strategy.hold
        /\ i > 1 => trades[i - 1].exit < trades[i].entry
    /\ pc = "done" => ~Open

\* How far two averages may be apart that end with the same values but began at
\* different ones: what is left of the difference where the shorter begins.
Leftover(values, others, period) ==
    LET all == Range(values) \union Range(others)
        n == Smaller(Len(values), Len(others))
    IN  [num |-> (Max(all) - Min(all)) * (period - 1) ^ (n - 1), den |-> (period + 1) ^ (n - 1)]

Plus(d, e) == [num |-> d.num * e.den + e.num * d.den, den |-> d.den * e.den]

\* num / den is less than the doubt away from zero.
Within(num, den, doubt) == Abs(num) * doubt.den <= doubt.num * den

\* The averages a strategy compares, on seen or on others: one of
\* the comparisons is so close that the other candles may turn it.
InDoubt(p, seen, others) ==
    LET closes == Closes(seen)
        theirs == Closes(others)
        v == View(p, seen, Len(seen))
        slow == Leftover(closes, theirs, p.slow)
        trend == Leftover(closes, theirs, p.ema)
        ema == Ema(closes, p.ema)
        atr == Ema(Front(TrueRanges(seen)), p.atr)
        ranges == Leftover(Front(TrueRanges(seen)), Front(TrueRanges(others)), p.atr)
    IN  \/ /\ p.kind = "vote_trend"
           /\ \/ Within(v.close * v.slow.den - v.slow.num, v.slow.den, slow)
              \/ Within(v.fast.num * v.slow.den - v.slow.num * v.fast.den,
                        v.fast.den * v.slow.den, Plus(Leftover(closes, theirs, p.fast), slow))
              \/ Within(v.gain.num - v.loss.num, v.gain.den,
                        Plus(Leftover(Gains(closes), Gains(theirs), RsiPeriod),
                             Leftover(Losses(closes), Losses(theirs), RsiPeriod)))
        \/ /\ p.kind = "vol_breakout"
           /\ \/ Within(Last(closes) * ema.den - ema.num, ema.den, trend)
              \/ Within(10 * (Last(closes) - Last(Front(closes))) * atr.den - p.k * atr.num,
                        atr.den, [ranges EXCEPT !.num = p.k * @])

\* At each candle the trader opens and /entrygap shows what the backtest opens,
\* although they see fewer candles before it, or more: they differ only where
\* an average is so close to what it is compared with that its first value
\* still counts.
SignalsDifferInDoubt ==
    AtCandle /\ HasAccount /\ LiveRowsLimit(strategy) > Warmup(strategy) =>
        LET seen == SubSeq(rows, 1, index)
            live == LiveRows(strategy, candles, Min(fetched) + index - 1)
            side == Signal(strategy, rows, index)
        IN  \/ /\ LiveSide(strategy, live) = side
               /\ ReportsReady(strategy, live) <=> side # "none"
            \/ InDoubt(strategy, seen, live)

\* The drawdown that vote_trend and vol_breakout report is the largest loss from
\* the highest equity before.  Momentum adds up the results of its trades, which
\* is not modelled: it has no equity, so there is nothing to say of it here.
DrawdownIsWorst ==
    pc = "done" =>
        LET loss(j) == LET peak == Max({points[i] : i \in 1 .. j})
                       IN  [num |-> peak - points[j], den |-> peak]
            reported == MaxDrawdown(points)
        IN  /\ \A j \in DOMAIN points : ~Worse(loss(j), reported)
            /\ \E j \in DOMAIN points : ~Worse(reported, loss(j))

\* An entry is refused only when the margin does not pay for the minimum of
\* one contract.
RefusedOnlyWhenShort ==
    [][blocked' > blocked =>
        100 * Margin(Price, LotsPerContract) > account.available * MarginPercent]_vars
=============================================================================
