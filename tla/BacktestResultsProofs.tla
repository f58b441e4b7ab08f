----------------------- MODULE BacktestResultsProofs -----------------------
(***************************************************************************)
(* Theorems about what a backtest reports: its types, the ledger and the   *)
(* drawdown.                                                               *)
(***************************************************************************)
EXTENDS BacktestsProofs, FoldFacts

-----------------------------------------------------------------------------
(* The sum of the results.                                                  *)

Trade == [entry: Nat, exit: Nat, side: {"long", "short"}, pnl: Int]

\* The step of the sum, on the trades of s.
AddPnl(s) == [p \in Int \X (1 .. Len(s)) |-> p[1] + s[p[2]].pnl]

LEMMA TotalRun ==
    ASSUME NEW s \in Seq(Trade)
    PROVE  \E r : Run(r, Int, 0, Len(s), AddPnl(s)) /\ Total(s) = r[Len(s)]
  <1> DEFINE n == Len(s)
             g == AddPnl(s)
             Sums(iter) == iter = [S \in SUBSET DOMAIN s |->
                              IF S = {} THEN 0 ELSE iter[S \ {Max(S)}] + s[Max(S)].pnl]
             iter == CHOOSE it : Sums(it)
  <1>1. n \in Nat /\ DOMAIN s = 1 .. n /\ 0 \in Int /\ \A i \in 1 .. n : s[i].pnl \in Int
    <2>1. n \in Nat /\ DOMAIN s = 1 .. n
      OBVIOUS
    <2>2. ASSUME NEW i \in 1 .. n
          PROVE  s[i].pnl \in Int
      <3>1. s[i] \in Trade
        BY <2>1, ElementOfSeq
      <3> QED
        BY <3>1 DEF Trade
    <2> QED
      BY <2>1, <2>2
  <1>2. g \in [Int \X (1 .. n) -> Int]
    BY <1>1 DEF AddPnl
  <1>3. Total(s) = iter[DOMAIN s]
    BY DEF Total, FoldLeft, MapThenFoldSet
  <1>4. PICK h : Fold(h, Int, 0, n, g)
    <2> HIDE DEF g, n
    <2> QED
      BY <1>1, <1>2, FoldExists
  <1>5. Sums(h)
    <2>1. \A S \in SUBSET (1 .. n) : h[S] = IF S = {} THEN 0 ELSE h[S \ {Max(S)}] + s[Max(S)].pnl
      <3> TAKE S \in SUBSET (1 .. n)
      <3>1. CASE S = {}
        BY <1>4, <3>1 DEF Fold
      <3>2. CASE S # {}
        <4>1. Max(S) \in 1 .. n /\ S \ {Max(S)} \in SUBSET (1 .. n)
          BY <1>1, <3>2, Greatest1N
        <4>2. h[S \ {Max(S)}] \in Int /\ h[S] = g[<<h[S \ {Max(S)}], Max(S)>>]
          BY <1>4, <3>2, <4>1 DEF Fold
        <4> QED
          BY <3>2, <4>1, <4>2 DEF AddPnl
      <3> QED
        BY <3>1, <3>2
    <2> QED
      BY <1>1, <1>4, <2>1 DEF Fold
  <1>6. Sums(iter)
    BY <1>5
  <1>7. PICK r : Run(r, Int, 0, n, g)
    <2> HIDE DEF g, n
    <2> QED
      BY <1>1, <1>2, RunExists
  <1> HIDE DEF iter
  <1>8. iter[{}] = 0
    BY <1>1, <1>6
  <1>9. ASSUME NEW S \in SUBSET (1 .. n), S # {}, iter[S \ {Max(S)}] \in Int
        PROVE  iter[S] = g[<<iter[S \ {Max(S)}], Max(S)>>]
    <2>1. Max(S) \in 1 .. n
      BY <1>1, <1>9, Greatest1N
    <2>2. iter[S] = iter[S \ {Max(S)}] + s[Max(S)].pnl
      BY <1>1, <1>6, <1>9
    <2> QED
      BY <1>9, <2>1, <2>2 DEF AddPnl
  <1> HIDE DEF g, Sums, n
  <1>10. Follows(iter, Int, 0, n, g)
    BY <1>8, <1>9 DEF Follows
  <1>11. iter[1 .. n] = r[n]
    <2> DEFINE A == Int
               base == 0
    <2>1. base \in A /\ Run(r, A, base, n, g) /\ Follows(iter, A, base, n, g)
      BY <1>1, <1>7, <1>10
    <2> HIDE DEF A, base
    <2> QED
      BY <1>1, <2>1, FoldValue
  <1> QED
    BY <1>1, <1>3, <1>7, <1>11 DEF n, g


LEMMA TotalIs ==
    ASSUME NEW s \in Seq(Trade)
    PROVE  Total(s) \in Int
  <1>1. PICK r : Run(r, Int, 0, Len(s), AddPnl(s)) /\ Total(s) = r[Len(s)]
    BY TotalRun
  <1>2. Len(s) \in 0 .. Len(s)
    OBVIOUS
  <1> QED
    BY <1>1, <1>2 DEF Run
\* The sum so far plus the next.
LEMMA TotalAppend ==
    ASSUME NEW s \in Seq(Trade), NEW trade \in Trade
    PROVE  Total(s) \in Int /\ Total(Append(s, trade)) = Total(s) + trade.pnl
  <1> DEFINE n == Len(s)
             longer == Append(s, trade)
  <1>1. /\ n \in Nat /\ longer \in Seq(Trade) /\ Len(longer) = n + 1
        /\ longer[n + 1] = trade /\ \A i \in 1 .. n : longer[i] = s[i]
    BY AppendProperties
  <1>2. PICK r : Run(r, Int, 0, n, AddPnl(s)) /\ Total(s) = r[n]
    BY TotalRun
  <1> HIDE DEF longer
  <1>3. PICK q : Run(q, Int, 0, Len(longer), AddPnl(longer)) /\ Total(longer) = q[Len(longer)]
    BY <1>1, TotalRun
  <1> HIDE DEF n
  <1>4. /\ q[0] = 0 /\ \A i \in 0 .. n : q[i] \in Int
        /\ \A i \in 1 .. n + 1 : q[i] = AddPnl(longer)[<<q[i - 1], i>>]
    <2> DEFINE g == AddPnl(longer)
    <2>1. Run(q, Int, 0, n + 1, g)
      BY <1>1, <1>3
    <2> HIDE DEF g
    <2>2. q[0] = 0 /\ q \in [0 .. n + 1 -> Int]
      BY <2>1 DEF Run
    <2>3. \A i \in 1 .. n + 1 : q[i] = g[<<q[i - 1], i>>]
      BY <2>1 DEF Run
    <2> QED
      BY <1>1, <2>2, <2>3 DEF g
  <1>5. ASSUME NEW i \in 1 .. n
        PROVE  q[i] = AddPnl(s)[<<q[i - 1], i>>]
    <2>1. q[i - 1] \in Int /\ i \in 1 .. n + 1 /\ longer[i].pnl = s[i].pnl
      BY <1>1, <1>4
    <2>2. q[i] = q[i - 1] + longer[i].pnl
      BY <1>1, <1>4, <2>1 DEF AddPnl
    <2>3. AddPnl(s)[<<q[i - 1], i>>] = q[i - 1] + s[i].pnl
      BY <2>1 DEF AddPnl, n
    <2> QED
      BY <2>1, <2>2, <2>3
  <1>6. \A i \in 0 .. n : q[i] = r[i]
    <2> DEFINE A == Int
               base == 0
               g == AddPnl(s)
    <2>1. base \in A /\ Run(r, A, base, n, g) /\ q[0] = base
      BY <1>2, <1>4
    <2>2. \A i \in 1 .. n : q[i - 1] \in A => q[i] = g[<<q[i - 1], i>>]
      BY <1>5
    <2> HIDE DEF A, base, g
    <2> QED
      BY <1>1, <2>1, <2>2, RunUnique
  <1>7. q[n] = r[n] /\ q[n] \in Int
    BY <1>1, <1>4, <1>6
  <1>8. q[n + 1] = q[n] + trade.pnl
    <2>1. PICK i \in 1 .. n + 1 : i = n + 1
      BY <1>1
    <2>2. q[i] = AddPnl(longer)[<<q[i - 1], i>>]
      BY <1>4
    <2>3. i - 1 = n
      BY <1>1, <2>1
    <2>4. q[i] = AddPnl(longer)[<<q[n], i>>]
      BY <2>2, <2>3
    <2> QED
      BY <1>1, <1>7, <2>1, <2>4 DEF AddPnl
  <1> QED
    BY <1>1, <1>2, <1>3, <1>7, <1>8 DEF longer

LEMMA TotalEmpty == Total(<<>>) = 0
  <1>1. <<>> \in Seq(Trade) /\ Len(<<>>) = 0
    OBVIOUS
  <1>2. PICK r : Run(r, Int, 0, 0, AddPnl(<<>>)) /\ Total(<<>>) = r[0]
    BY <1>1, TotalRun
  <1> QED
    BY <1>2 DEF Run

-----------------------------------------------------------------------------
(* What the program keeps.                                                  *)

\* The account, the equity points and the trades hold numbers.
Books ==
    /\ account.equity \in Int /\ account.available \in Int
    /\ trades \in Seq(Trade)
    /\ points \in Seq(Int) /\ Len(points) >= 1 /\ points[1] = InitialEquity

\* An open position is of a positive size and has a price it has not fallen
\* behind of.
Holding ==
    position # None =>
        /\ position \in Positions /\ position.entry >= 1
        /\ position.highest >= position.price /\ position.lots > 0

LEMMA GainIs ==
    ASSUME NEW p, p.price \in Int, p.lots \in Int, NEW price \in Int
    PROVE  Pnl(p, price) \in Int /\ Fee(price, p.lots) \in Int
  <1>1. Gain(p, price) \in Int
    BY DEF Gain
  <1> QED
    BY <1>1, Amounts DEF Pnl

\* A position that closes: its result is booked, its margin comes back.
LEMMA ClosingBooks ==
    ASSUME Scanning, Books, Holding, LedgerBalances, position # None,
           NEW i \in 1 .. Len(rows), Closing(i), UNCHANGED strategy
    PROVE  Books' /\ Holding' /\ LedgerBalances'
  <1> DEFINE close == rows[i].close
             gain == Pnl(position, close)
             fee == Fee(close, position.lots)
             pnl == IF HasAccount THEN gain - position.fee - fee ELSE gain
             trade == [entry |-> position.entry, exit |-> i, side |-> position.side, pnl |-> pnl]
  <1>1. /\ position' = None /\ trades' = Append(trades, trade)
        /\ account' = IF HasAccount THEN Settled(position, close) ELSE account
        /\ points' = IF HasAccount THEN Append(points, account'.equity) ELSE points
        /\ HasAccount' = HasAccount
    BY DEF Closing, NetPnl, HasAccount
  <1>2. close \in Int /\ i \in Nat
    BY CloseIs
  <1> HIDE DEF close
  <1>3. /\ gain \in Int /\ fee \in Int /\ position.fee \in Int /\ position.margin \in Int
        /\ position.entry \in Nat /\ position.side \in {"long", "short"}
    <2>1. /\ position.price \in Int /\ position.lots \in Int
          /\ position.fee \in Int /\ position.margin \in Int
          /\ position.entry \in Nat /\ position.side \in {"long", "short"}
      BY DEF Holding, Positions
    <2>2. gain \in Int /\ fee \in Int
      BY <1>2, <2>1, GainIs
    <2> QED
      BY <2>1, <2>2
  <1>4. HasAccount => /\ account'.equity = account.equity + gain - fee
                      /\ account'.available = account.available + position.margin + gain - fee
    BY <1>1 DEF Settled
  <1> HIDE DEF gain, fee
  <1>5. pnl \in Int
    BY <1>3
  <1> HIDE DEF pnl
  <1>6. trade \in Trade /\ trade.pnl = pnl
    BY <1>2, <1>3, <1>5 DEF Trade
  <1> HIDE DEF trade
  <1>7. /\ trades' \in Seq(Trade) /\ Total(trades) \in Int
        /\ Total(trades') = Total(trades) + pnl
    BY <1>1, <1>6, TotalAppend, AppendProperties DEF Books
  <1>8. account'.equity \in Int /\ account'.available \in Int
    <2>1. account.equity \in Int /\ account.available \in Int
      BY DEF Books
    <2>2. CASE HasAccount
      BY <1>3, <1>4, <2>1, <2>2
    <2>3. CASE ~HasAccount
      BY <1>1, <2>1, <2>3
    <2> QED
      BY <2>2, <2>3
  <1>9. points' \in Seq(Int) /\ Len(points') >= 1 /\ points'[1] = InitialEquity
    <2>1. CASE HasAccount
      <3>1. points' = Append(points, account'.equity)
        BY <1>1, <2>1
      <3> QED
        BY <1>8, <3>1, AppendProperties DEF Books
    <2>2. CASE ~HasAccount
      BY <1>1, <2>2 DEF Books
    <2> QED
      BY <2>1, <2>2
  <1>10. LedgerBalances'
    <2>1. SUFFICES ASSUME HasAccount
                   PROVE  /\ account'.equity = InitialEquity + Total(trades')
                          /\ account'.available = InitialAvailable + Total(trades')
      <3>1. OpenFee' = 0 /\ OpenMargin' = 0
        BY <1>1 DEF OpenFee, OpenMargin, Open
      <3>2. Total(trades') \in Int /\ InitialEquity \in Int /\ InitialAvailable \in Int
        BY <1>5, <1>7, BacktestConstants
      <3> QED
        BY <1>1, <3>1, <3>2 DEF LedgerBalances
    <2>2. /\ account.equity = InitialEquity + Total(trades) - position.fee
          /\ account.available = InitialAvailable + Total(trades) - position.fee - position.margin
      BY <2>1 DEF LedgerBalances, OpenFee, OpenMargin, Open
    <2>3. pnl = gain - position.fee - fee
      BY <2>1 DEF pnl
    <2>4. InitialEquity \in Int /\ InitialAvailable \in Int
      BY BacktestConstants
    <2> DEFINE total == Total(trades)
               margin == position.margin
               paid == position.fee
    <2>5. /\ total \in Int /\ margin \in Int /\ paid \in Int
          /\ account'.equity = InitialEquity + total - paid + gain - fee
          /\ account'.available = InitialAvailable + total - paid - margin + margin + gain - fee
          /\ Total(trades') = total + (gain - paid - fee)
      BY <1>3, <1>4, <1>7, <2>1, <2>2, <2>3
    <2> HIDE DEF total, margin, paid
    <2> QED
      BY <1>3, <2>4, <2>5
  <1> QED
    BY <1>1, <1>7, <1>8, <1>9, <1>10 DEF Books, Holding

LEMMA AmountsAreNat ==
    ASSUME NEW price \in Nat, NEW lots \in Nat
    PROVE  Margin(price, lots) \in Nat /\ Fee(price, lots) \in Nat
  <1>1. Leverage \in Nat /\ FeeDen \in Nat /\ FeeNum \in Nat
    BY SizerConstants
  <1>2. price * lots \in Nat
    OBVIOUS
  <1> DEFINE x == price * lots
  <1>3. x * FeeDen \in Nat /\ x * Leverage \in Nat
    <2> HIDE DEF x
    <2> QED
      BY <1>1, <1>2 DEF x
  <1> DEFINE y == x * Leverage
  <1>4. y * FeeNum \in Nat
    <2> HIDE DEF y
    <2> QED
      BY <1>1, <1>3 DEF y
  <1> QED
    BY <1>3, <1>4 DEF Margin, Fee

\* At least one contract is requested, so there is something to open.
LEMMA LotsArePositive ==
    ASSUME account.equity \in Int, account.available \in Int, NEW price \in Nat \ {0},
           NEW sizing \in OpenOrderSizes(RequestedSize, account.equity, account.available, price),
           sizing.block = Unblocked
    PROVE  sizing.lots \in Int /\ sizing.lots > 0
  <1> DEFINE equity == account.equity
             available == account.available
  <1>1. equity \in Int /\ available \in Int
    OBVIOUS
  <1>2. /\ RequestedSize.num \in Int /\ RequestedSize.den \in Nat \ {0}
        /\ LotsPerContract \in Nat \ {0}
    BY RequestIs, SizerConstants
  <1>3. CASE equity > 0 \/ available > 0
    <2>1. sizing \in OpenOrderSizes(RequestedSize, equity, available, price)
      OBVIOUS
    <2> HIDE DEF equity, available
    <2>2. sizing.lots \in Int /\ sizing.lots >= LotsPerContract
      BY <1>1, <1>2, <1>3, <2>1, SizeFits
    <2> QED
      BY <1>2, <2>2
  <1>4. CASE equity <= 0 /\ available <= 0
    <2> DEFINE requested == RequestedSize
    <2>1. requested.num \in Int /\ requested.den \in Nat \ {0}
      BY <1>2
    <2>2. sizing \in OpenOrderSizes(requested, equity, available, price)
      OBVIOUS
    <2> HIDE DEF requested, equity, available
    <2>3. sizing.lots = requested.num \div requested.den
      BY <1>1, <1>4, <2>1, <2>2, LotsAreWhole
    <2>4. RequestedSize = [num |-> LotsPerContract, den |-> 1]
      <3> DEFINE a == equity * RequestNum
                 b == LotsPerContract * RequestDen
      <3>1. RequestNum \in Nat /\ RequestDen \in Nat
        BY BacktestConstants
      <3>2. a \in Int /\ a <= 0
        BY <1>1, <1>4, <3>1
      <3>3. b \in Nat
        BY <1>2, <3>1
      <3>4. RequestedSize = IF a <= b THEN [num |-> LotsPerContract, den |-> 1]
                            ELSE [num |-> a, den |-> RequestDen]
        BY DEF RequestedSize, equity
      <3> HIDE DEF a, b
      <3> QED
        BY <3>2, <3>3, <3>4
    <2>5. LotsPerContract \div 1 = LotsPerContract
      BY <1>2
    <2> QED
      BY <1>2, <2>3, <2>4, <2>5 DEF requested
  <1> QED
    BY <1>1, <1>3, <1>4

\* An entry pays its fee and reserves its margin.
LEMMA EnterBooks ==
    ASSUME Scanning, Books, Holding, LedgerBalances, AtCandle,
           NEW signal \in {"long", "short", "none"}, Enter(signal)
    PROVE  Books' /\ Holding' /\ LedgerBalances'
  <1>1. /\ UNCHANGED <<strategy, trades>> /\ position = None /\ HasAccount' = HasAccount
        /\ signal \in {"long", "short"}
    BY DEF Enter, NextCandle, market, HasAccount
  <1>2. Price \in Nat \ {0} /\ index \in Nat \ {0}
    <2>1. index \in 1 .. Len(rows)
      BY DEF AtCandle, Scanning
    <2> QED
      BY <2>1, CloseIs DEF Price
  <1>3. /\ account.equity \in Int /\ account.available \in Int
        /\ InitialEquity \in Int /\ InitialAvailable \in Int
    BY BacktestConstants DEF Books
  <1>4. CASE EnterUnsized(signal)
    <2>1. /\ ~HasAccount /\ UNCHANGED <<account, points>>
          /\ position'.side = signal /\ position'.entry = index
          /\ position'.price = Price /\ position'.highest = Price
          /\ position'.lots = 1 /\ position'.margin = 0 /\ position'.fee = 0
      BY <1>4 DEF EnterUnsized, Position
    <2>2. Books' /\ LedgerBalances'
      BY <1>1, <2>1 DEF Books, LedgerBalances
    <2>3. position' \in Positions
      BY <1>1, <1>2, <1>4 DEF EnterUnsized, Position, Positions
    <2>4. Holding'
      BY <1>1, <1>2, <2>1, <2>3 DEF Holding
    <2> QED
      BY <2>2, <2>4
  <1>5. ASSUME NEW sizing \in OpenOrderSizes(RequestedSize, account.equity, account.available, Price),
               HasAccount, sizing.block = Unblocked, position' = Position(signal, sizing.lots),
               account' = [equity |-> account.equity - position'.fee,
                           available |-> account.available - position'.margin - position'.fee],
               points' = Append(points, account'.equity)
        PROVE  Books' /\ Holding' /\ LedgerBalances'
    <2> DEFINE lots == sizing.lots
               price == Price
               margin == Margin(price, lots)
               fee == Fee(price, lots)
    <2>1. lots \in Int /\ lots > 0
      BY <1>2, <1>3, <1>5, LotsArePositive
    <2>2. /\ position'.side = signal /\ position'.entry = index
          /\ position'.price = price /\ position'.highest = price
          /\ position'.lots = lots /\ position'.margin = margin /\ position'.fee = fee
      BY <1>5 DEF Position
    <2> HIDE DEF lots
    <2>3. price \in Nat \ {0} /\ lots \in Nat
      BY <1>2, <2>1
    <2> HIDE DEF price
    <2>4. margin \in Nat /\ fee \in Nat
      BY <2>3, AmountsAreNat
    <2> HIDE DEF margin, fee
    <2>5. /\ account'.equity = account.equity - fee
          /\ account'.available = account.available - margin - fee
      BY <1>5, <2>2
    <2>6. account'.equity \in Int /\ account'.available \in Int
      BY <1>3, <2>4, <2>5
    <2>7. points' \in Seq(Int) /\ Len(points') >= 1 /\ points'[1] = InitialEquity
      BY <1>5, <2>6, AppendProperties DEF Books
    <2>8. position' \in Positions /\ Holding'
      <3>1. position' = [side |-> signal, entry |-> index, price |-> price, highest |-> price,
                         lots |-> lots, margin |-> margin, fee |-> fee]
        BY <1>5 DEF Position, price, lots, margin, fee
      <3>2. position' \in Positions
        BY <1>1, <1>2, <2>3, <2>4, <3>1 DEF Positions
      <3> QED
        BY <1>1, <1>2, <2>1, <2>2, <2>3, <3>2 DEF Holding
    <2>9. LedgerBalances'
      <3>1. position' # None
        BY <2>8, BacktestConstants
      <3>2. OpenFee' = fee /\ OpenMargin' = margin /\ OpenFee = 0 /\ OpenMargin = 0
        BY <1>1, <2>2, <3>1 DEF OpenFee, OpenMargin, Open
      <3> DEFINE total == Total(trades)
      <3>3. total \in Int /\ Total(trades') = total
        BY <1>1, TotalIs DEF Books
      <3>4. account.equity = InitialEquity + total - 0 /\ account.available = InitialAvailable + total - 0 - 0
        BY <1>5, <3>2 DEF LedgerBalances
      <3> HIDE DEF total
      <3>5. /\ account'.equity = InitialEquity + total - fee
            /\ account'.available = InitialAvailable + total - fee - margin
        BY <1>3, <2>4, <2>5, <3>3, <3>4
      <3> QED
        BY <3>2, <3>3, <3>5 DEF LedgerBalances
    <2> QED
      BY <1>1, <2>6, <2>7, <2>8, <2>9 DEF Books
  <1>6. CASE EnterSized(signal)
    <2>1. PICK sizing \in OpenOrderSizes(RequestedSize, account.equity, account.available, Price) :
            \/ sizing.block # Unblocked /\ UNCHANGED <<position, account, points>>
            \/ /\ sizing.block = Unblocked /\ position' = Position(signal, sizing.lots)
               /\ account' = [equity |-> account.equity - position'.fee,
                              available |-> account.available - position'.margin - position'.fee]
               /\ points' = Append(points, account'.equity)
      BY <1>6 DEF EnterSized
    <2>2. CASE UNCHANGED <<position, account, points>>
      BY <1>1, <2>2 DEF Books, Holding, LedgerBalances, OpenFee, OpenMargin, Open
    <2>3. HasAccount
      BY <1>6 DEF EnterSized
    <2> QED
      BY <1>5, <2>1, <2>2, <2>3
  <1> QED
    BY <1>4, <1>6 DEF Enter

LEMMA HoldBooks ==
    ASSUME Scanning, Books, Holding, LedgerBalances, AtCandle, NEW signal, Hold(signal)
    PROVE  Books' /\ Holding' /\ LedgerBalances'
  <1>1. /\ UNCHANGED <<strategy, account, trades>> /\ position # None /\ HasAccount' = HasAccount
        /\ points' = IF strategy.kind # "vote_trend" THEN points
                     ELSE Append(points, account.equity + Pnl(position, Price))
        /\ position' = IF strategy.kind # "vol_breakout" THEN position
                       ELSE [position EXCEPT !.highest = Greatest(@, Price)]
    BY DEF Hold, NextCandle, market, HasAccount
  <1>2. Price \in Nat \ {0}
    <2>1. index \in 1 .. Len(rows)
      BY DEF AtCandle, Scanning
    <2> QED
      BY <2>1, CloseIs DEF Price
  <1> DEFINE price == Price
             highest == Greatest(position.highest, price)
  <1>3. /\ position \in Positions /\ position.price \in Nat /\ position.highest \in Nat
        /\ position.lots \in Int /\ position.lots > 0 /\ position.highest >= position.price
        /\ position.entry \in Nat /\ position.entry >= 1
    BY <1>1 DEF Holding, Positions
  <1>4. highest \in Nat /\ highest >= position.price
    <2> HIDE DEF price
    <2> QED
      BY <1>2, <1>3 DEF Greatest, price
  <1>5. Pnl(position, price) \in Int
    <2>1. price \in Int /\ position.price \in Int
      BY <1>2, <1>3
    <2> HIDE DEF price
    <2> QED
      BY <1>3, <2>1, GainIs
  <1>6. Holding' /\ position' # None
    <2>1. CASE strategy.kind # "vol_breakout"
      BY <1>1, <2>1 DEF Holding
    <2>2. CASE strategy.kind = "vol_breakout"
      <3>1. position' = [position EXCEPT !.highest = highest]
        BY <1>1, <2>2
      <3> HIDE DEF highest
      <3>2. /\ position' \in Positions /\ position'.highest = highest
            /\ position'.price = position.price /\ position'.entry = position.entry
            /\ position'.lots = position.lots
        BY <1>3, <1>4, <3>1 DEF Positions
      <3>3. Holding'
        BY <1>3, <1>4, <3>2 DEF Holding
      <3> QED
        BY <3>2, <3>3, BacktestConstants
    <2> QED
      BY <2>1, <2>2
  <1>7. position'.fee = position.fee /\ position'.margin = position.margin
    BY <1>1, <1>3 DEF Positions
  <1>8. LedgerBalances'
    <2>1. OpenFee' = OpenFee /\ OpenMargin' = OpenMargin
      BY <1>1, <1>6, <1>7 DEF OpenFee, OpenMargin, Open
    <2>2. Total(trades') = Total(trades)
      BY <1>1
    <2> QED
      BY <1>1, <2>1, <2>2 DEF LedgerBalances
  <1>9. points' \in Seq(Int) /\ Len(points') >= 1 /\ points'[1] = InitialEquity
    <2>1. CASE strategy.kind # "vote_trend"
      BY <1>1, <2>1 DEF Books
    <2>2. CASE strategy.kind = "vote_trend"
      <3> DEFINE point == account.equity + Pnl(position, price)
      <3>1. points' = Append(points, point)
        BY <1>1, <2>2
      <3>2. point \in Int
        <4> DEFINE gain == Pnl(position, price)
        <4>1. account.equity \in Int /\ gain \in Int
          BY <1>5 DEF Books
        <4> HIDE DEF gain
        <4> QED
          BY <4>1 DEF gain
      <3> HIDE DEF point
      <3> QED
        BY <3>1, <3>2, AppendProperties DEF Books
    <2> QED
      BY <2>1, <2>2
  <1> QED
    BY <1>1, <1>6, <1>8, <1>9 DEF Books

\* What a candle's signal can be.
LEMMA SignalIs ==
    ASSUME Scanning
    PROVE  Signal(strategy, rows, index) \in {"long", "short", "none"}
  <1>1. \A p, v : SideOf(p, v) \in {"long", "short", "none"}
    BY DEF SideOf
  <1> QED
    BY <1>1, Kinds DEF Signal

LEMMA StepBooks ==
    ASSUME Scanning, Books, Holding, LedgerBalances, [Next]_vars
    PROVE  Books' /\ Holding' /\ LedgerBalances'
  <1>1. ASSUME UNCHANGED <<strategy, position, account, points, trades>>
        PROVE  Books' /\ Holding' /\ LedgerBalances'
    BY <1>1 DEF Books, Holding, LedgerBalances, OpenFee, OpenMargin, Open, HasAccount
  <1>2. CASE FetchPage
    BY <1>1, <1>2 DEF FetchPage, market
  <1>3. CASE CandleCloses
    BY <1>1, <1>3 DEF CandleCloses, market
  <1>4. ASSUME NEW signal, AtCandle, Exit(signal)
        PROVE  Books' /\ Holding' /\ LedgerBalances'
    <2>1. position # None /\ Closing(index) /\ UNCHANGED strategy
      BY <1>4 DEF Exit, NextCandle, market
    <2>2. index \in 1 .. Len(rows)
      BY <1>4 DEF AtCandle, Scanning
    <2> QED
      BY <2>1, <2>2, ClosingBooks
  <1>5. ASSUME NEW signal, Pass(signal)
        PROVE  Books' /\ Holding' /\ LedgerBalances'
    BY <1>1, <1>5 DEF Pass, NextCandle, market
  <1>6. CASE EvaluateCandle
    <2>1. PICK signal \in {"long", "short", "none"} :
            Exit(signal) \/ Hold(signal) \/ Pass(signal) \/ Enter(signal)
      BY <1>6, SignalIs DEF EvaluateCandle
    <2>2. AtCandle
      BY <1>6 DEF EvaluateCandle
    <2> QED
      BY <1>4, <1>5, <2>1, <2>2, HoldBooks, EnterBooks
  <1>7. CASE Finish
    <2>1. UNCHANGED strategy
      BY <1>7 DEF Finish, market
    <2>2. CASE position # None /\ Closing(Len(rows))
      <3>1. Len(rows) \in 1 .. Len(rows)
        BY <2>2 DEF Scanning
      <3> QED
        BY <2>1, <2>2, <3>1, ClosingBooks
    <2>3. CASE position = None /\ UNCHANGED <<position, account, points, trades>>
      BY <1>1, <2>1, <2>3
    <2> QED
      BY <1>7, <2>2, <2>3 DEF Finish
  <1>8. CASE UNCHANGED vars
    BY <1>1, <1>8 DEF vars
  <1> QED
    BY <1>2, <1>3, <1>6, <1>7, <1>8 DEF Next, Program

LEMMA InitBooks ==
    ASSUME Init
    PROVE  Books /\ Holding /\ LedgerBalances
  <1>1. /\ account.equity = InitialEquity /\ account.available = InitialAvailable
        /\ points = <<InitialEquity>> /\ trades = <<>> /\ position = None
        /\ InitialEquity \in Int /\ InitialAvailable \in Int
    BY BacktestConstants DEF Init
  <1>2. trades \in Seq(Trade)
    BY <1>1
  <1>3. points \in Seq(Int) /\ Len(points) >= 1 /\ points[1] = InitialEquity
    BY <1>1
  <1>4. LedgerBalances
    BY <1>1, TotalEmpty DEF LedgerBalances, OpenFee, OpenMargin, Open
  <1> QED
    BY <1>1, <1>2, <1>3, <1>4 DEF Books, Holding

LEMMA Kept == Spec => [](Books /\ Holding /\ LedgerBalances)
  <1>1. Init => Books /\ Holding /\ LedgerBalances
    BY InitBooks
  <1>2. /\ Fetching /\ InOrder /\ Scanning
        /\ Books /\ Holding /\ LedgerBalances /\ [Next]_vars
        => (Books /\ Holding /\ LedgerBalances)'
    BY StepBooks
  <1> QED
    BY <1>1, <1>2, Evaluated, PTL DEF Spec

\* For every market, strategy and fee: the account of a backtest is the initial
\* one plus what its trades brought, less what the open position holds.
THEOREM LedgerKept == Spec => []LedgerBalances
  BY Kept, PTL

-----------------------------------------------------------------------------
(* Types.                                                                   *)

\* The rest of the types: what was downloaded is within the limit.
Loaded ==
    /\ after = None \/ after \in fetched
    /\ Len(rows) <= RowsLimit /\ blocked \in Nat

\* The rows of a download that has ended are at most as many as the limit.
LEMMA FetchLoaded ==
    ASSUME Fetching, Scanning, Loaded, FetchPage
    PROVE  Loaded'
  <1> DEFINE requested == Smaller(PageLimit, RowsLimit - Cardinality(fetched))
             batch == Page(requested)
             found == fetched \union batch
  <1>1. /\ fetched' = found /\ blocked' = blocked
        /\ IF LastPage(batch, found, requested) THEN Downloaded(found)
           ELSE after' = Oldest(batch) /\ UNCHANGED <<pc, rows, index>>
    BY DEF FetchPage
  <1>2. Fetching' /\ (pc' # "fetch" => Downloaded(fetched')) /\ pc = "fetch"
    BY FetchStep DEF FetchPage
  <1> HIDE DEF batch, requested
  <1>3. CASE LastPage(batch, found, requested)
    <2>1. Downloaded(fetched') /\ after' = after
      <3> HIDE DEF found
      <3>1. fetched' = found /\ Downloaded(found)
        BY <1>1, <1>3
      <3>2. after' = after
        BY <3>1 DEF Downloaded
      <3> QED
        BY <3>1, <3>2
    <2>2. after' = None \/ after' \in fetched'
      BY <1>1, <2>1 DEF Loaded
    <2>3. pc' # "fetch"
      BY <2>1 DEF Downloaded
    <2>4. PICK newest \in 0 .. closed' : fetched' = Latest(newest) .. newest
      BY <1>2, <2>3 DEF Fetching
    <2>5. newest \in Nat /\ RowsLimit \in Nat \ {0}
      BY <1>2, BacktestConstants DEF Fetching
    <2>6. /\ Latest(newest) \in Nat /\ Latest(newest) <= newest + 1
          /\ newest + 1 - Latest(newest) <= RowsLimit
      BY <2>5 DEF Latest
    <2>7. Cardinality(fetched') = newest + 1 - Latest(newest)
      BY <2>4, <2>5, <2>6, IntervalSize
    <2> DEFINE size == Cardinality(fetched')
    <2>8. size \in Nat /\ size <= RowsLimit
      BY <2>5, <2>6, <2>7
    <2> DEFINE row(i) == candles[CHOOSE t \in fetched' : Cardinality({u \in fetched' : u <= t}) = i]
    <2>9. rows' = [i \in 1 .. size |-> row(i)]
      BY <2>1 DEF Downloaded
    <2> HIDE DEF size, row
    <2>10. Len(rows') <= RowsLimit
      BY <2>8, <2>9
    <2> QED
      BY <1>1, <2>2, <2>10 DEF Loaded
  <1>4. CASE ~LastPage(batch, found, requested)
    <2>1. after' = Oldest(batch) /\ pc' = "fetch" /\ rows' = rows
      BY <1>1, <1>2, <1>4
    <2>2. after' = None \/ after' \in fetched'
      BY <1>2, <2>1 DEF Fetching
    <2> QED
      BY <1>1, <2>1, <2>2 DEF Loaded
  <1> QED
    BY <1>3, <1>4

LEMMA StepLoaded ==
    ASSUME Fetching, Scanning, Loaded, [Next]_vars
    PROVE  Loaded'
  <1>1. CASE FetchPage
    BY <1>1, FetchLoaded
  <1>2. CASE CandleCloses
    BY <1>2 DEF CandleCloses, Loaded
  <1>3. ASSUME NEW signal, Exit(signal) \/ Hold(signal) \/ Pass(signal)
        PROVE  Loaded'
    BY <1>3 DEF Exit, Hold, Pass, NextCandle, download, Loaded
  <1>4. ASSUME NEW signal, Enter(signal)
        PROVE  Loaded'
    <2>1. UNCHANGED <<after, fetched, rows>> /\ blocked' \in {blocked, blocked + 1}
      BY <1>4 DEF Enter, EnterSized, EnterUnsized, NextCandle, download
    <2> QED
      BY <2>1 DEF Loaded
  <1>5. CASE Finish
    BY <1>5 DEF Finish, download, Loaded
  <1>6. CASE UNCHANGED vars
    BY <1>6 DEF vars, Loaded
  <1> QED
    BY <1>1, <1>2, <1>3, <1>4, <1>5, <1>6 DEF Next, Program, EvaluateCandle

\* Type correctness: what is downloaded are candles that have closed, at most
\* as many as asked for, and an open position has a positive size, an entry
\* before the last candle and a highest price not below the one it opened at.
THEOREM TypesKept == Spec => []TypeOK
  <1>1. Init => Loaded
    <2>1. ASSUME Init
          PROVE  Loaded
      <3>1. after = None /\ rows = <<>> /\ blocked = 0 /\ RowsLimit \in Nat
        BY <2>1, BacktestConstants DEF Init
      <3> QED
        BY <3>1 DEF Loaded
    <2> QED
      BY <2>1
  <1>2. Fetching /\ InOrder /\ Scanning /\ Loaded /\ [Next]_vars => Loaded'
    BY StepLoaded
  <1>3. Spec => []Loaded
    BY <1>1, <1>2, Evaluated, PTL DEF Spec
  <1>4. ASSUME Fetching, Scanning, Holding, Loaded
        PROVE  TypeOK
    <2>1. closed \in Nat
      BY <1>4, BacktestConstants DEF Fetching
    <2>2. fetched \subseteq 1 .. closed
      <3>1. CASE pc = "fetch"
        BY <1>4, <2>1, <3>1 DEF Fetching
      <3>2. CASE pc # "fetch"
        <4>1. PICK newest \in 0 .. closed : fetched = Latest(newest) .. newest
          BY <1>4, <3>2 DEF Fetching
        <4>2. Latest(newest) \in Nat \ {0}
          BY <2>1, BacktestConstants DEF Latest
        <4> QED
          BY <2>1, <4>1, <4>2
      <3> QED
        BY <3>1, <3>2
    <2>3. ASSUME position # None
          PROVE  /\ position \in Positions /\ position.entry \in 1 .. Len(rows) - 1
                 /\ position.lots > 0 /\ position.highest >= position.price
      <3>1. /\ position.entry \in Nat /\ position.entry < Len(rows)
            /\ Len(rows) \in Nat
        BY <1>4, <2>3 DEF Scanning
      <3> QED
        BY <1>4, <2>3, <3>1 DEF Holding
    <2>4. index \in Nat /\ (pc = "scan" => index \in 1 .. Len(rows) + 1)
      BY <1>4 DEF Scanning
    <2> QED
      BY <1>4, <2>2, <2>3, <2>4 DEF TypeOK, Fetching, Loaded
  <1> QED
    BY <1>3, <1>4, Evaluated, Kept, PTL

-----------------------------------------------------------------------------
(* The drawdown.                                                            *)

Loss == [num: Int, den: Nat \ {0}]

\* A loss that is not worse than one that is not worse than a third.
LEMMA NotWorse ==
    ASSUME NEW a \in Loss, NEW b \in Loss, NEW c \in Loss, ~Worse(a, b), ~Worse(b, c)
    PROVE  ~Worse(a, c)
  <1> DEFINE an == a.num  ad == a.den  bn == b.num  bd == b.den  cn == c.num  cd == c.den
  <1>1. /\ an \in Int /\ bn \in Int /\ cn \in Int
        /\ ad \in Nat \ {0} /\ bd \in Nat \ {0} /\ cd \in Nat \ {0}
    BY DEF Loss
  <1>2. an * bd \in Int /\ bn * ad \in Int /\ bn * cd \in Int /\ cn * bd \in Int /\ an * cd \in Int
        /\ cn * ad \in Int
    <2> HIDE DEF an, ad, bn, bd, cn, cd
    <2> QED
      BY <1>1, ProductTypes
  <1>3. an * bd <= bn * ad /\ bn * cd <= cn * bd
    <2>1. ~(an * bd > bn * ad) /\ ~(bn * cd > cn * bd)
      BY DEF Worse
    <2> HIDE DEF an, ad, bn, bd, cn, cd
    <2> QED
      BY <1>2, <2>1
  <1> HIDE DEF an, ad, bn, bd, cn, cd
  <1>4. (an * bd) * cd <= (bn * ad) * cd /\ (bn * cd) * ad <= (cn * bd) * ad
    BY <1>1, <1>2, <1>3, TimesMonotonic
  <1>5. /\ (an * bd) * cd = (an * cd) * bd /\ (bn * ad) * cd = (bn * cd) * ad
        /\ (cn * bd) * ad = (cn * ad) * bd
    BY <1>1, Rearranged
  <1>6. (an * cd) * bd <= (cn * ad) * bd
    <2>1. /\ (an * cd) * bd \in Int /\ (bn * cd) * ad \in Int /\ (cn * ad) * bd \in Int
      BY <1>1, <1>2, ProductTypes
    <2> QED
      BY <1>4, <1>5, <2>1
  <1>7. an * cd <= cn * ad
    BY <1>1, <1>2, <1>6, Cancel
  <1> QED
    BY <1>2, <1>7 DEF Worse, an, ad, bn, bd, cn, cd

\* What _max_drawdown keeps, and what the next equity makes of it.
Sofar == [peak: Nat \ {0}, worst: Loss]
LossAt(peak, equity) == [num |-> peak - equity, den |-> peak]
Lower(acc, equity) ==
    LET peak == Greatest(acc.peak, equity)
        loss == [num |-> peak - equity, den |-> peak]
    IN  [peak |-> peak,
         worst |-> IF peak > 0 /\ Worse(loss, acc.worst) THEN loss ELSE acc.worst]
Lowering(s) == [p \in Sofar \X (1 .. Len(s)) |-> Lower(p[1], s[p[2]])]
Start(s) == [peak |-> Head(s), worst |-> [num |-> 0, den |-> 1]]

LEMMA LowerIs ==
    ASSUME NEW acc \in Sofar, NEW equity \in Int
    PROVE  LET peak == Greatest(acc.peak, equity)
               loss == LossAt(peak, equity)
           IN  /\ peak \in Nat \ {0} /\ peak >= acc.peak /\ peak >= equity
               /\ peak \in {acc.peak, equity} /\ loss \in Loss
               /\ Lower(acc, equity) \in Sofar /\ Lower(acc, equity).peak = peak
               /\ Lower(acc, equity).worst = IF Worse(loss, acc.worst) THEN loss ELSE acc.worst
  <1> DEFINE peak == Greatest(acc.peak, equity)
             loss == LossAt(peak, equity)
  <1>1. /\ peak \in Nat \ {0} /\ peak >= acc.peak /\ peak >= equity /\ peak \in {acc.peak, equity}
        /\ acc.worst \in Loss
    BY DEF Sofar, Greatest
  <1>2. Lower(acc, equity) =
          [peak |-> peak, worst |-> IF peak > 0 /\ Worse(loss, acc.worst) THEN loss ELSE acc.worst]
    BY DEF Lower, LossAt
  <1> HIDE DEF peak
  <1>3. loss \in Loss /\ peak > 0
    BY <1>1 DEF LossAt, Loss
  <1> HIDE DEF loss
  <1>4. /\ Lower(acc, equity).peak = peak
        /\ Lower(acc, equity).worst = IF Worse(loss, acc.worst) THEN loss ELSE acc.worst
    BY <1>2, <1>3
  <1>5. Lower(acc, equity) \in Sofar
    BY <1>1, <1>2, <1>3 DEF Sofar
  <1> QED
    BY <1>1, <1>3, <1>4, <1>5 DEF peak, loss

LEMMA DrawdownRun ==
    ASSUME NEW s \in Seq(Int), Len(s) >= 1, s[1] > 0
    PROVE  \E r : Run(r, Sofar, Start(s), Len(s), Lowering(s)) /\ MaxDrawdown(s) = r[Len(s)].worst
  <1> DEFINE n == Len(s)
             g == Lowering(s)
             base == Start(s)
             Lowers(iter) == iter = [S \in SUBSET DOMAIN s |->
                                IF S = {} THEN base ELSE Lower(iter[S \ {Max(S)}], s[Max(S)])]
             iter == CHOOSE it : Lowers(it)
  <1>1. n \in Nat /\ DOMAIN s = 1 .. n /\ \A i \in 1 .. n : s[i] \in Int
    OBVIOUS
  <1>2. base \in Sofar
    BY DEF Start, Sofar, Loss
  <1>3. g \in [Sofar \X (1 .. n) -> Sofar]
    <2>1. \A acc \in Sofar, i \in 1 .. n : Lower(acc, s[i]) \in Sofar
      BY <1>1, LowerIs
    <2> QED
      BY <2>1 DEF Lowering
  <1>4. MaxDrawdown(s) = iter[DOMAIN s].worst
    BY DEF MaxDrawdown, FoldLeft, MapThenFoldSet, Lower, Start
  <1>5. PICK h : Fold(h, Sofar, base, n, g)
    <2> HIDE DEF g, n, base
    <2> QED
      BY <1>1, <1>2, <1>3, FoldExists
  <1>6. Lowers(h)
    <2>1. \A S \in SUBSET (1 .. n) : h[S] = IF S = {} THEN base ELSE Lower(h[S \ {Max(S)}], s[Max(S)])
      <3> TAKE S \in SUBSET (1 .. n)
      <3>1. CASE S = {}
        BY <1>5, <3>1 DEF Fold
      <3>2. CASE S # {}
        <4>1. Max(S) \in 1 .. n /\ S \ {Max(S)} \in SUBSET (1 .. n)
          BY <1>1, <3>2, Greatest1N
        <4>2. h[S \ {Max(S)}] \in Sofar /\ h[S] = g[<<h[S \ {Max(S)}], Max(S)>>]
          BY <1>5, <3>2, <4>1 DEF Fold
        <4> QED
          BY <3>2, <4>1, <4>2 DEF Lowering
      <3> QED
        BY <3>1, <3>2
    <2> HIDE DEF base
    <2> QED
      BY <1>1, <1>5, <2>1 DEF Fold
  <1>7. Lowers(iter)
    BY <1>6
  <1>8. PICK r : Run(r, Sofar, base, n, g)
    <2> HIDE DEF g, n, base
    <2> QED
      BY <1>1, <1>2, <1>3, RunExists
  <1> HIDE DEF iter, base
  <1>9. iter[{}] = base
    BY <1>1, <1>7
  <1>10. ASSUME NEW S \in SUBSET (1 .. n), S # {}, iter[S \ {Max(S)}] \in Sofar
         PROVE  iter[S] = g[<<iter[S \ {Max(S)}], Max(S)>>]
    <2>1. Max(S) \in 1 .. n
      BY <1>1, <1>10, Greatest1N
    <2>2. iter[S] = Lower(iter[S \ {Max(S)}], s[Max(S)])
      BY <1>1, <1>7, <1>10
    <2> QED
      BY <1>10, <2>1, <2>2 DEF Lowering
  <1> HIDE DEF g, Lowers, n
  <1>11. Follows(iter, Sofar, base, n, g)
    BY <1>9, <1>10 DEF Follows
  <1>12. iter[1 .. n] = r[n]
    BY <1>1, <1>2, <1>8, <1>11, FoldValue
  <1> QED
    BY <1>1, <1>4, <1>8, <1>12 DEF n, g, base

LEMMA WorseIsStrict ==
    ASSUME NEW a \in Loss, NEW b \in Loss, Worse(a, b)
    PROVE  ~Worse(b, a)
  <1> DEFINE x == a.num * b.den  y == b.num * a.den
  <1>1. x \in Int /\ y \in Int
    BY ProductTypes DEF Loss
  <1>2. x > y
    BY DEF Worse
  <1> HIDE DEF x, y
  <1>3. ~(y > x)
    BY <1>1, <1>2
  <1> QED
    BY <1>3 DEF Worse, x, y

PeakTo(s, i) == Max({s[k] : k \in 1 .. i})
LossTo(s, i) == LossAt(PeakTo(s, i), s[i])

\* What is kept behind i of the equities: their peak, and a loss no other is
\* worse than, at one of them or none.
Covers(s, acc, i) ==
    /\ acc \in Sofar
    /\ acc.peak \in {s[1]} \union {s[k] : k \in 1 .. i} /\ \A k \in 1 .. i : s[k] <= acc.peak
    /\ \A k \in 1 .. i : LossTo(s, k) \in Loss /\ ~Worse(LossTo(s, k), acc.worst)
    /\ \/ acc.worst = [num |-> 0, den |-> 1]
       \/ \E k \in 1 .. i : acc.worst = LossTo(s, k)

LEMMA PeakIs ==
    ASSUME NEW s \in Seq(Int), NEW i \in 1 .. Len(s), NEW peak \in Int,
           peak \in {s[1]} \union {s[k] : k \in 1 .. i}, \A k \in 1 .. i : s[k] <= peak
    PROVE  PeakTo(s, i) = peak
  <1> DEFINE S == {s[k] : k \in 1 .. i}
  <1>1. \A y \in S : y \in Int /\ y <= peak
    OBVIOUS
  <1>2. peak \in S
    <2>1. 1 \in 1 .. i
      OBVIOUS
    <2> QED
      BY <2>1
  <1> HIDE DEF S
  <1>3. Max(S) \in S /\ \A y \in S : Max(S) >= y
    <2>1. \E x \in S : \A y \in S : x >= y
      BY <1>1, <1>2
    <2> QED
      BY <2>1 DEF Max
  <1>4. Max(S) = peak
    <2>1. Max(S) \in Int /\ Max(S) <= peak /\ Max(S) >= peak
      BY <1>1, <1>2, <1>3
    <2> QED
      BY <2>1
  <1> QED
    BY <1>4 DEF S, PeakTo

LEMMA NextCovers ==
    ASSUME NEW s \in Seq(Int), NEW i \in 1 .. Len(s), NEW acc, Covers(s, acc, i - 1)
    PROVE  Covers(s, Lower(acc, s[i]), i)
  <1> DEFINE equity == s[i]
             peak == Greatest(acc.peak, equity)
             loss == LossAt(peak, equity)
             next == Lower(acc, equity)
  <1>1. /\ acc \in Sofar /\ equity \in Int /\ acc.peak \in Nat /\ acc.worst \in Loss
    BY DEF Covers, Sofar
  <1>2. /\ peak \in Nat \ {0} /\ peak >= acc.peak /\ peak >= equity
        /\ peak \in {acc.peak, equity} /\ loss \in Loss
        /\ next \in Sofar /\ next.peak = peak
        /\ next.worst = IF Worse(loss, acc.worst) THEN loss ELSE acc.worst
    <2> HIDE DEF equity
    <2> QED
      BY <1>1, LowerIs
  <1> HIDE DEF next, peak
  <1>3. ASSUME NEW k \in 1 .. i
        PROVE  s[k] <= peak
    <2>1. CASE k = i
      BY <1>2, <2>1
    <2>2. CASE k \in 1 .. i - 1
      <3>1. s[k] <= acc.peak /\ s[k] \in Int
        BY <2>2 DEF Covers
      <3> QED
        BY <1>1, <1>2, <3>1
    <2> QED
      BY <2>1, <2>2
  <1>4. peak \in {s[1]} \union {s[k] : k \in 1 .. i}
    <2>1. acc.peak \in {s[1]} \union {s[k] : k \in 1 .. i}
      <3>1. acc.peak \in {s[1]} \union {s[k] : k \in 1 .. i - 1}
        BY DEF Covers
      <3>2. \A k \in 1 .. i - 1 : k \in 1 .. i
        OBVIOUS
      <3> QED
        BY <3>1, <3>2
    <2>2. equity \in {s[k] : k \in 1 .. i}
      OBVIOUS
    <2> QED
      BY <1>2, <2>1, <2>2
  <1>5. LossTo(s, i) = loss
    <2>1. PeakTo(s, i) = peak
      BY <1>2, <1>3, <1>4, PeakIs
    <2> QED
      BY <2>1 DEF LossTo
  <1> HIDE DEF loss, equity
  <1>6. ASSUME NEW k \in 1 .. i
        PROVE  LossTo(s, k) \in Loss /\ ~Worse(LossTo(s, k), next.worst)
    <2>1. CASE k = i
      <3>1. ~Worse(loss, loss)
        BY <1>2 DEF Worse, Loss
      <3> QED
        BY <1>2, <1>5, <2>1, <3>1
    <2>2. CASE k \in 1 .. i - 1
      <3>1. LossTo(s, k) \in Loss /\ ~Worse(LossTo(s, k), acc.worst)
        BY <2>2 DEF Covers
      <3>2. CASE Worse(loss, acc.worst)
        <4>1. ~Worse(acc.worst, loss)
          BY <1>1, <1>2, <3>2, WorseIsStrict
        <4>2. ~Worse(LossTo(s, k), loss)
          BY <1>1, <1>2, <3>1, <4>1, NotWorse
        <4> QED
          BY <1>2, <3>1, <3>2, <4>2
      <3>3. CASE ~Worse(loss, acc.worst)
        BY <1>2, <3>1, <3>3
      <3> QED
        BY <3>2, <3>3
    <2> QED
      BY <2>1, <2>2
  <1>7. \/ next.worst = [num |-> 0, den |-> 1]
        \/ \E k \in 1 .. i : next.worst = LossTo(s, k)
    <2>1. CASE Worse(loss, acc.worst)
      <3>1. i \in 1 .. i /\ next.worst = LossTo(s, i)
        BY <1>2, <1>5, <2>1
      <3> QED
        BY <3>1
    <2>2. CASE ~Worse(loss, acc.worst)
      <3>1. next.worst = acc.worst
        BY <1>2, <2>2
      <3>2. \A k \in 1 .. i - 1 : k \in 1 .. i
        OBVIOUS
      <3> QED
        BY <3>1, <3>2 DEF Covers
    <2> QED
      BY <2>1, <2>2
  <1> QED
    BY <1>2, <1>3, <1>4, <1>6, <1>7 DEF Covers, next, equity

\* Of every sequence of equities that starts above zero, _max_drawdown reports
\* the worst loss from the peak before.
LEMMA DrawdownIs ==
    ASSUME NEW s \in Seq(Int), Len(s) >= 1, s[1] > 0
    PROVE  /\ \A j \in 1 .. Len(s) : ~Worse(LossTo(s, j), MaxDrawdown(s))
           /\ \E j \in 1 .. Len(s) : ~Worse(MaxDrawdown(s), LossTo(s, j))
  <1> DEFINE n == Len(s)
  <1>1. n \in Nat /\ n >= 1 /\ s[1] \in Int
    OBVIOUS
  <1>2. PICK r : Run(r, Sofar, Start(s), n, Lowering(s)) /\ MaxDrawdown(s) = r[n].worst
    BY DrawdownRun
  <1> DEFINE P == {i \in 0 .. n : Covers(s, r[i], i)}
  <1>3. 0 \in P
    <2>1. r[0] = [peak |-> s[1], worst |-> [num |-> 0, den |-> 1]]
      BY <1>2 DEF Run, Start
    <2>2. 1 .. 0 = {}
      OBVIOUS
    <2>3. Covers(s, r[0], 0)
      BY <1>1, <2>1, <2>2 DEF Covers, Sofar, Loss
    <2> QED
      BY <1>1, <2>3
  <1>4. ASSUME NEW i \in 1 .. n, i - 1 \in P
        PROVE  i \in P
    <2>1. r[i] = Lowering(s)[<<r[i - 1], i>>] /\ Covers(s, r[i - 1], i - 1)
      BY <1>2, <1>4 DEF Run
    <2>2. r[i] = Lower(r[i - 1], s[i])
      <3>1. r[i - 1] \in Sofar
        BY <2>1 DEF Covers
      <3> QED
        BY <2>1, <3>1 DEF Lowering
    <2>3. Covers(s, r[i], i)
      BY <2>1, <2>2, NextCovers
    <2> QED
      BY <2>3
  <1> HIDE DEF P, n
  <1>5. n \in P
    <2>1. n \in Nat
      BY <1>1
    <2>2. \A i \in 1 .. n : i - 1 \in P => i \in P
      BY <1>4
    <2>3. \A i \in 0 .. n : i \in P
      BY <1>3, <2>1, <2>2, UpTo
    <2> QED
      BY <2>1, <2>3
  <1>6. Covers(s, r[n], n)
    BY <1>5 DEF P
  <1> DEFINE worst == MaxDrawdown(s)
  <1>7. worst \in Loss /\ \A j \in 1 .. n : LossTo(s, j) \in Loss /\ ~Worse(LossTo(s, j), worst)
    BY <1>2, <1>6 DEF Covers, Sofar
  <1>8. \E j \in 1 .. n : ~Worse(worst, LossTo(s, j))
    <2>1. CASE worst = [num |-> 0, den |-> 1]
      <3>1. 1 \in 1 .. n
        BY <1>1
      <3>2. PeakTo(s, 1) = s[1]
        <4>1. \A k \in 1 .. 1 : s[k] <= s[1]
          BY <1>1
        <4> QED
          BY <1>1, <3>1, <4>1, PeakIs
      <3>3. LossTo(s, 1).num = 0
        BY <1>1, <3>2 DEF LossTo, LossAt
      <3>4. ~Worse(worst, LossTo(s, 1))
        <4> DEFINE x == LossTo(s, 1).den
        <4>1. x \in Nat
          BY <1>7, <3>1 DEF Loss
        <4> HIDE DEF x
        <4>2. ~(0 * x > 0 * 1)
          BY <4>1
        <4> QED
          BY <2>1, <3>3, <4>2 DEF Worse, x
      <3> QED
        BY <3>1, <3>4
    <2>2. CASE worst # [num |-> 0, den |-> 1]
      <3>1. PICK j \in 1 .. n : worst = LossTo(s, j)
        BY <1>2, <1>6, <2>2 DEF Covers
      <3>2. ~Worse(worst, LossTo(s, j))
        BY <1>7, <3>1 
      <3> QED
        BY <3>2
    <2> QED
      BY <2>1, <2>2
  <1> QED
    BY <1>7, <1>8 DEF n

\* For every market and strategy, whatever the account went through: the
\* drawdown reported is the largest loss from the highest equity before.
THEOREM DrawdownKept == Spec => []DrawdownIsWorst
  <1>1. ASSUME Books
        PROVE  DrawdownIsWorst
    <2>1. points \in Seq(Int) /\ Len(points) >= 1 /\ points[1] > 0
      BY <1>1, BacktestConstants DEF Books
    <2>2. DOMAIN points = 1 .. Len(points)
      BY <2>1
    <2> QED
      BY <2>1, <2>2, DrawdownIs DEF DrawdownIsWorst, LossTo, LossAt, PeakTo
  <1> QED
    BY <1>1, Kept, PTL
=============================================================================
