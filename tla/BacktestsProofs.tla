-------------------------- MODULE BacktestsProofs --------------------------
(***************************************************************************)
(* Theorems about Backtests, for every market, page size, limit and        *)
(* strategy: the download is the latest candles without a gap, the trades  *)
(* follow each other, and the entry fee is paid from the part of the       *)
(* balance the sizer leaves aside.                                         *)
(***************************************************************************)
EXTENDS Backtests, FiniteSetTheorems, SequenceTheorems, TLAPS

-----------------------------------------------------------------------------
(* Intervals.                                                              *)

LEMMA IntervalSize ==
    ASSUME NEW a \in Nat, NEW b \in Nat
    PROVE  /\ IsFiniteSet(a .. b)
           /\ a <= b + 1 => Cardinality(a .. b) = b + 1 - a
           /\ Cardinality(a .. b) \in Nat
  <1>1. IsFiniteSet(a .. b) /\ Cardinality(a .. b) = IF a > b THEN 0 ELSE b - a + 1
    BY FS_Interval
  <1> QED
    BY <1>1

LEMMA IntervalMin ==
    ASSUME NEW a \in Nat, NEW b \in Nat, a <= b
    PROVE  Min(a .. b) = a
  <1>1. a \in a .. b /\ \A y \in a .. b : a <= y
    OBVIOUS
  <1>2. \A x \in a .. b : (\A y \in a .. b : x <= y) => x = a
    BY <1>1
  <1> QED
    BY <1>1, <1>2 DEF Min

\* The i-th of the candles of an interval, in order of time.
LEMMA Nth ==
    ASSUME NEW a \in Nat, NEW b \in Nat, NEW i \in 1 .. b + 1 - a
    PROVE  LET found == a .. b
           IN  (CHOOSE t \in found : Cardinality({u \in found : u <= t}) = i) = a + i - 1
  <1>1. \A t \in a .. b : {u \in a .. b : u <= t} = a .. t
    OBVIOUS
  <1>2. \A t \in a .. b : Cardinality({u \in a .. b : u <= t}) = t + 1 - a
    <2> TAKE t \in a .. b
    <2>1. t \in Nat /\ a <= t + 1
      OBVIOUS
    <2> QED
      BY <1>1, <2>1, IntervalSize
  <1>3. a + i - 1 \in a .. b
    OBVIOUS
  <1>4. \A t \in a .. b : t + 1 - a = i <=> t = a + i - 1
    OBVIOUS
  <1> QED
    BY <1>2, <1>3, <1>4

-----------------------------------------------------------------------------
(* The download.                                                           *)

\* A page ends before the oldest candle known, at the latest one otherwise.
End == IF after = None THEN closed ELSE after - 1

Latest(newest) == IF newest > RowsLimit THEN newest - RowsLimit + 1 ELSE 1

\* What was downloaded is an interval of candles that ends with those that were
\* the latest at the first page, and less than the limit while the download
\* goes on.
Fetching ==
    /\ closed \in 0 .. Periods /\ latest \in 0 .. closed
    /\ pc \in {"fetch", "scan", "done"}
    /\ pc = "fetch" =>
        \/ after = None /\ fetched = {}
        \/ /\ after \in 1 .. latest /\ fetched = after .. latest
           /\ latest + 1 - after < RowsLimit
    /\ pc # "fetch" => fetched = Latest(latest) .. latest

\* A page is the interval of the requested length before End, or what is left.
LEMMA PageIs ==
    ASSUME NEW limit \in Nat \ {0}, closed \in Nat, after = None \/ after \in 1 .. closed
    PROVE  Page(limit) = (IF End > limit THEN End - limit + 1 ELSE 1) .. End
  <1>1. End \in Nat
    BY DEF End
  <1>2. {t \in 1 .. closed : after = None \/ t < after} = 1 .. End
    BY BacktestConstants DEF End
  <1>3. \A t \in 1 .. End : {u \in 1 .. End : u > t} = t + 1 .. End
    BY <1>1
  <1>4. \A t \in 1 .. End : Cardinality({u \in 1 .. End : u > t}) = End - t
    <2> TAKE t \in 1 .. End
    <2>1. t + 1 \in Nat /\ t + 1 <= End + 1
      BY <1>1
    <2>2. Cardinality(t + 1 .. End) = End + 1 - (t + 1)
      BY <1>1, <2>1, IntervalSize
    <2>3. {u \in 1 .. End : u > t} = t + 1 .. End
      BY <1>3
    <2>4. End + 1 - (t + 1) = End - t
      BY <1>1
    <2> QED
      BY <2>2, <2>3, <2>4
  <1>5. Page(limit) = {t \in 1 .. End : End - t < limit}
    <2>1. Page(limit) = {t \in 1 .. End : Cardinality({u \in 1 .. End : u > t}) < limit}
      BY <1>2 DEF Page
    <2> QED
      BY <1>4, <2>1
  <1> HIDE DEF End
  <1> QED
    BY <1>1, <1>5

\* One more page of an unfinished download: still an interval, of the limit's
\* length at most; when the loop stops it is what FetchedIsLatest says.
LEMMA FetchStep ==
    ASSUME Fetching, FetchPage
    PROVE  /\ Fetching'
           /\ pc' # "fetch" => Downloaded(fetched')
           /\ \E a \in Nat \ {0}, b \in 0 .. closed : fetched' = a .. b /\ a <= b + 1
  <1>1. pc = "fetch" /\ closed \in Nat /\ closed <= Periods /\ closed' = closed
    BY BacktestConstants DEF FetchPage, Fetching
  <1>15. latest' = IF fetched = {} THEN closed ELSE latest
    BY DEF FetchPage, Asked
  <1> DEFINE requested == Smaller(PageLimit, RowsLimit - Cardinality(fetched))
             batch == Page(requested)
             found == fetched \union batch
             low == IF End > requested THEN End - requested + 1 ELSE 1
  <1>2. /\ PageLimit \in Nat \ {0} /\ RowsLimit \in Nat \ {0} /\ None \notin Nat
    BY BacktestConstants
  <1>3. /\ fetched' = found
        /\ IF LastPage(batch, found, requested) THEN Downloaded(found)
           ELSE after' = Oldest(batch) /\ UNCHANGED <<pc, rows, index>>
    BY DEF FetchPage
  <1> DEFINE m == latest'
  <1>4. /\ m \in 0 .. closed
        /\ fetched = End + 1 .. m /\ End \in 0 .. m
        /\ m - End < RowsLimit
        /\ \/ after = None /\ m = closed /\ End = closed
           \/ after = End + 1 /\ after \in 1 .. m
    <2>1. CASE after = None /\ fetched = {}
      BY <1>1, <1>2, <1>15, <2>1 DEF End
    <2>2. CASE after \in 1 .. latest /\ fetched = after .. latest /\ latest + 1 - after < RowsLimit
      <3>1. latest \in Nat /\ latest <= closed
        BY <1>1 DEF Fetching
      <3>2. after \in fetched
        BY <2>2, <3>1
      <3>3. latest' = latest
        BY <1>15, <3>2
      <3>4. /\ fetched = End + 1 .. latest /\ End \in 0 .. latest
            /\ latest - End < RowsLimit /\ after = End + 1
        BY <1>1, <1>2, <2>2, <3>1 DEF End
      <3> QED
        BY <1>1, <2>2, <3>1, <3>3, <3>4
    <2> QED
      BY <1>1, <2>1, <2>2 DEF Fetching
  <1>16. m = latest'
    OBVIOUS
  <1> HIDE DEF m
  <1>5. End \in Nat /\ m \in Nat /\ m <= closed
    BY <1>1, <1>4
  <1>6. Cardinality(fetched) = m - End
    BY <1>4, <1>5, IntervalSize
  <1>7. requested \in Nat \ {0} /\ requested <= RowsLimit - (m - End)
    BY <1>2, <1>4, <1>5, <1>6 DEF Smaller
  <1>8. batch = low .. End
    <2>1. after = None \/ after \in 1 .. closed
      BY <1>1, <1>4, <1>5
    <2> QED
      BY <1>1, <1>7, <2>1, PageIs
  <1> HIDE DEF requested
  <1>9. low \in Nat \ {0} /\ low <= End + 1
    BY <1>5, <1>7
  <1>10. found = low .. m /\ Cardinality(found) = m + 1 - low
    <2> HIDE DEF low
    <2>1. found = low .. m
      BY <1>4, <1>5, <1>8, <1>9
    <2>2. low \in Nat /\ m \in Nat /\ low <= m + 1
      BY <1>4, <1>5, <1>9
    <2>3. Cardinality(low .. m) = m + 1 - low
      BY <2>2, IntervalSize
    <2> HIDE DEF found
    <2> QED
      BY <2>1, <2>3
  <1>11. Cardinality(batch) = End + 1 - low
    <2> HIDE DEF low
    <2> QED
      BY <1>5, <1>8, <1>9, IntervalSize
  <1>12. m + 1 - low <= RowsLimit
    BY <1>2, <1>5, <1>7
  <1> HIDE DEF batch, found
  <1>13. CASE LastPage(batch, found, requested)
    <2>1. Downloaded(found)
      BY <1>3, <1>13
    <2>2. pc' # "fetch" /\ pc' \in {"scan", "done"}
      BY <2>1 DEF Downloaded
    <2>3. low = Latest(m)
      <3>1. CASE Cardinality(found) >= RowsLimit
        BY <1>2, <1>5, <1>9, <1>10, <1>12, <3>1 DEF Latest
      <3>2. CASE Cardinality(batch) < requested
        <4>1. low = 1
          BY <1>5, <1>7, <1>11, <3>2
        <4> QED
          BY <1>2, <1>5, <1>12, <4>1 DEF Latest
      <3>3. CASE after = Oldest(batch)
        <4>1. CASE low <= End
          <5>1. Oldest(batch) = low
            BY <1>5, <1>8, <1>9, <4>1, IntervalMin DEF Oldest
          <5> QED
            BY <1>2, <1>4, <1>5, <1>9, <3>3, <4>1, <5>1
        <4>2. CASE ~(low <= End)
          BY <1>5, <1>7, <1>9, <1>11, <3>2, <4>2
        <4> QED
          BY <4>1, <4>2
      <3> QED
        BY <1>13, <3>1, <3>2, <3>3 DEF LastPage
    <2> HIDE DEF low
    <2>5. Fetching'
      <3>1. fetched' = Latest(m) .. m /\ m \in 0 .. closed' /\ m = latest'
        BY <1>1, <1>3, <1>4, <1>10, <1>16, <2>3
      <3>2. Latest(m) = Latest(latest)'
        BY <3>1 DEF Latest
      <3> QED
        BY <1>1, <2>2, <3>1, <3>2 DEF Fetching
    <2> QED
      BY <1>3, <1>4, <1>5, <1>9, <1>10, <2>1, <2>5
  <1>14. CASE ~LastPage(batch, found, requested)
    <2>1. pc' = "fetch" /\ after' = Oldest(batch)
      BY <1>1, <1>3, <1>14
    <2>2. Cardinality(batch) >= requested /\ ~(Cardinality(found) >= RowsLimit)
      <3>1. Cardinality(batch) \in Int
        BY <1>5, <1>9, <1>11
      <3> QED
        BY <1>7, <1>14, <3>1 DEF LastPage
    <2>3. low <= End
      <3> HIDE DEF low
      <3> QED
        BY <1>5, <1>7, <1>9, <1>11, <2>2
    <2>4. after' = low
      BY <1>5, <1>8, <1>9, <2>1, <2>3, IntervalMin DEF Oldest
    <2>5. /\ m \in 0 .. closed' /\ after' \in 1 .. m /\ fetched' = after' .. m
          /\ m + 1 - after' < RowsLimit
      <3> HIDE DEF low
      <3> QED
        BY <1>1, <1>2, <1>3, <1>4, <1>5, <1>9, <1>10, <2>2, <2>3, <2>4
    <2>6. Fetching'
      BY <1>1, <1>16, <2>1, <2>5 DEF Fetching
    <2> HIDE DEF low
    <2> QED
      BY <1>3, <1>4, <1>5, <1>9, <1>10, <2>1, <2>6
  <1> QED
    BY <1>13, <1>14
-----------------------------------------------------------------------------
(* The sizer.                                                              *)

LEMMA QuotientFits ==
    ASSUME NEW a \in Int, NEW d \in Nat \ {0}
    PROVE  a \div d \in Int /\ (a \div d) * d <= a
  OBVIOUS

LEMMA TimesMonotonic ==
    ASSUME NEW a \in Int, NEW b \in Int, a <= b, NEW c \in Nat
    PROVE  a * c <= b * c /\ (b - a) * c = b * c - a * c
  OBVIOUS

LEMMA FloorFits ==
    ASSUME NEW size, size.num \in Int, size.den \in Nat \ {0}, NEW lots \in FloorToLotSize(size)
    PROVE  lots \in Int /\ lots * size.den <= size.num
  <1> DEFINE q == size.num \div size.den
  <1>1. q \in Int /\ q * size.den <= size.num
    BY QuotientFits
  <1>2. lots \in {q, q - 1}
    BY DEF FloorToLotSize
  <1> HIDE DEF q
  <1>3. (q - 1) * size.den <= q * size.den
    BY <1>1, TimesMonotonic
  <1>4. lots * size.den \in Int /\ (q - 1) * size.den \in Int /\ q * size.den \in Int
    BY <1>1, <1>2
  <1> QED
    BY <1>1, <1>2, <1>3, <1>4
LEMMA Cancel ==
    ASSUME NEW a \in Int, NEW b \in Int, NEW c \in Nat \ {0}
    PROVE  /\ a * c < b * c => a < b
           /\ a * c <= b * c => a <= b
  <1>1. b <= a => b * c <= a * c
    BY TimesMonotonic
  <1>2. b + 1 <= a => (b + 1) * c <= a * c /\ (b + 1) * c = b * c + c
    BY TimesMonotonic
  <1>3. a * c \in Int /\ b * c \in Int
    OBVIOUS
  <1> QED
    BY <1>1, <1>2, <1>3

LEMMA BufferCovers ==
    ASSUME NEW x \in Nat, NEW f \in Nat, NEW g \in Nat, NEW m \in 1 .. 100, NEW available \in Int,
           g * m <= (100 - m) * f, 100 * (x * f) <= available * m
    PROVE  x * f + x * g <= available
  <1> DEFINE y == x * f
             z == x * g
  <1>1. y \in Int /\ z \in Int /\ g * m \in Int /\ (100 - m) * f \in Int
    OBVIOUS
  <1>2. (g * m) * x <= ((100 - m) * f) * x
    BY <1>1, TimesMonotonic
  <1>3. (g * m) * x = z * m
    OBVIOUS
  <1>4. ((100 - m) * f) * x = 100 * y - y * m
    <2>1. ((100 - m) * f) * x = (100 - m) * y
      OBVIOUS
    <2>2. (100 - m) * y = 100 * y - m * y
      <3> HIDE DEF y
      <3> QED
        BY <1>1
    <2>3. m * y = y * m
      <3> HIDE DEF y
      <3> QED
        BY <1>1
    <2> QED
      BY <2>1, <2>2, <2>3
  <1>5. 100 * y <= available * m
    OBVIOUS
  <1> HIDE DEF y, z
  <1>6. y * m + z * m <= available * m
    <2>1. y * m \in Int /\ z * m \in Int /\ available * m \in Int /\ 100 * y \in Int
      BY <1>1
    <2>2. z * m <= 100 * y - y * m
      BY <1>2, <1>3, <1>4
    <2> QED
      BY <1>5, <2>1, <2>2
  <1>7. (y + z) * m <= available * m
    <2>1. (y + z) * m = y * m + z * m
      BY <1>1
    <2> QED
      BY <1>6, <2>1
  <1>8. y + z <= available
    BY <1>1, <1>7, Cancel
  <1> QED
    BY <1>8 DEF y, z

LEMMA Products ==
    ASSUME NEW a \in Nat \ {0}, NEW b \in Nat \ {0}
    PROVE  a * b \in Nat \ {0}
  OBVIOUS

LEMMA ProductTypes ==
    ASSUME NEW a \in Int, NEW b \in Int
    PROVE  a * b \in Int /\ a * 1 = a /\ a * b = b * a
  OBVIOUS

LEMMA Rearranged ==
    ASSUME NEW a \in Int, NEW b \in Int, NEW c \in Int
    PROVE  a * b * c = a * (b * c) /\ a * b * c = b * (a * c) /\ a * b * c = a * c * b
  OBVIOUS

\* What fits the smaller of two fractions fits the larger.
LEMMA CrossFits ==
    ASSUME NEW l \in Int, NEW a \in Int, NEW b \in Nat \ {0}, NEW c \in Int, NEW d \in Nat \ {0},
           l * b <= a, a * d < c * b
    PROVE  l * d <= c
  <1>1. l * b \in Int /\ l * d \in Int /\ a * d \in Int /\ c * b \in Int
    BY ProductTypes
  <1>2. (l * b) * d <= a * d
    BY <1>1, TimesMonotonic
  <1>3. (l * b) * d = (l * d) * b
    BY Rearranged
  <1>4. (l * d) * b < c * b
    <2>1. (l * d) * b \in Int
      BY <1>1, ProductTypes
    <2> QED
      BY <1>1, <1>2, <1>3, <2>1
  <1>5. l * d < c
    BY <1>1, <1>4, Cancel
  <1> QED
    BY <1>1, <1>5

LEMMA Fraction ==
    ASSUME NEW num, NEW den
    PROVE  [num |-> num, den |-> den].num = num /\ [num |-> num, den |-> den].den = den
  OBVIOUS

LEMMA LimitFacts ==
    ASSUME NEW available \in Int, NEW price \in Nat \ {0}
    PROVE  LET limit == MaxAffordableSize(available, price)
           IN  /\ limit.num = available * MarginPercent /\ limit.num \in Int
               /\ limit.den = 100 * (price * FeeDen) /\ limit.den \in Nat \ {0}
  <1>1. FeeDen \in Nat \ {0} /\ MarginPercent \in Int
    BY SizerConstants
  <1>2. Margin(price, 1) = price * FeeDen
    <2>1. price * 1 = price
      BY ProductTypes
    <2> QED
      BY <2>1 DEF Margin
  <1>3. price * FeeDen \in Nat \ {0}
    BY <1>1, Products
  <1>4. 100 * (price * FeeDen) \in Nat \ {0}
    BY <1>3
  <1>5. available * MarginPercent \in Int
    BY <1>1, ProductTypes
  <1> QED
    BY <1>2, <1>4, <1>5, Fraction DEF MaxAffordableSize

\* What is not blocked, of an account that shows something, was rounded down
\* from the smaller of the request and the limit, to a contract or more.
LEMMA SizingIs ==
    ASSUME NEW requested, requested.num \in Int,
           NEW equity \in Int, NEW available \in Int, equity > 0 \/ available > 0, NEW price,
           NEW sizing \in OpenOrderSizes(requested, equity, available, price), sizing.block = Unblocked
    PROVE  \E lots \in FloorToLotSize(SmallerSize(requested, MaxAffordableSize(available, price))) :
              ~(lots < LotsPerContract) /\ sizing = Sized(lots)
  <1> DEFINE size == SmallerSize(requested, MaxAffordableSize(available, price))
             whole == {IF lots < LotsPerContract THEN BlockedBy("insufficient_available_margin")
                       ELSE Sized(lots) : lots \in FloorToLotSize(size)}
  <1>1. /\ BlockedBy("non_positive_requested_size").block # Unblocked
        /\ BlockedBy("insufficient_available_margin").block # Unblocked
    BY DEF BlockedBy, Unblocked
  <1>2. OpenOrderSizes(requested, equity, available, price) =
          CASE requested.num <= 0 -> {BlockedBy("non_positive_requested_size")}
            [] requested.num > 0 /\ equity <= 0 /\ available <= 0 ->
                  {Sized(requested.num \div requested.den)}
            [] requested.num > 0 /\ equity > 0 /\ available <= 0 ->
                  {BlockedBy("insufficient_available_margin")}
            [] OTHER -> whole
    BY DEF OpenOrderSizes
  <1> HIDE DEF whole
  <1>3. sizing \in whole
    <2>1. CASE requested.num <= 0
      BY <1>1, <1>2, <2>1
    <2>2. CASE requested.num > 0 /\ available <= 0
      BY <1>1, <1>2, <2>2
    <2>3. CASE requested.num > 0 /\ available > 0
      BY <1>2, <2>3
    <2> QED
      BY <2>1, <2>2, <2>3
  <1> QED
    BY <1>1, <1>3 DEF whole

\* The margin of what is sized never exceeds the usable part of the balance,
\* and an order has at least one contract; an account that shows nothing at
\* all is not checked.
LEMMA SizeFits ==
    ASSUME NEW requested, requested.num \in Int, requested.den \in Nat \ {0},
           NEW equity \in Int, NEW available \in Int, equity > 0 \/ available > 0,
           NEW price \in Nat \ {0},
           NEW sizing \in OpenOrderSizes(requested, equity, available, price), sizing.block = Unblocked
    PROVE  /\ sizing.lots \in Int /\ sizing.lots >= LotsPerContract
           /\ 100 * Margin(price, sizing.lots) <= available * MarginPercent
  <1> DEFINE limit == MaxAffordableSize(available, price)
             size == SmallerSize(requested, limit)
  <1>1. /\ limit.num = available * MarginPercent /\ limit.num \in Int
        /\ limit.den = 100 * (price * FeeDen) /\ limit.den \in Nat \ {0}
    BY LimitFacts
  <1>2. PICK lots \in FloorToLotSize(size) : ~(lots < LotsPerContract) /\ sizing = Sized(lots)
    BY SizingIs
  <1>3. \/ size = limit
        \/ size = requested /\ requested.num * limit.den < limit.num * requested.den
    BY DEF SmallerSize
  <1> HIDE DEF limit, size
  <1>4. lots \in Int /\ lots * size.den <= size.num
    BY <1>1, <1>2, <1>3, FloorFits
  <1>5. lots * limit.den <= limit.num
    <2>1. CASE size = limit
      BY <1>4, <2>1
    <2>2. CASE size = requested /\ requested.num * limit.den < limit.num * requested.den
      BY <1>1, <1>4, <2>2, CrossFits
    <2> QED
      BY <1>3, <2>1, <2>2
  <1>6. FeeDen \in Nat \ {0}
    BY SizerConstants
  <1>7. lots * limit.den = 100 * Margin(price, lots)
    <2>1. price * FeeDen \in Int /\ lots * (price * FeeDen) \in Int
      BY <1>4, <1>6, ProductTypes
    <2>2. lots * (100 * (price * FeeDen)) = 100 * (lots * (price * FeeDen))
      <3> DEFINE x == price * FeeDen
      <3> HIDE DEF x
      <3>1. lots * (100 * x) = 100 * (lots * x)
        BY <1>4, <2>1 DEF x
      <3> QED
        BY <3>1 DEF x
    <2>3. lots * (price * FeeDen) = price * lots * FeeDen
      BY <1>4, <1>6, Rearranged
    <2> QED
      BY <1>1, <2>2, <2>3 DEF Margin
  <1>8. sizing.lots = lots /\ LotsPerContract \in Int
    BY <1>2, SizerConstants DEF Sized
  <1> QED
    BY <1>1, <1>2, <1>4, <1>5, <1>7, <1>8
-----------------------------------------------------------------------------
(* The loop.                                                               *)

Fields == {"side", "entry", "price", "highest", "lots", "margin", "fee"}

\* The closed trades follow each other within the rows.
InOrder ==
    /\ \E S : trades \in Seq(S)
    /\ \A i \in 1 .. Len(trades) :
        /\ trades[i].entry \in Nat /\ trades[i].exit \in Nat
        /\ trades[i].entry < trades[i].exit /\ trades[i].entry < Len(rows)
        /\ trades[i].exit - trades[i].entry <= strategy.hold
    /\ \A i \in 2 .. Len(trades) : trades[i - 1].exit < trades[i].entry

\* The last of them is behind the loop, and behind the open position.
Scanning ==
    /\ strategy \in Strategies /\ candles \in [1 .. Periods -> Candle]
    /\ rows \in Seq(Candle) /\ index \in Nat
    /\ pc = "fetch" => trades = <<>> /\ position = None
    /\ pc # "fetch" => index >= 1
    /\ pc = "scan" => /\ index <= Len(rows) + 1
                      /\ \A i \in 1 .. Len(trades) : trades[i].exit < index
    /\ position # None =>
        /\ pc = "scan" /\ DOMAIN position = Fields
        /\ position.entry \in Nat
        /\ position.entry < index /\ position.entry < Len(rows)
        /\ index - position.entry <= strategy.hold
        /\ \A i \in 1 .. Len(trades) : trades[i].exit < position.entry

LEMMA ClosingOrder ==
    ASSUME InOrder, Scanning, position # None, NEW i \in Nat, position.entry < i,
           i - position.entry <= strategy.hold, Closing(i), UNCHANGED <<strategy, rows>>
    PROVE  InOrder' /\ position' = None /\ \A j \in 1 .. Len(trades') : trades'[j].exit < i + 1
  <1> DEFINE pnl == IF HasAccount THEN NetPnl(position, rows[i].close) ELSE Pnl(position, rows[i].close)
             trade == [entry |-> position.entry, exit |-> i, side |-> position.side, pnl |-> pnl]
             n == Len(trades)
  <1>1. trades' = Append(trades, trade) /\ position' = None
    BY DEF Closing
  <1>2. trade.entry = position.entry /\ trade.exit = i
    OBVIOUS
  <1>3. PICK S : trades \in Seq(S)
    BY DEF InOrder
  <1> HIDE DEF trade
  <1>4. trades \in Seq(S \union {trade}) /\ trade \in S \union {trade}
    BY <1>3, SeqMonotonic
  <1>5. /\ n \in Nat /\ Len(trades') = n + 1 /\ trades' \in Seq(S \union {trade})
        /\ trades'[n + 1] = trade /\ \A j \in 1 .. n : trades'[j] = trades[j]
    BY <1>1, <1>4, AppendProperties
  <1> HIDE DEF n
  <1>6. position.entry \in Nat /\ position.entry < Len(rows)
    BY DEF Scanning
  <1>7. ASSUME NEW j \in 1 .. n + 1
        PROVE  /\ trades'[j].entry \in Nat /\ trades'[j].exit \in Nat
               /\ trades'[j].entry < trades'[j].exit /\ trades'[j].entry < Len(rows)
               /\ trades'[j].exit - trades'[j].entry <= strategy.hold
               /\ trades'[j].exit < i + 1
    <2>1. CASE j \in 1 .. n
      <3>1. /\ trades[j].entry \in Nat /\ trades[j].exit \in Nat
            /\ trades[j].entry < trades[j].exit /\ trades[j].entry < Len(rows)
            /\ trades[j].exit - trades[j].entry <= strategy.hold
            /\ trades[j].exit < position.entry
        BY <2>1 DEF InOrder, Scanning, n
      <3> QED
        BY <1>5, <1>6, <2>1, <3>1
    <2>2. CASE j = n + 1
      BY <1>2, <1>5, <1>6, <2>2
    <2> QED
      BY <1>5, <2>1, <2>2
  <1>8. ASSUME NEW j \in 2 .. n + 1
        PROVE  trades'[j - 1].exit < trades'[j].entry
    <2>1. j - 1 \in 1 .. n
      BY <1>5
    <2>2. CASE j \in 2 .. n
      <3>1. trades[j - 1].exit < trades[j].entry
        BY <2>2 DEF InOrder, n
      <3> QED
        BY <1>5, <2>1, <2>2, <3>1
    <2>3. CASE j = n + 1
      <3>1. trades[n].exit < position.entry /\ n \in 1 .. n
        BY <1>5, <2>3 DEF Scanning, n
      <3> QED
        BY <1>2, <1>5, <2>3, <3>1
    <2> QED
      BY <1>5, <2>2, <2>3
  <1> QED
    BY <1>1, <1>5, <1>7, <1>8 DEF InOrder

LEMMA MaxOfFour ==
    ASSUME NEW a \in Nat, NEW b \in Nat, NEW c \in Nat, NEW d \in Nat
    PROVE  LET most == Max({a, b, c, d})
           IN  most \in Nat /\ a <= most /\ b <= most /\ c <= most /\ d <= most
  <1> DEFINE S == {a, b, c, d}
  <1>1. \E x \in S : \A y \in S : x >= y
    <2>1. \A x, y \in {a, b} : x \in Nat /\ y \in Nat
      OBVIOUS
    <2>2. PICK x \in {a, b} : x >= a /\ x >= b
      OBVIOUS
    <2>3. PICK y \in {c, d} : y >= c /\ y >= d
      OBVIOUS
    <2>4. x \in Nat /\ y \in Nat
      OBVIOUS
    <2>5. CASE x >= y
      BY <2>2, <2>3, <2>4, <2>5
    <2>6. CASE y >= x
      BY <2>2, <2>3, <2>4, <2>6
    <2> QED
      BY <2>4, <2>5, <2>6
  <1>2. Max(S) \in S /\ \A y \in S : Max(S) >= y
    <2> HIDE DEF S
    <2> QED
      BY <1>1 DEF Max
  <1> QED
    BY <1>2

\* Each strategy looks at least as far back as its warm-up.
LEMMA Kinds ==
    ASSUME Scanning
    PROVE  /\ strategy.kind \in {"vote_trend", "vol_breakout", "momentum"}
           /\ strategy.hold \in Nat \ {0} /\ Warmup(strategy) \in Nat
           /\ strategy.kind = "vote_trend" =>
                /\ strategy.votes \in Nat
                /\ strategy.lookback \in 0 .. Warmup(strategy)
                /\ strategy.channel \in 0 .. Warmup(strategy)
           /\ strategy.kind = "vol_breakout" => Warmup(strategy) >= 1
           /\ strategy.kind = "momentum" => Warmup(strategy) = strategy.lookback
  <1>1. /\ strategy.kind \in {"vote_trend", "vol_breakout", "momentum"}
        /\ strategy.hold \in Nat \ {0}
    BY BacktestConstants DEF Scanning
  <1>2. CASE strategy.kind = "vote_trend"
    <2>1. /\ strategy.slow \in Nat /\ strategy.lookback \in Nat
          /\ strategy.channel \in Nat /\ strategy.votes \in Nat /\ RsiPeriod \in Nat
      BY <1>2, BacktestConstants, StrategyConstants DEF Scanning
    <2>2. Warmup(strategy) = Max({strategy.slow, strategy.lookback, strategy.channel, RsiPeriod})
      BY <1>2 DEF Warmup, VoteTrendWarmup
    <2> DEFINE most == Max({strategy.slow, strategy.lookback, strategy.channel, RsiPeriod})
    <2>3. most \in Nat /\ strategy.lookback <= most /\ strategy.channel <= most
      BY <2>1, MaxOfFour, Zenon
    <2> HIDE DEF most
    <2> QED
      BY <1>1, <1>2, <2>1, <2>2, <2>3 DEF most
  <1>3. CASE strategy.kind = "vol_breakout"
    <2>1. strategy.ema \in Nat /\ strategy.atr \in Nat
      BY <1>3, BacktestConstants DEF Scanning
    <2>2. Warmup(strategy) = Greatest(strategy.ema, strategy.atr + 1)
      BY <1>3 DEF Warmup, VolBreakoutWarmup
    <2> QED
      BY <1>1, <1>3, <2>1, <2>2 DEF Greatest
  <1>4. CASE strategy.kind = "momentum"
    BY <1>1, <1>4, BacktestConstants DEF Scanning, Warmup
  <1> QED
    BY <1>1, <1>2, <1>3, <1>4

LEMMA ExitOrder ==
    ASSUME InOrder, Scanning, AtCandle, NEW signal, Exit(signal)
    PROVE  InOrder' /\ Scanning'
  <1>1. position # None /\ Closing(index) /\ NextCandle
    BY DEF Exit
  <1>2. UNCHANGED <<strategy, candles, rows, pc>> /\ index' = index + 1
    BY <1>1 DEF NextCandle, market, download
  <1>3. index \in Nat /\ position.entry < index /\ index - position.entry <= strategy.hold
    BY <1>1 DEF Scanning
  <1>4. InOrder' /\ position' = None /\ \A j \in 1 .. Len(trades') : trades'[j].exit < index + 1
    BY <1>1, <1>2, <1>3, ClosingOrder
  <1>5. pc = "scan" /\ index <= Len(rows) /\ Len(rows) \in Nat
    BY DEF AtCandle, Scanning
  <1> QED
    BY <1>2, <1>3, <1>4, <1>5 DEF Scanning

LEMMA HoldOrder ==
    ASSUME InOrder, Scanning, AtCandle, NEW signal, Hold(signal)
    PROVE  InOrder' /\ Scanning'
  <1>1. position # None /\ ~Exits(position, signal) /\ NextCandle /\ trades' = trades
    BY DEF Hold
  <1>2. UNCHANGED <<strategy, candles, rows, pc>> /\ index' = index + 1
    BY <1>1 DEF NextCandle, market, download
  <1>3. index \in Nat /\ position.entry \in Nat /\ pc = "scan" /\ index <= Len(rows) /\ Len(rows) \in Nat
    BY <1>1 DEF AtCandle, Scanning
  <1>4. index - position.entry < strategy.hold
    <2>1. ~HeldLong(position)
      BY <1>1, Kinds DEF Exits
    <2> QED
      BY <1>3, <2>1, Kinds DEF HeldLong
  <1>5. position'.entry = position.entry /\ DOMAIN position' = Fields
    BY <1>1 DEF Hold, Scanning, Fields
  <1>6. InOrder'
    BY <1>1, <1>2 DEF InOrder
  <1>7. \A i \in 1 .. Len(trades) : trades[i].exit \in Nat /\ trades[i].exit < index
    BY <1>3 DEF InOrder, Scanning
  <1> QED
    BY <1>1, <1>2, <1>3, <1>4, <1>5, <1>6, <1>7, Kinds DEF Scanning

LEMMA PassOrder ==
    ASSUME InOrder, Scanning, AtCandle, NEW signal, Pass(signal)
    PROVE  InOrder' /\ Scanning'
  <1>1. position = None /\ position' = None /\ trades' = trades /\ NextCandle
    BY DEF Pass
  <1>2. UNCHANGED <<strategy, candles, rows, pc>> /\ index' = index + 1
    BY <1>1 DEF NextCandle, market, download
  <1>3. index \in Nat /\ pc = "scan" /\ index <= Len(rows) /\ Len(rows) \in Nat
    BY DEF AtCandle, Scanning
  <1>4. InOrder'
    BY <1>1, <1>2 DEF InOrder
  <1>5. \A i \in 1 .. Len(trades) : trades[i].exit \in Nat /\ trades[i].exit < index
    BY <1>3 DEF InOrder, Scanning
  <1> QED
    BY <1>1, <1>2, <1>3, <1>4, <1>5 DEF Scanning

LEMMA EnterOrder ==
    ASSUME InOrder, Scanning, AtCandle, NEW signal, Enter(signal)
    PROVE  InOrder' /\ Scanning'
  <1>1. position = None /\ index < Len(rows) /\ trades' = trades /\ NextCandle
    BY DEF Enter
  <1>2. UNCHANGED <<strategy, candles, rows, pc>> /\ index' = index + 1
    BY <1>1 DEF NextCandle, market, download
  <1>3. index \in Nat /\ pc = "scan" /\ Len(rows) \in Nat
    BY DEF AtCandle, Scanning
  <1>4. \A lots : Position(signal, lots).entry = index /\ DOMAIN Position(signal, lots) = Fields
    BY DEF Position, Fields
  <1>5. position' = None \/ (position'.entry = index /\ DOMAIN position' = Fields)
    <2>1. CASE EnterUnsized(signal)
      BY <1>4, <2>1 DEF EnterUnsized, Fields
    <2>2. CASE EnterSized(signal)
      BY <1>1, <1>4, <2>2 DEF EnterSized
    <2> QED
      BY <2>1, <2>2 DEF Enter
  <1>6. InOrder'
    BY <1>1, <1>2 DEF InOrder
  <1>7. \A i \in 1 .. Len(trades) : trades[i].exit \in Nat /\ trades[i].exit < index
    BY <1>3 DEF InOrder, Scanning
  <1> QED
    BY <1>1, <1>2, <1>3, <1>5, <1>6, <1>7, Kinds DEF Scanning

LEMMA FinishOrder ==
    ASSUME InOrder, Scanning, Finish
    PROVE  InOrder' /\ Scanning'
  <1>1. pc = "scan" /\ index > Len(rows) /\ pc' = "done" /\ UNCHANGED <<strategy, candles, rows, index>>
    BY DEF Finish, market, download
  <1>2. CASE position # None /\ Closing(Len(rows))
    <2>1. /\ Len(rows) \in Nat /\ position.entry \in Nat /\ position.entry < Len(rows)
          /\ index - position.entry <= strategy.hold /\ index \in Nat
          /\ strategy.hold \in Nat
      BY <1>2, Kinds DEF Scanning
    <2>2. Len(rows) - position.entry <= strategy.hold
      BY <1>1, <2>1
    <2>3. InOrder' /\ position' = None
      BY <1>1, <1>2, <2>1, <2>2, ClosingOrder
    <2> QED
      BY <1>1, <2>3 DEF Scanning
  <1>3. CASE position = None /\ UNCHANGED <<position, account, points, trades>>
    BY <1>1, <1>3 DEF InOrder, Scanning
  <1> QED
    BY <1>2, <1>3 DEF Finish

LEMMA InitOrder ==
    ASSUME Init
    PROVE  Fetching /\ InOrder /\ Scanning
  <1>1. /\ candles \in [1 .. Periods -> Candle] /\ strategy \in Strategies
        /\ closed \in 0 .. Periods
        /\ pc = "fetch" /\ fetched = {} /\ after = None /\ latest = 0 /\ rows = <<>>
        /\ index = 0 /\ position = None /\ trades = <<>>
    BY BacktestConstants DEF Init
  <1>2. rows \in Seq(Candle) /\ trades \in Seq({}) /\ Len(trades) = 0
    BY <1>1
  <1>3. Fetching
    BY <1>1 DEF Fetching
  <1>4. InOrder
    BY <1>2 DEF InOrder
  <1> QED
    BY <1>1, <1>2, <1>3, <1>4 DEF Scanning

\* The rows of a finished download, and where the loop starts.
LEMMA FetchOrder ==
    ASSUME Fetching, InOrder, Scanning, FetchPage
    PROVE  Fetching' /\ InOrder' /\ Scanning'
  <1>1. /\ pc = "fetch" /\ UNCHANGED <<strategy, candles, closed, position, trades>>
        /\ position = None /\ trades = <<>> /\ closed \in Nat /\ closed <= Periods
    BY BacktestConstants DEF FetchPage, market, Scanning, Fetching
  <1>2. Fetching' /\ (pc' # "fetch" => Downloaded(fetched'))
    BY FetchStep
  <1>3. PICK a \in Nat \ {0} : \E b \in 0 .. closed : fetched' = a .. b /\ a <= b + 1
    BY FetchStep
  <1>4. PICK b \in 0 .. closed : fetched' = a .. b /\ a <= b + 1
    BY <1>3
  <1>5. trades' = <<>> /\ Len(trades') = 0 /\ \E S : trades' \in Seq(S)
    BY <1>1, EmptySeq
  <1>6. InOrder'
    BY <1>5 DEF InOrder
  <1>7. CASE pc' = "fetch"
    <2>1. UNCHANGED <<rows, index>>
      BY <1>7 DEF FetchPage, Downloaded
    <2> QED
      BY <1>1, <1>2, <1>6, <1>7, <2>1 DEF Scanning
  <1>8. CASE pc' # "fetch"
    <2> DEFINE n == b + 1 - a
               nth(i) == CHOOSE t \in a .. b : Cardinality({u \in a .. b : u <= t}) = i
    <2>1. Downloaded(fetched') /\ Cardinality(fetched') = n /\ n \in Nat
      BY <1>1, <1>2, <1>4, <1>8, IntervalSize
    <2>2. /\ rows' = [i \in 1 .. n |-> candles[nth(i)]]
          /\ index' = Warmup(strategy) + 1
          /\ pc' = IF n <= Warmup(strategy) THEN "done" ELSE "scan"
      BY <1>4, <2>1 DEF Downloaded
    <2>3. ASSUME NEW i \in 1 .. n
          PROVE  nth(i) = a + i - 1
      <3>1. a \in Nat /\ b \in Nat /\ i \in 1 .. b + 1 - a
        BY <1>1, <1>4
      <3> QED
        BY <3>1, Nth, Zenon
    <2>4. \A i \in 1 .. n : a + i - 1 \in 1 .. Periods
      BY <1>1, <1>4, BacktestConstants
    <2>5. rows' = [i \in 1 .. n |-> candles[a + i - 1]]
      <3> HIDE DEF nth
      <3> QED
        BY <2>2, <2>3
    <2> HIDE DEF n
    <2>6. \A i \in 1 .. n : candles[a + i - 1] \in Candle
      BY <2>4 DEF Scanning
    <2>7. rows' \in Seq(Candle) /\ Len(rows') = n
      BY <2>1, <2>5, <2>6, IsASeq
    <2>8. index' \in Nat /\ index' >= 1 /\ (pc' = "scan" => index' <= Len(rows') + 1)
      BY <2>1, <2>2, <2>7, Kinds
    <2> QED
      BY <1>1, <1>2, <1>5, <1>6, <1>8, <2>7, <2>8 DEF Scanning
  <1> QED
    BY <1>7, <1>8

LEMMA StepOrder ==
    ASSUME Fetching, InOrder, Scanning, [Next]_vars
    PROVE  Fetching' /\ InOrder' /\ Scanning'
  <1>1. CASE FetchPage
    BY <1>1, FetchOrder
  <1>2. CASE CandleCloses
    <2>1. /\ pc = "fetch" /\ closed < Periods /\ closed' = closed + 1
          /\ UNCHANGED <<candles, strategy, pc, fetched, after, latest, rows, index, position, trades>>
      BY <1>2 DEF CandleCloses, market
    <2>2. Fetching'
      BY <2>1, BacktestConstants DEF Fetching
    <2> QED
      BY <2>1, <2>2 DEF InOrder, Scanning
  <1>3. ASSUME NEW signal, AtCandle, Exit(signal) \/ Hold(signal) \/ Pass(signal) \/ Enter(signal)
        PROVE  Fetching' /\ InOrder' /\ Scanning'
    <2>1. UNCHANGED <<closed, fetched, after, latest, pc>>
      BY <1>3 DEF Exit, Hold, Pass, Enter, NextCandle, download
    <2>2. Fetching'
      BY <2>1 DEF Fetching, Latest
    <2> QED
      BY <1>3, <2>2, ExitOrder, HoldOrder, PassOrder, EnterOrder
  <1>4. CASE Finish
    <2>1. UNCHANGED <<closed, fetched, after, latest>> /\ pc = "scan" /\ pc' = "done"
      BY <1>4 DEF Finish, download
    <2>2. Fetching'
      BY <2>1 DEF Fetching, Latest
    <2> QED
      BY <1>4, <2>2, FinishOrder
  <1>5. CASE UNCHANGED vars
    BY <1>5 DEF vars, Fetching, Latest, InOrder, Scanning
  <1> QED
    BY <1>1, <1>2, <1>3, <1>4, <1>5 DEF Next, Program, EvaluateCandle

LEMMA Evaluated == Spec => [](Fetching /\ InOrder /\ Scanning)
  <1>1. Init => Fetching /\ InOrder /\ Scanning
    BY InitOrder
  <1>2. Fetching /\ InOrder /\ Scanning /\ [Next]_vars => (Fetching /\ InOrder /\ Scanning)'
    BY StepOrder
  <1> QED
    BY <1>1, <1>2, PTL DEF Spec

\* For every page size, limit and number of candles, and whenever they close:
\* fetch_okx_history_rows returns the candles that were the latest at its first
\* page, without a gap and as many as the limit asks for or there were.
THEOREM FetchesLatest == Spec => []FetchedIsLatest
  <1>1. Fetching => FetchedIsLatest
    BY DEF Fetching, FetchedIsLatest, Latest
  <1> QED
    BY <1>1, Evaluated, PTL

\* For every market and strategy: the positions of a backtest follow each
\* other, none outlives strategy.hold, and none is left open at the end.
THEOREM TradesOrdered == Spec => []TradesInOrder
  <1>1. ASSUME InOrder, Scanning
        PROVE  TradesInOrder
    <2>1. PICK S : trades \in Seq(S)
      BY <1>1 DEF InOrder
    <2>2. DOMAIN trades = 1 .. Len(trades) /\ Len(trades) \in Nat
      BY <2>1
    <2>3. \A i \in DOMAIN trades : i > 1 => trades[i - 1].exit < trades[i].entry
      BY <1>1, <2>2 DEF InOrder
    <2>4. pc = "done" => ~Open
      BY <1>1 DEF Scanning, Open
    <2> QED
      BY <1>1, <2>2, <2>3, <2>4 DEF InOrder, TradesInOrder
  <1> QED
    BY <1>1, Evaluated, PTL

-----------------------------------------------------------------------------
(* The account.                                                            *)

\* The margin buffer is at least the fee of the position it pays for.
BufferPaysFee == Leverage * FeeNum * MarginPercent <= (100 - MarginPercent) * FeeDen

\* Amounts are whole numbers, and the balance pays for the fee.
Money ==
    /\ account.equity \in Int /\ account.available \in Int
    /\ position # None /\ HasAccount =>
        /\ position.price \in Int /\ position.lots \in Int
        /\ position.margin \in Int /\ position.fee \in Int
    /\ FeesCovered

LEMMA Amounts ==
    ASSUME NEW price \in Int, NEW lots \in Int
    PROVE  Notional(price, lots) \in Int /\ Margin(price, lots) \in Int /\ Fee(price, lots) \in Int
  <1>1. Leverage \in Int /\ FeeDen \in Int /\ FeeNum \in Int
    BY SizerConstants
  <1>2. price * lots \in Int
    BY ProductTypes
  <1>3. price * lots * Leverage \in Int /\ price * lots * FeeDen \in Int
    BY <1>1, <1>2, ProductTypes
  <1>4. price * lots * Leverage * FeeDen \in Int /\ price * lots * Leverage * FeeNum \in Int
    BY <1>1, <1>3, ProductTypes
  <1> QED
    BY <1>3, <1>4 DEF Notional, Margin, Fee

LEMMA CloseIs ==
    ASSUME Scanning, NEW i \in 1 .. Len(rows)
    PROVE  rows[i].close \in Nat \ {0}
  <1>1. rows[i] \in Candle
    BY DEF Scanning
  <1> QED
    BY <1>1, BacktestConstants

\* A position that closes leaves whole amounts.
LEMMA ClosingMoney ==
    ASSUME Scanning, Money, position # None, NEW i \in 1 .. Len(rows), Closing(i),
           UNCHANGED strategy
    PROVE  Money'
  <1>1. position' = None /\ account' = IF HasAccount THEN Settled(position, rows[i].close) ELSE account
    BY DEF Closing
  <1>2. CASE HasAccount
    <2> DEFINE close == rows[i].close
               gain == Pnl(position, close)
               fee == Fee(close, position.lots)
    <2>1. close \in Int /\ position.price \in Int /\ position.lots \in Int /\ position.margin \in Int
      BY <1>2, CloseIs DEF Money
    <2> HIDE DEF close
    <2>2. Gain(position, close) \in Int
      BY <2>1 DEF Gain
    <2>3. gain \in Int /\ fee \in Int
      BY <2>1, <2>2, Amounts DEF Pnl
    <2>4. account' = [equity |-> account.equity + gain - fee,
                      available |-> account.available + position.margin + gain - fee]
      BY <1>1, <1>2 DEF Settled, close
    <2> HIDE DEF gain, fee
    <2>5. account'.equity \in Int /\ account'.available \in Int
      BY <2>1, <2>3, <2>4 DEF Money
    <2> QED
      BY <1>1, <2>5 DEF Money, FeesCovered, Open
  <1>3. CASE ~HasAccount
    BY <1>1, <1>3 DEF Money, FeesCovered, Open
  <1> QED
    BY <1>2, <1>3

LEMMA RequestIs ==
    ASSUME account.equity \in Int
    PROVE  RequestedSize.num \in Int /\ RequestedSize.den \in Nat \ {0}
  <1>1. RequestNum \in Int /\ RequestDen \in Nat \ {0} /\ LotsPerContract \in Int
    BY BacktestConstants, SizerConstants
  <1>2. account.equity * RequestNum \in Int
    BY <1>1, ProductTypes
  <1> QED
    BY <1>1, <1>2, Fraction DEF RequestedSize

\* Lots are whole, also of a size that passes unchecked.
LEMMA LotsAreWhole ==
    ASSUME NEW requested, requested.num \in Int, requested.den \in Nat \ {0},
           NEW equity \in Int, NEW available \in Int, NEW price \in Nat \ {0},
           NEW sizing \in OpenOrderSizes(requested, equity, available, price), sizing.block = Unblocked
    PROVE  /\ sizing.lots \in Int
           /\ equity <= 0 /\ available <= 0 => sizing.lots = requested.num \div requested.den
  <1>1. CASE equity > 0 \/ available > 0
    BY <1>1, SizeFits
  <1>2. CASE equity <= 0 /\ available <= 0
    <2>1. sizing \in {BlockedBy("non_positive_requested_size"), Sized(requested.num \div requested.den)}
      BY <1>2 DEF OpenOrderSizes
    <2>2. sizing = Sized(requested.num \div requested.den)
      <3>1. BlockedBy("non_positive_requested_size").block # Unblocked
        BY DEF BlockedBy, Unblocked
      <3> QED
        BY <2>1, <3>1
    <2>3. requested.num \div requested.den \in Int
      BY QuotientFits
    <2> QED
      BY <2>2, <2>3 DEF Sized
  <1> QED
    BY <1>1, <1>2

LEMMA EnterMoney ==
    ASSUME BufferPaysFee, Scanning, Money, AtCandle, NEW signal, Enter(signal)
    PROVE  Money'
  <1>1. UNCHANGED strategy /\ position = None
    BY DEF Enter, NextCandle, market
  <1>2. CASE EnterUnsized(signal)
    BY <1>1, <1>2 DEF EnterUnsized, Money, FeesCovered, HasAccount
  <1>3. ASSUME NEW sizing \in OpenOrderSizes(RequestedSize, account.equity, account.available, Price),
               sizing.block = Unblocked, position' = Position(signal, sizing.lots),
               account' = [equity |-> account.equity - position'.fee,
                           available |-> account.available - position'.margin - position'.fee]
        PROVE  Money'
    <2> DEFINE lots == sizing.lots
               price == Price
               margin == Margin(price, lots)
               fee == Fee(price, lots)
               equity == account.equity
               available == account.available
    <2>1. equity \in Int /\ available \in Int
      BY DEF Money
    <2>2. price \in Nat \ {0}
      <3>1. index \in 1 .. Len(rows)
        BY DEF AtCandle, Scanning
      <3> QED
        BY <3>1, CloseIs DEF Price
    <2>3. RequestedSize.num \in Int /\ RequestedSize.den \in Nat \ {0}
      BY <2>1, RequestIs
    <2> HIDE DEF price
    <2>4. sizing \in OpenOrderSizes(RequestedSize, equity, available, price)
      BY <1>3 DEF price
    <2> HIDE DEF equity, available
    <2>5. lots \in Int
      BY <1>3, <2>1, <2>2, <2>3, <2>4, LotsAreWhole
    <2>6. margin \in Int /\ fee \in Int
      <3> HIDE DEF lots
      <3>1. price \in Int
        BY <2>2
      <3> QED
        BY <2>5, <3>1, Amounts
    <2>7. /\ position'.price = price /\ position'.lots = lots
          /\ position'.margin = margin /\ position'.fee = fee
      BY <1>3 DEF Position, price
    <2>8. account'.equity = equity - fee /\ account'.available = available - margin - fee
      BY <1>3, <2>7 DEF equity, available
    <2>9. ASSUME equity > 0
          PROVE  margin + fee <= available
      <3>1. lots >= LotsPerContract /\ 100 * margin <= available * MarginPercent
        BY <1>3, <2>1, <2>2, <2>3, <2>4, <2>9, SizeFits
      <3> DEFINE x == price * lots
                 g == Leverage * FeeNum
      <3>2. /\ FeeDen \in Nat /\ FeeNum \in Nat /\ Leverage \in Nat \ {0}
            /\ MarginPercent \in 1 .. 100 /\ LotsPerContract \in Nat \ {0}
        BY SizerConstants
      <3>3. lots \in Nat \ {0}
        BY <2>5, <3>1, <3>2
      <3>4. x \in Nat
        BY <2>2, <3>3, Products
      <3>5. g \in Nat
        BY <3>2
      <3>6. margin = x * FeeDen
        BY DEF Margin
      <3>7. fee = x * g
        <4>1. fee = x * Leverage * FeeNum
          BY DEF Fee
        <4> HIDE DEF x
        <4>2. x * Leverage * FeeNum = x * (Leverage * FeeNum)
          BY <3>2, <3>4, Rearranged
        <4> QED
          BY <4>1, <4>2
      <3>8. g * MarginPercent <= (100 - MarginPercent) * FeeDen
        BY DEF BufferPaysFee
      <3> HIDE DEF x, g, margin, fee, lots
      <3>9. x * FeeDen + x * g <= available
        BY <2>1, <3>1, <3>2, <3>4, <3>5, <3>6, <3>8, BufferCovers
      <3> QED
        BY <3>6, <3>7, <3>9
    <2> HIDE DEF lots, margin, fee
    <2>10. account'.equity + position'.fee > 0 => account'.available >= 0
      BY <2>1, <2>6, <2>7, <2>8, <2>9
    <2> QED
      BY <2>1, <2>2, <2>5, <2>6, <2>7, <2>8, <2>10 DEF Money, FeesCovered
  <1>4. CASE EnterSized(signal)
    <2>1. PICK sizing \in OpenOrderSizes(RequestedSize, account.equity, account.available, Price) :
            \/ sizing.block # Unblocked /\ UNCHANGED <<position, account>>
            \/ /\ sizing.block = Unblocked /\ position' = Position(signal, sizing.lots)
               /\ account' = [equity |-> account.equity - position'.fee,
                              available |-> account.available - position'.margin - position'.fee]
      BY <1>4 DEF EnterSized
    <2>2. CASE UNCHANGED <<position, account>>
      BY <1>1, <2>2 DEF Money, FeesCovered, Open
    <2> QED
      BY <1>3, <2>1, <2>2
  <1> QED
    BY <1>2, <1>4 DEF Enter

LEMMA HoldMoney ==
    ASSUME Scanning, Money, NEW signal, Hold(signal)
    PROVE  Money'
  <1>1. UNCHANGED <<strategy, account>> /\ position # None
    BY DEF Hold, NextCandle, market
  <1>2. DOMAIN position = Fields
    BY <1>1 DEF Scanning
  <1>3. /\ position'.price = position.price /\ position'.lots = position.lots
        /\ position'.margin = position.margin /\ position'.fee = position.fee
    BY <1>2 DEF Hold, Fields
  <1> QED
    BY <1>1, <1>3 DEF Money, FeesCovered, Open, HasAccount

LEMMA StepMoney ==
    ASSUME BufferPaysFee, Scanning, Money, [Next]_vars
    PROVE  Money'
  <1>1. ASSUME UNCHANGED <<strategy, position, account>>
        PROVE  Money'
    BY <1>1 DEF Money, FeesCovered, Open, HasAccount
  <1>2. CASE FetchPage
    BY <1>1, <1>2 DEF FetchPage, market
  <1>3. CASE CandleCloses
    BY <1>1, <1>3 DEF CandleCloses, market
  <1>4. ASSUME NEW signal, AtCandle, Exit(signal)
        PROVE  Money'
    <2>1. position # None /\ Closing(index) /\ UNCHANGED strategy
      BY <1>4 DEF Exit, NextCandle, market
    <2>2. index \in 1 .. Len(rows)
      BY <1>4 DEF AtCandle, Scanning
    <2> QED
      BY <2>1, <2>2, ClosingMoney
  <1>5. ASSUME NEW signal, Pass(signal)
        PROVE  Money'
    BY <1>1, <1>5 DEF Pass, NextCandle, market
  <1>6. CASE Finish
    <2>1. CASE position # None /\ Closing(Len(rows))
      <3>1. Len(rows) \in 1 .. Len(rows)
        BY <2>1 DEF Scanning
      <3> QED
        BY <1>6, <2>1, <3>1, ClosingMoney DEF Finish, market
    <2>2. CASE position = None /\ UNCHANGED <<position, account, points, trades>>
      BY <1>1, <1>6, <2>2 DEF Finish, market
    <2> QED
      BY <1>6, <2>1, <2>2 DEF Finish
  <1>7. CASE UNCHANGED vars
    BY <1>1, <1>7 DEF vars
  <1> QED
    BY <1>2, <1>3, <1>4, <1>5, <1>6, <1>7, HoldMoney, EnterMoney DEF Next, Program, EvaluateCandle

\* Whatever the prices: where the buffer is at least the fee at full leverage,
\* as it is for the leverage and fee of the settings, what the sizer allows
\* never takes the available balance below zero.
THEOREM FeesPaid ==
    ASSUME BufferPaysFee
    PROVE  Spec => []FeesCovered
  <1>1. Init => Money
    BY BacktestConstants DEF Init, Money, FeesCovered, Open
  <1>2. Scanning /\ Money /\ [Next]_vars => Money'
    BY StepMoney
  <1>3. Spec => []Money
    BY <1>1, <1>2, Evaluated, PTL DEF Spec
  <1>4. Money => FeesCovered
    BY DEF Money
  <1> QED
    BY <1>3, <1>4, PTL
=============================================================================
