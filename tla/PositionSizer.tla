--------------------------- MODULE PositionSizer ---------------------------
(***************************************************************************)
(* calculate_open_order_size: how much of a requested open order the       *)
(* available margin pays for.  The result is in lots, requests and what is *)
(* affordable are fractions of lots, [num, den].  Money is counted so that *)
(* margins and fees are whole: of a size moved at a price, Notional, a     *)
(* Margin is reserved and a Fee paid.                                      *)
(*                                                                         *)
(* A symbol without a contract value or a price of zero, which would pass  *)
(* unchecked, does not occur in a backtest.                                *)
(***************************************************************************)
EXTENDS Integers

CONSTANTS
    LotsPerContract, \* 100: an order has at least one contract
    Leverage,        \* max_leverage
    FeeNum, FeeDen,  \* the fee rate: fee_bps / 10000
    MarginPercent    \* MARGIN_USAGE_BUFFER: 95

ASSUME SizerConstants ==
    /\ LotsPerContract \in Nat \ {0} /\ Leverage \in Nat \ {0}
    /\ FeeNum \in Nat /\ FeeDen \in Nat \ {0}
    /\ MarginPercent \in 1 .. 100

Notional(price, lots) == price * lots * Leverage * FeeDen
Margin(price, lots) == price * lots * FeeDen
Fee(price, lots) == price * lots * Leverage * FeeNum

Smaller(a, b) == IF a < b THEN a ELSE b

SmallerSize(x, y) == IF x.num * y.den < y.num * x.den THEN x ELSE y

\* size // lot_size * lot_size in floating point: the float 0.01 is a little
\* more than a hundredth, so the quotient of a whole number of contracts is
\* rounded down to one lot less; other multiples of the lot may lose a lot.
FloorToLotSize(size) ==
    LET lots == size.num \div size.den
    IN  CASE lots * size.den # size.num -> {lots}
          [] lots * size.den = size.num /\ lots % LotsPerContract = 0 -> {lots - 1}
          [] OTHER -> {lots - 1, lots}

UnbufferedBug(available, price) == [num |-> available, den |-> Margin(price, 1)]

MaxAffordableSize(available, price) ==
    [num |-> available * MarginPercent, den |-> 100 * Margin(price, 1)]

Unblocked == ""
Sized(lots) == [lots |-> lots, block |-> Unblocked]
BlockedBy(reason) == [lots |-> 0, block |-> reason]

\* The possible results.  An account that shows nothing at all is not checked.
OpenOrderSizes(requested, equity, available, price) ==
    CASE requested.num <= 0 -> {BlockedBy("non_positive_requested_size")}
      [] requested.num > 0 /\ equity <= 0 /\ available <= 0 ->
            {Sized(requested.num \div requested.den)}
      [] requested.num > 0 /\ equity > 0 /\ available <= 0 ->
            {BlockedBy("insufficient_available_margin")}
      [] OTHER ->
            {IF lots < LotsPerContract THEN BlockedBy("insufficient_available_margin")
             ELSE Sized(lots) :
             lots \in FloorToLotSize(SmallerSize(requested, MaxAffordableSize(available, price)))}
=============================================================================
