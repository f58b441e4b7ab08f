--------------------------- MODULE TraderExecution ---------------------------
(***************************************************************************)
(* The life of the orders and of the position of one symbol.               *)
(*                                                                         *)
(* Two asyncio tasks evaluate the symbol: the public one on every market   *)
(* event, the private one when a position becomes flat while a reversal is *)
(* pending.  Both read what the trader knows, await the exchange, and act  *)
(* on what they read.  The exchange executes requests on its own and tells *)
(* the private stream in two feeds, one of orders and one of positions,    *)
(* which nothing keeps in step.                                            *)
(*                                                                         *)
(* The strategies are fixed ones, which yield one signal at most and stay  *)
(* enabled.  An open is one unit; prices, margin and the run mode          *)
(* (RuntimeControl) only decide whether an evaluation goes on.             *)
(***************************************************************************)
EXTENDS Integers, Sequences, FiniteSets

CONSTANTS
    None,
    Order,            \* client order ids; bound: the ids in use at a time
    SignalSides,      \* the sides the strategy signals
    ReversingSides,   \* the sides whose signal closes an opposite position
    Faults,           \* external: what may go wrong, of FaultKinds
    MaxPosition,      \* bound: the units held on a side
    MaxFeed           \* bound: the messages waiting in a feed

Side == {"long", "short"}
FaultKinds == {"lost answer", "cancel", "disconnect"}

ASSUME ExecutionConstants ==
    /\ SignalSides \subseteq Side /\ ReversingSides \subseteq SignalSides
    /\ Faults \subseteq FaultKinds
    /\ MaxPosition \in Nat \ {0} /\ MaxFeed \in Nat \ {0}
    /\ None \notin Side \union {"open", "close", "accepted", "rejected"}
    /\ None \notin Order
    /\ None \notin [side: Side, quantity: Nat]

VARIABLES
    position,   \* positions_by_symbol: the last position reported, or None
    orders,     \* open_orders_by_symbol
    pending,    \* pending_position_actions
    reverse,    \* pending_reverse_signals
    cooling,    \* open_execution_failure_cooldowns, by side
    entered,    \* is the current candle the entry candle of the last open?
    task,       \* where each task is, and what it carries across its await
    requests,   \* external: the requests the exchange has not settled
    held,       \* external: the units the exchange holds, by side
    orderFeed,  \* external: order updates on their way
    positionFeed,  \* external: position updates on their way
    exposed     \* auxiliary: has an open filled since the exchange was flat?

known == <<position, orders, pending, reverse, cooling, entered>>
exchange == <<requests, held, orderFeed, positionFeed, exposed>>
vars == <<known, task, exchange>>

Task == {"public", "private"}
Position == [side: Side, quantity: 0 .. MaxPosition]
Tracked == [id: Order, intent: {"open", "close", None}]
Request == [id: Order, kind: {"open", "close"}, side: Side,
            size: 1 .. MaxPosition, accepted: BOOLEAN]
Await == [at: {"idle", "signals", "exit", "leverage", "open", "close"},
          side: Side \union {None},        \* of the signal carried
          held: Position \union {None},    \* the position read before "exit"
          reversing: BOOLEAN,              \* does it open a pending reverse?
          id: Order \union {None},
          answer: {"accepted", "rejected", None}]

AtRest == [at |-> "idle", side |-> None, held |-> None, reversing |-> FALSE,
           id |-> None, answer |-> None]

Holding == position # None /\ position.quantity # 0
HasOrders == orders # {}
Exposed == Holding \/ HasOrders

\* The entry candle yields no second signal.
Yield == IF entered THEN {None} ELSE SignalSides \union {None}

InUse == {o.id : o \in orders} \union {r.id : r \in requests}
         \union {task[t].id : t \in Task}
         \union {orderFeed[i].id : i \in 1 .. Len(orderFeed)}

Finish(t) == task' = [task EXCEPT ![t] = AtRest]
Untrack(id) == {o \in orders : o.id # id}

-----------------------------------------------------------------------------
(* _evaluate_symbol, cut at its awaits.                                     *)

\* A market event, in a mode that evaluates: the candles are fetched.
Evaluate ==
    /\ task["public"].at = "idle"
    /\ task' = [task EXCEPT !["public"].at = "signals"]
    /\ UNCHANGED <<known, exchange>>

ActsOn(t) == task[t].at = "signals" /\ pending = None

\* There is nothing to do, or it is refused: a pending action, exposure, no
\* signal, a cooldown, too little margin.
Skip(t) ==
    /\ task[t].at = "signals"
    /\ ~(pending = None /\ reverse = None /\ Holding /\ ~HasOrders)
    /\ Finish(t)
    /\ UNCHANGED <<known, exchange>>

\* _submit_signal_open up to set_leverage, for the pending reverse or for the
\* signal.
BeginOpen(t) ==
    /\ ActsOn(t) /\ ~Exposed
    /\ \E side \in IF reverse # None THEN {reverse} ELSE Yield \ {None} :
        /\ side \notin cooling
        /\ task' = [task EXCEPT ![t] = [AtRest EXCEPT
              !.at = "leverage", !.side = side, !.reversing = reverse # None]]
    /\ UNCHANGED <<known, exchange>>

\* The position may have to be closed: its exit rules fetch candles too.
CheckExit(t) ==
    /\ ActsOn(t) /\ reverse = None /\ Holding /\ ~HasOrders
    /\ \E side \in Yield :
        task' = [task EXCEPT ![t] = [AtRest EXCEPT
            !.at = "exit", !.side = side, !.held = position]]
    /\ UNCHANGED <<known, exchange>>

\* _opposite_signal, of the position read before the await.
Opposite(t) ==
    task[t].side \in ReversingSides /\ task[t].side # task[t].held.side

NoExit(t) ==
    /\ task[t].at = "exit" /\ ~Opposite(t)
    /\ Finish(t)
    /\ UNCHANGED <<known, exchange>>

\* What a submission stages before its request goes out.
Stage(t, kind, side, size, carried) ==
    \E id \in Order \ InUse :
        /\ orders' = orders \union {[id |-> id, intent |-> kind]}
        /\ pending' = kind
        /\ requests' = requests \union {[id |-> id, kind |-> kind, side |-> side,
                                         size |-> size, accepted |-> FALSE]}
        /\ task' = [task EXCEPT ![t] = [carried EXCEPT !.at = kind, !.id = id]]
        /\ UNCHANGED <<position, reverse, cooling, entered, held, orderFeed,
                       positionFeed, exposed>>

\* _submit_position_close, because of an exit rule or of an opposite signal;
\* the kernel refuses no close.
SendClose(t) ==
    /\ task[t].at = "exit"
    /\ \E side \in {None} \union IF Opposite(t) THEN {task[t].side} ELSE {} :
        Stage(t, "close", task[t].held.side, task[t].held.quantity,
              [AtRest EXCEPT !.side = side])

CloseSucceedsOpensBug(t) ==
    /\ task[t].at = "close" /\ task[t].answer = "accepted"
    /\ task' = [task EXCEPT ![t] =
          IF task[t].side # None
          THEN [AtRest EXCEPT !.at = "leverage", !.side = task[t].side, !.reversing = TRUE]
          ELSE AtRest]
    /\ UNCHANGED <<known, exchange>>

CloseSucceeds(t) ==
    /\ task[t].at = "close" /\ task[t].answer = "accepted"
    /\ reverse' = IF task[t].side # None THEN task[t].side ELSE reverse
    /\ Finish(t)
    /\ UNCHANGED <<position, orders, pending, cooling, entered, exchange>>

\* The request failed, as far as the trader knows.
Failed(t) == task[t].answer = "rejected" \/ "lost answer" \in Faults

CloseFailsPendingBug(t) ==
    /\ task[t].at = "close" /\ Failed(t)
    /\ orders' = Untrack(task[t].id)
    /\ Finish(t)
    /\ UNCHANGED <<position, pending, reverse, cooling, entered, exchange>>

CloseFails(t) ==
    /\ task[t].at = "close" /\ Failed(t)
    /\ pending' = None
    /\ orders' = Untrack(task[t].id)
    /\ Finish(t)
    /\ UNCHANGED <<position, reverse, cooling, entered, exchange>>

LeverageFails(t) ==
    /\ task[t].at = "leverage"
    /\ cooling' = cooling \union {task[t].side}
    /\ Finish(t)
    /\ UNCHANGED <<position, orders, pending, reverse, entered, exchange>>

\* submit_market_open returns None at once; what was staged is cleared.
OpenRefused(t) ==
    /\ task[t].at = "leverage"
    /\ pending' = None
    /\ Finish(t)
    /\ UNCHANGED <<position, orders, reverse, cooling, entered, exchange>>

SendOpen(t) ==
    /\ task[t].at = "leverage"
    /\ Stage(t, "open", task[t].side, 1, task[t])

OpenSucceedsDoneBug(t) ==
    /\ task[t].at = "open" /\ task[t].answer = "accepted"
    /\ entered' = TRUE /\ pending' = None
    /\ reverse' = IF task[t].reversing THEN None ELSE reverse
    /\ Finish(t)
    /\ UNCHANGED <<position, orders, cooling, exchange>>

OpenSucceeds(t) ==
    /\ task[t].at = "open" /\ task[t].answer = "accepted"
    /\ entered' = TRUE
    /\ reverse' = IF task[t].reversing THEN None ELSE reverse
    /\ Finish(t)
    /\ UNCHANGED <<position, orders, pending, cooling, exchange>>

OpenFailsKeyBug(t) ==
    /\ task[t].at = "open" /\ Failed(t)
    /\ pending' = None
    /\ orders' = Untrack(task[t].id)
    /\ cooling' = cooling \union {task[t].id}
    /\ Finish(t)
    /\ UNCHANGED <<position, reverse, entered, exchange>>

OpenFails(t) ==
    /\ task[t].at = "open" /\ Failed(t)
    /\ pending' = None
    /\ orders' = Untrack(task[t].id)
    /\ cooling' = cooling \union {task[t].side}
    /\ Finish(t)
    /\ UNCHANGED <<position, reverse, entered, exchange>>

\* The rows have a candle more.
NewCandle ==
    /\ entered' = FALSE
    /\ UNCHANGED <<position, orders, pending, reverse, cooling, task, exchange>>

\* Fifteen minutes are over; the exchange reports faster than that.
CooldownExpires ==
    /\ requests = {} /\ orderFeed = <<>> /\ positionFeed = <<>>
    /\ \E side \in cooling : cooling' = cooling \ {side}
    /\ UNCHANGED <<position, orders, pending, reverse, entered, task, exchange>>

-----------------------------------------------------------------------------
(* The private stream: on_order_update, on_position_update and              *)
(* _sync_position_entry_context.                                            *)

ReceiveOrder ==
    LET m == Head(orderFeed)
        intents == {o.intent : o \in {x \in orders : x.id = m.id}}
        intent == IF intents = {} THEN None ELSE CHOOSE i \in intents : TRUE
    IN  /\ task["private"].at = "idle" /\ orderFeed # <<>>
        /\ orders' = IF m.status = "live"
                     THEN Untrack(m.id) \union {[id |-> m.id, intent |-> intent]}
                     ELSE Untrack(m.id)
        /\ orderFeed' = Tail(orderFeed)
        /\ UNCHANGED <<position, pending, reverse, cooling, entered, task,
                       requests, held, positionFeed, exposed>>

SettledPending(quantity) ==
    IF (pending = "open" /\ quantity # 0) \/ (pending = "close" /\ quantity = 0)
    THEN None ELSE pending

ReceivePositionExpectedBug ==
    LET m == Head(positionFeed)
    IN  /\ task["private"].at = "idle" /\ positionFeed # <<>>
        /\ position' = IF pending = None THEN position ELSE m
        /\ orders' = IF m.quantity # 0 THEN orders
                     ELSE {o \in orders : o.intent # "close"}
        /\ pending' = SettledPending(m.quantity)
        /\ positionFeed' = Tail(positionFeed)
        /\ task' = IF m.quantity = 0 /\ reverse # None
                   THEN [task EXCEPT !["private"].at = "signals"] ELSE task
        /\ UNCHANGED <<reverse, cooling, entered, requests, held, orderFeed, exposed>>

\* A flat position with a reversal pending is evaluated at once.
ReceivePosition ==
    LET m == Head(positionFeed)
    IN  /\ task["private"].at = "idle" /\ positionFeed # <<>>
        /\ position' = m
        /\ orders' = IF m.quantity # 0 THEN orders
                     ELSE {o \in orders : o.intent # "close"}
        /\ pending' = SettledPending(m.quantity)
        /\ positionFeed' = Tail(positionFeed)
        /\ task' = IF m.quantity = 0 /\ reverse # None
                   THEN [task EXCEPT !["private"].at = "signals"] ELSE task
        /\ UNCHANGED <<reverse, cooling, entered, requests, held, orderFeed, exposed>>

-----------------------------------------------------------------------------
(* The exchange.                                                            *)

Answered(r, answer) ==
    task' = [t \in Task |-> IF task[t].id = r.id
                            THEN [task[t] EXCEPT !.answer = answer] ELSE task[t]]

Filled(r) ==
    IF r.kind = "open" THEN held[r.side] + r.size
    ELSE IF held[r.side] > r.size THEN held[r.side] - r.size ELSE 0

\* The answer is on its way before the order fills.  A close of nothing is not
\* accepted.
Accepts(r) ==
    /\ ~r.accepted /\ (r.kind = "close" => held[r.side] > 0)
    /\ requests' = (requests \ {r}) \union {[r EXCEPT !.accepted = TRUE]}
    /\ Answered(r, "accepted")
    /\ UNCHANGED <<known, held, orderFeed, positionFeed, exposed>>

\* A market order fills.  A close only reduces what there is.
Executes(r) ==
    /\ r.kind = "close" => held[r.side] > 0
    /\ Filled(r) <= MaxPosition
    /\ held' = [held EXCEPT ![r.side] = Filled(r)]
    /\ requests' = requests \ {r}
    /\ \E statuses \in {<<"filled">>, <<"live", "filled">>} :
        orderFeed' = orderFeed \o
            [i \in 1 .. Len(statuses) |-> [id |-> r.id, status |-> statuses[i]]]
    /\ positionFeed' = Append(positionFeed, [side |-> r.side, quantity |-> Filled(r)])
    /\ Len(orderFeed') <= MaxFeed /\ Len(positionFeed') <= MaxFeed
    /\ exposed' = /\ \E side \in Side : held'[side] > 0
                  /\ exposed \/ r.kind = "open"
    /\ Answered(r, "accepted")
    /\ UNCHANGED known

Rejects(r) ==
    /\ ~r.accepted
    /\ requests' = requests \ {r}
    /\ Answered(r, "rejected")
    /\ UNCHANGED <<known, held, orderFeed, positionFeed, exposed>>

\* The order is accepted and cancelled without a fill: a fault, or the end of
\* a close that finds nothing to reduce.
Cancels(r) ==
    /\ IF r.kind = "close" /\ held[r.side] = 0 THEN r.accepted ELSE "cancel" \in Faults
    /\ requests' = requests \ {r}
    /\ orderFeed' = Append(orderFeed, [id |-> r.id, status |-> "canceled"])
    /\ Len(orderFeed') <= MaxFeed
    /\ Answered(r, "accepted")
    /\ UNCHANGED <<known, held, positionFeed, exposed>>

\* A subscription starts with the positions that are held; nothing sends again
\* what happened to the orders.
Report(side) ==
    IF held[side] = 0 THEN <<>> ELSE <<[side |-> side, quantity |-> held[side]]>>

Resubscribed ==
    /\ orderFeed' = <<>>
    /\ \E first \in Side : \E second \in Side \ {first} :
        positionFeed' = Report(first) \o Report(second)

Reconnect ==
    /\ "disconnect" \in Faults
    /\ task["private"].at = "idle"
    /\ Resubscribed
    /\ UNCHANGED <<known, task, requests, held, exposed>>

-----------------------------------------------------------------------------
Init ==
    /\ position = None /\ orders = {} /\ pending = None /\ reverse = None
    /\ cooling = {} /\ entered = FALSE
    /\ task = [t \in Task |-> AtRest]
    /\ requests = {} /\ held = [side \in Side |-> 0]
    /\ orderFeed = <<>> /\ positionFeed = <<>>
    /\ exposed = FALSE

Decides(t) == Skip(t) \/ BeginOpen(t) \/ CheckExit(t)
Submits(t) ==
    \/ SendClose(t) \/ NoExit(t)
    \/ SendOpen(t) \/ OpenRefused(t) \/ LeverageFails(t)
Concludes(t) ==
    CloseSucceeds(t) \/ CloseFails(t) \/ OpenSucceeds(t) \/ OpenFails(t)
TaskStep(t) == Decides(t) \/ Submits(t) \/ Concludes(t)

Private == ReceiveOrder \/ ReceivePosition
Settles == \E r \in requests : Executes(r) \/ Rejects(r) \/ Cancels(r)
Exchange == Settles \/ \E r \in requests : Accepts(r)

Next ==
    \/ Evaluate \/ NewCandle \/ CooldownExpires
    \/ \E t \in Task : TaskStep(t)
    \/ Private \/ Exchange
    \/ Reconnect

(* asyncio runs what is ready, the exchange settles and reports what it got. *)
Fairness ==
    /\ \A t \in Task : WF_vars(TaskStep(t))
    /\ WF_vars(ReceiveOrder) /\ WF_vars(ReceivePosition)
    /\ WF_vars(Settles)

Spec == Init /\ [][Next]_vars
FairSpec == Spec /\ Fairness

-----------------------------------------------------------------------------
\* The type invariant.
TypeOK ==
    /\ position \in Position \union {None}
    /\ orders \subseteq Tracked
    /\ pending \in {"open", "close", None}
    /\ reverse \in Side \union {None}
    /\ cooling \subseteq Side /\ entered \in BOOLEAN
    /\ task \in [Task -> Await]
    /\ requests \subseteq Request /\ held \in [Side -> 0 .. MaxPosition]
    /\ orderFeed \in Seq([id: Order, status: {"live", "filled", "canceled"}])
    /\ positionFeed \in Seq(Position)
    /\ exposed \in BOOLEAN

SendsOpen(t) == task[t].at = "leverage" /\ task'[t].at = "open"

\* The trader opens only when no open of its own is on its way to the exchange
\* or has filled since the exchange was flat, although it learns of fills late,
\* out of step, and of some requests never.
OneOpenPerExposure ==
    [][\A t \in Task : SendsOpen(t)
        => ~exposed /\ ~\E r \in requests : r.kind = "open"]_vars

\* No position goes unnoticed: with all reports read, the trader knows what
\* the exchange holds.
PositionsKnown ==
    positionFeed = <<>>
    => \A side \in Side : held[side] > 0
        => position = [side |-> side, quantity |-> held[side]]

\* A reversal opens the other side only when the exchange holds nothing of the
\* side it closes, however late the trader learns of the close.
ReverseOpensFlat ==
    [][\A t \in Task : SendsOpen(t) /\ task[t].reversing
        => \A side \in Side \ {task[t].side} : held[side] = 0]_vars

\* What the symbol waits for is over at some time: no stale pending action or
\* tracked order keeps it from being evaluated for ever.
Blocked == pending # None \/ orders # {}
SymbolUnblocks == Blocked ~> ~Blocked
=============================================================================
