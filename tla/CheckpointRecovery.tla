------------------------- MODULE CheckpointRecovery -------------------------
(***************************************************************************)
(* What a trader that starts again knows of one symbol.                    *)
(*                                                                         *)
(* A running trader saves a checkpoint, its open orders and its position,  *)
(* after every private event; a flat position that a reversal waits for is *)
(* first evaluated, with awaits in which orders go out.  It gives up an    *)
(* order whose request fails, although the exchange may have it.  A trader *)
(* that starts loads the newest checkpoint, asks the exchange for the open *)
(* orders and the positions, two requests that are under way together,     *)
(* compares, and runs on or halts.  Orders, fills and the end of a process *)
(* come at any time in between, and the database (HistoryStore) and Redis  *)
(* (RedisRegister) may be out of reach.                                    *)
(*                                                                         *)
(* When to send an order is TraderExecution's, the run mode                *)
(* RuntimeControl's: a trader is halted here when it needs to reconcile.   *)
(***************************************************************************)
EXTENDS HistoryStore, Integers

CONSTANTS
    None,
    Version,        \* versions of the published snapshot
    FixedVersion,   \* the version of the fixed snapshot, or None
    HeldAtStart,    \* what the account may hold before the first start
    MaxOrders,      \* bound: the orders sent
    MaxSize,        \* bound: the units of an order
    MaxBacklog,     \* bound: private events on their way when another happens
    MaxFaults       \* bound: calls of a store or of the exchange that fail or
                    \* are not answered

Bootstrap == "bootstrap"

ASSUME RecoveryConstants ==
    /\ FixedVersion \in Version \union {None}
    /\ HeldAtStart \subseteq Nat
    /\ MaxOrders \in Nat /\ MaxSize \in Nat \ {0} /\ MaxBacklog \in Nat /\ MaxFaults \in Nat
    /\ None \notin Nat

VARIABLES
    phase,       \* where the process is
    engine,      \* the state engine: tracked orders and the position reported
    version,     \* the version of startup_snapshot
    checkpoint,  \* startup_checkpoint
    requests,    \* the orders whose request is not answered yet
    reversing,   \* is there a pending_reverse_signal?
    evaluating,  \* does the private task evaluate the symbol before it saves?
    read,        \* what recovery has read of the exchange
    history,     \* the Postgres store
    published,   \* the latest snapshot in Redis
    connected,   \* is the private stream subscribed?
    book,        \* external: the orders the exchange has not finished
    held,        \* external: the units it holds
    feed,        \* external: private events on their way
    sent,        \* orders sent so far
    faults,      \* calls that have failed
    moved,       \* auxiliary: has the exchange changed since recovery first read it?
    dropped,     \* auxiliary: confirmed orders the engine lost since it was saved
    died         \* auxiliary: what the last process had heard when it ended,
                 \* if it could write

tasks == <<requests, reversing, evaluating, dropped>>
process == <<phase, engine, version, checkpoint, read, history, published, connected>>
exchange == <<book, held, feed, moved>>
vars == <<process, tasks, exchange, sent, faults, died>>

Redis == INSTANCE RedisRegister

Statuses == {"submitted", "live", "partially_filled"}
\* An order is tracked under its client order id until an event names its
\* order id; two spellings of one number here.
TrackedId == [spelling: {"clOrdId", "ordId"}, number: 1 .. MaxOrders]
CheckpointOrder == [id: TrackedId, size: 1 .. MaxSize, status: Statuses]
Tracked == [id: TrackedId, size: 1 .. MaxSize, status: Statuses,
            intent: {"open", "close", None}]
Booked == [number: 1 .. MaxOrders, kind: {"open", "close"}, size: 1 .. MaxSize,
           filled: 0 .. MaxSize, status: {"requested", "live", "partially_filled"}]
\* Of a request that is under way: does it belong to a reversal?
Request == [number: 1 .. MaxOrders, kind: {"open", "close"}, reverses: BOOLEAN]
Quantity == Nat

EmptyEngine == [orders |-> {}, position |-> None]
NothingRead == [orders |-> None, positions |-> None]

-----------------------------------------------------------------------------
(* Checkpoints.                                                             *)

AsCheckpointOrder(o) == [id |-> o.id, size |-> o.size, status |-> o.status]

\* _build_execution_checkpoint
CheckpointOf(eng, id, ver, reconcile) ==
    [id |-> id, version |-> ver, position |-> eng.position, reconcile |-> reconcile,
     orders |-> {AsCheckpointOrder(o) : o \in eng.orders}]

\* _build_startup_checkpoint
StartupCheckpoint(ver) == CheckpointOf(EmptyEngine, "startup", ver, FALSE)

\* _load_latest_checkpoint; startup_checkpoint is a startup checkpoint then.
Loaded(h, ver) ==
    LET rows == RecentRows(h, "execution_checkpoints", 1)
    IN  IF rows = <<>> \/ rows[1].version # ver
        THEN StartupCheckpoint(ver) ELSE rows[1]

\* Only the newest checkpoint is ever read.
Newest(h) == [h EXCEPT !.db["execution_checkpoints"] = Window(@, 1),
                       !.own["execution_checkpoints"] = Window(@, 1)]

\* The stores a call may leave behind: the database may be lost in it.
Reached(h) == {h} \union IF h.disabled \/ faults = MaxFaults THEN {} ELSE {DatabaseLost(h)}
FaultIf(failed) == faults' = faults + IF failed THEN 1 ELSE 0

\* save_checkpoint
Save(row) ==
    /\ \E h \in Reached(history) :
        /\ checkpoint' = row
        /\ history' = Newest(WithRow(h, "execution_checkpoints", row))
        /\ FaultIf(h # history)
    /\ dropped' = {}

-----------------------------------------------------------------------------
(* Recovery: run_startup_recovery.                                          *)

\* What fetch_open_orders and fetch_positions show.
OpenOrders == {o \in book : o.status # "requested"}
\* A flat position has no row, or one without a mark price, which is skipped.
PositionRows == IF held = 0 THEN {} ELSE {held}

StatusesCompatible(a, b) == a = b \/ {a, b} = {"submitted", "live"}

\* _checkpoint_order_matches_exchange_order, for market orders, which have no
\* price; the order id is either of the exchange's.
Matches(c, o) ==
    c.id.number = o.number /\ c.size = o.size /\ StatusesCompatible(c.status, o.status)

\* _orders_match: each order of the checkpoint takes one of the exchange's.
LeftOver(ours, theirs) ==
    LET Take(rest, c) == rest \ {CHOOSE o \in rest : Matches(c, o)}
    IN  FoldLeft(LAMBDA rest, c : IF \E o \in rest : Matches(c, o)
                                  THEN Take(rest, c) ELSE rest,
                 theirs, SetToSeq(ours))

OrdersMatchSubsetBug(ours, theirs) ==
    \A c \in ours : \E o \in theirs : Matches(c, o)

OrdersMatch(ours, theirs) ==
    Cardinality(ours) = Cardinality(theirs) /\ LeftOver(ours, theirs) = {}

\* A flat position the checkpoint lists is compared; the exchange's is not.
PositionsMatch(c, rows) == (IF c.position = None THEN {} ELSE {c.position}) = rows

\* The end of startup, with no await left: the gate, and a checkpoint of an
\* engine that has heard nothing yet.
Started(ver, id, reconcile) ==
    /\ Save(CheckpointOf(EmptyEngine, id, ver, reconcile))
    /\ phase' = IF reconcile THEN "halted" ELSE "running"
    /\ engine' = EmptyEngine /\ read' = NothingRead

\* The version of the snapshot the process starts with.
SnapshotVersion(up) ==
    LET latest == Redis!Value(published, up)
    IN  IF FixedVersion # None THEN FixedVersion
        ELSE IF latest # None THEN latest ELSE Bootstrap

\* A startup checkpoint is not compared.
StartWith(loaded, h) ==
    /\ checkpoint' = loaded
    /\ IF loaded.id = "startup"
       THEN /\ phase' = "running" /\ engine' = EmptyEngine
            /\ history' = Newest(WithRow(h, "execution_checkpoints", loaded))
       ELSE /\ phase' = "recovering" /\ history' = h
            /\ UNCHANGED engine

\* build_trader_runtime and _run_trader up to the first await.
Boot ==
    /\ phase = "down"
    /\ \E up \in IF faults < MaxFaults THEN BOOLEAN ELSE {TRUE}, h \in Reached(history) :
        /\ published' = Redis!AfterRead(published, up)
        /\ version' = SnapshotVersion(up)
        /\ StartWith(Loaded(h, SnapshotVersion(up)), h)
        /\ FaultIf(~up \/ h # history)
    /\ died' = None
    /\ UNCHANGED <<read, connected, tasks, exchange, sent>>

\* The two requests of the gather are answered in either order.
AnswerOrders ==
    /\ phase = "recovering" /\ read.orders = None
    /\ read' = [read EXCEPT !.orders = OpenOrders]
    /\ UNCHANGED <<phase, engine, version, checkpoint, history, published, connected,
                   tasks, exchange, sent, faults, died>>

AnswerPositions ==
    /\ phase = "recovering" /\ read.positions = None
    /\ read' = [read EXCEPT !.positions = PositionRows]
    /\ UNCHANGED <<phase, engine, version, checkpoint, history, published, connected,
                   tasks, exchange, sent, faults, died>>

Agreed ==
    /\ OrdersMatch(checkpoint.orders, read.orders)
    /\ PositionsMatch(checkpoint, read.positions)

Compare ==
    /\ phase = "recovering" /\ read.orders # None /\ read.positions # None
    /\ Started(version, checkpoint.id, ~Agreed)
    /\ moved' = FALSE
    /\ UNCHANGED <<version, published, connected, requests, reversing, evaluating,
                   book, held, feed, sent, died>>

\* One of the requests fails.
RequestFails ==
    /\ phase = "recovering" /\ None \in {read.orders, read.positions}
    /\ faults < MaxFaults /\ faults' = faults + 1
    /\ phase' = "halted" /\ engine' = EmptyEngine /\ read' = NothingRead
    /\ checkpoint' = CheckpointOf(EmptyEngine, checkpoint.id, version, TRUE)
    /\ history' = Newest(WithRow(history, "execution_checkpoints", checkpoint'))
    /\ moved' = FALSE
    /\ UNCHANGED <<version, published, connected, tasks, book, held, feed, sent, died>>

-----------------------------------------------------------------------------
(* The running trader.                                                      *)

Up == phase \in {"running", "halted"}
Flat == engine.position \in {None, 0}

\* An order is staged and its request goes out.  A close may begin a reversal;
\* while one is pending only its open is sent.
SendOrder(kind, size, reverses) ==
    /\ phase = "running" /\ version # Bootstrap
    /\ sent < MaxOrders /\ engine.orders = {}
    /\ IF kind = "open" THEN Flat /\ reverses = reversing
       ELSE ~Flat /\ size = engine.position /\ ~reversing
    /\ sent' = sent + 1
    /\ engine' = [engine EXCEPT !.orders = @ \union
          {[id |-> [spelling |-> "clOrdId", number |-> sent'], size |-> size,
            status |-> "submitted", intent |-> kind]}]
    /\ book' = book \union {[number |-> sent', kind |-> kind, size |-> size,
                             filled |-> 0, status |-> "requested"]}
    /\ requests' = requests \union {[number |-> sent', kind |-> kind, reverses |-> reverses]}
    /\ UNCHANGED <<phase, version, checkpoint, read, history, published, connected,
                   reversing, evaluating, dropped, held, feed, moved, faults, died>>

\* The request is answered: the order was accepted.
Answered(r) ==
    /\ ~\E o \in book : o.number = r.number /\ o.status = "requested"
    /\ requests' = requests \ {r}
    /\ reversing' = IF r.reverses THEN r.kind = "close" ELSE reversing
    /\ UNCHANGED <<process, evaluating, dropped, exchange, sent, faults, died>>

Untracked(orders, number) == {o \in orders : o.id.number # number}

WithOrderCanceledKeptBug(eng, m) ==
    [eng EXCEPT !.orders = Untracked(@, m.number) \union
        IF m.status = "filled" THEN {}
        ELSE {[id |-> [spelling |-> "ordId", number |-> m.number],
               size |-> m.size, status |-> m.status, intent |-> None]}]

\* on_order_update
WithOrder(eng, m) ==
    LET known == {o \in eng.orders : o.id.number = m.number}
        intent == IF known = {} THEN None ELSE (CHOOSE o \in known : TRUE).intent
    IN  [eng EXCEPT !.orders = Untracked(@, m.number) \union
            IF m.status \in {"filled", "canceled"} THEN {}
            ELSE {[id |-> [spelling |-> "ordId", number |-> m.number],
                   size |-> m.size, status |-> m.status, intent |-> intent]}]

\* on_position_update
WithPosition(eng, quantity) ==
    [orders |-> IF quantity # 0 THEN eng.orders
                ELSE {o \in eng.orders : o.intent # "close"},
     position |-> quantity]

Updated(m) ==
    IF m.channel = "orders" THEN WithOrder(engine, m) ELSE WithPosition(engine, m.quantity)

Confirmed(orders) == {o \in orders : o.status # "submitted"}
Numbers(orders) == {o.id.number : o \in orders}

\* The confirmed orders a step takes off the engine.
Dropping == dropped' = dropped \union
    (Numbers(Confirmed(engine.orders)) \ Numbers(Confirmed(engine'.orders)))

\* A flat position that a pending reversal waits for.
StartsReversal(m) == m.channel = "positions" /\ m.quantity = 0 /\ reversing

RuntimeCheckpoint(eng) == CheckpointOf(eng, "runtime", version, checkpoint.reconcile)

HandledSavedBeforeBug(m) ==
    /\ engine' = Updated(m)
    /\ IF StartsReversal(m)
       THEN evaluating' = TRUE /\ Dropping /\ UNCHANGED <<checkpoint, history, faults>>
       ELSE Save(RuntimeCheckpoint(engine)) /\ UNCHANGED evaluating

\* _dispatch_runtime_event for a private event: the engine, then a checkpoint,
\* with the awaits of _evaluate_symbol between them when a reversal waits.
Handled(m) ==
    /\ engine' = Updated(m)
    /\ IF StartsReversal(m)
       THEN evaluating' = TRUE /\ Dropping /\ UNCHANGED <<checkpoint, history, faults>>
       ELSE Save(RuntimeCheckpoint(engine')) /\ UNCHANGED evaluating

ReceiveEvent ==
    /\ Up /\ ~evaluating /\ feed # <<>>
    /\ Handled(Head(feed))
    /\ feed' = Tail(feed)
    /\ UNCHANGED <<phase, version, requests, reversing, read, published, connected,
                   book, held, sent, moved, died>>

\* The evaluation is over.  A request that is still under way is the public task's.
Evaluated ==
    /\ evaluating /\ evaluating' = FALSE
    /\ Save(RuntimeCheckpoint(engine))
    /\ UNCHANGED <<phase, engine, version, requests, reversing, read, published,
                   connected, exchange, sent, died>>

\* An account snapshot is a private event too: what was staged or given up
\* since the last one is saved.
ReceiveAccount ==
    /\ Up /\ connected /\ ~evaluating
    /\ Save(RuntimeCheckpoint(engine))
    /\ UNCHANGED <<phase, engine, version, requests, reversing, evaluating, read,
                   published, connected, exchange, sent, died>>

\* The request fails without an answer, whatever became of the order: what is
\* tracked of it is cleared.  A reversal it was to begin or to end stays as it is.
GivesUp(r) ==
    /\ faults < MaxFaults /\ faults' = faults + 1
    /\ requests' = requests \ {r}
    /\ engine' = [engine EXCEPT !.orders = Untracked(@, r.number)]
    /\ Dropping
    /\ UNCHANGED <<phase, version, checkpoint, reversing, evaluating, read, history,
                   published, connected, exchange, sent, died>>

\* _evaluate_symbol finds that the snapshot does not enable the strategy of
\* the reversal, which snapshots are left open here.
DropReversal ==
    /\ phase = "running" /\ reversing /\ Flat /\ engine.orders = {}
    /\ reversing' = FALSE
    /\ UNCHANGED <<process, requests, evaluating, dropped, exchange, sent, faults, died>>

\* _evaluate_symbol takes the snapshot that is published.
RefreshSnapshot ==
    /\ phase = "running" /\ FixedVersion = None
    /\ Redis!Value(published, TRUE) # None
    /\ published' = Redis!AfterRead(published, TRUE)
    /\ version' = published'.local /\ version' # version
    /\ UNCHANGED <<phase, engine, checkpoint, read, history, connected, tasks, exchange,
                   sent, faults, died>>

\* The subscription starts with the position, if there is one.
Connect ==
    /\ Up /\ ~connected
    /\ connected' = TRUE
    /\ feed' = IF held = 0 THEN <<>> ELSE <<[channel |-> "positions", quantity |-> held]>>
    /\ UNCHANGED <<phase, engine, version, checkpoint, read, history, published,
                   tasks, book, held, moved, sent, faults, died>>

\* The process ends, at any time.
Crash ==
    /\ phase # "down"
    /\ phase' = "down"
    /\ died' = IF ~Up \/ history.disabled THEN None
               ELSE [position |-> engine.position,
                     orders |-> Confirmed({AsCheckpointOrder(o) : o \in engine.orders}),
                     version |-> checkpoint.version,
                     evaluating |-> evaluating, dropped |-> dropped]
    /\ engine' = EmptyEngine /\ read' = NothingRead
    /\ version' = Bootstrap /\ checkpoint' = StartupCheckpoint(Bootstrap)
    /\ requests' = {} /\ reversing' = FALSE /\ evaluating' = FALSE /\ dropped' = {}
    /\ connected' = FALSE /\ feed' = <<>> /\ moved' = FALSE
    /\ history' = NewProcess(history)
    /\ published' = Redis!Fresh(published.redis)
    /\ UNCHANGED <<book, held, sent, faults>>

-----------------------------------------------------------------------------
(* The exchange and the publisher.                                          *)

Told(messages) == feed' = IF connected THEN feed \o messages ELSE feed
OrderEvent(o, status) ==
    [channel |-> "orders", number |-> o.number, size |-> o.size, status |-> status]

Accepts(o) ==
    /\ o.status = "requested"
    /\ book' = (book \ {o}) \union {[o EXCEPT !.status = "live"]}
    /\ Told(<<OrderEvent(o, "live")>>)
    /\ UNCHANGED <<held, engine, requests>>

\* The request is refused; a process that waits for it takes back what it staged.
Refuses(o) ==
    /\ o.status = "requested"
    /\ book' = book \ {o}
    /\ engine' = [engine EXCEPT !.orders = Untracked(@, o.number)]
    /\ requests' = {r \in requests : r.number # o.number}
    /\ UNCHANGED <<held, feed>>

\* An order fills by a unit; its update and the position's come in any order.
Fills(o) ==
    /\ o.status # "requested"
    /\ o.kind = "close" => held > 0
    /\ held' = IF o.kind = "open" THEN held + 1 ELSE held - 1
    /\ LET f == [o EXCEPT !.filled = @ + 1, !.status = "partially_filled"]
           done == f.filled = f.size \/ (o.kind = "close" /\ held' = 0)
           order == OrderEvent(o, IF done THEN "filled" ELSE "partially_filled")
           position == [channel |-> "positions", quantity |-> held']
       IN  /\ book' = (book \ {o}) \union IF done THEN {} ELSE {f}
           /\ Told(<<order, position>>) \/ Told(<<position, order>>)
    /\ UNCHANGED <<engine, requests>>

Cancels(o) ==
    /\ o.status # "requested"
    /\ book' = book \ {o}
    /\ Told(<<OrderEvent(o, "canceled")>>)
    /\ UNCHANGED <<held, engine, requests>>

ExchangeStep ==
    /\ Len(feed) <= MaxBacklog
    /\ \E o \in book : Accepts(o) \/ Refuses(o) \/ Fills(o) \/ Cancels(o)
    /\ moved' = (read # NothingRead)
    /\ UNCHANGED <<phase, version, checkpoint, read, history, published, connected,
                   reversing, evaluating, dropped, sent, faults, died>>

\* External: a new snapshot.
Publish(v) ==
    /\ FixedVersion = None /\ published.redis # v
    /\ published' = Redis!WrittenByOther(published, v)
    /\ UNCHANGED <<phase, engine, version, checkpoint, read, history, connected,
                   tasks, exchange, sent, faults, died>>

-----------------------------------------------------------------------------
Init ==
    /\ phase = "down" /\ engine = EmptyEngine /\ read = NothingRead
    /\ version = Bootstrap /\ checkpoint = StartupCheckpoint(Bootstrap)
    /\ history = EmptyHistory /\ published = Redis!Fresh(None) /\ connected = FALSE
    /\ book = {} /\ held \in HeldAtStart /\ feed = <<>> /\ moved = FALSE
    /\ requests = {} /\ reversing = FALSE /\ evaluating = FALSE /\ dropped = {}
    /\ sent = 0 /\ faults = 0 /\ died = None

Recovery == Boot \/ AnswerOrders \/ AnswerPositions \/ Compare \/ RequestFails
Trader ==
    \/ \E kind \in {"open", "close"}, size \in 1 .. MaxSize, reverses \in BOOLEAN :
          SendOrder(kind, size, reverses)
    \/ \E r \in requests : Answered(r) \/ GivesUp(r)
    \/ ReceiveEvent \/ Evaluated \/ ReceiveAccount \/ DropReversal \/ RefreshSnapshot
    \/ Connect \/ Crash
Next == Recovery \/ Trader \/ ExchangeStep \/ \E v \in Version : Publish(v)

Spec == Init /\ [][Next]_vars

-----------------------------------------------------------------------------
\* The type invariant.
TypeOK ==
    /\ phase \in {"down", "recovering", "running", "halted"}
    /\ engine.orders \subseteq Tracked
    /\ engine.position \in Quantity \union {None}
    /\ version \in Version \union {Bootstrap}
    /\ requests \subseteq Request /\ reversing \in BOOLEAN
    /\ evaluating => phase = "running"
    /\ checkpoint.orders \subseteq CheckpointOrder
    /\ read.orders = None \/ read.orders \subseteq Booked
    /\ published.redis \in Version \union {None}
    /\ book \subseteq Booked /\ held \in Quantity
    /\ history.disabled \in BOOLEAN /\ faults \in 0 .. MaxFaults

\* Nothing the exchange has is unknown to the checkpoint, and nothing else is
\* in it.
TellsExchange(c) ==
    /\ held = IF c.position = None THEN 0 ELSE c.position
    /\ \A o \in OpenOrders : \E t \in c.orders : Matches(t, o)
    /\ \A t \in c.orders : \E o \in OpenOrders : Matches(t, o)

\* A trader that starts runs on exactly when its checkpoint tells what the
\* exchange has, whatever was lost, filled or sent before; only a checkpoint
\* that lists a position as closed halts it for nothing.  The exchange may not
\* change between the two answers.
RestartJudged ==
    [][phase = "recovering" /\ phase' \in {"running", "halted"}
       /\ None \notin {read.orders, read.positions} /\ ~moved
       => (phase' = "running")
          = (TellsExchange(checkpoint) /\ checkpoint.position # 0)]_vars

\* A process that starts finds the position and the orders its predecessor had
\* heard of when it ended, in the middle of a reversal or anywhere else, unless
\* that could not write, this one cannot read, or the snapshot's version is not
\* the one the checkpoint was saved under.  Two things err towards a halt: what
\* ended between a flat position and its checkpoint is still listed, and so
\* are orders whose request failed although they were confirmed.
NothingForgotten ==
    [][phase = "down" /\ phase' # "down" /\ died # None
       /\ ~history'.disabled /\ died.version = version'
       => /\ \/ checkpoint'.position = died.position
             \/ died.evaluating /\ died.position = 0
          /\ {t \in Confirmed(checkpoint'.orders) : t.id.number \notin died.dropped}
             = died.orders]_vars
=============================================================================
