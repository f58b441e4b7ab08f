---------------------- MODULE CheckpointRecoveryProofs ----------------------
(***************************************************************************)
(* Theorems about CheckpointRecovery, for every set of versions and every  *)
(* bound on orders, sizes and faults.                                      *)
(***************************************************************************)
EXTENDS CheckpointRecovery, FoldFacts, SequenceTheorems, FiniteSetTheorems

-----------------------------------------------------------------------------
(* What a process knows and what is on its way.                             *)

Checkpoints == "execution_checkpoints"

\* Of one order there is one entry, under one of its two ids.
Distinct(orders) == \A s, t \in orders : s.id.number = t.id.number => s = t

Engine == {eng \in [orders: SUBSET Tracked, position: Quantity \union {None}] :
             Distinct(eng.orders)}

\* A startup checkpoint is of an engine that has heard nothing.
Row == {row \in [id: {"startup", "runtime"}, version: Version \union {Bootstrap},
                 position: Quantity \union {None}, reconcile: BOOLEAN,
                 orders: SUBSET CheckpointOrder] :
          /\ row.id = "startup" => row.position = None /\ row.orders = {}
          /\ Distinct(row.orders)}

History == [db: [Table -> Seq(Row)], own: [Table -> Seq(Row)], disabled: BOOLEAN]

Message == [channel: {"orders"}, number: 1 .. MaxOrders, size: 1 .. MaxSize,
            status: {"live", "partially_filled", "filled", "canceled"}]
           \union [channel: {"positions"}, quantity: Quantity]

TypedProcess ==
    /\ phase \in {"down", "recovering", "running", "halted"}
    /\ engine \in Engine /\ version \in Version \union {Bootstrap}
    /\ checkpoint \in Row
    /\ read.orders = None \/ read.orders \subseteq Booked
    /\ history \in History
    /\ published \in [redis: Version \union {None}, local: Version \union {None}]

TypedExchange ==
    /\ book \subseteq Booked /\ \A o \in book : o.filled < o.size
    /\ held \in Quantity /\ feed \in Seq(Message)
    /\ sent \in 0 .. MaxOrders /\ faults \in 0 .. MaxFaults

Typed == TypedProcess /\ TypedExchange

-----------------------------------------------------------------------------
(* Rows and checkpoints.                                                    *)

\* The window of one row is the last row.
LEMMA LastRow ==
    ASSUME NEW S, NEW q \in Seq(S), q # <<>>
    PROVE  Window(q, 1) = <<q[Len(q)]>> /\ q[Len(q)] \in S
  <1>1. Len(q) \in Nat /\ Len(q) >= 1
    BY EmptySeq, LenProperties
  <1>2. Max({1, Len(q) - 1 + 1}) = Len(q)
    BY <1>1 DEF Max
  <1>3. Window(q, 1) = SubSeq(q, Len(q), Len(q))
    BY <1>2 DEF Window
  <1>4. /\ SubSeq(q, Len(q), Len(q)) \in Seq(S)
        /\ Len(SubSeq(q, Len(q), Len(q))) = 1
        /\ SubSeq(q, Len(q), Len(q))[1] = q[Len(q)]
    BY <1>1, SubSeqProperties
  <1>5. q[Len(q)] \in S
    BY <1>1, ElementOfSeq
  <1>6. <<q[Len(q)]>> \in Seq(S) /\ Len(<<q[Len(q)]>>) = 1 /\ <<q[Len(q)]>>[1] = q[Len(q)]
    BY <1>5
  <1>7. SubSeq(q, Len(q), Len(q)) = <<q[Len(q)]>>
    <2> DEFINE p == SubSeq(q, Len(q), Len(q))
               r == <<q[Len(q)]>>
    <2>1. p \in Seq(S) /\ r \in Seq(S) /\ Len(p) = 1 /\ Len(r) = 1 /\ p[1] = r[1]
      BY <1>4, <1>6
    <2> HIDE DEF p, r
    <2>2. \A i \in 1 .. Len(p) : p[i] = r[i]
      BY <2>1
    <2>3. p = r
      BY <2>1, <2>2, SeqEqual
    <2> QED
      BY <2>3 DEF p, r
  <1> QED
    BY <1>3, <1>5, <1>7

\* Of a table that is kept to its newest row, that row is what is read.
LEMMA ReadsOnlyRow ==
    ASSUME NEW S, NEW row \in S
    PROVE  Window(<<row>>, 1) = <<row>> /\ Reverse(Window(<<row>>, 1)) = <<row>>
  <1>1. <<row>> \in Seq(S) /\ <<row>> # <<>> /\ Len(<<row>>) = 1 /\ <<row>>[1] = row
    OBVIOUS
  <1>2. Window(<<row>>, 1) = <<row>>
    BY <1>1, LastRow
  <1>3. Reverse(<<row>>) = <<row>>
    <2>1. Reverse(<<row>>) = [i \in 1 .. 1 |-> <<row>>[1 - i + 1]]
      BY <1>1 DEF Reverse
    <2>2. \A i \in 1 .. 1 : <<row>>[1 - i + 1] = row
      BY <1>1
    <2>3. Reverse(<<row>>) = [i \in 1 .. 1 |-> row]
      BY <2>1, <2>2
    <2>4. [i \in 1 .. 1 |-> row] \in Seq(S) /\ Len([i \in 1 .. 1 |-> row]) = 1
          /\ [i \in 1 .. 1 |-> row][1] = row
      OBVIOUS
    <2> QED
      BY <1>1, <2>3, <2>4, SeqEqual
  <1> QED
    BY <1>2, <1>3

LEMMA NoRow == Window(<<>>, 1) = <<>> /\ Reverse(<<>>) = <<>>
  <1>1. Max({1, Len(<<>>) - 1 + 1}) = 1
    BY DEF Max
  <1>2. Window(<<>>, 1) = SubSeq(<<>>, 1, 0)
    BY <1>1 DEF Window
  <1>3. SubSeq(<<>>, 1, 0) = <<>>
    BY SubSeqEmpty, EmptySeq
  <1>4. Reverse(<<>>) = <<>>
    BY DEF Reverse
  <1> QED
    BY <1>2, <1>3, <1>4

LEMMA ShortTable ==
    ASSUME NEW S, NEW q \in Seq(S), Len(q) <= 1
    PROVE  Window(q, 1) = q
  <1>1. CASE q = <<>>
    BY <1>1, NoRow
  <1>2. CASE q # <<>>
    <2>1. Len(q) = 1
      BY <1>2, EmptySeq, LenProperties
    <2>2. q = <<q[1]>>
      BY <2>1
    <2> QED
      BY <1>2, <2>1, <2>2, LastRow
  <1> QED
    BY <1>1, <1>2

LEMMA AppendedRow ==
    ASSUME NEW S, NEW q \in Seq(S), NEW row \in S
    PROVE  Window(Append(q, row), 1) = <<row>>
  <1> DEFINE a == Append(q, row)
  <1>1. a \in Seq(S) /\ a # <<>> /\ Len(a) = Len(q) + 1 /\ a[Len(q) + 1] = row
    BY AppendProperties
  <1> HIDE DEF a
  <1>2. Window(a, 1) = <<row>>
    BY <1>1, LastRow
  <1> QED
    BY <1>2 DEF a

\* What a save leaves in a table that holds one row at most.
LEMMA SavedRow ==
    ASSUME NEW h \in History, NEW row \in Row, Len(h.db[Checkpoints]) <= 1
    PROVE  LET n == Newest(WithRow(h, Checkpoints, row)) IN
           /\ n \in History /\ n.disabled = h.disabled
           /\ n.db[Checkpoints] = IF h.disabled THEN h.db[Checkpoints] ELSE <<row>>
  <1> DEFINE db == h.db[Checkpoints]
             own == h.own[Checkpoints]
             kept == IF h.disabled THEN db ELSE Append(db, row)
             n == Newest(WithRow(h, Checkpoints, row))
  <1>1. Checkpoints \in Table /\ db \in Seq(Row) /\ own \in Seq(Row)
    BY DEF Checkpoints, Table, History
  <1>2. Window(Append(own, row), 1) = <<row>> /\ Window(Append(db, row), 1) = <<row>>
    BY <1>1, AppendedRow
  <1>3. Window(db, 1) = db
    BY <1>1, ShortTable
  <1>4. n = [h EXCEPT !.db[Checkpoints] = Window(kept, 1),
                      !.own[Checkpoints] = Window(Append(own, row), 1)]
    BY <1>1 DEF Newest, WithRow, Checkpoints, History
  <1>5. Window(kept, 1) = IF h.disabled THEN db ELSE <<row>>
    BY <1>2, <1>3
  <1>6. <<row>> \in Seq(Row)
    OBVIOUS
  <1> HIDE DEF kept
  <1>7. n \in History
    <2>1. Window(kept, 1) \in Seq(Row) /\ Window(Append(own, row), 1) \in Seq(Row)
      BY <1>1, <1>2, <1>5, <1>6
    <2> HIDE DEF n, own, db
    <2> QED
      BY <1>1, <1>4, <2>1 DEF History
  <1>8. n.disabled = h.disabled /\ n.db[Checkpoints] = Window(kept, 1)
    BY <1>1, <1>4 DEF History
  <1> QED
    BY <1>5, <1>7, <1>8

LEMMA ReachedFacts ==
    ASSUME NEW h \in History, NEW g \in Reached(h)
    PROVE  /\ g \in History /\ g.db = h.db
           /\ g = h \/ (g.disabled /\ faults # MaxFaults)
  BY DEF Reached, DatabaseLost, History

\* The newest row, unless there is none or it is of another version.
LEMMA LoadedFacts ==
    ASSUME NEW h \in History, NEW ver \in Version \union {Bootstrap}
    PROVE  /\ Loaded(h, ver) \in Row
           /\ \A row \in Row :
                ~h.disabled /\ h.db[Checkpoints] = <<row>> /\ row.version = ver
                => Loaded(h, ver) = row
  <1> DEFINE all == Rows(h, Checkpoints)
             rows == RecentRows(h, Checkpoints, 1)
  <1>1. all \in Seq(Row)
    BY DEF Rows, History, Checkpoints, Table
  <1>2. StartupCheckpoint(ver) \in Row
    <2>1. {AsCheckpointOrder(o) : o \in {}} = {}
      OBVIOUS
    <2> QED
      BY <2>1 DEF StartupCheckpoint, CheckpointOf, EmptyEngine, Row, Distinct
  <1>3. rows = <<>> \/ \E row \in Row : rows = <<row>>
    <2>1. CASE all = <<>>
      BY <2>1, NoRow DEF RecentRows
    <2>2. CASE all # <<>>
      <3>1. Window(all, 1) = <<all[Len(all)]>> /\ all[Len(all)] \in Row
        BY <1>1, <2>2, LastRow
      <3>2. Window(<<all[Len(all)]>>, 1) = <<all[Len(all)]>>
            /\ Reverse(Window(<<all[Len(all)]>>, 1)) = <<all[Len(all)]>>
        BY <3>1, ReadsOnlyRow
      <3> QED
        BY <3>1, <3>2 DEF RecentRows
    <2> QED
      BY <2>1, <2>2
  <1>4. Loaded(h, ver) = IF rows = <<>> \/ rows[1].version # ver
                         THEN StartupCheckpoint(ver) ELSE rows[1]
    BY DEF Loaded, Checkpoints
  <1>5. \A row \in Row : ~h.disabled /\ h.db[Checkpoints] = <<row>> => rows = <<row>>
    BY ReadsOnlyRow DEF RecentRows, Rows
  <1> HIDE DEF rows
  <1>6. Loaded(h, ver) \in Row
    BY <1>2, <1>3, <1>4
  <1>7. \A row \in Row : <<row>> # <<>> /\ <<row>>[1] = row
    OBVIOUS
  <1> QED
    BY <1>4, <1>5, <1>6, <1>7

-----------------------------------------------------------------------------
(* Types.                                                                   *)

Kept == history.db[Checkpoints]
OneRow == Len(Kept) <= 1

\* A save, wherever the database is lost.
LEMMA SaveFacts ==
    ASSUME Typed, OneRow, NEW row \in Row, Save(row)
    PROVE  /\ checkpoint' = row /\ history' \in History /\ faults' \in 0 .. MaxFaults
           /\ OneRow' /\ dropped' = {}
           /\ ~history'.disabled => Kept' = <<row>>
  <1>1. PICK h \in Reached(history) :
          /\ checkpoint' = row
          /\ history' = Newest(WithRow(h, Checkpoints, row))
          /\ FaultIf(h # history)
    BY DEF Save, Checkpoints
  <1>2. /\ h \in History /\ h.db = history.db
        /\ h = history \/ (h.disabled /\ faults # MaxFaults)
    BY ReachedFacts DEF Typed, TypedProcess
  <1>3. /\ history' \in History /\ history'.disabled = h.disabled
        /\ Kept' = IF h.disabled THEN Kept ELSE <<row>>
    BY <1>1, <1>2, SavedRow DEF Kept, OneRow
  <1>4. faults' \in 0 .. MaxFaults
    BY <1>1, <1>2, RecoveryConstants DEF FaultIf, Typed, TypedExchange
  <1>5. Len(<<row>>) = 1
    OBVIOUS
  <1> QED
    BY <1>1, <1>3, <1>4, <1>5 DEF OneRow, Save

LEMMA SavedOrders ==
    ASSUME NEW eng \in Engine
    PROVE  {AsCheckpointOrder(o) : o \in eng.orders} \subseteq CheckpointOrder
  BY DEF Engine, Tracked, CheckpointOrder, AsCheckpointOrder

LEMMA RuntimeRow ==
    ASSUME NEW eng \in Engine, NEW ver \in Version \union {Bootstrap}, NEW b \in BOOLEAN
    PROVE  CheckpointOf(eng, "runtime", ver, b) \in Row
  <1>1. {AsCheckpointOrder(o) : o \in eng.orders} \subseteq CheckpointOrder
    BY SavedOrders
  <1>2. eng.position \in Quantity \union {None}
    BY DEF Engine
  <1>3. Distinct({AsCheckpointOrder(o) : o \in eng.orders})
    BY DEF Engine, Distinct, AsCheckpointOrder
  <1> QED
    BY <1>1, <1>2, <1>3 DEF CheckpointOf, Row

LEMMA EmptyRow ==
    ASSUME NEW id \in {"startup", "runtime"}, NEW ver \in Version \union {Bootstrap},
           NEW b \in BOOLEAN
    PROVE  CheckpointOf(EmptyEngine, id, ver, b) \in Row
  <1>1. {AsCheckpointOrder(o) : o \in EmptyEngine.orders} = {}
    BY DEF EmptyEngine
  <1> QED
    BY <1>1 DEF CheckpointOf, EmptyEngine, Row, Distinct

LEMMA EmptyEngineTypes == EmptyEngine \in Engine
  BY DEF EmptyEngine, Engine, Distinct

LEMMA BootTypes ==
    ASSUME Typed, OneRow, Boot
    PROVE  Typed' /\ OneRow'
  <1>1. PICK up \in IF faults < MaxFaults THEN BOOLEAN ELSE {TRUE}, h \in Reached(history) :
          /\ published' = Redis!AfterRead(published, up)
          /\ version' = SnapshotVersion(up)
          /\ StartWith(Loaded(h, SnapshotVersion(up)), h)
          /\ FaultIf(~up \/ h # history)
    BY DEF Boot
  <1> DEFINE ver == SnapshotVersion(up)
             loaded == Loaded(h, ver)
  <1>2. /\ h \in History /\ h.db = history.db
        /\ h = history \/ (h.disabled /\ faults # MaxFaults)
    BY <1>1, ReachedFacts DEF Typed, TypedProcess
  <1>3. up \in BOOLEAN /\ (~up => faults < MaxFaults)
    BY <1>1
  <1>4. /\ Redis!Value(published, up) \in Version \union {None}
        /\ published' \in [redis: Version \union {None}, local: Version \union {None}]
    BY <1>1 DEF Typed, TypedProcess, Redis!Value, Redis!AfterRead
  <1>5. ver \in Version \union {Bootstrap}
    BY <1>4, RecoveryConstants DEF SnapshotVersion
  <1>6. loaded \in Row
    BY <1>2, <1>5, LoadedFacts
  <1> HIDE DEF ver, loaded
  <1>7. history' \in History /\ OneRow'
    <2>1. CASE loaded.id = "startup"
      <3>1. /\ history' \in History
            /\ Kept' = IF h.disabled THEN Kept ELSE <<loaded>>
        BY <1>1, <1>2, <1>6, <2>1, SavedRow DEF Kept, OneRow, StartWith, Checkpoints, ver, loaded
      <3>2. Len(<<loaded>>) = 1
        OBVIOUS
      <3> QED
        BY <3>1, <3>2 DEF OneRow
    <2>2. CASE loaded.id # "startup"
      BY <1>1, <1>2, <2>2 DEF Kept, OneRow, StartWith, ver, loaded
    <2> QED
      BY <2>1, <2>2
  <1>8. faults' \in 0 .. MaxFaults
    BY <1>1, <1>2, <1>3, RecoveryConstants DEF FaultIf, Typed, TypedExchange
  <1>9. engine' \in Engine /\ phase' \in {"running", "recovering"} /\ checkpoint' \in Row
        /\ read' = read
    BY <1>1, <1>6, EmptyEngineTypes DEF Boot, StartWith, ver, loaded, Typed, TypedProcess
  <1>10. UNCHANGED <<book, held, feed, sent>> /\ version' = ver
    BY <1>1 DEF Boot, exchange, ver
  <1> QED
    BY <1>1, <1>4, <1>5, <1>7, <1>8, <1>9, <1>10 DEF Typed, TypedProcess, TypedExchange

LEMMA RecoveryTypes ==
    ASSUME Typed, OneRow, AnswerOrders \/ AnswerPositions \/ Compare \/ RequestFails
    PROVE  Typed' /\ OneRow'
  <1>1. CASE AnswerOrders
    BY <1>1 DEF AnswerOrders, OpenOrders, exchange, Typed, TypedProcess, TypedExchange, OneRow, Kept
  <1>2. CASE AnswerPositions
    BY <1>2 DEF AnswerPositions, exchange, Typed, TypedProcess, TypedExchange, OneRow, Kept
  <1>3. checkpoint.id \in {"startup", "runtime"} /\ version \in Version \union {Bootstrap}
    BY DEF Typed, TypedProcess, Row
  <1>4. CASE Compare
    <2>1. Save(CheckpointOf(EmptyEngine, checkpoint.id, version, ~Agreed))
          /\ phase' \in {"halted", "running"} /\ engine' = EmptyEngine /\ read' = NothingRead
      BY <1>4 DEF Compare, Started
    <2>2. (~Agreed) \in BOOLEAN
      OBVIOUS
    <2>3. CheckpointOf(EmptyEngine, checkpoint.id, version, ~Agreed) \in Row
      BY <1>3, <2>2, EmptyRow
    <2> QED
      BY <1>4, <2>1, <2>3, SaveFacts, EmptyEngineTypes
         DEF Compare, NothingRead, Typed, TypedProcess, TypedExchange
  <1>5. CASE RequestFails
    <2>1. CheckpointOf(EmptyEngine, checkpoint.id, version, TRUE) \in Row
      BY <1>3, EmptyRow
    <2>2. checkpoint' \in Row /\ history' = Newest(WithRow(history, Checkpoints, checkpoint'))
      BY <1>5, <2>1 DEF RequestFails, Checkpoints
    <2>3. /\ history' \in History
          /\ Kept' = IF history.disabled THEN Kept ELSE <<checkpoint'>>
      BY <2>2, SavedRow DEF Typed, TypedProcess, OneRow, Kept
    <2>4. OneRow'
      <3>1. Len(<<checkpoint'>>) = 1
        OBVIOUS
      <3> QED
        BY <2>3, <3>1 DEF OneRow
    <2>5. faults' \in 0 .. MaxFaults
      BY <1>5, RecoveryConstants DEF RequestFails, Typed, TypedExchange
    <2> QED
      BY <1>5, <2>2, <2>3, <2>4, <2>5, EmptyEngineTypes
         DEF RequestFails, NothingRead, Typed, TypedProcess, TypedExchange
  <1> QED
    BY <1>1, <1>2, <1>4, <1>5

LEMMA SendTypes ==
    ASSUME Typed, OneRow, NEW kind \in {"open", "close"}, NEW size \in 1 .. MaxSize,
           NEW reverses, SendOrder(kind, size, reverses)
    PROVE  Typed' /\ OneRow'
  <1> DEFINE o == [id |-> [spelling |-> "clOrdId", number |-> sent'], size |-> size,
                   status |-> "submitted", intent |-> kind]
             b == [number |-> sent', kind |-> kind, size |-> size,
                   filled |-> 0, status |-> "requested"]
  <1>1. sent' \in 1 .. MaxOrders
    BY RecoveryConstants DEF SendOrder, Typed, TypedExchange
  <1>2. o \in Tracked /\ b \in Booked /\ b.filled < b.size
    BY <1>1, RecoveryConstants DEF Tracked, TrackedId, Statuses, Booked
  <1>3. /\ engine' = [engine EXCEPT !.orders = @ \union {o}]
        /\ book' = book \union {b}
    BY DEF SendOrder
  <1> HIDE DEF o, b
  <1>4. engine' \in Engine /\ book' \subseteq Booked /\ \A x \in book' : x.filled < x.size
    <2>1. engine \in Engine /\ engine.orders = {}
      BY DEF SendOrder, Typed, TypedProcess
    <2>2. engine' = [engine EXCEPT !.orders = {o}] /\ Distinct({o})
      BY <1>3, <2>1 DEF Distinct
    <2>3. engine' \in Engine
      BY <1>2, <2>1, <2>2 DEF Engine
    <2> QED
      BY <1>2, <1>3, <2>3 DEF Typed, TypedExchange
  <1> QED
    BY <1>1, <1>4 DEF SendOrder, Typed, TypedProcess, TypedExchange, OneRow, Kept

LEMMA EventFacts ==
    ASSUME NEW m \in Message, m.channel = "orders"
    PROVE  /\ m.number \in 1 .. MaxOrders /\ m.size \in 1 .. MaxSize
           /\ m.status \in {"live", "partially_filled", "filled", "canceled"}
  BY DEF Message

LEMMA WithOrderTypes ==
    ASSUME NEW eng \in Engine, NEW m \in Message, m.channel = "orders"
    PROVE  WithOrder(eng, m) \in Engine
  <1> DEFINE known == {o \in eng.orders : o.id.number = m.number}
             intent == IF known = {} THEN None ELSE (CHOOSE o \in known : TRUE).intent
             o == [id |-> [spelling |-> "ordId", number |-> m.number],
                   size |-> m.size, status |-> m.status, intent |-> intent]
  <1>1. known \subseteq Tracked
    BY DEF Engine
  <1>2. intent \in {"open", "close", None}
    BY <1>1 DEF Tracked
  <1>3. m.status \notin {"filled", "canceled"} => o \in Tracked
    BY <1>2, EventFacts DEF Tracked, TrackedId, Statuses
  <1>4. WithOrder(eng, m) = [eng EXCEPT !.orders = Untracked(@, m.number) \union
            IF m.status \in {"filled", "canceled"} THEN {} ELSE {o}]
    BY DEF WithOrder
  <1>5. o.id.number = m.number
    OBVIOUS
  <1> HIDE DEF o
  <1> DEFINE new == Untracked(eng.orders, m.number) \union
                      IF m.status \in {"filled", "canceled"} THEN {} ELSE {o}
  <1>6. Distinct(new)
    BY <1>5 DEF Engine, Untracked, Distinct
  <1>7. new \subseteq Tracked
    BY <1>3 DEF Engine, Untracked
  <1>8. WithOrder(eng, m) = [eng EXCEPT !.orders = new]
    BY <1>4
  <1> HIDE DEF new
  <1> QED
    BY <1>6, <1>7, <1>8 DEF Engine

LEMMA WithPositionTypes ==
    ASSUME NEW eng \in Engine, NEW quantity \in Quantity
    PROVE  WithPosition(eng, quantity) \in Engine
  BY DEF WithPosition, Engine, Distinct

\* A private event is either saved or, before a reversal, first evaluated.
LEMMA EventCases ==
    ASSUME ReceiveEvent
    PROVE  /\ engine' = Updated(Head(feed)) /\ Up /\ ~evaluating
           /\ UNCHANGED <<phase, version, requests, reversing, died>>
           /\ \/ /\ StartsReversal(Head(feed)) /\ evaluating' = TRUE /\ Dropping
                 /\ UNCHANGED <<checkpoint, history, faults>>
              \/ Save(RuntimeCheckpoint(engine')) /\ evaluating' = FALSE
  BY DEF ReceiveEvent, Handled

LEMMA UpdatedTypes ==
    ASSUME Typed, NEW m \in Message
    PROVE  Updated(m) \in Engine
  <1>1. CASE m.channel = "orders"
    BY <1>1, WithOrderTypes DEF Updated, Typed, TypedProcess
  <1>2. CASE m.channel # "orders"
    <2>1. m.quantity \in Quantity
      BY <1>2 DEF Message
    <2> QED
      BY <1>2, <2>1, WithPositionTypes DEF Updated, Typed, TypedProcess
  <1> QED
    BY <1>1, <1>2

LEMMA ReceiveEventTypes ==
    ASSUME Typed, OneRow, ReceiveEvent
    PROVE  Typed' /\ OneRow'
  <1>1. Head(feed) \in Message /\ Tail(feed) \in Seq(Message)
    BY HeadTailProperties DEF ReceiveEvent, Typed, TypedExchange
  <1>2. engine' \in Engine
    BY <1>1, EventCases, UpdatedTypes
  <1>3. /\ checkpoint' \in Row /\ history' \in History /\ faults' \in 0 .. MaxFaults
        /\ OneRow'
    <2>1. CASE UNCHANGED <<checkpoint, history, faults>>
      BY <2>1 DEF Typed, TypedProcess, TypedExchange, OneRow, Kept
    <2>2. CASE Save(RuntimeCheckpoint(engine'))
      <3>1. RuntimeCheckpoint(engine') \in Row
        BY <1>2, RuntimeRow DEF RuntimeCheckpoint, Typed, TypedProcess, Row
      <3> QED
        BY <2>2, <3>1, SaveFacts
    <2> QED
      BY <2>1, <2>2, EventCases
  <1> QED
    BY <1>1, <1>2, <1>3 DEF ReceiveEvent, Typed, TypedProcess, TypedExchange

LEMMA SavingTypes ==
    ASSUME Typed, OneRow, Evaluated \/ ReceiveAccount
    PROVE  Typed' /\ OneRow'
  <1>1. RuntimeCheckpoint(engine) \in Row
    BY RuntimeRow DEF RuntimeCheckpoint, Typed, TypedProcess, Row
  <1>2. /\ checkpoint' \in Row /\ history' \in History /\ faults' \in 0 .. MaxFaults
        /\ OneRow'
    BY <1>1, SaveFacts DEF Evaluated, ReceiveAccount
  <1> QED
    BY <1>2 DEF Evaluated, ReceiveAccount, exchange, Typed, TypedProcess, TypedExchange

\* What is given up leaves the engine; nothing else of its orders changes.
LEMMA GivesUpFacts ==
    ASSUME Typed, NEW r \in requests, GivesUp(r)
    PROVE  /\ engine' \in Engine /\ engine'.position = engine.position
           /\ engine'.orders \subseteq engine.orders
           /\ faults' \in 0 .. MaxFaults
  BY RecoveryConstants DEF GivesUp, Untracked, Engine, Distinct, Typed, TypedProcess, TypedExchange

LEMMA RequestTypes ==
    ASSUME Typed, OneRow, DropReversal \/ \E r \in requests : Answered(r) \/ GivesUp(r)
    PROVE  Typed' /\ OneRow'
  <1>1. CASE DropReversal \/ \E r \in requests : Answered(r)
    BY <1>1 DEF DropReversal, Answered, process, exchange, Typed, TypedProcess, TypedExchange,
                OneRow, Kept
  <1>2. CASE \E r \in requests : GivesUp(r)
    <2>1. PICK r \in requests : GivesUp(r)
      BY <1>2
    <2>2. engine' \in Engine /\ faults' \in 0 .. MaxFaults
      BY <2>1, GivesUpFacts
    <2> QED
      BY <2>1, <2>2 DEF GivesUp, exchange, Typed, TypedProcess, TypedExchange, OneRow, Kept
  <1> QED
    BY <1>1, <1>2

LEMMA RefreshTypes ==
    ASSUME Typed, OneRow, RefreshSnapshot
    PROVE  Typed' /\ OneRow'
  <1>1. /\ published' = Redis!AfterRead(published, TRUE)
        /\ version' = published'.local
        /\ Redis!Value(published, TRUE) # None
    BY DEF RefreshSnapshot
  <1>2. /\ published' \in [redis: Version \union {None}, local: Version \union {None}]
        /\ version' \in Version
    BY <1>1 DEF Redis!Value, Redis!AfterRead, Typed, TypedProcess
  <1> QED
    BY <1>2 DEF RefreshSnapshot, exchange, Typed, TypedProcess, TypedExchange, OneRow, Kept

LEMMA ConnectTypes ==
    ASSUME Typed, OneRow, Connect
    PROVE  Typed' /\ OneRow'
  <1>1. [channel |-> "positions", quantity |-> held] \in Message
    BY DEF Message, Typed, TypedExchange
  <1>2. feed' \in Seq(Message)
    BY <1>1, EmptySeq DEF Connect
  <1> QED
    BY <1>2 DEF Connect, Typed, TypedProcess, TypedExchange, OneRow, Kept

LEMMA CrashTypes ==
    ASSUME Typed, OneRow, Crash
    PROVE  Typed' /\ OneRow' /\ Kept' = Kept /\ history'.disabled = FALSE
  <1>1. Empty \in [Table -> Seq(Row)]
    BY EmptySeq DEF Empty
  <1>2. history' \in History /\ history'.db = history.db /\ history'.disabled = FALSE
    BY <1>1 DEF Crash, NewProcess, History, Typed, TypedProcess
  <1>3. published' \in [redis: Version \union {None}, local: Version \union {None}]
    BY DEF Crash, Redis!Fresh, Typed, TypedProcess
  <1>4. feed' \in Seq(Message) /\ engine' \in Engine
    BY EmptySeq, EmptyEngineTypes DEF Crash
  <1>5. checkpoint' \in Row /\ version' = Bootstrap
    BY EmptyRow DEF Crash, StartupCheckpoint
  <1> QED
    BY <1>2, <1>3, <1>4, <1>5 DEF Crash, NothingRead, Typed, TypedProcess, TypedExchange, OneRow, Kept

-----------------------------------------------------------------------------
(* The exchange.                                                            *)

LEMMA TellOne ==
    ASSUME TypedExchange, NEW m \in Message, Told(<<m>>)
    PROVE  feed' \in Seq(Message)
  <1>1. <<m>> \in Seq(Message)
    OBVIOUS
  <1> QED
    BY <1>1, ConcatProperties DEF Told, TypedExchange

LEMMA TellTwo ==
    ASSUME TypedExchange, NEW m \in Message, NEW n \in Message, Told(<<m, n>>)
    PROVE  feed' \in Seq(Message)
  <1>1. <<m, n>> \in Seq(Message)
    OBVIOUS
  <1> QED
    BY <1>1, ConcatProperties DEF Told, TypedExchange

LEMMA EventTypes ==
    ASSUME TypedExchange, NEW o \in book,
           NEW status \in {"live", "partially_filled", "filled", "canceled"}
    PROVE  OrderEvent(o, status) \in Message
  BY DEF OrderEvent, Message, TypedExchange, Booked

LEMMA FillFacts ==
    ASSUME TypedExchange, NEW o \in book, Fills(o)
    PROVE  /\ book' \subseteq Booked /\ \A x \in book' : x.filled < x.size
           /\ held' \in Quantity /\ feed' \in Seq(Message)
  <1> DEFINE f == [o EXCEPT !.filled = @ + 1, !.status = "partially_filled"]
             done == f.filled = f.size \/ (o.kind = "close" /\ held' = 0)
             order == OrderEvent(o, IF done THEN "filled" ELSE "partially_filled")
             p == [channel |-> "positions", quantity |-> held']
  <1>1. o \in Booked /\ o.filled < o.size /\ o.filled \in Nat /\ o.size \in 1 .. MaxSize
    BY DEF TypedExchange, Booked
  <1>2. held' \in Quantity
    BY <1>1 DEF Fills, TypedExchange, Quantity, Booked
  <1>3. f \in Booked /\ f.filled = o.filled + 1 /\ f.size = o.size
    <2>1. o.filled + 1 \in 0 .. MaxSize
      BY <1>1, RecoveryConstants
    <2> QED
      BY <1>1, <2>1 DEF Booked
  <1>4. /\ book' = (book \ {o}) \union (IF done THEN {} ELSE {f})
        /\ Told(<<order, p>>) \/ Told(<<p, order>>)
    BY DEF Fills
  <1>5. order \in Message
    BY EventTypes
  <1>6. p \in Message
    BY <1>2 DEF Message
  <1>7. ~done => f.filled < f.size
    BY <1>1, <1>3
  <1> HIDE DEF f, done, order, p
  <1>8. book' \subseteq Booked /\ \A x \in book' : x.filled < x.size
    BY <1>3, <1>4, <1>7 DEF TypedExchange
  <1>9. feed' \in Seq(Message)
    BY <1>4, <1>5, <1>6, TellTwo
  <1> QED
    BY <1>2, <1>8, <1>9

LEMMA ExchangeTypes ==
    ASSUME Typed, OneRow, ExchangeStep
    PROVE  Typed' /\ OneRow'
  <1>1. PICK o \in book : Accepts(o) \/ Refuses(o) \/ Fills(o) \/ Cancels(o)
    BY DEF ExchangeStep
  <1>2. o \in Booked /\ TypedExchange
    BY DEF Typed, TypedExchange
  <1>3. UNCHANGED <<phase, version, checkpoint, read, history, published, sent, faults>>
    BY DEF ExchangeStep
  <1>4. /\ book' \subseteq Booked /\ \A x \in book' : x.filled < x.size
        /\ held' \in Quantity /\ feed' \in Seq(Message) /\ engine' \in Engine
    <2>1. CASE Accepts(o)
      <3>1. [o EXCEPT !.status = "live"] \in Booked
            /\ [o EXCEPT !.status = "live"].filled = o.filled
            /\ [o EXCEPT !.status = "live"].size = o.size
        BY <1>2 DEF Booked
      <3>2. feed' \in Seq(Message)
        BY <1>2, <2>1, EventTypes, TellOne DEF Accepts
      <3> QED
        BY <2>1, <3>1, <3>2 DEF Accepts, Typed, TypedProcess, TypedExchange
    <2>2. CASE Refuses(o)
      <3>1. engine' \in Engine
        BY <2>2 DEF Refuses, Untracked, Engine, Distinct, Typed, TypedProcess
      <3> QED
        BY <2>2, <3>1 DEF Refuses, Typed, TypedExchange
    <2>3. CASE Fills(o)
      <3>1. engine' \in Engine
        BY <2>3 DEF Fills, Typed, TypedProcess
      <3> QED
        BY <1>2, <2>3, <3>1, FillFacts
    <2>4. CASE Cancels(o)
      <3>1. feed' \in Seq(Message)
        BY <1>2, <2>4, EventTypes, TellOne DEF Cancels
      <3> QED
        BY <2>4, <3>1 DEF Cancels, Typed, TypedProcess, TypedExchange
    <2> QED
      BY <1>1, <2>1, <2>2, <2>3, <2>4
  <1> QED
    BY <1>3, <1>4 DEF Typed, TypedProcess, TypedExchange, OneRow, Kept

LEMMA PublishTypes ==
    ASSUME Typed, OneRow, NEW v \in Version, Publish(v)
    PROVE  Typed' /\ OneRow'
  <1>1. published' \in [redis: Version \union {None}, local: Version \union {None}]
    BY DEF Publish, Redis!WrittenByOther, Typed, TypedProcess
  <1> QED
    BY <1>1 DEF Publish, exchange, Typed, TypedProcess, TypedExchange, OneRow, Kept

-----------------------------------------------------------------------------
(* Requests and reversals.                                                  *)

\* Only a running trader waits for an answer, for a flat position or for its
\* evaluation.
Tasked ==
    /\ requests \subseteq Request /\ reversing \in BOOLEAN /\ evaluating \in BOOLEAN
    /\ requests # {} \/ reversing \/ evaluating => phase = "running"

LEMMA TaskedNext ==
    ASSUME Typed, Tasked, [Next]_vars
    PROVE  Tasked'
  <1>1. CASE UNCHANGED <<phase, requests, reversing, evaluating>>
    BY <1>1 DEF Tasked
  <1>2. CASE Boot \/ AnswerOrders \/ AnswerPositions \/ Compare \/ RequestFails
    <2>1. /\ phase # "running"
          /\ UNCHANGED <<requests, reversing, evaluating>>
      BY <1>2 DEF Boot, AnswerOrders, AnswerPositions, Compare, RequestFails, tasks
    <2> QED
      BY <2>1 DEF Tasked
  <1>3. CASE \E kind \in {"open", "close"}, size \in 1 .. MaxSize, reverses \in BOOLEAN :
               SendOrder(kind, size, reverses)
    <2>1. PICK kind \in {"open", "close"}, size \in 1 .. MaxSize, reverses \in BOOLEAN :
            SendOrder(kind, size, reverses)
      BY <1>3
    <2>2. sent' \in 1 .. MaxOrders
      BY <2>1, RecoveryConstants DEF SendOrder, Typed, TypedExchange
    <2>3. [number |-> sent', kind |-> kind, reverses |-> reverses] \in Request
      BY <2>2 DEF Request
    <2> QED
      BY <2>1, <2>3 DEF SendOrder, Tasked
  <1>4. CASE \E r \in requests : Answered(r) \/ GivesUp(r)
    <2>1. PICK r \in requests : Answered(r) \/ GivesUp(r)
      BY <1>4
    <2>2. r.reverses \in BOOLEAN /\ phase = "running"
      BY DEF Tasked, Request
    <2> QED
      BY <2>1, <2>2 DEF Answered, GivesUp, process, Tasked
  <1>5. CASE ReceiveEvent
    <2>1. evaluating' => evaluating' = TRUE /\ (evaluating' = FALSE \/ reversing)
      BY <1>5, EventCases DEF StartsReversal
    <2>2. evaluating' \in BOOLEAN
      BY <1>5, EventCases
    <2> QED
      BY <1>5, <2>1, <2>2, EventCases DEF Tasked
  <1>6. CASE Evaluated \/ DropReversal
    BY <1>6 DEF Evaluated, DropReversal, process, Tasked
  <1>7. CASE ReceiveAccount \/ RefreshSnapshot \/ Connect \/ \E v \in Version : Publish(v)
    BY <1>1, <1>7 DEF ReceiveAccount, RefreshSnapshot, Connect, Publish, tasks
  <1>8. CASE Crash
    BY <1>8 DEF Crash, Tasked
  <1>9. CASE ExchangeStep
    <2>1. UNCHANGED <<phase, reversing, evaluating>> /\ requests' \subseteq requests
      BY <1>9 DEF ExchangeStep, Accepts, Refuses, Fills, Cancels
    <2> QED
      BY <2>1 DEF Tasked
  <1>10. CASE UNCHANGED vars
    BY <1>1, <1>10 DEF vars, process, tasks
  <1> QED
    BY <1>2, <1>3, <1>4, <1>5, <1>6, <1>7, <1>8, <1>9, <1>10 DEF Next, Recovery, Trader

-----------------------------------------------------------------------------
(* What the newest row remembers.                                           *)

\* What was confirmed when c was saved and has not been dropped since is what
\* is confirmed now; the position is behind only before a reversal is evaluated.
Memory(c, eng, late, lost) ==
    /\ c.position = eng.position \/ (late /\ eng.position = 0)
    /\ {t \in Confirmed(c.orders) : t.id.number \notin lost}
         = Confirmed({AsCheckpointOrder(o) : o \in eng.orders})

\* The last checkpoint tells what the engine has heard of, and so does the
\* newest row as long as this process can write.
Remembers ==
    /\ OneRow
    /\ Up => /\ Memory(checkpoint, engine, evaluating, dropped)
             /\ ~history.disabled => Kept = <<checkpoint>>
    /\ ~Up => engine = EmptyEngine /\ dropped = {}
    /\ phase = "down" /\ died # None
       => \E row \in Row :
            /\ Kept = <<row>> /\ row.version = died.version
            /\ row.position = died.position \/ (died.evaluating /\ died.position = 0)
            /\ {t \in Confirmed(row.orders) : t.id.number \notin died.dropped} = died.orders

\* An order the exchange has not accepted is unconfirmed in the engine too, and
\* no event names it.
Numbered ==
    /\ \A o1, o2 \in book : o1.number = o2.number => o1 = o2
    /\ \A o \in book : o.number <= sent
    /\ \A i \in 1 .. Len(feed) : feed[i].channel = "orders" =>
          /\ feed[i].number <= sent
          /\ \A o \in book : o.status = "requested" => o.number # feed[i].number
    /\ \A e \in engine.orders :
          /\ e.id.number <= sent
          /\ \A o \in book : o.status = "requested" /\ o.number = e.id.number
                => e.status = "submitted"

LEMMA MemoryOfSave ==
    ASSUME NEW eng, NEW id, NEW ver, NEW b, NEW late
    PROVE  Memory(CheckpointOf(eng, id, ver, b), eng, late, {})
  BY DEF Memory, CheckpointOf

LEMMA MemoryOfStart ==
    ASSUME NEW row \in Row, row.id = "startup", NEW late
    PROVE  Memory(row, EmptyEngine, late, {})
  BY DEF Memory, Row, EmptyEngine, Confirmed

\* Only confirmed orders count, so unconfirmed ones come and go.
LEMMA ConfirmedOf ==
    ASSUME NEW orders
    PROVE  Confirmed({AsCheckpointOrder(o) : o \in orders})
             = {AsCheckpointOrder(o) : o \in Confirmed(orders)}
  BY DEF Confirmed, AsCheckpointOrder

LEMMA MemoryOfConfirmed ==
    ASSUME NEW c, NEW eng, NEW new, NEW late, NEW lost, Memory(c, eng, late, lost),
           new.position = eng.position, Confirmed(new.orders) = Confirmed(eng.orders)
    PROVE  Memory(c, new, late, lost)
  BY ConfirmedOf DEF Memory

\* Orders leave the engine, and the confirmed ones among them are dropped.
LEMMA MemoryOfDropped ==
    ASSUME NEW c, NEW eng \in Engine, NEW new, NEW late, NEW now, NEW lost,
           Memory(c, eng, late, lost), new.orders \subseteq eng.orders,
           c.position = new.position \/ (now /\ new.position = 0)
    PROVE  Memory(c, new, now,
                  lost \union (Numbers(Confirmed(eng.orders)) \ Numbers(Confirmed(new.orders))))
  <1> DEFINE gone == Numbers(Confirmed(eng.orders)) \ Numbers(Confirmed(new.orders))
             before == {AsCheckpointOrder(o) : o \in Confirmed(eng.orders)}
  <1>1. {t \in Confirmed(c.orders) : t.id.number \notin lost} = before
    BY ConfirmedOf DEF Memory
  <1>2. {t \in Confirmed(c.orders) : t.id.number \notin lost \union gone}
          = {t \in before : t.id.number \notin gone}
    BY <1>1
  <1>3. \A o \in Confirmed(eng.orders) :
          o.id.number \notin gone <=> o \in Confirmed(new.orders)
    BY DEF Confirmed, Numbers, Engine, Distinct
  <1>4. Confirmed(new.orders) \subseteq Confirmed(eng.orders)
    BY DEF Confirmed
  <1>5. {t \in before : t.id.number \notin gone}
          = {AsCheckpointOrder(o) : o \in Confirmed(new.orders)}
    <2> HIDE DEF gone
    <2> QED
      BY <1>3, <1>4 DEF AsCheckpointOrder
  <1> QED
    BY <1>2, <1>5, ConfirmedOf DEF Memory

LEMMA SaveRemembers ==
    ASSUME Typed, Remembers, phase' \in {"running", "halted"},
           NEW id \in {"startup", "runtime"}, NEW ver, NEW b,
           CheckpointOf(engine', id, ver, b) \in Row,
           Save(CheckpointOf(engine', id, ver, b))
    PROVE  Remembers'
  <1>1. /\ checkpoint' = CheckpointOf(engine', id, ver, b) /\ OneRow' /\ dropped' = {}
        /\ ~history'.disabled => Kept' = <<checkpoint'>>
    BY SaveFacts DEF Remembers
  <1>2. Memory(checkpoint', engine', evaluating', dropped')
    BY <1>1, MemoryOfSave
  <1> QED
    BY <1>1, <1>2 DEF Remembers, Up

LEMMA BootRemembers ==
    ASSUME Typed, Remembers, Boot
    PROVE  Remembers'
  <1>1. PICK up \in IF faults < MaxFaults THEN BOOLEAN ELSE {TRUE}, h \in Reached(history) :
          /\ published' = Redis!AfterRead(published, up)
          /\ version' = SnapshotVersion(up)
          /\ StartWith(Loaded(h, SnapshotVersion(up)), h)
          /\ FaultIf(~up \/ h # history)
    BY DEF Boot
  <1> DEFINE loaded == Loaded(h, SnapshotVersion(up))
  <1>2. Typed' /\ OneRow'
    BY BootTypes DEF Remembers
  <1>3. loaded \in Row /\ checkpoint' = loaded
    BY <1>1, <1>2 DEF StartWith, Typed, TypedProcess
  <1>4. CASE loaded.id = "startup"
    <2>1. /\ engine' = EmptyEngine /\ phase' = "running"
          /\ history' = Newest(WithRow(h, Checkpoints, loaded))
      BY <1>1, <1>4 DEF StartWith, Checkpoints
    <2>2. h \in History /\ h.db = history.db
      BY ReachedFacts DEF Typed, TypedProcess
    <2>3. ~history'.disabled => Kept' = <<checkpoint'>>
      BY <1>3, <2>1, <2>2, SavedRow DEF Kept, OneRow, Remembers
    <2>4. Memory(checkpoint', engine', evaluating', dropped')
      BY <1>3, <1>4, <2>1, MemoryOfStart DEF Boot, tasks, Remembers, Up
    <2> QED
      BY <1>2, <2>1, <2>3, <2>4 DEF Remembers, Up
  <1>5. CASE loaded.id # "startup"
    <2>1. phase' = "recovering" /\ UNCHANGED engine
      BY <1>1, <1>5 DEF StartWith
    <2> QED
      BY <1>2, <2>1 DEF Boot, tasks, Remembers, Up
  <1> QED
    BY <1>4, <1>5

LEMMA RecoveryRemembers ==
    ASSUME Typed, Remembers, AnswerOrders \/ AnswerPositions \/ Compare \/ RequestFails
    PROVE  Remembers'
  <1>1. Typed' /\ OneRow'
    BY RecoveryTypes DEF Remembers
  <1>2. CASE AnswerOrders \/ AnswerPositions
    BY <1>1, <1>2 DEF AnswerOrders, AnswerPositions, tasks, Remembers, Up, Kept
  <1>3. checkpoint.id \in {"startup", "runtime"} /\ version \in Version \union {Bootstrap}
    BY DEF Typed, TypedProcess, Row
  <1>4. CASE Compare
    <2>1. /\ Save(CheckpointOf(engine', checkpoint.id, version, ~Agreed))
          /\ phase' \in {"halted", "running"} /\ engine' = EmptyEngine
      BY <1>4 DEF Compare, Started
    <2>2. CheckpointOf(engine', checkpoint.id, version, ~Agreed) \in Row
      <3>1. (~Agreed) \in BOOLEAN
        OBVIOUS
      <3> QED
        BY <1>3, <2>1, <3>1, EmptyRow
    <2> QED
      BY <1>3, <2>1, <2>2, SaveRemembers
  <1>5. CASE RequestFails
    <2>1. /\ engine' = EmptyEngine /\ phase' = "halted"
          /\ checkpoint' = CheckpointOf(EmptyEngine, checkpoint.id, version, TRUE)
          /\ history' = Newest(WithRow(history, Checkpoints, checkpoint'))
      BY <1>5 DEF RequestFails, Checkpoints
    <2>2. ~history'.disabled => Kept' = <<checkpoint'>>
      BY <1>1, <2>1, SavedRow DEF Kept, OneRow, Remembers, Typed, TypedProcess
    <2>3. Memory(checkpoint', engine', evaluating', dropped')
      <3>1. dropped' = {}
        BY <1>5 DEF RequestFails, tasks, Remembers, Up
      <3> QED
        BY <2>1, <3>1, MemoryOfSave
    <2> QED
      BY <1>1, <2>1, <2>2, <2>3 DEF Remembers, Up
  <1> QED
    BY <1>2, <1>4, <1>5

LEMMA SendRemembers ==
    ASSUME Typed, Remembers, NEW kind \in {"open", "close"}, NEW size \in 1 .. MaxSize,
           NEW reverses, SendOrder(kind, size, reverses)
    PROVE  Remembers'
  <1> DEFINE o == [id |-> [spelling |-> "clOrdId", number |-> sent'], size |-> size,
                   status |-> "submitted", intent |-> kind]
  <1>1. engine \in Engine /\ engine' = [engine EXCEPT !.orders = @ \union {o}]
        /\ o.status = "submitted"
    BY DEF SendOrder, Typed, TypedProcess
  <1> HIDE DEF o
  <1>2. engine'.position = engine.position /\ engine'.orders = engine.orders \union {o}
    BY <1>1 DEF Engine
  <1>3. Confirmed(engine'.orders) = Confirmed(engine.orders)
    BY <1>1, <1>2 DEF Confirmed
  <1>4. phase = "running" /\ UNCHANGED <<phase, checkpoint, history, evaluating, dropped, died>>
    BY DEF SendOrder
  <1>5. Memory(checkpoint, engine', evaluating, dropped)
    BY <1>2, <1>3, <1>4, MemoryOfConfirmed DEF Remembers, Up
  <1> QED
    BY <1>4, <1>5 DEF Remembers, Up, OneRow, Kept

LEMMA RuntimeSaveRemembers ==
    ASSUME Typed, Remembers, engine' \in Engine, phase' \in {"running", "halted"},
           Save(RuntimeCheckpoint(engine'))
    PROVE  Remembers'
  <1>1. CheckpointOf(engine', "runtime", version, checkpoint.reconcile) \in Row
    BY RuntimeRow DEF Typed, TypedProcess, Row
  <1> QED
    BY <1>1, SaveRemembers DEF RuntimeCheckpoint

LEMMA EventRemembers ==
    ASSUME Typed, Remembers, ReceiveEvent
    PROVE  Remembers'
  <1> DEFINE m == Head(feed)
  <1>1. Typed' /\ OneRow'
    BY ReceiveEventTypes DEF Remembers
  <1>2. Up /\ phase' = phase /\ UNCHANGED died
    BY EventCases
  <1>3. CASE Save(RuntimeCheckpoint(engine'))
    BY <1>1, <1>2, <1>3, RuntimeSaveRemembers DEF Typed, TypedProcess, Up
  <1>4. CASE StartsReversal(m) /\ evaluating' = TRUE /\ Dropping
             /\ UNCHANGED <<checkpoint, history, faults>>
    <2>1. engine' = WithPosition(engine, 0)
      BY <1>4, EventCases DEF StartsReversal, Updated
    <2>2. engine'.position = 0 /\ engine'.orders \subseteq engine.orders
      BY <2>1 DEF WithPosition
    <2>3. engine \in Engine /\ Memory(checkpoint, engine, evaluating, dropped)
      BY <1>2 DEF Remembers, Typed, TypedProcess
    <2>4. Memory(checkpoint, engine', TRUE,
                 dropped \union (Numbers(Confirmed(engine.orders))
                                 \ Numbers(Confirmed(engine'.orders))))
      BY <2>2, <2>3, MemoryOfDropped
    <2>5. Memory(checkpoint', engine', evaluating', dropped')
      BY <1>4, <2>4 DEF Dropping
    <2> QED
      BY <1>1, <1>2, <1>4, <2>5 DEF Remembers, Up, OneRow, Kept
  <1> QED
    BY <1>3, <1>4, EventCases

LEMMA SavingRemembers ==
    ASSUME Typed, Tasked, Remembers, Evaluated \/ ReceiveAccount
    PROVE  Remembers'
  BY RuntimeSaveRemembers DEF Evaluated, ReceiveAccount, Tasked, Typed, TypedProcess, Up

LEMMA RequestRemembers ==
    ASSUME Typed, Tasked, Remembers, DropReversal \/ \E r \in requests : Answered(r) \/ GivesUp(r)
    PROVE  Remembers'
  <1>1. CASE DropReversal \/ \E r \in requests : Answered(r)
    BY <1>1 DEF DropReversal, Answered, process, Remembers, Up, OneRow, Kept
  <1>2. CASE \E r \in requests : GivesUp(r)
    <2>1. PICK r \in requests : GivesUp(r)
      BY <1>2
    <2>2. engine'.position = engine.position /\ engine'.orders \subseteq engine.orders
      BY <2>1, GivesUpFacts
    <2>3. Up /\ UNCHANGED <<phase, checkpoint, history, evaluating, died>> /\ Dropping
      BY <2>1 DEF GivesUp, Tasked, Up
    <2>4. engine \in Engine /\ Memory(checkpoint, engine, evaluating, dropped)
      BY <2>3 DEF Remembers, Typed, TypedProcess
    <2>5. checkpoint.position = engine'.position \/ (evaluating /\ engine'.position = 0)
      BY <2>2, <2>4 DEF Memory
    <2>6. Memory(checkpoint, engine', evaluating,
                 dropped \union (Numbers(Confirmed(engine.orders))
                                 \ Numbers(Confirmed(engine'.orders))))
      BY <2>2, <2>4, <2>5, MemoryOfDropped
    <2>7. Memory(checkpoint', engine', evaluating', dropped')
      BY <2>3, <2>6 DEF Dropping
    <2> QED
      BY <2>3, <2>7 DEF Remembers, Up, OneRow, Kept
  <1> QED
    BY <1>1, <1>2

LEMMA CrashRemembers ==
    ASSUME Typed, Remembers, Crash
    PROVE  Remembers'
  <1>1. OneRow' /\ Kept' = Kept
    BY CrashTypes DEF Remembers
  <1>2. phase' = "down" /\ engine' = EmptyEngine /\ dropped' = {}
    BY DEF Crash
  <1>3. ASSUME died' # None
        PROVE  \E row \in Row :
            /\ Kept' = <<row>> /\ row.version = died'.version
            /\ row.position = died'.position \/ (died'.evaluating /\ died'.position = 0)
            /\ {t \in Confirmed(row.orders) : t.id.number \notin died'.dropped} = died'.orders
    <2>1. Up /\ ~history.disabled
      BY <1>3 DEF Crash
    <2>2. /\ died'.position = engine.position /\ died'.version = checkpoint.version
          /\ died'.orders = Confirmed({AsCheckpointOrder(o) : o \in engine.orders})
          /\ died'.evaluating = evaluating /\ died'.dropped = dropped
      BY <2>1 DEF Crash
    <2>3. Kept = <<checkpoint>> /\ checkpoint \in Row
          /\ Memory(checkpoint, engine, evaluating, dropped)
      BY <2>1 DEF Remembers, Typed, TypedProcess
    <2> QED
      BY <1>1, <2>2, <2>3 DEF Memory
  <1> QED
    BY <1>1, <1>2, <1>3 DEF Remembers, Up

LEMMA ExchangeRemembers ==
    ASSUME Typed, Remembers, Numbered, ExchangeStep
    PROVE  Remembers'
  <1>1. PICK o \in book : Accepts(o) \/ Refuses(o) \/ Fills(o) \/ Cancels(o)
    BY DEF ExchangeStep
  <1>2. UNCHANGED <<phase, checkpoint, history, evaluating, dropped, died>>
    BY DEF ExchangeStep
  <1>3. CASE ~Refuses(o)
    BY <1>1, <1>2, <1>3 DEF Accepts, Fills, Cancels, Remembers, Up, OneRow, Kept
  <1>4. CASE Refuses(o)
    <2>1. engine \in Engine /\ engine' = [engine EXCEPT !.orders = Untracked(@, o.number)]
      BY <1>4 DEF Refuses, Typed, TypedProcess
    <2>2. engine'.position = engine.position
          /\ engine'.orders = {e \in engine.orders : e.id.number # o.number}
      BY <2>1 DEF Engine, Untracked
    <2>3. \A e \in engine.orders : e.id.number = o.number => e.status = "submitted"
      BY <1>4 DEF Refuses, Numbered
    <2>4. Confirmed(engine'.orders) = Confirmed(engine.orders)
      BY <2>2, <2>3 DEF Confirmed
    <2>5. Up => Memory(checkpoint, engine', evaluating, dropped)
      BY <2>2, <2>4, MemoryOfConfirmed DEF Remembers
    <2>6. ~Up => engine' = EmptyEngine
      BY <2>1 DEF Remembers, EmptyEngine, Untracked
    <2> QED
      BY <1>2, <2>5, <2>6 DEF Remembers, Up, OneRow, Kept
  <1> QED
    BY <1>3, <1>4

-----------------------------------------------------------------------------
(* Numbers.                                                                 *)

\* A message that names an order names one the exchange has accepted.
Settled(m) ==
    m.channel = "orders" =>
        /\ m.number <= sent
        /\ \A o \in book : o.status = "requested" => o.number # m.number

FeedSettled == \A i \in 1 .. Len(feed) : Settled(feed[i])

LEMMA NumberedSplit ==
    Numbered <=> /\ \A o1, o2 \in book : o1.number = o2.number => o1 = o2
                 /\ \A o \in book : o.number <= sent
                 /\ FeedSettled
                 /\ \A e \in engine.orders :
                      /\ e.id.number <= sent
                      /\ \A o \in book : o.status = "requested" /\ o.number = e.id.number
                            => e.status = "submitted"
  BY DEF Numbered, FeedSettled, Settled

LEMMA QuietNumbered ==
    ASSUME Numbered, UNCHANGED <<book, sent>>,
           feed' = feed \/ feed' = <<>>, engine'.orders \subseteq engine.orders
    PROVE  Numbered'
  <1>1. \A i \in 1 .. Len(feed') : i \in 1 .. Len(feed) /\ feed'[i] = feed[i]
    <2>1. CASE feed' = feed
      BY <2>1
    <2>2. CASE feed' = <<>>
      BY <2>2
    <2> QED
      BY <2>1, <2>2
  <1> QED
    BY <1>1 DEF Numbered

LEMMA ConnectNumbered ==
    ASSUME Numbered, Connect
    PROVE  Numbered'
  <1> DEFINE p == [channel |-> "positions", quantity |-> held]
  <1>1. \A i \in 1 .. Len(feed') : feed'[i].channel # "orders"
    <2>1. CASE feed' = <<>>
      BY <2>1
    <2>2. CASE feed' = <<p>>
      BY <2>2
    <2> QED
      BY <2>1, <2>2 DEF Connect
  <1> QED
    BY <1>1 DEF Connect, Numbered

LEMMA SendNumbered ==
    ASSUME Typed, Numbered, NEW kind \in {"open", "close"}, NEW size \in 1 .. MaxSize,
           NEW reverses, SendOrder(kind, size, reverses)
    PROVE  Numbered'
  <1> DEFINE e == [id |-> [spelling |-> "clOrdId", number |-> sent'], size |-> size,
                   status |-> "submitted", intent |-> kind]
             b == [number |-> sent', kind |-> kind, size |-> size,
                   filled |-> 0, status |-> "requested"]
  <1>1. sent' = sent + 1 /\ sent \in Nat /\ feed' = feed
    BY DEF SendOrder, Typed, TypedExchange
  <1>2. book \subseteq Booked /\ \A o \in book : o.number \in Nat /\ o.number < sent'
    BY <1>1 DEF Numbered, Typed, TypedExchange, Booked
  <1>3. /\ engine' = [engine EXCEPT !.orders = @ \union {e}] /\ book' = book \union {b}
        /\ e.id.number = sent' /\ e.status = "submitted" /\ b.number = sent'
    BY DEF SendOrder
  <1>4. engine \in Engine
    BY DEF Typed, TypedProcess
  <1> HIDE DEF e, b
  <1>5. engine'.orders = engine.orders \union {e}
    BY <1>3, <1>4 DEF Engine
  <1>6. \A x \in engine.orders : x.id.number \in Nat
    BY <1>4 DEF Engine, Tracked, TrackedId
  <1>7. \A i \in 1 .. Len(feed) : feed[i].channel = "orders" => feed[i].number \in Nat
    <2>1. \A i \in 1 .. Len(feed) : feed[i] \in Message
      BY ElementOfSeq DEF Typed, TypedExchange
    <2> QED
      BY <2>1, EventFacts
  <1>8. FeedSettled'
    BY <1>1, <1>3, <1>7 DEF Numbered, FeedSettled, Settled
  <1>9. \A o1, o2 \in book' : o1.number = o2.number => o1 = o2
    BY <1>2, <1>3 DEF Numbered
  <1>10. \A o \in book' : o.number <= sent'
    BY <1>1, <1>2, <1>3
  <1>11. \A x \in engine'.orders :
           /\ x.id.number <= sent'
           /\ \A o \in book' : o.status = "requested" /\ o.number = x.id.number
                => x.status = "submitted"
    <2>1. \A x \in engine.orders : x.id.number < sent'
      BY <1>1, <1>6 DEF Numbered
    <2> QED
      BY <1>1, <1>2, <1>3, <1>5, <1>6, <2>1 DEF Numbered
  <1> QED
    BY <1>8, <1>9, <1>10, <1>11 DEF Numbered, FeedSettled, Settled

LEMMA EventNumbered ==
    ASSUME Typed, Numbered, ReceiveEvent
    PROVE  Numbered'
  <1> DEFINE m == Head(feed)
  <1>1. /\ feed' = Tail(feed) /\ UNCHANGED <<book, sent>>
        /\ engine' = IF m.channel = "orders" THEN WithOrder(engine, m)
                     ELSE WithPosition(engine, m.quantity)
    BY DEF ReceiveEvent, Handled, Updated
  <1>2. /\ Len(feed) \in Nat /\ m \in Message /\ m = feed[1] /\ 1 \in 1 .. Len(feed)
        /\ Len(Tail(feed)) = Len(feed) - 1
        /\ \A i \in 1 .. Len(Tail(feed)) : Tail(feed)[i] = feed[i + 1]
    <2>1. feed \in Seq(Message) /\ feed # <<>>
      BY DEF ReceiveEvent, Typed, TypedExchange
    <2>2. Len(feed) \in Nat /\ 1 \in 1 .. Len(feed)
      BY <2>1, EmptySeq, LenProperties
    <2>3. m = feed[1]
      BY <2>1
    <2> QED
      BY <2>1, <2>2, <2>3, HeadTailProperties
  <1>3. Settled(m)
    BY <1>2 DEF Numbered, Settled
  <1>4. \A i \in 1 .. Len(feed') : feed'[i] = feed[i + 1] /\ i + 1 \in 1 .. Len(feed)
    BY <1>1, <1>2
  <1>5. engine \in Engine
    BY DEF Typed, TypedProcess
  <1>6. \A e \in engine'.orders :
          e \in engine.orders \/ (m.channel = "orders" /\ e.id.number = m.number)
    <2>1. CASE m.channel = "orders"
      <3> DEFINE known == {x \in engine.orders : x.id.number = m.number}
                 intent == IF known = {} THEN None ELSE (CHOOSE x \in known : TRUE).intent
                 o == [id |-> [spelling |-> "ordId", number |-> m.number],
                       size |-> m.size, status |-> m.status, intent |-> intent]
      <3>1. engine' = [engine EXCEPT !.orders = Untracked(@, m.number) \union
              IF m.status \in {"filled", "canceled"} THEN {} ELSE {o}]
        BY <1>1, <2>1 DEF WithOrder
      <3>2. o.id.number = m.number
        OBVIOUS
      <3> HIDE DEF o
      <3> QED
        BY <1>5, <2>1, <3>1, <3>2 DEF Engine, Untracked
    <2>2. CASE m.channel # "orders"
      BY <1>1, <1>5, <2>2 DEF WithPosition, Engine
    <2> QED
      BY <2>1, <2>2
  <1> HIDE DEF m
  <1>7. FeedSettled'
    BY <1>1, <1>4 DEF Numbered, FeedSettled, Settled
  <1>8. \A e \in engine'.orders :
          /\ e.id.number <= sent
          /\ \A o \in book : o.status = "requested" /\ o.number = e.id.number
                => e.status = "submitted"
    BY <1>3, <1>6 DEF Numbered, Settled
  <1> QED
    BY <1>1, <1>7, <1>8 DEF Numbered, FeedSettled, Settled

\* The same of a message after the step.
SettledNext(m) ==
    m.channel = "orders" =>
        /\ m.number <= sent'
        /\ \A o \in book' : o.status = "requested" => o.number # m.number

LEMMA ToldSettled ==
    ASSUME TypedExchange, NEW more \in Seq(Message), Told(more),
           \A i \in 1 .. Len(feed) : SettledNext(feed[i]),
           \A i \in 1 .. Len(more) : SettledNext(more[i])
    PROVE  FeedSettled'
  <1>1. feed \in Seq(Message)
    BY DEF TypedExchange
  <1>2. \A i \in 1 .. Len(feed') : SettledNext(feed'[i])
    <2>1. CASE feed' = feed
      BY <2>1
    <2>2. CASE feed' = feed \o more
      <3>1. \A i \in 1 .. Len(feed') : \/ i \in 1 .. Len(feed) /\ feed'[i] = feed[i]
                                     \/ /\ i - Len(feed) \in 1 .. Len(more)
                                        /\ feed'[i] = more[i - Len(feed)]
        BY <1>1, <2>2
      <3> QED
        BY <3>1
    <2> QED
      BY <2>1, <2>2 DEF Told
  <1> QED
    BY <1>2 DEF FeedSettled, Settled, SettledNext

\* One order leaves the book, or stays in it accepted.
LEMMA StepNumbered ==
    ASSUME Typed, Numbered, NEW o \in book, NEW n,
           n.number = o.number, n.status # "requested",
           book' = book \ {o} \/ book' = (book \ {o}) \union {n},
           UNCHANGED sent, engine'.orders \subseteq engine.orders,
           FeedSettled'
    PROVE  Numbered'
  <1>1. \A o1, o2 \in book' : o1.number = o2.number => o1 = o2
    BY DEF Numbered
  <1>2. \A x \in book' : x.number <= sent'
    BY DEF Numbered
  <1>3. \A e \in engine'.orders :
          /\ e.id.number <= sent'
          /\ \A x \in book' : x.status = "requested" /\ x.number = e.id.number
                => e.status = "submitted"
    BY DEF Numbered
  <1> QED
    BY <1>1, <1>2, <1>3 DEF Numbered, FeedSettled, Settled

LEMMA ExchangeNumbered ==
    ASSUME Typed, Numbered, ExchangeStep
    PROVE  Numbered'
  <1>1. PICK o \in book : Accepts(o) \/ Refuses(o) \/ Fills(o) \/ Cancels(o)
    BY DEF ExchangeStep
  <1>2. TypedExchange /\ o \in Booked /\ o.number <= sent /\ UNCHANGED sent
    BY DEF ExchangeStep, Typed, TypedExchange, Numbered
  <1> DEFINE a == [o EXCEPT !.status = "live"]
             f == [o EXCEPT !.filled = @ + 1, !.status = "partially_filled"]
  <1>3. /\ a.number = o.number /\ a.status = "live"
        /\ f.number = o.number /\ f.status = "partially_filled"
    BY <1>2 DEF Booked
  <1>4. ASSUME NEW n \in {a, f},
               book' = book \ {o} \/ book' = (book \ {o}) \union {n}
        PROVE  /\ \A i \in 1 .. Len(feed) : SettledNext(feed[i])
               /\ \A x \in book' : x.status = "requested" => x.number # o.number
    <2> HIDE DEF a, f
    <2>1. n.number = o.number /\ n.status # "requested"
      BY <1>3
    <2>2. \A x \in book' : x.status = "requested" => x \in book /\ x # o
      BY <1>4, <2>1
    <2> QED
      BY <1>2, <2>2 DEF Numbered, SettledNext
  <1>5. ASSUME NEW status \in {"live", "partially_filled", "filled", "canceled"},
               \A x \in book' : x.status = "requested" => x.number # o.number
        PROVE  OrderEvent(o, status) \in Message /\ SettledNext(OrderEvent(o, status))
    BY <1>2, <1>5, EventTypes DEF SettledNext, OrderEvent
  <1> HIDE DEF a
  <1>6. CASE Accepts(o)
    <2> DEFINE m == OrderEvent(o, "live")
    <2>1. book' = (book \ {o}) \union {a} /\ Told(<<m>>) /\ engine' = engine
      BY <1>6 DEF Accepts, a
    <2>2. /\ \A i \in 1 .. Len(feed) : SettledNext(feed[i])
          /\ \A x \in book' : x.status = "requested" => x.number # o.number
      BY <1>4, <2>1
    <2>3. m \in Message /\ SettledNext(m)
      BY <1>5, <2>2
    <2> HIDE DEF m
    <2>4. <<m>> \in Seq(Message) /\ \A i \in 1 .. Len(<<m>>) : SettledNext(<<m>>[i])
      BY <2>3
    <2>5. FeedSettled'
      BY <1>2, <2>1, <2>2, <2>4, ToldSettled
    <2> QED
      BY <1>2, <1>3, <2>1, <2>5, StepNumbered
  <1>7. CASE Refuses(o)
    <2>1. book' = book \ {o} /\ feed' = feed /\ engine' = [engine EXCEPT !.orders = Untracked(@, o.number)]
      BY <1>7 DEF Refuses
    <2>2. engine'.orders \subseteq engine.orders
      BY <2>1 DEF Untracked, Typed, TypedProcess, Engine
    <2>3. \A i \in 1 .. Len(feed) : SettledNext(feed[i])
      BY <1>4, <2>1
    <2>4. FeedSettled'
      BY <2>1, <2>3 DEF FeedSettled, Settled, SettledNext
    <2> QED
      BY <1>2, <1>3, <2>1, <2>2, <2>4, StepNumbered
  <1>8. CASE Fills(o)
    <2> DEFINE done == f.filled = f.size \/ (o.kind = "close" /\ held' = 0)
               status == IF done THEN "filled" ELSE "partially_filled"
               m == OrderEvent(o, status)
               p == [channel |-> "positions", quantity |-> held']
    <2>1. /\ book' = (book \ {o}) \union (IF done THEN {} ELSE {f})
          /\ Told(<<m, p>>) \/ Told(<<p, m>>)
          /\ engine' = engine
      BY <1>8 DEF Fills
    <2>2. book' = book \ {o} \/ book' = (book \ {o}) \union {f}
      BY <2>1
    <2>3. /\ \A i \in 1 .. Len(feed) : SettledNext(feed[i])
          /\ \A x \in book' : x.status = "requested" => x.number # o.number
      BY <1>4, <2>2
    <2>4. m \in Message /\ SettledNext(m)
      BY <1>5, <2>3
    <2>5. p \in Message /\ SettledNext(p)
      BY <1>2, <1>8, FillFacts DEF Message, SettledNext
    <2> HIDE DEF m, p
    <2>6. /\ <<m, p>> \in Seq(Message) /\ \A i \in 1 .. Len(<<m, p>>) : SettledNext(<<m, p>>[i])
          /\ <<p, m>> \in Seq(Message) /\ \A i \in 1 .. Len(<<p, m>>) : SettledNext(<<p, m>>[i])
      BY <2>4, <2>5
    <2>7. FeedSettled'
      BY <1>2, <2>1, <2>3, <2>6, ToldSettled
    <2> HIDE DEF f
    <2> QED
      BY <1>2, <1>3, <2>1, <2>2, <2>7, StepNumbered
  <1>9. CASE Cancels(o)
    <2> DEFINE m == OrderEvent(o, "canceled")
    <2>1. book' = book \ {o} /\ Told(<<m>>) /\ engine' = engine
      BY <1>9 DEF Cancels
    <2>2. /\ \A i \in 1 .. Len(feed) : SettledNext(feed[i])
          /\ \A x \in book' : x.status = "requested" => x.number # o.number
      BY <1>4, <2>1
    <2>3. m \in Message /\ SettledNext(m)
      BY <1>5, <2>2
    <2> HIDE DEF m
    <2>4. <<m>> \in Seq(Message) /\ \A i \in 1 .. Len(<<m>>) : SettledNext(<<m>>[i])
      BY <2>3
    <2>5. FeedSettled'
      BY <1>2, <2>1, <2>2, <2>4, ToldSettled
    <2> QED
      BY <1>2, <1>3, <2>1, <2>5, StepNumbered
  <1> QED
    BY <1>1, <1>6, <1>7, <1>8, <1>9

-----------------------------------------------------------------------------
Inv == Typed /\ Tasked /\ Remembers /\ Numbered

LEMMA InitInv == Init => Inv
  <1> SUFFICES ASSUME Init PROVE Inv
    OBVIOUS
  <1>1. Empty \in [Table -> Seq(Row)] /\ Empty[Checkpoints] = <<>>
    BY EmptySeq DEF Empty, Table, Checkpoints
  <1>2. history \in History /\ Kept = <<>> /\ history.disabled = FALSE
    BY <1>1 DEF Init, EmptyHistory, History, Kept
  <1>3. checkpoint \in Row
    BY EmptyRow DEF Init, StartupCheckpoint
  <1>4. published \in [redis: Version \union {None}, local: Version \union {None}]
    BY DEF Init, Redis!Fresh
  <1>5. feed \in Seq(Message) /\ Len(feed) = 0
    BY EmptySeq DEF Init
  <1>6. Typed
    BY <1>2, <1>3, <1>4, <1>5, EmptyEngineTypes, RecoveryConstants
       DEF Init, Typed, TypedProcess, TypedExchange, NothingRead, Quantity
  <1>7. Remembers
    BY <1>2, EmptySeq DEF Init, Remembers, Up, OneRow
  <1>8. Numbered
    BY <1>5 DEF Init, Numbered, EmptyEngine
  <1>9. Tasked
    BY DEF Init, Tasked
  <1> QED
    BY <1>6, <1>7, <1>8, <1>9 DEF Inv

LEMMA NextInv ==
    ASSUME Inv, [Next]_vars
    PROVE  Inv'
  <1> USE DEF Inv
  <1>1. OneRow /\ engine \in Engine
    BY DEF Remembers, Typed, TypedProcess
  <1>2. Tasked'
    BY TaskedNext
  <1>3. EmptyEngine.orders \subseteq engine.orders
    BY DEF EmptyEngine
  <1>4. CASE Boot
    BY <1>1, <1>2, <1>3, <1>4, BootTypes, BootRemembers, QuietNumbered
       DEF Boot, StartWith, exchange
  <1>5. CASE AnswerOrders \/ AnswerPositions \/ Compare \/ RequestFails
    BY <1>1, <1>2, <1>3, <1>5, RecoveryTypes, RecoveryRemembers, QuietNumbered
       DEF AnswerOrders, AnswerPositions, Compare, Started, RequestFails, exchange
  <1>6. CASE \E kind \in {"open", "close"}, size \in 1 .. MaxSize, reverses \in BOOLEAN :
               SendOrder(kind, size, reverses)
    BY <1>1, <1>2, <1>6, SendTypes, SendRemembers, SendNumbered
  <1>7. CASE ReceiveEvent
    BY <1>1, <1>2, <1>7, ReceiveEventTypes, EventRemembers, EventNumbered
  <1>8. CASE Evaluated \/ ReceiveAccount
    BY <1>1, <1>2, <1>8, SavingTypes, SavingRemembers, QuietNumbered
       DEF Evaluated, ReceiveAccount, exchange
  <1>9. CASE DropReversal \/ \E r \in requests : Answered(r) \/ GivesUp(r)
    <2>1. UNCHANGED <<book, sent, feed>> /\ engine'.orders \subseteq engine.orders
      BY <1>9, GivesUpFacts DEF DropReversal, Answered, GivesUp, process, exchange
    <2> QED
      BY <1>1, <1>2, <1>9, <2>1, RequestTypes, RequestRemembers, QuietNumbered
  <1>10. CASE RefreshSnapshot
    <2>1. Remembers'
      BY <1>10 DEF RefreshSnapshot, tasks, Remembers, Up, OneRow, Kept
    <2> QED
      BY <1>1, <1>2, <1>10, <2>1, RefreshTypes, QuietNumbered DEF RefreshSnapshot, exchange
  <1>11. CASE Connect
    <2>1. Remembers'
      BY <1>11 DEF Connect, tasks, Remembers, Up, OneRow, Kept
    <2> QED
      BY <1>1, <1>2, <1>11, <2>1, ConnectTypes, ConnectNumbered
  <1>12. CASE Crash
    <2>1. Numbered'
      BY <1>3, <1>12, QuietNumbered DEF Crash
    <2> QED
      BY <1>1, <1>2, <1>12, <2>1, CrashTypes, CrashRemembers
  <1>13. CASE ExchangeStep
    BY <1>1, <1>2, <1>13, ExchangeTypes, ExchangeRemembers, ExchangeNumbered
  <1>14. CASE \E v \in Version : Publish(v)
    <2>1. Remembers' /\ Numbered'
      BY <1>14, QuietNumbered DEF Publish, tasks, exchange, Remembers, Up, OneRow, Kept
    <2> QED
      BY <1>1, <1>2, <1>14, <2>1, PublishTypes
  <1>15. CASE UNCHANGED vars
    BY <1>2, <1>15 DEF vars, process, tasks, exchange, Typed, TypedProcess, TypedExchange,
                       Remembers, Up, OneRow, Kept, Numbered
  <1> QED
    BY <1>4, <1>5, <1>6, <1>7, <1>8, <1>9, <1>10, <1>11, <1>12, <1>13, <1>14, <1>15
       DEF Next, Recovery, Trader

LEMMA AlwaysInv == Spec => []Inv
  BY InitInv, NextInv, PTL DEF Spec

\* Engine, checkpoint, what is read and the exchange's book keep their types
\* through failing stores, restarts and events in any order.
THEOREM RecoveryTypeOK == Spec => []TypeOK
  <1>1. Inv => TypeOK
    BY DEF Inv, Tasked, Typed, TypedProcess, TypedExchange, TypeOK, Engine, Row, History
  <1> QED
    BY AlwaysInv, <1>1, PTL

\* A process that starts finds what its predecessor had heard of, whatever the
\* order of events, saves and requests was and whenever the process ended.  The
\* checkpoint after every private event is enough but for a position that was
\* closed while a reversal waited for it, and requests that failed although
\* their orders were confirmed only leave too much in it.
THEOREM RestartRemembers == Spec => NothingForgotten
  <1> DEFINE Found ==
        phase = "down" /\ phase' # "down" /\ died # None
        /\ ~history'.disabled /\ died.version = version'
        => /\ \/ checkpoint'.position = died.position
              \/ died.evaluating /\ died.position = 0
           /\ {t \in Confirmed(checkpoint'.orders) : t.id.number \notin died.dropped}
              = died.orders
  <1>1. Inv /\ [Next]_vars => [Found]_vars
    <2> SUFFICES ASSUME Inv, Next, phase = "down", phase' # "down", died # None,
                        ~history'.disabled, died.version = version'
                 PROVE  /\ \/ checkpoint'.position = died.position
                           \/ died.evaluating /\ died.position = 0
                        /\ {t \in Confirmed(checkpoint'.orders) : t.id.number \notin died.dropped}
                           = died.orders
      OBVIOUS
    <2>1. Boot
      BY DEF Next, Recovery, Trader, AnswerOrders, AnswerPositions, Compare, RequestFails,
             SendOrder, Answered, GivesUp, ReceiveEvent, Evaluated, ReceiveAccount,
             DropReversal, RefreshSnapshot, Connect, Crash, ExchangeStep, Publish, Up,
             process, Inv, Tasked
    <2>2. PICK up \in IF faults < MaxFaults THEN BOOLEAN ELSE {TRUE}, h \in Reached(history) :
            /\ version' = SnapshotVersion(up)
            /\ StartWith(Loaded(h, SnapshotVersion(up)), h)
      BY <2>1 DEF Boot
    <2>3. /\ h \in History /\ h.db = history.db
          /\ h = history \/ h.disabled
      BY ReachedFacts DEF Inv, Typed, TypedProcess
    <2>4. PICK row \in Row :
            /\ Kept = <<row>> /\ row.version = died.version
            /\ row.position = died.position \/ (died.evaluating /\ died.position = 0)
            /\ {t \in Confirmed(row.orders) : t.id.number \notin died.dropped} = died.orders
      BY DEF Inv, Remembers
    <2>5. version' \in Version \union {Bootstrap} /\ Loaded(h, version') \in Row
      <3>1. Typed'
        BY <2>1, BootTypes DEF Inv, Remembers
      <3> QED
        BY <2>3, <3>1, LoadedFacts DEF Typed, TypedProcess
    <2>6. ~h.disabled
      <3>1. CASE Loaded(h, version').id = "startup"
        <4>1. history' = Newest(WithRow(h, Checkpoints, Loaded(h, version')))
          BY <2>2, <3>1 DEF StartWith, Checkpoints
        <4>2. history'.disabled = h.disabled
          BY <2>3, <2>5, <4>1, SavedRow DEF Inv, Remembers, OneRow, Kept
        <4> QED
          BY <4>2
      <3>2. CASE Loaded(h, version').id # "startup"
        BY <2>2, <3>2 DEF StartWith
      <3> QED
        BY <3>1, <3>2
    <2>7. Loaded(h, version') = row
      BY <2>3, <2>4, <2>5, <2>6, LoadedFacts DEF Kept
    <2> QED
      BY <2>2, <2>4, <2>7 DEF StartWith
  <1> QED
    BY AlwaysInv, <1>1, PTL DEF Spec, NothingForgotten

-----------------------------------------------------------------------------
(* What is compared.                                                        *)

LEMMA ListedOnce ==
    ASSUME NEW S, IsFiniteSet(S)
    PROVE  /\ Cardinality(S) \in Nat
           /\ SetToSeq(S) \in [1 .. Cardinality(S) -> S]
           /\ \A x \in S : \E i \in 1 .. Cardinality(S) : SetToSeq(S)[i] = x
  <1> DEFINE n == Cardinality(S)
             Lists(f) == f \in [1 .. n -> S] /\ IsInjective(f)
             q == SetToSeq(S)
  <1>1. n \in Nat /\ ExistsBijection(1 .. n, S)
    BY FS_CardinalityType
  <1>2. PICK b : b \in Bijection(1 .. n, S)
    BY <1>1 DEF ExistsBijection
  <1>3. b \in [1 .. n -> S] /\ IsInjective(b)
    BY <1>2 DEF Bijection, Injection, IsInjective
  <1>4. q \in [1 .. n -> S] /\ IsInjective(q)
    BY <1>3 DEF SetToSeq
  <1>5. q \in Injection(1 .. n, S)
    BY <1>4 DEF Injection, IsInjective
  <1>6. q \in Surjection(1 .. n, S)
    <2>1. IsFiniteSet(1 .. n) /\ Cardinality(1 .. n) = n
      <3>1. ExistsBijection(1 .. n, 1 .. n)
        <4>1. [i \in 1 .. n |-> i] \in Bijection(1 .. n, 1 .. n)
          BY DEF Bijection, Injection, Surjection, IsInjective
        <4> QED
          BY <4>1 DEF ExistsBijection
      <3> QED
        BY <1>1, <3>1, FS_CountingElements, FS_NatBijection
    <2> HIDE DEF q, n
    <2>2. Cardinality(1 .. n) = Cardinality(S)
      BY <2>1 DEF n
    <2> QED
      BY <1>5, <2>2, FS_Injection
  <1> QED
    BY <1>1, <1>4, <1>6 DEF Surjection

\* One order of ours finds one of the exchange's at most, so each is taken off
\* whatever order they are compared in.
LEMMA LeftOverIs ==
    ASSUME NEW ours, IsFiniteSet(ours), NEW theirs,
           \A o1, o2 \in theirs : o1.number = o2.number => o1 = o2
    PROVE  LeftOver(ours, theirs) = {o \in theirs : \A c \in ours : ~Matches(c, o)}
  <1> DEFINE n == Cardinality(ours)
             q == SetToSeq(ours)
             A == SUBSET theirs
             Step(rest, c) == IF \E o \in rest : Matches(c, o)
                              THEN rest \ {CHOOSE o \in rest : Matches(c, o)} ELSE rest
             g == [p \in A \X (1 .. n) |-> Step(p[1], q[p[2]])]
             r == [i \in 0 .. n |-> {o \in theirs : \A j \in 1 .. i : ~Matches(q[j], o)}]
             Steps(it) == it = [S \in SUBSET DOMAIN q |->
                                  IF S = {} THEN theirs ELSE Step(it[S \ {Max(S)}], q[Max(S)])]
             iter == CHOOSE it : Steps(it)
  <1>1. /\ n \in Nat /\ q \in [1 .. n -> ours] /\ DOMAIN q = 1 .. n
        /\ \A c \in ours : \E i \in 1 .. n : q[i] = c
    BY ListedOnce
  <1>2. ASSUME NEW rest \in A, NEW c
        PROVE  Step(rest, c) = {o \in rest : ~Matches(c, o)}
    <2>1. \A o1, o2 \in rest : Matches(c, o1) /\ Matches(c, o2) => o1 = o2
      BY DEF Matches
    <2>2. CASE \E o \in rest : Matches(c, o)
      <3> DEFINE x == CHOOSE o \in rest : Matches(c, o)
      <3>1. x \in rest /\ Matches(c, x)
        BY <2>2
      <3>2. Step(rest, c) = rest \ {x}
        BY <2>2
      <3> HIDE DEF x, Step
      <3> QED
        BY <2>1, <3>1, <3>2
    <2>3. CASE ~\E o \in rest : Matches(c, o)
      BY <2>3
    <2> QED
      BY <2>2, <2>3
  <1>3. LeftOver(ours, theirs) = iter[DOMAIN q]
    BY DEF LeftOver, FoldLeft, MapThenFoldSet
  <1> HIDE DEF Step
  <1>4. \A c : \A rest \in A : Step(rest, c) \in A
    BY <1>2
  <1>5. g \in [A \X (1 .. n) -> A]
    BY <1>4
  <1>6. theirs \in A
    OBVIOUS
  <1>7. \A rest \in A, i \in 1 .. n : g[<<rest, i>>] = Step(rest, q[i])
    OBVIOUS
  <1>8. Run(r, A, theirs, n, g)
    <2>1. r \in [0 .. n -> A] /\ r[0] = theirs
      BY <1>1
    <2>2. ASSUME NEW i \in 1 .. n
          PROVE  r[i] = g[<<r[i - 1], i>>]
      <3>1. r[i - 1] \in A /\ i - 1 \in 0 .. n /\ i \in 0 .. n
        BY <1>1, <2>1
      <3>2. g[<<r[i - 1], i>>] = {o \in r[i - 1] : ~Matches(q[i], o)}
        <4> HIDE DEF g, r
        <4> QED
          BY <1>2, <1>7, <3>1
      <3>3. \A j : j \in 1 .. i <=> (j \in 1 .. i - 1 \/ j = i)
        BY <1>1
      <3>4. r[i] = {o \in r[i - 1] : ~Matches(q[i], o)}
        <4> HIDE DEF q, n
        <4> QED
          BY <3>1, <3>3
      <3> QED
        BY <3>2, <3>4
    <2> HIDE DEF r, g
    <2> QED
      BY <2>1, <2>2 DEF Run
  <1> HIDE DEF g, n
  <1>9. PICK h : Fold(h, A, theirs, n, g)
    <2> HIDE DEF A
    <2> QED
      BY <1>1, <1>5, <1>6, FoldExists
  <1>10. Steps(h)
    <2>1. \A S \in SUBSET (1 .. n) :
            h[S] = IF S = {} THEN theirs ELSE Step(h[S \ {Max(S)}], q[Max(S)])
      <3> TAKE S \in SUBSET (1 .. n)
      <3>1. CASE S = {}
        BY <1>9, <3>1 DEF Fold
      <3>2. CASE S # {}
        <4>1. Max(S) \in 1 .. n /\ S \ {Max(S)} \in SUBSET (1 .. n)
          BY <1>1, <3>2, Greatest1N
        <4>2. h[S \ {Max(S)}] \in A /\ h[S] = g[<<h[S \ {Max(S)}], Max(S)>>]
          BY <1>9, <3>2, <4>1 DEF Fold
        <4> HIDE DEF q, A
        <4> QED
          BY <1>7, <3>2, <4>1, <4>2
      <3> QED
        BY <3>1, <3>2
    <2>2. h \in [SUBSET (1 .. n) -> A]
      BY <1>9 DEF Fold
    <2> HIDE DEF A, q
    <2> QED
      BY <1>1, <2>1, <2>2
  <1>11. Steps(iter)
    <2> HIDE DEF Steps
    <2> QED
      BY <1>10
  <1>12. iter = [S \in SUBSET (1 .. n) |->
                   IF S = {} THEN theirs ELSE Step(iter[S \ {Max(S)}], q[Max(S)])]
    <2> HIDE DEF iter, q, Step
    <2> QED
      BY <1>1, <1>11
  <1> HIDE DEF iter, q, Steps
  <1>13. Follows(iter, A, theirs, n, g)
    <2>1. iter[{}] = theirs
      BY <1>12
    <2>2. ASSUME NEW S \in SUBSET (1 .. n), S # {}, iter[S \ {Max(S)}] \in A
          PROVE  iter[S] = g[<<iter[S \ {Max(S)}], Max(S)>>]
      <3>1. Max(S) \in 1 .. n
        BY <1>1, <2>2, Greatest1N
      <3>2. iter[S] = Step(iter[S \ {Max(S)}], q[Max(S)])
        BY <1>12, <2>2
      <3> HIDE DEF A
      <3> QED
        BY <1>7, <2>2, <3>1, <3>2
    <2> QED
      BY <2>1, <2>2 DEF Follows
  <1>14. iter[1 .. n] = r[n]
    <2> HIDE DEF A, r
    <2> QED
      BY <1>1, <1>6, <1>8, <1>13, FoldValue
  <1>15. r[n] = {o \in theirs : \A j \in 1 .. n : ~Matches(q[j], o)}
    BY <1>1
  <1>16. \A o : (\A j \in 1 .. n : ~Matches(q[j], o)) <=> \A c \in ours : ~Matches(c, o)
    BY <1>1
  <1> HIDE DEF r, A
  <1> QED
    BY <1>1, <1>3, <1>14, <1>15, <1>16

LEMMA FewOrders ==
    ASSUME NEW ours \in SUBSET CheckpointOrder, Distinct(ours)
    PROVE  IsFiniteSet(ours)
  <1> DEFINE number == [t \in ours |-> t.id.number]
  <1>1. number \in Injection(ours, 1 .. MaxOrders)
    BY DEF Injection, IsInjective, Distinct, CheckpointOrder, TrackedId
  <1>2. IsFiniteSet(1 .. MaxOrders)
    <2>1. MaxOrders \in Nat
      BY RecoveryConstants
    <2>2. [i \in 1 .. MaxOrders |-> i] \in Bijection(1 .. MaxOrders, 1 .. MaxOrders)
      BY DEF Bijection, Injection, Surjection, IsInjective
    <2>3. ExistsBijection(1 .. MaxOrders, 1 .. MaxOrders)
      BY <2>2 DEF ExistsBijection
    <2> QED
      BY <2>1, <2>3, FS_NatBijection
  <1> HIDE DEF number
  <1> QED
    BY <1>1, <1>2, FS_Injection

\* The two lists match when each order of either has its own in the other.
LEMMA OrdersMatchWhen ==
    ASSUME NEW ours \in SUBSET CheckpointOrder, Distinct(ours), NEW theirs,
           \A o1, o2 \in theirs : o1.number = o2.number => o1 = o2
    PROVE  OrdersMatch(ours, theirs)
             <=> /\ \A o \in theirs : \E t \in ours : Matches(t, o)
                 /\ \A t \in ours : \E o \in theirs : Matches(t, o)
  <1> DEFINE Mine(o) == CHOOSE t \in ours : Matches(t, o)
             f == [o \in theirs |-> Mine(o)]
  <1>1. IsFiniteSet(ours)
    BY FewOrders
  <1>2. LeftOver(ours, theirs) = {} <=> \A o \in theirs : \E t \in ours : Matches(t, o)
    <2>1. LeftOver(ours, theirs) = {o \in theirs : \A c \in ours : ~Matches(c, o)}
      BY <1>1, LeftOverIs
    <2> QED
      BY <2>1
  <1>3. ASSUME \A o \in theirs : \E t \in ours : Matches(t, o)
        PROVE  Cardinality(ours) = Cardinality(theirs)
                 <=> \A t \in ours : \E o \in theirs : Matches(t, o)
    <2>1. \A o \in theirs : Mine(o) \in ours /\ Matches(Mine(o), o)
      BY <1>3
    <2> HIDE DEF Mine
    <2>2. f \in [theirs -> ours] /\ \A o \in theirs : f[o] \in ours /\ Matches(f[o], o)
      BY <2>1
    <2> HIDE DEF f
    <2>3. f \in Injection(theirs, ours)
      <3>1. \A o1, o2 \in theirs : f[o1] = f[o2] => o1 = o2
        BY <2>2 DEF Matches
      <3> QED
        BY <2>2, <3>1 DEF Injection, IsInjective
    <2>4. Cardinality(theirs) = Cardinality(ours) <=> f \in Surjection(theirs, ours)
      BY <1>1, <2>3, FS_Injection
    <2>5. \A t \in ours, o \in theirs : Matches(t, o) => f[o] = t
      BY <2>2 DEF Matches, Distinct
    <2>6. f \in Surjection(theirs, ours) <=> \A t \in ours : \E o \in theirs : f[o] = t
      BY <2>2 DEF Surjection
    <2>7. (\A t \in ours : \E o \in theirs : f[o] = t)
            <=> \A t \in ours : \E o \in theirs : Matches(t, o)
      BY <2>2, <2>5
    <2> QED
      BY <2>4, <2>6, <2>7
  <1> QED
    BY <1>2, <1>3 DEF OrdersMatch

\* A position that is listed closed never matches.
LEMMA PositionsMatchWhen ==
    ASSUME NEW c \in Row, held \in Quantity
    PROVE  PositionsMatch(c, PositionRows)
             <=> held = (IF c.position = None THEN 0 ELSE c.position) /\ c.position # 0
  BY RecoveryConstants DEF PositionsMatch, PositionRows, Row, Quantity

\* What recovery has read is what the exchange has, unless that has changed.
ReadTrue ==
    /\ read = [orders |-> read.orders, positions |-> read.positions]
    /\ moved \/ read.orders = None \/ read.orders = OpenOrders
    /\ moved \/ read.positions = None \/ read.positions = PositionRows

LEMMA ReadTrueNext ==
    ASSUME Inv, ReadTrue, [Next]_vars
    PROVE  ReadTrue'
  <1>1. CASE UNCHANGED <<read, book, held, moved>>
    BY <1>1 DEF ReadTrue, OpenOrders, PositionRows
  <1>2. CASE read' = NothingRead
    BY <1>2 DEF ReadTrue, NothingRead
  <1>3. CASE AnswerOrders \/ AnswerPositions
    <2>1. UNCHANGED <<book, held, moved>>
      BY <1>3 DEF AnswerOrders, AnswerPositions, exchange
    <2>2. UNCHANGED <<OpenOrders, PositionRows>>
      BY <2>1 DEF OpenOrders, PositionRows
    <2>3. /\ read' = [read EXCEPT !.orders = OpenOrders]
             \/ read' = [read EXCEPT !.positions = PositionRows]
      BY <1>3 DEF AnswerOrders, AnswerPositions
    <2> DEFINE os == read.orders  ps == read.positions
               oo == OpenOrders   pp == PositionRows
    <2>4. read = [orders |-> os, positions |-> ps]
      BY DEF ReadTrue
    <2> HIDE DEF os, ps, oo, pp
    <2>5. \/ read' = [orders |-> oo, positions |-> ps]
          \/ read' = [orders |-> os, positions |-> pp]
      BY <2>3, <2>4 DEF oo, pp
    <2> QED
      BY <2>1, <2>2, <2>5 DEF ReadTrue, os, ps, oo, pp
  <1>4. CASE ExchangeStep
    <2>1. moved' = (read # NothingRead) /\ UNCHANGED read
      BY <1>4 DEF ExchangeStep
    <2>2. CASE read = NothingRead
      BY <1>2, <2>1, <2>2
    <2>3. CASE read # NothingRead
      <3>1. moved' /\ read' = [orders |-> read'.orders, positions |-> read'.positions]
        BY <2>1, <2>3 DEF ReadTrue
      <3> QED
        BY <3>1 DEF ReadTrue
    <2> QED
      BY <2>2, <2>3
  <1>5. CASE Compare \/ RequestFails \/ Crash
    BY <1>2, <1>5 DEF Compare, Started, RequestFails, Crash
  <1>6. CASE Boot \/ RefreshSnapshot \/ ReceiveAccount \/ \E v \in Version : Publish(v)
    BY <1>1, <1>6 DEF Boot, RefreshSnapshot, ReceiveAccount, Publish, exchange
  <1>7. CASE \E kind \in {"open", "close"}, size \in 1 .. MaxSize, reverses \in BOOLEAN :
               SendOrder(kind, size, reverses)
    <2>1. UNCHANGED <<read, held, moved>> /\ UNCHANGED OpenOrders
      <3>1. PICK kind \in {"open", "close"}, size \in 1 .. MaxSize, reverses \in BOOLEAN :
              SendOrder(kind, size, reverses)
        BY <1>7
      <3>2. UNCHANGED <<read, held, moved>>
        BY <3>1 DEF SendOrder
      <3> DEFINE b == [number |-> sent', kind |-> kind, size |-> size,
                       filled |-> 0, status |-> "requested"]
      <3>3. book' = book \union {b} /\ b.status = "requested"
        BY <3>1 DEF SendOrder
      <3> HIDE DEF b
      <3> QED
        BY <3>2, <3>3 DEF OpenOrders
    <2> QED
      BY <2>1 DEF ReadTrue, PositionRows
  <1>8. CASE ReceiveEvent \/ Connect
    BY <1>1, <1>8 DEF ReceiveEvent, Connect
  <1>9. CASE Evaluated \/ DropReversal \/ \E r \in requests : Answered(r) \/ GivesUp(r)
    BY <1>1, <1>9 DEF Evaluated, DropReversal, Answered, GivesUp, process, exchange
  <1>10. CASE UNCHANGED vars
    BY <1>1, <1>10 DEF vars, process, exchange
  <1> QED
    BY <1>3, <1>4, <1>5, <1>6, <1>7, <1>8, <1>9, <1>10 DEF Next, Recovery, Trader

LEMMA AlwaysReadTrue == Spec => []ReadTrue
  <1>1. Init => ReadTrue
    BY DEF Init, ReadTrue, NothingRead
  <1> QED
    BY <1>1, AlwaysInv, ReadTrueNext, PTL DEF Spec

\* A restart runs on exactly when its checkpoint tells what the exchange has:
\* the greedy match never pairs two orders that should have waited for others,
\* and a listed position that is flat is the only thing that halts it without
\* a difference.
THEOREM RestartIsJudged == Spec => RestartJudged
  <1> DEFINE Judged ==
        phase = "recovering" /\ phase' \in {"running", "halted"}
        /\ None \notin {read.orders, read.positions} /\ ~moved
        => (phase' = "running")
           = (TellsExchange(checkpoint) /\ checkpoint.position # 0)
  <1>1. Inv /\ ReadTrue /\ [Next]_vars => [Judged]_vars
    <2> SUFFICES ASSUME Inv, ReadTrue, Next, phase = "recovering",
                        phase' \in {"running", "halted"},
                        read.orders # None, read.positions # None, ~moved
                 PROVE  (phase' = "running")
                          = (TellsExchange(checkpoint) /\ checkpoint.position # 0)
      OBVIOUS
    <2>1. Compare
      BY DEF Next, Recovery, Trader, Boot, AnswerOrders, AnswerPositions, RequestFails,
             SendOrder, Answered, GivesUp, ReceiveEvent, Evaluated, ReceiveAccount,
             DropReversal, RefreshSnapshot, Connect, Crash, ExchangeStep, Publish, Up,
             process
    <2>2. phase' = "running" <=> Agreed
      BY <2>1 DEF Compare, Started
    <2>3. read.orders = OpenOrders /\ read.positions = PositionRows
      BY DEF ReadTrue
    <2>4. /\ checkpoint \in Row /\ held \in Quantity
          /\ \A o1, o2 \in OpenOrders : o1.number = o2.number => o1 = o2
      BY DEF Inv, Typed, TypedProcess, TypedExchange, Numbered, OpenOrders
    <2>5. checkpoint.orders \in SUBSET CheckpointOrder /\ Distinct(checkpoint.orders)
      BY <2>4 DEF Row
    <2>6. OrdersMatch(checkpoint.orders, OpenOrders)
            <=> /\ \A o \in OpenOrders : \E t \in checkpoint.orders : Matches(t, o)
                /\ \A t \in checkpoint.orders : \E o \in OpenOrders : Matches(t, o)
      BY <2>4, <2>5, OrdersMatchWhen
    <2>7. PositionsMatch(checkpoint, PositionRows)
            <=> /\ held = (IF checkpoint.position = None THEN 0 ELSE checkpoint.position)
                /\ checkpoint.position # 0
      BY <2>4, PositionsMatchWhen
    <2>8. Agreed <=> TellsExchange(checkpoint) /\ checkpoint.position # 0
      BY <2>3, <2>6, <2>7 DEF Agreed, TellsExchange
    <2> QED
      BY <2>2, <2>8
  <1> QED
    BY AlwaysInv, AlwaysReadTrue, <1>1, PTL DEF Spec, RestartJudged

=============================================================================
