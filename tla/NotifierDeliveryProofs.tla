----------------------- MODULE NotifierDeliveryProofs -----------------------
(***************************************************************************)
(* What NotifierDelivery promises, for any number of updates and rows,     *)
(* batches and windows of any size, faults and restarts: no command is     *)
(* forgotten unhandled, none is handled twice by one process, the audit    *)
(* trail brackets every transfer, and what the trader wrote is told once   *)
(* for each reason the notifier has to tell it.                            *)
(*                                                                         *)
(* The commands come first; for them a flush is any step that leaves them  *)
(* alone.  What the flushes tell is computed by folds: OnlyIs and LatestIs *)
(* say what those return, and the rest follows from what is on record.     *)
(***************************************************************************)
EXTENDS NotifierDelivery, FoldFacts, FiniteSetTheorems, SequenceTheorems, TLAPS

Arrived == 1 .. Len(telegram.updates)
Command(u) == telegram.updates[u] \in {"query", "transfer"}
IsHandled(u) == Command(u) => handled[u] > 0

\* The part of the state that commands are about.
Shaped ==
    /\ telegram \in [updates: Seq({"query", "transfer", "foreign", "unusable"}), forgotten: Nat]
    /\ telegram.forgotten \in 0 .. Len(telegram.updates)
    /\ offset = None \/ offset \in 1 .. Len(telegram.updates) + 1
    /\ batch \subseteq Arrived
    /\ handled \in [Update -> Nat]
    /\ Len(telegram.updates) <= MaxInputs

\* What was forgotten, or passed by the offset, was handled.
Past ==
    /\ \A u \in Arrived : u <= telegram.forgotten => IsHandled(u)
    /\ offset # None => \A u \in Arrived : u < offset => IsHandled(u)

\* A batch leaves out no command, and the process handled what lies before it.
Ahead ==
    /\ \A b \in batch : \A u \in Arrived : u < b => u \in batch \/ IsHandled(u)
    /\ \A b \in batch : Usable(b)

\* A process that is up has moved its offset past what it handled, and what is
\* left of the batch lies at or behind the offset.
Once ==
    /\ fresh \subseteq Update
    /\ pc = "down" => batch = {} /\ offset = None
    /\ pc # "down" => \A u \in fresh : offset # None /\ u < offset
    /\ offset # None => \A b \in batch : offset <= b

\* The loop asks for updates only when it is through with the last batch.
Staged == batch # {} => pc \in {"commands", "transfer", "confirm"}

\* The tables the trader writes, and the audit rows of the commands.
Audit == [type: ManualTypes, detail: {""}, update: Update]
Recorded ==
    /\ DOMAIN history = {"db", "own", "disabled"} /\ DOMAIN history.db = Table
    /\ history.db["orders"] \in Seq(OrderRows)
    /\ history.db["positions"] \in Seq(PositionRows)
    /\ history.db["execution_checkpoints"] \in Seq(CheckpointRows)
    /\ history.db["risk_events"] \in Seq(RiskRows \union Audit)

Commands == Shaped /\ Past /\ Ahead /\ Once /\ Staged

-----------------------------------------------------------------------------
LEMMA NoneIsNoNumber == None \notin Nat
  BY NotifierConstants

LEMMA InitCommands == Init => Commands
  <1> SUFFICES ASSUME Init PROVE Commands
    OBVIOUS
  <1>1. telegram.updates = <<>> /\ telegram.forgotten = 0 /\ Len(telegram.updates) = 0
    BY DEF Init
  <1>2. MaxInputs \in Nat
    BY NotifierConstants
  <1>3. handled \in [Update -> Nat]
    BY DEF Init
  <1>4. Shaped
    BY <1>1, <1>2, <1>3 DEF Init, Shaped, Arrived
  <1>5. Arrived = {}
    BY <1>1 DEF Arrived
  <1> QED
    BY <1>4, <1>5 DEF Init, Commands, Past, Ahead, Once, Staged

LEMMA DiesCommands ==
    ASSUME Commands, NEW h, Dies(h), UNCHANGED <<telegram, handled, fresh>>
    PROVE  Commands'
  BY DEF Commands, Dies, Shaped, Past, Ahead, Once, Staged, Arrived, IsHandled, Command, Usable

\* A step that neither starts nor ends the process, nor takes an update.
LEMMA IdleCommands ==
    ASSUME Commands, UNCHANGED <<batch, offset, telegram, handled, fresh>>,
           pc' = "down" <=> pc = "down",
           batch # {} => pc' \in {"commands", "transfer", "confirm"}
    PROVE  Commands'
  BY DEF Commands, Shaped, Past, Ahead, Once, Staged, Arrived, IsHandled, Command, Usable

-----------------------------------------------------------------------------
(* The history store.                                                      *)

IsHistory(h) == DOMAIN h = {"db", "own", "disabled"} /\ DOMAIN h.db = Table

LEMMA WithRowFacts ==
    ASSUME NEW h, IsHistory(h), NEW table \in Table, NEW row
    PROVE  LET g == WithRow(h, table, row)
           IN  /\ IsHistory(g) /\ g.disabled = h.disabled
               /\ \A t \in Table \ {table} : g.db[t] = h.db[t]
               /\ g.db[table] = IF h.disabled THEN h.db[table] ELSE Append(h.db[table], row)
  BY DEF WithRow, IsHistory

LEMMA WrittenElsewhereFacts ==
    ASSUME NEW h, IsHistory(h), NEW table \in Table, NEW row
    PROVE  LET g == WrittenElsewhere(h, table, row)
           IN  /\ IsHistory(g) /\ g.disabled = h.disabled
               /\ \A t \in Table \ {table} : g.db[t] = h.db[t]
               /\ g.db[table] = Append(h.db[table], row)
  BY DEF WrittenElsewhere, IsHistory

LEMMA ConnectionFacts ==
    ASSUME NEW h, IsHistory(h)
    PROVE  /\ IsHistory(DatabaseLost(h)) /\ DatabaseLost(h).db = h.db
           /\ IsHistory(NewProcess(h)) /\ NewProcess(h).db = h.db
           /\ ~NewProcess(h).disabled
  BY DEF DatabaseLost, NewProcess, IsHistory

-----------------------------------------------------------------------------
(* Each step keeps Commands.                                               *)

LEMMA DeliveryCommands ==
    ASSUME Commands, NEW error, NEW h, DeliveryFails(error, h),
           UNCHANGED <<telegram, handled, fresh>>
    PROVE  Commands'
  <1>1. CASE pc # "proactive"
    BY <1>1, IdleCommands DEF DeliveryFails, Commands, Staged
  <1>2. CASE pc = "proactive" /\ error \in {"timeout", "lost"}
    BY <1>2, IdleCommands DEF DeliveryFails, Commands, Staged
  <1>3. CASE pc = "proactive" /\ error \notin {"timeout", "lost"}
    BY <1>3, DiesCommands DEF DeliveryFails
  <1> QED
    BY <1>1, <1>2, <1>3

LEMMA SendCommands ==
    ASSUME Commands, Send
    PROVE  Commands'
  <1>1. CASE SendSucceeds
    BY <1>1, IdleCommands DEF Send, SendSucceeds, Commands, Staged
  <1>2. ASSUME NEW error, SendFails(error)
        PROVE  Commands'
    <2>1. CASE job.attempt < Attempts(job.severity)
      BY <1>2, <2>1, IdleCommands DEF Send, SendFails, Commands, Staged
    <2>2. CASE ~(job.attempt < Attempts(job.severity))
      BY <1>2, <2>2, DeliveryCommands DEF Send, SendFails
    <2> QED
      BY <2>1, <2>2
  <1> QED
    BY <1>1, <1>2 DEF Send

\* Telegram forgets what the offset of the request has passed, and no more.
LEMMA AsksPast ==
    ASSUME Commands, Asks, UNCHANGED <<offset, handled>>
    PROVE  /\ Forgotten \in 0 .. Len(telegram.updates)
           /\ telegram'.updates = telegram.updates /\ telegram'.forgotten = Forgotten
           /\ \A u \in Arrived : u <= Forgotten => IsHandled(u)
           /\ offset # None => offset <= Forgotten + 1
  <1>1. telegram.forgotten \in 0 .. Len(telegram.updates) /\ Len(telegram.updates) \in Nat
    BY DEF Commands, Shaped
  <1>2. CASE offset = None
    BY <1>1, <1>2 DEF Asks, Forgotten, Commands, Shaped, Past
  <1>3. CASE offset # None
    <2>1. offset \in 1 .. Len(telegram.updates) + 1
      BY <1>3 DEF Commands, Shaped
    <2>2. Forgotten = IF offset - 1 <= telegram.forgotten THEN telegram.forgotten ELSE offset - 1
      BY <1>1, <1>3, <2>1 DEF Forgotten, Max
    <2>3. \A u \in Arrived : u <= Forgotten => IsHandled(u)
      BY <1>1, <1>3, <2>1, <2>2 DEF Commands, Past, Arrived
    <2> QED
      BY <1>1, <2>1, <2>2, <2>3 DEF Asks, Commands, Shaped
  <1> QED
    BY <1>2, <1>3

LEMMA FetchCommands ==
    ASSUME Commands, FetchUpdates
    PROVE  Commands'
  <1>1. /\ Forgotten \in 0 .. Len(telegram.updates)
        /\ telegram'.updates = telegram.updates /\ telegram'.forgotten = Forgotten
        /\ \A u \in Arrived : u <= Forgotten => IsHandled(u)
        /\ offset # None => offset <= Forgotten + 1
    BY AsksPast DEF FetchUpdates
  <1>2. Arrived' = Arrived /\ \A u \in Arrived : IsHandled(u)' <=> IsHandled(u)
    BY <1>1 DEF FetchUpdates, Arrived, IsHandled, Command
  <1>3. batch' = {u \in Arrived : Forgotten < u /\ u <= Forgotten + FetchLimit /\ Usable(u)}
    BY DEF FetchUpdates, Batch, Arrived, Commands, Shaped
  <1>4. Shaped'
    BY <1>1, <1>2, <1>3 DEF Commands, Shaped, FetchUpdates, Asks
  <1>5. Past'
    BY <1>1, <1>2 DEF Commands, Past, FetchUpdates
  <1>6. Ahead'
    <2>1. ASSUME NEW b \in batch', NEW u \in Arrived, u < b
          PROVE  u \in batch' \/ IsHandled(u)
      <3>1. CASE u <= Forgotten
        BY <1>1, <3>1
      <3>2. CASE ~(u <= Forgotten)
        <4>1. b \in Arrived /\ b <= Forgotten + FetchLimit
          BY <1>3
        <4>2. u \in Nat /\ b \in Nat /\ Forgotten \in Nat /\ FetchLimit \in Nat
          BY <1>1, <4>1, NotifierConstants DEF Arrived
        <4>3. Forgotten < u /\ u <= Forgotten + FetchLimit
          BY <2>1, <3>2, <4>1, <4>2
        <4>4. Usable(u) \/ IsHandled(u)
          BY DEF Usable, IsHandled, Command
        <4> QED
          BY <1>3, <4>3, <4>4
      <3> QED
        BY <3>1, <3>2
    <2>2. \A b \in batch' : Usable(b)'
      BY <1>1, <1>3 DEF Usable
    <2> QED
      BY <1>2, <2>1, <2>2 DEF Ahead
  <1>7. Once'
    <2>1. offset # None => offset \in Nat
      BY DEF Commands, Shaped
    <2>2. offset # None => \A b \in batch' : offset <= b
      BY <1>1, <1>3, <2>1 DEF Arrived
    <2> QED
      BY <2>2 DEF Commands, Once, FetchUpdates, Asks
  <1>8. Staged'
    BY DEF Staged, FetchUpdates
  <1> QED
    BY <1>4, <1>5, <1>6, <1>7, <1>8 DEF Commands

LEMMA FetchFailsCommands ==
    ASSUME Commands, FetchFails
    PROVE  Commands'
  <1>1. batch = {}
    BY DEF FetchFails, Commands, Staged
  <1>2. UNCHANGED <<handled, fresh>>
    BY DEF FetchFails
  <1>3. ASSUME UNCHANGED telegram
        PROVE  Commands'
    <2>1. CASE pc' = "commands" /\ UNCHANGED <<job, batch, todo, offset, current, history>>
      BY <1>1, <1>2, <1>3, <2>1, IdleCommands DEF FetchFails
    <2>2. CASE Dies(history)
      BY <1>2, <1>3, <2>2, DiesCommands
    <2> QED
      BY <2>1, <2>2 DEF FetchFails
  <1>4. ASSUME Asks, pc' = "commands", UNCHANGED <<batch, offset>>
        PROVE  Commands'
    <2>1. /\ Forgotten \in 0 .. Len(telegram.updates)
          /\ telegram'.updates = telegram.updates /\ telegram'.forgotten = Forgotten
          /\ \A u \in Arrived : u <= Forgotten => IsHandled(u)
      BY <1>2, <1>4, AsksPast
    <2>2. Arrived' = Arrived /\ \A u \in Arrived : IsHandled(u)' <=> IsHandled(u)
      BY <1>2, <2>1 DEF Arrived, IsHandled, Command
    <2>3. Shaped'
      BY <1>2, <1>4, <2>1, <2>2 DEF Commands, Shaped, Asks
    <2>4. Past'
      BY <1>4, <2>1, <2>2 DEF Commands, Past
    <2> QED
      BY <1>1, <1>2, <1>4, <2>3, <2>4 DEF Commands, Ahead, Once, Staged, Asks
  <1>5. PICK error \in {"timeout", "lost", "refused"} :
          /\ IF error = "lost" THEN Asks ELSE UNCHANGED telegram
          /\ \/ pc' = "commands" /\ UNCHANGED <<job, batch, todo, offset, current, history>>
             \/ error = "refused" /\ Dies(history)
    BY DEF FetchFails
  <1> QED
    BY <1>3, <1>4, <1>5

LEMMA HandleCommands ==
    ASSUME Commands, NEW u \in Update, HandleUpdate(u)
    PROVE  Commands'
  <1>1. u \in batch /\ u \in Arrived /\ u \in Nat /\ \A v \in batch : u <= v
    <2>1. IsNext(u)
      BY DEF HandleUpdate
    <2>2. batch \subseteq Arrived
      BY DEF Commands, Shaped
    <2> QED
      BY <2>1, <2>2 DEF IsNext, Update
  <1>2. offset' = u + 1 /\ batch' = batch \ {u} /\ telegram' = telegram
    BY DEF HandleUpdate, NextOffset
  <1>3. /\ Command(u) => handled' = [handled EXCEPT ![u] = @ + 1] /\ fresh' = fresh \union {u}
        /\ ~Command(u) => UNCHANGED <<handled, fresh>>
    BY DEF HandleUpdate, Handles, Command
  <1>4. handled \in [Update -> Nat] /\ Arrived \subseteq Update
    BY NotifierConstants DEF Commands, Shaped, Arrived, Update
  <1>5. Arrived' = Arrived /\ \A v \in Arrived : IsHandled(v) => IsHandled(v)'
    BY <1>2, <1>3, <1>4 DEF Arrived, IsHandled, Command
  <1>6. IsHandled(u)'
    BY <1>1, <1>2, <1>3, <1>4 DEF IsHandled, Command
  <1>7. handled' \in [Update -> Nat]
    BY <1>3, <1>4
  <1>8. \A v \in Arrived : v < u => IsHandled(v)
    <2> TAKE v \in Arrived
    <2> HAVE v < u
    <2>1. v \notin batch
      BY <1>1 DEF Arrived
    <2> QED
      BY <1>1, <2>1 DEF Commands, Ahead
  <1>9. Shaped'
    BY <1>1, <1>2, <1>5, <1>7 DEF Commands, Shaped, Arrived
  <1>10. Past'
    <2>1. \A v \in Arrived : v < u + 1 => IsHandled(v)'
      <3> TAKE v \in Arrived
      <3> HAVE v < u + 1
      <3>1. v = u \/ v < u
        BY <1>1 DEF Arrived
      <3> QED
        BY <1>5, <1>6, <1>8, <3>1
    <2> QED
      BY <1>2, <1>5, <2>1 DEF Commands, Past
  <1>11. Ahead'
    <2>1. ASSUME NEW b \in batch', NEW v \in Arrived, v < b
          PROVE  v \in batch' \/ IsHandled(v)'
      BY <1>2, <1>5, <1>6, <2>1 DEF Commands, Ahead
    <2> QED
      BY <1>2, <1>5, <2>1 DEF Commands, Ahead, Usable
  <1>12. Once'
    <2>1. pc = "commands" /\ pc' # "down"
      BY DEF HandleUpdate
    <2>2. fresh' \subseteq Update
      BY <1>3 DEF Commands, Once
    <2>3. \A v \in fresh' : v < u + 1
      <3>1. \A v \in fresh : offset # None /\ v < offset /\ offset <= u
        BY <1>1, <2>1 DEF Commands, Once
      <3>2. offset # None => offset \in Nat
        BY DEF Commands, Shaped
      <3>3. \A v \in fresh : v \in Nat
        BY DEF Commands, Once, Update
      <3>4. \A v \in fresh : v < u + 1
        BY <1>1, <3>1, <3>2, <3>3
      <3> QED
        BY <1>1, <1>3, <3>4
    <2>4. \A b \in batch' : u + 1 <= b
      BY <1>1, <1>2 DEF Commands, Shaped, Arrived
    <2>5. u + 1 # None
      BY <1>1, NoneIsNoNumber
    <2> QED
      BY <1>2, <2>1, <2>2, <2>3, <2>4, <2>5 DEF Once
  <1>13. Staged'
    BY DEF HandleUpdate, Staged
  <1> QED
    BY <1>9, <1>10, <1>11, <1>12, <1>13 DEF Commands

\* The counted rows of a table are a number, so that inputs are bounded.
LEMMA InputsBound ==
    ASSUME Commands, Recorded, MoreInputs
    PROVE  Len(telegram.updates) < MaxInputs
  <1>1. ASSUME NEW table \in DOMAIN TraderRows
        PROVE  TraderWrote(table) \in Nat
    <2> DEFINE rows == history.db[table]
    <2>1. \E S : rows \in Seq(S)
      BY DEF Recorded, TraderRows
    <2>2. DOMAIN rows = 1 .. Len(rows) /\ Len(rows) \in Nat
      BY <2>1
    <2>3. IsFiniteSet(DOMAIN rows)
      BY <2>2, FS_Interval
    <2>4. IsFiniteSet({i \in DOMAIN rows : rows[i] \in TraderRows[table]})
      BY <2>3, FS_Subset
    <2> QED
      BY <2>4, FS_CardinalityType DEF TraderWrote
  <1>2. {"orders", "positions", "execution_checkpoints", "risk_events"} = DOMAIN TraderRows
    BY DEF TraderRows
  <1>3. Len(telegram.updates) \in Nat /\ MaxInputs \in Nat
    BY NotifierConstants DEF Commands, Shaped
  <1> QED
    BY <1>1, <1>2, <1>3 DEF MoreInputs, Inputs

LEMMA ArrivesCommands ==
    ASSUME Commands, Recorded, UpdateArrives
    PROVE  Commands'
  <1>1. PICK kind \in UpdateKinds : telegram' = [telegram EXCEPT !.updates = Append(@, kind)]
    BY DEF UpdateArrives
  <1>2. kind \in {"query", "transfer", "foreign", "unusable"}
    BY NotifierConstants
  <1>3. batch = {} /\ UNCHANGED <<pc, batch, offset, handled, fresh>>
    BY DEF UpdateArrives, Commands, Staged
  <1> DEFINE n == Len(telegram.updates)
  <1>4. n \in Nat /\ n < MaxInputs
    BY InputsBound DEF UpdateArrives, Commands, Shaped
  <1>5. /\ telegram'.updates = Append(telegram.updates, kind)
        /\ telegram'.forgotten = telegram.forgotten
        /\ telegram.updates \in Seq({"query", "transfer", "foreign", "unusable"})
    BY <1>1 DEF Commands, Shaped
  <1>6. /\ telegram' \in [updates: Seq({"query", "transfer", "foreign", "unusable"}), forgotten: Nat]
        /\ Len(telegram'.updates) = n + 1
        /\ \A u \in 1 .. n : telegram'.updates[u] = telegram.updates[u]
    <2>1. Append(telegram.updates, kind) \in Seq({"query", "transfer", "foreign", "unusable"})
      BY <1>2, <1>5
    <2>2. /\ Len(Append(telegram.updates, kind)) = n + 1
          /\ \A u \in 1 .. n : Append(telegram.updates, kind)[u] = telegram.updates[u]
      BY <1>2, <1>5
    <2> QED
      BY <1>1, <1>5, <2>1, <2>2 DEF Commands, Shaped
  <1>7. Shaped'
    <2>1. MaxInputs \in Nat
      BY NotifierConstants
    <2> QED
      BY <1>3, <1>4, <1>5, <1>6, <2>1 DEF Commands, Shaped, Arrived
  <1>8. \A u \in Arrived : IsHandled(u)' <=> IsHandled(u)
    BY <1>3, <1>6 DEF Arrived, IsHandled, Command
  <1>9. Past'
    <2>1. telegram.forgotten \in 0 .. n /\ (offset # None => offset \in 1 .. n + 1)
      BY DEF Commands, Shaped
    <2>2. Arrived' = Arrived \union {n + 1}
      BY <1>4, <1>6 DEF Arrived
    <2> QED
      BY <1>3, <1>4, <1>5, <1>8, <2>1, <2>2 DEF Commands, Past
  <1> QED
    BY <1>3, <1>7, <1>9 DEF Commands, Ahead, Once, Staged

LEMMA NextCommands ==
    ASSUME Commands, Recorded, [Next]_vars
    PROVE  Commands'
  <1>1. CASE Send
    BY <1>1, SendCommands
  <1>2. CASE FetchUpdates
    BY <1>2, FetchCommands
  <1>3. CASE FetchFails
    BY <1>3, FetchFailsCommands
  <1>4. CASE \E u \in Update : HandleUpdate(u)
    BY <1>4, HandleCommands
  <1>5. CASE TransferFunds
    BY <1>5, IdleCommands DEF TransferFunds, TransferRefused, TransferAnswered
  <1>6. CASE ConfirmTransfer
    BY <1>6, IdleCommands DEF ConfirmTransfer, TransferAnswered
  <1>7. CASE BeginProactiveFlush
    BY <1>7, IdleCommands DEF BeginProactiveFlush
  <1>8. CASE TellCandidate
    BY <1>8, IdleCommands DEF TellCandidate, Commands, Staged
  <1>9. CASE BeginPendingFlush
    BY <1>9, IdleCommands DEF BeginPendingFlush, Commands, Staged
  <1>10. CASE RetryPending
    BY <1>10, IdleCommands DEF RetryPending, Commands, Staged
  <1>11. CASE PollAgain
    BY <1>11, IdleCommands DEF PollAgain, Commands, Staged
  <1>12. CASE StartProcess
    BY <1>12 DEF StartProcess, Commands, Shaped, Past, Ahead, Once, Staged, Arrived, IsHandled,
                 Command, Usable
  <1>13. CASE Killed
    BY <1>13, DiesCommands DEF Killed
  <1>14. CASE DatabaseFails
    BY <1>14, IdleCommands DEF DatabaseFails, Commands, Staged
  <1>15. CASE TraderWrites
    BY <1>15, IdleCommands DEF TraderWrites
  <1>16. CASE UpdateArrives
    BY <1>16, ArrivesCommands
  <1>17. CASE UNCHANGED vars
    BY <1>17, IdleCommands DEF vars, Commands, Staged
  <1> QED
    BY <1>1, <1>2, <1>3, <1>4, <1>5, <1>6, <1>7, <1>8, <1>9, <1>10, <1>11, <1>12, <1>13,
       <1>14, <1>15, <1>16, <1>17 DEF Next, Loop

-----------------------------------------------------------------------------
(* The audit trail.                                                        *)

RiskLog == history.db["risk_events"]

\* 1 while the transfer of update u is at this stage.
At(stage, u) == IF pc = stage /\ current = u THEN 1 ELSE 0

\* The request is audited before the transfer is sent, and the exchange has
\* made it before it is confirmed: the transfer under way counts on both sides.
Bracketed ==
    /\ okx \in [Update -> Nat]
    /\ faults \in [count: Nat, unanswered: Nat, sql: Nat]
    /\ pc \in {"transfer", "confirm"} => current \in Update
    /\ faults.sql = 0 =>
         /\ ~history.disabled
         /\ \A u \in Update :
              okx[u] + At("transfer", u) <= Audited("manual_funds_requested", u)
         /\ \A u \in Update :
              Audited("manual_funds_transfer_submitted", u) + At("confirm", u) <= okx[u]

SameTables ==
    /\ IsHistory(history)'
    /\ \A t \in DOMAIN TraderRows : history'.db[t] = history.db[t]

LEMMA AuditedAppend ==
    ASSUME NEW S, NEW log \in Seq(S), NEW row \in S, NEW type, NEW u
    PROVE  /\ AuditedIn(log, type, u) \in Nat
           /\ AuditedIn(Append(log, row), type, u)
                = AuditedIn(log, type, u) + (IF Audits(row, type, u) THEN 1 ELSE 0)
  <1> DEFINE n == Len(log)
             more == Append(log, row)
             before == {i \in DOMAIN log : Audits(log[i], type, u)}
             after == {i \in DOMAIN more : Audits(more[i], type, u)}
  <1>1. n \in Nat /\ DOMAIN log = 1 .. n /\ DOMAIN more = 1 .. n + 1
    OBVIOUS
  <1>2. more[n + 1] = row /\ \A i \in 1 .. n : more[i] = log[i]
    OBVIOUS
  <1>3. IsFiniteSet(before) /\ n + 1 \notin before
    <2>1. IsFiniteSet(1 .. n)
      BY <1>1, FS_Interval
    <2>2. IsFiniteSet(before)
      BY <1>1, <2>1, FS_Subset
    <2>3. n + 1 \notin before
      BY <1>1
    <2> QED
      BY <2>2, <2>3
  <1>4. after = IF Audits(row, type, u) THEN before \union {n + 1} ELSE before
    <2> HIDE DEF more, n
    <2> QED
      BY <1>1, <1>2
  <1>5. Cardinality(before) \in Nat
    BY <1>3, FS_CardinalityType
  <1>6. AuditedIn(log, type, u) = Cardinality(before) /\ AuditedIn(more, type, u) = Cardinality(after)
    BY DEF AuditedIn
  <1>7. Cardinality(after) = Cardinality(before) + (IF Audits(row, type, u) THEN 1 ELSE 0)
    <2>1. Cardinality(before \union {n + 1}) = Cardinality(before) + 1
      BY <1>3, FS_AddElement
    <2> HIDE DEF before, after
    <2> QED
      BY <1>4, <1>5, <2>1
  <1> QED
    BY <1>5, <1>6, <1>7

LEMMA AuditedNat ==
    ASSUME Recorded
    PROVE  \A type, u : Audited(type, u) \in Nat
  <1> SUFFICES ASSUME NEW type, NEW u PROVE Audited(type, u) \in Nat
    OBVIOUS
  <1>1. CASE RiskLog = <<>>
    <2>1. {i \in DOMAIN RiskLog : Audits(RiskLog[i], type, u)} = {}
      BY <1>1
    <2> QED
      BY <2>1, FS_EmptySet DEF Audited, AuditedIn, RiskLog
  <1>2. CASE RiskLog # <<>>
    <2>1. RiskLog \in Seq(RiskRows \union Audit) /\ RiskLog[1] \in RiskRows \union Audit
      BY <1>2 DEF Recorded, RiskLog
    <2> QED
      BY <2>1, AuditedAppend DEF Audited, RiskLog
  <1> QED
    BY <1>1, <1>2

LEMMA FaultFacts ==
    ASSUME NEW kind, Fault(kind), faults \in [count: Nat, unanswered: Nat, sql: Nat]
    PROVE  /\ faults' \in [count: Nat, unanswered: Nat, sql: Nat]
           /\ faults'.sql = 0 => faults.sql = 0 /\ kind # "sql"
  BY DEF Fault

\* A step that audits nothing and lets no transfer begin or end.
LEMMA QuietBracketed ==
    ASSUME Bracketed, Recorded, SameTables, okx' = okx,
           faults' \in [count: Nat, unanswered: Nat, sql: Nat],
           faults'.sql = 0 => faults.sql = 0 /\ ~history'.disabled,
           pc' \in {"transfer", "confirm"} => UNCHANGED <<pc, current>>
    PROVE  Bracketed'
  <1>1. \A type, u : Audited(type, u)' = Audited(type, u)
    BY DEF SameTables, Audited, TraderRows
  <1>2. \A type, u : Audited(type, u) \in Int
    BY AuditedNat
  <1>3. \A stage \in {"transfer", "confirm"}, u \in Update :
          At(stage, u) \in Nat /\ At(stage, u)' \in Nat /\ At(stage, u)' <= At(stage, u)
    BY DEF At
  <1>4. ASSUME NEW u \in Update, faults'.sql = 0
        PROVE  /\ (okx[u] + At("transfer", u) <= Audited("manual_funds_requested", u))'
               /\ (Audited("manual_funds_transfer_submitted", u) + At("confirm", u) <= okx[u])'
    <2>1. okx[u] \in Nat /\ okx'[u] = okx[u]
      BY DEF Bracketed
    <2>2. /\ okx[u] + At("transfer", u) <= Audited("manual_funds_requested", u)
          /\ Audited("manual_funds_transfer_submitted", u) + At("confirm", u) <= okx[u]
      BY <1>4 DEF Bracketed
    <2> QED
      BY <1>1, <1>2, <1>3, <2>1, <2>2
  <1> QED
    BY <1>4 DEF Bracketed

Trail == Recorded /\ Bracketed

LEMMA QuietTrail ==
    ASSUME Trail, SameTables, okx' = okx,
           faults' \in [count: Nat, unanswered: Nat, sql: Nat],
           faults'.sql = 0 => faults.sql = 0 /\ ~history'.disabled,
           pc' \in {"transfer", "confirm"} => UNCHANGED <<pc, current>>
    PROVE  Trail'
  <1>1. Bracketed'
    BY QuietBracketed DEF Trail
  <1>2. Recorded'
    BY DEF Trail, Recorded, SameTables, IsHistory, TraderRows
  <1> QED
    BY <1>1, <1>2 DEF Trail

\* A history with the same tables for the trader's rows and for the audit.
Alike(h) ==
    /\ IsHistory(h) /\ h.disabled = history.disabled
    /\ \A t \in DOMAIN TraderRows : h.db[t] = history.db[t]

LEMMA AlikeFacts ==
    ASSUME Trail
    PROVE  /\ Alike(history)
           /\ \A row : Alike(WithRow(history, "notification_events", row))
           /\ \A h : Alike(h) /\ history' = h => SameTables /\ history'.disabled = history.disabled
           /\ \A h : Alike(h) /\ history' = NewProcess(h) => SameTables /\ ~history'.disabled
  <1>1. Alike(history)
    BY DEF Trail, Recorded, Alike, IsHistory
  <1>2. ASSUME NEW row
        PROVE  Alike(WithRow(history, "notification_events", row))
    <2>1. IsHistory(history) /\ "notification_events" \in Table
      BY DEF Trail, Recorded, IsHistory, Table
    <2>2. DOMAIN TraderRows \subseteq Table \ {"notification_events"}
      BY DEF TraderRows, Table
    <2> QED
      BY <2>1, <2>2, WithRowFacts DEF Alike
  <1>3. ASSUME NEW h, Alike(h)
        PROVE  /\ history' = h => SameTables /\ history'.disabled = history.disabled
               /\ history' = NewProcess(h) => SameTables /\ ~history'.disabled
    BY <1>3, ConnectionFacts DEF Alike, SameTables, IsHistory
  <1> QED
    BY <1>1, <1>2, <1>3

\* Steps that change neither the tables nor the number of SQL errors.
LEMMA IdleTrail ==
    ASSUME Trail, NEW h, Alike(h), history' = h, okx' = okx, faults' = faults,
           pc' \in {"transfer", "confirm"} => UNCHANGED <<pc, current>>
    PROVE  Trail'
  BY AlikeFacts, QuietTrail DEF Trail, Bracketed

\* The same after a fault that is not one of the database.
LEMMA FaultTrail ==
    ASSUME Trail, NEW h, Alike(h), history' = h \/ history' = NewProcess(h), okx' = okx,
           NEW kind, Fault(kind),
           pc' \in {"transfer", "confirm"} => UNCHANGED <<pc, current>>
    PROVE  Trail'
  <1>1. faults' \in [count: Nat, unanswered: Nat, sql: Nat] /\ (faults'.sql = 0 => faults.sql = 0)
    BY FaultFacts DEF Trail, Bracketed
  <1>2. SameTables /\ (history'.disabled => history.disabled)
    BY AlikeFacts
  <1>3. faults.sql = 0 => ~history.disabled
    BY DEF Trail, Bracketed
  <1> QED
    BY <1>1, <1>2, <1>3, QuietTrail

LEMMA SendTrail ==
    ASSUME Trail, Send
    PROVE  Trail'
  <1>1. okx' = okx
    BY DEF Send
  <1>2. CASE SendSucceeds
    BY <1>1, <1>2, AlikeFacts, IdleTrail DEF SendSucceeds
  <1>3. ASSUME NEW error, SendFails(error)
        PROVE  Trail'
    <2>1. CASE job.attempt < Attempts(job.severity)
      BY <1>1, <1>3, <2>1, AlikeFacts, FaultTrail DEF SendFails
    <2>2. CASE ~(job.attempt < Attempts(job.severity))
      <3> DEFINE h == WithRow(history, "notification_events", Notification(job, "failed"))
      <3>1. Alike(h)
        BY AlikeFacts
      <3>2. Fault(error) /\ DeliveryFails(error, h)
        BY <1>3, <2>2 DEF SendFails
      <3> HIDE DEF h
      <3>3. /\ history' = h \/ history' = NewProcess(h)
            /\ pc' \in {"transfer", "confirm"} => UNCHANGED <<pc, current>>
        BY <3>2 DEF DeliveryFails, Dies
      <3> QED
        BY <1>1, <3>1, <3>2, <3>3, FaultTrail
    <2> QED
      BY <2>1, <2>2
  <1> QED
    BY <1>2, <1>3 DEF Send

LEMMA FetchFailsTrail ==
    ASSUME Trail, FetchFails
    PROVE  Trail'
  <1>1. okx' = okx
    BY DEF FetchFails
  <1>2. \E error : Fault(error)
    BY DEF FetchFails
  <1>3. history' = history \/ history' = NewProcess(history)
    BY DEF FetchFails, Dies
  <1>4. pc' \notin {"transfer", "confirm"}
    BY DEF FetchFails, Dies
  <1> QED
    BY <1>1, <1>2, <1>3, <1>4, AlikeFacts, FaultTrail

LEMMA RiskRowWritten ==
    ASSUME Trail, NEW row \in RiskRows \union Audit,
           IsHistory(history'), history'.disabled = history.disabled,
           \A t \in Table \ {"risk_events"} : history'.db[t] = history.db[t],
           history'.db["risk_events"] = IF history.disabled THEN history.db["risk_events"]
                                        ELSE Append(history.db["risk_events"], row)
    PROVE  /\ Recorded'
           /\ ~history.disabled =>
                \A type, u : Audited(type, u)' =
                    Audited(type, u) + (IF Audits(row, type, u) THEN 1 ELSE 0)
  <1>1. history.db["risk_events"] \in Seq(RiskRows \union Audit)
    BY DEF Trail, Recorded
  <1>2. Recorded'
    <2>1. history'.db["risk_events"] \in Seq(RiskRows \union Audit)
      BY <1>1
    <2>2. {"orders", "positions", "execution_checkpoints"} \subseteq Table \ {"risk_events"}
      BY DEF Table
    <2> QED
      BY <2>1, <2>2 DEF Trail, Recorded, IsHistory
  <1>3. ASSUME ~history.disabled, NEW type, NEW u
        PROVE  Audited(type, u)' = Audited(type, u) + (IF Audits(row, type, u) THEN 1 ELSE 0)
    BY <1>1, <1>3, AuditedAppend DEF Audited
  <1> QED
    BY <1>2, <1>3

\* An audit row is one more entry of its type and update, and of no other.
LEMMA AuditRow ==
    ASSUME Trail, NEW row \in Audit, history' = WithRow(history, "risk_events", row)
    PROVE  /\ Recorded'
           /\ history'.disabled = history.disabled
           /\ ~history.disabled =>
                \A type, u : Audited(type, u)' =
                    Audited(type, u) + (IF type = row.type /\ u = row.update THEN 1 ELSE 0)
  <1>1. IsHistory(history) /\ "risk_events" \in Table
    BY DEF Trail, Recorded, IsHistory, Table
  <1>2. /\ IsHistory(history') /\ history'.disabled = history.disabled
        /\ \A t \in Table \ {"risk_events"} : history'.db[t] = history.db[t]
        /\ history'.db["risk_events"] = IF history.disabled THEN history.db["risk_events"]
                                        ELSE Append(history.db["risk_events"], row)
    BY <1>1, WithRowFacts
  <1>3. \A type, u : Audits(row, type, u) <=> (type = row.type /\ u = row.update)
    BY DEF Audits, Audit
  <1> QED
    BY <1>2, <1>3, RiskRowWritten

LEMMA HandleTrail ==
    ASSUME Trail, NEW u \in Update, HandleUpdate(u)
    PROVE  Trail'
  <1>1. pc = "commands" /\ okx' = okx /\ faults' = faults
    BY DEF HandleUpdate
  <1>2. CASE telegram.updates[u] # "transfer"
    BY <1>1, <1>2, AlikeFacts, IdleTrail DEF HandleUpdate
  <1>3. CASE telegram.updates[u] = "transfer"
    <2>1. /\ history' = WithRow(history, "risk_events",
                [type |-> "manual_funds_requested", detail |-> "", update |-> u])
          /\ pc' = "transfer" /\ current' = u
      BY <1>3 DEF HandleUpdate
    <2>2. /\ Recorded' /\ history'.disabled = history.disabled
          /\ ~history.disabled =>
               \A other, v : Audited(other, v)' =
                   Audited(other, v) + (IF other = "manual_funds_requested" /\ v = u THEN 1 ELSE 0)
      <3> DEFINE row == [type |-> "manual_funds_requested", detail |-> "", update |-> u]
      <3>1. row \in Audit /\ row.type = "manual_funds_requested" /\ row.update = u
        BY DEF Audit, ManualTypes
      <3>2. history' = WithRow(history, "risk_events", row)
        BY <2>1
      <3> HIDE DEF row
      <3> QED
        BY <3>1, <3>2, AuditRow
    <2>3. \A other, v : Audited(other, v) \in Nat
      BY AuditedNat DEF Trail
    <2>4. ASSUME faults.sql = 0, NEW v \in Update
          PROVE  /\ (okx[v] + At("transfer", v) <= Audited("manual_funds_requested", v))'
                 /\ (Audited("manual_funds_transfer_submitted", v) + At("confirm", v) <= okx[v])'
      <3>1. /\ okx[v] \in Nat
            /\ okx[v] <= Audited("manual_funds_requested", v)
            /\ Audited("manual_funds_transfer_submitted", v) <= okx[v]
        <4>1. At("transfer", v) = 0 /\ At("confirm", v) = 0
          BY <1>1 DEF At
        <4> QED
          BY <2>3, <2>4, <4>1 DEF Trail, Bracketed
      <3>2. ~history.disabled
        BY <2>4 DEF Trail, Bracketed
      <3>3. /\ At("confirm", v)' = 0 /\ At("transfer", v)' = IF v = u THEN 1 ELSE 0
        BY <2>1 DEF At
      <3>4. /\ Audited("manual_funds_requested", v)'
                 = Audited("manual_funds_requested", v) + (IF v = u THEN 1 ELSE 0)
            /\ Audited("manual_funds_transfer_submitted", v)'
                 = Audited("manual_funds_transfer_submitted", v)
        BY <2>2, <2>3, <3>2
      <3> QED
        BY <1>1, <2>3, <3>1, <3>3, <3>4
    <2>5. Bracketed'
      BY <1>1, <2>1, <2>2, <2>4 DEF Trail, Bracketed
    <2> QED
      BY <2>2, <2>5 DEF Trail
  <1> QED
    BY <1>2, <1>3

\* The exchange made the transfer that was under way: the request covers it.
LEMMA MadeTrail ==
    ASSUME Trail, pc = "transfer", okx' = [okx EXCEPT ![current] = @ + 1],
           pc' \notin {"transfer", "confirm"} \/ (pc' = "confirm" /\ current' = current),
           Recorded', faults' \in [count: Nat, unanswered: Nat, sql: Nat],
           faults'.sql = 0 => faults.sql = 0 /\ ~history'.disabled,
           faults'.sql = 0 =>
              \A u : /\ Audited("manual_funds_requested", u)' = Audited("manual_funds_requested", u)
                     /\ Audited("manual_funds_transfer_submitted", u)'
                          = Audited("manual_funds_transfer_submitted", u)
    PROVE  Trail'
  <1>1. current \in Update /\ okx \in [Update -> Nat]
    BY DEF Trail, Bracketed
  <1>2. okx' \in [Update -> Nat] /\ \A u \in Update : okx'[u] = okx[u] + (IF u = current THEN 1 ELSE 0)
    BY <1>1
  <1>3. \A type, u : Audited(type, u) \in Nat
    BY AuditedNat DEF Trail
  <1>4. ASSUME faults'.sql = 0, NEW u \in Update
        PROVE  /\ (okx[u] + At("transfer", u) <= Audited("manual_funds_requested", u))'
               /\ (Audited("manual_funds_transfer_submitted", u) + At("confirm", u) <= okx[u])'
    <2>1. /\ okx[u] + (IF u = current THEN 1 ELSE 0) <= Audited("manual_funds_requested", u)
          /\ Audited("manual_funds_transfer_submitted", u) <= okx[u]
      <3>1. /\ At("transfer", u) = IF u = current THEN 1 ELSE 0
            /\ At("confirm", u) = 0
        BY DEF At
      <3> QED
        BY <1>1, <1>3, <1>4, <3>1 DEF Trail, Bracketed
    <2>2. At("transfer", u)' = 0
      BY DEF At
    <2>3. At("confirm", u)' = 0 \/ (At("confirm", u)' = 1 /\ u = current)
      BY DEF At
    <2>4. okx[u] \in Nat /\ okx'[u] = okx[u] + (IF u = current THEN 1 ELSE 0)
      BY <1>1, <1>2
    <2>5. /\ Audited("manual_funds_requested", u)' = Audited("manual_funds_requested", u)
          /\ Audited("manual_funds_transfer_submitted", u)'
               = Audited("manual_funds_transfer_submitted", u)
      BY <1>4
    <2> QED
      BY <1>3, <2>1, <2>2, <2>3, <2>4, <2>5
  <1> QED
    BY <1>1, <1>2, <1>4 DEF Trail, Bracketed

\* The audit row of an answered transfer.
LEMMA AnswerRow ==
    ASSUME Trail, pc \in {"transfer", "confirm"}, NEW type \in ManualTypes, NEW next,
           TransferAnswered(type, next)
    PROVE  /\ Recorded' /\ history'.disabled = history.disabled
           /\ ~history.disabled =>
                \A other, u : Audited(other, u)' =
                    Audited(other, u) + (IF other = type /\ u = current THEN 1 ELSE 0)
  <1> DEFINE row == [type |-> type, detail |-> "", update |-> current]
  <1>1. current \in Update /\ type # ""
    BY DEF Trail, Bracketed, ManualTypes
  <1>2. row \in Audit /\ row.type = type /\ row.update = current
    BY <1>1 DEF Audit
  <1>3. history' = WithRow(history, "risk_events", row)
    BY <1>1 DEF TransferAnswered
  <1> HIDE DEF row
  <1> QED
    BY <1>2, <1>3, AuditRow

LEMMA TransferTrail ==
    ASSUME Trail, TransferFunds
    PROVE  Trail'
  <1>1. pc = "transfer"
    BY DEF TransferFunds
  <1>2. faults \in [count: Nat, unanswered: Nat, sql: Nat] /\ (faults.sql = 0 => ~history.disabled)
    BY DEF Trail, Bracketed
  <1>3. \A type, u : Audited(type, u) \in Nat
    BY AuditedNat DEF Trail
  <1>4. CASE /\ TransferAnswered("", "confirm") /\ okx' = [okx EXCEPT ![current] = @ + 1]
             /\ UNCHANGED faults
    <2>1. history' = history /\ pc' = "confirm" /\ current' = current
      BY <1>4 DEF TransferAnswered
    <2>2. Recorded' /\ \A type, u : Audited(type, u)' = Audited(type, u)
      BY <2>1 DEF Trail, Recorded, Audited
    <2> QED
      BY <1>1, <1>2, <1>4, <2>1, <2>2, MadeTrail
  <1>5. ASSUME NEW kind, kind # "sql", Fault(kind),
               TransferAnswered("manual_funds_transfer_failed", "commands")
        PROVE  /\ Recorded' /\ pc' = "commands"
               /\ faults' \in [count: Nat, unanswered: Nat, sql: Nat]
               /\ faults'.sql = 0 => faults.sql = 0 /\ ~history'.disabled
               /\ faults'.sql = 0 =>
                    \A u : /\ Audited("manual_funds_requested", u)'
                               = Audited("manual_funds_requested", u)
                           /\ Audited("manual_funds_transfer_submitted", u)'
                               = Audited("manual_funds_transfer_submitted", u)
    <2>1. pc' = "commands"
      BY <1>5 DEF TransferAnswered
    <2>2. /\ Recorded' /\ history'.disabled = history.disabled
          /\ ~history.disabled =>
               \A other, u : Audited(other, u)' = Audited(other, u)
                   + (IF other = "manual_funds_transfer_failed" /\ u = current THEN 1 ELSE 0)
      BY <1>1, <1>5, AnswerRow DEF ManualTypes
    <2>3. faults' \in [count: Nat, unanswered: Nat, sql: Nat] /\ (faults'.sql = 0 => faults.sql = 0)
      BY <1>2, <1>5, FaultFacts
    <2> QED
      BY <1>2, <1>3, <2>1, <2>2, <2>3
  <1>6. CASE /\ Fault("lost") /\ TransferAnswered("manual_funds_transfer_failed", "commands")
             /\ okx' = [okx EXCEPT ![current] = @ + 1]
    BY <1>1, <1>5, <1>6, MadeTrail
  <1>7. CASE TransferRefused
    <2>1. PICK kind \in {"timeout", "refused"} :
            /\ Fault(kind) /\ TransferAnswered("manual_funds_transfer_failed", "commands")
            /\ UNCHANGED okx
      BY <1>7 DEF TransferRefused
    <2>2. /\ Recorded' /\ pc' = "commands"
          /\ faults' \in [count: Nat, unanswered: Nat, sql: Nat]
          /\ faults'.sql = 0 => faults.sql = 0 /\ ~history'.disabled
          /\ faults'.sql = 0 =>
               \A u : /\ Audited("manual_funds_requested", u)' = Audited("manual_funds_requested", u)
                      /\ Audited("manual_funds_transfer_submitted", u)'
                          = Audited("manual_funds_transfer_submitted", u)
      BY <1>5, <2>1
    <2>3. ASSUME faults'.sql = 0, NEW u \in Update
          PROVE  /\ (okx[u] + At("transfer", u) <= Audited("manual_funds_requested", u))'
                 /\ (Audited("manual_funds_transfer_submitted", u) + At("confirm", u) <= okx[u])'
      <3>1. /\ okx[u] \in Nat /\ At("transfer", u) \in Nat /\ At("confirm", u) \in Nat
            /\ At("transfer", u)' = 0 /\ At("confirm", u)' = 0
        BY <2>2 DEF Trail, Bracketed, At
      <3>2. /\ okx[u] + At("transfer", u) <= Audited("manual_funds_requested", u)
            /\ Audited("manual_funds_transfer_submitted", u) + At("confirm", u) <= okx[u]
        BY <2>2, <2>3 DEF Trail, Bracketed
      <3> QED
        BY <1>3, <2>1, <2>2, <2>3, <3>1, <3>2
    <2>4. okx' \in [Update -> Nat]
      BY <2>1 DEF Trail, Bracketed
    <2> QED
      BY <2>2, <2>3, <2>4 DEF Trail, Bracketed
  <1> QED
    BY <1>4, <1>6, <1>7 DEF TransferFunds

LEMMA ConfirmTrail ==
    ASSUME Trail, ConfirmTransfer
    PROVE  Trail'
  <1>1. /\ pc = "confirm" /\ pc' = "commands" /\ UNCHANGED <<okx, faults>>
        /\ TransferAnswered("manual_funds_transfer_submitted", "commands")
    BY DEF ConfirmTransfer, TransferAnswered
  <1>2. /\ Recorded' /\ history'.disabled = history.disabled
        /\ ~history.disabled =>
             \A other, u : Audited(other, u)' = Audited(other, u)
                 + (IF other = "manual_funds_transfer_submitted" /\ u = current THEN 1 ELSE 0)
    BY <1>1, AnswerRow DEF ManualTypes
  <1>3. \A type, u : Audited(type, u) \in Nat
    BY AuditedNat DEF Trail
  <1>4. ASSUME faults.sql = 0, NEW u \in Update
        PROVE  /\ (okx[u] + At("transfer", u) <= Audited("manual_funds_requested", u))'
               /\ (Audited("manual_funds_transfer_submitted", u) + At("confirm", u) <= okx[u])'
    <2>1. /\ At("transfer", u) = 0 /\ At("confirm", u) = IF u = current THEN 1 ELSE 0
          /\ At("transfer", u)' = 0 /\ At("confirm", u)' = 0
      BY <1>1 DEF At
    <2>2. /\ okx[u] \in Nat /\ ~history.disabled
          /\ okx[u] + At("transfer", u) <= Audited("manual_funds_requested", u)
          /\ Audited("manual_funds_transfer_submitted", u) + At("confirm", u) <= okx[u]
      BY <1>4 DEF Trail, Bracketed
    <2>3. /\ Audited("manual_funds_requested", u)' = Audited("manual_funds_requested", u)
          /\ Audited("manual_funds_transfer_submitted", u)'
               = Audited("manual_funds_transfer_submitted", u) + (IF u = current THEN 1 ELSE 0)
      BY <1>2, <1>3, <2>2
    <2> QED
      BY <1>1, <1>3, <2>1, <2>2, <2>3
  <1> QED
    BY <1>1, <1>2, <1>4 DEF Trail, Bracketed

LEMMA KilledTrail ==
    ASSUME Trail, Killed
    PROVE  Trail'
  <1>1. /\ Fault("kill") /\ pc' = "down" /\ history' = NewProcess(history)
    BY DEF Killed, Dies
  <1>2. SameTables /\ ~history'.disabled
    BY <1>1, AlikeFacts
  <1>3. CASE okx' = okx
    BY <1>1, <1>3, AlikeFacts, FaultTrail
  <1>4. CASE pc = "transfer" /\ okx' = [okx EXCEPT ![current] = @ + 1]
    <2>1. Recorded' /\ \A type, u : Audited(type, u)' = Audited(type, u)
      BY <1>2 DEF Trail, Recorded, SameTables, IsHistory, TraderRows, Audited
    <2>2. faults' \in [count: Nat, unanswered: Nat, sql: Nat] /\ (faults'.sql = 0 => faults.sql = 0)
      BY <1>1, FaultFacts DEF Trail, Bracketed
    <2> QED
      BY <1>1, <1>2, <1>4, <2>1, <2>2, MadeTrail
  <1> QED
    BY <1>3, <1>4 DEF Killed

LEMMA DatabaseTrail ==
    ASSUME Trail, DatabaseFails
    PROVE  Trail'
  <1>1. SameTables
    BY ConnectionFacts DEF DatabaseFails, SameTables, Trail, Recorded, IsHistory
  <1>2. faults' \in [count: Nat, unanswered: Nat, sql: Nat] /\ faults'.sql # 0
    <2>1. Fault("sql")
      BY DEF DatabaseFails
    <2> QED
      BY <2>1, FaultFacts DEF Trail, Bracketed
  <1> QED
    BY <1>1, <1>2, QuietTrail DEF DatabaseFails

\* The trader writes no row of the commands.
LEMMA TraderWritesTrail ==
    ASSUME Trail, TraderWrites
    PROVE  Trail'
  <1>0. PICK table \in DOMAIN TraderRows : \E row \in TraderRows[table] :
          history' = WrittenElsewhere(history, table, row)
    BY DEF TraderWrites
  <1>1. PICK row \in TraderRows[table] : history' = WrittenElsewhere(history, table, row)
    BY <1>0
  <1>2. /\ DOMAIN TraderRows \subseteq Table
        /\ DOMAIN TraderRows = {"orders", "positions", "execution_checkpoints", "risk_events"}
    BY DEF TraderRows, Table
  <1>3. /\ IsHistory(history') /\ history'.disabled = history.disabled
        /\ \A t \in Table \ {table} : history'.db[t] = history.db[t]
        /\ history'.db[table] = Append(history.db[table], row)
    BY <1>1, <1>2, WrittenElsewhereFacts DEF Trail, Recorded, IsHistory
  <1>4. ASSUME table = "risk_events"
        PROVE  Recorded' /\ \A type, u : Audited(type, u)' = Audited(type, u)
    <2>1. row \in RiskRows /\ row.type \notin ManualTypes
      BY <1>4, NotifierConstants DEF TraderRows
    <2>2. history.db["risk_events"] \in Seq(RiskRows \union Audit)
      BY DEF Trail, Recorded
    <2>3. history'.db["risk_events"] = Append(history.db["risk_events"], row)
      BY <1>3, <1>4
    <2>4. ASSUME NEW type, NEW u
          PROVE  Audited(type, u)' = Audited(type, u)
      <3>1. Audited(type, u) \in Nat
        BY AuditedNat DEF Trail
      <3>2. ~Audits(row, type, u)
        BY <2>1 DEF Audits
      <3>3. AuditedIn(Append(history.db["risk_events"], row), type, u)
              = AuditedIn(history.db["risk_events"], type, u)
                + (IF Audits(row, type, u) THEN 1 ELSE 0)
        BY <2>1, <2>2, AuditedAppend
      <3> QED
        BY <2>3, <3>1, <3>2, <3>3 DEF Audited
    <2>5. history'.db["risk_events"] \in Seq(RiskRows \union Audit)
      BY <2>1, <2>2, <2>3
    <2>6. {"orders", "positions", "execution_checkpoints"} \subseteq Table \ {table}
      BY <1>4 DEF Table
    <2>7. Recorded'
      BY <1>3, <2>5, <2>6 DEF Trail, Recorded, IsHistory
    <2> QED
      BY <2>4, <2>7
  <1>5. ASSUME table # "risk_events"
        PROVE  Recorded' /\ \A type, u : Audited(type, u)' = Audited(type, u)
    <2>1. history'.db["risk_events"] = history.db["risk_events"]
      BY <1>2, <1>3, <1>5
    <2>2. \A type, u : Audited(type, u)' = Audited(type, u)
      BY <2>1 DEF Audited
    <2>3. \A t \in DOMAIN TraderRows \ {"risk_events"} : history.db[t] \in Seq(TraderRows[t])
      BY DEF Trail, Recorded, TraderRows
    <2>4. history'.db[table] \in Seq(TraderRows[table])
      <3>1. history.db[table] \in Seq(TraderRows[table])
        BY <1>5, <2>3
      <3> QED
        BY <1>3, <3>1
    <2>5. \A t \in DOMAIN TraderRows \ {"risk_events"} : history'.db[t] \in Seq(TraderRows[t])
      <3> TAKE t \in DOMAIN TraderRows \ {"risk_events"}
      <3>1. CASE t = table
        BY <2>4, <3>1
      <3>2. CASE t # table
        BY <1>2, <1>3, <2>3, <3>2
      <3> QED
        BY <3>1, <3>2
    <2>6. /\ history'.db["orders"] \in Seq(OrderRows)
          /\ history'.db["positions"] \in Seq(PositionRows)
          /\ history'.db["execution_checkpoints"] \in Seq(CheckpointRows)
      BY <2>5 DEF TraderRows
    <2>7. Recorded'
      BY <1>3, <2>1, <2>6 DEF Trail, Recorded, IsHistory
    <2> QED
      BY <2>2, <2>7
  <1>6. UNCHANGED <<pc, current, okx, faults>>
    BY DEF TraderWrites
  <1>7. Recorded' /\ \A type, u : Audited(type, u)' = Audited(type, u)
    BY <1>4, <1>5
  <1>8. \A stage, u : At(stage, u)' = At(stage, u)
    BY <1>6 DEF At
  <1>9. history'.disabled = history.disabled
    BY <1>3
  <1> QED
    BY <1>6, <1>7, <1>8, <1>9 DEF Trail, Bracketed

LEMMA NextTrail ==
    ASSUME Trail, [Next]_vars
    PROVE  Trail'
  <1> USE AlikeFacts
  <1>1. CASE Send
    BY <1>1, SendTrail
  <1>2. CASE FetchUpdates
    BY <1>2, IdleTrail DEF FetchUpdates
  <1>3. CASE FetchFails
    BY <1>3, FetchFailsTrail
  <1>4. CASE \E u \in Update : HandleUpdate(u)
    BY <1>4, HandleTrail
  <1>5. CASE TransferFunds
    BY <1>5, TransferTrail
  <1>6. CASE ConfirmTransfer
    BY <1>6, ConfirmTrail
  <1>7. CASE BeginProactiveFlush
    BY <1>7, IdleTrail DEF BeginProactiveFlush
  <1>8. CASE TellCandidate
    BY <1>8, IdleTrail DEF TellCandidate
  <1>9. CASE BeginPendingFlush
    BY <1>9, IdleTrail DEF BeginPendingFlush
  <1>10. CASE RetryPending
    BY <1>10, IdleTrail DEF RetryPending
  <1>11. CASE PollAgain
    BY <1>11, IdleTrail DEF PollAgain
  <1>12. CASE StartProcess
    BY <1>12, IdleTrail DEF StartProcess
  <1>13. CASE Killed
    BY <1>13, KilledTrail
  <1>14. CASE DatabaseFails
    BY <1>14, DatabaseTrail
  <1>15. CASE TraderWrites
    BY <1>15, TraderWritesTrail
  <1>16. CASE UpdateArrives
    BY <1>16, IdleTrail DEF UpdateArrives
  <1>17. CASE UNCHANGED vars
    BY <1>17, IdleTrail DEF vars
  <1> QED
    BY <1>1, <1>2, <1>3, <1>4, <1>5, <1>6, <1>7, <1>8, <1>9, <1>10, <1>11, <1>12, <1>13,
       <1>14, <1>15, <1>16, <1>17 DEF Next, Loop

LEMMA InitTrail == Init => Trail
  <1> SUFFICES ASSUME Init PROVE Trail
    OBVIOUS
  <1>1. Recorded
    BY DEF Init, Recorded, EmptyHistory, Empty, Table
  <1>2. \A type, u : Audited(type, u) = 0
    <2>1. history.db["risk_events"] = <<>>
      BY DEF Init, EmptyHistory, Empty, Table
    <2>2. \A type, u : {i \in DOMAIN <<>> : Audits(<<>>[i], type, u)} = {}
      OBVIOUS
    <2> QED
      BY <2>1, <2>2, FS_EmptySet DEF Audited, AuditedIn
  <1>3. /\ okx = [u \in Update |-> 0] /\ pc = "down" /\ ~history.disabled
        /\ faults = [count |-> 0, unanswered |-> 0, sql |-> 0]
    BY DEF Init, EmptyHistory
  <1>4. \A u \in Update : At("transfer", u) = 0 /\ At("confirm", u) = 0 /\ okx[u] = 0
    BY <1>3 DEF At
  <1> QED
    BY <1>1, <1>2, <1>3, <1>4 DEF Trail, Bracketed

-----------------------------------------------------------------------------
LEMMA Inductive == Spec => [](Commands /\ Trail)
  <1>1. Init => Commands /\ Trail
    BY InitCommands, InitTrail
  <1>2. Commands /\ Trail /\ [Next]_vars => (Commands /\ Trail)'
    BY NextCommands, NextTrail DEF Trail
  <1> QED
    BY <1>1, <1>2, PTL DEF Spec

\* Telegram forgets no command the notifier has not handled, however batches,
\* lost answers and restarts follow each other.
THEOREM CommandsNotLost == Spec => []ForgottenWereHandled
  <1>1. Commands => ForgottenWereHandled
    BY DEF Commands, Shaped, Past, Arrived, IsHandled, Command, ForgottenWereHandled
  <1> QED
    BY <1>1, Inductive, PTL

\* No process executes an update twice: what it handled lies before its offset,
\* and what is left of a batch does not.
THEOREM CommandsOnce == Spec => HandledOncePerProcess
  <1>1. Commands /\ [Next]_vars => [\A u \in Update : handled'[u] # handled[u] => u \notin fresh]_vars
    <2> SUFFICES ASSUME Commands, Next, NEW u \in Update, handled'[u] # handled[u]
                 PROVE  u \notin fresh
      OBVIOUS
    <2>1. PICK v \in Update : HandleUpdate(v)
      BY DEF Next, Loop, Send, FetchUpdates, FetchFails, TransferFunds, ConfirmTransfer,
             BeginProactiveFlush, TellCandidate, BeginPendingFlush, RetryPending, PollAgain,
             StartProcess, Killed, DatabaseFails, TraderWrites, UpdateArrives
    <2>2. u = v
      BY <2>1 DEF HandleUpdate, Handles, Commands, Shaped
    <2>3. u \in batch /\ pc = "commands"
      BY <2>1, <2>2 DEF HandleUpdate, IsNext
    <2>4. offset # None => offset \in Nat /\ offset <= u
      BY <2>3 DEF Commands, Shaped, Once
    <2> QED
      BY <2>3, <2>4 DEF Commands, Once, Update
  <1> QED
    BY <1>1, Inductive, PTL DEF Spec, HandledOncePerProcess

\* The audit trail brackets what happened to the funds, through lost answers and
\* processes that end between any two steps of a transfer.
THEOREM TrailBrackets == Spec => []TransfersAudited
  <1>1. Trail => TransfersAudited
    <2> SUFFICES ASSUME Trail, faults.sql = 0, NEW u \in Update
                 PROVE  /\ okx[u] <= Audited("manual_funds_requested", u)
                        /\ Audited("manual_funds_transfer_submitted", u) <= okx[u]
      BY DEF TransfersAudited
    <2>1. okx[u] \in Nat /\ At("transfer", u) \in Nat /\ At("confirm", u) \in Nat
      BY DEF Trail, Bracketed, At
    <2>2. \A type : Audited(type, u) \in Nat
      BY AuditedNat DEF Trail
    <2> QED
      BY <2>1, <2>2 DEF Trail, Bracketed
  <1> QED
    BY <1>1, Inductive, PTL

-----------------------------------------------------------------------------
(* What the flushes compute.                                                *)

Keeping(S, good, s) ==
    [p \in Seq(S) \X (1 .. Len(s)) |-> IF s[p[2]] \in good THEN Append(p[1], s[p[2]]) ELSE p[1]]

LEMMA OnlyRun ==
    ASSUME NEW S, NEW s \in Seq(S), NEW good
    PROVE  \E r : /\ Run(r, Seq(S), <<>>, Len(s), Keeping(S, good, s))
                  /\ Only(good, s) = r[Len(s)]
  <1> DEFINE n == Len(s)
             A == Seq(S)
             base == <<>>
             Step(q, x) == IF x \in good THEN Append(q, x) ELSE q
             g == Keeping(S, good, s)
             Steps(it) == it = [i \in 0 .. n |-> IF i = 0 THEN base ELSE Step(it[i - 1], s[i])]
             kept == CHOOSE it : Steps(it)
  <1>1. n \in Nat /\ \A i \in 1 .. n : s[i] \in S
    BY ElementOfSeq
  <1>2. base \in A
    BY EmptySeq
  <1>3. \A q \in A, i \in 1 .. n : Step(q, s[i]) \in A /\ g[<<q, i>>] = Step(q, s[i])
    BY <1>1 DEF Keeping
  <1>4. g \in [A \X (1 .. n) -> A]
    BY <1>1 DEF Keeping
  <1>5. Only(good, s) = kept[n]
    BY DEF Only
  <1> HIDE DEF Step, g, n, base, A
  <1>6. PICK r : Run(r, A, base, n, g)
    BY <1>1, <1>2, <1>4, RunExists
  <1>7. Steps(r)
    <2>1. \A i \in 0 .. n : r[i] = IF i = 0 THEN base ELSE Step(r[i - 1], s[i])
      <3> TAKE i \in 0 .. n
      <3>1. CASE i = 0
        BY <1>6, <3>1 DEF Run
      <3>2. CASE i # 0
        <4>1. i \in 1 .. n /\ i - 1 \in 0 .. n
          BY <1>1, <3>2
        <4>2. r[i - 1] \in A /\ r[i] = g[<<r[i - 1], i>>]
          BY <1>6, <4>1 DEF Run
        <4> QED
          BY <1>3, <3>2, <4>1, <4>2
      <3> QED
        BY <3>1, <3>2
    <2>2. r = [i \in 0 .. n |-> r[i]]
      BY <1>6 DEF Run
    <2> QED
      BY <2>1, <2>2
  <1>8. Steps(kept)
    <2> HIDE DEF Steps
    <2> QED
      BY <1>7
  <1>9. \A i \in 0 .. n : kept[i] = IF i = 0 THEN base ELSE Step(kept[i - 1], s[i])
    <2> HIDE DEF kept
    <2> QED
      BY <1>8
  <1> HIDE DEF kept, Steps
  <1>10. kept[0] = base /\ \A i \in 1 .. n : kept[i - 1] \in A => kept[i] = g[<<kept[i - 1], i>>]
    BY <1>1, <1>3, <1>9
  <1>11. kept[n] = r[n]
    BY <1>1, <1>2, <1>6, <1>10, RunUnique
  <1> QED
    BY <1>5, <1>6, <1>11 DEF n, g, A, base

\* Each item that is kept is one of the sequence's, and none of them twice.
OneOfEach(q, s, good, m) ==
    \E e \in [1 .. Len(q) -> 1 .. m] :
        /\ \A i, j \in 1 .. Len(q) : e[i] = e[j] => i = j
        /\ \A i \in 1 .. Len(q) : q[i] = s[e[i]] /\ s[e[i]] \in good

LEMMA OnlyIs ==
    ASSUME NEW S, NEW s \in Seq(S), NEW good
    PROVE  Only(good, s) \in Seq(S) /\ OneOfEach(Only(good, s), s, good, Len(s))
  <1> DEFINE n == Len(s)
             g == Keeping(S, good, s)
  <1>1. PICK r : Run(r, Seq(S), <<>>, n, g) /\ Only(good, s) = r[n]
    BY OnlyRun
  <1>2. n \in Nat /\ \A i \in 1 .. n : s[i] \in S
    BY ElementOfSeq
  <1>3. r \in [0 .. n -> Seq(S)] /\ r[0] = <<>> /\ \A i \in 1 .. n : r[i] = g[<<r[i - 1], i>>]
    BY <1>1 DEF Run
  <1> DEFINE P == {i \in 0 .. n : OneOfEach(r[i], s, good, i)}
  <1>4. 0 \in P
    <2>1. Len(r[0]) = 0
      BY <1>3
    <2> DEFINE e == [x \in 1 .. Len(r[0]) |-> x]
    <2>2. e \in [1 .. Len(r[0]) -> 1 .. 0] /\ \A x \in 1 .. Len(r[0]) : FALSE
      BY <2>1
    <2> HIDE DEF e
    <2>3. OneOfEach(r[0], s, good, 0)
      BY <2>2 DEF OneOfEach
    <2> QED
      BY <1>2, <2>3
  <1>5. ASSUME NEW i \in 1 .. n, i - 1 \in P
        PROVE  i \in P
    <2> DEFINE q == r[i - 1]
               k == Len(q)
    <2>1. i - 1 \in 0 .. n /\ q \in Seq(S) /\ k \in Nat /\ OneOfEach(q, s, good, i - 1)
      <3>1. i - 1 \in 0 .. n
        BY <1>2
      <3>2. q \in Seq(S)
        BY <1>3, <3>1
      <3>3. OneOfEach(q, s, good, i - 1)
        BY <1>5
      <3> QED
        BY <3>1, <3>2, <3>3, LenProperties
    <2>2. r[i] = IF s[i] \in good THEN Append(q, s[i]) ELSE q
      BY <1>3, <2>1 DEF Keeping
    <2> HIDE DEF q, k
    <2>3. PICK e \in [1 .. k -> 1 .. i - 1] :
             /\ \A a, b \in 1 .. k : e[a] = e[b] => a = b
             /\ \A a \in 1 .. k : q[a] = s[e[a]] /\ s[e[a]] \in good
      BY <2>1 DEF OneOfEach, k
    <2>4. CASE s[i] \notin good
      <3>1. e \in [1 .. Len(q) -> 1 .. i]
        BY <1>2, <2>1, <2>3 DEF k
      <3>2. OneOfEach(q, s, good, i)
        BY <2>3, <3>1 DEF OneOfEach, k
      <3> QED
        BY <1>2, <2>2, <2>4, <3>2
    <2>5. CASE s[i] \in good
      <3> DEFINE f == [a \in 1 .. k + 1 |-> IF a = k + 1 THEN i ELSE e[a]]
                 t == Append(q, s[i])
      <3>1. Len(t) = k + 1 /\ t[k + 1] = s[i] /\ \A a \in 1 .. k : t[a] = q[a]
        BY <1>2, <2>1 DEF k
      <3>2. f \in [1 .. Len(t) -> 1 .. i]
        <4> HIDE DEF t
        <4> QED
          BY <1>2, <2>1, <2>3, <3>1
      <3>3. \A a \in 1 .. k + 1 : a = k + 1 \/ a \in 1 .. k
        BY <2>1
      <3>4. f[k + 1] = i /\ \A a \in 1 .. k : f[a] = e[a] /\ e[a] # i
        BY <1>2, <2>1, <2>3
      <3> HIDE DEF f, t
      <3>5. \A a, b \in 1 .. Len(t) : f[a] = f[b] => a = b
        BY <2>3, <3>1, <3>3, <3>4
      <3>6. \A a \in 1 .. Len(t) : t[a] = s[f[a]] /\ s[f[a]] \in good
        BY <2>3, <2>5, <3>1, <3>3, <3>4
      <3>7. OneOfEach(t, s, good, i)
        BY <3>2, <3>5, <3>6 DEF OneOfEach
      <3>8. r[i] = t
        BY <2>2, <2>5 DEF t
      <3> QED
        BY <1>2, <3>7, <3>8
    <2> QED
      BY <2>4, <2>5
  <1> HIDE DEF P, g, n
  <1>6. \A i \in 0 .. n : i \in P
    BY <1>2, <1>4, <1>5, UpTo
  <1>7. n \in 0 .. n
    BY <1>2
  <1>8. n \in P
    BY <1>6, <1>7
  <1> QED
    BY <1>1, <1>3, <1>7, <1>8 DEF P, n

Known(q, key) == \E i \in 1 .. Len(q) : q[i].key = key

Collecting(S, s) ==
    [p \in Seq(S) \X (1 .. Len(s)) |->
        IF Known(p[1], s[p[2]].key) THEN p[1] ELSE Append(p[1], s[p[2]])]

LEMMA LatestRun ==
    ASSUME NEW S, NEW s \in Seq(S)
    PROVE  \E r : Run(r, Seq(S), <<>>, Len(s), Collecting(S, s)) /\ Latest(s) = r[Len(s)]
  <1> DEFINE n == Len(s)
             A == Seq(S)
             base == <<>>
             Step(q, x) == IF \E i \in DOMAIN q : q[i].key = x.key THEN q ELSE Append(q, x)
             g == Collecting(S, s)
             Steps(it) == it = [I \in SUBSET DOMAIN s |->
                                  IF I = {} THEN base ELSE Step(it[I \ {Max(I)}], s[Max(I)])]
             iter == CHOOSE it : Steps(it)
  <1>1. n \in Nat /\ DOMAIN s = 1 .. n /\ \A i \in 1 .. n : s[i] \in S
    BY ElementOfSeq
  <1>2. base \in A
    BY EmptySeq
  <1>3. \A q \in A, i \in 1 .. n : Step(q, s[i]) \in A /\ g[<<q, i>>] = Step(q, s[i])
    <2> TAKE q \in A, i \in 1 .. n
    <2>1. DOMAIN q = 1 .. Len(q)
      OBVIOUS
    <2>2. Step(q, s[i]) = IF Known(q, s[i].key) THEN q ELSE Append(q, s[i])
      BY <2>1 DEF Known
    <2>3. g[<<q, i>>] = IF Known(q, s[i].key) THEN q ELSE Append(q, s[i])
      BY DEF Collecting
    <2> HIDE DEF Step, g
    <2> QED
      BY <1>1, <2>2, <2>3
  <1>4. g \in [A \X (1 .. n) -> A]
    BY <1>1 DEF Collecting
  <1>5. Latest(s) = iter[DOMAIN s]
    BY DEF Latest, FoldLeft, MapThenFoldSet
  <1> HIDE DEF Step, g, n, base, A
  <1>6. PICK h : Fold(h, A, base, n, g)
    BY <1>1, <1>2, <1>4, FoldExists
  <1>7. PICK r : Run(r, A, base, n, g)
    BY <1>1, <1>2, <1>4, RunExists
  <1>8. Steps(h)
    <2>1. \A I \in SUBSET (1 .. n) :
            h[I] = IF I = {} THEN base ELSE Step(h[I \ {Max(I)}], s[Max(I)])
      <3> TAKE I \in SUBSET (1 .. n)
      <3>1. CASE I = {}
        BY <1>6, <3>1 DEF Fold
      <3>2. CASE I # {}
        <4>1. Max(I) \in 1 .. n /\ I \ {Max(I)} \in SUBSET (1 .. n)
          BY <1>1, <3>2, Greatest1N
        <4>2. h[I \ {Max(I)}] \in A /\ h[I] = g[<<h[I \ {Max(I)}], Max(I)>>]
          BY <1>6, <3>2, <4>1 DEF Fold
        <4> QED
          BY <1>3, <3>2, <4>1, <4>2
      <3> QED
        BY <3>1, <3>2
    <2>2. h \in [SUBSET (1 .. n) -> A]
      BY <1>6 DEF Fold
    <2> QED
      BY <1>1, <2>1, <2>2
  <1>9. Steps(iter)
    <2> HIDE DEF Steps
    <2> QED
      BY <1>8
  <1>10. iter = [I \in SUBSET (1 .. n) |->
                   IF I = {} THEN base ELSE Step(iter[I \ {Max(I)}], s[Max(I)])]
    <2> HIDE DEF iter
    <2> QED
      BY <1>1, <1>9
  <1> HIDE DEF iter, Steps
  <1>11. Follows(iter, A, base, n, g)
    <2>1. iter[{}] = base
      BY <1>10
    <2>2. ASSUME NEW I \in SUBSET (1 .. n), I # {}, iter[I \ {Max(I)}] \in A
          PROVE  iter[I] = g[<<iter[I \ {Max(I)}], Max(I)>>]
      <3>1. Max(I) \in 1 .. n
        BY <1>1, <2>2, Greatest1N
      <3>2. iter[I] = Step(iter[I \ {Max(I)}], s[Max(I)])
        BY <1>10, <2>2
      <3> QED
        BY <1>3, <2>2, <3>1, <3>2
    <2> QED
      BY <2>1, <2>2 DEF Follows
  <1>12. iter[1 .. n] = r[n]
    BY <1>1, <1>2, <1>7, <1>11, FoldValue
  <1> QED
    BY <1>1, <1>5, <1>7, <1>12 DEF n, g, A, base

\* The rows of q are the first m of s that carry a new key.
FirstOfKeys(q, s, m) ==
    /\ \A a, b \in 1 .. Len(q) : q[a].key = q[b].key => a = b
    /\ \A i \in 1 .. m : Known(q, s[i].key)
    /\ \A a \in 1 .. Len(q) :
          \E i \in 1 .. m : q[a] = s[i] /\ \A j \in 1 .. i - 1 : s[j].key # s[i].key

LEMMA LatestIs ==
    ASSUME NEW S, NEW s \in Seq(S)
    PROVE  Latest(s) \in Seq(S) /\ FirstOfKeys(Latest(s), s, Len(s))
  <1> DEFINE n == Len(s)
             g == Collecting(S, s)
  <1>1. PICK r : Run(r, Seq(S), <<>>, n, g) /\ Latest(s) = r[n]
    BY LatestRun
  <1>2. n \in Nat /\ \A i \in 1 .. n : s[i] \in S
    BY ElementOfSeq
  <1>3. r \in [0 .. n -> Seq(S)] /\ r[0] = <<>> /\ \A i \in 1 .. n : r[i] = g[<<r[i - 1], i>>]
    BY <1>1 DEF Run
  <1> DEFINE P == {i \in 0 .. n : FirstOfKeys(r[i], s, i)}
  <1>4. 0 \in P
    <2>1. Len(r[0]) = 0
      BY <1>3
    <2>2. FirstOfKeys(r[0], s, 0)
      BY <2>1 DEF FirstOfKeys
    <2> QED
      BY <1>2, <2>2
  <1>5. ASSUME NEW i \in 1 .. n, i - 1 \in P
        PROVE  i \in P
    <2> DEFINE q == r[i - 1]
               k == Len(q)
    <2>1. i - 1 \in 0 .. n /\ i - 1 \in Nat
      BY <1>2
    <2>2. q \in Seq(S) /\ k \in Nat
      <3>1. q \in Seq(S)
        BY <1>3, <2>1
      <3> QED
        BY <3>1, LenProperties
    <2>3. FirstOfKeys(q, s, i - 1)
      BY <1>5
    <2>4. r[i] = IF Known(q, s[i].key) THEN q ELSE Append(q, s[i])
      BY <1>3, <2>2 DEF Collecting
    <2> HIDE DEF q, k
    <2>5. \A j \in 1 .. i : j = i \/ j \in 1 .. i - 1
      BY <1>2
    <2>6. CASE Known(q, s[i].key)
      <3>1. FirstOfKeys(q, s, i)
        BY <2>1, <2>3, <2>5, <2>6 DEF FirstOfKeys
      <3> QED
        BY <1>2, <2>4, <2>6, <3>1
    <2>7. CASE ~Known(q, s[i].key)
      <3> DEFINE t == Append(q, s[i])
      <3>1. Len(t) = k + 1 /\ t[k + 1] = s[i] /\ \A a \in 1 .. k : t[a] = q[a]
        BY <1>2, <2>2 DEF k
      <3>2. \A a \in 1 .. k + 1 : a = k + 1 \/ a \in 1 .. k
        BY <2>2
      <3>3. k + 1 \in 1 .. k + 1 /\ \A a \in 1 .. k : a \in 1 .. k + 1
        BY <2>2
      <3>4. \A a \in 1 .. k : q[a].key # s[i].key
        BY <2>7 DEF Known, k
      <3> HIDE DEF t
      <3>5. \A a, b \in 1 .. Len(t) : t[a].key = t[b].key => a = b
        BY <2>3, <3>1, <3>2, <3>4 DEF FirstOfKeys, k
      <3>6. \A j \in 1 .. i : Known(t, s[j].key)
        <4>1. \A j \in 1 .. i - 1 : Known(t, s[j].key)
          <5> TAKE j \in 1 .. i - 1
          <5>1. PICK a \in 1 .. k : q[a].key = s[j].key
            BY <2>3 DEF FirstOfKeys, Known, k
          <5>2. a \in 1 .. Len(t) /\ t[a].key = s[j].key
            BY <3>1, <3>3, <5>1
          <5> QED
            BY <5>2 DEF Known
        <4>2. Known(t, s[i].key)
          BY <3>1, <3>3 DEF Known
        <4> QED
          BY <2>5, <4>1, <4>2
      <3>7. \A a \in 1 .. Len(t) :
              \E x \in 1 .. i : t[a] = s[x] /\ \A j \in 1 .. x - 1 : s[j].key # s[x].key
        <4>1. \A j \in 1 .. i - 1 : s[j].key # s[i].key
          BY <2>3, <2>7 DEF FirstOfKeys, Known
        <4>2. i \in 1 .. i /\ \A x \in 1 .. i - 1 : x \in 1 .. i
          BY <1>2
        <4>3. \A a \in 1 .. k :
                \E x \in 1 .. i - 1 : q[a] = s[x] /\ \A j \in 1 .. x - 1 : s[j].key # s[x].key
          BY <2>3 DEF FirstOfKeys, k
        <4> QED
          BY <3>1, <3>2, <4>1, <4>2, <4>3
      <3>8. FirstOfKeys(t, s, i)
        BY <3>5, <3>6, <3>7 DEF FirstOfKeys
      <3>9. r[i] = t
        BY <2>4, <2>7 DEF t
      <3> QED
        BY <1>2, <3>8, <3>9
    <2> QED
      BY <2>6, <2>7
  <1> HIDE DEF P, g, n
  <1>6. \A i \in 0 .. n : i \in P
    BY <1>2, <1>4, <1>5, UpTo
  <1>7. n \in 0 .. n
    BY <1>2
  <1>8. n \in P
    BY <1>6, <1>7
  <1> QED
    BY <1>1, <1>3, <1>7, <1>8 DEF P, n

-----------------------------------------------------------------------------
(* Types of what is told, and of the tables.                                *)

TradeKey ==
    ({"order"} \X STRING \X STRING)
    \union ({"position"} \X {"open", "close"} \X STRING \X STRING \X Int)
    \union ({"checkpoint"} \X STRING \X RunMode)
    \union ({"recovery_failed", "risk_event"} \X STRING \X STRING)
LoopKey == {<<"runtime_started">>} \union {<<"command", u>> : u \in Update}

Category == {"trade_order_submitted", "trade_order_canceled", "trade_position_opened",
             "trade_position_closed", "mode_change", "recovery_failed", "risk_event"}
Item == [category: Category, severity: Severity, key: TradeKey]
Notice == {row \in [key: TradeKey \union LoopKey, severity: Severity,
                    status: {"sent", "failed"}, retry: BOOLEAN] :
             row.retry => row.status # "sent"}

Notices == "notification_events"

Tables(t) ==
    /\ DOMAIN t = Table
    /\ t["orders"] \in Seq(OrderRows) /\ t["positions"] \in Seq(PositionRows)
    /\ t["execution_checkpoints"] \in Seq(CheckpointRows)
    /\ t["risk_events"] \in Seq(RiskRows \union Audit)
    /\ t[Notices] \in Seq(Notice)

Stored(h) ==
    /\ DOMAIN h = {"db", "own", "disabled"} /\ h.disabled \in BOOLEAN
    /\ Tables(h.db) /\ Tables(h.own)

LEMMA CandidateItem ==
    ASSUME NEW category \in Category, NEW severity \in {"CRITICAL", "WARN", "INFO"},
           NEW key \in TradeKey
    PROVE  Candidate(category, severity, key) \in Item
  BY DEF Candidate, Item, Severity

LEMMA OrderItem ==
    ASSUME NEW row \in OrderRows
    PROVE  OrderCandidate(row) \in Item \union {NoCandidate}
  <1> DEFINE k == <<"order", row.status, row.id>>
  <1>1. k \in TradeKey
    BY NotifierConstants DEF TradeKey
  <1> HIDE DEF k
  <1>2. OrderCandidate(row) \in {NoCandidate, Candidate("trade_order_submitted", "INFO", k),
                                 Candidate("trade_order_canceled", "INFO", k)}
    BY DEF OrderCandidate, k
  <1> QED
    BY <1>1, <1>2, CandidateItem DEF Category

LEMMA PositionItem ==
    ASSUME NEW rows, NEW i, rows[i] \in PositionRows
    PROVE  PositionCandidate(rows, i) \in Item \union {NoCandidate}
  <1> DEFINE row == rows[i]
             before == QuantityBefore(rows, i)
             intent == CASE row.intent \in {"open", "close"} -> row.intent
                         [] before = 0 /\ row.quantity # 0 -> "open"
                         [] before # 0 /\ row.quantity = 0 -> "close"
                         [] OTHER -> ""
             a == <<"position", "open", row.symbol, row.tag, row.quantity>>
             b == <<"position", "close", row.symbol, row.tag, row.quantity>>
  <1>1. PositionCandidate(rows, i)
          = CASE intent = "open" -> Candidate("trade_position_opened", "INFO", a)
              [] intent = "close" -> Candidate("trade_position_closed", "INFO", b)
              [] OTHER -> NoCandidate
    BY DEF PositionCandidate
  <1> HIDE DEF intent, before
  <1>2. a \in TradeKey /\ b \in TradeKey
    <2> DEFINE s == row.symbol  tag == row.tag  q == row.quantity
    <2>1. s \in STRING /\ tag \in STRING /\ q \in Int
      BY NotifierConstants
    <2> HIDE DEF s, tag, q, row
    <2>2. \A what \in {"open", "close"} :
            <<"position", what, s, tag, q>> \in {"position"} \X {"open", "close"} \X STRING \X STRING \X Int
      BY <2>1
    <2>3. <<"position", "open", s, tag, q>> \in TradeKey
          /\ <<"position", "close", s, tag, q>> \in TradeKey
      BY <2>2 DEF TradeKey
    <2> QED
      BY <2>3 DEF s, tag, q
  <1> HIDE DEF a, b
  <1> QED
    BY <1>1, <1>2, CandidateItem DEF Category

LEMMA CheckpointItem ==
    ASSUME NEW row \in CheckpointRows
    PROVE  CheckpointCandidate(row) \in Item \union {NoCandidate}
  <1> DEFINE k == <<"checkpoint", row.id, row.mode>>
  <1>1. k \in TradeKey
    BY NotifierConstants DEF TradeKey
  <1> HIDE DEF k
  <1>2. CheckpointCandidate(row) \in {NoCandidate, Candidate("mode_change", "CRITICAL", k),
                                      Candidate("mode_change", "WARN", k)}
    BY DEF CheckpointCandidate, k
  <1> QED
    BY <1>1, <1>2, CandidateItem DEF Category

\* Audit rows are told by neither.
LEMMA RiskItem ==
    ASSUME NEW row \in RiskRows \union Audit
    PROVE  /\ RecoveryFailureCandidate(row) \in Item \union {NoCandidate}
           /\ RiskEventCandidate(row) \in Item \union {NoCandidate}
  <1> DEFINE k == <<"recovery_failed", row.type, row.detail>>
             e == <<"risk_event", row.type, row.detail>>
  <1>1. CASE row \in Audit
    <2>1. row.type \in ManualTypes
      BY <1>1 DEF Audit
    <2> QED
      BY <2>1 DEF RecoveryFailureCandidate, RiskEventCandidate, ManualTypes
  <1>2. CASE row \in RiskRows
    <2>1. k \in TradeKey /\ e \in TradeKey
      BY <1>2, NotifierConstants DEF TradeKey
    <2> HIDE DEF k, e
    <2>2. RecoveryFailureCandidate(row) \in
            {NoCandidate, Candidate("recovery_failed", "CRITICAL", k)}
      BY DEF RecoveryFailureCandidate, k
    <2>3. RiskEventCandidate(row) \in
            {NoCandidate, Candidate("risk_event", "CRITICAL", e), Candidate("risk_event", "WARN", e)}
      BY DEF RiskEventCandidate, e
    <2> QED
      BY <2>1, <2>2, <2>3, CandidateItem DEF Category
  <1> QED
    BY <1>1, <1>2

\* A key that is counted is of a row of the trader's, never of the loop's own
\* messages.
LEMMA CountedKeys == Key \subseteq TradeKey /\ \A k \in Key : k \notin LoopKey
  <1>1. ASSUME NEW k \in Key
        PROVE  k \in TradeKey
    <2>1. PICK c : c.key = k /\ k # <<>> /\
            \/ \E row \in OrderRows : c = OrderCandidate(row)
            \/ \E row \in CheckpointRows : c = CheckpointCandidate(row)
            \/ \E row \in RiskRows : c = RecoveryFailureCandidate(row)
            \/ \E row \in RiskRows : c = RiskEventCandidate(row)
            \/ \E pair \in PositionRows \X PositionRows : c = PositionCandidate(pair, 2)
            \/ \E row \in PositionRows : c = PositionCandidate(<<row>>, 1)
      BY DEF Key
    <2>2. c \in Item \union {NoCandidate}
      <3>1. \A pair \in PositionRows \X PositionRows : pair[2] \in PositionRows
        OBVIOUS
      <3>2. \A row \in PositionRows : <<row>>[1] \in PositionRows
        OBVIOUS
      <3> QED
        BY <2>1, <3>1, <3>2, OrderItem, CheckpointItem, RiskItem, PositionItem
    <2>3. NoCandidate.key = <<>>
      BY DEF NoCandidate, Candidate
    <2> QED
      BY <2>1, <2>2, <2>3 DEF Item
  <1>2. \A k \in TradeKey : k[1] \in {"order", "position", "checkpoint", "recovery_failed",
                                      "risk_event"}
    BY DEF TradeKey
  <1>3. \A k \in LoopKey : k[1] \in {"runtime_started", "command"}
    BY DEF LoopKey
  <1> QED
    BY <1>1, <1>2, <1>3

-----------------------------------------------------------------------------
(* What a flush reads.                                                      *)

LEMMA ReverseIs ==
    ASSUME NEW S, NEW w \in Seq(S)
    PROVE  /\ Reverse(w) \in Seq(S) /\ Len(Reverse(w)) = Len(w)
           /\ \A i \in 1 .. Len(w) : Reverse(w)[i] = w[Len(w) - i + 1]
  <1>1. Reverse(w) = [i \in 1 .. Len(w) |-> w[Len(w) - i + 1]] /\ Len(w) \in Nat
    BY DEF Reverse
  <1>2. \A i \in 1 .. Len(w) : w[Len(w) - i + 1] \in S
    <2> TAKE i \in 1 .. Len(w)
    <2>1. Len(w) - i + 1 \in 1 .. Len(w)
      BY <1>1
    <2> DEFINE j == Len(w) - i + 1
    <2> HIDE DEF j
    <2>2. w[j] \in S
      BY <2>1, ElementOfSeq DEF j
    <2> QED
      BY <2>2 DEF j
  <1> QED
    BY <1>1, <1>2

\* Newest first: the i-th is the i-th from the end of the table.
LEMMA RecentIs ==
    ASSUME NEW S, NEW q \in Seq(S)
    PROVE  LET v == Reverse(Window(q, RowLimit)) IN
           /\ v \in Seq(S) /\ Reverse(v) \in Seq(S) /\ Len(v) <= Len(q)
           /\ \A i \in 1 .. Len(v) : v[i] = q[Len(q) - i + 1]
  <1> DEFINE n == Len(q)
             lo == Max({1, n - RowLimit + 1})
             w == SubSeq(q, lo, n)
             v == Reverse(w)
  <1>1. n \in Nat /\ RowLimit \in Nat /\ RowLimit >= 1
    BY NotifierConstants
  <1>2. lo \in Nat /\ lo >= 1 /\ lo <= n + 1
    <2>1. lo = IF n - RowLimit + 1 <= 1 THEN 1 ELSE n - RowLimit + 1
      BY <1>1 DEF Max
    <2> QED
      BY <1>1, <2>1
  <1>3. Window(q, RowLimit) = w
    BY DEF Window
  <1> HIDE DEF lo
  <1>4. /\ w \in Seq(S) /\ Len(w) = n - lo + 1
        /\ \A i \in 1 .. n - lo + 1 : w[i] = q[lo + i - 1]
    <2>1. CASE lo <= n
      BY <1>1, <1>2, <2>1, SubSeqProperties
    <2>2. CASE lo = n + 1
      <3>1. w = <<>>
        BY <1>1, <1>2, <2>2, SubSeqEmpty
      <3> QED
        BY <1>1, <2>2, <3>1, EmptySeq
    <2> QED
      BY <1>1, <1>2, <2>1, <2>2
  <1> HIDE DEF w, n
  <1>5. v \in Seq(S) /\ Len(v) = Len(w) /\ \A i \in 1 .. Len(w) : v[i] = w[Len(w) - i + 1]
    BY <1>4, ReverseIs
  <1>6. Reverse(v) \in Seq(S)
    BY <1>5, ReverseIs
  <1>7. \A i \in 1 .. Len(v) : v[i] = q[n - i + 1]
    <2> TAKE i \in 1 .. Len(v)
    <2> DEFINE j == Len(w) - i + 1
    <2>1. j \in 1 .. n - lo + 1 /\ lo + j - 1 = n - i + 1
      BY <1>1, <1>2, <1>4, <1>5
    <2>2. v[i] = w[j]
      BY <1>5
    <2> HIDE DEF j
    <2>3. w[j] = q[lo + j - 1]
      BY <1>4, <2>1
    <2> QED
      BY <2>1, <2>2, <2>3
  <1>8. Len(v) <= n
    BY <1>1, <1>2, <1>4, <1>5
  <1> HIDE DEF v
  <1> QED
    BY <1>3, <1>5, <1>6, <1>7, <1>8 DEF v, n

LEMMA RowsOf ==
    ASSUME NEW h, Stored(h)
    PROVE  /\ Rows(h, "orders") \in Seq(OrderRows) /\ Rows(h, "positions") \in Seq(PositionRows)
           /\ Rows(h, "execution_checkpoints") \in Seq(CheckpointRows)
           /\ Rows(h, "risk_events") \in Seq(RiskRows \union Audit)
           /\ Rows(h, Notices) \in Seq(Notice)
  BY DEF Rows, Stored, Tables

\* The candidates are items or nothing, whatever the windows show.
LEMMA CandidatesAre ==
    ASSUME NEW h, Stored(h)
    PROVE  Candidates(h) \in Seq(Item \union {NoCandidate})
  <1> DEFINE Maybe == Item \union {NoCandidate}
             orders == Reverse(RecentRows(h, "orders", RowLimit))
             positions == Reverse(RecentRows(h, "positions", RowLimit))
             checkpoints == RecentRows(h, "execution_checkpoints", RowLimit)
             risks == RecentRows(h, "risk_events", RowLimit)
             a == Mapped(orders, OrderCandidate)
             b == [i \in DOMAIN positions |-> PositionCandidate(positions, i)]
             c == Mapped(checkpoints, CheckpointCandidate)
             d == Mapped(risks, RecoveryFailureCandidate)
             e == Mapped(risks, RiskEventCandidate)
             all == a \o b \o c \o d \o e
  <1>1. /\ orders \in Seq(OrderRows) /\ positions \in Seq(PositionRows)
        /\ checkpoints \in Seq(CheckpointRows) /\ risks \in Seq(RiskRows \union Audit)
    BY RowsOf, RecentIs DEF RecentRows
  <1>2. Candidates(h) = all
    BY DEF Candidates
  <1> HIDE DEF orders, positions, checkpoints, risks
  <1>3. a \in Seq(Maybe)
    <2>1. \A i \in 1 .. Len(orders) : OrderCandidate(orders[i]) \in Maybe
      <3>1. \A i \in 1 .. Len(orders) : orders[i] \in OrderRows
        BY <1>1, ElementOfSeq
      <3> QED
        BY <3>1, OrderItem
    <2>2. a = [i \in 1 .. Len(orders) |-> OrderCandidate(orders[i])] /\ Len(orders) \in Nat
      BY <1>1 DEF Mapped
    <2> HIDE DEF Maybe, a
    <2> QED
      BY <2>1, <2>2
  <1>4. b \in Seq(Maybe)
    <2>1. \A i \in 1 .. Len(positions) : PositionCandidate(positions, i) \in Maybe
      <3>1. \A i \in 1 .. Len(positions) : positions[i] \in PositionRows
        BY <1>1, ElementOfSeq
      <3> QED
        BY <3>1, PositionItem
    <2>2. b = [i \in 1 .. Len(positions) |-> PositionCandidate(positions, i)]
          /\ Len(positions) \in Nat
      BY <1>1
    <2> HIDE DEF Maybe, b
    <2> QED
      BY <2>1, <2>2
  <1>5. c \in Seq(Maybe)
    <2>1. \A i \in 1 .. Len(checkpoints) : CheckpointCandidate(checkpoints[i]) \in Maybe
      <3>1. \A i \in 1 .. Len(checkpoints) : checkpoints[i] \in CheckpointRows
        BY <1>1, ElementOfSeq
      <3> QED
        BY <3>1, CheckpointItem
    <2>2. c = [i \in 1 .. Len(checkpoints) |-> CheckpointCandidate(checkpoints[i])]
          /\ Len(checkpoints) \in Nat
      BY <1>1 DEF Mapped
    <2> HIDE DEF Maybe, c
    <2> QED
      BY <2>1, <2>2
  <1>6. d \in Seq(Maybe) /\ e \in Seq(Maybe)
    <2>1. \A i \in 1 .. Len(risks) : /\ RecoveryFailureCandidate(risks[i]) \in Maybe
                                     /\ RiskEventCandidate(risks[i]) \in Maybe
      <3>1. \A i \in 1 .. Len(risks) : risks[i] \in RiskRows \union Audit
        BY <1>1, ElementOfSeq
      <3> QED
        BY <3>1, RiskItem
    <2>2. /\ d = [i \in 1 .. Len(risks) |-> RecoveryFailureCandidate(risks[i])]
          /\ e = [i \in 1 .. Len(risks) |-> RiskEventCandidate(risks[i])]
          /\ Len(risks) \in Nat
      BY <1>1 DEF Mapped
    <2> HIDE DEF Maybe, d, e
    <2> QED
      BY <2>1, <2>2
  <1>7. all \in Seq(Maybe)
    <2> HIDE DEF a, b, c, d, e, Maybe
    <2> QED
      BY <1>3, <1>4, <1>5, <1>6, ConcatProperties
  <1> QED
    BY <1>2, <1>7

-----------------------------------------------------------------------------
(* What was told is recorded last.                                          *)

Sent(rows, k) == \E i \in 1 .. Len(rows) : rows[i].key = k /\ rows[i].status = "sent"

\* No row of a key follows the one that says it was sent.
SentLast(rows) ==
    \A i, j \in 1 .. Len(rows) :
        i < j /\ rows[i].key \in Key /\ rows[i].key = rows[j].key => rows[i].status # "sent"

Pending(h) == Retryable(Latest(RecentRows(h, "notification_events", RowLimit)))

\* What is retried was not told: the newest row of its key would say so.
LEMMA PendingIs ==
    ASSUME NEW h, Stored(h), SentLast(Rows(h, Notices))
    PROVE  /\ Pending(h) \in Seq(Notice)
           /\ \A a, b \in 1 .. Len(Pending(h)) : Pending(h)[a].key = Pending(h)[b].key => a = b
           /\ \A a \in 1 .. Len(Pending(h)) :
                Pending(h)[a].key \in Key => ~Sent(Rows(h, Notices), Pending(h)[a].key)
  <1> DEFINE rows == Rows(h, Notices)
             n == Len(rows)
             v == Reverse(Window(rows, RowLimit))
             u == Latest(v)
             good == {row \in ToSet(u) : row.retry}
             q == Only(good, u)
  <1>1. rows \in Seq(Notice) /\ n \in Nat
    BY RowsOf, LenProperties
  <1> HIDE DEF rows
  <1>2. /\ v \in Seq(Notice) /\ Len(v) <= n /\ \A i \in 1 .. Len(v) : v[i] = rows[n - i + 1]
    BY <1>1, RecentIs
  <1>3. Pending(h) = q
    BY DEF Pending, Retryable, RecentRows, Notices, rows
  <1> HIDE DEF v, n
  <1>4. u \in Seq(Notice) /\ FirstOfKeys(u, v, Len(v))
    BY <1>2, LatestIs
  <1> HIDE DEF u
  <1>5. q \in Seq(Notice) /\ OneOfEach(q, u, good, Len(u))
    <2> HIDE DEF good
    <2> QED
      BY <1>4, OnlyIs
  <1> HIDE DEF q
  <1>6. PICK e \in [1 .. Len(q) -> 1 .. Len(u)] :
          /\ \A i, j \in 1 .. Len(q) : e[i] = e[j] => i = j
          /\ \A i \in 1 .. Len(q) : q[i] = u[e[i]] /\ u[e[i]] \in good
    BY <1>5 DEF OneOfEach
  <1>7. \A a, b \in 1 .. Len(q) : q[a].key = q[b].key => a = b
    <2> TAKE a, b \in 1 .. Len(q)
    <2> HAVE q[a].key = q[b].key
    <2>1. e[a] \in 1 .. Len(u) /\ e[b] \in 1 .. Len(u) /\ u[e[a]].key = u[e[b]].key
      BY <1>6
    <2>2. e[a] = e[b]
      BY <1>4, <2>1 DEF FirstOfKeys
    <2> QED
      BY <1>6, <2>2
  <1>8. ASSUME NEW a \in 1 .. Len(q), q[a].key \in Key, Sent(rows, q[a].key)
        PROVE  FALSE
    <2>1. PICK i \in 1 .. Len(v) : q[a] = v[i] /\ \A j \in 1 .. i - 1 : v[j].key # v[i].key
      BY <1>4, <1>6 DEF FirstOfKeys
    <2>2. PICK j \in 1 .. n : rows[j].key = q[a].key /\ rows[j].status = "sent"
      BY <1>8 DEF Sent, n
    <2>3. n \in Nat /\ Len(v) \in Nat
      BY <1>1, <1>2 DEF n
    <2> DEFINE m == n - i + 1
    <2>4. m \in 1 .. n /\ q[a] = rows[m]
      BY <1>2, <2>1, <2>3
    <2>5. q[a] \in Notice /\ q[a].retry
      <3>1. q[a] \in Notice
        BY <1>5, ElementOfSeq
      <3> QED
        BY <1>6, <3>1
    <2>6. q[a].status # "sent"
      BY <2>5 DEF Notice
    <2> HIDE DEF m
    <2>7. ~(j < m)
      BY <1>8, <2>2, <2>4 DEF SentLast, rows, n
    <2>8. j # m
      BY <2>2, <2>4, <2>6
    <2> DEFINE x == n - j + 1
    <2>9. x \in 1 .. i - 1 /\ x \in 1 .. Len(v) /\ n - x + 1 = j
      BY <2>1, <2>2, <2>3, <2>4, <2>7, <2>8 DEF m
    <2> HIDE DEF x
    <2>10. v[x].key = rows[j].key
      BY <1>2, <2>9
    <2> QED
      BY <2>1, <2>2, <2>9, <2>10
  <1> QED
    BY <1>3, <1>5, <1>7, <1>8 DEF rows

\* A key that is not counted may be told again.
Unsent(h, k) == k \in Key => ~Sent(Rows(h, Notices), k)

\* What this process has told is in the database, unless that is lost.
Orderly(h) ==
    /\ SentLast(h.db[Notices]) /\ SentLast(h.own[Notices])
    /\ ~h.disabled => \A k \in Key : Sent(h.own[Notices], k) => Sent(h.db[Notices], k)

One(b) == IF b THEN 1 ELSE 0

\* How often a key may have been told: once on record, and once for each call
\* or process that ended unanswered and each database that was lost.  A process
\* without its database has not used up its own until it has told the key.
Bound(h, f, k) ==
    One(Sent(h.db[Notices], k)) + f.unanswered + f.sql
      - (IF h.disabled THEN 1 - One(Sent(h.own[Notices], k)) ELSE 0)

FaultCount == [count: Nat, unanswered: Nat, sql: Nat]

LEMMA BoundIs ==
    ASSUME NEW h, NEW f \in FaultCount, NEW k
    PROVE  /\ Bound(h, f, k) \in Int
           /\ Bound(h, f, k) <= 1 + f.unanswered + f.sql
           /\ \A g \in FaultCount :
                Bound(h, g, k) = Bound(h, f, k) + (g.unanswered - f.unanswered) + (g.sql - f.sql)
  <1> DEFINE a == One(Sent(h.db[Notices], k))
             b == One(Sent(h.own[Notices], k))
  <1>1. a \in 0 .. 1 /\ b \in 0 .. 1
    BY DEF One
  <1>2. \A g : Bound(h, g, k) = a + g.unanswered + g.sql - (IF h.disabled THEN 1 - b ELSE 0)
    BY DEF Bound
  <1> HIDE DEF a, b
  <1>3. \A g \in FaultCount : g.unanswered \in Nat /\ g.sql \in Nat
    BY DEF FaultCount
  <1> QED
    BY <1>1, <1>2, <1>3

LEMMA SentAppend ==
    ASSUME NEW q \in Seq(Notice), NEW row \in Notice
    PROVE  /\ \A k : Sent(Append(q, row), k) <=> Sent(q, k) \/ (row.key = k /\ row.status = "sent")
           /\ SentLast(q) /\ (row.key \in Key => ~Sent(q, row.key)) => SentLast(Append(q, row))
  <1> DEFINE t == Append(q, row)
             n == Len(q)
  <1>1. /\ n \in Nat /\ Len(t) = n + 1 /\ t[n + 1] = row
        /\ \A i \in 1 .. n : t[i] = q[i]
    OBVIOUS
  <1>2. \A i : i \in 1 .. n + 1 <=> i \in 1 .. n \/ i = n + 1
    BY <1>1
  <1> HIDE DEF t
  <1>3. \A k : Sent(t, k) <=> Sent(q, k) \/ (row.key = k /\ row.status = "sent")
    BY <1>1, <1>2 DEF Sent
  <1>4. ASSUME SentLast(q), row.key \in Key => ~Sent(q, row.key)
        PROVE  SentLast(t)
    <2> SUFFICES ASSUME NEW i \in 1 .. n + 1, NEW j \in 1 .. n + 1,
                        i < j, t[i].key \in Key, t[i].key = t[j].key
                 PROVE  t[i].status # "sent"
      BY <1>1 DEF SentLast
    <2>1. i \in 1 .. n
      BY <1>1
    <2>2. CASE j \in 1 .. n
      BY <1>1, <1>4, <2>1, <2>2 DEF SentLast
    <2>3. CASE j = n + 1
      BY <1>1, <1>4, <2>1, <2>3 DEF Sent
    <2> QED
      BY <1>2, <2>2, <2>3
  <1> QED
    BY <1>3, <1>4 DEF t

LEMMA NoticeStored ==
    ASSUME NEW h, Stored(h), NEW row \in Notice
    PROVE  LET g == WithRow(h, Notices, row) IN
           /\ Stored(g) /\ g.disabled = h.disabled
           /\ g.own[Notices] = Append(h.own[Notices], row)
           /\ g.db[Notices] = IF h.disabled THEN h.db[Notices] ELSE Append(h.db[Notices], row)
  <1> DEFINE g == WithRow(h, Notices, row)
             own == Append(h.own[Notices], row)
             db == IF h.disabled THEN h.db[Notices] ELSE Append(h.db[Notices], row)
  <1>1. own \in Seq(Notice) /\ db \in Seq(Notice)
    BY DEF Stored, Tables
  <1> HIDE DEF own, db
  <1>2. g = [h EXCEPT !.own[Notices] = own, !.db[Notices] = db]
    BY DEF WithRow, own, db
  <1>3. /\ DOMAIN g = {"db", "own", "disabled"} /\ g.disabled = h.disabled
        /\ DOMAIN g.own = Table /\ DOMAIN g.db = Table
        /\ g.own[Notices] = own /\ g.db[Notices] = db
        /\ \A t \in Table \ {Notices} : g.own[t] = h.own[t] /\ g.db[t] = h.db[t]
    <2>1. /\ DOMAIN g = {"db", "own", "disabled"} /\ g.disabled = h.disabled
          /\ g.own = [h.own EXCEPT ![Notices] = own] /\ g.db = [h.db EXCEPT ![Notices] = db]
      BY <1>2 DEF Stored
    <2>2. DOMAIN h.own = Table /\ DOMAIN h.db = Table /\ Notices \in Table
      BY DEF Stored, Tables, Notices, Table
    <2> HIDE DEF g, Notices
    <2> QED
      BY <2>1, <2>2
  <1> HIDE DEF g
  <1>4. Stored(g)
    BY <1>1, <1>3 DEF Stored, Tables, Notices, Table
  <1> QED
    BY <1>3, <1>4 DEF g, own, db

\* A row of a delivery whose key was not on record.
LEMMA NoticeOrderly ==
    ASSUME NEW h, Stored(h), Orderly(h), NEW row \in Notice, Unsent(h, row.key)
    PROVE  LET g == WithRow(h, Notices, row) IN
           /\ Orderly(g)
           /\ \A f \in FaultCount, k \in Key :
                Bound(g, f, k) = Bound(h, f, k) + One(row.key = k /\ row.status = "sent")
           /\ \A k : Unsent(h, k) /\ (row.status # "sent" \/ k # row.key) => Unsent(g, k)
  <1> DEFINE g == WithRow(h, Notices, row)
             db == h.db[Notices]
             own == h.own[Notices]
  <1>1. db \in Seq(Notice) /\ own \in Seq(Notice)
    BY DEF Stored, Tables
  <1>2. /\ g.disabled = h.disabled /\ g.own[Notices] = Append(own, row)
        /\ g.db[Notices] = IF h.disabled THEN db ELSE Append(db, row)
    BY NoticeStored
  <1> HIDE DEF g, db, own
  <1>3. /\ \A k : Sent(Append(db, row), k) <=> Sent(db, k) \/ (row.key = k /\ row.status = "sent")
        /\ \A k : Sent(Append(own, row), k) <=> Sent(own, k) \/ (row.key = k /\ row.status = "sent")
    BY <1>1, SentAppend
  <1>4. /\ SentLast(db) /\ SentLast(own)
        /\ ~h.disabled => \A k \in Key : Sent(own, k) => Sent(db, k)
    BY DEF Orderly, db, own
  <1>5. row.key \in Key => ~Sent(own, row.key) /\ (~h.disabled => ~Sent(db, row.key))
    BY <1>4 DEF Unsent, Rows, db, own
  <1>6. SentLast(Append(own, row)) /\ (~h.disabled => SentLast(Append(db, row)))
    BY <1>1, <1>4, <1>5, SentAppend
  <1>7. Orderly(g)
    BY <1>2, <1>3, <1>4, <1>6 DEF Orderly
  <1>8. ASSUME NEW f \in FaultCount, NEW k \in Key
        PROVE  Bound(g, f, k) = Bound(h, f, k) + One(row.key = k /\ row.status = "sent")
    <2> DEFINE a == One(Sent(db, k))
               b == One(Sent(own, k))
               x == One(row.key = k /\ row.status = "sent")
    <2>1. a \in 0 .. 1 /\ b \in 0 .. 1 /\ x \in 0 .. 1 /\ f.unanswered \in Nat /\ f.sql \in Nat
      BY DEF One, FaultCount
    <2>2. One(Sent(g.own[Notices], k)) = b + x
      BY <1>2, <1>3, <1>5 DEF One
    <2>3. One(Sent(g.db[Notices], k)) = IF h.disabled THEN a ELSE a + x
      BY <1>2, <1>3, <1>5 DEF One
    <2>4. Bound(h, f, k) = a + f.unanswered + f.sql - (IF h.disabled THEN 1 - b ELSE 0)
      BY DEF Bound, db, own
    <2> HIDE DEF a, b, x
    <2>5. Bound(g, f, k) = (IF h.disabled THEN a ELSE a + x) + f.unanswered + f.sql
                           - (IF h.disabled THEN 1 - (b + x) ELSE 0)
      BY <1>2, <2>2, <2>3 DEF Bound
    <2> QED
      BY <2>1, <2>4, <2>5 DEF x
  <1>9. ASSUME NEW k, Unsent(h, k), row.status # "sent" \/ k # row.key
        PROVE  Unsent(g, k)
    BY <1>2, <1>3, <1>9 DEF Unsent, Rows, db, own
  <1> QED
    BY <1>7, <1>8, <1>9 DEF g

\* The database is lost or tried again.
LEMMA ConnectionOrderly ==
    ASSUME NEW h, Stored(h), Orderly(h)
    PROVE  /\ Stored(DatabaseLost(h)) /\ Orderly(DatabaseLost(h))
           /\ Stored(NewProcess(h)) /\ Orderly(NewProcess(h))
           /\ \A f \in FaultCount, k \in Key : Bound(h, f, k) <= Bound(NewProcess(h), f, k)
           /\ ~h.disabled =>
                /\ \A f \in FaultCount, k \in Key : Bound(h, f, k) <= Bound(DatabaseLost(h), f, k) + 1
                /\ \A k : Unsent(h, k) => Unsent(DatabaseLost(h), k)
  <1> DEFINE l == DatabaseLost(h)
             n == NewProcess(h)
  <1>1. l.db = h.db /\ l.own = h.own /\ l.disabled = TRUE /\ DOMAIN l = {"db", "own", "disabled"}
    BY DEF DatabaseLost, Stored
  <1>2. n.db = h.db /\ n.own = Empty /\ n.disabled = FALSE /\ DOMAIN n = {"db", "own", "disabled"}
    BY DEF NewProcess, Stored
  <1>3. Tables(Empty) /\ Len(Empty[Notices]) = 0
    <2>1. DOMAIN Empty = Table /\ \A t \in Table : Empty[t] = <<>>
      BY DEF Empty
    <2> QED
      BY <2>1, EmptySeq DEF Tables, Table, Notices
  <1>4. Stored(l) /\ Stored(n)
    BY <1>1, <1>2, <1>3 DEF Stored
  <1>5. ~Sent(Empty[Notices], 0) /\ \A k : ~Sent(Empty[Notices], k)
    BY <1>3 DEF Sent
  <1>6. Orderly(l) /\ Orderly(n)
    BY <1>1, <1>2, <1>3, <1>5 DEF Orderly, SentLast
  <1>7. ASSUME NEW f \in FaultCount, NEW k \in Key
        PROVE  /\ Bound(h, f, k) <= Bound(n, f, k)
               /\ Bound(h, f, k) <= Bound(l, f, k) + 1
    <2> DEFINE a == One(Sent(h.db[Notices], k))
               b == One(Sent(h.own[Notices], k))
    <2>1. a \in 0 .. 1 /\ b \in 0 .. 1 /\ f.unanswered \in Nat /\ f.sql \in Nat
      BY DEF One, FaultCount
    <2>2. /\ Bound(h, f, k) = a + f.unanswered + f.sql - (IF h.disabled THEN 1 - b ELSE 0)
          /\ Bound(n, f, k) = a + f.unanswered + f.sql
          /\ Bound(l, f, k) = a + f.unanswered + f.sql - (1 - b)
      <3> HIDE DEF l, n
      <3>1. Bound(n, f, k) = a + f.unanswered + f.sql - 0
        BY <1>2 DEF Bound
      <3>2. Bound(l, f, k) = a + f.unanswered + f.sql - (1 - b)
        BY <1>1 DEF Bound
      <3> HIDE DEF a, b
      <3> QED
        BY <2>1, <3>1, <3>2 DEF Bound, a, b
    <2> HIDE DEF a, b, l, n
    <2> QED
      BY <2>1, <2>2
  <1>8. ASSUME ~h.disabled, NEW k, Unsent(h, k)
        PROVE  Unsent(l, k)
    BY <1>1, <1>8 DEF Unsent, Rows, Orderly
  <1> HIDE DEF l, n
  <1> QED
    BY <1>4, <1>6, <1>7, <1>8 DEF l, n

-----------------------------------------------------------------------------
(* The invariant.                                                           *)

Delivery == [key: TradeKey \union LoopKey, severity: Severity, attempt: Nat \ {0}]

\* A delivery is of a key that is not on record.
Delivering(h, j) ==
    j # None => j \in Delivery /\ j.attempt <= Attempts(j.severity) /\ Unsent(h, j.key)

\* What is left to retry is not on record either, and each key waits once.
Waiting(h, p, j, t) ==
    /\ t \in Seq(Item \union Notice)
    /\ p = "pending" =>
         \A a \in 1 .. Len(t) :
            /\ Unsent(h, t[a].key)
            /\ \A b \in 1 .. Len(t) : t[a].key = t[b].key => a = b
            /\ j # None => t[a].key # j.key

Placed(p, c) ==
    /\ p \in {"down", "starting", "poll", "commands", "transfer", "confirm", "proactive", "pending"}
    /\ IF p \in {"transfer", "confirm"} THEN c \in Update ELSE c = None

Counted(h, f, r) == r \in [Key -> Int] /\ \A k \in Key : 0 <= r[k] /\ r[k] <= Bound(h, f, k)

\* What the history says of the deliveries.
Kept(h, p, j, t) == Stored(h) /\ Orderly(h) /\ Delivering(h, j) /\ Waiting(h, p, j, t)

Honest ==
    /\ faults \in FaultCount
    /\ Kept(history, pc, job, todo)
    /\ Counted(history, faults, received)
    /\ Placed(pc, current)

\* The same notices, wherever else rows were added.
SameNotices(h, g) ==
    /\ g.disabled = h.disabled
    /\ g.db[Notices] = h.db[Notices] /\ g.own[Notices] = h.own[Notices]

LEMMA SameOrderly ==
    ASSUME NEW h, NEW g, SameNotices(h, g), Orderly(h)
    PROVE  /\ Orderly(g) /\ \A k : Unsent(h, k) <=> Unsent(g, k)
           /\ \A f, k : Bound(g, f, k) = Bound(h, f, k)
  <1>1. Rows(g, Notices) = Rows(h, Notices)
    BY DEF SameNotices, Rows
  <1>2. Orderly(g)
    BY DEF SameNotices, Orderly
  <1>3. \A f, k : Bound(g, f, k) = Bound(h, f, k)
    BY DEF SameNotices, Bound
  <1> QED
    BY <1>1, <1>2, <1>3 DEF Unsent

LEMMA FaultCounts ==
    ASSUME NEW kind, Fault(kind), faults \in FaultCount
    PROVE  /\ faults' \in FaultCount
           /\ faults'.unanswered = faults.unanswered + One(kind \in {"lost", "kill"})
           /\ faults'.sql = faults.sql + One(kind = "sql")
  BY DEF Fault, FaultCount, One

\* A step that delivers nothing.
LEMMA CountedKept ==
    ASSUME NEW h, NEW g, NEW e \in FaultCount, NEW f \in FaultCount, NEW r,
           Counted(h, e, r), \A k \in Key : Bound(h, e, k) <= Bound(g, f, k)
    PROVE  Counted(g, f, r)
  <1>1. \A k \in Key : Bound(h, e, k) \in Int /\ Bound(g, f, k) \in Int
    BY BoundIs
  <1> QED
    BY <1>1 DEF Counted

\* A step that puts one message into the chat.
LEMMA CountedReached ==
    ASSUME NEW h, NEW g, NEW e \in FaultCount, NEW f \in FaultCount, NEW j,
           Counted(h, e, received), Reaches(j),
           \A k \in Key : Bound(h, e, k) + One(j.key = k) <= Bound(g, f, k)
    PROVE  Counted(g, f, received')
  <1>1. \A k \in Key : /\ Bound(h, e, k) \in Int /\ Bound(g, f, k) \in Int
                       /\ One(j.key = k) \in {0, 1}
    BY BoundIs DEF One
  <1>2. received \in [Key -> Int]
    BY DEF Counted
  <1>3. received' \in [Key -> Int] /\ \A k \in Key : received'[k] = received[k] + One(j.key = k)
    BY <1>2 DEF Reaches, One
  <1> QED
    BY <1>1, <1>3 DEF Counted

LEMMA AttemptsPositive == \A severity : Attempts(severity) \in Nat \ {0}
  BY NotifierConstants DEF Attempts

LEMMA JobDelivery ==
    ASSUME NEW key \in TradeKey \union LoopKey, NEW severity \in Severity
    PROVE  /\ Job(key, severity) \in Delivery /\ Job(key, severity).key = key
           /\ Job(key, severity).attempt <= Attempts(Job(key, severity).severity)
  <1>1. Attempts(severity) \in Nat \ {0}
    BY AttemptsPositive
  <1> QED
    BY <1>1 DEF Job, Delivery

\* A step that leaves what is told to the flushes alone, and starts at most a
\* message of the loop's own.
LEMMA QuietHonest ==
    ASSUME Honest, Stored(history'), SameNotices(history, history'),
           UNCHANGED <<todo, received>>, Placed(pc', current'),
           \/ job' = job /\ (pc' = "pending" => pc = "pending")
           \/ pc' # "pending" /\ \E key \in LoopKey : job' = Job(key, "INFO"),
           faults' = faults \/ \E kind \in {"lost", "timeout", "refused", "kill"} : Fault(kind)
    PROVE  Honest'
  <1>1. /\ Orderly(history') /\ \A k : Unsent(history, k) <=> Unsent(history', k)
        /\ \A f, k : Bound(history', f, k) = Bound(history, f, k)
    BY SameOrderly DEF Honest, Kept
  <1>2. faults' \in FaultCount /\ \A k \in Key : Bound(history, faults, k) <= Bound(history', faults', k)
    <2>1. faults \in FaultCount
      BY DEF Honest
    <2>2. CASE faults' = faults
      BY <1>1, <2>1, <2>2, BoundIs
    <2>3. ASSUME NEW kind \in {"lost", "timeout", "refused", "kill"}, Fault(kind)
          PROVE  /\ faults' \in FaultCount
                 /\ \A k \in Key : Bound(history, faults, k) <= Bound(history', faults', k)
      <3> DEFINE a == One(kind \in {"lost", "kill"})
      <3>1. a \in {0, 1} /\ a \in Int /\ 0 \in Int
        BY DEF One
      <3>2. /\ faults' \in FaultCount /\ faults'.unanswered = faults.unanswered + a
            /\ faults'.sql = faults.sql + 0
        BY <2>1, <2>3, FaultCounts DEF One
      <3> HIDE DEF a
      <3>3. ASSUME NEW k \in Key
            PROVE  Bound(history, faults, k) <= Bound(history', faults', k)
        <4>1. /\ Bound(history', faults', k) = Bound(history', faults, k)
                   + (faults'.unanswered - faults.unanswered) + (faults'.sql - faults.sql)
              /\ Bound(history', faults, k) \in Int
          BY <2>1, <3>2, BoundIs
        <4>2. faults.unanswered \in Nat /\ faults.sql \in Nat
          BY <2>1 DEF FaultCount
        <4> QED
          BY <1>1, <3>1, <3>2, <4>1, <4>2
      <3> QED
        BY <3>2, <3>3
    <2> QED
      BY <2>2, <2>3
  <1>3. Counted(history', faults', received')
    BY <1>2, CountedKept DEF Honest
  <1>4. Delivering(history', job') /\ Waiting(history', pc', job', todo')
    <2>1. CASE job' = job /\ (pc' = "pending" => pc = "pending")
      BY <1>1, <2>1 DEF Honest, Kept, Delivering, Waiting
    <2>2. CASE pc' # "pending" /\ \E key \in LoopKey : job' = Job(key, "INFO")
      <3>1. PICK key \in LoopKey : job' = Job(key, "INFO")
        BY <2>2
      <3>2. job' \in Delivery /\ job'.key = key /\ job'.attempt <= Attempts(job'.severity)
        BY <3>1, JobDelivery DEF Severity
      <3>3. Unsent(history', key)
        BY CountedKeys DEF Unsent
      <3> QED
        BY <2>2, <3>2, <3>3 DEF Honest, Kept, Delivering, Waiting
    <2> QED
      BY <2>1, <2>2
  <1> QED
    BY <1>1, <1>2, <1>3, <1>4 DEF Honest, Kept

-----------------------------------------------------------------------------
(* Each step keeps the invariant.                                           *)

LEMMA NotificationNotice ==
    ASSUME NEW j \in Delivery, NEW status \in {"sent", "failed"}
    PROVE  LET row == Notification(j, status)
           IN  row \in Notice /\ row.key = j.key /\ row.status = status
  <1>1. j.key \in TradeKey \union LoopKey /\ j.severity \in Severity
    BY DEF Delivery
  <1> QED
    BY <1>1 DEF Notification, Notice

\* What becomes of the lists when a delivery ends with a row in the history.
LEMMA RowKept ==
    ASSUME NEW h, NEW p, NEW j, NEW t, Kept(h, p, j, t), j # None,
           NEW status \in {"sent", "failed"},
           NEW g, g = WithRow(h, Notices, Notification(j, status))
    PROVE  /\ Kept(g, p, None, t)
           /\ \A f \in FaultCount, k \in Key :
                Bound(g, f, k) = Bound(h, f, k) + One(j.key = k /\ status = "sent")
  <1> DEFINE row == Notification(j, status)
  <1>0. g = WithRow(h, Notices, row)
    OBVIOUS
  <1>1. j \in Delivery /\ Unsent(h, j.key) /\ Stored(h) /\ Orderly(h) /\ Waiting(h, p, j, t)
    BY DEF Kept, Delivering
  <1>2. row \in Notice /\ row.key = j.key /\ row.status = status
    BY <1>1, NotificationNotice
  <1> HIDE DEF row
  <1>3. Stored(g)
    BY <1>0, <1>1, <1>2, NoticeStored
  <1>4. /\ Orderly(g)
        /\ \A f \in FaultCount, k \in Key :
             Bound(g, f, k) = Bound(h, f, k) + One(row.key = k /\ row.status = "sent")
        /\ \A k : Unsent(h, k) /\ (row.status # "sent" \/ k # row.key) => Unsent(g, k)
    <2>1. Unsent(h, row.key)
      BY <1>1, <1>2
    <2> QED
      BY <1>0, <1>1, <1>2, <2>1, NoticeOrderly
  <1>5. Waiting(g, p, None, t)
    BY <1>1, <1>2, <1>4 DEF Waiting
  <1>6. Kept(g, p, None, t)
    BY <1>3, <1>4, <1>5 DEF Kept, Delivering
  <1> QED
    BY <1>2, <1>4, <1>6 DEF row

LEMMA DiesHonest ==
    ASSUME NEW h, Dies(h), Stored(h), Orderly(h), faults' \in FaultCount,
           Counted(h, faults', received')
    PROVE  Honest'
  <1>1. /\ Stored(NewProcess(h)) /\ Orderly(NewProcess(h))
        /\ \A f \in FaultCount, k \in Key : Bound(h, f, k) <= Bound(NewProcess(h), f, k)
    BY ConnectionOrderly
  <1>2. history' = NewProcess(h) /\ pc' = "down" /\ job' = None /\ todo' = <<>> /\ current' = None
    BY DEF Dies
  <1>3. Counted(history', faults', received')
    BY <1>1, <1>2, CountedKept
  <1>4. Kept(history', pc', job', todo')
    BY <1>1, <1>2, EmptySeq DEF Kept, Delivering, Waiting
  <1> QED
    BY <1>2, <1>3, <1>4 DEF Honest, Placed

\* A row is written, and the flush goes on, is given up, or the process ends.
LEMMA DeliveryFailsHonest ==
    ASSUME Honest, NEW error, NEW h, DeliveryFails(error, h), Kept(h, pc, None, todo),
           faults' \in FaultCount, Counted(h, faults', received')
    PROVE  Honest'
  <1>1. CASE pc # "proactive"
    BY <1>1 DEF DeliveryFails, Honest
  <1>2. CASE pc = "proactive" /\ error \in {"timeout", "lost"}
    <2>1. pc' = "poll" /\ job' = None /\ todo' = <<>> /\ history' = h /\ current' = current
      BY <1>2 DEF DeliveryFails
    <2>2. Kept(history', pc', job', todo')
      BY <2>1, EmptySeq DEF Kept, Delivering, Waiting
    <2> QED
      BY <1>2, <2>1, <2>2 DEF Honest, Placed
  <1>3. CASE pc = "proactive" /\ error \notin {"timeout", "lost"}
    <2>1. Dies(h)
      BY <1>3 DEF DeliveryFails
    <2> QED
      BY <2>1, DiesHonest DEF Kept
  <1> QED
    BY <1>1, <1>2, <1>3

LEMMA SucceedsHonest ==
    ASSUME Honest, job # None, SendSucceeds, Reaches(job)
    PROVE  Honest'
  <1> DEFINE h == WithRow(history, Notices, Notification(job, "sent"))
  <1>1. history' = h /\ job' = None /\ UNCHANGED <<pc, todo, current, faults>>
    BY DEF SendSucceeds, Notices
  <1>2. /\ Kept(h, pc, None, todo)
        /\ \A f \in FaultCount, k \in Key : Bound(h, f, k) = Bound(history, f, k) + One(job.key = k)
    <2>1. Kept(history, pc, job, todo)
      BY DEF Honest
    <2>2. /\ Kept(h, pc, None, todo)
          /\ \A f \in FaultCount, k \in Key :
               Bound(h, f, k) = Bound(history, f, k) + One(job.key = k /\ "sent" = "sent")
      <3>1. "sent" \in {"sent", "failed"} /\ h = WithRow(history, Notices, Notification(job, "sent"))
        OBVIOUS
      <3> HIDE DEF h
      <3> QED
        BY <2>1, <3>1, RowKept
    <2>3. \A k : One(job.key = k /\ "sent" = "sent") = One(job.key = k)
      BY DEF One
    <2> HIDE DEF h
    <2> QED
      BY <2>2, <2>3
  <1> HIDE DEF h
  <1>3. \A k \in Key : Bound(history, faults, k) + One(job.key = k) <= Bound(h, faults, k)
    <2> TAKE k \in Key
    <2>1. Bound(h, faults, k) \in Int
      BY BoundIs DEF Honest
    <2> QED
      BY <1>2, <2>1 DEF Honest
  <1>4. Counted(h, faults, received')
    BY <1>3, CountedReached DEF Honest
  <1> QED
    BY <1>1, <1>2, <1>4 DEF Honest

\* A failed attempt may have been delivered, but then it ended unanswered.
LEMMA FailsHonest ==
    ASSUME Honest, job # None, NEW error, SendFails(error),
           \/ error = "lost" /\ Reaches(job)
           \/ error # "lost" /\ UNCHANGED received
    PROVE  Honest'
  <1> DEFINE h == WithRow(history, Notices, Notification(job, "failed"))
             a == One(error = "lost")
  <1>1. error \in {"timeout", "lost", "refused"} /\ Fault(error) /\ faults \in FaultCount
    BY DEF SendFails, Honest
  <1>2. /\ faults' \in FaultCount /\ faults'.unanswered = faults.unanswered + a
        /\ faults'.sql = faults.sql /\ a \in {0, 1}
    <2>1. One(error \in {"lost", "kill"}) = a /\ One(error = "sql") = 0 /\ a \in {0, 1}
      BY <1>1 DEF One
    <2>2. faults.sql \in Nat
      BY <1>1 DEF FaultCount
    <2> HIDE DEF a
    <2> QED
      BY <1>1, <2>1, <2>2, FaultCounts
  <1> HIDE DEF a
  <1>3. /\ Kept(h, pc, None, todo)
        /\ \A f \in FaultCount, k \in Key :
             Bound(h, f, k) = Bound(history, f, k) + One(job.key = k /\ "failed" = "sent")
    <2>1. Kept(history, pc, job, todo)
      BY DEF Honest
    <2> QED
      <3>1. "failed" \in {"sent", "failed"} /\ h = WithRow(history, Notices, Notification(job, "failed"))
        OBVIOUS
      <3> HIDE DEF h
      <3> QED
        BY <2>1, <3>1, RowKept
  <1> HIDE DEF h
  <1>4. ASSUME NEW k \in Key
        PROVE  /\ Bound(history, faults', k) = Bound(history, faults, k) + a
               /\ Bound(h, faults', k) = Bound(history, faults, k) + a
               /\ Bound(history, faults, k) \in Int
    <2>1. /\ Bound(history, faults', k) = Bound(history, faults, k)
               + (faults'.unanswered - faults.unanswered) + (faults'.sql - faults.sql)
          /\ Bound(history, faults, k) \in Int
      BY <1>1, <1>2, BoundIs
    <2>2. Bound(h, faults', k) = Bound(history, faults', k) + 0
      BY <1>2, <1>3 DEF One
    <2>3. faults.unanswered \in Nat /\ faults.sql \in Nat
      BY <1>1 DEF FaultCount
    <2> QED
      BY <1>2, <2>1, <2>2, <2>3
  <1>5. Counted(history, faults', received') /\ Counted(h, faults', received')
    <2>1. CASE error = "lost" /\ Reaches(job)
      <3>1. a = 1
        BY <2>1 DEF a, One
      <3>2. \A k \in Key : /\ Bound(history, faults, k) + One(job.key = k) <= Bound(history, faults', k)
                           /\ Bound(history, faults, k) + One(job.key = k) <= Bound(h, faults', k)
        BY <1>4, <3>1 DEF One
      <3> QED
        BY <1>1, <1>2, <2>1, <3>2, CountedReached DEF Honest
    <2>2. CASE error # "lost" /\ UNCHANGED received
      <3>1. \A k \in Key : /\ Bound(history, faults, k) <= Bound(history, faults', k)
                           /\ Bound(history, faults, k) <= Bound(h, faults', k)
        BY <1>2, <1>4
      <3> QED
        BY <1>1, <1>2, <2>2, <3>1, CountedKept DEF Honest
    <2> QED
      BY <2>1, <2>2
  <1>6. CASE job.attempt < Attempts(job.severity)
    <2>1. job' = [job EXCEPT !.attempt = @ + 1] /\ UNCHANGED <<pc, todo, current, history>>
      BY <1>6 DEF SendFails
    <2>2. job \in Delivery /\ Attempts(job.severity) \in Nat
      BY AttemptsPositive DEF Honest, Kept, Delivering
    <2>3. /\ job' \in Delivery /\ job'.key = job.key /\ job'.severity = job.severity
          /\ job'.attempt <= Attempts(job'.severity)
      BY <1>6, <2>1, <2>2 DEF Delivery
    <2>4. Kept(history', pc', job', todo')
      BY <2>1, <2>3 DEF Honest, Kept, Delivering, Waiting
    <2> QED
      BY <1>2, <1>5, <2>1, <2>4 DEF Honest
  <1>7. CASE ~(job.attempt < Attempts(job.severity))
    <2>1. DeliveryFails(error, h)
      BY <1>7 DEF SendFails, h, Notices
    <2> QED
      BY <1>2, <1>3, <1>5, <2>1, DeliveryFailsHonest
  <1> QED
    BY <1>6, <1>7

LEMMA SendHonest ==
    ASSUME Honest, Send
    PROVE  Honest'
  <1>1. CASE SendSucceeds /\ Reaches(job)
    BY <1>1, SucceedsHonest DEF Send
  <1>2. CASE SendFails("lost") /\ Reaches(job)
    <2>1. "lost" = "lost" /\ Reaches(job) /\ job # None /\ SendFails("lost")
      BY <1>2 DEF Send
    <2> QED
      BY <2>1, FailsHonest
  <1>3. CASE \E error \in {"timeout", "refused"} : SendFails(error) /\ UNCHANGED received
    BY <1>3, FailsHonest DEF Send
  <1> QED
    BY <1>1, <1>2, <1>3 DEF Send

\* The audit rows of the commands, and what the trader writes.
LEMMA AuditStored ==
    ASSUME NEW h, Stored(h), NEW row \in Audit, NEW g, g = WithRow(h, "risk_events", row)
    PROVE  Stored(g) /\ SameNotices(h, g)
  <1> DEFINE own == Append(h.own["risk_events"], row)
             db == IF h.disabled THEN h.db["risk_events"] ELSE Append(h.db["risk_events"], row)
  <1>1. own \in Seq(RiskRows \union Audit) /\ db \in Seq(RiskRows \union Audit)
    BY DEF Stored, Tables
  <1> HIDE DEF own, db
  <1>2. g = [h EXCEPT !.own["risk_events"] = own, !.db["risk_events"] = db]
    BY DEF WithRow, own, db
  <1>3. /\ DOMAIN g = {"db", "own", "disabled"} /\ g.disabled = h.disabled
        /\ DOMAIN g.own = Table /\ DOMAIN g.db = Table
        /\ g.own["risk_events"] = own /\ g.db["risk_events"] = db
        /\ \A t \in Table \ {"risk_events"} : g.own[t] = h.own[t] /\ g.db[t] = h.db[t]
    <2>1. /\ DOMAIN g = {"db", "own", "disabled"} /\ g.disabled = h.disabled
          /\ g.own = [h.own EXCEPT !["risk_events"] = own] /\ g.db = [h.db EXCEPT !["risk_events"] = db]
      BY <1>2 DEF Stored
    <2>2. DOMAIN h.own = Table /\ DOMAIN h.db = Table /\ "risk_events" \in Table
      BY DEF Stored, Tables, Table
    <2> QED
      BY <2>1, <2>2
  <1>4. {"orders", "positions", "execution_checkpoints", Notices} \subseteq Table \ {"risk_events"}
    BY DEF Table, Notices
  <1> QED
    BY <1>1, <1>3, <1>4 DEF Stored, Tables, SameNotices

LEMMA TraderStored ==
    ASSUME NEW h, Stored(h), NEW table \in DOMAIN TraderRows, NEW row \in TraderRows[table],
           NEW g, g = WrittenElsewhere(h, table, row)
    PROVE  Stored(g) /\ SameNotices(h, g)
  <1> DEFINE All == [TraderRows EXCEPT !["risk_events"] = RiskRows \union Audit]
             db == Append(h.db[table], row)
  <1>0. /\ table \in {"orders", "positions", "execution_checkpoints", "risk_events"}
        /\ DOMAIN All = {"orders", "positions", "execution_checkpoints", "risk_events"}
        /\ All["orders"] = OrderRows /\ All["positions"] = PositionRows
        /\ All["execution_checkpoints"] = CheckpointRows
        /\ All["risk_events"] = RiskRows \union Audit
        /\ row \in All[table]
    BY DEF TraderRows
  <1>1. \A t \in DOMAIN All : h.db[t] \in Seq(All[t])
    BY <1>0 DEF Stored, Tables
  <1> HIDE DEF All
  <1>2. db \in Seq(All[table])
    <2> DEFINE A == All[table]
               q == h.db[table]
    <2>1. q \in Seq(A) /\ row \in A
      BY <1>0, <1>1
    <2> HIDE DEF A, q
    <2>2. Append(q, row) \in Seq(A)
      BY <2>1, AppendProperties
    <2> QED
      BY <2>2 DEF A, q
  <1> HIDE DEF db
  <1>3. g = [h EXCEPT !.db[table] = db]
    BY DEF WrittenElsewhere, db
  <1>4. /\ DOMAIN g = {"db", "own", "disabled"} /\ g.disabled = h.disabled /\ g.own = h.own
        /\ DOMAIN g.db = Table /\ g.db[table] = db
        /\ \A t \in Table \ {table} : g.db[t] = h.db[t]
    BY <1>0, <1>3 DEF Stored, Tables, Table
  <1>5. \A t \in DOMAIN All : g.db[t] \in Seq(All[t])
    <2> TAKE t \in DOMAIN All
    <2>1. CASE t = table
      BY <1>2, <1>4, <2>1
    <2>2. CASE t # table
      BY <1>0, <1>1, <1>4, <2>2 DEF Table
    <2> QED
      BY <2>1, <2>2
  <1>6. Notices \in Table \ {table}
    BY <1>0 DEF Table, Notices
  <1> QED
    BY <1>0, <1>4, <1>5, <1>6 DEF Stored, Tables, SameNotices

LEMMA FetchHonest ==
    ASSUME Honest, FetchUpdates \/ FetchFails
    PROVE  Honest'
  <1>1. pc = "poll" /\ Stored(history) /\ SameNotices(history, history) /\ current = None
    BY DEF FetchUpdates, FetchFails, Asks, Honest, Kept, SameNotices, Placed
  <1>2. CASE FetchUpdates
    <2>1. pc' = "commands" /\ UNCHANGED <<job, todo, current, history, received, faults>>
      BY <1>2 DEF FetchUpdates
    <2>2. Placed(pc', current')
      BY <1>1, <2>1 DEF Placed
    <2> QED
      BY <1>1, <2>1, <2>2, QuietHonest
  <1>3. CASE FetchFails
    <2>1. PICK error \in {"timeout", "lost", "refused"} :
            /\ Fault(error)
            /\ \/ pc' = "commands" /\ UNCHANGED <<job, batch, todo, offset, current, history>>
               \/ Dies(history)
      BY <1>3 DEF FetchFails
    <2>2. received' = received
      BY <1>3 DEF FetchFails
    <2>3. CASE pc' = "commands" /\ UNCHANGED <<job, batch, todo, offset, current, history>>
      <3>1. Placed(pc', current')
        BY <1>1, <2>3 DEF Placed
      <3> QED
        BY <1>1, <2>1, <2>2, <2>3, <3>1, QuietHonest
    <2>4. CASE Dies(history)
      <3>1. faults' \in FaultCount /\ faults'.unanswered - faults.unanswered >= 0
            /\ faults'.sql - faults.sql >= 0
        <4>1. faults \in FaultCount /\ One(error \in {"lost", "kill"}) \in {0, 1}
              /\ One(error = "sql") \in {0, 1}
          BY DEF Honest, One
        <4>2. /\ faults' \in FaultCount
              /\ faults'.unanswered = faults.unanswered + One(error \in {"lost", "kill"})
              /\ faults'.sql = faults.sql + One(error = "sql")
          BY <2>1, <4>1, FaultCounts
        <4>3. faults.unanswered \in Nat /\ faults.sql \in Nat
          BY <4>1 DEF FaultCount
        <4> QED
          BY <4>1, <4>2, <4>3
      <3>2. Counted(history, faults', received')
        <4>1. ASSUME NEW k \in Key
              PROVE  Bound(history, faults, k) <= Bound(history, faults', k)
          <5>1. /\ Bound(history, faults', k) = Bound(history, faults, k)
                     + (faults'.unanswered - faults.unanswered) + (faults'.sql - faults.sql)
                /\ Bound(history, faults, k) \in Int
            BY <3>1, BoundIs DEF Honest
          <5>2. /\ faults'.unanswered - faults.unanswered \in Int
                /\ faults'.sql - faults.sql \in Int
            BY <3>1 DEF Honest, FaultCount
          <5> QED
            BY <3>1, <5>1, <5>2
        <4> QED
          BY <2>2, <3>1, <4>1, CountedKept DEF Honest
      <3> QED
        BY <2>4, <3>1, <3>2, DiesHonest DEF Honest, Kept
    <2> QED
      BY <2>1, <2>3, <2>4
  <1> QED
    BY <1>2, <1>3

LEMMA HandleHonest ==
    ASSUME Honest, NEW u \in Update, HandleUpdate(u)
    PROVE  Honest'
  <1>1. /\ pc = "commands" /\ job = None /\ UNCHANGED <<todo, received, faults>>
        /\ Stored(history) /\ SameNotices(history, history) /\ current = None
    BY DEF HandleUpdate, Honest, Kept, SameNotices, Placed
  <1>2. CASE UNCHANGED <<pc, job, current, history>>
    <2>1. Placed(pc', current')
      BY <1>1, <1>2 DEF Placed
    <2> QED
      BY <1>1, <1>2, <2>1, QuietHonest
  <1>3. CASE job' = Job(<<"command", u>>, "INFO") /\ UNCHANGED <<pc, current, history>>
    <2>1. <<"command", u>> \in LoopKey
      BY DEF LoopKey
    <2>2. Placed(pc', current')
      BY <1>1, <1>3 DEF Placed
    <2> QED
      BY <1>1, <1>3, <2>1, <2>2, QuietHonest
  <1>4. CASE /\ history' = WithRow(history, "risk_events",
                     [type |-> "manual_funds_requested", detail |-> "", update |-> u])
             /\ pc' = "transfer" /\ current' = u /\ UNCHANGED job
    <2>1. [type |-> "manual_funds_requested", detail |-> "", update |-> u] \in Audit
      BY DEF Audit, ManualTypes
    <2>2. Stored(history') /\ SameNotices(history, history')
      BY <1>1, <1>4, <2>1, AuditStored, Zenon
    <2>3. Placed(pc', current')
      BY <1>4 DEF Placed
    <2>4. job' = job /\ pc' # "pending"
      BY <1>4
    <2> HIDE <1>4
    <2> QED
      BY <1>1, <2>2, <2>3, <2>4, QuietHonest
  <1> QED
    BY <1>2, <1>3, <1>4 DEF HandleUpdate

\* An answer to a transfer.
LEMMA AnswerHonest ==
    ASSUME Honest, pc \in {"transfer", "confirm"}, NEW next \in {"confirm", "commands"},
           NEW type \in ManualTypes, TransferAnswered(type, next),
           UNCHANGED <<todo, received>>,
           faults' = faults \/ \E kind \in {"lost", "timeout", "refused", "kill"} : Fault(kind)
    PROVE  Honest'
  <1>1. Stored(history) /\ current \in Update
    BY DEF Honest, Kept, Placed
  <1>2. history' = WithRow(history, "risk_events", [type |-> type, detail |-> "", update |-> current])
    BY DEF TransferAnswered, ManualTypes
  <1>3. [type |-> type, detail |-> "", update |-> current] \in Audit
    BY <1>1 DEF Audit
  <1>4. Stored(history') /\ SameNotices(history, history')
    BY <1>1, <1>2, <1>3, AuditStored, Zenon
  <1>5. /\ pc' = next
        /\ \/ next = "confirm" /\ UNCHANGED <<job, current>>
           \/ /\ next # "confirm" /\ current' = None
              /\ job' = Job(<<"command", current>>, "INFO")
    BY DEF TransferAnswered
  <1>6. <<"command", current>> \in LoopKey
    BY <1>1 DEF LoopKey
  <1>7. Placed(pc', current') /\ pc' # "pending"
    BY <1>1, <1>5 DEF Placed
  <1>8. \/ job' = job
        \/ \E key \in LoopKey : job' = Job(key, "INFO")
    BY <1>5, <1>6
  <1> QED
    BY <1>4, <1>7, <1>8, QuietHonest

LEMMA TransferHonest ==
    ASSUME Honest, TransferFunds \/ ConfirmTransfer
    PROVE  Honest'
  <1>1. pc \in {"transfer", "confirm"} /\ UNCHANGED <<todo, received>>
    BY DEF TransferFunds, ConfirmTransfer
  <1>2. ASSUME NEW type \in ManualTypes, TransferAnswered(type, "commands"),
               faults' = faults \/ \E kind \in {"lost", "timeout", "refused"} : Fault(kind)
        PROVE  Honest'
    <2>1. faults' = faults \/ \E kind \in {"lost", "timeout", "refused", "kill"} : Fault(kind)
      BY <1>2
    <2> QED
      BY <1>1, <1>2, <2>1, AnswerHonest
  <1>3. "manual_funds_transfer_failed" \in ManualTypes
        /\ "manual_funds_transfer_submitted" \in ManualTypes
    BY DEF ManualTypes
  <1>4. CASE ConfirmTransfer
    BY <1>2, <1>3, <1>4 DEF ConfirmTransfer
  <1>5. CASE TransferAnswered("", "confirm") /\ UNCHANGED faults
    <2>1. history' = history /\ pc' = "confirm" /\ UNCHANGED <<job, current>>
      BY <1>5 DEF TransferAnswered
    <2>2. faults' = faults
      BY <1>5
    <2> HIDE <1>5
    <2>3. Stored(history') /\ SameNotices(history, history') /\ Placed(pc', current')
      BY <1>1, <2>1 DEF Honest, Kept, SameNotices, Placed
    <2> QED
      BY <1>1, <2>1, <2>2, <2>3, QuietHonest
  <1>6. CASE Fault("lost") /\ TransferAnswered("manual_funds_transfer_failed", "commands")
    BY <1>2, <1>3, <1>6
  <1>7. CASE TransferRefused
    BY <1>2, <1>3, <1>7 DEF TransferRefused
  <1>8. CASE TransferFunds
    <2>1. \/ TransferAnswered("", "confirm") /\ UNCHANGED faults
          \/ Fault("lost") /\ TransferAnswered("manual_funds_transfer_failed", "commands")
          \/ TransferRefused
      BY <1>8 DEF TransferFunds
    <2> QED
      BY <2>1, <1>5, <1>6, <1>7
  <1> QED
    BY <1>4, <1>8

LEMMA KilledHonest ==
    ASSUME Honest, Killed
    PROVE  Honest'
  <1>1. Fault("kill") /\ Dies(history) /\ faults \in FaultCount
    BY DEF Killed, Honest
  <1>2. /\ faults' \in FaultCount /\ faults'.unanswered = faults.unanswered + 1
        /\ faults'.sql = faults.sql
    <2>1. One("kill" \in {"lost", "kill"}) = 1 /\ One("kill" = "sql") = 0
      BY DEF One
    <2>2. faults.sql \in Nat
      BY <1>1 DEF FaultCount
    <2> QED
      BY <1>1, <2>1, <2>2, FaultCounts
  <1>3. \A k \in Key : /\ Bound(history, faults', k) = Bound(history, faults, k) + 1
                       /\ Bound(history, faults, k) \in Int
    <2> TAKE k \in Key
    <2>1. /\ Bound(history, faults', k) = Bound(history, faults, k)
               + (faults'.unanswered - faults.unanswered) + (faults'.sql - faults.sql)
          /\ Bound(history, faults, k) \in Int
      BY <1>1, <1>2, BoundIs
    <2>2. faults.unanswered \in Nat /\ faults.sql \in Nat
      BY <1>1 DEF FaultCount
    <2> QED
      BY <1>2, <2>1, <2>2
  <1>4. Counted(history, faults', received')
    <2>1. CASE received' = received
      <3>1. \A k \in Key : Bound(history, faults, k) <= Bound(history, faults', k)
        BY <1>3
      <3> QED
        BY <1>1, <1>2, <2>1, <3>1, CountedKept DEF Honest
    <2>2. CASE Reaches(job)
      <3>1. \A k \in Key : Bound(history, faults, k) + One(job.key = k) <= Bound(history, faults', k)
        BY <1>3 DEF One
      <3> QED
        BY <1>1, <1>2, <2>2, <3>1, CountedReached DEF Honest
    <2> QED
      BY <2>1, <2>2 DEF Killed
  <1> QED
    BY <1>1, <1>2, <1>4, DiesHonest DEF Honest, Kept

LEMMA DatabaseHonest ==
    ASSUME Honest, DatabaseFails
    PROVE  Honest'
  <1>1. /\ Fault("sql") /\ ~history.disabled /\ history' = DatabaseLost(history)
        /\ UNCHANGED <<pc, job, current, todo, received>> /\ faults \in FaultCount
    BY DEF DatabaseFails, Honest
  <1>2. /\ faults' \in FaultCount /\ faults'.unanswered = faults.unanswered
        /\ faults'.sql = faults.sql + 1
    <2>1. One("sql" \in {"lost", "kill"}) = 0 /\ One("sql" = "sql") = 1
      BY DEF One
    <2>2. faults.unanswered \in Nat
      BY <1>1 DEF FaultCount
    <2> QED
      BY <1>1, <2>1, <2>2, FaultCounts
  <1>3. /\ Stored(history') /\ Orderly(history')
        /\ \A f \in FaultCount, k \in Key : Bound(history, f, k) <= Bound(history', f, k) + 1
        /\ \A k : Unsent(history, k) => Unsent(history', k)
    BY <1>1, ConnectionOrderly DEF Honest, Kept
  <1>4. ASSUME NEW k \in Key
        PROVE  Bound(history, faults, k) <= Bound(history', faults', k)
    <2>1. /\ Bound(history', faults', k) = Bound(history', faults, k)
               + (faults'.unanswered - faults.unanswered) + (faults'.sql - faults.sql)
          /\ Bound(history', faults, k) \in Int /\ Bound(history, faults, k) \in Int
      BY <1>1, <1>2, BoundIs
    <2>2. faults.unanswered \in Nat /\ faults.sql \in Nat
      BY <1>1 DEF FaultCount
    <2> QED
      BY <1>1, <1>2, <1>3, <2>1, <2>2
  <1>5. Counted(history', faults', received')
    BY <1>1, <1>2, <1>4, CountedKept DEF Honest
  <1>6. Delivering(history', job') /\ Waiting(history', pc', job', todo')
    BY <1>1, <1>3 DEF Honest, Kept, Delivering, Waiting
  <1> QED
    BY <1>1, <1>2, <1>3, <1>5, <1>6 DEF Honest, Kept

LEMMA TraderHonest ==
    ASSUME Honest, TraderWrites
    PROVE  Honest'
  <1>1. PICK table \in DOMAIN TraderRows : \E row \in TraderRows[table] :
          history' = WrittenElsewhere(history, table, row)
    BY DEF TraderWrites
  <1>2. PICK row \in TraderRows[table] : history' = WrittenElsewhere(history, table, row)
    BY <1>1
  <1>3. Stored(history') /\ SameNotices(history, history')
    BY <1>2, TraderStored DEF Honest, Kept
  <1>4. UNCHANGED <<pc, job, todo, current, received, faults>>
    BY DEF TraderWrites
  <1>5. Placed(pc', current')
    BY <1>4 DEF Honest
  <1> QED
    BY <1>3, <1>4, <1>5, QuietHonest

\* What is left of a sequence without one of its items.
Without(r, t, i) ==
    \E e \in [1 .. Len(r) -> 1 .. Len(t)] :
        /\ \A a \in 1 .. Len(r) : r[a] = t[e[a]] /\ e[a] # i
        /\ \A a, b \in 1 .. Len(r) : e[a] = e[b] => a = b

LEMMA RemovedIs ==
    ASSUME NEW S, NEW t \in Seq(S), NEW i \in 1 .. Len(t)
    PROVE  RemoveAt(t, i) \in Seq(S) /\ Without(RemoveAt(t, i), t, i)
  <1> DEFINE n == Len(t)
             l == SubSeq(t, 1, i - 1)
             m == SubSeq(t, i + 1, n)
             r == l \o m
             e == [a \in 1 .. n - 1 |-> IF a < i THEN a ELSE a + 1]
  <1>1. n \in Nat /\ i \in Nat /\ i >= 1 /\ i <= n
    BY LenProperties
  <1>2. l \in Seq(S) /\ Len(l) = i - 1 /\ \A a \in 1 .. i - 1 : l[a] = t[a]
    <2>1. CASE i = 1
      <3>1. l = <<>>
        BY <1>1, <2>1, SubSeqEmpty
      <3> QED
        BY <2>1, <3>1, EmptySeq
    <2>2. CASE i > 1
      <3>1. /\ l \in Seq(S) /\ Len(l) = i - 1 - 1 + 1
            /\ \A a \in 1 .. i - 1 - 1 + 1 : l[a] = t[1 + a - 1]
        BY <1>1, <2>2, SubSeqProperties
      <3> HIDE DEF l
      <3>2. \A a \in 1 .. i - 1 : a \in 1 .. i - 1 - 1 + 1 /\ 1 + a - 1 = a
        BY <1>1
      <3> QED
        BY <1>1, <3>1, <3>2
    <2> QED
      BY <1>1, <2>1, <2>2
  <1>3. m \in Seq(S) /\ Len(m) = n - i /\ \A a \in 1 .. n - i : m[a] = t[i + a]
    <2>1. CASE i = n
      <3>1. m = <<>>
        BY <1>1, <2>1, SubSeqEmpty
      <3> QED
        BY <1>1, <2>1, <3>1, EmptySeq
    <2>2. CASE i < n
      <3>1. /\ m \in Seq(S) /\ Len(m) = n - (i + 1) + 1
            /\ \A a \in 1 .. n - (i + 1) + 1 : m[a] = t[i + 1 + a - 1]
        BY <1>1, <2>2, SubSeqProperties
      <3> HIDE DEF m
      <3>2. \A a \in 1 .. n - i : a \in 1 .. n - (i + 1) + 1 /\ i + 1 + a - 1 = i + a
        BY <1>1
      <3> QED
        BY <1>1, <3>1, <3>2
    <2> QED
      BY <1>1, <2>1, <2>2
  <1> HIDE DEF l, m
  <1>4. /\ r \in Seq(S) /\ Len(r) = n - 1
        /\ \A a \in 1 .. n - 1 : r[a] = IF a <= i - 1 THEN l[a] ELSE m[a - (i - 1)]
    <2>1. /\ r \in Seq(S) /\ Len(r) = Len(l) + Len(m)
          /\ \A a \in 1 .. Len(l) + Len(m) : r[a] = IF a <= Len(l) THEN l[a] ELSE m[a - Len(l)]
      BY <1>2, <1>3, ConcatProperties
    <2> HIDE DEF r
    <2> QED
      BY <1>1, <1>2, <1>3, <2>1
  <1> HIDE DEF r
  <1>5. e \in [1 .. Len(r) -> 1 .. n]
    BY <1>1, <1>4
  <1>6. \A a \in 1 .. n - 1 : r[a] = t[e[a]] /\ e[a] # i
    <2> TAKE a \in 1 .. n - 1
    <2>1. CASE a < i
      <3>1. a \in 1 .. i - 1 /\ a <= i - 1 /\ e[a] = a /\ a # i
        BY <1>1, <2>1
      <3> QED
        BY <1>2, <1>4, <3>1
    <2>2. CASE ~(a < i)
      <3> DEFINE c == a - (i - 1)
      <3>1. c \in 1 .. n - i /\ ~(a <= i - 1) /\ e[a] = a + 1 /\ i + c = a + 1 /\ a + 1 # i
        BY <1>1, <2>2
      <3>2. r[a] = m[c]
        BY <1>4, <3>1
      <3> HIDE DEF c, e
      <3> QED
        BY <1>3, <3>1, <3>2
    <2> QED
      BY <2>1, <2>2
  <1>7. \A a, b \in 1 .. n - 1 : e[a] = e[b] => a = b
    BY <1>1
  <1> HIDE DEF e
  <1>8. RemoveAt(t, i) = r
    BY DEF RemoveAt, r, l, m, n
  <1>9. /\ \A a \in 1 .. Len(r) : r[a] = t[e[a]] /\ e[a] # i
        /\ \A a, b \in 1 .. Len(r) : e[a] = e[b] => a = b
    BY <1>4, <1>6, <1>7
  <1> QED
    BY <1>4, <1>5, <1>8, <1>9 DEF n, Without

\* The steps of the flushes write nothing and deliver nothing.
LEMMA FlushHonest ==
    ASSUME Honest, UNCHANGED <<history, current, received, faults>>, Placed(pc', current'),
           Delivering(history, job'), Waiting(history, pc', job', todo')
    PROVE  Honest'
  BY DEF Honest, Kept

LEMMA BeginProactiveHonest ==
    ASSUME Honest, BeginProactiveFlush
    PROVE  Honest'
  <1> DEFINE found == Candidates(history)
             good == {c \in ToSet(found) \ {NoCandidate} : c.key \notin SentKeys(history)}
             Maybe == Item \union {NoCandidate}
  <1>1. /\ pc = "commands" /\ pc' = "proactive" /\ todo' = Only(good, found)
        /\ UNCHANGED <<job, history, current, received, faults>>
    BY DEF BeginProactiveFlush
  <1>2. found \in Seq(Maybe)
    BY CandidatesAre DEF Honest, Kept
  <1>3. todo' \in Seq(Item)
    <2> DEFINE q == Only(good, found)
    <2>1. q \in Seq(Maybe) /\ OneOfEach(q, found, good, Len(found))
      <3> HIDE DEF Maybe, good, found
      <3> QED
        BY <1>2, OnlyIs
    <2>2. \A i \in 1 .. Len(q) : q[i] \in good
      <3> HIDE DEF good, found, q
      <3> QED
        BY <2>1 DEF OneOfEach
    <2>3. \A i \in 1 .. Len(q) : q[i] # NoCandidate
      <3>1. NoCandidate \notin good
        OBVIOUS
      <3> HIDE DEF good, found, q
      <3> QED
        BY <2>2, <3>1
    <2> HIDE DEF q
    <2>4. \A i \in 1 .. Len(q) : q[i] \in Item
      <3>1. \A i \in 1 .. Len(q) : q[i] \in Maybe
        <4> HIDE DEF Maybe
        <4> QED
          BY <2>1, ElementOfSeq
      <3> QED
        BY <2>3, <3>1
    <2>5. q = [i \in 1 .. Len(q) |-> q[i]] /\ Len(q) \in Nat
      <3> HIDE DEF Maybe
      <3> QED
        BY <2>1
    <2>6. q \in Seq(Item)
      BY <2>4, <2>5
    <2> QED
      BY <1>1, <2>6 DEF q
  <1> HIDE DEF found, good
  <1>4. todo' \in Seq(Item \union Notice)
    <2>1. Item \subseteq Item \union Notice
      OBVIOUS
    <2> QED
      BY <1>3, <2>1, SeqMonotonic
  <1>5. Placed(pc', current') /\ Delivering(history, job') /\ Waiting(history, pc', job', todo')
    BY <1>1, <1>4 DEF Honest, Kept, Placed, Delivering, Waiting
  <1> QED
    BY <1>1, <1>5, FlushHonest

\* has_notification_event looks at every row, not at a window.
LEMMA TellHonest ==
    ASSUME Honest, TellCandidate
    PROVE  Honest'
  <1>1. PICK i \in DOMAIN todo :
          /\ todo' = RemoveAt(todo, i)
          /\ job' = IF HasNotification(history, todo[i].key, "sent") THEN None
                    ELSE Job(todo[i].key, todo[i].severity)
    BY DEF TellCandidate, Foremost
  <1>2. pc = "proactive" /\ UNCHANGED <<pc, history, current, received, faults>>
    BY DEF TellCandidate
  <1>3. todo \in Seq(Item \union Notice) /\ i \in 1 .. Len(todo)
    BY DEF Honest, Kept, Waiting
  <1> DEFINE x == todo[i]
  <1>4. x \in Item \union Notice
    BY <1>3, ElementOfSeq
  <1> HIDE DEF x
  <1>5. x.key \in TradeKey \union LoopKey /\ x.severity \in Severity
    BY <1>4 DEF Item, Notice
  <1>6. todo' \in Seq(Item \union Notice)
    BY <1>1, <1>3, RemovedIs, Zenon
  <1>7. ~HasNotification(history, x.key, "sent") => Unsent(history, x.key)
    <2>1. Rows(history, Notices) \in Seq(Notice)
      BY RowsOf DEF Honest, Kept
    <2>2. DOMAIN Rows(history, Notices) = 1 .. Len(Rows(history, Notices))
      BY <2>1
    <2> QED
      BY <2>2 DEF HasNotification, Unsent, Sent, Notices
  <1>8. Delivering(history, job')
    <2>1. job' = IF HasNotification(history, x.key, "sent") THEN None ELSE Job(x.key, x.severity)
      BY <1>1 DEF x
    <2> QED
      BY <1>5, <1>7, <2>1, JobDelivery DEF Delivering
  <1>9. Placed(pc', current') /\ Waiting(history, pc', job', todo')
    BY <1>2, <1>6 DEF Honest, Waiting
  <1> QED
    BY <1>2, <1>8, <1>9, FlushHonest

LEMMA BeginPendingHonest ==
    ASSUME Honest, BeginPendingFlush
    PROVE  Honest'
  <1>1. /\ pc = "proactive" /\ job = None /\ pc' = "pending" /\ todo' = Pending(history)
        /\ UNCHANGED <<job, history, current, received, faults>>
    BY DEF BeginPendingFlush, Pending
  <1>2. Stored(history) /\ SentLast(Rows(history, Notices))
    BY DEF Honest, Kept, Orderly, Rows
  <1> DEFINE q == Pending(history)
  <1>3. /\ q \in Seq(Notice)
        /\ \A a, b \in 1 .. Len(q) : q[a].key = q[b].key => a = b
        /\ \A a \in 1 .. Len(q) : q[a].key \in Key => ~Sent(Rows(history, Notices), q[a].key)
    BY <1>2, PendingIs
  <1> HIDE DEF q
  <1>4. q \in Seq(Item \union Notice)
    <2>1. Notice \subseteq Item \union Notice
      OBVIOUS
    <2> QED
      BY <1>3, <2>1, SeqMonotonic
  <1>5. Waiting(history, "pending", None, q)
    BY <1>3, <1>4 DEF Waiting, Unsent
  <1>6. Placed(pc', current') /\ Delivering(history, job') /\ Waiting(history, pc', job', todo')
    BY <1>1, <1>5 DEF Honest, Placed, Delivering, q
  <1> QED
    BY <1>1, <1>6, FlushHonest

LEMMA RetryHonest ==
    ASSUME Honest, RetryPending
    PROVE  Honest'
  <1>1. PICK i \in DOMAIN todo :
          todo' = RemoveAt(todo, i) /\ job' = Job(todo[i].key, todo[i].severity)
    BY DEF RetryPending, Foremost
  <1>2. pc = "pending" /\ job = None /\ UNCHANGED <<pc, history, current, received, faults>>
    BY DEF RetryPending
  <1>3. /\ todo \in Seq(Item \union Notice) /\ i \in 1 .. Len(todo)
        /\ \A a \in 1 .. Len(todo) :
             /\ Unsent(history, todo[a].key)
             /\ \A b \in 1 .. Len(todo) : todo[a].key = todo[b].key => a = b
    BY <1>2 DEF Honest, Kept, Waiting
  <1> DEFINE x == todo[i]
             r == RemoveAt(todo, i)
  <1>4. x \in Item \union Notice
    BY <1>3, ElementOfSeq
  <1>5. Unsent(history, x.key)
    BY <1>3
  <1>6. PICK e \in [1 .. Len(r) -> 1 .. Len(todo)] :
          /\ \A a \in 1 .. Len(r) : r[a] = todo[e[a]] /\ e[a] # i
          /\ \A a, b \in 1 .. Len(r) : e[a] = e[b] => a = b
    <2>1. Without(r, todo, i)
      BY <1>3, RemovedIs, Zenon
    <2> QED
      BY <2>1 DEF Without
  <1>7. r \in Seq(Item \union Notice)
    BY <1>3, RemovedIs, Zenon
  <1> HIDE DEF r
  <1>8. \A a \in 1 .. Len(r) :
          /\ Unsent(history, r[a].key) /\ r[a].key # x.key
          /\ \A b \in 1 .. Len(r) : r[a].key = r[b].key => a = b
    BY <1>3, <1>6
  <1> HIDE DEF x
  <1>9. x.key \in TradeKey \union LoopKey /\ x.severity \in Severity
    BY <1>4 DEF Item, Notice
  <1>10. job' = Job(x.key, x.severity) /\ todo' = r
    BY <1>1 DEF x, r
  <1>11. job'.key = x.key /\ Delivering(history, job')
    BY <1>5, <1>9, <1>10, JobDelivery DEF Delivering
  <1>12. Waiting(history, pc', job', todo')
    BY <1>7, <1>8, <1>10, <1>11 DEF Waiting
  <1>13. Placed(pc', current')
    BY <1>2 DEF Honest
  <1> QED
    BY <1>2, <1>11, <1>12, <1>13, FlushHonest

LEMMA NextHonest ==
    ASSUME Honest, [Next]_vars
    PROVE  Honest'
  <1>0. Stored(history) /\ SameNotices(history, history) /\ Placed(pc, current)
    BY DEF Honest, Kept, SameNotices
  <1>1. CASE Send
    BY <1>1, SendHonest
  <1>2. CASE FetchUpdates \/ FetchFails
    BY <1>2, FetchHonest
  <1>3. CASE \E u \in Update : HandleUpdate(u)
    BY <1>3, HandleHonest
  <1>4. CASE TransferFunds \/ ConfirmTransfer
    BY <1>4, TransferHonest
  <1>5. CASE BeginProactiveFlush
    BY <1>5, BeginProactiveHonest
  <1>6. CASE TellCandidate
    BY <1>6, TellHonest
  <1>7. CASE BeginPendingFlush
    BY <1>7, BeginPendingHonest
  <1>8. CASE RetryPending
    BY <1>8, RetryHonest
  <1>9. CASE PollAgain
    <2>1. /\ pc \in {"starting", "pending"} /\ pc' = "poll"
          /\ UNCHANGED <<job, todo, current, history, received, faults>>
      BY <1>9 DEF PollAgain
    <2>2. Placed(pc', current')
      BY <1>0, <2>1 DEF Placed
    <2> QED
      BY <1>0, <2>1, <2>2, QuietHonest
  <1>10. CASE StartProcess
    <2>1. /\ pc = "down" /\ pc' = "starting" /\ job' = Job(<<"runtime_started">>, "INFO")
          /\ UNCHANGED <<todo, current, history, received, faults>>
      BY <1>10 DEF StartProcess
    <2>2. Placed(pc', current') /\ <<"runtime_started">> \in LoopKey
      BY <1>0, <2>1 DEF Placed, LoopKey
    <2> QED
      BY <1>0, <2>1, <2>2, QuietHonest
  <1>11. CASE Killed
    BY <1>11, KilledHonest
  <1>12. CASE DatabaseFails
    BY <1>12, DatabaseHonest
  <1>13. CASE TraderWrites
    BY <1>13, TraderHonest
  <1>14. CASE UpdateArrives \/ UNCHANGED vars
    <2>1. UNCHANGED <<pc, job, todo, current, history, received, faults>>
      BY <1>14 DEF UpdateArrives, vars
    <2> QED
      BY <2>1 DEF Honest
  <1> QED
    BY <1>1, <1>2, <1>3, <1>4, <1>5, <1>6, <1>7, <1>8, <1>9, <1>10, <1>11, <1>12, <1>13, <1>14
       DEF Next, Loop

LEMMA InitHonest == Init => Honest
  <1> SUFFICES ASSUME Init PROVE Honest
    OBVIOUS
  <1>1. /\ history = EmptyHistory /\ pc = "down" /\ job = None /\ todo = <<>> /\ current = None
        /\ received = [k \in Key |-> 0] /\ faults = [count |-> 0, unanswered |-> 0, sql |-> 0]
    BY DEF Init
  <1>2. /\ DOMAIN history = {"db", "own", "disabled"} /\ history.disabled = FALSE
        /\ history.db = Empty /\ history.own = Empty
    BY <1>1 DEF EmptyHistory
  <1>3. Tables(Empty) /\ Len(Empty[Notices]) = 0
    <2>1. DOMAIN Empty = Table /\ \A t \in Table : Empty[t] = <<>>
      BY DEF Empty
    <2> QED
      BY <2>1, EmptySeq DEF Tables, Table, Notices
  <1>4. Stored(history)
    BY <1>2, <1>3 DEF Stored
  <1>5. \A k : ~Sent(Empty[Notices], k)
    BY <1>3 DEF Sent
  <1>6. Orderly(history)
    BY <1>2, <1>3, <1>5 DEF Orderly, SentLast
  <1>7. faults \in FaultCount
    BY <1>1 DEF FaultCount
  <1>8. \A k \in Key : Bound(history, faults, k) = 0
    BY <1>1, <1>2, <1>5 DEF Bound, One
  <1>9. Counted(history, faults, received)
    BY <1>1, <1>8 DEF Counted
  <1> QED
    BY <1>1, <1>4, <1>6, <1>7, <1>9, EmptySeq DEF Honest, Kept, Delivering, Waiting, Placed

LEMMA AlwaysHonest == Spec => []Honest
  <1>1. Honest /\ [Next]_vars => Honest'
    BY NextHonest
  <1> QED
    BY <1>1, InitHonest, PTL DEF Spec

\* The loop's state, the lists it works through and the counts keep their types.
THEOREM NotifierTypes == Spec => []TypeOK
  <1>1. Commands /\ Honest => TypeOK
    <2> SUFFICES ASSUME Commands, Honest PROVE TypeOK
      OBVIOUS
    <2>1. Placed(pc, current) /\ Stored(history) /\ Delivering(history, job)
          /\ Counted(history, faults, received)
      BY DEF Honest, Kept
    <2>2. job # None => job.severity \in Severity /\ job.attempt \in 1 .. Attempts(job.severity)
      BY <2>1, AttemptsPositive DEF Delivering, Delivery
    <2>3. \A k \in Key : received[k] \in Nat
      BY <2>1 DEF Counted
    <2>4. /\ batch \subseteq Update /\ fresh \subseteq Update
          /\ offset = None \/ offset \in Update \union {MaxInputs + 1}
          /\ telegram.forgotten \in 0 .. Len(telegram.updates)
      <3>1. MaxInputs \in Nat /\ Len(telegram.updates) \in Nat /\ Len(telegram.updates) <= MaxInputs
        BY NotifierConstants DEF Commands, Shaped
      <3> QED
        BY <3>1 DEF Commands, Shaped, Once, Arrived, Update
    <2> QED
      BY <2>1, <2>2, <2>3, <2>4 DEF TypeOK, Placed, Stored
  <1> QED
    BY <1>1, Inductive, AlwaysHonest, PTL

\* Nothing is told twice for being found in both flushes, in several windows or
\* by a later process: the record of what was sent precedes every further send,
\* so that each repetition costs an unanswered call, a kill or a lost database.
THEOREM KeysToldOnce == Spec => []ToldOnce
  <1>1. Honest => ToldOnce
    <2> SUFFICES ASSUME Honest, NEW k \in Key
                 PROVE  received[k] <= 1 + faults.unanswered + faults.sql
      BY DEF ToldOnce
    <2>1. received[k] \in Int /\ received[k] <= Bound(history, faults, k)
      BY DEF Honest, Counted
    <2>2. /\ Bound(history, faults, k) \in Int
          /\ Bound(history, faults, k) <= 1 + faults.unanswered + faults.sql
          /\ faults.unanswered \in Nat /\ faults.sql \in Nat
      BY BoundIs DEF Honest, FaultCount
    <2> QED
      BY <2>1, <2>2
  <1> QED
    BY <1>1, AlwaysHonest, PTL

=============================================================================
