-------------------------- MODULE NotifierDelivery --------------------------
(***************************************************************************)
(* The notifier process: it polls Telegram for the operator's commands,    *)
(* answers them, and tells the operator what the trader wrote into the     *)
(* history tables.  One loop does both: poll, proactive flush, pending     *)
(* flush.  Sends and transfers fail, with or without having had their      *)
(* effect; the process dies of errors it does not expect and is started    *)
(* again ("restart: unless-stopped" in docker-compose.yml).                *)
(*                                                                         *)
(* What /pause and /start write into Redis is in RuntimeControl: here they *)
(* are, like the read-only commands, a "query".  Texts are left out.       *)
(***************************************************************************)
EXTENDS HistoryStore, RunModes

CONSTANTS
    None,            \* no offset, no delivery in progress
    OrderRows,       \* the rows the trader may write, by table
    PositionRows,
    CheckpointRows,
    RiskRows,
    UpdateKinds,     \* the kinds of updates that may arrive
    CriticalAttempts, \* how often a CRITICAL text is tried at once (3)
    FetchLimit,      \* getUpdates returns at most this many (20)
    RowLimit,        \* a flush looks at this many rows of a table (20)
    MaxInputs,       \* bound: updates and trader rows in a behaviour
    MaxFaults        \* bound: failed calls, kills and SQL errors

\* The database may fail under the notifier ("sql"), the process be killed
\* ("kill"), a call be answered too late ("lost"), time out ("timeout") or
\* fail otherwise ("refused").
CONSTANT FaultKinds

Update == 1 .. MaxInputs
Severity == {"CRITICAL", "WARN", "INFO"}
ManualTypes == {"manual_funds_requested", "manual_funds_transfer_failed",
                "manual_funds_transfer_submitted"}

ASSUME NotifierConstants ==
    /\ UpdateKinds \subseteq {"query", "transfer", "foreign", "unusable"}
    /\ FaultKinds \subseteq {"sql", "kill", "lost", "timeout", "refused"}
    /\ CriticalAttempts \in Nat \ {0}
    /\ FetchLimit \in Nat \ {0} /\ RowLimit \in Nat \ {0}
    /\ MaxInputs \in Nat /\ MaxFaults \in Nat
    /\ OrderRows \subseteq [status: STRING, id: STRING]
    /\ PositionRows \subseteq [symbol: STRING, quantity: Int, tag: STRING, intent: STRING]
    /\ CheckpointRows \subseteq [id: STRING, mode: RunMode]
    /\ RiskRows \subseteq [type: STRING \ ManualTypes, detail: STRING]
    /\ None \notin Nat

TraderRows == [orders |-> OrderRows, positions |-> PositionRows,
               execution_checkpoints |-> CheckpointRows, risk_events |-> RiskRows]

VARIABLES
    pc,         \* where the loop is
    job,        \* the deliver_text in progress, or None
    batch,      \* fetched updates not handled yet
    todo,       \* candidates this flush has not told yet
    offset,     \* next_update_offset
    current,    \* the update whose transfer is awaited, or None
    history,    \* the history store
    telegram,   \* external: the updates, and the last one it forgot
    okx,        \* external: how often each update's transfer was made
    received,   \* external: what the operator's chat shows of each key
    handled,    \* auxiliary: how often each update was handled
    fresh,      \* auxiliary: the updates handled since the process started
    faults      \* auxiliary: how many faults so far, the calls and
                \* processes that ended unanswered, the SQL errors

vars == <<pc, job, batch, todo, offset, current, history, telegram, okx, received,
          handled, fresh, faults>>

-----------------------------------------------------------------------------
(* What the proactive flush would tell.                                    *)

Candidate(category, severity, key) ==
    [category |-> category, severity |-> severity, key |-> key]
NoCandidate == Candidate("none", "INFO", <<>>)

\* The order in which a flush sends: by category, then by severity.
CategoryPriority == [trade_order_submitted |-> 0, trade_order_canceled |-> 1,
    trade_position_opened |-> 2, trade_position_closed |-> 3, mode_change |-> 4,
    recovery_failed |-> 5, risk_event |-> 6]
RetryPriority == [CRITICAL |-> 0, WARN |-> 1, INFO |-> 2]

CandidateRank(item) == 3 * CategoryPriority[item.category] + RetryPriority[item.severity]
SeverityRank(item) == RetryPriority[item.severity]

OrderCandidate(row) ==
    CASE row.status = "submitted" ->
            Candidate("trade_order_submitted", "INFO", <<"order", row.status, row.id>>)
      [] row.status \in {"canceled", "cancelled"} ->
            Candidate("trade_order_canceled", "INFO", <<"order", row.status, row.id>>)
      [] OTHER -> NoCandidate

\* The quantity the window shows for the symbol before its i-th row: zero
\* when the window starts with that row.
QuantityBefore(rows, i) ==
    LET earlier == {j \in 1 .. i - 1 : rows[j].symbol = rows[i].symbol}
    IN  IF earlier = {} THEN 0 ELSE rows[Max(earlier)].quantity

PositionCandidate(rows, i) ==
    LET row == rows[i]
        before == QuantityBefore(rows, i)
        intent == CASE row.intent \in {"open", "close"} -> row.intent
                    [] before = 0 /\ row.quantity # 0 -> "open"
                    [] before # 0 /\ row.quantity = 0 -> "close"
                    [] OTHER -> ""
    IN  CASE intent = "open" -> Candidate("trade_position_opened", "INFO",
                <<"position", "open", row.symbol, row.tag, row.quantity>>)
          [] intent = "close" -> Candidate("trade_position_closed", "INFO",
                <<"position", "close", row.symbol, row.tag, row.quantity>>)
          [] OTHER -> NoCandidate

CheckpointCandidate(row) ==
    IF row.mode = NORMAL THEN NoCandidate
    ELSE Candidate("mode_change", IF BlocksOpen(row.mode) THEN "CRITICAL" ELSE "WARN",
                   <<"checkpoint", row.id, row.mode>>)

RecoveryFailureCandidate(row) ==
    IF row.type = "startup_recovery_failed"
    THEN Candidate("recovery_failed", "CRITICAL", <<"recovery_failed", row.type, row.detail>>)
    ELSE NoCandidate

\* The operator's own commands are audited in the same table and not told.
RiskEventCandidate(row) ==
    IF row.type \in {"startup_recovery_failed", "manual_pause_requested",
                     "account_snapshot_updated", "signal_blocked"} \union ManualTypes
    THEN NoCandidate
    ELSE Candidate("risk_event",
                   IF row.type = "runtime_mode_changed" THEN "CRITICAL" ELSE "WARN",
                   <<"risk_event", row.type, row.detail>>)

Mapped(rows, Op(_)) == [i \in DOMAIN rows |-> Op(rows[i])]

\* The items of a sequence that are among the good ones, in order.
Only(good, seq) ==
    LET kept[i \in 0 .. Len(seq)] ==
            IF i = 0 THEN <<>>
            ELSE IF seq[i] \in good THEN Append(kept[i - 1], seq[i]) ELSE kept[i - 1]
    IN  kept[Len(seq)]

\* _collect_proactive_candidates, before they are sorted: a row that is
\* nothing to tell yields NoCandidate.
Candidates(h) ==
    LET recent(table) == RecentRows(h, table, RowLimit)
        positions == Reverse(recent("positions"))
    IN  Mapped(Reverse(recent("orders")), OrderCandidate)
        \o [i \in DOMAIN positions |-> PositionCandidate(positions, i)]
        \o Mapped(recent("execution_checkpoints"), CheckpointCandidate)
        \o Mapped(recent("risk_events"), RecoveryFailureCandidate)
        \o Mapped(recent("risk_events"), RiskEventCandidate)

\* _collect_sent_notification_keys
SentKeys(h) == {row.key : row \in {r \in ToSet(RecentRows(h, "notification_events", 5 * RowLimit)) :
                                    r.status = "sent"}}

Retryable(rows) == Only({row \in ToSet(rows) : row.retry}, rows)

EveryRowBug(rows) == rows

\* The latest row of each key, of rows that are listed newest first.
Latest(rows) ==
    LET Known(kept, key) == \E i \in DOMAIN kept : kept[i].key = key
    IN  FoldLeft(LAMBDA kept, row : IF Known(kept, row.key) THEN kept ELSE Append(kept, row),
                 <<>>, rows)

Key == {c.key : c \in {OrderCandidate(row) : row \in OrderRows}
                      \union {CheckpointCandidate(row) : row \in CheckpointRows}
                      \union {RecoveryFailureCandidate(row) : row \in RiskRows}
                      \union {RiskEventCandidate(row) : row \in RiskRows}
                      \union {PositionCandidate(pair, 2) : pair \in PositionRows \X PositionRows}
                      \union {PositionCandidate(<<row>>, 1) : row \in PositionRows}} \ {<<>>}

-----------------------------------------------------------------------------
(* Deliveries.                                                             *)

Job(key, severity) == [key |-> key, severity |-> severity, attempt |-> 1]
Notification(j, status) ==
    [key |-> j.key, severity |-> j.severity, status |-> status,
     retry |-> status = "failed" /\ j.severity = "CRITICAL"]

Attempts(severity) == IF severity = "CRITICAL" THEN CriticalAttempts ELSE 1

Fault(kind) ==
    /\ kind \in FaultKinds
    /\ faults.count < MaxFaults
    /\ faults' = [count |-> faults.count + 1,
                  unanswered |-> faults.unanswered + (IF kind \in {"lost", "kill"} THEN 1 ELSE 0),
                  sql |-> faults.sql + (IF kind = "sql" THEN 1 ELSE 0)]

\* The process ends; what it kept in memory is gone.
Dies(h) ==
    /\ pc' = "down" /\ job' = None /\ batch' = {} /\ todo' = <<>>
    /\ offset' = None /\ current' = None
    /\ history' = NewProcess(h)

\* send_text returned.
SendSucceeds ==
    /\ job' = None
    /\ history' = WithRow(history, "notification_events", Notification(job, "sent"))
    /\ UNCHANGED <<pc, batch, todo, offset, current, faults>>

\* The last attempt failed and deliver_text raises.  The flush of the
\* proactive notifications is abandoned: on a timeout the loop goes on, on
\* any other error the process ends.  All other callers carry on.
DeliveryFails(error, h) ==
    CASE pc # "proactive" -> /\ job' = None /\ history' = h
                             /\ UNCHANGED <<pc, batch, todo, offset, current>>
      [] pc = "proactive" /\ error \in {"timeout", "lost"} ->
            /\ pc' = "poll" /\ job' = None /\ todo' = <<>> /\ history' = h
            /\ UNCHANGED <<batch, offset, current>>
      [] OTHER -> Dies(h)

SendFailsQuietlyBug(error) ==
    /\ error \in {"timeout", "lost", "refused"}
    /\ Fault(error)
    /\ DeliveryFails(error, WithRow(history, "notification_events", Notification(job, "sent")))

SendFails(error) ==
    /\ error \in {"timeout", "lost", "refused"}
    /\ Fault(error)
    /\ IF job.attempt < Attempts(job.severity)
       THEN /\ job' = [job EXCEPT !.attempt = @ + 1]
            /\ UNCHANGED <<pc, batch, todo, offset, current, history>>
       ELSE DeliveryFails(error, WithRow(history, "notification_events",
                                         Notification(job, "failed")))

\* The message is in the chat; answers to commands are not counted.
Reaches(j) ==
    received' = IF j.key \in Key THEN [received EXCEPT ![j.key] = @ + 1] ELSE received

\* One attempt of deliver_text.  A call answered too late was delivered.
Send ==
    /\ job # None
    /\ \/ SendSucceeds /\ Reaches(job)
       \/ SendFails("lost") /\ Reaches(job)
       \/ \E error \in {"timeout", "refused"} : SendFails(error) /\ UNCHANGED received
    /\ UNCHANGED <<telegram, okx, handled, fresh>>

-----------------------------------------------------------------------------
(* Commands.                                                               *)

\* The updates Telegram returns for an offset, and what it forgets.
Forgotten == IF offset = None THEN telegram.forgotten
             ELSE Max({telegram.forgotten, offset - 1})
Batch(forgotten) ==
    {u \in DOMAIN telegram.updates : forgotten < u /\ u <= forgotten + FetchLimit}
Usable(u) == telegram.updates[u] # "unusable"

Asks == pc = "poll" /\ telegram' = [telegram EXCEPT !.forgotten = Forgotten]

\* fetch_updates leaves out what is not a text message.
FetchUpdates ==
    /\ Asks
    /\ pc' = "commands"
    /\ batch' = {u \in Batch(Forgotten) : Usable(u)}
    /\ UNCHANGED <<job, todo, offset, current, history, okx, received, handled, fresh, faults>>

\* _is_recoverable_poll_error: timeouts and error statuses, not a connection
\* that cannot be made.
FetchFails ==
    /\ pc = "poll"
    /\ \E error \in {"timeout", "lost", "refused"} :
        /\ Fault(error)
        /\ IF error = "lost" THEN Asks ELSE UNCHANGED telegram
        /\ \/ pc' = "commands" /\ UNCHANGED <<job, batch, todo, offset, current, history>>
           \/ error = "refused" /\ Dies(history)
    /\ UNCHANGED <<okx, received, handled, fresh>>

Handles(u) ==
    /\ handled' = [handled EXCEPT ![u] = @ + 1]
    /\ fresh' = fresh \union {u}

SkipsOneBug(u) == u + 2
AcknowledgesAllBug(u) == Len(telegram.updates) + 1
OffsetAfterChatCheckBug(u) == IF telegram.updates[u] = "foreign" THEN offset ELSE u + 1
OffsetUnmovedBug(u) == IF telegram.updates[u] = "transfer" THEN u ELSE u + 1

NextOffset(u) == u + 1

IsNext(u) == u \in batch /\ \A v \in batch : u <= v

\* The next update of the batch: of another chat, a command that is answered
\* at once, or a transfer of funds.
HandleUpdate(u) ==
    /\ pc = "commands" /\ job = None /\ IsNext(u)
    /\ offset' = NextOffset(u)
    /\ batch' = batch \ {u}
    /\ \/ /\ telegram.updates[u] = "foreign"
          /\ UNCHANGED <<pc, job, current, history, handled, fresh>>
       \/ /\ telegram.updates[u] = "query"
          /\ Handles(u)
          /\ job' = Job(<<"command", u>>, "INFO")
          /\ UNCHANGED <<pc, current, history>>
       \/ /\ telegram.updates[u] = "transfer"
          /\ Handles(u)
          /\ history' = WithRow(history, "risk_events",
                 [type |-> "manual_funds_requested", detail |-> "", update |-> u])
          /\ pc' = "transfer" /\ current' = u
          /\ UNCHANGED job
    /\ UNCHANGED <<todo, telegram, okx, received, faults>>

TransferAnswered(type, next) ==
    /\ history' = IF type = "" THEN history
                  ELSE WithRow(history, "risk_events",
                               [type |-> type, detail |-> "", update |-> current])
    /\ pc' = next
    /\ IF next = "confirm" THEN UNCHANGED <<job, current>>
       ELSE job' = Job(<<"command", current>>, "INFO") /\ current' = None

FailureTakenForSubmittedBug ==
    \E error \in {"timeout", "refused"} :
        /\ Fault(error)
        /\ TransferAnswered("manual_funds_transfer_submitted", "commands")
        /\ UNCHANGED okx

\* The exchange did not make the transfer.
TransferRefused ==
    \E error \in {"timeout", "refused"} :
        /\ Fault(error)
        /\ TransferAnswered("manual_funds_transfer_failed", "commands")
        /\ UNCHANGED okx

\* transfer_funds: any error is a failure to the caller, although the
\* exchange may have made the transfer.
TransferFunds ==
    /\ pc = "transfer"
    /\ \/ /\ TransferAnswered("", "confirm")
          /\ okx' = [okx EXCEPT ![current] = @ + 1]
          /\ UNCHANGED faults
       \/ /\ Fault("lost")
          /\ TransferAnswered("manual_funds_transfer_failed", "commands")
          /\ okx' = [okx EXCEPT ![current] = @ + 1]
       \/ TransferRefused
    /\ UNCHANGED <<batch, todo, offset, telegram, received, handled, fresh>>

\* _fetch_transfer_state: whatever it answers, also nothing, is only shown.
ConfirmTransfer ==
    /\ pc = "confirm"
    /\ TransferAnswered("manual_funds_transfer_submitted", "commands")
    /\ UNCHANGED <<batch, todo, offset, telegram, okx, received, handled, fresh, faults>>

-----------------------------------------------------------------------------
(* Flushes.                                                                *)

BeginProactiveFlush ==
    /\ pc = "commands" /\ job = None /\ batch = {}
    /\ pc' = "proactive"
    /\ \E found \in {Candidates(history)}, sent \in {SentKeys(history)} :
        todo' = Only({c \in ToSet(found) \ {NoCandidate} : c.key \notin sent}, found)
    /\ UNCHANGED <<job, batch, offset, current, history, telegram, okx, received, handled, fresh, faults>>

\* A stable sort, one item at a time: the first of the least rank.
Foremost(Rank(_)) ==
    {i \in DOMAIN todo : \A j \in DOMAIN todo :
        Rank(todo[i]) < Rank(todo[j]) \/ (Rank(todo[i]) = Rank(todo[j]) /\ i <= j)}

\* _was_notification_sent, beyond the rows SentKeys looked at.
TellCandidate ==
    /\ pc = "proactive" /\ job = None
    /\ \E i \in Foremost(CandidateRank) :
        /\ todo' = RemoveAt(todo, i)
        /\ job' = IF HasNotification(history, todo[i].key, "sent") THEN None
                  ELSE Job(todo[i].key, todo[i].severity)
    /\ UNCHANGED <<pc, batch, offset, current, history, telegram, okx, received, handled, fresh, faults>>

\* _collect_pending_notifications, unsorted.
BeginPendingFlush ==
    /\ pc = "proactive" /\ job = None /\ todo = <<>>
    /\ pc' = "pending"
    /\ \E rows \in {RecentRows(history, "notification_events", RowLimit)} :
        \E latest \in {Latest(rows)} : todo' = Retryable(latest)
    /\ UNCHANGED <<job, batch, offset, current, history, telegram, okx, received, handled, fresh, faults>>

RetryPending ==
    /\ pc = "pending" /\ job = None
    /\ \E i \in Foremost(SeverityRank) :
        /\ todo' = RemoveAt(todo, i)
        /\ job' = Job(todo[i].key, todo[i].severity)
    /\ UNCHANGED <<pc, batch, offset, current, history, telegram, okx, received, handled, fresh, faults>>

\* Also the end of the startup message, whatever came of it.
PollAgain ==
    /\ pc \in {"starting", "pending"} /\ job = None /\ todo = <<>>
    /\ pc' = "poll"
    /\ UNCHANGED <<job, batch, todo, offset, current, history, telegram, okx, received, handled, fresh, faults>>

-----------------------------------------------------------------------------
(* The process and its surroundings.                                       *)

StartProcess ==
    /\ pc = "down"
    /\ pc' = "starting"
    /\ job' = Job(<<"runtime_started">>, "INFO")
    /\ fresh' = {}
    /\ UNCHANGED <<batch, todo, offset, current, history, telegram, okx, received, handled, faults>>

\* A call in flight may still have its effect.
Killed ==
    /\ pc # "down"
    /\ Fault("kill")
    /\ Dies(history)
    /\ \/ UNCHANGED <<okx, received>>
       \/ pc = "transfer" /\ okx' = [okx EXCEPT ![current] = @ + 1] /\ UNCHANGED received
       \/ job # None /\ Reaches(job) /\ UNCHANGED okx
    /\ UNCHANGED <<telegram, handled, fresh>>

\* A statement fails; the code then does without the database.
DatabaseFails ==
    /\ pc # "down" /\ ~history.disabled
    /\ Fault("sql")
    /\ history' = DatabaseLost(history)
    /\ UNCHANGED <<pc, job, batch, todo, offset, current, telegram, okx, received, handled, fresh>>

TraderWrote(table) ==
    LET rows == history.db[table]
    IN  Cardinality({i \in DOMAIN rows : rows[i] \in TraderRows[table]})
Inputs == Len(telegram.updates) + TraderWrote("orders") + TraderWrote("positions")
          + TraderWrote("execution_checkpoints") + TraderWrote("risk_events")

\* Bounds Telegram's queue and the trader's rows.
MoreInputs == Inputs < MaxInputs

\* Only a flush reads what the trader wrote: rows are counted as written just
\* before the next one, updates as arrived just before the next poll.
TraderWrites ==
    /\ MoreInputs
    /\ pc = "commands" /\ job = None /\ batch = {}
    /\ \E table \in DOMAIN TraderRows : \E row \in TraderRows[table] :
        history' = WrittenElsewhere(history, table, row)
    /\ UNCHANGED <<pc, job, batch, todo, offset, current, telegram, okx, received, handled, fresh, faults>>

UpdateArrives ==
    /\ MoreInputs
    /\ pc = "poll"
    /\ \E kind \in UpdateKinds : telegram' = [telegram EXCEPT !.updates = Append(@, kind)]
    /\ UNCHANGED <<pc, job, batch, todo, offset, current, history, okx, received, handled, fresh, faults>>

Init ==
    /\ pc = "down" /\ job = None /\ batch = {} /\ todo = <<>>
    /\ offset = None /\ current = None
    /\ history = EmptyHistory
    /\ telegram = [updates |-> <<>>, forgotten |-> 0]
    /\ okx = [u \in Update |-> 0]
    /\ received = [k \in Key |-> 0]
    /\ handled = [u \in Update |-> 0] /\ fresh = {}
    /\ faults = [count |-> 0, unanswered |-> 0, sql |-> 0]

Loop ==
    \/ Send \/ FetchUpdates \/ FetchFails \/ TransferFunds
    \/ ConfirmTransfer \/ BeginProactiveFlush \/ TellCandidate
    \/ BeginPendingFlush \/ RetryPending \/ PollAgain \/ StartProcess
    \/ \E u \in Update : HandleUpdate(u)

Next == Loop \/ Killed \/ DatabaseFails \/ TraderWrites \/ UpdateArrives

Spec == Init /\ [][Next]_vars

\* The loop goes on, and Docker starts the process again.
FairSpec == Spec /\ WF_vars(Loop)

-----------------------------------------------------------------------------
(* Properties.                                                             *)

TypeOK ==
    /\ pc \in {"down", "starting", "poll", "commands", "transfer", "confirm",
               "proactive", "pending"}
    /\ job # None => /\ job.severity \in Severity
                     /\ job.attempt \in 1 .. Attempts(job.severity)
    /\ batch \subseteq Update
    /\ offset = None \/ offset \in Update \union {MaxInputs + 1}
    /\ IF pc \in {"transfer", "confirm"} THEN current \in Update ELSE current = None
    /\ history.disabled \in BOOLEAN
    /\ telegram.forgotten \in 0 .. Len(telegram.updates)
    /\ fresh \subseteq Update
    /\ \A k \in Key : received[k] \in Nat

\* Telegram forgets a command only after the notifier handled it, however the
\* process ends in between: a command may be repeated but is never lost.
ForgottenWereHandled ==
    \A u \in 1 .. telegram.forgotten :
        telegram.updates[u] \in {"query", "transfer"} => handled[u] > 0

\* The same process never executes an update twice, whatever polls fail.
HandledOncePerProcess ==
    [][\A u \in Update : handled'[u] # handled[u] => u \notin fresh]_vars

Audits(row, type, u) == row.type \in ManualTypes /\ row.type = type /\ row.update = u
AuditedIn(log, type, u) == Cardinality({i \in DOMAIN log : Audits(log[i], type, u)})
Audited(type, u) == AuditedIn(history.db["risk_events"], type, u)

\* The audit trail brackets what happened to the funds: each transfer the
\* exchange made was announced before, and each that is called submitted was
\* made, unless rows were lost with the database.
TransfersAudited ==
    faults.sql = 0 =>
        \A u \in Update : /\ okx[u] <= Audited("manual_funds_requested", u)
                          /\ Audited("manual_funds_transfer_submitted", u) <= okx[u]

\* Nothing is told twice for being in both flushes, in several windows or in
\* a later process: only an unanswered send or a lost record repeats it.
ToldOnce ==
    \A k \in Key : received[k] <= 1 + faults.unanswered + faults.sql

\* The row is among those a flush with a database looks at.
Looked(table) ==
    LET rows == history.db[table]
    IN  {rows[i] : i \in {j \in DOMAIN rows : j + RowLimit > Len(rows)}}

InWindow(k) ==
    \/ \E row \in Looked("orders") : OrderCandidate(row).key = k
    \/ \E row \in Looked("execution_checkpoints") : CheckpointCandidate(row).key = k
    \/ \E row \in Looked("risk_events") :
            k \in {RecoveryFailureCandidate(row).key, RiskEventCandidate(row).key}
    \/ LET rows == Window(history.db["positions"], RowLimit)
       IN  \E i \in DOMAIN rows : PositionCandidate(rows, i).key = k

\* What the trader wrote is told, through failed sends, flushes given up and
\* restarts, as long as newer rows do not push it out of the window and the
\* notifier has its database.
Untold == \E k \in Key : InWindow(k) /\ received[k] = 0
WrittenIsTold == Untold ~> ~Untold \/ history.disabled

\* A batch without a single text message never moves the offset.
HeadBlocked ==
    LET next == {u \in Update : /\ u \in telegram.forgotten + 1 .. Len(telegram.updates)
                                /\ u <= telegram.forgotten + FetchLimit}
    IN  Cardinality(next) = FetchLimit /\ \A u \in next : ~Usable(u)

\* Every command is handled, through lost polls, foreign chats and restarts.
Unhandled ==
    \E u \in DOMAIN telegram.updates :
        telegram.updates[u] \in {"query", "transfer"} /\ handled[u] = 0
CommandsHandled == Unhandled ~> ~Unhandled \/ HeadBlocked

=============================================================================
