---------------------------- MODULE HistoryStore ----------------------------
(***************************************************************************)
(* PostgresRuntimeStore as one process sees it: the tables in the          *)
(* database, which the trader and the notifier share, the rows this        *)
(* process wrote itself (written_rows), and whether an SQL error has       *)
(* disabled the database for the rest of the process's life.               *)
(*                                                                         *)
(* The operators map one history to the next.  A statement that fails is   *)
(* DatabaseLost followed by the same operation, which then finds the       *)
(* database disabled: the code falls back on written_rows in that call.    *)
(***************************************************************************)
EXTENDS SequencesExt, FiniteSetsExt

\* The tables the modelled processes read; fills, strategy_snapshots and
\* strategy_replacements are written for other readers.
Table == {"orders", "positions", "execution_checkpoints", "risk_events",
          "notification_events"}

Empty == [t \in Table |-> <<>>]
EmptyHistory == [db |-> Empty, own |-> Empty, disabled |-> FALSE]

\* A call finds the database out of reach: _disable_database.
DatabaseLost(h) == [h EXCEPT !.disabled = TRUE]

\* A new process: written_rows is empty and the database is tried again.
NewProcess(h) == [h EXCEPT !.own = Empty, !.disabled = FALSE]

\* What another process writes with a working connection.
WrittenElsewhere(h, table, row) == [h EXCEPT !.db[table] = Append(@, row)]

\* _append_row
WithRow(h, table, row) ==
    [h EXCEPT !.own[table] = Append(@, row),
              !.db[table] = IF h.disabled THEN @ ELSE Append(@, row)]

\* The table as this process reads it.
Rows(h, table) == IF h.disabled THEN h.own[table] ELSE h.db[table]

\* The last rows of a table, oldest first.
Window(rows, limit) == SubSeq(rows, Max({1, Len(rows) - limit + 1}), Len(rows))

\* list_recent_rows: newest first.
RecentRows(h, table, limit) == Reverse(Window(Rows(h, table), limit))

\* has_notification_event
HasNotification(h, key, status) ==
    \E i \in DOMAIN Rows(h, "notification_events") :
        LET row == Rows(h, "notification_events")[i]
        IN  row.key = key /\ row.status = status
=============================================================================
