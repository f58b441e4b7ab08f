--------------------------- MODULE RuntimeControl ---------------------------
(***************************************************************************)
(* How the trader decides in which mode it runs.                           *)
(*                                                                         *)
(* Three parties write the mode.  The trader process tightens it on stream *)
(* faults and relaxes it when the streams recover; the notifier process    *)
(* writes the operator's /pause and /start into Redis; a restart derives   *)
(* the mode again from the saved checkpoint, the strategy snapshot and the *)
(* comparison with the exchange.  The trader itself is two asyncio tasks,  *)
(* one per stream, that interleave only where the code awaits a REST call. *)
(*                                                                         *)
(* Signals, orders and positions are abstracted to the choice of opening   *)
(* or not; TraderExecution models them.                                    *)
(***************************************************************************)
EXTENDS RunModes, FiniteSets

CONSTANTS
    None,            \* the absence of a value (a missing Redis key or row)
    NumSymbols,      \* how many symbols startup recovery compares, in order
    PublicFaults,    \* codes of _PUBLIC_STREAM_FAULT_CODES
    PrivateFaults,   \* codes of _PRIVATE_STREAM_FAULT_CODES
    StickyWarn,      \* codes of the public adapter that no event clears
    StickyCritical,  \* codes of the private adapter that no event clears
    DefaultRunMode,  \* XUANSHU_DEFAULT_RUN_MODE
    FixedSnapshot,   \* the fixed snapshot file, or None
    Publishable,     \* the [mode, approved] an external publisher may publish
    MaxSignals,      \* the signals an evaluation yields at most
    MaxVersion       \* bound: the snapshot versions published

Fault == PublicFaults \union PrivateFaults \union StickyWarn \union StickyCritical
ManualPause == "manual_pause"
Flag == Fault \union {ManualPause}

Task == {"public", "private"}
Version == 0 .. MaxVersion       \* 0 is the "bootstrap" snapshot
Snapshot == [version: Version, mode: RunMode, approved: BOOLEAN]
Checkpoint == [id: {"startup", "runtime"}, version: Version, mode: RunMode,
               reconcile: BOOLEAN]
Runtime == [mode: RunMode, engine: RunMode, opening: BOOLEAN,
            snapshot: Snapshot, checkpoint: Checkpoint, faults: SUBSET Fault,
            reversing: BOOLEAN]   \* does some symbol have a pending reverse?
Store == [mode: RunMode \union {None}, faults: SUBSET Flag,
          release: {NORMAL, None}]

ASSUME ControlConstants ==
    /\ NumSymbols \in Nat \ {0}
    /\ DefaultRunMode \in RunMode
    /\ MaxSignals \in Nat
    /\ MaxVersion \in Nat
    /\ Publishable \subseteq [mode: RunMode, approved: BOOLEAN]
    /\ FixedSnapshot # None => /\ FixedSnapshot \in Snapshot
                              /\ FixedSnapshot.version # 0
    /\ None \notin RunMode /\ None \notin Snapshot /\ None \notin Checkpoint

VARIABLES
    up,         \* is the trader process running?
    rt,         \* its TraderRuntime and StateEngine
    pc,         \* where each stream task is in its handler
    event,      \* the event each task is handling
    decision,   \* allow_open of the decision an open in progress carries
    left,       \* how many signals of its evaluation each task has left
    store,      \* Redis: run mode, fault flags, manual release target
    published,  \* Redis: the latest strategy snapshot
    saved,      \* Postgres: the latest execution checkpoint
    notifier,   \* the command the notifier is in the middle of
    history     \* auxiliary, read by the properties only: did the last startup
                \* comparison find a mismatch, has the operator written since
                \* the trader last did, and how many opens each task sent
                \* since the runtime halted

vars == <<up, rt, pc, event, decision, left, store, published, saved,
          notifier, history>>

-----------------------------------------------------------------------------
(* Mode changes, on a value of rt.                                          *)

WithMode(r, m) ==
    [r EXCEPT !.mode = m, !.engine = m, !.checkpoint.mode = m,
              !.opening = ~BlocksOpen(m)]

\* _tighten_runtime_mode
Tightened(r, m) == WithMode(r, MoreRestrictive(r.mode, m))

\* _fault_mode: every public code is raised with severity warn and every
\* private one with severity critical.
FaultMode(f) ==
    IF f \in PublicFaults \union StickyWarn THEN DEGRADED ELSE REDUCE_ONLY

\* CheckpointService.can_open_new_risk; no code spends the budgets.
CanOpenNewRisk(checkpoint) == ~checkpoint.reconcile

\* Mutants, here and below, are named ...Bug: a definition of the code with a
\* plausible mistake that one of the properties notices.
CanRelaxOverFaultsBug(r, snapshot) ==
    /\ r.mode > snapshot.mode
    /\ snapshot.approved
    /\ snapshot.mode # HALTED
    /\ CanOpenNewRisk(r.checkpoint)

CanRelaxUnapprovedBug(r, snapshot) ==
    /\ r.mode > snapshot.mode
    /\ snapshot.mode # HALTED
    /\ CanOpenNewRisk(r.checkpoint)
    /\ r.faults = {}

CanReleaseUnreconciledBug(r, target) ==
    /\ target < r.mode
    /\ target # HALTED
    /\ r.snapshot.approved
    /\ r.faults = {}

\* _can_relax_to_snapshot_mode
CanRelaxTo(r, snapshot) ==
    /\ r.mode > snapshot.mode
    /\ snapshot.approved
    /\ snapshot.mode # HALTED
    /\ CanOpenNewRisk(r.checkpoint)
    /\ r.faults = {}

\* _can_apply_manual_release
CanRelease(r, target) ==
    /\ target < r.mode
    /\ target # HALTED
    /\ r.snapshot.approved
    /\ CanOpenNewRisk(r.checkpoint)
    /\ r.faults = {}

\* _publish_runtime_state
Published(r, s) == [s EXCEPT !.mode = r.engine, !.faults = r.faults]

\* RiskKernel.evaluate, as far as it reads the snapshot.
KernelAllowsOpen(snapshot) == snapshot.approved /\ ~BlocksOpen(snapshot.mode)

(* _sync_manual_runtime_controls: first the requested mode, then a pending  *)
(* manual release.  A world is the runtime and the store it publishes to.   *)
ModeRequested(w) == w.store.mode # None /\ w.store.mode > w.rt.mode

ModeSyncedWithFlagsBug(w) ==
    IF ModeRequested(w)
    THEN LET r == [Tightened(w.rt, w.store.mode) EXCEPT !.faults = w.store.faults]
         IN  [rt |-> r, store |-> Published(r, w.store), wrote |-> TRUE]
    ELSE w

ModeSynced(w) ==
    IF ModeRequested(w)
    THEN LET r == Tightened(w.rt, w.store.mode)
         IN  [rt |-> r, store |-> Published(r, w.store), wrote |-> TRUE]
    ELSE w

ReleaseUnpublishedBug(w) ==
    IF w.store.release # None /\ CanRelease(w.rt, w.store.release)
    THEN [rt |-> WithMode(w.rt, w.store.release), wrote |-> TRUE,
          store |-> [w.store EXCEPT !.release = None]]
    ELSE w

ReleaseOnlyHaltedBug(w) ==
    IF w.store.release # None /\ w.rt.mode = HALTED
       /\ CanRelease(w.rt, w.store.release)
    THEN LET r == WithMode(w.rt, w.store.release)
         IN  [rt |-> r, wrote |-> TRUE,
              store |-> [Published(r, w.store) EXCEPT !.release = None]]
    ELSE w

ReleaseSynced(w) ==
    IF w.store.release # None /\ CanRelease(w.rt, w.store.release)
    THEN LET r == WithMode(w.rt, w.store.release)
         IN  [rt |-> r, wrote |-> TRUE,
              store |-> [Published(r, w.store) EXCEPT !.release = None]]
    ELSE w

Synced(w) == ReleaseSynced(ModeSynced(w))
World == [rt |-> rt, store |-> store, wrote |-> FALSE]

RecoveredOnlyWhenRelaxedBug(r, codes) ==
    IF CanRelaxTo(r, r.snapshot)
    THEN WithMode([r EXCEPT !.faults = @ \ codes], r.snapshot.mode)
    ELSE r

\* _try_recover_runtime_after_stream_event, for an event that clears codes.
Recovered(r, codes) ==
    LET cleared == [r EXCEPT !.faults = @ \ codes]
    IN  IF r.faults \intersect codes # {} /\ CanRelaxTo(cleared, cleared.snapshot)
        THEN WithMode(cleared, cleared.snapshot.mode)
        ELSE cleared

RefreshedUnpublishedBug(w) ==
    LET r == [w.rt EXCEPT !.snapshot = published]
    IN  IF FixedSnapshot # None \/ published = None THEN w
        ELSE IF CanRelaxTo(r, published)
        THEN [w EXCEPT !.rt = [r EXCEPT !.mode = published.mode,
                                        !.engine = published.mode,
                                        !.opening = TRUE]]
        ELSE [w EXCEPT !.rt = r]

\* The published snapshot replaces the active one at every evaluation; the
\* relaxation written out there leaves checkpoint.current_mode alone.
Refreshed(w) ==
    LET r == [w.rt EXCEPT !.snapshot = published]
    IN  IF FixedSnapshot # None \/ published = None THEN w
        ELSE IF CanRelaxTo(r, published)
        THEN LET relaxed == [r EXCEPT !.mode = published.mode,
                                      !.engine = published.mode,
                                      !.opening = TRUE]
             IN  [rt |-> relaxed, store |-> Published(relaxed, w.store),
                  wrote |-> TRUE]
        ELSE [w EXCEPT !.rt = r]

-----------------------------------------------------------------------------
(* Startup: build_trader_runtime, then _run_trader up to the stream tasks.  *)

Bootstrap == [version |-> 0, mode |-> DefaultRunMode, approved |-> TRUE]
SnapshotSource == IF FixedSnapshot # None THEN FixedSnapshot ELSE published

BuiltSnapshot ==
    IF SnapshotSource = None THEN Bootstrap
    ELSE [SnapshotSource EXCEPT !.mode = MoreRestrictive(DefaultRunMode, @)]

\* Without a fixed snapshot _run_trader reads the published one again, as it is.
RunSnapshot ==
    IF FixedSnapshot # None \/ published = None THEN BuiltSnapshot ELSE published

StartupCheckpoint ==
    [id |-> "startup", version |-> RunSnapshot.version,
     mode |-> BuiltSnapshot.mode, reconcile |-> FALSE]

\* _load_latest_checkpoint
LoadedCheckpoint ==
    IF saved = None \/ saved.version # RunSnapshot.version
    THEN StartupCheckpoint ELSE saved

NeedsRecovery == LoadedCheckpoint.id # "startup"

\* The runtime after the loop over the recovery results; mismatch is the set
\* of symbols whose comparison failed.  The last symbol decides reconcile.
AfterRecovery(mismatch) ==
    LET initial == [mode |-> BuiltSnapshot.mode, engine |-> NORMAL,
                    opening |-> TRUE, snapshot |-> RunSnapshot,
                    checkpoint |-> LoadedCheckpoint, faults |-> {},
                    reversing |-> FALSE]
        result == IF mismatch = {} THEN LoadedCheckpoint.mode ELSE HALTED
    IN  IF ~NeedsRecovery THEN initial
        ELSE [Tightened(initial, result) EXCEPT
                 !.checkpoint.reconcile = NumSymbols \in mismatch]

RelaxedAtStartup(r) ==
    IF CanRelaxTo(r, r.snapshot)
    THEN [r EXCEPT !.mode = r.snapshot.mode, !.opening = TRUE] ELSE r

Gated(r) ==
    LET checked == [r EXCEPT !.opening = @ /\ CanOpenNewRisk(r.checkpoint)]
        first == IF CanRelaxTo(checked, checked.snapshot)
                 THEN RelaxedAtStartup(checked)
                 ELSE [checked EXCEPT !.mode = MoreRestrictive(@, r.snapshot.mode)]
        second == IF first.opening THEN first
                  ELSE [first EXCEPT !.mode = MoreRestrictive(@, REDUCE_ONLY)]
    IN  RelaxedAtStartup(second)

\* The mode reached is frozen into the active snapshot and the checkpoint.
Started(mismatch) ==
    LET r == Gated(AfterRecovery(mismatch))
    IN  [r EXCEPT !.engine = r.mode, !.snapshot.mode = r.mode,
                  !.checkpoint.mode = r.mode]

NotifierIdle == [doing |-> "nothing", flags |-> {}]

NoEvent == [t \in Task |-> "none"]
AllIdle == [t \in Task |-> "idle"]
NoDecision == [t \in Task |-> FALSE]
NoSignals == [t \in Task |-> 0]

\* What stands for the runtime while there is no process.
NoRuntime ==
    [mode |-> DefaultRunMode, engine |-> NORMAL, opening |-> TRUE,
     snapshot |-> Bootstrap, faults |-> {}, reversing |-> FALSE,
     checkpoint |-> [id |-> "startup", version |-> 0,
                     mode |-> DefaultRunMode, reconcile |-> FALSE]]

\* No stream task is in a handler.
TasksReset ==
    /\ pc' = AllIdle
    /\ event' = NoEvent
    /\ decision' = NoDecision
    /\ left' = NoSignals

Boot ==
    /\ ~up
    /\ \E mismatch \in SUBSET (1 .. NumSymbols) :
        /\ ~NeedsRecovery => mismatch = {}
        /\ rt' = Started(mismatch)
        /\ history' = [history EXCEPT !.mismatch = mismatch # {},
                                      !.operatorWrote = FALSE,
                                      !.halted = [t \in Task |-> 0]]
    /\ up' = TRUE
    /\ TasksReset
    /\ store' = Published(rt', store)
    /\ saved' = rt'.checkpoint
    /\ UNCHANGED <<published, notifier>>

\* The process dies at any point of a handler, or returns because both
\* stream tasks have ended; its memory is gone.
Stop ==
    /\ up /\ up' = FALSE
    /\ rt' = NoRuntime
    /\ TasksReset
    /\ UNCHANGED <<store, published, saved, notifier, history>>

-----------------------------------------------------------------------------
(* The handlers of the two stream tasks.  A task runs alone from one await  *)
(* to the next.                                                             *)

AtAwait(t) == pc[t] \in {"idle", "signals", "leverage", "order", "close", "ended"}
MayRun(t) == up /\ \A other \in Task \ {t} : AtAwait(other)
Goto(t, label) == pc' = [pc EXCEPT ![t] = label]

\* Record a step that leaves the runtime r: the Redis write it may have made,
\* and the end of a halt.
Remember(r, wrote) ==
    history' = [history EXCEPT
        !.operatorWrote = @ /\ ~wrote,
        !.halted = IF r.mode = HALTED THEN @ ELSE [t \in Task |-> 0]]

\* _dispatch_runtime_event up to the publication: sync, apply the event to
\* the engine, recover.
Receive(t, kind, clears, next) ==
    LET w == Synced(World)
        r == Recovered(w.rt, clears)
    IN  /\ MayRun(t) /\ pc[t] = "idle"
        /\ rt' = r
        /\ store' = w.store
        /\ Remember(r, w.wrote)
        /\ event' = [event EXCEPT ![t] = kind]
        /\ Goto(t, next)
        /\ UNCHANGED <<up, decision, left, published, saved, notifier>>

\* An OrderbookTopEvent or MarketTradeEvent.
ReceiveMarket == Receive("public", "market", PublicFaults, "publish")
\* An OrderUpdateEvent, AccountSnapshotEvent or PositionUpdateEvent ...
ReceiveUpdate == Receive("private", "update", PrivateFaults, "publish")
\* ... and the flat position that ends a reversal, evaluated before publishing.
ReceiveFlat ==
    rt.reversing /\ Receive("private", "flat", PrivateFaults, "evaluate")

FaultsOf(t) ==
    IF t = "public" THEN PublicFaults \union StickyWarn
    ELSE PrivateFaults \union StickyCritical

\* A FaultEvent; after a refused login the private adapter yields no more.
ReceiveFault(t, f, kind) ==
    LET w == Synced(World)
        r == Tightened([w.rt EXCEPT !.faults = @ \union {f}], FaultMode(f))
    IN  /\ MayRun(t) /\ pc[t] = "idle"
        /\ kind = "login" => t = "private" /\ f \in StickyCritical
        /\ rt' = r
        /\ store' = w.store
        /\ Remember(r, w.wrote)
        /\ event' = [event EXCEPT ![t] = kind]
        /\ Goto(t, "publish")
        /\ UNCHANGED <<up, decision, left, published, saved, notifier>>

\* The iterator ends because the peer closed the connection normally:
\* _consume_stream returns and nothing is dispatched.
StreamEnds(t) ==
    /\ up /\ pc[t] = "idle"
    /\ Goto(t, "ended")
    /\ UNCHANGED <<up, rt, event, decision, left, store, published, saved,
                   notifier, history>>

AfterPublish(kind) ==
    CASE kind = "market" -> "evaluate"
      [] kind = "login" -> "ended"
      [] OTHER -> "idle"

\* _publish_runtime_state, and the checkpoint of a private event.
Publish(t) ==
    LET private == event[t] \in {"update", "flat"}
        checkpoint == [id |-> "runtime", version |-> rt.snapshot.version,
                       mode |-> rt.mode, reconcile |-> rt.checkpoint.reconcile]
    IN  /\ MayRun(t) /\ pc[t] = "publish"
        /\ store' = Published(rt, store)
        /\ Remember(rt, TRUE)
        /\ rt' = IF private THEN [rt EXCEPT !.checkpoint = checkpoint] ELSE rt
        /\ saved' = IF private THEN checkpoint ELSE saved
        /\ Goto(t, AfterPublish(event[t]))
        /\ event' = IF event[t] = "market" THEN event
                    ELSE [event EXCEPT ![t] = "none"]
        /\ UNCHANGED <<up, decision, left, published, notifier>>

\* The evaluation of task t is over; a flat position is still to be published.
Finish(t) ==
    /\ decision' = [decision EXCEPT ![t] = FALSE]
    /\ left' = [left EXCEPT ![t] = 0]
    /\ IF event[t] = "flat"
       THEN Goto(t, "publish") /\ UNCHANGED event
       ELSE Goto(t, "idle") /\ event' = [event EXCEPT ![t] = "none"]

EvaluateHaltedBug(t) ==
    LET w == Refreshed(Synced(World))
    IN  /\ MayRun(t) /\ pc[t] = "evaluate"
        /\ rt' = w.rt
        /\ store' = w.store
        /\ Remember(w.rt, w.wrote)
        /\ IF w.rt.snapshot.version = 0 THEN Finish(t)
           ELSE Goto(t, "signals") /\ UNCHANGED <<event, decision, left>>
        /\ UNCHANGED <<up, published, saved, notifier>>

\* _evaluate_symbol up to its first await (the candle history).
Evaluate(t) ==
    LET synced == Synced(World)
        w == IF synced.rt.mode = HALTED THEN synced ELSE Refreshed(synced)
    IN  /\ MayRun(t) /\ pc[t] = "evaluate"
        /\ rt' = w.rt
        /\ store' = w.store
        /\ Remember(w.rt, w.wrote)
        /\ IF synced.rt.mode = HALTED \/ w.rt.snapshot.version = 0
           THEN Finish(t)
           ELSE Goto(t, "signals") /\ UNCHANGED <<event, decision, left>>
        /\ UNCHANGED <<up, published, saved, notifier>>

\* _submit_signal_open up to set_leverage, for the next of n signals.  The
\* kernel may refuse for reasons that are not modelled (whitelist, disabled
\* strategy, expired snapshot).
Propose(t, n) ==
    /\ n > 0
    /\ left' = [left EXCEPT ![t] = n - 1]
    /\ \E allow \in {FALSE, KernelAllowsOpen(rt.snapshot)} :
        decision' = [decision EXCEPT ![t] = allow]
    /\ Goto(t, "leverage") /\ UNCHANGED event

\* The evaluation goes on with the next of n signals, or opens none of them.
Continue(t, n, reversing) ==
    /\ MayRun(t)
    /\ Propose(t, n) \/ Finish(t)
    /\ rt' = [rt EXCEPT !.reversing = reversing]
    /\ UNCHANGED <<up, store, published, saved, notifier, history>>

\* The evaluation resumes with its signals, or with a pending reverse, which it
\* drops when its strategy has been disabled.
ResumeSignals(t) ==
    /\ pc[t] = "signals"
    /\ \/ \E n \in 0 .. MaxSignals : Continue(t, n, rt.reversing)
       \/ rt.reversing /\ Continue(t, 0, FALSE)

\* An exit or a reversal closes the position instead; nothing opens after it.
SendClose(t) ==
    /\ MayRun(t) /\ pc[t] = "signals" /\ event[t] = "market"
    /\ Goto(t, "close")
    /\ UNCHANGED <<up, rt, event, decision, left, store, published, saved,
                   notifier, history>>

\* The exchange answered; the close of a reversal was accepted, or it was an
\* exit, or it failed.
ResumeClose(t) ==
    /\ pc[t] = "close"
    /\ \E reversing \in {rt.reversing, TRUE} : Continue(t, 0, reversing)

\* set_leverage failed, or the decision refuses.
AbandonOpen(t) == pc[t] = "leverage" /\ Continue(t, left[t], rt.reversing)

\* set_leverage returned and the decision allows the open: the order goes out.
SendOpen(t) ==
    /\ MayRun(t) /\ pc[t] = "leverage" /\ decision[t]
    /\ Goto(t, "order")
    /\ history' = IF rt.mode = HALTED
                  THEN [history EXCEPT !.halted[t] = @ + 1] ELSE history
    /\ UNCHANGED <<up, rt, event, decision, left, store, published, saved,
                   notifier>>

\* The exchange answered.  After a success there is exposure and no other
\* signal opens (a pending reverse is done); after a failure the next one may.
ResumeOrder(t) ==
    /\ pc[t] = "order"
    /\ Continue(t, left[t], rt.reversing) \/ Continue(t, 0, FALSE)

-----------------------------------------------------------------------------
(* The notifier's /pause and /start, one Redis write after the other, and   *)
(* the publication of a strategy snapshot.                                  *)

OperatorWrites(r) ==
    /\ store' = r
    /\ history' = [history EXCEPT !.operatorWrote = TRUE]
    /\ UNCHANGED <<up, rt, pc, event, decision, left, published, saved>>

\* _handle_pause_command reads the flags and writes the mode ...
Pause ==
    /\ notifier.doing = "nothing"
    /\ notifier' = [doing |-> "pause", flags |-> store.faults \union {ManualPause}]
    /\ OperatorWrites([store EXCEPT !.mode = HALTED])

\* ... and then the flags.
PauseFlags ==
    /\ notifier.doing = "pause"
    /\ notifier' = NotifierIdle
    /\ OperatorWrites([store EXCEPT !.faults = notifier.flags])

\* _handle_start_command writes the flags and the mode ...
Start ==
    /\ notifier.doing = "nothing"
    /\ notifier' = [doing |-> "start", flags |-> {}]
    /\ OperatorWrites([store EXCEPT !.faults = @ \ {ManualPause},
                                    !.mode = NORMAL])

\* ... and then the release target.
StartRelease ==
    /\ notifier.doing = "start"
    /\ notifier' = NotifierIdle
    /\ OperatorWrites([store EXCEPT !.release = NORMAL])

LatestVersion == IF published = None THEN 0 ELSE published.version

PublishSnapshot ==
    /\ FixedSnapshot = None /\ LatestVersion < MaxVersion
    /\ \E s \in Publishable :
        published' = [version |-> LatestVersion + 1, mode |-> s.mode,
                      approved |-> s.approved]
    /\ UNCHANGED <<up, rt, pc, event, decision, left, store, saved, notifier,
                   history>>

-----------------------------------------------------------------------------
Init ==
    /\ up = FALSE
    /\ rt = NoRuntime
    /\ pc = AllIdle
    /\ event = NoEvent
    /\ decision = NoDecision
    /\ left = NoSignals
    /\ store = [mode |-> None, faults |-> {}, release |-> None]
    /\ published = None
    /\ saved = None
    /\ notifier = NotifierIdle
    /\ history = [mismatch |-> FALSE, operatorWrote |-> FALSE,
                  halted |-> [t \in Task |-> 0]]

TaskStep(t) ==
    \/ Publish(t)
    \/ Evaluate(t)
    \/ ResumeSignals(t)
    \/ SendClose(t)
    \/ ResumeClose(t)
    \/ AbandonOpen(t)
    \/ SendOpen(t)
    \/ ResumeOrder(t)

Trader ==
    \/ Boot
    \/ Stop
    \/ ReceiveMarket
    \/ ReceiveUpdate
    \/ ReceiveFlat
    \/ \E t \in Task : \/ TaskStep(t)
                       \/ StreamEnds(t)
                       \/ \E f \in FaultsOf(t), kind \in {"fault", "login"} :
                            ReceiveFault(t, f, kind)

Notifier == Pause \/ PauseFlags \/ Start \/ StartRelease

Next == Trader \/ Notifier \/ PublishSnapshot

(* asyncio runs every task that is ready, every REST call ends (by its      *)
(* timeout at the latest), the ticker and account channels keep sending, and *)
(* docker restarts the trader (restart: unless-stopped).  Strong fairness,   *)
(* with the enabling conditions written out.                                 *)
Ready(t, idle) == MayRun(t) /\ pc[t] # "ended" /\ (pc[t] = "idle" <=> idle)

Fairness ==
    /\ []<>~up => []<><<Boot>>_vars
    /\ \A t \in Task : []<>Ready(t, FALSE) => []<><<TaskStep(t)>>_vars
    /\ []<>Ready("public", TRUE) => []<><<ReceiveMarket>>_vars
    /\ []<>Ready("private", TRUE) => []<><<ReceiveUpdate>>_vars

Spec == Init /\ [][Next]_vars
FairSpec == Spec /\ Fairness

-----------------------------------------------------------------------------
(* Properties that hold.                                                    *)

Handlers == {"none", "market", "update", "flat", "fault", "login"}
Labels == {"idle", "publish", "evaluate", "signals", "leverage", "order",
           "close", "ended"}

\* The type invariant: of the state of TraderRuntime, Redis, Postgres and the
\* two stream tasks.
TypeOK ==
    /\ up \in BOOLEAN
    /\ rt \in Runtime
    /\ pc \in [Task -> Labels]
    /\ event \in [Task -> Handlers]
    /\ decision \in [Task -> BOOLEAN]
    /\ left \in [Task -> 0 .. MaxSignals]
    /\ store \in Store
    /\ published \in Snapshot \union {None}
    /\ saved \in Checkpoint \union {None}
    /\ notifier \in [doing: {"nothing", "pause", "start"}, flags: SUBSET Flag]
    /\ history \in [mismatch: BOOLEAN, operatorWrote: BOOLEAN,
                    halted: [Task -> Nat]]

\* A trader whose checkpoint still needs reconciling stays halted: no stream
\* recovery, published snapshot or /start gets it out of the startup gate.
ReconcileKeepsHalted == up /\ rt.checkpoint.reconcile => rt.mode = HALTED

\* Whichever path relaxes the mode of a running trader (a recovered stream, a
\* manual release, a newly published snapshot), none does so over a fault flag
\* that stays raised, while reconciliation is due, or for a snapshot that was
\* approved neither before nor after.
RelaxesOnlyWhenClean ==
    [][up /\ up' /\ rt'.mode < rt.mode
       => /\ rt.faults \intersect rt'.faults = {}
          /\ ~rt'.checkpoint.reconcile
          /\ rt.snapshot.approved \/ rt'.snapshot.approved]_vars

\* The mode is never looser than what any raised fault flag calls for, even
\* when a release and a fault meet in one handler or two streams fail at once.
FaultsBoundMode == up => \A f \in rt.faults : rt.mode >= FaultMode(f)

\* The handlers that have changed the runtime and not published it yet.
Unpublished(t) == pc[t] = "publish" \/ event[t] = "flat"

\* Redis shows the trader's own mode and fault flags whenever no handler is on
\* its way to publishing them and the operator has not written since: no exit
\* of a handler forgets the publication.
StoreShowsRuntime ==
    up /\ ~history.operatorWrote /\ (\A t \in Task : ~Unpublished(t))
    => store.mode = rt.mode /\ store.faults = rt.faults

\* What a halt does not stop: each task may still send the opens of the one
\* evaluation it was in, and never starts another.
HaltStopsEvaluations == up => \A t \in Task : history.halted[t] <= MaxSignals

\* A /start the trader can apply is applied: it does not stay pending.
PendingRelease == up /\ store.release # None /\ CanRelease(rt, store.release)
ReleaseServed ==
    PendingRelease /\ pc["public"] # "ended"
    ~> ~PendingRelease \/ pc["public"] = "ended"

\* A stream fault flag does not outlive the stream's recovery: it goes as long
\* as the stream that raised it delivers events.
StreamFaultsClear ==
    /\ \A f \in PublicFaults :
        up /\ f \in rt.faults ~> ~up \/ f \notin rt.faults \/ pc["public"] = "ended"
    /\ \A f \in PrivateFaults :
        up /\ f \in rt.faults ~> ~up \/ f \notin rt.faults \/ pc["private"] = "ended"
=============================================================================
