------------------------ MODULE RuntimeControlProofs ------------------------
(***************************************************************************)
(* Theorems about RuntimeControl, for every set of symbols and fault codes,*)
(* every snapshot and every bound.                                         *)
(***************************************************************************)
EXTENDS RuntimeControl, TLAPS

Worlds == [rt: Runtime, store: Store, wrote: BOOLEAN]

USE DEF NORMAL, DEGRADED, REDUCE_ONLY, HALTED

-----------------------------------------------------------------------------
(* The operators that change the mode.                                      *)

LEMMA WithModeFacts ==
    ASSUME NEW r \in Runtime, NEW m \in RunMode
    PROVE  /\ WithMode(r, m) \in Runtime
           /\ WithMode(r, m).mode = m
           /\ WithMode(r, m).engine = m
           /\ WithMode(r, m).faults = r.faults
           /\ WithMode(r, m).snapshot = r.snapshot
           /\ WithMode(r, m).checkpoint.reconcile = r.checkpoint.reconcile
           /\ WithMode(r, m).reversing = r.reversing
  BY DEF WithMode, Runtime, Checkpoint, RunMode, BlocksOpen

LEMMA MoreRestrictiveFacts ==
    ASSUME NEW a \in RunMode, NEW b \in RunMode
    PROVE  /\ MoreRestrictive(a, b) \in RunMode
           /\ MoreRestrictive(a, b) >= a
           /\ MoreRestrictive(a, b) >= b
  BY DEF MoreRestrictive, RunMode

LEMMA TightenedFacts ==
    ASSUME NEW r \in Runtime, NEW m \in RunMode
    PROVE  /\ Tightened(r, m) \in Runtime
           /\ Tightened(r, m).mode >= r.mode
           /\ Tightened(r, m).mode >= m
           /\ Tightened(r, m).engine = Tightened(r, m).mode
           /\ Tightened(r, m).faults = r.faults
           /\ Tightened(r, m).snapshot = r.snapshot
           /\ Tightened(r, m).checkpoint.reconcile = r.checkpoint.reconcile
           /\ Tightened(r, m).reversing = r.reversing
  <1>1. r.mode \in RunMode
    BY DEF Runtime
  <1>2. MoreRestrictive(r.mode, m) \in RunMode
    BY <1>1, MoreRestrictiveFacts
  <1> QED
    BY <1>1, <1>2, MoreRestrictiveFacts, WithModeFacts DEF Tightened

LEMMA PublishedFacts ==
    ASSUME NEW r \in Runtime, NEW s \in Store
    PROVE  /\ Published(r, s) \in Store
           /\ Published(r, s).mode = r.engine
           /\ Published(r, s).faults = r.faults
           /\ Published(r, s).release = s.release
  BY DEF Published, Store, Runtime, Flag

(* What a sound runtime is: engine and trader agree on the mode, a pending   *)
(* reconciliation keeps it halted, and every fault flag bounds it.          *)
Good(r) ==
    /\ r.engine = r.mode
    /\ r.checkpoint.reconcile => r.mode = HALTED
    /\ \A f \in r.faults : r.mode >= FaultMode(f)

\* What relaxing from r to s takes.
Clean(r, s) ==
    s.mode < r.mode
    => /\ r.faults \intersect s.faults = {}
       /\ ~s.checkpoint.reconcile
       /\ r.snapshot.approved \/ s.snapshot.approved

\* How a change of the world from w to v relates to Redis: either it is shown
\* there, or nothing Redis shows has changed.
Shows(w, v) ==
    IF v.wrote THEN v.store.mode = v.rt.mode /\ v.store.faults = v.rt.faults
    ELSE v.store = w.store /\ v.rt.mode = w.rt.mode /\ v.rt.faults = w.rt.faults

LEMMA FaultModeFacts ==
    ASSUME NEW f
    PROVE  FaultMode(f) \in {DEGRADED, REDUCE_ONLY}
  BY DEF FaultMode

LEMMA TightenedGood ==
    ASSUME NEW r \in Runtime, NEW m \in RunMode,
           r.checkpoint.reconcile => r.mode = HALTED,
           \A f \in r.faults : r.mode >= FaultMode(f)
    PROVE  Good(Tightened(r, m))
  <1>1. /\ r.mode \in RunMode
        /\ Tightened(r, m).mode \in RunMode
    BY TightenedFacts DEF Runtime
  <1> QED
    BY <1>1, TightenedFacts, FaultModeFacts DEF Good, RunMode

LEMMA ModeSyncedFacts ==
    ASSUME NEW w \in Worlds, Good(w.rt), ~w.wrote
    PROVE  /\ ModeSynced(w) \in Worlds
           /\ Good(ModeSynced(w).rt)
           /\ ModeSynced(w).rt.mode >= w.rt.mode
           /\ ModeSynced(w).rt.faults = w.rt.faults
           /\ ModeSynced(w).rt.snapshot = w.rt.snapshot
           /\ ModeSynced(w).rt.checkpoint.reconcile = w.rt.checkpoint.reconcile
           /\ Shows(w, ModeSynced(w))
  <1>1. w.rt \in Runtime /\ w.store \in Store /\ w.rt.mode \in RunMode
    BY DEF Worlds, Runtime
  <1>2. CASE ModeRequested(w)
    <2> DEFINE r == Tightened(w.rt, w.store.mode)
    <2>1. w.store.mode \in RunMode
      BY <1>1, <1>2 DEF ModeRequested, Store
    <2>2. r \in Runtime /\ Good(r)
      BY <1>1, <2>1, TightenedFacts, TightenedGood DEF Good
    <2>3. ModeSynced(w) = [rt |-> r, store |-> Published(r, w.store), wrote |-> TRUE]
      BY <1>2 DEF ModeSynced
    <2>4. ModeSynced(w) \in Worlds
      BY <1>1, <2>2, <2>3, PublishedFacts DEF Worlds
    <2>5. Shows(w, ModeSynced(w))
      BY <1>1, <2>2, <2>3, PublishedFacts DEF Shows, Good
    <2> QED
      BY <1>1, <2>1, <2>2, <2>3, <2>4, <2>5, TightenedFacts
  <1>3. CASE ~ModeRequested(w)
    BY <1>1, <1>3 DEF ModeSynced, Shows, RunMode
  <1> QED
    BY <1>2, <1>3

LEMMA ReleaseSyncedFacts ==
    ASSUME NEW w \in Worlds, Good(w.rt)
    PROVE  LET v == ReleaseSynced(w) IN
           /\ v \in Worlds
           /\ Good(v.rt)
           /\ v.rt.mode < w.rt.mode
              => w.rt.faults = {} /\ w.rt.snapshot.approved
                 /\ ~w.rt.checkpoint.reconcile
           /\ v.rt.mode <= w.rt.mode
           /\ v.rt.faults = w.rt.faults
           /\ v.rt.snapshot = w.rt.snapshot
           /\ v.rt.checkpoint.reconcile = w.rt.checkpoint.reconcile
           /\ v = w \/ (Shows(w, v) /\ v.wrote)
  <1>1. w.rt \in Runtime /\ w.store \in Store /\ w.rt.mode \in RunMode
    BY DEF Worlds, Runtime
  <1> DEFINE target == w.store.release
             r == WithMode(w.rt, target)
             s == [Published(r, w.store) EXCEPT !.release = None]
  <1>2. CASE target # None /\ CanRelease(w.rt, target)
    <2>1. target = NORMAL /\ target \in RunMode
      BY <1>1, <1>2 DEF Store, RunMode
    <2>2. r \in Runtime
      BY <1>1, <2>1, WithModeFacts
    <2>3. ReleaseSynced(w) = [rt |-> r, wrote |-> TRUE, store |-> s]
      BY <1>2 DEF ReleaseSynced
    <2>4. Published(r, w.store) \in Store
      BY <1>1, <2>2, PublishedFacts
    <2>5. /\ s \in Store
          /\ s.mode = Published(r, w.store).mode
          /\ s.faults = Published(r, w.store).faults
      BY <2>4 DEF Store
    <2>6. Good(r)
      BY <1>1, <1>2, <2>1, WithModeFacts DEF Good, CanRelease, CanOpenNewRisk
    <2>7. ReleaseSynced(w) \in Worlds
      BY <2>2, <2>3, <2>5 DEF Worlds
    <2>8. s.mode = r.mode /\ s.faults = r.faults
      BY <1>1, <2>1, <2>2, <2>5, PublishedFacts, WithModeFacts
    <2> HIDE DEF r, s
    <2>9. Shows(w, ReleaseSynced(w)) /\ ReleaseSynced(w).wrote
      <3>1. /\ ReleaseSynced(w).rt = r
            /\ ReleaseSynced(w).store = s
            /\ ReleaseSynced(w).wrote
        BY <2>3
      <3> QED
        BY <3>1, <2>8 DEF Shows
    <2> USE DEF r, s
    <2> QED
      BY <1>1, <1>2, <2>1, <2>3, <2>6, <2>7, <2>9, WithModeFacts
      DEF CanRelease, CanOpenNewRisk, RunMode
  <1>3. CASE ~(target # None /\ CanRelease(w.rt, target))
    BY <1>1, <1>3 DEF ReleaseSynced, RunMode
  <1> QED
    BY <1>2, <1>3

(* The whole of _sync_manual_runtime_controls.                              *)
LEMMA SyncedFacts ==
    ASSUME NEW w \in Worlds, Good(w.rt), ~w.wrote
    PROVE  LET v == Synced(w) IN
           /\ v \in Worlds
           /\ Good(v.rt)
           /\ v.rt.mode < w.rt.mode
              => w.rt.faults = {} /\ w.rt.snapshot.approved
                 /\ ~w.rt.checkpoint.reconcile
           /\ v.rt.faults = w.rt.faults
           /\ v.rt.snapshot = w.rt.snapshot
           /\ v.rt.checkpoint.reconcile = w.rt.checkpoint.reconcile
           /\ Shows(w, v)
  <1> DEFINE m == ModeSynced(w)
  <1>1. /\ m \in Worlds /\ Good(m.rt) /\ Shows(w, m)
        /\ m.rt.mode >= w.rt.mode
        /\ m.rt.faults = w.rt.faults
        /\ m.rt.snapshot = w.rt.snapshot
        /\ m.rt.checkpoint.reconcile = w.rt.checkpoint.reconcile
    BY ModeSyncedFacts
  <1>2. Synced(w) = ReleaseSynced(m)
    BY DEF Synced
  <1>3. w.rt.mode \in RunMode /\ m.rt.mode \in RunMode
    BY <1>1 DEF Worlds, Runtime
  <1>4. Shows(w, ReleaseSynced(m))
    BY <1>1, ReleaseSyncedFacts DEF Shows
  <1>5. ReleaseSynced(m).rt.mode \in RunMode
    BY <1>1, ReleaseSyncedFacts DEF Worlds, Runtime
  <1> QED
    BY <1>1, <1>2, <1>3, <1>4, <1>5, ReleaseSyncedFacts DEF RunMode

LEMMA RecoveredFacts ==
    ASSUME NEW r \in Runtime, Good(r), NEW codes
    PROVE  LET v == Recovered(r, codes) IN
           /\ v \in Runtime
           /\ Good(v)
           /\ v.faults \subseteq r.faults
           /\ v.mode < r.mode => v.faults = {} /\ r.snapshot.approved
           /\ v.mode <= r.mode
           /\ v.snapshot = r.snapshot
           /\ v.checkpoint.reconcile = r.checkpoint.reconcile
           /\ v.mode < r.mode => ~v.checkpoint.reconcile
  <1> DEFINE cleared == [r EXCEPT !.faults = @ \ codes]
  <1>1. /\ cleared \in Runtime
        /\ cleared.mode = r.mode
        /\ cleared.engine = r.engine
        /\ cleared.faults = r.faults \ codes
        /\ cleared.snapshot = r.snapshot
        /\ cleared.checkpoint = r.checkpoint
    BY DEF Runtime
  <1>2. Good(cleared)
    BY <1>1 DEF Good
  <1>3. /\ r.mode \in RunMode
        /\ cleared.snapshot.mode \in RunMode
    BY <1>1 DEF Runtime, Snapshot
  <1> HIDE DEF cleared
  <1>4. CASE r.faults \intersect codes # {} /\ CanRelaxTo(cleared, cleared.snapshot)
    <2> DEFINE v == WithMode(cleared, cleared.snapshot.mode)
    <2>1. Recovered(r, codes) = v
      BY <1>4 DEF Recovered, cleared
    <2>2. /\ cleared.faults = {}
          /\ cleared.mode > cleared.snapshot.mode
          /\ cleared.snapshot.approved
          /\ ~cleared.checkpoint.reconcile
      BY <1>4 DEF CanRelaxTo, CanOpenNewRisk
    <2>3. /\ v \in Runtime
          /\ v.mode = cleared.snapshot.mode
          /\ v.engine = v.mode
          /\ v.faults = {}
          /\ v.snapshot = cleared.snapshot
          /\ v.checkpoint.reconcile = r.checkpoint.reconcile
          /\ ~v.checkpoint.reconcile
      BY <1>1, <1>3, <2>2, WithModeFacts
    <2> HIDE DEF v
    <2>4. Good(v)
      BY <2>3 DEF Good
    <2>5. v.mode < r.mode /\ v.mode <= r.mode
      BY <1>1, <1>3, <2>2, <2>3 DEF RunMode
    <2>6. r.snapshot.approved /\ v.snapshot = r.snapshot
      BY <1>1, <2>2, <2>3
    <2> QED
      BY <2>1, <2>3, <2>4, <2>5, <2>6
  <1>5. CASE ~(r.faults \intersect codes # {} /\ CanRelaxTo(cleared, cleared.snapshot))
    <2>1. Recovered(r, codes) = cleared
      BY <1>5 DEF Recovered, cleared
    <2> QED
      BY <1>1, <1>2, <1>3, <2>1 DEF RunMode
  <1> QED
    BY <1>4, <1>5

LEMMA RefreshedFacts ==
    ASSUME NEW w \in Worlds, Good(w.rt), published \in Snapshot \union {None}
    PROVE  LET v == Refreshed(w) IN
           /\ v \in Worlds
           /\ Good(v.rt)
           /\ v.rt.faults = w.rt.faults
           /\ v.rt.mode < w.rt.mode => v.rt.faults = {} /\ v.rt.snapshot.approved
           /\ v.rt.mode <= w.rt.mode
           /\ v.rt.checkpoint.reconcile = w.rt.checkpoint.reconcile
           /\ v.rt.mode < w.rt.mode => ~v.rt.checkpoint.reconcile
           /\ \/ v.store = w.store /\ v.rt.mode = w.rt.mode /\ (v.wrote <=> w.wrote)
              \/ v.wrote /\ v.store.mode = v.rt.mode /\ v.store.faults = v.rt.faults
  <1> DEFINE r == [w.rt EXCEPT !.snapshot = published]
             relaxed == [r EXCEPT !.mode = published.mode,
                                  !.engine = published.mode, !.opening = TRUE]
  <1>1. /\ w.rt \in Runtime /\ w.store \in Store /\ w.wrote \in BOOLEAN
        /\ w.rt.mode \in RunMode
    BY DEF Worlds, Runtime
  <1>2. CASE FixedSnapshot # None \/ published = None
    BY <1>1, <1>2 DEF Refreshed, RunMode
  <1>3. CASE ~(FixedSnapshot # None \/ published = None)
    <2>1. published \in Snapshot /\ published.mode \in RunMode
      BY <1>3 DEF Snapshot
    <2>2. /\ r \in Runtime
          /\ r.mode = w.rt.mode
          /\ r.engine = w.rt.engine
          /\ r.faults = w.rt.faults
          /\ r.checkpoint = w.rt.checkpoint
          /\ r.snapshot = published
      BY <1>1, <2>1 DEF Runtime
    <2>3. CASE CanRelaxTo(r, published)
      <3>1. /\ relaxed \in Runtime
            /\ relaxed.mode = published.mode
            /\ relaxed.engine = published.mode
            /\ relaxed.faults = w.rt.faults
            /\ relaxed.checkpoint = w.rt.checkpoint
            /\ relaxed.snapshot = published
        BY <2>1, <2>2 DEF Runtime
      <3>2. Refreshed(w) = [rt |-> relaxed, store |-> Published(relaxed, w.store),
                            wrote |-> TRUE]
        BY <1>3, <2>3 DEF Refreshed
      <3> HIDE DEF relaxed, r
      <3>3. /\ Refreshed(w).rt = relaxed
            /\ Refreshed(w).store = Published(relaxed, w.store)
            /\ Refreshed(w).wrote
            /\ Refreshed(w) \in Worlds
        BY <1>1, <3>1, <3>2, PublishedFacts DEF Worlds
      <3>4. /\ w.rt.mode > published.mode
            /\ published.approved
            /\ ~w.rt.checkpoint.reconcile
            /\ w.rt.faults = {}
        BY <2>2, <2>3 DEF CanRelaxTo, CanOpenNewRisk
      <3>5. Good(relaxed)
        BY <3>1, <3>4 DEF Good
      <3>6. /\ Refreshed(w).store.mode = relaxed.mode
            /\ Refreshed(w).store.faults = relaxed.faults
        BY <1>1, <3>1, <3>3, PublishedFacts
      <3>7. relaxed.mode < w.rt.mode /\ relaxed.mode <= w.rt.mode
        BY <1>1, <2>1, <3>1, <3>4 DEF RunMode
      <3> QED
        BY <3>1, <3>3, <3>4, <3>5, <3>6, <3>7
    <2>4. CASE ~CanRelaxTo(r, published)
      <3>1. Refreshed(w) = [w EXCEPT !.rt = r]
        BY <1>3, <2>4 DEF Refreshed
      <3> HIDE DEF r
      <3>2. /\ Refreshed(w) \in Worlds
            /\ Refreshed(w).rt = r
            /\ Refreshed(w).store = w.store
            /\ Refreshed(w).wrote = w.wrote
        BY <2>2, <3>1 DEF Worlds
      <3>3. Good(r)
        BY <2>2 DEF Good
      <3> QED
        BY <1>1, <2>2, <3>2, <3>3 DEF RunMode
    <2> QED
      BY <2>3, <2>4
  <1> QED
    BY <1>2, <1>3

-----------------------------------------------------------------------------
(* Startup.                                                                 *)

\* A checkpoint saved by a startup that compared nothing needs no reconciling.
SavedSound == saved # None /\ saved.id = "startup" => ~saved.reconcile

StoredTypes ==
    /\ published \in Snapshot \union {None}
    /\ saved \in Checkpoint \union {None}

LEMMA RelaxedAtStartupFacts ==
    ASSUME NEW r \in Runtime, r.faults = {},
           r.checkpoint.reconcile => r.mode = HALTED
    PROVE  LET v == RelaxedAtStartup(r) IN
           /\ v \in Runtime
           /\ v.faults = {}
           /\ v.checkpoint = r.checkpoint
           /\ v.snapshot = r.snapshot
           /\ v.checkpoint.reconcile => v.mode = HALTED
  <1>1. r.snapshot.mode \in RunMode
    BY DEF Runtime, Snapshot
  <1>2. CASE CanRelaxTo(r, r.snapshot)
    <2> DEFINE v == [r EXCEPT !.mode = r.snapshot.mode, !.opening = TRUE]
    <2>1. RelaxedAtStartup(r) = v
      BY <1>2 DEF RelaxedAtStartup
    <2>2. /\ v \in Runtime
          /\ v.faults = {}
          /\ v.checkpoint = r.checkpoint
          /\ v.snapshot = r.snapshot
      BY <1>1 DEF Runtime
    <2>3. ~r.checkpoint.reconcile
      BY <1>2 DEF CanRelaxTo, CanOpenNewRisk
    <2> HIDE DEF v
    <2> QED
      BY <2>1, <2>2, <2>3
  <1>3. CASE ~CanRelaxTo(r, r.snapshot)
    BY <1>3 DEF RelaxedAtStartup
  <1> QED
    BY <1>2, <1>3

LEMMA RestrictedFacts ==
    ASSUME NEW r \in Runtime, NEW m \in RunMode, r.faults = {},
           r.checkpoint.reconcile => r.mode = HALTED
    PROVE  LET v == [r EXCEPT !.mode = MoreRestrictive(@, m)] IN
           /\ v \in Runtime
           /\ v.faults = {}
           /\ v.checkpoint = r.checkpoint
           /\ v.snapshot = r.snapshot
           /\ v.checkpoint.reconcile => v.mode = HALTED
  <1> DEFINE n == MoreRestrictive(r.mode, m)
             v == [r EXCEPT !.mode = n]
  <1>1. r.mode \in RunMode /\ n \in RunMode /\ n >= r.mode
    BY MoreRestrictiveFacts DEF Runtime
  <1> HIDE DEF n
  <1>2. v \in Runtime /\ v.faults = {} /\ v.checkpoint = r.checkpoint
        /\ v.snapshot = r.snapshot /\ v.mode = n
    BY <1>1 DEF Runtime
  <1>3. n = HALTED \/ ~r.checkpoint.reconcile
    BY <1>1 DEF RunMode
  <1> HIDE DEF v
  <1> QED
    BY <1>2, <1>3 DEF n, v

LEMMA GatedFacts ==
    ASSUME NEW r \in Runtime, r.faults = {},
           r.checkpoint.reconcile => r.mode = HALTED
    PROVE  LET v == Gated(r) IN
           /\ v \in Runtime
           /\ v.faults = {}
           /\ v.checkpoint = r.checkpoint
           /\ v.checkpoint.reconcile => v.mode = HALTED
  <1> DEFINE Startable(v) == /\ v \in Runtime
                             /\ v.faults = {}
                             /\ v.checkpoint = r.checkpoint
                             /\ v.snapshot = r.snapshot
                             /\ v.checkpoint.reconcile => v.mode = HALTED
             checked == [r EXCEPT !.opening = @ /\ CanOpenNewRisk(r.checkpoint)]
             first == IF CanRelaxTo(checked, checked.snapshot)
                      THEN RelaxedAtStartup(checked)
                      ELSE [checked EXCEPT !.mode = MoreRestrictive(@, r.snapshot.mode)]
             second == IF first.opening THEN first
                       ELSE [first EXCEPT !.mode = MoreRestrictive(@, REDUCE_ONLY)]
  <1>1. Startable(checked)
    BY DEF Runtime
  <1>2. r.snapshot.mode \in RunMode /\ REDUCE_ONLY \in RunMode
    BY DEF Runtime, Snapshot, RunMode
  <1> HIDE DEF checked
  <1>3. Startable(first)
    BY <1>1, <1>2, RelaxedAtStartupFacts, RestrictedFacts
  <1> HIDE DEF first
  <1>4. Startable(second)
    BY <1>2, <1>3, RestrictedFacts
  <1> HIDE DEF second
  <1>5. Gated(r) = RelaxedAtStartup(second)
    BY DEF Gated, second, first, checked
  <1> QED
    BY <1>4, <1>5, RelaxedAtStartupFacts

LEMMA StartupTypes ==
    ASSUME StoredTypes, SavedSound
    PROVE  /\ BuiltSnapshot \in Snapshot
           /\ RunSnapshot \in Snapshot
           /\ LoadedCheckpoint \in Checkpoint
           /\ ~NeedsRecovery => ~LoadedCheckpoint.reconcile
  <1>1. Bootstrap \in Snapshot
    BY ControlConstants DEF Bootstrap, Snapshot, Version
  <1>2. SnapshotSource = None \/ SnapshotSource \in Snapshot
    BY ControlConstants DEF SnapshotSource, StoredTypes
  <1>3. BuiltSnapshot \in Snapshot
    <2>1. CASE SnapshotSource = None
      BY <1>1, <2>1 DEF BuiltSnapshot
    <2>2. CASE SnapshotSource # None
      <3> DEFINE m == MoreRestrictive(DefaultRunMode, SnapshotSource.mode)
      <3>1. SnapshotSource \in Snapshot
        BY <1>2, <2>2
      <3>2. SnapshotSource.mode \in RunMode
        BY <3>1 DEF Snapshot
      <3>3. m \in RunMode
        BY <3>2, ControlConstants, MoreRestrictiveFacts
      <3> HIDE DEF m
      <3>4. BuiltSnapshot = [SnapshotSource EXCEPT !.mode = m]
        BY <2>2 DEF BuiltSnapshot, m
      <3> QED
        BY <3>1, <3>3, <3>4 DEF Snapshot
    <2> QED
      BY <2>1, <2>2
  <1>4. RunSnapshot \in Snapshot
    BY <1>3 DEF RunSnapshot, StoredTypes
  <1>5. StartupCheckpoint \in Checkpoint /\ ~StartupCheckpoint.reconcile
    BY <1>3, <1>4 DEF StartupCheckpoint, Checkpoint, Snapshot
  <1>6. LoadedCheckpoint \in Checkpoint
    BY <1>5 DEF LoadedCheckpoint, StoredTypes
  <1>7. ~NeedsRecovery => ~LoadedCheckpoint.reconcile
    BY <1>5 DEF NeedsRecovery, LoadedCheckpoint, SavedSound
  <1> QED
    BY <1>3, <1>4, <1>6, <1>7

LEMMA AfterRecoveryFacts ==
    ASSUME StoredTypes, SavedSound,
           NEW mismatch \in SUBSET (1 .. NumSymbols)
    PROVE  LET v == AfterRecovery(mismatch) IN
           /\ v \in Runtime
           /\ v.faults = {}
           /\ v.checkpoint.reconcile => v.mode = HALTED
           /\ v.checkpoint.id = "startup" => ~v.checkpoint.reconcile
  <1> DEFINE initial == [mode |-> BuiltSnapshot.mode, engine |-> NORMAL,
                         opening |-> TRUE, snapshot |-> RunSnapshot,
                         checkpoint |-> LoadedCheckpoint, faults |-> {},
                         reversing |-> FALSE]
             result == IF mismatch = {} THEN LoadedCheckpoint.mode ELSE HALTED
             bad == NumSymbols \in mismatch
             r == Tightened(initial, result)
             v == [r EXCEPT !.checkpoint.reconcile = bad]
  <1>1. /\ BuiltSnapshot.mode \in RunMode
        /\ LoadedCheckpoint.mode \in RunMode
        /\ LoadedCheckpoint.id \in {"startup", "runtime"}
    BY StartupTypes DEF Snapshot, Checkpoint
  <1>2. /\ initial \in Runtime
        /\ initial.faults = {}
        /\ initial.checkpoint = LoadedCheckpoint
    BY <1>1, StartupTypes DEF Runtime, RunMode
  <1>3. result \in RunMode
    BY <1>1 DEF RunMode
  <1> HIDE DEF initial, result
  <1>4. CASE ~NeedsRecovery
    <2>1. AfterRecovery(mismatch) = initial
      BY <1>4 DEF AfterRecovery, initial
    <2> QED
      BY <1>2, <1>4, <2>1, StartupTypes
  <1>5. CASE NeedsRecovery
    <2>1. AfterRecovery(mismatch) = v
      BY <1>5 DEF AfterRecovery, initial, result
    <2>2. /\ r \in Runtime
          /\ r.faults = {}
          /\ r.mode >= result
          /\ r.mode \in RunMode
          /\ r.checkpoint \in Checkpoint
      BY <1>2, <1>3, TightenedFacts DEF Runtime
    <2>3. r.checkpoint.id = LoadedCheckpoint.id
      BY <1>2 DEF Tightened, WithMode, Runtime, Checkpoint
    <2>4. bad => result = HALTED
      BY ControlConstants DEF result
    <2>5. bad \in BOOLEAN
      OBVIOUS
    <2> HIDE DEF r, bad
    <2>6. /\ v \in Runtime
          /\ v.faults = {}
          /\ v.mode = r.mode
          /\ v.checkpoint.reconcile = bad
          /\ v.checkpoint.id = LoadedCheckpoint.id
      BY <2>2, <2>3, <2>5 DEF Runtime, Checkpoint
    <2> HIDE DEF v
    <2>7. v.checkpoint.id # "startup"
      BY <1>5, <2>6 DEF NeedsRecovery
    <2>8. bad => v.mode = HALTED
      BY <1>3, <2>2, <2>4, <2>6 DEF RunMode
    <2>9. v.checkpoint.reconcile => v.mode = HALTED
      BY <2>6, <2>8
    <2> QED
      BY <2>1, <2>6, <2>7, <2>9
  <1> QED
    BY <1>4, <1>5

LEMMA StartedFacts ==
    ASSUME StoredTypes, SavedSound,
           NEW mismatch \in SUBSET (1 .. NumSymbols)
    PROVE  LET v == Started(mismatch) IN
           /\ v \in Runtime
           /\ Good(v)
           /\ v.checkpoint \in Checkpoint
           /\ v.checkpoint.id = "startup" => ~v.checkpoint.reconcile
  <1> DEFINE a == AfterRecovery(mismatch)
             r == Gated(a)
             v == [r EXCEPT !.engine = r.mode, !.snapshot.mode = r.mode,
                            !.checkpoint.mode = r.mode]
  <1>1. /\ a \in Runtime
        /\ a.faults = {}
        /\ a.checkpoint.reconcile => a.mode = HALTED
        /\ a.checkpoint.id = "startup" => ~a.checkpoint.reconcile
    BY AfterRecoveryFacts
  <1> HIDE DEF a
  <1>2. /\ r \in Runtime
        /\ r.faults = {}
        /\ r.checkpoint = a.checkpoint
        /\ r.checkpoint.reconcile => r.mode = HALTED
    BY <1>1, GatedFacts
  <1>3. Started(mismatch) = v
    BY DEF Started, r, a
  <1> HIDE DEF r
  <1>4. /\ v \in Runtime
        /\ v.engine = r.mode
        /\ v.mode = r.mode
        /\ v.faults = {}
        /\ v.checkpoint.id = r.checkpoint.id
        /\ v.checkpoint.reconcile = r.checkpoint.reconcile
        /\ v.checkpoint \in Checkpoint
    BY <1>2 DEF Runtime, Checkpoint, Snapshot
  <1> HIDE DEF v
  <1>5. Good(v)
    BY <1>2, <1>4 DEF Good
  <1> QED
    BY <1>1, <1>2, <1>3, <1>4, <1>5

-----------------------------------------------------------------------------
(* The inductive invariant: the types, a sound runtime, and a startup that   *)
(* never forgets to compare what must be reconciled.                        *)
Inv ==
    /\ TypeOK
    /\ up => Good(rt)
    /\ SavedSound

LEMMA InitInv == Init => Inv
  <1> SUFFICES ASSUME Init PROVE Inv
    OBVIOUS
  <1>1. Bootstrap \in Snapshot /\ DefaultRunMode \in RunMode /\ 0 \in Version
    BY ControlConstants DEF Bootstrap, Snapshot, Version
  <1>2. NoRuntime \in Runtime
    BY <1>1 DEF NoRuntime, Runtime, Checkpoint, RunMode
  <1>3. pc \in [Task -> Labels] /\ event \in [Task -> Handlers]
    BY DEF Init, AllIdle, NoEvent, Labels, Handlers
  <1>4. decision \in [Task -> BOOLEAN] /\ left \in [Task -> 0 .. MaxSignals]
    BY ControlConstants DEF Init, NoDecision, NoSignals
  <1>5. store \in Store /\ notifier \in [doing: {"nothing", "pause", "start"}, flags: SUBSET Flag]
    BY DEF Init, Store, NotifierIdle
  <1>6. history \in [mismatch: BOOLEAN, operatorWrote: BOOLEAN, halted: [Task -> Nat]]
    BY DEF Init
  <1> QED
    BY <1>2, <1>3, <1>4, <1>5, <1>6 DEF Init, Inv, TypeOK, SavedSound

\* The types of what the handlers of the stream tasks keep.
TaskTypes ==
    /\ pc \in [Task -> Labels]
    /\ event \in [Task -> Handlers]
    /\ decision \in [Task -> BOOLEAN]
    /\ left \in [Task -> 0 .. MaxSignals]

LEMMA RememberTypes ==
    ASSUME TypeOK, NEW r, NEW wrote, Remember(r, wrote)
    PROVE  history' \in [mismatch: BOOLEAN, operatorWrote: BOOLEAN,
                         halted: [Task -> Nat]]
  BY DEF Remember, TypeOK

LEMMA FinishTypes ==
    ASSUME TaskTypes, NEW t \in Task, Finish(t)
    PROVE  TaskTypes'
  <1>1. decision' \in [Task -> BOOLEAN] /\ left' \in [Task -> 0 .. MaxSignals]
    BY ControlConstants DEF Finish, TaskTypes
  <1>2. pc' \in [Task -> Labels] /\ event' \in [Task -> Handlers]
    BY DEF Finish, Goto, TaskTypes, Labels, Handlers
  <1> QED
    BY <1>1, <1>2 DEF TaskTypes

LEMMA ProposeTypes ==
    ASSUME TypeOK, NEW t \in Task, NEW n \in 0 .. MaxSignals, Propose(t, n)
    PROVE  TaskTypes'
  <1>1. n - 1 \in 0 .. MaxSignals
    BY ControlConstants DEF Propose
  <1>2. KernelAllowsOpen(rt.snapshot) \in BOOLEAN
    BY DEF KernelAllowsOpen, TypeOK, Runtime, Snapshot
  <1>3. decision' \in [Task -> BOOLEAN]
    BY <1>2 DEF Propose, TypeOK
  <1>4. left' \in [Task -> 0 .. MaxSignals]
    BY <1>1 DEF Propose, TypeOK
  <1>5. pc' \in [Task -> Labels] /\ event' \in [Task -> Handlers]
    BY DEF Propose, Goto, TypeOK, Labels, Handlers
  <1> QED
    BY <1>3, <1>4, <1>5 DEF TaskTypes

\* Continue, the common part of five awaits, keeps the mode as it is.
LEMMA ContinueStep ==
    ASSUME Inv, NEW t \in Task, NEW n \in 0 .. MaxSignals,
           NEW reversing \in BOOLEAN, Continue(t, n, reversing)
    PROVE  Inv' /\ Clean(rt, rt')
  <1>1. TaskTypes'
    BY FinishTypes, ProposeTypes DEF Continue, Inv, TypeOK, TaskTypes
  <1>2. /\ rt' \in Runtime
        /\ rt'.mode = rt.mode
        /\ rt'.engine = rt.engine
        /\ rt'.faults = rt.faults
        /\ rt'.checkpoint = rt.checkpoint
    BY DEF Continue, Inv, TypeOK, Runtime
  <1>3. rt.mode \in RunMode
    BY DEF Inv, TypeOK, Runtime
  <1>4. up' => Good(rt')
    BY <1>2 DEF Continue, Inv, Good
  <1>5. Clean(rt, rt')
    BY <1>2, <1>3 DEF Clean, RunMode
  <1> QED
    BY <1>1, <1>2, <1>4, <1>5 DEF Continue, Inv, TypeOK, TaskTypes, SavedSound

LEMMA WorldFacts ==
    ASSUME Inv, up
    PROVE  /\ World \in Worlds /\ Good(World.rt) /\ ~World.wrote
           /\ World.rt = rt /\ World.store = store
  BY DEF Inv, TypeOK, World, Worlds

LEMMA ReceiveStep ==
    ASSUME Inv, NEW t \in Task, NEW kind \in {"market", "update", "flat"},
           NEW clears, NEW next \in {"publish", "evaluate"},
           Receive(t, kind, clears, next)
    PROVE  Inv' /\ Clean(rt, rt')
  <1> DEFINE w == Synced(World)
             r == Recovered(w.rt, clears)
  <1>1. up /\ up' /\ rt' = r /\ store' = w.store /\ Remember(r, w.wrote)
    BY DEF Receive, MayRun
  <1>2. /\ w \in Worlds
        /\ Good(w.rt)
        /\ w.rt.mode < rt.mode
           => rt.faults = {} /\ rt.snapshot.approved /\ ~rt.checkpoint.reconcile
        /\ w.rt.faults = rt.faults
        /\ w.rt.snapshot = rt.snapshot
        /\ w.rt.checkpoint.reconcile = rt.checkpoint.reconcile
    BY <1>1, WorldFacts, SyncedFacts
  <1> HIDE DEF w
  <1>3. /\ w.rt \in Runtime /\ w.store \in Store
        /\ w.rt.mode \in RunMode /\ rt.mode \in RunMode
    BY <1>2 DEF Worlds, Runtime, Inv, TypeOK
  <1>4. /\ r \in Runtime
        /\ Good(r)
        /\ r.mode < w.rt.mode => r.faults = {} /\ w.rt.snapshot.approved
        /\ r.mode < w.rt.mode => ~r.checkpoint.reconcile
        /\ r.mode <= w.rt.mode
        /\ r.faults \subseteq w.rt.faults
        /\ r.checkpoint.reconcile = w.rt.checkpoint.reconcile
    BY <1>2, <1>3, RecoveredFacts
  <1> HIDE DEF r
  <1>5. r.mode \in RunMode
    BY <1>4 DEF Runtime
  <1>6. r.mode < rt.mode => r.mode < w.rt.mode \/ w.rt.mode < rt.mode
    BY <1>3, <1>5 DEF RunMode
  <1>7. Clean(rt, r)
    BY <1>2, <1>4, <1>6 DEF Clean
  <1>8. TaskTypes'
    BY DEF Receive, Goto, Inv, TypeOK, TaskTypes, Labels, Handlers
  <1>9. history' \in [mismatch: BOOLEAN, operatorWrote: BOOLEAN, halted: [Task -> Nat]]
    BY <1>1, RememberTypes DEF Inv
  <1> QED
    BY <1>1, <1>3, <1>4, <1>7, <1>8, <1>9
    DEF Receive, Inv, TypeOK, TaskTypes, SavedSound

LEMMA ReceiveFaultStep ==
    ASSUME Inv, NEW t \in Task, NEW f \in FaultsOf(t),
           NEW kind \in {"fault", "login"}, ReceiveFault(t, f, kind)
    PROVE  Inv' /\ Clean(rt, rt')
  <1> DEFINE w == Synced(World)
             flagged == [w.rt EXCEPT !.faults = @ \union {f}]
             r == Tightened(flagged, FaultMode(f))
  <1>1. up /\ up' /\ rt' = r /\ store' = w.store /\ Remember(r, w.wrote)
    BY DEF ReceiveFault, MayRun
  <1>2. /\ w \in Worlds
        /\ Good(w.rt)
        /\ w.rt.mode < rt.mode
           => rt.faults = {} /\ rt.snapshot.approved /\ ~rt.checkpoint.reconcile
        /\ w.rt.faults = rt.faults
        /\ w.rt.checkpoint.reconcile = rt.checkpoint.reconcile
    BY <1>1, WorldFacts, SyncedFacts
  <1> HIDE DEF w
  <1>3. /\ w.rt \in Runtime /\ w.store \in Store
        /\ w.rt.mode \in RunMode /\ rt.mode \in RunMode
    BY <1>2 DEF Worlds, Runtime, Inv, TypeOK
  <1>4. f \in Fault /\ FaultMode(f) \in RunMode
    BY FaultModeFacts DEF FaultsOf, Fault, RunMode
  <1>5. /\ flagged \in Runtime
        /\ flagged.mode = w.rt.mode
        /\ flagged.faults = w.rt.faults \union {f}
        /\ flagged.checkpoint = w.rt.checkpoint
    BY <1>3, <1>4 DEF Runtime
  <1> HIDE DEF flagged
  <1>6. /\ r \in Runtime
        /\ r.mode >= w.rt.mode
        /\ r.mode >= FaultMode(f)
        /\ r.engine = r.mode
        /\ r.faults = w.rt.faults \union {f}
        /\ r.checkpoint.reconcile = rt.checkpoint.reconcile
    BY <1>2, <1>4, <1>5, TightenedFacts
  <1> HIDE DEF r
  <1>7. r.mode \in RunMode
    BY <1>6 DEF Runtime
  <1>8. Good(r)
    <2>1. r.checkpoint.reconcile => r.mode = HALTED
      BY <1>2, <1>3, <1>6, <1>7 DEF Good, RunMode
    <2>2. \A g \in r.faults : r.mode >= FaultMode(g)
      BY <1>2, <1>3, <1>6, <1>7, FaultModeFacts DEF Good, RunMode
    <2> QED
      BY <1>6, <2>1, <2>2 DEF Good
  <1>9. Clean(rt, r)
    <2>1. r.mode < rt.mode => w.rt.mode < rt.mode
      BY <1>3, <1>6, <1>7 DEF RunMode
    <2> QED
      BY <1>2, <1>6, <2>1 DEF Clean
  <1>10. TaskTypes'
    BY DEF ReceiveFault, Goto, Inv, TypeOK, TaskTypes, Labels, Handlers
  <1>11. history' \in [mismatch: BOOLEAN, operatorWrote: BOOLEAN, halted: [Task -> Nat]]
    BY <1>1, RememberTypes DEF Inv
  <1> QED
    BY <1>1, <1>3, <1>6, <1>8, <1>9, <1>10, <1>11
    DEF ReceiveFault, Inv, TypeOK, TaskTypes, SavedSound

LEMMA PublishStep ==
    ASSUME Inv, NEW t \in Task, Publish(t)
    PROVE  Inv' /\ Clean(rt, rt')
  <1> DEFINE checkpoint == [id |-> "runtime", version |-> rt.snapshot.version,
                            mode |-> rt.mode, reconcile |-> rt.checkpoint.reconcile]
  <1>1. checkpoint \in Checkpoint /\ checkpoint.reconcile = rt.checkpoint.reconcile
    BY DEF Inv, TypeOK, Runtime, Checkpoint, Snapshot
  <1>2. checkpoint.id # "startup"
    OBVIOUS
  <1>3. /\ up /\ up'
        /\ rt' \in {rt, [rt EXCEPT !.checkpoint = checkpoint]}
        /\ saved' \in {saved, checkpoint}
    BY DEF Publish, MayRun
  <1> HIDE DEF checkpoint
  <1>4. /\ rt' \in Runtime
        /\ rt'.mode = rt.mode
        /\ rt'.engine = rt.engine
        /\ rt'.faults = rt.faults
        /\ rt'.checkpoint.reconcile = rt.checkpoint.reconcile
    BY <1>1, <1>3 DEF Inv, TypeOK, Runtime
  <1>5. Good(rt') /\ Clean(rt, rt')
    <2>1. rt.mode \in RunMode
      BY DEF Inv, TypeOK, Runtime
    <2> QED
      BY <1>3, <1>4, <2>1 DEF Inv, Good, Clean, RunMode
  <1>6. SavedSound' /\ saved' \in Checkpoint \union {None}
    BY <1>1, <1>2, <1>3 DEF SavedSound, Inv, TypeOK
  <1>7. TaskTypes'
    <2>1. pc' \in [Task -> Labels] /\ event' \in [Task -> Handlers]
      BY DEF Publish, Goto, AfterPublish, Inv, TypeOK, Labels, Handlers
    <2> QED
      BY <2>1 DEF Publish, Inv, TypeOK, TaskTypes
  <1>8. store' \in Store
    BY PublishedFacts DEF Publish, Inv, TypeOK
  <1>9. history' \in [mismatch: BOOLEAN, operatorWrote: BOOLEAN, halted: [Task -> Nat]]
    BY RememberTypes DEF Publish, Inv
  <1> QED
    BY <1>4, <1>5, <1>6, <1>7, <1>8, <1>9 DEF Publish, Inv, TypeOK, TaskTypes

\* What an evaluation does to the world before its first await.
EvaluatedWorld ==
    LET synced == Synced(World)
    IN  IF synced.rt.mode = HALTED THEN synced ELSE Refreshed(synced)

LEMMA EvaluatedFacts ==
    ASSUME Inv, up
    PROVE  LET v == EvaluatedWorld IN
           /\ v \in Worlds
           /\ Good(v.rt)
           /\ Clean(rt, v.rt)
           /\ Shows(World, v)
           /\ v.rt.mode = HALTED => Synced(World).rt.mode = HALTED
  <1> DEFINE w == Synced(World)
             v == EvaluatedWorld
  <1>1. /\ w \in Worlds
        /\ Good(w.rt)
        /\ w.rt.mode < rt.mode
           => rt.faults = {} /\ rt.snapshot.approved /\ ~rt.checkpoint.reconcile
        /\ w.rt.faults = rt.faults
        /\ w.rt.snapshot = rt.snapshot
        /\ w.rt.checkpoint.reconcile = rt.checkpoint.reconcile
        /\ Shows(World, w)
    BY WorldFacts, SyncedFacts
  <1> HIDE DEF w
  <1>2. w.rt.mode \in RunMode /\ rt.mode \in RunMode /\ World.rt = rt
        /\ World.store = store
    BY <1>1, WorldFacts DEF Worlds, Runtime, Inv, TypeOK
  <1>3. CASE w.rt.mode = HALTED
    <2>1. v = w
      BY <1>3 DEF EvaluatedWorld, w
    <2>2. Clean(rt, w.rt)
      BY <1>1 DEF Clean
    <2> QED
      BY <1>1, <1>3, <2>1, <2>2 DEF w
  <1>4. CASE w.rt.mode # HALTED
    <2>1. v = Refreshed(w)
      BY <1>4 DEF EvaluatedWorld, w
    <2>2. /\ v \in Worlds
          /\ Good(v.rt)
          /\ v.rt.faults = w.rt.faults
          /\ v.rt.mode < w.rt.mode => v.rt.faults = {} /\ v.rt.snapshot.approved
          /\ v.rt.mode <= w.rt.mode
          /\ v.rt.checkpoint.reconcile = w.rt.checkpoint.reconcile
          /\ v.rt.mode < w.rt.mode => ~v.rt.checkpoint.reconcile
          /\ \/ v.store = w.store /\ v.rt.mode = w.rt.mode /\ (v.wrote <=> w.wrote)
             \/ v.wrote /\ v.store.mode = v.rt.mode /\ v.store.faults = v.rt.faults
      BY <1>1, <2>1, RefreshedFacts DEF Inv, TypeOK
    <2> HIDE DEF v
    <2>3. v.rt.mode \in RunMode
      BY <2>2 DEF Worlds, Runtime
    <2>4. v.rt.mode < rt.mode => v.rt.mode < w.rt.mode \/ w.rt.mode < rt.mode
      BY <1>2, <2>3 DEF RunMode
    <2>5. Clean(rt, v.rt)
      BY <1>1, <2>2, <2>4 DEF Clean
    <2>6. Shows(World, v)
      BY <1>1, <1>2, <2>2 DEF Shows
    <2>7. v.rt.mode # HALTED
      BY <1>2, <1>4, <2>2, <2>3 DEF RunMode
    <2> QED
      BY <2>2, <2>5, <2>6, <2>7 DEF v
  <1> QED
    BY <1>3, <1>4

LEMMA EvaluateStep ==
    ASSUME Inv, NEW t \in Task, Evaluate(t)
    PROVE  Inv' /\ Clean(rt, rt')
  <1> DEFINE w == EvaluatedWorld
  <1>1. up /\ up' /\ rt' = w.rt /\ store' = w.store /\ Remember(w.rt, w.wrote)
    BY DEF Evaluate, MayRun, EvaluatedWorld
  <1>2. w \in Worlds /\ Good(w.rt) /\ Clean(rt, w.rt)
    BY <1>1, EvaluatedFacts
  <1> HIDE DEF w
  <1>3. w.rt \in Runtime /\ w.store \in Store
    BY <1>2 DEF Worlds
  <1>4. TaskTypes'
    <2>1. TaskTypes
      BY DEF Inv, TypeOK, TaskTypes
    <2>2. CASE Finish(t)
      BY <2>1, <2>2, FinishTypes
    <2>3. CASE Goto(t, "signals") /\ UNCHANGED <<event, decision, left>>
      BY <2>1, <2>3 DEF Goto, TaskTypes, Labels
    <2> QED
      BY <2>2, <2>3 DEF Evaluate
  <1>5. history' \in [mismatch: BOOLEAN, operatorWrote: BOOLEAN, halted: [Task -> Nat]]
    BY <1>1, RememberTypes DEF Inv
  <1> QED
    BY <1>1, <1>2, <1>3, <1>4, <1>5 DEF Evaluate, Inv, TypeOK, TaskTypes, SavedSound

LEMMA AwaitStep ==
    ASSUME Inv, NEW t \in Task,
           \/ ResumeSignals(t) \/ ResumeClose(t)
           \/ AbandonOpen(t) \/ ResumeOrder(t)
    PROVE  Inv' /\ Clean(rt, rt')
  <1>1. \E n \in 0 .. MaxSignals, reversing \in BOOLEAN : Continue(t, n, reversing)
    <2>1. rt.reversing \in BOOLEAN /\ left[t] \in 0 .. MaxSignals
          /\ 0 \in 0 .. MaxSignals
      BY ControlConstants DEF Inv, TypeOK, Runtime
    <2> QED
      BY <2>1 DEF ResumeSignals, ResumeClose, AbandonOpen, ResumeOrder
  <1> QED
    BY <1>1, ContinueStep

LEMMA SendStep ==
    ASSUME Inv, NEW t \in Task,
           \/ SendClose(t) \/ SendOpen(t) \/ StreamEnds(t)
    PROVE  Inv' /\ Clean(rt, rt')
  <1>1. rt' = rt /\ up' = up /\ saved' = saved
    BY DEF SendClose, SendOpen, StreamEnds
  <1>2. pc' \in [Task -> Labels]
    BY DEF SendClose, SendOpen, StreamEnds, Goto, Inv, TypeOK, Labels
  <1>3. history' \in [mismatch: BOOLEAN, operatorWrote: BOOLEAN, halted: [Task -> Nat]]
    BY DEF SendClose, SendOpen, StreamEnds, Inv, TypeOK
  <1>4. UNCHANGED <<event, decision, left, store, published, notifier>>
    BY DEF SendClose, SendOpen, StreamEnds
  <1>5. TypeOK'
    BY <1>1, <1>2, <1>3, <1>4 DEF Inv, TypeOK
  <1>6. rt.mode \in RunMode
    BY DEF Inv, TypeOK, Runtime
  <1> QED
    BY <1>1, <1>5, <1>6 DEF Inv, Good, SavedSound, Clean, RunMode

LEMMA OutsideStep ==
    ASSUME Inv, Notifier \/ PublishSnapshot
    PROVE  Inv' /\ Clean(rt, rt')
  <1>1. UNCHANGED <<up, rt, pc, event, decision, left, saved>>
    BY DEF Notifier, Pause, PauseFlags, Start, StartRelease, OperatorWrites,
           PublishSnapshot
  <1>2. ASSUME Notifier
        PROVE  Inv'
    <2>1. ManualPause \in Flag /\ NORMAL \in RunMode /\ HALTED \in RunMode
      BY DEF Flag, RunMode
    <2>2. store \in Store /\ store.faults \in SUBSET Flag
          /\ notifier.flags \in SUBSET Flag
      BY DEF Inv, TypeOK, Store
    <2>3. store' \in Store /\ published' = published
      <3>1. CASE Pause
        BY <2>1, <2>2, <3>1 DEF Pause, OperatorWrites, Store
      <3>2. CASE PauseFlags
        BY <2>1, <2>2, <3>2 DEF PauseFlags, OperatorWrites, Store
      <3>3. CASE Start
        BY <2>1, <2>2, <3>3 DEF Start, OperatorWrites, Store
      <3>4. CASE StartRelease
        BY <2>1, <2>2, <3>4 DEF StartRelease, OperatorWrites, Store
      <3> QED
        BY <1>2, <3>1, <3>2, <3>3, <3>4 DEF Notifier
    <2>4. notifier' \in [doing: {"nothing", "pause", "start"}, flags: SUBSET Flag]
      BY <1>2, <2>1, <2>2 DEF Notifier, Pause, PauseFlags, Start, StartRelease,
                              NotifierIdle
    <2>5. history' \in [mismatch: BOOLEAN, operatorWrote: BOOLEAN, halted: [Task -> Nat]]
      BY <1>2 DEF Notifier, Pause, PauseFlags, Start, StartRelease,
                  OperatorWrites, Inv, TypeOK
    <2> QED
      BY <1>1, <2>3, <2>4, <2>5 DEF Inv, TypeOK, SavedSound, Good
  <1>3. ASSUME PublishSnapshot
        PROVE  Inv'
    <2>1. published' \in Snapshot
      <3>1. LatestVersion + 1 \in Version
        BY <1>3, ControlConstants
        DEF PublishSnapshot, LatestVersion, Version, Inv, TypeOK, Snapshot
      <3>2. PICK s \in Publishable :
              published' = [version |-> LatestVersion + 1, mode |-> s.mode,
                            approved |-> s.approved]
        BY <1>3 DEF PublishSnapshot
      <3>3. s.mode \in RunMode /\ s.approved \in BOOLEAN
        BY ControlConstants
      <3> QED
        BY <3>1, <3>2, <3>3 DEF Snapshot
    <2> QED
      BY <1>1, <1>3, <2>1 DEF PublishSnapshot, Inv, TypeOK, SavedSound, Good
  <1>4. Inv'
    BY <1>2, <1>3
  <1>5. rt.mode \in RunMode
    BY DEF Inv, TypeOK, Runtime
  <1> QED
    BY <1>1, <1>4, <1>5 DEF Clean, RunMode

LEMMA ResetTypes ==
    ASSUME TasksReset
    PROVE  TaskTypes'
  <1>1. pc' \in [Task -> Labels] /\ event' \in [Task -> Handlers]
    BY DEF TasksReset, AllIdle, NoEvent, Labels, Handlers
  <1>2. decision' \in [Task -> BOOLEAN] /\ left' \in [Task -> 0 .. MaxSignals]
    BY ControlConstants DEF TasksReset, NoDecision, NoSignals
  <1> QED
    BY <1>1, <1>2 DEF TaskTypes

LEMMA BootStep ==
    ASSUME Inv, Boot
    PROVE  Inv'
  <1>1. StoredTypes /\ SavedSound
    BY DEF Inv, TypeOK, StoredTypes
  <1>2. PICK mismatch \in SUBSET (1 .. NumSymbols) : rt' = Started(mismatch)
    BY DEF Boot
  <1>3. /\ rt' \in Runtime
        /\ Good(rt')
        /\ rt'.checkpoint \in Checkpoint
        /\ rt'.checkpoint.id = "startup" => ~rt'.checkpoint.reconcile
    BY <1>1, <1>2, StartedFacts
  <1>4. saved' = rt'.checkpoint /\ store' = Published(rt', store)
    BY DEF Boot
  <1>5. SavedSound'
    BY <1>3, <1>4 DEF SavedSound
  <1>6. store' \in Store
    BY <1>3, <1>4, PublishedFacts DEF Inv, TypeOK
  <1>7. TaskTypes'
    BY ResetTypes DEF Boot
  <1>8. history' \in [mismatch: BOOLEAN, operatorWrote: BOOLEAN, halted: [Task -> Nat]]
    <2>1. PICK m \in SUBSET (1 .. NumSymbols) :
            history' = [history EXCEPT !.mismatch = m # {},
                                       !.operatorWrote = FALSE,
                                       !.halted = [t \in Task |-> 0]]
      BY DEF Boot
    <2>2. (m # {}) \in BOOLEAN /\ [t \in Task |-> 0] \in [Task -> Nat]
      OBVIOUS
    <2> HIDE DEF Task
    <2> QED
      BY <2>1, <2>2 DEF Inv, TypeOK
  <1> QED
    BY <1>3, <1>4, <1>5, <1>6, <1>7, <1>8 DEF Boot, Inv, TypeOK, TaskTypes

LEMMA StopStep ==
    ASSUME Inv, Stop
    PROVE  Inv'
  <1>1. TaskTypes'
    BY ResetTypes DEF Stop
  <1>2. NoRuntime \in Runtime
    <2>1. Bootstrap \in Snapshot /\ DefaultRunMode \in RunMode /\ 0 \in Version
      BY ControlConstants DEF Bootstrap, Snapshot, Version
    <2> QED
      BY <2>1 DEF NoRuntime, Runtime, Checkpoint, RunMode
  <1> QED
    BY <1>1, <1>2 DEF Stop, Inv, TypeOK, TaskTypes, SavedSound

LEMMA TraderStep ==
    ASSUME Inv, up, up', Trader
    PROVE  Inv' /\ Clean(rt, rt')
  <1>1. ~Boot /\ ~Stop
    BY DEF Boot, Stop
  <1>2. CASE ReceiveMarket
    BY <1>2, ReceiveStep DEF ReceiveMarket, Task
  <1>3. CASE ReceiveUpdate
    BY <1>3, ReceiveStep DEF ReceiveUpdate, Task
  <1>4. CASE ReceiveFlat
    BY <1>4, ReceiveStep DEF ReceiveFlat, Task
  <1>5. ASSUME NEW t \in Task, TaskStep(t)
        PROVE  Inv' /\ Clean(rt, rt')
    BY <1>5, PublishStep, EvaluateStep, AwaitStep, SendStep DEF TaskStep
  <1>6. ASSUME NEW t \in Task, StreamEnds(t)
        PROVE  Inv' /\ Clean(rt, rt')
    BY <1>6, SendStep
  <1>7. ASSUME NEW t \in Task, NEW f \in FaultsOf(t), NEW kind \in {"fault", "login"},
               ReceiveFault(t, f, kind)
        PROVE  Inv' /\ Clean(rt, rt')
    BY <1>7, ReceiveFaultStep
  <1> QED
    BY <1>1, <1>2, <1>3, <1>4, <1>5, <1>6, <1>7 DEF Trader

\* Only a start and a stop of the process change whether it runs.
LEMMA RunningStep ==
    ASSUME Trader, ~Boot, ~Stop
    PROVE  up /\ up'
  <1>1. ASSUME NEW t \in Task, NEW n, NEW reversing, Continue(t, n, reversing)
        PROVE  up /\ up'
    BY <1>1 DEF Continue, MayRun
  <1>2. ASSUME NEW t \in Task, TaskStep(t)
        PROVE  up /\ up'
    <2>1. CASE Publish(t)
      BY <2>1 DEF Publish, MayRun
    <2>2. CASE Evaluate(t)
      BY <2>2 DEF Evaluate, MayRun
    <2>3. CASE ResumeSignals(t)
      BY <2>3, <1>1 DEF ResumeSignals
    <2>4. CASE SendClose(t) \/ SendOpen(t)
      BY <2>4 DEF SendClose, SendOpen, MayRun
    <2>5. CASE ResumeClose(t)
      BY <2>5, <1>1 DEF ResumeClose
    <2>6. CASE AbandonOpen(t) \/ ResumeOrder(t)
      BY <2>6, <1>1 DEF AbandonOpen, ResumeOrder
    <2> QED
      BY <1>2, <2>1, <2>2, <2>3, <2>4, <2>5, <2>6 DEF TaskStep
  <1>3. ASSUME NEW t \in Task, NEW kind, NEW clears, NEW next,
               Receive(t, kind, clears, next)
        PROVE  up /\ up'
    BY <1>3 DEF Receive, MayRun
  <1>4. ASSUME NEW t \in Task, StreamEnds(t)
        PROVE  up /\ up'
    BY <1>4 DEF StreamEnds
  <1>5. ASSUME NEW t \in Task, NEW f, NEW kind, ReceiveFault(t, f, kind)
        PROVE  up /\ up'
    BY <1>5 DEF ReceiveFault, MayRun
  <1>6. ASSUME ReceiveMarket \/ ReceiveUpdate \/ ReceiveFlat
        PROVE  up /\ up'
    BY <1>3, <1>6 DEF ReceiveMarket, ReceiveUpdate, ReceiveFlat, Task
  <1> QED
    BY <1>2, <1>4, <1>5, <1>6 DEF Trader

LEMMA InvStep == Inv /\ [Next]_vars => Inv'
  <1> SUFFICES ASSUME Inv, [Next]_vars PROVE Inv'
    OBVIOUS
  <1>1. CASE Boot
    BY <1>1, BootStep
  <1>2. CASE Stop
    BY <1>2, StopStep
  <1>3. CASE Trader /\ ~Boot /\ ~Stop
    BY <1>3, RunningStep, TraderStep
  <1>4. CASE Notifier \/ PublishSnapshot
    BY <1>4, OutsideStep
  <1>5. CASE UNCHANGED vars
    BY <1>5 DEF vars, Inv, TypeOK, SavedSound, Good
  <1> QED
    BY <1>1, <1>2, <1>3, <1>4, <1>5 DEF Next, Trader

LEMMA InvHolds == Spec => []Inv
  BY InitInv, InvStep, PTL DEF Spec

-----------------------------------------------------------------------------
(* The theorems.                                                            *)

\* The trader's runtime, Redis and the saved checkpoint always have their
\* types, whatever the fault codes, the symbols and the published snapshots.
THEOREM TypeCorrect == Spec => []TypeOK
  <1>1. Inv => TypeOK
    BY DEF Inv
  <1> QED
    BY <1>1, InvHolds, PTL

\* No path (recovered stream, published snapshot, /start) takes a trader whose
\* checkpoint needs reconciling out of the halt it started in.
THEOREM ReconcileHalts == Spec => []ReconcileKeepsHalted
  <1>1. Inv => ReconcileKeepsHalted
    BY DEF Inv, Good, ReconcileKeepsHalted
  <1> QED
    BY <1>1, InvHolds, PTL

\* The mode is always at least as restrictive as every raised fault flag asks,
\* for any number of codes of either stream.
THEOREM FaultsBound == Spec => []FaultsBoundMode
  <1>1. Inv => FaultsBoundMode
    BY DEF Inv, Good, FaultsBoundMode
  <1> QED
    BY <1>1, InvHolds, PTL

\* A running trader relaxes its mode only with no fault flag left standing, no
\* reconciliation due and an approved snapshot.
THEOREM RelaxesClean == Spec => RelaxesOnlyWhenClean
  <1> DEFINE A == up /\ up' /\ rt'.mode < rt.mode
                  => /\ rt.faults \intersect rt'.faults = {}
                     /\ ~rt'.checkpoint.reconcile
                     /\ rt.snapshot.approved \/ rt'.snapshot.approved
  <1>1. Inv /\ [Next]_vars => [A]_vars
    <2> SUFFICES ASSUME Inv, Next, up, up' PROVE A
      OBVIOUS
    <2>1. Clean(rt, rt')
      BY TraderStep, OutsideStep DEF Next
    <2> QED
      BY <2>1 DEF Clean
  <1> QED
    BY <1>1, InvHolds, PTL DEF Spec, RelaxesOnlyWhenClean

-----------------------------------------------------------------------------
(* Redis shows the runtime.  The invariant is inductive together with Inv:  *)
(* a step either writes what it leaves, or is made by a handler that still  *)
(* has to publish, or changes nothing that Redis shows.                     *)

\* A step that changes nothing Redis shows, and ends no handler on its way to
\* publishing.
Quiet ==
    /\ up /\ up' /\ store' = store
    /\ rt'.mode = rt.mode /\ rt'.faults = rt.faults
    /\ history'.operatorWrote = history.operatorWrote
    /\ \A t \in Task : Unpublished(t) => Unpublished(t)'

LEMMA QuietShows ==
    ASSUME StoreShowsRuntime, Quiet
    PROVE  StoreShowsRuntime'
  BY DEF StoreShowsRuntime, Quiet

\* A step after which task t still has to publish.
LEMMA PendingShows ==
    ASSUME NEW t \in Task, Unpublished(t)'
    PROVE  StoreShowsRuntime'
  BY DEF StoreShowsRuntime

LEMMA FinishUnpublished ==
    ASSUME Inv, NEW t \in Task, Finish(t), pc[t] # "publish"
    PROVE  \A u \in Task : Unpublished(u) => Unpublished(u)'
  <1>1. pc \in [Task -> Labels] /\ event \in [Task -> Handlers]
    BY DEF Inv, TypeOK
  <1> QED
    BY <1>1 DEF Finish, Goto, Unpublished

LEMMA ContinueQuiet ==
    ASSUME Inv, NEW t \in Task, NEW n, NEW reversing,
           Continue(t, n, reversing), pc[t] # "publish"
    PROVE  Quiet
  <1>1. /\ up /\ up' /\ store' = store /\ history' = history
        /\ rt'.mode = rt.mode /\ rt'.faults = rt.faults
    BY DEF Continue, MayRun, Inv, TypeOK, Runtime
  <1>2. \A u \in Task : Unpublished(u) => Unpublished(u)'
    <2>1. CASE Finish(t)
      BY <2>1, FinishUnpublished
    <2>2. CASE Propose(t, n)
      <3>1. pc \in [Task -> Labels]
        BY DEF Inv, TypeOK
      <3> QED
        BY <2>2, <3>1 DEF Propose, Goto, Unpublished
    <2> QED
      BY <2>1, <2>2 DEF Continue
  <1> QED
    BY <1>1, <1>2 DEF Quiet

LEMMA SendQuiet ==
    ASSUME Inv, NEW t \in Task, SendClose(t) \/ SendOpen(t) \/ StreamEnds(t)
    PROVE  Quiet
  <1>1. /\ up /\ up' /\ store' = store /\ rt' = rt /\ event' = event
        /\ pc[t] # "publish"
    BY DEF SendClose, SendOpen, StreamEnds, MayRun
  <1>2. history'.operatorWrote = history.operatorWrote
    BY DEF SendClose, SendOpen, StreamEnds, Inv, TypeOK
  <1>3. \A u \in Task : Unpublished(u) => Unpublished(u)'
    <2>1. pc \in [Task -> Labels]
      BY DEF Inv, TypeOK
    <2> QED
      BY <1>1, <2>1 DEF SendClose, SendOpen, StreamEnds, Goto, Unpublished
  <1> QED
    BY <1>1, <1>2, <1>3 DEF Quiet

LEMMA PublishShows ==
    ASSUME Inv, NEW t \in Task, Publish(t)
    PROVE  StoreShowsRuntime'
  <1>1. store'.mode = rt.engine /\ store'.faults = rt.faults
    BY PublishedFacts DEF Publish, Inv, TypeOK
  <1>2. rt'.mode = rt.mode /\ rt'.faults = rt.faults
    BY DEF Publish, Inv, TypeOK, Runtime
  <1>3. rt.engine = rt.mode
    BY DEF Publish, MayRun, Inv, Good
  <1> QED
    BY <1>1, <1>2, <1>3 DEF StoreShowsRuntime

LEMMA EvaluateShows ==
    ASSUME Inv, StoreShowsRuntime, NEW t \in Task, Evaluate(t)
    PROVE  StoreShowsRuntime'
  <1> DEFINE w == EvaluatedWorld
  <1>1. up /\ up' /\ rt' = w.rt /\ store' = w.store /\ Remember(w.rt, w.wrote)
        /\ pc[t] = "evaluate"
    BY DEF Evaluate, MayRun, EvaluatedWorld
  <1>2. Shows(World, w) /\ w \in Worlds
    BY <1>1, EvaluatedFacts
  <1> HIDE DEF w
  <1>3. CASE w.wrote
    BY <1>1, <1>2, <1>3 DEF Shows, StoreShowsRuntime
  <1>4. CASE ~w.wrote
    <2>1. w.store = store /\ w.rt.mode = rt.mode /\ w.rt.faults = rt.faults
      BY <1>2, <1>4 DEF Shows, World
    <2>2. history'.operatorWrote = history.operatorWrote
      BY <1>1, <1>4 DEF Remember, Inv, TypeOK
    <2>3. \A u \in Task : Unpublished(u) => Unpublished(u)'
      <3>1. CASE Finish(t)
        BY <1>1, <3>1, FinishUnpublished
      <3>2. CASE Goto(t, "signals") /\ UNCHANGED <<event, decision, left>>
        <4>1. pc \in [Task -> Labels]
          BY DEF Inv, TypeOK
        <4> QED
          BY <1>1, <3>2, <4>1 DEF Goto, Unpublished
      <3> QED
        BY <3>1, <3>2 DEF Evaluate
    <2> QED
      BY <1>1, <2>1, <2>2, <2>3, QuietShows DEF Quiet
  <1> QED
    BY <1>3, <1>4

LEMMA TaskShows ==
    ASSUME Inv, StoreShowsRuntime, NEW t \in Task, TaskStep(t)
    PROVE  StoreShowsRuntime'
  <1>1. CASE Publish(t)
    BY <1>1, PublishShows
  <1>2. CASE Evaluate(t)
    BY <1>2, EvaluateShows
  <1>3. CASE ResumeSignals(t) \/ ResumeClose(t) \/ AbandonOpen(t) \/ ResumeOrder(t)
    BY <1>3, ContinueQuiet, QuietShows
    DEF ResumeSignals, ResumeClose, AbandonOpen, ResumeOrder
  <1>4. CASE SendClose(t) \/ SendOpen(t)
    BY <1>4, SendQuiet, QuietShows
  <1> QED
    BY <1>1, <1>2, <1>3, <1>4 DEF TaskStep

LEMMA ReceiveShows ==
    ASSUME Inv, NEW t \in Task, NEW kind, NEW clears, NEW next,
           Receive(t, kind, clears, next), kind = "flat" \/ next = "publish"
    PROVE  StoreShowsRuntime'
  <1>1. pc \in [Task -> Labels] /\ event \in [Task -> Handlers]
    BY DEF Inv, TypeOK
  <1>2. Unpublished(t)'
    BY <1>1 DEF Receive, Goto, Unpublished
  <1> QED
    BY <1>2, PendingShows

LEMMA FaultShows ==
    ASSUME Inv, NEW t \in Task, NEW f, NEW kind, ReceiveFault(t, f, kind)
    PROVE  StoreShowsRuntime'
  <1>1. pc \in [Task -> Labels]
    BY DEF Inv, TypeOK
  <1>2. Unpublished(t)'
    BY <1>1 DEF ReceiveFault, Goto, Unpublished
  <1> QED
    BY <1>2, PendingShows

LEMMA BootShows ==
    ASSUME Inv, Boot
    PROVE  StoreShowsRuntime'
  <1>1. StoredTypes /\ SavedSound
    BY DEF Inv, TypeOK, StoredTypes
  <1>2. rt' \in Runtime /\ Good(rt')
    BY <1>1, StartedFacts DEF Boot
  <1>3. store' = Published(rt', store)
    BY DEF Boot
  <1> QED
    BY <1>2, <1>3, PublishedFacts DEF StoreShowsRuntime, Good, Inv, TypeOK

LEMMA ShowsStep == Inv /\ StoreShowsRuntime /\ [Next]_vars => StoreShowsRuntime'
  <1> SUFFICES ASSUME Inv, StoreShowsRuntime, [Next]_vars
               PROVE  StoreShowsRuntime'
    OBVIOUS
  <1>1. CASE Boot
    BY <1>1, BootShows
  <1>2. CASE Stop
    BY <1>2 DEF Stop, StoreShowsRuntime
  <1>3. CASE ReceiveMarket \/ ReceiveUpdate \/ ReceiveFlat
    BY <1>3, ReceiveShows DEF ReceiveMarket, ReceiveUpdate, ReceiveFlat, Task
  <1>4. ASSUME NEW t \in Task, TaskStep(t)
        PROVE  StoreShowsRuntime'
    BY <1>4, TaskShows
  <1>5. ASSUME NEW t \in Task, StreamEnds(t)
        PROVE  StoreShowsRuntime'
    BY <1>5, SendQuiet, QuietShows
  <1>6. ASSUME NEW t \in Task, NEW f, NEW kind, ReceiveFault(t, f, kind)
        PROVE  StoreShowsRuntime'
    BY <1>6, FaultShows
  <1>7. CASE Notifier
    <2>1. history' = [history EXCEPT !.operatorWrote = TRUE]
      BY <1>7 DEF Notifier, Pause, PauseFlags, Start, StartRelease, OperatorWrites
    <2>2. history'.operatorWrote
      BY <2>1 DEF Inv, TypeOK
    <2> QED
      BY <2>2 DEF StoreShowsRuntime
  <1>8. CASE PublishSnapshot
    BY <1>8 DEF PublishSnapshot, StoreShowsRuntime, Unpublished
  <1>9. CASE UNCHANGED vars
    BY <1>9 DEF vars, StoreShowsRuntime, Unpublished
  <1> QED
    BY <1>1, <1>2, <1>3, <1>4, <1>5, <1>6, <1>7, <1>8, <1>9 DEF Next, Trader

\* Whenever no handler is on its way to publishing and the operator has not
\* written since the trader last did, Redis shows the trader's mode and flags.
THEOREM StoreShows == Spec => []StoreShowsRuntime
  <1>1. Init => StoreShowsRuntime
    BY DEF Init, StoreShowsRuntime
  <1> QED
    BY <1>1, InvHolds, ShowsStep, PTL DEF Spec

-----------------------------------------------------------------------------
(* What a halt does not stop.  The bound is strengthened with what the      *)
(* evaluation each task is in may still send.                               *)

Owed(t) ==
    CASE pc[t] = "signals"  -> MaxSignals
      [] pc[t] = "leverage" -> left[t] + 1
      [] OTHER              -> left[t]

Bounded(t) == history.halted[t] + Owed(t) <= MaxSignals
HaltInv == up => \A t \in Task : Bounded(t)

LEMMA OwedTypes ==
    ASSUME TypeOK, NEW t \in Task
    PROVE  /\ left[t] \in Nat /\ left[t] <= MaxSignals
           /\ history.halted[t] \in Nat
           /\ Owed(t) \in Nat
           /\ MaxSignals \in Nat
  BY ControlConstants DEF TypeOK, Owed

\* A step that leaves task t where it is, its signals too, and counts no open.
LEMMA StillBounded ==
    ASSUME TypeOK, NEW t \in Task, Bounded(t),
           pc'[t] = pc[t], left'[t] = left[t],
           history'.halted[t] \in {history.halted[t], 0}
    PROVE  Bounded(t)'
  <1>1. Owed(t)' = Owed(t)
    BY DEF Owed
  <1> QED
    BY <1>1, OwedTypes DEF Bounded

LEMMA RememberHalted ==
    ASSUME TypeOK, NEW r, NEW wrote, Remember(r, wrote), NEW t \in Task
    PROVE  /\ history'.halted[t] \in {history.halted[t], 0}
           /\ r.mode # HALTED => history'.halted[t] = 0
  BY DEF Remember, TypeOK

LEMMA FinishBounded ==
    ASSUME TypeOK, NEW t \in Task, Finish(t), \A u \in Task : Bounded(u),
           \A u \in Task : history'.halted[u] \in {history.halted[u], 0}
    PROVE  \A u \in Task : Bounded(u)'
  <1>1. pc \in [Task -> Labels] /\ left \in [Task -> 0 .. MaxSignals]
    BY DEF TypeOK
  <1>2. Bounded(t)'
    <2>1. Owed(t)' = 0
      BY <1>1 DEF Finish, Goto, Owed
    <2> QED
      BY <2>1, OwedTypes DEF Bounded
  <1>3. ASSUME NEW u \in Task \ {t}
        PROVE  Bounded(u)'
    <2>1. pc'[u] = pc[u] /\ left'[u] = left[u]
      BY <1>1 DEF Finish, Goto
    <2> QED
      BY <2>1, StillBounded
  <1> QED
    BY <1>2, <1>3

\* The next of n signals is proposed by a task that owes at least n.
LEMMA ContinueBounded ==
    ASSUME TypeOK, \A u \in Task : Bounded(u), NEW t \in Task,
           NEW n \in Nat, n <= Owed(t), NEW reversing, Continue(t, n, reversing)
    PROVE  \A u \in Task : Bounded(u)'
  <1>1. history' = history
    BY DEF Continue
  <1>2. CASE Finish(t)
    BY <1>1, <1>2, FinishBounded
  <1>3. CASE Propose(t, n)
    <2>1. pc \in [Task -> Labels] /\ left \in [Task -> 0 .. MaxSignals]
      BY DEF TypeOK
    <2>2. Owed(t)' = n
      BY <1>3, <2>1 DEF Propose, Goto, Owed
    <2>3. Bounded(t)'
      BY <1>1, <2>2, OwedTypes DEF Bounded
    <2>4. ASSUME NEW u \in Task \ {t}
          PROVE  Bounded(u)'
      <3>1. pc'[u] = pc[u] /\ left'[u] = left[u]
        BY <1>3, <2>1 DEF Propose, Goto
      <3> QED
        BY <1>1, <3>1, StillBounded
    <2> QED
      BY <2>3, <2>4
  <1> QED
    BY <1>2, <1>3 DEF Continue

\* An evaluation starts only in a runtime that is not halted.
LEMMA EvaluateBounded ==
    ASSUME Inv, \A u \in Task : Bounded(u), NEW t \in Task, Evaluate(t)
    PROVE  \A u \in Task : Bounded(u)'
  <1> DEFINE w == EvaluatedWorld
  <1>1. TypeOK /\ up /\ Remember(w.rt, w.wrote)
    BY DEF Evaluate, MayRun, EvaluatedWorld, Inv
  <1>2. w.rt.mode = HALTED => Synced(World).rt.mode = HALTED
    BY <1>1, EvaluatedFacts
  <1>3. \/ Finish(t)
        \/ Synced(World).rt.mode # HALTED /\ Goto(t, "signals") /\ left' = left
    BY DEF Evaluate
  <1> HIDE DEF w
  <1>4. \A u \in Task : history'.halted[u] \in {history.halted[u], 0}
    BY <1>1, RememberHalted
  <1>5. CASE Finish(t)
    BY <1>1, <1>4, <1>5, FinishBounded
  <1>6. CASE Synced(World).rt.mode # HALTED /\ Goto(t, "signals") /\ left' = left
    <2>1. \A u \in Task : history'.halted[u] = 0
      BY <1>1, <1>2, <1>6, RememberHalted
    <2>2. pc \in [Task -> Labels]
      BY DEF Inv, TypeOK
    <2>3. Bounded(t)'
      BY <1>1, <1>6, <2>1, <2>2, OwedTypes DEF Goto, Owed, Bounded
    <2>4. ASSUME NEW u \in Task \ {t}
          PROVE  Bounded(u)'
      BY <1>1, <1>4, <1>6, <2>2, <2>4, StillBounded DEF Goto
    <2> QED
      BY <2>3, <2>4
  <1> QED
    BY <1>3, <1>5, <1>6

\* A step that sends no open, and after which task t has signals left only as
\* it had before.
LEMMA QuietBounded ==
    ASSUME TypeOK, \A u \in Task : Bounded(u), left' = left,
           NEW t \in Task, NEW next, Goto(t, next),
           next \notin {"signals", "leverage"},
           \A u \in Task : history'.halted[u] \in {history.halted[u], 0}
    PROVE  \A u \in Task : Bounded(u)'
  <1>1. pc \in [Task -> Labels]
    BY DEF TypeOK
  <1>2. Owed(t)' = left[t] /\ left[t] <= Owed(t)
    BY <1>1, OwedTypes DEF Goto, Owed
  <1>3. Bounded(t)'
    BY <1>2, OwedTypes DEF Bounded
  <1>4. ASSUME NEW u \in Task \ {t}
        PROVE  Bounded(u)'
    BY <1>1, <1>4, StillBounded DEF Goto
  <1> QED
    BY <1>3, <1>4

LEMMA SendOpenBounded ==
    ASSUME TypeOK, \A u \in Task : Bounded(u), NEW t \in Task, SendOpen(t)
    PROVE  \A u \in Task : Bounded(u)'
  <1>1. /\ pc \in [Task -> Labels] /\ history.halted \in [Task -> Nat]
        /\ pc[t] = "leverage" /\ left' = left /\ Goto(t, "order")
    BY DEF TypeOK, SendOpen
  <1>2. /\ history'.halted[t] \in {history.halted[t], history.halted[t] + 1}
        /\ \A u \in Task \ {t} : history'.halted[u] = history.halted[u]
    BY DEF TypeOK, SendOpen
  <1>3. Owed(t) = left[t] + 1 /\ Owed(t)' = left[t]
    BY <1>1 DEF Goto, Owed
  <1>4. Bounded(t)'
    BY <1>2, <1>3, OwedTypes DEF Bounded
  <1>5. ASSUME NEW u \in Task \ {t}
        PROVE  Bounded(u)'
    BY <1>1, <1>2, <1>5, StillBounded DEF Goto
  <1> QED
    BY <1>4, <1>5

LEMMA TaskBounded ==
    ASSUME Inv, \A u \in Task : Bounded(u), NEW t \in Task, TaskStep(t)
    PROVE  \A u \in Task : Bounded(u)'
  <1>1. TypeOK
    BY DEF Inv
  <1>2. CASE Publish(t)
    <2>1. \A u \in Task : history'.halted[u] \in {history.halted[u], 0}
      BY <1>1, <1>2, RememberHalted DEF Publish
    <2> QED
      BY <1>1, <1>2, <2>1, QuietBounded DEF Publish, AfterPublish
  <1>3. CASE Evaluate(t)
    BY <1>3, EvaluateBounded
  <1>4. CASE ResumeSignals(t)
    <2>1. PICK n \in 0 .. MaxSignals, reversing \in BOOLEAN :
            Continue(t, n, reversing)
      <3>1. rt.reversing \in BOOLEAN /\ 0 \in 0 .. MaxSignals
        BY <1>1, ControlConstants DEF TypeOK, Runtime
      <3> QED
        BY <1>4, <3>1 DEF ResumeSignals
    <2>2. n \in Nat /\ n <= Owed(t)
      BY <1>1, <1>4, OwedTypes DEF ResumeSignals, Owed
    <2> QED
      BY <1>1, <2>1, <2>2, ContinueBounded
  <1>5. CASE ResumeClose(t)
    BY <1>1, <1>5, OwedTypes, ContinueBounded DEF ResumeClose
  <1>6. CASE AbandonOpen(t) \/ ResumeOrder(t)
    <2>1. PICK n \in {0, left[t]}, reversing \in BOOLEAN : Continue(t, n, reversing)
      BY <1>1, <1>6 DEF AbandonOpen, ResumeOrder, TypeOK, Runtime
    <2>2. n \in Nat /\ n <= Owed(t)
      BY <1>1, OwedTypes DEF Owed
    <2> QED
      BY <1>1, <2>1, <2>2, ContinueBounded
  <1>7. CASE SendClose(t)
    BY <1>1, <1>7, QuietBounded DEF SendClose
  <1>8. CASE SendOpen(t)
    BY <1>1, <1>8, SendOpenBounded
  <1> QED
    BY <1>2, <1>3, <1>4, <1>5, <1>6, <1>7, <1>8 DEF TaskStep

LEMMA ReceiveBounded ==
    ASSUME TypeOK, \A u \in Task : Bounded(u), NEW t \in Task,
           NEW kind, NEW clears, NEW next \in {"publish", "evaluate"},
           Receive(t, kind, clears, next)
    PROVE  \A u \in Task : Bounded(u)'
  <1>1. \A u \in Task : history'.halted[u] \in {history.halted[u], 0}
    BY RememberHalted DEF Receive
  <1> QED
    BY <1>1, QuietBounded DEF Receive

LEMMA FaultBounded ==
    ASSUME TypeOK, \A u \in Task : Bounded(u), NEW t \in Task,
           NEW f, NEW kind, ReceiveFault(t, f, kind)
    PROVE  \A u \in Task : Bounded(u)'
  <1>1. \A u \in Task : history'.halted[u] \in {history.halted[u], 0}
    BY RememberHalted DEF ReceiveFault
  <1> QED
    BY <1>1, QuietBounded DEF ReceiveFault

LEMMA HaltStep == Inv /\ HaltInv /\ [Next]_vars => HaltInv'
  <1> SUFFICES ASSUME Inv, HaltInv, [Next]_vars
               PROVE  HaltInv'
    OBVIOUS
  <1>1. TypeOK
    BY DEF Inv
  <1>2. CASE Boot
    <2>1. /\ left' = NoSignals /\ pc' = AllIdle
          /\ history'.halted = [t \in Task |-> 0]
      BY <1>1, <1>2 DEF Boot, TasksReset, TypeOK
    <2>2. \A t \in Task : Owed(t)' = 0 /\ history'.halted[t] = 0
      BY <2>1 DEF Owed, NoSignals, AllIdle
    <2> QED
      BY <2>2, ControlConstants DEF HaltInv, Bounded
  <1>3. CASE Stop
    BY <1>3 DEF Stop, HaltInv
  <1>4. CASE Trader /\ ~Boot /\ ~Stop
    <2>1. up /\ \A t \in Task : Bounded(t)
      BY <1>4, RunningStep DEF HaltInv
    <2>2. CASE ReceiveMarket \/ ReceiveUpdate \/ ReceiveFlat
      BY <1>1, <2>1, <2>2, ReceiveBounded
      DEF ReceiveMarket, ReceiveUpdate, ReceiveFlat, Task, HaltInv
    <2>3. ASSUME NEW t \in Task, TaskStep(t)
          PROVE  HaltInv'
      BY <2>1, <2>3, TaskBounded DEF HaltInv
    <2>4. ASSUME NEW t \in Task, StreamEnds(t)
          PROVE  HaltInv'
      BY <1>1, <2>1, <2>4, QuietBounded DEF StreamEnds, HaltInv
    <2>5. ASSUME NEW t \in Task, NEW f, NEW kind, ReceiveFault(t, f, kind)
          PROVE  HaltInv'
      BY <1>1, <2>1, <2>5, FaultBounded DEF HaltInv
    <2> QED
      BY <1>4, <2>2, <2>3, <2>4, <2>5 DEF Trader
  <1>5. CASE Notifier \/ PublishSnapshot \/ UNCHANGED vars
    <2>1. /\ up' = up /\ pc' = pc /\ left' = left
          /\ history'.halted = history.halted
      BY <1>1, <1>5 DEF Notifier, Pause, PauseFlags, Start, StartRelease,
                        OperatorWrites, PublishSnapshot, vars, TypeOK
    <2> QED
      BY <2>1 DEF HaltInv, Bounded, Owed
  <1> QED
    BY <1>2, <1>3, <1>4, <1>5 DEF Next

\* However many signals an evaluation yields, after the runtime halts each task
\* sends at most the opens of the evaluation it was in.
THEOREM HaltStops == Spec => []HaltStopsEvaluations
  <1>1. Init => HaltInv
    BY DEF Init, HaltInv
  <1>2. Inv /\ HaltInv => HaltStopsEvaluations
    <2> SUFFICES ASSUME Inv, HaltInv, up, NEW t \in Task
                 PROVE  history.halted[t] <= MaxSignals
      BY DEF HaltStopsEvaluations
    <2>1. TypeOK /\ Bounded(t)
      BY DEF Inv, HaltInv
    <2> QED
      BY <2>1, OwedTypes DEF Bounded
  <1> QED
    BY <1>1, <1>2, InvHolds, HaltStep, PTL DEF Spec

=============================================================================
