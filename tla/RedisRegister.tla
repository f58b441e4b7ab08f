--------------------------- MODULE RedisRegister ---------------------------
(***************************************************************************)
(* One key of RedisSnapshotStore or RedisRuntimeStateStore (the latest     *)
(* snapshot, the run mode, the release target) as one process sees it: the *)
(* value in Redis, which every process shares, and the local copy this     *)
(* process falls back on.                                                  *)
(*                                                                         *)
(* up says whether Redis answers a call.  A call that fails raises nothing *)
(* and is not repeated: what was written stays in the local copy.          *)
(***************************************************************************)
CONSTANT None

\* A process that has not read or written the key yet.
Fresh(redis) == [redis |-> redis, local |-> None]

\* set_latest_snapshot, set_run_mode, set_manual_release_target
Written(r, value, up) ==
    [redis |-> IF up THEN value ELSE r.redis, local |-> value]

\* clear_manual_release_target
Cleared(r, up) == Written(r, None, up)

\* Written by another process.
WrittenByOther(r, value) == [r EXCEPT !.redis = value]

\* get_latest_snapshot, get_run_mode: a key that is missing or out of reach
\* is read from the local copy.
Value(r, up) == IF up /\ r.redis # None THEN r.redis ELSE r.local

\* The register after it was read.
AfterRead(r, up) == [r EXCEPT !.local = Value(r, up)]
=============================================================================
