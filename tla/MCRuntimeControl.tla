-------------------------- MODULE MCRuntimeControl --------------------------
(***************************************************************************)
(* Instances of RuntimeControl for TLC: the snapshots an operator deploys  *)
(* and the ones an external publisher writes.                              *)
(***************************************************************************)
EXTENDS RuntimeControl

FixedAt(m) == [version |-> 1, mode |-> m, approved |-> TRUE]
FixedNormal == FixedAt(NORMAL)
FixedHalted == FixedAt(HALTED)

PublishNothing == {}
PublishNormal == {[mode |-> NORMAL, approved |-> TRUE]}
PublishMixed == [mode: {NORMAL, HALTED}, approved: {TRUE}]
                \union {[mode |-> REDUCE_ONLY, approved |-> FALSE]}
=============================================================================
