------------------------------ MODULE RunModes ------------------------------
(***************************************************************************)
(* The four runtime modes of the trader (core/enums.py, RunMode), as the   *)
(* priorities apps/trader.py gives them in _RUN_MODE_PRIORITY: a higher    *)
(* number is more restrictive.                                             *)
(***************************************************************************)
EXTENDS Integers

NORMAL == 0
DEGRADED == 1
REDUCE_ONLY == 2
HALTED == 3

RunMode == NORMAL .. HALTED

\* _more_restrictive_mode: the left one wins a tie.
MoreRestrictive(left, right) == IF left >= right THEN left ELSE right

\* The modes in which both the risk kernel and opening_allowed refuse an open.
BlocksOpen(mode) == mode \in {REDUCE_ONLY, HALTED}
=============================================================================
