-------------------------- MODULE MCTraderExecution --------------------------
(***************************************************************************)
(* Instances of TraderExecution for TLC.                                   *)
(***************************************************************************)
EXTENDS TraderExecution, TLC

\* Client order ids are interchangeable.
Symmetry == Permutations(Order)
=============================================================================
