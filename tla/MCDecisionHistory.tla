-------------------------- MODULE MCDecisionHistory --------------------------
(* DecisionHistory for TLC: the constants are given by the configurations. *)
EXTENDS DecisionHistory, TLC

Symmetry == Permutations(Items)
=============================================================================
