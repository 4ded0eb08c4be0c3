----------------------------- MODULE MCSignalLog -----------------------------
(* SignalLog for TLC: the constants are given by the configurations. *)
EXTENDS SignalLog, TLC

Symmetry == Permutations(Procs)
=============================================================================
