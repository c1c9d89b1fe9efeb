---------------------------- MODULE MCRequestRun ----------------------------
(* Instances of RequestRun for TLC. *)
EXTENDS RequestRun, TLC

Symmetry == Permutations(Worker)
=============================================================================
