-------------------------- MODULE MCBudgetBreaker --------------------------
(* Instances of BudgetBreaker for TLC. *)
EXTENDS BudgetBreaker, TLC

Symmetry == Permutations(Slot)
=============================================================================
