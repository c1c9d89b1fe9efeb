----------------------------- MODULE MCEvalGate -----------------------------
(* Instances of EvalGate for TLC. *)
EXTENDS EvalGate, TLC

Symmetry == Permutations(Type)

TwoThirds == [num |-> 2, den |-> 3]

\* The guardrail of the repository, the ones that lost a check, and one that
\* holds every draft.
InForce == Check \ {"anything"}
Regressions == {InForce, Check} \cup {InForce \ {c} : c \in InForce}
=============================================================================
