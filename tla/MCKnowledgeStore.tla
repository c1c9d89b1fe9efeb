-------------------------- MODULE MCKnowledgeStore --------------------------
(* Instances of KnowledgeStore for TLC. *)
EXTENDS KnowledgeStore, TLC

Symmetry == Permutations(Server) \cup Permutations(Seeder) \cup Permutations(Request)

\* The provider with its fallback, and the sandbox model alone, each with a
\* collection of the size it needs; and the sandbox model with the default size.
AllDeployments == {[chain |-> <<"model", "pseudo">>, size |-> ModelSize],
                   [chain |-> <<"pseudo">>, size |-> SandboxSize],
                   [chain |-> <<"pseudo">>, size |-> ModelSize]}

\* The provider with its fallback, as the documentation describes it.
Documented == {[chain |-> <<"model", "pseudo">>, size |-> ModelSize]}
=============================================================================
