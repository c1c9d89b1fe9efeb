--------------------------- MODULE MCStuckAlerts ---------------------------
(* Instances of StuckAlerts for TLC. *)
EXTENDS StuckAlerts, TLC

Symmetry == Permutations(Job) \cup Permutations(Worker)

\* A visibility timeout shorter than the threshold by just the time of a sweep,
\* and one that leaves just the room for an interval and two sweeps after it.
AllSettings == {[visibility |-> 1, threshold |-> 2],
                [visibility |-> 5, threshold |-> 1]}
=============================================================================
