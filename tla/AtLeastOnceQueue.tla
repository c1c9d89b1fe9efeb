-------------------------- MODULE AtLeastOnceQueue --------------------------
(***************************************************************************)
(* What JobQueue promises its callers, with none of its commands: every    *)
(* enqueued copy of an id is waiting, held or dead, delivery takes a       *)
(* waiting copy, and any held copy may be delivered again at any time,     *)
(* whoever holds it and however recent the claim.  An ack settles a copy   *)
(* of the id, not the caller's own.                                        *)
(***************************************************************************)
EXTENDS Naturals

CONSTANTS Job,    \* request ids
          Lossy   \* TRUE when a process may end in the middle of a move

VARIABLES waiting, held, dead   \* copies of every id in each place
queue == <<waiting, held, dead>>

Init == waiting = [j \in Job |-> 0] /\ held = waiting /\ dead = waiting

Add(copies, j) == [copies EXCEPT ![j] = @ + 1]
Take(copies, j) == [copies EXCEPT ![j] = @ - 1]

Enqueue(j) == waiting' = Add(waiting, j) /\ UNCHANGED <<held, dead>>

Deliver(j) ==
    /\ waiting[j] > 0
    /\ waiting' = Take(waiting, j)
    /\ held' = Add(held, j)
    /\ UNCHANGED dead

\* The copy an ack would remove may be gone, or on its way to being redelivered.
Ack(j) == /\ \/ held[j] > 0 /\ held' = Take(held, j)
             \/ UNCHANGED held
          /\ UNCHANGED <<waiting, dead>>

Redeliver(j) ==
    /\ held[j] > 0
    /\ held' = Take(held, j)
    /\ waiting' = Add(waiting, j)
    /\ UNCHANGED dead

Bury(j) ==
    /\ held[j] > 0
    /\ held' = Take(held, j)
    /\ dead' = Add(dead, j)
    /\ UNCHANGED waiting

\* The operator's replay collapses the dead copies of an id into one delivery,
\* unless another replay has taken some of them already.
Collapse(j) == /\ \E n \in 1 .. dead[j] : dead' = [dead EXCEPT ![j] = n]
               /\ UNCHANGED <<waiting, held>>
Replay(j) ==
    /\ dead[j] > 0
    /\ dead' = Take(dead, j)
    /\ waiting' = Add(waiting, j)
    /\ UNCHANGED held

\* An operator's replay ends half-way.  A sweep that does loses a held copy as an
\* ack does: the queue does not know who holds what.
Lose(j) ==
    /\ Lossy
    /\ dead[j] > 0
    /\ dead' = Take(dead, j)
    /\ UNCHANGED <<waiting, held>>

Next == \E j \in Job : \/ Enqueue(j) \/ Deliver(j) \/ Ack(j) \/ Redeliver(j)
                       \/ Bury(j) \/ Collapse(j) \/ Replay(j) \/ Lose(j)

Spec == Init /\ [][Next]_queue
=============================================================================
