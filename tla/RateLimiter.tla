---------------------------- MODULE RateLimiter ----------------------------
(***************************************************************************)
(* The fixed-window rate limiter of the API (app/security/rate_limit.py)   *)
(* for one identity: a Redis counter with a time to live, used by          *)
(* concurrent API calls through INCR, EXPIRE and TTL.                      *)
(***************************************************************************)
EXTENDS Naturals, FiniteSets

CONSTANTS
    Call,      \* concurrent API calls of the identity
    Limit,     \* settings.rate_limit_requests
    Window,    \* settings.rate_limit_window_seconds
    MaxCount,  \* bound: where the counter stays
    MaxOpened, \* bound: calls let through after an error, per counter
    Faults     \* "crash": the API process dies; "redis": a command fails

ASSUME LimitAssumption == Limit \in Nat \ {0}
ASSUME WindowAssumption == Window \in Nat \ {0}
ASSUME CountAssumption == MaxCount \in Nat /\ MaxCount > Limit /\ MaxOpened \in Nat
ASSUME FaultAssumption == Faults \subseteq {"crash", "redis"}

VARIABLES
    count,     \* the counter, 0 when the key does not exist
    ttl,       \* seconds to live, 0 when the key has no expiry
    pc,        \* where every call is in check()
    current,   \* what INCR returned to it
    counted,   \* calls in progress that the current counter has counted
    admitted,  \* calls let through on account of the current counter, or of an
               \* error while it counted (history)
    opened     \* of these, the calls let through on an error (history)

history == <<admitted, opened>>
vars == <<count, ttl, pc, current, counted, history>>

TypeOK ==
    /\ count \in Nat
    /\ ttl \in 0..Window
    /\ pc \in [Call -> {"idle", "expire", "decide", "ttl"}]
    /\ current \in [Call -> Nat]
    /\ counted \subseteq Call
    /\ admitted \in Nat
    /\ opened \in 0..MaxOpened

Init ==
    /\ count = 0 /\ ttl = 0 /\ admitted = 0 /\ opened = 0
    /\ pc = [c \in Call |-> "idle"]
    /\ current = [c \in Call |-> 0]
    /\ counted = {}

-----------------------------------------------------------------------------
Goto(c, place) == pc' = [pc EXCEPT ![c] = place]

\* check() returns or raises: the call is over.
Leave(c) ==
    /\ pc' = [pc EXCEPT ![c] = "idle"]
    /\ current' = [current EXCEPT ![c] = 0]
    /\ counted' = counted \ {c}

\* Past the limit all values are alike: the counter stays at its bound.
Incremented == IF count < MaxCount THEN count + 1 ELSE count

\* Mutant: every call renews the window.
IncrRenews(c) ==
    /\ pc[c] = "idle"
    /\ count' = Incremented
    /\ current' = [current EXCEPT ![c] = Incremented]
    /\ counted' = counted \cup {c}
    /\ Goto(c, "expire")
    /\ UNCHANGED <<ttl, history>>

\* INCR; the first call of a window has to set its end.
Incr(c) ==
    /\ pc[c] = "idle"
    /\ count' = Incremented
    /\ current' = [current EXCEPT ![c] = Incremented]
    /\ counted' = counted \cup {c}
    /\ Goto(c, IF count = 0 THEN "expire" ELSE "decide")
    /\ UNCHANGED <<ttl, history>>

\* Mutant: the window is one second longer than configured.
ExpireLong(c) ==
    /\ pc[c] = "expire"
    /\ ttl' = IF count > 0 THEN Window + 1 ELSE 0
    /\ Goto(c, "decide")
    /\ UNCHANGED <<count, current, counted, history>>

\* EXPIRE, on the key if there still is one.
Expire(c) ==
    /\ pc[c] = "expire"
    /\ ttl' = IF count > 0 THEN Window ELSE 0
    /\ Goto(c, "decide")
    /\ UNCHANGED <<count, current, counted, history>>

\* Mutant: the call after the last admissible one is admitted too.
DecideOneMore(c) ==
    /\ pc[c] = "decide"
    /\ IF current[c] > Limit + 1
       THEN Goto(c, "ttl") /\ UNCHANGED <<current, counted, admitted>>
       ELSE Leave(c) /\ admitted' = IF c \in counted THEN admitted + 1 ELSE admitted
    /\ UNCHANGED <<count, ttl, opened>>

\* Over the limit the call goes on to ask for the TTL, otherwise it is admitted.
Decide(c) ==
    /\ pc[c] = "decide"
    /\ IF current[c] > Limit
       THEN Goto(c, "ttl") /\ UNCHANGED <<current, counted, admitted>>
       ELSE Leave(c) /\ admitted' = IF c \in counted THEN admitted + 1 ELSE admitted
    /\ UNCHANGED <<count, ttl, opened>>

\* TTL, and RateLimitError.
Reject(c) ==
    /\ pc[c] = "ttl"
    /\ Leave(c)
    /\ UNCHANGED <<count, ttl, history>>

\* A second passes; Redis deletes the key when its time is up.
Tick ==
    /\ ttl > 0
    /\ ttl' = ttl - 1
    /\ IF ttl = 1 THEN count' = 0 /\ counted' = {} /\ admitted' = 0 /\ opened' = 0
       ELSE UNCHANGED <<count, counted, history>>
    /\ UNCHANGED <<pc, current>>

\* The RedisError is logged and the call is let through.
LetThrough ==
    /\ "redis" \in Faults
    /\ opened < MaxOpened
    /\ admitted' = admitted + 1
    /\ opened' = opened + 1

\* INCR fails, with or without having been executed.
IncrFails(c) ==
    /\ pc[c] = "idle"
    /\ LetThrough
    /\ count' \in {count, Incremented}
    /\ UNCHANGED <<ttl, pc, current, counted>>

\* EXPIRE, executed or not, or TTL fails.
FailOpen(c) ==
    /\ pc[c] \in {"expire", "ttl"}
    /\ LetThrough
    /\ Leave(c)
    /\ ttl' \in {ttl} \cup (IF pc[c] = "expire" /\ count > 0 THEN {Window} ELSE {})
    /\ UNCHANGED count

\* The process of the call dies.
Die(c) ==
    /\ "crash" \in Faults
    /\ pc[c] # "idle"
    /\ Leave(c)
    /\ UNCHANGED <<count, ttl, history>>

CallNext(c) == \/ Incr(c) \/ Expire(c) \/ Decide(c) \/ Reject(c)
               \/ IncrFails(c) \/ FailOpen(c) \/ Die(c)
Next == Tick \/ \E c \in Call : CallNext(c)

Spec == Init /\ [][Next]_vars

\* Time passes and calls are not suspended for ever; none need ever be made.
FairSpec == /\ Spec /\ WF_vars(Tick)
            /\ \A c \in Call : WF_vars(Expire(c) \/ Decide(c) \/ Reject(c))

-----------------------------------------------------------------------------
(* Properties.                                                             *)

(***************************************************************************)
(* Calls that interleave, die, or outlive their window never push what one *)
(* counter lets through over the limit, but for the calls let through      *)
(* because a command of their own failed, even those that had been counted *)
(* and those already over the limit.  (rate_limit.py: current is what INCR *)
(* returned, not a second read; lines 39-41 fail open)                     *)
(***************************************************************************)
AdmittedBounded == admitted <= Limit + opened

(***************************************************************************)
(* A window that has an end closes: whatever traffic the identity sends,   *)
(* and whichever calls die or fail, later requests do not prolong it and   *)
(* the counter starts again.  (check: EXPIRE on the first call only.)  A   *)
(* counter whose first call dies or fails before EXPIRE has no end, see    *)
(* the README.                                                             *)
(***************************************************************************)
WindowCloses == ttl > 0 ~> count = 0
=============================================================================
