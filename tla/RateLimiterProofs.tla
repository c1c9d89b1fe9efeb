------------------------- MODULE RateLimiterProofs -------------------------
(***************************************************************************)
(* Proofs about RateLimiter, for every limit, window and set of calls.     *)
(***************************************************************************)
EXTENDS RateLimiter, FiniteSetTheorems, TLAPS

(***************************************************************************)
(* Init and every step keep the type.                                      *)
(***************************************************************************)
LEMMA TypeInit == Init => TypeOK
  BY WindowAssumption, CountAssumption DEF Init, TypeOK

LEMMA TypeStep == TypeOK /\ [Next]_vars => TypeOK'
<1> SUFFICES ASSUME TypeOK, [Next]_vars  PROVE TypeOK'
  OBVIOUS
<1> USE DEF TypeOK
<1>1. CASE UNCHANGED vars
  BY <1>1 DEF vars, history
<1>2. CASE Tick
  BY <1>2, WindowAssumption, CountAssumption DEF Tick, history
<1>3. ASSUME NEW c \in Call, CallNext(c)  PROVE TypeOK'
  <2>0. Incremented \in Nat
    BY CountAssumption DEF Incremented
  <2>1. CASE Incr(c)
    BY <2>0, <2>1 DEF Incr, Goto, history
  <2>2. CASE Expire(c)
    BY <2>2, WindowAssumption DEF Expire, Goto, history
  <2>3. CASE Decide(c)
    BY <2>3 DEF Decide, Goto, Leave
  <2>4. CASE Reject(c) \/ Die(c)
    BY <2>4 DEF Reject, Die, Leave, history
  <2>5. CASE IncrFails(c)
    BY <2>0, <2>5, CountAssumption DEF IncrFails, LetThrough
  <2>6. CASE FailOpen(c)
    BY <2>6, CountAssumption, WindowAssumption DEF FailOpen, LetThrough, Leave
  <2> QED BY <1>3, <2>1, <2>2, <2>3, <2>4, <2>5, <2>6 DEF CallNext
<1> QED BY <1>1, <1>2, <1>3 DEF Next

(***************************************************************************)
(* The counter, its time to live and every call of check() keep their      *)
(* types, whatever fails and however large the window.                     *)
(***************************************************************************)
THEOREM TypeCorrect == Spec => []TypeOK
  BY TypeInit, TypeStep, PTL DEF Spec

-----------------------------------------------------------------------------
\* Calls that the current counter has counted and that will be admitted if they
\* get to decide.
Entitled == {c \in counted : current[c] <= Limit}

(***************************************************************************)
(* What makes AdmittedBounded inductive: admissions, but for those on an   *)
(* error, and the calls that are entitled to one have each raised the      *)
(* counter by one, and the counter entitles no call beyond the limit.      *)
(***************************************************************************)
AdmissionInv ==
    /\ TypeOK
    /\ IsFiniteSet(counted)
    /\ \A c \in Call : pc[c] = "idle" => c \notin counted
    /\ admitted + Cardinality(Entitled) <= count + opened
    /\ admitted + Cardinality(Entitled) <= Limit + opened

(***************************************************************************)
(* A finite set of counted calls leaves a number of entitled ones.         *)
(***************************************************************************)
LEMMA EntitledFinite ==
  ASSUME IsFiniteSet(counted)
  PROVE  IsFiniteSet(Entitled) /\ Cardinality(Entitled) \in Nat
<1>1. Entitled \in SUBSET counted
  BY DEF Entitled
<1>2. IsFiniteSet(Entitled)
  BY <1>1, FS_Subset
<1> QED BY <1>2, FS_CardinalityType

(***************************************************************************)
(* A call that leaves takes its title with it, or had none.                *)
(***************************************************************************)
LEMMA LeaveEntitled ==
  ASSUME TypeOK, IsFiniteSet(counted), NEW c \in Call, Leave(c)
  PROVE  /\ IsFiniteSet(counted')
         /\ Entitled' = Entitled \ {c}
         /\ Cardinality(Entitled') = IF c \in Entitled THEN Cardinality(Entitled) - 1
                                     ELSE Cardinality(Entitled)
         /\ \A d \in Call : pc'[d] = "idle" => d = c \/ pc[d] = "idle"
         /\ counted' = counted \ {c}
<1>1. counted' = counted \ {c}
  BY DEF Leave
<1>2. Entitled' = Entitled \ {c}
  BY DEF Leave, Entitled, TypeOK
<1>3. IsFiniteSet(counted')
  BY <1>1, FS_RemoveElement
<1>4. \A d \in Call : pc'[d] = "idle" => d = c \/ pc[d] = "idle"
  BY DEF Leave, TypeOK
<1> QED BY <1>1, <1>2, <1>3, <1>4, EntitledFinite, FS_RemoveElement

(***************************************************************************)
(* INCR entitles the call if the counter has not reached the limit.        *)
(***************************************************************************)
LEMMA IncrKeeps ==
  ASSUME AdmissionInv, NEW c \in Call, Incr(c), TypeOK'
  PROVE  AdmissionInv'
<1> USE DEF AdmissionInv
<1>1. /\ c \notin counted /\ counted' = counted \cup {c}
      /\ admitted' = admitted /\ opened' = opened /\ count' = Incremented
      /\ current' = [current EXCEPT ![c] = Incremented]
  BY DEF Incr, history
<1>2. IsFiniteSet(counted')
  BY <1>1, FS_AddElement
<1>3. \A d \in Call : pc'[d] = "idle" => d \notin counted'
  <2>1. pc' = [pc EXCEPT ![c] = IF count = 0 THEN "expire" ELSE "decide"]
    BY DEF Incr, Goto
  <2> QED BY <1>1, <2>1 DEF TypeOK
<1>4. Cardinality(Entitled) \in Nat /\ IsFiniteSet(Entitled) /\ c \notin Entitled
  BY <1>1, EntitledFinite DEF Entitled
<1>5. CASE count < Limit
  <2>1. Incremented = count + 1 /\ Incremented <= Limit
    BY <1>5, CountAssumption, LimitAssumption DEF Incremented, TypeOK
  <2>2. Entitled' = Entitled \cup {c}
    BY <1>1, <2>1 DEF Entitled, TypeOK
  <2>3. Cardinality(Entitled') = Cardinality(Entitled) + 1
    BY <1>4, <2>2, FS_AddElement
  <2> QED BY <1>1, <1>2, <1>3, <1>4, <1>5, <2>1, <2>3, LimitAssumption DEF TypeOK
<1>6. CASE ~(count < Limit)
  <2>1. Incremented \in Nat /\ Incremented >= count /\ ~(Incremented <= Limit)
    BY <1>6, CountAssumption, LimitAssumption DEF Incremented, TypeOK
  <2>2. Entitled' = Entitled
    BY <1>1, <2>1 DEF Entitled, TypeOK
  <2> QED BY <1>1, <1>2, <1>3, <1>4, <2>1, <2>2, LimitAssumption DEF TypeOK
<1> QED BY <1>5, <1>6

(***************************************************************************)
(* An admission uses the title of the call up; a call that was counted by  *)
(* a former counter is let through without one.                            *)
(***************************************************************************)
LEMMA DecideKeeps ==
  ASSUME AdmissionInv, NEW c \in Call, Decide(c), TypeOK'
  PROVE  AdmissionInv'
<1> USE DEF AdmissionInv
<1>0. Cardinality(Entitled) \in Nat /\ count' = count /\ opened' = opened
  BY EntitledFinite DEF Decide
<1>1. CASE current[c] > Limit
  <2>1. /\ Goto(c, "ttl")
        /\ counted' = counted /\ current' = current /\ admitted' = admitted
    BY <1>1 DEF Decide
  <2>2. \A d \in Call : pc'[d] = "idle" => pc[d] = "idle"
    BY <2>1 DEF Goto, TypeOK
  <2>3. Entitled' = Entitled
    BY <2>1 DEF Entitled
  <2> QED BY <1>0, <2>1, <2>2, <2>3
<1>2. CASE ~(current[c] > Limit)
  <2>1. Leave(c) /\ admitted' = IF c \in counted THEN admitted + 1 ELSE admitted
    BY <1>2 DEF Decide
  <2>2. c \in Entitled <=> c \in counted
    BY <1>2, LimitAssumption DEF Entitled, TypeOK
  <2>3. admitted' + Cardinality(Entitled') = admitted + Cardinality(Entitled)
    BY <1>0, <2>1, <2>2, LeaveEntitled DEF TypeOK
  <2> QED BY <1>0, <2>1, <2>3, LeaveEntitled
<1> QED BY <1>1, <1>2

(***************************************************************************)
(* Every step keeps the invariant.                                         *)
(***************************************************************************)
LEMMA AdmissionStep == AdmissionInv /\ [Next]_vars => AdmissionInv'
<1> SUFFICES ASSUME AdmissionInv, [Next]_vars  PROVE AdmissionInv'
  OBVIOUS
<1>0. TypeOK'
  BY TypeStep DEF AdmissionInv
<1>00. Cardinality(Entitled) \in Nat
  BY EntitledFinite DEF AdmissionInv
<1>1. CASE UNCHANGED vars
  <2>1. Entitled' = Entitled
    BY <1>1 DEF vars, Entitled
  <2> QED BY <1>0, <1>1, <2>1 DEF vars, history, AdmissionInv
<1>2. CASE Tick
  <2>1. CASE ttl = 1
    <3>1. count' = 0 /\ counted' = {} /\ admitted' = 0 /\ opened' = 0
      BY <1>2, <2>1 DEF Tick
    <3>2. Entitled' = {}
      BY <3>1 DEF Entitled
    <3> QED BY <1>0, <3>1, <3>2, FS_EmptySet, LimitAssumption DEF AdmissionInv
  <2>2. CASE ttl # 1
    <3>1. UNCHANGED <<count, counted, admitted, opened, pc, current>>
      BY <1>2, <2>2 DEF Tick, history
    <3>2. Entitled' = Entitled
      BY <3>1 DEF Entitled
    <3> QED BY <1>0, <3>1, <3>2 DEF AdmissionInv
  <2> QED BY <2>1, <2>2
<1>3. ASSUME NEW c \in Call, CallNext(c)  PROVE AdmissionInv'
  <2>1. CASE Incr(c)
    BY <1>0, <2>1, IncrKeeps
  <2>2. CASE Expire(c)
    <3>1. UNCHANGED <<count, current, counted, admitted, opened>>
      BY <2>2 DEF Expire, history
    <3>2. \A d \in Call : pc'[d] = "idle" => pc[d] = "idle"
      BY <2>2 DEF Expire, Goto, AdmissionInv, TypeOK
    <3>3. Entitled' = Entitled
      BY <3>1 DEF Entitled
    <3> QED BY <1>0, <3>1, <3>2, <3>3 DEF AdmissionInv
  <2>3. CASE Decide(c)
    BY <1>0, <2>3, DecideKeeps
  \* A call that leaves, let through on an error or not.
  <2>4. ASSUME Leave(c), count' = count, opened' \in Nat, admitted' \in Nat,
               admitted' + opened = admitted + opened'
        PROVE  AdmissionInv'
    <3>1. Cardinality(Entitled') <= Cardinality(Entitled) /\ Cardinality(Entitled') \in Nat
      BY <1>00, <2>4, LeaveEntitled, EntitledFinite, FS_EmptySet DEF AdmissionInv
    <3>2. /\ admitted \in Nat /\ opened \in Nat /\ count \in Nat /\ Limit \in Nat
          /\ admitted + Cardinality(Entitled) <= count + opened
          /\ admitted + Cardinality(Entitled) <= Limit + opened
      BY LimitAssumption, CountAssumption DEF AdmissionInv, TypeOK
    <3>3. /\ admitted' + Cardinality(Entitled') <= count' + opened'
          /\ admitted' + Cardinality(Entitled') <= Limit + opened'
      BY <1>00, <2>4, <3>1, <3>2
    <3>4. IsFiniteSet(counted') /\ \A d \in Call : pc'[d] = "idle" => d \notin counted'
      BY <2>4, LeaveEntitled DEF AdmissionInv
    <3> QED BY <1>0, <3>3, <3>4 DEF AdmissionInv
  <2>5. CASE Reject(c) \/ Die(c)
    <3>1. Leave(c) /\ count' = count /\ admitted' = admitted /\ opened' = opened
      BY <2>5 DEF Reject, Die, history
    <3>2. admitted \in Nat /\ opened \in Nat
      BY CountAssumption DEF AdmissionInv, TypeOK
    <3> QED BY <2>4, <3>1, <3>2
  <2>6. CASE FailOpen(c)
    <3>1. Leave(c) /\ count' = count /\ admitted' = admitted + 1 /\ opened' = opened + 1
      BY <2>6 DEF FailOpen, LetThrough
    <3>2. admitted \in Nat /\ opened \in Nat
      BY CountAssumption DEF AdmissionInv, TypeOK
    <3> QED BY <2>4, <3>1, <3>2
  <2>7. CASE IncrFails(c)
    <3>1. /\ admitted' = admitted + 1 /\ opened' = opened + 1
          /\ UNCHANGED <<pc, current, counted>>
          /\ count' = count \/ count' = Incremented
      BY <2>7 DEF IncrFails, LetThrough
    <3>2. Entitled' = Entitled
      BY <3>1 DEF Entitled
    <3>3. count' \in Nat /\ count' >= count /\ admitted \in Nat /\ opened \in Nat
      BY <3>1, CountAssumption DEF Incremented, AdmissionInv, TypeOK
    <3> QED BY <1>0, <1>00, <3>1, <3>2, <3>3, LimitAssumption DEF AdmissionInv, TypeOK
  <2> QED BY <1>3, <2>1, <2>2, <2>3, <2>5, <2>6, <2>7 DEF CallNext
<1> QED BY <1>1, <1>2, <1>3 DEF Next

(***************************************************************************)
(* Calls that interleave, die, or outlive their window never push what one *)
(* counter lets through over the limit, but for the calls whose commands   *)
(* fail: for every limit, window and number of errors.                     *)
(***************************************************************************)
THEOREM LimitHolds == Spec => []AdmittedBounded
<1>1. Init => AdmissionInv
  <2> SUFFICES ASSUME Init  PROVE AdmissionInv
    OBVIOUS
  <2>1. counted = {} /\ Entitled = {}
    BY DEF Init, Entitled
  <2>2. admitted = 0 /\ opened = 0 /\ count = 0 /\ IsFiniteSet(counted) /\ Cardinality(Entitled) = 0
    BY <2>1, FS_EmptySet DEF Init
  <2> QED BY <2>1, <2>2, TypeInit, LimitAssumption DEF AdmissionInv
<1>2. AdmissionInv => AdmittedBounded
  <2> SUFFICES ASSUME AdmissionInv  PROVE AdmittedBounded
    OBVIOUS
  <2> QED BY EntitledFinite, LimitAssumption DEF AdmissionInv, AdmittedBounded, TypeOK
<1> QED BY <1>1, <1>2, AdmissionStep, PTL DEF Spec
=============================================================================
