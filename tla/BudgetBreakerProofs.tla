------------------------ MODULE BudgetBreakerProofs ------------------------
(***************************************************************************)
(* What tlapm proves of BudgetBreaker: types, and the two bounds on the    *)
(* log of model calls, for any finite set of slots.                        *)
(*                                                                         *)
(* The ledgers are summed by a fold over Slot, so the first half of the  *)
(* module is about sums: a sum of naturals is the number of pairs <<w, i>> *)
(* with i up to the number of w, and the library's facts on cardinalities  *)
(* say the rest.                                                           *)
(***************************************************************************)
EXTENDS BudgetBreaker, FiniteSetTheorems, TLAPS

-----------------------------------------------------------------------------
(* Finite sets.                                                            *)

(***************************************************************************)
(* Induction over the subsets of a finite set: a collection that holds the *)
(* empty set, and each set it holds all the smaller ones of, holds all.    *)
(***************************************************************************)
LEMMA SubsetInduction ==
  ASSUME NEW W, IsFiniteSet(W), NEW G, {} \in G,
         \A s \in SUBSET W : s # {} /\ (\A x \in s : s \ {x} \in G) => s \in G
  PROVE  \A s \in SUBSET W : s \in G
  <1> DEFINE Bad == {s \in SUBSET W : s \notin G}
             R == StrictSubsetOrdering(W)
  <1>1. SUFFICES ASSUME Bad # {} PROVE FALSE
    OBVIOUS
  <1>2. IsWellFoundedOn(R, SUBSET W)
    BY FS_StrictSubsetOrderingWellFounded, FS_FiniteSubsetsOfFinite
  <1>3. PICK s \in Bad : \A t \in Bad : ~(<<t, s>> \in R)
    <2>1. Bad \subseteq SUBSET W
      OBVIOUS
    <2> HIDE DEF Bad, R
    <2>2. QED
      BY <1>1, <1>2, <2>1, WFMin
  <1>4. s # {} /\ s \in SUBSET W /\ s \notin G
    OBVIOUS
  <1>5. \A x \in s : s \ {x} \in G
    <2>1. SUFFICES ASSUME NEW x \in s, s \ {x} \in Bad PROVE FALSE
      BY <1>4
    <2>2. <<s \ {x}, s>> \in R
      BY <1>4 DEF StrictSubsetOrdering
    <2>3. QED
      BY <1>3, <2>1, <2>2
  <1>6. QED
    BY <1>4, <1>5

\* A finite set of naturals with an element has a largest one.
LEMMA MaxExists ==
  ASSUME NEW S \in SUBSET Nat, IsFiniteSet(S), S # {}
  PROVE  Max(S) \in S /\ \A c \in S : c <= Max(S)
  <1> DEFINE Tops(s) == {m \in s : \A c \in s : c <= m}
             G == {s \in SUBSET S : s # {} => Tops(s) # {}}
  <1>1. {} \in G
    OBVIOUS
  <1>2. ASSUME NEW s \in SUBSET S, s # {}, \A x \in s : s \ {x} \in G
        PROVE  s \in G
    <2>1. PICK x \in s : TRUE
      BY <1>2
    <2>2. CASE s \ {x} = {}
      <3>1. s = {x} /\ x \in Nat
        BY <2>1, <2>2
      <3>2. x \in Tops(s)
        BY <3>1
      <3>3. QED
        BY <3>2
    <2>3. CASE s \ {x} # {}
      <3>1. PICK m \in s \ {x} : \A c \in s \ {x} : c <= m
        BY <1>2, <2>1, <2>3
      <3>2. m \in Nat /\ x \in Nat /\ m \in s /\ \A c \in s : c \in Nat
        BY <2>1, <3>1
      <3>3. CASE x <= m
        <4>1. m \in Tops(s)
          BY <3>1, <3>2, <3>3
        <4>2. QED
          BY <4>1
      <3>4. CASE m < x
        <4>1. \A c \in s : c <= x
          BY <3>1, <3>2, <3>4
        <4>2. x \in Tops(s)
          BY <4>1, <2>1
        <4>3. QED
          BY <4>2
      <3>5. QED
        BY <3>2, <3>3, <3>4
    <2>4. QED
      BY <2>2, <2>3
  <1>3. \A s \in SUBSET S : s \in G
    <2>1. \A s \in SUBSET S : s # {} /\ (\A x \in s : s \ {x} \in G) => s \in G
      BY <1>2
    <2> HIDE DEF G
    <2>2. QED
      BY <1>1, <2>1, SubsetInduction
  <1>4. PICK m \in S : \A c \in S : c <= m
    BY <1>3
  <1>5. \A c \in S : m >= c
    BY <1>4
  <1>6. Max(S) \in S /\ \A c \in S : Max(S) >= c
    BY <1>5 DEF Max
  <1>7. QED
    BY <1>6

-----------------------------------------------------------------------------
(* Sums.                                                                   *)

\* The units a sum of f over s counts.
Units(f, s) == {p \in s \X Nat : p[2] \in 1..f[p[1]]}

\* What f adds up to over s.
Total(f, s) == Cardinality(Units(f, s))

\* The units of one element.
LEMMA Column ==
  ASSUME NEW x, NEW n \in Nat
  PROVE  IsFiniteSet({x} \X (1..n)) /\ Cardinality({x} \X (1..n)) = n
  <1>1. IsFiniteSet({x}) /\ Cardinality({x}) = 1
    BY FS_Singleton
  <1>2. IsFiniteSet(1..n) /\ Cardinality(1..n) = n
    BY FS_Interval
  <1>3. /\ IsFiniteSet({x} \X (1..n))
        /\ Cardinality({x} \X (1..n)) = Cardinality({x}) * Cardinality(1..n)
    BY <1>1, <1>2, FS_Product
  <1>4. QED
    BY <1>1, <1>2, <1>3

\* The units of an element and those of the others are all.
LEMMA UnitsSplit ==
  ASSUME NEW W, NEW f \in [W -> Nat], NEW s \in SUBSET W, NEW x \in s
  PROVE  /\ Units(f, s) = Units(f, s \ {x}) \cup ({x} \X (1..f[x]))
         /\ Units(f, s \ {x}) \cap ({x} \X (1..f[x])) = {}
  <1>1. f[x] \in Nat
    OBVIOUS
  <1>2. Units(f, s) \subseteq Units(f, s \ {x}) \cup ({x} \X (1..f[x]))
    <2>1. SUFFICES ASSUME NEW p \in Units(f, s)
                   PROVE  p \in Units(f, s \ {x}) \cup ({x} \X (1..f[x]))
      OBVIOUS
    <2>2. PICK w \in s, i \in Nat : p = <<w, i>> /\ i \in 1..f[w]
      BY <2>1 DEF Units
    <2>3. CASE w = x
      BY <2>2, <2>3
    <2>4. CASE w # x
      BY <2>2, <2>4 DEF Units
    <2>5. QED
      BY <2>3, <2>4
  <1>3. {x} \X (1..f[x]) \subseteq Units(f, s)
    BY <1>1 DEF Units
  <1>4. Units(f, s \ {x}) \subseteq Units(f, s)
    BY DEF Units
  <1>5. Units(f, s \ {x}) \cap ({x} \X (1..f[x])) = {}
    BY DEF Units
  <1>6. QED
    BY <1>2, <1>3, <1>4, <1>5

\* A sum over a finite set is a number, and 0 over the empty one.
LEMMA UnitsFinite ==
  ASSUME NEW W, IsFiniteSet(W), NEW f \in [W -> Nat]
  PROVE  /\ \A s \in SUBSET W : IsFiniteSet(Units(f, s)) /\ Total(f, s) \in Nat
         /\ Total(f, {}) = 0
  <1> DEFINE G == {s \in SUBSET W : IsFiniteSet(Units(f, s))}
  <1>1. Units(f, {}) = {}
    BY DEF Units
  <1>2. {} \in G
    BY <1>1, FS_EmptySet
  <1>3. ASSUME NEW s \in SUBSET W, s # {}, \A x \in s : s \ {x} \in G
        PROVE  s \in G
    <2>1. PICK x \in s : TRUE
      BY <1>3
    <2>2. IsFiniteSet(Units(f, s \ {x})) /\ f[x] \in Nat
      BY <1>3, <2>1
    <2>3. IsFiniteSet({x} \X (1..f[x]))
      BY <2>2, Column
    <2>4. IsFiniteSet(Units(f, s \ {x}) \cup ({x} \X (1..f[x])))
      BY <2>2, <2>3, FS_Union
    <2>5. Units(f, s) = Units(f, s \ {x}) \cup ({x} \X (1..f[x]))
      <3> HIDE DEF G
      <3>1. s \in SUBSET W /\ x \in s
        BY <1>3, <2>1
      <3>2. QED
        BY <3>1, UnitsSplit
    <2>6. QED
      BY <2>4, <2>5
  <1>4. \A s \in SUBSET W : s \in G
    <2>1. \A s \in SUBSET W : s # {} /\ (\A x \in s : s \ {x} \in G) => s \in G
      BY <1>3
    <2> HIDE DEF G
    <2>2. QED
      BY <1>2, <2>1, SubsetInduction
  <1>5. \A s \in SUBSET W : IsFiniteSet(Units(f, s))
    BY <1>4
  <1>6. QED
    BY <1>1, <1>5, FS_CardinalityType, FS_EmptySet DEF Total

\* An element can be taken out of a sum.
LEMMA TotalSplit ==
  ASSUME NEW W, IsFiniteSet(W), NEW f \in [W -> Nat], NEW s \in SUBSET W, NEW x \in s
  PROVE  Total(f, s) = f[x] + Total(f, s \ {x})
  <1> DEFINE A == Units(f, s \ {x})
             B == {x} \X (1..f[x])
  <1>1. f[x] \in Nat /\ IsFiniteSet(A) /\ Cardinality(A) \in Nat
    BY UnitsFinite DEF Total
  <1>2. IsFiniteSet(B) /\ Cardinality(B) = f[x]
    BY <1>1, Column
  <1>3. Units(f, s) = A \cup B /\ A \cap B = {}
    BY UnitsSplit
  <1>4. Cardinality(A \cap B) = 0
    BY <1>3, FS_EmptySet
  <1> HIDE DEF A, B
  <1>5. Cardinality(A \cup B) = Cardinality(A) + Cardinality(B) - Cardinality(A \cap B)
    BY <1>1, <1>2, FS_Union
  <1>6. Total(f, s) = Cardinality(A \cup B) /\ Total(f, s \ {x}) = Cardinality(A)
    BY <1>3 DEF Total, A
  <1>7. QED
    BY <1>1, <1>2, <1>4, <1>5, <1>6

(***************************************************************************)
(* The fold the model sums with computes the total: what the choice of the *)
(* next element in MapThenFoldSet is does not matter.                      *)
(***************************************************************************)
LEMMA SumIsTotal ==
  ASSUME NEW W, IsFiniteSet(W), NEW r, NEW f \in [W -> Nat],
         \A w \in W : f[w] = r[w].ledger
  PROVE  MapThenSumSet(LAMBDA w : r[w].ledger, W) = Total(f, W)
  <1> DEFINE pick(s) == CHOOSE x \in s : TRUE
             Iter(h) == [s \in SUBSET W |-> IF s = {} THEN 0
                           ELSE r[CHOOSE x \in s : TRUE].ledger
                                  + h[s \ {CHOOSE x \in s : TRUE}]]
             g == [s \in SUBSET W |-> Total(f, s)]
             h == CHOOSE i : i = Iter(i)
  <1>1. \A s \in SUBSET W : s # {} => /\ pick(s) \in s /\ s \ {pick(s)} \in SUBSET W
                                      /\ r[pick(s)].ledger = f[pick(s)]
    OBVIOUS
  <1>2. g = Iter(g)
    <2>1. ASSUME NEW s \in SUBSET W
          PROVE  g[s] = IF s = {} THEN 0 ELSE r[pick(s)].ledger + g[s \ {pick(s)}]
      <3>1. CASE s = {}
        BY <3>1, UnitsFinite
      <3>2. CASE s # {}
        <4>1. pick(s) \in s /\ g[s] = Total(f, s)
          BY <1>1, <3>2
        <4>2. Total(f, s) = f[pick(s)] + Total(f, s \ {pick(s)})
          <5> HIDE DEF g, pick
          <5>1. QED
            BY <4>1, TotalSplit
        <4>3. g[s \ {pick(s)}] = Total(f, s \ {pick(s)})
          BY <1>1, <3>2
        <4> HIDE DEF g, pick
        <4>4. QED
          BY <1>1, <3>2, <4>1, <4>2, <4>3
      <3>3. QED
        BY <3>1, <3>2
    <2>2. g = [s \in SUBSET W |-> g[s]]
      OBVIOUS
    <2> HIDE DEF g
    <2>3. QED
      BY <2>1, <2>2
  <1>3. h = Iter(h)
    <2> HIDE DEF g, Iter
    <2>1. QED
      BY <1>2
  <1>4. MapThenSumSet(LAMBDA w : r[w].ledger, W) = h[W]
    BY DEF MapThenSumSet, MapThenFoldSet
  <1>5. \A s \in SUBSET W : h[s] = Total(f, s)
    <2> DEFINE G == {s \in SUBSET W : h[s] = Total(f, s)}
    <2>0. \A s \in SUBSET W :
             h[s] = IF s = {} THEN 0 ELSE r[pick(s)].ledger + h[s \ {pick(s)}]
      <3> HIDE DEF h
      <3>1. QED
        BY <1>3
    <2> HIDE DEF h
    <2>1. {} \in G
      BY <2>0, UnitsFinite
    <2>2. ASSUME NEW s \in SUBSET W, s # {}, \A x \in s : s \ {x} \in G
          PROVE  s \in G
      <3>1. h[s] = r[pick(s)].ledger + h[s \ {pick(s)}]
        BY <2>0, <2>2
      <3>2. h[s \ {pick(s)}] = Total(f, s \ {pick(s)})
        BY <1>1, <2>2
      <3>3. Total(f, s) = f[pick(s)] + Total(f, s \ {pick(s)})
        <4>1. pick(s) \in s
          BY <1>1, <2>2
        <4> HIDE DEF pick
        <4>2. QED
          BY <4>1, TotalSplit
      <3> HIDE DEF pick
      <3>4. h[s] = Total(f, s)
        BY <1>1, <2>2, <3>1, <3>2, <3>3
      <3>5. QED
        BY <3>4
    <2>3. \A s \in SUBSET W : s \in G
      <3>1. \A s \in SUBSET W : s # {} /\ (\A x \in s : s \ {x} \in G) => s \in G
        BY <2>2
      <3> HIDE DEF G
      <3>2. QED
        BY <2>1, <3>1, SubsetInduction
    <2>4. QED
      BY <2>3
  <1>6. QED
    <2> HIDE DEF h
    <2>1. QED
      BY <1>4, <1>5

\* A change of one number changes the sum by as much.
LEMMA TotalUpdate ==
  ASSUME NEW W, IsFiniteSet(W), NEW f \in [W -> Nat], NEW e \in [W -> Nat], NEW x \in W,
         \A w \in W \ {x} : e[w] = f[w]
  PROVE  Total(e, W) + f[x] = Total(f, W) + e[x]
  <1>1. Units(e, W \ {x}) = Units(f, W \ {x})
    <2>1. \A p \in (W \ {x}) \X Nat : e[p[1]] = f[p[1]]
      OBVIOUS
    <2>2. QED
      BY <2>1 DEF Units
  <1>2. Total(e, W \ {x}) = Total(f, W \ {x}) /\ Total(f, W \ {x}) \in Nat
    BY <1>1, UnitsFinite DEF Total
  <1>3. /\ Total(e, W) = e[x] + Total(e, W \ {x})
        /\ Total(f, W) = f[x] + Total(f, W \ {x})
    BY TotalSplit
  <1>4. e[x] \in Nat /\ f[x] \in Nat
    OBVIOUS
  <1>5. QED
    BY <1>2, <1>3, <1>4

\* Smaller numbers have a smaller sum.
LEMMA TotalMonotone ==
  ASSUME NEW W, IsFiniteSet(W), NEW f \in [W -> Nat], NEW e \in [W -> Nat],
         \A w \in W : e[w] <= f[w]
  PROVE  Total(e, W) <= Total(f, W)
  <1>1. Units(e, W) \subseteq Units(f, W)
    <2>1. SUFFICES ASSUME NEW w \in W, NEW i \in Nat, i \in 1..e[w]
                   PROVE  i \in 1..f[w]
      BY DEF Units
    <2>2. e[w] \in Nat /\ f[w] \in Nat /\ e[w] <= f[w]
      OBVIOUS
    <2>3. QED
      BY <2>1, <2>2
  <1>2. IsFiniteSet(Units(f, W))
    BY UnitsFinite
  <1>3. QED
    BY <1>1, <1>2, FS_Subset DEF Total

\* A sum of numbers up to c is at most c for each element.
LEMMA TotalBounded ==
  ASSUME NEW W, IsFiniteSet(W), NEW f \in [W -> Nat], NEW c \in Nat,
         \A w \in W : f[w] <= c
  PROVE  Total(f, W) <= Cardinality(W) * c
  <1>1. IsFiniteSet(1..c) /\ Cardinality(1..c) = c
    BY FS_Interval
  <1>2. IsFiniteSet(W \X (1..c)) /\ Cardinality(W \X (1..c)) = Cardinality(W) * c
    BY <1>1, FS_Product
  <1>3. Units(f, W) \subseteq W \X (1..c)
    <2>1. SUFFICES ASSUME NEW w \in W, NEW i \in Nat, i \in 1..f[w]
                   PROVE  i \in 1..c
      BY DEF Units
    <2>2. f[w] \in Nat /\ f[w] <= c
      OBVIOUS
    <2>3. QED
      BY <2>1, <2>2
  <1>4. QED
    BY <1>2, <1>3, FS_Subset DEF Total

\* Nothing adds up to nothing.
LEMMA TotalZero ==
  ASSUME NEW W, IsFiniteSet(W), NEW f \in [W -> Nat], \A w \in W : f[w] = 0
  PROVE  Total(f, W) = 0
  <1>1. Units(f, W) = {}
    BY DEF Units
  <1>2. QED
    BY <1>1, FS_EmptySet DEF Total

-----------------------------------------------------------------------------
(* Calls.                                                                  *)

TopPrice == Max(Price)

\* What a call may charge and record, whatever model it ends at.
LEMMA Prices ==
  /\ TopPrice \in Nat /\ \A c \in Price : c \in Nat /\ c <= TopPrice
  /\ RunCost \in Nat /\ RunCost = RunCalls * TopPrice
  <1>1. Price \in SUBSET Nat /\ IsFiniteSet(Price) /\ Price # {}
    BY PriceAssumption
  <1>2. Max(Price) \in Price /\ \A c \in Price : c <= Max(Price)
    BY <1>1, MaxExists
  <1>3. TopPrice \in Nat /\ \A c \in Price : c \in Nat /\ c <= TopPrice
    BY <1>1, <1>2 DEF TopPrice
  <1>4. QED
    BY <1>3, RunAssumption DEF RunCost, TopPrice

\* An answer charges and records amounts, and records no more than it charges.
LEMMA AnswerRecords ==
  ASSUME NEW provider, NEW a \in Answer(provider)
  PROVE  /\ a = [charged |-> a.charged, recorded |-> a.recorded]
         /\ a.charged \in Nat /\ a.recorded \in Nat
         /\ a.recorded <= a.charged /\ a.recorded <= TopPrice
         /\ provider # "paid" => a.recorded = 0
  <1>1. CASE provider = "paid"
    <2>0. PICK c \in Price : a \in {[charged |-> c, recorded |-> e] : e \in EstimateCost(c)}
      BY <1>1 DEF Answer
    <2>1. PICK e \in EstimateCost(c) : a = [charged |-> c, recorded |-> e]
      BY <2>0
    <2>2. e = c \/ e = 0
      BY DEF EstimateCost
    <2>3. c \in Nat /\ c <= TopPrice /\ TopPrice \in Nat
      BY Prices
    <2>4. a.charged = c /\ a.recorded = e
      BY <2>1
    <2>5. QED
      BY <1>1, <2>1, <2>2, <2>3, <2>4
  <1>2. CASE provider # "paid"
    <2>1. a = SandboxAnswer
      BY <1>2 DEF Answer
    <2>2. a.charged = 0 /\ a.recorded = 0
      BY <2>1 DEF SandboxAnswer
    <2>3. QED
      BY <2>1, <2>2, Prices DEF SandboxAnswer
  <1>3. QED
    BY <1>1, <1>2

(***************************************************************************)
(* The same of the chain of a run: a failed first attempt adds to what is  *)
(* charged only, and the chain of a degraded run records nothing.          *)
(***************************************************************************)
LEMMA CallRecords ==
  ASSUME NEW phase \in {"paid", "degraded"}, NEW a \in Complete(Chain(phase))
  PROVE  /\ a.charged \in Nat /\ a.recorded \in Nat
         /\ a.recorded <= a.charged /\ a.recorded <= TopPrice
         /\ phase = "degraded" => a.recorded = 0
  <1>1. CASE phase = "degraded"
    <2>1. Chain(phase) = <<"sandbox">>
      BY <1>1 DEF Chain
    <2>2. Head(Chain(phase)) = "sandbox" /\ Tail(Chain(phase)) = <<>>
      BY <2>1
    <2>3. a \in Answer("sandbox")
      BY <2>2 DEF Complete
    <2>4. QED
      BY <2>3, AnswerRecords
  <1>2. CASE phase = "paid"
    <2>1. Chain(phase) = <<"paid", "sandbox">>
      BY <1>2 DEF Chain
    <2>2. Head(Chain(phase)) = "paid" /\ Chain(phase)[2] = "sandbox"
      BY <2>1
    <2>3. \/ a \in Answer("paid")
          \/ \E b \in Answer("sandbox"), lost \in Wasted("paid") :
                a = [b EXCEPT !.charged = @ + lost]
      BY <2>2 DEF Complete
    <2>4. CASE a \in Answer("paid")
      BY <1>2, <2>4, AnswerRecords
    <2>5. CASE \E b \in Answer("sandbox"), lost \in Wasted("paid") :
                  a = [b EXCEPT !.charged = @ + lost]
      <3>1. PICK b \in Answer("sandbox"), lost \in Wasted("paid") :
                    a = [b EXCEPT !.charged = @ + lost]
        BY <2>5
      <3>2. b = [charged |-> b.charged, recorded |-> b.recorded] /\ b.recorded = 0
        BY AnswerRecords
      <3>3. b.charged \in Nat
        BY AnswerRecords
      <3>4. a.recorded = b.recorded /\ a.charged = b.charged + lost
        BY <3>1, <3>2
      <3>5. lost \in Nat
        BY Prices DEF Wasted
      <3>6. QED
        BY <1>2, <3>2, <3>3, <3>4, <3>5, Prices
    <2>6. QED
      BY <2>3, <2>4, <2>5
  <1>3. QED
    BY <1>1, <1>2

-----------------------------------------------------------------------------
(* Ledgers.                                                                *)

\* The ledgers of the runs, and what they add up to.
LedgerOf == [s \in Slot |-> run[s].ledger]

LEMMA LedgersTotal ==
  ASSUME TypeOK
  PROVE  /\ LedgerOf \in [Slot -> Nat]
         /\ Ledgers = Total(LedgerOf, Slot)
         /\ Ledgers \in Nat
  <1>1. LedgerOf \in [Slot -> Nat] /\ \A s \in Slot : LedgerOf[s] = run[s].ledger
    BY DEF TypeOK, RunState, LedgerOf
  <1>2. Ledgers = Total(LedgerOf, Slot)
    BY <1>1, SumIsTotal, SlotAssumption DEF Ledgers
  <1>3. QED
    BY <1>1, <1>2, UnitsFinite, SlotAssumption

\* The sum of the ledgers moves with the ledger of the slot that takes a step.
LEMMA LedgersStep ==
  ASSUME TypeOK, TypeOK', NEW s \in Slot,
         \A t \in Slot \ {s} : run'[t] = run[t]
  PROVE  Ledgers' + run[s].ledger = Ledgers + run'[s].ledger
  <1>1. /\ LedgerOf \in [Slot -> Nat] /\ LedgerOf' \in [Slot -> Nat]
        /\ Ledgers = Total(LedgerOf, Slot) /\ Ledgers' = Total(LedgerOf', Slot)
    <2>1. (TypeOK => /\ LedgerOf \in [Slot -> Nat]
                     /\ Ledgers = Total(LedgerOf, Slot))'
      BY LedgersTotal, PTL
    <2>2. Total(LedgerOf, Slot)' = Total(LedgerOf', Slot)
      BY DEF Total, Units
    <2>3. QED
      BY <2>1, <2>2, LedgersTotal
  <1>2. \A t \in Slot : LedgerOf[t] = run[t].ledger /\ LedgerOf'[t] = run'[t].ledger
    BY DEF LedgerOf
  <1>3. Total(LedgerOf', Slot) + LedgerOf[s] = Total(LedgerOf, Slot) + LedgerOf'[s]
    BY <1>1, <1>2, TotalUpdate, SlotAssumption
  <1>4. QED
    BY <1>1, <1>2, <1>3

\* Where no run moves, neither does the sum.
LEMMA LedgersSame ==
  ASSUME TypeOK, TypeOK', run' = run
  PROVE  Ledgers' = Ledgers
  <1>1. (TypeOK => Ledgers = Total(LedgerOf, Slot))'
    BY LedgersTotal, PTL
  <1>2. LedgerOf' = LedgerOf
    BY DEF LedgerOf
  <1>3. Total(LedgerOf, Slot)' = Total(LedgerOf, Slot)
    BY <1>2 DEF Total, Units
  <1>4. QED
    BY <1>1, <1>3, LedgersTotal

-----------------------------------------------------------------------------
(* Types.                                                                  *)

(***************************************************************************)
(* Log, ledgers and day keep their types, for any finite set of slots,     *)
(* prices, cap and unlogged uses of the model.                             *)
(***************************************************************************)
THEOREM TypeCorrect == Spec => []TypeOK
  <1>1. Init => TypeOK
    <2>1. SUFFICES ASSUME Init PROVE TypeOK
      OBVIOUS
    <2>2. logged \in Nat /\ spent \in Nat /\ days \in Nat /\ carried \in Nat
      BY <2>1 DEF Init
    <2>3. run \in [Slot -> RunState]
      BY <2>1 DEF Init, RunState, NoRun
    <2>4. leaked \in BOOLEAN
      BY <2>1, Zenon DEF Init
    <2>5. QED
      BY <2>2, <2>3, <2>4, Zenon DEF TypeOK
  <1>2. ASSUME TypeOK, [Next]_vars PROVE TypeOK'
    <2>1. CASE Midnight
      <3>1. Ledgers \in Nat
        BY <1>2, LedgersTotal
      <3>2. /\ logged' \in Nat /\ spent' \in Nat /\ carried' \in Nat
            /\ days' \in Nat /\ run' \in [Slot -> RunState]
        BY <1>2, <2>1, <3>1 DEF Midnight, TypeOK
      <3>3. leaked' \in BOOLEAN
        BY <2>1, Zenon DEF Midnight
      <3>4. QED
        BY <3>2, <3>3, Zenon DEF TypeOK
    <2>2. ASSUME NEW s \in Slot, Select(s) PROVE TypeOK'
      BY <1>2, <2>2 DEF Select, TypeOK, RunState, history
    <2>3. ASSUME NEW s \in Slot, CallModel(s) PROVE TypeOK'
      <3>1. PICK a \in Complete(Chain(run[s].phase)) :
               /\ run' = [run EXCEPT ![s].calls = @ + 1, ![s].ledger = @ + a.recorded]
               /\ spent' = spent + a.charged
        BY <2>3 DEF CallModel
      <3>2. a.charged \in Nat /\ a.recorded \in Nat
        BY <2>3, CallRecords DEF CallModel
      <3>3. run[s].calls \in Nat /\ run[s].ledger \in Nat
        BY <1>2 DEF TypeOK, RunState
      <3>4. run[s].calls + 1 \in Nat /\ run[s].ledger + a.recorded \in Nat
        BY <3>2, <3>3
      <3>5. run' \in [Slot -> RunState]
        BY <1>2, <3>1, <3>4 DEF TypeOK, RunState
      <3>6. QED
        BY <1>2, <2>3, <3>1, <3>2, <3>5 DEF CallModel, TypeOK
    <2>4. ASSUME NEW s \in Slot, CallUnrecorded(s) PROVE TypeOK'
      BY <1>2, <2>4, Prices DEF CallUnrecorded, TypeOK
    <2>5. ASSUME NEW s \in Slot, RunEnds(s) PROVE TypeOK'
      BY <1>2, <2>5 DEF RunEnds, TypeOK, RunState, history
    <2>6. ASSUME NEW s \in Slot, RunFails(s) PROVE TypeOK'
      BY <1>2, <2>6 DEF RunFails, TypeOK, RunState, NoRun
    <2>7. ASSUME NEW s \in Slot, PersistCost(s) PROVE TypeOK'
      <3>1. run[s].ledger \in Nat
        BY <1>2 DEF TypeOK, RunState
      <3>2. QED
        BY <1>2, <2>7, <3>1 DEF PersistCost, TypeOK, RunState, NoRun, history
    <2>8. CASE UNCHANGED vars
      BY <1>2, <2>8 DEF vars, history, TypeOK
    <2>9. QED
      BY <1>2, <2>1, <2>2, <2>3, <2>4, <2>5, <2>6, <2>7, <2>8 DEF Next
  <1>3. QED
    BY <1>1, <1>2, PTL DEF Spec

-----------------------------------------------------------------------------
(* The log.                                                                *)

(***************************************************************************)
(* On every day, log and ledgers account for the charges of the day and    *)
(* the ledgers it began with, and for all of them while nothing has leaked *)
(* since midnight: for any slots, prices, days and unlogged uses.          *)
(***************************************************************************)
THEOREM LogIsCharged == Spec => []LogAccountsForCharges
  <1>1. Init /\ TypeOK => LogAccountsForCharges
    <2>1. SUFFICES ASSUME Init, TypeOK PROVE LogAccountsForCharges
      OBVIOUS
    <2>2. \A s \in Slot : LedgerOf[s] = 0
      BY <2>1 DEF Init, NoRun, LedgerOf
    <2>3. Ledgers = 0
      BY <2>1, <2>2, LedgersTotal, TotalZero, SlotAssumption
    <2>4. logged = 0 /\ spent = 0 /\ carried = 0
      BY <2>1 DEF Init
    <2>5. logged + Ledgers = spent + carried /\ logged + Ledgers <= spent + carried
      BY <2>3, <2>4
    <2>6. QED
      BY <2>5, Zenon DEF LogAccountsForCharges
  <1>2. ASSUME TypeOK, TypeOK', LogAccountsForCharges, [Next]_vars
        PROVE  LogAccountsForCharges'
    <2> DEFINE L == Ledgers
               L2 == Ledgers'
               Goal == /\ logged' + L2 <= spent' + carried'
                       /\ ~leaked' => logged' + L2 = spent' + carried'
    <2>1. /\ logged \in Nat /\ spent \in Nat /\ carried \in Nat
          /\ logged' \in Nat /\ spent' \in Nat /\ carried' \in Nat
      BY <1>2 DEF TypeOK
    <2>2. L \in Nat /\ \A s \in Slot : run[s].ledger \in Nat /\ run'[s].ledger \in Nat
      BY <1>2, LedgersTotal DEF TypeOK, RunState
    <2>3. \A s \in Slot : (\A t \in Slot \ {s} : run'[t] = run[t])
                               => L2 + run[s].ledger = L + run'[s].ledger
      BY <1>2, LedgersStep
    <2>4. run' = run => L2 = L
      BY <1>2, LedgersSame
    <2>5. L2 \in Nat
      <3>1. (TypeOK => Ledgers \in Nat)'
        BY LedgersTotal, PTL
      <3>2. QED
        BY <1>2, <3>1
    <2>6. /\ logged + L <= spent + carried
          /\ ~leaked => logged + L = spent + carried
      BY <1>2 DEF LogAccountsForCharges
    <2>7. SUFFICES Goal
      BY DEF LogAccountsForCharges
    <2>8. CASE Midnight
      <3>1. logged' = 0 /\ spent' = 0 /\ carried' = L /\ run' = run
        BY <2>8 DEF Midnight
      <3> HIDE DEF L, L2
      <3>2. QED
        BY <2>1, <2>2, <2>4, <3>1
    <2> HIDE DEF L, L2
    \* A step that leaves the ledgers, what was charged and what leaked as they are.
    <2>9. ASSUME NEW s \in Slot, run'[s].ledger = run[s].ledger,
                 \A t \in Slot \ {s} : run'[t] = run[t],
                 logged' = logged, spent' = spent, carried' = carried, leaked' = leaked
          PROVE  Goal
      <3>1. L2 + run[s].ledger = L + run[s].ledger
        BY <2>3, <2>9
      <3>2. L2 = L
        BY <2>2, <2>5, <3>1
      <3>3. QED
        BY <2>6, <2>9, <3>2
    <2>10. ASSUME NEW s \in Slot, Select(s) \/ RunEnds(s) PROVE Goal
      <3>1. run'[s].ledger = run[s].ledger /\ \A t \in Slot \ {s} : run'[t] = run[t]
        BY <1>2, <2>10 DEF Select, RunEnds, TypeOK, RunState
      <3>2. logged' = logged /\ spent' = spent /\ carried' = carried /\ leaked' = leaked
        BY <2>10 DEF Select, RunEnds, history
      <3> HIDE DEF Goal
      <3>3. QED
        BY <2>9, <3>1, <3>2
    <2>11. ASSUME NEW s \in Slot, CallModel(s) PROVE Goal
      <3>1. PICK a \in Complete(Chain(run[s].phase)) :
               /\ run' = [run EXCEPT ![s].calls = @ + 1, ![s].ledger = @ + a.recorded]
               /\ spent' = spent + a.charged
               /\ leaked' = (leaked \/ a.recorded # a.charged)
        BY <2>11 DEF CallModel
      <3>2. a.charged \in Nat /\ a.recorded \in Nat /\ a.recorded <= a.charged
        BY <2>11, CallRecords DEF CallModel
      <3>3. /\ run'[s].ledger = run[s].ledger + a.recorded
            /\ \A t \in Slot \ {s} : run'[t] = run[t]
        BY <1>2, <3>1 DEF TypeOK, RunState
      <3>4. logged' = logged /\ carried' = carried
        BY <2>11 DEF CallModel
      <3>5. L2 + run[s].ledger = L + run'[s].ledger
        BY <2>3, <3>3
      <3>6. L2 = L + a.recorded
        BY <2>2, <2>5, <3>2, <3>3, <3>5
      <3>7. logged' + L2 <= spent' + carried'
        BY <2>1, <2>2, <2>6, <3>1, <3>2, <3>4, <3>6
      <3>8. ASSUME ~leaked' PROVE logged' + L2 = spent' + carried'
        <4>1. a.recorded = a.charged /\ ~leaked
          BY <3>1, <3>8, Zenon
        <4>2. logged + L = spent + carried
          BY <2>6, <4>1
        <4>3. QED
          BY <2>1, <2>2, <3>1, <3>2, <3>4, <3>6, <4>1, <4>2
      <3>9. QED
        BY <3>7, <3>8
    <2>12. ASSUME NEW s \in Slot, CallUnrecorded(s) PROVE Goal
      <3>1. PICK cost \in Price : spent' = spent + cost
        BY <2>12 DEF CallUnrecorded
      <3>2. cost \in Nat
        BY Prices
      <3>3. logged' = logged /\ carried' = carried /\ leaked' = TRUE /\ L2 = L
        BY <2>4, <2>12 DEF CallUnrecorded
      <3>4. QED
        BY <2>1, <2>2, <2>6, <3>1, <3>2, <3>3
    <2>13. ASSUME NEW s \in Slot, RunFails(s) PROVE Goal
      <3>1. run'[s].ledger = 0 /\ \A t \in Slot \ {s} : run'[t] = run[t]
        BY <1>2, <2>13 DEF RunFails, TypeOK, NoRun
      <3>2. L2 + run[s].ledger = L
        BY <2>2, <2>3, <2>5, <3>1
      <3>3. /\ logged' = logged /\ spent' = spent /\ carried' = carried
            /\ leaked' = (leaked \/ run[s].ledger > 0)
        BY <2>13 DEF RunFails
      <3>4. logged' + L2 <= spent' + carried'
        BY <2>1, <2>2, <2>5, <2>6, <3>2, <3>3
      <3>5. ASSUME ~leaked' PROVE logged' + L2 = spent' + carried'
        <4>1. ~(run[s].ledger > 0) /\ ~leaked
          BY <3>3, <3>5, Zenon
        <4>2. logged + L = spent + carried /\ run[s].ledger \in Nat
          BY <2>2, <2>6, <4>1
        <4>3. run[s].ledger = 0
          BY <4>1, <4>2
        <4>4. QED
          BY <2>1, <2>2, <2>5, <3>2, <3>3, <4>2, <4>3
      <3>6. QED
        BY <3>4, <3>5
    <2>14. ASSUME NEW s \in Slot, PersistCost(s) PROVE Goal
      <3>1. run'[s].ledger = 0 /\ \A t \in Slot \ {s} : run'[t] = run[t]
        BY <1>2, <2>14 DEF PersistCost, TypeOK, NoRun
      <3>2. L2 + run[s].ledger = L
        BY <2>2, <2>3, <2>5, <3>1
      <3>3. /\ logged' = logged + run[s].ledger /\ spent' = spent
            /\ carried' = carried /\ leaked' = leaked
        BY <2>14 DEF PersistCost, history
      <3>4. logged' + L2 = logged + L
        BY <2>1, <2>2, <2>5, <3>2, <3>3
      <3>5. QED
        BY <2>6, <3>3, <3>4
    <2>15. CASE UNCHANGED vars
      BY <2>4, <2>6, <2>15 DEF vars, history
    <2> HIDE DEF Goal
    <2>16. QED
      BY <1>2, <2>8, <2>10, <2>11, <2>12, <2>13, <2>14, <2>15 DEF Next
  <1>3. QED
    BY <1>1, <1>2, TypeCorrect, PTL DEF Spec

-----------------------------------------------------------------------------
(* The overrun.                                                            *)

(***************************************************************************)
(* What a run may still add to the log: a run that read the log below the  *)
(* cap may cost as much as a run can, until it has stopped calling.        *)
(***************************************************************************)
CommitOf == [s \in Slot |-> IF run[s].phase = "paid" THEN RunCost ELSE run[s].ledger]
Committed == Total(CommitOf, Slot)

\* A run records what its calls cost, and nothing unless it read the log below the cap.
RunInv ==
  \A s \in Slot :
    /\ run[s].calls <= RunCalls
    /\ run[s].ledger <= run[s].calls * TopPrice
    /\ run[s].phase \in {"idle", "degraded"} => run[s].ledger = 0

\* The log and what the runs may still add to it.
CommitInv == logged + Committed < Cap + Cardinality(Slot) * RunCost

BudgetInv == TypeOK /\ RunInv /\ CommitInv

\* One more call is one more price.
LEMMA OneMoreCall ==
  ASSUME NEW calls \in Nat, NEW ledger \in Nat, NEW price \in Nat, NEW recorded \in Nat,
         ledger <= calls * price, recorded <= price
  PROVE  ledger + recorded <= (calls + 1) * price
  <1>1. (calls + 1) * price = calls * price + price /\ calls * price \in Nat
    OBVIOUS
  <1>2. QED
    BY <1>1

\* Fewer calls cost no more.
LEMMA CallsCost ==
  ASSUME NEW calls \in Nat, NEW most \in Nat, NEW price \in Nat, calls <= most
  PROVE  calls * price <= most * price
  OBVIOUS

\* No run is committed to more than a run may cost.
LEMMA CommitTypes ==
  ASSUME TypeOK, RunInv
  PROVE  /\ CommitOf \in [Slot -> Nat] /\ Committed \in Nat
         /\ \A s \in Slot : run[s].ledger <= CommitOf[s] /\ CommitOf[s] <= RunCost
         /\ Committed <= Cardinality(Slot) * RunCost
         /\ Ledgers <= Committed
  <1>1. ASSUME NEW s \in Slot
        PROVE  /\ run[s].ledger \in Nat /\ CommitOf[s] \in Nat
               /\ run[s].ledger <= CommitOf[s] /\ CommitOf[s] <= RunCost
    <2>1. run[s].calls \in Nat /\ run[s].ledger \in Nat
      BY DEF TypeOK, RunState
    <2>2. TopPrice \in Nat /\ RunCost \in Nat /\ RunCost = RunCalls * TopPrice /\ RunCalls \in Nat
      BY Prices, RunAssumption
    <2>3. run[s].calls * TopPrice <= RunCost /\ run[s].calls * TopPrice \in Nat
      BY <2>1, <2>2, CallsCost DEF RunInv
    <2>4. run[s].ledger <= RunCost
      BY <2>1, <2>2, <2>3 DEF RunInv
    <2>5. QED
      BY <2>1, <2>2, <2>4 DEF CommitOf
  <1>2. CommitOf \in [Slot -> Nat]
    <2>1. CommitOf = [s \in Slot |-> CommitOf[s]]
      BY DEF CommitOf
    <2>2. QED
      BY <1>1, <2>1
  <1>3. Committed \in Nat
    BY <1>2, UnitsFinite, SlotAssumption DEF Committed
  <1>4. Committed <= Cardinality(Slot) * RunCost
    BY <1>1, <1>2, Prices, TotalBounded, SlotAssumption DEF Committed
  <1>5. Ledgers <= Committed
    <2>1. LedgerOf \in [Slot -> Nat] /\ Ledgers = Total(LedgerOf, Slot)
      BY LedgersTotal
    <2>2. \A s \in Slot : LedgerOf[s] <= CommitOf[s]
      BY <1>1 DEF LedgerOf
    <2>3. QED
      BY <1>2, <2>1, <2>2, TotalMonotone, SlotAssumption DEF Committed
  <1>6. QED
    BY <1>1, <1>2, <1>3, <1>4, <1>5

\* The commitments move with that of the slot that takes a step.
LEMMA CommitStep ==
  ASSUME TypeOK, TypeOK', RunInv, RunInv', NEW s \in Slot,
         \A t \in Slot \ {s} : run'[t] = run[t]
  PROVE  Committed' + CommitOf[s] = Committed + CommitOf'[s]
  <1>1. CommitOf \in [Slot -> Nat]
    BY CommitTypes
  <1>2. CommitOf' \in [Slot -> Nat]
    <2>1. (TypeOK /\ RunInv => CommitOf \in [Slot -> Nat])'
      BY CommitTypes, PTL
    <2>2. QED
      BY <2>1
  <1>3. \A t \in Slot \ {s} : CommitOf'[t] = CommitOf[t]
    BY DEF CommitOf
  <1>4. Total(CommitOf', Slot) + CommitOf[s] = Total(CommitOf, Slot) + CommitOf'[s]
    BY <1>1, <1>2, <1>3, TotalUpdate, SlotAssumption
  <1>5. Committed' = Total(CommitOf', Slot)
    BY DEF Committed, Total, Units
  <1>6. QED
    BY <1>4, <1>5 DEF Committed

\* Every step keeps what a run records within what its calls cost.
LEMMA RunStep ==
  ASSUME TypeOK, RunInv, [Next]_vars
  PROVE  RunInv'
  <1> DEFINE Fine(r) == /\ r.calls <= RunCalls
                        /\ r.ledger <= r.calls * TopPrice
                        /\ r.phase \in {"idle", "degraded"} => r.ledger = 0
  <1>1. ASSUME NEW s \in Slot
        PROVE  run[s].calls \in Nat /\ run[s].ledger \in Nat /\ Fine(run[s])
    BY DEF TypeOK, RunState, RunInv
  <1>2. TopPrice \in Nat /\ RunCalls \in Nat
    BY Prices, RunAssumption
  <1>3. Fine(NoRun)
    BY <1>2 DEF NoRun
  <1>4. ASSUME NEW s \in Slot, \A t \in Slot \ {s} : run'[t] = run[t], Fine(run'[s])
        PROVE  RunInv'
    <2>1. \A t \in Slot : Fine(run'[t])
      <3> HIDE DEF Fine
      <3>1. QED
        BY <1>1, <1>4
    <2>2. QED
      BY <2>1 DEF RunInv, TopPrice
  <1>5. CASE UNCHANGED run
    BY <1>5 DEF RunInv, TopPrice
  <1>6. ASSUME NEW s \in Slot, Select(s) PROVE RunInv'
    <2>1. /\ run'[s].calls = run[s].calls /\ run'[s].ledger = run[s].ledger
          /\ \A t \in Slot \ {s} : run'[t] = run[t]
      BY <1>6 DEF Select, TypeOK, RunState
    <2>2. run[s].ledger = 0
      BY <1>1, <1>6 DEF Select
    <2>3. Fine(run'[s])
      BY <1>1, <2>1, <2>2
    <2>4. QED
      BY <1>4, <2>1, <2>3
  <1>7. ASSUME NEW s \in Slot, CallModel(s) PROVE RunInv'
    <2>1. PICK a \in Complete(Chain(run[s].phase)) :
             run' = [run EXCEPT ![s].calls = @ + 1, ![s].ledger = @ + a.recorded]
      BY <1>7 DEF CallModel
    <2>2. /\ a.recorded \in Nat /\ a.recorded <= TopPrice
          /\ run[s].phase = "degraded" => a.recorded = 0
          /\ run[s].phase \in {"paid", "degraded"} /\ run[s].calls < RunCalls
      BY <1>7, CallRecords DEF CallModel
    <2>3. /\ run'[s].phase = run[s].phase /\ run'[s].calls = run[s].calls + 1
          /\ run'[s].ledger = run[s].ledger + a.recorded
          /\ \A t \in Slot \ {s} : run'[t] = run[t]
      BY <2>1 DEF TypeOK, RunState
    <2>4. run[s].ledger + a.recorded <= (run[s].calls + 1) * TopPrice
      BY <1>1, <1>2, <2>2, OneMoreCall
    <2>5. run[s].phase = "degraded" => run[s].ledger + a.recorded = 0
      BY <1>1, <2>2
    <2>6. run[s].calls + 1 <= RunCalls
      BY <1>1, <1>2, <2>2
    <2>7. Fine(run'[s])
      BY <2>2, <2>3, <2>4, <2>5, <2>6
    <2>8. QED
      BY <1>4, <2>3, <2>7
  <1>8. ASSUME NEW s \in Slot, RunEnds(s) PROVE RunInv'
    <2>1. /\ run'[s].phase = "persist"
          /\ run'[s].calls = run[s].calls /\ run'[s].ledger = run[s].ledger
          /\ \A t \in Slot \ {s} : run'[t] = run[t]
      BY <1>8 DEF RunEnds, TypeOK, RunState
    <2>2. Fine(run'[s])
      BY <1>1, <2>1
    <2>3. QED
      BY <1>4, <2>1, <2>2
  <1>9. ASSUME NEW s \in Slot, RunFails(s) \/ PersistCost(s) PROVE RunInv'
    <2>1. run'[s] = NoRun /\ \A t \in Slot \ {s} : run'[t] = run[t]
      BY <1>9 DEF RunFails, PersistCost, TypeOK
    <2>2. QED
      BY <1>3, <1>4, <2>1
  <1>10. QED
    BY <1>5, <1>6, <1>7, <1>8, <1>9 DEF Next, Midnight, CallUnrecorded, vars

(***************************************************************************)
(* What the breaker sees stays below the cap and one run of each slot:     *)
(* a slot commits itself only while the log is below the cap, and while    *)
(* the commitments are all of runs, they are within a run of each.         *)
(***************************************************************************)
THEOREM OverrunLimited == Spec => []RecordedOverrunBounded
  <1>1. Init /\ TypeOK => RunInv /\ CommitInv
    <2>1. SUFFICES ASSUME Init, TypeOK PROVE RunInv /\ CommitInv
      OBVIOUS
    <2>2. RunInv
      BY <2>1, Prices, RunAssumption DEF Init, NoRun, RunInv
    <2>3. \A s \in Slot : CommitOf[s] = 0
      BY <2>1 DEF Init, NoRun, CommitOf
    <2>4. Committed = 0
      BY <2>1, <2>2, <2>3, CommitTypes, TotalZero, SlotAssumption DEF Committed
    <2>5. Cardinality(Slot) * RunCost \in Nat /\ Cap \in Nat /\ Cap # 0
      BY Prices, FS_CardinalityType, SlotAssumption, CapAssumption
    <2>6. QED
      BY <2>1, <2>2, <2>4, <2>5 DEF CommitInv, Init
  <1>2. ASSUME TypeOK, TypeOK', RunInv, RunInv', CommitInv, [Next]_vars
        PROVE  CommitInv'
    <2> DEFINE C == Committed
               C2 == Committed'
               Most == Cardinality(Slot) * RunCost
    <2>1. logged \in Nat /\ logged' \in Nat /\ Cap \in Nat /\ RunCost \in Nat /\ Most \in Nat
      BY <1>2, CapAssumption, Prices, FS_CardinalityType, SlotAssumption DEF TypeOK
    <2>2. /\ C \in Nat /\ C <= Most
          /\ \A s \in Slot : run[s].ledger \in Nat /\ run[s].ledger <= RunCost
      <3>1. C \in Nat /\ C <= Most
        BY <1>2, CommitTypes
      <3>2. ASSUME NEW s \in Slot
            PROVE  run[s].ledger \in Nat /\ run[s].ledger <= RunCost
        <4>1. run[s].ledger \in Nat
          BY <1>2 DEF TypeOK, RunState
        <4>2. run[s].ledger <= CommitOf[s] /\ CommitOf[s] <= RunCost /\ CommitOf[s] \in Nat
          BY <1>2, CommitTypes
        <4>3. QED
          BY <2>1, <4>1, <4>2
      <3>3. QED
        BY <3>1, <3>2
    <2>3. C2 \in Nat /\ C2 <= Most
      <3>1. (TypeOK /\ RunInv => /\ Committed \in Nat
                                 /\ Committed <= Cardinality(Slot) * RunCost)'
        BY CommitTypes, PTL
      <3>2. QED
        BY <1>2, <3>1
    <2>4. \A s \in Slot : (\A t \in Slot \ {s} : run'[t] = run[t])
                               => C2 + CommitOf[s] = C + CommitOf'[s]
      BY <1>2, CommitStep
    <2>5. ASSUME NEW s \in Slot
          PROVE  /\ CommitOf[s] = IF run[s].phase = "paid" THEN RunCost ELSE run[s].ledger
                 /\ CommitOf'[s] = IF run'[s].phase = "paid" THEN RunCost ELSE run'[s].ledger
      BY DEF CommitOf, RunCost
    <2>6. run' = run => C2 = C
      BY DEF Committed, Total, Units, CommitOf, RunCost
    <2>7. logged + C < Cap + Most
      BY <1>2 DEF CommitInv
    <2>8. SUFFICES logged' + C2 < Cap + Most
      BY DEF CommitInv, RunCost
    <2> HIDE DEF C, C2, Most
    <2>9. CASE Midnight
      BY <2>1, <2>2, <2>6, <2>7, <2>9 DEF Midnight
    <2>10. ASSUME NEW s \in Slot, Select(s) PROVE logged' + C2 < Cap + Most
      <3>1. CASE logged < Cap
        BY <2>1, <2>3, <2>10, <3>1 DEF Select
      <3>2. CASE logged >= Cap
        <4>1. run'[s].ledger = run[s].ledger /\ run'[s].phase = "degraded"
              /\ run[s].phase = "idle" /\ \A t \in Slot \ {s} : run'[t] = run[t]
          BY <1>2, <2>10, <3>2 DEF Select, TypeOK, RunState
        <4>2. CommitOf'[s] = run[s].ledger /\ CommitOf[s] = run[s].ledger
          BY <2>5, <4>1
        <4>3. C2 + run[s].ledger = C + run[s].ledger
          BY <2>4, <4>1, <4>2
        <4>4. logged' = logged
          BY <2>10 DEF Select
        <4>5. QED
          BY <2>1, <2>2, <2>3, <2>7, <4>3, <4>4
      <3>3. QED
        BY <2>1, <3>1, <3>2
    <2>11. ASSUME NEW s \in Slot, CallModel(s) PROVE logged' + C2 < Cap + Most
      <3>1. PICK a \in Complete(Chain(run[s].phase)) :
               run' = [run EXCEPT ![s].calls = @ + 1, ![s].ledger = @ + a.recorded]
        BY <2>11 DEF CallModel
      <3>2. run[s].phase \in {"paid", "degraded"} /\ logged' = logged
        BY <2>11 DEF CallModel
      <3>3. run[s].phase = "degraded" => a.recorded = 0
        BY <3>2, CallRecords
      <3>4. /\ run'[s].phase = run[s].phase /\ run'[s].ledger = run[s].ledger + a.recorded
            /\ \A t \in Slot \ {s} : run'[t] = run[t]
        BY <1>2, <3>1 DEF TypeOK, RunState
      <3>5. CommitOf'[s] = CommitOf[s] /\ CommitOf[s] \in Nat
        BY <2>1, <2>2, <2>5, <3>2, <3>3, <3>4
      <3>6. C2 + CommitOf[s] = C + CommitOf[s]
        BY <2>4, <3>4, <3>5
      <3>7. QED
        BY <2>1, <2>2, <2>3, <2>7, <3>2, <3>5, <3>6
    <2>12. ASSUME NEW s \in Slot, CallUnrecorded(s) PROVE logged' + C2 < Cap + Most
      BY <2>6, <2>7, <2>12 DEF CallUnrecorded
    <2>13. ASSUME NEW s \in Slot, RunEnds(s) PROVE logged' + C2 < Cap + Most
      <3>1. /\ run'[s].phase = "persist" /\ run'[s].ledger = run[s].ledger
            /\ \A t \in Slot \ {s} : run'[t] = run[t]
        BY <1>2, <2>13 DEF RunEnds, TypeOK, RunState
      <3>2. CommitOf'[s] = run[s].ledger /\ run[s].ledger <= CommitOf[s] /\ CommitOf[s] \in Nat
        BY <2>1, <2>2, <2>5, <3>1
      <3>3. C2 + CommitOf[s] = C + CommitOf'[s]
        BY <2>4, <3>1
      <3>4. logged' = logged
        BY <2>13 DEF RunEnds
      <3>5. QED
        BY <2>1, <2>2, <2>3, <2>7, <3>2, <3>3, <3>4
    <2>14. ASSUME NEW s \in Slot, RunFails(s) PROVE logged' + C2 < Cap + Most
      <3>1. run'[s] = NoRun /\ \A t \in Slot \ {s} : run'[t] = run[t]
        BY <1>2, <2>14 DEF RunFails, TypeOK
      <3>2. CommitOf'[s] = 0 /\ CommitOf[s] \in Nat
        BY <2>1, <2>2, <2>5, <3>1 DEF NoRun
      <3>3. C2 + CommitOf[s] = C + CommitOf'[s]
        BY <2>4, <3>1
      <3>4. logged' = logged
        BY <2>14 DEF RunFails
      <3>5. QED
        BY <2>1, <2>2, <2>3, <2>7, <3>2, <3>3, <3>4
    <2>15. ASSUME NEW s \in Slot, PersistCost(s) PROVE logged' + C2 < Cap + Most
      <3>1. run'[s] = NoRun /\ \A t \in Slot \ {s} : run'[t] = run[t]
        BY <1>2, <2>15 DEF PersistCost, TypeOK
      <3>2. CommitOf'[s] = 0 /\ CommitOf[s] = run[s].ledger
        BY <2>5, <2>15, <3>1 DEF NoRun, PersistCost
      <3>3. C2 + CommitOf[s] = C + CommitOf'[s]
        BY <2>4, <3>1
      <3>4. logged' = logged + run[s].ledger
        BY <2>15 DEF PersistCost
      <3>5. QED
        BY <2>1, <2>2, <2>3, <2>7, <3>2, <3>3, <3>4
    <2>16. CASE UNCHANGED vars
      BY <2>6, <2>7, <2>16 DEF vars
    <2>17. QED
      BY <1>2, <2>9, <2>10, <2>11, <2>12, <2>13, <2>14, <2>15, <2>16 DEF Next
  <1>3. BudgetInv => RecordedOverrunBounded
    <2>1. SUFFICES ASSUME BudgetInv PROVE logged + Ledgers < Cap + Cardinality(Slot) * RunCost
      BY DEF RecordedOverrunBounded
    <2>2. /\ Ledgers \in Nat /\ Committed \in Nat /\ Ledgers <= Committed
          /\ logged \in Nat /\ Cap \in Nat /\ Cardinality(Slot) * RunCost \in Nat
      BY <2>1, CommitTypes, LedgersTotal, CapAssumption, Prices, FS_CardinalityType,
         SlotAssumption DEF BudgetInv, TypeOK
    <2>3. QED
      BY <2>1, <2>2 DEF BudgetInv, CommitInv
  <1>4. QED
    BY <1>1, <1>2, <1>3, RunStep, TypeCorrect, PTL DEF Spec, BudgetInv
=============================================================================
