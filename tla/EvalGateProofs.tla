--------------------------- MODULE EvalGateProofs ---------------------------
(***************************************************************************)
(* Proofs about EvalGate, for every set of types, every dataset size and   *)
(* every set of guardrails and thresholds.                                 *)
(***************************************************************************)
EXTENDS EvalGate, FiniteSetTheorems, TLAPS

(***************************************************************************)
(* What makes NothingSkipped inductive: every case that was begun has a    *)
(* result or is the one in progress.                                       *)
(***************************************************************************)
Progress ==
    /\ TypeOK
    /\ begun = IF answer = NoAnswer THEN Len(results) ELSE Len(results) + 1
    /\ exit \in {"0", "1"} => answer = NoAnswer /\ begun = size

LEMMA ProgressInit == Init => Progress
  BY CasesAssumption DEF Init, Progress, TypeOK

LEMMA ProgressStep == Progress /\ [Next]_vars => Progress'
<1> SUFFICES ASSUME Progress, [Next]_vars  PROVE Progress'
  OBVIOUS
<1>0. /\ size \in Nat /\ size \in 1 .. MaxCases /\ begun \in 0 .. size
      /\ results \in Seq(Result) /\ Len(results) \in Nat
  BY CasesAssumption DEF Progress, TypeOK
<1>1. CASE UNCHANGED vars
  BY <1>1 DEF vars, Progress, TypeOK
<1>2. CASE Classify
  <2>1. answer' # NoAnswer
    BY <1>2, TypeAssumption DEF Classify, NoAnswer
  <2>2. /\ answer = NoAnswer /\ begun' = begun + 1 /\ begun < size
        /\ answer' \in [expected : Type, predicted : Type]
        /\ UNCHANGED <<size, results, guardrail, exit>> /\ exit = "running"
    BY <1>2 DEF Classify
  <2> QED BY <1>0, <2>1, <2>2 DEF Progress, TypeOK
<1>3. CASE Extract
  <2>1. PICK email \in Email :
             results' = Append(results, [expected |-> answer.expected,
                                         predicted |-> answer.predicted, email |-> email])
    BY <1>3 DEF Extract
  <2>2. answer # NoAnswer /\ answer \in [expected : Type, predicted : Type]
    BY <1>3 DEF Extract, Progress, TypeOK
  <2>3. [expected |-> answer.expected, predicted |-> answer.predicted, email |-> email] \in Result
    BY <2>2 DEF Result
  <2>4. results' \in Seq(Result) /\ Len(results') = Len(results) + 1
    BY <1>0, <2>1, <2>3
  <2>5. answer' = NoAnswer /\ UNCHANGED <<size, begun, guardrail, exit>> /\ exit = "running"
    BY <1>3 DEF Extract
  <2> QED BY <1>0, <2>2, <2>4, <2>5 DEF Progress, TypeOK
<1>4. CASE ModelFails
  BY <1>4 DEF ModelFails, Progress, TypeOK
<1>5. CASE Summarize
  <2>1. ExitCode \in {"0", "1"}
    BY DEF ExitCode
  <2> QED BY <1>5, <2>1 DEF Summarize, Progress, TypeOK
<1> QED BY <1>1, <1>2, <1>3, <1>4, <1>5 DEF Next

(***************************************************************************)
(* The dataset, the results and the exit code keep their types.            *)
(***************************************************************************)
THEOREM TypeCorrect == Spec => []TypeOK
<1>1. Progress => TypeOK
  BY DEF Progress
<1> QED BY <1>1, ProgressInit, ProgressStep, PTL DEF Spec

(***************************************************************************)
(* A run that has an exit code scored every case, on whichever cases the   *)
(* model might have failed.                                                *)
(***************************************************************************)
THEOREM EveryCaseScored == Spec => []NothingSkipped
<1>1. Progress => NothingSkipped
  BY DEF Progress, NothingSkipped
<1> QED BY <1>1, ProgressInit, ProgressStep, PTL DEF Spec

-----------------------------------------------------------------------------
(* What success means.                                                     *)

(***************************************************************************)
(* The five poisoned drafts are all caught or the rate stays below one.    *)
(***************************************************************************)
LEMMA FiveDrafts ==
  /\ IsFiniteSet(Poisoned) /\ Cardinality(Poisoned) = 5
  /\ Caught \in Nat /\ Caught <= 5
  /\ Caught = 5 => \A d \in Poisoned : ~Ok(d)
<1>1. IsFiniteSet({}) /\ Cardinality({}) = 0
  BY FS_EmptySet
<1>2. IsFiniteSet({"g01"}) /\ Cardinality({"g01"}) = 1
  BY FS_Singleton
<1>3. IsFiniteSet({"g01", "g02"}) /\ Cardinality({"g01", "g02"}) = 2
  <2>1. {"g01", "g02"} = {"g01"} \cup {"g02"} /\ "g02" \notin {"g01"}
    OBVIOUS
  <2> QED BY <1>2, <2>1, FS_AddElement
<1>4. IsFiniteSet({"g01", "g02", "g03"}) /\ Cardinality({"g01", "g02", "g03"}) = 3
  <2>1. {"g01", "g02", "g03"} = {"g01", "g02"} \cup {"g03"} /\ "g03" \notin {"g01", "g02"}
    OBVIOUS
  <2> QED BY <1>3, <2>1, FS_AddElement
<1>5. /\ IsFiniteSet({"g01", "g02", "g03", "g04"})
      /\ Cardinality({"g01", "g02", "g03", "g04"}) = 4
  <2>1. /\ {"g01", "g02", "g03", "g04"} = {"g01", "g02", "g03"} \cup {"g04"}
        /\ "g04" \notin {"g01", "g02", "g03"}
    OBVIOUS
  <2> QED BY <1>4, <2>1, FS_AddElement
<1>6. IsFiniteSet(Poisoned) /\ Cardinality(Poisoned) = 5
  <2>1. /\ Poisoned = {"g01", "g02", "g03", "g04"} \cup {"g05"}
        /\ "g05" \notin {"g01", "g02", "g03", "g04"}
    BY DEF Poisoned
  <2> QED BY <1>5, <2>1, FS_AddElement
<1> DEFINE Held == {d \in Poisoned : ~Ok(d)}
<1>7. /\ IsFiniteSet(Held) /\ Cardinality(Held) \in Nat
      /\ Cardinality(Held) <= 5 /\ (Cardinality(Held) = 5 => Held = Poisoned)
  BY <1>6, FS_Subset, FS_CardinalityType
<1> QED BY <1>6, <1>7 DEF Caught

LEMMA CountsFinite == results \in Seq(Result) => Correct \in Nat
<1> SUFFICES ASSUME results \in Seq(Result)  PROVE Correct \in Nat
  OBVIOUS
<1>1. DOMAIN results = 1 .. Len(results) /\ Len(results) \in Nat
  OBVIOUS
<1>2. IsFiniteSet(1 .. Len(results))
  BY <1>1, FS_Interval
<1> DEFINE Right == {i \in DOMAIN results : results[i].expected = results[i].predicted}
<1>3. IsFiniteSet(Right)
  BY <1>1, <1>2, FS_Subset
<1>4. Correct = Cardinality(Right)
  BY DEF Correct, Where
<1> QED BY <1>3, <1>4, FS_CardinalityType

LEMMA RateOfOne ==
  ASSUME NEW c \in Nat, NEW n \in Nat \ {0}, ~(c * n < n * 5)
  PROVE  c >= 5
  OBVIOUS

LEMMA NotLess ==
  ASSUME NEW a \in Nat, NEW b \in Nat, NEW c \in Nat, NEW d \in Nat, ~(a * b < c * d)
  PROVE  a * b >= c * d
<1>1. a * b \in Nat /\ c * d \in Nat
  OBVIOUS
<1> QED BY <1>1

(***************************************************************************)
(* What the comparison with the thresholds establishes.                    *)
(***************************************************************************)
LEMMA ExitMeans ==
  ASSUME results \in Seq(Result), Len(results) = size, size \in Nat \ {0},
         ExitCode = "0"
  PROVE  /\ Correct * MinAccuracy.den >= MinAccuracy.num * size
         /\ Same(MinGuardrail, One) =>
               /\ Check \ {"anything", "untried"} \subseteq guardrail
               /\ "anything" \notin guardrail
<1>1. ~Less(Accuracy, MinAccuracy) /\ ~Less(CatchRate, MinGuardrail)
  BY DEF ExitCode
<1>2. /\ MinAccuracy.num \in Nat /\ MinAccuracy.den \in Nat
      /\ MinGuardrail.num \in Nat /\ MinGuardrail.den \in Nat \ {0}
  BY ThresholdAssumption DEF Fraction
<1>3. Correct * MinAccuracy.den >= MinAccuracy.num * size
  <2>1. Accuracy = [num |-> Correct, den |-> size]
    BY DEF Accuracy, Over
  <2>2. ~(Correct * MinAccuracy.den < MinAccuracy.num * size)
    BY <1>1, <2>1 DEF Less
  <2>3. Correct \in Nat
    BY CountsFinite
  <2> QED BY <1>2, <2>2, <2>3, NotLess
<1>4. ASSUME Same(MinGuardrail, One)
      PROVE  /\ Check \ {"anything", "untried"} \subseteq guardrail
             /\ "anything" \notin guardrail
  <2>1. MinGuardrail.num = MinGuardrail.den
    BY <1>2, <1>4 DEF Same, One
  <2>2. Ok("clean")
    <3>1. ASSUME CatchRate = Zero  PROVE FALSE
      <4>1. ~(0 * MinGuardrail.den < MinGuardrail.den * 1)
        BY <1>1, <2>1, <3>1 DEF Less, Zero
      <4> QED BY <1>2, <4>1
    <3> QED BY <3>1 DEF CatchRate
  <2>3. CatchRate = [num |-> Caught, den |-> 5]
    BY <2>2, FiveDrafts DEF CatchRate, Over
  <2>4. ~(Caught * MinGuardrail.den < MinGuardrail.den * 5)
    BY <1>1, <2>1, <2>3 DEF Less
  <2>5. Caught >= 5
    BY <1>2, <2>4, FiveDrafts, RateOfOne
  <2>6. \A d \in Poisoned : ~Ok(d)
    BY <2>5, FiveDrafts
  <2>7. "anything" \notin guardrail
    BY <2>2 DEF Ok
  <2>8. ~Ok("g01") /\ ~Ok("g02") /\ ~Ok("g03") /\ ~Ok("g04") /\ ~Ok("g05")
    BY <2>6 DEF Poisoned
  <2>9. {"foreign", "short", "scaffolding", "injection", "long"} \subseteq guardrail
    BY <2>7, <2>8 DEF Ok, Trips
  <2> QED BY <2>7, <2>9 DEF Check, Phrase
<1> QED BY <1>3, <1>4

(***************************************************************************)
(* Success under the default threshold means that no check was lost or     *)
(* holds everything, and that enough of all the cases were right.          *)
(***************************************************************************)
THEOREM SuccessMeansGuarded == Spec => []PassMeansGuarded
<1>1. Init => PassMeansGuarded
  BY DEF Init, PassMeansGuarded
<1>2. Progress /\ Progress' /\ PassMeansGuarded /\ [Next]_vars => PassMeansGuarded'
  <2> SUFFICES ASSUME Progress, Progress', PassMeansGuarded, [Next]_vars
               PROVE  PassMeansGuarded'
    OBVIOUS
  <2>1. UNCHANGED <<results, guardrail>> => Correct' = Correct
    BY DEF Correct, Where
  <2>2. CASE UNCHANGED vars
    BY <2>1, <2>2 DEF vars, PassMeansGuarded
  <2>3. CASE Classify \/ Extract \/ ModelFails
    BY <2>3 DEF Classify, Extract, ModelFails, PassMeansGuarded
  <2>4. CASE Summarize
    <3>1. /\ results \in Seq(Result) /\ size \in Nat \ {0} /\ Len(results) = size
          /\ exit' = ExitCode /\ UNCHANGED <<size, results, guardrail>>
      BY <2>4 DEF Summarize, Progress, TypeOK
    <3> QED BY <2>1, <3>1, ExitMeans DEF PassMeansGuarded
  <2> QED BY <2>2, <2>3, <2>4 DEF Next
<1> QED BY <1>1, <1>2, ProgressInit, ProgressStep, PTL DEF Spec

-----------------------------------------------------------------------------
(* Folds of fractions.                                                     *)

\* What holds of 0 and of the successor of what it holds of, holds of all.
LEMMA Successors ==
  ASSUME NEW G, 0 \in G, \A n \in Nat : n \in G => n + 1 \in G
  PROVE  \A n \in Nat : n \in G
<1> DEFINE Bad == {n \in Nat : n \notin G}
           R == {p \in Nat \X Nat : p[1] < p[2]}
<1>1. SUFFICES ASSUME Bad # {}  PROVE FALSE
  OBVIOUS
<1>2. PICK n \in Bad : \A m \in Bad : ~(<<m, n>> \in R)
  <2>1. Bad \subseteq Nat
    OBVIOUS
  <2>2. IsWellFoundedOn(R, Nat)
    BY NatLessThanWellFounded DEF OpToRel
  <2> HIDE DEF Bad, R
  <2> QED BY <1>1, <2>1, <2>2, WFMin
<1>3. n \in Nat /\ n \notin G /\ n # 0
  OBVIOUS
<1>4. n - 1 \in Nat /\ n - 1 < n /\ (n - 1) + 1 = n
  BY <1>3
<1>5. n - 1 \notin Bad
  BY <1>2, <1>4
<1> QED BY <1>3, <1>4, <1>5

\* One step of the fold that adds up v over s, from what h says of smaller sets.
Step(v, h, s) == IF s = {} THEN Zero
                 ELSE Plus(v[CHOOSE x \in s : TRUE], h[s \ {CHOOSE x \in s : TRUE}])
FoldOf(v, W, h) == h = [s \in SUBSET W |-> Step(v, h, s)]

\* The set that is left is a smaller one.
LEMMA Smaller ==
  ASSUME NEW W, IsFiniteSet(W), NEW s \in SUBSET W, s # {}
  PROVE  /\ (CHOOSE x \in s : TRUE) \in s
         /\ s \ {CHOOSE x \in s : TRUE} \in SUBSET W
         /\ Cardinality(s) \in Nat
         /\ Cardinality(s \ {CHOOSE x \in s : TRUE}) = Cardinality(s) - 1
<1> DEFINE c == CHOOSE x \in s : TRUE
<1>1. c \in s
  OBVIOUS
<1>2. IsFiniteSet(s) /\ Cardinality(s) \in Nat
  BY FS_Subset, FS_CardinalityType
<1> HIDE DEF c
<1>3. Cardinality(s \ {c}) = Cardinality(s) - 1
  BY <1>1, <1>2, FS_RemoveElement
<1> QED BY <1>1, <1>2, <1>3 DEF c

(***************************************************************************)
(* The fold exists: a function that is right for the sets of up to n       *)
(* elements gives one that is right for n + 1.                             *)
(***************************************************************************)
LEMMA FoldExists ==
  ASSUME NEW W, IsFiniteSet(W), NEW v
  PROVE  \E h : FoldOf(v, W, h)
<1> DEFINE Right(h, n) == \A s \in SUBSET W : Cardinality(s) <= n => h[s] = Step(v, h, s)
           G == {n \in Nat : \E h : h = [s \in SUBSET W |-> h[s]] /\ Right(h, n)}
<1>1. 0 \in G
  <2> DEFINE h == [s \in SUBSET W |-> Zero]
  <2>1. \A s \in SUBSET W : Cardinality(s) <= 0 => s = {}
    <3>1. ASSUME NEW s \in SUBSET W, Cardinality(s) <= 0  PROVE s = {}
      <4>1. IsFiniteSet(s) /\ Cardinality(s) \in Nat
        BY FS_Subset, FS_CardinalityType
      <4> QED BY <3>1, <4>1, FS_EmptySet
    <3> QED BY <3>1
  <2>2. Right(h, 0)
    BY <2>1 DEF Step
  <2>3. h = [s \in SUBSET W |-> h[s]]
    OBVIOUS
  <2> HIDE DEF h, Right
  <2> QED BY <2>2, <2>3
<1>2. ASSUME NEW n \in Nat, n \in G  PROVE n + 1 \in G
  <2>1. PICK h : Right(h, n)
    BY <1>2
  <2> DEFINE k == [s \in SUBSET W |-> Step(v, h, s)]
  <2>2. ASSUME NEW s \in SUBSET W, Cardinality(s) <= n + 1
        PROVE  k[s] = Step(v, k, s)
    <3>1. CASE s = {}
      BY <3>1 DEF Step
    <3>2. CASE s # {}
      <4> DEFINE t == s \ {CHOOSE x \in s : TRUE}
      <4>1. t \in SUBSET W /\ Cardinality(t) <= n
        BY <2>2, <3>2, Smaller
      <4>2. k[t] = h[t]
        BY <2>1, <4>1
      <4>3. k[s] = Step(v, h, s)
        OBVIOUS
      <4> HIDE DEF k, Right
      <4> QED BY <3>2, <4>2, <4>3 DEF Step
    <3> QED BY <3>1, <3>2
  <2>3. k = [s \in SUBSET W |-> k[s]]
    OBVIOUS
  <2>4. Right(k, n + 1)
    <3> HIDE DEF k
    <3> QED BY <2>2
  <2> HIDE DEF k, Right
  <2> QED BY <2>3, <2>4
<1>3. \A n \in Nat : n \in G
  <2> HIDE DEF G
  <2> QED BY <1>1, <1>2, Successors
<1>4. PICK h : h = [s \in SUBSET W |-> h[s]] /\ Right(h, Cardinality(W))
  BY <1>3, FS_CardinalityType
<1>5. \A s \in SUBSET W : Cardinality(s) <= Cardinality(W)
  BY FS_Subset
<1>6. \A s \in SUBSET W : h[s] = Step(v, h, s)
  BY <1>4, <1>5
<1> QED
  <2>1. h = [s \in SUBSET W |-> Step(v, h, s)]
    <3> HIDE DEF Right
    <3> QED BY <1>4, <1>6
  <2> QED BY <2>1 DEF FoldOf

\* What FoldFunction computes.
LEMMA FoldIs ==
  ASSUME NEW W, IsFiniteSet(W), NEW v, DOMAIN v = W
  PROVE  \E h : FoldOf(v, W, h) /\ FoldFunction(Plus, Zero, v) = h[W]
<1> DEFINE Iter(i) == [s \in SUBSET W |->
                          IF s = {} THEN Zero
                          ELSE Plus(v[CHOOSE x \in s : TRUE], i[s \ {CHOOSE x \in s : TRUE}])]
           h == CHOOSE i : i = Iter(i)
<1>1. PICK g : FoldOf(v, W, g)
  BY FoldExists
<1>2. g = Iter(g)
  BY <1>1 DEF FoldOf, Step
<1>3. h = Iter(h)
  <2> HIDE DEF Iter
  <2> QED BY <1>2
<1>4. FoldOf(v, W, h)
  <2> HIDE DEF h
  <2> QED BY <1>3 DEF FoldOf, Step
<1>5. FoldFunction(Plus, Zero, v) = h[W]
  BY DEF FoldFunction, FoldFunctionOnSet, MapThenFoldSet
<1> QED BY <1>4, <1>5

\* Fractions of the same value.
LEMMA SameSums ==
  ASSUME NEW a \in Nat, NEW b \in Nat, NEW c \in Nat, NEW d \in Nat,
         NEW e \in Nat, NEW f \in Nat, NEW g \in Nat, NEW k \in Nat,
         a * f = e * b, c * k = g * d
  PROVE  (a * d + c * b) * (f * k) = (e * k + g * f) * (b * d)
<1>1. (a * d + c * b) * (f * k) = (a * f) * (d * k) + (c * k) * (b * f)
  OBVIOUS
<1>2. (e * k + g * f) * (b * d) = (e * b) * (d * k) + (g * d) * (b * f)
  OBVIOUS
<1> QED BY <1>1, <1>2

LEMMA NoZeroDivisor ==
  ASSUME NEW a \in Nat, NEW b \in Nat, a # 0, b # 0
  PROVE  a * b \in Nat /\ a * b # 0
  OBVIOUS

\* A fraction, its parts named.
IsFraction(x) == /\ x = [num |-> x.num, den |-> x.den]
                 /\ x.num \in Nat /\ x.den \in Nat /\ x.den # 0

LEMMA PlusSame ==
  ASSUME NEW x, NEW y, NEW p, NEW q,
         IsFraction(x), IsFraction(y), IsFraction(p), IsFraction(q),
         Same(x, p), Same(y, q)
  PROVE  IsFraction(Plus(x, y)) /\ IsFraction(Plus(p, q)) /\ Same(Plus(x, y), Plus(p, q))
<1>1. /\ Plus(x, y).num = x.num * y.den + y.num * x.den /\ Plus(x, y).den = x.den * y.den
      /\ Plus(p, q).num = p.num * q.den + q.num * p.den /\ Plus(p, q).den = p.den * q.den
  BY DEF Plus
<1>2. /\ x.num \in Nat /\ x.den \in Nat /\ x.den # 0 /\ y.num \in Nat /\ y.den \in Nat /\ y.den # 0
      /\ p.num \in Nat /\ p.den \in Nat /\ p.den # 0 /\ q.num \in Nat /\ q.den \in Nat /\ q.den # 0
  BY DEF IsFraction
<1>3. IsFraction(Plus(x, y))
  <2>1. x.den * y.den \in Nat /\ x.den * y.den # 0
    BY <1>2, NoZeroDivisor
  <2>2. x.num * y.den + y.num * x.den \in Nat
    BY <1>2
  <2> QED BY <2>1, <2>2 DEF Plus, IsFraction
<1>4. IsFraction(Plus(p, q))
  <2>1. p.den * q.den \in Nat /\ p.den * q.den # 0
    BY <1>2, NoZeroDivisor
  <2>2. p.num * q.den + q.num * p.den \in Nat
    BY <1>2
  <2> QED BY <2>1, <2>2 DEF Plus, IsFraction
<1>5. (x.num * y.den + y.num * x.den) * (p.den * q.den)
        = (p.num * q.den + q.num * p.den) * (x.den * y.den)
  <2> DEFINE a == x.num   b == x.den   c == y.num   d == y.den
             e == p.num   f == p.den   g == q.num   k == q.den
  <2>1. a * f = e * b /\ c * k = g * d
    BY DEF Same
  <2>2. /\ a \in Nat /\ b \in Nat /\ c \in Nat /\ d \in Nat
        /\ e \in Nat /\ f \in Nat /\ g \in Nat /\ k \in Nat
    BY <1>2
  <2>3. (a * d + c * b) * (f * k) = (e * k + g * f) * (b * d)
    <3> HIDE DEF a, b, c, d, e, f, g, k
    <3> QED BY <2>1, <2>2, SameSums
  <2> QED BY <2>3
<1> QED BY <1>1, <1>3, <1>4, <1>5 DEF Same

(***************************************************************************)
(* Functions that agree up to the form of their fractions have sums that   *)
(* do: the fold takes the elements of both in the same order.              *)
(***************************************************************************)
LEMMA FoldsSame ==
  ASSUME NEW W, IsFiniteSet(W), NEW v, NEW u, DOMAIN v = W, DOMAIN u = W,
         \A l \in W : IsFraction(v[l]) /\ IsFraction(u[l]) /\ Same(v[l], u[l])
  PROVE  /\ IsFraction(FoldFunction(Plus, Zero, v)) /\ IsFraction(FoldFunction(Plus, Zero, u))
         /\ Same(FoldFunction(Plus, Zero, v), FoldFunction(Plus, Zero, u))
<1>1. PICK h : FoldOf(v, W, h) /\ FoldFunction(Plus, Zero, v) = h[W]
  BY FoldIs
<1>2. PICK k : FoldOf(u, W, k) /\ FoldFunction(Plus, Zero, u) = k[W]
  BY FoldIs
<1>3. \A s \in SUBSET W : h[s] = Step(v, h, s) /\ k[s] = Step(u, k, s)
  <2>1. \A s \in SUBSET W : h[s] = Step(v, h, s)
    BY <1>1 DEF FoldOf
  <2>2. \A s \in SUBSET W : k[s] = Step(u, k, s)
    BY <1>2 DEF FoldOf
  <2> QED BY <2>1, <2>2
<1> DEFINE Agree(s) == IsFraction(h[s]) /\ IsFraction(k[s]) /\ Same(h[s], k[s])
           G == {n \in Nat : \A s \in SUBSET W : Cardinality(s) <= n => Agree(s)}
<1>4. Agree({})
  <2>1. h[{}] = Zero /\ k[{}] = Zero
    BY <1>3 DEF Step
  <2> QED BY <2>1 DEF IsFraction, Same, Zero
<1>5. 0 \in G
  <2>1. ASSUME NEW s \in SUBSET W, Cardinality(s) <= 0  PROVE Agree(s)
    <3>1. IsFiniteSet(s) /\ Cardinality(s) \in Nat
      BY FS_Subset, FS_CardinalityType
    <3>2. s = {}
      BY <2>1, <3>1, FS_EmptySet
    <3> QED BY <1>4, <3>2
  <2> QED BY <2>1
<1>6. ASSUME NEW n \in Nat, n \in G  PROVE n + 1 \in G
  <2>1. ASSUME NEW s \in SUBSET W, Cardinality(s) <= n + 1, s # {}  PROVE Agree(s)
    <3> DEFINE c == CHOOSE x \in s : TRUE
               t == s \ {c}
    <3>1. c \in s /\ c \in W /\ t \in SUBSET W /\ Cardinality(t) <= n
      BY <2>1, Smaller
    <3>2. Agree(t)
      BY <1>6, <3>1
    <3>3. h[s] = Plus(v[c], h[t]) /\ k[s] = Plus(u[c], k[t])
      BY <1>3, <2>1 DEF Step
    <3>4. IsFraction(v[c]) /\ IsFraction(u[c]) /\ Same(v[c], u[c])
      BY <3>1
    <3> HIDE DEF c, t
    <3> QED BY <3>2, <3>3, <3>4, PlusSame
  <2> HIDE DEF Agree
  <2>2. \A s \in SUBSET W : Cardinality(s) <= n + 1 => Agree(s)
    BY <1>4, <2>1
  <2> QED BY <2>2
<1>7. Cardinality(W) \in G /\ Cardinality(W) \in Nat
  <2> HIDE DEF G
  <2> QED BY <1>5, <1>6, Successors, FS_CardinalityType
<1>8. Agree(W)
  BY <1>7
<1> QED BY <1>1, <1>2, <1>8

\* Means over the same finite set differ in form only, if their values do.
LEMMA MeansSame ==
  ASSUME NEW W, IsFiniteSet(W), W # {}, NEW v, NEW u, DOMAIN v = W, DOMAIN u = W,
         \A l \in W : IsFraction(v[l]) /\ IsFraction(u[l]) /\ Same(v[l], u[l])
  PROVE  Same(Mean(v), Mean(u))
<1> DEFINE x == FoldFunction(Plus, Zero, v)
           y == FoldFunction(Plus, Zero, u)
           n == Cardinality(W)
<1>1. IsFraction(x) /\ IsFraction(y) /\ Same(x, y)
  BY FoldsSame
<1>2. n \in Nat /\ n # 0
  BY FS_CardinalityType, FS_EmptySet
<1>3. Mean(v) = DividedBy(x, Over(n, 1)) /\ Mean(u) = DividedBy(y, Over(n, 1))
  BY DEF Mean
<1> HIDE DEF x, y, n
<1>4. Over(n, 1) = [num |-> n, den |-> 1]
  BY DEF Over
<1>5. x.num \in Nat /\ x.den \in Nat /\ x.den # 0 /\ y.num \in Nat /\ y.den \in Nat /\ y.den # 0
  BY <1>1 DEF IsFraction
<1>6. x.den * n # 0 /\ y.den * n # 0
  BY <1>2, <1>5, NoZeroDivisor
<1>7. /\ Mean(v) = [num |-> x.num * 1, den |-> x.den * n]
      /\ Mean(u) = [num |-> y.num * 1, den |-> y.den * n]
  BY <1>3, <1>4, <1>6 DEF DividedBy, Over
<1>8. x.num * y.den = y.num * x.den
  BY <1>1 DEF Same
<1>9. (x.num * 1) * (y.den * n) = (y.num * 1) * (x.den * n)
  <2>1. /\ (x.num * 1) * (y.den * n) = (x.num * y.den) * n
        /\ (y.num * 1) * (x.den * n) = (y.num * x.den) * n
    BY <1>2, <1>5
  <2> QED BY <1>8, <2>1
<1> QED BY <1>7, <1>9 DEF Same

-----------------------------------------------------------------------------
(* Macro-F1.                                                               *)

(***************************************************************************)
(* The Dice coefficient is the harmonic mean of precision and recall: with *)
(* h hits among h + a predictions and h + b expectations, 2hh/(PR) divided *)
(* by h/P + h/R is 2h/(2h + a + b).                                        *)
(***************************************************************************)
LEMMA Harmonic ==
  ASSUME NEW h \in Nat, NEW a \in Nat, NEW b \in Nat
  PROVE  (2 * (h * h) * ((h + a) * (h + b))) * (2 * h + (a + b))
           = (2 * h) * ((1 * ((h + a) * (h + b))) * (h * (h + b) + h * (h + a)))
OBVIOUS

\* The counts behind the score of a label.
LEMMA LabelCounts ==
  ASSUME results \in Seq(Result), NEW l
  PROVE  /\ Hits(l) \in Nat /\ Errors(l) \in Nat
         /\ FalsePositives(l) \in Nat /\ FalseNegatives(l) \in Nat
         /\ TruePositives(l) = Hits(l)
         /\ Errors(l) = FalsePositives(l) + FalseNegatives(l)
         /\ Hits(l) + Errors(l) > 0 <=> l \in Labels
<1> DEFINE D == DOMAIN results
           H == {i \in D : results[i].expected = l /\ results[i].predicted = l}
           P == {i \in D : results[i].expected # l /\ results[i].predicted = l}
           N == {i \in D : results[i].expected = l /\ results[i].predicted # l}
           E == {i \in D : (results[i].expected = l) # (results[i].predicted = l)}
<1>1. IsFiniteSet(D)
  <2>1. D = 1 .. Len(results) /\ Len(results) \in Nat
    OBVIOUS
  <2> QED BY <2>1, FS_Interval
<1>2. /\ TruePositives(l) = Cardinality(H) /\ Hits(l) = Cardinality(H)
      /\ FalsePositives(l) = Cardinality(P) /\ FalseNegatives(l) = Cardinality(N)
      /\ Errors(l) = Cardinality(E)
  BY DEF TruePositives, FalsePositives, FalseNegatives, Where, Hits, Errors
<1>3. /\ H \in SUBSET D /\ P \in SUBSET D /\ N \in SUBSET D /\ E \in SUBSET D
      /\ E = P \cup N /\ P \cap N = {}
  OBVIOUS
<1>4. l \in Labels <=> H \cup E # {}
  BY DEF Labels
<1> HIDE DEF D, H, P, N, E
<1>5. /\ IsFiniteSet(H) /\ IsFiniteSet(P) /\ IsFiniteSet(N) /\ IsFiniteSet(E)
  BY <1>1, <1>3, FS_Subset
<1>6. /\ Cardinality(H) \in Nat /\ Cardinality(P) \in Nat
      /\ Cardinality(N) \in Nat /\ Cardinality(E) \in Nat
  BY <1>5, FS_CardinalityType
<1>7. Cardinality(E) = Cardinality(P) + Cardinality(N)
  <2>1. Cardinality(P \cup N) = Cardinality(P) + Cardinality(N) - Cardinality(P \cap N)
    BY <1>5, FS_Union
  <2>2. Cardinality(P \cap N) = 0
    BY <1>3, FS_EmptySet
  <2> QED BY <1>3, <1>6, <2>1, <2>2
<1>8. (Cardinality(H) = 0 <=> H = {}) /\ (Cardinality(E) = 0 <=> E = {})
  BY <1>5, FS_EmptySet
<1>9. Hits(l) + Errors(l) > 0 <=> l \in Labels
  BY <1>2, <1>4, <1>6, <1>8
<1> QED BY <1>2, <1>6, <1>7, <1>9

\* The Dice coefficient of a label.
Dice(l) == Over(2 * Hits(l), 2 * Hits(l) + Errors(l))

\* The F1 of a label that occurs is its Dice coefficient.
LEMMA F1IsDice ==
  ASSUME results \in Seq(Result), NEW l \in Labels
  PROVE  IsFraction(F1(l)) /\ IsFraction(Dice(l)) /\ Same(F1(l), Dice(l))
<1> DEFINE h == Hits(l)
           a == FalsePositives(l)
           b == FalseNegatives(l)
           p == Precision(l)
           r == Recall(l)
<1>1. /\ h \in Nat /\ a \in Nat /\ b \in Nat /\ h + (a + b) > 0
      /\ TruePositives(l) = h /\ Errors(l) = a + b
  BY LabelCounts
<1>2. p = Over(h, h + a) /\ r = Over(h, h + b)
  BY <1>1 DEF Precision, Recall
<1>3. F1(l) = DividedBy(Times(Over(2, 1), Times(p, r)), Plus(p, r))
  BY DEF F1
<1>4. Dice(l) = Over(2 * h, 2 * h + (a + b))
  BY <1>1 DEF Dice
<1> HIDE DEF h, a, b, p, r
<1>5. 2 * h + (a + b) \in Nat /\ 2 * h + (a + b) # 0
  BY <1>1
<1>6. Dice(l) = [num |-> 2 * h, den |-> 2 * h + (a + b)]
  BY <1>4, <1>5 DEF Over
<1>7. Over(2, 1) = [num |-> 2, den |-> 1]
  BY DEF Over
<1>8. CASE h = 0
  <2>1. p.num = 0 /\ r.num = 0 /\ p.den \in Nat /\ r.den \in Nat
    BY <1>1, <1>2, <1>8 DEF Over, Zero
  <2>2. Plus(p, r).num = 0
    BY <2>1 DEF Plus
  <2> DEFINE top == Times(Over(2, 1), Times(p, r))
  <2>3. top.den = 1 * (p.den * r.den) /\ top.den \in Nat
    BY <1>7, <2>1 DEF Times
  <2> HIDE DEF top
  <2>4. top.den * Plus(p, r).num = 0
    BY <2>2, <2>3
  <2>5. F1(l) = Zero
    BY <1>3, <2>4 DEF DividedBy, Over, top
  <2>6. Dice(l).num = 0
    BY <1>6, <1>8
  <2> QED BY <1>1, <1>5, <1>6, <1>8, <2>5 DEF IsFraction, Same, Zero
<1>9. CASE h # 0
  <2> DEFINE P == h + a
             R == h + b
  <2>1. P \in Nat /\ R \in Nat /\ P # 0 /\ R # 0
    BY <1>1, <1>9
  <2>2. p = [num |-> h, den |-> P] /\ r = [num |-> h, den |-> R]
    BY <1>2, <2>1 DEF Over
  <2> HIDE DEF P, R
  <2>3. Times(Over(2, 1), Times(p, r)) = [num |-> 2 * (h * h), den |-> 1 * (P * R)]
    BY <1>7, <2>2 DEF Times
  <2>4. Plus(p, r) = [num |-> h * R + h * P, den |-> P * R]
    BY <2>2 DEF Plus
  <2>5. /\ P * R \in Nat /\ P * R # 0 /\ 1 * (P * R) = P * R
        /\ h * R \in Nat /\ h * R # 0 /\ h * P \in Nat /\ h * P # 0
    BY <1>1, <1>9, <2>1, NoZeroDivisor
  <2>6. h * R + h * P \in Nat /\ h * R + h * P # 0
    BY <2>5
  <2>7. (1 * (P * R)) * (h * R + h * P) \in Nat /\ (1 * (P * R)) * (h * R + h * P) # 0
    BY <2>5, <2>6, NoZeroDivisor
  <2>8. F1(l) = [num |-> 2 * (h * h) * (P * R), den |-> (1 * (P * R)) * (h * R + h * P)]
    BY <1>3, <2>3, <2>4, <2>7 DEF DividedBy, Over
  <2>9. (2 * (h * h) * (P * R)) * (2 * h + (a + b))
          = (2 * h) * ((1 * (P * R)) * (h * R + h * P))
    BY <1>1, Harmonic DEF P, R
  <2>10. 2 * (h * h) * (P * R) \in Nat /\ 2 * h \in Nat
    <3>1. h * h \in Nat /\ h * h # 0
      BY <1>1, <1>9, NoZeroDivisor
    <3>2. 2 * (h * h) \in Nat /\ 2 * (h * h) # 0
      BY <3>1
    <3>3. (2 * (h * h)) * (P * R) \in Nat
      BY <2>5, <3>2, NoZeroDivisor
    <3> QED BY <1>1, <3>3
  <2>11. IsFraction(F1(l)) /\ IsFraction(Dice(l))
    BY <1>5, <1>6, <2>7, <2>8, <2>10 DEF IsFraction
  <2> QED BY <1>6, <2>8, <2>9, <2>11 DEF Same
<1> QED BY <1>8, <1>9

\* The labels are those that occur, and there are finitely many.
LEMMA LabelsOccur ==
  ASSUME results \in Seq(Result)
  PROVE  Labels = Occurring /\ IsFiniteSet(Labels) /\ (results # <<>> => Labels # {})
<1>1. DOMAIN results = 1 .. Len(results) /\ Len(results) \in Nat
  OBVIOUS
<1>2. \A i \in DOMAIN results : results[i].expected \in Type /\ results[i].predicted \in Type
  <2>1. ASSUME NEW i \in DOMAIN results  PROVE results[i] \in Result
    BY <2>1
  <2> QED BY <2>1 DEF Result
<1>3. Labels \subseteq Type
  BY <1>2 DEF Labels
<1>4. Labels = Occurring
  BY <1>3, LabelCounts DEF Occurring
<1>5. IsFiniteSet(DOMAIN results)
  BY <1>1, FS_Interval
<1> DEFINE A == {results[i].expected : i \in DOMAIN results}
           B == {results[i].predicted : i \in DOMAIN results}
           f == [i \in DOMAIN results |-> results[i].expected]
           g == [i \in DOMAIN results |-> results[i].predicted]
<1>6. f \in Surjection(DOMAIN results, A) /\ g \in Surjection(DOMAIN results, B)
  BY DEF Surjection
<1>7. Labels = A \cup B
  BY DEF Labels
<1>8. results # <<>> => A # {}
  <2>1. results # <<>> => 1 \in DOMAIN results
    BY <1>1
  <2> QED BY <2>1
<1> HIDE DEF A, B, f, g
<1>9. IsFiniteSet(A) /\ IsFiniteSet(B)
  BY <1>5, <1>6, FS_Surjection
<1>10. IsFiniteSet(A \cup B)
  BY <1>9, FS_Union
<1> QED BY <1>4, <1>7, <1>8, <1>10

(***************************************************************************)
(* The macro-F1 of any results is the mean Dice coefficient of the types   *)
(* that occur, for any set of types and any number of cases: the special   *)
(* cases for a label that occurs on one side only do not move it.          *)
(***************************************************************************)
THEOREM MacroScore == Spec => []MacroIsMeanDice
<1>1. Progress => MacroIsMeanDice
  <2>1. SUFFICES ASSUME results \in Seq(Result), results # <<>>
                 PROVE  Same(MacroF1, Mean([l \in Occurring |-> Dice(l)]))
    BY DEF Progress, TypeOK, MacroIsMeanDice, Dice
  <2> DEFINE v == [l \in Labels |-> F1(l)]
             u == [l \in Labels |-> Dice(l)]
  <2>2. \A l \in Labels : IsFraction(v[l]) /\ IsFraction(u[l]) /\ Same(v[l], u[l])
    BY <2>1, F1IsDice
  <2>3. DOMAIN v = Labels /\ DOMAIN u = Labels
    OBVIOUS
  <2>4. u = [l \in Occurring |-> Dice(l)] /\ MacroF1 = Mean(v)
    BY <2>1, LabelsOccur DEF MacroF1
  <2>5. IsFiniteSet(Labels) /\ Labels # {}
    BY <2>1, LabelsOccur
  <2> HIDE DEF v, u
  <2>6. Same(Mean(v), Mean(u))
    BY <2>2, <2>3, <2>5, MeansSame
  <2> QED BY <2>4, <2>6
<1> QED BY <1>1, ProgressInit, ProgressStep, PTL DEF Spec

=============================================================================
