------------------------------ MODULE EvalGate ------------------------------
(***************************************************************************)
(* The evaluation that gates a change of prompts, models or guardrails     *)
(* (evals/__main__.py, harness.py, metrics.py): the production nodes are   *)
(* run over labelled cases, one after the other; the answers are scored,   *)
(* the reply guardrail is tried on drafts it must hold and on one it must  *)
(* pass, and the exit code says whether the thresholds are met.  What is   *)
(* evaluated is a change: the guardrail is any of a set of weakened ones.  *)
(*                                                                         *)
(* The model decides every answer and may fail on any case.  A message is  *)
(* abstracted to its label; an address to whether the case has one and     *)
(* whether it was extracted.  Scores are fractions, so that no property    *)
(* depends on rounding.  Priorities and confidences are reported only and  *)
(* left out.                                                               *)
(***************************************************************************)
EXTENDS Naturals, Sequences, FiniteSets, Functions

CONSTANTS
    Type,          \* request types, see RequestType
    Guardrails,    \* the guardrails that may be evaluated, see Check
    MaxCases,      \* bound: size of the dataset
    MinAccuracy,   \* --min-accuracy, a fraction
    MinGuardrail   \* --min-guardrail, a fraction, 1 by default

Fraction == [num : Nat, den : Nat \ {0}]

(***************************************************************************)
(* The checks of check_reply; a phrase of _LEAK_MARKERS counts with those  *)
(* that the same draft contains, or as "untried" if none does.  "anything" *)
(* is a check that holds every draft.                                      *)
(***************************************************************************)
Phrase == {"scaffolding", "injection", "untried"}
Check == {"short", "long", "foreign", "anything"} \cup Phrase

ASSUME TypeAssumption == "none" \notin Type
ASSUME GuardrailAssumption == Guardrails \subseteq SUBSET Check
ASSUME CasesAssumption == MaxCases \in Nat \ {0}
ASSUME ThresholdAssumption == MinAccuracy \in Fraction /\ MinGuardrail \in Fraction

VARIABLES
    size,      \* cases in the dataset
    begun,     \* cases taken from it
    results,   \* the results of the cases run so far
    answer,    \* the case in progress: its label and the one the model gave
    guardrail, \* the checks that work in the version evaluated
    exit       \* "running", "raised" (a traceback), or the exit code

vars == <<size, begun, results, answer, guardrail, exit>>

\* email: no address in the case, or one that was extracted or missed.
Email == {"none", "right", "wrong"}
Result == [expected : Type, predicted : Type, email : Email]
NoAnswer == [expected |-> "none", predicted |-> "none"]

TypeOK ==
    /\ size \in 1 .. MaxCases
    /\ results \in Seq(Result)
    /\ begun \in 0 .. size
    /\ Len(results) <= size
    /\ answer = NoAnswer \/ answer \in [expected : Type, predicted : Type]
    /\ guardrail \in Guardrails
    /\ exit \in {"running", "raised", "0", "1"}

Init ==
    /\ size \in 1 .. MaxCases
    /\ begun = 0
    /\ results = <<>>
    /\ answer = NoAnswer
    /\ guardrail \in Guardrails
    /\ exit = "running"

-----------------------------------------------------------------------------
(* Fractions.                                                              *)

Zero == [num |-> 0, den |-> 1]
One == [num |-> 1, den |-> 1]
Over(a, b) == IF b = 0 THEN Zero ELSE [num |-> a, den |-> b]
Plus(x, y) == [num |-> x.num * y.den + y.num * x.den, den |-> x.den * y.den]
Times(x, y) == [num |-> x.num * y.num, den |-> x.den * y.den]
DividedBy(x, y) == Over(x.num * y.den, x.den * y.num)
Less(x, y) == x.num * y.den < y.num * x.den
Same(x, y) == x.num * y.den = y.num * x.den
Mean(f) == DividedBy(FoldFunction(Plus, Zero, f), Over(Cardinality(DOMAIN f), 1))

-----------------------------------------------------------------------------
(* metrics.py, over the results.                                           *)

Where(P(_)) == Cardinality({i \in DOMAIN results : P(results[i])})

\* Mutant: the labels nobody expected are left out.
LabelsExpected == {results[i].expected : i \in DOMAIN results}

Labels == {results[i].expected : i \in DOMAIN results}
          \cup {results[i].predicted : i \in DOMAIN results}

Correct == Where(LAMBDA r : r.expected = r.predicted)
TruePositives(l) == Where(LAMBDA r : r.expected = l /\ r.predicted = l)
FalsePositives(l) == Where(LAMBDA r : r.expected # l /\ r.predicted = l)
FalseNegatives(l) == Where(LAMBDA r : r.expected = l /\ r.predicted # l)

Precision(l) == Over(TruePositives(l), TruePositives(l) + FalsePositives(l))
Recall(l) == Over(TruePositives(l), TruePositives(l) + FalseNegatives(l))
F1(l) == LET p == Precision(l)
             r == Recall(l)
         IN DividedBy(Times(Over(2, 1), Times(p, r)), Plus(p, r))

Accuracy == Over(Correct, Len(results))
MacroF1 == Mean([l \in Labels |-> F1(l)])

\* extraction_report: over the cases that contain an address.
EmailSupport == Where(LAMBDA r : r.email # "none")
EmailAccuracy ==
    IF EmailSupport = 0 THEN One
    ELSE Over(Where(LAMBDA r : r.email = "right"), EmailSupport)

-----------------------------------------------------------------------------
(* The guardrail.                                                          *)

\* POISONED_DRAFTS and CLEAN_DRAFT, each as the checks it trips.
Poisoned == {"g01", "g02", "g03", "g04", "g05"}
Trips(draft) == CASE draft = "g01" -> {"foreign"}
                  [] draft = "g02" -> {"short"}
                  [] draft = "g03" -> {"scaffolding"}
                  [] draft = "g04" -> {"injection"}
                  [] draft = "g05" -> {"long"}
                  [] draft = "clean" -> {}

\* check_reply on a draft: one violation holds it.
Ok(draft) == guardrail \cap (Trips(draft) \cup {"anything"}) = {}

Caught == Cardinality({d \in Poisoned : ~Ok(d)})

\* Mutant: the control draft does not count.
CatchRateAlone == Over(Caught, Cardinality(Poisoned))

\* guardrail_catch_rate: nothing is caught by a guardrail that holds the control.
CatchRate == IF Ok("clean") THEN Over(Caught, Cardinality(Poisoned)) ELSE Zero

-----------------------------------------------------------------------------
(* The run.                                                                *)

\* classify_node on the next case.
Classify ==
    /\ exit = "running"
    /\ answer = NoAnswer
    /\ begun < size
    /\ begun' = begun + 1
    /\ answer' \in [expected : Type, predicted : Type]
    /\ UNCHANGED <<size, results, guardrail, exit>>

\* extract_node, and the result of the case.
Extract ==
    /\ exit = "running"
    /\ answer # NoAnswer
    /\ \E email \in Email :
        results' = Append(results, [expected |-> answer.expected,
                                    predicted |-> answer.predicted, email |-> email])
    /\ answer' = NoAnswer
    /\ UNCHANGED <<size, begun, guardrail, exit>>

\* Mutant: a case the model fails on is skipped.
ModelFailsSkipped ==
    /\ exit = "running"
    /\ IF answer # NoAnswer THEN UNCHANGED begun
       ELSE begun < size /\ begun' = begun + 1
    /\ answer' = NoAnswer
    /\ UNCHANGED <<size, results, guardrail, exit>>

\* The model fails for good on a case, in either node: nothing is scored, and _run
\* returns no exit code.  (The traceback ends the process with status 1 too: a
\* pipeline that reads the status cannot tell it from a threshold that was missed.)
ModelFails ==
    /\ exit = "running"
    /\ answer # NoAnswer \/ begun < size
    /\ exit' = "raised"
    /\ UNCHANGED <<size, begun, results, answer, guardrail>>

\* Both thresholds have to be met.
ExitCode ==
    IF Less(Accuracy, MinAccuracy) \/ Less(CatchRate, MinGuardrail) THEN "1" ELSE "0"

\* summarize, and the comparison with the thresholds.
Summarize ==
    /\ exit = "running"
    /\ answer = NoAnswer
    /\ begun = size
    /\ exit' = ExitCode
    /\ UNCHANGED <<size, begun, results, answer, guardrail>>

Next == Classify \/ Extract \/ ModelFails \/ Summarize

Spec == Init /\ [][Next]_vars

-----------------------------------------------------------------------------
(* Properties.                                                             *)

(***************************************************************************)
(* macro-F1, computed from precisions and recalls with their special       *)
(* cases, is the mean Dice coefficient of the types that occur on either   *)
(* side, a type the model made up included: metrics.py:4-7 claims the      *)
(* average over the union of true and predicted labels.                    *)
(***************************************************************************)
Errors(l) == Cardinality({i \in DOMAIN results :
                 (results[i].expected = l) # (results[i].predicted = l)})
Hits(l) == Cardinality({i \in DOMAIN results :
                 results[i].expected = l /\ results[i].predicted = l})
Occurring == {l \in Type : Hits(l) + Errors(l) > 0}
MacroIsMeanDice ==
    results # <<>> =>
        Same(MacroF1, Mean([l \in Occurring |-> Over(2 * Hits(l), 2 * Hits(l) + Errors(l))]))

(***************************************************************************)
(* A run that has an exit code scored every case of the dataset: a model   *)
(* that fails on the hard cases does not pass on the others.  (run_cases   *)
(* has no handler, so a failure ends the run with a traceback)             *)
(***************************************************************************)
NothingSkipped == exit \in {"0", "1"} => Len(results) = size

(***************************************************************************)
(* With the default threshold of 1 for the guardrail, success means that   *)
(* no check was lost or holds everything, but for the phrases that no      *)
(* draft of the set contains, and that enough answers were right.          *)
(* (evals/guardrails.py:7: "A regression that weakens the guardrail shows  *)
(* up as a dropped catch"; harness.py:129-131: the control is folded in)   *)
(***************************************************************************)
PassMeansGuarded ==
    exit = "0" /\ Same(MinGuardrail, One) =>
        /\ Check \ {"anything", "untried"} \subseteq guardrail
        /\ "anything" \notin guardrail
        /\ Correct * MinAccuracy.den >= MinAccuracy.num * size
=============================================================================
