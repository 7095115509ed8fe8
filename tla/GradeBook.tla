------------------------------ MODULE GradeBook ------------------------------
(***************************************************************************)
(* What one student's result grade is computed from: the weights of a       *)
(* scheme as they were submitted, checked and stored, and the grades as    *)
(* they were submitted, checked and stored.  Sequential: Grades has the    *)
(* transactions around it.                                                 *)
(***************************************************************************)
EXTENDS GradeArithmetic, Sequences

CONSTANTS
  Weights,         \* weights a request may carry, in ten-thousandths
  Inputs,          \* grades a request may carry, in hundredths
  MaxEvaluations   \* bound: evaluations of the scheme

ASSUME GradeBookAssumption ==
  /\ Weights \subseteq Nat
  /\ Inputs \subseteq Nat
  /\ MaxEvaluations \in Nat

VARIABLES
  weights,  \* evaluations.weight by position, in thousandths; <<>> without a scheme
  values,   \* grades.value by position, in tenths, 0 before it is recorded
  result    \* section_enrollments.final_grade in tenths, 0 while NULL

bookVars == <<weights, values, result>>

\* The exact sum of the first n terms, each one a product of two sequences.
PartialSum(f, g) ==
  LET sum[n \in 0..Len(f)] == IF n = 0 THEN 0 ELSE sum[n - 1] + f[n] * g[n]
  IN  sum[Len(f)]

Total(f) == PartialSum(f, [k \in DOMAIN f |-> 1])

StoredWeights == 1..1000  \* thousandths; the column's CHECK is 0 < weight <= 1
Scale == 10..70           \* tenths; the column's CHECK is 1.0 to 7.0

BookTypeOK ==
  /\ weights \in Seq(StoredWeights)
  /\ values \in [DOMAIN weights -> {0} \cup Scale]
  /\ result \in Nat

BookInit ==
  /\ weights = <<>>
  /\ values = <<>>
  /\ result = 0

Fractions == 1..10000     \* ten-thousandths of (0, 1], what a weight may be

\* Mutant: every weight is tested, their sum is not.
EachWeight(ws) == \A k \in DOMAIN ws : ws[k] \in Fractions

\* validateWeights: each in (0, 1], the sum exactly 1, before anything is rounded.
ValidWeights(ws) ==
  /\ \A k \in DOMAIN ws : ws[k] \in Fractions
  /\ Total(ws) = 10000

\* CreateEvaluationScheme; the column's CHECK refuses a weight that rounds to 0.
SubmitScheme(ws) ==
  /\ weights = <<>>
  /\ ValidWeights(ws)
  /\ weights' = [k \in DOMAIN ws |-> Stored(ws[k])]
  /\ \A k \in DOMAIN ws : weights'[k] > 0
  /\ values' = [k \in DOMAIN ws |-> 0]
  /\ UNCHANGED result

\* Mutant: the siblings are read before the grade is written.
RecordStale(k, h) ==
  /\ h \in 100..700
  /\ values' = [values EXCEPT ![k] = Stored(h)]
  /\ result' = IF \A j \in DOMAIN values : values'[j] # 0
               THEN WeightedFinal(values, weights, DOMAIN weights)
               ELSE result
  /\ UNCHANGED weights

\* Mutant: the grade's range is left to the stored column.
RecordUnchecked(k, h) ==
  /\ values' = [values EXCEPT ![k] = Stored(h)]
  /\ UNCHANGED <<weights, result>>

\* RecordGrade: parseGradeValue, the stored value, and the final grade when the
\* scheme is complete.
SubmitGrade(k, h) ==
  /\ h \in 100..700
  /\ values' = [values EXCEPT ![k] = Stored(h)]
  /\ result' = IF \A j \in DOMAIN values : values'[j] # 0
               THEN WeightedFinal(values', weights, DOMAIN weights)
               ELSE result
  /\ UNCHANGED weights

BookNext ==
  \/ \E n \in 1..MaxEvaluations : \E ws \in [1..n -> Weights] : SubmitScheme(ws)
  \/ \E k \in DOMAIN weights, h \in Inputs : SubmitGrade(k, h)

BookSpec == BookInit /\ [][BookNext]_bookVars
-------------------------------------------------------------------------------
\* The final grade is the exact weighted sum of the grades now on record, rounded
\* half up: the tenth t with t - 1/2 <= sum < t + 1/2, whatever was corrected.
FinalIsNearest ==
  result # 0 =>
    LET exact == PartialSum(values, weights) IN
    /\ 2 * exact >= 2000 * result - 1000
    /\ 2 * exact < 2000 * result + 1000

\* Whatever the rounding of the stored weights does, the final grade lies between the
\* worst and the best grade, so it is on the scale and a student with nothing but
\* passing grades passes.  True of up to fifteen evaluations: sixteen of weight 0.0625
\* are stored as 1.008, and sixteen times 7.0 is then a final grade of 7.1.
FinalBetween ==
  result # 0 =>
    /\ \E k \in DOMAIN values : values[k] <= result
    /\ \E k \in DOMAIN values : result <= values[k]

\* A correction never moves the final grade the other way, and one that lowers no
\* grade never turns passed into failed.
FinalMonotone ==
  [][result # 0 =>
       /\ (\A k \in DOMAIN values : values'[k] >= values[k]) => result' >= result
       /\ (\A k \in DOMAIN values : values'[k] <= values[k]) => result' <= result]_bookVars

\* "la suma del esquema es exactamente 1.0" (docs/arquitectura) holds of the
\* submitted weights; of the stored ones, each rounded on its own, it holds up to
\* half a thousandth a weight.
WeightsNearOne ==
  weights # <<>> =>
    /\ 2 * Total(weights) <= 2000 + Len(weights)
    /\ 2 * Total(weights) >= 2000 - Len(weights)
===============================================================================
