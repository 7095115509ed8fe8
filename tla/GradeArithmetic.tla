--------------------------- MODULE GradeArithmetic ---------------------------
(***************************************************************************)
(* The arithmetic of internal/grades: grades and final grades are tenths   *)
(* (NUMERIC(3,1)), stored weights thousandths (NUMERIC(4,3)), so a         *)
(* weighted sum is exact in ten-thousandths, as it is in big.Rat.          *)
(***************************************************************************)
EXTENDS Naturals, Functions

PassMark == 40

\* Sum of value times weight over the evaluations S.
WeightedSum(value, weight, S) == SumFunction([v \in S |-> value[v] * weight[v]])

\* Mutant: the fraction is dropped.
RoundedDown(sum) == sum \div 1000

\* Half-up to one decimal: floor(sum * 10 + 1/2), a tenth being 1000 of the sum.
Rounded(sum) == (sum + 500) \div 1000

\* computeWeightedFinal.
WeightedFinal(value, weight, S) == Rounded(WeightedSum(value, weight, S))

\* A decimal number of which NUMERIC keeps one digit less: half away from zero.
Stored(x) == (x + 5) \div 10

OutcomeOf(final) == IF final >= PassMark THEN "passed" ELSE "failed"
==============================================================================
