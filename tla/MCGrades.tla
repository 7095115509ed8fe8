------------------------------- MODULE MCGrades -------------------------------
(***************************************************************************)
(* Small instances of Grades for TLC.                                      *)
(***************************************************************************)
EXTENDS Grades, TLC

CONSTANTS a1, a2, b1, c1

\* Two equal evaluations, and a scheme of a single one.
TwoThenOne == {{a1, a2}, {b1}}
OneEach    == {{a1}, {b1}, {c1}}
Either     == {{a1}, {b1}}
OnlyOne    == {{a1}}

\* An evaluation weighs the same as the others of its scheme.
Shares == [v \in Evaluations |->
             1000 \div Cardinality(CHOOSE S \in Schemes : v \in S)]

RequestSymmetry == Permutations(Requests)
===============================================================================
