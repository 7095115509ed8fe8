------------------------- MODULE MCSectionEnrollment -------------------------
(***************************************************************************)
(* Small instances of SectionEnrollment for TLC.                           *)
(***************************************************************************)
EXTENDS SectionEnrollment, TLC

CONSTANTS r1, r2, e1, e2, s1

\* Every enrolment is of the section's year and of a program with its course.
AllPairs == Enrollments \X Sections

\* e2 is an enrolment of another year, or of a program without the course.
OnlyFirst == {<<e1, s1>>}

RequestSymmetry == Permutations(Requests)
Symmetry == Permutations(Requests) \cup Permutations(Enrollments)
===============================================================================
