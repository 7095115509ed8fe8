------------------------------ MODULE SeatLedger ------------------------------
(***************************************************************************)
(* What section enrolment promises, with the transactions, locks and       *)
(* request steps of the implementation left out: for every section, who    *)
(* holds a seat, who has finished the course, and how many seats there     *)
(* are.  A seat is taken in one atomic step, and only while one is free.   *)
(* SectionEnrollment implements this ledger; so does Enrollment, whose     *)
(* sections are the years of a program and whose holders never finish.     *)
(***************************************************************************)
EXTENDS Naturals, FiniteSets

CONSTANTS Enrollments,  \* annual enrolments (one per student, program, year)
          Sections,     \* sections of courses
          Capacities    \* the values a section's capacity may take

VARIABLES capacity,  \* section -> seats it offers
          holders,   \* section -> enrolments that occupy a seat
          finished   \* section -> holders whose outcome is passed or failed

ledgerVars == <<capacity, holders, finished>>

Init ==
  /\ capacity \in [Sections -> Capacities]
  /\ holders = [s \in Sections |-> {}]
  /\ finished = [s \in Sections |-> {}]

Take(e, s) ==
  /\ e \notin holders[s]
  /\ Cardinality(holders[s]) < capacity[s]
  /\ holders' = [holders EXCEPT ![s] = @ \cup {e}]
  /\ UNCHANGED <<capacity, finished>>

\* Only a course still in progress can be withdrawn from.
Release(e, s) ==
  /\ e \in holders[s] \ finished[s]
  /\ holders' = [holders EXCEPT ![s] = @ \ {e}]
  /\ UNCHANGED <<capacity, finished>>

Complete(e, s) ==
  /\ e \in holders[s]
  /\ finished' = [finished EXCEPT ![s] = @ \cup {e}]
  /\ UNCHANGED <<capacity, holders>>

\* A new capacity may be below the number of seats already taken.
Resize ==
  /\ capacity' \in [Sections -> Capacities]
  /\ UNCHANGED <<holders, finished>>

Next ==
  \/ \E e \in Enrollments, s \in Sections :
       Take(e, s) \/ Release(e, s) \/ Complete(e, s)
  \/ Resize

Spec == Init /\ [][Next]_ledgerVars
===============================================================================
