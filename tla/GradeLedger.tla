----------------------------- MODULE GradeLedger -----------------------------
(***************************************************************************)
(* What the grades of a course promise, with transactions, locks, versions *)
(* and the steps of the implementation left out: a scheme replaces the one *)
(* before it whole, and a grade is recorded or corrected together with its *)
(* audit entry and with the outcome it decides, in one atomic step that    *)
(* sees every grade recorded before it.  Grades implements this ledger.    *)
(***************************************************************************)
EXTENDS GradeArithmetic, Sequences

CONSTANTS
  Inscriptions,  \* section_enrollments rows of the course
  Evaluations,   \* evaluations of all the schemes the course will have
  Schemes,       \* the sets of evaluations submitted together
  Weight,        \* evaluation -> its weight, in thousandths
  Values,        \* grade values, in tenths
  None           \* no final grade

VARIABLES
  evaluation,  \* evaluation -> "unborn", "live" or "deleted"
  status,      \* inscription -> "in_progress", "withdrawn", "passed" or "failed"
  final,       \* inscription -> its final grade
  grade,       \* inscription, evaluation -> version and value
  audit        \* inscription, evaluation -> the corrections, <<old, new>>

ledgerVars == <<evaluation, status, final, grade, audit>>

Init ==
  /\ evaluation = [v \in Evaluations |-> "unborn"]
  /\ status = [i \in Inscriptions |-> "in_progress"]
  /\ final = [i \in Inscriptions |-> None]
  /\ grade = [i \in Inscriptions |->
               [v \in Evaluations |-> [version |-> 0, value |-> 0]]]
  /\ audit = [i \in Inscriptions |-> [v \in Evaluations |-> <<>>]]

Graded(i) == {v \in Evaluations : grade[i][v].version > 0}

\* A new scheme, all of it, instead of the one there was.
Submit(S) ==
  /\ \A v \in S : evaluation[v] = "unborn"
  /\ evaluation' = [v \in Evaluations |->
                      IF v \in S THEN "live"
                      ELSE IF evaluation[v] = "live" THEN "deleted" ELSE evaluation[v]]
  /\ UNCHANGED <<status, final, grade, audit>>

\* The grades of i, with x for v, decide it when they are those of the scheme.
Decide(i, v, S, x) ==
  LET values == [u \in Evaluations |-> IF u = v THEN x ELSE grade[i][u].value]
      result == WeightedFinal(values, Weight, S)
  IN
  IF Graded(i) \cup {v} = S
  THEN /\ final' = [final EXCEPT ![i] = result]
       /\ status' = [status EXCEPT ![i] = OutcomeOf(result)]
  ELSE UNCHANGED <<final, status>>

\* A grade of an evaluation of the scheme S that has been submitted.
Write(i, v, S, x) ==
  /\ status[i] # "withdrawn"
  /\ v \in S
  /\ \A u \in S : evaluation[u] # "unborn"
  /\ grade' = [grade EXCEPT ![i][v] = [version |-> @.version + 1, value |-> x]]
  /\ Decide(i, v, S, x)
  /\ UNCHANGED evaluation

Record(i, v, S, x) ==
  /\ v \notin Graded(i)
  /\ Write(i, v, S, x)
  /\ UNCHANGED audit

Correct(i, v, S, x) ==
  /\ v \in Graded(i)
  /\ Write(i, v, S, x)
  /\ audit' = [audit EXCEPT ![i][v] = Append(@, <<grade[i][v].value, x>>)]

\* Only a course in progress is withdrawn from; an administrator may undo it.
Withdraw(i) ==
  /\ status[i] = "in_progress"
  /\ status' = [status EXCEPT ![i] = "withdrawn"]
  /\ UNCHANGED <<evaluation, final, grade, audit>>

Revive(i) ==
  /\ status[i] = "withdrawn"
  /\ status' = [status EXCEPT ![i] = "in_progress"]
  /\ UNCHANGED <<evaluation, final, grade, audit>>

Next ==
  \/ \E S \in Schemes : Submit(S)
  \/ \E i \in Inscriptions, S \in Schemes, x \in Values : \E v \in S :
       Record(i, v, S, x) \/ Correct(i, v, S, x)
  \/ \E i \in Inscriptions : Withdraw(i) \/ Revive(i)

Spec == Init /\ [][Next]_ledgerVars
===============================================================================
