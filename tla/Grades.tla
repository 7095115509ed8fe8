-------------------------------- MODULE Grades --------------------------------
(***************************************************************************)
(* Grades of one course: internal/grades.  Administrators create and       *)
(* replace the course's evaluation scheme, teachers and administrators     *)
(* record and correct grades, and the grade that completes a scheme        *)
(* decides the inscription.  Transactions run at READ COMMITTED over all   *)
(* replicas, one statement at a time; what a transaction has written is    *)
(* kept in call[r] and appears in the tables at its commit.                *)
(*                                                                         *)
(* Row locks are read off pc and call: RecordGradeTx holds the inscription *)
(* FOR UPDATE and, once it has inserted a grade, the evaluation FOR KEY    *)
(* SHARE (the foreign key); RecreateEvaluationSchemeTx holds evaluations   *)
(* FOR UPDATE, and those it has only soft-deleted FOR NO KEY UPDATE, which *)
(* a key-share lock does not wait for.                                     *)
(***************************************************************************)
EXTENDS GradeArithmetic, Sequences, FiniteSets

CONSTANTS
  Requests,      \* database sessions that run a transaction
  Inscriptions,  \* section_enrollments rows of the course
  Evaluations,   \* ids the evaluations rows will get
  Schemes,       \* the sets of evaluations an administrator may submit together
  Weight,        \* evaluations.weight as stored, in thousandths
  Values,        \* grade values, in tenths
  MaxVersion,    \* bound: versions of one grade
  None

ASSUME GradesAssumption ==
  /\ IsFiniteSet(Evaluations)
  /\ Schemes \subseteq (SUBSET Evaluations) \ {{}}
  /\ \A S, T \in Schemes : S # T => S \cap T = {}
  /\ Weight \in [Evaluations -> 1..1000]
  /\ Values \subseteq 10..70
  /\ MaxVersion \in Nat \ {0}

RecordCall ==
  [ins : Inscriptions, ev : Evaluations, value : Values, override : BOOLEAN,
   expected : 0..MaxVersion - 1, scheme : SUBSET Evaluations, old : Values \cup {0},
   decides : BOOLEAN]

SchemeCall ==
  [new : Schemes, seen : SUBSET Evaluations, locked : SUBSET Evaluations,
   dropped : SUBSET Evaluations]

VARIABLES
  evaluation,  \* evaluations rows: "unborn", "live" or "deleted"
  status,      \* section_enrollments.status
  final,       \* section_enrollments.final_grade, None while NULL
  grade,       \* grade[i][v]: version and value, version 0 before the row exists
  audit,       \* audit[i][v]: the <<old, new>> entries of grade.update
  pc,          \* next statement of each session
  call         \* its arguments, what it read and what it has not committed

vars == <<evaluation, status, final, grade, audit, pc, call>>
tables == <<evaluation, status, final, grade, audit>>

Outcomes == {"passed", "failed"}
Recording == {"list", "insert", "existing", "update", "siblings", "commit"}
Placing   == {"rlock", "rcount", "rsnap", "rdelete", "place"}

Live == {v \in Evaluations : evaluation[v] = "live"}
Graded(i) == {v \in Evaluations : grade[i][v].version > 0}
ValueOf(i) == [v \in Evaluations |-> grade[i][v].value]

TypeOK ==
  /\ evaluation \in [Evaluations -> {"unborn", "live", "deleted"}]
  /\ status \in [Inscriptions -> Outcomes \cup {"in_progress", "withdrawn"}]
  /\ grade \in [Inscriptions -> [Evaluations ->
                  [version : 0..MaxVersion, value : Values \cup {0}]]]
  /\ audit \in [Inscriptions -> [Evaluations -> Seq(Values \X Values)]]
  /\ pc \in [Requests -> {"idle", "lock", "ccheck"} \cup Recording \cup Placing]
  /\ call \in [Requests -> RecordCall \cup SchemeCall \cup {None}]
  /\ \A r \in Requests :
       /\ pc[r] \in {"lock"} \cup Recording => call[r] \in RecordCall
       /\ pc[r] \in {"ccheck"} \cup Placing => call[r] \in SchemeCall

\* Mutant: the inscription is read without FOR UPDATE.
NoInscriptionLock(i) == TRUE

\* Nobody holds the inscription's row.
InscriptionFree(i) ==
  \A q \in Requests : pc[q] \in Recording => call[q].ins # i

\* The evaluation is locked FOR KEY SHARE by the grade q has inserted.
SharesKey(q, v) ==
  pc[q] \in {"siblings", "commit"} /\ call[q].ev = v /\ call[q].old = 0

\* Nobody but r holds FOR UPDATE on evaluation v.
KeyShareable(r, v) ==
  \A q \in Requests \ {r} : pc[q] \in Placing => v \notin call[q].locked

\* Nobody but r has evaluation v locked for an update of any kind.
Updatable(r, v) ==
  \A q \in Requests \ {r} :
    pc[q] \in Placing => v \notin call[q].locked \cup call[q].dropped

Init ==
  /\ evaluation = [v \in Evaluations |-> "unborn"]
  /\ status = [i \in Inscriptions |-> "in_progress"]
  /\ final = [i \in Inscriptions |-> None]
  /\ grade = [i \in Inscriptions |->
               [v \in Evaluations |-> [version |-> 0, value |-> 0]]]
  /\ audit = [i \in Inscriptions |-> [v \in Evaluations |-> <<>>]]
  /\ pc = [r \in Requests |-> "idle"]
  /\ call = [r \in Requests |-> None]

GoTo(r, step) == pc' = [pc EXCEPT ![r] = step]

\* Mutant: a refused call drops its locals but keeps its place.
FinishGoesOn(r) ==
  /\ call' = [call EXCEPT ![r] = None]
  /\ UNCHANGED pc

\* Commit or rollback: the locals go, the locks with them.
Finish(r) ==
  /\ GoTo(r, "idle")
  /\ call' = [call EXCEPT ![r] = None]
-------------------------------------------------------------------------------
(* RecordGradeTx: RecordGrade for teachers, OverrideGrade for administrators. *)

RecordGrade(r, i, v, x, n, override) ==
  /\ pc[r] = "idle"
  /\ GoTo(r, "lock")
  /\ call' = [call EXCEPT ![r] =
       [ins |-> i, ev |-> v, value |-> x, override |-> override, expected |-> n,
        scheme |-> {}, old |-> 0, decides |-> FALSE]]
  /\ UNCHANGED tables

\* GetSectionEnrollmentForGrade FOR UPDATE; a withdrawn inscription is refused,
\* and so is an actor who grades himself or does not teach the section.
LockInscription(r) ==
  /\ pc[r] = "lock"
  /\ InscriptionFree(call[r].ins)
  /\ \/ status[call[r].ins] # "withdrawn" /\ GoTo(r, "list") /\ UNCHANGED call
     \/ (status[call[r].ins] = "withdrawn" \/ ~call[r].override) /\ Finish(r)
  /\ UNCHANGED tables

\* ListEvaluationsForCourse: the scheme as it is now; nothing locks it.
ListEvaluations(r) ==
  /\ pc[r] = "list"
  /\ \/ /\ call[r].ev \in Live
        /\ call' = [call EXCEPT ![r].scheme = Live]
        /\ GoTo(r, "insert")
     \/ call[r].ev \notin Live /\ Finish(r)
  /\ UNCHANGED tables

\* InsertGrade ... ON CONFLICT DO NOTHING.  A row that is inserted makes the
\* foreign key lock its evaluation, which succeeds for a soft-deleted one.
InsertGrade(r) ==
  LET i == call[r].ins  v == call[r].ev IN
  /\ pc[r] = "insert"
  /\ \/ v \notin Graded(i) /\ KeyShareable(r, v) /\ GoTo(r, "siblings")
     \/ v \in Graded(i) /\ GoTo(r, "existing")
  /\ UNCHANGED <<tables, call>>

\* GetGradeByKey: a correction must name the version it corrects.
ReadGrade(r) ==
  LET i == call[r].ins  v == call[r].ev IN
  /\ pc[r] = "existing"
  /\ \/ /\ call[r].expected # 0
        /\ call' = [call EXCEPT ![r].old = grade[i][v].value]
        /\ GoTo(r, "update")
     \/ call[r].expected = 0 /\ Finish(r)
  /\ UNCHANGED tables

\* Mutant: the UPDATE names the row alone.
UpdateAnyVersion(r) ==
  /\ pc[r] = "update"
  /\ grade[call[r].ins][call[r].ev].version < MaxVersion
  /\ GoTo(r, "siblings")
  /\ UNCHANGED <<tables, call>>

\* UpdateGradeByVersion, and its audit_logs row.
UpdateGrade(r) ==
  LET n == grade[call[r].ins][call[r].ev].version IN
  /\ pc[r] = "update"
  /\ \/ /\ call[r].expected = n
        /\ GoTo(r, "siblings") /\ UNCHANGED call
     \/ call[r].expected # n /\ Finish(r)
  /\ UNCHANGED tables

\* Mutant: the outcome is decided only once.
DecideOnce(r) ==
  LET graded == Graded(call[r].ins) \cup {call[r].ev} IN
  /\ pc[r] = "siblings"
  /\ GoTo(r, "commit")
  /\ call' = [call EXCEPT ![r].decides =
                graded = call[r].scheme /\ status[call[r].ins] = "in_progress"]
  /\ UNCHANGED tables

\* ListGradesBySectionEnrollment: as many grades as evaluations decide the
\* inscription; a grade of an evaluation that is not in the scheme fails it.
ReadSiblings(r) ==
  LET graded == Graded(call[r].ins) \cup {call[r].ev} IN
  /\ pc[r] = "siblings"
  /\ \/ /\ Cardinality(graded) # Cardinality(call[r].scheme)
        /\ GoTo(r, "commit") /\ UNCHANGED call
     \/ /\ graded = call[r].scheme
        /\ call' = [call EXCEPT ![r].decides = TRUE]
        /\ GoTo(r, "commit")
     \/ /\ Cardinality(graded) = Cardinality(call[r].scheme)
        /\ graded # call[r].scheme
        /\ Finish(r)
  /\ UNCHANGED tables

\* Commit: the grade, its audit entry, and the outcome with its final grade.
CommitGrade(r) ==
  LET i == call[r].ins  v == call[r].ev  x == call[r].value
      values == [ValueOf(i) EXCEPT ![v] = x]
      result == WeightedFinal(values, Weight, call[r].scheme)
  IN
  /\ pc[r] = "commit"
  /\ grade' = [grade EXCEPT ![i][v] = [version |-> @.version + 1, value |-> x]]
  /\ audit' = IF call[r].old = 0 THEN audit
              ELSE [audit EXCEPT ![i][v] = Append(@, <<call[r].old, x>>)]
  /\ IF call[r].decides
     THEN /\ final' = [final EXCEPT ![i] = result]
          /\ status' = [status EXCEPT ![i] = OutcomeOf(result)]
     ELSE UNCHANGED <<final, status>>
  /\ Finish(r)
  /\ UNCHANGED evaluation

\* Mutant: no lock_timeout.
NoLockTimeout(r) == FALSE

\* SET LOCAL lock_timeout bounds the waits for the inscription and the evaluation.
LockTimeout(r) ==
  /\ \/ pc[r] = "lock" /\ ~InscriptionFree(call[r].ins)
     \/ /\ pc[r] = "insert" /\ call[r].ev \notin Graded(call[r].ins)
        /\ ~KeyShareable(r, call[r].ev)
  /\ Finish(r)
  /\ UNCHANGED tables
-------------------------------------------------------------------------------
(* CreateEvaluationSchemeTx and RecreateEvaluationSchemeTx. *)

\* A scheme gets fresh ids; the bound is one use of each element of Schemes.
Fresh(S) ==
  /\ \A v \in S : evaluation[v] = "unborn"
  /\ \A q \in Requests : pc[q] \in {"ccheck"} \cup Placing => call[q].new # S

StartScheme(r, S, seen, step) ==
  /\ pc[r] = "idle" /\ Fresh(S)
  /\ GoTo(r, step)
  /\ call' = [call EXCEPT ![r] =
                [new |-> S, seen |-> seen, locked |-> {}, dropped |-> {}]]
  /\ UNCHANGED tables

CreateScheme(r, S) == StartScheme(r, S, {}, "ccheck")

\* CountLiveEvaluationsForCourse.
CheckNoScheme(r) ==
  /\ pc[r] = "ccheck"
  /\ \/ Live = {} /\ GoTo(r, "place") /\ UNCHANGED call
     \/ Live # {} /\ Finish(r)
  /\ UNCHANGED tables

\* LockEvaluationsForCourse starts: it will lock rows its snapshot sees.
RecreateScheme(r, S) == StartScheme(r, S, Live, "rlock")

\* The rows are free and are locked; one deleted meanwhile is skipped, one
\* inserted meanwhile is not seen.
LockEvaluations(r) ==
  /\ pc[r] = "rlock"
  /\ \A v \in call[r].seen :
       Updatable(r, v) /\ \A q \in Requests : ~SharesKey(q, v)
  /\ call' = [call EXCEPT ![r].locked = call[r].seen \cap Live]
  /\ GoTo(r, "rcount")
  /\ UNCHANGED tables

\* CountGradesForEvaluations: a scheme in use stays.
CountGrades(r) ==
  /\ pc[r] = "rcount"
  /\ \/ /\ \A i \in Inscriptions : Graded(i) \cap Live = {}
        /\ GoTo(r, "rsnap") /\ UNCHANGED call
     \/ /\ \E i \in Inscriptions : Graded(i) \cap Live # {}
        /\ Finish(r)
  /\ UNCHANGED tables

\* SoftDeleteEvaluationsForCourse, a statement with a snapshot of its own.
SeeEvaluations(r) ==
  /\ pc[r] = "rsnap"
  /\ call' = [call EXCEPT ![r].seen = Live]
  /\ GoTo(r, "rdelete")
  /\ UNCHANGED tables

SoftDelete(r) ==
  /\ pc[r] = "rdelete"
  /\ \A v \in call[r].seen : Updatable(r, v)
  /\ call' = [call EXCEPT ![r].dropped = call[r].seen \cap Live]
  /\ GoTo(r, "place")
  /\ UNCHANGED tables

\* Mutant: no unique index on (course_id, position).
PlaceAnyway(r) ==
  /\ pc[r] = "place"
  /\ evaluation' = [v \in Evaluations |->
                      IF v \in call[r].new THEN "live"
                      ELSE IF v \in call[r].dropped THEN "deleted" ELSE evaluation[v]]
  /\ Finish(r)
  /\ UNCHANGED <<status, final, grade, audit>>

\* InsertEvaluation for every weight, and Commit.  Positions start at 1, so a live
\* evaluation of another scheme violates the unique index; one that another
\* session is deleting makes the insert wait for that session.
PlaceScheme(r) ==
  LET clash == Live \ call[r].dropped IN
  /\ pc[r] = "place"
  /\ \/ /\ clash = {}
        /\ evaluation' = [v \in Evaluations |->
                            IF v \in call[r].new THEN "live"
                            ELSE IF v \in call[r].dropped THEN "deleted"
                            ELSE evaluation[v]]
        /\ Finish(r)
     \/ /\ clash # {}
        /\ \A q \in Requests \ {r} :
             pc[q] \in Placing => call[q].dropped \cap clash = {}
        /\ Finish(r)
        /\ UNCHANGED evaluation
  /\ UNCHANGED <<status, final, grade, audit>>
-------------------------------------------------------------------------------
\* The client goes away, the connection is lost or the replica is stopped.
Abort(r) ==
  /\ pc[r] # "idle"
  /\ Finish(r)
  /\ UNCHANGED tables

\* sectionenrollment.WithdrawSection: an UPDATE that waits for the row.
WithdrawSection(i) ==
  /\ status[i] = "in_progress" /\ InscriptionFree(i)
  /\ status' = [status EXCEPT ![i] = "withdrawn"]
  /\ UNCHANGED <<evaluation, final, grade, audit, pc, call>>

\* sectionenrollment.EnrollSectionTx by an administrator; the grades are kept.
ReviveInscription(i) ==
  /\ status[i] = "withdrawn" /\ InscriptionFree(i)
  /\ status' = [status EXCEPT ![i] = "in_progress"]
  /\ UNCHANGED <<evaluation, final, grade, audit, pc, call>>

Record(r) ==
  \/ LockInscription(r) \/ ListEvaluations(r) \/ InsertGrade(r) \/ ReadGrade(r)
  \/ UpdateGrade(r) \/ ReadSiblings(r) \/ CommitGrade(r) \/ LockTimeout(r)

Replace(r) ==
  \/ CheckNoScheme(r) \/ LockEvaluations(r) \/ CountGrades(r)
  \/ SeeEvaluations(r) \/ SoftDelete(r) \/ PlaceScheme(r)

Next ==
  \/ \E r \in Requests :
       \/ Record(r) \/ Replace(r) \/ Abort(r)
       \/ \E S \in Schemes : CreateScheme(r, S) \/ RecreateScheme(r, S)
       \/ \E i \in Inscriptions, v \in Evaluations, x \in Values,
             n \in 0..MaxVersion - 1, override \in BOOLEAN :
            RecordGrade(r, i, v, x, n, override)
  \/ \E i \in Inscriptions : WithdrawSection(i) \/ ReviveInscription(i)

Spec == Init /\ [][Next]_vars

\* A statement returns; a wait of RecordGradeTx ends in the lock or the timeout.
FairSpec == Spec /\ \A r \in Requests : WF_vars(Record(r))
-------------------------------------------------------------------------------
\* However creations and replacements interleave, the live evaluations of the
\* course are one whole scheme or none, so the weights in force are those one
\* administrator submitted together.
OneScheme == Live \in Schemes \cup {{}}

\* A decided inscription carries the weighted final, under one whole scheme, of
\* the grades now on record: no correction, however it races with others, with a
\* withdrawal or with a replacement of the scheme, leaves a stale final grade.
FinalIsCurrent ==
  \A i \in Inscriptions : status[i] \in Outcomes =>
    \E S \in Schemes :
      /\ S \subseteq Graded(i)
      /\ final[i] = WeightedFinal(ValueOf(i), Weight, S)
      /\ status[i] = OutcomeOf(final[i])

\* An inscription whose grades are exactly the live scheme's is decided, whichever
\* of two teachers recorded the last one: no outcome is lost between them.
CompleteIsDecided ==
  \A i \in Inscriptions : Graded(i) = Live /\ Live # {} => status[i] \in Outcomes

\* The audit log tells the whole story of a grade: one entry per correction, each
\* starting from the value the one before left, the last one at today's value.
AuditChain ==
  \A i \in Inscriptions : \A v \in Graded(i) :
    LET log == audit[i][v] IN
    /\ Len(log) = grade[i][v].version - 1
    /\ \A k \in 1..Len(log) - 1 : log[k][2] = log[k + 1][1]
    /\ Len(log) > 0 => log[Len(log)][2] = grade[i][v].value

\* Optimistic locking: a recorded value is replaced only by a session that named
\* the version it replaces, so no correction overwrites one its author had not seen.
NoBlindOverwrite ==
  [][\A i \in Inscriptions : \A v \in Graded(i) :
       grade'[i][v] # grade[i][v] =>
         /\ grade'[i][v].version = grade[i][v].version + 1
         /\ \E r \in Requests :
              /\ pc[r] = "commit" /\ call[r].ins = i /\ call[r].ev = v
              /\ call[r].expected = grade[i][v].version]_vars

\* Every grade request comes to an end, whoever holds the inscription or the
\* scheme it waits for.
RecordsFinish ==
  \A r \in Requests : pc[r] \in {"lock"} \cup Recording ~> pc[r] = "idle"

\* The ledger this component implements, over the same tables.
Ledger == INSTANCE GradeLedger

\* Every behaviour of the transactions above is a behaviour of the ledger: a grade,
\* its audit entry and the outcome it decides are one step at the commit, computed
\* from the grades on record at that moment, and never for a withdrawn inscription;
\* a scheme replaces the one before it whole.
ImplementsLedger == Ledger!Spec
-------------------------------------------------------------------------------
(* What the documents say, refuted by the runs named in the README. *)

\* docs/arquitectura: the scheme may be replaced "solo mientras ninguna evaluacion
\* tenga notas registradas"; repository.go: the lock is "closing the TOCTOU
\* window".  A session that has listed the scheme and not yet inserted its grade
\* holds no lock on it, and its insert succeeds after the replacement.
GradedSchemeStays ==
  \A i \in Inscriptions : Graded(i) \subseteq Live
===============================================================================
