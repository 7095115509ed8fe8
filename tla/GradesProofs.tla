---------------------------- MODULE GradesProofs ----------------------------
(***************************************************************************)
(* Proofs about Grades, for any number of sessions, inscriptions,          *)
(* evaluations, schemes, values and versions, and that it implements       *)
(* GradeLedger; then about the sums the final grade is computed with, and  *)
(* about GradeBook for schemes of any length, any weights and any grades.  *)
(***************************************************************************)
EXTENDS Grades, GradeBook, FiniteSetTheorems, SequenceTheorems, WellFoundedInduction, TLAPS

\* The steps at which a session has read the scheme it works with.
Past == Recording \ {"list"}
Recorders == {"lock"} \cup Recording
Placers == {"ccheck"} \cup Placing
Steps == {"idle"} \cup Recorders \cup Placers
AnyCall == RecordCall \cup SchemeCall \cup {None}

\* The evaluations that have been inserted, deleted or not.
Born == {v \in Evaluations : evaluation[v] # "unborn"}

\* What a session at a step knows of the tables through its locals.
RecordLocal(step, c) ==
  /\ c \in RecordCall
  /\ step \in {"lock", "list", "insert", "existing"} => c.old = 0
  /\ step # "commit" => c.decides = FALSE
  /\ step \in Past => c.scheme \in Schemes /\ c.ev \in c.scheme /\ c.scheme \subseteq Born
  /\ step \in {"existing", "update"} => grade[c.ins][c.ev].version # 0
  /\ step = "update" => c.old = grade[c.ins][c.ev].value
  /\ step \in {"siblings", "commit"} =>
       \/ c.old = 0 /\ grade[c.ins][c.ev].version = 0
       \/ /\ c.old = grade[c.ins][c.ev].value
          /\ grade[c.ins][c.ev].version # 0
          /\ c.expected = grade[c.ins][c.ev].version
  /\ step = "commit" => c.decides = (Graded(c.ins) \cup {c.ev} = c.scheme)

SchemeLocal(c) ==
  /\ c \in SchemeCall
  /\ c.new \cap Born = {}
  /\ c.dropped \subseteq Born

Local(step, c) ==
  /\ step \in Recorders => RecordLocal(step, c)
  /\ step \in Placers => SchemeLocal(c)

\* Two sessions never hold one inscription nor place one scheme.
Apart(step, c, other, d) ==
  /\ step \in Recording /\ other \in Recording => c.ins # d.ins
  /\ step \in Placers /\ other \in Placers => c.new # d.new

\* Inscription i is decided under scheme S, which as long as it is the live one is
\* all that i is graded on.
DecidedUnder(i, S) ==
  /\ S \subseteq Graded(i)
  /\ final[i] = WeightedFinal(ValueOf(i), Weight, S)
  /\ status[i] = OutcomeOf(final[i])
  /\ Live = S => Graded(i) = S

\* A session that holds i will decide it again if it changes a grade of S.
Fits(i, S, step, c) ==
  step \in Past /\ c.ins = i =>
    /\ c.scheme = S => Graded(i) = S
    /\ Live = S => c.scheme = S

FinalFits ==
  \A i \in Inscriptions : status[i] \in Outcomes =>
    \E S \in Schemes :
      DecidedUnder(i, S) /\ \A r \in Requests : Fits(i, S, pc[r], call[r])

\* A grade on record has a value on the scale and an evaluation that was inserted.
GradesKept ==
  \A i \in Inscriptions, v \in Evaluations :
    IF grade[i][v].version = 0 THEN grade[i][v].value = 0 /\ audit[i][v] = <<>>
    ELSE grade[i][v].value \in Values /\ v \in Born

FinalIsFunction == final = [i \in Inscriptions |-> final[i]]

IInv ==
  /\ TypeOK
  /\ FinalIsFunction
  /\ \A r \in Requests : Local(pc[r], call[r])
  /\ \A r, q \in Requests : r # q => Apart(pc[r], call[r], pc[q], call[q])
  /\ GradesKept
  /\ OneScheme
  /\ AuditChain
  /\ CompleteIsDecided
  /\ FinalFits

\* The weighted final depends on the grades of the scheme's evaluations alone.
LEMMA FinalDependsOnScheme ==
  ASSUME NEW f, NEW g, NEW w, NEW S, \A v \in S : f[v] = g[v]
  PROVE  WeightedFinal(f, w, S) = WeightedFinal(g, w, S)
<1>1. [v \in S |-> f[v] * w[v]] = [v \in S |-> g[v] * w[v]]
  OBVIOUS
<1> QED
  BY <1>1 DEF WeightedFinal, WeightedSum

\* Rounding is to the nearest tenth, half up, for every weighted sum.
LEMMA RoundedIsNearest ==
  ASSUME NEW sum \in Nat
  PROVE  /\ Rounded(sum) \in Nat
         /\ 2 * sum >= 2000 * Rounded(sum) - 1000
         /\ 2 * sum < 2000 * Rounded(sum) + 1000
BY DEF Rounded
-----------------------------------------------------------------------------
\* Session r goes on with the locals c.
NewLocals(r, c) == call' = [call EXCEPT ![r] = c]

\* Grade values are natural numbers and none is the 0 of a grade that is not there.
LEMMA ValuesOnScale == Values \subseteq Nat /\ 0 \notin Values
BY GradesAssumption

\* The invariant holds initially.
LEMMA InitInvariant == Init => IInv
<1> SUFFICES ASSUME Init PROVE IInv
  OBVIOUS
<1>1. TypeOK
  <2>1. \A i \in Inscriptions, v \in Evaluations : audit[i][v] = <<>>
    BY DEF Init
  <2> QED
    BY <2>1, GradesAssumption DEF Init, TypeOK, AnyCall, Recording, Placing
<1>2. Live = {} /\ \A i \in Inscriptions : Graded(i) = {}
  BY DEF Init, Live, Graded
<1>3. \A r \in Requests : Local(pc[r], call[r])
  BY DEF Init, Local, Recorders, Placers, Recording, Placing
<1>4. \A r, q \in Requests : r # q => Apart(pc[r], call[r], pc[q], call[q])
  BY DEF Init, Apart, Placers, Recording, Placing
<1>5. FinalIsFunction /\ GradesKept /\ FinalFits
  BY DEF Init, FinalIsFunction, GradesKept, FinalFits, Outcomes
<1> QED
  BY <1>1, <1>2, <1>3, <1>4, <1>5 DEF IInv, OneScheme, AuditChain, CompleteIsDecided

\* A session goes to another step with other locals, and the tables stay.
LEMMA SessionMoves ==
  ASSUME IInv, NEW r \in Requests, NEW step \in Steps, NEW c \in AnyCall,
         GoTo(r, step), NewLocals(r, c), UNCHANGED tables,
         Local(step, c),
         \A q \in Requests \ {r} : Apart(step, c, pc[q], call[q]),
         \A i \in Inscriptions, S \in Schemes :
           DecidedUnder(i, S) /\ Fits(i, S, pc[r], call[r]) => Fits(i, S, step, c)
  PROVE  IInv'
<1>1. /\ pc' \in [Requests -> Steps] /\ pc'[r] = step
      /\ call' \in [Requests -> AnyCall] /\ call'[r] = c
      /\ \A q \in Requests \ {r} : pc'[q] = pc[q] /\ call'[q] = call[q]
  BY DEF IInv, TypeOK, GoTo, NewLocals, Steps, Recorders, Placers, AnyCall
<1>2. /\ Live' = Live
      /\ Born' = Born
      /\ \A i \in Inscriptions : Graded(i)' = Graded(i) /\ ValueOf(i)' = ValueOf(i)
  BY DEF tables, Live, Born, Graded, ValueOf
<1>3. \A q \in Requests : Local(pc[q], call[q])'
  <2> SUFFICES ASSUME NEW q \in Requests PROVE Local(pc[q], call[q])'
    OBVIOUS
  <2>1. CASE q = r
    BY <1>1, <2>1 DEF Local, RecordLocal, SchemeLocal, tables, Graded, Born
  <2>2. CASE q # r
    BY <1>1, <2>2 DEF IInv, Local, RecordLocal, SchemeLocal, tables, Graded, Born
  <2> QED
    BY <2>1, <2>2
<1>4. \A p, q \in Requests : p # q => Apart(pc[p], call[p], pc[q], call[q])'
  BY <1>1 DEF IInv, Apart
<1>5. TypeOK'
  <2>1. \A q \in Requests :
          /\ pc'[q] \in Recorders => call'[q] \in RecordCall
          /\ pc'[q] \in Placers => call'[q] \in SchemeCall
    BY <1>3 DEF Local, RecordLocal, SchemeLocal
  <2> QED
    BY <1>1, <2>1 DEF IInv, TypeOK, tables, Steps, Recorders, Placers, AnyCall
<1>6. FinalFits'
  <2> SUFFICES ASSUME NEW i \in Inscriptions, (status[i] \in Outcomes)'
               PROVE  \E S \in Schemes :
                        /\ DecidedUnder(i, S)'
                        /\ \A q \in Requests : Fits(i, S, pc[q], call[q])'
    BY DEF FinalFits
  <2>1. PICK S \in Schemes :
          DecidedUnder(i, S) /\ \A q \in Requests : Fits(i, S, pc[q], call[q])
    BY DEF IInv, FinalFits, tables
  <2>2. DecidedUnder(i, S)'
    BY <1>2, <2>1 DEF DecidedUnder, tables
  <2>3. \A q \in Requests : Fits(i, S, pc[q], call[q])'
    BY <1>1, <1>2, <2>1 DEF Fits
  <2> QED
    BY <2>2, <2>3
<1>7. FinalIsFunction' /\ GradesKept' /\ OneScheme' /\ AuditChain' /\ CompleteIsDecided'
  BY <1>2 DEF IInv, FinalIsFunction, GradesKept, OneScheme, AuditChain, CompleteIsDecided, tables
<1> QED
  BY <1>1, <1>3, <1>4, <1>5, <1>6, <1>7 DEF IInv

\* Commit without effect, and rollback.
LEMMA SessionEnds ==
  ASSUME IInv, NEW r \in Requests, Finish(r), UNCHANGED tables
  PROVE  IInv'
<1>1. Local("idle", None)
  BY DEF Local, Recorders, Placers, Recording, Placing
<1>2. \A q \in Requests : Apart("idle", None, pc[q], call[q])
  BY DEF Apart, Placers, Recording, Placing
<1>3. \A i, S : Fits(i, S, "idle", None)
  BY DEF Fits, Past, Recording
<1> QED
  BY <1>1, <1>2, <1>3, SessionMoves DEF Finish, NewLocals, Steps, AnyCall

\* A grade request that goes on with its inscription and its scheme.
LEMMA RecordGoesOn ==
  ASSUME IInv, NEW r \in Requests, pc[r] \in Past, NEW step \in Recording,
         NEW c \in RecordCall, GoTo(r, step), NewLocals(r, c), UNCHANGED tables,
         RecordLocal(step, c), c.ins = call[r].ins,
         c.scheme = call[r].scheme
  PROVE  IInv'
<1>1. step \in Steps /\ c \in AnyCall /\ Local(step, c)
  BY DEF RecordLocal, AnyCall, Steps, Recorders, Placers, Recording, Placing, Local
<1>2. \A q \in Requests \ {r} : Apart(step, c, pc[q], call[q])
  <2>1. \A q \in Requests \ {r} : Apart(pc[r], call[r], pc[q], call[q])
    BY DEF IInv
  <2> QED
    BY <2>1 DEF Apart, Past, Placers, Recording, Placing
<1>3. \A i \in Inscriptions, S \in Schemes :
        DecidedUnder(i, S) /\ Fits(i, S, pc[r], call[r]) => Fits(i, S, step, c)
  BY DEF DecidedUnder, Fits
<1> QED
  BY <1>1, <1>2, <1>3, SessionMoves

\* The same when its locals stay.
LEMMA RecordSteps ==
  ASSUME IInv, NEW r \in Requests, pc[r] \in Past, NEW step \in Recording,
         GoTo(r, step), UNCHANGED call, UNCHANGED tables, RecordLocal(step, call[r])
  PROVE  IInv'
<1>1. NewLocals(r, call[r]) /\ call[r] \in RecordCall
  BY DEF IInv, TypeOK, NewLocals, RecordLocal
<1> QED
  BY <1>1, RecordGoesOn

\* A scheme session that goes on with its scheme.
LEMMA SchemeGoesOn ==
  ASSUME IInv, NEW r \in Requests, pc[r] \in Placers, NEW step \in Placers,
         NEW c \in SchemeCall, GoTo(r, step), NewLocals(r, c), UNCHANGED tables,
         SchemeLocal(c), c.new = call[r].new
  PROVE  IInv'
<1>1. step \in Steps /\ c \in AnyCall /\ Local(step, c)
  BY DEF SchemeLocal, AnyCall, Steps, Recorders, Placers, Recording, Placing, Local
<1>2. \A q \in Requests \ {r} : Apart(step, c, pc[q], call[q])
  <2>1. \A q \in Requests \ {r} : Apart(pc[r], call[r], pc[q], call[q])
    BY DEF IInv
  <2> QED
    BY <2>1 DEF Apart, Placers, Recording, Placing
<1>3. \A i \in Inscriptions, S \in Schemes : Fits(i, S, step, c)
  BY DEF Fits, Past, Placers, Recording, Placing
<1> QED
  BY <1>1, <1>2, <1>3, SessionMoves
-----------------------------------------------------------------------------
(* RecordGradeTx. *)

\* A grade request starts.
LEMMA RecordGradeKeeps ==
  ASSUME IInv, NEW r \in Requests, NEW i \in Inscriptions, NEW v \in Evaluations,
         NEW x \in Values, NEW n \in 0..MaxVersion - 1, NEW override \in BOOLEAN,
         RecordGrade(r, i, v, x, n, override)
  PROVE  IInv'
<1> DEFINE c == [ins |-> i, ev |-> v, value |-> x, override |-> override,
                 expected |-> n, scheme |-> {}, old |-> 0, decides |-> FALSE]
<1>1. c \in RecordCall /\ c.old = 0 /\ c.decides = FALSE
  BY DEF RecordCall
<1>2. NewLocals(r, c) /\ GoTo(r, "lock") /\ UNCHANGED tables
  BY DEF RecordGrade, NewLocals
<1> HIDE DEF c
<1>3. Local("lock", c)
  BY <1>1 DEF Local, RecordLocal, Placers, Placing, Past, Recording
<1>4. \A q \in Requests : Apart("lock", c, pc[q], call[q])
  BY DEF Apart, Recording, Placers, Placing
<1>5. \A j \in Inscriptions, S \in Schemes : Fits(j, S, "lock", c)
  BY DEF Fits, Past, Recording
<1> QED
  BY <1>1, <1>2, <1>3, <1>4, <1>5, SessionMoves DEF Steps, Recorders, AnyCall

\* The lock makes the session the only one of its inscription.
LEMMA LockInscriptionKeeps ==
  ASSUME IInv, NEW r \in Requests, LockInscription(r)
  PROVE  IInv'
<1>1. CASE Finish(r)
  BY <1>1, SessionEnds DEF LockInscription
<1>2. CASE GoTo(r, "list") /\ UNCHANGED call
  <2>1. NewLocals(r, call[r]) /\ call[r] \in RecordCall /\ pc[r] = "lock"
    BY <1>2 DEF IInv, TypeOK, LockInscription, NewLocals
  <2>2. Local("list", call[r])
    BY <2>1 DEF IInv, Local, RecordLocal, Recorders, Placers, Placing, Past, Recording
  <2>3. \A q \in Requests \ {r} : Apart("list", call[r], pc[q], call[q])
    BY DEF LockInscription, InscriptionFree, Apart, Placers, Placing
  <2>4. \A j \in Inscriptions, S \in Schemes : Fits(j, S, "list", call[r])
    BY DEF Fits, Past
  <2> QED
    BY <1>2, <2>1, <2>2, <2>3, <2>4, SessionMoves
    DEF LockInscription, Steps, Recorders, Recording, AnyCall
<1> QED
  BY <1>1, <1>2 DEF LockInscription

\* What the session lists is one whole scheme, by OneScheme.
LEMMA ListEvaluationsKeeps ==
  ASSUME IInv, NEW r \in Requests, ListEvaluations(r)
  PROVE  IInv'
<1>1. CASE Finish(r)
  BY <1>1, SessionEnds DEF ListEvaluations
<1>2. CASE /\ call[r].ev \in Live
           /\ call' = [call EXCEPT ![r].scheme = Live]
           /\ GoTo(r, "insert")
  <2>1. pc[r] = "list" /\ RecordLocal("list", call[r])
    BY DEF IInv, ListEvaluations, Local, Recorders, Recording
  <2>2. Live \in Schemes /\ Live \subseteq Born
    BY <1>2 DEF IInv, OneScheme, Live, Born
  <2>3. PICK c : c = [call[r] EXCEPT !.scheme = Live]
    OBVIOUS
  <2>4. c \in RecordCall /\ RecordLocal("insert", c) /\ c.ins = call[r].ins /\ c.scheme = Live
    BY <1>2, <2>1, <2>2, <2>3, GradesAssumption DEF RecordLocal, RecordCall, Past, Recording
  <2>5. GoTo(r, "insert") /\ NewLocals(r, c) /\ UNCHANGED tables
    BY <1>2, <2>3 DEF ListEvaluations, NewLocals
  <2>6. "insert" \in Steps /\ c \in AnyCall /\ Local("insert", c)
    BY <2>4 DEF Local, Steps, Recorders, Placers, Recording, Placing, AnyCall
  <2>7. \A q \in Requests \ {r} : Apart("insert", c, pc[q], call[q])
    <3>1. \A q \in Requests \ {r} : Apart("list", call[r], pc[q], call[q])
      BY <2>1 DEF IInv
    <3> QED
      BY <2>4, <3>1 DEF Apart, Recording, Placers, Placing
  <2>8. \A i \in Inscriptions, S \in Schemes : DecidedUnder(i, S) => Fits(i, S, "insert", c)
    BY <2>4 DEF DecidedUnder, Fits
  <2> QED
    BY <2>5, <2>6, <2>7, <2>8, SessionMoves
<1> QED
  BY <1>1, <1>2 DEF ListEvaluations

\* Whether the grade exists does not change under the inscription's lock.
LEMMA InsertGradeKeeps ==
  ASSUME IInv, NEW r \in Requests, InsertGrade(r)
  PROVE  IInv'
<1>1. pc[r] = "insert" /\ RecordLocal("insert", call[r]) /\ UNCHANGED <<tables, call>>
  BY DEF IInv, InsertGrade, Local, Recorders, Recording
<1>2. call[r].ins \in Inscriptions /\ call[r].ev \in Evaluations
  BY <1>1 DEF RecordLocal, RecordCall
<1>3. grade[call[r].ins][call[r].ev].version \in Nat
  BY <1>2 DEF IInv, TypeOK
<1>4. CASE call[r].ev \notin Graded(call[r].ins) /\ GoTo(r, "siblings")
  <2>1. RecordLocal("siblings", call[r])
    BY <1>1, <1>2, <1>3, <1>4 DEF RecordLocal, Graded, Past, Recording
  <2> QED
    BY <1>1, <1>4, <2>1, RecordSteps DEF Past, Recording
<1>5. CASE call[r].ev \in Graded(call[r].ins) /\ GoTo(r, "existing")
  <2>1. RecordLocal("existing", call[r])
    BY <1>1, <1>2, <1>3, <1>5 DEF RecordLocal, Graded, Past, Recording
  <2> QED
    BY <1>1, <1>5, <2>1, RecordSteps DEF Past, Recording
<1> QED
  BY <1>4, <1>5 DEF InsertGrade

\* Nor does the value a correction starts from.
LEMMA ReadGradeKeeps ==
  ASSUME IInv, NEW r \in Requests, ReadGrade(r)
  PROVE  IInv'
<1>1. CASE Finish(r)
  BY <1>1, SessionEnds DEF ReadGrade
<1>2. CASE /\ call' = [call EXCEPT ![r].old = grade[call[r].ins][call[r].ev].value]
           /\ GoTo(r, "update")
  <2>1. pc[r] = "existing" /\ RecordLocal("existing", call[r])
    BY DEF IInv, ReadGrade, Local, Recorders, Recording
  <2>2. grade[call[r].ins][call[r].ev].value \in Values \cup {0}
    BY <2>1 DEF RecordLocal, RecordCall, IInv, TypeOK
  <2>3. PICK c : c = [call[r] EXCEPT !.old = grade[call[r].ins][call[r].ev].value]
    OBVIOUS
  <2>4. c \in RecordCall /\ c.ins = call[r].ins /\ c.scheme = call[r].scheme
    BY <2>1, <2>2, <2>3 DEF RecordLocal, RecordCall
  <2>5. RecordLocal("update", c)
    BY <2>1, <2>2, <2>3, <2>4 DEF RecordLocal, RecordCall, Past, Recording
  <2>6. GoTo(r, "update") /\ NewLocals(r, c) /\ UNCHANGED tables
    BY <1>2, <2>3 DEF ReadGrade, NewLocals
  <2>7. pc[r] \in Past /\ "update" \in Recording
    BY <2>1 DEF Past, Recording
  <2> QED
    BY <2>4, <2>5, <2>6, <2>7, RecordGoesOn
<1> QED
  BY <1>1, <1>2 DEF ReadGrade

\* The version is compared with the one the correction names.
LEMMA UpdateGradeKeeps ==
  ASSUME IInv, NEW r \in Requests, UpdateGrade(r)
  PROVE  IInv'
<1>1. CASE Finish(r)
  BY <1>1, SessionEnds DEF UpdateGrade
<1>2. CASE /\ call[r].expected = grade[call[r].ins][call[r].ev].version
           /\ GoTo(r, "siblings") /\ UNCHANGED call
  <2>1. pc[r] = "update" /\ RecordLocal("update", call[r]) /\ UNCHANGED tables
    BY DEF IInv, UpdateGrade, Local, Recorders, Recording
  <2>2. RecordLocal("siblings", call[r])
    BY <1>2, <2>1 DEF RecordLocal, Past, Recording
  <2> QED
    BY <1>2, <2>1, <2>2, RecordSteps DEF Past, Recording
<1> QED
  BY <1>1, <1>2 DEF UpdateGrade

\* The grades of the inscription are read under its lock; the decision they lead to
\* still fits them at the commit.
LEMMA ReadSiblingsKeeps ==
  ASSUME IInv, NEW r \in Requests, ReadSiblings(r)
  PROVE  IInv'
<1> DEFINE graded == Graded(call[r].ins) \cup {call[r].ev}
<1>1. pc[r] = "siblings" /\ RecordLocal("siblings", call[r]) /\ UNCHANGED tables
  BY DEF IInv, ReadSiblings, Local, Recorders, Recording
<1>2. CASE Finish(r)
  BY <1>1, <1>2, SessionEnds
<1>3. CASE /\ Cardinality(graded) # Cardinality(call[r].scheme)
           /\ GoTo(r, "commit") /\ UNCHANGED call
  <2>1. graded # call[r].scheme
    BY <1>3
  <2>2. RecordLocal("commit", call[r])
    BY <1>1, <2>1 DEF RecordLocal, Past, Recording
  <2> QED
    BY <1>1, <1>3, <2>2, RecordSteps DEF Past, Recording
<1>4. CASE /\ graded = call[r].scheme
           /\ call' = [call EXCEPT ![r].decides = TRUE]
           /\ GoTo(r, "commit")
  <2>1. PICK c : c = [call[r] EXCEPT !.decides = TRUE]
    OBVIOUS
  <2>2. /\ c \in RecordCall /\ c.decides = TRUE
        /\ c.ins = call[r].ins /\ c.ev = call[r].ev /\ c.scheme = call[r].scheme
        /\ c.old = call[r].old /\ c.expected = call[r].expected
    BY <1>1, <2>1 DEF RecordLocal, RecordCall
  <2>3. RecordLocal("commit", c)
    BY <1>1, <1>4, <2>2 DEF RecordLocal, Past, Recording
  <2>4. NewLocals(r, c)
    BY <1>4, <2>1 DEF NewLocals
  <2>5. pc[r] \in Past /\ "commit" \in Recording
    BY <1>1 DEF Past, Recording
  <2> QED
    BY <1>1, <1>4, <2>2, <2>3, <2>4, <2>5, RecordGoesOn
<1> QED
  BY <1>2, <1>3, <1>4 DEF ReadSiblings
-----------------------------------------------------------------------------
(* The scheme transactions. *)

\* A creation or a replacement starts with a scheme of fresh ids.
LEMMA StartSchemeKeeps ==
  ASSUME IInv, NEW r \in Requests, NEW S \in Schemes, NEW seen \in SUBSET Evaluations,
         NEW step \in Placers, StartScheme(r, S, seen, step)
  PROVE  IInv'
<1>1. PICK c : c = [new |-> S, seen |-> seen, locked |-> {}, dropped |-> {}]
  OBVIOUS
<1>2. GoTo(r, step) /\ NewLocals(r, c) /\ UNCHANGED tables /\ Fresh(S)
  BY <1>1 DEF StartScheme, NewLocals
<1>3. SchemeLocal(c) /\ c.new = S
  BY <1>1, <1>2, GradesAssumption DEF SchemeLocal, SchemeCall, Fresh, Born
<1>4. step \in Steps /\ c \in AnyCall /\ Local(step, c)
  BY <1>3 DEF SchemeLocal, AnyCall, Steps, Local, Recorders, Placers, Recording, Placing
<1>5. \A q \in Requests \ {r} : Apart(step, c, pc[q], call[q])
  BY <1>2, <1>3 DEF Fresh, Apart, Placers, Recording, Placing
<1>6. \A i \in Inscriptions, T \in Schemes : Fits(i, T, step, c)
  BY DEF Fits, Past, Placers, Recording, Placing
<1> QED
  BY <1>2, <1>4, <1>5, <1>6, SessionMoves

\* The two counts of the scheme transactions change nothing but the step.
LEMMA CheckNoSchemeKeeps ==
  ASSUME IInv, NEW r \in Requests, CheckNoScheme(r) \/ CountGrades(r)
  PROVE  IInv'
<1>1. UNCHANGED tables /\ pc[r] \in Placers
  BY DEF CheckNoScheme, CountGrades, Placers, Placing
<1>2. CASE Finish(r)
  BY <1>1, <1>2, SessionEnds
<1>3. CASE UNCHANGED call /\ \E step \in {"place", "rsnap"} : GoTo(r, step)
  <2>1. SchemeLocal(call[r]) /\ call[r] \in SchemeCall
    BY <1>1 DEF IInv, Local, SchemeLocal
  <2>2. NewLocals(r, call[r])
    BY <1>3 DEF NewLocals, IInv, TypeOK
  <2>3. {"place", "rsnap"} \subseteq Placers
    BY DEF Placers, Placing
  <2> QED
    BY <1>1, <1>3, <2>1, <2>2, <2>3, SchemeGoesOn
<1> QED
  BY <1>2, <1>3 DEF CheckNoScheme, CountGrades

\* The evaluations that are locked have been inserted.
LEMMA LockEvaluationsKeeps ==
  ASSUME IInv, NEW r \in Requests, LockEvaluations(r)
  PROVE  IInv'
<1>1. pc[r] \in Placers /\ SchemeLocal(call[r])
  BY DEF IInv, LockEvaluations, Local, Placers, Placing
<1>2. PICK c : c = [call[r] EXCEPT !.locked = call[r].seen \cap Live]
  OBVIOUS
<1>3. c \in SchemeCall /\ SchemeLocal(c) /\ c.new = call[r].new
  BY <1>1, <1>2 DEF SchemeLocal, SchemeCall, Live
<1>4. GoTo(r, "rcount") /\ NewLocals(r, c) /\ UNCHANGED tables /\ "rcount" \in Placers
  BY <1>2 DEF LockEvaluations, NewLocals, Placers, Placing
<1> QED
  BY <1>1, <1>3, <1>4, SchemeGoesOn

\* The soft delete starts.
LEMMA SeeEvaluationsKeeps ==
  ASSUME IInv, NEW r \in Requests, SeeEvaluations(r)
  PROVE  IInv'
<1>1. pc[r] \in Placers /\ SchemeLocal(call[r])
  BY DEF IInv, SeeEvaluations, Local, Placers, Placing
<1>2. PICK c : c = [call[r] EXCEPT !.seen = Live]
  OBVIOUS
<1>3. c \in SchemeCall /\ SchemeLocal(c) /\ c.new = call[r].new
  BY <1>1, <1>2 DEF SchemeLocal, SchemeCall, Live
<1>4. GoTo(r, "rdelete") /\ NewLocals(r, c) /\ UNCHANGED tables /\ "rdelete" \in Placers
  BY <1>2 DEF SeeEvaluations, NewLocals, Placers, Placing
<1> QED
  BY <1>1, <1>3, <1>4, SchemeGoesOn

\* The evaluations that are dropped have been inserted.
LEMMA SoftDeleteKeeps ==
  ASSUME IInv, NEW r \in Requests, SoftDelete(r)
  PROVE  IInv'
<1>1. pc[r] \in Placers /\ SchemeLocal(call[r])
  BY DEF IInv, SoftDelete, Local, Placers, Placing
<1>2. PICK c : c = [call[r] EXCEPT !.dropped = call[r].seen \cap Live]
  OBVIOUS
<1>3. c \in SchemeCall /\ SchemeLocal(c) /\ c.new = call[r].new
  BY <1>1, <1>2 DEF SchemeLocal, SchemeCall, Live, Born
<1>4. GoTo(r, "place") /\ NewLocals(r, c) /\ UNCHANGED tables /\ "place" \in Placers
  BY <1>2 DEF SoftDelete, NewLocals, Placers, Placing
<1> QED
  BY <1>1, <1>3, <1>4, SchemeGoesOn

\* A scheme is placed only where no other is live; its evaluations are new, so no
\* inscription is graded on them and no session works with them.
LEMMA PlaceSchemeKeeps ==
  ASSUME IInv, NEW r \in Requests, PlaceScheme(r)
  PROVE  IInv'
<1> DEFINE N == call[r].new
           D == call[r].dropped
<1>1. CASE UNCHANGED evaluation
  BY <1>1, SessionEnds DEF PlaceScheme, tables
<1>2. CASE /\ Live \ D = {}
           /\ evaluation' = [v \in Evaluations |->
                               IF v \in N THEN "live"
                               ELSE IF v \in D THEN "deleted" ELSE evaluation[v]]
  <2>1. SchemeLocal(call[r]) /\ "place" \in Placers /\ pc[r] = "place"
    BY DEF IInv, PlaceScheme, Local, Placers, Placing
  <2>2. /\ N \in Schemes /\ N \subseteq Evaluations /\ N # {} /\ N \cap Born = {}
        /\ D \subseteq Born
    BY <2>1, GradesAssumption DEF SchemeLocal, SchemeCall
  <2>3. Finish(r) /\ UNCHANGED <<status, final, grade, audit>>
    BY DEF PlaceScheme
  <2> HIDE DEF N, D
  <2>4. Live' = N /\ Born' = Born \cup N
    BY <1>2, <2>2 DEF Live, Born
  <2>5. \A i \in Inscriptions : Graded(i)' = Graded(i) /\ ValueOf(i)' = ValueOf(i)
    BY <2>3 DEF Graded, ValueOf
  <2>6. \A i \in Inscriptions : Graded(i) \subseteq Born
    BY DEF IInv, GradesKept, TypeOK, Graded
  <2>7. /\ pc' \in [Requests -> Steps] /\ pc'[r] = "idle"
        /\ call' \in [Requests -> AnyCall]
        /\ \A q \in Requests \ {r} : pc'[q] = pc[q] /\ call'[q] = call[q]
    BY <2>3 DEF IInv, TypeOK, Finish, GoTo, Steps, Recorders, Placers, AnyCall
  <2>8. \A q \in Requests : Local(pc[q], call[q])'
    <3> SUFFICES ASSUME NEW q \in Requests PROVE Local(pc[q], call[q])'
      OBVIOUS
    <3>1. CASE q = r
      BY <2>7, <3>1 DEF Local, Recorders, Placers, Recording, Placing
    <3>2. CASE q # r /\ pc[q] \in Recorders
      <4>1. RecordLocal(pc[q], call[q]) /\ pc[q] \notin Placers
        BY <3>2 DEF IInv, Local, Recorders, Placers, Recording, Placing
      <4>2. RecordLocal(pc[q], call[q])'
        BY <2>3, <2>4, <2>7, <3>2, <4>1 DEF RecordLocal, Graded
      <4> QED
        BY <2>7, <3>2, <4>1, <4>2 DEF Local
    <3>3. CASE q # r /\ pc[q] \in Placers
      <4>1. SchemeLocal(call[q]) /\ pc[q] \notin Recorders /\ call[q].new \in Schemes
        BY <3>3 DEF IInv, Local, SchemeLocal, SchemeCall, Recorders, Placers, Recording, Placing
      <4>2. call[q].new # N
        BY <2>1, <3>3 DEF IInv, Apart, N
      <4>3. SchemeLocal(call[q])'
        BY <2>2, <2>4, <2>7, <3>3, <4>1, <4>2, GradesAssumption DEF SchemeLocal
      <4> QED
        BY <2>7, <3>3, <4>1, <4>3 DEF Local
    <3>4. CASE q # r /\ pc[q] \notin Recorders /\ pc[q] \notin Placers
      BY <2>7, <3>4 DEF Local
    <3> QED
      BY <3>1, <3>2, <3>3, <3>4
  <2>9. \A p, q \in Requests : p # q => Apart(pc[p], call[p], pc[q], call[q])'
    BY <2>7 DEF IInv, Apart, Placers, Recording, Placing
  <2>10. TypeOK'
    <3>1. \A q \in Requests :
            /\ pc'[q] \in Recorders => call'[q] \in RecordCall
            /\ pc'[q] \in Placers => call'[q] \in SchemeCall
      BY <2>8 DEF Local, RecordLocal, SchemeLocal
    <3>2. evaluation' \in [Evaluations -> {"unborn", "live", "deleted"}]
      BY <1>2 DEF IInv, TypeOK
    <3> QED
      BY <2>3, <2>7, <3>1, <3>2 DEF IInv, TypeOK, Steps, Recorders, Placers, AnyCall
  <2>11. OneScheme' /\ FinalIsFunction' /\ AuditChain'
    BY <2>2, <2>3, <2>4, <2>5 DEF OneScheme, FinalIsFunction, AuditChain, IInv
  <2>12. GradesKept'
    BY <2>3, <2>4 DEF IInv, GradesKept
  <2>13. CompleteIsDecided'
    BY <2>2, <2>4, <2>5, <2>6 DEF CompleteIsDecided
  <2>14. FinalFits'
    <3> SUFFICES ASSUME NEW i \in Inscriptions, (status[i] \in Outcomes)'
                 PROVE  \E S \in Schemes :
                          /\ DecidedUnder(i, S)'
                          /\ \A q \in Requests : Fits(i, S, pc[q], call[q])'
      BY DEF FinalFits
    <3>1. PICK S \in Schemes :
            DecidedUnder(i, S) /\ \A q \in Requests : Fits(i, S, pc[q], call[q])
      BY <2>3 DEF IInv, FinalFits
    <3>2. S # N
      BY <2>2, <2>6, <3>1 DEF DecidedUnder
    <3>3. DecidedUnder(i, S)'
      BY <2>3, <2>4, <2>5, <3>1, <3>2 DEF DecidedUnder
    <3>4. \A q \in Requests : Fits(i, S, pc[q], call[q])'
      BY <2>4, <2>5, <2>7, <3>1, <3>2 DEF Fits, Past, Recording
    <3> QED
      BY <3>3, <3>4
  <2> QED
    BY <2>8, <2>9, <2>10, <2>11, <2>12, <2>13, <2>14 DEF IInv
<1> QED
  BY <1>1, <1>2 DEF PlaceScheme
-----------------------------------------------------------------------------
(* Withdrawal and revival: neither touches a decided inscription. *)

\* A withdrawal or a revival touches no decided inscription and no grade.
LEMMA WithdrawReviveKeeps ==
  ASSUME IInv, NEW i \in Inscriptions, WithdrawSection(i) \/ ReviveInscription(i)
  PROVE  IInv'
<1>1. /\ status[i] \notin Outcomes
      /\ \E s \in {"in_progress", "withdrawn"} : status' = [status EXCEPT ![i] = s]
      /\ UNCHANGED <<evaluation, final, grade, audit, pc, call>>
  BY DEF WithdrawSection, ReviveInscription, Outcomes
<1>2. /\ Live' = Live /\ Born' = Born
      /\ \A j \in Inscriptions : Graded(j)' = Graded(j) /\ ValueOf(j)' = ValueOf(j)
  BY <1>1 DEF Live, Born, Graded, ValueOf
<1>3. /\ \A j \in Inscriptions \ {i} : status'[j] = status[j]
      /\ status'[i] \in {"in_progress", "withdrawn"}
      /\ TypeOK'
  BY <1>1 DEF IInv, TypeOK
<1>4. \A q \in Requests : Local(pc[q], call[q])'
  BY <1>1 DEF IInv, Local, RecordLocal, SchemeLocal, Graded, Born
<1>5. \A p, q \in Requests : p # q => Apart(pc[p], call[p], pc[q], call[q])'
  BY <1>1 DEF IInv, Apart
<1>6. FinalIsFunction' /\ GradesKept' /\ OneScheme' /\ AuditChain'
  BY <1>1, <1>2 DEF IInv, FinalIsFunction, GradesKept, OneScheme, AuditChain
<1>7. CompleteIsDecided'
  BY <1>1, <1>2, <1>3 DEF IInv, CompleteIsDecided
<1>8. FinalFits'
  <2> SUFFICES ASSUME NEW j \in Inscriptions, (status[j] \in Outcomes)'
               PROVE  \E S \in Schemes :
                        /\ DecidedUnder(j, S)'
                        /\ \A q \in Requests : Fits(j, S, pc[q], call[q])'
    BY DEF FinalFits
  <2>1. j # i
    BY <1>3 DEF Outcomes
  <2>2. PICK S \in Schemes :
          DecidedUnder(j, S) /\ \A q \in Requests : Fits(j, S, pc[q], call[q])
    BY <1>3, <2>1 DEF IInv, FinalFits
  <2>3. DecidedUnder(j, S)'
    BY <1>1, <1>2, <1>3, <2>1, <2>2 DEF DecidedUnder
  <2>4. \A q \in Requests : Fits(j, S, pc[q], call[q])'
    BY <1>1, <1>2, <2>2 DEF Fits
  <2> QED
    BY <2>3, <2>4
<1> QED
  BY <1>3, <1>4, <1>5, <1>6, <1>7, <1>8 DEF IInv
-----------------------------------------------------------------------------
(* CommitGrade, the only step that changes grades and outcomes. *)

\* Writing one entry of a table by inscription and evaluation.
LEMMA EntryWritten ==
  ASSUME NEW T, NEW f \in [Inscriptions -> [Evaluations -> T]], NEW i \in Inscriptions,
         NEW v \in Evaluations, NEW e \in T
  PROVE  /\ [f EXCEPT ![i][v] = e] \in [Inscriptions -> [Evaluations -> T]]
         /\ \A j \in Inscriptions, w \in Evaluations :
              [f EXCEPT ![i][v] = e][j][w] = IF j = i /\ w = v THEN e ELSE f[j][w]
OBVIOUS

\* A log that ends at the old value, continued by a correction of that value.
LEMMA LogContinues ==
  ASSUME NEW log \in Seq(Values \X Values), NEW x \in Values, NEW y \in Values,
         \A k \in 1..Len(log) - 1 : log[k][2] = log[k + 1][1],
         Len(log) > 0 => log[Len(log)][2] = x,
         NEW new, new = Append(log, <<x, y>>)
  PROVE  /\ new \in Seq(Values \X Values)
         /\ Len(new) = Len(log) + 1
         /\ \A k \in 1..Len(new) - 1 : new[k][2] = new[k + 1][1]
         /\ new[Len(new)][2] = y
<1>1. new \in Seq(Values \X Values) /\ Len(new) = Len(log) + 1 /\ Len(log) \in Nat
  OBVIOUS
<1>2. /\ \A k \in 1..Len(log) : new[k] = log[k]
      /\ new[Len(new)] = <<x, y>>
  OBVIOUS
<1>3. ASSUME NEW k \in 1..Len(new) - 1 PROVE new[k][2] = new[k + 1][1]
  <2>1. CASE k = Len(log)
    BY <1>1, <1>2, <2>1
  <2>2. CASE k # Len(log)
    <3>1. k \in 1..Len(log) - 1 /\ k + 1 \in 1..Len(log)
      BY <1>1, <2>2
    <3> QED
      BY <1>2, <3>1
  <2> QED
    BY <2>1, <2>2
<1> QED
  BY <1>1, <1>2, <1>3

\* The commit of a grade decides the inscription if and only if its grades are then
\* exactly its scheme's, and otherwise leaves an outcome that does not depend on it.
LEMMA CommitGradeKeeps ==
  ASSUME IInv, NEW r \in Requests, CommitGrade(r)
  PROVE  IInv'
<1>0. PICK i, v, x, L, n, g :
        /\ i = call[r].ins /\ v = call[r].ev /\ x = call[r].value /\ L = call[r].scheme
        /\ n = grade[i][v].version /\ g = [version |-> n + 1, value |-> x]
  OBVIOUS
<1>1. /\ RecordLocal("commit", call[r]) /\ pc[r] = "commit"
      /\ i \in Inscriptions /\ v \in Evaluations /\ x \in Values
      /\ "commit" \in Past /\ "commit" \in Recording
  BY <1>0 DEF IInv, CommitGrade, Local, RecordLocal, RecordCall, Recorders, Past, Recording
<1>2. L \in Schemes /\ v \in L /\ L \subseteq Born /\ v \in Born
  BY <1>0, <1>1 DEF RecordLocal
<1>3. /\ n \in 0..MaxVersion - 1
      /\ grade[i][v] \in [version : 0..MaxVersion, value : Values \cup {0}]
  <2>1. grade[i][v] \in [version : 0..MaxVersion, value : Values \cup {0}]
    BY <1>1 DEF IInv, TypeOK
  <2>2. n = 0 \/ n = call[r].expected
    BY <1>0, <1>1 DEF RecordLocal
  <2>3. call[r].expected \in 0..MaxVersion - 1
    BY <1>1 DEF RecordLocal, RecordCall
  <2> QED
    BY <2>1, <2>2, <2>3, GradesAssumption
<1>4. g \in [version : 0..MaxVersion, value : Values \cup {0}]
  BY <1>0, <1>1, <1>3, GradesAssumption
<1>5. grade' = [grade EXCEPT ![i][v] = g]
  BY <1>0, <1>1 DEF CommitGrade, IInv, TypeOK
<1>6. /\ grade' \in [Inscriptions -> [Evaluations ->
                         [version : 0..MaxVersion, value : Values \cup {0}]]]
      /\ \A j \in Inscriptions, w \in Evaluations :
           grade'[j][w] = IF j = i /\ w = v THEN g ELSE grade[j][w]
  BY <1>1, <1>4, <1>5, EntryWritten DEF IInv, TypeOK
<1>7. /\ pc' \in [Requests -> Steps] /\ pc'[r] = "idle"
      /\ call' \in [Requests -> AnyCall]
      /\ \A q \in Requests \ {r} : pc'[q] = pc[q] /\ call'[q] = call[q]
  BY DEF CommitGrade, IInv, TypeOK, Finish, GoTo, Steps, Recorders, Placers, AnyCall
<1>8. Live' = Live /\ Born' = Born /\ evaluation' = evaluation
  BY DEF CommitGrade, Live, Born
<1>9. /\ Graded(i)' = Graded(i) \cup {v}
      /\ \A j \in Inscriptions \ {i} : Graded(j)' = Graded(j)
  BY <1>0, <1>1, <1>3, <1>6 DEF Graded
<1>10. /\ ValueOf(i)' = [ValueOf(i) EXCEPT ![v] = x]
       /\ \A j \in Inscriptions \ {i} : ValueOf(j)' = ValueOf(j)
  <2>1. g.value = x
    BY <1>0
  <2>2. \A w \in Evaluations :
          grade'[i][w].value = [ValueOf(i) EXCEPT ![v] = x][w]
    BY <1>1, <1>6, <2>1 DEF ValueOf
  <2>3. ValueOf(i)' = [w \in Evaluations |-> grade'[i][w].value]
    BY DEF ValueOf
  <2>4. [ValueOf(i) EXCEPT ![v] = x]
          = [w \in Evaluations |-> [ValueOf(i) EXCEPT ![v] = x][w]]
    BY DEF ValueOf
  <2>5. ValueOf(i)' = [ValueOf(i) EXCEPT ![v] = x]
    BY <2>2, <2>3, <2>4
  <2>6. \A j \in Inscriptions \ {i} : ValueOf(j)' = ValueOf(j)
    BY <1>6 DEF ValueOf
  <2> QED
    BY <2>5, <2>6
<1>11. \A q \in Requests \ {r} : pc[q] \in Recording => call[q].ins # i
  BY <1>0, <1>1 DEF IInv, Apart
<1>12. \A q \in Requests : Local(pc[q], call[q])'
  <2> SUFFICES ASSUME NEW q \in Requests PROVE Local(pc[q], call[q])'
    OBVIOUS
  <2>1. CASE q = r
    BY <1>7, <2>1 DEF Local, Recorders, Placers, Recording, Placing
  <2>2. CASE q # r /\ pc[q] \in Recorders
    <3>1. RecordLocal(pc[q], call[q]) /\ pc[q] \notin Placers
      BY <2>2 DEF IInv, Local, Recorders, Placers, Recording, Placing
    <3>2. RecordLocal(pc[q], call[q])'
      <4>1. CASE pc[q] = "lock"
        BY <1>7, <2>2, <3>1, <4>1 DEF RecordLocal, Past, Recording
      <4>2. CASE pc[q] \in Recording
        <5>1. call[q].ins \in Inscriptions /\ call[q].ins # i /\ call[q].ev \in Evaluations
          BY <1>11, <2>2, <3>1, <4>2 DEF RecordLocal, RecordCall
        <5>2. /\ grade'[call[q].ins][call[q].ev] = grade[call[q].ins][call[q].ev]
              /\ \A j : j = call[q].ins => Graded(j)' = Graded(j)
          BY <1>6, <1>9, <5>1
        <5> QED
          BY <1>7, <1>8, <2>2, <3>1, <5>1, <5>2 DEF RecordLocal, Graded
      <4> QED
        BY <2>2, <4>1, <4>2 DEF Recorders
    <3> QED
      BY <1>7, <2>2, <3>1, <3>2 DEF Local
  <2>3. CASE q # r /\ pc[q] \notin Recorders
    BY <1>7, <1>8, <2>3 DEF IInv, Local, SchemeLocal
  <2> QED
    BY <2>1, <2>2, <2>3
<1>13. \A p, q \in Requests : p # q => Apart(pc[p], call[p], pc[q], call[q])'
  BY <1>7 DEF IInv, Apart, Placers, Recording, Placing
<1>14. TypeOK'
  <2>1. \A q \in Requests :
          /\ pc'[q] \in Recorders => call'[q] \in RecordCall
          /\ pc'[q] \in Placers => call'[q] \in SchemeCall
    BY <1>12 DEF Local, RecordLocal, SchemeLocal
  <2>2. status' \in [Inscriptions -> Outcomes \cup {"in_progress", "withdrawn"}]
    <3>1. \/ UNCHANGED status
          \/ \E s \in Outcomes : status' = [status EXCEPT ![i] = s]
      BY <1>0 DEF CommitGrade, OutcomeOf, Outcomes
    <3> QED
      BY <1>1, <3>1 DEF IInv, TypeOK
  <2>3. audit' \in [Inscriptions -> [Evaluations -> Seq(Values \X Values)]]
    <3>1. CASE UNCHANGED audit
      BY <3>1 DEF IInv, TypeOK
    <3>2. CASE call[r].old # 0
      <4>1. call[r].old \in Values /\ audit[i][v] \in Seq(Values \X Values)
        BY <1>1, <3>2 DEF RecordLocal, RecordCall, IInv, TypeOK
      <4>2. PICK e : e = Append(audit[i][v], <<call[r].old, x>>)
        OBVIOUS
      <4>3. e \in Seq(Values \X Values)
        BY <1>1, <4>1, <4>2
      <4>4. audit' = [audit EXCEPT ![i][v] = e]
        BY <1>0, <1>1, <3>2, <4>2 DEF CommitGrade, IInv, TypeOK
      <4> QED
        BY <1>1, <4>3, <4>4, EntryWritten DEF IInv, TypeOK
    <3> QED
      BY <3>1, <3>2 DEF CommitGrade
  <2> QED
    BY <1>6, <1>7, <1>8, <2>1, <2>2, <2>3 DEF IInv, TypeOK, Steps, Recorders, Placers, AnyCall
<1>15. OneScheme'
  BY <1>8 DEF IInv, OneScheme
<1>16. FinalIsFunction'
  <2>1. UNCHANGED final \/ \E e : final' = [final EXCEPT ![i] = e]
    BY <1>0 DEF CommitGrade
  <2> QED
    BY <2>1 DEF IInv, FinalIsFunction
\* The audit log of the grade that is committed.
<1>17. /\ Len(audit'[i][v]) = n
       /\ \A k \in 1..Len(audit'[i][v]) - 1 : audit'[i][v][k][2] = audit'[i][v][k + 1][1]
       /\ Len(audit'[i][v]) > 0 => audit'[i][v][Len(audit'[i][v])][2] = x
  <2>1. CASE call[r].old = 0
    <3>1. n = 0 /\ audit' = audit
      <4>1. ~(call[r].old = grade[i][v].value /\ grade[i][v].version # 0)
        BY <1>1, <2>1, ValuesOnScale DEF IInv, GradesKept
      <4> QED
        BY <1>0, <1>1, <2>1, <4>1 DEF CommitGrade, RecordLocal
    <3>2. audit[i][v] = <<>>
      BY <1>0, <1>1, <3>1 DEF IInv, GradesKept
    <3> QED
      BY <3>1, <3>2
  <2>2. CASE call[r].old # 0
    <3>1. n # 0 /\ call[r].old = grade[i][v].value /\ call[r].old \in Values
      BY <1>0, <1>1, <2>2 DEF RecordLocal, RecordCall
    <3>2. PICK log : log = audit[i][v]
      OBVIOUS
    <3>3. log \in Seq(Values \X Values)
      BY <1>1, <3>2 DEF IInv, TypeOK
    <3>4. /\ Len(log) = n - 1
          /\ \A k \in 1..Len(log) - 1 : log[k][2] = log[k + 1][1]
          /\ Len(log) > 0 => log[Len(log)][2] = call[r].old
      <4>1. v \in Graded(i)
        BY <1>0, <1>1, <1>3, <3>1 DEF Graded
      <4> QED
        BY <1>0, <1>1, <3>1, <3>2, <4>1 DEF IInv, AuditChain
    <3>5. PICK new : new = Append(log, <<call[r].old, x>>)
      OBVIOUS
    <3>6. audit'[i][v] = new
      <4>1. audit' = [audit EXCEPT ![i][v] = new]
        BY <1>0, <1>1, <2>2, <3>2, <3>5 DEF CommitGrade, IInv, TypeOK
      <4> QED
        BY <1>1, <4>1 DEF IInv, TypeOK
    <3>7. /\ Len(new) = Len(log) + 1
          /\ \A k \in 1..Len(new) - 1 : new[k][2] = new[k + 1][1]
          /\ new[Len(new)][2] = x
      BY <1>1, <3>1, <3>3, <3>4, <3>5, LogContinues
    <3> QED
      BY <1>3, <3>4, <3>6, <3>7
  <2> QED
    BY <2>1, <2>2
<1>18. \A j \in Inscriptions, w \in Evaluations : (j # i \/ w # v) => audit'[j][w] = audit[j][w]
  <2>1. UNCHANGED audit \/ \E e : audit' = [audit EXCEPT ![i][v] = e]
    BY <1>0, <1>1 DEF CommitGrade, IInv, TypeOK
  <2> QED
    BY <1>1, <2>1 DEF IInv, TypeOK
<1>19. AuditChain'
  <2> SUFFICES ASSUME NEW j \in Inscriptions, NEW w \in Graded(j)'
               PROVE  /\ Len(audit'[j][w]) = grade'[j][w].version - 1
                      /\ \A k \in 1..Len(audit'[j][w]) - 1 :
                           audit'[j][w][k][2] = audit'[j][w][k + 1][1]
                      /\ Len(audit'[j][w]) > 0 =>
                           audit'[j][w][Len(audit'[j][w])][2] = grade'[j][w].value
    BY DEF AuditChain
  <2>1. CASE j = i /\ w = v
    <3>1. grade'[i][v].version = n + 1 /\ grade'[i][v].value = x
      BY <1>0, <1>1, <1>6
    <3>2. (n + 1) - 1 = n
      BY <1>3
    <3> QED
      BY <1>17, <2>1, <3>1, <3>2
  <2>2. CASE j # i \/ w # v
    <3>1. w \in Graded(j) /\ w \in Evaluations
      BY <1>1, <1>9, <2>2 DEF Graded
    <3>2. audit'[j][w] = audit[j][w] /\ grade'[j][w] = grade[j][w]
      BY <1>6, <1>18, <2>2, <3>1
    <3> QED
      BY <3>1, <3>2 DEF IInv, AuditChain
  <2> QED
    BY <2>1, <2>2
<1>20. GradesKept'
  <2> SUFFICES ASSUME NEW j \in Inscriptions, NEW w \in Evaluations
               PROVE  IF grade'[j][w].version = 0
                      THEN grade'[j][w].value = 0 /\ audit'[j][w] = <<>>
                      ELSE grade'[j][w].value \in Values /\ w \in Born'
    BY DEF GradesKept
  <2>1. CASE j = i /\ w = v
    BY <1>0, <1>1, <1>2, <1>3, <1>6, <1>8, <2>1
  <2>2. CASE j # i \/ w # v
    BY <1>6, <1>8, <1>18, <2>2 DEF IInv, GradesKept
  <2> QED
    BY <2>1, <2>2
\* The other inscriptions keep their outcome; i is decided again when its scheme
\* is complete, and otherwise keeps an outcome that does not depend on the grade.
<1>21. \A j \in Inscriptions \ {i} : final'[j] = final[j] /\ status'[j] = status[j]
  <2>1. \/ UNCHANGED <<final, status>>
        \/ \E f, s : final' = [final EXCEPT ![i] = f] /\ status' = [status EXCEPT ![i] = s]
    BY <1>0 DEF CommitGrade
  <2> QED
    BY <2>1 DEF IInv, TypeOK, FinalIsFunction
<1>22. Graded(i) \cup {v} = L => status'[i] \in Outcomes /\ DecidedUnder(i, L)'
  <2> SUFFICES ASSUME Graded(i) \cup {v} = L
               PROVE  status'[i] \in Outcomes /\ DecidedUnder(i, L)'
    OBVIOUS
  <2>1. PICK marks, average :
          marks = [ValueOf(i) EXCEPT ![v] = x] /\ average = WeightedFinal(marks, Weight, L)
    OBVIOUS
  <2>2. call[r].decides
    BY <1>0, <1>1 DEF RecordLocal
  <2>3. final' = [final EXCEPT ![i] = average] /\ status' = [status EXCEPT ![i] = OutcomeOf(average)]
    BY <1>0, <2>1, <2>2 DEF CommitGrade
  <2>4. final'[i] = average /\ status'[i] = OutcomeOf(average) /\ status'[i] \in Outcomes
    BY <1>1, <2>3 DEF IInv, TypeOK, FinalIsFunction, OutcomeOf, Outcomes
  <2>5. DecidedUnder(i, L)'
    BY <1>9, <1>10, <2>1, <2>4 DEF DecidedUnder
  <2> QED
    BY <2>4, <2>5
<1>23. Graded(i) \cup {v} # L /\ status[i] \in Outcomes
         => status'[i] = status[i] /\ \E S \in Schemes : DecidedUnder(i, S)'
  <2> SUFFICES ASSUME Graded(i) \cup {v} # L, status[i] \in Outcomes
               PROVE  status'[i] = status[i] /\ \E S \in Schemes : DecidedUnder(i, S)'
    OBVIOUS
  <2>1. ~call[r].decides
    BY <1>0, <1>1 DEF RecordLocal
  <2>2. UNCHANGED <<final, status>>
    BY <2>1 DEF CommitGrade
  <2>3. PICK S \in Schemes : DecidedUnder(i, S) /\ Fits(i, S, pc[r], call[r])
    BY <1>1 DEF IInv, FinalFits
  <2>4. L # S /\ Live # S
    <3>1. L = S => Graded(i) = L
      BY <1>0, <1>1, <2>3 DEF Fits
    <3>2. L # S
      BY <1>2, <3>1
    <3> QED
      BY <1>0, <1>1, <2>3, <3>2 DEF Fits
  <2>5. v \notin S
    BY <1>2, <2>4, GradesAssumption
  <2>6. WeightedFinal(ValueOf(i)', Weight, S) = WeightedFinal(ValueOf(i), Weight, S)
    <3>1. PICK f, h : f = ValueOf(i) /\ h = ValueOf(i)'
      OBVIOUS
    <3>2. \A w \in S : h[w] = f[w]
      BY <1>10, <2>3, <2>5, <3>1, GradesAssumption DEF ValueOf
    <3> QED
      BY <3>1, <3>2, FinalDependsOnScheme
  <2>7. DecidedUnder(i, S)'
    BY <1>8, <1>9, <2>2, <2>3, <2>4, <2>6 DEF DecidedUnder
  <2> QED
    BY <2>2, <2>7
<1>24. FinalFits'
  <2> SUFFICES ASSUME NEW j \in Inscriptions, (status[j] \in Outcomes)'
               PROVE  \E S \in Schemes :
                        /\ DecidedUnder(j, S)'
                        /\ \A q \in Requests : Fits(j, S, pc[q], call[q])'
    BY DEF FinalFits
  <2>1. CASE j = i
    <3>1. PICK S \in Schemes : DecidedUnder(i, S)'
      <4>1. Graded(i) \cup {v} # L => status'[i] = status[i]
        BY <1>0, <1>1 DEF CommitGrade, RecordLocal
      <4> QED
        BY <1>2, <1>22, <1>23, <2>1, <4>1
    <3>2. \A q \in Requests : Fits(i, S, pc[q], call[q])'
      BY <1>7, <1>11 DEF Fits, Past, Recording
    <3> QED
      BY <2>1, <3>1, <3>2
  <2>2. CASE j # i
    <3>1. PICK S \in Schemes :
            DecidedUnder(j, S) /\ \A q \in Requests : Fits(j, S, pc[q], call[q])
      BY <1>21, <2>2 DEF IInv, FinalFits
    <3>2. DecidedUnder(j, S)'
      BY <1>8, <1>9, <1>10, <1>21, <2>2, <3>1 DEF DecidedUnder
    <3>3. \A q \in Requests : Fits(j, S, pc[q], call[q])'
      BY <1>7, <1>8, <1>9, <2>2, <3>1 DEF Fits, Past, Recording
    <3> QED
      BY <3>2, <3>3
  <2> QED
    BY <2>1, <2>2
<1>25. CompleteIsDecided'
  <2> SUFFICES ASSUME NEW j \in Inscriptions, Graded(j)' = Live', Live' # {}
               PROVE  status'[j] \in Outcomes
    BY DEF CompleteIsDecided
  <2>1. CASE j = i
    <3>1. Live \in Schemes /\ v \in Live
      BY <1>8, <1>9, <2>1 DEF IInv, OneScheme
    <3>2. L = Live
      BY <1>2, <3>1, GradesAssumption
    <3> QED
      BY <1>8, <1>9, <1>22, <2>1, <3>2
  <2>2. CASE j # i
    BY <1>8, <1>9, <1>21, <2>2 DEF IInv, CompleteIsDecided
  <2> QED
    BY <2>1, <2>2
<1> QED
  BY <1>12, <1>13, <1>14, <1>15, <1>16, <1>19, <1>20, <1>24, <1>25 DEF IInv
-----------------------------------------------------------------------------
(* The invariant holds in every behaviour. *)

\* A step that changes nothing keeps the invariant.
LEMMA StutterKeeps == IInv /\ UNCHANGED vars => IInv'
<1> SUFFICES ASSUME IInv, UNCHANGED vars PROVE IInv'
  OBVIOUS
<1>1. /\ Live' = Live /\ Born' = Born
      /\ \A i \in Inscriptions : Graded(i)' = Graded(i) /\ ValueOf(i)' = ValueOf(i)
  BY DEF vars, Live, Born, Graded, ValueOf
<1>2. \A q \in Requests : Local(pc[q], call[q])'
  BY DEF IInv, vars, Local, RecordLocal, SchemeLocal, Graded, Born
<1>3. \A p, q \in Requests : p # q => Apart(pc[p], call[p], pc[q], call[q])'
  BY DEF IInv, vars, Apart
<1>4. TypeOK' /\ FinalIsFunction' /\ GradesKept'
  BY <1>1 DEF IInv, vars, TypeOK, FinalIsFunction, GradesKept
<1>5. OneScheme' /\ AuditChain' /\ CompleteIsDecided'
  BY <1>1 DEF IInv, vars, OneScheme, AuditChain, CompleteIsDecided
<1>6. FinalFits'
  BY <1>1 DEF IInv, vars, FinalFits, DecidedUnder, Fits
<1> QED
  BY <1>2, <1>3, <1>4, <1>5, <1>6 DEF IInv

\* Every step keeps the invariant.
LEMMA NextKeeps == IInv /\ [Next]_vars => IInv'
<1> SUFFICES ASSUME IInv, [Next]_vars PROVE IInv'
  OBVIOUS
<1>1. ASSUME NEW r \in Requests, Record(r) PROVE IInv'
  <2>1. CASE LockInscription(r)
    BY <2>1, LockInscriptionKeeps
  <2>2. CASE ListEvaluations(r)
    BY <2>2, ListEvaluationsKeeps
  <2>3. CASE InsertGrade(r)
    BY <2>3, InsertGradeKeeps
  <2>4. CASE ReadGrade(r)
    BY <2>4, ReadGradeKeeps
  <2>5. CASE UpdateGrade(r)
    BY <2>5, UpdateGradeKeeps
  <2>6. CASE ReadSiblings(r)
    BY <2>6, ReadSiblingsKeeps
  <2>7. CASE CommitGrade(r)
    BY <2>7, CommitGradeKeeps
  <2>8. CASE LockTimeout(r)
    BY <2>8, SessionEnds DEF LockTimeout
  <2> QED
    BY <1>1, <2>1, <2>2, <2>3, <2>4, <2>5, <2>6, <2>7, <2>8 DEF Record
<1>2. ASSUME NEW r \in Requests, Replace(r) PROVE IInv'
  <2>1. CASE CheckNoScheme(r) \/ CountGrades(r)
    BY <2>1, CheckNoSchemeKeeps
  <2>2. CASE LockEvaluations(r)
    BY <2>2, LockEvaluationsKeeps
  <2>3. CASE SeeEvaluations(r)
    BY <2>3, SeeEvaluationsKeeps
  <2>4. CASE SoftDelete(r)
    BY <2>4, SoftDeleteKeeps
  <2>5. CASE PlaceScheme(r)
    BY <2>5, PlaceSchemeKeeps
  <2> QED
    BY <1>2, <2>1, <2>2, <2>3, <2>4, <2>5 DEF Replace
<1>3. ASSUME NEW r \in Requests, Abort(r) PROVE IInv'
  BY <1>3, SessionEnds DEF Abort
<1>4. ASSUME NEW r \in Requests, NEW S \in Schemes, CreateScheme(r, S) PROVE IInv'
  <2>1. {} \in SUBSET Evaluations /\ "ccheck" \in Placers
    BY DEF Placers
  <2> QED
    BY <1>4, <2>1, StartSchemeKeeps DEF CreateScheme
<1>5. ASSUME NEW r \in Requests, NEW S \in Schemes, RecreateScheme(r, S) PROVE IInv'
  <2>1. Live \in SUBSET Evaluations /\ "rlock" \in Placers
    BY DEF Live, Placers, Placing
  <2> QED
    BY <1>5, <2>1, StartSchemeKeeps DEF RecreateScheme
<1>6. ASSUME NEW r \in Requests, NEW i \in Inscriptions, NEW v \in Evaluations,
             NEW x \in Values, NEW n \in 0..MaxVersion - 1, NEW override \in BOOLEAN,
             RecordGrade(r, i, v, x, n, override)
      PROVE  IInv'
  BY <1>6, RecordGradeKeeps
<1>7. ASSUME NEW i \in Inscriptions, WithdrawSection(i) \/ ReviveInscription(i)
      PROVE  IInv'
  BY <1>7, WithdrawReviveKeeps
<1>8. CASE UNCHANGED vars
  BY <1>8, StutterKeeps
<1> QED
  BY <1>1, <1>2, <1>3, <1>4, <1>5, <1>6, <1>7, <1>8 DEF Next

\* The invariant holds in every state of the component.
THEOREM Invariance == Spec => []IInv
BY InitInvariant, NextKeeps, PTL DEF Spec

\* The state keeps its types, the locals of the sessions included.
THEOREM TypeCorrect == Spec => []TypeOK
<1>1. IInv => TypeOK
  BY DEF IInv
<1> QED
  BY <1>1, Invariance, PTL

\* The live evaluations are always one whole scheme or none, however creations and
\* replacements of the scheme interleave.
THEOREM SchemeWhole == Spec => []OneScheme
<1>1. IInv => OneScheme
  BY DEF IInv
<1> QED
  BY <1>1, Invariance, PTL

\* A decided inscription always carries the weighted final of the grades on record.
THEOREM OutcomeCurrent == Spec => []FinalIsCurrent
<1>1. IInv => FinalIsCurrent
  BY DEF IInv, FinalFits, DecidedUnder, FinalIsCurrent
<1> QED
  BY <1>1, Invariance, PTL

\* An inscription graded on exactly the live scheme is always decided.
THEOREM NoOutcomeLost == Spec => []CompleteIsDecided
<1>1. IInv => CompleteIsDecided
  BY DEF IInv
<1> QED
  BY <1>1, Invariance, PTL

\* The audit log of a grade always chains from correction to correction up to the
\* value on record.
THEOREM AuditTrail == Spec => []AuditChain
<1>1. IInv => AuditChain
  BY DEF IInv
<1> QED
  BY <1>1, Invariance, PTL

\* No grade on record is replaced by a session that had not named its version.
THEOREM NoLostCorrection == Spec => NoBlindOverwrite
<1> DEFINE Informed ==
      \A i \in Inscriptions : \A v \in Graded(i) :
        grade'[i][v] # grade[i][v] =>
          /\ grade'[i][v].version = grade[i][v].version + 1
          /\ \E r \in Requests :
               /\ pc[r] = "commit" /\ call[r].ins = i /\ call[r].ev = v
               /\ call[r].expected = grade[i][v].version
<1>1. ASSUME IInv, NEW r \in Requests, CommitGrade(r) PROVE Informed
  <2> SUFFICES ASSUME NEW i \in Inscriptions, NEW v \in Graded(i),
                      grade'[i][v] # grade[i][v]
               PROVE  /\ grade'[i][v].version = grade[i][v].version + 1
                      /\ pc[r] = "commit" /\ call[r].ins = i /\ call[r].ev = v
                      /\ call[r].expected = grade[i][v].version
    OBVIOUS
  <2>1. RecordLocal("commit", call[r]) /\ pc[r] = "commit"
    BY <1>1 DEF IInv, CommitGrade, Local, Recorders, Recording
  <2>2. PICK j, w, g :
          /\ j = call[r].ins /\ w = call[r].ev
          /\ g = [version |-> grade[j][w].version + 1, value |-> call[r].value]
    OBVIOUS
  <2>3. j \in Inscriptions /\ w \in Evaluations
    BY <2>1, <2>2 DEF RecordLocal, RecordCall
  <2>4. grade' = [grade EXCEPT ![j][w] = g]
    BY <1>1, <2>2, <2>3 DEF CommitGrade, IInv, TypeOK
  <2>5. i = j /\ v = w /\ grade'[i][v] = g
    BY <1>1, <2>3, <2>4 DEF IInv, TypeOK, Graded
  <2>6. grade[i][v].version # 0
    BY <1>1 DEF Graded, IInv, TypeOK
  <2> QED
    BY <2>1, <2>2, <2>5, <2>6 DEF RecordLocal
<1>2. ASSUME Next, UNCHANGED grade PROVE Informed
  BY <1>2
<1>3. ASSUME Next PROVE UNCHANGED grade \/ \E r \in Requests : CommitGrade(r)
  <2>1. ASSUME NEW r \in Requests, Record(r) PROVE UNCHANGED grade \/ CommitGrade(r)
    BY <2>1 DEF Record, LockInscription, ListEvaluations, InsertGrade, ReadGrade,
         UpdateGrade, ReadSiblings, LockTimeout, tables
  <2>2. ASSUME NEW r \in Requests, Replace(r) \/ Abort(r) PROVE UNCHANGED grade
    BY <2>2 DEF Replace, CheckNoScheme, LockEvaluations, CountGrades, SeeEvaluations,
         SoftDelete, PlaceScheme, Abort, tables
  <2>3. ASSUME NEW r \in Requests, NEW S \in Schemes,
               CreateScheme(r, S) \/ RecreateScheme(r, S)
        PROVE  UNCHANGED grade
    BY <2>3 DEF CreateScheme, RecreateScheme, StartScheme, tables
  <2>4. ASSUME NEW r \in Requests, NEW i \in Inscriptions, NEW v \in Evaluations,
               NEW x \in Values, NEW n \in 0..MaxVersion - 1, NEW override \in BOOLEAN,
               RecordGrade(r, i, v, x, n, override)
        PROVE  UNCHANGED grade
    BY <2>4 DEF RecordGrade, tables
  <2>5. ASSUME NEW i \in Inscriptions, WithdrawSection(i) \/ ReviveInscription(i)
        PROVE  UNCHANGED grade
    BY <2>5 DEF WithdrawSection, ReviveInscription
  <2> QED
    BY <1>3, <2>1, <2>2, <2>3, <2>4, <2>5 DEF Next
<1>4. IInv /\ [Next]_vars => [Informed]_vars
  BY <1>1, <1>2, <1>3
<1> QED
  BY <1>4, Invariance, PTL DEF Spec, NoBlindOverwrite
-----------------------------------------------------------------------------
(***************************************************************************)
(* The transactions implement the ledger.                                  *)
(***************************************************************************)
\* A session past its lock works on an inscription that is not withdrawn: a
\* withdrawal waits for the row.
HeldOpen == \A r \in Requests : pc[r] \in Recording => status[call[r].ins] # "withdrawn"

\* The step commits a grade, puts a scheme in place, or moves a status.
Places(r) ==
  /\ PlaceScheme(r)
  /\ Live \ call[r].dropped = {}
  /\ evaluation' = [v \in Evaluations |->
                      IF v \in call[r].new THEN "live"
                      ELSE IF v \in call[r].dropped THEN "deleted" ELSE evaluation[v]]

TableStep ==
  \/ UNCHANGED tables
  \/ \E r \in Requests : CommitGrade(r) \/ Places(r)
  \/ \E i \in Inscriptions : WithdrawSection(i) \/ ReviveInscription(i)

\* No other step touches the tables.
LEMMA TableSteps == [Next]_vars => TableStep
<1> SUFFICES ASSUME [Next]_vars PROVE TableStep
  OBVIOUS
<1>1. ASSUME NEW r \in Requests, Record(r) PROVE TableStep
  BY <1>1 DEF Record, LockInscription, ListEvaluations, InsertGrade, ReadGrade, UpdateGrade,
              ReadSiblings, LockTimeout, TableStep, tables
<1>2. ASSUME NEW r \in Requests, Replace(r) PROVE TableStep
  <2>1. CASE PlaceScheme(r)
    BY <2>1 DEF PlaceScheme, Places, TableStep, tables
  <2> QED
    BY <1>2, <2>1 DEF Replace, CheckNoScheme, LockEvaluations, CountGrades, SeeEvaluations,
                      SoftDelete, TableStep
<1>3. ASSUME NEW r \in Requests, Abort(r) PROVE TableStep
  BY <1>3 DEF Abort, TableStep
<1>4. ASSUME NEW r \in Requests, NEW S \in Schemes, CreateScheme(r, S) \/ RecreateScheme(r, S)
      PROVE  TableStep
  BY <1>4 DEF CreateScheme, RecreateScheme, StartScheme, TableStep
<1>5. ASSUME NEW r \in Requests, NEW i \in Inscriptions, NEW v \in Evaluations,
             NEW x \in Values, NEW n \in 0..MaxVersion - 1, NEW override \in BOOLEAN,
             RecordGrade(r, i, v, x, n, override)
      PROVE  TableStep
  BY <1>5 DEF RecordGrade, TableStep
<1>6. ASSUME NEW i \in Inscriptions, WithdrawSection(i) \/ ReviveInscription(i)
      PROVE  TableStep
  BY <1>6 DEF TableStep
<1>7. CASE UNCHANGED vars
  BY <1>7 DEF vars, tables, TableStep
<1> QED
  BY <1>1, <1>2, <1>3, <1>4, <1>5, <1>6, <1>7 DEF Next

\* A session that holds an inscription has found it open or held it already.
LEMMA HolderWasOpen ==
  ASSUME IInv, HeldOpen, [Next]_vars, NEW r \in Requests, pc'[r] \in Recording
  PROVE  /\ call'[r].ins = call[r].ins
         /\ status[call[r].ins] # "withdrawn"
         /\ pc[r] \in Recording \/ InscriptionFree(call[r].ins)
<1> DEFINE Goal == /\ call'[r].ins = call[r].ins
                   /\ status[call[r].ins] # "withdrawn"
                   /\ pc[r] \in Recording \/ InscriptionFree(call[r].ins)
<1>1. TypeOK /\ (pc[r] \in Recording => status[call[r].ins] # "withdrawn")
  BY DEF IInv, HeldOpen
<1>2. ASSUME NEW q \in Requests, Finish(q) PROVE Goal
  BY <1>1, <1>2 DEF TypeOK, Finish, GoTo, Recording
<1>3. ASSUME NEW q \in Requests, Record(q) PROVE Goal
  <2>1. CASE LockInscription(q)
    BY <1>1, <1>2, <2>1 DEF LockInscription, TypeOK, GoTo, Recording
  <2>2. CASE ListEvaluations(q) \/ ReadGrade(q) \/ ReadSiblings(q)
    <3>1. \/ Finish(q)
          \/ /\ pc[q] \in Recording
             /\ \A p \in Requests \ {q} : pc'[p] = pc[p] /\ call'[p] = call[p]
             /\ call'[q].ins = call[q].ins
      <4>1. call[q] \in RecordCall \/ pc[q] \notin Recording
        BY <1>1 DEF TypeOK
      <4> QED
        BY <1>1, <2>2, <4>1 DEF ListEvaluations, ReadGrade, ReadSiblings, TypeOK, GoTo, Recording,
                                RecordCall
    <3> QED
      BY <1>1, <1>2, <3>1
  <2>3. CASE InsertGrade(q) \/ UpdateGrade(q)
    BY <1>1, <1>2, <2>3 DEF InsertGrade, UpdateGrade, TypeOK, GoTo, Recording
  <2>4. CASE CommitGrade(q) \/ LockTimeout(q)
    BY <1>2, <2>4 DEF CommitGrade, LockTimeout
  <2> QED
    BY <1>3, <2>1, <2>2, <2>3, <2>4 DEF Record
<1>4. ASSUME NEW q \in Requests, Replace(q) PROVE Goal
  <2>1. \/ Finish(q)
        \/ /\ pc'[q] \notin Recording
           /\ \A p \in Requests \ {q} : pc'[p] = pc[p] /\ call'[p] = call[p]
    BY <1>1, <1>4 DEF Replace, CheckNoScheme, LockEvaluations, CountGrades, SeeEvaluations,
                      SoftDelete, PlaceScheme, TypeOK, GoTo, Recording
  <2> QED
    BY <1>1, <1>2, <2>1
<1>5. ASSUME NEW q \in Requests, Abort(q) PROVE Goal
  BY <1>2, <1>5 DEF Abort
<1>6. ASSUME NEW q \in Requests, NEW S \in Schemes, CreateScheme(q, S) \/ RecreateScheme(q, S)
      PROVE  Goal
  BY <1>1, <1>6 DEF CreateScheme, RecreateScheme, StartScheme, TypeOK, GoTo, Recording
<1>7. ASSUME NEW q \in Requests, NEW i \in Inscriptions, NEW v \in Evaluations,
             NEW x \in Values, NEW n \in 0..MaxVersion - 1, NEW override \in BOOLEAN,
             RecordGrade(q, i, v, x, n, override)
      PROVE  Goal
  BY <1>1, <1>7 DEF RecordGrade, TypeOK, GoTo, Recording
<1>8. ASSUME NEW i \in Inscriptions, WithdrawSection(i) \/ ReviveInscription(i)
      PROVE  Goal
  BY <1>1, <1>8 DEF WithdrawSection, ReviveInscription
<1>9. CASE UNCHANGED vars
  BY <1>1, <1>9 DEF vars
<1> QED
  BY <1>3, <1>4, <1>5, <1>6, <1>7, <1>8, <1>9 DEF Next

\* Only a withdrawal makes a status withdrawn, and it waits for the row.
LEMMA HeldOpenKeeps == IInv /\ HeldOpen /\ [Next]_vars => HeldOpen'
<1> SUFFICES ASSUME IInv, HeldOpen, [Next]_vars, NEW r \in Requests, pc'[r] \in Recording
             PROVE  status'[call'[r].ins] # "withdrawn"
  BY DEF HeldOpen
<1>1. /\ call'[r].ins = call[r].ins
      /\ status[call[r].ins] # "withdrawn"
      /\ pc[r] \in Recording \/ InscriptionFree(call[r].ins)
  BY HolderWasOpen
<1>2. TypeOK /\ TypeOK'
  BY NextKeeps DEF IInv
<1>0. call[r].ins \in Inscriptions
  BY <1>1, <1>2 DEF TypeOK, RecordCall
<1>3. CASE UNCHANGED status
  BY <1>1, <1>3
<1>4. ASSUME NEW q \in Requests, CommitGrade(q) PROVE status'[call[r].ins] # "withdrawn"
  <2>1. CASE status' = status
    BY <1>1, <2>1
  <2>2. CASE \E x : status' = [status EXCEPT ![call[q].ins] = OutcomeOf(x)]
    <3>1. PICK x : status' = [status EXCEPT ![call[q].ins] = OutcomeOf(x)]
      BY <2>2
    <3>2. OutcomeOf(x) # "withdrawn"
      BY DEF OutcomeOf
    <3>3. status = [i \in Inscriptions |-> status[i]]
      BY <1>2 DEF TypeOK
    <3>4. status'[call[r].ins] \in {OutcomeOf(x), status[call[r].ins]}
      BY <1>0, <3>1, <3>3
    <3> QED
      BY <1>1, <3>2, <3>4
  <2> QED
    BY <1>4, <2>1, <2>2 DEF CommitGrade
<1>5. ASSUME NEW i \in Inscriptions, WithdrawSection(i)
      PROVE  status'[call[r].ins] # "withdrawn"
  <2>1. pc' = pc /\ InscriptionFree(i)
    BY <1>5 DEF WithdrawSection
  <2>2. call[r].ins # i
    BY <2>1 DEF InscriptionFree
  <2> QED
    BY <1>0, <1>1, <1>2, <1>5, <2>2 DEF WithdrawSection, TypeOK
<1>6. ASSUME NEW i \in Inscriptions, ReviveInscription(i)
      PROVE  status'[call[r].ins] # "withdrawn"
  BY <1>0, <1>1, <1>2, <1>6 DEF ReviveInscription, TypeOK
<1>7. ASSUME NEW q \in Requests, Places(q) PROVE status' = status
  BY <1>7 DEF Places, PlaceScheme
<1> QED
  BY <1>1, <1>3, <1>4, <1>5, <1>6, <1>7, TableSteps DEF TableStep, tables

\* While a session records or corrects a grade, no withdrawal takes its inscription.
THEOREM HeldStayOpen == Spec => []HeldOpen
<1>1. Init => HeldOpen
  BY DEF Init, HeldOpen, Recording
<1> QED
  BY <1>1, HeldOpenKeeps, Invariance, PTL DEF Spec

\* The ledger computes a final grade the way the component does.
LEMMA LedgerFinal ==
  ASSUME NEW f, NEW w, NEW S
  PROVE  Ledger!WeightedFinal(f, w, S) = WeightedFinal(f, w, S)
BY DEF Ledger!WeightedFinal, WeightedFinal, Ledger!Rounded, Rounded, Ledger!WeightedSum,
       WeightedSum, Ledger!SumFunction, SumFunction, Ledger!SumFunctionOnSet, SumFunctionOnSet,
       Ledger!FoldFunctionOnSet, FoldFunctionOnSet, Ledger!MapThenFoldSet, MapThenFoldSet

\* A commit is the ledger's recording or correction of that grade, at once.
LEMMA CommitIsWrite ==
  ASSUME IInv, HeldOpen, NEW r \in Requests, CommitGrade(r)
  PROVE  Ledger!Next
<1> DEFINE i == call[r].ins
           v == call[r].ev
           x == call[r].value
           S == call[r].scheme
<1>1. RecordLocal("commit", call[r]) /\ pc[r] = "commit" /\ "commit" \in Recording
  BY DEF IInv, CommitGrade, Local, Recorders, Recording
<1>2. /\ i \in Inscriptions /\ v \in Evaluations /\ x \in Values
      /\ S \in Schemes /\ v \in S /\ S \subseteq Born
      /\ call[r].decides = (Graded(i) \cup {v} = S)
  BY <1>1 DEF RecordLocal, RecordCall, Past, Recording
<1>3. \/ call[r].old = 0 /\ grade[i][v].version = 0
      \/ call[r].old = grade[i][v].value /\ grade[i][v].version # 0
  BY <1>1 DEF RecordLocal
<1>4. status[i] # "withdrawn"
  BY <1>1 DEF HeldOpen
<1>5. Ledger!Graded(i) = Graded(i)
  BY DEF Ledger!Graded, Graded
<1>6. grade[i][v].version \in Nat /\ (grade[i][v].version # 0 => grade[i][v].value # 0)
  <2>1. grade[i][v].version \in 0..MaxVersion
    BY <1>2 DEF IInv, TypeOK
  <2>2. grade[i][v].version # 0 => grade[i][v].value \in Values
    BY <1>2 DEF IInv, GradesKept
  <2> QED
    BY <2>1, <2>2, ValuesOnScale, GradesAssumption
<1>7. v \in Graded(i) <=> call[r].old # 0
  BY <1>2, <1>3, <1>6 DEF Graded
<1> DEFINE values0 == [ValueOf(i) EXCEPT ![v] = x]
           values1 == [u \in Evaluations |-> IF u = v THEN x ELSE grade[i][u].value]
<1>8. values0 = values1
  BY <1>2 DEF ValueOf
<1>9. Ledger!Decide(i, v, S, x)
  <2>1. \A y : Ledger!OutcomeOf(y) = OutcomeOf(y)
    BY DEF Ledger!OutcomeOf, OutcomeOf, Ledger!PassMark, PassMark
  <2>2. Ledger!WeightedFinal(values1, Weight, S) = WeightedFinal(values0, Weight, S)
    BY <1>8, LedgerFinal
  <2> DEFINE outcome == WeightedFinal(values0, Weight, S)
  <2>3. IF call[r].decides
        THEN /\ final' = [final EXCEPT ![i] = outcome]
             /\ status' = [status EXCEPT ![i] = OutcomeOf(outcome)]
        ELSE UNCHANGED <<final, status>>
    BY DEF CommitGrade
  <2>4. IF Ledger!Graded(i) \cup {v} = S
        THEN /\ final' = [final EXCEPT ![i] = Ledger!WeightedFinal(values1, Weight, S)]
             /\ status' = [status EXCEPT ![i] =
                             Ledger!OutcomeOf(Ledger!WeightedFinal(values1, Weight, S))]
        ELSE UNCHANGED <<final, status>>
    <3> HIDE DEF values0, values1, i, v, S, outcome
    <3> QED
      BY <1>2, <1>5, <2>1, <2>2, <2>3 DEF outcome
  <2> QED
    BY <2>4 DEF Ledger!Decide
<1>10. Ledger!Write(i, v, S, x)
  <2>1. grade' = [grade EXCEPT ![i][v] = [version |-> @.version + 1, value |-> x]]
    BY DEF CommitGrade
  <2>2. \A u \in S : evaluation[u] # "unborn"
    BY <1>2 DEF Born
  <2>3. evaluation' = evaluation
    BY DEF CommitGrade
  <2> HIDE DEF i, v, x, S
  <2> QED
    BY <1>2, <1>4, <1>9, <2>1, <2>2, <2>3 DEF Ledger!Write
<1>11. CASE call[r].old = 0
  <2>1. audit' = audit
    BY <1>11 DEF CommitGrade
  <2>2. Ledger!Record(i, v, S, x)
    BY <1>5, <1>7, <1>10, <1>11, <2>1 DEF Ledger!Record
  <2> HIDE DEF i, v, x, S
  <2> QED
    BY <1>2, <2>2 DEF Ledger!Next
<1>12. CASE call[r].old # 0
  <2>1. audit' = [audit EXCEPT ![i][v] = Append(@, <<grade[i][v].value, x>>)]
    BY <1>3, <1>12 DEF CommitGrade
  <2>2. Ledger!Correct(i, v, S, x)
    BY <1>5, <1>7, <1>10, <1>12, <2>1 DEF Ledger!Correct
  <2> HIDE DEF i, v, x, S
  <2> QED
    BY <1>2, <2>2 DEF Ledger!Next
<1> QED
  BY <1>11, <1>12

\* A scheme in place is the ledger's new scheme: all of the old one goes.
LEMMA PlaceIsSubmit ==
  ASSUME IInv, NEW r \in Requests, Places(r)
  PROVE  Ledger!Next
<1> DEFINE S == call[r].new
           gone == call[r].dropped
<1>1. SchemeLocal(call[r])
  BY DEF Places, PlaceScheme, IInv, Local, Placers, Placing
<1>2. S \in Schemes /\ S \subseteq Evaluations /\ S \cap Born = {} /\ gone \subseteq Born
  BY <1>1, GradesAssumption DEF SchemeLocal, SchemeCall
<1>3. \A v \in S : evaluation[v] = "unborn"
  BY <1>2 DEF Born
<1>4. evaluation' = [v \in Evaluations |->
                       IF v \in S THEN "live"
                       ELSE IF evaluation[v] = "live" THEN "deleted" ELSE evaluation[v]]
  <2>1. \A v \in Evaluations :
          evaluation[v] = "live" => v \in gone
    BY DEF Places, Live
  <2>2. \A v \in gone : evaluation[v] \in {"live", "deleted"}
    BY <1>2 DEF Born, IInv, TypeOK
  <2>3. \A v \in Evaluations :
          (IF v \in gone THEN "deleted" ELSE evaluation[v])
            = (IF evaluation[v] = "live" THEN "deleted" ELSE evaluation[v])
    BY <2>1, <2>2
  <2>4. evaluation' = [v \in Evaluations |->
                         IF v \in S THEN "live"
                         ELSE IF v \in gone THEN "deleted" ELSE evaluation[v]]
    BY DEF Places
  <2> HIDE DEF S, gone
  <2> QED
    BY <2>3, <2>4
<1>5. Ledger!Submit(S)
  BY <1>3, <1>4 DEF Ledger!Submit, Places, PlaceScheme
<1> HIDE DEF S
<1> QED
  BY <1>2, <1>5 DEF Ledger!Next

\* The transactions implement the ledger, for any number of sessions, inscriptions,
\* evaluations and schemes: what a grade's statements do is done at once at its commit.
THEOREM LedgerImplemented == Spec => ImplementsLedger
<1>1. Init => Ledger!Init
  BY DEF Init, Ledger!Init
<1>2. IInv /\ HeldOpen /\ [Next]_vars => [Ledger!Next]_(Ledger!ledgerVars)
  <2> SUFFICES ASSUME IInv, HeldOpen, [Next]_vars
               PROVE  [Ledger!Next]_(Ledger!ledgerVars)
    OBVIOUS
  <2>1. CASE UNCHANGED tables
    BY <2>1 DEF tables, Ledger!ledgerVars
  <2>2. ASSUME NEW i \in Inscriptions, WithdrawSection(i) PROVE Ledger!Next
    BY <2>2 DEF WithdrawSection, Ledger!Withdraw, Ledger!Next
  <2>3. ASSUME NEW i \in Inscriptions, ReviveInscription(i) PROVE Ledger!Next
    BY <2>3 DEF ReviveInscription, Ledger!Revive, Ledger!Next
  <2> QED
    BY <2>1, <2>2, <2>3, CommitIsWrite, PlaceIsSubmit, TableSteps DEF TableStep
<1> QED
  BY <1>1, <1>2, Invariance, HeldStayOpen, PTL DEF Spec, ImplementsLedger, Ledger!Spec
-----------------------------------------------------------------------------
(***************************************************************************)
(* Induction: a set of counterexamples has a least element.                *)
(***************************************************************************)
\* A set of natural numbers that is not empty has a least element.
LEMMA LeastElement ==
  ASSUME NEW T, T \subseteq Nat, T # {}
  PROVE  \E m \in T : \A n \in T : m <= n
<1>1. IsWellFoundedOn(OpToRel(<, Nat), Nat)
  BY NatLessThanWellFounded
<1>2. PICK m \in T : \A n \in T : <<n, m>> \notin OpToRel(<, Nat)
  BY <1>1, WFMin
<1>3. \A n \in T : ~ (n < m)
  BY <1>2 DEF OpToRel
<1> QED
  BY <1>3

\* Induction up to n: a set that holds 0 and the successor of each of its members
\* holds every number up to n.
LEMMA CountUp ==
  ASSUME NEW n \in Nat, NEW S, 0 \in S, \A k \in 1..n : k - 1 \in S => k \in S
  PROVE  0..n \subseteq S
<1> DEFINE Missing == (0..n) \ S
<1> SUFFICES ASSUME Missing # {} PROVE FALSE
  OBVIOUS
<1>0. Missing \subseteq Nat
  OBVIOUS
<1>1. PICK m \in Missing : \A k \in Missing : m <= k
  <2> HIDE DEF Missing
  <2> QED
    BY <1>0, LeastElement
<1>2. m \in 1..n /\ m - 1 \in 0..n
  OBVIOUS
<1>3. m - 1 \in S
  BY <1>1, <1>2
<1> QED
  BY <1>2, <1>3

\* Induction over the subsets of a finite set: what holds {} and, with each of its
\* members, that member with one element more, holds the whole set.
LEMMA AddOneByOne ==
  ASSUME NEW S, IsFiniteSet(S), NEW G, {} \in G,
         \A T \in SUBSET S : \A x \in S \ T : T \in G => T \cup {x} \in G
  PROVE  S \in G
<1> SUFFICES ASSUME S \notin G PROVE FALSE
  OBVIOUS
<1> DEFINE Bad == {T \in SUBSET S : T \notin G}
           Sizes == {Cardinality(T) : T \in Bad}
<1>1. \A T \in SUBSET S : IsFiniteSet(T) /\ Cardinality(T) \in Nat
  BY FS_Subset, FS_CardinalityType
<1>2. PICK m \in Sizes : \A n \in Sizes : m <= n
  <2>1. Sizes \subseteq Nat /\ Sizes # {}
    BY <1>1
  <2> HIDE DEF Sizes
  <2> QED
    BY <2>1, LeastElement
<1>3. PICK T \in Bad : Cardinality(T) = m
  OBVIOUS
<1>4. PICK x : x \in T
  BY <1>3
<1>5. Cardinality(T \ {x}) = m - 1 /\ m \in Nat
  <2>1. IsFiniteSet(T) /\ Cardinality(T) \in Nat
    BY <1>1, <1>3
  <2> QED
    BY <1>3, <1>4, <2>1, FS_RemoveElement
<1>6. T \ {x} \in SUBSET S /\ T \ {x} \notin Bad
  BY <1>1, <1>2, <1>3, <1>5
<1>7. (T \ {x}) \cup {x} \in G
  BY <1>3, <1>4, <1>6
<1> QED
  BY <1>3, <1>4, <1>7
-----------------------------------------------------------------------------
(***************************************************************************)
(* Weighted sums, which the code adds up in the order of the rows.         *)
(***************************************************************************)
\* h is the sum of g over the subsets of S, taken apart the way the fold does.
FoldsOver(g, S, h) ==
  h = [s \in SUBSET S |-> IF s = {} THEN 0
                          ELSE LET x == CHOOSE x \in s : TRUE IN g[x] + h[s \ {x}]]

\* The same on the subsets of at most n elements.
FoldsUpTo(g, S, h, n) ==
  \A s \in SUBSET S : Cardinality(s) <= n =>
    h[s] = IF s = {} THEN 0
           ELSE LET x == CHOOSE x \in s : TRUE IN g[x] + h[s \ {x}]

\* There is such a function, built up by the size of the subsets.
LEMMA FoldExists ==
  ASSUME NEW S, IsFiniteSet(S), NEW g
  PROVE  \E h : FoldsOver(g, S, h)
<1> DEFINE n == Cardinality(S)
           Done == {k \in 0..n : \E h : FoldsUpTo(g, S, h, k)}
<1>1. \A T \in SUBSET S : IsFiniteSet(T) /\ Cardinality(T) \in Nat /\ Cardinality(T) <= n
  BY FS_Subset, FS_CardinalityType
<1>2. 0 \in Done
  <2> DEFINE h == [s \in SUBSET S |-> 0]
  <2>1. \A s \in SUBSET S : Cardinality(s) <= 0 => s = {}
    BY <1>1, FS_EmptySet
  <2>2. FoldsUpTo(g, S, h, 0)
    BY <2>1 DEF FoldsUpTo
  <2>3. 0 \in 0..n
    BY <1>1
  <2> QED
    BY <2>2, <2>3
<1>3. ASSUME NEW k \in 1..n, k - 1 \in Done
      PROVE  k \in Done
  <2>1. PICK h : FoldsUpTo(g, S, h, k - 1)
    BY <1>3
  <2> DEFINE Of(s) == IF s = {} THEN 0 ELSE g[CHOOSE x \in s : TRUE] + h[s \ {CHOOSE x \in s : TRUE}]
             H == [s \in SUBSET S |-> Of(s)]
  <2>2. \A s \in SUBSET S : Cardinality(s) <= k - 1 => h[s] = Of(s)
    BY <2>1 DEF FoldsUpTo
  <2>3. ASSUME NEW s \in SUBSET S, Cardinality(s) <= k, s # {}
        PROVE  H[s] = LET x == CHOOSE x \in s : TRUE IN g[x] + H[s \ {x}]
    <3> DEFINE x == CHOOSE x \in s : TRUE
               r == s \ {x}
    <3>1. x \in s
      BY <2>3
    <3>2. r \in SUBSET S /\ Cardinality(r) = Cardinality(s) - 1
      BY <1>1, <3>1, FS_RemoveElement
    <3>3. Cardinality(r) <= k - 1
      BY <1>1, <2>3, <3>2
    <3>4. H[r] = h[r]
      BY <2>2, <3>2, <3>3
    <3>5. H[s] = g[x] + h[r]
      BY <2>3
    <3> HIDE DEF H
    <3> QED
      BY <3>4, <3>5
  <2>4. FoldsUpTo(g, S, H, k)
    <3>1. H[{}] = 0
      OBVIOUS
    <3> HIDE DEF H
    <3> QED
      BY <2>3, <3>1 DEF FoldsUpTo
  <2> QED
    BY <2>4
<1>4. n \in Done
  <2>1. n \in Nat
    BY <1>1
  <2> HIDE DEF n, Done
  <2>2. 0..n \subseteq Done
    BY <1>2, <1>3, <2>1, CountUp
  <2> QED
    BY <2>1, <2>2
<1>5. PICK h : FoldsUpTo(g, S, h, n)
  BY <1>4
<1> DEFINE H == [s \in SUBSET S |-> h[s]]
<1>6. \A s \in SUBSET S : s # {} => s \ {CHOOSE x \in s : TRUE} \in SUBSET S
  OBVIOUS
<1>7. FoldsOver(g, S, H)
  BY <1>1, <1>5, <1>6 DEF FoldsUpTo, FoldsOver
<1> QED
  BY <1>7

\* For natural summands any element may be taken first.
LEMMA FoldAnyOrder ==
  ASSUME NEW S, IsFiniteSet(S), NEW g, \A x \in S : g[x] \in Nat,
         NEW h, FoldsOver(g, S, h)
  PROVE  \A T \in SUBSET S : h[T] \in Nat /\ \A x \in T : h[T] = g[x] + h[T \ {x}]
<1> DEFINE n == Cardinality(S)
           Fine(T) == h[T] \in Nat /\ \A x \in T : h[T] = g[x] + h[T \ {x}]
           Done == {k \in 0..n : \A T \in SUBSET S : Cardinality(T) <= k => Fine(T)}
<1>1. \A T \in SUBSET S : IsFiniteSet(T) /\ Cardinality(T) \in Nat /\ Cardinality(T) <= n
  BY FS_Subset, FS_CardinalityType
<1>2. n \in Nat
  BY <1>1
<1>3. h[{}] = 0
  BY DEF FoldsOver
<1>4. \A T \in SUBSET S : T # {} =>
        \E y \in T : h[T] = g[y] + h[T \ {y}]
  BY DEF FoldsOver
<1>5. \A T \in SUBSET S : \A x \in T :
        T \ {x} \in SUBSET S /\ Cardinality(T \ {x}) = Cardinality(T) - 1
  BY <1>1, FS_RemoveElement
<1>6. 0 \in Done
  <2>1. \A T \in SUBSET S : Cardinality(T) <= 0 => T = {}
    BY <1>1, FS_EmptySet
  <2> QED
    BY <1>2, <1>3, <2>1
<1>7. ASSUME NEW k \in 1..n, k - 1 \in Done
      PROVE  k \in Done
  <2>0. \A T \in SUBSET S : Cardinality(T) <= k - 1 => Fine(T)
    BY <1>7
  <2> SUFFICES ASSUME NEW T \in SUBSET S, Cardinality(T) = k
               PROVE  Fine(T)
    <3> HIDE DEF Fine
    <3> QED
      BY <1>1, <1>2, <2>0
  <2>1. T # {}
    BY FS_EmptySet
  <2>2. PICK y \in T : h[T] = g[y] + h[T \ {y}]
    BY <1>4, <2>1
  <2>3. \A x \in T : Fine(T \ {x})
    <3> SUFFICES ASSUME NEW x \in T
                 PROVE  Fine(T \ {x})
      OBVIOUS
    <3>1. T \ {x} \in SUBSET S /\ Cardinality(T \ {x}) = k - 1
      BY <1>5
    <3>2. Cardinality(T \ {x}) <= k - 1
      BY <1>2, <3>1
    <3> HIDE DEF Fine
    <3> QED
      BY <2>0, <3>1, <3>2
  <2>4. h[T] \in Nat
    BY <2>2, <2>3
  <2>5. ASSUME NEW x \in T, x # y
        PROVE  h[T] = g[x] + h[T \ {x}]
    <3> DEFINE r == (T \ {y}) \ {x}
    <3>1. r = (T \ {x}) \ {y} /\ x \in T \ {y} /\ y \in T \ {x}
      BY <2>5
    <3>2. h[T \ {y}] = g[x] + h[r]
      BY <2>3, <3>1
    <3>3. h[T \ {x}] = g[y] + h[r]
      BY <2>3, <3>1
    <3>4. h[r] \in Nat
      <4>1. T \ {y} \in SUBSET S /\ Cardinality(T \ {y}) = k - 1
        BY <1>5
      <4>2. r \in SUBSET S /\ Cardinality(r) = (k - 1) - 1
        BY <1>5, <3>1, <4>1
      <4>3. Cardinality(r) <= k - 1
        BY <1>2, <4>2
      <4> QED
        BY <2>0, <4>2, <4>3
    <3> QED
      BY <2>2, <3>2, <3>3, <3>4
  <2> QED
    BY <2>2, <2>4, <2>5
<1>8. \A k \in 0..n : k \in Done
  <2> HIDE DEF n, Done
  <2> QED
    BY <1>2, <1>6, <1>7, CountUp
<1> QED
  BY <1>1, <1>2, <1>8

\* Two folds of summands that agree on R agree on R.
LEMMA FoldsAgree ==
  ASSUME NEW S, IsFiniteSet(S), NEW R \in SUBSET S, NEW g, NEW f,
         \A x \in S : g[x] \in Nat, \A x \in R : f[x] = g[x],
         NEW h, FoldsOver(g, S, h), NEW i, FoldsOver(f, R, i)
  PROVE  h[R] = i[R]
<1> DEFINE G == {T \in SUBSET R : h[T] = i[T]}
<1>1. IsFiniteSet(R)
  BY FS_Subset
<1>2. {} \in G
  BY DEF FoldsOver
<1>3. ASSUME NEW T \in SUBSET R, NEW x \in R \ T, T \in G
      PROVE  T \cup {x} \in G
  <2> DEFINE U == T \cup {x}
  <2>1. U \in SUBSET S /\ U \in SUBSET R /\ x \in U /\ U \ {x} = T
    BY <1>3
  <2>2. h[U] = g[x] + h[T]
    BY <2>1, FoldAnyOrder
  <2>3. i[U] = f[x] + i[T]
    BY <1>1, <2>1, FoldAnyOrder
  <2> QED
    BY <1>3, <2>1, <2>2, <2>3
<1> HIDE DEF G
<1>4. R \in G
  BY <1>1, <1>2, <1>3, AddOneByOne
<1> QED
  BY <1>4 DEF G

\* The sum of the community modules is that function at the whole set.
LEMMA SumIsFold ==
  ASSUME NEW S, IsFiniteSet(S), NEW g
  PROVE  \E h : FoldsOver(g, S, h) /\ SumFunctionOnSet(g, S) = h[S]
<1> DEFINE h == CHOOSE h : h = [s \in SUBSET S |->
                  IF s = {} THEN 0
                  ELSE LET x == CHOOSE x \in s : TRUE IN g[x] + h[s \ {x}]]
<1>1. \E i : FoldsOver(g, S, i)
  BY FoldExists
<1>2. FoldsOver(g, S, h)
  BY <1>1 DEF FoldsOver
<1>3. SumFunctionOnSet(g, S) = h[S]
  BY DEF SumFunctionOnSet, FoldFunctionOnSet, MapThenFoldSet
<1> QED
  BY <1>2, <1>3

\* The weighted sum of no evaluation.
LEMMA WeightedSumEmpty ==
  ASSUME NEW f, NEW w
  PROVE  WeightedSum(f, w, {}) = 0
<1> DEFINE g == [v \in {} |-> f[v] * w[v]]
<1>1. PICK h : FoldsOver(g, {}, h) /\ SumFunctionOnSet(g, {}) = h[{}]
  BY FS_EmptySet, SumIsFold
<1>2. h[{}] = 0
  BY <1>1 DEF FoldsOver
<1> QED
  BY <1>1, <1>2 DEF WeightedSum, SumFunction

\* Any evaluation may be the one that is added last.
LEMMA WeightedSumAdds ==
  ASSUME NEW S, IsFiniteSet(S), NEW f, NEW w,
         \A v \in S : f[v] * w[v] \in Nat, NEW x \in S
  PROVE  /\ WeightedSum(f, w, S) \in Nat
         /\ WeightedSum(f, w, S) = f[x] * w[x] + WeightedSum(f, w, S \ {x})
<1> DEFINE R == S \ {x}
           g == [v \in S |-> f[v] * w[v]]
           e == [v \in R |-> f[v] * w[v]]
<1>1. PICK h : FoldsOver(g, S, h) /\ SumFunctionOnSet(g, S) = h[S]
  BY SumIsFold
<1>2. IsFiniteSet(R) /\ R \in SUBSET S
  BY FS_RemoveElement
<1>3. PICK i : FoldsOver(e, R, i) /\ SumFunctionOnSet(e, R) = i[R]
  BY <1>2, SumIsFold
<1>4. (\A v \in S : g[v] \in Nat) /\ (\A v \in R : e[v] = g[v]) /\ g[x] = f[x] * w[x]
  BY <1>2
<1>5. WeightedSum(f, w, S) = h[S] /\ WeightedSum(f, w, R) = i[R]
  BY <1>1, <1>3 DEF WeightedSum, SumFunction
<1> HIDE DEF g, e
<1>6. h[S] \in Nat /\ h[S] = g[x] + h[R]
  BY <1>1, <1>4, FoldAnyOrder
<1>7. h[R] = i[R]
  BY <1>1, <1>2, <1>3, <1>4, FoldsAgree
<1> QED
  BY <1>4, <1>5, <1>6, <1>7

\* Naturals are closed under products.
LEMMA ProductType == \A a, b \in Nat : a * b \in Nat
OBVIOUS

\* A product grows with its first factor.
LEMMA ProductMonotone ==
  ASSUME NEW a \in Nat, NEW b \in Nat, NEW c \in Nat, a <= b
  PROVE  a * c <= b * c
OBVIOUS

\* One summand more keeps a sum between lo and hi times the weights.
LEMMA ScaledStep ==
  ASSUME NEW lo \in Nat, NEW f \in Nat, NEW hi \in Nat, NEW w \in Nat,
         NEW t \in Nat, NEW s \in Nat,
         lo <= f, f <= hi, lo * t <= s, s <= hi * t
  PROVE  lo * (w * 1 + t) <= f * w + s /\ f * w + s <= hi * (w * 1 + t)
<1>1. lo * (w * 1 + t) = lo * w + lo * t /\ hi * (w * 1 + t) = hi * w + hi * t
  OBVIOUS
<1>2. lo * w <= f * w /\ f * w <= hi * w
  BY ProductMonotone
<1>3. lo * w \in Nat /\ f * w \in Nat /\ hi * w \in Nat /\ lo * t \in Nat /\ hi * t \in Nat
  BY ProductType
<1> QED
  BY <1>1, <1>2, <1>3

\* A weighted sum of natural numbers is one.
LEMMA WeightedSumType ==
  ASSUME NEW S, IsFiniteSet(S), NEW f, NEW w, \A v \in S : f[v] * w[v] \in Nat
  PROVE  WeightedSum(f, w, S) \in Nat
<1>1. CASE S = {}
  BY <1>1, WeightedSumEmpty
<1>2. CASE S # {}
  <2>1. PICK x : x \in S
    BY <1>2
  <2> QED
    BY <2>1, WeightedSumAdds
<1> QED
  BY <1>1, <1>2

\* A subset gains one element: the lemma above the way an induction needs it.
LEMMA WeightedSumGrows ==
  ASSUME NEW S, IsFiniteSet(S), NEW f, NEW w, \A v \in S : f[v] * w[v] \in Nat,
         NEW T \in SUBSET S, NEW x \in S \ T
  PROVE  /\ WeightedSum(f, w, T) \in Nat
         /\ WeightedSum(f, w, T \cup {x}) = f[x] * w[x] + WeightedSum(f, w, T)
<1> DEFINE U == T \cup {x}
<1>1. IsFiniteSet(T) /\ IsFiniteSet(U) /\ U \in SUBSET S /\ x \in U /\ U \ {x} = T
  BY FS_Subset, FS_AddElement
<1> HIDE DEF U
<1>2. WeightedSum(f, w, T) \in Nat
  BY <1>1, WeightedSumType
<1>3. WeightedSum(f, w, U) = f[x] * w[x] + WeightedSum(f, w, U \ {x})
  <2>1. \A v \in U : f[v] * w[v] \in Nat
    BY <1>1
  <2> QED
    BY <1>1, <2>1, WeightedSumAdds
<1> QED
  BY <1>1, <1>2, <1>3 DEF U

\* A weighted sum grows with its values.
LEMMA WeightedSumMonotone ==
  ASSUME NEW S, IsFiniteSet(S), NEW f, NEW g, NEW w,
         \A v \in S : f[v] \in Nat /\ g[v] \in Nat /\ w[v] \in Nat /\ f[v] <= g[v]
  PROVE  WeightedSum(f, w, S) <= WeightedSum(g, w, S)
<1> DEFINE G == {T \in SUBSET S : WeightedSum(f, w, T) <= WeightedSum(g, w, T)}
<1>1. \A v \in S : f[v] * w[v] \in Nat /\ g[v] * w[v] \in Nat /\ f[v] * w[v] <= g[v] * w[v]
  BY ProductType, ProductMonotone
<1>2. {} \in G
  BY WeightedSumEmpty
<1>3. ASSUME NEW T \in SUBSET S, NEW x \in S \ T, T \in G
      PROVE  T \cup {x} \in G
  <2>1. WeightedSum(f, w, T) \in Nat /\ WeightedSum(g, w, T) \in Nat
    BY <1>1, WeightedSumGrows
  <2>2. WeightedSum(f, w, T \cup {x}) = f[x] * w[x] + WeightedSum(f, w, T)
    BY <1>1, WeightedSumGrows
  <2>3. WeightedSum(g, w, T \cup {x}) = g[x] * w[x] + WeightedSum(g, w, T)
    BY <1>1, WeightedSumGrows
  <2>4. WeightedSum(f, w, T) <= WeightedSum(g, w, T)
    BY <1>3
  <2>5. WeightedSum(f, w, T \cup {x}) <= WeightedSum(g, w, T \cup {x})
    BY <1>1, <2>1, <2>2, <2>3, <2>4
  <2> QED
    BY <2>5
<1> HIDE DEF G
<1>4. S \in G
  BY <1>2, <1>3, AddOneByOne
<1> QED
  BY <1>4 DEF G

\* A weighted sum lies between its least and its greatest value, each times the
\* sum of the weights.
LEMMA WeightedSumBetween ==
  ASSUME NEW S, IsFiniteSet(S), NEW f, NEW w, NEW lo \in Nat, NEW hi \in Nat,
         \A v \in S : f[v] \in lo..hi /\ w[v] \in Nat
  PROVE  LET total == WeightedSum(w, [v \in S |-> 1], S) IN
         /\ total \in Nat
         /\ lo * total <= WeightedSum(f, w, S)
         /\ WeightedSum(f, w, S) <= hi * total
<1> DEFINE one == [v \in S |-> 1]
           Of(T) == WeightedSum(w, one, T)
           G == {T \in SUBSET S : /\ lo * Of(T) <= WeightedSum(f, w, T)
                                  /\ WeightedSum(f, w, T) <= hi * Of(T)}
<1>1. \A v \in S : /\ f[v] \in Nat /\ f[v] * w[v] \in Nat
                   /\ one[v] = 1 /\ w[v] * one[v] \in Nat
                   /\ lo <= f[v] /\ f[v] <= hi
  BY ProductType
<1> HIDE DEF one
<1>2. {} \in G
  BY WeightedSumEmpty
<1>3. ASSUME NEW T \in SUBSET S, NEW x \in S \ T, T \in G
      PROVE  T \cup {x} \in G
  <2>1. WeightedSum(f, w, T) \in Nat /\ Of(T) \in Nat
    BY <1>1, WeightedSumGrows
  <2>2. WeightedSum(f, w, T \cup {x}) = f[x] * w[x] + WeightedSum(f, w, T)
    BY <1>1, WeightedSumGrows
  <2>3. Of(T \cup {x}) = w[x] * 1 + Of(T)
    <3>1. Of(T \cup {x}) = w[x] * one[x] + Of(T)
      BY <1>1, WeightedSumGrows
    <3> QED
      BY <1>1, <3>1
  <2>4. lo * Of(T) <= WeightedSum(f, w, T) /\ WeightedSum(f, w, T) <= hi * Of(T)
    BY <1>3
  <2> HIDE DEF Of
  <2>5. /\ lo * (w[x] * 1 + Of(T)) <= f[x] * w[x] + WeightedSum(f, w, T)
        /\ f[x] * w[x] + WeightedSum(f, w, T) <= hi * (w[x] * 1 + Of(T))
    <3>1. f[x] \in Nat /\ w[x] \in Nat /\ lo <= f[x] /\ f[x] <= hi
      BY <1>1
    <3> QED
      BY <2>1, <2>4, <3>1, ScaledStep
  <2> QED
    BY <2>2, <2>3, <2>5
<1>4. S \in G
  <2> HIDE DEF G
  <2> QED
    BY <1>2, <1>3, AddOneByOne
<1>5. Of(S) \in Nat
  BY <1>1, WeightedSumType
<1> QED
  BY <1>4, <1>5 DEF one
-----------------------------------------------------------------------------
\* h is the sum the book is checked against, up to n.
SumsUpTo(f, g, n, h) ==
  h = [k \in 0..n |-> IF k = 0 THEN 0 ELSE h[k - 1] + f[k] * g[k]]

\* There is such a function, built up position by position.
LEMMA SumExists ==
  ASSUME NEW f, NEW g, NEW n \in Nat
  PROVE  \E h : SumsUpTo(f, g, n, h)
<1> DEFINE Done == {k \in 0..n : \E h : SumsUpTo(f, g, k, h)}
<1>1. 0 \in Done
  <2> DEFINE h == [k \in 0..0 |-> 0]
  <2>1. SumsUpTo(f, g, 0, h)
    BY DEF SumsUpTo
  <2> QED
    BY <2>1
<1>2. ASSUME NEW k \in 1..n, k - 1 \in Done
      PROVE  k \in Done
  <2>1. PICK h : SumsUpTo(f, g, k - 1, h)
    BY <1>2
  <2> DEFINE H == [j \in 0..k |-> IF j = k THEN h[k - 1] + f[k] * g[k] ELSE h[j]]
  <2>2. SumsUpTo(f, g, k, H)
    BY <2>1 DEF SumsUpTo
  <2> QED
    BY <2>2
<1>3. n \in Done
  <2> HIDE DEF Done
  <2> QED
    BY <1>1, <1>2, CountUp
<1> QED
  BY <1>3

\* The positions up to n.
Positions(n) == 1..n

\* Its last value is the weighted sum.
LEMMA SumsAreWeighted ==
  ASSUME NEW n \in Nat, NEW f, NEW g, \A v \in Positions(n) : f[v] * g[v] \in Nat,
         NEW h, SumsUpTo(f, g, n, h)
  PROVE  h[n] = WeightedSum(f, g, 1..n)
<1> DEFINE P == Positions(n)
           Done == {k \in 0..n : h[k] = WeightedSum(f, g, 1..k)}
<1>1. h[0] = 0 /\ \A k \in 1..n : h[k] = h[k - 1] + f[k] * g[k]
  BY DEF SumsUpTo
<1>2. IsFiniteSet(P)
  BY FS_Interval DEF Positions
<1>3. ASSUME NEW T \in SUBSET P, NEW x \in P \ T
      PROVE  /\ WeightedSum(f, g, T) \in Nat
             /\ WeightedSum(f, g, T \cup {x}) = f[x] * g[x] + WeightedSum(f, g, T)
  BY <1>2, WeightedSumGrows
<1>4. 0 \in Done
  <2>1. 1..0 = {}
    OBVIOUS
  <2> QED
    BY <1>1, <2>1, WeightedSumEmpty
<1>5. ASSUME NEW k \in 1..n, k - 1 \in Done
      PROVE  k \in Done
  <2> DEFINE T == 1..(k - 1)
  <2>1. T \in SUBSET P /\ k \in P \ T
    BY DEF Positions
  <2>2. T \cup {k} = 1..k
    OBVIOUS
  <2>3. h[k - 1] = WeightedSum(f, g, T)
    BY <1>5
  <2>4. h[k] = h[k - 1] + f[k] * g[k] /\ f[k] * g[k] \in Nat
    BY <1>1 DEF Positions
  <2> HIDE DEF T
  <2>5. /\ WeightedSum(f, g, T) \in Nat
        /\ WeightedSum(f, g, T \cup {k}) = f[k] * g[k] + WeightedSum(f, g, T)
    BY <1>3, <2>1
  <2>6. h[k] = WeightedSum(f, g, 1..k)
    <3>1. WeightedSum(f, g, T \cup {k}) = h[k]
      BY <2>3, <2>4, <2>5
    <3> QED
      BY <2>2, <3>1
  <2> QED
    BY <2>6
<1>6. n \in Done
  <2> HIDE DEF Done
  <2>1. 0..n \subseteq Done
    BY <1>4, <1>5, CountUp
  <2> QED
    BY <2>1
<1> QED
  BY <1>6

\* The sum position by position is the weighted sum over all positions.
LEMMA PartialIsWeighted ==
  ASSUME NEW f, NEW g, Len(f) \in Nat, \A k \in 1..Len(f) : f[k] * g[k] \in Nat
  PROVE  PartialSum(f, g) = WeightedSum(f, g, 1..Len(f))
<1> DEFINE n == Len(f)
           h == CHOOSE h : h = [k \in 0..n |-> IF k = 0 THEN 0 ELSE h[k - 1] + f[k] * g[k]]
<1>1. SumsUpTo(f, g, n, h)
  <2>1. \E i : SumsUpTo(f, g, n, i)
    BY SumExists
  <2> QED
    BY <2>1 DEF SumsUpTo
<1>2. PartialSum(f, g) = h[n]
  BY DEF PartialSum
<1>3. n \in Nat /\ \A v \in Positions(n) : f[v] * g[v] \in Nat
  BY DEF Positions
<1> HIDE DEF h, n
<1>4. h[n] = WeightedSum(f, g, 1..n)
  BY <1>1, <1>3, SumsAreWeighted
<1> QED
  BY <1>2, <1>4 DEF n

\* Rounding keeps the order of sums.
LEMMA RoundedMonotone ==
  ASSUME NEW s \in Nat, NEW t \in Nat, s <= t
  PROVE  Rounded(s) <= Rounded(t)
BY DEF Rounded

\* A weight of (0, 1] that the column does not refuse is stored within its range.
LEMMA StoredInRange ==
  ASSUME NEW x \in Fractions, Stored(x) > 0
  PROVE  Stored(x) \in StoredWeights
BY DEF Stored, Fractions, StoredWeights

\* Summands that are each off by at most 5 make a sum that is off by at most 5 times
\* their number.
OffByFive(f, g, S) ==
  \A v \in S : /\ f[v] \in Nat /\ g[v] \in Nat
               /\ 10 * f[v] <= g[v] + 5 /\ g[v] <= 10 * f[v] + 5

\* The error of a sum of stored values, by induction over the summands.
LEMMA SumOfRounded ==
  ASSUME NEW S, IsFiniteSet(S), NEW f, NEW g, OffByFive(f, g, S)
  PROVE  LET one == [v \in S |-> 1] IN
         /\ 10 * WeightedSum(f, one, S) <= WeightedSum(g, one, S) + 5 * Cardinality(S)
         /\ WeightedSum(g, one, S) <= 10 * WeightedSum(f, one, S) + 5 * Cardinality(S)
<1> DEFINE one == [v \in S |-> 1]
           F(T) == WeightedSum(f, one, T)
           H(T) == WeightedSum(g, one, T)
           G == {T \in SUBSET S : /\ 10 * F(T) <= H(T) + 5 * Cardinality(T)
                                  /\ H(T) <= 10 * F(T) + 5 * Cardinality(T)}
<1>1. \A v \in S : f[v] * one[v] \in Nat /\ g[v] * one[v] \in Nat
  BY DEF OffByFive
<1>2. \A v \in S : f[v] * one[v] = f[v] /\ g[v] * one[v] = g[v]
  BY DEF OffByFive
<1> HIDE DEF one
<1>3. {} \in G
  BY WeightedSumEmpty, FS_EmptySet
<1>4. ASSUME NEW T \in SUBSET S, NEW x \in S \ T, T \in G
      PROVE  T \cup {x} \in G
  <2>1. F(T) \in Nat /\ F(T \cup {x}) = f[x] + F(T)
    <3>1. F(T) \in Nat
      BY <1>1, WeightedSumGrows
    <3>2. F(T \cup {x}) = f[x] * one[x] + F(T)
      BY <1>1, WeightedSumGrows
    <3> HIDE DEF F
    <3> QED
      BY <1>2, <3>1, <3>2
  <2>2. H(T) \in Nat /\ H(T \cup {x}) = g[x] + H(T)
    <3>1. H(T) \in Nat
      BY <1>1, WeightedSumGrows
    <3>2. H(T \cup {x}) = g[x] * one[x] + H(T)
      BY <1>1, WeightedSumGrows
    <3> HIDE DEF H
    <3> QED
      BY <1>2, <3>1, <3>2
  <2>3. IsFiniteSet(T) /\ Cardinality(T) \in Nat
    BY FS_Subset, FS_CardinalityType
  <2>4. Cardinality(T \cup {x}) = Cardinality(T) + 1
    BY <2>3, FS_AddElement
  <2>5. 10 * F(T) <= H(T) + 5 * Cardinality(T) /\ H(T) <= 10 * F(T) + 5 * Cardinality(T)
    BY <1>4
  <2>6. f[x] \in Nat /\ g[x] \in Nat /\ 10 * f[x] <= g[x] + 5 /\ g[x] <= 10 * f[x] + 5
    BY DEF OffByFive
  <2> HIDE DEF F, H
  <2>7. /\ 10 * F(T \cup {x}) <= H(T \cup {x}) + 5 * Cardinality(T \cup {x})
        /\ H(T \cup {x}) <= 10 * F(T \cup {x}) + 5 * Cardinality(T \cup {x})
    BY <2>1, <2>2, <2>3, <2>4, <2>5, <2>6
  <2> QED
    BY <2>7
<1>5. S \in G
  <2> HIDE DEF G
  <2> QED
    BY <1>3, <1>4, AddOneByOne
<1> QED
  BY <1>5 DEF one
-----------------------------------------------------------------------------
\* A sequence of n natural numbers.
Sequence(f, n) == f \in Seq(Nat) /\ Len(f) = n /\ DOMAIN f = Positions(n)

\* One for each position.
Ones(n) == [k \in Positions(n) |-> 1]

\* The sum of a sequence is the sum of its terms, in any order.
LEMMA TotalIsSum ==
  ASSUME NEW n \in Nat, NEW f, Sequence(f, n)
  PROVE  /\ Total(f) = WeightedSum(f, Ones(n), Positions(n))
         /\ Total(f) \in Nat
<1>1. \A k \in Positions(n) : f[k] * Ones(n)[k] \in Nat
  <2> SUFFICES ASSUME NEW k \in Positions(n)
               PROVE  f[k] * Ones(n)[k] \in Nat
    OBVIOUS
  <2>1. f[k] \in Nat
    BY ElementOfSeq DEF Sequence, Positions
  <2>2. Ones(n)[k] = 1
    BY DEF Ones
  <2> QED
    BY <2>1, <2>2
<1>2. Total(f) = PartialSum(f, Ones(n))
  BY DEF Total, Ones, Sequence
<1>3. PartialSum(f, Ones(n)) = WeightedSum(f, Ones(n), Positions(n))
  BY <1>1, PartialIsWeighted DEF Sequence, Positions
<1>4. IsFiniteSet(Positions(n))
  BY FS_Interval DEF Positions
<1>5. WeightedSum(f, Ones(n), Positions(n)) \in Nat
  BY <1>1, <1>4, WeightedSumType
<1> QED
  BY <1>2, <1>3, <1>5

\* The same error, of the sums the scheme is checked by.
LEMMA TotalOffByFive ==
  ASSUME NEW n \in Nat, NEW f, Sequence(f, n), NEW g, Sequence(g, n),
         OffByFive(f, g, Positions(n))
  PROVE  /\ 10 * Total(f) <= Total(g) + 5 * n
         /\ Total(g) <= 10 * Total(f) + 5 * n
<1>1. IsFiniteSet(Positions(n)) /\ Cardinality(Positions(n)) = n
  BY FS_Interval DEF Positions
<1>2. /\ 10 * WeightedSum(f, Ones(n), Positions(n)) <=
            WeightedSum(g, Ones(n), Positions(n)) + 5 * Cardinality(Positions(n))
      /\ WeightedSum(g, Ones(n), Positions(n)) <=
            10 * WeightedSum(f, Ones(n), Positions(n)) + 5 * Cardinality(Positions(n))
  BY <1>1, SumOfRounded DEF Ones
<1> QED
  BY <1>1, <1>2, TotalIsSum

\* w is what the weights ws are stored as.
StoredFrom(w, ws, n) == \A k \in 1..n : w[k] = Stored(ws[k])

\* What a scheme's weights are stored as adds up to one, but for half a unit a weight.
LEMMA StoredNearOne ==
  ASSUME NEW n \in Nat, NEW ws, Sequence(ws, n), Total(ws) = 10000,
         NEW w, Sequence(w, n), StoredFrom(w, ws, n)
  PROVE  2 * Total(w) <= 2000 + n /\ 2 * Total(w) >= 2000 - n
<1>1. OffByFive(w, ws, Positions(n))
  <2> SUFFICES ASSUME NEW k \in Positions(n)
               PROVE  /\ w[k] \in Nat /\ ws[k] \in Nat
                      /\ 10 * w[k] <= ws[k] + 5 /\ ws[k] <= 10 * w[k] + 5
    BY DEF OffByFive
  <2> DEFINE x == ws[k]
  <2>1. x \in Nat
    BY ElementOfSeq DEF Sequence, Positions
  <2>2. w[k] = Stored(x)
    BY DEF StoredFrom, Positions
  <2> HIDE DEF x
  <2>3. Stored(x) \in Nat /\ 10 * Stored(x) <= x + 5 /\ x <= 10 * Stored(x) + 5
    BY <2>1 DEF Stored
  <2>4. w[k] \in Nat /\ x \in Nat /\ 10 * w[k] <= x + 5 /\ x <= 10 * w[k] + 5
    BY <2>1, <2>2, <2>3
  <2> QED
    BY <2>4 DEF x
<1> QED
  BY <1>1, TotalOffByFive, TotalIsSum

-----------------------------------------------------------------------------
(***************************************************************************)
(* The grade book: its inductive invariant, then its properties.           *)
(***************************************************************************)
\* Every grade of the scheme is on record.
Complete == \A k \in DOMAIN values : values[k] # 0

\* The final grade follows the grades on record from the moment they are complete.
ResultFollows ==
  result # 0 => Complete /\ result = WeightedFinal(values, weights, DOMAIN weights)

\* The inductive invariant of the grade book.
BookIInv ==
  /\ BookTypeOK
  /\ Len(weights) <= MaxEvaluations
  /\ WeightsNearOne
  /\ weights = <<>> => result = 0
  /\ ResultFollows

\* What the type invariant says of the positions of a scheme.
LEMMA BookShape ==
  ASSUME BookTypeOK
  PROVE  /\ Len(weights) \in Nat /\ DOMAIN weights = 1..Len(weights)
         /\ DOMAIN values = 1..Len(weights)
         /\ \A k \in 1..Len(weights) : /\ weights[k] \in Nat /\ values[k] \in Nat
                                       /\ values[k] # 0 => values[k] \in Scale
         /\ result \in Nat
<1>1. weights \in Seq(StoredWeights) /\ values \in [DOMAIN weights -> {0} \cup Scale]
  BY DEF BookTypeOK
<1>2. Len(weights) \in Nat /\ DOMAIN weights = 1..Len(weights)
  BY <1>1, LenProperties
<1>3. \A k \in 1..Len(weights) : weights[k] \in StoredWeights
  BY <1>1, ElementOfSeq
<1>4. \A k \in 1..Len(weights) : values[k] \in {0} \cup Scale
  BY <1>1, <1>2
<1>5. StoredWeights \subseteq Nat /\ Scale \subseteq Nat
  BY DEF StoredWeights, Scale
<1>6. DOMAIN values = 1..Len(weights)
  BY <1>1, <1>2
<1>7. ASSUME NEW k \in 1..Len(weights)
      PROVE  /\ weights[k] \in Nat /\ values[k] \in Nat
             /\ values[k] # 0 => values[k] \in Scale
  <2>1. weights[k] \in Nat
    BY <1>3, <1>5
  <2>2. values[k] = 0 \/ values[k] \in Scale
    BY <1>4
  <2>3. values[k] \in Nat
    <3>1. CASE values[k] = 0
      BY <3>1
    <3>2. CASE values[k] \in Scale
      BY <1>5, <3>2
    <3> QED
      BY <2>2, <3>1, <3>2
  <2> QED
    BY <2>1, <2>2, <2>3, Zenon
<1> QED
  BY <1>2, <1>6, <1>7 DEF BookTypeOK

\* It holds of a course without a scheme.
LEMMA BookInitInvariant == BookInit => BookIInv
<1> SUFFICES ASSUME BookInit PROVE BookIInv
  OBVIOUS
<1>1. weights \in Seq(StoredWeights) /\ Len(weights) = 0 /\ DOMAIN weights = {}
  BY EmptySeq DEF BookInit
<1>2. values \in [{} -> {0} \cup Scale]
  BY DEF BookInit
<1> QED
  BY <1>1, <1>2, GradeBookAssumption
     DEF BookInit, BookIInv, BookTypeOK, WeightsNearOne, ResultFollows

\* A scheme that is accepted keeps it: its stored weights are near one.
LEMMA SubmitSchemeKeeps ==
  ASSUME BookIInv, NEW n \in 1..MaxEvaluations, NEW ws \in [1..n -> Weights],
         SubmitScheme(ws)
  PROVE  BookIInv'
<1>1. n \in Nat /\ n # 0 /\ n <= MaxEvaluations /\ MaxEvaluations \in Nat
  BY GradeBookAssumption
<1>2. ws \in [1..n -> Nat] /\ DOMAIN ws = 1..n
  BY GradeBookAssumption
<1>3. \A k \in 1..n : ws[k] \in Fractions
  BY <1>2 DEF SubmitScheme, ValidWeights
<1>4. weights' = [k \in 1..n |-> Stored(ws[k])] /\ \A k \in 1..n : weights'[k] > 0
  BY <1>2 DEF SubmitScheme
<1>5. \A k \in 1..n : weights'[k] \in StoredWeights /\ weights'[k] = Stored(ws[k])
  <2> SUFFICES ASSUME NEW k \in 1..n
               PROVE  weights'[k] \in StoredWeights /\ weights'[k] = Stored(ws[k])
    OBVIOUS
  <2>1. weights'[k] = Stored(ws[k]) /\ weights'[k] > 0 /\ ws[k] \in Fractions
    BY <1>3, <1>4
  <2> QED
    BY <2>1, StoredInRange
<1>6. weights' \in [1..n -> StoredWeights]
  BY <1>4, <1>5
<1>7. weights' \in Seq(StoredWeights) /\ Len(weights') = n /\ DOMAIN weights' = 1..n
  BY <1>1, <1>6, SeqDef
<1>8. values' \in [1..n -> {0} \cup Scale] /\ result' = 0
  BY <1>2 DEF SubmitScheme, BookIInv
<1>9. 2 * Total(weights') <= 2000 + n /\ 2 * Total(weights') >= 2000 - n
  <2> DEFINE w == weights'
  <2>1. StoredWeights \subseteq Nat
    BY DEF StoredWeights
  <2>2. Sequence(w, n)
    <3>1. w \in Seq(Nat)
      BY <1>7, <2>1, SeqMonotonic
    <3> QED
      BY <1>7, <3>1 DEF Sequence, Positions
  <2>3. Sequence(ws, n)
    BY <1>1, <1>2, SeqDef DEF Sequence, Positions
  <2>4. StoredFrom(w, ws, n)
    BY <1>5 DEF StoredFrom
  <2>5. Total(ws) = 10000
    BY DEF SubmitScheme, ValidWeights
  <2> HIDE DEF w
  <2>6. 2 * Total(w) <= 2000 + n /\ 2 * Total(w) >= 2000 - n
    BY <1>1, <2>2, <2>3, <2>4, <2>5, StoredNearOne
  <2> QED
    BY <2>6 DEF w
<1>10. weights' # <<>>
  BY <1>1, <1>7
<1> QED
  BY <1>1, <1>7, <1>8, <1>9, <1>10
     DEF BookIInv, BookTypeOK, WeightsNearOne, ResultFollows

\* A grade keeps it: it completes the book, or the book had no final grade.
LEMMA SubmitGradeKeeps ==
  ASSUME BookIInv, NEW k \in DOMAIN weights, NEW h \in Inputs, SubmitGrade(k, h)
  PROVE  BookIInv'
<1> DEFINE n == Len(weights)
           v == Stored(h)
<1>1. BookTypeOK /\ result \in Nat
  BY DEF BookIInv, BookTypeOK
<1>2. /\ n \in Nat /\ DOMAIN weights = 1..n /\ DOMAIN values = 1..n
      /\ \A j \in 1..n : weights[j] \in Nat /\ values[j] \in Nat
  BY <1>1, BookShape
<1>3. v \in Scale /\ v # 0
  BY DEF SubmitGrade, Stored, Scale
<1>4. weights' = weights /\ values' = [values EXCEPT ![k] = v]
  BY DEF SubmitGrade
<1> HIDE DEF v, n
<1>5. values' \in [DOMAIN weights -> {0} \cup Scale]
  BY <1>1, <1>3, <1>4 DEF BookTypeOK
<1>6. \A j \in 1..n : values'[j] \in Nat
  <2>1. {0} \cup Scale \subseteq Nat
    BY DEF Scale
  <2> QED
    BY <1>2, <1>5, <2>1
<1>7. WeightedFinal(values', weights, DOMAIN weights) \in Nat
  <2>1. IsFiniteSet(1..n)
    BY <1>2, FS_Interval
  <2> DEFINE S == 1..n
             u == values'
  <2>2. \A j \in S : u[j] * weights[j] \in Nat
    BY <1>2, <1>6, ProductType
  <2> HIDE DEF S, u
  <2>3. WeightedSum(u, weights, S) \in Nat
    BY <2>1, <2>2, WeightedSumType DEF S
  <2> QED
    BY <1>2, <2>3, RoundedIsNearest DEF WeightedFinal, S, u
<1>8. BookTypeOK'
  BY <1>1, <1>4, <1>5, <1>7 DEF BookTypeOK, SubmitGrade
<1>9. ResultFollows'
  <2>1. CASE \A j \in DOMAIN values : values'[j] # 0
    BY <1>1, <1>2, <1>4, <2>1 DEF SubmitGrade, ResultFollows, Complete
  <2>2. CASE ~ \A j \in DOMAIN values : values'[j] # 0
    <3>1. result' = result
      BY <2>2 DEF SubmitGrade
    <3>2. result = 0
      BY <1>2, <1>3, <1>4, <2>2 DEF BookIInv, ResultFollows, Complete
    <3> QED
      BY <3>1, <3>2 DEF ResultFollows
  <2> QED
    BY <2>1, <2>2
<1>10. weights # <<>>
  BY EmptySeq
<1> QED
  BY <1>4, <1>8, <1>9, <1>10 DEF BookIInv, WeightsNearOne

\* Every step keeps it.
LEMMA BookNextKeeps == BookIInv /\ [BookNext]_bookVars => BookIInv'
<1> SUFFICES ASSUME BookIInv, [BookNext]_bookVars PROVE BookIInv'
  OBVIOUS
<1>1. CASE UNCHANGED bookVars
  BY <1>1 DEF BookIInv, BookTypeOK, WeightsNearOne, ResultFollows, Complete, bookVars
<1>2. CASE BookNext
  BY <1>2, SubmitSchemeKeeps, SubmitGradeKeeps DEF BookNext
<1> QED
  BY <1>1, <1>2

\* For every set of weights and of grades a request may carry and any number of
\* evaluations.
THEOREM BookInvariance == BookSpec => []BookIInv
  BY BookInitInvariant, BookNextKeeps, PTL DEF BookSpec

\* The exact sum of a complete book, as the weighted sum the code computes.
LEMMA ExactSum ==
  ASSUME BookTypeOK
  PROVE  LET n == Len(weights) IN
         /\ PartialSum(values, weights) = WeightedSum(values, weights, 1..n)
         /\ WeightedSum(values, weights, 1..n) \in Nat
<1> DEFINE n == Len(weights)
           S == 1..n
<1>1. /\ n \in Nat /\ DOMAIN values = 1..n
      /\ \A k \in S : weights[k] \in Nat /\ values[k] \in Nat
  BY BookShape
<1>2. IsFiniteSet(S)
  BY <1>1, FS_Interval
<1>3. \A k \in S : values[k] * weights[k] \in Nat
  BY <1>1, ProductType
<1>4. Len(values) = n
  <2>1. values \in [1..n -> {0} \cup Scale]
    BY BookShape DEF BookTypeOK
  <2> QED
    BY <1>1, <2>1, SeqDef
<1>5. WeightedSum(values, weights, S) \in Nat
  <2> HIDE DEF S, n
  <2> QED
    BY <1>2, <1>3, WeightedSumType
<1>6. PartialSum(values, weights) = WeightedSum(values, weights, 1..Len(values))
  BY <1>1, <1>3, <1>4, PartialIsWeighted
<1> QED
  BY <1>4, <1>5, <1>6

\* The stored weights, grades and final grade have their columns' types.
THEOREM BookTypeCorrect == BookSpec => []BookTypeOK
<1>1. BookIInv => BookTypeOK
  BY DEF BookIInv
<1> QED
  BY <1>1, BookInvariance, PTL

\* However many weights were rounded, the scheme in force adds up to one but for half
\* a thousandth a weight.
THEOREM BookWeights == BookSpec => []WeightsNearOne
<1>1. BookIInv => WeightsNearOne
  BY DEF BookIInv
<1> QED
  BY <1>1, BookInvariance, PTL

\* The final grade is the exact weighted sum of the grades on record, to the nearest
\* tenth and half up, whatever the scheme and the corrections.
THEOREM BookNearest == BookSpec => []FinalIsNearest
<1>1. BookIInv => FinalIsNearest
  <2> SUFFICES ASSUME BookIInv, result # 0 PROVE FinalIsNearest
    BY DEF FinalIsNearest
  <2> DEFINE exact == PartialSum(values, weights)
  <2>1. BookTypeOK /\ result = WeightedFinal(values, weights, DOMAIN weights)
    BY DEF BookIInv, ResultFollows
  <2>2. DOMAIN weights = 1..Len(weights)
    BY <2>1, BookShape
  <2>3. exact \in Nat /\ result = Rounded(exact)
    BY <2>1, <2>2, ExactSum DEF WeightedFinal
  <2> HIDE DEF exact
  <2>4. /\ 2 * exact >= 2000 * result - 1000
        /\ 2 * exact < 2000 * result + 1000
    BY <2>3, RoundedIsNearest
  <2> QED
    BY <2>4 DEF FinalIsNearest, exact
<1> QED
  BY <1>1, BookInvariance, PTL

\* Rounding a sum of grades between lo and hi under weights that add up to one but for
\* seven thousandths stays between lo and hi.
LEMMA RoundedBetween ==
  ASSUME NEW lo \in Scale, NEW hi \in Scale, NEW total \in Nat, NEW sum \in Nat,
         993 <= total, total <= 1007, lo * total <= sum, sum <= hi * total
  PROVE  lo <= Rounded(sum) /\ Rounded(sum) <= hi
<1>1. lo \in 10..70 /\ hi \in 10..70
  BY DEF Scale
<1>2. lo * 993 <= lo * total /\ hi * total <= hi * 1007
  <2>1. \A a, b, c \in Nat : a <= b => c * a <= c * b
    OBVIOUS
  <2> QED
    BY <1>1, <2>1
<1>3. lo * total \in Nat /\ hi * total \in Nat
  BY <1>1, ProductType
<1>4. lo * 993 <= sum /\ sum <= hi * 1007
  BY <1>1, <1>2, <1>3
<1> QED
  BY <1>1, <1>4 DEF Rounded

\* A complete book has a worst and a best grade.
LEMMA WorstAndBest ==
  ASSUME BookTypeOK, Complete, weights # <<>>
  PROVE  \E worst, best \in 1..Len(weights) :
           /\ values[worst] \in Scale /\ values[best] \in Scale
           /\ \A k \in 1..Len(weights) : values[k] \in values[worst]..values[best]
<1> DEFINE S == 1..Len(weights)
           Low == {values[k] : k \in S}
           High == {70 - values[k] : k \in S}
<1>1. \A k \in S : values[k] \in Scale
  BY BookShape DEF Complete
<1>2. 1 \in S
  BY EmptySeq DEF BookTypeOK
<1>3. \A k \in S : values[k] \in Nat /\ values[k] <= 70
  <2>1. \A x \in Scale : x \in Nat /\ x <= 70
    BY DEF Scale
  <2> QED
    BY <1>1, <2>1
<1>4. PICK lo \in Low : \A x \in Low : lo <= x
  <2>1. Low \subseteq Nat
    BY <1>3
  <2>2. values[1] \in Low
    BY <1>2
  <2> HIDE DEF Low
  <2> QED
    BY <2>1, <2>2, LeastElement
<1>5. PICK hi \in High : \A x \in High : hi <= x
  <2>1. High \subseteq Nat
    <3>1. \A k \in S : 70 - values[k] \in Nat
      BY <1>3
    <3> QED
      BY <3>1
  <2>2. 70 - values[1] \in High
    BY <1>2
  <2> HIDE DEF High
  <2> QED
    BY <2>1, <2>2, LeastElement
<1>6. PICK worst \in S : values[worst] = lo
  BY <1>4
<1>7. PICK best \in S : 70 - values[best] = hi
  BY <1>5
<1>8. ASSUME NEW k \in S
      PROVE  values[k] \in values[worst]..values[best]
  <2>1. values[worst] <= values[k]
    BY <1>4, <1>6
  <2>2. 70 - values[best] <= 70 - values[k]
    BY <1>5, <1>7
  <2>3. values[worst] \in Nat /\ values[best] \in Nat /\ values[k] \in Nat
    BY <1>3
  <2> HIDE DEF S, Low, High
  <2> QED
    BY <2>1, <2>2, <2>3
<1> QED
  BY <1>1, <1>6, <1>7, <1>8

\* With up to fifteen evaluations the final grade lies between the worst grade and the
\* best; with sixteen it need not (see FinalBetween).
THEOREM BookBetween == ASSUME MaxEvaluations <= 15 PROVE BookSpec => []FinalBetween
<1>1. BookIInv => FinalBetween
  <2> SUFFICES ASSUME BookIInv, result # 0 PROVE FinalBetween
    BY DEF FinalBetween
  <2> DEFINE n == Len(weights)
             S == 1..n
  <2>1. /\ BookTypeOK /\ weights # <<>> /\ Complete /\ WeightsNearOne /\ n <= MaxEvaluations
        /\ result = WeightedFinal(values, weights, DOMAIN weights)
    BY DEF BookIInv, ResultFollows
  <2>2. /\ n \in Nat /\ DOMAIN weights = S /\ DOMAIN values = S
        /\ \A k \in S : weights[k] \in Nat
    BY <2>1, BookShape
  <2>3. n <= 15
    BY <2>1, <2>2, GradeBookAssumption
  <2>4. PICK worst \in S, best \in S :
          /\ values[worst] \in Scale /\ values[best] \in Scale
          /\ \A k \in S : values[k] \in values[worst]..values[best]
    BY <2>1, WorstAndBest
  <2> DEFINE lo == values[worst]
             hi == values[best]
             sum == WeightedSum(values, weights, S)
             total == WeightedSum(weights, [v \in S |-> 1], S)
  <2>5. total = Total(weights) /\ total \in Nat
    <3>1. Sequence(weights, n)
      <4>1. StoredWeights \subseteq Nat
        BY DEF StoredWeights
      <4>2. weights \in Seq(Nat)
        BY <2>1, <4>1, SeqMonotonic DEF BookTypeOK
      <4> QED
        BY <2>2, <4>2 DEF Sequence, Positions
    <3> QED
      BY <2>2, <3>1, TotalIsSum DEF Ones, Positions
  <2>6. 993 <= total /\ total <= 1007
    BY <2>1, <2>2, <2>3, <2>5 DEF WeightsNearOne
  <2>7. lo \in Nat /\ hi \in Nat
    <3>1. Scale \subseteq Nat
      BY DEF Scale
    <3> QED
      BY <2>4, <3>1
  <2>8. sum \in Nat /\ result = Rounded(sum)
    BY <2>1, <2>2, ExactSum DEF WeightedFinal
  <2>9. lo * total <= sum /\ sum <= hi * total
    <3>1. IsFiniteSet(S)
      BY <2>2, FS_Interval
    <3>2. \A k \in S : values[k] \in lo..hi /\ weights[k] \in Nat
      BY <2>2, <2>4
    <3> HIDE DEF S, lo, hi
    <3> QED
      BY <2>7, <3>1, <3>2, WeightedSumBetween
  <2> HIDE DEF sum, total, S, n
  <2>10. lo <= result /\ result <= hi
    BY <2>4, <2>5, <2>6, <2>8, <2>9, RoundedBetween
  <2> QED
    BY <2>2, <2>4, <2>10 DEF FinalBetween
<1> QED
  BY <1>1, BookInvariance, PTL

\* A correction moves the final grade its own way or not at all.
THEOREM BookMonotone == BookSpec => FinalMonotone
<1> DEFINE Step == result # 0 =>
             /\ (\A k \in DOMAIN values : values'[k] >= values[k]) => result' >= result
             /\ (\A k \in DOMAIN values : values'[k] <= values[k]) => result' <= result
<1>1. BookIInv /\ BookIInv' /\ [BookNext]_bookVars => [Step]_bookVars
  <2> SUFFICES ASSUME BookIInv, BookIInv', BookNext, result # 0 PROVE Step
    OBVIOUS
  <2>1. weights # <<>> /\ BookTypeOK /\ BookTypeOK'
    BY DEF BookIInv
  <2>2. PICK k \in DOMAIN weights, h \in Inputs : SubmitGrade(k, h)
    BY <2>1 DEF BookNext, SubmitScheme
  <2> DEFINE S == 1..Len(weights)
             u == values'
  <2>3. weights' = weights
    BY <2>2 DEF SubmitGrade
  <2>4. /\ Len(weights) \in Nat /\ DOMAIN weights = S /\ DOMAIN values = S
        /\ \A j \in S : values[j] \in Nat /\ weights[j] \in Nat
        /\ result \in Nat
    BY <2>1, BookShape
  <2>5. \A j \in S : u[j] \in Nat
    <3>1. u \in [S -> {0} \cup Scale]
      BY <2>1, <2>3, <2>4 DEF BookTypeOK
    <3>2. {0} \cup Scale \subseteq Nat
      BY DEF Scale
    <3> QED
      BY <3>1, <3>2
  <2>6. \A j \in S : values[j] # 0
    BY <2>4 DEF BookIInv, ResultFollows, Complete
  <2>7. \A j \in S : u[j] # 0
    <3>1. Stored(h) # 0
      BY <2>2 DEF SubmitGrade, Stored
    <3> QED
      BY <2>2, <2>4, <2>6, <3>1 DEF SubmitGrade
  <2>8. result' = WeightedFinal(u, weights, S)
    BY <2>2, <2>4, <2>7 DEF SubmitGrade
  <2>9. result = WeightedFinal(values, weights, S)
    BY <2>4 DEF BookIInv, ResultFollows
  <2>10. IsFiniteSet(S)
    BY <2>4, FS_Interval
  <2>11. WeightedSum(values, weights, S) \in Nat /\ WeightedSum(u, weights, S) \in Nat
    <3>1. \A j \in S : values[j] * weights[j] \in Nat /\ u[j] * weights[j] \in Nat
      BY <2>4, <2>5, ProductType
    <3> HIDE DEF S, u
    <3> QED
      BY <2>10, <3>1, WeightedSumType
  <2> HIDE DEF S, u
  <2>12. ASSUME \A j \in S : u[j] >= values[j]
         PROVE  result' >= result
    <3>1. \A j \in S : values[j] \in Nat /\ u[j] \in Nat /\ weights[j] \in Nat /\ values[j] <= u[j]
      BY <2>4, <2>5, <2>12
    <3>2. WeightedSum(values, weights, S) <= WeightedSum(u, weights, S)
      BY <2>10, <3>1, WeightedSumMonotone
    <3>3. Rounded(WeightedSum(values, weights, S)) <= Rounded(WeightedSum(u, weights, S))
      BY <2>11, <3>2, RoundedMonotone
    <3> QED
      BY <2>8, <2>9, <2>11, <3>3, RoundedIsNearest DEF WeightedFinal
  <2>13. ASSUME \A j \in S : u[j] <= values[j]
         PROVE  result' <= result
    <3>1. \A j \in S : values[j] \in Nat /\ u[j] \in Nat /\ weights[j] \in Nat /\ u[j] <= values[j]
      BY <2>4, <2>5, <2>13
    <3>2. WeightedSum(u, weights, S) <= WeightedSum(values, weights, S)
      BY <2>10, <3>1, WeightedSumMonotone
    <3>3. Rounded(WeightedSum(u, weights, S)) <= Rounded(WeightedSum(values, weights, S))
      BY <2>11, <3>2, RoundedMonotone
    <3> QED
      BY <2>8, <2>9, <2>11, <3>3, RoundedIsNearest DEF WeightedFinal
  <2> QED
    BY <2>4, <2>12, <2>13 DEF u
<1> QED
  BY <1>1, BookInvariance, PTL DEF BookSpec, FinalMonotone

\* With up to fifteen evaluations a final grade is on the scale of 1.0 to 7.0, which
\* the column section_enrollments.final_grade does not check.
THEOREM BookOnScale ==
  ASSUME MaxEvaluations <= 15 PROVE BookSpec => [](result # 0 => result \in Scale)
<1>1. BookIInv /\ FinalBetween => (result # 0 => result \in Scale)
  <2> SUFFICES ASSUME BookIInv, FinalBetween, result # 0
               PROVE  result \in Scale
    OBVIOUS
  <2>1. PICK j \in DOMAIN values, k \in DOMAIN values :
          values[j] <= result /\ result <= values[k]
    BY DEF FinalBetween
  <2>2. values[j] \in Scale /\ values[k] \in Scale /\ result \in Nat
    BY <2>1, BookShape DEF BookIInv, ResultFollows, Complete
  <2> QED
    BY <2>1, <2>2 DEF Scale
<1> QED
  BY <1>1, BookInvariance, BookBetween, PTL

\* Whatever was corrected in whatever order, a student whose grades are all 4.0 or more
\* has passed and one whose grades are all below 4.0 has failed.
THEOREM BookPassing ==
  ASSUME MaxEvaluations <= 15
  PROVE  BookSpec => [](result # 0 =>
           /\ (\A k \in DOMAIN values : values[k] >= PassMark) => OutcomeOf(result) = "passed"
           /\ (\A k \in DOMAIN values : values[k] < PassMark) => OutcomeOf(result) = "failed")
<1> DEFINE Passing ==
      result # 0 =>
        /\ (\A k \in DOMAIN values : values[k] >= PassMark) => OutcomeOf(result) = "passed"
        /\ (\A k \in DOMAIN values : values[k] < PassMark) => OutcomeOf(result) = "failed"
<1>1. BookIInv /\ FinalBetween => Passing
  <2> SUFFICES ASSUME BookIInv, FinalBetween, result # 0
               PROVE  Passing
    OBVIOUS
  <2>1. PICK j \in DOMAIN values, k \in DOMAIN values :
          values[j] <= result /\ result <= values[k]
    BY DEF FinalBetween
  <2>2. values[j] \in Scale /\ values[k] \in Scale /\ result \in Nat
    BY <2>1, BookShape DEF BookIInv, ResultFollows, Complete
  <2>3. ASSUME \A m \in DOMAIN values : values[m] >= PassMark
        PROVE  OutcomeOf(result) = "passed"
    <3>1. values[j] >= PassMark
      BY <2>3
    <3> QED
      BY <2>1, <2>2, <3>1 DEF Scale, PassMark, OutcomeOf
  <2>4. ASSUME \A m \in DOMAIN values : values[m] < PassMark
        PROVE  OutcomeOf(result) = "failed"
    <3>1. values[k] < PassMark
      BY <2>4
    <3> QED
      BY <2>1, <2>2, <3>1 DEF Scale, PassMark, OutcomeOf
  <2> QED
    BY <2>3, <2>4
<1> QED
  BY <1>1, BookInvariance, BookBetween, PTL
-----------------------------------------------------------------------------
\* Back to the concurrent transactions: the stored weights of each scheme add up to one
\* but for seven thousandths, as BookWeights shows of up to fifteen evaluations.
NearlyWhole ==
  \A S \in Schemes : WeightedSum(Weight, [v \in S |-> 1], S) \in 993..1007

\* An inscription is graded between two of the grades it has on record.
GradedBetween(i) ==
  \E worst, best \in Graded(i) :
    /\ grade[i][worst].value <= final[i]
    /\ final[i] <= grade[i][best].value

\* A decided inscription's final grade is on the scale and between its grades, and the
\* outcome is what they all are when they are all passed or all failed.
OutcomeFair ==
  \A i \in Inscriptions : status[i] \in Outcomes =>
    /\ final[i] \in Scale
    /\ GradedBetween(i)
    /\ (\A v \in Graded(i) : grade[i][v].value >= PassMark) => status[i] = "passed"
    /\ (\A v \in Graded(i) : grade[i][v].value < PassMark) => status[i] = "failed"

\* Values on the scale, one for each element of a set that is not empty, have a worst
\* and a best.
LEMMA Extremes ==
  ASSUME NEW S, S # {}, NEW f, \A v \in S : f[v] \in Scale
  PROVE  \E worst, best \in S : \A v \in S : f[v] \in f[worst]..f[best]
<1> DEFINE Low == {f[v] : v \in S}
           High == {70 - f[v] : v \in S}
<1>1. \A v \in S : f[v] \in Nat /\ 70 - f[v] \in Nat
  <2>1. \A x \in Scale : x \in Nat /\ 70 - x \in Nat
    BY DEF Scale
  <2> QED
    BY <2>1
<1>2. PICK u : u \in S
  OBVIOUS
<1>3. Low \subseteq Nat /\ High \subseteq Nat /\ f[u] \in Low /\ 70 - f[u] \in High
  BY <1>1, <1>2
<1> HIDE DEF Low, High
<1>4. PICK lo \in Low : \A x \in Low : lo <= x
  BY <1>3, LeastElement
<1>5. PICK hi \in High : \A x \in High : hi <= x
  BY <1>3, LeastElement
<1>6. PICK worst \in S : f[worst] = lo
  BY <1>4 DEF Low
<1>7. PICK best \in S : 70 - f[best] = hi
  BY <1>5 DEF High
<1>8. ASSUME NEW v \in S
      PROVE  f[v] \in f[worst]..f[best]
  <2>1. f[worst] <= f[v]
    BY <1>4, <1>6 DEF Low
  <2>2. 70 - f[best] <= 70 - f[v]
    BY <1>5, <1>7 DEF High
  <2>3. f[v] \in Nat /\ f[worst] \in Nat /\ f[best] \in Nat
    BY <1>1
  <2> QED
    BY <2>1, <2>2, <2>3
<1> QED
  BY <1>8

\* A final grade computed over a scheme whose weights are nearly whole lies between two
\* of the values it is computed from.
LEMMA FinalWithin ==
  ASSUME NearlyWhole, NEW S \in Schemes, NEW f, \A v \in S : f[v] \in Scale
  PROVE  /\ WeightedFinal(f, Weight, S) \in Nat
         /\ \E worst, best \in S :
              /\ f[worst] <= WeightedFinal(f, Weight, S)
              /\ WeightedFinal(f, Weight, S) <= f[best]
<1>1. S # {} /\ IsFiniteSet(S) /\ S \subseteq Evaluations
  BY GradesAssumption, FS_Subset
<1>2. PICK worst \in S, best \in S : \A v \in S : f[v] \in f[worst]..f[best]
  BY <1>1, Extremes
<1> DEFINE sum == WeightedSum(f, Weight, S)
           total == WeightedSum(Weight, [v \in S |-> 1], S)
<1>3. Scale \subseteq Nat
  BY DEF Scale
<1>4. \A v \in S : f[v] \in Nat /\ Weight[v] \in Nat
  <2>1. \A v \in S : Weight[v] \in 1..1000
    BY <1>1, GradesAssumption
  <2>2. \A n \in 1..1000 : n \in Nat
    OBVIOUS
  <2>3. \A v \in S : Weight[v] \in Nat
    BY <2>1, <2>2
  <2>4. \A v \in S : f[v] \in Nat
    BY <1>3
  <2> QED
    BY <2>3, <2>4
<1>5. sum \in Nat
  <2>1. \A v \in S : f[v] * Weight[v] \in Nat
    BY <1>4, ProductType
  <2> QED
    BY <1>1, <2>1, WeightedSumType
<1>6. total \in Nat /\ f[worst] * total <= sum /\ sum <= f[best] * total
  <2>1. f[worst] \in Nat /\ f[best] \in Nat
    BY <1>4
  <2>2. \A v \in S : f[v] \in f[worst]..f[best] /\ Weight[v] \in Nat
    BY <1>2, <1>4
  <2> QED
    BY <1>1, <2>1, <2>2, WeightedSumBetween
<1>7. total \in 993..1007
  BY DEF NearlyWhole
<1> HIDE DEF sum, total
<1>8. 993 <= total /\ total <= 1007
  BY <1>6, <1>7
<1>9. f[worst] <= Rounded(sum) /\ Rounded(sum) <= f[best]
  BY <1>5, <1>6, <1>8, RoundedBetween
<1>10. Rounded(sum) \in Nat
  BY <1>5, RoundedIsNearest
<1> QED
  BY <1>9, <1>10 DEF sum, WeightedFinal

\* However records, corrections and new schemes interleave, a decided inscription's final
\* grade is on the scale, between two of its grades, and the outcome follows them.
THEOREM FairOutcomes == ASSUME NearlyWhole PROVE Spec => []OutcomeFair
<1>1. IInv => OutcomeFair
  <2> SUFFICES ASSUME IInv, NEW i \in Inscriptions, status[i] \in Outcomes
               PROVE  /\ final[i] \in Scale
                      /\ GradedBetween(i)
                      /\ (\A v \in Graded(i) : grade[i][v].value >= PassMark)
                           => status[i] = "passed"
                      /\ (\A v \in Graded(i) : grade[i][v].value < PassMark)
                           => status[i] = "failed"
    BY DEF OutcomeFair
  <2> DEFINE f == ValueOf(i)
  <2>1. PICK S \in Schemes : DecidedUnder(i, S)
    BY DEF IInv, FinalFits
  <2>2. /\ S \subseteq Graded(i)
        /\ final[i] = WeightedFinal(f, Weight, S)
        /\ status[i] = OutcomeOf(final[i])
    BY <2>1 DEF DecidedUnder
  <2>3. \A v \in Graded(i) : f[v] = grade[i][v].value
    BY DEF ValueOf, Graded
  <2>4. \A v \in Graded(i) : f[v] \in Scale
    <3> TAKE v \in Graded(i)
    <3>1. v \in Evaluations /\ grade[i][v].version # 0
      <4>1. grade[i][v].version \in 0..MaxVersion
        BY DEF IInv, TypeOK, Graded
      <4> QED
        BY <4>1, GradesAssumption DEF Graded
    <3>2. grade[i][v].value \in Values
      BY <3>1 DEF IInv, GradesKept
    <3> QED
      BY <2>3, <3>2, GradesAssumption DEF Scale
  <2> HIDE DEF f
  <2>5. PICK worst \in S, best \in S : f[worst] <= final[i] /\ final[i] <= f[best]
    BY <2>2, <2>4, FinalWithin
  <2>6. /\ worst \in Graded(i) /\ best \in Graded(i)
        /\ f[worst] \in Scale /\ f[best] \in Scale
        /\ f[worst] = grade[i][worst].value /\ f[best] = grade[i][best].value
    BY <2>2, <2>3, <2>4
  <2>7. final[i] \in Nat
    BY <2>2, <2>4, FinalWithin
  <2>8. final[i] \in Scale
    BY <2>5, <2>6, <2>7 DEF Scale
  <2>9. GradedBetween(i)
    BY <2>5, <2>6 DEF GradedBetween
  <2>10. ASSUME \A v \in Graded(i) : grade[i][v].value >= PassMark
         PROVE  status[i] = "passed"
    <3>1. f[worst] >= PassMark
      BY <2>6, <2>10
    <3> QED
      BY <2>2, <2>5, <2>6, <2>7, <3>1 DEF Scale, PassMark, OutcomeOf
  <2>11. ASSUME \A v \in Graded(i) : grade[i][v].value < PassMark
         PROVE  status[i] = "failed"
    <3>1. f[best] < PassMark
      BY <2>6, <2>11
    <3> QED
      BY <2>2, <2>5, <2>6, <2>7, <3>1 DEF Scale, PassMark, OutcomeOf
  <2> QED
    BY <2>8, <2>9, <2>10, <2>11
<1> QED
  BY <1>1, Invariance, PTL
=============================================================================
