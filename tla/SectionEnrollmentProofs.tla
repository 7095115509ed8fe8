------------------------ MODULE SectionEnrollmentProofs ------------------------
(***************************************************************************)
(* Proofs about SectionEnrollment, for any number of requests, enrolments, *)
(* sections and capacities.                                                *)
(***************************************************************************)
EXTENDS SectionEnrollment, FiniteSetTheorems, TLAPS

USE DEF Row, Seated, Outcomes, Steps

\* The initial state is well typed.
LEMMA InitType == Init => TypeOK
BY ConstantsAssumption DEF Init, TypeOK

\* Ending a request keeps the request variables well typed.
LEMMA FinishType ==
  ASSUME TypeOK, NEW r \in Requests, Finish(r)
  PROVE  /\ pc' \in [Requests -> Steps]
         /\ call' \in [Requests -> Call \cup {NoCall}]
         /\ \A q \in Requests : pc'[q] # "idle" => call'[q] \in Call
BY DEF TypeOK, Finish, GoTo

\* So does going on with well typed locals, and writing one of them.
LEMMA StepType ==
  ASSUME TypeOK, NEW r \in Requests, NEW step \in Steps, NEW c \in Call,
         GoTo(r, step), call' = [call EXCEPT ![r] = c]
  PROVE  /\ pc' \in [Requests -> Steps]
         /\ call' \in [Requests -> Call \cup {NoCall}]
         /\ \A q \in Requests : pc'[q] # "idle" => call'[q] \in Call
BY DEF TypeOK, GoTo

\* Updating a local keeps the locals well typed.
LEMMA LocalType ==
  ASSUME NEW c \in Call
  PROVE  /\ \A n \in Capacities \cup {0} : [c EXCEPT !.cap = n] \in Call
         /\ \A b \in BOOLEAN : [c EXCEPT !.revive = b] \in Call
         /\ \A b \in BOOLEAN : [c EXCEPT !.open = b, !.cap = 0] \in Call
BY DEF Call

\* Writing one row keeps the table well typed.
LEMMA RowType ==
  ASSUME NEW e \in Enrollments, NEW s \in Sections, NEW V, NEW v \in V,
         NEW t \in [Enrollments -> [Sections -> V]]
  PROVE  [t EXCEPT ![e][s] = v] \in [Enrollments -> [Sections -> V]]
OBVIOUS

\* Writing one row of a table leaves the others.
LEMMA RowWritten ==
  ASSUME NEW e \in Enrollments, NEW s \in Sections, NEW V, NEW v,
         NEW t \in [Enrollments -> [Sections -> V]]
  PROVE  \A f \in Enrollments, u \in Sections :
           [t EXCEPT ![e][s] = v][f][u] = IF f = e /\ u = s THEN v ELSE t[f][u]
OBVIOUS

\* Every step keeps the types.
LEMMA NextType == TypeOK /\ [Next]_vars => TypeOK'
<1> SUFFICES ASSUME TypeOK, [Next]_vars PROVE TypeOK'
  OBVIOUS
<1> USE ConstantsAssumption
<1>1. ASSUME NEW r \in Requests, Advance(r) PROVE TypeOK'
  <2> USE DEF rows
  <2>1. CASE PreCheck(r)
    <3>1. call[r] \in Call
      BY <2>1 DEF PreCheck, TypeOK
    <3>2. CASE Finish(r)
      BY <2>1, <3>2, FinishType DEF PreCheck, TypeOK
    <3>3. CASE GoTo(r, "begin") /\ call' = [call EXCEPT ![r].cap = 0]
      <4> DEFINE c == [call[r] EXCEPT !.cap = 0]
      <4>1. c \in Call /\ call' = [call EXCEPT ![r] = c]
        BY <3>1, <3>3, LocalType
      <4> QED
        BY <2>1, <3>3, <4>1, StepType DEF PreCheck, TypeOK
    <3> QED
      BY <2>1, <3>2, <3>3 DEF PreCheck
  <2>2. CASE BeginTx(r)
    <3> DEFINE c == [call[r] EXCEPT !.open = (window[call[r].sec] = "open"), !.cap = 0]
    <3>1. call[r] \in Call
      BY <2>2 DEF BeginTx, TypeOK
    <3>2. c \in Call /\ call' = [call EXCEPT ![r] = c]
      BY <2>2, <3>1, LocalType DEF BeginTx
    <3> QED
      BY <2>2, <3>2, StepType DEF BeginTx, TypeOK
  <2>3. CASE LockSection(r)
    <3>1. call[r] \in Call
      BY <2>3 DEF LockSection, TypeOK
    <3>2. CASE Finish(r)
      BY <2>3, <3>2, FinishType DEF LockSection, TypeOK
    <3>3. CASE GoTo(r, "gate") /\ call' = [call EXCEPT ![r].cap = capacity[call[r].sec]]
      <4> DEFINE c == [call[r] EXCEPT !.cap = capacity[call[r].sec]]
      <4>1. capacity[call[r].sec] \in Capacities
        BY <3>1 DEF TypeOK, Call
      <4>2. c \in Call /\ call' = [call EXCEPT ![r] = c]
        BY <3>1, <3>3, <4>1, LocalType
      <4> QED
        BY <2>3, <3>3, <4>2, StepType DEF LockSection, TypeOK
    <3> QED
      BY <2>3, <3>2, <3>3 DEF LockSection
  <2>4. CASE CheckEnrollment(r)
    <3>1. CASE Finish(r)
      BY <2>4, <3>1, FinishType DEF CheckEnrollment, TypeOK
    <3>2. CASE GoTo(r, "key") /\ UNCHANGED call
      BY <2>4, <3>2 DEF CheckEnrollment, GoTo, TypeOK
    <3> QED
      BY <2>4, <3>1, <3>2 DEF CheckEnrollment
  <2>5. CASE LockKey(r)
    <3>1. call[r] \in Call
      BY <2>5 DEF LockKey, TypeOK
    <3>2. CASE Finish(r)
      BY <2>5, <3>2, FinishType DEF LockKey, TypeOK
    <3>3. ASSUME NEW b \in BOOLEAN, GoTo(r, "count"), call' = [call EXCEPT ![r].revive = b]
          PROVE TypeOK'
      <4> DEFINE c == [call[r] EXCEPT !.revive = b]
      <4>1. c \in Call /\ call' = [call EXCEPT ![r] = c]
        BY <3>1, <3>3, LocalType
      <4> QED
        BY <2>5, <3>3, <4>1, StepType DEF LockKey, TypeOK
    <3> QED
      BY <2>5, <3>2, <3>3 DEF LockKey
  <2>6. CASE CountSeats(r)
    <3>1. CASE Finish(r)
      BY <2>6, <3>1, FinishType DEF CountSeats, TypeOK
    <3>2. CASE GoTo(r, "write") /\ UNCHANGED call
      BY <2>6, <3>2 DEF CountSeats, GoTo, TypeOK
    <3> QED
      BY <2>6, <3>1, <3>2 DEF CountSeats
  <2>7. CASE WriteSeat(r)
    <3> DEFINE e == call[r].enr
               s == call[r].sec
               v == IF call[r].revive \/ status[e][s] = "none"
                    THEN "in_progress" ELSE status[e][s]
    <3>0. e \in Enrollments /\ s \in Sections
      BY <2>7 DEF WriteSeat, TypeOK, Call
    <3>1. status' \in [Enrollments -> [Sections -> Row]]
      <4>1. v \in Row
        BY <3>0 DEF TypeOK
      <4>2. status' = [status EXCEPT ![e][s] = v]
        BY <2>7, <3>0 DEF WriteSeat, TypeOK
      <4> HIDE DEF v, e, s
      <4> QED
        BY <3>0, <4>1, <4>2, RowType DEF TypeOK
    <3>2. UNCHANGED <<capacity, live, window, matricula, graded>> /\ Finish(r)
      BY <2>7 DEF WriteSeat
    <3> QED
      BY <3>1, <3>2, FinishType DEF TypeOK
  <2>8. CASE LockTimeout(r)
    BY <2>8, FinishType DEF LockTimeout, TypeOK
  <2>9. CASE CommitGrade(r)
    <3>0. call[r].enr \in Enrollments /\ call[r].sec \in Sections
      BY <2>9 DEF CommitGrade, TypeOK, Call
    <3>1. /\ status' \in [Enrollments -> [Sections -> Row]]
          /\ graded' \in [Enrollments -> [Sections -> BOOLEAN]]
      <4>1. CASE UNCHANGED <<status, graded>>
        BY <4>1 DEF TypeOK
      <4>2. ASSUME NEW o \in Outcomes,
                   status' = [status EXCEPT ![call[r].enr][call[r].sec] = o],
                   graded' = [graded EXCEPT ![call[r].enr][call[r].sec] = TRUE]
            PROVE  /\ status' \in [Enrollments -> [Sections -> Row]]
                   /\ graded' \in [Enrollments -> [Sections -> BOOLEAN]]
        BY <3>0, <4>2, RowType DEF TypeOK
      <4> QED
        BY <2>9, <4>1, <4>2 DEF CommitGrade
    <3>2. UNCHANGED <<capacity, live, window, matricula>> /\ Finish(r)
      BY <2>9 DEF CommitGrade
    <3> QED
      BY <3>1, <3>2, FinishType DEF TypeOK
  <2> QED
    BY <1>1, <2>1, <2>2, <2>3, <2>4, <2>5, <2>6, <2>7, <2>8, <2>9 DEF Advance
<1>2. ASSUME NEW r \in Requests, Abort(r) PROVE TypeOK'
  BY <1>2, FinishType DEF Abort, rows, TypeOK
<1>3. ASSUME NEW r \in Requests, NEW e \in Enrollments, NEW s \in Sections,
             LockForGrade(r, e, s)
      PROVE TypeOK'
  BY <1>3 DEF LockForGrade, rows, GoTo, Call, TypeOK
<1>4. ASSUME NEW r \in Requests, NEW e \in Enrollments, NEW s \in Sections,
             NEW admin \in BOOLEAN, ReadCapacity(r, e, s, admin)
      PROVE TypeOK'
  BY <1>4 DEF ReadCapacity, rows, GoTo, Call, TypeOK
<1>5. ASSUME NEW e \in Enrollments, MoveMatricula(e) PROVE TypeOK'
  BY <1>5 DEF MoveMatricula, TypeOK
<1>6. ASSUME NEW e \in Enrollments, NEW s \in Sections, WithdrawSection(e, s)
      PROVE TypeOK'
  BY <1>6 DEF WithdrawSection, TypeOK
<1>7. ASSUME NEW s \in Sections, DeleteSection(s) PROVE TypeOK'
  BY <1>7 DEF DeleteSection, TypeOK
<1>8. ASSUME NEW s \in Sections, ClockPasses(s) PROVE TypeOK'
  BY <1>8 DEF ClockPasses, TypeOK
<1>9. ASSUME NEW s \in Sections, NEW c \in Capacities, UpdateSection(s, c)
      PROVE TypeOK'
  BY <1>9 DEF UpdateSection, TypeOK
<1>10. CASE UNCHANGED vars
  BY <1>10 DEF vars, TypeOK
<1> QED
  BY <1>1, <1>2, <1>3, <1>4, <1>5, <1>6, <1>7, <1>8, <1>9, <1>10 DEF Next

\* Every variable keeps its type: a request that runs has its arguments.
THEOREM TypeCorrect == Spec => []TypeOK
BY InitType, NextType, PTL DEF Spec
-------------------------------------------------------------------------------
(* The seat decision: the inductive invariant. *)

\* The taken seats are finitely many, so that counting them means something.
LEMMA ActiveFinite ==
  ASSUME NEW s \in Sections
  PROVE  /\ IsFiniteSet(Active(s)) /\ Cardinality(Active(s)) \in Nat
BY ConstantsAssumption, FS_Subset, FS_CardinalityType DEF Active

\* Fewer seats taken, a smaller count.
LEMMA ActiveShrinks ==
  ASSUME NEW s \in Sections, Active(s)' \subseteq Active(s)
  PROVE  /\ Cardinality(Active(s)') <= Cardinality(Active(s))
         /\ Cardinality(Active(s)') \in Nat
BY ActiveFinite, FS_Subset, FS_CardinalityType

\* The locals of a running request are of their types.
LEMMA CallFields ==
  ASSUME TypeOK, NEW r \in Requests, pc[r] # "idle"
  PROVE  /\ call[r].enr \in Enrollments /\ call[r].sec \in Sections
         /\ call[r].cap \in Nat
<1>1. call[r] \in Call
  BY DEF TypeOK
<1>2. Capacities \cup {0} \subseteq Nat
  BY ConstantsAssumption
<1> QED
  BY <1>1, <1>2 DEF Call

\* A step of r that writes no row: what it knows afterwards is all there is to
\* show, the other requests know what they knew.
LEMMA RequestStep ==
  ASSUME IInv, TypeOK', NEW r \in Requests, UNCHANGED rows,
         \A q \in Requests \ {r} : pc'[q] = pc[q] /\ call'[q] = call[q],
         HoldsSection(r)' =>
           /\ \A q \in Requests \ {r} : HoldsSection(q) => call[q].sec # call'[r].sec
           /\ live[call'[r].sec] /\ call'[r].cap = capacity[call'[r].sec],
         pc'[r] \in {"count", "write"} =>
           status[call'[r].enr][call'[r].sec]
             = IF call'[r].revive THEN "withdrawn" ELSE "none",
         pc'[r] = "write" => Cardinality(Active(call'[r].sec)) < call'[r].cap
  PROVE  IInv'
<1>1. \A q \in Requests \ {r} : HoldsSection(q)' <=> HoldsSection(q)
  BY DEF HoldsSection
<1>2. SectionMutex' /\ LockedSection'
  BY <1>1 DEF IInv, SectionMutex, LockedSection, rows
<1>3. DecidedRow'
  BY DEF IInv, DecidedRow, rows
<1>4. \A s \in Sections : Active(s)' = Active(s)
  BY DEF Active, rows
<1>5. FreeSeat'
  <2>1. \A q \in Requests : pc'[q] = "write" => Cardinality(Active(call'[q].sec)) < call'[q].cap
    BY DEF IInv, FreeSeat
  <2>2. \A s : Active(s)' = Active(s)
    BY DEF Active, rows
  <2> QED
    BY <2>1, <2>2 DEF FreeSeat
<1>6. OutcomeHasGrade'
  BY DEF IInv, OutcomeHasGrade, rows
<1> QED
  BY <1>2, <1>3, <1>5, <1>6 DEF IInv

\* A request that ends, or that is not yet under the section lock, needs nothing.
LEMMA Unlocked ==
  ASSUME IInv, TypeOK', NEW r \in Requests, UNCHANGED rows,
         \A q \in Requests \ {r} : pc'[q] = pc[q] /\ call'[q] = call[q],
         pc'[r] \in {"idle", "precount", "begin", "lock", "grade"}
  PROVE  IInv'
BY RequestStep DEF HoldsSection

\* A step of one request leaves the program counter and the locals of the others.
LEMMA Others ==
  ASSUME TypeOK, NEW r \in Requests
  PROVE  /\ \A step : GoTo(r, step) =>
              pc'[r] = step /\ \A q \in Requests \ {r} : pc'[q] = pc[q]
         /\ \A c : call' = [call EXCEPT ![r] = c] =>
              call'[r] = c /\ \A q \in Requests \ {r} : call'[q] = call[q]
         /\ Finish(r) => /\ pc'[r] = "idle"
                         /\ \A q \in Requests \ {r} : pc'[q] = pc[q] /\ call'[q] = call[q]
BY DEF TypeOK, GoTo, Finish

\* The statements of the transaction keep the invariant.
LEMMA AdvanceInv ==
  ASSUME IInv, TypeOK', NEW r \in Requests, Advance(r)
  PROVE  IInv'
<1> USE DEF IInv
<1>1. CASE PreCheck(r)
  BY <1>1, Others, Unlocked DEF PreCheck
<1>2. CASE BeginTx(r)
  <2> DEFINE c == [call[r] EXCEPT !.open = (window[call[r].sec] = "open"), !.cap = 0]
  <2>1. call' = [call EXCEPT ![r] = c]
    BY <1>2, CallFields DEF BeginTx, TypeOK, Call
  <2> HIDE DEF c
  <2>2. \A q \in Requests \ {r} : call'[q] = call[q]
    BY <2>1, Others
  <2>3. pc'[r] = "lock" /\ \A q \in Requests \ {r} : pc'[q] = pc[q]
    BY <1>2, Others DEF BeginTx
  <2>4. UNCHANGED rows
    BY <1>2 DEF BeginTx
  <2> QED
    BY <2>2, <2>3, <2>4, Unlocked
<1>3. CASE LockSection(r)
  <2>1. CASE Finish(r)
    BY <1>3, <2>1, Others, Unlocked DEF LockSection
  <2>2. CASE /\ live[call[r].sec] /\ GoTo(r, "gate")
             /\ call' = [call EXCEPT ![r].cap = capacity[call[r].sec]]
    <3> DEFINE c == [call[r] EXCEPT !.cap = capacity[call[r].sec]]
    <3>1. call[r] \in Call
      BY <1>3 DEF LockSection, TypeOK
    <3>2. call' = [call EXCEPT ![r] = c]
      BY <2>2
    <3>3. c.sec = call[r].sec /\ c.cap = capacity[c.sec]
      BY <3>1 DEF Call
    <3>4. /\ pc'[r] = "gate" /\ call'[r] = c
          /\ \A q \in Requests \ {r} : pc'[q] = pc[q] /\ call'[q] = call[q]
      <4> HIDE DEF c
      <4> QED
        BY <2>2, <3>2, Others
    <3>5. \A q \in Requests \ {r} : HoldsSection(q) => call[q].sec # call'[r].sec
      BY <1>3, <3>3, <3>4 DEF LockSection, SectionFree
    <3> HIDE DEF c
    <3> QED
      BY <1>3, <2>2, <3>3, <3>4, <3>5, RequestStep DEF LockSection
  <2> QED
    BY <1>3, <2>1, <2>2 DEF LockSection
<1>4. CASE CheckEnrollment(r)
  <2>1. CASE Finish(r)
    BY <1>4, <2>1, Others, Unlocked DEF CheckEnrollment
  <2>2. CASE GoTo(r, "key") /\ UNCHANGED call
    <3>1. HoldsSection(r)
      BY <1>4 DEF CheckEnrollment, HoldsSection
    <3> QED
      BY <1>4, <2>2, <3>1, Others, RequestStep
      DEF CheckEnrollment, SectionMutex, LockedSection
  <2> QED
    BY <1>4, <2>1, <2>2 DEF CheckEnrollment
<1>5. CASE LockKey(r)
  <2>1. CASE Finish(r)
    BY <1>5, <2>1, Others, Unlocked DEF LockKey
  <2>2. ASSUME NEW b \in BOOLEAN, GoTo(r, "count"), call' = [call EXCEPT ![r].revive = b],
               status[call[r].enr][call[r].sec] = IF b THEN "withdrawn" ELSE "none"
        PROVE  IInv'
    <3> DEFINE c == [call[r] EXCEPT !.revive = b]
    <3>1. HoldsSection(r) /\ call[r] \in Call
      BY <1>5 DEF LockKey, HoldsSection, TypeOK
    <3>2. call' = [call EXCEPT ![r] = c]
      BY <2>2
    <3>3. /\ c.enr = call[r].enr /\ c.sec = call[r].sec /\ c.cap = call[r].cap
          /\ c.revive = b
      BY <3>1 DEF Call
    <3> HIDE DEF c
    <3>4. /\ pc'[r] = "count" /\ call'[r] = c
          /\ \A q \in Requests \ {r} : pc'[q] = pc[q] /\ call'[q] = call[q]
      <4>1. pc'[r] = "count" /\ \A q \in Requests \ {r} : pc'[q] = pc[q]
        BY <2>2, Others
      <4>2. call'[r] = c /\ \A q \in Requests \ {r} : call'[q] = call[q]
        BY <3>2, Others
      <4> QED
        BY <4>1, <4>2
    <3>5. /\ \A q \in Requests \ {r} : HoldsSection(q) => call[q].sec # c.sec
          /\ live[c.sec] /\ c.cap = capacity[c.sec]
      BY <3>1, <3>3 DEF SectionMutex, LockedSection
    <3>6. status[c.enr][c.sec] = IF c.revive THEN "withdrawn" ELSE "none"
      BY <2>2, <3>3
    <3>7. UNCHANGED rows
      BY <1>5 DEF LockKey
    <3> QED
      BY <3>4, <3>5, <3>6, <3>7, RequestStep
  <2> QED
    BY <1>5, <2>1, <2>2 DEF LockKey
<1>6. CASE CountSeats(r)
  <2>1. CASE Finish(r)
    BY <1>6, <2>1, Others, Unlocked DEF CountSeats
  <2>2. CASE /\ GoTo(r, "write") /\ UNCHANGED call
             /\ Cardinality(Active(call[r].sec)) < call[r].cap
    <3>1. HoldsSection(r)
      BY <1>6 DEF CountSeats, HoldsSection
    <3> QED
      BY <1>6, <2>2, <3>1, Others, RequestStep
      DEF CountSeats, SectionMutex, LockedSection, DecidedRow
  <2> QED
    BY <1>6, <2>1, <2>2 DEF CountSeats
<1>7. CASE LockTimeout(r)
  BY <1>7, Others, Unlocked DEF LockTimeout
<1>8. CASE WriteSeat(r)
  <2> DEFINE e == call[r].enr
             s == call[r].sec
  <2>1. e \in Enrollments /\ s \in Sections /\ HoldsSection(r)
    BY <1>8, CallFields DEF WriteSeat, HoldsSection
  <2>2. /\ pc'[r] = "idle"
        /\ \A q \in Requests \ {r} : pc'[q] = pc[q] /\ call'[q] = call[q]
    BY <1>8, Others DEF WriteSeat
  <2>3. /\ status[e][s] \in {"withdrawn", "none"}
        /\ status' = [status EXCEPT ![e][s] = "in_progress"]
    BY <1>8, <2>1 DEF WriteSeat, DecidedRow, TypeOK
  <2>4. \A f \in Enrollments, u \in Sections :
          status'[f][u] = IF f = e /\ u = s THEN "in_progress" ELSE status[f][u]
    BY <2>1, <2>3 DEF TypeOK
  <2>5. \A q \in Requests : HoldsSection(q)' =>
          /\ q # r /\ HoldsSection(q) /\ call'[q] = call[q]
          /\ call[q].sec \in Sections \ {s} /\ call[q].enr \in Enrollments
    BY <2>1, <2>2, CallFields DEF HoldsSection, SectionMutex
  <2>6. UNCHANGED <<capacity, live, graded>>
    BY <1>8 DEF WriteSeat
  <2> HIDE DEF e, s
  <2>7. SectionMutex' /\ LockedSection'
    BY <2>5, <2>6 DEF SectionMutex, LockedSection
  <2>8. DecidedRow'
    BY <2>2, <2>4, <2>5 DEF DecidedRow, HoldsSection
  <2>9. FreeSeat'
    <3>1. \A u \in Sections \ {s} : Active(u)' = Active(u)
      BY <2>4 DEF Active
    <3>2. ASSUME NEW q \in Requests, pc'[q] = "write"
          PROVE  Cardinality(Active(call[q].sec)') < call[q].cap /\ call'[q] = call[q]
      BY <2>2, <2>5, <3>1, <3>2 DEF FreeSeat, HoldsSection
    <3> QED
      BY <3>2 DEF FreeSeat, Active
  <2>10. OutcomeHasGrade'
    BY <2>1, <2>3, <2>4, <2>6 DEF OutcomeHasGrade
  <2> QED
    BY <2>7, <2>8, <2>9, <2>10
<1>9. CASE CommitGrade(r)
  <2>1. CASE UNCHANGED <<status, graded>>
    BY <1>9, <2>1, Others, Unlocked DEF CommitGrade, rows
  <2>2. ASSUME NEW o \in Outcomes,
               status[call[r].enr][call[r].sec] \in Seated,
               status' = [status EXCEPT ![call[r].enr][call[r].sec] = o],
               graded' = [graded EXCEPT ![call[r].enr][call[r].sec] = TRUE]
        PROVE  IInv'
    <3> DEFINE e == call[r].enr
               s == call[r].sec
    <3>1. e \in Enrollments /\ s \in Sections
      BY <1>9, CallFields DEF CommitGrade
    <3>2. /\ pc'[r] = "idle"
          /\ \A q \in Requests \ {r} : pc'[q] = pc[q] /\ call'[q] = call[q]
      BY <1>9, Others DEF CommitGrade
    <3>3. \A f \in Enrollments, u \in Sections :
            /\ status'[f][u] = IF f = e /\ u = s THEN o ELSE status[f][u]
            /\ f = e /\ u = s => graded'[f][u]
            /\ ~(f = e /\ u = s) => graded'[f][u] = graded[f][u]
      <4>1. /\ status \in [Enrollments -> [Sections -> Row]]
            /\ graded \in [Enrollments -> [Sections -> BOOLEAN]]
        BY DEF TypeOK
      <4>2. /\ status' = [status EXCEPT ![e][s] = o]
            /\ graded' = [graded EXCEPT ![e][s] = TRUE]
        BY <2>2
      <4> HIDE DEF e, s, IInv
      <4>3. \A f \in Enrollments, u \in Sections :
              status'[f][u] = IF f = e /\ u = s THEN o ELSE status[f][u]
        BY <3>1, <4>1, <4>2, RowWritten
      <4>4. \A f \in Enrollments, u \in Sections :
              /\ f = e /\ u = s => graded'[f][u]
              /\ ~(f = e /\ u = s) => graded'[f][u] = graded[f][u]
        BY <3>1, <4>1, <4>2
      <4> QED
        BY <4>3, <4>4
    <3>4. status[e][s] \in Seated
      BY <2>2
    <3>5. \A q \in Requests : HoldsSection(q)' =>
            /\ q # r /\ HoldsSection(q) /\ call'[q] = call[q]
            /\ call[q].sec \in Sections /\ call[q].enr \in Enrollments
      BY <3>2, CallFields DEF HoldsSection
    <3>6. UNCHANGED <<capacity, live>>
      BY <1>9 DEF CommitGrade
    <3> HIDE DEF e, s
    <3>7. SectionMutex' /\ LockedSection'
      BY <3>5, <3>6 DEF SectionMutex, LockedSection
    <3>8. DecidedRow'
      <4>1. ASSUME NEW q \in Requests, pc'[q] \in {"count", "write"}
            PROVE  status'[call'[q].enr][call'[q].sec]
                     = IF call'[q].revive THEN "withdrawn" ELSE "none"
        <5>1. /\ pc[q] \in {"count", "write"} /\ call'[q] = call[q]
              /\ call[q].sec \in Sections /\ call[q].enr \in Enrollments
          BY <3>2, <3>5, <4>1 DEF HoldsSection
        <5>2. status[call[q].enr][call[q].sec]
                = IF call[q].revive THEN "withdrawn" ELSE "none"
          BY <5>1 DEF DecidedRow
        <5>3. status'[call[q].enr][call[q].sec] = status[call[q].enr][call[q].sec]
          BY <3>3, <3>4, <5>1, <5>2
        <5> QED
          BY <5>1, <5>2, <5>3
      <4> QED
        BY <4>1 DEF DecidedRow
    <3>9. FreeSeat'
      <4>1. \A u \in Sections : Active(u)' = Active(u)
        BY <3>1, <3>3, <3>4 DEF Active
      <4>2. ASSUME NEW q \in Requests, pc'[q] = "write"
            PROVE  Cardinality(Active(call[q].sec)') < call[q].cap /\ call'[q] = call[q]
        BY <3>2, <3>5, <4>1, <4>2 DEF FreeSeat, HoldsSection
      <4> QED
        BY <4>2 DEF FreeSeat, Active
    <3>10. OutcomeHasGrade'
      <4>1. ASSUME NEW f \in Enrollments, NEW u \in Sections
            PROVE  graded'[f][u] <=> status'[f][u] \in Outcomes
        <5>1. CASE f = e /\ u = s
          BY <3>3, <5>1
        <5>2. CASE ~(f = e /\ u = s)
          <6>1. status'[f][u] = status[f][u] /\ graded'[f][u] = graded[f][u]
            BY <3>3, <5>2
          <6> QED
            BY <6>1 DEF OutcomeHasGrade
        <5> QED
          BY <5>1, <5>2
      <4> QED
        BY <4>1 DEF OutcomeHasGrade
    <3> QED
      BY <3>7, <3>8, <3>9, <3>10
  <2> QED
    BY <1>9, <2>1, <2>2 DEF CommitGrade
<1> QED
  BY <1>1, <1>2, <1>3, <1>4, <1>5, <1>6, <1>7, <1>8, <1>9 DEF Advance

\* A step of another writer, no request moves: the rows that requests in their
\* transaction rely on stay as they are, and no seat is taken.
LEMMA OtherWriter ==
  ASSUME IInv, TypeOK', UNCHANGED <<pc, call>>,
         \A q \in Requests : HoldsSection(q) =>
           UNCHANGED <<capacity[call[q].sec], live[call[q].sec]>>,
         \A f \in Enrollments, u \in Sections :
           /\ status[f][u] \notin Seated => status'[f][u] = status[f][u]
           /\ graded'[f][u] = graded[f][u]
           /\ status'[f][u] \in Outcomes <=> status[f][u] \in Outcomes
  PROVE  IInv'
<1>1. \A q \in Requests : HoldsSection(q)' <=> HoldsSection(q)
  BY DEF HoldsSection
<1>2. SectionMutex'
  BY <1>1 DEF IInv, SectionMutex
<1>3. LockedSection'
  BY <1>1 DEF IInv, LockedSection
<1>4. DecidedRow'
  <2>1. ASSUME NEW q \in Requests, pc[q] \in {"count", "write"}
        PROVE  status'[call[q].enr][call[q].sec]
                 = IF call[q].revive THEN "withdrawn" ELSE "none"
    <3>1. call[q].enr \in Enrollments /\ call[q].sec \in Sections
      BY <2>1, CallFields DEF IInv
    <3>2. status[call[q].enr][call[q].sec]
            = IF call[q].revive THEN "withdrawn" ELSE "none"
      BY <2>1 DEF IInv, DecidedRow
    <3> QED
      BY <3>1, <3>2
  <2> QED
    BY <2>1 DEF DecidedRow
<1>5. FreeSeat'
  <2>1. \A u \in Sections : Active(u)' \subseteq Active(u)
    BY DEF Active
  <2>2. ASSUME NEW q \in Requests, pc[q] = "write"
        PROVE  Cardinality(Active(call[q].sec)') < call[q].cap
    <3>1. call[q].sec \in Sections /\ call[q].cap \in Nat
      BY <2>2, CallFields DEF IInv
    <3>2. Cardinality(Active(call[q].sec)) < call[q].cap
      BY <2>2 DEF IInv, FreeSeat
    <3> QED
      BY <2>1, <3>1, <3>2, ActiveFinite, ActiveShrinks
  <2> QED
    BY <2>2 DEF FreeSeat, Active
<1>6. OutcomeHasGrade'
  <2>1. ASSUME NEW f \in Enrollments, NEW u \in Sections
        PROVE  graded'[f][u] <=> status'[f][u] \in Outcomes
    <3>1. graded[f][u] <=> status[f][u] \in Outcomes
      BY DEF IInv, OutcomeHasGrade
    <3>2. graded'[f][u] = graded[f][u]
      OBVIOUS
    <3>3. status'[f][u] \in Outcomes <=> status[f][u] \in Outcomes
      OBVIOUS
    <3> QED
      BY <3>1, <3>2, <3>3
  <2> QED
    BY <2>1 DEF OutcomeHasGrade
<1> QED
  BY <1>2, <1>3, <1>4, <1>5, <1>6 DEF IInv

\* Every step keeps the invariant.
LEMMA NextInv == IInv /\ [Next]_vars => IInv'
<1> SUFFICES ASSUME IInv, [Next]_vars PROVE IInv'
  OBVIOUS
<1>0. TypeOK /\ TypeOK'
  BY NextType DEF IInv
<1>1. ASSUME NEW r \in Requests, Advance(r) PROVE IInv'
  BY <1>0, <1>1, AdvanceInv
<1>2. ASSUME NEW r \in Requests, Abort(r) PROVE IInv'
  BY <1>0, <1>2, Others, Unlocked DEF Abort
<1>3. ASSUME NEW r \in Requests, NEW e \in Enrollments, NEW s \in Sections,
             LockForGrade(r, e, s)
      PROVE IInv'
  BY <1>0, <1>3, Others, Unlocked DEF LockForGrade
<1>4. ASSUME NEW r \in Requests, NEW e \in Enrollments, NEW s \in Sections,
             NEW admin \in BOOLEAN, ReadCapacity(r, e, s, admin)
      PROVE IInv'
  BY <1>0, <1>4, Others, Unlocked DEF ReadCapacity
<1>5. ASSUME NEW e \in Enrollments, MoveMatricula(e) PROVE IInv'
  BY <1>0, <1>5, OtherWriter DEF MoveMatricula
<1>6. ASSUME NEW e \in Enrollments, NEW s \in Sections, WithdrawSection(e, s)
      PROVE IInv'
  <2>1. \A f \in Enrollments, u \in Sections :
          status'[f][u] = IF f = e /\ u = s THEN "withdrawn" ELSE status[f][u]
    BY <1>0, <1>6, RowWritten DEF WithdrawSection, TypeOK
  <2>2. status[e][s] = "in_progress" /\ UNCHANGED <<capacity, live, graded, pc, call>>
    BY <1>6 DEF WithdrawSection
  <2> QED
    BY <1>0, <2>1, <2>2, OtherWriter
<1>7. ASSUME NEW s \in Sections, DeleteSection(s) PROVE IInv'
  <2>1. \A q \in Requests : HoldsSection(q) => call[q].sec # s
    BY <1>7 DEF DeleteSection, SectionFree
  <2>2. \A u : u # s => live'[u] = live[u]
    BY <1>0, <1>7 DEF DeleteSection, TypeOK
  <2>3. UNCHANGED <<capacity, status, graded, pc, call>>
    BY <1>7 DEF DeleteSection
  <2> QED
    BY <1>0, <2>1, <2>2, <2>3, OtherWriter
<1>8. ASSUME NEW s \in Sections, ClockPasses(s) PROVE IInv'
  BY <1>0, <1>8, OtherWriter DEF ClockPasses
<1>9. ASSUME NEW s \in Sections, NEW c \in Capacities, UpdateSection(s, c)
      PROVE IInv'
  BY <1>0, <1>9, OtherWriter DEF UpdateSection, SectionFree, TypeOK
<1>10. CASE UNCHANGED vars
  BY <1>0, <1>10, OtherWriter DEF vars
<1> QED
  BY <1>1, <1>2, <1>3, <1>4, <1>5, <1>6, <1>7, <1>8, <1>9, <1>10 DEF Next

\* The invariant holds initially.
LEMMA InitInv == Init => IInv
BY InitType DEF Init, IInv, SectionMutex, LockedSection, DecidedRow, FreeSeat,
                OutcomeHasGrade, HoldsSection

\* In every state a locked section is one request's alone and still as that request
\* read it, the row it decided about is unchanged, and a request about to write has a
\* free seat: what the FOR UPDATE reads of EnrollSectionTx are there to ensure.
THEOREM Invariance == Spec => []IInv
BY InitInv, NextInv, PTL DEF Spec

\* A request writes the seat it decided on: nothing it read under its locks has
\* changed when InsertSectionEnrollment or ReviveSectionEnrollment runs.
THEOREM SeatDecision == Spec => []SeatDecisionHolds
<1>1. IInv => SeatDecisionHolds
  BY DEF IInv, SeatDecisionHolds, LockedSection, DecidedRow, FreeSeat, HoldsSection
<1> QED
  BY <1>1, Invariance, PTL

\* A final grade is there exactly on the inscriptions passed or failed.
THEOREM GradeMatchesOutcome == Spec => []OutcomeHasGrade
<1>1. IInv => OutcomeHasGrade
  BY DEF IInv
<1> QED
  BY <1>1, Invariance, PTL
-------------------------------------------------------------------------------
(* What a step may do to the seats, and the ledger. *)

\* The step writes v into the row of <<e, s>> and into no other.
Writes(e, s, v) ==
  \A f \in Enrollments, u \in Sections :
    status'[f][u] = IF f = e /\ u = s THEN v ELSE status[f][u]

Takes(e, s) ==
  /\ status[e][s] \in {"none", "withdrawn"}
  /\ Cardinality(Active(s)) < capacity[s]
  /\ Writes(e, s, "in_progress") /\ capacity' = capacity

Completes(e, s) ==
  /\ status[e][s] \in Seated
  /\ capacity' = capacity
  /\ \E o \in Outcomes : Writes(e, s, o)

Releases(e, s) ==
  status[e][s] = "in_progress" /\ Writes(e, s, "withdrawn") /\ capacity' = capacity

Resizes(s, c) ==
  capacity' = [capacity EXCEPT ![s] = c] /\ status' = status

SeatStep ==
  \/ UNCHANGED <<status, capacity>>
  \/ \E e \in Enrollments, s \in Sections :
       Takes(e, s) \/ Completes(e, s) \/ Releases(e, s)
  \/ \E s \in Sections, c \in Capacities : Resizes(s, c)

\* Every step takes a seat, releases one or changes no seat, as the ledger allows.
LEMMA SeatSteps ==
  ASSUME IInv, [Next]_vars
  PROVE  SeatStep
<1> USE DEF rows
<1>1. ASSUME NEW r \in Requests, WriteSeat(r) PROVE SeatStep
  <2> DEFINE e == call[r].enr
             s == call[r].sec
  <2>1. e \in Enrollments /\ s \in Sections /\ TypeOK
    BY <1>1, CallFields DEF WriteSeat, IInv
  <2>2. /\ status[e][s] \in {"withdrawn", "none"}
        /\ status' = [status EXCEPT ![e][s] = "in_progress"]
    BY <1>1, <2>1 DEF WriteSeat, IInv, DecidedRow, TypeOK
  <2>3. Cardinality(Active(s)) < capacity[s]
    BY <1>1 DEF WriteSeat, IInv, FreeSeat, LockedSection, HoldsSection
  <2>4. capacity' = capacity
    BY <1>1 DEF WriteSeat
  <2> HIDE DEF e, s
  <2>5. Writes(e, s, "in_progress")
    BY <2>1, <2>2, RowWritten DEF Writes, TypeOK
  <2> QED
    BY <2>1, <2>2, <2>3, <2>4, <2>5 DEF SeatStep, Takes
<1>2. ASSUME NEW r \in Requests, CommitGrade(r) PROVE SeatStep
  <2> DEFINE e == call[r].enr
             s == call[r].sec
  <2>1. e \in Enrollments /\ s \in Sections /\ TypeOK
    BY <1>2, CallFields DEF CommitGrade, IInv
  <2>2. capacity' = capacity
    BY <1>2 DEF CommitGrade
  <2>3. ASSUME NEW o \in Outcomes, status[e][s] \in Seated,
               status' = [status EXCEPT ![e][s] = o]
        PROVE  SeatStep
    <3> HIDE DEF e, s
    <3>1. Writes(e, s, o)
      BY <2>1, <2>3, RowWritten DEF Writes, TypeOK
    <3> QED
      BY <2>1, <2>2, <2>3, <3>1 DEF SeatStep, Completes
  <2> QED
    BY <1>2, <2>2, <2>3 DEF CommitGrade, SeatStep
<1>3. ASSUME NEW e \in Enrollments, NEW s \in Sections, WithdrawSection(e, s)
      PROVE  SeatStep
  <2>1. Writes(e, s, "withdrawn")
    BY <1>3, RowWritten DEF WithdrawSection, Writes, IInv, TypeOK
  <2> QED
    BY <1>3, <2>1 DEF WithdrawSection, SeatStep, Releases
<1>4. ASSUME NEW s \in Sections, NEW c \in Capacities, UpdateSection(s, c)
      PROVE  SeatStep
  BY <1>4 DEF UpdateSection, SeatStep, Resizes
<1>5. ASSUME NEW r \in Requests, Advance(r) PROVE SeatStep
  BY <1>1, <1>2, <1>5 DEF Advance, PreCheck, BeginTx, LockSection, CheckEnrollment,
                          LockKey, CountSeats, LockTimeout, SeatStep
<1>6. ASSUME NEW r \in Requests,
             \/ Abort(r)
             \/ \E e \in Enrollments, s \in Sections :
                  \/ LockForGrade(r, e, s)
                  \/ \E admin \in BOOLEAN : ReadCapacity(r, e, s, admin)
      PROVE  SeatStep
  BY <1>6 DEF Abort, LockForGrade, ReadCapacity, SeatStep
<1>7. ASSUME NEW e \in Enrollments, MoveMatricula(e) PROVE SeatStep
  BY <1>7 DEF MoveMatricula, SeatStep
<1>8. ASSUME NEW s \in Sections, DeleteSection(s) \/ ClockPasses(s) PROVE SeatStep
  BY <1>8 DEF DeleteSection, ClockPasses, SeatStep
<1>9. CASE UNCHANGED vars
  BY <1>9 DEF vars, SeatStep
<1> QED
  BY <1>3, <1>4, <1>5, <1>6, <1>7, <1>8, <1>9 DEF Next

\* A seat taken is one more seat, any other write of a row is no more.
LEMMA SeatCount ==
  ASSUME TypeOK, SeatStep, NEW s \in Sections
  PROVE  \/ Active(s)' \subseteq Active(s)
         \/ Cardinality(Active(s)') <= capacity[s]
<1>1. CASE UNCHANGED <<status, capacity>>
  BY <1>1 DEF Active
<1>2. ASSUME NEW e \in Enrollments, NEW u \in Sections, Completes(e, u) \/ Releases(e, u)
      PROVE  Active(s)' \subseteq Active(s)
  BY <1>2 DEF Completes, Releases, Writes, Active
<1>3. ASSUME NEW e \in Enrollments, Takes(e, s)
      PROVE  Cardinality(Active(s)') <= capacity[s]
  <2>1. Active(s)' = Active(s) \cup {e} /\ e \notin Active(s)
    BY <1>3 DEF Takes, Writes, Active
  <2>2. Cardinality(Active(s)') = Cardinality(Active(s)) + 1
    BY <2>1, ActiveFinite, FS_AddElement
  <2>3. Cardinality(Active(s)) < capacity[s] /\ Cardinality(Active(s)) \in Nat
    BY <1>3, ActiveFinite DEF Takes
  <2> QED
    <3>1. capacity[s] \in Nat
      BY ConstantsAssumption DEF TypeOK
    <3> QED
      BY <2>2, <2>3, <3>1
<1>4. ASSUME NEW e \in Enrollments, NEW u \in Sections, u # s, Takes(e, u)
      PROVE  Active(s)' \subseteq Active(s)
  BY <1>4 DEF Takes, Writes, Active
<1>5. ASSUME NEW u \in Sections, NEW c \in Capacities, Resizes(u, c)
      PROVE  Active(s)' \subseteq Active(s)
  BY <1>5 DEF Resizes, Active
<1> QED
  BY <1>1, <1>2, <1>3, <1>4, <1>5 DEF SeatStep

\* No step takes a seat that is not free, for any number of concurrent requests.
THEOREM NeverOversold == Spec => NoOversell
<1>1. IInv /\ [Next]_vars =>
        [\A s \in Sections :
           Active(s)' \subseteq Active(s) \/ Cardinality(Active(s)') <= capacity[s]]_vars
  BY SeatSteps, SeatCount DEF IInv
<1> QED
  BY <1>1, Invariance, PTL DEF Spec, NoOversell

\* No section has more inscriptions than seats.
SeatsSuffice == \A s \in Sections : Cardinality(Active(s)) <= capacity[s]

\* UpdateSection tests nothing but that the capacity is positive; this is what an
\* administrator has to see to.
ResizesFit ==
  [][\A s \in Sections :
       capacity'[s] # capacity[s] => Cardinality(Active(s)) <= capacity'[s]]_vars

\* The peak never fills a section beyond its seats: nothing but a resize below the
\* seats already taken can, whatever requests, grades, withdrawals and deletions do.
THEOREM NeverOverfull == Spec /\ ResizesFit => []SeatsSuffice
<1> DEFINE Fit == \A s \in Sections :
             capacity'[s] # capacity[s] => Cardinality(Active(s)) <= capacity'[s]
<1>1. Init => SeatsSuffice
  <2> SUFFICES ASSUME Init, NEW s \in Sections PROVE Cardinality(Active(s)) <= capacity[s]
    BY DEF SeatsSuffice
  <2>1. Active(s) = {}
    BY DEF Init, Active, Seated
  <2>2. capacity[s] \in Nat
    BY ConstantsAssumption DEF Init
  <2> QED
    BY <2>1, <2>2, FS_EmptySet
<1>2. ASSUME IInv, IInv', [Next]_vars, [Fit]_vars, SeatsSuffice PROVE SeatsSuffice'
  <2> SUFFICES ASSUME NEW s \in Sections
               PROVE  Cardinality(Active(s)') <= capacity'[s]
    BY DEF SeatsSuffice
  <2>1. SeatStep /\ TypeOK
    BY <1>2, SeatSteps DEF IInv
  <2>2. Cardinality(Active(s)) <= capacity'[s]
    BY <1>2 DEF SeatsSuffice, vars
  <2>3. capacity[s] \in Nat /\ capacity'[s] \in Nat
    BY <1>2, ConstantsAssumption DEF IInv, TypeOK
  <2>4. CASE Active(s)' \subseteq Active(s)
    BY <2>2, <2>3, <2>4, ActiveShrinks, ActiveFinite
  <2>5. CASE ~ (Active(s)' \subseteq Active(s))
    <3>1. Cardinality(Active(s)') <= capacity[s]
      BY <2>1, <2>5, SeatCount
    <3>2. capacity' = capacity
      BY <2>1, <2>5 DEF SeatStep, Takes, Completes, Releases, Resizes, Active
    <3> QED
      BY <3>1, <3>2
  <2> QED
    BY <2>4, <2>5
<1> QED
  BY <1>1, <1>2, Invariance, PTL DEF Spec, ResizesFit

\* A decided outcome stays decided: no step reopens or withdraws it.
THEOREM OutcomeNeverUndone == Spec => OutcomeStays
<1>1. ASSUME IInv, [Next]_vars, NEW e \in Enrollments, NEW s \in Sections,
             status[e][s] \in Outcomes
      PROVE  status'[e][s] \in Outcomes
  <2>1. SeatStep
    BY <1>1, SeatSteps
  <2> QED
    BY <1>1, <2>1 DEF SeatStep, Takes, Completes, Releases, Resizes, Writes
<1>2. IInv /\ [Next]_vars =>
        [\A e \in Enrollments, s \in Sections :
           status[e][s] \in Outcomes => status'[e][s] \in Outcomes]_vars
  BY <1>1
<1> QED
  BY <1>2, Invariance, PTL DEF Spec, OutcomeStays

\* The implementation's steps are the ledger's: a seat is taken atomically when
\* the enrolment commits, whatever the statements before it interleaved with.
LEMMA LedgerStep ==
  ASSUME TypeOK, SeatStep
  PROVE  [Ledger!Next]_(Ledger!ledgerVars)
<1> DEFINE taken == [s \in Sections |-> Active(s)]
           Done(s) == {e \in Enrollments : status[e][s] \in Outcomes}
           done == [s \in Sections |-> Done(s)]
<1>1. CASE UNCHANGED <<status, capacity>>
  BY <1>1 DEF Ledger!ledgerVars, Active
<1>2. ASSUME NEW e \in Enrollments, NEW s \in Sections, Takes(e, s)
      PROVE  Ledger!Next
  <2>1. /\ e \notin taken[s] /\ Cardinality(taken[s]) < capacity[s]
        /\ UNCHANGED capacity
    BY <1>2 DEF Takes, Active
  <2>2. taken' = [taken EXCEPT ![s] = @ \cup {e}]
    <3>1. \A u \in Sections :
            Active(u)' = IF u = s THEN Active(u) \cup {e} ELSE Active(u)
      BY <1>2 DEF Takes, Writes, Active
    <3> QED
      BY <3>1
  <2>3. done' = done
    BY <1>2 DEF Takes, Writes
  <2>4. Ledger!Take(e, s)
    <3>1. Ledger!Cardinality(taken[s]) = Cardinality(taken[s])
      BY DEF Ledger!Cardinality, Cardinality
    <3> QED
      BY <2>1, <2>2, <2>3, <3>1 DEF Ledger!Take
  <2> QED
    BY <2>4 DEF Ledger!Next
<1>3. ASSUME NEW e \in Enrollments, NEW s \in Sections, Completes(e, s)
      PROVE  Ledger!Next
  <2>1. e \in taken[s] /\ UNCHANGED capacity
    BY <1>3 DEF Completes, Active
  <2>2. done' = [done EXCEPT ![s] = @ \cup {e}]
    <3>1. \A u \in Sections :
            Done(u)' = IF u = s THEN Done(u) \cup {e} ELSE Done(u)
      BY <1>3 DEF Completes, Writes
    <3> QED
      BY <3>1
  <2>3. taken' = taken
    BY <1>3 DEF Completes, Writes, Active
  <2>4. Ledger!Complete(e, s)
    BY <2>1, <2>2, <2>3 DEF Ledger!Complete
  <2> QED
    BY <2>4 DEF Ledger!Next
<1>4. ASSUME NEW e \in Enrollments, NEW s \in Sections, Releases(e, s)
      PROVE  Ledger!Next
  <2>1. e \in taken[s] \ done[s] /\ UNCHANGED capacity
    BY <1>4 DEF Releases, Active
  <2>2. taken' = [taken EXCEPT ![s] = @ \ {e}]
    <3>1. \A u \in Sections :
            Active(u)' = IF u = s THEN Active(u) \ {e} ELSE Active(u)
      BY <1>4 DEF Releases, Writes, Active
    <3> QED
      BY <3>1
  <2>3. done' = done
    BY <1>4 DEF Releases, Writes
  <2>4. Ledger!Release(e, s)
    BY <2>1, <2>2, <2>3 DEF Ledger!Release
  <2> QED
    BY <2>4 DEF Ledger!Next
<1>5. ASSUME NEW s \in Sections, NEW c \in Capacities, Resizes(s, c)
      PROVE  Ledger!Next
  <2>1. taken' = taken /\ done' = done
    BY <1>5 DEF Resizes, Active
  <2> QED
    BY <1>5, <2>1 DEF Resizes, Ledger!Next, Ledger!Resize, TypeOK
<1> QED
  BY <1>1, <1>2, <1>3, <1>4, <1>5 DEF SeatStep

\* The component implements the ledger, for every number of requests,
\* enrolments and sections.
THEOREM LedgerImplemented == Spec => ImplementsLedger
<1>1. Init => Ledger!Init
  BY DEF Init, Ledger!Init, Active
<1>2. IInv /\ [Next]_vars => [Ledger!Next]_(Ledger!ledgerVars)
  BY SeatSteps, LedgerStep DEF IInv
<1> QED
  BY <1>1, <1>2, Invariance, PTL DEF Spec, ImplementsLedger, Ledger!Spec
===============================================================================
