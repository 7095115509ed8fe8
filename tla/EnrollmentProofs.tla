--------------------------- MODULE EnrollmentProofs ---------------------------
(***************************************************************************)
(* Proofs about Enrollment, for any number of requests, students, years,   *)
(* quota rows and capacities.                                              *)
(***************************************************************************)
EXTENDS Enrollment, FiniteSetTheorems, TLAPS

USE DEF Statuses, Occupies, Steps

\* None is neither a year, a quota row nor the locals of a call.
LEMMA NoneApart == /\ None \notin Years /\ None \notin Quotas /\ None \notin Call
BY ConstantsAssumption

\* The initial state is well typed.
LEMMA InitType == Init => TypeOK
BY DEF Init, TypeOK

\* The locals of a running request are of their types.
LEMMA CallFields ==
  ASSUME TypeOK, NEW r \in Requests, pc[r] # "idle"
  PROVE  /\ call[r] \in Call /\ call[r].student \in Students /\ call[r].year \in Years
         /\ call[r].row \in Quotas \cup {None} /\ call[r].cap \in Nat
         /\ call[r].revive \in BOOLEAN
<1>1. call[r] \in Call
  BY DEF TypeOK
<1>2. Capacities \cup {0} \subseteq Nat
  BY ConstantsAssumption
<1> QED
  BY <1>1, <1>2 DEF Call

\* Updating a local keeps the locals well typed.
LEMMA LocalType ==
  ASSUME NEW c \in Call
  PROVE  /\ \A q \in Quotas, n \in Capacities \cup {0} :
              [c EXCEPT !.row = q, !.cap = n] \in Call
         /\ \A q \in Quotas : [c EXCEPT !.row = q] \in Call
         /\ \A b \in BOOLEAN : [c EXCEPT !.revive = b] \in Call
BY DEF Call

\* A request that ends keeps the request variables well typed, and so does one
\* that goes on with well typed locals.
LEMMA FinishType ==
  ASSUME TypeOK, NEW r \in Requests, Finish(r)
  PROVE  /\ pc' \in [Requests -> Steps]
         /\ call' \in [Requests -> Call \cup {None}]
         /\ \A t \in Requests : pc'[t] # "idle" =>
              /\ call'[t] \in Call
              /\ pc'[t] \in {"wait", "key", "count", "write"} => call'[t].row \in Quotas
BY DEF TypeOK, Finish, GoTo

\* A call that goes to another step with well-typed locals keeps the types.
LEMMA StepType ==
  ASSUME TypeOK, NEW r \in Requests, NEW step \in Steps, NEW c \in Call,
         step \in {"wait", "key", "count", "write"} => c.row \in Quotas,
         GoTo(r, step), call' = [call EXCEPT ![r] = c], UNCHANGED rows
  PROVE  TypeOK'
BY DEF TypeOK, GoTo, rows

\* A call that ends keeps the types.
LEMMA EndType ==
  ASSUME TypeOK, NEW r \in Requests, Finish(r), UNCHANGED rows
  PROVE  TypeOK'
BY FinishType DEF TypeOK, rows

\* Writing one row of a table keyed by student and year.
LEMMA RowType ==
  ASSUME NEW s \in Students, NEW y \in Years, NEW V, NEW v \in V,
         NEW t \in [Students -> [Years -> V]]
  PROVE  [t EXCEPT ![s][y] = v] \in [Students -> [Years -> V]]
OBVIOUS

\* Writing one row of a table leaves the others.
LEMMA RowWritten ==
  ASSUME NEW s \in Students, NEW y \in Years, NEW V, NEW v,
         NEW t \in [Students -> [Years -> V]]
  PROVE  \A f \in Students, u \in Years :
           /\ f = s /\ u = y => [t EXCEPT ![s][y] = v][f][u] = v
           /\ ~(f = s /\ u = y) => [t EXCEPT ![s][y] = v][f][u] = t[f][u]
OBVIOUS

\* The locals of a request that has just locked row q.
LEMMA TakeFields ==
  ASSUME TypeOK, NEW r \in Requests, pc[r] # "idle", NEW q \in Quotas, TakeQuota(r, q)
  PROVE  /\ pc'[r] = "key" /\ \A t \in Requests \ {r} : pc'[t] = pc[t] /\ call'[t] = call[t]
         /\ call'[r] \in Call /\ call'[r].row = q /\ call'[r].cap = quota[q].cap
         /\ call'[r].student = call[r].student /\ call'[r].year = call[r].year
         /\ UNCHANGED rows => TypeOK'
<1> DEFINE c == [call[r] EXCEPT !.row = q, !.cap = quota[q].cap]
<1>1. quota[q].cap \in Capacities \cup {0}
  BY DEF TypeOK
<1>2. c \in Call
  BY <1>1, CallFields, LocalType
<1>3. /\ c.row = q /\ c.cap = quota[q].cap
      /\ c.student = call[r].student /\ c.year = call[r].year
  BY CallFields DEF Call
<1>4. GoTo(r, "key") /\ call' = [call EXCEPT ![r] = c]
  BY DEF TakeQuota
<1> HIDE DEF c
<1>5. call'[r] = c /\ \A t \in Requests \ {r} : call'[t] = call[t]
  BY <1>4 DEF TypeOK
<1>6. pc'[r] = "key" /\ \A t \in Requests \ {r} : pc'[t] = pc[t]
  BY <1>4 DEF TypeOK, GoTo
<1>7. UNCHANGED rows => TypeOK'
  BY <1>2, <1>3, <1>4, StepType
<1> QED
  BY <1>2, <1>3, <1>5, <1>6, <1>7

\* Every step keeps the types.
LEMMA NextType == TypeOK /\ [Next]_vars => TypeOK'
<1> SUFFICES ASSUME TypeOK, [Next]_vars PROVE TypeOK'
  OBVIOUS
<1>1. ASSUME NEW r \in Requests, LockQuota(r) PROVE TypeOK'
  <2>1. CASE Finish(r)
    BY <1>1, <2>1, EndType DEF LockQuota
  <2>2. ASSUME NEW q \in Quotas, TakeQuota(r, q) PROVE TypeOK'
    BY <1>1, <2>2, TakeFields DEF LockQuota
  <2>3. ASSUME NEW q \in Quotas, GoTo(r, "wait"), call' = [call EXCEPT ![r].row = q]
        PROVE  TypeOK'
    <3> DEFINE c == [call[r] EXCEPT !.row = q]
    <3>1. c \in Call /\ c.row = q
      BY <1>1, CallFields, LocalType DEF LockQuota, Call
    <3>2. call' = [call EXCEPT ![r] = c]
      BY <2>3
    <3> HIDE DEF c
    <3> QED
      BY <1>1, <2>3, <3>1, <3>2, StepType DEF LockQuota
  <2> QED
    BY <1>1, <2>1, <2>2, <2>3 DEF LockQuota
<1>2. ASSUME NEW r \in Requests, AcquireQuota(r) PROVE TypeOK'
  <2>1. CASE Finish(r)
    BY <1>2, <2>1, EndType DEF AcquireQuota
  <2>2. CASE TakeQuota(r, call[r].row)
    <3>1. call[r].row \in Quotas
      BY <1>2 DEF AcquireQuota, TypeOK
    <3> QED
      BY <1>2, <2>2, <3>1, TakeFields DEF AcquireQuota
  <2> QED
    BY <1>2, <2>1, <2>2 DEF AcquireQuota
<1>3. ASSUME NEW r \in Requests, LockKey(r) PROVE TypeOK'
  <2>1. CASE Finish(r)
    BY <1>3, <2>1, EndType DEF LockKey
  <2>2. ASSUME NEW b \in BOOLEAN, GoTo(r, "count"), call' = [call EXCEPT ![r].revive = b]
        PROVE  TypeOK'
    <3> DEFINE c == [call[r] EXCEPT !.revive = b]
    <3>1. c \in Call /\ c.row \in Quotas
      BY <1>3, CallFields, LocalType DEF LockKey, Call, TypeOK
    <3>2. call' = [call EXCEPT ![r] = c]
      BY <2>2
    <3> HIDE DEF c
    <3> QED
      BY <1>3, <2>2, <3>1, <3>2, StepType DEF LockKey
  <2> QED
    BY <1>3, <2>1, <2>2 DEF LockKey
<1>4. ASSUME NEW r \in Requests, CountSeats(r) PROVE TypeOK'
  <2>1. CASE Finish(r)
    BY <1>4, <2>1, EndType DEF CountSeats
  <2>2. CASE GoTo(r, "write") /\ UNCHANGED call
    BY <1>4, <2>2 DEF CountSeats, GoTo, TypeOK, rows
  <2> QED
    BY <1>4, <2>1, <2>2 DEF CountSeats
<1>5. ASSUME NEW r \in Requests, WriteSeat(r) PROVE TypeOK'
  <2> DEFINE s == call[r].student
             y == call[r].year
             v == IF call[r].revive \/ matricula[s][y] = "none"
                  THEN "pending" ELSE matricula[s][y]
             w == IF call[r].revive THEN FALSE ELSE paid[s][y]
  <2>1. s \in Students /\ y \in Years /\ Finish(r) /\ UNCHANGED quota
    BY <1>5, CallFields DEF WriteSeat
  <2>2. v \in Statuses /\ matricula' = [matricula EXCEPT ![s][y] = v]
    BY <1>5, <2>1 DEF WriteSeat, TypeOK
  <2>3. w \in BOOLEAN /\ paid' = [paid EXCEPT ![s][y] = w]
    BY <1>5, <2>1 DEF WriteSeat, TypeOK
  <2> HIDE DEF s, y, v, w
  <2>4. /\ matricula' \in [Students -> [Years -> Statuses]]
        /\ paid' \in [Students -> [Years -> BOOLEAN]]
    BY <2>1, <2>2, <2>3, RowType DEF TypeOK
  <2> QED
    BY <2>1, <2>4, FinishType DEF TypeOK
<1>6. ASSUME NEW r \in Requests, Reread(r) \/ Abort(r) PROVE TypeOK'
  BY <1>6, EndType DEF Reread, Abort
<1>7. ASSUME NEW r \in Requests, NEW s \in Students, NEW y \in Years,
             NEW op \in {"create", "pay", "cancel"}, NEW step \in {"quota", "reread"},
             Start(r, op, s, y, step)
      PROVE  TypeOK'
  BY <1>7 DEF Start, GoTo, rows, Call, TypeOK
<1>8. ASSUME NEW s \in Students, NEW y \in Years, MarkPaid(s, y) PROVE TypeOK'
  BY <1>8, RowType DEF MarkPaid, TypeOK
<1>9. ASSUME NEW s \in Students, NEW y \in Years, CancelEnrollment(s, y) PROVE TypeOK'
  BY <1>9, RowType DEF CancelEnrollment, TypeOK
<1>10. ASSUME NEW q \in Quotas, NEW y \in Years, NEW c \in Capacities,
              UpsertQuota(q, y, c) \/ UpdateQuota(q, y, c)
       PROVE  TypeOK'
  <2>1. CASE UpsertQuota(q, y, c)
    BY <2>1 DEF UpsertQuota, TypeOK
  <2>2. CASE UpdateQuota(q, y, c)
    <3> DEFINE row == [quota[q] EXCEPT !.year = y, !.cap = c]
    <3>1. row \in [year : Years \cup {None}, cap : Capacities \cup {0}, live : BOOLEAN]
      BY DEF TypeOK
    <3>2. quota' = [quota EXCEPT ![q] = row]
      BY <2>2 DEF UpdateQuota
    <3>3. UNCHANGED <<matricula, paid, pc, call>>
      BY <2>2 DEF UpdateQuota
    <3> HIDE DEF row
    <3>4. quota' \in [Quotas -> [year : Years \cup {None}, cap : Capacities \cup {0},
                                 live : BOOLEAN]]
      BY <3>1, <3>2 DEF TypeOK
    <3> QED
      BY <3>3, <3>4 DEF TypeOK
  <2> QED
    BY <1>10, <2>1, <2>2
<1>11. ASSUME NEW q \in Quotas, DeleteQuota(q) PROVE TypeOK'
  BY <1>11 DEF DeleteQuota, TypeOK
<1>12. CASE UNCHANGED vars
  BY <1>12 DEF vars, TypeOK
<1> QED
  BY <1>1, <1>2, <1>3, <1>4, <1>5, <1>6, <1>7, <1>8, <1>9, <1>10, <1>11, <1>12
  DEF Next, Advance, Create, Refuse

\* Every variable keeps its type, and a request under the quota lock has a row.
THEOREM TypeCorrect == Spec => []TypeOK
BY InitType, NextType, PTL DEF Spec
-------------------------------------------------------------------------------
(* The admission decision: the inductive invariant. *)

\* The taken seats are finitely many, so that counting them means something.
LEMMA ActiveFinite ==
  ASSUME NEW y \in Years
  PROVE  IsFiniteSet(Active(y)) /\ Cardinality(Active(y)) \in Nat
BY ConstantsAssumption, FS_Subset, FS_CardinalityType DEF Active

\* Fewer seats taken, a smaller count.
LEMMA ActiveShrinks ==
  ASSUME NEW y \in Years, Active(y)' \subseteq Active(y)
  PROVE  /\ Cardinality(Active(y)') <= Cardinality(Active(y))
         /\ Cardinality(Active(y)') \in Nat
BY ActiveFinite, FS_Subset, FS_CardinalityType

\* Two requests under the quota lock are of different years: their rows differ,
\* and each row is still of its request's year.
LEMMA YearsDiffer ==
  ASSUME IInv, NEW r \in Requests, NEW t \in Requests, r # t,
         HoldsQuota(r), HoldsQuota(t)
  PROVE  call[r].year # call[t].year
<1>1. /\ call[r].row \in Quotas /\ call[t].row \in Quotas
      /\ call[r].year \in Years
  BY CallFields DEF HoldsQuota, IInv, TypeOK
<1>2. call[r].row # call[t].row
  BY DEF IInv, QuotaMutex
<1>3. /\ quota[call[r].row].year = call[r].year
      /\ quota[call[t].row].year = call[t].year
  BY DEF IInv, LockedQuota, QuotaOf
<1> QED
  BY <1>1, <1>2, <1>3, NoneApart DEF IInv, OneRowPerYear

\* A step of r that writes no row.
LEMMA RequestStep ==
  ASSUME IInv, TypeOK', NEW r \in Requests, UNCHANGED rows,
         \A t \in Requests \ {r} : pc'[t] = pc[t] /\ call'[t] = call[t],
         HoldsQuota(r)' =>
           /\ \A t \in Requests \ {r} : HoldsQuota(t) => call[t].row # call'[r].row
           /\ QuotaOf(call'[r].row, call'[r].year)
           /\ call'[r].cap = quota[call'[r].row].cap,
         pc'[r] \in {"count", "write"} =>
           matricula[call'[r].student][call'[r].year]
             = IF call'[r].revive THEN "cancelled" ELSE "none",
         pc'[r] = "write" => Cardinality(Active(call'[r].year)) < call'[r].cap
  PROVE  IInv'
<1>1. \A t \in Requests \ {r} : HoldsQuota(t)' <=> HoldsQuota(t)
  BY DEF HoldsQuota
<1>2. OneRowPerYear' /\ PaidAtMatches'
  BY DEF IInv, OneRowPerYear, PaidAtMatches, rows
<1>3. QuotaMutex'
  BY <1>1 DEF IInv, QuotaMutex
<1>4. LockedQuota'
  BY <1>1 DEF IInv, LockedQuota, QuotaOf, rows
<1>5. DecidedRow'
  BY DEF IInv, DecidedRow, rows
<1>6. FreeSeat'
  <2>1. \A t \in Requests : pc'[t] = "write" => Cardinality(Active(call'[t].year)) < call'[t].cap
    BY DEF IInv, FreeSeat
  <2>2. \A y : Active(y)' = Active(y)
    BY DEF Active, rows
  <2> QED
    BY <2>1, <2>2 DEF FreeSeat
<1> QED
  BY <1>2, <1>3, <1>4, <1>5, <1>6 DEF IInv

\* A step of a request that ends outside the locked part keeps the invariant.
LEMMA Unlocked ==
  ASSUME IInv, TypeOK', NEW r \in Requests, UNCHANGED rows,
         \A t \in Requests \ {r} : pc'[t] = pc[t] /\ call'[t] = call[t],
         pc'[r] \in {"idle", "quota", "wait", "reread"}
  PROVE  IInv'
BY RequestStep DEF HoldsQuota

\* A step of one request leaves the program counter and the locals of the others.
LEMMA Others ==
  ASSUME TypeOK, NEW r \in Requests
  PROVE  /\ \A step : GoTo(r, step) =>
              pc'[r] = step /\ \A t \in Requests \ {r} : pc'[t] = pc[t]
         /\ \A c : call' = [call EXCEPT ![r] = c] =>
              call'[r] = c /\ \A t \in Requests \ {r} : call'[t] = call[t]
         /\ Finish(r) => /\ pc'[r] = "idle"
                         /\ \A t \in Requests \ {r} : pc'[t] = pc[t] /\ call'[t] = call[t]
BY DEF TypeOK, GoTo, Finish

\* A call that takes the free quota row of its year keeps the invariant: what it
\* reads of the row is what the row holds.
LEMMA Taken ==
  ASSUME IInv, TypeOK', NEW r \in Requests, pc[r] # "idle", NEW q \in Quotas,
         QuotaOf(q, call[r].year), QuotaFree(q), TakeQuota(r, q), UNCHANGED rows
  PROVE  IInv'
<1>1. TypeOK
  BY DEF IInv
<1>2. \A t \in Requests \ {r} : HoldsQuota(t) => call[t].row # q
  BY DEF QuotaFree
<1> QED
  BY <1>1, <1>2, TakeFields, RequestStep

\* The statements of the transaction keep the invariant.
LEMMA AdvanceInv ==
  ASSUME IInv, TypeOK', NEW r \in Requests, Advance(r) \/ AcquireQuota(r)
  PROVE  IInv'
<1>0. TypeOK
  BY DEF IInv
<1>1. CASE LockQuota(r)
  <2>1. CASE Finish(r)
    BY <1>0, <1>1, <2>1, Others, Unlocked DEF LockQuota
  <2>2. ASSUME NEW q \in Quotas, QuotaOf(q, call[r].year), QuotaFree(q), TakeQuota(r, q)
        PROVE  IInv'
    BY <1>1, <2>2, Taken DEF LockQuota
  <2>3. ASSUME NEW q \in Quotas, GoTo(r, "wait"), call' = [call EXCEPT ![r].row = q]
        PROVE  IInv'
    <3>1. \A t \in Requests \ {r} : call'[t] = call[t]
      BY <1>0, <2>3 DEF TypeOK
    <3> QED
      BY <1>0, <1>1, <2>3, <3>1, Others, Unlocked DEF LockQuota
  <2> QED
    BY <1>1, <2>1, <2>2, <2>3 DEF LockQuota
<1>2. CASE AcquireQuota(r)
  <2>1. CASE Finish(r)
    BY <1>0, <1>2, <2>1, Others, Unlocked DEF AcquireQuota
  <2>2. call[r].row \in Quotas
    BY <1>0, <1>2 DEF AcquireQuota, TypeOK
  <2> QED
    BY <1>2, <2>1, <2>2, Taken DEF AcquireQuota
<1>3. CASE LockKey(r)
  <2>1. CASE Finish(r)
    BY <1>0, <1>3, <2>1, Others, Unlocked DEF LockKey
  <2>2. ASSUME NEW b \in BOOLEAN, GoTo(r, "count"), call' = [call EXCEPT ![r].revive = b],
               matricula[call[r].student][call[r].year] = IF b THEN "cancelled" ELSE "none"
        PROVE  IInv'
    <3> DEFINE c == [call[r] EXCEPT !.revive = b]
    <3>1. HoldsQuota(r) /\ call[r] \in Call
      BY <1>0, <1>3 DEF LockKey, HoldsQuota, TypeOK
    <3>2. call' = [call EXCEPT ![r] = c]
      BY <2>2
    <3>3. /\ c.student = call[r].student /\ c.year = call[r].year
          /\ c.row = call[r].row /\ c.cap = call[r].cap /\ c.revive = b
      BY <3>1 DEF Call
    <3> HIDE DEF c
    <3>4. call'[r] = c /\ \A t \in Requests \ {r} : call'[t] = call[t]
      BY <1>0, <3>2, Others
    <3>5. pc'[r] = "count" /\ \A t \in Requests \ {r} : pc'[t] = pc[t]
      BY <1>0, <2>2, Others
    <3>6. /\ \A t \in Requests \ {r} : HoldsQuota(t) => call[t].row # c.row
          /\ QuotaOf(c.row, c.year) /\ c.cap = quota[c.row].cap
      BY <3>1, <3>3 DEF IInv, QuotaMutex, LockedQuota
    <3>7. matricula[c.student][c.year] = IF c.revive THEN "cancelled" ELSE "none"
      BY <2>2, <3>3
    <3>8. UNCHANGED rows
      BY <1>3 DEF LockKey
    <3> QED
      BY <3>4, <3>5, <3>6, <3>7, <3>8, RequestStep
  <2>3. LET st == matricula[call[r].student][call[r].year] IN
          st \notin Occupies =>
            (st = "cancelled") \in BOOLEAN
            /\ st = IF st = "cancelled" THEN "cancelled" ELSE "none"
    BY <1>0, <1>3, CallFields DEF LockKey, TypeOK
  <2> QED
    BY <1>3, <2>1, <2>2, <2>3 DEF LockKey
<1>4. CASE CountSeats(r)
  <2>1. CASE Finish(r)
    BY <1>0, <1>4, <2>1, Others, Unlocked DEF CountSeats
  <2>2. CASE /\ GoTo(r, "write") /\ UNCHANGED call
             /\ Cardinality(Active(call[r].year)) < call[r].cap
    <3>1. HoldsQuota(r)
      BY <1>4 DEF CountSeats, HoldsQuota
    <3> QED
      BY <1>0, <1>4, <2>2, <3>1, Others, RequestStep
      DEF CountSeats, IInv, QuotaMutex, LockedQuota, DecidedRow
  <2> QED
    BY <1>4, <2>1, <2>2 DEF CountSeats
<1>5. CASE Reread(r)
  BY <1>0, <1>5, Others, Unlocked DEF Reread
<1>6. CASE WriteSeat(r)
  <2> DEFINE s == call[r].student
             y == call[r].year
  <2>1. s \in Students /\ y \in Years /\ HoldsQuota(r)
    BY <1>0, <1>6, CallFields DEF WriteSeat, HoldsQuota
  <2>2. /\ pc'[r] = "idle"
        /\ \A t \in Requests \ {r} : pc'[t] = pc[t] /\ call'[t] = call[t]
    BY <1>0, <1>6, Others DEF WriteSeat
  <2>3. /\ matricula[s][y] = IF call[r].revive THEN "cancelled" ELSE "none"
        /\ call[r].revive \in BOOLEAN
    BY <1>0, <1>6, CallFields DEF WriteSeat, IInv, DecidedRow
  <2>4. /\ matricula' = [matricula EXCEPT ![s][y] = "pending"]
        /\ paid' = [paid EXCEPT ![s][y] = FALSE]
    <3>1. matricula' = [matricula EXCEPT ![s][y] = "pending"]
      BY <1>0, <1>6, <2>1, <2>3 DEF WriteSeat, TypeOK
    <3>2. ~call[r].revive => paid[s][y] = FALSE
      <4>1. paid[s][y] \in BOOLEAN
        BY <1>0, <2>1 DEF TypeOK
      <4>2. paid[s][y] => matricula[s][y] \in {"paid", "cancelled"}
        BY <2>1 DEF IInv, PaidAtMatches
      <4>3. ~call[r].revive => matricula[s][y] = "none"
        BY <2>3
      <4> QED
        BY <4>1, <4>2, <4>3
    <3>3. paid' = [paid EXCEPT ![s][y] = IF call[r].revive THEN FALSE ELSE paid[s][y]]
      BY <1>0, <1>6, <2>1 DEF WriteSeat, TypeOK
    <3> QED
      BY <2>3, <3>1, <3>2, <3>3
  <2>5. UNCHANGED quota
    BY <1>6 DEF WriteSeat
  <2>6. \A t \in Requests : HoldsQuota(t)' =>
          /\ t # r /\ HoldsQuota(t) /\ call'[t] = call[t]
          /\ call[t].year \in Years \ {y} /\ call[t].student \in Students
    BY <1>0, <2>1, <2>2, CallFields, YearsDiffer DEF HoldsQuota
  <2> HIDE DEF s, y
  <2>7. \A f \in Students, u \in Years :
          /\ f = s /\ u = y => matricula'[f][u] = "pending" /\ paid'[f][u] = FALSE
          /\ ~(f = s /\ u = y) =>
               matricula'[f][u] = matricula[f][u] /\ paid'[f][u] = paid[f][u]
    <3>1. \A f \in Students, u \in Years :
            /\ f = s /\ u = y => matricula'[f][u] = "pending"
            /\ ~(f = s /\ u = y) => matricula'[f][u] = matricula[f][u]
      BY <1>0, <2>1, <2>4, RowWritten DEF TypeOK
    <3>2. \A f \in Students, u \in Years :
            /\ f = s /\ u = y => paid'[f][u] = FALSE
            /\ ~(f = s /\ u = y) => paid'[f][u] = paid[f][u]
      BY <1>0, <2>1, <2>4 DEF TypeOK
    <3> QED
      BY <3>1, <3>2
  <2>8. OneRowPerYear' /\ QuotaMutex' /\ LockedQuota'
    BY <2>5, <2>6 DEF IInv, OneRowPerYear, QuotaMutex, LockedQuota, QuotaOf
  <2>9. DecidedRow'
    <3>1. ASSUME NEW t \in Requests, pc'[t] \in {"count", "write"}
          PROVE  matricula'[call'[t].student][call'[t].year]
                   = IF call'[t].revive THEN "cancelled" ELSE "none"
      <4>1. /\ pc[t] \in {"count", "write"} /\ call'[t] = call[t]
            /\ call[t].year \in Years \ {y} /\ call[t].student \in Students
        BY <2>2, <2>6, <3>1 DEF HoldsQuota
      <4>2. matricula[call[t].student][call[t].year]
              = IF call[t].revive THEN "cancelled" ELSE "none"
        BY <4>1 DEF IInv, DecidedRow
      <4> QED
        BY <2>7, <4>1, <4>2
    <3> QED
      BY <3>1 DEF DecidedRow
  <2>10. FreeSeat'
    <3>1. \A u \in Years \ {y} : Active(u)' = Active(u)
      BY <2>7 DEF Active
    <3>2. ASSUME NEW t \in Requests, pc'[t] = "write"
          PROVE  Cardinality(Active(call[t].year)') < call[t].cap /\ call'[t] = call[t]
      BY <2>2, <2>6, <3>1, <3>2 DEF IInv, FreeSeat, HoldsQuota
    <3> QED
      BY <3>2 DEF FreeSeat, Active
  <2>11. PaidAtMatches'
    BY <2>7 DEF IInv, PaidAtMatches
  <2> QED
    BY <2>8, <2>9, <2>10, <2>11 DEF IInv
<1> QED
  BY <1>1, <1>2, <1>3, <1>4, <1>5, <1>6 DEF Advance

\* A step of another writer: rows that requests rely on stay as they are.
LEMMA OtherWriter ==
  ASSUME IInv, TypeOK', UNCHANGED <<pc, call>>, OneRowPerYear', PaidAtMatches',
         \A t \in Requests : HoldsQuota(t) => quota'[call[t].row] = quota[call[t].row],
         \A f \in Students, u \in Years :
           matricula[f][u] \notin Occupies => matricula'[f][u] = matricula[f][u]
  PROVE  IInv'
<1>1. \A t \in Requests : HoldsQuota(t)' <=> HoldsQuota(t)
  BY DEF HoldsQuota
<1>2. QuotaMutex' /\ LockedQuota'
  BY <1>1 DEF IInv, QuotaMutex, LockedQuota, QuotaOf
<1>3. ASSUME NEW t \in Requests, pc[t] \in {"count", "write"}
      PROVE  matricula'[call[t].student][call[t].year]
               = IF call[t].revive THEN "cancelled" ELSE "none"
  <2>1. call[t].student \in Students /\ call[t].year \in Years
    BY <1>3, CallFields DEF IInv
  <2>2. matricula[call[t].student][call[t].year]
          = IF call[t].revive THEN "cancelled" ELSE "none"
    BY <1>3 DEF IInv, DecidedRow
  <2> QED
    BY <2>1, <2>2
<1>4. ASSUME NEW t \in Requests, pc[t] = "write"
      PROVE  Cardinality(Active(call[t].year)') < call[t].cap
  <2>1. call[t].year \in Years /\ call[t].cap \in Nat
    BY <1>4, CallFields DEF IInv
  <2>2. Active(call[t].year)' \subseteq Active(call[t].year)
    BY <2>1 DEF Active
  <2>3. Cardinality(Active(call[t].year)) < call[t].cap
    BY <1>4 DEF IInv, FreeSeat
  <2> QED
    BY <2>1, <2>2, <2>3, ActiveFinite, ActiveShrinks
<1>5. DecidedRow' /\ FreeSeat'
  BY <1>3, <1>4 DEF DecidedRow, FreeSeat, Active
<1> QED
  BY <1>2, <1>5 DEF IInv

\* Every step keeps the invariant.
LEMMA NextInv == IInv /\ [Next]_vars => IInv'
<1> SUFFICES ASSUME IInv, [Next]_vars PROVE IInv'
  OBVIOUS
<1>0. TypeOK /\ TypeOK'
  BY NextType DEF IInv
<1>1. ASSUME NEW r \in Requests, Advance(r) \/ AcquireQuota(r) PROVE IInv'
  BY <1>0, <1>1, AdvanceInv
<1>2. ASSUME NEW r \in Requests, Abort(r) PROVE IInv'
  BY <1>0, <1>2, Others, Unlocked DEF Abort
<1>3. ASSUME NEW r \in Requests, NEW s \in Students, NEW y \in Years,
             NEW op \in {"create", "pay", "cancel"}, NEW step \in {"quota", "reread"},
             Start(r, op, s, y, step)
      PROVE  IInv'
  <2>1. pc'[r] \in {"quota", "reread"} /\ UNCHANGED rows
    BY <1>0, <1>3, Others DEF Start
  <2>2. \A t \in Requests \ {r} : pc'[t] = pc[t] /\ call'[t] = call[t]
    BY <1>0, <1>3, Others DEF Start
  <2> QED
    BY <1>0, <2>1, <2>2, Unlocked
<1>4. ASSUME NEW s \in Students, NEW y \in Years, MarkPaid(s, y) PROVE IInv'
  <2>1. /\ matricula[s][y] = "pending" /\ UNCHANGED <<quota, pc, call>>
        /\ matricula' = [matricula EXCEPT ![s][y] = "paid"]
        /\ paid' = [paid EXCEPT ![s][y] = TRUE]
    BY <1>4 DEF MarkPaid, Accepts
  <2>2. \A f \in Students, u \in Years :
          /\ f = s /\ u = y => matricula'[f][u] = "paid" /\ paid'[f][u]
          /\ ~(f = s /\ u = y) => matricula'[f][u] = matricula[f][u]
    BY <1>0, <2>1 DEF TypeOK
  <2>3. \A f \in Students, u \in Years :
          ~(f = s /\ u = y) => paid'[f][u] = paid[f][u]
    BY <1>0, <2>1 DEF TypeOK
  <2>4. PaidAtMatches'
    BY <2>2, <2>3 DEF IInv, PaidAtMatches
  <2>5. OneRowPerYear'
    BY <2>1 DEF IInv, OneRowPerYear
  <2> QED
    BY <1>0, <2>1, <2>2, <2>4, <2>5, OtherWriter
<1>5. ASSUME NEW s \in Students, NEW y \in Years, CancelEnrollment(s, y) PROVE IInv'
  <2>1. /\ matricula[s][y] \in Occupies /\ UNCHANGED <<quota, paid, pc, call>>
        /\ matricula' = [matricula EXCEPT ![s][y] = "cancelled"]
    BY <1>5 DEF CancelEnrollment, Accepts
  <2>2. \A f \in Students, u \in Years :
          /\ f = s /\ u = y => matricula'[f][u] = "cancelled"
          /\ ~(f = s /\ u = y) => matricula'[f][u] = matricula[f][u]
    BY <1>0, <2>1 DEF TypeOK
  <2>3. PaidAtMatches'
    BY <2>1, <2>2 DEF IInv, PaidAtMatches
  <2>4. OneRowPerYear'
    BY <2>1 DEF IInv, OneRowPerYear
  <2> QED
    BY <1>0, <2>1, <2>2, <2>3, <2>4, OtherWriter
<1>6. ASSUME NEW q \in Quotas, QuotaFree(q),
             \/ \E y \in Years : /\ Unclaimed(y, q)
                                 /\ \A p \in Quotas :
                                      quota'[p].year = IF p = q THEN y ELSE quota[p].year
             \/ \A p \in Quotas : quota'[p].year = quota[p].year,
             \A p \in Quotas \ {q} : quota'[p] = quota[p],
             UNCHANGED <<matricula, paid, pc, call>>
      PROVE  IInv'
  <2>1. OneRowPerYear'
    BY <1>6 DEF IInv, OneRowPerYear, Unclaimed
  <2>2. PaidAtMatches'
    BY <1>6 DEF IInv, PaidAtMatches
  <2>3. \A t \in Requests : HoldsQuota(t) => call[t].row \in Quotas \ {q}
    BY <1>0, <1>6 DEF QuotaFree, HoldsQuota, TypeOK
  <2> QED
    BY <1>0, <1>6, <2>1, <2>2, <2>3, OtherWriter
<1>7. ASSUME NEW q \in Quotas, NEW y \in Years, NEW c \in Capacities, UpsertQuota(q, y, c)
      PROVE  IInv'
  BY <1>0, <1>6, <1>7 DEF UpsertQuota, TypeOK
<1>8. ASSUME NEW q \in Quotas, NEW y \in Years, NEW c \in Capacities, UpdateQuota(q, y, c)
      PROVE  IInv'
  <2> DEFINE row == [quota[q] EXCEPT !.year = y, !.cap = c]
  <2>1. row.year = y
    BY <1>0 DEF TypeOK
  <2>2. quota' = [quota EXCEPT ![q] = row]
    BY <1>8 DEF UpdateQuota
  <2>3. Unclaimed(y, q) /\ QuotaFree(q) /\ UNCHANGED <<matricula, paid, pc, call>>
    BY <1>8 DEF UpdateQuota
  <2> HIDE DEF row
  <2>4. /\ \A p \in Quotas : quota'[p].year = IF p = q THEN y ELSE quota[p].year
        /\ \A p \in Quotas \ {q} : quota'[p] = quota[p]
    BY <1>0, <2>1, <2>2 DEF TypeOK
  <2> QED
    BY <1>6, <2>3, <2>4
<1>9. ASSUME NEW q \in Quotas, DeleteQuota(q) PROVE IInv'
  <2> DEFINE row == [quota[q] EXCEPT !.live = FALSE]
  <2>1. row.year = quota[q].year
    BY <1>0 DEF TypeOK
  <2>2. quota' = [quota EXCEPT ![q] = row]
    BY <1>9 DEF DeleteQuota
  <2>3. QuotaFree(q) /\ UNCHANGED <<matricula, paid, pc, call>>
    BY <1>9 DEF DeleteQuota
  <2> HIDE DEF row
  <2>4. /\ \A p \in Quotas : quota'[p].year = quota[p].year
        /\ \A p \in Quotas \ {q} : quota'[p] = quota[p]
    BY <1>0, <2>1, <2>2 DEF TypeOK
  <2> QED
    BY <1>6, <2>3, <2>4
<1>10. CASE UNCHANGED vars
  BY <1>0, <1>10, OtherWriter DEF vars, IInv, OneRowPerYear, PaidAtMatches
<1> QED
  BY <1>1, <1>2, <1>3, <1>4, <1>5, <1>7, <1>8, <1>9, <1>10 DEF Next, Create, Refuse

\* The invariant holds initially.
LEMMA InitInv == Init => IInv
BY InitType, NoneApart
DEF Init, IInv, OneRowPerYear, QuotaMutex, LockedQuota, DecidedRow, FreeSeat,
    PaidAtMatches, HoldsQuota

\* In every state a locked quota row is one call's alone, is the live row of the call's
\* year with the capacity the call read, and a call about to write has a free seat: what
\* LockProgramQuotaForYear FOR UPDATE is there to ensure.
THEOREM Invariance == Spec => []IInv
BY InitInv, NextInv, PTL DEF Spec

\* A request admits under the quota row it locked: still live, still of its year,
\* still of the capacity it read, with a seat free.
THEOREM AdmissionDecision == Spec => []AdmissionHolds
<1>1. IInv => AdmissionHolds
  BY DEF IInv, AdmissionHolds, LockedQuota, DecidedRow, FreeSeat, HoldsQuota
<1> QED
  BY <1>1, Invariance, PTL

\* paid_at is there for a paid enrolment and never for a pending one.
THEOREM PaidAtFollowsStatus == Spec => []PaidAtMatches
<1>1. IInv => PaidAtMatches
  BY DEF IInv
<1> QED
  BY <1>1, Invariance, PTL
-------------------------------------------------------------------------------
(* What a step may do to the seats, and the ledger. *)

Writes(s, y, v) ==
  \A f \in Students, u \in Years :
    matricula'[f][u] = IF f = s /\ u = y THEN v ELSE matricula[f][u]

Takes(s, y) ==
  /\ matricula[s][y] \in {"none", "cancelled"}
  /\ \E q \in Quotas : QuotaOf(q, y) /\ Cardinality(Active(y)) < quota[q].cap
  /\ Writes(s, y, "pending") /\ quota' = quota

Releases(s, y) ==
  matricula[s][y] \in Occupies /\ Writes(s, y, "cancelled") /\ quota' = quota

SeatStep ==
  \/ \A y \in Years : Active(y)' = Active(y)
  \/ \E s \in Students, y \in Years : Takes(s, y) \/ Releases(s, y)

\* Every step takes a seat, releases one or changes no seat, as the ledger allows.
LEMMA SeatSteps ==
  ASSUME IInv, [Next]_vars
  PROVE  SeatStep
<1> USE DEF rows
<1>0. TypeOK
  BY DEF IInv
<1>1. ASSUME NEW r \in Requests, WriteSeat(r) PROVE SeatStep
  <2> DEFINE s == call[r].student
             y == call[r].year
  <2>1. /\ s \in Students /\ y \in Years /\ call[r].row \in Quotas
        /\ call[r].revive \in BOOLEAN
    BY <1>0, <1>1, CallFields DEF WriteSeat, TypeOK
  <2>2. matricula[s][y] = IF call[r].revive THEN "cancelled" ELSE "none"
    BY <1>1 DEF WriteSeat, IInv, DecidedRow
  <2>3. QuotaOf(call[r].row, y) /\ Cardinality(Active(y)) < quota[call[r].row].cap
    BY <1>1 DEF WriteSeat, IInv, LockedQuota, FreeSeat, HoldsQuota
  <2>4. matricula' = [matricula EXCEPT ![s][y] = "pending"] /\ quota' = quota
    BY <1>0, <1>1, <2>1, <2>2 DEF WriteSeat, TypeOK
  <2> HIDE DEF s, y
  <2>5. Writes(s, y, "pending")
    BY <1>0, <2>1, <2>4, RowWritten DEF Writes, TypeOK
  <2> QED
    BY <2>1, <2>2, <2>3, <2>4, <2>5 DEF SeatStep, Takes
<1>2. ASSUME NEW s \in Students, NEW y \in Years, MarkPaid(s, y) PROVE SeatStep
  <2>1. matricula[s][y] = "pending" /\ matricula' = [matricula EXCEPT ![s][y] = "paid"]
    BY <1>2 DEF MarkPaid, Accepts
  <2>2. Writes(s, y, "paid")
    BY <1>0, <2>1, RowWritten DEF Writes, TypeOK
  <2> QED
    BY <2>1, <2>2 DEF SeatStep, Writes, Active
<1>3. ASSUME NEW s \in Students, NEW y \in Years, CancelEnrollment(s, y) PROVE SeatStep
  <2>1. /\ matricula[s][y] \in Occupies /\ quota' = quota
        /\ matricula' = [matricula EXCEPT ![s][y] = "cancelled"]
    BY <1>3 DEF CancelEnrollment, Accepts
  <2>2. Writes(s, y, "cancelled")
    BY <1>0, <2>1, RowWritten DEF Writes, TypeOK
  <2> QED
    BY <2>1, <2>2 DEF SeatStep, Releases
<1>4. ASSUME matricula' = matricula PROVE SeatStep
  BY <1>4 DEF SeatStep, Active
<1>5. ASSUME NEW r \in Requests, Advance(r) \/ AcquireQuota(r) \/ Abort(r) PROVE SeatStep
  BY <1>1, <1>4, <1>5 DEF Advance, LockQuota, AcquireQuota, LockKey, CountSeats, Reread,
                          Abort
<1>6. ASSUME NEW r \in Requests, NEW s \in Students, NEW y \in Years,
             Create(r, s, y) \/ \E op \in {"pay", "cancel"} : Refuse(r, op, s, y)
      PROVE  SeatStep
  BY <1>4, <1>6 DEF Create, Refuse, Start
<1>7. ASSUME NEW q \in Quotas,
             \/ DeleteQuota(q)
             \/ \E y \in Years, c \in Capacities : UpsertQuota(q, y, c) \/ UpdateQuota(q, y, c)
      PROVE  SeatStep
  BY <1>4, <1>7 DEF DeleteQuota, UpsertQuota, UpdateQuota
<1>8. CASE UNCHANGED vars
  BY <1>4, <1>8 DEF vars
<1> QED
  BY <1>2, <1>3, <1>5, <1>6, <1>7, <1>8 DEF Next

\* After a step that takes a seat the count is within the quota; every other step
\* leaves no more seats taken than before.
LEMMA SeatCount ==
  ASSUME TypeOK, SeatStep, NEW y \in Years
  PROVE  \/ Active(y)' \subseteq Active(y)
         \/ \E q \in Quotas : QuotaOf(q, y) /\ Cardinality(Active(y)') <= quota[q].cap
<1>1. ASSUME NEW s \in Students, NEW u \in Years, Releases(s, u)
      PROVE  Active(y)' \subseteq Active(y)
  BY <1>1 DEF Releases, Writes, Active
<1>2. ASSUME NEW s \in Students, NEW u \in Years, u # y, Takes(s, u)
      PROVE  Active(y)' \subseteq Active(y)
  BY <1>2 DEF Takes, Writes, Active
<1>3. ASSUME NEW s \in Students, Takes(s, y)
      PROVE  \E q \in Quotas : QuotaOf(q, y) /\ Cardinality(Active(y)') <= quota[q].cap
  <2>1. PICK q \in Quotas : QuotaOf(q, y) /\ Cardinality(Active(y)) < quota[q].cap
    BY <1>3 DEF Takes
  <2>2. Active(y)' = Active(y) \cup {s} /\ s \notin Active(y)
    BY <1>3 DEF Takes, Writes, Active
  <2>3. Cardinality(Active(y)') = Cardinality(Active(y)) + 1
    BY <2>2, ActiveFinite, FS_AddElement
  <2>4. Cardinality(Active(y)) \in Nat /\ quota[q].cap \in Nat
    <3>1. quota[q].cap \in Capacities \cup {0}
      BY DEF TypeOK
    <3>2. Capacities \cup {0} \subseteq Nat
      BY ConstantsAssumption
    <3> QED
      BY <3>1, <3>2, ActiveFinite
  <2>5. Cardinality(Active(y)') <= quota[q].cap
    BY <2>1, <2>3, <2>4
  <2> QED
    BY <2>1, <2>5
<1> QED
  BY <1>1, <1>2, <1>3 DEF SeatStep

\* No student is admitted beyond the live quota of the year, for any number of
\* concurrent requests and administrators.
THEOREM NeverOverAdmitted == Spec => NoOverAdmission
<1>1. IInv /\ [Next]_vars =>
        [\A y \in Years :
           \/ Active(y)' \subseteq Active(y)
           \/ \E q \in Quotas :
                QuotaOf(q, y) /\ Cardinality(Active(y)') <= quota[q].cap]_vars
  BY SeatSteps, SeatCount DEF IInv
<1> QED
  BY <1>1, Invariance, PTL DEF Spec, NoOverAdmission

\* The ledger's seats of a year are a capacity, or none without a quota row.
LEMMA SeatsType == ASSUME TypeOK, NEW y \in Years PROVE SeatsOf(y) \in Capacities \cup {0}
BY DEF TypeOK, SeatsOf

\* The quota row a request found is the one the ledger's capacity comes from.
LEMMA SeatsAre ==
  ASSUME IInv, NEW y \in Years, NEW q \in Quotas, QuotaOf(q, y)
  PROVE  SeatsOf(y) = quota[q].cap
<1> DEFINE p == CHOOSE p \in Quotas : QuotaOf(p, y)
<1>1. p \in Quotas /\ QuotaOf(p, y)
  OBVIOUS
<1>2. p = q
  BY <1>1, NoneApart DEF QuotaOf, IInv, OneRowPerYear
<1> QED
  BY <1>2 DEF SeatsOf

\* No year has more students than its live quota has places.
PlacesSuffice == \A y \in Years : Cardinality(Active(y)) <= SeatsOf(y)

\* The catalogue tests no student count when it resizes, moves or deletes a quota; this
\* is what an administrator has to see to.
QuotaChangesFit ==
  [][\A y \in Years :
       SeatsOf(y)' # SeatsOf(y) => Cardinality(Active(y)) <= SeatsOf(y)']_vars

\* Admission never fills a year beyond its quota: nothing but a change of the quota
\* below the students already admitted can.
THEOREM NeverOverfull == Spec /\ QuotaChangesFit => []PlacesSuffice
<1> DEFINE Fit == \A y \in Years :
             SeatsOf(y)' # SeatsOf(y) => Cardinality(Active(y)) <= SeatsOf(y)'
<1>1. Init => PlacesSuffice
  <2> SUFFICES ASSUME Init, NEW y \in Years PROVE Cardinality(Active(y)) <= SeatsOf(y)
    BY DEF PlacesSuffice
  <2>1. Active(y) = {}
    BY DEF Init, Active, Occupies
  <2>2. SeatsOf(y) \in Nat
    <3>1. SeatsOf(y) \in Capacities \cup {0}
      BY InitType, SeatsType
    <3>2. Capacities \cup {0} \subseteq Nat
      BY ConstantsAssumption
    <3> QED
      BY <3>1, <3>2
  <2> QED
    BY <2>1, <2>2, FS_EmptySet
<1>2. ASSUME IInv, IInv', [Next]_vars, [Fit]_vars, PlacesSuffice PROVE PlacesSuffice'
  <2> SUFFICES ASSUME NEW y \in Years
               PROVE  Cardinality(Active(y)') <= SeatsOf(y)'
    BY DEF PlacesSuffice
  <2>1. SeatStep /\ TypeOK
    BY <1>2, SeatSteps DEF IInv
  <2>2. Cardinality(Active(y)) <= SeatsOf(y)'
    <3>1. CASE Fit
      BY <1>2, <3>1 DEF PlacesSuffice
    <3>2. CASE UNCHANGED vars
      BY <1>2, <3>2 DEF PlacesSuffice, vars, SeatsOf, QuotaOf
    <3> QED
      BY <1>2, <3>1, <3>2
  <2>3. SeatsOf(y) \in Nat /\ SeatsOf(y)' \in Nat
    <3>1. SeatsOf(y) \in Capacities \cup {0}
      BY <2>1, SeatsType
    <3>2. SeatsOf(y)' \in Capacities \cup {0}
      BY <1>2 DEF IInv, TypeOK, SeatsOf
    <3>3. Capacities \cup {0} \subseteq Nat
      BY ConstantsAssumption
    <3> HIDE DEF Fit
    <3> QED
      BY <3>1, <3>2, <3>3
  <2>4. CASE Active(y)' \subseteq Active(y)
    BY <2>2, <2>3, <2>4, ActiveShrinks, ActiveFinite
  <2>5. CASE ~ (Active(y)' \subseteq Active(y))
    <3>1. PICK q \in Quotas : QuotaOf(q, y) /\ Cardinality(Active(y)') <= quota[q].cap
      BY <2>1, <2>5, SeatCount
    <3>2. SeatsOf(y) = quota[q].cap
      BY <1>2, <3>1, SeatsAre
    <3>3. quota' = quota
      BY <2>1, <2>5 DEF SeatStep, Takes, Releases
    <3>4. SeatsOf(y)' = SeatsOf(y)
      BY <3>3 DEF SeatsOf, QuotaOf
    <3> QED
      BY <3>1, <3>2, <3>4
  <2> QED
    BY <2>4, <2>5
<1> QED
  BY <1>1, <1>2, Invariance, PTL DEF Spec, QuotaChangesFit

\* A step of the kinds above is a step of the ledger or leaves it alone.
LEMMA LedgerStep ==
  ASSUME IInv, TypeOK', SeatStep
  PROVE  [Ledger!Next]_(Ledger!ledgerVars)
<1> DEFINE taken == [y \in Years |-> Active(y)]
           seats == [y \in Years |-> SeatsOf(y)]
<1>1. CASE \A y \in Years : Active(y)' = Active(y)
  <2>1. \A y \in Years : SeatsOf(y)' \in Capacities \cup {0}
    BY DEF TypeOK, SeatsOf
  <2>2. seats' \in [Years -> Capacities \cup {0}]
    BY <2>1
  <2>3. taken' = taken
    BY <1>1
  <2> QED
    BY <2>2, <2>3 DEF Ledger!Next, Ledger!Resize
<1>2. ASSUME NEW s \in Students, NEW y \in Years, Takes(s, y)
      PROVE  Ledger!Next
  <2>1. s \notin taken[y] /\ Cardinality(taken[y]) < seats[y]
    BY <1>2, SeatsAre DEF Takes, Active
  <2>2. taken' = [taken EXCEPT ![y] = @ \cup {s}]
    <3>1. \A u \in Years : Active(u)' = IF u = y THEN Active(u) \cup {s} ELSE Active(u)
      BY <1>2 DEF Takes, Writes, Active
    <3> QED
      BY <3>1
  <2>3. seats' = seats
    BY <1>2 DEF Takes, SeatsOf, QuotaOf
  <2>4. Ledger!Take(s, y)
    <3>1. Ledger!Cardinality(taken[y]) = Cardinality(taken[y])
      BY DEF Ledger!Cardinality, Cardinality
    <3> QED
      BY <2>1, <2>2, <2>3, <3>1 DEF Ledger!Take
  <2> QED
    BY <2>4 DEF Ledger!Next
<1>3. ASSUME NEW s \in Students, NEW y \in Years, Releases(s, y)
      PROVE  Ledger!Next
  <2>1. s \in taken[y]
    BY <1>3 DEF Releases, Active
  <2>2. taken' = [taken EXCEPT ![y] = @ \ {s}]
    <3>1. \A u \in Years : Active(u)' = IF u = y THEN Active(u) \ {s} ELSE Active(u)
      BY <1>3 DEF Releases, Writes, Active
    <3> QED
      BY <3>1
  <2>3. seats' = seats
    BY <1>3 DEF Releases, SeatsOf, QuotaOf
  <2>4. Ledger!Release(s, y)
    BY <2>1, <2>2, <2>3 DEF Ledger!Release
  <2> QED
    BY <2>4 DEF Ledger!Next
<1> QED
  BY <1>1, <1>2, <1>3 DEF SeatStep

\* The component implements the ledger, for every number of requests, students,
\* years and quota rows.
THEOREM LedgerImplemented == Spec => ImplementsLedger
<1>1. Init => Ledger!Init
  BY InitType, SeatsType DEF Init, Ledger!Init, Active
<1>2. IInv /\ [Next]_vars => [Ledger!Next]_(Ledger!ledgerVars)
  BY NextInv, SeatSteps, LedgerStep DEF IInv
<1> QED
  BY <1>1, <1>2, Invariance, PTL DEF Spec, ImplementsLedger, Ledger!Spec
===============================================================================
