------------------------------ MODULE Enrollment ------------------------------
(***************************************************************************)
(* Annual enrolment of students in a program: internal/enrollment of the   *)
(* API, with the program_quotas rows that internal/catalog administers.    *)
(* CreateEnrollmentTx locks the quota row of the year, then the student's  *)
(* row, counts and writes.  One program is modelled: every query of the    *)
(* package filters by program_id.                                          *)
(*                                                                         *)
(* Unlike a section, a quota row is found by a predicate and may be moved  *)
(* to another year by UpdateProgramQuota, so a request that waited for the *)
(* lock tests the row again (READ COMMITTED re-evaluates WHERE on the row  *)
(* it waited for, and looks for no other).                                 *)
(***************************************************************************)
EXTENDS Naturals, FiniteSets

CONSTANTS
  Requests,    \* database sessions that run a call, over all replicas
  Students,
  Years,
  Quotas,      \* ids of program_quotas rows
  Capacities,  \* values program_quotas.capacity may take (the service refuses <= 0)
  None         \* no year, no row, no call

Call == [op : {"create", "pay", "cancel"}, student : Students, year : Years,
         row : Quotas \cup {None}, cap : Capacities \cup {0}, revive : BOOLEAN]

ASSUME ConstantsAssumption ==
  /\ IsFiniteSet(Students)
  /\ Capacities \subseteq Nat \ {0}
  /\ None \notin Years \cup Quotas \cup Call

VARIABLES
  quota,      \* quota[q]: year, capacity and deleted_at IS NULL of a row
  matricula,  \* matricula[s][y]: enrollments.status, "none" before the row exists
  paid,       \* paid[s][y]: paid_at IS NOT NULL
  pc,         \* next statement of each request
  call        \* its arguments and local variables

vars == <<quota, matricula, paid, pc, call>>

Statuses == {"none", "pending", "paid", "cancelled"}
Occupies == {"pending", "paid"}  \* status <> 'cancelled'
Steps    == {"idle", "quota", "wait", "key", "count", "write", "reread"}

\* CountActiveEnrollments: the students who take a seat of year y.
Active(y) == {s \in Students : matricula[s][y] \in Occupies}

\* WHERE program_id AND year AND deleted_at IS NULL; at most one row, see Unclaimed.
QuotaOf(q, y) == quota[q].live /\ quota[q].year = y

\* UNIQUE (program_id, year), deleted rows included.
Unclaimed(y, q) == \A p \in Quotas \ {q} : quota[p].year # y

\* Mutant: the row is read FOR SHARE first, so who waits for the lock holds it up.
HoldsShared(r) == pc[r] \in {"wait", "key", "count", "write"}

HoldsQuota(r) == pc[r] \in {"key", "count", "write"}

\* Mutant: the quota is read without FOR UPDATE.
NoQuotaLock(q) == TRUE

QuotaFree(q) == \A r \in Requests : HoldsQuota(r) => call[r].row # q

\* FOR UPDATE on the student's row: a fresh enrolment finds no row to lock.
KeyFree(s, y) ==
  \A r \in Requests :
    pc[r] \in {"count", "write"} /\ call[r].revive
      => call[r].student # s \/ call[r].year # y

TypeOK ==
  /\ quota \in [Quotas -> [year : Years \cup {None}, cap : Capacities \cup {0},
                           live : BOOLEAN]]
  /\ matricula \in [Students -> [Years -> Statuses]]
  /\ paid \in [Students -> [Years -> BOOLEAN]]
  /\ pc \in [Requests -> Steps]
  /\ call \in [Requests -> Call \cup {None}]
  /\ \A r \in Requests : pc[r] # "idle" =>
       /\ call[r] \in Call
       /\ pc[r] \in {"wait", "key", "count", "write"} => call[r].row \in Quotas

Init ==
  /\ quota = [q \in Quotas |-> [year |-> None, cap |-> 0, live |-> FALSE]]
  /\ matricula = [s \in Students |-> [y \in Years |-> "none"]]
  /\ paid = [s \in Students |-> [y \in Years |-> FALSE]]
  /\ pc = [r \in Requests |-> "idle"]
  /\ call = [r \in Requests |-> None]

rows == <<quota, matricula, paid>>

GoTo(r, step) == pc' = [pc EXCEPT ![r] = step]

\* Mutant: a refused call drops its locals but keeps its place.
FinishGoesOn(r) ==
  /\ call' = [call EXCEPT ![r] = None]
  /\ UNCHANGED pc

\* The call returns; what it has not committed is undone, its locks are released.
Finish(r) ==
  /\ GoTo(r, "idle")
  /\ call' = [call EXCEPT ![r] = None]

Start(r, op, s, y, step) ==
  /\ pc[r] = "idle"
  /\ GoTo(r, step)
  /\ call' = [call EXCEPT ![r] = [op |-> op, student |-> s, year |-> y,
                                  row |-> None, cap |-> 0, revive |-> FALSE]]
  /\ UNCHANGED rows
-------------------------------------------------------------------------------
(* CreateEnrollmentTx. *)

Create(r, s, y) == Start(r, "create", s, y, "quota")

TakeQuota(r, q) ==
  /\ GoTo(r, "key")
  /\ call' = [call EXCEPT ![r].row = q, ![r].cap = quota[q].cap]

\* LockProgramQuotaForYear: refused without a live row; waits, with no
\* lock_timeout, while another request holds it.
LockQuota(r) ==
  /\ pc[r] = "quota"
  /\ \/ /\ \A q \in Quotas : ~QuotaOf(q, call[r].year)
        /\ Finish(r)
     \/ \E q \in Quotas :
          /\ QuotaOf(q, call[r].year)
          /\ \/ QuotaFree(q) /\ TakeQuota(r, q)
             \/ /\ ~QuotaFree(q)
                /\ GoTo(r, "wait")
                /\ call' = [call EXCEPT ![r].row = q]
  /\ UNCHANGED rows

\* Mutant: the row waited for is taken as it was found.
AcquireUntested(r) ==
  /\ pc[r] = "wait"
  /\ QuotaFree(call[r].row)
  /\ TakeQuota(r, call[r].row)
  /\ UNCHANGED rows

\* The wait ends: the row is tested again, as it is now.
AcquireQuota(r) ==
  LET q == call[r].row IN
  /\ pc[r] = "wait"
  /\ QuotaFree(q)
  /\ \/ QuotaOf(q, call[r].year) /\ TakeQuota(r, q)
     \/ ~QuotaOf(q, call[r].year) /\ Finish(r)
  /\ UNCHANGED rows

\* GetEnrollmentByKeyForUpdate: fresh, revival of a cancelled enrolment, or refused.
LockKey(r) ==
  LET st == matricula[call[r].student][call[r].year] IN
  /\ pc[r] = "key"
  /\ KeyFree(call[r].student, call[r].year)
  /\ \/ /\ st \notin Occupies
        /\ GoTo(r, "count")
        /\ call' = [call EXCEPT ![r].revive = (st = "cancelled")]
     \/ st \in Occupies /\ Finish(r)
  /\ UNCHANGED rows

\* Mutant: a revival takes its former seat without a count.
CountFreshOnly(r) ==
  /\ pc[r] = "count"
  /\ \/ /\ call[r].revive \/ Cardinality(Active(call[r].year)) < call[r].cap
        /\ GoTo(r, "write")
        /\ UNCHANGED call
     \/ /\ ~call[r].revive /\ Cardinality(Active(call[r].year)) >= call[r].cap
        /\ Finish(r)
  /\ UNCHANGED rows

\* CountActiveEnrollments under the quota lock.
CountSeats(r) ==
  /\ pc[r] = "count"
  /\ \/ /\ Cardinality(Active(call[r].year)) < call[r].cap
        /\ GoTo(r, "write")
        /\ UNCHANGED call
     \/ Cardinality(Active(call[r].year)) >= call[r].cap /\ Finish(r)
  /\ UNCHANGED rows

\* Mutant: the revival leaves paid_at.
WriteSeatKeepsPaidAt(r) ==
  LET s == call[r].student  y == call[r].year IN
  /\ pc[r] = "write"
  /\ matricula' = [matricula EXCEPT ![s][y] =
                     IF call[r].revive \/ @ = "none" THEN "pending" ELSE @]
  /\ Finish(r)
  /\ UNCHANGED <<quota, paid>>

\* InsertEnrollment or ReviveEnrollment (an UPDATE by id alone), and Commit.
WriteSeat(r) ==
  LET s == call[r].student  y == call[r].year IN
  /\ pc[r] = "write"
  /\ matricula' = [matricula EXCEPT ![s][y] =
                     IF call[r].revive \/ @ = "none" THEN "pending" ELSE @]
  /\ paid' = [paid EXCEPT ![s][y] = IF call[r].revive THEN FALSE ELSE @]
  /\ Finish(r)
  /\ UNCHANGED quota

\* The client goes away, the connection is lost or the replica is stopped.
Abort(r) ==
  /\ pc[r] # "idle"
  /\ Finish(r)
  /\ UNCHANGED rows
-------------------------------------------------------------------------------
(* MarkEnrollmentPaid, MarkOwnEnrollmentPaid and CancelEnrollment: one UPDATE,
   and one more read when it changed no row, to tell the caller why. *)

\* The statuses the UPDATE's WHERE clause accepts.
Accepts(op) == IF op = "pay" THEN {"pending"} ELSE Occupies

MarkPaid(s, y) ==
  /\ matricula[s][y] \in Accepts("pay")
  /\ KeyFree(s, y)
  /\ matricula' = [matricula EXCEPT ![s][y] = "paid"]
  /\ paid' = [paid EXCEPT ![s][y] = TRUE]
  /\ UNCHANGED <<quota, pc, call>>

CancelEnrollment(s, y) ==
  /\ matricula[s][y] \in Accepts("cancel")
  /\ KeyFree(s, y)
  /\ matricula' = [matricula EXCEPT ![s][y] = "cancelled"]
  /\ UNCHANGED <<quota, paid, pc, call>>

\* No row was changed; GetEnrollment comes next.
Refuse(r, op, s, y) ==
  /\ matricula[s][y] \notin Accepts(op)
  /\ Start(r, op, s, y, "reread")

\* The answer is built from this second read: not found, or the status it sees.
Reread(r) ==
  /\ pc[r] = "reread"
  /\ Finish(r)
  /\ UNCHANGED rows
-------------------------------------------------------------------------------
(* internal/catalog: the quota rows. *)

\* UpsertProgramQuota: a new row, or the year's row revived and resized.
UpsertQuota(q, y, c) ==
  /\ quota[q].year \in {y, None} /\ Unclaimed(y, q)
  /\ QuotaFree(q)
  /\ quota' = [quota EXCEPT ![q] = [year |-> y, cap |-> c, live |-> TRUE]]
  /\ UNCHANGED <<matricula, paid, pc, call>>

\* UpdateProgramQuota: resizes the row and may move it to another year.
UpdateQuota(q, y, c) ==
  /\ quota[q].live /\ Unclaimed(y, q)
  /\ QuotaFree(q)
  /\ quota' = [quota EXCEPT ![q].year = y, ![q].cap = c]
  /\ UNCHANGED <<matricula, paid, pc, call>>

\* SoftDeleteProgramQuota: enrolments of the year do not prevent it.
DeleteQuota(q) ==
  /\ quota[q].live
  /\ QuotaFree(q)
  /\ quota' = [quota EXCEPT ![q].live = FALSE]
  /\ UNCHANGED <<matricula, paid, pc, call>>
-------------------------------------------------------------------------------
Advance(r) ==
  LockQuota(r) \/ LockKey(r) \/ CountSeats(r) \/ WriteSeat(r) \/ Reread(r)

Next ==
  \/ \E r \in Requests :
       \/ Advance(r) \/ AcquireQuota(r) \/ Abort(r)
       \/ \E s \in Students, y \in Years :
            \/ Create(r, s, y)
            \/ \E op \in {"pay", "cancel"} : Refuse(r, op, s, y)
  \/ \E s \in Students, y \in Years : MarkPaid(s, y) \/ CancelEnrollment(s, y)
  \/ \E q \in Quotas :
       \/ DeleteQuota(q)
       \/ \E y \in Years, c \in Capacities : UpsertQuota(q, y, c) \/ UpdateQuota(q, y, c)

Spec == Init /\ [][Next]_vars

\* A statement returns.  PostgreSQL queues the sessions that wait for a row, so
\* one that keeps finding the row released gets it in the end: strong fairness.
FairSpec ==
  /\ Spec
  /\ \A r \in Requests : WF_vars(Advance(r)) /\ SF_vars(AcquireQuota(r))
-------------------------------------------------------------------------------
\* When a request writes, what it decided on still holds: its quota row is live,
\* of its year and of the capacity it read, a seat is free, and the student's row
\* is the one it saw.  Payments, cancellations and quota changes (resize, move to
\* another year, deletion) run at the same time.
AdmissionHolds ==
  \A r \in Requests : pc[r] = "write" =>
    LET s == call[r].student  y == call[r].year  q == call[r].row IN
    /\ QuotaOf(q, y) /\ call[r].cap = quota[q].cap
    /\ Cardinality(Active(y)) < quota[q].cap
    /\ matricula[s][y] = IF call[r].revive THEN "cancelled" ELSE "none"

\* paid_at goes with the status through payment, cancellation and revival: a
\* revived enrolment never shows the payment of its former life.
PaidAtMatches ==
  \A s \in Students, y \in Years :
    /\ matricula[s][y] = "paid" => paid[s][y]
    /\ paid[s][y] => matricula[s][y] \in {"paid", "cancelled"}

\* No step admits a student beyond the capacity of the live quota of the year,
\* nor to a year without one, whatever other replicas and administrators do.
NoOverAdmission ==
  [][\A y \in Years :
       \/ Active(y)' \subseteq Active(y)
       \/ \E q \in Quotas : QuotaOf(q, y) /\ Cardinality(Active(y)') <= quota[q].cap]_vars

\* Every call comes to an end although CreateEnrollmentTx sets no lock_timeout:
\* nobody waits for a row while holding one that the holder waits for.
CallsFinish ==
  \A r \in Requests : pc[r] # "idle" ~> pc[r] = "idle"

\* The seats a year offers: none without a live quota row.
SeatsOf(y) ==
  IF \E q \in Quotas : QuotaOf(q, y)
  THEN quota[CHOOSE q \in Quotas : QuotaOf(q, y)].cap
  ELSE 0

\* A program year is a section of the ledger whose holders never finish.
Ledger == INSTANCE SeatLedger WITH
  Enrollments <- Students,
  Sections    <- Years,
  Capacities  <- Capacities \cup {0},
  capacity    <- [y \in Years |-> SeatsOf(y)],
  holders     <- [y \in Years |-> Active(y)],
  finished    <- [y \in Years |-> {}]

\* Annual enrolment keeps the same promise as section enrolment: one atomic seat.
ImplementsLedger == Ledger!Spec

\* The parts that make AdmissionHolds inductive: a year has one row, a locked row
\* stays of its year, so the years of two requests under the lock differ.
OneRowPerYear ==
  \A p, q \in Quotas : p # q /\ quota[p].year # None => quota[p].year # quota[q].year

QuotaMutex ==
  \A r, t \in Requests :
    r # t /\ HoldsQuota(r) /\ HoldsQuota(t) => call[r].row # call[t].row

LockedQuota ==
  \A r \in Requests : HoldsQuota(r) =>
    /\ QuotaOf(call[r].row, call[r].year)
    /\ call[r].cap = quota[call[r].row].cap

DecidedRow ==
  \A r \in Requests : pc[r] \in {"count", "write"} =>
    matricula[call[r].student][call[r].year]
      = IF call[r].revive THEN "cancelled" ELSE "none"

FreeSeat ==
  \A r \in Requests : pc[r] = "write" =>
    Cardinality(Active(call[r].year)) < call[r].cap

IInv ==
  /\ TypeOK /\ OneRowPerYear /\ QuotaMutex /\ LockedQuota /\ DecidedRow
  /\ FreeSeat /\ PaidAtMatches
===============================================================================
