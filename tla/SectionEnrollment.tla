--------------------------- MODULE SectionEnrollment ---------------------------
(***************************************************************************)
(* Enrolment of students in sections: internal/sectionenrollment of the    *)
(* API.  Every API replica runs EnrollSectionTx against one PostgreSQL     *)
(* database at READ COMMITTED, so a request is a sequence of statements,   *)
(* each of which sees what was committed when it started; only row locks   *)
(* order one transaction after another.                                    *)
(*                                                                         *)
(* A request in flight is an element of Requests; pc[r] says which         *)
(* statement comes next and call[r] holds its arguments and the local      *)
(* variables it read.  A row lock lasts until its transaction ends, so who *)
(* holds one is read off pc and call.                                      *)
(*                                                                         *)
(* The grade transaction (internal/grades) is here as far as it locks and  *)
(* writes section_enrollments rows, the catalogue's UpdateSection and      *)
(* DeleteSection as far as they write sections rows, and the annual        *)
(* enrolment as the status the paid gate reads.                            *)
(***************************************************************************)
EXTENDS Naturals, FiniteSets

CONSTANTS
  Requests,     \* database sessions that run a transaction, over all replicas
  Enrollments,  \* annual enrolments (matriculas)
  Sections,
  Capacities,   \* values sections.capacity may take (the service refuses <= 0)
  SameYear,     \* <<e, s>> : the enrolment's year is the section's period year
  InProgram,    \* <<e, s>> : the course belongs to the enrolment's program
  Untaught,     \* sections with no section_teachers row
  NoCall        \* call[r] of a request that is not running

Call == [enr : Enrollments, sec : Sections, admin : BOOLEAN,
         open : BOOLEAN, cap : Capacities \cup {0}, revive : BOOLEAN]

ASSUME ConstantsAssumption ==
  /\ IsFiniteSet(Enrollments)
  /\ Capacities \subseteq Nat \ {0}
  /\ SameYear \subseteq Enrollments \X Sections
  /\ InProgram \subseteq Enrollments \X Sections
  /\ Untaught \subseteq Sections
  /\ NoCall \notin Call

VARIABLES
  capacity,   \* sections.capacity
  live,       \* sections.deleted_at IS NULL
  window,     \* where the clock stands with respect to the enrolment window
  matricula,  \* enrollments.status, "none" before the row exists
  status,     \* status[e][s]: section_enrollments.status of the live row, or "none"
  graded,     \* graded[e][s]: final_grade IS NOT NULL
  pc,         \* next statement of each request
  call        \* its arguments and local variables

vars == <<capacity, live, window, matricula, status, graded, pc, call>>

Seated   == {"in_progress", "passed", "failed"}  \* status <> 'withdrawn'
Outcomes == {"passed", "failed"}
Row      == Seated \cup {"withdrawn", "none"}
Steps    == {"idle", "precount", "begin", "lock", "gate", "key", "count",
             "write", "grade"}

\* CountActiveSeats: the rows that occupy a seat of section s.
Active(s) == {e \in Enrollments : status[e][s] \in Seated}

\* Mutant: the count and the insert are separate transactions.
HoldsUntilCounted(r) == pc[r] \in {"gate", "key", "count"}

\* Between its section lock and its end, a request holds the section row.
HoldsSection(r) == pc[r] \in {"gate", "key", "count", "write"}

\* A row lock on the live (e, s) row: taken by revival and by grading.  A fresh
\* enrolment finds no row to lock.
HoldsKey(r) ==
  \/ pc[r] = "grade"
  \/ pc[r] \in {"count", "write"} /\ call[r].revive

\* Mutant: the section is read without FOR UPDATE.
NoSectionLock(s) == TRUE

SectionFree(s) ==
  \A q \in Requests : HoldsSection(q) => call[q].sec # s

KeyFree(e, s) ==
  \A q \in Requests : HoldsKey(q) => call[q].enr # e \/ call[q].sec # s

TypeOK ==
  /\ capacity \in [Sections -> Capacities]
  /\ live \in [Sections -> BOOLEAN]
  /\ window \in [Sections -> {"before", "open", "after"}]
  /\ matricula \in [Enrollments -> {"none", "pending", "paid", "cancelled"}]
  /\ status \in [Enrollments -> [Sections -> Row]]
  /\ graded \in [Enrollments -> [Sections -> BOOLEAN]]
  /\ pc \in [Requests -> Steps]
  /\ call \in [Requests -> Call \cup {NoCall}]
  /\ \A r \in Requests : pc[r] # "idle" => call[r] \in Call

\* "after" also stands for a window that is not configured: both fail closed.
Init ==
  /\ capacity \in [Sections -> Capacities]
  /\ live = [s \in Sections |-> TRUE]
  /\ window \in [Sections -> {"before", "open", "after"}]
  /\ matricula = [e \in Enrollments |-> "none"]
  /\ status = [e \in Enrollments |-> [s \in Sections |-> "none"]]
  /\ graded = [e \in Enrollments |-> [s \in Sections |-> FALSE]]
  /\ pc = [r \in Requests |-> "idle"]
  /\ call = [r \in Requests |-> NoCall]

rows == <<capacity, live, window, matricula, status, graded>>

GoTo(r, step) == pc' = [pc EXCEPT ![r] = step]

\* Mutant: a failed statement drops the locals and the request goes on.
FinishGoesOn(r) ==
  /\ call' = [call EXCEPT ![r] = NoCall]
  /\ UNCHANGED pc

\* The request returns, with or without an error; a transaction that has not
\* committed is rolled back and its locks are released.
Finish(r) ==
  /\ GoTo(r, "idle")
  /\ call' = [call EXCEPT ![r] = NoCall]
-------------------------------------------------------------------------------
(* EnrollSectionTx, statement by statement. *)

\* GetSectionCapacity before any transaction.  A student's enrolment is looked
\* up by the section's period year, so it is of that year; an administrator
\* names any enrolment.  A missing section skips the pre-check.
ReadCapacity(r, e, s, admin) ==
  /\ pc[r] = "idle"
  /\ admin \/ <<e, s>> \in SameYear
  /\ call' = [call EXCEPT ![r] =
       [enr |-> e, sec |-> s, admin |-> admin, open |-> FALSE, revive |-> FALSE,
        cap |-> IF live[s] THEN capacity[s] ELSE 0]]
  /\ GoTo(r, IF live[s] THEN "precount" ELSE "begin")
  /\ UNCHANGED rows

\* CountActiveSeats before any transaction: a stale answer may refuse, never admit.
PreCheck(r) ==
  /\ pc[r] = "precount"
  /\ \/ /\ Cardinality(Active(call[r].sec)) >= call[r].cap
        /\ Finish(r)
     \/ /\ Cardinality(Active(call[r].sec)) < call[r].cap
        /\ GoTo(r, "begin")
        /\ call' = [call EXCEPT ![r].cap = 0]
  /\ UNCHANGED rows

\* BeginTx: now() is the transaction's start for all its statements, so the
\* window is compared with this instant, not with the one of the lock.
BeginTx(r) ==
  /\ pc[r] = "begin"
  /\ call' = [call EXCEPT ![r].open = (window[call[r].sec] = "open"), ![r].cap = 0]
  /\ GoTo(r, "lock")
  /\ UNCHANGED rows

\* GetSectionForUpdateWithWindow and the window gate.
LockSection(r) ==
  LET s == call[r].sec IN
  /\ pc[r] = "lock"
  /\ SectionFree(s)
  /\ \/ /\ live[s] /\ (call[r].admin \/ call[r].open)
        /\ call' = [call EXCEPT ![r].cap = capacity[s]]
        /\ GoTo(r, "gate")
     \/ /\ ~live[s] \/ ~(call[r].admin \/ call[r].open)
        /\ Finish(r)
  /\ UNCHANGED rows

\* ResolveEnrollment..., the paid, year and course-in-program gates.  The
\* enrolment row is read, not locked.
CheckEnrollment(r) ==
  LET e == call[r].enr  s == call[r].sec
      entitled == /\ matricula[e] = "paid"
                  /\ <<e, s>> \in SameYear \cap InProgram
  IN
  /\ pc[r] = "gate"
  /\ \/ entitled /\ GoTo(r, "key") /\ UNCHANGED call
     \/ ~entitled /\ Finish(r)
  /\ UNCHANGED rows

\* Mutant: an administrator may revive an inscription in any inactive status.
LockKeyRevivesFinished(r) ==
  LET e == call[r].enr  s == call[r].sec
      fresh   == status[e][s] = "none"
      revival == status[e][s] \notin {"none", "in_progress"} /\ call[r].admin
  IN
  /\ pc[r] = "key"
  /\ KeyFree(e, s)
  /\ \/ /\ fresh \/ revival
        /\ call' = [call EXCEPT ![r].revive = revival]
        /\ GoTo(r, "count")
     \/ ~fresh /\ ~revival /\ Finish(r)
  /\ UNCHANGED rows

\* GetSectionEnrollmentByKeyForUpdate: fresh, revival (administrators only), or
\* refused as a duplicate or as finished.
LockKey(r) ==
  LET e == call[r].enr  s == call[r].sec
      fresh   == status[e][s] = "none"
      revival == status[e][s] = "withdrawn" /\ call[r].admin
  IN
  /\ pc[r] = "key"
  /\ KeyFree(e, s)
  /\ \/ /\ fresh \/ revival
        /\ call' = [call EXCEPT ![r].revive = revival]
        /\ GoTo(r, "count")
     \/ ~fresh /\ ~revival /\ Finish(r)
  /\ UNCHANGED rows

\* Mutant: off by one, the section is full only beyond its capacity.
CountSeatsOffByOne(r) ==
  /\ pc[r] = "count"
  /\ \/ /\ Cardinality(Active(call[r].sec)) > call[r].cap
        /\ Finish(r)
     \/ /\ Cardinality(Active(call[r].sec)) <= call[r].cap
        /\ GoTo(r, "write")
        /\ UNCHANGED call
  /\ UNCHANGED rows

\* CountActiveSeats under the section lock: the authoritative check.
CountSeats(r) ==
  /\ pc[r] = "count"
  /\ \/ /\ Cardinality(Active(call[r].sec)) >= call[r].cap
        /\ Finish(r)
     \/ /\ Cardinality(Active(call[r].sec)) < call[r].cap
        /\ GoTo(r, "write")
        /\ UNCHANGED call
  /\ UNCHANGED rows

\* InsertSectionEnrollment or ReviveSectionEnrollment, and Commit.  The revival
\* is an UPDATE by id alone; the insert meets the unique index of live rows.
WriteSeat(r) ==
  LET e == call[r].enr  s == call[r].sec IN
  /\ pc[r] = "write"
  /\ status' = [status EXCEPT ![e][s] =
                  IF call[r].revive \/ @ = "none" THEN "in_progress" ELSE @]
  /\ Finish(r)
  /\ UNCHANGED <<capacity, live, window, matricula, graded>>

\* Mutant: no lock_timeout, a statement waits until it gets the lock.
NoLockTimeout(r) == FALSE

\* SET LOCAL lock_timeout: a wait for the section row or the key row is bounded.
LockTimeout(r) ==
  /\ \/ pc[r] = "lock" /\ ~SectionFree(call[r].sec)
     \/ pc[r] = "key" /\ ~KeyFree(call[r].enr, call[r].sec)
  /\ Finish(r)
  /\ UNCHANGED rows

\* The client goes away, the connection is lost or the replica is stopped.
Abort(r) ==
  /\ pc[r] # "idle"
  /\ Finish(r)
  /\ UNCHANGED rows
-------------------------------------------------------------------------------
(* The other writers of the rows EnrollSectionTx reads. *)

\* RecordGradeTx up to its row lock: a withdrawn inscription is refused.
LockForGrade(r, e, s) ==
  /\ pc[r] = "idle"
  /\ KeyFree(e, s)
  /\ status[e][s] \in Seated
  /\ call' = [call EXCEPT ![r] =
       [enr |-> e, sec |-> s, admin |-> FALSE, open |-> FALSE, revive |-> FALSE,
        cap |-> 0]]
  /\ GoTo(r, "grade")
  /\ UNCHANGED rows

\* SetSectionEnrollmentOutcome, when every evaluation has its grade, and Commit.
CommitGrade(r) ==
  LET e == call[r].enr  s == call[r].sec IN
  /\ pc[r] = "grade"
  /\ \/ UNCHANGED <<status, graded>>
     \/ \E o \in Outcomes :
          /\ status[e][s] \in Seated
          /\ status' = [status EXCEPT ![e][s] = o]
          /\ graded' = [graded EXCEPT ![e][s] = TRUE]
  /\ Finish(r)
  /\ UNCHANGED <<capacity, live, window, matricula>>

\* Mutant: the UPDATE does not require status = 'in_progress'.
WithdrawAnySeated(e, s) ==
  /\ status[e][s] \in Seated
  /\ KeyFree(e, s)
  /\ status' = [status EXCEPT ![e][s] = "withdrawn"]
  /\ UNCHANGED <<capacity, live, window, matricula, graded, pc, call>>

\* WithdrawSectionEnrollment: one UPDATE, which waits for a lock on the row but
\* takes no lock on the section.
WithdrawSection(e, s) ==
  /\ status[e][s] = "in_progress"
  /\ KeyFree(e, s)
  /\ status' = [status EXCEPT ![e][s] = "withdrawn"]
  /\ UNCHANGED <<capacity, live, window, matricula, graded, pc, call>>

\* catalog.UpdateSection: any positive capacity, however many seats are taken.
UpdateSection(s, c) ==
  /\ live[s] /\ SectionFree(s)
  /\ capacity' = [capacity EXCEPT ![s] = c]
  /\ UNCHANGED <<live, window, matricula, status, graded, pc, call>>

\* catalog.DeleteSectionTx: teachers block the deletion, inscriptions do not.
DeleteSection(s) ==
  /\ live[s] /\ SectionFree(s)
  /\ s \in Untaught
  /\ live' = [live EXCEPT ![s] = FALSE]
  /\ UNCHANGED <<capacity, window, matricula, status, graded, pc, call>>

\* enrollment: create, pay, cancel and revive an annual enrolment.
MoveMatricula(e) ==
  /\ \E m \in {"pending", "paid", "cancelled"} :
       /\ <<matricula[e], m>> \in
            {<<"none", "pending">>, <<"pending", "paid">>, <<"pending", "cancelled">>,
             <<"paid", "cancelled">>, <<"cancelled", "pending">>}
       /\ matricula' = [matricula EXCEPT ![e] = m]
  /\ UNCHANGED <<capacity, live, window, status, graded, pc, call>>

\* The database clock reaches enrollment_starts_at, then enrollment_ends_at.
ClockPasses(s) ==
  /\ window[s] # "after"
  /\ window' = [window EXCEPT ![s] = IF @ = "before" THEN "open" ELSE "after"]
  /\ UNCHANGED <<capacity, live, matricula, status, graded, pc, call>>
-------------------------------------------------------------------------------
\* What a request does once it has started, as far as the server decides.
Advance(r) ==
  \/ PreCheck(r) \/ BeginTx(r) \/ LockSection(r) \/ CheckEnrollment(r)
  \/ LockKey(r) \/ CountSeats(r) \/ WriteSeat(r) \/ LockTimeout(r)
  \/ CommitGrade(r)

Next ==
  \/ \E r \in Requests :
       \/ Advance(r)
       \/ Abort(r)
       \/ \E e \in Enrollments, s \in Sections :
            \/ LockForGrade(r, e, s)
            \/ \E admin \in BOOLEAN : ReadCapacity(r, e, s, admin)
  \/ \E e \in Enrollments : MoveMatricula(e)
  \/ \E e \in Enrollments, s \in Sections : WithdrawSection(e, s)
  \/ \E s \in Sections :
       \/ DeleteSection(s)
       \/ ClockPasses(s)
       \/ \E c \in Capacities : UpdateSection(s, c)

Spec == Init /\ [][Next]_vars

\* A statement sent to PostgreSQL returns; a wait ends in the lock or in the
\* timeout.  Nothing makes a client call, an administrator act or a replica stop.
FairSpec == Spec /\ \A r \in Requests : WF_vars(Advance(r))
-------------------------------------------------------------------------------
\* What one request read under its locks is still so when it writes: the
\* capacity it fetched is the section's, a seat is free, and the row is the one
\* its decision was made for.  Withdrawals, grades, resizes and deletions run at
\* the same time; the unguarded revival UPDATE relies on this.
SeatDecisionHolds ==
  \A r \in Requests : pc[r] = "write" =>
    LET e == call[r].enr  s == call[r].sec IN
    /\ live[s]
    /\ call[r].cap = capacity[s]
    /\ Cardinality(Active(s)) < capacity[s]
    /\ status[e][s] = IF call[r].revive THEN "withdrawn" ELSE "none"

\* A final grade is there exactly when the outcome is decided: no interleaving of
\* withdrawal, revival and grading leaves a grade on an open or withdrawn
\* inscription, which the student record report takes for granted.
OutcomeHasGrade ==
  \A e \in Enrollments, s \in Sections :
    graded[e][s] <=> status[e][s] \in Outcomes

\* The parts that make the invariants above inductive: the section lock is held
\* by one request at a time, it freezes what was read under it, and the rows the
\* decision was made for are nobody else's to write.
SectionMutex ==
  \A r, q \in Requests :
    r # q /\ HoldsSection(r) /\ HoldsSection(q) => call[r].sec # call[q].sec

LockedSection ==
  \A r \in Requests : HoldsSection(r) =>
    live[call[r].sec] /\ call[r].cap = capacity[call[r].sec]

DecidedRow ==
  \A r \in Requests : pc[r] \in {"count", "write"} =>
    status[call[r].enr][call[r].sec] = IF call[r].revive THEN "withdrawn" ELSE "none"

FreeSeat ==
  \A r \in Requests : pc[r] = "write" =>
    Cardinality(Active(call[r].sec)) < call[r].cap

IInv == TypeOK /\ SectionMutex /\ LockedSection /\ DecidedRow /\ FreeSeat /\ OutcomeHasGrade

\* No step ever takes a seat of a section that has none free, whatever other
\* replicas do at the same time (the oversell race of the enrolment peak).
NoOversell ==
  [][\A s \in Sections :
       Active(s)' \subseteq Active(s) \/ Cardinality(Active(s)') <= capacity[s]]_vars

\* An inscription whose outcome is decided never becomes open or withdrawn again
\* (a correction may still turn passed into failed and back).
OutcomeStays ==
  [][\A e \in Enrollments, s \in Sections :
       status[e][s] \in Outcomes => status'[e][s] \in Outcomes]_vars

\* Every request comes to an end: lock waits are bounded by lock_timeout, and no
\* set of requests waits on each other for ever.
RequestsFinish ==
  \A r \in Requests : pc[r] # "idle" ~> pc[r] = "idle"

\* The ledger this component implements.
Ledger == INSTANCE SeatLedger WITH
  holders  <- [s \in Sections |-> Active(s)],
  finished <- [s \in Sections |-> {e \in Enrollments : status[e][s] \in Outcomes}]

\* Every behaviour of the statements above is a behaviour of the ledger: each
\* enrolment takes its seat atomically at its commit.
ImplementsLedger == Ledger!Spec
===============================================================================
