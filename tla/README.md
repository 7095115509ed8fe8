# A TLA+ model of the enrolment and grading back end

This directory models the Go back end of the repository (`src/backend`): what it does
to its PostgreSQL rows and Redis keys when several replicas serve several clients at
once. It holds the modules, the TLC configurations that check them on small instances
and the proofs, checked by TLAPS, of what holds for every size. `PROJECT.json` maps
every definition to the lines it models.

## 1. The system

`src/backend` is a modular monolith: one process with a Connect (RPC) server per
replica, several replicas behind a load balancer, one PostgreSQL and one Redis. Nothing
is shared between replicas except the two stores; every multi-statement operation is a
transaction at READ COMMITTED, so each *statement* sees a snapshot of its own and only
row locks (`FOR UPDATE`), unique indexes and foreign keys order the replicas.

| component (`src/backend/internal/…`) | state | operations | interacts through |
|---|---|---|---|
| `sectionenrollment` | `section_enrollments` rows (status, final grade) | enrol / revive, withdraw, list | locks `sections`; reads `enrollments`; its outcome is written by `grades` |
| `enrollment` | `enrollments` rows (status, paid_at) | create / revive, pay, cancel (each also "own") | locks `program_quotas` of `catalog` |
| `grades` | `evaluations`, `grades`, `audit_logs` | create / recreate a scheme, record, override | locks `section_enrollments`, writes their outcome |
| `catalog` | programs, courses, periods, quotas, sections, teachers | create, update, guarded soft-deletes, assignments | the rows the others lock and count |
| `iam` | roles and `user_roles`, `audit_logs` | assign, revoke, last-administrator guard | permissions read by `auth` on every request |
| `auth`, `authz`, `rbac` | users, sessions and reset tokens in Redis | login, logout, reset, interceptors | gate of every procedure |
| `reports` | none of its own; cached answers in Redis | four read-through reports | reads the tables of all the others |
| `profiles`, `auditlogs` | profile rows; read-only log queries | upserts, lists | none |
| admission limiter (`sectionenrollment/limiter.go`) | a counting semaphore per replica | admit, release | the connection pool shared by every request |
| `platform` | pool, configuration, pagination, server | — | used by all |
| `gen`, `*db`, `src/frontend`, `src/infra`, `src/k8s` | generated code, React client, deployment | — | not part of the model (section 8) |

### What is hard here

* **Statement interleavings.** A seat is granted after a capacity read, a count and an
  insert; a grade decides an inscription after a scheme read, an upsert and a read of
  its siblings. Two transactions interleave between any two of them.
* **Locks that move.** The quota a request waits for may be soft-deleted and replaced
  while it waits; PostgreSQL then re-evaluates the row it got, not the table.
* **Stale reads.** The paid gate, the scheme and the capacity pre-check are read
  without a lock.
* **Timeouts, rollback and lost clients.** `lock_timeout` ends waits in two of the
  transactions and not in the others; a rollback can come between any two statements.
* **Long sequences.** Withdraw, revive, grade, correct, cancel, pay: each legal, and
  the row remembers what came before.
* **Rounding.** Weights and grades are validated as exact decimals and stored with
  fewer digits.
* **Permissions and caches.** What a request may do is read when it begins and used
  until it ends; one cached report is shared by readers of different rights.
* **Queues.** A request that holds a connection may ask for a second one.
* **Walks.** A list is read page by page while its rows come and go.

### What makes each component correct

* `sectionenrollment`: no step takes a seat that is not free; the decision a request
  made is still right when it writes; grades and outcomes agree; decided inscriptions
  are not reopened.
* `enrollment`: the same for a program's yearly quota, whatever happens to the quota's
  row; a payment date exists exactly when the status says so.
* `grades`: one scheme at a time; a final grade that is always the one of the grades on
  record; no lost outcome, no lost correction, a gapless audit trail; exact rounding.
* `iam`: at least one administrator remains; every change leaves an audit entry.
* `auth`: a reset token is used once; a session ends; a permission withdrawn stays so.
* `reports`: an answer is at most one time-to-live old, and goes to nobody who was not
  entitled to it since he asked.
* limiter: enrolment never uses more than its share of the pool, and gives it back.
* the pool: no call waits for ever; where it may (section 6), for one known reason.
* `catalog`: what is deleted has no dependents at that moment.
* lists: a walk shows every row that was there all along, once.

## 2. Modules

| module | models | state ↔ code |
|---|---|---|
| `SeatLedger` | the promise of the two enrolments: seats with an atomic take, release and resize | `holders`, `finished`, `capacity` — no code of its own |
| `GradeLedger` | the promise of `grades`: a scheme replaced whole; a grade, its audit entry and the outcome it decides in one step | the tables of `Grades`, without sessions |
| `RoleTable` | the promise of `iam`: a role comes and goes in one step with its entry, one administrator remains | the tables of `Roles`, without calls |
| `SectionEnrollment` | `EnrollSectionTx` and every other writer of its rows | `row` = `section_enrollments`, `section` and `capacity` = `sections`, `matricula` = `enrollments.status`, `pc`/`call` = the sessions' statements and locals |
| `Enrollment` | `CreateEnrollmentTx`, payment, cancellation, the quota writes | `row` = `enrollments`, `quota` = `program_quotas` |
| `Grades` | `RecordGradeTx`, `CreateEvaluationSchemeTx`, `RecreateEvaluationSchemeTx` | `evaluation`, `grade`, `audit`, `status`, `final` = the columns of the same names |
| `GradeArithmetic` | the weighted final, its rounding, the pass mark | operators only |
| `GradeBook` | weights and grades from the request to the final grade, sequentially | `weights`, `values`, `result` = `evaluations.weight`, `grades.value`, `final_grade` |
| `Roles` | `AssignRoleTx`, `RevokeRoleTx`, the permission check before them | `held` = `user_roles`, `audit` = the role entries of `audit_logs`, `want`/`locked`/`wrote` = what a transaction has found, locked and written |
| `Catalog` | the guarded deletions and every insert that refers to what they delete | `row` = existence and `deleted_at` of programs, courses, periods, sections; `plan`, `quota`, `teaches`, `placed` = the rows that refer to them |
| `Sessions` | login, session and reset keys, the two interceptors, password reset | `session`, `reset` = Redis keys with the time they have left; `role` = `user_roles`; `step`/`user`/`key` = a request's context |
| `Reports` (extends `Sessions`) | the four reports behind the interceptors | `cache` = the Redis entries, `teaches` = `section_teachers`, `age` = of the answer in hand, `seen` = history |
| `AdmissionControl` | the limiter's channel in front of the pool's queue | `tokens` = items in the channel, `queue` = waiters of `pgxpool` |
| `Listing` | `Clamp.Apply`, `Paginate`, `TokenOf` and four queries that use them | `shown` = matching rows, `token` = `page_token`, `seen`/`steady` = history |
| `MC…` | instances: symmetry sets and definitions for the `.cfg` files | — |
| `…Proofs` | theorems and proofs, one module for each component; `GradeBook`'s are in `GradesProofs` | — |

Conventions. A database session is an element of `Requests` (or `Calls`); `pc[r]` names
its next statement, and every statement is one action, because at READ COMMITTED
nothing smaller can be observed and nothing larger is atomic (a statement that locks
several rows one after the other, as `LockAdminUserRoles` does, is one action per row).
What a transaction has written but not committed lives in `call[r]`, and is applied to
the tables by the action that commits. A row lock is mostly not a variable: the rows a
session holds are read off `pc` and `call` by operators such as `HoldsSection`,
`HoldsKey`, `RowFree` or `InscriptionFree`, so commit and rollback release everything by
going to `idle`. `Abort` (`Fail`, `Cancel`) is a client that goes away, a lost connection
or a stopped replica; the transaction rolls back. Replicas do not appear: a session
belongs to one of them and they share nothing else; the limiter and the pool, of which
each replica has its own, are modelled for one. An operator whose comment begins with
"Mutant:" is no part of the model: `PROJECT.json` says which definition it stands
against and which property notices.

How modules are composed. `SectionEnrollment` and `Enrollment` each instantiate
`SeatLedger` with a refinement mapping (seats taken by a section's live rows; by a
program and year's active rows) and are shown to implement it; `Grades` instantiates
`GradeLedger`, and `Roles` `RoleTable`, over the tables they share with it. `Grades` and `GradeBook`
extend `GradeArithmetic`; `Reports` extends `Sessions` and runs its handlers behind the
interceptors, in the same requests. The other components meet in shared rows, and a
module contains the writes of the others to its rows: `SectionEnrollment` the grades and
the catalogue's writes, `Grades` the withdrawals and revivals of the inscription it
locks, `Catalog` the quotas and teachers, `Sessions` the changes of roles.

## 3. Runs

Passing runs:

| run | instance | question |
|---|---|---|
| `peak` | 2 sessions, 2 students, 1 section of capacity 1–2 | do the seat rules survive every interleaving with resizing, deletion, grading and withdrawal, and is the ledger implemented? |
| `fair` | the same, one seat | does every request end? |
| `admission` | 2 calls, 2 students, 2 quota rows for one year, capacity 1–2 | the same questions for the yearly quota; does a waiter see the new capacity, and does a call without lock timeout end? |
| `grade_record` | 2 sessions, 1 inscription, schemes {a1,a2} and {b1}, 2 values, 2 versions | outcomes: none lost, none stale; the audit trail; is the ledger of grades implemented? |
| `grade_corrections` | 2 sessions, 3 versions of one grade | lost updates; does every grade request end? |
| `gradebook` | schemes of 1–3 weights, grades at every edge | validation, storage and rounding agree |
| `roles` | 2 calls, 3 users, the administrator's role | does an administrator remain; is the table of roles implemented, with its audit entries; does every call return? |
| `catalog` | 2 deletions, one row of each kind, a second course, 2 years | is what is deleted bare? |
| `access` | 2 requests, 2 sessions of one user, a reset token, 2 reports | who is handed what, and how old is it? |
| `pool` | 2 inscriptions, 2 grades, another call, 2 connections | tokens, the share of the pool; what keeps a call from returning? |
| `listing` | tables of up to 5 ids and 2 instants or 2 programmes, 2 changes | is a walk exact? |

Run that refutes a statement of the repository (`findings` in `PROJECT.json`):
`grade_toctou`.

**Bounds, and why they are enough.** Every conflict in the code is between two
transactions over one row, so two sessions exhibit it; the proofs cover any number,
and `grade_toctou`, where a violation is sought, has three. One section (one quota, one
inscription) suffices because the locks of different rows do not interact, and the
transactions never hold two rows of the same kind; `Roles` is the exception, locks all
administrators, and has three of them so that two calls can lock crosswise with one to
spare. Capacities are 1 and 2: one seat is the boundary, two lets it be resized across
the taken ones. `admission` has one year; that an enrolment of another year takes no
seat of it, and a quota moved to another year, are in the module and its proofs.
`MaxVersion` bounds corrections (three versions: the third corrects a correction). Two
values (30 and 50) are one on each side of the pass mark. `Fresh` gives each submitted
scheme one use. In `access` a time to live of one or two ticks is enough for a key to
expire between any two statements, and to be renewed first; `MaxBuild` bounds how long a
request may take from its query to its answer, and the age of answers is relative to it.
In `pool` the cap is one of two inscriptions and the pool is smaller than the calls, so
they queue; `MaxStatements` bounds the statements of a call. In `listing` `MaxId`,
`MaxStamp` and `MaxChanges` bound the table and what happens to it; five rows make three
pages of two. Bounds are `CONSTANTS`, named in the modules with the word *bound*.

**Fairness.** `FairSpec` asks weak fairness of the steps a running server takes: the
next statement of a session that can take it, and PostgreSQL's lock timeout where the
code sets one. It asks nothing of clients, administrators, teachers, withdrawals or
aborts. In `Enrollment` no timeout exists, and the acquisition of the quota lock is
strongly fair: PostgreSQL grants a row lock in the order of its queue. A replacement of
a scheme is given no fairness, since no queue protects a `FOR UPDATE` from new
key-share holders; no run claims that it ends. In `Roles` two revocations may deadlock
and the deadlock detector, which PostgreSQL always runs, is weakly fair. In
`AdmissionControl` a call that holds a connection gives it back (its statements end,
for row locks by `lock_timeout`) and the pool hands over what is free in the order of
its queue. Nothing makes a client give up, so a pool that has stalled may stay so
(section 6).

## 4. What the runs show

* A request decides under its locks and its decision holds at the write: the seat it
  counted free is free (`SeatDecisionHolds`, `AdmissionHolds`), so no step oversells
  (`NoOversell`, `NoOverAdmission`). The guarantee is about steps, not states: capacity
  may be lowered below the taken seats (`UpdateSection`, `UpdateQuota` compare it with
  nothing).
* For quotas this needs more than the lock: a request that waited for a row that was
  deleted must not act on it. The row re-evaluation of PostgreSQL is in `AcquireQuota`.
* `FinalIsCurrent` and `CompleteIsDecided`: the inscription's row lock makes recording
  atomic, the correction of a decided inscription decides it again, and neither
  withdrawal and revival nor a replaced scheme leaves a stale outcome.
* `ImplementsLedger` of `Grades`: what the statements of a grade do is one step at its
  commit, over every grade committed before it, and never on a withdrawn inscription. That
  a scheme replaces the last one whole (`OneScheme`) rests on the unique index on live
  positions: with it removed (a mutant) two creations leave two schemes.
* `ImplementsTable` of `Roles`: every revocation on record took the role from someone who
  had it and left an administrator. The table has to grant two things to the code: the
  permission is the one of the moment of the request, and an assignment that found the role
  may be recorded after a revocation took it (section 6).
* The replacement of a scheme does not close the window its comment names: a session
  between its list and its insert holds no lock on the evaluation (`grade_toctou`).
* `FinalBetween` holds in schemes of three weights, whatever the column rounds off them,
  and by proof up to fifteen; what is stored sums to one only up to half a thousandth a
  weight (`WeightsNearOne`).
* `AdminRemains`: the row locks make the count and the deletion atomic although the
  order in which rows are locked is not fixed; what may happen is a deadlock, which costs
  one of the calls its transaction and no more.
* `DeletedWhenBare` holds of course associations, sections and teachers, whose inserts
  wait for the deletion's lock. Of quotas it does not, and the property leaves them out:
  the upsert of a quota that was soft-deleted touches no foreign key and waits for nothing.
  After the deletion the foreign keys go on accepting the row: they do not look at
  `deleted_at`.
* `ServedWhileEntitled`: the guard before the look-up is what keeps one shared entry from
  leaking; permissions withdrawn while a request is under way are still its own.
* `TokenSpent`: GETDEL makes a reset token single-use whatever two requests do with it. A
  failure after it loses the token.
* `PoolReserve` and `TokensMatchCalls` hold on every path out of a handler.
* A pool can wait for itself, and does in `pool`: two grades hold its two connections
  and both look up a second one (`Stalled`, section 6). `CallsReturn` shows that nothing
  else does: if the pool always comes out of that stall, every call returns, wherever it
  queues and whoever is served before it. Without the premise the run fails; with the
  premise it would also fail for a transaction other than a grade's that asked the pool
  for another connection (the mutant).
* `WalkIsExact`: cursors are positions and ids break the ties of instants, so deletion of
  the cursor's row, or a change of the page size, loses nothing.

## 5. Proofs

`SectionEnrollmentProofs` and `EnrollmentProofs` prove, for any sets of sessions,
students, sections, quota rows and years and any capacities (the assumptions are the
named `ASSUME`s on the constants):

* `TypeCorrect`: type correctness;
* `Invariance`: the inductive invariant. The safety properties are not inductive alone,
  because they speak of the moment of a write while what protects them was acquired
  some statements before. The invariant adds: two sessions never hold the same row; a
  row held FOR UPDATE cannot be changed by another session; what a session has read of
  it since it holds it is still so; and the quota row held is the one of the year the
  session decides about;
* the safety invariants and the action properties (`NeverOversold`, `OutcomeNeverUndone`,
  `NeverOverAdmitted`) from it;
* `NeverOverfull`: if nobody sets a capacity (a year's quota) below what is taken, no
  *state* has more taken than there is. The hypothesis, `ResizesFit` or `QuotaChangesFit`,
  is what the code leaves to the administrator;
* `LedgerImplemented`: every step maps to a step of `SeatLedger` or to none. Only the
  commit of a write is a `Take`; the count of free seats under the lock is what makes
  its guard true, so the refinement needs the invariant.

`GradesProofs` proves, for any sessions, inscriptions, evaluations, weights and values
and any pairwise disjoint non-empty schemes (`GradesAssumption`: ids are generated, so no
two schemes share one), `TypeCorrect`, `SchemeWhole`, `OutcomeCurrent`, `NoOutcomeLost`,
`AuditTrail` and `NoLostCorrection`, all from one inductive invariant, `IInv`:

* `RecordLocal` says, statement by statement, what a grade session knows: that the
  scheme it listed is a whole one, that the version it compared is still the row's, that
  the old value its audit entry will carry is the one on record, and that it has decided
  to write an outcome exactly when the grades with its own will be its scheme's. `Apart`
  is what keeps these true: two sessions never hold one inscription;
* `FinalIsCurrent` is not inductive. A replacement may commit between the list and the
  insert of a session (`grade_toctou`), so an inscription decided under one scheme can
  be graded under another. `DecidedUnder` and `Fits` tie the outcome to the scheme it was
  decided under: either that scheme is all the inscription is graded on, and a further
  grade of it decides the inscription again; or it is no longer live, and no session
  can still write a grade of it without finding the grades complete;
* `OneScheme` needs only that what a session deletes had been inserted before, and that
  the scheme it places is new: the unique index does the rest.

The weighted final enters these proofs through one lemma (`FinalDependsOnScheme`: it
depends on the grades of the scheme's evaluations alone). `LedgerImplemented` is the
refinement of `GradeLedger`: only `CommitGrade` and `PlaceScheme` map to a step of grades.
It needs `IInv`, for the scheme, the old value and the decision a session carries to its
commit, and one invariant more, `HeldOpen`: no withdrawal takes an inscription a session
holds.

The second half of `GradesProofs` is about the sums, for schemes of any length, any
weights and any grades:

* Induction over data. The library's induction theorems take an operator as a parameter,
  which the provers cannot instantiate, so the inductions are by least counterexample:
  well-foundedness of the natural numbers gives every set of them a least element
  (`LeastElement`), from which follow induction up to a number (`CountUp`) and over a
  finite set one element at a time (`AddOneByOne`). With these the sum over a finite set is
  shown to be a fold in any order (`FoldExists`, `FoldAnyOrder`, `SumIsFold`), hence
  `WeightedSumAdds`, `WeightedSumMonotone`, `WeightedSumBetween`, and the sum over a
  sequence that the properties use equal to the one the code computes (`ExactSum`).
* `BookTypeCorrect`, `BookWeights`, `BookNearest`, `BookMonotone` for every `GradeBook`.
  Its invariant, `BookIInv`, adds to the properties that a result present is the weighted
  final of a complete book, and that what was validated sums to one before it is rounded.
* `BookBetween`, `BookOnScale` and `BookPassing` with the hypothesis `MaxEvaluations <= 15`,
  which is sharp: fifteen weights are off by seven thousandths at most, and 7.0 times 1.007
  still rounds to 7.0; sixteen can be off by eight (section 6). The code has no limit.
* `FairOutcomes` brings this back to the concurrent transactions: in `Grades`, for schemes
  whose stored weights sum to one up to seven thousandths (`NearlyWhole`), every decided
  inscription has a final grade on the scale and between two of its grades.

`RolesProofs`, for any calls and any finite sets of users and role names. `AdminRemains`
is a count of locked rows, so its invariant says what the count means later: a revocation
of an administrator past its guard has locked the row of *another* one (`LocksAdmins`),
and no call writes a row another has locked (`Apart`). Whichever revocation commits, the
row it locked beside its own is still held. `TableImplemented` is the refinement of
`RoleTable`; `Grounded` says what a call has found and what the record still says of it: a
role it saw is there, or a revocation that took it is on record (`OnceStays`).

`CatalogProofs`, for any catalogue and any number of deletions: a locked row belongs to
one deletion (`RowMutex`), is live (`LockedLive`), and what has been counted absent stays
so (`CountedStays`). All inserts are reduced to one lemma: what spares the locked rows
(`Spares`) preserves the invariant.

`ReportsProofs`, for any users, sessions, tokens, reports and times to live. `Entitled`
says what a request has been seen to have at each of its steps; `Fresh` that the age of
a cached answer and the time it has left are together at most the greatest age;
`TokensOnce` that a token handed out is never handed out again. Steps are grouped into
those of one request, which leave the others alone (`Alone`), and those of the rest of
the system.

`AdmissionProofs`, for a pool of any size: tokens are the inscriptions under way, never
more than the cap (`IInv`), and the cap is at most six tenths of the pool (`CapShare`).
`PoolIInv` is about the queue: it holds each call that waits once (`Queued`, with lemmas
on appending, serving and leaving), so that a connection handed over is one that is free
(`AdmissionType`). With it the stall of the pool is proved to be what section 6 says and
nothing else, without an assumption on how many calls there are: nobody who holds a
connection can go on while others queue (`Stuck`) exactly when grades at their look-up
hold all of them (`AdmissionStuckIsStalled`), and then only a cancellation of one of
these changes it (`AdmissionStallLasts`).

`ListingProofs`, for any table, page sizes and number of changes: the cursor splits the
rows (`CursorSplits`); nothing seen comes after it, and everything that matched all along
does, or has been seen. The four orders enter through one lemma (`OrdStrict`): they are
strict, and rows that tie are of one id.

Each step proof has one named step per action or group of actions; lemmas about writing
one field of one row (`RowWritten`, `RowType`) are stated once.

Only model-checked: liveness under fairness (`RequestsFinish`, `CallsFinish`,
`RecordsFinish`, `CallsReturn` of `Roles` and of `AdmissionControl`), which is out of the
prover's reach. `AdmissionStuckIsStalled` is the safety half of the last one. Every other
property of a passing run is a theorem.

## 6. Hazards, and where code and documents part

`PROJECT.json` lists every hazard at its line with the properties that cover it. Some
behaviours of the code contradict a sentence of the repository. One has a run
(`grade_toctou`). The others can be followed in the modules:

* **The paid gate.** `sectionenrollment/query.sql:3` calls the paid, program and seat
  checks atomic. The enrolment is read without a lock: `CheckEnrollment` finds it paid,
  `MoveMatricula` cancels it, `WriteSeat` commits the seat.
* **The second read.** After an update that matched no row, `enrollment/repository.go:204`
  reads the row again and reports a wrong state ("Row exists but status is not pending").
  Between the two another client may have revived it: `Refuse`, `WriteSeat` of another
  call, `Reread` finds it pending. The tables are right, the reason given is not.
* **Stored weights.** `docs/arquitectura/README.md:521` says the sum of a scheme is
  exactly 1.0. The request's is; the column rounds each weight to three decimals. Sixteen
  equal weights of 0.0625 are stored as 0.063, in all 1.008, and sixteen grades of 7.0 then
  make a final grade of 7.1, off the scale of 1.0 to 7.0 that the grades' column checks and
  `section_enrollments.final_grade` does not. Nothing limits a scheme to fifteen
  evaluations, up to which `BookOnScale` excludes it.
* **A role assigned and gone.** `AssignRoleTx` finds the role, inserts nothing and locks
  nothing; a revocation commits; then the assignment commits its entry and answers that
  all is well. The log ends with `role.assign` and the user has no role
  (`RoleTable!AssignAgain`).
* **Which error.** With one administrator left `RevokeRoleTx` answers `ErrLastAdmin` for
  a user who is none, where `iam/repository.go:62` says `ErrNotFound`: `CheckLastAdmin`
  comes before `DeleteRole`.
* **An empty acta for everybody.** A teacher passes `IsTeacherForSection`, is removed
  from the section, and `ActaForSectionByTeacher` then returns no rows; the empty answer
  is stored under the section's key and served to administrators too until it expires,
  where `reports/service.go:48` says that these "receive all rows". `Reports` has the
  steps (`Guard`, `RemoveTeacher`, `Query`, `CacheSet`) and reduces the answer to its age.
* **Two programmes.** A section that is enrollable through two programmes is two rows
  of `ListEnrollableSections` with one id, the cursor is the id alone, and the second row
  is lost when a page ends between them.
* **The second connection.** A grade under an evaluation that is not in the scheme looks
  it up on the pool while its transaction holds a connection. As many such grades as
  connections wait for each other, with every other call behind them, until one of their
  clients gives up: the pool sets no timeout for a connection, a row lock's timeout does
  not run, and nothing limits how many grades are recorded at once.

Two hazards are without a property because they happen (the first two above), one because
nothing promises otherwise: sessions survive a change of password.

## 7. Plan

All components that decide something have a module. What is left, in order: the rows of
an acta in `Reports`, with a run for the empty one; a run for each of the first two
divergences of section 6; several replacements of one scheme against each other; two
years in a run of `Enrollment`; a module that composes sections, inscriptions and grades
over one set of rows, shown to implement the three that exist. Theorems: an abstract
specification of the cache that `Reports` implements; the exactness of walks without
changes, from `WalkIsExact`.

## 8. Not modelled, and why

Nearly half of the lines under `src/backend` are generated. The functions sqlc generates
for a modelled statement are what the definition of that statement maps to; the protobuf
and Connect code (`gen`) is message layout and routing, without state. Of the rest much
is translation between rows, domain values and messages (`handler.go`, the `…ToProto`
functions), validation of strings, and wiring (`cmd`, `platform`): no property is about
them, so no definition stands for them. The share of lines the map covers is small for
that reason.

Profiles are one-statement upserts of rows nobody else decides on. The front end enforces
no rule the server does not enforce again. Infrastructure has no program state. Changes
of names, codes and dates in the catalogue, the rows of reports, cookies, password
hashing, metrics and logging change nothing the properties read.
