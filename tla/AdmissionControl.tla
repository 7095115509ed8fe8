-------------------------- MODULE AdmissionControl --------------------------
(***************************************************************************)
(* The connection pool of one replica and the admission limiter of the     *)
(* inscription procedures: sectionenrollment/limiter.go in front of        *)
(* platform/db/pool.go.                                                    *)
(*                                                                         *)
(* A call runs its statements one at a time, each, or each transaction, on *)
(* a connection of the pool; a call that finds none waits in the pool's    *)
(* queue without any timeout of its own.  An inscription must first put a  *)
(* token in the limiter's channel, which refuses at once when it is full.  *)
(* A grade is recorded in one transaction, inside which an evaluation that *)
(* is not in the scheme is looked up on the pool, on a second connection.  *)
(***************************************************************************)
EXTENDS Naturals, FiniteSets, SequencesExt

CONSTANTS
  Enrolls,       \* calls of EnrollSection and EnrollOwnSection
  Grades,        \* calls of RecordGrade and OverrideGrade
  Others,        \* calls of every other procedure
  PoolSize,      \* connections of the pool, DB_MAX_CONNS
  MaxStatements  \* bound: statements and transactions of a call

ASSUME AdmissionAssumption ==
  /\ IsFiniteSet(Enrolls) /\ IsFiniteSet(Grades) /\ IsFiniteSet(Others)
  /\ PoolSize \in Nat \ {0} /\ MaxStatements \in Nat \ {0}
  /\ Enrolls \cap (Grades \cup Others) = {}
  /\ Grades \cap Others = {}

VARIABLES
  tokens,  \* tokens in the limiter's channel
  step,    \* where each call is
  todo,    \* statements it has left
  queue    \* calls that wait for a connection, first come first served

vars == <<tokens, step, todo, queue>>

Calls == Enrolls \cup Grades \cup Others

\* Mutant: rounded up.
CapAbove == (PoolSize * 6) \div 10 + 1

\* floor(poolSize * 0.6); the product is exact in float64 where it is an integer.
Cap == (PoolSize * 6) \div 10

At(steps) == {c \in Calls : step[c] \in steps}

\* Connections out of the pool: one for each call that uses one, a second for
\* each that looks up.
InUse == Cardinality(At({"use", "waitmore", "usemore"})) + Cardinality(At({"usemore"}))

Steps == {"idle", "run", "wait", "use", "waitmore", "usemore"}

TypeOK ==
  /\ tokens \in 0 .. Cap
  /\ step \in [Calls -> Steps]
  /\ todo \in [Calls -> 0 .. MaxStatements]
  /\ queue \in Seq(Calls)
  /\ InUse <= PoolSize
  /\ \A c \in Calls :
       /\ step[c] \in {"waitmore", "usemore"} => c \in Grades
       /\ step[c] \in {"wait", "waitmore"} <=> \E i \in DOMAIN queue : queue[i] = c

Init ==
  /\ tokens = 0
  /\ step = [c \in Calls |-> "idle"]
  /\ todo = [c \in Calls |-> 0]
  /\ queue = <<>>

GoTo(c, next) == step' = [step EXCEPT ![c] = next]
-----------------------------------------------------------------------------
(* The limiter. *)

Start(c) ==
  /\ step[c] = "idle"
  /\ GoTo(c, "run")
  /\ \E n \in 1 .. MaxStatements : todo' = [todo EXCEPT ![c] = n]
  /\ UNCHANGED queue

\* Mutant: the send does not look at the channel's capacity.
AcquireAnyway(c) == c \in Enrolls /\ tokens' = tokens + 1 /\ Start(c)

\* tryAcquire: a full channel refuses the call, which then has done nothing.
TryAcquire(c) ==
  /\ c \in Enrolls
  /\ tokens < Cap
  /\ tokens' = tokens + 1
  /\ Start(c)

\* Procedures that are not controlled pass.
Bypass(c) == c \notin Enrolls /\ Start(c) /\ UNCHANGED tokens

\* Mutant: a call that is given up has its token forgotten.
ReleaseAtReturn(c) ==
  /\ GoTo(c, "idle")
  /\ todo' = [todo EXCEPT ![c] = 0]
  /\ tokens' = IF c \in Enrolls /\ todo[c] = 0 THEN tokens - 1 ELSE tokens

\* The deferred release reads the token back, however the call ends.
Release(c) ==
  /\ GoTo(c, "idle")
  /\ todo' = [todo EXCEPT ![c] = 0]
  /\ tokens' = IF c \in Enrolls THEN tokens - 1 ELSE tokens

Return(c) ==
  /\ step[c] = "run" /\ todo[c] = 0
  /\ Release(c)
  /\ UNCHANGED queue
-----------------------------------------------------------------------------
(* The pool. *)

\* A call takes a free connection when nobody waits for one.
Take(c, next) ==
  /\ queue = <<>> /\ InUse < PoolSize
  /\ GoTo(c, next)
  /\ UNCHANGED queue

Queue(c, next) ==
  /\ queue # <<>> \/ InUse = PoolSize
  /\ queue' = Append(queue, c)
  /\ GoTo(c, next)

\* The next statement, or Begin of the next transaction.
Acquire(c) ==
  /\ step[c] = "run" /\ todo[c] > 0
  /\ Take(c, "use") \/ Queue(c, "wait")
  /\ UNCHANGED <<tokens, todo>>

\* Mutant: every transaction reads on the pool what it should read on its own
\* connection.
AcquireMoreAlways(c) ==
  /\ step[c] = "use"
  /\ Take(c, "usemore") \/ Queue(c, "waitmore")
  /\ UNCHANGED <<tokens, todo>>

\* GetEvaluationByID on the pool, while the transaction is open.
AcquireMore(c) ==
  /\ c \in Grades /\ step[c] = "use"
  /\ Take(c, "usemore") \/ Queue(c, "waitmore")
  /\ UNCHANGED <<tokens, todo>>

ServeFirst(c) == queue # <<>> /\ c = Head(queue) /\ queue' = Tail(queue)

\* A connection that comes free goes to the call that waits the longest.
Hand(c) ==
  /\ ServeFirst(c)
  /\ InUse < PoolSize
  /\ \/ step[c] = "wait" /\ GoTo(c, "use")
     \/ step[c] = "waitmore" /\ GoTo(c, "usemore")
  /\ UNCHANGED <<tokens, todo>>

\* The statement or the transaction ends; after a look-up the grade is refused.
Done(c) ==
  /\ step[c] \in {"use", "usemore"}
  /\ GoTo(c, "run")
  /\ todo' = [todo EXCEPT ![c] = IF step[c] = "usemore" THEN 0 ELSE @ - 1]
  /\ UNCHANGED <<tokens, queue>>

\* A call that gives up leaves the queue; those behind it move up.
Leave(c) ==
  IF \E i \in DOMAIN queue : queue[i] = c
  THEN \E i \in DOMAIN queue : queue[i] = c /\ queue' = RemoveAt(queue, i)
  ELSE UNCHANGED queue

\* The call fails or its client goes away, be it while it waits.
Cancel(c) ==
  /\ step[c] # "idle"
  /\ Leave(c)
  /\ Release(c)

Advance(c) == Return(c) \/ Acquire(c) \/ Hand(c) \/ Done(c)

Next ==
  \E c \in Calls : TryAcquire(c) \/ Bypass(c) \/ AcquireMore(c) \/ Cancel(c) \/ Advance(c)

Spec == Init /\ [][Next]_vars

\* A statement ends (row locks are waited for as long as lock_timeout allows), the
\* pool hands over what comes free, and the server goes on with its calls.
FairSpec == Spec /\ \A c \in Calls : WF_vars(Advance(c))
-----------------------------------------------------------------------------
(* Properties. *)

\* The channel holds a token for each inscription under way and none else: no path
\* out of the handler leaves one behind, none takes two back.
TokensMatchCalls == tokens = Cardinality({c \in Enrolls : step[c] # "idle"})

\* Inscriptions leave four connections in ten to everybody else ("inscription
\* transactions can never consume the entire pool").
PoolReserve ==
  10 * Cardinality({c \in Enrolls : step[c] \in {"use", "waitmore", "usemore"}})
    <= 6 * PoolSize

\* The pool stalls: each of its connections is held by a grade that waits for its
\* second one, which only another of them could give back.
Stalled == Cardinality({g \in Grades : step[g] = "waitmore"}) = PoolSize

\* Calls wait for the pool, and no call that holds a connection can go on without
\* another one.
Stuck ==
  /\ queue # <<>> /\ InUse = PoolSize
  /\ \A c \in Calls : step[c] \notin {"use", "usemore"}

\* Nothing but that stall keeps a call waiting: if a pool that stalls always comes out
\* of it (clients give up, no step of the server helps), every call returns, though
\* callers queue for connections and grades for a second one.
CallsReturn ==
  []<>~Stalled => \A c \in Calls : step[c] # "idle" ~> step[c] = "idle"
=============================================================================
