-------------------------------- MODULE Roles --------------------------------
(***************************************************************************)
(* Roles of users: internal/iam of the API over the table user_roles, with *)
(* the permission check every call passes first (internal/auth, rbac).     *)
(* AssignRoleTx and RevokeRoleTx are modelled statement by statement, at   *)
(* READ COMMITTED: a statement sees what was committed when it started,    *)
(* waits for rows another transaction has locked or is writing, and skips  *)
(* the rows that are gone when the wait ends.                              *)
(***************************************************************************)
EXTENDS Naturals, Sequences, FiniteSets

CONSTANTS
  Calls,  \* calls of AssignRole and RevokeRole, over all replicas
  Users,
  Names,  \* names of roles
  Admin,  \* the role "admin", the one whose permissions include users.manage
  None    \* no arguments yet

Rows == Users \X Names  \* primary key of user_roles

Call == [op : {"assign", "revoke"}, actor : Users, row : Rows]

ASSUME ConstantsAssumption ==
  /\ IsFiniteSet(Users)
  /\ IsFiniteSet(Names)
  /\ Admin \in Names
  /\ None \notin Call

VARIABLES
  held,    \* committed rows of user_roles
  audit,   \* the role entries of audit_logs, in the order of their commits
  pc,      \* next statement of each call
  call,    \* its arguments and the authenticated user
  want,    \* rows LockAdminUserRoles has found and not locked yet
  locked,  \* rows the transaction has locked FOR UPDATE
  wrote,   \* the transaction has inserted or deleted its row
  answer   \* how the call ended

session == <<call, want, locked, wrote>>
vars    == <<held, audit, pc, call, want, locked, wrote, answer>>

Steps == {"start", "insert", "lock", "scan", "delete", "commit", "done"}

Answers == {"none", "ok", "not found", "last admin", "failed"}

AdminRows == {row \in held : row[2] = Admin}

\* A row is busy while another transaction has it locked or has written it.
Busy(c, row) ==
  \E d \in Calls \ {c} :
    row \in locked[d] \/ (wrote[d] /\ call[d].row = row)

TypeOK ==
  /\ held \subseteq Rows
  /\ audit \in Seq(Call)
  /\ pc \in [Calls -> Steps]
  /\ call \in [Calls -> Call \cup {None}]
  /\ want \in [Calls -> SUBSET Rows]
  /\ locked \in [Calls -> SUBSET Rows]
  /\ wrote \in [Calls -> BOOLEAN]
  /\ answer \in [Calls -> Answers]
  /\ \A c \in Calls :
       /\ pc[c] \notin {"start", "done"} => call[c] \in Call
       /\ (pc[c] = "done") <=> (answer[c] # "none")
       /\ pc[c] = "done" => want[c] = {} /\ locked[c] = {} /\ wrote[c] = FALSE

\* The migrations seed one administrator; the others were assigned since.
Init ==
  /\ held \in SUBSET Rows
  /\ AdminRows # {}
  /\ audit = <<>>
  /\ pc = [c \in Calls |-> "start"]
  /\ call = [c \in Calls |-> None]
  /\ want = [c \in Calls |-> {}]
  /\ locked = [c \in Calls |-> {}]
  /\ wrote = [c \in Calls |-> FALSE]
  /\ answer = [c \in Calls |-> "none"]

GoTo(c, step) == pc' = [pc EXCEPT ![c] = step] /\ UNCHANGED answer

\* Mutant: the call returns without its deferred rollback.
FinishKeepsLocks(c, outcome) ==
  /\ pc' = [pc EXCEPT ![c] = "done"]
  /\ answer' = [answer EXCEPT ![c] = outcome]
  /\ UNCHANGED session

\* The call returns; commit or the deferred rollback releases its locks.
Finish(c, outcome) ==
  /\ pc' = [pc EXCEPT ![c] = "done"]
  /\ answer' = [answer EXCEPT ![c] = outcome]
  /\ want' = [want EXCEPT ![c] = {}]
  /\ locked' = [locked EXCEPT ![c] = {}]
  /\ wrote' = [wrote EXCEPT ![c] = FALSE]
  /\ UNCHANGED call
-------------------------------------------------------------------------------
(* The interceptors and the service, before any transaction. *)

\* The permissions of the caller are loaded once, with the request: nothing
\* tests them again.  The service refuses an administrator who revokes himself.
Authorize(c, op, actor, row) ==
  /\ pc[c] = "start"
  /\ <<actor, Admin>> \in held
  /\ ~(op = "revoke" /\ row = <<actor, Admin>>)
  /\ call' = [call EXCEPT ![c] = [op |-> op, actor |-> actor, row |-> row]]
  /\ GoTo(c, CASE op = "assign"                     -> "insert"
               [] op = "revoke" /\ row[2] = Admin   -> "lock"
               [] op = "revoke" /\ row[2] # Admin   -> "delete")
  /\ UNCHANGED <<held, audit, want, locked, wrote>>
-------------------------------------------------------------------------------
(* AssignRoleTx. *)

\* INSERT ... ON CONFLICT DO NOTHING waits while another transaction inserts or
\* deletes the row; it locks nothing when it finds the row.
InsertRole(c) ==
  LET row == call[c].row IN
  /\ pc[c] = "insert"
  /\ \A d \in Calls \ {c} : ~(wrote[d] /\ call[d].row = row)
  /\ wrote' = [wrote EXCEPT ![c] = row \notin held]
  /\ GoTo(c, "commit")
  /\ UNCHANGED <<held, audit, call, want, locked>>

\* The audit entry is written whether or not a row was inserted.
CommitAssign(c) ==
  /\ pc[c] = "commit"
  /\ call[c].op = "assign"
  /\ held' = IF wrote[c] THEN held \cup {call[c].row} ELSE held
  /\ audit' = Append(audit, call[c])
  /\ Finish(c, "ok")
-------------------------------------------------------------------------------
(* RevokeRoleTx. *)

\* The rows LockAdminUserRoles finds when it starts.
FindAdmins(c) ==
  /\ pc[c] = "lock"
  /\ want' = [want EXCEPT ![c] = AdminRows]
  /\ GoTo(c, "scan")
  /\ UNCHANGED <<held, audit, call, locked, wrote>>

\* Mutant: the rows are read without FOR UPDATE.
ReadAdmin(c, row) ==
  /\ pc[c] = "scan"
  /\ row \in want[c]
  /\ want' = [want EXCEPT ![c] = @ \ {row}]
  /\ locked' = [locked EXCEPT ![c] = @ \cup {row}]
  /\ UNCHANGED <<held, audit, pc, call, wrote, answer>>

\* It locks them one after the other, in the order its plan finds them.
LockAdmin(c, row) ==
  /\ pc[c] = "scan"
  /\ row \in want[c]
  /\ ~Busy(c, row)
  /\ want' = [want EXCEPT ![c] = @ \ {row}]
  /\ locked' = [locked EXCEPT ![c] = @ \cup {row}]
  /\ UNCHANGED <<held, audit, pc, call, wrote, answer>>

\* The last administrator is not revoked.
CheckLastAdmin(c) ==
  /\ pc[c] = "scan"
  /\ want[c] = {}
  /\ \/ Cardinality(locked[c]) <= 1 /\ Finish(c, "last admin")
     \/ Cardinality(locked[c]) > 1 /\ GoTo(c, "delete") /\ UNCHANGED session
  /\ UNCHANGED <<held, audit>>

\* Mutant: the number of rows deleted is not looked at.
DeleteBlindly(c) ==
  /\ pc[c] = "delete"
  /\ call[c].row \in held => ~Busy(c, call[c].row)
  /\ wrote' = [wrote EXCEPT ![c] = call[c].row \in held]
  /\ GoTo(c, "commit")
  /\ UNCHANGED <<held, audit, call, want, locked>>

\* DELETE waits for a row that is busy; no row, no revocation.
DeleteRole(c) ==
  LET row == call[c].row IN
  /\ pc[c] = "delete"
  /\ \/ row \notin held /\ Finish(c, "not found")
     \/ /\ row \in held
        /\ ~Busy(c, row)
        /\ wrote' = [wrote EXCEPT ![c] = TRUE]
        /\ GoTo(c, "commit")
        /\ UNCHANGED <<call, want, locked>>
  /\ UNCHANGED <<held, audit>>

\* Who waits for the deleted row skips it.
CommitRevoke(c) ==
  LET row == call[c].row IN
  /\ pc[c] = "commit"
  /\ call[c].op = "revoke"
  /\ held' = held \ {row}
  /\ audit' = Append(audit, call[c])
  /\ pc' = [pc EXCEPT ![c] = "done"]
  /\ answer' = [answer EXCEPT ![c] = "ok"]
  /\ want' = [d \in Calls |-> IF d = c THEN {} ELSE want[d] \ {row}]
  /\ locked' = [locked EXCEPT ![c] = {}]
  /\ wrote' = [wrote EXCEPT ![c] = FALSE]
  /\ UNCHANGED call
-------------------------------------------------------------------------------
(* Failures. *)

\* The rows a call waits for: the DELETE's own, or any the scan has left.
Awaited(c) ==
  CASE pc[c] = "scan"                              -> want[c]
    [] pc[c] = "delete" /\ call[c].row \in held    -> {call[c].row}
    [] pc[c] = "insert"                            -> {call[c].row}
    [] OTHER                                       -> {}

Stuck(S) ==
  \A c \in S : /\ Awaited(c) # {}
               /\ \A row \in Awaited(c) :
                    \E d \in S \ {c} :
                      row \in locked[d] \/ (wrote[d] /\ call[d].row = row)

\* PostgreSQL ends a transaction that waits in a cycle.
DeadlockVictim(c) ==
  /\ \E S \in SUBSET Calls : c \in S /\ Stuck(S)
  /\ Finish(c, "failed")
  /\ UNCHANGED <<held, audit>>

\* The client leaves, the connection is lost or the replica dies.
Abort(c) ==
  /\ pc[c] \notin {"start", "done"}
  /\ Finish(c, "failed")
  /\ UNCHANGED <<held, audit>>
-------------------------------------------------------------------------------
Scan(c) == FindAdmins(c) \/ (\E row \in Rows : LockAdmin(c, row)) \/ CheckLastAdmin(c)

Advance(c) ==
  InsertRole(c) \/ CommitAssign(c) \/ Scan(c) \/ DeleteRole(c) \/ CommitRevoke(c)

AllDone == (\A c \in Calls : pc[c] = "done") /\ UNCHANGED vars

Next ==
  \/ \E c \in Calls :
       \/ \E op \in {"assign", "revoke"}, actor \in Users, row \in Rows :
            Authorize(c, op, actor, row)
       \/ Advance(c)
       \/ DeadlockVictim(c)
       \/ Abort(c)
  \/ AllDone

Spec == Init /\ [][Next]_vars

\* The server goes on with a call it has begun, PostgreSQL breaks deadlocks.
Fairness == \A c \in Calls : WF_vars(Advance(c)) /\ WF_vars(DeadlockVictim(c))

FairSpec == Spec /\ Fairness
-------------------------------------------------------------------------------
(* Properties. *)

\* Whatever the calls in flight, someone can administer the system
\* (RevokeRoleTx counts the administrators it has locked).
AdminRemains == \E u \in Users : <<u, Admin>> \in held

\* The table this component implements.
Table == INSTANCE RoleTable

\* Every behaviour of the calls above is a behaviour of the table: a role comes and
\* goes in one step with its own entry, a revocation on record took the role from
\* someone who had it and left an administrator, and an assignment that found the
\* role wrote its entry alone (AssignRoleTx and RevokeRoleTx).
ImplementsTable == Table!Spec

\* Every call that has been authorised returns, whatever rows it waits for.
CallsReturn == \A c \in Calls : (pc[c] # "start") ~> (pc[c] = "done")
===============================================================================
