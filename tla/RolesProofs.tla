----------------------------- MODULE RolesProofs -----------------------------
(***************************************************************************)
(* For every number of users, roles and calls: somebody keeps the role of  *)
(* administrator, and the calls implement the atomic table of roles.  The  *)
(* argument is one of locks: a call that goes on to delete an              *)
(* administrator's row has locked a second one, and nobody deletes a row   *)
(* another call has locked.                                                *)
(***************************************************************************)
EXTENDS Roles, FiniteSetTheorems, TLAPS

\* Where a call is agrees with what it has to do.
OnPath(c) ==
  /\ pc[c] = "insert" => call[c].op = "assign"
  /\ pc[c] \in {"lock", "scan"} => call[c].op = "revoke" /\ call[c].row[2] = Admin
  /\ pc[c] = "delete" => call[c].op = "revoke"
  /\ pc[c] = "start" => want[c] = {} /\ locked[c] = {}
  /\ wrote[c] = TRUE => pc[c] = "commit"
  /\ pc[c] = "commit" /\ call[c].op = "revoke" => wrote[c] = TRUE /\ call[c].row \in held
  /\ wrote[c] = TRUE /\ call[c].op = "assign" => call[c].row \notin held

\* It looks at rows of administrators that are there; its last one is not alone.
LocksAdmins(c) ==
  /\ want[c] \subseteq held /\ locked[c] \subseteq held
  /\ \A row \in want[c] \cup locked[c] : row[2] = Admin
  /\ pc[c] \in {"delete", "commit"} /\ call[c].op = "revoke" /\ call[c].row[2] = Admin
       => \E row \in locked[c] : row # call[c].row

\* No call writes what another has locked or written.
Apart(c, d) ==
  wrote[d] = TRUE => /\ call[d].row \notin locked[c]
                     /\ wrote[c] = TRUE => call[c].row # call[d].row

IInv ==
  /\ TypeOK
  /\ AdminRemains
  /\ \A c \in Calls : OnPath(c) /\ LocksAdmins(c)
  /\ \A c, d \in Calls : c # d => Apart(c, d)

\* Of two rows or more, one is not the given row.
LEMMA AnotherOne ==
  ASSUME NEW S, IsFiniteSet(S), Cardinality(S) > 1, NEW row
  PROVE  \E other \in S : other # row
<1> SUFFICES ASSUME \A other \in S : other = row PROVE FALSE
  OBVIOUS
<1>1. S = {} \/ S = {row}
  OBVIOUS
<1>2. Cardinality({}) = 0 /\ Cardinality({row}) = 1
  BY FS_EmptySet, FS_Singleton
<1> QED BY <1>1, <1>2

\* There are finitely many rows.
LEMMA RowsFinite ==
  ASSUME NEW S, S \subseteq Rows
  PROVE  IsFiniteSet(S)
BY ConstantsAssumption, FS_Product, FS_Subset DEF Rows

\* A call has its arguments once it has begun.
LEMMA CallTyped ==
  ASSUME TypeOK, NEW c \in Calls, pc[c] \notin {"start", "done"}
  PROVE  call[c] \in Call /\ call[c].row \in Rows /\ call[c].op \in {"assign", "revoke"}
BY DEF TypeOK, Call

\* Nothing is locked or written at the start.
LEMMA InitIInv == Init => IInv
<1> SUFFICES ASSUME Init PROVE IInv
  OBVIOUS
<1>1. TypeOK
  BY DEF Init, TypeOK, Steps, Answers
<1>2. AdminRemains
  BY DEF Init, AdminRows, AdminRemains, Rows
<1>3. \A c \in Calls : OnPath(c) /\ LocksAdmins(c)
  BY DEF Init, OnPath, LocksAdmins
<1>4. \A c, d \in Calls : c # d => Apart(c, d)
  BY DEF Init, Apart
<1> QED BY <1>1, <1>2, <1>3, <1>4 DEF IInv

\* The check of the permissions writes nothing.
LEMMA AuthorizeKeeps ==
  ASSUME IInv, NEW c \in Calls, NEW op \in {"assign", "revoke"}, NEW actor \in Users,
         NEW row \in Rows, Authorize(c, op, actor, row)
  PROVE  IInv'
<1>0. [op |-> op, actor |-> actor, row |-> row] \in Call
  BY DEF Call
<1>1. TypeOK'
  BY <1>0 DEF IInv, TypeOK, Authorize, GoTo, Steps, Answers
<1>2. AdminRemains'
  BY DEF IInv, AdminRemains, Authorize
<1>3. \A d \in Calls : OnPath(d)' /\ LocksAdmins(d)'
  BY DEF IInv, TypeOK, OnPath, LocksAdmins, Authorize, GoTo
<1>4. \A d, e \in Calls : d # e => Apart(d, e)'
  BY DEF IInv, TypeOK, OnPath, Apart, Authorize, GoTo
<1> QED BY <1>1, <1>2, <1>3, <1>4 DEF IInv

\* Who finishes without committing leaves the others as they were.
LEMMA FinishKeeps ==
  ASSUME IInv, NEW c \in Calls, NEW outcome \in Answers \ {"none"},
         pc[c] \notin {"start", "done"}, Finish(c, outcome), UNCHANGED <<held, audit>>
  PROVE  IInv'
<1>1. TypeOK'
  BY DEF IInv, TypeOK, Finish, Steps
<1>2. AdminRemains'
  BY DEF IInv, AdminRemains
<1>3. \A d \in Calls : OnPath(d)' /\ LocksAdmins(d)'
  BY DEF IInv, TypeOK, OnPath, LocksAdmins, Finish
<1>4. \A d, e \in Calls : d # e => Apart(d, e)'
  BY DEF IInv, TypeOK, Apart, Finish
<1> QED BY <1>1, <1>2, <1>3, <1>4 DEF IInv

\* An insertion is of a row that is not there, so that nobody has locked it.
LEMMA InsertKeeps ==
  ASSUME IInv, NEW c \in Calls, InsertRole(c)
  PROVE  IInv'
<1>0. call[c] \in Call /\ call[c].op = "assign"
  BY CallTyped DEF IInv, OnPath, InsertRole
<1>1. TypeOK'
  BY <1>0 DEF IInv, TypeOK, InsertRole, GoTo, Steps, Answers
<1>2. AdminRemains'
  BY DEF IInv, AdminRemains, InsertRole
<1>3. \A d \in Calls : OnPath(d)' /\ LocksAdmins(d)'
  BY <1>0 DEF IInv, TypeOK, OnPath, LocksAdmins, InsertRole, GoTo
<1>4. \A d, e \in Calls : d # e => Apart(d, e)'
  BY <1>0 DEF IInv, TypeOK, OnPath, LocksAdmins, Apart, InsertRole, GoTo
<1> QED BY <1>1, <1>2, <1>3, <1>4 DEF IInv

\* An assignment adds the row it has written, nobody else's.
LEMMA CommitAssignKeeps ==
  ASSUME IInv, NEW c \in Calls, CommitAssign(c)
  PROVE  IInv'
<1>0. call[c] \in Call /\ call[c].row \in Rows /\ call[c].op = "assign"
  BY CallTyped DEF IInv, CommitAssign
<1>1. TypeOK'
  <2>1. audit' \in Seq(Call)
    BY <1>0 DEF IInv, TypeOK, CommitAssign
  <2>2. held' \subseteq Rows
    BY <1>0 DEF IInv, TypeOK, CommitAssign
  <2> QED BY <2>1, <2>2 DEF IInv, TypeOK, CommitAssign, Finish, Steps, Answers
<1>2. AdminRemains'
  BY DEF IInv, AdminRemains, CommitAssign
<1>3. \A d \in Calls : OnPath(d)' /\ LocksAdmins(d)'
  <2> SUFFICES ASSUME NEW d \in Calls PROVE OnPath(d)' /\ LocksAdmins(d)'
    OBVIOUS
  <2>1. CASE d = c
    BY <1>0, <2>1 DEF IInv, TypeOK, OnPath, LocksAdmins, CommitAssign, Finish
  <2>2. CASE d # c
    <3>1. /\ pc'[d] = pc[d] /\ wrote'[d] = wrote[d] /\ call'[d] = call[d]
          /\ locked'[d] = locked[d] /\ want'[d] = want[d]
          /\ held \subseteq held'
          /\ held' # held => wrote[c] = TRUE /\ held' = held \cup {call[c].row}
      BY <2>2 DEF IInv, TypeOK, CommitAssign, Finish
    <3>2. OnPath(d) /\ LocksAdmins(d) /\ Apart(d, c)
      BY <2>2 DEF IInv
    <3>3. OnPath(d)'
      BY <3>1, <3>2 DEF OnPath, Apart
    <3>4. LocksAdmins(d)'
      BY <3>1, <3>2 DEF LocksAdmins
    <3> QED BY <3>3, <3>4
  <2> QED BY <2>1, <2>2
<1>4. \A d, e \in Calls : d # e => Apart(d, e)'
  BY DEF IInv, TypeOK, Apart, CommitAssign, Finish
<1> QED BY <1>1, <1>2, <1>3, <1>4 DEF IInv

\* The scan finds and locks rows of administrators, and never one being written.
LEMMA ScanKeeps ==
  ASSUME IInv, NEW c \in Calls, Scan(c)
  PROVE  IInv'
<1>1. CASE FindAdmins(c)
  <2>1. TypeOK'
    BY <1>1 DEF IInv, TypeOK, FindAdmins, GoTo, Steps, AdminRows
  <2>2. AdminRemains'
    BY <1>1 DEF IInv, AdminRemains, FindAdmins
  <2>3. \A d \in Calls : OnPath(d)' /\ LocksAdmins(d)'
    BY <1>1 DEF IInv, TypeOK, OnPath, LocksAdmins, FindAdmins, GoTo, AdminRows
  <2>4. \A d, e \in Calls : d # e => Apart(d, e)'
    BY <1>1 DEF IInv, TypeOK, Apart, FindAdmins, GoTo
  <2> QED BY <2>1, <2>2, <2>3, <2>4 DEF IInv
<1>2. CASE \E row \in Rows : LockAdmin(c, row)
  <2> PICK row \in Rows : LockAdmin(c, row)
    BY <1>2
  <2>1. TypeOK'
    BY DEF IInv, TypeOK, LockAdmin
  <2>2. AdminRemains'
    BY DEF IInv, AdminRemains, LockAdmin
  <2>3. \A d \in Calls : OnPath(d)' /\ LocksAdmins(d)'
    BY DEF IInv, TypeOK, OnPath, LocksAdmins, LockAdmin
  <2>4. \A d, e \in Calls : d # e => Apart(d, e)'
    BY DEF IInv, TypeOK, Apart, Busy, LockAdmin
  <2> QED BY <2>1, <2>2, <2>3, <2>4 DEF IInv
<1>3. CASE CheckLastAdmin(c)
  <2>1. CASE Finish(c, "last admin")
    BY <2>1, <1>3, FinishKeeps DEF CheckLastAdmin, Answers
  <2>2. CASE Cardinality(locked[c]) > 1 /\ GoTo(c, "delete") /\ UNCHANGED session
    <3>0. \E row \in locked[c] : row # call[c].row
      <4> DEFINE mine == locked[c]
      <4>1. mine \subseteq Rows
        BY DEF IInv, TypeOK
      <4>2. IsFiniteSet(mine)
        BY <4>1, RowsFinite
      <4>3. Cardinality(mine) > 1
        BY <2>2
      <4> HIDE DEF mine
      <4>4. \E row \in mine : row # call[c].row
        BY <4>2, <4>3, AnotherOne
      <4> QED BY <4>4 DEF mine
    <3>1. TypeOK'
      BY <1>3, <2>2 DEF IInv, TypeOK, CheckLastAdmin, session, GoTo, Steps
    <3>2. AdminRemains'
      BY <1>3 DEF IInv, AdminRemains, CheckLastAdmin
    <3>3. \A d \in Calls : OnPath(d)' /\ LocksAdmins(d)'
      <4>1. /\ UNCHANGED <<held, call, want, locked, wrote>>
            /\ pc[c] = "scan" /\ pc' = [pc EXCEPT ![c] = "delete"]
        BY <1>3, <2>2 DEF CheckLastAdmin, session, GoTo
      <4>2. \A d \in Calls : OnPath(d)'
        BY <4>1 DEF IInv, TypeOK, OnPath
      <4>3. \A d \in Calls : LocksAdmins(d)'
        BY <4>1, <3>0 DEF IInv, TypeOK, LocksAdmins
      <4> QED BY <4>2, <4>3
    <3>4. \A d, e \in Calls : d # e => Apart(d, e)'
      BY <2>2 DEF IInv, TypeOK, Apart, session, GoTo
    <3> QED BY <3>1, <3>2, <3>3, <3>4 DEF IInv
  <2> QED BY <1>3, <2>1, <2>2 DEF CheckLastAdmin
<1> QED BY <1>1, <1>2, <1>3 DEF Scan

\* The row deleted is there, and neither locked nor written by another call.
LEMMA DeleteKeeps ==
  ASSUME IInv, NEW c \in Calls, DeleteRole(c)
  PROVE  IInv'
<1>1. CASE Finish(c, "not found")
  BY <1>1, FinishKeeps DEF DeleteRole, Answers
<1>2. CASE /\ call[c].row \in held /\ ~Busy(c, call[c].row)
           /\ wrote' = [wrote EXCEPT ![c] = TRUE]
           /\ GoTo(c, "commit")
           /\ UNCHANGED <<call, want, locked>>
  <2>0. pc[c] = "delete" /\ call[c].op = "revoke" /\ UNCHANGED <<held, audit>>
    BY DEF IInv, OnPath, DeleteRole
  <2>1. TypeOK'
    BY <1>2, <2>0 DEF IInv, TypeOK, GoTo, Steps
  <2>2. AdminRemains'
    BY <2>0 DEF IInv, AdminRemains
  <2>3. \A d \in Calls : OnPath(d)' /\ LocksAdmins(d)'
    BY <1>2, <2>0 DEF IInv, TypeOK, OnPath, LocksAdmins, GoTo
  <2>4. \A d, e \in Calls : d # e => Apart(d, e)'
    BY <1>2, <2>0 DEF IInv, TypeOK, Apart, Busy
  <2> QED BY <2>1, <2>2, <2>3, <2>4 DEF IInv
<1> QED BY <1>1, <1>2 DEF DeleteRole

\* The administrator whose row the call has locked besides is still there.
LEMMA CommitRevokeKeeps ==
  ASSUME IInv, NEW c \in Calls, CommitRevoke(c)
  PROVE  IInv'
<1>0. /\ call[c] \in Call /\ call[c].row \in Rows /\ call[c].op = "revoke"
      /\ wrote[c] = TRUE /\ call[c].row \in held /\ UNCHANGED call
  BY CallTyped DEF IInv, OnPath, CommitRevoke
<1>1. TypeOK'
  <2>1. audit' \in Seq(Call)
    BY <1>0 DEF IInv, TypeOK, CommitRevoke
  <2>2. held' \subseteq Rows
    BY <1>0 DEF IInv, TypeOK, CommitRevoke
  <2>3. want' \in [Calls -> SUBSET Rows]
    BY DEF IInv, TypeOK, CommitRevoke
  <2> QED BY <2>1, <2>2, <2>3, <1>0 DEF IInv, TypeOK, CommitRevoke, Steps, Answers
<1>2. AdminRemains'
  <2>1. CASE call[c].row[2] = Admin
    <3>1. PICK row \in locked[c] : row # call[c].row
      BY <1>0, <2>1 DEF IInv, LocksAdmins, CommitRevoke
    <3>2. row \in held' /\ row \in Rows /\ row[2] = Admin
      BY <3>1 DEF IInv, TypeOK, LocksAdmins, CommitRevoke
    <3> QED BY <3>2 DEF AdminRemains, Rows
  <2>2. CASE call[c].row[2] # Admin
    BY <2>2 DEF IInv, AdminRemains, CommitRevoke
  <2> QED BY <2>1, <2>2
<1>3. \A d \in Calls : OnPath(d)' /\ LocksAdmins(d)'
  <2> SUFFICES ASSUME NEW d \in Calls PROVE OnPath(d)' /\ LocksAdmins(d)'
    OBVIOUS
  <2>1. CASE d = c
    BY <2>1 DEF IInv, TypeOK, OnPath, LocksAdmins, CommitRevoke
  <2>2. CASE d # c
    <3>1. Apart(d, c)
      BY <2>2 DEF IInv
    <3>2. /\ pc'[d] = pc[d] /\ wrote'[d] = wrote[d] /\ call'[d] = call[d]
          /\ locked'[d] = locked[d] /\ want'[d] = want[d] \ {call[c].row}
          /\ held' = held \ {call[c].row}
      BY <2>2 DEF IInv, TypeOK, CommitRevoke
    <3>3. OnPath(d) /\ LocksAdmins(d)
      BY DEF IInv
    <3>4. OnPath(d)'
      BY <1>0, <3>1, <3>2, <3>3 DEF OnPath, Apart
    <3>5. LocksAdmins(d)'
      BY <1>0, <3>1, <3>2, <3>3 DEF LocksAdmins, Apart
    <3> QED BY <3>4, <3>5
  <2> QED BY <2>1, <2>2
<1>4. \A d, e \in Calls : d # e => Apart(d, e)'
  BY DEF IInv, TypeOK, Apart, CommitRevoke
<1> QED BY <1>1, <1>2, <1>3, <1>4 DEF IInv

\* The locks keep administrators and calls apart whatever happens.
THEOREM RolesIInv == Spec => []IInv
<1>1. IInv /\ [Next]_vars => IInv'
  <2> SUFFICES ASSUME IInv, [Next]_vars PROVE IInv'
    OBVIOUS
  <2>1. CASE \E c \in Calls, op \in {"assign", "revoke"}, actor \in Users, row \in Rows :
               Authorize(c, op, actor, row)
    BY <2>1, AuthorizeKeeps
  <2>2. CASE \E c \in Calls : Advance(c)
    BY <2>2, InsertKeeps, CommitAssignKeeps, ScanKeeps, DeleteKeeps, CommitRevokeKeeps
    DEF Advance
  <2>3. CASE \E c \in Calls : DeadlockVictim(c)
    <3>1. PICK c \in Calls : DeadlockVictim(c)
      BY <2>3
    <3>2. pc[c] \notin {"start", "done"}
      BY <3>1 DEF DeadlockVictim, Stuck, Awaited
    <3> QED BY <3>1, <3>2, FinishKeeps DEF DeadlockVictim, Answers
  <2>4. CASE \E c \in Calls : Abort(c)
    BY <2>4, FinishKeeps DEF Abort, Answers
  <2>5. CASE UNCHANGED vars
    <3>1. TypeOK' /\ AdminRemains'
      BY <2>5 DEF vars, IInv, TypeOK, AdminRemains
    <3>2. \A c \in Calls : OnPath(c)' /\ LocksAdmins(c)'
      BY <2>5 DEF vars, IInv, OnPath, LocksAdmins
    <3>3. \A c, d \in Calls : c # d => Apart(c, d)'
      BY <2>5 DEF vars, IInv, Apart
    <3> QED BY <3>1, <3>2, <3>3 DEF IInv
  <2> QED BY <2>1, <2>2, <2>3, <2>4, <2>5 DEF Next, AllDone
<1> QED BY <1>1, InitIInv, PTL DEF Spec

\* Every step keeps the variables in their types.
THEOREM RolesType == Spec => []TypeOK
<1>1. IInv => TypeOK
  BY DEF IInv
<1> QED BY <1>1, RolesIInv, PTL

\* Somebody can administer the system, whoever is revoked at once.
THEOREM RolesAdmin == Spec => []AdminRemains
<1>1. IInv => AdminRemains
  BY DEF IInv
<1> QED BY <1>1, RolesIInv, PTL

-----------------------------------------------------------------------------
(* The calls implement the table. *)

\* The role is there, or a revocation on record has taken it.
Once(row) ==
  \/ row \in held
  \/ \E k \in 1..Len(audit) : audit[k].op = "revoke" /\ audit[k].row = row

\* What a call under way has found: its actor was an administrator, its revocation is
\* not of his own role of one, and the role it left alone was there.
Grounded(c) ==
  /\ pc[c] \notin {"start", "done"} =>
       /\ Once(<<call[c].actor, Admin>>)
       /\ call[c].op = "revoke" => call[c].row # <<call[c].actor, Admin>>
  /\ pc[c] = "commit" /\ call[c].op = "assign" /\ wrote[c] = FALSE => Once(call[c].row)

\* Only a commit changes the roles or the log.
LEMMA TableSteps ==
  [Next]_vars => \/ UNCHANGED <<held, audit>>
                 \/ \E c \in Calls : CommitAssign(c) \/ CommitRevoke(c)
BY DEF Next, Advance, Authorize, InsertRole, Scan, FindAdmins, LockAdmin, CheckLastAdmin,
       DeleteRole, DeadlockVictim, Abort, AllDone, vars

\* An entry more leaves the others where they were.
LEMMA EntryAdded ==
  ASSUME NEW s \in Seq(Call), NEW e \in Call
  PROVE  /\ Len(Append(s, e)) = Len(s) + 1 /\ Len(s) \in Nat
         /\ \A k \in 1..Len(s) : Append(s, e)[k] = s[k]
         /\ Append(s, e)[Len(s) + 1] = e
OBVIOUS

\* A role that was held once has been held once ever after.
LEMMA OnceStays ==
  ASSUME IInv, [Next]_vars, NEW row, Once(row)
  PROVE  Once(row)'
<1>1. CASE UNCHANGED <<held, audit>>
  BY <1>1 DEF Once
<1>2. ASSUME NEW c \in Calls, CommitAssign(c) \/ CommitRevoke(c) PROVE Once(row)'
  <2>1. call[c] \in Call /\ audit \in Seq(Call)
    BY <1>2, CallTyped DEF IInv, TypeOK, CommitAssign, CommitRevoke
  <2>2. audit' = Append(audit, call[c])
    BY <1>2 DEF CommitAssign, CommitRevoke
  <2>3. /\ Len(audit') = Len(audit) + 1 /\ Len(audit) \in Nat
        /\ \A k \in 1..Len(audit) : audit'[k] = audit[k]
        /\ audit'[Len(audit) + 1] = call[c]
    BY <2>1, <2>2, EntryAdded
  <2>4. row \in held \ held' => call[c].op = "revoke" /\ call[c].row = row
    BY <1>2 DEF CommitAssign, CommitRevoke
  <2>5. CASE row \in held
    BY <2>3, <2>4, <2>5 DEF Once
  <2>6. CASE row \notin held
    <3>1. PICK k \in 1..Len(audit) : audit[k].op = "revoke" /\ audit[k].row = row
      BY <2>6 DEF Once
    <3>2. k \in 1..Len(audit') /\ audit'[k] = audit[k]
      BY <2>3
    <3> QED
      BY <3>1, <3>2 DEF Once
  <2> QED
    BY <2>5, <2>6
<1> QED
  BY <1>1, <1>2, TableSteps

\* A call that ends, whatever its outcome, has nothing to be grounded in.
LEMMA GroundsEnd ==
  ASSUME IInv, [Next]_vars, NEW c \in Calls, \A d \in Calls : Grounded(d),
         pc'[c] = "done", UNCHANGED call,
         \A d \in Calls \ {c} : pc'[d] = pc[d] /\ wrote'[d] = wrote[d]
  PROVE  \A d \in Calls : Grounded(d)'
BY OnceStays DEF Grounded

\* A call finds its grounds when it starts and when it inserts, and no later revocation
\* takes them from the record.
LEMMA GroundsKeep ==
  ASSUME IInv, [Next]_vars, \A d \in Calls : Grounded(d)
  PROVE  \A d \in Calls : Grounded(d)'
<1> DEFINE Kept == \A d \in Calls : Grounded(d)'
<1>1. TypeOK
  BY DEF IInv
<1>2. ASSUME NEW c \in Calls, NEW outcome, Finish(c, outcome) PROVE Kept
  <2>1. pc'[c] = "done" /\ call' = call
        /\ \A d \in Calls \ {c} : pc'[d] = pc[d] /\ wrote'[d] = wrote[d]
    BY <1>1, <1>2 DEF Finish, TypeOK
  <2> QED
    BY <2>1, GroundsEnd
<1>3. ASSUME NEW c \in Calls, NEW op \in {"assign", "revoke"}, NEW actor \in Users,
             NEW row \in Rows, Authorize(c, op, actor, row)
      PROVE  Kept
  <2>1. /\ pc[c] = "start" /\ pc'[c] # "commit"
        /\ call'[c].actor = actor /\ call'[c].op = op /\ call'[c].row = row
    BY <1>1, <1>3 DEF Authorize, GoTo, TypeOK
  <2>2. Once(<<actor, Admin>>)'
    BY <1>3 DEF Authorize, Once
  <2>3. op = "revoke" => row # <<actor, Admin>>
    BY <1>3 DEF Authorize
  <2>4. Grounded(c)'
    BY <2>1, <2>2, <2>3 DEF Grounded
  <2>5. \A d \in Calls \ {c} : pc'[d] = pc[d] /\ call'[d] = call[d] /\ wrote'[d] = wrote[d]
    BY <1>1, <1>3 DEF Authorize, GoTo, TypeOK
  <2> QED
    BY <2>4, <2>5, OnceStays DEF Grounded
<1>4. ASSUME NEW c \in Calls, InsertRole(c) PROVE Kept
  <2>1. /\ pc[c] = "insert" /\ call' = call
        /\ wrote'[c] = (call[c].row \notin held) /\ held' = held
        /\ \A d \in Calls \ {c} : pc'[d] = pc[d] /\ wrote'[d] = wrote[d]
    BY <1>1, <1>4 DEF InsertRole, GoTo, TypeOK
  <2>2. wrote'[c] = FALSE => Once(call[c].row)'
    BY <2>1 DEF Once
  <2> QED
    BY <2>1, <2>2, OnceStays DEF Grounded
<1>5. ASSUME NEW c \in Calls, Scan(c) PROVE Kept
  <2>1. CASE CheckLastAdmin(c) /\ Finish(c, "last admin")
    BY <1>2, <2>1
  <2>2. CASE CheckLastAdmin(c) /\ GoTo(c, "delete") /\ UNCHANGED session
    <3>1. /\ pc[c] = "scan" /\ pc'[c] = "delete" /\ call' = call /\ wrote' = wrote
          /\ \A d \in Calls \ {c} : pc'[d] = pc[d]
      BY <1>1, <2>2 DEF CheckLastAdmin, GoTo, TypeOK, session
    <3> QED
      BY <3>1, OnceStays DEF Grounded
  <2>3. CASE FindAdmins(c) \/ \E row \in Rows : LockAdmin(c, row)
    <3>1. /\ pc[c] \in {"lock", "scan"} /\ pc'[c] = "scan" /\ call' = call /\ wrote' = wrote
          /\ \A d \in Calls \ {c} : pc'[d] = pc[d]
      BY <1>1, <2>3 DEF FindAdmins, LockAdmin, GoTo, TypeOK
    <3> QED
      BY <3>1, OnceStays DEF Grounded
  <2> QED
    BY <1>5, <2>1, <2>2, <2>3 DEF Scan, CheckLastAdmin
<1>6. ASSUME NEW c \in Calls, DeleteRole(c) PROVE Kept
  <2>1. CASE Finish(c, "not found")
    BY <1>2, <2>1
  <2>2. CASE GoTo(c, "commit") /\ wrote' = [wrote EXCEPT ![c] = TRUE] /\ UNCHANGED call
    <3>1. /\ pc[c] = "delete" /\ pc'[c] = "commit" /\ wrote'[c] = TRUE
          /\ \A d \in Calls \ {c} : pc'[d] = pc[d] /\ wrote'[d] = wrote[d]
      BY <1>1, <1>6, <2>2 DEF DeleteRole, GoTo, TypeOK
    <3> QED
      BY <2>2, <3>1, OnceStays DEF Grounded
  <2> QED
    BY <1>6, <2>1, <2>2 DEF DeleteRole
<1>7. ASSUME NEW c \in Calls, CommitRevoke(c) PROVE Kept
  <2>1. pc'[c] = "done" /\ call' = call
        /\ \A d \in Calls \ {c} : pc'[d] = pc[d] /\ wrote'[d] = wrote[d]
    BY <1>1, <1>7 DEF CommitRevoke, TypeOK
  <2> QED
    BY <2>1, GroundsEnd
<1>8. CASE UNCHANGED vars
  <2>1. UNCHANGED <<pc, call, wrote>>
    BY <1>8 DEF vars
  <2> QED
    BY <2>1, OnceStays DEF Grounded
<1> QED
  BY <1>2, <1>3, <1>4, <1>5, <1>6, <1>7, <1>8
  DEF Next, Advance, CommitAssign, DeadlockVictim, Abort, AllDone

\* A call under way rests on what was true when it looked, and the record still says so.
THEOREM RolesGrounded == Spec => [](\A c \in Calls : Grounded(c))
<1>1. Init => \A c \in Calls : Grounded(c)
  BY DEF Init, Grounded
<1>2. IInv /\ [Next]_vars /\ (\A c \in Calls : Grounded(c)) => (\A c \in Calls : Grounded(c))'
  BY GroundsKeep
<1> QED
  BY <1>1, <1>2, RolesIInv, PTL DEF Spec

\* The entry the table writes for a call is the call.
LEMMA EntryIsCall ==
  ASSUME NEW e \in Call
  PROVE  /\ e = [op |-> e.op, actor |-> e.actor, row |-> e.row]
         /\ e.actor \in Users /\ e.row \in Users \X Names /\ e.row \in Rows
BY DEF Call, Rows

\* The calls implement the table, for any number of calls, users and names: an
\* assignment and a revocation take effect, with their entries, at their commits.
THEOREM TableImplemented == Spec => ImplementsTable
<1>1. Init => Table!Init
  BY DEF Init, AdminRows, Rows, Table!Init
<1>2. IInv /\ (\A c \in Calls : Grounded(c)) /\ [Next]_vars
        => [Table!Next]_(Table!tableVars)
  <2> SUFFICES ASSUME IInv, \A c \in Calls : Grounded(c), [Next]_vars
               PROVE  [Table!Next]_(Table!tableVars)
    OBVIOUS
  <2>1. CASE UNCHANGED <<held, audit>>
    BY <2>1 DEF Table!tableVars
  <2>2. ASSUME NEW c \in Calls, CommitAssign(c) PROVE Table!Next
    <3> DEFINE actor == call[c].actor
               row == call[c].row
    <3>1. /\ call[c] \in Call /\ call[c].op = "assign" /\ pc[c] = "commit"
          /\ wrote[c] \in BOOLEAN
      BY <2>2, CallTyped DEF IInv, TypeOK, CommitAssign
    <3>2. /\ call[c] = [op |-> "assign", actor |-> actor, row |-> row]
          /\ actor \in Users /\ row \in Users \X Names
      BY <3>1, EntryIsCall
    <3>3. Once(<<actor, Admin>>) /\ (wrote[c] = FALSE => Once(row))
      BY <3>1 DEF Grounded
    <3>4. Table!Log("assign", actor, row)
      BY <2>2, <3>2, <3>3 DEF CommitAssign, Once, Table!Log, Table!HeldOnce
    <3>5. CASE wrote[c] = TRUE
      <4>1. row \notin held
        BY <3>1, <3>5 DEF IInv, OnPath
      <4>2. Table!Assign(actor, row)
        BY <2>2, <3>4, <3>5, <4>1 DEF CommitAssign, Table!Assign
      <4> QED
        BY <3>2, <4>2 DEF Table!Next
    <3>6. CASE wrote[c] = FALSE
      <4>1. Table!AssignAgain(actor, row)
        BY <2>2, <3>3, <3>4, <3>6 DEF CommitAssign, Once, Table!AssignAgain, Table!HeldOnce
      <4> QED
        BY <3>2, <4>1 DEF Table!Next
    <3> QED
      BY <3>1, <3>5, <3>6
  <2>3. ASSUME NEW c \in Calls, CommitRevoke(c) PROVE Table!Next
    <3> DEFINE actor == call[c].actor
               row == call[c].row
    <3>1. call[c] \in Call /\ call[c].op = "revoke" /\ pc[c] = "commit"
      BY <2>3, CallTyped DEF IInv, TypeOK, CommitRevoke
    <3>2. /\ call[c] = [op |-> "revoke", actor |-> actor, row |-> row]
          /\ actor \in Users /\ row \in Users \X Names
      BY <3>1, EntryIsCall
    <3>3. Once(<<actor, Admin>>) /\ row # <<actor, Admin>>
      BY <3>1 DEF Grounded
    <3>4. row \in held
      BY <3>1 DEF IInv, OnPath
    <3>5. row[2] = Admin => \E other \in held \ {row} : other[2] = Admin
      BY <3>1 DEF IInv, LocksAdmins
    <3>6. Table!Log("revoke", actor, row)
      BY <2>3, <3>2, <3>3 DEF CommitRevoke, Once, Table!Log, Table!HeldOnce
    <3>7. Table!Revoke(actor, row)
      BY <2>3, <3>3, <3>4, <3>5, <3>6 DEF CommitRevoke, Table!Revoke
    <3> QED
      BY <3>2, <3>7 DEF Table!Next
  <2> QED
    BY <2>1, <2>2, <2>3, TableSteps
<1> QED
  BY <1>1, <1>2, RolesIInv, RolesGrounded, PTL DEF Spec, ImplementsTable, Table!Spec
===============================================================================
