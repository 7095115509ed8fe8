------------------------------ MODULE RoleTable ------------------------------
(***************************************************************************)
(* What the administration of roles promises, with requests, locks and     *)
(* deadlocks left out: a role comes and goes in one step with its audit    *)
(* entry, nobody takes his own role of administrator, and the last one     *)
(* keeps it.  Whoever acts has, or had when he asked, that role.  Roles    *)
(* implements this table.                                                  *)
(***************************************************************************)
EXTENDS Naturals, Sequences

CONSTANTS
  Users,
  Names,  \* names of roles
  Admin   \* the role of administrator

VARIABLES
  held,   \* the roles, pairs of a user and a name
  audit   \* the entries on record

tableVars == <<held, audit>>

Init ==
  /\ held \in SUBSET (Users \X Names)
  /\ \E u \in Users : <<u, Admin>> \in held
  /\ audit = <<>>

\* The role is there, or a revocation on record has taken it.
HeldOnce(row) ==
  \/ row \in held
  \/ \E k \in 1..Len(audit) : audit[k].op = "revoke" /\ audit[k].row = row

Log(op, actor, row) ==
  /\ HeldOnce(<<actor, Admin>>)
  /\ audit' = Append(audit, [op |-> op, actor |-> actor, row |-> row])

Assign(actor, row) ==
  /\ row \notin held
  /\ held' = held \cup {row}
  /\ Log("assign", actor, row)

\* An assignment that found the role gives nothing, even when a revocation has taken
\* the role before the assignment is on record.
AssignAgain(actor, row) ==
  /\ HeldOnce(row)
  /\ UNCHANGED held
  /\ Log("assign", actor, row)

Revoke(actor, row) ==
  /\ row \in held
  /\ row # <<actor, Admin>>
  /\ row[2] = Admin => \E other \in held \ {row} : other[2] = Admin
  /\ held' = held \ {row}
  /\ Log("revoke", actor, row)

Next ==
  \E actor \in Users, row \in Users \X Names :
    Assign(actor, row) \/ AssignAgain(actor, row) \/ Revoke(actor, row)

Spec == Init /\ [][Next]_tableVars
===============================================================================
