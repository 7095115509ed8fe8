------------------------------ MODULE Sessions ------------------------------
(***************************************************************************)
(* Who a request is: internal/auth, its store in Redis and the two         *)
(* interceptors every procedure passes, the session's and the policy's.    *)
(*                                                                         *)
(* A session lives SessionTTL ticks after its last use and a reset token   *)
(* ResetTTL ticks after it was asked for; both are keys of Redis, whose    *)
(* commands are atomic.  Roles are rows of PostgreSQL, read anew for each  *)
(* request.  Identifiers are random and never minted twice; passwords are  *)
(* known by the token that set them.  A request keeps what it has read     *)
(* until it ends, and may fail at any statement.                           *)
(***************************************************************************)
EXTENDS Naturals

CONSTANTS
  Requests,    \* requests in flight, over all replicas
  Users,
  Sids,        \* session identifiers
  Tokens,      \* password-reset tokens
  SessionTTL,
  ResetTTL,
  None

ASSUME SessionsAssumption ==
  /\ SessionTTL \in Nat \ {0} /\ ResetTTL \in Nat \ {0}
  /\ None \notin Users \cup Sids \cup Tokens
  /\ Sids \cap Tokens = {}

VARIABLES
  session,  \* owner of each sid, and the ticks it has left; 0 is no key
  reset,    \* the same of each reset token
  spent,    \* tokens that have set a password
  role,     \* role of each user
  step,     \* next statement of each request
  user,     \* the user it found out it serves
  key       \* the sid or token it came with

store    == <<session, reset, spent>>
identity == <<user, key>>

Roles == {"student", "teacher", "admin"}

\* reports.read and catalog.manage, as the seeds grant them.
Reads(u) == role[u] \in {"teacher", "admin"}
Admin(u) == role[u] = "admin"

Entry(TTL) == [owner : Users \cup {None}, left : 0 .. TTL]

LiveSession(s) == session[s].left > 0

StartSessions ==
  /\ session = [s \in Sids |-> [owner |-> None, left |-> 0]]
  /\ reset = [t \in Tokens |-> [owner |-> None, left |-> 0]]
  /\ spent = {}
  /\ role = [u \in Users |-> "student"]
  /\ step = [r \in Requests |-> "idle"]
  /\ user = [r \in Requests |-> None]
  /\ key = [r \in Requests |-> None]

GoTo(r, next) == step' = [step EXCEPT ![r] = next]

\* Mutant: what the request knew is left to the next.
EndDirty(r) == GoTo(r, "idle") /\ UNCHANGED identity

\* The handler returns and its context is dropped.
End(r) ==
  /\ GoTo(r, "idle")
  /\ user' = [user EXCEPT ![r] = None]
  /\ key' = [key EXCEPT ![r] = None]
-----------------------------------------------------------------------------
(* The public procedures. *)

\* Login: the row is read and the password compared.
Login(r, u) ==
  /\ step[r] = "idle"
  /\ GoTo(r, "create")
  /\ user' = [user EXCEPT ![r] = u]
  /\ UNCHANGED <<store, role, key>>

\* SET session:<sid> with the TTL.
CreateSession(r) ==
  /\ step[r] = "create"
  /\ \E s \in Sids :
       /\ session[s].owner = None
       /\ session' = [session EXCEPT ![s] = [owner |-> user[r], left |-> SessionTTL]]
  /\ End(r)
  /\ UNCHANGED <<reset, spent, role>>

RequestPasswordReset(u, t) ==
  /\ reset[t].owner = None
  /\ reset' = [reset EXCEPT ![t] = [owner |-> u, left |-> ResetTTL]]
  /\ UNCHANGED <<session, spent, role, step, identity>>

\* Mutant: GET instead of GETDEL.
GetReset(t) == UNCHANGED reset

GetDelReset(t) == reset' = [reset EXCEPT ![t].left = 0]

\* The token is gone before the password is hashed and stored.
ConfirmPasswordReset(r, t) ==
  /\ step[r] = "idle"
  /\ reset[t].left > 0
  /\ GetDelReset(t)
  /\ GoTo(r, "hash")
  /\ user' = [user EXCEPT ![r] = reset[t].owner]
  /\ key' = [key EXCEPT ![r] = t]
  /\ UNCHANGED <<session, spent, role>>

\* The sessions of the user are left as they are.
UpdatePasswordHash(r) ==
  /\ step[r] = "hash"
  /\ spent' = spent \cup {key[r]}
  /\ End(r)
  /\ UNCHANGED <<session, reset, role>>
-----------------------------------------------------------------------------
(* The interceptors. *)

\* A procedure that is not public is called with a cookie.
Call(r, s) ==
  /\ step[r] = "idle"
  /\ GoTo(r, "touch")
  /\ key' = [key EXCEPT ![r] = s]
  /\ UNCHANGED <<store, role, user>>

\* GETEX finds the session and renews it.
Touch(r) ==
  /\ step[r] = "touch"
  /\ LiveSession(key[r])
  /\ session' = [session EXCEPT ![key[r]].left = SessionTTL]
  /\ GoTo(r, "load")
  /\ user' = [user EXCEPT ![r] = session[key[r]].owner]
  /\ UNCHANGED <<reset, spent, role, key>>

\* GETEX finds nothing.
Refuse(r) ==
  /\ step[r] = "touch"
  /\ ~LiveSession(key[r])
  /\ End(r)
  /\ UNCHANGED <<store, role>>

\* Logout is exempt from any policy: DEL, whoever has the session.
Logout(r) ==
  /\ step[r] = "load"
  /\ session' = [session EXCEPT ![key[r]].left = 0]
  /\ End(r)
  /\ UNCHANGED <<reset, spent, role>>

\* AssignRole, RevokeRole.
SetRole(u, new) ==
  /\ role[u] # new
  /\ role' = [role EXCEPT ![u] = new]
  /\ UNCHANGED <<store, step, identity>>

\* Redis or PostgreSQL fails, or the client goes away.
Fail(r) ==
  /\ step[r] # "idle"
  /\ End(r)
  /\ UNCHANGED <<store, role>>

\* Time passes for the keys of Redis.
Aged(entries) == [k \in DOMAIN entries |->
  IF entries[k].left = 0 THEN entries[k] ELSE [entries[k] EXCEPT !.left = @ - 1]]

Expire ==
  /\ session' = Aged(session)
  /\ reset' = Aged(reset)
  /\ UNCHANGED <<spent, role, step, identity>>

SessionSteps ==
  \/ \E r \in Requests :
       \/ \E u \in Users : Login(r, u)
       \/ CreateSession(r)
       \/ \E t \in Tokens : ConfirmPasswordReset(r, t)
       \/ UpdatePasswordHash(r)
       \/ Touch(r)
  \/ \E u \in Users, t \in Tokens : RequestPasswordReset(u, t)
  \/ \E u \in Users, new \in Roles : SetRole(u, new)
-----------------------------------------------------------------------------
(* Properties. *)

\* A reset token sets one password: once it is in somebody's hands it is gone from
\* Redis, no other request has it and it has not been used, and one that has been
\* used is in nobody's hands.
TokenSpent ==
  /\ \A r \in Requests : step[r] = "hash" =>
       /\ reset[key[r]].left = 0
       /\ key[r] \notin spent
       /\ \A q \in Requests \ {r} : step[q] = "hash" => key[q] # key[r]
  /\ \A t \in spent : reset[t].left = 0
=============================================================================
