------------------------------- MODULE Reports -------------------------------
(***************************************************************************)
(* The reports: internal/reports behind the interceptors of Sessions.      *)
(*                                                                         *)
(* A report is built by a query and kept in Redis under one key for all    *)
(* its readers, ReportTTL ticks long.  Whether the caller may have it is   *)
(* decided before the cache is looked up.  What a report says is reduced   *)
(* to its age, the ticks since its query ran.                              *)
(***************************************************************************)
EXTENDS Sessions

CONSTANTS
  Actas,      \* grade reports of sections, which their teachers may have too
  Summaries,  \* occupancy, program and student reports, for administrators
  ReportTTL,
  MaxBuild    \* bound: ticks a request takes from its query to its answer

ASSUME ReportsAssumption ==
  /\ ReportTTL \in Nat \ {0} /\ MaxBuild \in Nat
  /\ None \notin Actas \cup Summaries
  /\ Actas \cap Summaries = {}

VARIABLES
  teaches,  \* rows of section_teachers, by report of the section
  cache,    \* age of each report in Redis, and the ticks it has left; 0 is no key
  asked,    \* report each request asks for
  asAdmin,  \* callerIsAdmin, from the permissions it loaded
  age,      \* age of what it answers with
  seen      \* history: which of its needs have been met since it began

served == <<asked, asAdmin, age>>
vars == <<store, role, step, identity, teaches, cache, served, seen>>

Reportable == Actas \cup Summaries
MaxAge == ReportTTL + MaxBuild
Needs == {"session", "permission", "scope"}

\* Handler steps that have read the report.
Holding == {"set", "reply"}

TypeOK ==
  /\ session \in [Sids -> Entry(SessionTTL)]
  /\ reset \in [Tokens -> Entry(ResetTTL)]
  /\ spent \subseteq Tokens
  /\ role \in [Users -> Roles]
  /\ step \in [Requests -> {"idle", "create", "hash", "touch", "load", "guard", "get",
                            "exists", "query"} \cup Holding]
  /\ user \in [Requests -> Users \cup {None}]
  /\ key \in [Requests -> Sids \cup Tokens \cup {None}]
  /\ \A r \in Requests : step[r] = "idle" => user[r] = None /\ key[r] = None
  /\ teaches \subseteq Users \X Actas
  /\ cache \in [Reportable -> [age : 0 .. MaxAge, left : 0 .. ReportTTL]]
  /\ asked \in [Requests -> Reportable \cup {None}]
  /\ asAdmin \in [Requests -> BOOLEAN]
  /\ age \in [Requests -> 0 .. MaxAge]
  /\ seen \in [Requests -> SUBSET Needs]

Init ==
  /\ StartSessions
  /\ teaches = {}
  /\ cache = [k \in Reportable |-> [age |-> 0, left |-> 0]]
  /\ asked = [r \in Requests |-> None]
  /\ asAdmin = [r \in Requests |-> FALSE]
  /\ age = [r \in Requests |-> 0]
  /\ seen = [r \in Requests |-> {}]

Forget(r) ==
  /\ asked' = [asked EXCEPT ![r] = None]
  /\ asAdmin' = [asAdmin EXCEPT ![r] = FALSE]
  /\ age' = [age EXCEPT ![r] = 0]

\* A request that was answered or refused.
Return(r) == End(r) /\ Forget(r)
------------------------------------------------------------------------------
(* The four procedures, from the end of the interceptors. *)

Ask(r, s, k) ==
  /\ Call(r, s)
  /\ asked' = [asked EXCEPT ![r] = k]
  /\ UNCHANGED <<teaches, cache, asAdmin, age>>

\* PostgresRoleLoader.Load, then the policy of all four: reports.read.  The
\* permissions are the request's from here on.
Load(r) ==
  /\ step[r] = "load" /\ asked[r] # None
  /\ \/ /\ Reads(user[r])
        /\ asAdmin' = [asAdmin EXCEPT ![r] = Admin(user[r])]
        /\ GoTo(r, "guard")
        /\ UNCHANGED <<identity, asked, age>>
     \/ ~Reads(user[r]) /\ Return(r)
  /\ UNCHANGED <<store, role, teaches, cache>>

\* Mutant: the cache is looked up before membership.
AnyReader(r) == TRUE

\* Administrators may have any report, the teachers of a section its acta.
MayRead(r) == asAdmin[r] \/ <<user[r], asked[r]>> \in teaches

\* callerIsAdmin, IsTeacherForSection: before any access to the cache.
Guard(r) ==
  /\ step[r] = "guard"
  /\ \/ MayRead(r) /\ GoTo(r, "get") /\ UNCHANGED <<identity, served>>
     \/ ~MayRead(r) /\ Return(r)
  /\ UNCHANGED <<store, role, teaches, cache>>

\* Mutant: the look-up renews what it finds, as that of a session does.
Renews(k) == cache' = [cache EXCEPT ![k].left = IF @ = 0 THEN 0 ELSE ReportTTL]

Keeps(k) == UNCHANGED cache

\* cacheGet: an answer, or a miss.  An error of Redis is a miss too.
CacheGet(r) ==
  /\ step[r] = "get"
  /\ \/ /\ cache[asked[r]].left > 0
        /\ Keeps(asked[r])
        /\ age' = [age EXCEPT ![r] = cache[asked[r]].age]
        /\ GoTo(r, "reply")
     \/ /\ GoTo(r, IF asAdmin[r] THEN "exists" ELSE "query")
        /\ UNCHANGED <<cache, age>>
  /\ UNCHANGED <<store, role, identity, teaches, asked, asAdmin>>

\* SectionExists, PeriodExists, ProgramExists, StudentExists.
Exists(r) ==
  /\ step[r] = "exists"
  /\ \/ GoTo(r, "query") /\ UNCHANGED <<identity, served>>
     \/ Return(r)
  /\ UNCHANGED <<store, role, teaches, cache>>

\* ActaForSectionAdmin, ActaForSectionByTeacher, OccupancyForPeriod,
\* ProgramSummary, FichaForStudent.
Query(r) ==
  /\ step[r] = "query"
  /\ age' = [age EXCEPT ![r] = 0]
  /\ GoTo(r, "set")
  /\ UNCHANGED <<store, role, identity, teaches, cache, asked, asAdmin>>

\* cacheSet, whose errors are swallowed.
CacheSet(r) ==
  /\ step[r] = "set"
  /\ \/ cache' = [cache EXCEPT ![asked[r]] = [age |-> age[r], left |-> ReportTTL]]
     \/ UNCHANGED cache
  /\ GoTo(r, "reply")
  /\ UNCHANGED <<store, role, identity, teaches, served>>

Reply(r) ==
  /\ step[r] = "reply"
  /\ Return(r)
  /\ UNCHANGED <<store, role, teaches, cache>>

Handle(r) ==
  \/ Load(r) \/ Guard(r) \/ CacheGet(r) \/ Exists(r) \/ Query(r) \/ CacheSet(r) \/ Reply(r)
------------------------------------------------------------------------------
(* The rest of the system. *)

AssignTeacher(u, k) ==
  /\ <<u, k>> \notin teaches
  /\ teaches' = teaches \cup {<<u, k>>}
  /\ UNCHANGED <<store, role, step, identity, cache, served>>

RemoveTeacher(u, k) ==
  /\ <<u, k>> \in teaches
  /\ teaches' = teaches \ {<<u, k>>}
  /\ UNCHANGED <<store, role, step, identity, cache, served>>

Tick ==
  /\ Expire
  /\ \A r \in Requests : step[r] = "set" => age[r] < MaxBuild
  /\ cache' = [k \in Reportable |->
       IF cache[k].left <= 1 THEN [age |-> 0, left |-> 0]
       ELSE [age |-> cache[k].age + 1, left |-> cache[k].left - 1]]
  /\ age' = [r \in Requests |-> IF step[r] = "set" THEN age[r] + 1 ELSE age[r]]
  /\ UNCHANGED <<teaches, asked, asAdmin>>

\* What a request needs and has right now.
Met(r) ==
  (IF key[r] \in Sids /\ LiveSession(key[r]) THEN {"session"} ELSE {})
  \cup (IF user[r] # None /\ Reads(user[r]) THEN {"permission"} ELSE {})
  \cup (IF user[r] # None /\ (Admin(user[r]) \/ <<user[r], asked[r]>> \in teaches)
          THEN {"scope"} ELSE {})

\* Maintains the history.
Witness ==
  seen' = [r \in Requests |-> IF asked'[r] = None THEN {} ELSE seen[r] \cup Met(r)']

Next ==
  /\ \/ SessionSteps /\ UNCHANGED <<teaches, cache, served>>
     \/ \E r \in Requests :
          \/ \E s \in Sids : Call(r, s) /\ UNCHANGED <<teaches, cache, served>>
          \/ asked[r] = None /\ Logout(r) /\ UNCHANGED <<teaches, cache, served>>
          \/ (Refuse(r) \/ Fail(r)) /\ Forget(r) /\ UNCHANGED <<teaches, cache>>
          \/ \E s \in Sids, k \in Reportable : Ask(r, s, k)
          \/ Handle(r)
     \/ \E u \in Users, k \in Actas : AssignTeacher(u, k) \/ RemoveTeacher(u, k)
     \/ Tick
  /\ Witness

Spec == Init /\ [][Next]_vars
------------------------------------------------------------------------------
(* Properties. *)

\* Whoever is handed a report had, at some moment since the request began, a live
\* session, the permission, and the administrator's role or the section to teach;
\* that somebody else's answer was in the cache is not enough ("membership is
\* verified BEFORE the cache lookup").
ServedWhileEntitled == \A r \in Requests : step[r] = "reply" => seen[r] = Needs

\* A report is not older than the TTL of the cache, counted from the moment it was
\* stored: a look-up does not prolong it, and the request that stored it was not
\* older than MaxBuild.
BoundedStaleness ==
  \A r \in Requests : step[r] = "reply" => age[r] < ReportTTL + MaxBuild
==============================================================================
