---------------------------- MODULE ReportsProofs ----------------------------
(***************************************************************************)
(* For every number of requests, users, sessions and reports, and every    *)
(* time to live: a reset token sets one password, a report is handed out   *)
(* only by a request that has passed the three checks, and none is older   *)
(* than the cache may keep it.                                             *)
(***************************************************************************)
EXTENDS Reports, TLAPS

\* Steps of the four handlers.
Cleared == {"get", "exists", "query", "set", "reply"}
Handling == {"guard"} \cup Cleared

\* What a request holds at each step.
Placed(r) ==
  /\ step[r] \in {"idle", "create", "hash"} => asked[r] = None
  /\ step[r] \in Handling => asked[r] # None
  /\ step[r] \in {"touch", "load"} \cup Handling => key[r] \in Sids
  /\ step[r] \in {"create", "hash", "load"} \cup Handling => user[r] \in Users
  /\ step[r] = "hash" => key[r] \in Tokens

\* A live session is somebody's.
Owned == \A s \in Sids : session[s].left > 0 => session[s].owner \in Users

\* A token that has been handed out is never handed out again.
TokensOnce ==
  /\ \A t \in Tokens : reset[t].left > 0 => reset[t].owner # None /\ t \notin spent
  /\ \A t \in spent : reset[t].owner # None
  /\ \A r \in Requests : step[r] = "hash" => reset[key[r]].owner # None

\* What a request has been seen to have at each step.
Entitled(r) ==
  /\ step[r] = "load" /\ asked[r] # None => "session" \in seen[r]
  /\ step[r] = "guard" => /\ {"session", "permission"} \subseteq seen[r]
                          /\ asAdmin[r] = TRUE => "scope" \in seen[r]
  /\ step[r] \in Cleared => seen[r] = Needs

\* What is in the cache has as much time less to live as it is older.
Fresh ==
  /\ \A k \in Reportable : cache[k].age + cache[k].left <= MaxAge
  /\ \A r \in Requests : step[r] = "set" => age[r] <= MaxBuild

IInv ==
  /\ TypeOK /\ Owned /\ TokensOnce /\ TokenSpent /\ Fresh /\ BoundedStaleness
  /\ \A r \in Requests : Placed(r) /\ Entitled(r)

\* The requests other than r are where they were.
Alone(r) ==
  \A q \in Requests \ {r} :
    /\ step'[q] = step[q] /\ user'[q] = user[q] /\ key'[q] = key[q]
    /\ asked'[q] = asked[q] /\ asAdmin'[q] = asAdmin[q] /\ age'[q] = age[q]

\* What a request does by itself.
ByRequest(r) ==
  \/ /\ \/ \E u \in Users : Login(r, u)
        \/ CreateSession(r)
        \/ \E t \in Tokens : ConfirmPasswordReset(r, t)
        \/ UpdatePasswordHash(r)
        \/ Touch(r)
        \/ \E s \in Sids : Call(r, s)
        \/ asked[r] = None /\ Logout(r)
     /\ UNCHANGED <<teaches, cache, served>>
  \/ (Refuse(r) \/ Fail(r)) /\ Forget(r) /\ UNCHANGED <<teaches, cache>>
  \/ \E s \in Sids, k \in Reportable : Ask(r, s, k)
  \/ Handle(r)

\* What changes no request, but for the ages of the answers they build.
ByOthers ==
  \/ /\ \/ \E u \in Users, t \in Tokens : RequestPasswordReset(u, t)
        \/ \E u \in Users, new \in Roles : SetRole(u, new)
     /\ UNCHANGED <<teaches, cache, served>>
  \/ \E u \in Users, k \in Actas : AssignTeacher(u, k) \/ RemoveTeacher(u, k)
  \/ Tick

\* Every step is of one kind or the other.
LEMMA NextCases ==
  ASSUME Next
  PROVE  Witness /\ (ByOthers \/ \E r \in Requests : ByRequest(r))
BY DEF Next, SessionSteps, ByOthers, ByRequest

\* The fields of the entries of Redis.
LEMMA EntryFields ==
  ASSUME NEW TTL \in Nat, NEW e \in Entry(TTL)
  PROVE  /\ e.owner \in Users \cup {None} /\ e.left \in 0 .. TTL
         /\ \A l \in 0 .. TTL : [e EXCEPT !.left = l] \in Entry(TTL)
BY DEF Entry

\* Time takes a tick from an entry and leaves its owner.
LEMMA AgedEntry ==
  ASSUME NEW TTL \in Nat, NEW K, NEW entries \in [K -> Entry(TTL)]
  PROVE  /\ Aged(entries) \in [K -> Entry(TTL)]
         /\ \A k \in K : /\ Aged(entries)[k].owner = entries[k].owner
                         /\ Aged(entries)[k].left > 0 => entries[k].left > 0
                         /\ entries[k].left = 0 => Aged(entries)[k].left = 0
<1> SUFFICES ASSUME NEW k \in K
             PROVE  /\ Aged(entries)[k] \in Entry(TTL)
                    /\ Aged(entries)[k].owner = entries[k].owner
                    /\ Aged(entries)[k].left > 0 => entries[k].left > 0
                    /\ entries[k].left = 0 => Aged(entries)[k].left = 0
  BY DEF Aged
<1>1. entries[k] \in Entry(TTL)
  OBVIOUS
<1>2. Aged(entries)[k] = IF entries[k].left = 0 THEN entries[k]
                         ELSE [entries[k] EXCEPT !.left = @ - 1]
  BY DEF Aged
<1> QED BY <1>1, <1>2 DEF Entry

\* Nothing is in Redis and nobody has asked anything.
LEMMA InitIInv == Init => IInv
<1> SUFFICES ASSUME Init PROVE IInv
  OBVIOUS
<1>1. TypeOK
  BY ReportsAssumption, SessionsAssumption
  DEF Init, StartSessions, TypeOK, Entry, Roles, MaxAge
<1>2. Owned /\ TokensOnce /\ TokenSpent
  BY DEF Init, StartSessions, Owned, TokensOnce, TokenSpent
<1>3. Fresh /\ BoundedStaleness
  BY ReportsAssumption, SessionsAssumption DEF Init, StartSessions, Fresh, BoundedStaleness, MaxAge
<1>4. \A r \in Requests : Placed(r) /\ Entitled(r)
  BY DEF Init, StartSessions, Placed, Entitled, Handling, Cleared
<1> QED BY <1>1, <1>2, <1>3, <1>4 DEF IInv

\* A request moves alone.
LEMMA RequestAlone ==
  ASSUME TypeOK, NEW r \in Requests, ByRequest(r)
  PROVE  Alone(r)
<1> USE DEF Alone, TypeOK, GoTo, End
<1>1. CASE UNCHANGED served
  BY <1>1 DEF ByRequest, served, identity, Login, CreateSession, ConfirmPasswordReset,
     UpdatePasswordHash, Touch, Call, Logout, Refuse, Fail, Forget, Ask, Handle, Load, Guard,
     CacheGet, Exists, Query, CacheSet, Reply, Return
<1>2. CASE Handle(r)
  BY <1>2 DEF identity, served, Forget, Handle, Load, Guard,
     CacheGet, Exists, Query, CacheSet, Reply, Return
<1>3. CASE \E s \in Sids, k \in Reportable : Ask(r, s, k)
  BY <1>3 DEF Ask, Call
<1>4. CASE (Refuse(r) \/ Fail(r)) /\ Forget(r)
  BY <1>4 DEF Refuse, Fail, Forget
<1> QED BY <1>1, <1>2, <1>3, <1>4 DEF ByRequest

\* What a request writes has its type.
LEMMA RequestTypes ==
  ASSUME IInv, NEW r \in Requests, ByRequest(r), Witness
  PROVE  TypeOK'
<1>0. seen' \in [Requests -> SUBSET Needs]
  BY DEF Witness, Met, Needs, IInv, TypeOK
<1>1. /\ SessionTTL \in Nat /\ ResetTTL \in Nat /\ ReportTTL \in Nat /\ MaxBuild \in Nat
      /\ 0 \in 0 .. MaxAge /\ SessionTTL \in 0 .. SessionTTL /\ ReportTTL \in 0 .. ReportTTL
      /\ 0 \in 0 .. SessionTTL /\ 0 \in 0 .. ResetTTL
  BY ReportsAssumption, SessionsAssumption DEF MaxAge
<1>2. TypeOK /\ Placed(r) /\ Owned
  BY DEF IInv
<1> USE <1>0, <1>2
<1>3. CASE \E u \in Users : Login(r, u) /\ UNCHANGED <<teaches, cache, served>>
  BY <1>3 DEF TypeOK, Login, GoTo, store, served
<1>4. CASE CreateSession(r) /\ UNCHANGED <<teaches, cache, served>>
  <2>1. PICK s \in Sids :
          session' = [session EXCEPT ![s] = [owner |-> user[r], left |-> SessionTTL]]
    BY <1>4 DEF CreateSession
  <2>2. [owner |-> user[r], left |-> SessionTTL] \in Entry(SessionTTL)
    BY <1>1, <1>4 DEF CreateSession, Placed, Entry
  <2>3. session' \in [Sids -> Entry(SessionTTL)]
    BY <2>1, <2>2 DEF TypeOK
  <2> QED BY <1>4, <2>3 DEF TypeOK, CreateSession, GoTo, End, served
<1>5. CASE \E t \in Tokens : ConfirmPasswordReset(r, t) /\ UNCHANGED <<teaches, cache, served>>
  <2>1. PICK t \in Tokens : ConfirmPasswordReset(r, t)
    BY <1>5
  <2>2. reset[t] \in Entry(ResetTTL)
    BY DEF TypeOK
  <2>3. [reset[t] EXCEPT !.left = 0] \in Entry(ResetTTL) /\ reset[t].owner \in Users \cup {None}
    BY <1>1, <2>2, EntryFields
  <2>4. reset' \in [Tokens -> Entry(ResetTTL)]
    BY <2>1, <2>3 DEF ConfirmPasswordReset, GetDelReset, TypeOK
  <2> QED BY <1>5, <2>1, <2>3, <2>4 DEF TypeOK, ConfirmPasswordReset, GoTo, served
<1>6. CASE UpdatePasswordHash(r) /\ UNCHANGED <<teaches, cache, served>>
  BY <1>6 DEF TypeOK, Placed, UpdatePasswordHash, GoTo, End, served
<1>7. CASE Touch(r) /\ UNCHANGED <<teaches, cache, served>>
  <2>1. key[r] \in Sids /\ session[key[r]] \in Entry(SessionTTL)
    BY <1>7 DEF TypeOK, Placed, Touch
  <2>2. /\ [session[key[r]] EXCEPT !.left = SessionTTL] \in Entry(SessionTTL)
        /\ session[key[r]].owner \in Users \cup {None}
    BY <1>1, <2>1, EntryFields
  <2>3. session' \in [Sids -> Entry(SessionTTL)]
    BY <1>7, <2>1, <2>2 DEF Touch, TypeOK
  <2> QED BY <1>7, <2>2, <2>3 DEF TypeOK, Touch, GoTo, served
<1>8. CASE \E s \in Sids : Call(r, s) /\ UNCHANGED <<teaches, cache, served>>
  BY <1>8 DEF TypeOK, Call, GoTo, store, served
<1>9. CASE Logout(r) /\ UNCHANGED <<teaches, cache, served>>
  <2>1. key[r] \in Sids /\ session[key[r]] \in Entry(SessionTTL)
    BY <1>9 DEF TypeOK, Placed, Logout
  <2>2. [session[key[r]] EXCEPT !.left = 0] \in Entry(SessionTTL)
    BY <1>1, <2>1, EntryFields
  <2>3. session' \in [Sids -> Entry(SessionTTL)]
    BY <1>9, <2>1, <2>2 DEF Logout, TypeOK
  <2> QED BY <1>9, <2>3 DEF TypeOK, Logout, GoTo, End, served
<1>10. CASE (Refuse(r) \/ Fail(r)) /\ Forget(r) /\ UNCHANGED <<teaches, cache>>
  BY <1>1, <1>10 DEF TypeOK, Refuse, Fail, Forget, GoTo, End, store
<1>11. CASE \E s \in Sids, k \in Reportable : Ask(r, s, k)
  BY <1>11 DEF TypeOK, Ask, Call, GoTo, store
<1>12. CASE Handle(r)
  <2>1. CASE Load(r)
    <3>1. CASE Return(r)
      BY <1>1, <2>1, <3>1 DEF TypeOK, Load, Return, Forget, GoTo, End, store
    <3>2. CASE /\ asAdmin' = [asAdmin EXCEPT ![r] = Admin(user[r])]
               /\ GoTo(r, "guard") /\ UNCHANGED <<identity, asked, age>>
      BY <2>1, <3>2 DEF TypeOK, Load, GoTo, store, identity, Admin
    <3> QED BY <2>1, <3>1, <3>2 DEF Load
  <2>5. CASE Guard(r) \/ Exists(r) \/ Reply(r)
    <3>1. UNCHANGED <<store, role, teaches, cache>>
      BY <2>5 DEF Guard, Exists, Reply
    <3>2. CASE Return(r)
      BY <1>1, <3>1, <3>2 DEF TypeOK, Return, Forget, GoTo, End, store
    <3>3. CASE (GoTo(r, "get") \/ GoTo(r, "query")) /\ UNCHANGED <<identity, served>>
      BY <3>1, <3>3 DEF TypeOK, GoTo, store, identity, served
    <3> QED BY <2>5, <3>2, <3>3 DEF Guard, Exists, Reply
  <2>2. CASE CacheGet(r)
    <3>1. asked[r] \in Reportable
      BY <2>2 DEF CacheGet, TypeOK, Placed, Handling, Cleared
    <3>2. cache[asked[r]].age \in 0 .. MaxAge
      BY <3>1 DEF TypeOK
    <3> QED BY <2>2, <3>2 DEF TypeOK, CacheGet, Keeps, GoTo, store, identity, Holding
  <2>3. CASE Query(r)
    BY <1>1, <2>3 DEF TypeOK, Query, GoTo, store, identity, Holding
  <2>4. CASE CacheSet(r)
    <3>1. [age |-> age[r], left |-> ReportTTL] \in [age : 0 .. MaxAge, left : 0 .. ReportTTL]
      BY <1>1 DEF TypeOK
    <3>2. cache' \in [Reportable -> [age : 0 .. MaxAge, left : 0 .. ReportTTL]]
      BY <2>4, <3>1 DEF CacheSet, TypeOK
    <3> QED BY <2>4, <3>2 DEF TypeOK, CacheSet, GoTo, store, identity, served, Holding
  <2> QED BY <1>12, <2>1, <2>2, <2>3, <2>4, <2>5 DEF Handle
<1> QED BY <1>3, <1>4, <1>5, <1>6, <1>7, <1>8, <1>9, <1>10, <1>11, <1>12 DEF ByRequest

\* So has what the others write.
LEMMA OthersTypes ==
  ASSUME IInv, ByOthers, Witness
  PROVE  TypeOK'
<1>0. seen' \in [Requests -> SUBSET Needs]
  BY DEF Witness, Met, Needs, IInv, TypeOK
<1>1. /\ SessionTTL \in Nat /\ ResetTTL \in Nat /\ ReportTTL \in Nat /\ MaxBuild \in Nat
      /\ ResetTTL \in 0 .. ResetTTL /\ MaxAge = ReportTTL + MaxBuild
  BY ReportsAssumption, SessionsAssumption DEF MaxAge
<1>2. TypeOK
  BY DEF IInv
<1> USE <1>0, <1>2
<1>3. CASE /\ \E u \in Users, t \in Tokens : RequestPasswordReset(u, t)
           /\ UNCHANGED <<teaches, cache, served>>
  <2>1. PICK u \in Users, t \in Tokens : RequestPasswordReset(u, t)
    BY <1>3
  <2>2. [owner |-> u, left |-> ResetTTL] \in Entry(ResetTTL)
    BY <1>1 DEF Entry
  <2>3. reset' \in [Tokens -> Entry(ResetTTL)]
    BY <2>1, <2>2 DEF RequestPasswordReset, TypeOK
  <2> QED BY <1>3, <2>1, <2>3 DEF TypeOK, RequestPasswordReset, identity, served
<1>4. CASE /\ \E u \in Users, new \in Roles : SetRole(u, new)
           /\ UNCHANGED <<teaches, cache, served>>
  BY <1>4 DEF TypeOK, SetRole, store, identity, served
<1>5. CASE \E u \in Users, k \in Actas : AssignTeacher(u, k) \/ RemoveTeacher(u, k)
  BY <1>5 DEF TypeOK, AssignTeacher, RemoveTeacher, store, identity, served
<1>6. CASE Tick
  <2>1. session' \in [Sids -> Entry(SessionTTL)]
    BY <1>1, <1>6, AgedEntry DEF Tick, Expire, TypeOK
  <2>2. reset' \in [Tokens -> Entry(ResetTTL)]
    BY <1>1, <1>6, AgedEntry DEF Tick, Expire, TypeOK
  <2>3. cache' \in [Reportable -> [age : 0 .. MaxAge, left : 0 .. ReportTTL]]
    <3>1. ASSUME NEW k \in Reportable, cache[k].left > 1
          PROVE  cache[k].age + 1 \in 0 .. MaxAge /\ cache[k].left - 1 \in 0 .. ReportTTL
      <4>1. cache[k].age \in 0 .. MaxAge /\ cache[k].left \in 0 .. ReportTTL
        BY DEF TypeOK
      <4>2. cache[k].age + cache[k].left <= MaxAge
        BY DEF IInv, Fresh
      <4> QED BY <1>1, <3>1, <4>1, <4>2
    <3>2. \A k \in Reportable : cache[k].left \in 0 .. ReportTTL
      BY DEF TypeOK
    <3> QED BY <1>1, <1>6, <3>1, <3>2 DEF Tick
  <2>4. age' \in [Requests -> 0 .. MaxAge]
    BY <1>1, <1>6 DEF Tick, TypeOK
  <2> QED BY <1>6, <2>1, <2>2, <2>3, <2>4 DEF TypeOK, Tick, Expire, identity
<1> QED BY <1>3, <1>4, <1>5, <1>6 DEF ByOthers

\* A request holds at its next step what it needs there.
LEMMA RequestPlaced ==
  ASSUME IInv, NEW r \in Requests, ByRequest(r)
  PROVE  \A q \in Requests : Placed(q)'
<1>1. ASSUME NEW q \in Requests, q # r PROVE Placed(q)'
  <2>1. Placed(q)
    BY DEF IInv
  <2> QED BY <1>1, <2>1, RequestAlone DEF IInv, Alone, Placed
<1>2. Placed(r)'
  <2> USE DEF Placed, Handling, Cleared, TypeOK, GoTo
  <2>0. TypeOK /\ Placed(r) /\ Owned /\ TokensOnce
    BY DEF IInv
  <2>1. CASE \E u \in Users : Login(r, u) /\ UNCHANGED served
    BY <2>0, <2>1 DEF Login, served
  <2>2. CASE (CreateSession(r) \/ UpdatePasswordHash(r)) /\ UNCHANGED served
    BY <2>0, <2>2 DEF CreateSession, UpdatePasswordHash, End, served
  <2>3. CASE \E t \in Tokens : ConfirmPasswordReset(r, t) /\ UNCHANGED served
    <3>1. PICK t \in Tokens : ConfirmPasswordReset(r, t) /\ UNCHANGED served
      BY <2>3
    <3>2. reset[t].owner \in Users
      BY <2>0, <3>1 DEF ConfirmPasswordReset, TokensOnce, Entry
    <3> QED BY <2>0, <3>1, <3>2 DEF ConfirmPasswordReset, served
  <2>4. CASE Touch(r) /\ UNCHANGED served
    <3>1. key[r] \in Sids /\ session[key[r]].owner \in Users
      BY <2>0, <2>4 DEF Touch, LiveSession, Owned
    <3> QED BY <2>0, <2>4, <3>1 DEF Touch, served
  <2>5. CASE \E s \in Sids : Call(r, s) /\ UNCHANGED served
    BY <2>0, <2>5 DEF Call, served
  <2>6. CASE asked[r] = None /\ Logout(r) /\ UNCHANGED served
    BY <2>0, <2>6 DEF Logout, End, served
  <2>7. CASE (Refuse(r) \/ Fail(r)) /\ Forget(r)
    BY <2>0, <2>7 DEF Refuse, Fail, End, Forget
  <2>8. CASE \E s \in Sids, k \in Reportable : Ask(r, s, k)
    BY <2>0, <2>8 DEF Ask, Call
  <2>9. CASE Handle(r)
    <3>1. CASE Return(r)
      BY <2>0, <3>1 DEF Return, End, Forget
    <3>2. CASE /\ UNCHANGED <<identity, asked>>
               /\ step[r] \in {"load"} \cup Handling /\ asked[r] # None
               /\ \E next \in Handling : GoTo(r, next)
      BY <2>0, <3>2 DEF identity
    <3> QED BY <2>0, <2>9, <3>1, <3>2 DEF Handle, Load, Guard, CacheGet, Exists, Query, CacheSet,
            Reply, served
  <2> QED BY <2>1, <2>2, <2>3, <2>4, <2>5, <2>6, <2>7, <2>8, <2>9 DEF ByRequest
<1> QED BY <1>1, <1>2

\* Who opens or renews a session owns it.
LEMMA RequestOwned ==
  ASSUME IInv, NEW r \in Requests, ByRequest(r)
  PROVE  Owned'
<1>0. TypeOK /\ Placed(r) /\ Owned
  BY DEF IInv
<1>1. CASE UNCHANGED session
  BY <1>0, <1>1 DEF Owned
<1>2. CASE CreateSession(r)
  <2>1. PICK s \in Sids :
          session' = [session EXCEPT ![s] = [owner |-> user[r], left |-> SessionTTL]]
    BY <1>2 DEF CreateSession
  <2>2. user[r] \in Users
    BY <1>0, <1>2 DEF CreateSession, Placed
  <2> QED BY <1>0, <2>1, <2>2 DEF Owned, TypeOK
<1>3. CASE Touch(r)
  <2>1. /\ key[r] \in Sids /\ session[key[r]].owner \in Users
        /\ session[key[r]] \in Entry(SessionTTL)
    BY <1>0, <1>3 DEF Touch, LiveSession, Owned, Placed, TypeOK
  <2> QED BY <1>0, <1>3, <2>1 DEF Owned, TypeOK, Touch, Entry
<1>4. CASE Logout(r)
  <2>1. /\ key[r] \in Sids /\ session[key[r]] \in Entry(SessionTTL)
    BY <1>0, <1>4 DEF Logout, Placed, TypeOK
  <2> QED BY <1>0, <1>4, <2>1 DEF Owned, TypeOK, Logout, Entry
<1> QED BY <1>1, <1>2, <1>3, <1>4 DEF ByRequest, Login, ConfirmPasswordReset, UpdatePasswordHash,
        Call, Refuse, Fail, Ask, Handle, Load, Guard, CacheGet, Exists, Query, CacheSet, Reply,
        store

\* The others leave the requests where they are, and sessions to their owners.
LEMMA OthersPlaced ==
  ASSUME IInv, ByOthers
  PROVE  Owned' /\ \A q \in Requests : Placed(q)'
<1>1. UNCHANGED <<step, user, key, asked>>
  BY DEF ByOthers, RequestPasswordReset, SetRole, AssignTeacher, RemoveTeacher, Tick, Expire,
     identity, served
<1>2. \A q \in Requests : Placed(q)'
  BY <1>1 DEF IInv, Placed
<1>3. Owned'
  <2>1. CASE UNCHANGED session
    BY <2>1 DEF IInv, Owned
  <2>2. CASE Tick
    BY <2>2, AgedEntry, SessionsAssumption DEF IInv, TypeOK, Owned, Tick, Expire
  <2> QED BY <2>1, <2>2 DEF ByOthers, RequestPasswordReset, SetRole, AssignTeacher,
          RemoveTeacher, store
<1> QED BY <1>2, <1>3

\* Steps that hand out no token and use none.
LEMMA TokensQuiet ==
  ASSUME TokensOnce, TokenSpent, UNCHANGED <<reset, spent>>,
         \A q \in Requests : step'[q] = "hash" => step[q] = "hash" /\ key'[q] = key[q]
  PROVE  TokensOnce' /\ TokenSpent'
BY DEF TokensOnce, TokenSpent

\* A token is taken from Redis by one request, which alone may use it.
LEMMA RequestTokens ==
  ASSUME IInv, NEW r \in Requests, ByRequest(r)
  PROVE  TokensOnce' /\ TokenSpent'
<1>0. TypeOK /\ Placed(r) /\ TokensOnce /\ TokenSpent
  BY DEF IInv
<1>1. CASE \E t \in Tokens : ConfirmPasswordReset(r, t)
  <2>1. PICK t \in Tokens : ConfirmPasswordReset(r, t)
    BY <1>1
  <2>2. reset[t] \in Entry(ResetTTL) /\ reset[t].left > 0 /\ reset[t].owner # None /\ t \notin spent
    BY <1>0, <2>1 DEF TypeOK, ConfirmPasswordReset, TokensOnce
  <2>3. /\ \A x \in Tokens \ {t} : reset'[x] = reset[x]
        /\ reset'[t].left = 0 /\ reset'[t].owner = reset[t].owner
    BY <1>0, <2>1, <2>2 DEF TypeOK, ConfirmPasswordReset, GetDelReset, Entry
  <2>4. /\ step'[r] = "hash" /\ key'[r] = t /\ spent' = spent
        /\ \A q \in Requests \ {r} : step'[q] = step[q] /\ key'[q] = key[q]
    BY <1>0, <2>1 DEF TypeOK, ConfirmPasswordReset, GoTo
  <2>5. \A q \in Requests : step[q] = "hash" => key[q] # t /\ key[q] \in Tokens
    BY <1>0, <2>2 DEF TokenSpent, IInv, Placed
  <2>6. TokensOnce'
    BY <1>0, <2>2, <2>3, <2>4, <2>5 DEF TokensOnce, TypeOK
  <2>7. TokenSpent'
    BY <1>0, <2>2, <2>3, <2>4, <2>5 DEF TokenSpent, TypeOK
  <2> QED BY <2>6, <2>7
<1>2. CASE UpdatePasswordHash(r)
  <2>1. /\ spent' = spent \cup {key[r]} /\ reset' = reset /\ step'[r] = "idle"
        /\ \A q \in Requests \ {r} : step'[q] = step[q] /\ key'[q] = key[q]
    BY <1>0, <1>2 DEF TypeOK, UpdatePasswordHash, End, GoTo
  <2>2. step[r] = "hash" /\ key[r] \in Tokens
    BY <1>0, <1>2 DEF UpdatePasswordHash, Placed
  <2>3. TokensOnce'
    BY <1>0, <2>1, <2>2 DEF TokensOnce, TokenSpent
  <2>4. TokenSpent'
    BY <1>0, <2>1, <2>2 DEF TokenSpent
  <2> QED BY <2>3, <2>4
<1>3. CASE UNCHANGED <<reset, spent>> /\ step'[r] # "hash"
  BY <1>0, <1>3, RequestAlone, TokensQuiet DEF Alone
<1>4. \/ \E t \in Tokens : ConfirmPasswordReset(r, t)
      \/ UpdatePasswordHash(r)
      \/ UNCHANGED <<reset, spent>> /\ step'[r] # "hash"
  BY <1>0 DEF ByRequest, TypeOK, GoTo, End, Login, CreateSession, Touch, Call, Logout, Refuse, Fail,
     Ask, Handle, Load, Guard, CacheGet, Exists, Query, CacheSet, Reply, Return, store
<1> QED BY <1>1, <1>2, <1>3, <1>4

\* A new token is new, and time does not bring one back.
LEMMA OthersTokens ==
  ASSUME IInv, ByOthers
  PROVE  TokensOnce' /\ TokenSpent'
<1>0. TypeOK /\ TokensOnce /\ TokenSpent /\ \A r \in Requests : Placed(r)
  BY DEF IInv
<1>1. CASE \E u \in Users, t \in Tokens : RequestPasswordReset(u, t)
  <2>1. PICK u \in Users, t \in Tokens : RequestPasswordReset(u, t)
    BY <1>1
  <2>2. /\ reset[t].owner = None /\ t \notin spent /\ u # None
        /\ \A q \in Requests : step[q] = "hash" => key[q] # t /\ key[q] \in Tokens
    BY <1>0, <2>1, SessionsAssumption DEF RequestPasswordReset, TokensOnce, Placed
  <2>3. /\ reset'[t].owner = u
        /\ \A x \in Tokens \ {t} : reset'[x] = reset[x]
        /\ UNCHANGED <<spent, step, key>>
    BY <1>0, <2>1 DEF RequestPasswordReset, TypeOK, identity
  <2>4. TokensOnce'
    BY <1>0, <2>2, <2>3 DEF TokensOnce, TypeOK
  <2>5. TokenSpent'
    BY <1>0, <2>2, <2>3 DEF TokenSpent, TypeOK
  <2> QED BY <2>4, <2>5
<1>2. CASE Tick
  <2>1. /\ UNCHANGED <<spent, step, key>>
        /\ \A t \in Tokens : /\ reset'[t].owner = reset[t].owner
                             /\ reset'[t].left > 0 => reset[t].left > 0
                             /\ reset[t].left = 0 => reset'[t].left = 0
    BY <1>0, <1>2, AgedEntry, SessionsAssumption DEF Tick, Expire, TypeOK, identity
  <2>2. /\ spent \subseteq Tokens
        /\ \A q \in Requests : step[q] = "hash" => key[q] \in Tokens
    BY <1>0 DEF TypeOK, Placed
  <2>3. TokensOnce'
    BY <1>0, <2>1, <2>2 DEF TokensOnce
  <2>4. TokenSpent'
    BY <1>0, <2>1, <2>2 DEF TokenSpent
  <2> QED BY <2>3, <2>4
<1>3. CASE UNCHANGED <<reset, spent, step, key>>
  BY <1>0, <1>3, TokensQuiet
<1> QED BY <1>1, <1>2, <1>3 DEF ByOthers, SetRole, AssignTeacher, RemoveTeacher, store, identity

\* Steps that store no report and answer with none.
LEMMA FreshQuiet ==
  ASSUME Fresh, BoundedStaleness, UNCHANGED cache,
         \A q \in Requests : step'[q] \in {"set", "reply"} => step'[q] = step[q] /\ age'[q] = age[q]
  PROVE  Fresh' /\ BoundedStaleness'
BY DEF Fresh, BoundedStaleness

\* What a request stores is as young as its query; what it finds has life left.
LEMMA RequestFresh ==
  ASSUME IInv, NEW r \in Requests, ByRequest(r)
  PROVE  Fresh' /\ BoundedStaleness'
<1>0. TypeOK /\ Placed(r) /\ Fresh /\ BoundedStaleness /\ Alone(r)
  BY RequestAlone DEF IInv
<1>1. ReportTTL \in Nat \ {0} /\ MaxBuild \in Nat /\ MaxAge = ReportTTL + MaxBuild
  BY ReportsAssumption DEF MaxAge
<1>2. CASE CacheGet(r)
  <2>1. /\ asked[r] \in Reportable /\ UNCHANGED cache
        /\ step'[r] = "reply" => cache[asked[r]].left > 0 /\ age'[r] = cache[asked[r]].age
        /\ step'[r] # "set"
    BY <1>0, <1>2 DEF CacheGet, Keeps, GoTo, TypeOK, Placed, Handling, Cleared
  <2>2. cache[asked[r]].age \in Nat /\ cache[asked[r]].left \in Nat
    BY <1>0, <1>1, <2>1 DEF TypeOK
  <2>3. Fresh'
    BY <1>0, <2>1 DEF Fresh, Alone
  <2>4. BoundedStaleness'
    BY <1>0, <1>1, <2>1, <2>2 DEF Fresh, BoundedStaleness, Alone
  <2> QED BY <2>3, <2>4
<1>3. CASE Query(r)
  <2>1. step'[r] = "set" /\ age'[r] = 0 /\ UNCHANGED cache
    BY <1>0, <1>3 DEF Query, GoTo, TypeOK
  <2> QED BY <1>0, <1>1, <2>1 DEF Fresh, BoundedStaleness, Alone
<1>4. CASE CacheSet(r)
  <2>1. /\ asked[r] \in Reportable /\ step'[r] = "reply" /\ age'[r] = age[r]
        /\ age[r] \in Nat /\ age[r] <= MaxBuild
    BY <1>0, <1>1, <1>4 DEF CacheSet, GoTo, TypeOK, Placed, Handling, Cleared, Fresh, served
  <2>2. \A k \in Reportable : \/ cache'[k] = cache[k]
                              \/ cache'[k] = [age |-> age[r], left |-> ReportTTL]
    BY <1>0, <1>4, <2>1 DEF CacheSet, TypeOK
  <2>3. \A k \in Reportable : cache'[k].age + cache'[k].left <= MaxAge
    <3> SUFFICES ASSUME NEW k \in Reportable PROVE cache'[k].age + cache'[k].left <= MaxAge
      OBVIOUS
    <3>1. CASE cache'[k] = cache[k]
      BY <1>0, <3>1 DEF Fresh
    <3>2. CASE cache'[k] = [age |-> age[r], left |-> ReportTTL]
      BY <1>1, <2>1, <3>2
    <3> QED BY <2>2, <3>1, <3>2
  <2> QED BY <1>0, <1>1, <2>1, <2>3 DEF Fresh, BoundedStaleness, Alone, MaxAge
<1>5. CASE UNCHANGED cache /\ step'[r] \notin {"set", "reply"}
  BY <1>0, <1>5, FreshQuiet DEF Alone
<1>6. \/ CacheGet(r) \/ Query(r) \/ CacheSet(r)
      \/ UNCHANGED cache /\ step'[r] \notin {"set", "reply"}
  BY <1>0 DEF ByRequest, TypeOK, GoTo, End, Login, CreateSession, ConfirmPasswordReset,
     UpdatePasswordHash, Touch, Call, Logout, Refuse, Fail, Ask, Handle, Load, Guard, Exists,
     Reply, Return
<1> QED BY <1>2, <1>3, <1>4, <1>5, <1>6

\* A tick of age is a tick of life.
LEMMA OthersFresh ==
  ASSUME IInv, ByOthers
  PROVE  Fresh' /\ BoundedStaleness'
<1>0. TypeOK /\ Fresh /\ BoundedStaleness
  BY DEF IInv
<1>1. ReportTTL \in Nat \ {0} /\ MaxBuild \in Nat /\ MaxAge = ReportTTL + MaxBuild
  BY ReportsAssumption DEF MaxAge
<1>2. CASE Tick
  <2>1. /\ step' = step
        /\ \A r \in Requests :
             IF step[r] = "set" THEN age[r] < MaxBuild /\ age'[r] = age[r] + 1
             ELSE age'[r] = age[r]
    BY <1>2 DEF Tick, Expire
  <2>2. \A r \in Requests : age[r] \in Nat
    <3>1. age \in [Requests -> 0 .. MaxAge]
      BY <1>0 DEF TypeOK
    <3> QED BY <1>1, <3>1
  <2>3. \A k \in Reportable : cache'[k].age + cache'[k].left <= MaxAge
    <3> SUFFICES ASSUME NEW k \in Reportable PROVE cache'[k].age + cache'[k].left <= MaxAge
      OBVIOUS
    <3>1. /\ cache[k].age \in Nat /\ cache[k].left \in Nat
          /\ cache[k].age + cache[k].left <= MaxAge
      BY <1>0, <1>1 DEF TypeOK, Fresh
    <3>2. cache'[k] = IF cache[k].left <= 1 THEN [age |-> 0, left |-> 0]
                      ELSE [age |-> cache[k].age + 1, left |-> cache[k].left - 1]
      BY <1>2 DEF Tick
    <3> QED BY <1>1, <3>1, <3>2
  <2> QED BY <1>0, <1>1, <2>1, <2>2, <2>3 DEF Fresh, BoundedStaleness
<1>3. CASE UNCHANGED <<cache, step, age>>
  BY <1>0, <1>3, FreshQuiet
<1> QED BY <1>2, <1>3 DEF ByOthers, RequestPasswordReset, SetRole, AssignTeacher, RemoveTeacher,
        served

\* The history grows by what the request meets, as long as it asks for a report.
LEMMA WitnessAdds ==
  ASSUME Witness, NEW r \in Requests, asked'[r] # None
  PROVE  /\ seen[r] \subseteq seen'[r]
         /\ key'[r] \in Sids /\ session'[key'[r]].left > 0 => "session" \in seen'[r]
         /\ user'[r] # None /\ role'[user'[r]] \in {"teacher", "admin"} => "permission" \in seen'[r]
         /\ user'[r] # None /\ (role'[user'[r]] = "admin" \/ <<user'[r], asked'[r]>> \in teaches')
              => "scope" \in seen'[r]
BY DEF Witness, Met, LiveSession, Reads, Admin

\* A request at the same step has still seen what it had.
LEMMA EntitledStays ==
  ASSUME TypeOK, TypeOK', Witness, NEW q \in Requests, Entitled(q), Placed(q),
         step'[q] = step[q], asked'[q] = asked[q], asAdmin'[q] = asAdmin[q]
  PROVE  Entitled(q)'
<1>1. CASE asked[q] = None
  BY <1>1 DEF Entitled, Placed, Handling, Cleared
<1>2. CASE asked[q] # None
  <2>1. seen[q] \subseteq seen'[q] /\ seen'[q] \subseteq Needs
    BY <1>2, WitnessAdds DEF TypeOK
  <2> QED BY <2>1 DEF Entitled, Cleared, Needs
<1> QED BY <1>1, <1>2

\* Each of the three checks is passed at a moment it is true.
LEMMA RequestEntitled ==
  ASSUME IInv, NEW r \in Requests, ByRequest(r), Witness
  PROVE  \A q \in Requests : Entitled(q)'
<1>0. TypeOK /\ TypeOK' /\ Owned /\ \A q \in Requests : Placed(q) /\ Entitled(q)
  BY RequestTypes DEF IInv
<1>1. ASSUME NEW q \in Requests, q # r PROVE Entitled(q)'
  BY <1>0, <1>1, RequestAlone, EntitledStays DEF Alone
<1>2. Entitled(r)'
  <2>1. CASE step'[r] \notin {"load", "guard"} \cup Cleared
    BY <2>1 DEF Entitled
  <2>2. CASE Touch(r) /\ UNCHANGED served
    <3>1. /\ step'[r] = "load" /\ key'[r] = key[r] /\ key[r] \in Sids
          /\ session'[key[r]].left = SessionTTL /\ SessionTTL > 0
      <4>1. key[r] \in Sids /\ session[key[r]] \in Entry(SessionTTL)
        BY <1>0, <2>2 DEF Touch, TypeOK, Placed
      <4> QED BY <1>0, <2>2, <4>1, SessionsAssumption DEF Touch, GoTo, TypeOK, Entry
    <3> QED BY <3>1, WitnessAdds DEF Entitled, Cleared
  <2>3. CASE Load(r) /\ step'[r] = "guard"
    <3>1. /\ step[r] = "load" /\ asked[r] # None /\ user[r] \in Users /\ user[r] # None
          /\ UNCHANGED <<asked, user, role>>
          /\ role[user[r]] \in {"teacher", "admin"}
          /\ asAdmin'[r] = TRUE => role[user[r]] = "admin"
      BY <1>0, <2>3, SessionsAssumption
      DEF Load, Reads, Admin, Return, End, GoTo, TypeOK, Placed, identity
    <3>2. "session" \in seen[r]
      BY <1>0, <3>1 DEF Entitled
    <3> QED BY <2>3, <3>1, <3>2, WitnessAdds DEF Entitled, Cleared
  <2>4. CASE Guard(r) /\ step'[r] = "get"
    <3>1. /\ step[r] = "guard" /\ asked[r] # None /\ user[r] # None
          /\ UNCHANGED <<asked, user, teaches>>
          /\ asAdmin[r] = TRUE \/ <<user[r], asked[r]>> \in teaches
      BY <1>0, <2>4, SessionsAssumption
      DEF Guard, MayRead, Return, End, GoTo, TypeOK, Placed, Handling, identity, served
    <3>2. {"session", "permission"} \subseteq seen[r] /\ (asAdmin[r] = TRUE => "scope" \in seen[r])
      BY <1>0, <3>1 DEF Entitled
    <3>3. {"session", "permission", "scope"} \subseteq seen'[r] /\ seen'[r] \subseteq Needs
      BY <1>0, <3>1, <3>2, WitnessAdds DEF TypeOK
    <3> QED BY <2>4, <3>3 DEF Entitled, Cleared, Needs
  <2>5. CASE step[r] \in Cleared /\ step'[r] \in Cleared /\ asked'[r] = asked[r]
    <3>1. seen[r] = Needs /\ asked[r] # None
      BY <1>0, <2>5 DEF Entitled, Placed, Handling
    <3>2. seen'[r] = Needs
      BY <1>0, <2>5, <3>1, WitnessAdds DEF TypeOK
    <3> QED BY <2>5, <3>2 DEF Entitled, Cleared
  <2>6. \/ step'[r] \notin {"load", "guard"} \cup Cleared
        \/ Touch(r) /\ UNCHANGED served
        \/ Load(r) /\ step'[r] = "guard"
        \/ Guard(r) /\ step'[r] = "get"
        \/ step[r] \in Cleared /\ step'[r] \in Cleared /\ asked'[r] = asked[r]
    BY <1>0 DEF ByRequest, Cleared, TypeOK, GoTo, End, Login, CreateSession, ConfirmPasswordReset,
       UpdatePasswordHash, Call, Logout, Refuse, Fail, Ask, Handle, Load, Guard, CacheGet,
       Exists, Query, CacheSet, Reply, Return, served
  <2> QED BY <2>1, <2>2, <2>3, <2>4, <2>5, <2>6
<1> QED BY <1>1, <1>2

\* What a request has seen is not undone by the others.
LEMMA OthersEntitled ==
  ASSUME IInv, ByOthers, Witness
  PROVE  \A q \in Requests : Entitled(q)'
<1>1. UNCHANGED <<step, asked, asAdmin>>
  BY DEF ByOthers, RequestPasswordReset, SetRole, AssignTeacher, RemoveTeacher, Tick, Expire, served
<1> QED BY <1>1, OthersTypes, EntitledStays DEF IInv

\* The invariant is kept by every step.
THEOREM ReportsIInv == Spec => []IInv
<1>1. IInv /\ [Next]_vars => IInv'
  <2> SUFFICES ASSUME IInv, [Next]_vars PROVE IInv'
    OBVIOUS
  <2>1. CASE Witness /\ ByOthers
    BY <2>1, OthersTypes, OthersPlaced, OthersTokens, OthersFresh, OthersEntitled DEF IInv
  <2>2. CASE Witness /\ \E r \in Requests : ByRequest(r)
    BY <2>2, RequestTypes, RequestPlaced, RequestOwned, RequestTokens, RequestFresh, RequestEntitled
    DEF IInv
  <2>3. CASE UNCHANGED vars
    <3>1. UNCHANGED <<session, reset, spent, role, step, user, key, teaches, cache, asked, asAdmin,
                      age, seen>>
      BY <2>3 DEF vars, store, identity, served
    <3>2. TypeOK'
      BY <3>1 DEF IInv, TypeOK
    <3>3. (Owned /\ TokensOnce /\ TokenSpent)'
      BY <3>1 DEF IInv, Owned, TokensOnce, TokenSpent
    <3>4. (Fresh /\ BoundedStaleness)'
      BY <3>1 DEF IInv, Fresh, BoundedStaleness
    <3>5. \A r \in Requests : (Placed(r) /\ Entitled(r))'
      BY <3>1 DEF IInv, Placed, Entitled
    <3> QED BY <3>2, <3>3, <3>4, <3>5 DEF IInv
  <2> QED BY <2>1, <2>2, <2>3, NextCases
<1> QED BY <1>1, InitIInv, PTL DEF Spec

\* Every step keeps the variables in their types.
THEOREM ReportsType == Spec => []TypeOK
<1>1. IInv => TypeOK
  BY DEF IInv
<1> QED BY <1>1, ReportsIInv, PTL

\* A reset token sets one password, however many requests come with it.
THEOREM ReportsTokenSpent == Spec => []TokenSpent
<1>1. IInv => TokenSpent
  BY DEF IInv
<1> QED BY <1>1, ReportsIInv, PTL

\* No report is handed to a request that has not passed the three checks.
THEOREM ReportsServed == Spec => []ServedWhileEntitled
<1>1. IInv => ServedWhileEntitled
  BY DEF IInv, Entitled, Cleared, ServedWhileEntitled
<1> QED BY <1>1, ReportsIInv, PTL

\* No report is older than the cache may keep it.
THEOREM ReportsStaleness == Spec => []BoundedStaleness
<1>1. IInv => BoundedStaleness
  BY DEF IInv
<1> QED BY <1>1, ReportsIInv, PTL
===============================================================================
