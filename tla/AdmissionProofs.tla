--------------------------- MODULE AdmissionProofs ---------------------------
(***************************************************************************)
(* For every size of pool and number of calls: the tokens in the limiter's *)
(* channel are the inscriptions under way, so that these never hold more   *)
(* connections than the six in ten they are meant to have.  The queue of   *)
(* the pool holds exactly the calls that wait, and waits for itself in one *)
(* case only: as many grades as connections, each at its look-up.          *)
(***************************************************************************)
EXTENDS AdmissionControl, FiniteSetTheorems, SequenceTheorems, TLAPS

UnderWay == {c \in Enrolls : step[c] # "idle"}

IInv ==
  /\ step \in [Calls -> Steps]
  /\ tokens \in 0 .. Cap
  /\ TokensMatchCalls

\* The share of the pool.
LEMMA CapShare == Cap \in Nat /\ 10 * Cap <= 6 * PoolSize
BY AdmissionAssumption DEF Cap

\* Inscriptions are calls, and finitely many.
LEMMA UnderWayFinite ==
  /\ Enrolls \subseteq Calls
  /\ IsFiniteSet(UnderWay)
BY AdmissionAssumption, FS_Subset DEF UnderWay, Calls

\* No call has begun.
LEMMA InitIInv == Init => IInv
<1> SUFFICES ASSUME Init PROVE IInv
  OBVIOUS
<1>1. UnderWay = {}
  BY DEF Init, UnderWay, Calls
<1>2. TokensMatchCalls
  BY <1>1, FS_EmptySet DEF Init, UnderWay, TokensMatchCalls
<1> QED BY <1>2, CapShare DEF Init, IInv, Steps

\* Beginning a call puts a token in for an inscription only.
LEMMA StartKeeps ==
  ASSUME IInv, NEW c \in Calls, TryAcquire(c) \/ Bypass(c)
  PROVE  IInv'
<1>1. step[c] = "idle" /\ step' = [step EXCEPT ![c] = "run"]
  BY DEF TryAcquire, Bypass, Start, GoTo
<1>2. step' \in [Calls -> Steps]
  BY <1>1 DEF IInv, Steps
<1>3. CASE TryAcquire(c)
  <2>1. c \in Enrolls /\ tokens < Cap /\ tokens' = tokens + 1
    BY <1>3 DEF TryAcquire
  <2>2. UnderWay' = UnderWay \cup {c} /\ c \notin UnderWay
    BY <1>1, <2>1, UnderWayFinite DEF IInv, UnderWay
  <2>3. Cardinality(UnderWay') = Cardinality(UnderWay) + 1
    BY <2>2, UnderWayFinite, FS_AddElement
  <2> QED BY <1>2, <2>1, <2>3, CapShare DEF IInv, TokensMatchCalls, UnderWay
<1>4. CASE Bypass(c)
  <2>1. c \notin Enrolls /\ tokens' = tokens
    BY <1>4 DEF Bypass
  <2>2. UnderWay' = UnderWay
    BY <1>1, <2>1, UnderWayFinite DEF IInv, UnderWay
  <2> QED BY <1>2, <2>1, <2>2 DEF IInv, TokensMatchCalls, UnderWay
<1> QED BY <1>3, <1>4

\* However it ends, a call takes its token back, and no other.
LEMMA ReleaseKeeps ==
  ASSUME IInv, NEW c \in Calls, step[c] # "idle", Release(c)
  PROVE  IInv'
<1>1. step' = [step EXCEPT ![c] = "idle"]
  BY DEF Release, GoTo
<1>2. step' \in [Calls -> Steps]
  BY <1>1 DEF IInv, Steps
<1>3. CASE c \in Enrolls
  <2>1. UnderWay' = UnderWay \ {c} /\ c \in UnderWay
    BY <1>1, <1>3, UnderWayFinite DEF IInv, UnderWay
  <2>2. Cardinality(UnderWay') = Cardinality(UnderWay) - 1 /\ Cardinality(UnderWay) \in Nat
    BY <2>1, UnderWayFinite, FS_RemoveElement, FS_CardinalityType
  <2>3. Cardinality(UnderWay') \in Nat
    BY <2>1, UnderWayFinite, FS_RemoveElement, FS_CardinalityType
  <2>4. tokens' = tokens - 1
    BY <1>3 DEF Release
  <2> QED BY <1>2, <2>2, <2>3, <2>4, CapShare DEF IInv, TokensMatchCalls, UnderWay
<1>4. CASE c \notin Enrolls
  <2>1. UnderWay' = UnderWay /\ tokens' = tokens
    BY <1>1, <1>4, UnderWayFinite DEF IInv, UnderWay, Release
  <2> QED BY <1>2, <2>1 DEF IInv, TokensMatchCalls, UnderWay
<1> QED BY <1>3, <1>4

\* Connections come and go without any token.
LEMMA MoveKeeps ==
  ASSUME IInv, NEW c \in Calls, NEW next \in Steps \ {"idle"},
         step[c] # "idle", GoTo(c, next), UNCHANGED tokens
  PROVE  IInv'
<1>1. step' = [step EXCEPT ![c] = next]
  BY DEF GoTo
<1>2. UnderWay' = UnderWay
  BY <1>1, UnderWayFinite DEF IInv, UnderWay
<1> QED BY <1>1, <1>2 DEF IInv, TokensMatchCalls, UnderWay

\* The tokens are counted right whatever the calls and the pool do.
THEOREM AdmissionIInv == Spec => []IInv
<1>1. IInv /\ [Next]_vars => IInv'
  <2> SUFFICES ASSUME IInv, [Next]_vars PROVE IInv'
    OBVIOUS
  <2>1. ASSUME NEW c \in Calls, TryAcquire(c) \/ Bypass(c) PROVE IInv'
    BY <2>1, StartKeeps
  <2>2. ASSUME NEW c \in Calls, Return(c) \/ Cancel(c) PROVE IInv'
    BY <2>2, ReleaseKeeps DEF Return, Cancel
  <2>3. ASSUME NEW c \in Calls, Acquire(c) \/ AcquireMore(c) \/ Hand(c) \/ Done(c) PROVE IInv'
    <3>1. step[c] # "idle" /\ UNCHANGED tokens
      BY <2>3 DEF Acquire, AcquireMore, Hand, Done
    <3>2. \E next \in Steps \ {"idle"} : GoTo(c, next)
      BY <2>3 DEF Acquire, AcquireMore, Hand, Done, Take, Queue, Steps
    <3> QED BY <3>1, <3>2, MoveKeeps
  <2>4. CASE UNCHANGED vars
    BY <2>4 DEF vars, IInv, TokensMatchCalls
  <2> QED BY <2>1, <2>2, <2>3, <2>4 DEF Next, Advance
<1> QED BY <1>1, InitIInv, PTL DEF Spec

\* A token for each inscription under way.
THEOREM AdmissionTokens == Spec => []TokensMatchCalls
<1>1. IInv => TokensMatchCalls
  BY DEF IInv
<1> QED BY <1>1, AdmissionIInv, PTL

\* The part of the pool inscriptions cannot take.
THEOREM AdmissionReserve == Spec => []PoolReserve
<1>1. ASSUME IInv PROVE PoolReserve
  <2> DEFINE busy == {c \in Enrolls : step[c] \in {"use", "waitmore", "usemore"}}
  <2>1. busy \subseteq UnderWay
    BY DEF UnderWay
  <2>2. Cardinality(busy) <= Cardinality(UnderWay) /\ Cardinality(busy) \in Nat
    BY <2>1, UnderWayFinite, FS_Subset, FS_CardinalityType
  <2>3. Cardinality(UnderWay) = tokens /\ tokens <= Cap /\ tokens \in Nat
    BY <1>1, CapShare DEF IInv, TokensMatchCalls, UnderWay
  <2>4. 10 * Cardinality(busy) <= 6 * PoolSize
    <3> HIDE DEF busy
    <3> QED BY <2>2, <2>3, CapShare, AdmissionAssumption
  <2> QED BY <2>4 DEF PoolReserve
<1> QED BY <1>1, AdmissionIInv, PTL
-----------------------------------------------------------------------------
(* The pool: who waits, who holds a connection, and how many there are. *)

\* The queue holds each of a set of calls once and nobody else.
Queued(q, waiting) ==
  /\ q \in Seq(Calls)
  /\ \A i, j \in DOMAIN q : q[i] = q[j] => i = j
  /\ {q[i] : i \in DOMAIN q} = waiting

\* A call that did not wait joins the end.
LEMMA QueueAppend ==
  ASSUME NEW q, NEW waiting, Queued(q, waiting), NEW c \in Calls \ waiting
  PROVE  Queued(Append(q, c), waiting \cup {c})
<1> DEFINE p == Append(q, c)
           n == Len(q)
<1>1. q \in Seq(Calls) /\ n \in Nat /\ DOMAIN q = 1..n
  BY DEF Queued
<1>2. /\ p \in Seq(Calls) /\ DOMAIN p = 1..n + 1
      /\ p[n + 1] = c /\ \A i \in 1..n : p[i] = q[i]
  BY <1>1, AppendProperties
<1>3. \A i \in 1..n : q[i] # c
  BY <1>1 DEF Queued
<1> HIDE DEF p, n
<1>4. ASSUME NEW i \in 1..n + 1, NEW j \in 1..n + 1, p[i] = p[j]
      PROVE  i = j
  <2>1. \A k \in 1..n + 1 : k \in 1..n \/ k = n + 1
    BY <1>1
  <2> QED
    BY <1>1, <1>2, <1>3, <1>4, <2>1 DEF Queued
<1>5. {p[i] : i \in 1..n + 1} = {q[i] : i \in 1..n} \cup {c}
  <2>1. \A i \in 1..n + 1 : p[i] \in {q[k] : k \in 1..n} \cup {c}
    BY <1>1, <1>2
  <2>2. n + 1 \in 1..n + 1 /\ \A i \in 1..n : i \in 1..n + 1
    BY <1>1
  <2> QED
    BY <1>2, <2>1, <2>2
<1> QED
  BY <1>1, <1>2, <1>4, <1>5 DEF Queued, p

\* The one at position k leaves.
LEMMA QueueRemove ==
  ASSUME NEW q, NEW waiting, Queued(q, waiting), NEW k \in DOMAIN q
  PROVE  Queued(RemoveAt(q, k), waiting \ {q[k]})
<1> DEFINE n == Len(q)
           before == SubSeq(q, 1, k - 1)
           behind == SubSeq(q, k + 1, n)
           p == RemoveAt(q, k)
           from(i) == IF i < k THEN i ELSE i + 1
<1>1. q \in Seq(Calls) /\ n \in Nat /\ DOMAIN q = 1..n /\ k \in 1..n
  BY DEF Queued
<1>2. \A i \in 1..n : q[i] \in Calls
  BY <1>1, ElementOfSeq
<1>3. /\ before \in Seq(Calls) /\ Len(before) = k - 1
      /\ \A i \in 1..k - 1 : before[i] = q[i]
  <2>1. \A i \in 1..k - 1 : q[i] \in Calls
    BY <1>1, <1>2
  <2>2. 1 \in Int /\ k - 1 \in Int
    BY <1>1
  <2>3. /\ before \in Seq(Calls)
        /\ Len(before) = IF 1 <= k - 1 THEN (k - 1) - 1 + 1 ELSE 0
        /\ \A i \in 1..(k - 1) - 1 + 1 : before[i] = q[1 + i - 1]
    BY <2>1, <2>2, SubSeqProperties
  <2> HIDE DEF before
  <2>4. \A i \in 1..k - 1 : i \in 1..(k - 1) - 1 + 1 /\ 1 + i - 1 = i
    BY <1>1
  <2> QED
    BY <1>1, <2>3, <2>4
<1>4. /\ behind \in Seq(Calls) /\ Len(behind) = n - k
      /\ \A i \in 1..n - k : behind[i] = q[k + i]
  <2>1. \A i \in k + 1..n : q[i] \in Calls
    BY <1>1, <1>2
  <2>2. k + 1 \in Int /\ n \in Int
    BY <1>1
  <2>3. /\ behind \in Seq(Calls)
        /\ Len(behind) = IF k + 1 <= n THEN n - (k + 1) + 1 ELSE 0
        /\ \A i \in 1..n - (k + 1) + 1 : behind[i] = q[k + 1 + i - 1]
    BY <2>1, <2>2, SubSeqProperties
  <2> HIDE DEF behind
  <2>4. \A i \in 1..n - k : i \in 1..n - (k + 1) + 1 /\ k + 1 + i - 1 = k + i
    BY <1>1
  <2> QED
    BY <1>1, <2>3, <2>4
<1> HIDE DEF before, behind
<1>5. /\ p \in Seq(Calls) /\ Len(p) = n - 1
      /\ \A i \in 1..n - 1 : p[i] = q[from(i)]
  <2>1. p = before \o behind
    BY DEF before, behind, RemoveAt
  <2> HIDE DEF p
  <2>2. /\ p \in Seq(Calls) /\ Len(p) = (k - 1) + (n - k)
        /\ \A i \in 1..(k - 1) + (n - k) :
             p[i] = IF i <= k - 1 THEN before[i] ELSE behind[i - (k - 1)]
    <3>1. /\ p \in Seq(Calls) /\ Len(p) = Len(before) + Len(behind)
          /\ \A i \in 1..Len(before) + Len(behind) :
               p[i] = IF i <= Len(before) THEN before[i] ELSE behind[i - Len(before)]
      BY <1>3, <1>4, <2>1, ConcatProperties
    <3> QED
      BY <1>3, <1>4, <3>1
  <2>3. (k - 1) + (n - k) = n - 1
    BY <1>1
  <2>4. ASSUME NEW i \in 1..n - 1
        PROVE  p[i] = q[from(i)]
    <3>1. p[i] = IF i <= k - 1 THEN before[i] ELSE behind[i - (k - 1)]
      BY <2>2, <2>3
    <3>2. CASE i <= k - 1
      <4>1. i \in 1..k - 1 /\ i < k
        BY <1>1, <3>2
      <4> QED
        BY <1>3, <3>1, <3>2, <4>1
    <3>3. CASE ~ (i <= k - 1)
      <4>1. i - (k - 1) \in 1..n - k /\ k + (i - (k - 1)) = i + 1 /\ ~ (i < k)
        BY <1>1, <3>3
      <4> QED
        BY <1>4, <3>1, <3>3, <4>1
    <3> QED
      BY <3>2, <3>3
  <2> QED
    BY <2>2, <2>3, <2>4
<1>6. DOMAIN p = 1..n - 1
  BY <1>5
<1> HIDE DEF p, n
<1>7. \A i \in 1..n - 1 : from(i) \in 1..n /\ from(i) # k
  BY <1>1
<1>8. \A i, j \in 1..n - 1 : from(i) = from(j) => i = j
  BY <1>1
<1>9. \A j \in 1..n : j # k => \E i \in 1..n - 1 : from(i) = j
  <2> SUFFICES ASSUME NEW j \in 1..n, j # k
               PROVE  \E i \in 1..n - 1 : from(i) = j
    OBVIOUS
  <2>1. CASE j < k
    BY <1>1, <2>1
  <2>2. CASE ~ (j < k)
    <3>1. j - 1 \in 1..n - 1 /\ from(j - 1) = j
      BY <1>1, <2>2
    <3> QED
      BY <3>1
  <2> QED
    BY <2>1, <2>2
<1> HIDE DEF from
<1>10. \A i, j \in 1..n : q[i] = q[j] => i = j
  BY <1>1 DEF Queued
<1>11. {p[i] : i \in 1..n - 1} = {q[i] : i \in 1..n} \ {q[k]}
  <2>1. ASSUME NEW i \in 1..n - 1 PROVE p[i] \in {q[j] : j \in 1..n} \ {q[k]}
    BY <1>1, <1>5, <1>7, <1>10
  <2>2. ASSUME NEW j \in 1..n, q[j] # q[k] PROVE \E i \in 1..n - 1 : p[i] = q[j]
    BY <1>5, <1>9, <2>2
  <2> QED
    BY <2>1, <2>2
<1>12. \A i, j \in 1..n - 1 : p[i] = p[j] => i = j
  BY <1>5, <1>7, <1>8, <1>10
<1> QED
  BY <1>1, <1>5, <1>6, <1>11, <1>12 DEF Queued, p

\* The first is served.
LEMMA QueueServe ==
  ASSUME NEW q, NEW waiting, Queued(q, waiting), q # <<>>
  PROVE  Head(q) \in waiting /\ Queued(Tail(q), waiting \ {Head(q)})
<1> DEFINE p == Tail(q)
           n == Len(q)
<1>1. q \in Seq(Calls) /\ n \in Nat /\ DOMAIN q = 1..n /\ n # 0
  BY EmptySeq DEF Queued
<1>2. /\ p \in Seq(Calls) /\ DOMAIN p = 1..n - 1
      /\ \A i \in 1..n - 1 : p[i] = q[i + 1]
  BY <1>1, HeadTailProperties
<1>3. Head(q) = q[1] /\ 1 \in 1..n
  BY <1>1
<1> HIDE DEF p, n
<1>4. \A i, j \in 1..n : q[i] = q[j] => i = j
  BY <1>1 DEF Queued
<1>5. \A i \in 1..n - 1 : i + 1 \in 1..n /\ i + 1 # 1
  BY <1>1
<1>6. {p[i] : i \in 1..n - 1} = {q[i] : i \in 1..n} \ {q[1]}
  <2>1. ASSUME NEW i \in 1..n - 1 PROVE p[i] \in {q[j] : j \in 1..n} \ {q[1]}
    BY <1>2, <1>3, <1>4, <1>5
  <2>2. ASSUME NEW j \in 1..n, q[j] # q[1] PROVE \E i \in 1..n - 1 : p[i] = q[j]
    <3>1. j - 1 \in 1..n - 1 /\ (j - 1) + 1 = j
      BY <1>1, <2>2
    <3> QED
      BY <1>2, <3>1
  <2> QED
    BY <2>1, <2>2
<1>7. \A i, j \in 1..n - 1 : p[i] = p[j] => i = j
  <2>1. \A i, j \in 1..n - 1 : i + 1 = j + 1 => i = j
    BY <1>1
  <2> QED
    BY <1>2, <1>4, <1>5, <2>1
<1> QED
  BY <1>1, <1>2, <1>3, <1>6, <1>7 DEF Queued, p

Waits == {"wait", "waitmore"}
Holds == {"use", "waitmore", "usemore"}

\* Who is where after one call has moved, and how many they are.
LEMMA Moved ==
  ASSUME NEW X, step \in [Calls -> Steps], NEW c \in Calls, NEW next \in Steps, GoTo(c, next)
  PROVE  /\ IsFiniteSet(At(X)) /\ Cardinality(At(X)) \in Nat
         /\ next \in X => At(X)' = At(X) \cup {c}
         /\ next \notin X => At(X)' = At(X) \ {c}
         /\ (next \in X <=> step[c] \in X) => Cardinality(At(X))' = Cardinality(At(X))
         /\ next \in X /\ step[c] \notin X => Cardinality(At(X))' = Cardinality(At(X)) + 1
         /\ next \notin X /\ step[c] \in X => Cardinality(At(X))' = Cardinality(At(X)) - 1
<1>1. step' = [step EXCEPT ![c] = next]
  BY DEF GoTo
<1>2. IsFiniteSet(Calls) /\ At(X) \subseteq Calls
  BY AdmissionAssumption, FS_Union DEF Calls, At
<1>3. IsFiniteSet(At(X)) /\ Cardinality(At(X)) \in Nat
  BY <1>2, FS_Subset, FS_CardinalityType
<1>4. next \in X => At(X)' = At(X) \cup {c}
  BY <1>1 DEF At
<1>5. next \notin X => At(X)' = At(X) \ {c}
  BY <1>1 DEF At
<1>6. c \in At(X) <=> step[c] \in X
  BY DEF At
<1>7. Cardinality(At(X) \cup {c}) = IF c \in At(X) THEN Cardinality(At(X)) ELSE Cardinality(At(X)) + 1
  BY <1>3, FS_AddElement
<1>8. Cardinality(At(X) \ {c}) = IF c \in At(X) THEN Cardinality(At(X)) - 1 ELSE Cardinality(At(X))
  BY <1>3, FS_RemoveElement
<1> QED
  BY <1>3, <1>4, <1>5, <1>6, <1>7, <1>8

\* The inductive invariant of the pool.
PoolIInv ==
  /\ todo \in [Calls -> 0 .. MaxStatements]
  /\ \A c \in Calls : step[c] \in Waits \cup Holds => todo[c] > 0
  /\ \A c \in Calls : step[c] \in {"waitmore", "usemore"} => c \in Grades
  /\ InUse <= PoolSize
  /\ Queued(queue, At(Waits))

\* How many connections are out after a call has moved: one more for one that takes
\* its first or its second, none more for one that only asks.
LEMMA InUseMoves ==
  ASSUME step \in [Calls -> Steps], NEW c \in Calls, NEW next \in Steps, GoTo(c, next)
  PROVE  /\ InUse \in Nat /\ InUse' \in Nat
         /\ next \notin Holds => InUse' <= InUse
         /\ step[c] = "use" /\ next = "waitmore" => InUse' = InUse
         /\ step[c] \in {"run", "wait"} /\ next = "use" => InUse' = InUse + 1
         /\ step[c] \in {"use", "waitmore"} /\ next = "usemore" => InUse' = InUse + 1
<1> DEFINE H == At(Holds)
           M == At({"usemore"})
<1>1. InUse = Cardinality(H) + Cardinality(M)
  BY DEF InUse, Holds
<1>2. /\ Cardinality(H) \in Nat
      /\ (next \in Holds <=> step[c] \in Holds) => Cardinality(H)' = Cardinality(H)
      /\ next \in Holds /\ step[c] \notin Holds => Cardinality(H)' = Cardinality(H) + 1
      /\ next \notin Holds /\ step[c] \in Holds => Cardinality(H)' = Cardinality(H) - 1
  BY Moved
<1>3. /\ Cardinality(M) \in Nat
      /\ (next = "usemore" <=> step[c] = "usemore") => Cardinality(M)' = Cardinality(M)
      /\ next = "usemore" /\ step[c] # "usemore" => Cardinality(M)' = Cardinality(M) + 1
      /\ next # "usemore" /\ step[c] = "usemore" => Cardinality(M)' = Cardinality(M) - 1
  BY Moved
<1>4. step[c] \in Holds => Cardinality(H) # 0
  <2>1. IsFiniteSet(H)
    BY Moved
  <2>2. step[c] \in Holds => H # {}
    BY DEF At
  <2> QED
    BY <2>1, <2>2, FS_EmptySet
<1>5. step[c] = "usemore" => Cardinality(M) # 0
  <2>1. IsFiniteSet(M)
    BY Moved
  <2>2. step[c] = "usemore" => M # {}
    BY DEF At
  <2> QED
    BY <2>1, <2>2, FS_EmptySet
<1>6. InUse' = Cardinality(H)' + Cardinality(M)'
  BY DEF InUse, Holds
<1> HIDE DEF H, M
<1> QED
  BY <1>1, <1>2, <1>3, <1>4, <1>5, <1>6 DEF Holds

\* Starting, ending and giving up.
LEMMA StartKeepsPool ==
  ASSUME IInv, PoolIInv, NEW c \in Calls, TryAcquire(c) \/ Bypass(c)
  PROVE  PoolIInv'
<1>1. step[c] = "idle" /\ GoTo(c, "run") /\ UNCHANGED queue /\ step \in [Calls -> Steps]
  BY DEF TryAcquire, Bypass, Start, IInv
<1>2. PICK n \in 1 .. MaxStatements : todo' = [todo EXCEPT ![c] = n]
  BY DEF TryAcquire, Bypass, Start
<1>3. step' = [step EXCEPT ![c] = "run"]
  BY <1>1 DEF GoTo
<1>4. InUse \in Nat /\ InUse' \in Nat /\ InUse' <= InUse
  BY <1>1, InUseMoves DEF Steps, Holds
<1>5. At(Waits)' = At(Waits)
  <2>1. At(Waits)' = At(Waits) \ {c}
    BY <1>1, Moved DEF Steps, Waits
  <2> QED
    BY <1>1, <2>1 DEF At, Waits
<1>6. todo' \in [Calls -> 0 .. MaxStatements]
  BY <1>2, AdmissionAssumption DEF PoolIInv
<1>7. \A d \in Calls : step'[d] \in Waits \cup Holds => todo'[d] > 0
  BY <1>1, <1>2, <1>3 DEF PoolIInv, Waits, Holds
<1>8. \A d \in Calls : step'[d] \in {"waitmore", "usemore"} => d \in Grades
  BY <1>1, <1>3 DEF PoolIInv
<1> QED
  BY <1>1, <1>4, <1>5, <1>6, <1>7, <1>8, AdmissionAssumption DEF PoolIInv

LEMMA ReleaseKeepsPool ==
  ASSUME IInv, PoolIInv, NEW c \in Calls, step[c] # "idle", Release(c),
         Leave(c) \/ (step[c] = "run" /\ UNCHANGED queue)
  PROVE  PoolIInv'
<1>1. GoTo(c, "idle") /\ step \in [Calls -> Steps] /\ todo' = [todo EXCEPT ![c] = 0]
  BY DEF Release, IInv
<1>2. step' = [step EXCEPT ![c] = "idle"]
  BY <1>1 DEF GoTo
<1>3. InUse \in Nat /\ InUse' \in Nat /\ InUse' <= InUse
  BY <1>1, InUseMoves DEF Steps, Holds
<1>4. At(Waits)' = At(Waits) \ {c}
  BY <1>1, Moved DEF Steps, Waits
<1>5. Queued(queue', At(Waits)')
  <2>1. Queued(queue, At(Waits))
    BY DEF PoolIInv
  <2>2. c \in At(Waits) <=> \E i \in DOMAIN queue : queue[i] = c
    BY <2>1 DEF Queued
  <2>3. CASE c \in At(Waits)
    <3>1. PICK i \in DOMAIN queue : queue[i] = c /\ queue' = RemoveAt(queue, i)
      BY <2>2, <2>3 DEF Leave, At, Waits
    <3> QED
      BY <1>4, <2>1, <3>1, QueueRemove
  <2>4. CASE c \notin At(Waits)
    <3>1. queue' = queue
      BY <2>2, <2>4 DEF Leave
    <3>2. At(Waits)' = At(Waits)
      BY <1>4, <2>4
    <3> QED
      BY <2>1, <3>1, <3>2
  <2> QED
    BY <2>3, <2>4
<1>6. todo' \in [Calls -> 0 .. MaxStatements]
  BY <1>1, AdmissionAssumption DEF PoolIInv
<1>7. \A d \in Calls : step'[d] \in Waits \cup Holds => todo'[d] > 0
  BY <1>1, <1>2 DEF PoolIInv, Waits, Holds
<1>8. \A d \in Calls : step'[d] \in {"waitmore", "usemore"} => d \in Grades
  BY <1>1, <1>2 DEF PoolIInv
<1> QED
  BY <1>3, <1>5, <1>6, <1>7, <1>8, AdmissionAssumption DEF PoolIInv

\* Asking for a connection: the first with next and waits for it, or the second.
LEMMA AcquireKeepsPool ==
  ASSUME IInv, PoolIInv, NEW c \in Calls, Acquire(c) \/ AcquireMore(c)
  PROVE  PoolIInv'
<1> DEFINE got == IF step[c] = "run" THEN "use" ELSE "usemore"
           asks == IF step[c] = "run" THEN "wait" ELSE "waitmore"
<1>1. /\ step \in [Calls -> Steps] /\ todo' = todo /\ todo[c] > 0
      /\ step[c] = "run" \/ (step[c] = "use" /\ c \in Grades)
      /\ Take(c, got) \/ Queue(c, asks)
  BY DEF Acquire, AcquireMore, IInv, PoolIInv, Holds
<1>2. InUse <= PoolSize /\ Queued(queue, At(Waits)) /\ c \notin At(Waits)
  BY <1>1 DEF PoolIInv, At, Waits
<1>3. PoolSize \in Nat
  BY AdmissionAssumption
<1>4. CASE Take(c, got)
  <2>1. GoTo(c, got) /\ got \in Steps /\ UNCHANGED queue /\ InUse < PoolSize
    BY <1>4 DEF Take, Steps
  <2>2. step' = [step EXCEPT ![c] = got]
    BY <2>1 DEF GoTo
  <2>3. InUse \in Nat /\ InUse' = InUse + 1
    BY <1>1, <2>1, InUseMoves
  <2>4. At(Waits)' = At(Waits)
    <3>1. At(Waits)' = At(Waits) \ {c}
      BY <1>1, <2>1, Moved DEF Waits
    <3> QED
      BY <1>2, <3>1
  <2>5. \A d \in Calls : step'[d] \in Waits \cup Holds => todo'[d] > 0
    BY <1>1, <2>2 DEF PoolIInv
  <2>6. \A d \in Calls : step'[d] \in {"waitmore", "usemore"} => d \in Grades
    BY <1>1, <2>2 DEF PoolIInv
  <2>7. InUse' <= PoolSize
    BY <1>3, <2>1, <2>3
  <2> QED
    BY <1>1, <2>1, <2>4, <2>5, <2>6, <2>7 DEF PoolIInv
<1>5. CASE Queue(c, asks)
  <2>1. GoTo(c, asks) /\ asks \in Steps /\ queue' = Append(queue, c)
    BY <1>5 DEF Queue, Steps
  <2>2. step' = [step EXCEPT ![c] = asks]
    BY <2>1 DEF GoTo
  <2>3. InUse \in Nat /\ InUse' \in Nat /\ InUse' <= InUse
    <3>1. /\ InUse \in Nat /\ InUse' \in Nat
          /\ asks \notin Holds => InUse' <= InUse
          /\ step[c] = "use" /\ asks = "waitmore" => InUse' = InUse
      BY <1>1, <2>1, InUseMoves
    <3>2. asks \notin Holds \/ (step[c] = "use" /\ asks = "waitmore")
      BY <1>1 DEF Holds
    <3> QED
      BY <3>1, <3>2
  <2>4. At(Waits)' = At(Waits) \cup {c}
    BY <1>1, <2>1, Moved DEF Waits
  <2>5. Queued(queue', At(Waits)')
    BY <1>2, <2>1, <2>4, QueueAppend
  <2>6. \A d \in Calls : step'[d] \in Waits \cup Holds => todo'[d] > 0
    BY <1>1, <2>2 DEF PoolIInv
  <2>7. \A d \in Calls : step'[d] \in {"waitmore", "usemore"} => d \in Grades
    BY <1>1, <2>2 DEF PoolIInv
  <2>8. InUse' <= PoolSize
    BY <1>2, <1>3, <2>3
  <2> QED
    BY <1>1, <2>5, <2>6, <2>7, <2>8 DEF PoolIInv
<1> QED
  BY <1>1, <1>4, <1>5

\* A connection is handed over.
LEMMA HandKeepsPool ==
  ASSUME IInv, PoolIInv, NEW c \in Calls, Hand(c)
  PROVE  PoolIInv'
<1> DEFINE got == IF step[c] = "wait" THEN "use" ELSE "usemore"
<1>1. /\ step \in [Calls -> Steps] /\ todo' = todo /\ got \in Steps
      /\ step[c] \in Waits /\ GoTo(c, got) /\ InUse < PoolSize
      /\ queue # <<>> /\ c = Head(queue) /\ queue' = Tail(queue)
  BY DEF Hand, ServeFirst, IInv, Steps, Waits
<1>2. step' = [step EXCEPT ![c] = got]
  BY <1>1 DEF GoTo
<1>3. InUse' <= PoolSize
  <2>1. InUse \in Nat /\ InUse' = InUse + 1
    BY <1>1, InUseMoves DEF Waits
  <2> QED
    BY <1>1, <2>1, AdmissionAssumption
<1>4. At(Waits)' = At(Waits) \ {c}
  BY <1>1, Moved DEF Waits
<1>5. Queued(queue', At(Waits)')
  BY <1>1, <1>4, QueueServe DEF PoolIInv
<1>6. \A d \in Calls : step'[d] \in Waits \cup Holds => todo'[d] > 0
  BY <1>1, <1>2 DEF PoolIInv
<1>7. \A d \in Calls : step'[d] \in {"waitmore", "usemore"} => d \in Grades
  BY <1>1, <1>2 DEF PoolIInv, Waits
<1> QED
  BY <1>1, <1>3, <1>5, <1>6, <1>7 DEF PoolIInv

\* A statement ends and gives its connections back.
LEMMA DoneKeepsPool ==
  ASSUME IInv, PoolIInv, NEW c \in Calls, Done(c)
  PROVE  PoolIInv'
<1>1. /\ step \in [Calls -> Steps] /\ step[c] \in {"use", "usemore"}
      /\ GoTo(c, "run") /\ UNCHANGED queue
  BY DEF Done, IInv
<1>2. step' = [step EXCEPT ![c] = "run"]
  BY <1>1 DEF GoTo
<1>3. InUse' <= PoolSize
  <2>1. InUse \in Nat /\ InUse' \in Nat /\ InUse' <= InUse
    BY <1>1, InUseMoves DEF Steps, Holds
  <2> QED
    BY <2>1, AdmissionAssumption DEF PoolIInv
<1>4. At(Waits)' = At(Waits)
  <2>1. At(Waits)' = At(Waits) \ {c}
    BY <1>1, Moved DEF Steps, Waits
  <2> QED
    BY <1>1, <2>1 DEF At, Waits
<1>5. PICK n \in 0 .. MaxStatements : todo' = [todo EXCEPT ![c] = n]
  <2>1. todo[c] \in 0 .. MaxStatements /\ todo[c] > 0
    BY <1>1 DEF PoolIInv, Holds
  <2>2. 0 \in 0 .. MaxStatements /\ todo[c] - 1 \in 0 .. MaxStatements
    BY <2>1, AdmissionAssumption
  <2>3. CASE step[c] = "usemore"
    BY <2>2, <2>3 DEF Done
  <2>4. CASE step[c] # "usemore"
    BY <2>2, <2>4 DEF Done, PoolIInv
  <2> QED
    BY <2>3, <2>4
<1>6. todo' \in [Calls -> 0 .. MaxStatements]
  BY <1>5 DEF PoolIInv
<1>7. \A d \in Calls : step'[d] \in Waits \cup Holds => todo'[d] > 0
  BY <1>1, <1>2, <1>5 DEF PoolIInv, Waits, Holds
<1>8. \A d \in Calls : step'[d] \in {"waitmore", "usemore"} => d \in Grades
  BY <1>1, <1>2 DEF PoolIInv
<1> QED
  BY <1>1, <1>3, <1>4, <1>6, <1>7, <1>8 DEF PoolIInv

\* Nobody waits in a pool nobody has used.
LEMMA InitPool == Init => PoolIInv
<1> SUFFICES ASSUME Init PROVE PoolIInv
  OBVIOUS
<1>1. At(Waits) = {} /\ At(Holds) = {} /\ At({"usemore"}) = {}
  BY DEF Init, At, Waits, Holds
<1>2. InUse <= PoolSize
  <2>1. Cardinality({}) = 0
    BY FS_EmptySet
  <2> QED
    BY <1>1, <2>1, AdmissionAssumption DEF InUse, Holds
<1>3. Queued(queue, At(Waits))
  <2>1. queue \in Seq(Calls) /\ DOMAIN queue = {}
    BY EmptySeq DEF Init
  <2> QED
    BY <1>1, <2>1 DEF Queued
<1> QED
  BY <1>2, <1>3, AdmissionAssumption DEF Init, PoolIInv, Waits, Holds

\* The queue, the steps of the calls and the connections out agree at all times.
THEOREM PoolInvariance == Spec => []PoolIInv
<1>1. IInv /\ PoolIInv /\ [Next]_vars => PoolIInv'
  <2> SUFFICES ASSUME IInv, PoolIInv, [Next]_vars PROVE PoolIInv'
    OBVIOUS
  <2>1. ASSUME NEW c \in Calls, TryAcquire(c) \/ Bypass(c) PROVE PoolIInv'
    BY <2>1, StartKeepsPool
  <2>2. ASSUME NEW c \in Calls, Return(c) \/ Cancel(c) PROVE PoolIInv'
    BY <2>2, ReleaseKeepsPool DEF Return, Cancel
  <2>3. ASSUME NEW c \in Calls, Acquire(c) \/ AcquireMore(c) PROVE PoolIInv'
    BY <2>3, AcquireKeepsPool
  <2>4. ASSUME NEW c \in Calls, Hand(c) PROVE PoolIInv'
    BY <2>4, HandKeepsPool
  <2>5. ASSUME NEW c \in Calls, Done(c) PROVE PoolIInv'
    BY <2>5, DoneKeepsPool
  <2>6. CASE UNCHANGED vars
    BY <2>6 DEF vars, PoolIInv, InUse, At
  <2> QED
    BY <2>1, <2>2, <2>3, <2>4, <2>5, <2>6 DEF Next, Advance
<1> QED
  BY <1>1, InitPool, AdmissionIInv, PTL DEF Spec

\* Types, the size of the pool, and the queue as the calls that wait.
THEOREM AdmissionType == Spec => []TypeOK
<1>1. IInv /\ PoolIInv => TypeOK
  <2> SUFFICES ASSUME IInv, PoolIInv PROVE TypeOK
    OBVIOUS
  <2>1. queue \in Seq(Calls) /\ {queue[i] : i \in DOMAIN queue} = At(Waits)
    BY DEF PoolIInv, Queued
  <2>2. \A c \in Calls : step[c] \in Waits <=> \E i \in DOMAIN queue : queue[i] = c
    BY <2>1 DEF At
  <2> QED
    BY <2>1, <2>2 DEF IInv, PoolIInv, TypeOK, Waits
<1> QED
  BY <1>1, AdmissionIInv, PoolInvariance, PTL

\* The calls at their look-up are grades, and finitely many.
Lookers == {g \in Grades : step[g] = "waitmore"}

LEMMA LookersAreCalls ==
  ASSUME PoolIInv
  PROVE  /\ Lookers = At({"waitmore"})
         /\ IsFiniteSet(At(Holds)) /\ IsFiniteSet(At({"usemore"}))
<1>1. IsFiniteSet(Calls)
  <2>1. IsFiniteSet(Grades \cup Others)
    BY AdmissionAssumption, FS_Union
  <2> QED
    BY <2>1, AdmissionAssumption, FS_Union DEF Calls
<1>2. At(Holds) \subseteq Calls /\ At({"usemore"}) \subseteq Calls
  BY DEF At
<1> QED
  BY <1>1, <1>2, FS_Subset DEF Lookers, At, PoolIInv, Calls

\* A pool all of whose users wait for another connection is one whose users are all
\* grades.
LEMMA StuckStalls ==
  ASSUME PoolIInv, Stuck
  PROVE  Stalled
<1>1. At(Holds) = At({"waitmore"}) /\ At({"usemore"}) = {}
  BY DEF Stuck, At, Holds
<1>2. Cardinality(At({"usemore"})) = 0 /\ Cardinality(At({"waitmore"})) \in Nat
  BY <1>1, LookersAreCalls, FS_EmptySet, FS_CardinalityType
<1>3. InUse = Cardinality(At({"waitmore"})) + Cardinality(At({"usemore"}))
  BY <1>1 DEF InUse, Holds
<1>4. InUse = Cardinality(At({"waitmore"}))
  BY <1>2, <1>3
<1> QED
  BY <1>4, LookersAreCalls DEF Stuck, Stalled, Lookers

\* As many grades at their look-up as connections leave none to anybody.
LEMMA StallSticks ==
  ASSUME PoolIInv, Stalled
  PROVE  Stuck
<1> DEFINE H == At(Holds)
           W == At({"waitmore"})
           M == At({"usemore"})
<1>1. W \subseteq H /\ M \subseteq H /\ IsFiniteSet(H) /\ IsFiniteSet(M)
  BY LookersAreCalls DEF At, Holds
<1>2. /\ Cardinality(H) \in Nat /\ Cardinality(M) \in Nat /\ Cardinality(W) <= Cardinality(H)
      /\ Cardinality(W) \in Nat
      /\ Cardinality(W) = Cardinality(H) => W = H
  BY <1>1, FS_Subset, FS_CardinalityType
<1>3. Cardinality(W) = PoolSize
  BY LookersAreCalls DEF Stalled, Lookers
<1>4. InUse = Cardinality(H) + Cardinality(M) /\ InUse <= PoolSize
  BY DEF InUse, Holds, PoolIInv
<1>5. InUse = PoolSize /\ Cardinality(M) = 0 /\ W = H
  <2> HIDE DEF H, W, M
  <2> QED
    BY <1>2, <1>3, <1>4, AdmissionAssumption
<1>6. M = {}
  BY <1>1, <1>5, FS_EmptySet
<1>7. \A c \in Calls : step[c] \notin {"use", "usemore"}
  BY <1>5, <1>6 DEF At, Holds
<1>8. queue # <<>>
  <2>1. W # {}
    BY <1>3, FS_EmptySet, AdmissionAssumption
  <2>2. W \subseteq {queue[i] : i \in DOMAIN queue}
    BY DEF PoolIInv, Queued, At, Waits
  <2>3. queue = <<>> => DOMAIN queue = {}
    OBVIOUS
  <2> QED
    BY <2>1, <2>2, <2>3
<1> QED
  BY <1>5, <1>7, <1>8 DEF Stuck

\* The second connection of a grade (GetEvaluationByID on the pool, inside the
\* transaction) is the only thing that can make a pool of any size wait for itself:
\* whenever calls queue, no connection is free and nobody can finish with the one it
\* has, there are as many grades at their look-up as connections, and nobody else holds
\* any.  Where there are as many, it is so: nothing in the code keeps them apart.
THEOREM AdmissionStuckIsStalled == Spec => [](Stuck <=> Stalled)
<1>1. PoolIInv => (Stuck <=> Stalled)
  BY StuckStalls, StallSticks
<1> QED
  BY <1>1, PoolInvariance, PTL

\* A call that moves without looking a second connection up, or having looked one up,
\* leaves the stall as it is.
LEMMA StallUnmoved ==
  ASSUME step \in [Calls -> Steps], NEW c \in Calls, NEW next \in Steps \ {"waitmore"},
         step[c] # "waitmore", GoTo(c, next), Stalled
  PROVE  Stalled'
<1>1. step' = [step EXCEPT ![c] = next]
  BY DEF GoTo
<1>2. \A g \in Grades : step'[g] = "waitmore" <=> step[g] = "waitmore"
  BY <1>1 DEF Calls
<1>3. {g \in Grades : step'[g] = "waitmore"} = {g \in Grades : step[g] = "waitmore"}
  BY <1>2
<1> QED
  BY <1>3 DEF Stalled

\* A pool that has stalled stays so, whatever its calls and new ones do, until one of the
\* grades that hold it is given up: no statement's end, no return and no timeout of the
\* pool frees a connection.
THEOREM AdmissionStallLasts ==
  Spec => [][Stalled => Stalled' \/ \E g \in Grades : step[g] = "waitmore" /\ Cancel(g)]_vars
<1> DEFINE Ends == \E g \in Grades : step[g] = "waitmore" /\ Cancel(g)
<1>1. ASSUME IInv, PoolIInv, [Next]_vars, Stalled, ~Ends
      PROVE  Stalled'
  <2>1. step \in [Calls -> Steps] /\ Stuck
    BY <1>1, StallSticks DEF IInv
  <2>2. ASSUME NEW c \in Calls, TryAcquire(c) \/ Bypass(c) PROVE Stalled'
    <3>1. step[c] # "waitmore" /\ GoTo(c, "run")
      BY <2>2 DEF TryAcquire, Bypass, Start
    <3> QED
      BY <1>1, <2>1, <3>1, StallUnmoved DEF Steps
  <2>3. ASSUME NEW c \in Calls, Return(c) PROVE Stalled'
    <3>1. step[c] # "waitmore" /\ GoTo(c, "idle")
      BY <2>3 DEF Return, Release
    <3> QED
      BY <1>1, <2>1, <3>1, StallUnmoved DEF Steps
  <2>4. ASSUME NEW c \in Calls, Acquire(c) PROVE Stalled'
    <3>1. step[c] # "waitmore" /\ (GoTo(c, "use") \/ GoTo(c, "wait"))
      BY <2>4 DEF Acquire, Take, Queue
    <3> QED
      BY <1>1, <2>1, <3>1, StallUnmoved DEF Steps
  <2>5. ASSUME NEW c \in Calls, AcquireMore(c) \/ Done(c) PROVE FALSE
    BY <2>1, <2>5 DEF AcquireMore, Done, Stuck
  <2>6. ASSUME NEW c \in Calls, Hand(c) PROVE FALSE
    BY <2>1, <2>6, AdmissionAssumption DEF Hand, Stuck
  <2>7. ASSUME NEW c \in Calls, Cancel(c) PROVE Stalled'
    <3>1. step[c] = "waitmore" => c \in Grades
      BY <1>1 DEF PoolIInv
    <3>2. step[c] # "waitmore" /\ GoTo(c, "idle")
      BY <1>1, <2>7, <3>1 DEF Cancel, Release
    <3> QED
      BY <1>1, <2>1, <3>2, StallUnmoved DEF Steps
  <2>8. CASE UNCHANGED vars
    BY <1>1, <2>8 DEF vars, Stalled
  <2> QED
    BY <1>1, <2>2, <2>3, <2>4, <2>5, <2>6, <2>7, <2>8 DEF Next, Advance
<1>2. IInv /\ PoolIInv /\ [Next]_vars => [Stalled => Stalled' \/ Ends]_vars
  BY <1>1
<1> QED
  BY <1>2, AdmissionIInv, PoolInvariance, PTL DEF Spec
===============================================================================
