---------------------------- MODULE ListingProofs ----------------------------
(***************************************************************************)
(* For every size of table, of page and of walk: no row comes twice and no *)
(* row that matched all along is left out.  The cursor splits the rows:    *)
(* nothing seen comes after it, and what matched all along and does not    *)
(* come after it has been seen.                                            *)
(***************************************************************************)
EXTENDS Listing, TLAPS

\* The order of a list, apart from the state: r comes before s.
Ord(q, r, s) ==
  CASE q = "ListEnrollableSections" -> r.id < s.id
    [] q = "ListRecentAuditLogs" -> Earlier(s, r)
    [] OTHER -> s.id < r.id

Unseen(r) == token = NoToken \/ Ord(query, token, r)

CursorSplits ==
  /\ steady \subseteq shown
  /\ again = {}
  /\ walk = "open" =>
       /\ \A s \in seen : token # NoToken /\ ~Ord(query, token, s)
       /\ \A r \in steady : Unseen(r) \/ \E s \in seen : s.id = r.id
  /\ walk = "done" => \A r \in steady : \E s \in seen : s.id = r.id

IInv == TypeOK /\ CursorSplits

\* The order is strict, and rows that tie are of one id.
LEMMA OrdStrict ==
  ASSUME NEW q \in Queries, NEW r \in Row, NEW s \in Row, NEW t \in Row
  PROVE  /\ ~Ord(q, r, r)
         /\ Ord(q, r, s) /\ Ord(q, s, t) => Ord(q, r, t)
         /\ ~Ord(q, r, s) /\ ~Ord(q, s, r) => r.id = s.id
BY DEF Ord, Earlier, Row, Queries

\* ORDER BY is that order.
LEMMA FirstIsOrd ==
  ASSUME NEW r, NEW s
  PROVE  First(r, s) <=> Ord(query, r, s)
BY DEF First, Ord

\* The cursor's condition in WHERE is that order too.
LEMMA PastIsOrd ==
  ASSUME NEW r
  PROVE  Past(r) <=> Ord(query, token, r)
BY DEF Past, Ord

\* Page sizes are numbers.
LEMMA PageSizeInt ==
  ASSUME NEW size \in Requested
  PROVE  PageSize(size) \in Int
BY ListingAssumption DEF PageSize, Apply, AuditPageSize

\* What matches the query is shown and comes after the cursor.
LEMMA MatchingUnseen ==
  ASSUME NEW r
  PROVE  r \in Matching <=> r \in shown /\ Unseen(r)
BY PastIsOrd DEF Matching, Unseen

\* The first page starts with nothing seen.
LEMMA InitIInv == Init => IInv
BY ListingAssumption DEF Init, IInv, TypeOK, CursorSplits, Rows

\* A page adds what comes right after the cursor, and moves it to the last of them.
LEMMA PageKeeps ==
  ASSUME IInv, ListPage
  PROVE  IInv'
<1>1. PICK size \in Requested : GetPage(size)
  BY DEF ListPage
<1>2. PICK fetched \in Heads(Matching, PageSize(size) + 1) :
        \E page \in Heads(fetched, PageSize(size)) :
          /\ seen' = seen \cup page
          /\ again' = again \cup (seen \cap page)
          /\ \/ page = fetched /\ walk' = "done" /\ token' = NoToken
             \/ page # fetched /\ token' \in TokenFrom(fetched, page) /\ UNCHANGED walk
  BY <1>1 DEF GetPage
<1>3. PICK page \in Heads(fetched, PageSize(size)) :
          /\ seen' = seen \cup page
          /\ again' = again \cup (seen \cap page)
          /\ \/ page = fetched /\ walk' = "done" /\ token' = NoToken
             \/ page # fetched /\ token' \in TokenFrom(fetched, page) /\ UNCHANGED walk
  BY <1>2
<1>4. /\ walk = "open" /\ query \in Queries /\ shown \subseteq Row /\ seen \subseteq Row
      /\ token \in Row \cup {NoToken} /\ steady \subseteq shown /\ again = {}
      /\ UNCHANGED <<query, shown, steady, changes>>
  BY DEF IInv, TypeOK, CursorSplits, ListPage
<1>5. /\ \A s \in seen : token # NoToken /\ ~Ord(query, token, s)
      /\ \A r \in steady : Unseen(r) \/ \E s \in seen : s.id = r.id
  BY <1>4 DEF IInv, CursorSplits
<1>6. fetched \subseteq Matching /\ page \subseteq fetched /\ page \subseteq Row
  <2>1. fetched \subseteq Matching /\ page \subseteq fetched
    BY DEF Heads
  <2>2. Matching \subseteq Row
    BY <1>4, MatchingUnseen
  <2> QED BY <2>1, <2>2
<1>7. seen \cap page = {}
  BY <1>5, <1>6, MatchingUnseen DEF Unseen
<1>8. CASE page = fetched /\ walk' = "done" /\ token' = NoToken
  <2>1. fetched = Matching
    BY <1>8, PageSizeInt DEF Heads
  <2>2. \A r \in steady : \E s \in seen' : s.id = r.id
    <3> SUFFICES ASSUME NEW r \in steady PROVE \E s \in seen' : s.id = r.id
      OBVIOUS
    <3>1. CASE Unseen(r)
      BY <3>1, <2>1, <1>3, <1>4, <1>8, MatchingUnseen
    <3>2. CASE \E s \in seen : s.id = r.id
      BY <3>2, <1>3
    <3> QED BY <3>1, <3>2, <1>5
  <2> QED BY <2>2, <1>3, <1>4, <1>6, <1>7, <1>8 DEF IInv, TypeOK, CursorSplits
<1>9. CASE page # fetched /\ token' \in TokenFrom(fetched, page) /\ UNCHANGED walk
  <2> DEFINE t == token'
  <2>1. t \in page /\ t \in Row /\ t # NoToken /\ \A s \in page : ~Ord(query, t, s)
    <3>1. t \in page /\ \A s \in page : ~First(t, s)
      BY <1>9 DEF TokenFrom, LastOf
    <3> QED BY <3>1, <1>6, FirstIsOrd, NoTokenAssumption
  <2> HIDE DEF t
  <2>2. Unseen(t)
    BY <2>1, <1>6, MatchingUnseen
  <2>3. \A s \in seen \cup page : ~Ord(query, t, s)
    <3> SUFFICES ASSUME NEW s \in seen PROVE ~Ord(query, t, s)
      BY <2>1
    <3>1. token \in Row /\ s \in Row /\ ~Ord(query, token, s) /\ Ord(query, token, t)
      BY <1>4, <1>5, <2>2 DEF Unseen
    <3> QED BY <3>1, <2>1, <1>4, OrdStrict
  <2>4. \A r \in steady : Ord(query, t, r) \/ \E s \in seen \cup page : s.id = r.id
    <3> SUFFICES ASSUME NEW r \in steady, ~Ord(query, t, r), r \notin page, Unseen(r)
                 PROVE  \E s \in seen \cup page : s.id = r.id
      BY <1>5
    <3>1. r \in Matching /\ r \in Row
      BY <1>4, MatchingUnseen
    <3>2. ~First(r, t)
      BY <3>1, <2>1, <1>6 DEF Heads
    <3>3. t.id = r.id
      BY <3>1, <3>2, <2>1, <1>4, FirstIsOrd, OrdStrict
    <3> QED BY <3>3, <2>1
  <2>5. token' = t /\ query' = query /\ walk' = "open" /\ seen' = seen \cup page
    BY <1>3, <1>4, <1>9 DEF t
  <2>6. \A r \in steady : Unseen(r)' \/ \E s \in seen' : s.id = r.id
    BY <2>4, <2>5 DEF Unseen
  <2> QED BY <2>1, <2>3, <2>5, <2>6, <1>3, <1>4, <1>6, <1>7
          DEF IInv, TypeOK, CursorSplits, Unseen
<1> QED BY <1>3, <1>8, <1>9

\* The splitting survives the client's requests and everybody else's writes.
THEOREM ListingIInv == Spec => []IInv
<1>1. IInv /\ [Next]_vars => IInv'
  <2> SUFFICES ASSUME IInv, [Next]_vars PROVE IInv'
    OBVIOUS
  <2>1. CASE Start
    BY <2>1, ListingAssumption DEF Start, table, IInv, TypeOK, CursorSplits, Unseen
  <2>2. CASE ListPage
    BY <2>2, PageKeeps
  <2>3. CASE Appear
    BY <2>3, ListingAssumption
    DEF Appear, Change, pages, IInv, TypeOK, CursorSplits, Unseen, Rows
  <2>4. CASE Vanish
    BY <2>4, ListingAssumption DEF Vanish, Change, pages, IInv, TypeOK, CursorSplits, Unseen
  <2>5. CASE UNCHANGED vars
    BY <2>5 DEF vars, IInv, TypeOK, CursorSplits, Unseen
  <2> QED BY <2>1, <2>2, <2>3, <2>4, <2>5 DEF Next
<1> QED BY <1>1, InitIInv, PTL DEF Spec

\* Every walk through every list is exact.
THEOREM ListingExact == Spec => []WalkIsExact
<1>1. IInv => WalkIsExact
  BY DEF IInv, CursorSplits, WalkIsExact
<1> QED BY <1>1, ListingIInv, PTL
===============================================================================
