------------------------------- MODULE Listing -------------------------------
(***************************************************************************)
(* Walking through a paged list while its rows come and go: the helpers of *)
(* platform/pagination, the four ways the services use them and the four   *)
(* ways the queries read.                                                  *)
(*                                                                         *)
(* Every page is a request, and a statement, of its own.  A row is what    *)
(* the query orders by: its id, its created_at for the feed of all audit   *)
(* logs, and the programme it is reached through for the sections a        *)
(* student may enrol in, where the same section may come twice.  All       *)
(* filters are in `shown`, the rows that match at the moment.              *)
(***************************************************************************)
EXTENDS Integers, FiniteSets

CONSTANTS
  MaxId,       \* bound: rows of a table
  MaxStamp,    \* bound: created_at
  Programs,    \* programmes the student is enrolled in
  Requested,   \* page_size of the requests
  PageSizeMin, PageSizeMax,
  MaxChanges,  \* bound: rows that come or go during a walk
  NoToken      \* no page_token

ASSUME ListingAssumption ==
  /\ MaxId \in Nat /\ MaxStamp \in Nat /\ MaxChanges \in Nat
  /\ Requested \subseteq Int
  /\ PageSizeMin \in Nat \ {0} /\ PageSizeMax \in Nat /\ PageSizeMin <= PageSizeMax

VARIABLES
  query,    \* the list this client walks through
  shown,    \* rows that match its filters
  walk,     \* "idle", "open" while there is a next page, "done" after the last
  token,    \* the row next_page_token was made from
  seen,     \* rows of the pages so far
  again,    \* history: rows that came on a second page
  steady,   \* history: rows that matched from the first request on
  changes   \* history: rows that came or went since

table == <<query, shown>>
pages == <<walk, token, seen, again>>
vars == <<query, shown, walk, token, seen, again, steady, changes>>

Queries == {"ListUsers", "ListEnrollableSections", "ListAuditLogs", "ListRecentAuditLogs"}

AnyProgram == CHOOSE p \in Programs : TRUE

Row == [id : 1 .. MaxId, stamp : 1 .. MaxStamp, program : Programs]

ASSUME NoTokenAssumption == NoToken \notin Row

\* What the query does not order by is the same in all rows.
Rows(q) ==
  {r \in Row : /\ q # "ListRecentAuditLogs" => r.stamp = 1
               /\ q # "ListEnrollableSections" => r.program = AnyProgram}

\* All but the sections reached through a programme list the rows of one table.
Table(q, rows) ==
  q # "ListEnrollableSections" => \A r, s \in rows : r.id = s.id => r = s

TypeOK ==
  /\ query \in Queries
  /\ shown \subseteq Row
  /\ walk \in {"idle", "open", "done"}
  /\ token \in Row \cup {NoToken}
  /\ seen \subseteq Row /\ again \subseteq Row /\ steady \subseteq Row
  /\ changes \in 0 .. MaxChanges

Init ==
  /\ query \in Queries
  /\ shown \in {rows \in SUBSET Rows(query) : Table(query, rows)}
  /\ walk = "idle"
  /\ token = NoToken
  /\ seen = {} /\ again = {} /\ steady = {}
  /\ changes = 0
-------------------------------------------------------------------------------
(* Page sizes. *)

\* Clamp.Apply.
Apply(size) ==
  IF size < PageSizeMin THEN PageSizeMin ELSE IF size > PageSizeMax THEN PageSizeMax ELSE size

\* The audit logs clamp by themselves, and let small sizes through.
AuditPageSize(size) ==
  IF size <= 0 THEN PageSizeMin ELSE IF size > PageSizeMax THEN PageSizeMax ELSE size

AuditQueries == {"ListAuditLogs", "ListRecentAuditLogs"}

PageSize(size) == IF query \in AuditQueries THEN AuditPageSize(size) ELSE Apply(size)
-------------------------------------------------------------------------------
(* The queries: what ORDER BY puts first, and what comes after a cursor. *)

Earlier(r, s) == r.stamp < s.stamp \/ (r.stamp = s.stamp /\ r.id < s.id)

\* ORDER BY lists r before s.
First(r, s) ==
  CASE query = "ListEnrollableSections" -> r.id < s.id
    [] query = "ListRecentAuditLogs" -> Earlier(s, r)
    [] OTHER -> s.id < r.id

\* Mutant: a row of the same instant as the cursor is left for the next page.
PastStamp(r) == IF query = "ListRecentAuditLogs" THEN r.stamp < token.stamp
                ELSE IF query = "ListEnrollableSections" THEN r.id > token.id ELSE r.id < token.id

\* Mutant: the row of the cursor comes again.
PastOrAt(r) == IF query = "ListRecentAuditLogs" THEN ~Earlier(token, r)
               ELSE IF query = "ListEnrollableSections" THEN r.id >= token.id ELSE r.id <= token.id

\* The cursor is a position, not a row that must still be there.
Past(r) ==
  CASE query = "ListEnrollableSections" -> r.id > token.id
    [] query = "ListRecentAuditLogs" -> Earlier(r, token)
    [] OTHER -> r.id < token.id

Matching == IF token = NoToken THEN shown ELSE {r \in shown : Past(r)}

\* The ways to take the first `limit` of `rows`: rows that tie come in any order.
Heads(rows, limit) ==
  {head \in SUBSET rows :
     /\ Cardinality(head) <= limit
     /\ head # rows => Cardinality(head) = limit
     /\ \A r \in head : \A s \in rows \ head : ~First(s, r)}

\* TokenOf: the last row of the page.
LastOf(rows) == {r \in rows : \A s \in rows : ~First(r, s)}

\* Mutant: the token is made before the page is trimmed.
TokenOfFetched(fetched, page) == LastOf(fetched)

TokenFrom(fetched, page) == LastOf(page)
-------------------------------------------------------------------------------
(* The client. *)

Start ==
  /\ walk # "open"
  /\ walk' = "open"
  /\ token' = NoToken
  /\ seen' = {} /\ again' = {}
  /\ steady' = shown
  /\ changes' = 0
  /\ UNCHANGED table

\* Paginate: one row more than the page holds is fetched to see if there is a next one.
GetPage(size) ==
  \E fetched \in Heads(Matching, PageSize(size) + 1) :
    \E page \in Heads(fetched, PageSize(size)) :
      /\ seen' = seen \cup page
      /\ again' = again \cup (seen \cap page)
      /\ \/ page = fetched /\ walk' = "done" /\ token' = NoToken
         \/ page # fetched /\ token' \in TokenFrom(fetched, page) /\ UNCHANGED walk

\* Any of the requests of a walk may ask for another page size.
ListPage ==
  /\ walk = "open"
  /\ \E size \in Requested : GetPage(size)
  /\ UNCHANGED <<query, shown, steady, changes>>
-------------------------------------------------------------------------------
(* Everybody else. *)

Change == walk = "open" /\ changes < MaxChanges /\ changes' = changes + 1

\* A row is inserted, or begins to match.  Its id and its created_at are taken
\* when its transaction inserts it and begins: they may be behind the cursor.
Appear ==
  /\ Change
  /\ \E r \in Rows(query) \ shown :
       /\ Table(query, shown \cup {r})
       /\ shown' = shown \cup {r}
  /\ UNCHANGED <<query, pages, steady>>

\* A row is soft-deleted, or no longer matches; the audit log keeps its rows.
Vanish ==
  /\ Change
  /\ query \notin AuditQueries
  /\ \E r \in shown : shown' = shown \ {r} /\ steady' = steady \ {r}
  /\ UNCHANGED <<query, pages>>

Next == Start \/ ListPage \/ Appear \/ Vanish

Spec == Init /\ [][Next]_vars
-------------------------------------------------------------------------------
\* No row comes on two pages of a walk, and when there is no next page every
\* row that matched since the first one was asked for has come, whatever came,
\* went or changed its page size in between.  A section that may be reached
\* through two programmes comes at least once.
WalkIsExact ==
  /\ again = {}
  /\ walk = "done" => \A r \in steady : \E s \in seen : s.id = r.id
===============================================================================
