---------------------------- MODULE OrderListing -----------------------------
(***************************************************************************)
(* GET /orders: ListOrders (internal/order/handler.go), List               *)
(* (internal/order/store.go) and the cursor of internal/pagination.  One   *)
(* client follows nextCursor from page to page while other requests insert *)
(* orders and the consumer executes them.                                  *)
(*                                                                         *)
(* created_at is now(), the start of the transaction: an order may become  *)
(* visible after orders that are younger than it, and two orders may have  *)
(* the same created_at.  Orders are never deleted.  A request that fails   *)
(* validation, or the query of one that fails, changes nothing.            *)
(***************************************************************************)
EXTENDS Naturals, Sequences, FiniteSets

CONSTANTS Ids,           \* order identifiers, in the order of their UUIDs
          Others,        \* orders the constant columns exclude: those of other
                         \* users, or of another side, type or symbol than asked
          MaxTime,       \* bound: distinct timestamps
          Limits,        \* values of the limit parameter, 0 when it is absent
          DefaultLimit,  \* defaultLimit
          MaxLimit,      \* maxLimit
          NoCursor       \* nil

ASSUME ListingAssumption ==
  /\ Ids \subseteq Nat /\ IsFiniteSet(Ids)
  /\ Others \subseteq Ids
  /\ MaxTime \in Nat \ {0}
  /\ Limits \subseteq Nat
  /\ MaxLimit \in Nat \ {0}
  /\ DefaultLimit \in 1 .. MaxLimit
  /\ NoCursor \notin [createdAt : 1 .. MaxTime, id : Ids]

VARIABLES now,        \* the database clock
          createdAt,  \* created_at of each order, 0 before its INSERT began
          visible,    \* orders whose INSERT is committed
          status,     \* orders.status
          phase,      \* the client: "idle", "paging", "done"
          filter,     \* what it asks for on every page
          limit,      \* filter.Limit, as ListOrders passes it
          cursor,     \* the cursor of the next request
          pages,      \* history: the pages it got, as sets of orders
          steady      \* history: orders that were visible when it started and
                      \* have matched the filter ever since

tableVars == <<now, createdAt, visible, status>>
clientVars == <<phase, filter, limit, cursor, pages, steady>>
vars == <<tableVars, clientVars>>

Position == [createdAt : 1 .. MaxTime, id : Ids]

(* after = 0 and before = MaxTime + 1 stand for absent parameters. *)
Filter == [status : {"ANY", "PENDING", "EXECUTED"},
           after : 0 .. MaxTime, before : 1 .. MaxTime + 1]

TypeOK ==
  /\ now \in 1 .. MaxTime
  /\ createdAt \in [Ids -> 0 .. MaxTime]
  /\ visible \subseteq {i \in Ids : createdAt[i] > 0}
  /\ status \in [Ids -> {"PENDING", "EXECUTED"}]
  /\ phase \in {"idle", "paging", "done"}
  /\ filter \in Filter
  /\ limit \in 1 .. MaxLimit
  /\ cursor \in Position \cup {NoCursor}
  /\ pages \in Seq(SUBSET Ids)
  /\ steady \subseteq Ids

Init ==
  /\ now = 1
  /\ createdAt = [i \in Ids |-> 0]
  /\ visible = {}
  /\ status = [i \in Ids |-> "PENDING"]
  /\ phase = "idle"
  /\ filter \in Filter
  /\ limit = 1
  /\ cursor = NoCursor
  /\ pages = <<>>
  /\ steady = {}

-----------------------------------------------------------------------------
(* The other requests. *)

Tick ==
  /\ now < MaxTime
  /\ now' = now + 1
  /\ UNCHANGED <<createdAt, visible, status, clientVars>>

(* Create: the INSERT begins and fixes created_at ... *)
BeginInsert(i) ==
  /\ createdAt[i] = 0
  /\ createdAt' = [createdAt EXCEPT ![i] = now]
  /\ UNCHANGED <<now, visible, status, clientVars>>

(* ... and is committed some time later. *)
CommitInsert(i) ==
  /\ createdAt[i] > 0 /\ i \notin visible
  /\ visible' = visible \cup {i}
  /\ UNCHANGED <<now, createdAt, status, clientVars>>

(* ExecuteOrder, seen from here. *)
Execute(i) ==
  /\ i \in visible /\ status[i] = "PENDING"
  /\ status' = [status EXCEPT ![i] = "EXECUTED"]
  /\ steady' = IF filter.status = "PENDING" THEN steady \ {i} ELSE steady
  /\ UNCHANGED <<now, createdAt, visible, phase, filter, limit, cursor, pages>>

-----------------------------------------------------------------------------
(* The query. *)

(* The conditions on the columns. *)
Selects(i) ==
  /\ i \in visible \ Others
  /\ filter.status \in {"ANY", status[i]}
  /\ filter.after < createdAt[i]
  /\ createdAt[i] < filter.before

PositionOf(i) == [createdAt |-> createdAt[i], id |-> i]

(* (created_at, id) < (created_at, id): the row comparison of the query, and
   the reverse of its ORDER BY. *)
Older(p, q) ==
  \/ p.createdAt < q.createdAt
  \/ p.createdAt = q.createdAt /\ p.id < q.id

(* Faulty: the cursor compares created_at alone, or includes its own row. *)
MutTimeOnly(i) == cursor = NoCursor \/ createdAt[i] < cursor.createdAt
MutInclusive(i) ==
  cursor = NoCursor \/ ~Older(cursor, PositionOf(i))

(* The condition a cursor adds. *)
PastCursor(i) == cursor = NoCursor \/ Older(PositionOf(i), cursor)

Matching == {i \in Ids : Selects(i) /\ PastCursor(i)}

YoungerMatching(i) ==
  {j \in Matching : Older(PositionOf(i), PositionOf(j))}

(* ORDER BY created_at DESC, id DESC, of which the first limit rows are the
   page. *)
Page == {i \in Matching : Cardinality(YoungerMatching(i)) < limit}

(* Faulty: a full page is taken for a sign that there are more. *)
MutFullPage == Cardinality(Page) = limit

(* The query asked for limit + 1 rows and got them. *)
HasMore == Matching # Page

IsLast(i) ==
  /\ i \in Page
  /\ \A j \in Page : j = i \/ Older(PositionOf(i), PositionOf(j))

NoNextCursor == NoCursor

(* limit: absent, or a positive number that is cut to maxLimit. *)
PageLimit(n) ==
  IF n = 0 THEN DefaultLimit ELSE IF n > MaxLimit THEN MaxLimit ELSE n

-----------------------------------------------------------------------------
(* The client. *)

(* The client decides what to list; the first page has no cursor. *)
StartPaging(n) ==
  /\ phase = "idle"
  /\ phase' = "paging"
  /\ limit' = PageLimit(n)
  /\ steady' = {i \in Ids : Selects(i)}
  /\ UNCHANGED <<tableVars, filter, cursor, pages>>

(* A page and the cursor that follows its last row. *)
FetchPage ==
  /\ phase = "paging"
  /\ pages' = Append(pages, Page)
  /\ \/ /\ HasMore
        /\ \E i \in Ids : IsLast(i) /\ cursor' = PositionOf(i)
        /\ phase' = "paging"
     \/ /\ ~HasMore
        /\ cursor' = NoNextCursor
        /\ phase' = "done"
  /\ UNCHANGED <<tableVars, filter, limit, steady>>

Next ==
  \/ Tick
  \/ \E i \in Ids : BeginInsert(i) \/ CommitInsert(i) \/ Execute(i)
  \/ \E n \in Limits : StartPaging(n)
  \/ FetchPage
  \/ phase = "done" /\ UNCHANGED vars

Spec == Init /\ [][Next]_vars

-----------------------------------------------------------------------------
(* Properties. *)

(* "No repeated rows" while orders are inserted and executed (README.md, key
   decisions): from page to page the rows get strictly older, so the pages
   together are one list, newest first, without repetition. *)
PagesDescend ==
  \A a, b \in DOMAIN pages :
    a < b => \A i \in pages[a], j \in pages[b] :
               Older(PositionOf(j), PositionOf(i))

(* "No skipped rows": an order that could be listed from the first request to
   the last is on one of the pages, whatever was inserted or executed next to
   it, also if it shares its created_at with others. *)
NothingSkipped ==
  phase = "done" => \A i \in steady : \E a \in DOMAIN pages : i \in pages[a]

(* hasMore is honest: unless rows can stop matching meanwhile (a filter on
   status), the page a cursor leads to is not empty. *)
CursorLeadsOn ==
  cursor # NoCursor /\ filter.status # "PENDING" => Matching # {}
=============================================================================
