------------------------- MODULE OrderListingProofs --------------------------
(***************************************************************************)
(* Theorems about OrderListing, for any finite set of orders, any number   *)
(* of timestamps and any page size: the pages repeat nothing, skip nothing *)
(* and a cursor leads to a page with rows.                                 *)
(*                                                                         *)
(* The fact all three rest on is BehindLast: a matching row that is not on *)
(* the page is older than the last row of the page, also when their        *)
(* timestamps are equal.                                                   *)
(***************************************************************************)
EXTENDS OrderListing, FiniteSetTheorems, SequenceTheorems, TLAPS

Listed(i) == \E a \in DOMAIN pages : i \in pages[a]

(* A client that has not started has nothing. *)
IdleIsEmpty ==
  phase = "idle" => cursor = NoCursor /\ pages = <<>> /\ steady = {}

(* Only visible rows are listed, and the cursor is past every one of them. *)
ListedBeforeCursor ==
  \A a \in DOMAIN pages : \A i \in pages[a] :
    /\ i \in visible
    /\ phase = "paging" => /\ cursor # NoCursor
                           /\ ~Older(PositionOf(i), cursor)

(* A steady row matches, and was listed or is still ahead of the cursor. *)
SteadyAhead ==
  \A i \in steady :
    /\ Selects(i)
    /\ phase = "paging" => Listed(i) \/ PastCursor(i)

ListInv ==
  /\ TypeOK
  /\ IdleIsEmpty
  /\ ListedBeforeCursor
  /\ SteadyAhead
  /\ PagesDescend
  /\ NothingSkipped
  /\ CursorLeadsOn

-----------------------------------------------------------------------------
(* The row comparison of the query orders the visible rows totally. *)
LEMMA OlderIsTotalOrder ==
  ASSUME TypeOK
  PROVE  /\ \A i, j \in Ids : i # j =>
              \/ Older(PositionOf(i), PositionOf(j))
              \/ Older(PositionOf(j), PositionOf(i))
         /\ \A i, j, k \in Ids :
              Older(PositionOf(i), PositionOf(j))
              /\ Older(PositionOf(j), PositionOf(k))
                => Older(PositionOf(i), PositionOf(k))
         /\ \A i \in Ids : ~Older(PositionOf(i), PositionOf(i))
<1>1. \A i \in Ids : i \in Nat /\ createdAt[i] \in Nat
  BY ListingAssumption DEF TypeOK
<1>2. \A i, j \in Ids :
        Older(PositionOf(i), PositionOf(j)) <=>
          \/ createdAt[i] < createdAt[j]
          \/ createdAt[i] = createdAt[j] /\ i < j
  BY DEF Older, PositionOf
<1>3. \A i, j \in Ids : i # j =>
        Older(PositionOf(i), PositionOf(j)) \/ Older(PositionOf(j), PositionOf(i))
  BY <1>1, <1>2
<1>4. ASSUME NEW i \in Ids, NEW j \in Ids, NEW k \in Ids,
             Older(PositionOf(i), PositionOf(j)),
             Older(PositionOf(j), PositionOf(k))
      PROVE  Older(PositionOf(i), PositionOf(k))
  <2>1. /\ \/ createdAt[i] < createdAt[j]
           \/ createdAt[i] = createdAt[j] /\ i < j
        /\ \/ createdAt[j] < createdAt[k]
           \/ createdAt[j] = createdAt[k] /\ j < k
    BY <1>4 DEF Older, PositionOf
  <2>2. \/ createdAt[i] < createdAt[k]
        \/ createdAt[i] = createdAt[k] /\ i < k
    BY <1>1, <2>1
  <2> QED
    BY <1>2, <2>2
<1>5. \A i \in Ids : ~Older(PositionOf(i), PositionOf(i))
  BY <1>1 DEF Older, PositionOf
<1> QED
  BY <1>3, <1>4, <1>5

(* What lies before a cursor is older than what does not. *)
LEMMA OlderThanCursor ==
  ASSUME NEW p \in Position, NEW q \in Position, NEW c \in Position,
         Older(p, c), ~Older(q, c)
  PROVE  Older(p, q)
<1>1. \A x \in Position : x.createdAt \in 1 .. MaxTime /\ x.id \in Ids
  BY DEF Position
<1>2. 1 .. MaxTime \subseteq Nat /\ Ids \subseteq Nat
  BY ListingAssumption
<1>3. /\ p.createdAt \in Nat /\ q.createdAt \in Nat /\ c.createdAt \in Nat
      /\ p.id \in Nat /\ q.id \in Nat /\ c.id \in Nat
  BY <1>1, <1>2
<1> QED
  BY <1>3 DEF Older

(* A row that LIMIT cuts off is older than the last row of the page. *)
LEMMA BehindLast ==
  ASSUME TypeOK, NEW i \in Matching \ Page, NEW l \in Ids, IsLast(l)
  PROVE  Older(PositionOf(i), PositionOf(l))
<1>1. i \in Ids /\ l \in Page /\ l \in Matching /\ i # l
  BY DEF IsLast, Page, Matching
<1>2. SUFFICES ASSUME Older(PositionOf(l), PositionOf(i))
               PROVE  i \in Page
  BY <1>1, OlderIsTotalOrder
<1>3. YoungerMatching(i) \subseteq YoungerMatching(l)
  BY <1>1, <1>2, OlderIsTotalOrder DEF YoungerMatching, Matching
<1>4. IsFiniteSet(YoungerMatching(l))
  BY FS_Subset, ListingAssumption DEF YoungerMatching, Matching
<1>5. /\ IsFiniteSet(YoungerMatching(i))
      /\ Cardinality(YoungerMatching(i)) <= Cardinality(YoungerMatching(l))
  BY <1>3, <1>4, FS_Subset
<1>6. /\ Cardinality(YoungerMatching(i)) \in Nat
      /\ Cardinality(YoungerMatching(l)) \in Nat
  BY <1>4, <1>5, FS_CardinalityType
<1>7. Cardinality(YoungerMatching(l)) < limit /\ limit \in Nat
  BY <1>1, ListingAssumption DEF Page, TypeOK
<1>8. Cardinality(YoungerMatching(i)) < limit
  BY <1>5, <1>6, <1>7
<1> QED
  BY <1>1, <1>8 DEF Page

(* What a fetched page adds to the history. *)
LEMMA PagesAppended ==
  ASSUME TypeOK, pages' = Append(pages, Page)
  PROVE  /\ pages' \in Seq(SUBSET Ids)
         /\ DOMAIN pages = 1 .. Len(pages) /\ Len(pages) \in Nat
         /\ DOMAIN pages' = 1 .. Len(pages) + 1
         /\ \A a \in DOMAIN pages : pages'[a] = pages[a]
         /\ pages'[Len(pages) + 1] = Page
<1>1. Page \in SUBSET Ids
  BY DEF Page, Matching
<1>2. pages \in Seq(SUBSET Ids)
  BY DEF TypeOK
<1>3. pages' \in Seq(SUBSET Ids) /\ Len(pages') = Len(pages) + 1
  BY <1>1, <1>2, AppendProperties
<1>4. DOMAIN pages = 1 .. Len(pages) /\ Len(pages) \in Nat
  BY <1>2, LenProperties
<1>5. DOMAIN pages' = 1 .. Len(pages')
  BY <1>3, LenProperties
<1> QED
  BY <1>1, <1>2, <1>3, <1>4, <1>5, AppendProperties

-----------------------------------------------------------------------------
(* The invariant holds before the first request. *)
LEMMA ListInvInit == Init => ListInv
<1> SUFFICES ASSUME Init
             PROVE  ListInv
  OBVIOUS
<1>1. DOMAIN pages = {}
  BY EmptySeq, LenProperties DEF Init
<1>2. pages \in Seq(SUBSET Ids)
  BY EmptySeq DEF Init
<1>3. TypeOK
  BY <1>2, ListingAssumption DEF Init, TypeOK
<1> QED
  BY <1>1, <1>3
  DEF Init, ListInv, IdleIsEmpty, ListedBeforeCursor, SteadyAhead,
      PagesDescend, NothingSkipped, CursorLeadsOn

(* Clock, inserts and executions keep the history: the position of a visible
   row never changes, and new rows only join the matching ones. *)
LEMMA OthersKeepListInv ==
  ASSUME ListInv,
         \/ Tick
         \/ \E i \in Ids : BeginInsert(i) \/ CommitInsert(i) \/ Execute(i)
  PROVE  ListInv'
<1> USE DEF ListInv
<1>1. /\ UNCHANGED <<phase, filter, limit, cursor, pages>>
      /\ visible \subseteq visible' /\ steady' \subseteq steady
      /\ \A i \in visible : createdAt'[i] = createdAt[i]
  BY DEF TypeOK, Tick, BeginInsert, CommitInsert, Execute, clientVars
<1>2. TypeOK'
  <2>1. CASE Tick
    BY <2>1, ListingAssumption DEF TypeOK, Tick, clientVars
  <2>2. ASSUME NEW i \in Ids, BeginInsert(i)
        PROVE  TypeOK'
    BY <2>2, ListingAssumption DEF TypeOK, BeginInsert, clientVars
  <2>3. ASSUME NEW i \in Ids, CommitInsert(i)
        PROVE  TypeOK'
    BY <2>3 DEF TypeOK, CommitInsert, clientVars
  <2>4. ASSUME NEW i \in Ids, Execute(i)
        PROVE  TypeOK'
    BY <2>4 DEF TypeOK, Execute
  <2> QED
    BY <2>1, <2>2, <2>3, <2>4
<1>3. \A i \in visible : PositionOf(i)' = PositionOf(i)
  BY <1>1 DEF PositionOf
<1>4. IdleIsEmpty'
  BY <1>1 DEF IdleIsEmpty
<1>5. ListedBeforeCursor'
  BY <1>1, <1>3 DEF ListedBeforeCursor
<1>6. \A i \in steady' : Selects(i)'
  <2> SUFFICES ASSUME NEW i \in steady'
               PROVE  Selects(i)'
    OBVIOUS
  <2>1. Selects(i) /\ i \in Ids /\ i \in visible
    BY <1>1 DEF SteadyAhead, Selects, TypeOK
  <2>2. filter.status \in {"ANY", status'[i]}
    BY <2>1, <1>1
    DEF Selects, TypeOK, Tick, BeginInsert, CommitInsert, Execute, clientVars
  <2> QED
    BY <1>1, <2>1, <2>2 DEF Selects
<1>7. SteadyAhead'
  BY <1>1, <1>3, <1>6 DEF SteadyAhead, Listed, PastCursor, Selects
<1>8. PagesDescend'
  BY <1>1, <1>3 DEF PagesDescend, ListedBeforeCursor
<1>9. NothingSkipped'
  BY <1>1 DEF NothingSkipped
<1>10. ASSUME filter.status # "PENDING", NEW i \in Matching
       PROVE  i \in Matching'
  <2>1. i \in Ids /\ i \in visible /\ Selects(i) /\ PastCursor(i)
    BY <1>10 DEF Matching, Selects
  <2>2. filter.status \in {"ANY", status'[i]}
    BY <2>1, <1>10
    DEF Selects, TypeOK, Tick, BeginInsert, CommitInsert, Execute, clientVars
  <2>3. Selects(i)' /\ PastCursor(i)'
    BY <1>1, <1>3, <2>1, <2>2 DEF Selects, PastCursor
  <2> QED
    BY <2>1, <2>3 DEF Matching
<1>11. CursorLeadsOn'
  BY <1>1, <1>10 DEF CursorLeadsOn
<1> QED
  BY <1>2, <1>4, <1>5, <1>7, <1>8, <1>9, <1>11

(* The first request finds every steady row ahead of it. *)
LEMMA StartKeepsListInv ==
  ASSUME ListInv, NEW n \in Limits, StartPaging(n)
  PROVE  ListInv'
<1> USE DEF ListInv
<1>1. /\ cursor = NoCursor /\ pages = <<>>
      /\ UNCHANGED <<tableVars, filter, cursor, pages>>
      /\ phase' = "paging" /\ steady' = {i \in Ids : Selects(i)}
  BY DEF StartPaging, IdleIsEmpty
<1>2. DOMAIN pages = {}
  BY <1>1, EmptySeq, LenProperties
<1>3. PageLimit(n) \in 1 .. MaxLimit
  BY ListingAssumption DEF PageLimit
<1>4. TypeOK'
  BY <1>1, <1>3 DEF TypeOK, tableVars, StartPaging
<1>5. \A i \in Ids : Selects(i)' = Selects(i)
  BY <1>1 DEF Selects, tableVars
<1>6. SteadyAhead'
  BY <1>1, <1>5 DEF SteadyAhead, PastCursor
<1> QED
  BY <1>1, <1>2, <1>4, <1>6
  DEF IdleIsEmpty, ListedBeforeCursor, PagesDescend, NothingSkipped,
      CursorLeadsOn

(* A page: its rows are past the cursor, its last row is the next cursor, and
   what it leaves out is behind that row. *)
LEMMA FetchKeepsListInv ==
  ASSUME ListInv, FetchPage
  PROVE  ListInv'
<1> USE DEF ListInv
<1>1. /\ phase = "paging" /\ pages' = Append(pages, Page)
      /\ UNCHANGED <<tableVars, filter, limit, steady>>
  BY DEF FetchPage
<1>2. /\ pages' \in Seq(SUBSET Ids)
      /\ DOMAIN pages = 1 .. Len(pages) /\ Len(pages) \in Nat
      /\ DOMAIN pages' = 1 .. Len(pages) + 1
      /\ \A a \in DOMAIN pages : pages'[a] = pages[a]
      /\ pages'[Len(pages) + 1] = Page
  BY <1>1, PagesAppended
<1>3. \A i \in Ids : /\ Selects(i)' = Selects(i)
                     /\ PositionOf(i)' = PositionOf(i)
  BY <1>1 DEF Selects, PositionOf, tableVars
<1>4. \A i \in Page : i \in Matching /\ i \in Ids /\ i \in visible
  BY DEF Page, Matching, Selects
<1>5. \A i \in visible : PositionOf(i) \in Position
  BY DEF TypeOK, PositionOf, Position
<1>6. \A a \in DOMAIN pages : \A i \in pages[a], j \in Page :
        Older(PositionOf(j), PositionOf(i))
  <2> SUFFICES ASSUME NEW a \in DOMAIN pages, NEW i \in pages[a],
                      NEW j \in Page
               PROVE  Older(PositionOf(j), PositionOf(i))
    OBVIOUS
  <2>1. i \in visible /\ cursor # NoCursor /\ ~Older(PositionOf(i), cursor)
    BY <1>1 DEF ListedBeforeCursor
  <2>2. Older(PositionOf(j), cursor)
    BY <1>4, <2>1 DEF Matching, PastCursor
  <2>3. /\ PositionOf(i) \in Position /\ PositionOf(j) \in Position
        /\ cursor \in Position
    BY <1>4, <1>5, <2>1 DEF TypeOK
  <2> QED
    BY <2>1, <2>2, <2>3, OlderThanCursor
<1>7. PagesDescend'
  BY <1>1, <1>2, <1>3, <1>4, <1>6 DEF PagesDescend, TypeOK, ListedBeforeCursor
<1>8. CASE HasMore
  <2>1. PICK l \in Ids : IsLast(l) /\ cursor' = PositionOf(l)
    BY <1>8 DEF FetchPage
  <2>2. l \in Page /\ phase' = "paging"
    BY <1>8, <2>1 DEF FetchPage, IsLast
  <2>3. cursor' \in Position /\ cursor' # NoCursor
    BY <1>4, <1>5, <2>1, <2>2, ListingAssumption DEF Position
  <2>4. TypeOK'
    BY <1>1, <1>2, <2>2, <2>3 DEF TypeOK, tableVars
  <2>5. ASSUME NEW a \in DOMAIN pages', NEW i \in pages'[a]
        PROVE  i \in visible' /\ ~Older(PositionOf(i)', cursor')
    <3>1. CASE a \in DOMAIN pages
      <4>1. i \in pages[a] /\ i \in visible
        BY <1>2, <2>5, <3>1 DEF ListedBeforeCursor
      <4>2. Older(PositionOf(l), PositionOf(i)) /\ i \in Ids
        BY <1>6, <2>2, <3>1, <4>1 DEF TypeOK
      <4>3. ~Older(PositionOf(i), PositionOf(l))
        BY <2>1, <4>2, OlderIsTotalOrder
      <4> QED
        BY <1>1, <1>3, <2>1, <4>1, <4>2, <4>3 DEF tableVars
    <3>2. CASE a = Len(pages) + 1
      <4>1. i \in Page /\ i \in Ids /\ i \in visible
        BY <1>2, <1>4, <2>5, <3>2
      <4>2. i = l \/ Older(PositionOf(l), PositionOf(i))
        BY <2>1, <4>1 DEF IsLast
      <4>3. ~Older(PositionOf(i), PositionOf(l))
        BY <2>1, <4>1, <4>2, OlderIsTotalOrder
      <4> QED
        BY <1>1, <1>3, <2>1, <4>1, <4>3 DEF tableVars
    <3> QED
      BY <1>2, <3>1, <3>2
  <2>6. ListedBeforeCursor'
    BY <2>3, <2>5 DEF ListedBeforeCursor
  <2>7. \A i \in Matching \ Page : PastCursor(i)'
    BY <1>3, <2>1, BehindLast DEF PastCursor, Matching
  <2>8. ASSUME NEW i \in steady
        PROVE  Listed(i)' \/ PastCursor(i)'
    <3>1. i \in Ids /\ Selects(i) /\ (Listed(i) \/ PastCursor(i))
      BY <1>1, <2>8 DEF SteadyAhead, TypeOK
    <3>2. CASE Listed(i)
      BY <1>2, <3>2 DEF Listed
    <3>3. CASE i \in Page
      BY <1>2, <3>3 DEF Listed
    <3>4. CASE PastCursor(i) /\ i \notin Page
      BY <2>7, <3>1, <3>4 DEF Matching
    <3> QED
      BY <3>1, <3>2, <3>3, <3>4
  <2>9. SteadyAhead'
    BY <1>1, <1>3, <2>8 DEF SteadyAhead, TypeOK
  <2>10. PICK i \in Matching : i \notin Page
    BY <1>8 DEF HasMore, Page
  <2>11. i \in Matching'
    BY <1>3, <2>7, <2>10 DEF Matching
  <2> QED
    BY <1>7, <2>2, <2>4, <2>6, <2>9, <2>11
    DEF IdleIsEmpty, NothingSkipped, CursorLeadsOn
<1>9. CASE ~HasMore
  <2>1. cursor' = NoCursor /\ phase' = "done"
    BY <1>9 DEF FetchPage, NoNextCursor
  <2>2. TypeOK'
    BY <1>1, <1>2, <2>1 DEF TypeOK, tableVars
  <2>3. ListedBeforeCursor'
    BY <1>1, <1>2, <1>4, <2>1 DEF ListedBeforeCursor, tableVars
  <2>4. ASSUME NEW i \in steady
        PROVE  Listed(i)'
    <3>1. i \in Ids /\ Selects(i) /\ (Listed(i) \/ PastCursor(i))
      BY <1>1, <2>4 DEF SteadyAhead, TypeOK
    <3>2. CASE Listed(i)
      BY <1>2, <3>2 DEF Listed
    <3>3. CASE PastCursor(i)
      <4>1. i \in Page
        BY <1>9, <3>1, <3>3 DEF HasMore, Matching
      <4> QED
        BY <1>2, <4>1 DEF Listed
    <3> QED
      BY <3>1, <3>2, <3>3
  <2>5. SteadyAhead'
    BY <1>1, <1>3, <2>1 DEF SteadyAhead, TypeOK
  <2> QED
    BY <1>1, <1>7, <2>1, <2>2, <2>3, <2>4, <2>5
    DEF IdleIsEmpty, NothingSkipped, CursorLeadsOn, Listed
<1> QED
  BY <1>8, <1>9

(* Every step preserves the invariant. *)
LEMMA ListInvStep == ListInv /\ [Next]_vars => ListInv'
<1> SUFFICES ASSUME ListInv, [Next]_vars
             PROVE  ListInv'
  OBVIOUS
<1>1. CASE Tick \/ \E i \in Ids : BeginInsert(i) \/ CommitInsert(i) \/ Execute(i)
  BY <1>1, OthersKeepListInv
<1>2. CASE \E n \in Limits : StartPaging(n)
  BY <1>2, StartKeepsListInv
<1>3. CASE FetchPage
  BY <1>3, FetchKeepsListInv
<1>4. CASE UNCHANGED vars
  <2>1. UNCHANGED tableVars /\ UNCHANGED clientVars
    BY <1>4 DEF vars
  <2>2. TypeOK' /\ IdleIsEmpty' /\ ListedBeforeCursor'
    BY <2>1
    DEF tableVars, clientVars, ListInv, TypeOK, IdleIsEmpty,
        ListedBeforeCursor, Listed, PastCursor, PositionOf
  <2>3. SteadyAhead' /\ PagesDescend'
    BY <2>1
    DEF tableVars, clientVars, ListInv, SteadyAhead, Listed, PagesDescend,
        Matching, Selects, PastCursor, PositionOf
  <2>4. NothingSkipped' /\ CursorLeadsOn'
    BY <2>1
    DEF tableVars, clientVars, ListInv, NothingSkipped, CursorLeadsOn, Listed,
        Matching, Selects, PastCursor, PositionOf
  <2> QED
    BY <2>2, <2>3, <2>4 DEF ListInv
<1> QED
  BY <1>1, <1>2, <1>3, <1>4 DEF Next

(* What a client was given and what is still ahead of its cursor stay
   consistent for ever. *)
LEMMA ListInvariant == Spec => []ListInv
BY ListInvInit, ListInvStep, PTL DEF Spec

(* Type correctness of the listing. *)
THEOREM ListingTypeCorrect == Spec => []TypeOK
BY ListInvariant, PTL DEF ListInv

(* No row is listed twice and the pages run from the newest row to the oldest,
   whatever is inserted or executed between two pages. *)
THEOREM PagesRepeatNothing == Spec => []PagesDescend
BY ListInvariant, PTL DEF ListInv

(* A complete traversal lists every order that could be listed all along. *)
THEOREM PagesSkipNothing == Spec => []NothingSkipped
BY ListInvariant, PTL DEF ListInv

(* A cursor is handed out only if there is a row behind it. *)
THEOREM CursorsLeadOn == Spec => []CursorLeadsOn
BY ListInvariant, PTL DEF ListInv
=============================================================================
