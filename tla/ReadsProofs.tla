----------------------------- MODULE ReadsProofs -----------------------------
(***************************************************************************)
(* What readers are told beside any steps of the ledger, for any number of *)
(* rows, any page size and any width of int: histories are coherent, pages *)
(* are those that were asked for, a total covers its page, and a reader    *)
(* that turns the pages misses nothing.                                    *)
(***************************************************************************)
EXTENDS Reads, LedgerProofs, FiniteSetTheorems

-----------------------------------------------------------------------------
(* The invariant.                                                          *)

Params == [page: 1 .. MaxInt, perPage: 1 .. MaxPerPage]

IsGet(r) == \E h \in Households : r = [op |-> "get", household |-> h]

IsHistory(r) ==
  /\ r = [op |-> "history", household |-> r.household, pickups |-> r.pickups,
          payments |-> r.payments]
  /\ r.household \in Households

IsListing(r) ==
  /\ r = [op |-> "list", table |-> r.table, filter |-> r.filter, params |-> r.params,
          rows |-> r.rows, meta |-> r.meta]
  /\ r.table \in Tables /\ r.filter \in Filters /\ r.params \in Params

IsWalk(w) ==
  /\ w = [op |-> "walk", filter |-> w.filter, perPageText |-> w.perPageText,
          page |-> w.page, seen |-> w.seen, stored |-> w.stored, done |-> w.done]
  /\ w.filter \in Filters /\ w.page \in Nat \ {0}

\* The request and the answer are of the kind the statement is part of.
ReaderOK ==
  /\ pc \in {"idle", "household", "history.pickups", "history.payments",
             "list.items", "list.count"}
  /\ pc # "idle" => answer = Nothing
  /\ pc = "household" => IsGet(request) \/ IsHistory(request)
  /\ pc \in {"history.pickups", "history.payments"} => IsHistory(request)
  /\ pc \in {"list.items", "list.count"} => IsListing(request)
  /\ answer.op = "history" => IsHistory(answer)
  /\ answer.op = "list" => IsListing(answer)
  /\ walk # Nothing => IsWalk(walk) /\ asks = "walk"

\* The pickups a history has shown are still there, of its household and of their
\* type; a completed one is still completed.
PickupsStand(h, seen) ==
  \A p \in DOMAIN seen :
    /\ p \in Stored(pickups)
    /\ seen[p].household = h /\ pickups[p].household = h
    /\ seen[p].type = pickups[p].type
    /\ seen[p].status = "completed" => pickups[p].status = "completed"

PaymentsStand(h, bills) ==
  \A y \in DOMAIN bills : y \in Stored(payments) /\ payments[y].household = h

HistoryRests ==
  /\ pc = "history.payments" => PickupsStand(request.household, request.pickups)
  /\ answer.op = "history" =>
       /\ HistoryIsCoherent
       /\ PickupsStand(answer.household, answer.pickups)
       /\ PaymentsStand(answer.household, answer.payments)

\* The rows of a page are still selected, and so are as many before them as the
\* page skips.
PageRests(r) ==
  Lasting(r.table, r.filter) /\ r.rows # {} =>
    /\ r.rows \subseteq Matching(r.table, r.filter)
    /\ Cardinality(r.rows) <= r.params.perPage
    /\ Offset(r.params) + Cardinality(r.rows) <= Cardinality(Matching(r.table, r.filter))

Counted(r) ==
  /\ r.meta.perPage = r.params.perPage
  /\ Lasting(r.table, r.filter) /\ r.rows # {} =>
       r.meta.total >= Offset(r.params) + Cardinality(r.rows)

PagesRest ==
  /\ pc = "list.count" => PageRests(request)
  /\ answer.op = "list" => PageRests(answer) /\ Counted(answer)

-----------------------------------------------------------------------------
(* Turning pages.                                                          *)

PerPage(w) == Parse(w.page, w.perPageText).perPage

Newer(filter, p) ==
  {q \in PickupsWhere(filter) : pickups[q].createdAt > pickups[p].createdAt}

CreatedApart ==
  \A p, q \in Stored(pickups) : p # q => pickups[p].createdAt # pickups[q].createdAt

\* A pickup that was there when the reader started and that it has not seen yet
\* lies behind the pages it has turned.
Behind(w, seen, turned) ==
  \A p \in w.stored \ seen :
    p \in PickupsWhere(w.filter) /\ turned * PerPage(w) <= Cardinality(Newer(w.filter, p))

\* A page number beyond MaxInt asks for page 1 again, and page 1 is not all once
\* there was a second page.
WalkRests ==
  walk # Nothing /\ Lasting("pickups", walk.filter) =>
    /\ ~walk.done /\ walk.page > 1 =>
         PerPage(walk) < Cardinality(PickupsWhere(walk.filter))
    /\ ~walk.done /\ walk.page <= MaxInt /\ CreatedApart =>
         Behind(walk, walk.seen, walk.page - 1)
    /\ pc = "list.count" /\ walk.page <= MaxInt /\ CreatedApart =>
         Behind(walk, walk.seen \cup request.rows, walk.page)
    /\ walk.done /\ CreatedApart => walk.stored \subseteq walk.seen

\* The page asked for is the one the reader has got to; its offset may be beyond
\* MaxInt, but only by a page.
WalkAsks ==
  /\ asks = "walk" /\ walk = Nothing => pc = "idle"
  /\ walk # Nothing =>
       /\ ~walk.done /\ 1 < walk.page /\ walk.page <= MaxInt =>
            (walk.page - 2) * PerPage(walk) <= MaxInt
       /\ pc \in {"list.items", "list.count"} =>
            /\ ~walk.done
            /\ request.table = "pickups" /\ request.filter = walk.filter
            /\ request.params = Parse(walk.page, walk.perPageText)
            /\ pc = "list.count" => Offset(request.params) >= 0

IInv ==
  /\ TablesTypeOK
  /\ Integrity
  /\ ReaderOK
  /\ HistoryRests
  /\ PagesRest
  /\ WalkAsks
  /\ WalkRests

USE DEF tables, LedgerSpec!tables

-----------------------------------------------------------------------------
(* Page numbers and page sizes.                                            *)

LEMMA IntIsSigned ==
  /\ DefaultPerPage \in Nat /\ MaxPerPage \in Nat /\ MaxInt \in Nat
  /\ 1 <= MaxPerPage /\ MaxPerPage <= MaxInt
  BY PageAssumption

LEMMA WrapOfSmall ==
  ASSUME NEW n \in Nat, n <= MaxInt PROVE Wrap(n) = n
<1>1. /\ n + MaxInt + 1 \in Nat /\ MaxInt + 1 \in Nat /\ MaxInt + 1 <= n + MaxInt + 1
      /\ n + MaxInt + 1 < 2 * (MaxInt + 1)
  BY IntIsSigned
<1>2. \A a \in Nat, b \in Nat : a < b => a % b = a
  OBVIOUS
<1>3. (n + MaxInt + 1) % (2 * (MaxInt + 1)) = n + MaxInt + 1
  BY <1>1, <1>2
<1>4. QED
  BY <1>3, IntIsSigned DEF Wrap

LEMMA WrapOfLarge ==
  ASSUME NEW n \in Nat, MaxInt < n, n <= 2 * MaxInt PROVE Wrap(n) < 0
<1>1. /\ n + MaxInt + 1 \in Nat /\ 2 * (MaxInt + 1) \in Nat
      /\ 2 * (MaxInt + 1) <= n + MaxInt + 1
      /\ n + MaxInt + 1 < 2 * (2 * (MaxInt + 1))
  BY IntIsSigned
<1>2. \A a \in Nat, b \in Nat : b <= a /\ a < 2 * b => a % b = a - b
  OBVIOUS
<1>3. (n + MaxInt + 1) % (2 * (MaxInt + 1)) = (n + MaxInt + 1) - 2 * (MaxInt + 1)
  BY <1>1, <1>2
<1>4. QED
  BY <1>3, IntIsSigned DEF Wrap

LEMMA WrapIsInt == ASSUME NEW n \in Int PROVE Wrap(n) \in Int
<1>1. \A a \in Int, b \in Nat \ {0} : a % b \in Int
  OBVIOUS
<1>2. n + MaxInt + 1 \in Int /\ 2 * (MaxInt + 1) \in Nat \ {0}
  BY IntIsSigned
<1>3. QED
  BY <1>1, <1>2, IntIsSigned DEF Wrap

LEMMA ParseIsInRange ==
  ASSUME NEW pageText, NEW perPageText
  PROVE  /\ Parse(pageText, perPageText) \in Params
         /\ Parse(pageText, perPageText).perPage = Parse(1, perPageText).perPage
         /\ pageText \in 1 .. MaxInt => Parse(pageText, perPageText).page = pageText
         /\ pageText \notin 1 .. MaxInt => Parse(pageText, perPageText).page = 1
<1>1. 1 \in 1 .. MaxInt /\ DefaultPerPage \in 1 .. MaxInt
  BY PageAssumption
<1>2. OrDefault(pageText, 1) \in 1 .. MaxInt /\ OrDefault(perPageText, DefaultPerPage) \in 1 .. MaxInt
  BY <1>1 DEF OrDefault
<1>3. QED
  BY <1>1, <1>2, IntIsSigned DEF Parse, Params, OrDefault

LEMMA Products ==
  ASSUME NEW page \in Nat \ {0}, NEW perPage \in 1 .. MaxPerPage
  PROVE  /\ (page - 1) * perPage \in Nat /\ page * perPage \in Nat
         /\ page * perPage = (page - 1) * perPage + perPage
         /\ (page - 1) * perPage <= page * MaxPerPage
         /\ perPage <= page * perPage
<1>1. /\ perPage \in Nat /\ MaxPerPage \in Nat /\ perPage <= MaxPerPage
      /\ page - 1 \in Nat
  BY IntIsSigned
<1>2. \A m, n, k \in Nat : m <= n => k * m <= k * n /\ k * m \in Nat /\ k * n \in Nat
  OBVIOUS
<1>3. /\ (page - 1) * perPage <= (page - 1) * MaxPerPage
      /\ (page - 1) * perPage \in Nat /\ (page - 1) * MaxPerPage \in Nat
  BY <1>1, <1>2
<1>4. \A n \in Nat : page * n = (page - 1) * n + n
  OBVIOUS
<1>5. /\ page * perPage = (page - 1) * perPage + perPage
      /\ page * MaxPerPage = (page - 1) * MaxPerPage + MaxPerPage
  BY <1>1, <1>4
<1>6. QED
  BY <1>1, <1>3, <1>5

\* The offset of a page that is not absurdly far away is the one it names.
LEMMA OffsetOfSmall ==
  ASSUME NEW page \in Nat \ {0}, NEW perPage \in 1 .. MaxPerPage,
         (page - 1) * perPage <= MaxInt
  PROVE  Offset([page |-> page, perPage |-> perPage]) = (page - 1) * perPage
<1>1. (page - 1) * perPage \in Nat
  BY Products
<1>2. Wrap((page - 1) * perPage) = (page - 1) * perPage
  BY <1>1, WrapOfSmall
<1>3. QED
  BY <1>2 DEF Offset

LEMMA OffsetIsInt == ASSUME NEW params \in Params PROVE Offset(params) \in Int
<1>1. params.page \in Nat \ {0} /\ params.perPage \in 1 .. MaxPerPage
  BY IntIsSigned DEF Params
<1>2. (params.page - 1) * params.perPage \in Int
  BY <1>1, Products
<1>3. QED
  BY <1>2, WrapIsInt DEF Offset

-----------------------------------------------------------------------------
(* The rows a filter selects.                                              *)

LEMMA Counts ==
  ASSUME NEW S, IsFiniteSet(S), NEW T \in SUBSET S
  PROVE  /\ IsFiniteSet(T) /\ Cardinality(T) \in Nat /\ Cardinality(S) \in Nat
         /\ Cardinality(T) <= Cardinality(S)
         /\ T # S => Cardinality(T) < Cardinality(S)
  BY FS_Subset, FS_CardinalityType

LEMMA CountsOfDisjoint ==
  ASSUME NEW S, IsFiniteSet(S), NEW T \in SUBSET S, NEW U \in SUBSET S, T \cap U = {}
  PROVE  /\ Cardinality(T \cup U) = Cardinality(T) + Cardinality(U)
         /\ Cardinality(T) \in Nat /\ Cardinality(U) \in Nat
         /\ Cardinality(T) + Cardinality(U) <= Cardinality(S)
<1>1. IsFiniteSet(T) /\ IsFiniteSet(U) /\ Cardinality(T) \in Nat /\ Cardinality(U) \in Nat
  BY Counts
<1>2. Cardinality(T \cap U) = 0
  BY FS_EmptySet
<1>3. Cardinality(T \cup U) = Cardinality(T) + Cardinality(U) - Cardinality(T \cap U)
  BY <1>1, FS_Union
<1>4. Cardinality(T \cup U) <= Cardinality(S)
  BY Counts
<1>5. QED
  BY <1>1, <1>2, <1>3, <1>4

LEMMA FiniteMatches ==
  ASSUME NEW table \in {"pickups", "payments"}, NEW filter
  PROVE  IsFiniteSet(Matching(table, filter)) /\ Cardinality(Matching(table, filter)) \in Nat
<1>1. PickupsWhere(filter) \in SUBSET PickupIds /\ PaymentsWhere(filter) \in SUBSET PaymentIds
  BY DEF PickupsWhere, PaymentsWhere
<1>2. /\ table = "pickups" => Matching(table, filter) = PickupsWhere(filter)
      /\ table = "payments" => Matching(table, filter) = PaymentsWhere(filter)
  BY DEF Matching
<1>3. QED
  BY <1>1, <1>2, Counts, FiniteAssumption

-----------------------------------------------------------------------------
(* The reader's requests and answers.                                      *)

LEMMA RequestKinds ==
  ASSUME NEW r
  PROVE  /\ IsGet(r) => r.op = "get"
         /\ IsHistory(r) => r.op = "history"
         /\ IsListing(r) => r.op = "list"
         /\ \A e : Refused(e).op = "error"
         /\ Nothing.op = "none"
         /\ IsWalk(r) => r # Nothing
<1>1. IsGet(r) => r.op = "get"
  BY DEF IsGet
<1>2. IsHistory(r) => r.op = "history"
  <2>1. [op |-> "history", household |-> r.household, pickups |-> r.pickups,
         payments |-> r.payments].op = "history"
    OBVIOUS
  <2>2. QED
    BY <2>1 DEF IsHistory
<1>3. IsListing(r) => r.op = "list"
  <2>1. [op |-> "list", table |-> r.table, filter |-> r.filter, params |-> r.params,
         rows |-> r.rows, meta |-> r.meta].op = "list"
    OBVIOUS
  <2>2. QED
    BY <2>1 DEF IsListing
<1>4. IsWalk(r) => r.op = "walk"
  <2>1. [op |-> "walk", filter |-> r.filter, perPageText |-> r.perPageText,
         page |-> r.page, seen |-> r.seen, stored |-> r.stored, done |-> r.done].op = "walk"
    OBVIOUS
  <2>2. QED
    BY <2>1 DEF IsWalk
<1>5. Nothing.op = "none" /\ \A e : Refused(e).op = "error"
  BY DEF Nothing, Refused
<1>6. QED
  BY <1>1, <1>2, <1>3, <1>4, <1>5

\* What the statements of a history, a list and a walk write into their records.
LEMMA HistoryFields ==
  ASSUME NEW r, IsHistory(r), NEW ps, NEW ys
  PROVE  /\ IsHistory([r EXCEPT !.pickups = ps]) /\ IsHistory([r EXCEPT !.payments = ys])
         /\ [r EXCEPT !.pickups = ps].household = r.household
         /\ [r EXCEPT !.pickups = ps].pickups = ps
         /\ [r EXCEPT !.payments = ys].household = r.household
         /\ [r EXCEPT !.payments = ys].pickups = r.pickups
         /\ [r EXCEPT !.payments = ys].payments = ys
<1> DEFINE h == r.household
           seen == r.pickups
           bills == r.payments
<1>1. r = [op |-> "history", household |-> h, pickups |-> seen, payments |-> bills]
  BY DEF IsHistory
<1>2. h \in Households
  BY DEF IsHistory
<1> HIDE DEF h, seen, bills
<1>3. /\ [r EXCEPT !.pickups = ps] =
           [op |-> "history", household |-> h, pickups |-> ps, payments |-> bills]
      /\ [r EXCEPT !.payments = ys] =
           [op |-> "history", household |-> h, pickups |-> seen, payments |-> ys]
  BY <1>1
<1>4. r.household = h /\ r.pickups = seen
  BY <1>1
<1>5. QED
  BY <1>2, <1>3, <1>4 DEF IsHistory

LEMMA ListingFields ==
  ASSUME NEW r, IsListing(r)
  PROVE  /\ \A P : LET q == [r EXCEPT !.rows = P] IN
                  /\ IsListing(q) /\ q.table = r.table /\ q.filter = r.filter
                  /\ q.params = r.params /\ q.rows = P
         /\ \A m : LET q == [r EXCEPT !.meta = m] IN
                  /\ IsListing(q) /\ q.table = r.table /\ q.filter = r.filter
                  /\ q.params = r.params /\ q.rows = r.rows /\ q.meta = m
<1> DEFINE table == r.table
           filter == r.filter
           params == r.params
           rows == r.rows
           meta == r.meta
<1>1. r = [op |-> "list", table |-> table, filter |-> filter, params |-> params,
           rows |-> rows, meta |-> meta]
  BY DEF IsListing
<1>2. table \in Tables /\ filter \in Filters /\ params \in Params
  BY DEF IsListing
<1>3. /\ r.table = table /\ r.filter = filter /\ r.params = params /\ r.rows = rows
      /\ r.meta = meta
  OBVIOUS
<1> HIDE DEF table, filter, params, rows, meta
<1>4. ASSUME NEW P
      PROVE  LET q == [r EXCEPT !.rows = P] IN
               /\ IsListing(q) /\ q.table = r.table /\ q.filter = r.filter
               /\ q.params = r.params /\ q.rows = P
  <2>1. [r EXCEPT !.rows = P] =
          [op |-> "list", table |-> table, filter |-> filter, params |-> params,
           rows |-> P, meta |-> meta]
    BY <1>1
  <2>2. QED
    BY <1>2, <1>3, <2>1 DEF IsListing
<1>5. ASSUME NEW m
      PROVE  LET q == [r EXCEPT !.meta = m] IN
               /\ IsListing(q) /\ q.table = r.table /\ q.filter = r.filter
               /\ q.params = r.params /\ q.rows = r.rows /\ q.meta = m
  <2>1. [r EXCEPT !.meta = m] =
          [op |-> "list", table |-> table, filter |-> filter, params |-> params,
           rows |-> rows, meta |-> m]
    BY <1>1
  <2>2. QED
    BY <1>2, <1>3, <2>1 DEF IsListing
<1>6. QED
  BY <1>4, <1>5

LEMMA NewListing ==
  ASSUME NEW table \in Tables, NEW filter \in Filters, NEW params \in Params
  PROVE  /\ IsListing(Listing(table, filter, params))
         /\ Listing(table, filter, params).table = table
         /\ Listing(table, filter, params).filter = filter
         /\ Listing(table, filter, params).params = params
<1> DEFINE r == [op |-> "list", table |-> table, filter |-> filter, params |-> params,
                 rows |-> {}, meta |-> Nothing]
<1>1. /\ r.table = table /\ r.filter = filter /\ r.params = params /\ r.rows = {}
      /\ r.meta = Nothing
  OBVIOUS
<1>2. r = [op |-> "list", table |-> r.table, filter |-> r.filter, params |-> r.params,
           rows |-> r.rows, meta |-> r.meta]
  BY <1>1
<1>3. r = Listing(table, filter, params)
  BY DEF Listing
<1> HIDE DEF r
<1>4. QED
  BY <1>1, <1>2, <1>3 DEF IsListing

LEMMA NotedIsWalk ==
  ASSUME NEW w, IsWalk(w), NEW S, NEW d
  PROVE  IsWalk([w EXCEPT !.seen = S, !.page = @ + 1, !.done = d])
<1> DEFINE filter == w.filter
           text == w.perPageText
           page == w.page
           seen == w.seen
           stored == w.stored
           done == w.done
<1>1. w = [op |-> "walk", filter |-> filter, perPageText |-> text, page |-> page,
           seen |-> seen, stored |-> stored, done |-> done]
  BY DEF IsWalk
<1>2. filter \in Filters /\ page \in Nat \ {0}
  BY DEF IsWalk
<1> HIDE DEF filter, text, page, seen, stored, done
<1> DEFINE v == [w EXCEPT !.seen = S, !.page = @ + 1, !.done = d]
<1>3. v = [op |-> "walk", filter |-> filter, perPageText |-> text, page |-> page + 1,
           seen |-> S, stored |-> stored, done |-> d]
  <2>1. \A u, x, y, z : u = [op |-> "walk", filter |-> filter, perPageText |-> text,
                            page |-> x, seen |-> y, stored |-> stored, done |-> z] =>
          /\ [u EXCEPT !.seen = S] =
               [op |-> "walk", filter |-> filter, perPageText |-> text, page |-> x,
                seen |-> S, stored |-> stored, done |-> z]
          /\ [u EXCEPT !.page = page + 1] =
               [op |-> "walk", filter |-> filter, perPageText |-> text, page |-> page + 1,
                seen |-> y, stored |-> stored, done |-> z]
          /\ [u EXCEPT !.done = d] =
               [op |-> "walk", filter |-> filter, perPageText |-> text, page |-> x,
                seen |-> y, stored |-> stored, done |-> d]
    OBVIOUS
  <2>2. w.page = page
    BY <1>1
  <2> DEFINE u1 == [w EXCEPT !.seen = S]
             u2 == [u1 EXCEPT !.page = page + 1]
             u3 == [u2 EXCEPT !.done = d]
  <2>3. v = u3
    BY <1>1, <2>2
  <2>4. u1 = [op |-> "walk", filter |-> filter, perPageText |-> text, page |-> page,
              seen |-> S, stored |-> stored, done |-> done]
    BY <1>1, <2>1
  <2> HIDE DEF u1
  <2>5. u2 = [op |-> "walk", filter |-> filter, perPageText |-> text, page |-> page + 1,
              seen |-> S, stored |-> stored, done |-> done]
    BY <2>1, <2>4
  <2> HIDE DEF u2
  <2>6. u3 = [op |-> "walk", filter |-> filter, perPageText |-> text, page |-> page + 1,
              seen |-> S, stored |-> stored, done |-> d]
    BY <2>1, <2>5
  <2>7. QED
    BY <2>3, <2>6
<1>4. page + 1 \in Nat \ {0}
  BY <1>2
<1>5. IsWalk(v)
  <2>1. /\ v.filter = filter /\ v.perPageText = text /\ v.page = page + 1 /\ v.seen = S
        /\ v.stored = stored /\ v.done = d
    BY <1>3
  <2> HIDE DEF v
  <2>2. QED
    BY <1>2, <1>3, <1>4, <2>1 DEF IsWalk
<1>6. QED
  BY <1>5

LEMMA NotedWalk ==
  ASSUME NEW meta, IsWalk(walk)
  PROVE  LET v == Noted(meta) IN
           /\ IsWalk(v) /\ v # Nothing
           /\ v.filter = walk.filter /\ v.perPageText = walk.perPageText
           /\ v.page = walk.page + 1 /\ v.seen = walk.seen \cup request.rows
           /\ v.stored = walk.stored
           /\ v.done <=> meta.page * meta.perPage >= meta.total
<1>1. PICK S : S = walk.seen \cup request.rows
  OBVIOUS
<1>2. PICK d : d = (meta.page * meta.perPage >= meta.total)
  OBVIOUS
<1> DEFINE v == [walk EXCEPT !.seen = S, !.page = @ + 1, !.done = d]
<1>3. v = Noted(meta)
  BY <1>1, <1>2 DEF Noted
<1>4. /\ IsWalk(v) /\ v.filter = walk.filter /\ v.perPageText = walk.perPageText
      /\ v.page = walk.page + 1 /\ v.seen = S /\ v.stored = walk.stored /\ v.done = d
  <2>1. IsWalk(v)
    BY NotedIsWalk
  <2>2. {"filter", "perPageText", "page", "seen", "stored", "done"} \subseteq DOMAIN walk
    <3>1. PICK a, b, c, e, f, g : walk = [op |-> "walk", filter |-> a, perPageText |-> b,
                                         page |-> c, seen |-> e, stored |-> f, done |-> g]
      BY DEF IsWalk
    <3>2. QED
      BY <3>1
  <2>3. QED
    BY <2>1, <2>2
<1> HIDE DEF v
<1>5. v # Nothing
  BY <1>4, RequestKinds
<1>6. v.done <=> meta.page * meta.perPage >= meta.total
  BY <1>2, <1>4, Zenon
<1>7. QED
  BY <1>1, <1>3, <1>4, <1>5, <1>6, Zenon

LEMMA ListItemsSteps ==
  ASSUME ReaderOK, ListItems
  PROVE  /\ pc = "list.items" /\ IsListing(request) /\ UNCHANGED <<tables, asks, walk>>
         /\ \/ pc' = "idle" /\ request' = Nothing /\ answer' = Refused("INTERNAL_ERROR")
            \/ /\ pc' = "list.count" /\ answer' = Nothing
               /\ Offset(request.params) >= 0
               /\ \E P \in Pages(request.table, Matching(request.table, request.filter),
                                request.params) :
                    request' = [request EXCEPT !.rows = P]
<1>1. pc = "list.items" /\ IsListing(request) /\ answer = Nothing
  BY DEF ListItems, ReaderOK
<1>2. QED
  BY <1>1, Zenon DEF ListItems, Reply

LEMMA ListReplySteps ==
  ASSUME ReaderOK, ListReply
  PROVE  LET meta == NewMeta(request.params, CountRows) IN
           /\ pc = "list.count" /\ IsListing(request) /\ UNCHANGED <<tables, asks>>
           /\ pc' = "idle" /\ request' = Nothing /\ answer' = [request EXCEPT !.meta = meta]
           /\ IsListing(answer')
           /\ walk' = IF walk = Nothing THEN walk ELSE Noted(meta)
<1> DEFINE meta == NewMeta(request.params, CountRows)
<1>1. /\ pc = "list.count" /\ IsListing(request) /\ UNCHANGED <<tables, asks>>
      /\ pc' = "idle" /\ request' = Nothing /\ answer' = [request EXCEPT !.meta = meta]
      /\ walk' = IF walk = Nothing THEN walk ELSE Noted(meta)
  BY DEF ListReply, Reply, ReaderOK
<1>2. IsListing(answer')
  BY <1>1, ListingFields
<1>3. QED
  BY <1>1, <1>2

LEMMA ReaderKept ==
  ASSUME ReaderOK, [Next]_vars PROVE ReaderOK'
<1>1. ASSUME NEW h \in Households, StartGet(h) PROVE ReaderOK'
  <2>1. IsGet([op |-> "get", household |-> h])
    BY DEF IsGet
  <2>2. /\ pc' = "household" /\ request' = [op |-> "get", household |-> h]
        /\ answer' = Nothing /\ UNCHANGED <<asks, walk>>
    BY <1>1 DEF StartGet, Begin
  <2>3. QED
    BY <2>1, <2>2, RequestKinds DEF ReaderOK
<1>2. ASSUME NEW h \in Households, StartHistory(h) PROVE ReaderOK'
  <2> DEFINE r == [op |-> "history", household |-> h, pickups |-> NoRows, payments |-> NoRows]
  <2>1. r.household = h /\ r.pickups = NoRows /\ r.payments = NoRows
    OBVIOUS
  <2>2. /\ pc' = "household" /\ request' = r /\ answer' = Nothing /\ UNCHANGED <<asks, walk>>
    BY <1>2 DEF StartHistory, Begin
  <2>3. r = [op |-> "history", household |-> r.household, pickups |-> r.pickups,
             payments |-> r.payments]
    BY <2>1
  <2> HIDE DEF r
  <2>4. IsHistory(r)
    BY <2>1, <2>3 DEF IsHistory
  <2>5. QED
    BY <2>2, <2>4, RequestKinds DEF ReaderOK
<1>3. CASE FindHousehold
  <2>1. pc = "household" /\ UNCHANGED <<asks, walk>> /\ (IsGet(request) \/ IsHistory(request))
    BY <1>3 DEF FindHousehold, Reply, ReaderOK
  <2>2. CASE pc' = "idle" /\ answer' = Refused("HOUSEHOLD_NOT_FOUND")
    BY <2>1, <2>2, RequestKinds DEF ReaderOK
  <2>3. CASE pc' = "idle" /\ request.op = "get" /\ answer' = request
    BY <2>1, <2>3, RequestKinds DEF ReaderOK
  <2>4. CASE /\ request.op = "history" /\ pc' = "history.pickups"
             /\ UNCHANGED <<request, answer>>
    BY <2>1, <2>4, RequestKinds DEF ReaderOK
  <2>5. QED
    BY <1>3, <2>2, <2>3, <2>4 DEF FindHousehold, Reply
<1>4. CASE HouseholdPickups
  <2>1. /\ IsHistory(request) /\ pc' = "history.payments" /\ answer' = Nothing
        /\ UNCHANGED <<asks, walk>>
        /\ request' = [request EXCEPT !.pickups = PickupsOf(request.household)]
    BY <1>4 DEF HouseholdPickups, ReaderOK
  <2>2. IsHistory(request')
    BY <2>1, HistoryFields
  <2>3. QED
    BY <2>1, <2>2, RequestKinds DEF ReaderOK
<1>5. CASE HouseholdPayments
  <2>1. /\ IsHistory(request) /\ pc' = "idle" /\ UNCHANGED <<asks, walk>>
        /\ answer' = [request EXCEPT !.payments = PaymentsOf(request.household)]
    BY <1>5 DEF HouseholdPayments, Reply, ReaderOK
  <2>2. IsHistory(answer')
    BY <2>1, HistoryFields
  <2>3. QED
    BY <2>1, <2>2, RequestKinds DEF ReaderOK
<1>6. ASSUME NEW table \in Tables, NEW f \in Filters, NEW page \in PageTexts,
             NEW n \in PerPageTexts, StartList(table, f, page, n)
      PROVE  ReaderOK'
  <2>1. /\ pc' = "list.items" /\ request' = Listing(table, f, Parse(page, n))
        /\ answer' = Nothing /\ UNCHANGED <<asks, walk>>
    BY <1>6 DEF StartList, Begin
  <2>2. IsListing(request')
    BY <2>1, ParseIsInRange, NewListing
  <2>3. QED
    BY <2>1, <2>2, RequestKinds DEF ReaderOK
<1>7. ASSUME NEW f \in Filters, NEW n \in PerPageTexts, StartWalk(f, n) PROVE ReaderOK'
  <2> DEFINE w == [op |-> "walk", filter |-> f, perPageText |-> n, page |-> 1, seen |-> {},
                   stored |-> PickupsWhere(f), done |-> FALSE]
  <2>1. /\ w.filter = f /\ w.perPageText = n /\ w.page = 1 /\ w.seen = {}
        /\ w.stored = PickupsWhere(f) /\ w.done = FALSE
    OBVIOUS
  <2>2. /\ asks = "walk" /\ walk' = w /\ UNCHANGED <<asks, pc, request, answer>>
    BY <1>7 DEF StartWalk
  <2>3. w = [op |-> "walk", filter |-> w.filter, perPageText |-> w.perPageText,
             page |-> w.page, seen |-> w.seen, stored |-> w.stored, done |-> w.done]
    BY <2>1
  <2> HIDE DEF w
  <2>4. IsWalk(w)
    BY <2>1, <2>3 DEF IsWalk
  <2>5. QED
    BY <2>2, <2>4 DEF ReaderOK
<1>8. CASE ListItems
  <2>1. IsListing(request) /\ UNCHANGED <<asks, walk>>
    BY <1>8, ListItemsSteps
  <2>2. CASE pc' = "idle" /\ answer' = Refused("INTERNAL_ERROR")
    BY <2>1, <2>2, RequestKinds DEF ReaderOK
  <2>3. CASE /\ pc' = "list.count" /\ answer' = Nothing
             /\ \E P : request' = [request EXCEPT !.rows = P]
    <3>1. PICK P : request' = [request EXCEPT !.rows = P]
      BY <2>3
    <3>2. IsListing(request')
      BY <2>1, <3>1, ListingFields
    <3>3. QED
      BY <2>1, <2>3, <3>2, RequestKinds DEF ReaderOK
  <2>4. QED
    BY <1>8, <2>2, <2>3, ListItemsSteps
<1>9. CASE ListReply
  <2> DEFINE meta == NewMeta(request.params, CountRows)
  <2>1. /\ pc' = "idle" /\ IsListing(answer')
        /\ asks' = asks /\ walk' = IF walk = Nothing THEN walk ELSE Noted(meta)
    BY <1>9, ListReplySteps
  <2>2. walk # Nothing => IsWalk(Noted(meta))
    BY NotedWalk DEF ReaderOK
  <2>3. QED
    BY <2>1, <2>2, RequestKinds DEF ReaderOK
<1>10. CASE NextPage
  <2>1. /\ walk # Nothing /\ IsWalk(walk) /\ pc' = "list.items" /\ answer' = Nothing
        /\ request' = Listing("pickups", walk.filter, Parse(walk.page, walk.perPageText))
        /\ UNCHANGED <<asks, walk>>
    BY <1>10 DEF NextPage, Begin, ReaderOK
  <2>2. /\ walk.filter \in Filters /\ "pickups" \in Tables
        /\ Parse(walk.page, walk.perPageText) \in Params
    BY <2>1, ParseIsInRange DEF IsWalk, Tables
  <2>3. IsListing(request')
    BY <2>1, <2>2, NewListing
  <2>4. QED
    BY <2>1, <2>3, RequestKinds DEF ReaderOK
<1>11. CASE Summary(WasteSummary) \/ Summary(PaymentSummary)
  BY <1>11 DEF Summary, ReaderOK
<1>12. CASE ReadFails
  BY <1>12, RequestKinds DEF ReadFails, Reply, ReaderOK
<1>13. CASE Write \/ UNCHANGED vars
  BY <1>13 DEF Write, vars, reader, ReaderOK
<1>14. QED
  BY <1>1, <1>2, <1>3, <1>4, <1>5, <1>6, <1>7, <1>8, <1>9, <1>10, <1>11, <1>12, <1>13
     DEF Next, Read, Start

-----------------------------------------------------------------------------
(* The data beside the reader.                                             *)

LEMMA ReadsOnly == Read => UNCHANGED tables
<1>1. ASSUME Start PROVE UNCHANGED tables
  <2>1. ASSUME NEW h \in Households, StartGet(h) \/ StartHistory(h) PROVE UNCHANGED tables
    BY <2>1 DEF StartGet, StartHistory, Begin
  <2>2. ASSUME NEW table \in Tables, NEW f \in Filters, NEW page \in PageTexts,
               NEW n \in PerPageTexts, StartList(table, f, page, n)
        PROVE  UNCHANGED tables
    BY <2>2 DEF StartList, Begin
  <2>3. ASSUME NEW f \in Filters, NEW n \in PerPageTexts, StartWalk(f, n)
        PROVE  UNCHANGED tables
    BY <2>3 DEF StartWalk
  <2>4. QED
    BY <1>1, <2>1, <2>2, <2>3 DEF Start
<1>2. FindHousehold => UNCHANGED tables
  BY DEF FindHousehold, Reply
<1>3. HouseholdPickups \/ HouseholdPayments => UNCHANGED tables
  BY DEF HouseholdPickups, HouseholdPayments, Reply
<1>4. ListItems => UNCHANGED tables
  BY Zenon DEF ListItems, Reply
<1>5. ListReply \/ NextPage => UNCHANGED tables
  BY DEF ListReply, NextPage, Reply, Begin
<1>6. Summary(WasteSummary) \/ Summary(PaymentSummary) \/ ReadFails => UNCHANGED tables
  BY DEF Summary, ReadFails, Reply
<1>7. QED
  BY <1>1, <1>2, <1>3, <1>4, <1>5, <1>6 DEF Read

LEMMA DataSteps == ASSUME [Next]_vars PROVE [LedgerSpec!Next]_tables
  BY ReadsOnly DEF Next, Write, vars

LEMMA DataKept ==
  ASSUME TablesTypeOK, Integrity, [Next]_vars
  PROVE  TablesTypeOK' /\ Integrity' /\ RowsLast /\ NothingFinalChanges
<1>1. [LedgerSpec!Next]_tables
  BY DataSteps
<1>2. TablesTypeOK'
  BY <1>1, LedgerKeepsTypes
<1>3. Integrity'
  BY <1>1, <1>2, LedgerKeepsIntegrity
<1>4. QED
  BY <1>1, <1>2, <1>3, LedgerKeepsRows, LedgerKeepsFinalData

\* What a statement reads is what is stored at that instant.
LEMMA RowsRead ==
  ASSUME TablesTypeOK, NEW h
  PROVE  /\ \A p : p \in DOMAIN PickupsOf(h) <=>
                    p \in PickupIds /\ pickups[p] # None /\ pickups[p].household = h
         /\ \A p \in DOMAIN PickupsOf(h) : PickupsOf(h)[p] = pickups[p]
         /\ \A y : y \in DOMAIN PaymentsOf(h) <=>
                    y \in PaymentIds /\ payments[y] # None /\ payments[y].household = h
         /\ \A y \in DOMAIN PaymentsOf(h) : PaymentsOf(h)[y] = payments[y]
<1>1. Stored(pickups) = {p \in PickupIds : pickups[p] # None}
  BY StoredRows
<1>2. Stored(payments) = {y \in PaymentIds : payments[y] # None}
  BY StoredRows
<1>3. QED
  BY <1>1, <1>2 DEF PickupsOf, PaymentsOf, Shown

-----------------------------------------------------------------------------
(* Histories.                                                              *)

LEMMA PickupsGoOnStanding ==
  ASSUME TablesTypeOK, Integrity, [Next]_vars, NEW h, NEW seen, PickupsStand(h, seen)
  PROVE  \A p \in DOMAIN seen :
           /\ p \in PickupIds /\ pickups'[p] # None
           /\ seen[p].household = h /\ pickups'[p].household = h
           /\ seen[p].type = pickups'[p].type
           /\ seen[p].status = "completed" => pickups'[p].status = "completed"
<1> SUFFICES ASSUME NEW p \in DOMAIN seen
             PROVE  /\ p \in PickupIds /\ pickups'[p] # None
                    /\ seen[p].household = h /\ pickups'[p].household = h
                    /\ seen[p].type = pickups'[p].type
                    /\ seen[p].status = "completed" => pickups'[p].status = "completed"
  OBVIOUS
<1>1. /\ p \in Stored(pickups) /\ p \in PickupIds
      /\ seen[p].household = h /\ pickups[p].household = h
      /\ seen[p].type = pickups[p].type
      /\ seen[p].status = "completed" => pickups[p].status = "completed"
  BY StoredRows DEF PickupsStand
<1>2. /\ pickups'[p] # None /\ pickups'[p].household = pickups[p].household
      /\ pickups'[p].type = pickups[p].type
      /\ pickups[p].status = "completed" => pickups'[p].status = "completed"
  BY <1>1, DataKept DEF RowsLast, NothingFinalChanges
<1>3. QED
  BY <1>1, <1>2

LEMMA PaymentsGoOnStanding ==
  ASSUME TablesTypeOK, Integrity, [Next]_vars, NEW h, NEW bills, PaymentsStand(h, bills)
  PROVE  \A y \in DOMAIN bills :
           y \in PaymentIds /\ payments'[y] # None /\ payments'[y].household = h
<1> SUFFICES ASSUME NEW y \in DOMAIN bills
             PROVE  y \in PaymentIds /\ payments'[y] # None /\ payments'[y].household = h
  OBVIOUS
<1>1. y \in Stored(payments) /\ y \in PaymentIds /\ payments[y].household = h
  BY StoredRows DEF PaymentsStand
<1>2. payments'[y] # None /\ payments'[y].household = payments[y].household
  BY <1>1, DataKept DEF RowsLast
<1>3. QED
  BY <1>1, <1>2

\* The answer to a history: the household, its pickups as they were read a while
\* ago and its payments as they are now.
LEMMA CompletedAreShownBilled ==
  ASSUME TablesTypeOK, Integrity, NEW h, NEW seen, PickupsStand(h, seen),
         NEW p \in DOMAIN seen, seen[p].status = "completed"
  PROVE  \E y \in DOMAIN PaymentsOf(h) :
           /\ PaymentsOf(h)[y].waste = p
           /\ PaymentsOf(h)[y].amount = AmountFor(seen[p].type)
<1>1. /\ p \in Stored(pickups) /\ pickups[p].household = h /\ seen[p].type = pickups[p].type
      /\ pickups[p].status = "completed"
  BY DEF PickupsStand
<1>2. PICK y \in Stored(payments) : payments[y].waste = p
  BY <1>1 DEF Integrity, CompletedIsBilledOnce, Billed
<1>3. payments[y].household = h /\ payments[y].amount = AmountFor(pickups[p].type)
  BY <1>1, <1>2 DEF Integrity, BillMatchesPickup
<1>4. y \in DOMAIN PaymentsOf(h) /\ PaymentsOf(h)[y] = payments[y]
  <2>1. y \in PaymentIds /\ payments[y] # None
    BY StoredRows
  <2>2. y \in DOMAIN PaymentsOf(h)
    BY <1>3, <2>1, RowsRead
  <2>3. QED
    BY <2>2, RowsRead
<1>5. QED
  BY <1>1, <1>2, <1>3, <1>4

LEMMA HouseholdIsThere ==
  ASSUME TablesTypeOK', Integrity', NEW h, NEW seen, NEW bills,
         \A p \in DOMAIN seen :
           p \in PickupIds /\ pickups'[p] # None /\ pickups'[p].household = h,
         \A y \in DOMAIN bills :
           y \in PaymentIds /\ payments'[y] # None /\ payments'[y].household = h,
         DOMAIN seen \cup DOMAIN bills # {}
  PROVE  h \in households'
<1>1. \A p \in PickupIds : pickups'[p] # None => pickups'[p].household \in households'
  BY StoredRowsNext DEF Integrity, BillMatchesPickup
<1>2. CASE \E p : p \in DOMAIN seen
  BY <1>1, <1>2
<1>3. CASE \E y : y \in DOMAIN bills
  <2>1. PICK y : y \in DOMAIN bills
    BY <1>3
  <2>2. y \in Stored(payments)' /\ payments'[y] \in Payment /\ payments'[y].household = h
    BY <2>1, StoredRowsNext
  <2>3. /\ payments'[y].waste \in PickupIds /\ pickups'[payments'[y].waste] # None
        /\ payments'[y].household = pickups'[payments'[y].waste].household
    BY <2>2 DEF Integrity, BillMatchesPickup, Payment
  <2>4. QED
    BY <1>1, <2>2, <2>3
<1>4. QED
  BY <1>2, <1>3

LEMMA RowsStand ==
  ASSUME TablesTypeOK, NEW h
  PROVE  PickupsStand(h, PickupsOf(h)) /\ PaymentsStand(h, PaymentsOf(h))
<1>1. /\ \A p : p \in Stored(pickups) <=> p \in PickupIds /\ pickups[p] # None
      /\ \A y : y \in Stored(payments) <=> y \in PaymentIds /\ payments[y] # None
  BY StoredRows
<1>2. \A p \in DOMAIN PickupsOf(h) :
        /\ p \in Stored(pickups) /\ pickups[p].household = h
        /\ PickupsOf(h)[p] = pickups[p]
  BY <1>1, RowsRead
<1>3. \A y \in DOMAIN PaymentsOf(h) : y \in Stored(payments) /\ payments[y].household = h
  BY <1>1, RowsRead
<1>4. QED
  BY <1>2, <1>3 DEF PickupsStand, PaymentsStand

LEMMA HistoryKept ==
  ASSUME TablesTypeOK, Integrity, ReaderOK, HistoryRests, [Next]_vars
  PROVE  HistoryRests'
<1>1. TablesTypeOK' /\ Integrity' /\ ReaderOK'
  BY DataKept, ReaderKept
<1>2. ASSUME NEW h, NEW seen, PickupsStand(h, seen),
             request'.household = h, request'.pickups = seen
      PROVE  PickupsStand(request.household, request.pickups)'
  <2>1. \A p \in PickupIds : p \in Stored(pickups)' <=> pickups'[p] # None
    BY <1>1, StoredRowsNext
  <2>2. \A p \in DOMAIN seen :
          /\ p \in PickupIds /\ pickups'[p] # None
          /\ seen[p].household = h /\ pickups'[p].household = h
          /\ seen[p].type = pickups'[p].type
          /\ seen[p].status = "completed" => pickups'[p].status = "completed"
    BY <1>2, PickupsGoOnStanding
  <2>3. QED
    BY <1>2, <2>1, <2>2 DEF PickupsStand
<1>3. ASSUME NEW h, NEW seen, NEW bills, PickupsStand(h, seen), PaymentsStand(h, bills),
             answer'.household = h, answer'.pickups = seen, answer'.payments = bills,
             \A p \in DOMAIN seen :
               seen[p].status = "completed" =>
                 \E y \in DOMAIN bills :
                   bills[y].waste = p /\ bills[y].amount = AmountFor(seen[p].type)
      PROVE  (/\ HistoryIsCoherent
              /\ PickupsStand(answer.household, answer.pickups)
              /\ PaymentsStand(answer.household, answer.payments))'
  <2>1. \A p \in DOMAIN seen :
           /\ p \in PickupIds /\ pickups'[p] # None
           /\ seen[p].household = h /\ pickups'[p].household = h
           /\ seen[p].type = pickups'[p].type
           /\ seen[p].status = "completed" => pickups'[p].status = "completed"
    BY <1>3, PickupsGoOnStanding
  <2>2. \A y \in DOMAIN bills :
          y \in PaymentIds /\ payments'[y] # None /\ payments'[y].household = h
    BY <1>3, PaymentsGoOnStanding
  <2>3. /\ \A p \in PickupIds : p \in Stored(pickups)' <=> pickups'[p] # None
        /\ \A y \in PaymentIds : y \in Stored(payments)' <=> payments'[y] # None
    BY <1>1, StoredRowsNext
  <2>4. PickupsStand(answer.household, answer.pickups)'
    BY <1>3, <2>1, <2>3 DEF PickupsStand
  <2>5. PaymentsStand(answer.household, answer.payments)'
    BY <1>3, <2>2, <2>3 DEF PaymentsStand
  <2>6. DOMAIN seen \cup DOMAIN bills # {} => h \in households'
    BY <1>1, <2>1, <2>2, HouseholdIsThere
  <2>7. HistoryIsCoherent'
    BY <1>3, <2>1, <2>6 DEF HistoryIsCoherent, AmountFor
  <2>8. QED
    BY <2>4, <2>5, <2>7
<1>4. CASE HouseholdPickups
  <2> DEFINE h == request.household
             seen == PickupsOf(request.household)
  <2>1. /\ IsHistory(request) /\ pc' = "history.payments" /\ answer' = Nothing
        /\ request' = [request EXCEPT !.pickups = seen]
    BY <1>4 DEF HouseholdPickups, ReaderOK
  <2>2. request'.household = h /\ request'.pickups = seen
    BY <2>1, HistoryFields
  <2>3. PickupsStand(h, seen)
    BY RowsStand
  <2>4. PickupsStand(request.household, request.pickups)'
    BY <1>2, <2>2, <2>3
  <2>5. answer'.op # "history"
    BY <2>1, RequestKinds
  <2>6. QED
    BY <2>1, <2>4, <2>5 DEF HistoryRests
<1>5. CASE HouseholdPayments
  <2> DEFINE h == request.household
             seen == request.pickups
             bills == PaymentsOf(request.household)
  <2>1. /\ IsHistory(request) /\ pc = "history.payments" /\ pc' = "idle"
        /\ answer' = [request EXCEPT !.payments = bills]
    BY <1>5 DEF HouseholdPayments, Reply, ReaderOK
  <2>2. answer'.household = h /\ answer'.pickups = seen /\ answer'.payments = bills
    BY <2>1, HistoryFields
  <2>3. PickupsStand(h, seen)
    BY <2>1 DEF HistoryRests
  <2>4. PaymentsStand(h, bills)
    BY RowsStand
  <2>5. \A p \in DOMAIN seen :
          seen[p].status = "completed" =>
            \E y \in DOMAIN bills :
              bills[y].waste = p /\ bills[y].amount = AmountFor(seen[p].type)
    BY <2>3, CompletedAreShownBilled
  <2>6. (/\ HistoryIsCoherent
         /\ PickupsStand(answer.household, answer.pickups)
         /\ PaymentsStand(answer.household, answer.payments))'
    <3> HIDE DEF h, seen, bills
    <3>1. QED
      BY <1>3, <2>2, <2>3, <2>4, <2>5
  <2>7. QED
    BY <2>1, <2>6 DEF HistoryRests
<1>6. CASE UNCHANGED <<pc, request, answer>>
  <2>1. ASSUME pc' = "history.payments"
        PROVE  PickupsStand(request.household, request.pickups)'
    BY <1>2, <1>6, <2>1 DEF HistoryRests
  <2>2. ASSUME answer'.op = "history"
        PROVE  (/\ HistoryIsCoherent
                /\ PickupsStand(answer.household, answer.pickups)
                /\ PaymentsStand(answer.household, answer.payments))'
    <3>1. /\ HistoryIsCoherent /\ answer.op = "history"
          /\ PickupsStand(answer.household, answer.pickups)
          /\ PaymentsStand(answer.household, answer.payments)
      BY <1>6, <2>2 DEF HistoryRests
    <3>2. \A p \in DOMAIN answer.pickups :
            answer.pickups[p].status = "completed" =>
              \E y \in DOMAIN answer.payments :
                /\ answer.payments[y].waste = p
                /\ answer.payments[y].amount = AmountFor(answer.pickups[p].type)
      BY <3>1 DEF HistoryIsCoherent
    <3>3. QED
      BY <1>3, <1>6, <3>1, <3>2
  <2>3. QED
    BY <2>1, <2>2 DEF HistoryRests
<1>7. CASE pc' # "history.payments" /\ (answer'.op # "history")
  BY <1>7 DEF HistoryRests
<1>8. ASSUME Read, ~HouseholdPickups, ~HouseholdPayments
      PROVE  UNCHANGED <<pc, request, answer>> \/ (pc' # "history.payments" /\ answer'.op # "history")
  <2>1. Start \/ NextPage \/ ReadFails
         => UNCHANGED <<pc, request, answer>> \/ (pc' # "history.payments" /\ answer'.op # "history")
    BY DEF Start, StartGet, StartHistory, StartList, StartWalk, NextPage, ReadFails, Begin, Reply,
           Nothing, Refused
  <2>2. FindHousehold => pc' # "history.payments" /\ answer'.op # "history"
    BY RequestKinds DEF FindHousehold, Reply, ReaderOK
  <2>3. ListItems => pc' # "history.payments" /\ answer'.op # "history"
    BY ListItemsSteps, RequestKinds
  <2>4. ListReply => pc' # "history.payments" /\ answer'.op # "history"
    BY ListReplySteps, RequestKinds
  <2>5. Summary(WasteSummary) \/ Summary(PaymentSummary) => UNCHANGED <<pc, request, answer>>
    BY DEF Summary
  <2>6. QED
    BY <1>8, <2>1, <2>2, <2>3, <2>4, <2>5 DEF Read
<1>9. QED
  BY <1>4, <1>5, <1>6, <1>7, <1>8 DEF Next, Write, vars, reader

-----------------------------------------------------------------------------
(* Pages.                                                                  *)

\* What a filter with a lasting status selects is selected for ever.
LEMMA SelectedLast ==
  ASSUME TablesTypeOK, Integrity, [Next]_vars, NEW f,
         f.status \in {None, "completed", "canceled", "paid"}
  PROVE  /\ \A p \in PickupIds :
              Selects(f, pickups[p]) =>
                Selects(f, pickups'[p]) /\ pickups'[p].createdAt = pickups[p].createdAt
         /\ \A y \in PaymentIds :
              /\ Selects(f, payments[y]) => Selects(f, payments'[y])
              /\ Selects(f, payments[y]) /\ payments[y].status = "paid" =>
                   payments'[y].status = "paid"
<1>1. ASSUME NEW p \in PickupIds, Selects(f, pickups[p])
      PROVE  Selects(f, pickups'[p]) /\ pickups'[p].createdAt = pickups[p].createdAt
  <2>1. /\ p \in Stored(pickups) /\ pickups[p] \in Pickup
        /\ f.status \in {None, pickups[p].status}
        /\ f.household \in {None, pickups[p].household}
    BY <1>1, StoredRows DEF Selects
  <2>2. /\ pickups'[p] # None /\ pickups'[p].household = pickups[p].household
        /\ pickups'[p].createdAt = pickups[p].createdAt
    BY <2>1, DataKept DEF RowsLast
  <2>3. f.status = None \/ pickups'[p].status = pickups[p].status
    <3>1. pickups[p].status # "paid"
      BY <2>1 DEF Pickup, PickupStatus
    <3>2. pickups[p].status \in {"completed", "canceled"} => pickups'[p] = pickups[p]
      BY <2>1, DataKept DEF NothingFinalChanges
    <3>3. QED
      BY <2>1, <3>1, <3>2
  <2>4. QED
    BY <2>1, <2>2, <2>3 DEF Selects
<1>2. ASSUME NEW y \in PaymentIds, Selects(f, payments[y])
      PROVE  /\ Selects(f, payments'[y])
             /\ payments[y].status = "paid" => payments'[y].status = "paid"
  <2>1. /\ y \in Stored(payments) /\ payments[y] \in Payment
        /\ f.status \in {None, payments[y].status}
        /\ f.household \in {None, payments[y].household}
    BY <1>2, StoredRows DEF Selects
  <2>2. /\ payments'[y] # None /\ payments'[y].household = payments[y].household
        /\ payments[y].status = "paid" => payments'[y] = payments[y]
    BY <2>1, DataKept DEF RowsLast, NothingFinalChanges
  <2>3. f.status = None \/ payments'[y].status = payments[y].status
    <3>1. payments[y].status \notin {"completed", "canceled"}
      BY <2>1 DEF Payment, PaymentStatus
    <3>2. QED
      BY <2>1, <2>2, <3>1
  <2>4. QED
    BY <2>1, <2>2, <2>3 DEF Selects
<1>3. QED
  BY <1>1, <1>2

LEMMA MatchesGrow ==
  ASSUME TablesTypeOK, Integrity, [Next]_vars, NEW table, NEW f, Lasting(table, f)
  PROVE  /\ table \in {"pickups", "payments"}
         /\ Matching(table, f) \subseteq Matching(table, f)'
         /\ IsFiniteSet(Matching(table, f)')
<1>1. table \in {"pickups", "payments"} /\ f.status \in {None, "completed", "canceled", "paid"}
  BY DEF Lasting
<1>2. PickupsWhere(f) \subseteq PickupsWhere(f)'
  BY <1>1, SelectedLast DEF PickupsWhere
<1>3. PaymentsWhere(f) \subseteq PaymentsWhere(f)'
  BY <1>1, SelectedLast DEF PaymentsWhere
<1>4. PickupsWhere(f)' \in SUBSET PickupIds /\ PaymentsWhere(f)' \in SUBSET PaymentIds
  BY DEF PickupsWhere, PaymentsWhere
<1>5. /\ table = "pickups" => /\ Matching(table, f) = PickupsWhere(f)
                              /\ Matching(table, f)' = PickupsWhere(f)'
      /\ table = "payments" => /\ Matching(table, f) = PaymentsWhere(f)
                               /\ Matching(table, f)' = PaymentsWhere(f)'
  BY DEF Matching
<1>6. IsFiniteSet(PickupsWhere(f)') /\ IsFiniteSet(PaymentsWhere(f)')
  BY <1>4, Counts, FiniteAssumption
<1>7. QED
  BY <1>1, <1>2, <1>3, <1>5, <1>6

LEMMA PageIsCut ==
  ASSUME NEW table, NEW rows, IsFiniteSet(rows), NEW params \in Params,
         Offset(params) >= 0, NEW P \in Pages(table, rows, params)
  PROVE  /\ P \subseteq rows /\ Cardinality(P) \in Nat
         /\ Cardinality(P) <= params.perPage
         /\ P # {} => Offset(params) + Cardinality(P) <= Cardinality(rows)
<1>1. PICK skipped \in SUBSET (rows \ P) :
        /\ Cardinality(skipped) = Atmost(Offset(params), Cardinality(rows))
        /\ Cardinality(P) = Atmost(Limit(params), Cardinality(rows) - Cardinality(skipped))
  BY DEF Pages
<1>2. P \in SUBSET rows
  BY DEF Pages
<1>3. /\ Cardinality(P) \in Nat /\ Cardinality(skipped) \in Nat /\ Cardinality(rows) \in Nat
      /\ Cardinality(skipped) <= Cardinality(rows)
  BY <1>1, <1>2, Counts
<1>4. P # {} => Cardinality(P) # 0
  BY <1>2, Counts, FS_EmptySet
<1>5. Offset(params) \in Int /\ params.perPage \in Nat
  BY OffsetIsInt, IntIsSigned DEF Params
<1>6. QED
  BY <1>1, <1>2, <1>3, <1>4, <1>5 DEF Atmost, Limit

\* A page goes on resting while its rows are selected.
LEMMA PageGoesOnResting ==
  ASSUME TablesTypeOK, Integrity, [Next]_vars, NEW r, IsListing(r), PageRests(r),
         Lasting(r.table, r.filter), r.rows # {}
  PROVE  /\ r.rows \subseteq Matching(r.table, r.filter)'
         /\ Cardinality(r.rows) <= r.params.perPage
         /\ Offset(r.params) + Cardinality(r.rows) <= Cardinality(Matching(r.table, r.filter)')
<1> DEFINE M == Matching(r.table, r.filter)
<1>1. /\ r.rows \subseteq M /\ Cardinality(r.rows) <= r.params.perPage
      /\ Offset(r.params) + Cardinality(r.rows) <= Cardinality(M)
  BY DEF PageRests
<1>2. M \subseteq M' /\ IsFiniteSet(M')
  BY MatchesGrow
<1>3. Cardinality(M) <= Cardinality(M') /\ Cardinality(M) \in Nat /\ Cardinality(M') \in Nat
  BY <1>2, Counts
<1>4. Cardinality(r.rows) \in Nat
  <2>1. r.rows \in SUBSET M'
    BY <1>1, <1>2
  <2>2. QED
    BY <1>2, <2>1, Counts
<1>5. Offset(r.params) \in Int
  BY OffsetIsInt DEF IsListing
<1> HIDE DEF M
<1>6. QED
  BY <1>1, <1>2, <1>3, <1>4, <1>5 DEF M

LEMMA PagesKept ==
  ASSUME TablesTypeOK, Integrity, ReaderOK, PagesRest, [Next]_vars
  PROVE  PagesRest'
<1>1. ASSUME NEW r, IsListing(r), PageRests(r)
      PROVE  /\ request' = r => PageRests(request)'
             /\ answer' = r => PageRests(answer)'
  <2>1. Lasting(r.table, r.filter) /\ r.rows # {} =>
          /\ r.rows \subseteq Matching(r.table, r.filter)'
          /\ Cardinality(r.rows) <= r.params.perPage
          /\ Offset(r.params) + Cardinality(r.rows) <= Cardinality(Matching(r.table, r.filter)')
    BY <1>1, PageGoesOnResting
  <2>2. request' = r => PageRests(request)'
    <3>1. request' = r => Matching(request.table, request.filter)' = Matching(r.table, r.filter)'
      BY DEF Matching, PickupsWhere, PaymentsWhere
    <3>2. QED
      BY <2>1, <3>1 DEF PageRests
  <2>3. answer' = r => PageRests(answer)'
    <3>1. answer' = r => Matching(answer.table, answer.filter)' = Matching(r.table, r.filter)'
      BY DEF Matching, PickupsWhere, PaymentsWhere
    <3>2. QED
      BY <2>1, <3>1 DEF PageRests
  <2>4. QED
    BY <2>2, <2>3
<1>2. CASE ListItems
  <2>1. CASE pc' = "list.count"
    <3>1. PICK P \in Pages(request.table, Matching(request.table, request.filter),
                           request.params) :
            request' = [request EXCEPT !.rows = P]
      BY <1>2, <2>1, ListItemsSteps
    <3>2. IsListing(request) /\ Offset(request.params) >= 0 /\ answer' = Nothing /\ UNCHANGED tables
      BY <1>2, <2>1, ListItemsSteps
    <3>3. PICK r : r = [request EXCEPT !.rows = P]
      OBVIOUS
    <3>4. /\ IsListing(r) /\ r.table = request.table /\ r.filter = request.filter
          /\ r.params = request.params /\ r.rows = P
      <4> DEFINE q == [request EXCEPT !.rows = P]
      <4>1. /\ IsListing(q) /\ q.table = request.table /\ q.filter = request.filter
            /\ q.params = request.params /\ q.rows = P
        BY <3>2, ListingFields
      <4>2. r = q
        BY <3>3
      <4> HIDE DEF q
      <4>3. QED
        BY <4>1, <4>2
    <3>5. PageRests(r)
      <4>1. SUFFICES ASSUME Lasting(r.table, r.filter), r.rows # {}
                     PROVE  /\ r.rows \subseteq Matching(r.table, r.filter)
                            /\ Cardinality(r.rows) <= r.params.perPage
                            /\ Offset(r.params) + Cardinality(r.rows)
                                 <= Cardinality(Matching(r.table, r.filter))
        BY DEF PageRests
      <4>2. IsFiniteSet(Matching(r.table, r.filter))
        BY <4>1, FiniteMatches DEF Lasting
      <4>3. r.params \in Params
        BY <3>4 DEF IsListing
      <4>4. P \in Pages(r.table, Matching(r.table, r.filter), r.params) /\ Offset(r.params) >= 0
        BY <3>1, <3>2, <3>4
      <4>5. QED
        BY <3>4, <4>1, <4>2, <4>3, <4>4, PageIsCut
    <3>6. request' = r /\ answer'.op # "list"
      BY <3>1, <3>2, <3>3, RequestKinds
    <3>7. QED
      BY <1>1, <3>4, <3>5, <3>6 DEF PagesRest
  <2>2. CASE pc' = "idle" /\ answer' = Refused("INTERNAL_ERROR")
    BY <2>2, RequestKinds DEF PagesRest
  <2>3. QED
    BY <1>2, <2>1, <2>2, ListItemsSteps
<1>3. CASE ListReply
  <2> DEFINE meta == NewMeta(request.params, CountRows)
  <2>1. /\ pc = "list.count" /\ IsListing(request) /\ UNCHANGED tables
        /\ pc' = "idle" /\ answer' = [request EXCEPT !.meta = meta]
    BY <1>3, ListReplySteps
  <2>2. PageRests(request)
    BY <2>1 DEF PagesRest
  <2>3. meta.perPage = request.params.perPage
        /\ meta.total = Cardinality(Matching(request.table, request.filter))
    BY DEF NewMeta, CountRows
  <2> HIDE DEF meta
  <2>4. PICK r : r = [request EXCEPT !.meta = meta]
    OBVIOUS
  <2>5. /\ IsListing(r) /\ r.table = request.table /\ r.filter = request.filter
        /\ r.params = request.params /\ r.rows = request.rows /\ r.meta = meta
    BY <2>1, <2>4, ListingFields
  <2>6. PageRests(r)
    BY <2>2, <2>5 DEF PageRests
  <2>7. Counted(r)
    <3>1. SUFFICES ASSUME Lasting(r.table, r.filter), r.rows # {}
                   PROVE  r.meta.total >= Offset(r.params) + Cardinality(r.rows)
      BY <2>3, <2>5 DEF Counted
    <3> DEFINE M == Matching(r.table, r.filter)
    <3>2. r.rows \subseteq M /\ Offset(r.params) + Cardinality(r.rows) <= Cardinality(M)
      BY <2>6, <3>1 DEF PageRests
    <3>3. IsFiniteSet(M)
      BY <3>1, FiniteMatches DEF Lasting
    <3>4. r.rows \in SUBSET M
      BY <3>2
    <3>5. Cardinality(M) \in Nat /\ Cardinality(r.rows) \in Nat
      BY <3>3, <3>4, Counts
    <3>6. Offset(r.params) \in Int
      BY <2>5, OffsetIsInt DEF IsListing
    <3>7. r.meta.total = Cardinality(M)
      BY <2>3, <2>5
    <3> HIDE DEF M
    <3>8. QED
      BY <3>2, <3>5, <3>6, <3>7
  <2>8. PageRests(answer)'
    BY <1>1, <2>1, <2>4, <2>5, <2>6
  <2>9. Counted(answer)'
    BY <2>1, <2>4, <2>7 DEF Counted
  <2>10. QED
    BY <2>1, <2>8, <2>9 DEF PagesRest
<1>4. CASE UNCHANGED <<pc, request, answer>>
  <2>1. ASSUME pc' = "list.count" PROVE PageRests(request)'
    <3>1. PICK r : r = request
      OBVIOUS
    <3>2. IsListing(r) /\ PageRests(r)
      <4>1. IsListing(request) /\ PageRests(request)
        BY <1>4, <2>1 DEF ReaderOK, PagesRest
      <4>2. QED
        BY <3>1, <4>1
    <3>3. QED
      BY <1>1, <1>4, <3>1, <3>2
  <2>2. ASSUME answer'.op = "list" PROVE PageRests(answer)' /\ Counted(answer)'
    <3>1. PICK r : r = answer
      OBVIOUS
    <3>2. IsListing(answer) /\ PageRests(answer) /\ Counted(answer)
      BY <1>4, <2>2 DEF ReaderOK, PagesRest
    <3>3. IsListing(r) /\ PageRests(r)
      BY <3>1, <3>2
    <3>4. PageRests(answer)'
      BY <1>1, <1>4, <3>1, <3>3
    <3>5. Counted(answer)'
      BY <1>4, <3>2 DEF Counted
    <3>6. QED
      BY <3>4, <3>5
  <2>3. QED
    BY <2>1, <2>2 DEF PagesRest
<1>5. ASSUME Read, ~ListItems, ~ListReply
      PROVE  UNCHANGED <<pc, request, answer>> \/ (pc' # "list.count" /\ answer'.op # "list")
  <2>1. Start \/ NextPage \/ ReadFails
         => UNCHANGED <<pc, request, answer>> \/ (pc' # "list.count" /\ answer'.op # "list")
    BY DEF Start, StartGet, StartHistory, StartList, StartWalk, NextPage, ReadFails, Begin, Reply,
           Nothing, Refused
  <2>2. FindHousehold => pc' # "list.count" /\ answer'.op # "list"
    BY RequestKinds DEF FindHousehold, Reply, ReaderOK
  <2>3. HouseholdPickups => pc' # "list.count" /\ answer'.op # "list"
    BY RequestKinds DEF HouseholdPickups, ReaderOK
  <2>4. HouseholdPayments => pc' # "list.count" /\ answer'.op # "list"
    BY HistoryFields, RequestKinds DEF HouseholdPayments, Reply, ReaderOK
  <2>5. Summary(WasteSummary) \/ Summary(PaymentSummary) => UNCHANGED <<pc, request, answer>>
    BY DEF Summary
  <2>6. QED
    BY <1>5, <2>1, <2>2, <2>3, <2>4, <2>5 DEF Read
<1>6. CASE pc' # "list.count" /\ answer'.op # "list"
  BY <1>6 DEF PagesRest
<1>7. QED
  BY <1>2, <1>3, <1>4, <1>5, <1>6 DEF Next, Write, vars, reader

-----------------------------------------------------------------------------
(* Turning pages.                                                          *)

LEMMA PageSize ==
  ASSUME NEW w
  PROVE  PerPage(w) \in 1 .. MaxPerPage /\ PerPage(w) = Parse(1, w.perPageText).perPage
  BY ParseIsInRange DEF PerPage, Params

\* A page that was served is the one asked for.
LEMMA PageInReach ==
  ASSUME ReaderOK, WalkAsks, walk # Nothing, pc \in {"list.items", "list.count"},
         Offset(request.params) >= 0, walk.page <= MaxInt
  PROVE  /\ request.params.page = walk.page /\ request.params.perPage = PerPage(walk)
         /\ Offset(request.params) = (walk.page - 1) * PerPage(walk)
         /\ (walk.page - 1) * PerPage(walk) <= MaxInt
<1> DEFINE page == walk.page
           n == PerPage(walk)
<1>1. /\ page \in Nat \ {0} /\ page \in 1 .. MaxInt /\ ~walk.done
      /\ request.params = Parse(walk.page, walk.perPageText)
  BY IntIsSigned DEF ReaderOK, IsWalk, WalkAsks
<1>2. n \in 1 .. MaxPerPage /\ n \in Nat /\ n <= MaxInt
  BY PageSize, IntIsSigned
<1>3. request.params.page = page /\ request.params.perPage = n
  BY <1>1, ParseIsInRange DEF PerPage
<1>4. Offset(request.params) = Wrap((page - 1) * n)
  BY <1>3 DEF Offset
<1>5. (page - 1) * n \in Nat
  BY <1>1, <1>2, Products
<1>6. (page - 1) * n <= 2 * MaxInt
  <2>1. CASE page = 1
    <3>1. \A k \in Nat : 0 * k = 0
      OBVIOUS
    <3>2. QED
      BY <1>2, <2>1, <3>1, IntIsSigned
  <2>2. CASE page # 1
    <3>1. (page - 2) * n <= MaxInt
      BY <1>1, <2>2 DEF WalkAsks
    <3>2. page - 1 \in Nat \ {0}
      BY <1>1, <2>2
    <3>3. (page - 1) * n = ((page - 1) - 1) * n + n /\ ((page - 1) - 1) * n \in Nat
      BY <1>2, <3>2, Products
    <3>4. (page - 1) - 1 = page - 2
      BY <1>1
    <3> DEFINE a == (page - 2) * n
    <3>5. (page - 1) * n = a + n /\ a \in Nat /\ a <= MaxInt
      BY <3>1, <3>3, <3>4
    <3> HIDE DEF a
    <3>6. QED
      BY <1>2, <3>5, IntIsSigned
  <2>3. QED
    BY <2>1, <2>2
<1> DEFINE offset == (page - 1) * n
<1>7. offset <= MaxInt
  <2>1. offset \in Nat /\ offset <= 2 * MaxInt /\ Wrap(offset) >= 0
    BY <1>4, <1>5, <1>6
  <2> HIDE DEF offset
  <2>2. Wrap(offset) \in Int /\ offset \in Int
    BY <2>1, WrapIsInt
  <2>3. QED
    BY <2>1, <2>2, WrapOfLarge, IntIsSigned
<1>8. Wrap(offset) = offset
  BY <1>5, <1>7, WrapOfSmall
<1>9. QED
  BY <1>3, <1>4, <1>7, <1>8

LEMMA WalkAsksKept ==
  ASSUME ReaderOK, WalkAsks, [Next]_vars PROVE WalkAsks'
<1>1. CASE ListReply
  <2> DEFINE meta == NewMeta(request.params, CountRows)
  <2>1. /\ pc = "list.count" /\ pc' = "idle" /\ asks' = asks
        /\ walk' = IF walk = Nothing THEN walk ELSE Noted(meta)
    BY <1>1, ListReplySteps
  <2> HIDE DEF meta
  <2>2. CASE walk = Nothing
    BY <2>1, <2>2 DEF WalkAsks
  <2>3. CASE walk # Nothing
    <3>1. IsWalk(walk)
      BY <2>3 DEF ReaderOK
    <3>2. walk' = Noted(meta)
      BY <2>1, <2>3
    <3>3. walk'.page = walk.page + 1 /\ walk'.perPageText = walk.perPageText /\ IsWalk(walk')
      BY <3>1, <3>2, NotedWalk
    <3>4. PerPage(walk)' = PerPage(walk)
      BY <3>3, ParseIsInRange DEF PerPage
    <3>5. walk' # Nothing
      BY <3>3, RequestKinds
    <3>6. walk.page \in Nat
      BY <3>1 DEF IsWalk
    <3>7. ASSUME walk'.page <= MaxInt PROVE (walk'.page - 2) * PerPage(walk)' <= MaxInt
      <4>1. walk.page <= MaxInt /\ walk'.page - 2 = walk.page - 1
        BY <3>3, <3>6, <3>7, IntIsSigned
      <4>2. Offset(request.params) >= 0
        BY <2>1, <2>3 DEF WalkAsks
      <4>3. (walk.page - 1) * PerPage(walk) <= MaxInt
        BY <2>1, <2>3, <4>1, <4>2, PageInReach
      <4>4. QED
        BY <3>4, <4>1, <4>3
    <3>8. QED
      BY <2>1, <3>5, <3>7 DEF WalkAsks
  <2>4. QED
    BY <2>2, <2>3
<1>2. CASE ListItems
  <2>1. pc = "list.items" /\ UNCHANGED <<asks, walk>> /\ IsListing(request)
    BY <1>2, ListItemsSteps
  <2>2. CASE pc' = "idle"
    BY <2>1, <2>2 DEF WalkAsks, PerPage
  <2>3. CASE pc' = "list.count"
    <3>1. PICK P : request' = [request EXCEPT !.rows = P]
      BY <1>2, <2>3, ListItemsSteps
    <3>2. /\ request'.table = request.table /\ request'.filter = request.filter
          /\ request'.params = request.params
      BY <2>1, <3>1, ListingFields
    <3>3. Offset(request.params) >= 0
      BY <1>2, <2>3, ListItemsSteps
    <3>4. Offset(request.params)' >= 0
      BY <3>2, <3>3 DEF Offset
    <3>5. QED
      BY <2>1, <2>3, <3>2, <3>4 DEF WalkAsks, PerPage
  <2>4. QED
    BY <1>2, <2>2, <2>3, ListItemsSteps
<1>3. ASSUME NEW f \in Filters, NEW n \in PerPageTexts, StartWalk(f, n) PROVE WalkAsks'
  <2>1. asks = "walk" /\ walk = Nothing /\ UNCHANGED <<asks, pc>> /\ walk'.page = 1
    BY <1>3 DEF StartWalk
  <2>2. walk' # Nothing
    <3>1. walk'.op = "walk"
      BY <1>3 DEF StartWalk
    <3>2. QED
      BY <3>1, RequestKinds
  <2>3. pc' = "idle"
    BY <2>1 DEF WalkAsks
  <2>4. QED
    BY <2>1, <2>2, <2>3 DEF WalkAsks
<1>4. CASE NextPage
  <2>1. /\ walk # Nothing /\ ~walk.done /\ pc' = "list.items" /\ UNCHANGED <<asks, walk>>
        /\ request' = Listing("pickups", walk.filter, Parse(walk.page, walk.perPageText))
    BY <1>4 DEF NextPage, Begin
  <2>2. /\ request'.table = "pickups" /\ request'.filter = walk.filter
        /\ request'.params = Parse(walk.page, walk.perPageText)
    BY <2>1 DEF Listing
  <2>3. QED
    BY <2>1, <2>2 DEF WalkAsks, PerPage
<1>5. ASSUME UNCHANGED <<asks, walk>>, pc' \notin {"list.items", "list.count"},
             pc' = "idle" \/ asks # "walk" \/ pc # "idle"
      PROVE  WalkAsks'
  BY <1>5 DEF WalkAsks, PerPage
<1>6. ASSUME NEW h \in Households, StartGet(h) \/ StartHistory(h) PROVE WalkAsks'
  BY <1>5, <1>6 DEF StartGet, StartHistory, Begin
<1>7. ASSUME NEW table \in Tables, NEW f \in Filters, NEW page \in PageTexts,
             NEW n \in PerPageTexts, StartList(table, f, page, n)
      PROVE  WalkAsks'
  BY <1>7 DEF StartList, Begin, WalkAsks, ReaderOK
<1>8. CASE FindHousehold \/ HouseholdPickups \/ HouseholdPayments \/ ReadFails
  BY <1>5, <1>8 DEF FindHousehold, HouseholdPickups, HouseholdPayments, ReadFails, Reply
<1>9. CASE UNCHANGED <<asks, pc, request, walk>>
  BY <1>9 DEF WalkAsks, PerPage, Offset
<1>10. CASE Summary(WasteSummary) \/ Summary(PaymentSummary) \/ Write \/ UNCHANGED vars
  BY <1>9, <1>10 DEF Summary, Write, vars, reader
<1>11. QED
  BY <1>1, <1>2, <1>3, <1>4, <1>6, <1>7, <1>8, <1>10 DEF Next, Read, Start

\* A page beginning after at most the rows newer than p, and not showing p, ends
\* after at most those rows: created_at orders the rows, the page is full, and p
\* is behind it.
LEMMA PageTakesTheNewest ==
  ASSUME TablesTypeOK, CreatedApart, NEW f, NEW params \in Params, Offset(params) >= 0,
         NEW P \in Pages("pickups", PickupsWhere(f), params),
         NEW p \in PickupsWhere(f) \ P,
         Offset(params) <= Cardinality(Newer(f, p))
  PROVE  Offset(params) + params.perPage <= Cardinality(Newer(f, p))
<1> DEFINE rows == PickupsWhere(f)
           newer == Newer(f, p)
<1>1. PICK skipped \in SUBSET (rows \ P) :
        LET rest == rows \ (skipped \cup P) IN
          /\ Cardinality(skipped) = Atmost(Offset(params), Cardinality(rows))
          /\ Cardinality(P) = Atmost(Limit(params), Cardinality(rows) - Cardinality(skipped))
          /\ \A a \in skipped, b \in P \cup rest : Before("pickups", a, b)
          /\ \A a \in P, b \in rest : Before("pickups", a, b)
  BY DEF Pages
<1>2. P \in SUBSET rows
  BY DEF Pages
<1>3. \A a \in rows : a \in PickupIds /\ a \in Stored(pickups) /\ pickups[a].createdAt \in Nat
  BY StoredRows DEF PickupsWhere, Selects, Pickup
<1>4. IsFiniteSet(rows)
  BY FiniteMatches DEF Matching
<1>5. newer \in SUBSET rows /\ p \notin newer /\ p \in rows
  BY <1>3 DEF Newer
<1>6. \A a, b \in rows : a # b /\ Before("pickups", a, b) =>
        pickups[a].createdAt > pickups[b].createdAt
  BY <1>3 DEF Before, CreatedApart
<1>7. /\ Cardinality(newer) \in Nat /\ Cardinality(rows) \in Nat
      /\ Cardinality(newer) < Cardinality(rows)
  BY <1>4, <1>5, Counts
<1>8. Offset(params) \in Int /\ params.perPage \in Nat
  BY OffsetIsInt, IntIsSigned DEF Params
<1>9. Cardinality(skipped) = Offset(params)
  BY <1>1, <1>7, <1>8 DEF Atmost
<1>10. p \notin skipped
  <2>1. SUFFICES ASSUME p \in skipped PROVE FALSE
    OBVIOUS
  <2>2. \A a \in newer : a \in skipped
    <3>1. SUFFICES ASSUME NEW a \in newer, a \notin skipped PROVE FALSE
      OBVIOUS
    <3>2. a \in rows /\ a # p /\ pickups[a].createdAt > pickups[p].createdAt
      BY <1>5 DEF Newer
    <3>3. Before("pickups", p, a)
      BY <1>1, <2>1, <3>1, <3>2
    <3>4. pickups[p].createdAt > pickups[a].createdAt
      BY <1>5, <1>6, <3>2, <3>3
    <3>5. pickups[p].createdAt \in Nat /\ pickups[a].createdAt \in Nat
      BY <1>3, <1>5, <3>2
    <3>6. QED
      BY <3>2, <3>4, <3>5
  <2>3. skipped \in SUBSET rows /\ newer \in SUBSET skipped /\ newer # skipped
    BY <1>5, <2>1, <2>2
  <2>4. IsFiniteSet(skipped)
    BY <1>4, <2>3, Counts
  <2>5. Cardinality(newer) < Cardinality(skipped)
    BY <2>3, <2>4, Counts
  <2>6. QED
    BY <1>7, <1>8, <1>9, <2>5
<1>11. skipped \cup P \subseteq newer
  <2>1. p \in rows \ (skipped \cup P)
    BY <1>5, <1>10
  <2>2. ASSUME NEW a \in skipped \cup P PROVE a \in newer
    <3>1. Before("pickups", a, p) /\ a # p /\ a \in rows
      BY <1>1, <1>2, <2>1
    <3>2. pickups[a].createdAt > pickups[p].createdAt
      BY <1>5, <1>6, <3>1
    <3>3. QED
      BY <3>1, <3>2 DEF Newer
  <2>3. QED
    BY <2>2
<1>12. /\ Cardinality(skipped) + Cardinality(P) <= Cardinality(newer)
       /\ Cardinality(skipped) \in Nat /\ Cardinality(P) \in Nat
  <2>1. IsFiniteSet(newer)
    BY <1>4, <1>5, Counts
  <2>2. skipped \in SUBSET newer /\ P \in SUBSET newer /\ skipped \cap P = {}
    BY <1>1, <1>11
  <2>3. QED
    BY <2>1, <2>2, CountsOfDisjoint
<1>13. Cardinality(P) = params.perPage
  BY <1>1, <1>7, <1>8, <1>12 DEF Atmost, Limit
<1>14. QED
  BY <1>9, <1>12, <1>13

\* Behind is kept by any step: what is selected and newer stays so.
LEMMA BehindGoesOn ==
  ASSUME TablesTypeOK, Integrity, [Next]_vars, NEW w, Lasting("pickups", w.filter),
         NEW seen, NEW turned \in Nat, Behind(w, seen, turned)
  PROVE  \A p \in w.stored \ seen :
           /\ p \in PickupsWhere(w.filter)'
           /\ turned * PerPage(w) <= Cardinality(Newer(w.filter, p)')
<1> SUFFICES ASSUME NEW p \in w.stored \ seen
             PROVE  /\ p \in PickupsWhere(w.filter)'
                    /\ turned * PerPage(w) <= Cardinality(Newer(w.filter, p)')
  OBVIOUS
<1> DEFINE f == w.filter
<1>1. p \in PickupsWhere(f) /\ turned * PerPage(w) <= Cardinality(Newer(f, p))
  BY DEF Behind
<1>2. f.status \in {None, "completed", "canceled", "paid"}
  BY DEF Lasting
<1>3. \A q \in PickupIds : Selects(f, pickups[q]) =>
        Selects(f, pickups'[q]) /\ pickups'[q].createdAt = pickups[q].createdAt
  BY <1>2, SelectedLast
<1>4. p \in PickupsWhere(f)'
  BY <1>1, <1>3 DEF PickupsWhere
<1>5. Newer(f, p) \subseteq Newer(f, p)'
  BY <1>1, <1>3 DEF Newer, PickupsWhere
<1>6. Newer(f, p)' \in SUBSET PickupIds
  BY DEF Newer, PickupsWhere
<1>7. IsFiniteSet(Newer(f, p)')
  BY <1>6, Counts, FiniteAssumption
<1>8. /\ Cardinality(Newer(f, p)) <= Cardinality(Newer(f, p)')
      /\ Cardinality(Newer(f, p)) \in Nat /\ Cardinality(Newer(f, p)') \in Nat
  BY <1>5, <1>7, Counts
<1>9. turned * PerPage(w) \in Nat
  <2>1. PerPage(w) \in Nat
    BY PageSize, IntIsSigned
  <2>2. \A m, n \in Nat : m * n \in Nat
    OBVIOUS
  <2>3. QED
    BY <2>1, <2>2
<1>10. QED
  <2> DEFINE a == turned * PerPage(w)
             b == Cardinality(Newer(f, p))
             c == Cardinality(Newer(f, p)')
  <2>1. a <= b /\ b <= c /\ a \in Nat /\ b \in Nat /\ c \in Nat
    BY <1>1, <1>8, <1>9
  <2> HIDE DEF a, b, c
  <2>2. a <= c
    BY <2>1
  <2>3. QED
    BY <1>4, <2>2 DEF a, c

\* Behind all rows there is nothing left to see.
LEMMA NothingIsBehindAll ==
  ASSUME TablesTypeOK, NEW w, NEW seen, NEW turned \in Nat, Behind(w, seen, turned),
         Cardinality(PickupsWhere(w.filter)) <= turned * PerPage(w)
  PROVE  w.stored \subseteq seen
<1> SUFFICES ASSUME NEW p \in w.stored \ seen PROVE FALSE
  OBVIOUS
<1> DEFINE rows == PickupsWhere(w.filter)
           newer == Newer(w.filter, p)
           a == turned * PerPage(w)
<1>1. p \in rows /\ a <= Cardinality(newer)
  BY DEF Behind
<1>2. newer \in SUBSET rows /\ p \notin newer
  <2>1. pickups[p].createdAt \in Nat
    BY <1>1, StoredRows DEF PickupsWhere, Selects, Pickup
  <2>2. QED
    BY <2>1 DEF Newer
<1>3. IsFiniteSet(rows)
  BY FiniteMatches DEF Matching
<1>4. Cardinality(newer) < Cardinality(rows) /\ Cardinality(newer) \in Nat /\ Cardinality(rows) \in Nat
  BY <1>1, <1>2, <1>3, Counts
<1>5. a \in Nat /\ Cardinality(rows) <= a
  <2>1. PerPage(w) \in Nat
    BY PageSize, IntIsSigned
  <2>2. \A m, n \in Nat : m * n \in Nat
    OBVIOUS
  <2>3. QED
    BY <2>1, <2>2
<1> HIDE DEF a
<1>6. QED
  BY <1>1, <1>4, <1>5

LEMMA CreatedApartBefore ==
  ASSUME TablesTypeOK, Integrity, [Next]_vars, CreatedApart' PROVE CreatedApart
<1>1. \A p \in Stored(pickups) :
        p \in Stored(pickups)' /\ pickups'[p].createdAt = pickups[p].createdAt
  BY DataKept, StoredRows, StoredRowsNext DEF RowsLast
<1>2. QED
  BY <1>1 DEF CreatedApart

LEMMA BehindNext ==
  ASSUME NEW w, walk' = w, NEW seen, NEW turned,
         \A p \in w.stored \ seen :
           /\ p \in PickupsWhere(w.filter)'
           /\ turned * PerPage(w) <= Cardinality(Newer(w.filter, p)')
  PROVE  /\ w.seen = seen /\ w.page - 1 = turned => Behind(walk, walk.seen, walk.page - 1)'
         /\ w.seen \cup request'.rows = seen /\ w.page = turned =>
              Behind(walk, walk.seen \cup request.rows, walk.page)'
<1>1. PickupsWhere(walk.filter)' = PickupsWhere(w.filter)'
  BY DEF PickupsWhere
<1>2. \A p : Newer(walk.filter, p)' = Newer(w.filter, p)'
  BY DEF Newer, PickupsWhere
<1>3. PerPage(walk)' = PerPage(w)
  BY DEF PerPage
<1>4. QED
  BY <1>1, <1>2, <1>3 DEF Behind

LEMMA MoreRowsNext ==
  ASSUME TablesTypeOK, Integrity, [Next]_vars, NEW f, Lasting("pickups", f), NEW n \in Nat,
         n < Cardinality(PickupsWhere(f))
  PROVE  n < Cardinality(PickupsWhere(f)')
<1>1. PickupsWhere(f) \subseteq PickupsWhere(f)' /\ IsFiniteSet(PickupsWhere(f)')
  BY MatchesGrow DEF Matching
<1>2. /\ Cardinality(PickupsWhere(f)) <= Cardinality(PickupsWhere(f)')
      /\ Cardinality(PickupsWhere(f)) \in Nat /\ Cardinality(PickupsWhere(f)') \in Nat
  BY <1>1, Counts
<1>3. QED
  BY <1>2

\* Steps that leave the walk where it is.
LEMMA WalkStays ==
  ASSUME TablesTypeOK, Integrity, ReaderOK, WalkAsks, WalkRests, [Next]_vars,
         UNCHANGED walk,
         pc' = "list.count" /\ walk # Nothing /\ Lasting("pickups", walk.filter)
           /\ walk.page <= MaxInt /\ CreatedApart
           => Behind(walk, walk.seen \cup request'.rows, walk.page)
  PROVE  WalkRests'
<1> SUFFICES ASSUME walk' # Nothing, Lasting("pickups", walk'.filter)
             PROVE  /\ ~walk'.done /\ walk'.page > 1 =>
                         PerPage(walk)' < Cardinality(PickupsWhere(walk.filter)')
                    /\ ~walk'.done /\ walk'.page <= MaxInt /\ CreatedApart' =>
                         Behind(walk, walk.seen, walk.page - 1)'
                    /\ pc' = "list.count" /\ walk'.page <= MaxInt /\ CreatedApart' =>
                         Behind(walk, walk.seen \cup request.rows, walk.page)'
                    /\ walk'.done /\ CreatedApart' => walk'.stored \subseteq walk'.seen
  BY DEF WalkRests, Lasting
<1>1. PICK w : w = walk
  OBVIOUS
<1>2. PICK rows : rows = request'.rows
  OBVIOUS
<1>3. w # Nothing /\ Lasting("pickups", w.filter) /\ walk' = w /\ IsWalk(w)
  BY <1>1 DEF ReaderOK
<1>4. w.page \in Nat /\ w.page - 1 \in Nat
  BY <1>3 DEF IsWalk
<1>5. PerPage(w) \in Nat
  BY PageSize, IntIsSigned
<1>6. CreatedApart' => CreatedApart
  BY CreatedApartBefore
<1>7. ASSUME ~w.done, w.page > 1
      PROVE  PerPage(walk)' < Cardinality(PickupsWhere(walk.filter)')
  <2>1. PerPage(w) < Cardinality(PickupsWhere(w.filter))
    BY <1>1, <1>3, <1>7 DEF WalkRests
  <2>2. PerPage(w) < Cardinality(PickupsWhere(w.filter)')
    BY <1>3, <1>5, <2>1, MoreRowsNext
  <2>3. PerPage(walk)' = PerPage(w) /\ PickupsWhere(walk.filter)' = PickupsWhere(w.filter)'
    BY <1>3 DEF PerPage, PickupsWhere
  <2>4. QED
    BY <2>2, <2>3
<1>8. ASSUME ~w.done, w.page <= MaxInt, CreatedApart'
      PROVE  Behind(walk, walk.seen, walk.page - 1)'
  <2>1. Behind(w, w.seen, w.page - 1)
    BY <1>1, <1>3, <1>6, <1>8 DEF WalkRests
  <2>2. \A p \in w.stored \ w.seen :
          /\ p \in PickupsWhere(w.filter)'
          /\ (w.page - 1) * PerPage(w) <= Cardinality(Newer(w.filter, p)')
    BY <1>3, <1>4, <2>1, BehindGoesOn
  <2>3. QED
    BY <1>3, <2>2, BehindNext
<1>9. ASSUME pc' = "list.count", w.page <= MaxInt, CreatedApart'
      PROVE  Behind(walk, walk.seen \cup request.rows, walk.page)'
  <2>1. Behind(w, w.seen \cup rows, w.page)
    BY <1>1, <1>2, <1>3, <1>6, <1>9
  <2>2. \A p \in w.stored \ (w.seen \cup rows) :
          /\ p \in PickupsWhere(w.filter)'
          /\ w.page * PerPage(w) <= Cardinality(Newer(w.filter, p)')
    BY <1>3, <1>4, <2>1, BehindGoesOn
  <2>3. QED
    BY <1>2, <1>3, <2>2, BehindNext
<1>10. ASSUME w.done, CreatedApart' PROVE w.stored \subseteq w.seen
  BY <1>1, <1>3, <1>6, <1>10 DEF WalkRests
<1>11. QED
  BY <1>3, <1>7, <1>8, <1>9, <1>10

\* A page that is read shows the newest of what was not seen before.
LEMMA WalkReadsPage ==
  ASSUME TablesTypeOK, Integrity, ReaderOK, WalkAsks, WalkRests, [Next]_vars, ListItems
  PROVE  WalkRests'
<1>1. UNCHANGED walk /\ pc = "list.items" /\ IsListing(request)
  BY ListItemsSteps
<1>2. ASSUME pc' = "list.count", walk # Nothing, Lasting("pickups", walk.filter),
             walk.page <= MaxInt, CreatedApart
      PROVE  Behind(walk, walk.seen \cup request'.rows, walk.page)
  <2>1. /\ ~walk.done /\ request.table = "pickups" /\ request.filter = walk.filter
        /\ request.params \in Params /\ IsWalk(walk)
    BY <1>1, <1>2 DEF WalkAsks, ReaderOK, IsListing
  <2>2. Offset(request.params) >= 0
    BY <1>2, ListItemsSteps
  <2>3. PICK P \in Pages(request.table, Matching(request.table, request.filter),
                         request.params) :
          request' = [request EXCEPT !.rows = P]
    BY <1>2, ListItemsSteps
  <2>4. request'.rows = P
    BY <1>1, <2>3, ListingFields
  <2>5. PICK f : f = walk.filter
    OBVIOUS
  <2>6. PICK params \in Params : params = request.params
    BY <2>1
  <2>7. Matching(request.table, request.filter) = PickupsWhere(f)
    BY <2>1, <2>5 DEF Matching
  <2>8. P \in Pages("pickups", PickupsWhere(f), params) /\ Offset(params) >= 0
    BY <2>1, <2>2, <2>3, <2>6, <2>7
  <2>9. /\ Offset(params) = (walk.page - 1) * PerPage(walk)
        /\ params.perPage = PerPage(walk)
    BY <1>1, <1>2, <2>2, <2>6, PageInReach
  <2>10. Behind(walk, walk.seen, walk.page - 1)
    BY <1>2, <2>1 DEF WalkRests
  <2>11. Offset(params) + params.perPage = walk.page * PerPage(walk)
    <3>1. walk.page \in Nat \ {0} /\ PerPage(walk) \in 1 .. MaxPerPage
      BY <2>1, PageSize DEF IsWalk
    <3>2. walk.page * PerPage(walk) = (walk.page - 1) * PerPage(walk) + PerPage(walk)
      BY <3>1, Products
    <3>3. QED
      BY <2>9, <3>2
  <2>12. ASSUME NEW p \in walk.stored \ (walk.seen \cup P)
         PROVE  p \in PickupsWhere(f) /\ walk.page * PerPage(walk) <= Cardinality(Newer(f, p))
    <3>1. p \in PickupsWhere(f) /\ Offset(params) <= Cardinality(Newer(f, p))
      BY <2>5, <2>9, <2>10, <2>12 DEF Behind
    <3>2. p \in PickupsWhere(f) \ P
      BY <2>12, <3>1
    <3>3. Offset(params) + params.perPage <= Cardinality(Newer(f, p))
      BY <1>2, <2>8, <3>1, <3>2, PageTakesTheNewest
    <3>4. QED
      BY <2>11, <3>1, <3>3
  <2>13. QED
    BY <2>4, <2>5, <2>12 DEF Behind
<1>3. QED
  BY <1>1, <1>2, WalkStays

\* The end of a page: the reader goes on, or has got to the end of all rows.
LEMMA WalkTurnsPage ==
  ASSUME TablesTypeOK, Integrity, ReaderOK, WalkAsks, WalkRests, [Next]_vars, ListReply,
         walk # Nothing
  PROVE  WalkRests'
<1> DEFINE meta == NewMeta(request.params, CountRows)
<1>1. /\ pc = "list.count" /\ pc' = "idle" /\ walk' = Noted(meta) /\ IsListing(request)
      /\ UNCHANGED tables
  BY ListReplySteps
<1>2. /\ meta.page = request.params.page /\ meta.perPage = request.params.perPage
      /\ meta.total = Cardinality(PickupsWhere(walk.filter))
  BY <1>1 DEF NewMeta, CountRows, Matching, WalkAsks
<1> HIDE DEF meta
<1>3. IsWalk(walk)
  BY DEF ReaderOK
<1>4. PICK w : w = walk
  OBVIOUS
<1>5. PICK v : v = walk'
  OBVIOUS
<1>6. PICK seen : seen = walk.seen \cup request.rows
  OBVIOUS
<1>7. /\ v # Nothing /\ v.filter = w.filter /\ v.perPageText = w.perPageText
      /\ v.page = w.page + 1 /\ v.seen = seen /\ v.stored = w.stored
      /\ v.done <=> meta.page * meta.perPage >= meta.total
  BY <1>1, <1>3, <1>4, <1>5, <1>6, NotedWalk
<1>8. PerPage(v) = PerPage(w)
  BY <1>7, ParseIsInRange DEF PerPage
<1>9. w.page \in Nat \ {0}
  BY <1>3, <1>4 DEF IsWalk
<1>10. PICK n \in 1 .. MaxPerPage : n = PerPage(w)
  BY PageSize
<1>11. /\ request.params = Parse(w.page, w.perPageText) /\ Offset(request.params) >= 0
       /\ ~w.done
  BY <1>1, <1>4 DEF WalkAsks
<1>12. /\ meta.perPage = n /\ meta.page \in Nat \ {0}
       /\ w.page <= MaxInt => meta.page = w.page
       /\ w.page > MaxInt => meta.page = 1
  BY <1>2, <1>9, <1>10, <1>11, ParseIsInRange, IntIsSigned DEF PerPage, Params
<1>13. PICK rows : rows = PickupsWhere(w.filter)
  OBVIOUS
<1>14. IsFiniteSet(rows) /\ Cardinality(rows) \in Nat /\ meta.total = Cardinality(rows)
  BY <1>2, <1>4, <1>13, FiniteMatches DEF Matching
<1>15. SUFFICES ASSUME Lasting("pickups", v.filter)
                PROVE  /\ ~v.done => n < Cardinality(PickupsWhere(walk.filter)')
                       /\ ~v.done /\ v.page <= MaxInt /\ CreatedApart' =>
                            Behind(walk, walk.seen, walk.page - 1)'
                       /\ v.done /\ CreatedApart' => v.stored \subseteq v.seen
  <2>1. PerPage(walk)' = n
    BY <1>5, <1>8, <1>10 DEF PerPage
  <2>2. QED
    BY <1>1, <1>5, <2>1 DEF WalkRests, Lasting
<1>16. Lasting("pickups", w.filter)
  BY <1>7, <1>15
<1>17. ASSUME ~v.done PROVE n < Cardinality(PickupsWhere(walk.filter)')
  <2>1. PickupsWhere(walk.filter)' = rows
    BY <1>1, <1>4, <1>5, <1>7, <1>13 DEF PickupsWhere
  <2>2. n <= meta.page * n /\ meta.page * n \in Nat
    BY <1>12, Products
  <2>3. ~(meta.page * n >= Cardinality(rows))
    BY <1>7, <1>12, <1>14, <1>17
  <2> DEFINE a == meta.page * n
  <2>4. n <= a /\ a \in Nat /\ ~(a >= Cardinality(rows)) /\ n \in Nat
    BY <2>2, <2>3
  <2> HIDE DEF a
  <2>5. n < Cardinality(rows)
    BY <1>14, <2>4
  <2>6. QED
    BY <2>1, <2>5
<1>18. CreatedApart' => CreatedApart
  BY CreatedApartBefore
<1>19. w.page <= MaxInt /\ CreatedApart => Behind(w, seen, w.page)
  BY <1>1, <1>4, <1>6, <1>16 DEF WalkRests
<1>20. ASSUME v.page <= MaxInt, CreatedApart' PROVE Behind(walk, walk.seen, walk.page - 1)'
  <2>1. w.page <= MaxInt /\ v.page - 1 = w.page /\ w.page \in Nat
    BY <1>7, <1>9, <1>20, IntIsSigned
  <2>2. Behind(w, seen, w.page)
    BY <1>18, <1>19, <1>20, <2>1
  <2>3. \A p \in w.stored \ seen :
          /\ p \in PickupsWhere(w.filter)'
          /\ w.page * PerPage(w) <= Cardinality(Newer(w.filter, p)')
    BY <1>16, <2>1, <2>2, BehindGoesOn
  <2>4. \A p \in v.stored \ seen :
          /\ p \in PickupsWhere(v.filter)'
          /\ w.page * PerPage(v) <= Cardinality(Newer(v.filter, p)')
    BY <1>7, <1>8, <2>3
  <2>5. QED
    BY <1>5, <1>7, <2>1, <2>4, BehindNext
<1>21. ASSUME v.done, CreatedApart' PROVE v.stored \subseteq v.seen
  <2>1. meta.page * n >= Cardinality(rows)
    BY <1>7, <1>12, <1>14, <1>21
  <2>2. CASE w.page <= MaxInt
    <3>1. Behind(w, seen, w.page) /\ w.page \in Nat
      BY <1>9, <1>18, <1>19, <1>21, <2>2
    <3>2. w.page * n \in Nat /\ w.page * n >= Cardinality(rows)
      BY <1>9, <1>12, <2>1, <2>2, Products
    <3> DEFINE a == w.page * n
    <3>3. a \in Nat /\ a >= Cardinality(rows)
      BY <3>2
    <3> HIDE DEF a
    <3>4. Cardinality(rows) <= a
      BY <1>14, <3>3
    <3>5. Cardinality(PickupsWhere(w.filter)) <= w.page * PerPage(w)
      BY <1>10, <1>13, <3>4 DEF a
    <3>6. w.stored \subseteq seen
      BY <3>1, <3>5, NothingIsBehindAll
    <3>7. QED
      BY <1>7, <3>6
  <2>3. CASE ~(w.page <= MaxInt)
    <3>1. w.page > MaxInt /\ w.page > 1
      BY <1>9, <2>3, IntIsSigned
    <3>2. n < Cardinality(rows)
      BY <1>4, <1>10, <1>11, <1>13, <1>16, <3>1 DEF WalkRests
    <3>3. meta.page * n = n
      <4>1. \A k \in Nat : 1 * k = k
        OBVIOUS
      <4>2. QED
        BY <1>12, <3>1, <4>1
    <3>4. QED
      BY <1>14, <2>1, <3>2, <3>3
  <2>4. QED
    BY <2>2, <2>3
<1>22. QED
  BY <1>17, <1>20, <1>21

LEMMA WalkStarts ==
  ASSUME TablesTypeOK, ReaderOK, WalkAsks, NEW f \in Filters, NEW n \in PerPageTexts,
         StartWalk(f, n)
  PROVE  WalkRests'
<1>1. /\ walk'.filter = f /\ walk'.page = 1 /\ walk'.seen = {}
      /\ walk'.stored = PickupsWhere(f) /\ walk'.done = FALSE
      /\ UNCHANGED <<tables, pc>> /\ asks = "walk" /\ walk = Nothing
  BY DEF StartWalk
<1>2. pc' = "idle"
  BY <1>1 DEF WalkAsks
<1>3. Behind(walk, walk.seen, walk.page - 1)'
  <2>1. SUFFICES ASSUME NEW p \in walk'.stored
                 PROVE  /\ p \in PickupsWhere(walk.filter)'
                        /\ (walk'.page - 1) * PerPage(walk)' <= Cardinality(Newer(walk.filter, p)')
    BY DEF Behind
  <2>2. p \in PickupsWhere(walk.filter)'
    BY <1>1, <2>1 DEF PickupsWhere
  <2>3. Newer(walk.filter, p)' \in SUBSET PickupIds
    BY DEF Newer, PickupsWhere
  <2>4. Cardinality(Newer(walk.filter, p)') \in Nat
    BY <2>3, Counts, FiniteAssumption
  <2>5. PerPage(walk)' \in Nat
    BY ParseIsInRange, IntIsSigned DEF PerPage, Params
  <2>6. (walk'.page - 1) * PerPage(walk)' = 0
    <3>1. \A k \in Nat : (1 - 1) * k = 0
      OBVIOUS
    <3>2. QED
      BY <1>1, <2>5, <3>1
  <2>7. QED
    BY <2>2, <2>4, <2>6
<1>4. QED
  BY <1>1, <1>2, <1>3 DEF WalkRests

LEMMA WalkRestsKept ==
  ASSUME TablesTypeOK, Integrity, ReaderOK, WalkAsks, WalkRests, [Next]_vars
  PROVE  WalkRests'
<1>1. CASE ListItems
  BY <1>1, WalkReadsPage
<1>2. CASE ListReply
  <2>1. CASE walk = Nothing
    <3>1. walk' = Nothing
      BY <1>2, <2>1, ListReplySteps
    <3>2. QED
      BY <3>1 DEF WalkRests
  <2>2. QED
    BY <1>2, <2>1, WalkTurnsPage
<1>3. ASSUME NEW f \in Filters, NEW n \in PerPageTexts, StartWalk(f, n) PROVE WalkRests'
  BY <1>3, WalkStarts
<1>4. ASSUME UNCHANGED walk, pc' # "list.count" PROVE WalkRests'
  BY <1>4, WalkStays
<1>5. ASSUME NEW h \in Households, StartGet(h) \/ StartHistory(h) PROVE WalkRests'
  BY <1>4, <1>5 DEF StartGet, StartHistory, Begin
<1>6. ASSUME NEW table \in Tables, NEW f \in Filters, NEW page \in PageTexts,
             NEW n \in PerPageTexts, StartList(table, f, page, n)
      PROVE  WalkRests'
  BY <1>4, <1>6 DEF StartList, Begin
<1>7. CASE FindHousehold \/ HouseholdPickups \/ HouseholdPayments \/ ReadFails
  BY <1>4, <1>7 DEF FindHousehold, HouseholdPickups, HouseholdPayments, ReadFails, Reply
<1>8. CASE NextPage
  BY <1>4, <1>8 DEF NextPage, Begin
<1>9. CASE UNCHANGED <<pc, request, walk>>
  <2>1. pc' = "list.count" /\ walk # Nothing /\ Lasting("pickups", walk.filter)
          /\ walk.page <= MaxInt /\ CreatedApart
          => Behind(walk, walk.seen \cup request'.rows, walk.page)
    BY <1>9 DEF WalkRests
  <2>2. QED
    BY <1>9, <2>1, WalkStays
<1>10. CASE Summary(WasteSummary) \/ Summary(PaymentSummary) \/ Write \/ UNCHANGED vars
  BY <1>9, <1>10 DEF Summary, Write, vars, reader
<1>11. QED
  BY <1>1, <1>2, <1>3, <1>5, <1>6, <1>7, <1>8, <1>10 DEF Next, Read, Start

-----------------------------------------------------------------------------
(* The invariant is inductive, and what it shows.                          *)

LEMMA InitInvariant == Init => IInv
<1> SUFFICES ASSUME Init PROVE IInv
  OBVIOUS
<1>1. TablesTypeOK /\ Integrity
  BY InitTables, InitIntegrity DEF Init
<1>2. pc = "idle" /\ request = Nothing /\ answer = Nothing /\ walk = Nothing
  BY DEF Init
<1>3. ReaderOK /\ HistoryRests /\ PagesRest /\ WalkAsks /\ WalkRests
  BY <1>2, RequestKinds DEF ReaderOK, HistoryRests, PagesRest, WalkAsks, WalkRests
<1>4. QED
  BY <1>1, <1>3 DEF IInv

LEMMA NextInvariant == ASSUME IInv, [Next]_vars PROVE IInv'
  BY DataKept, ReaderKept, HistoryKept, PagesKept, WalkAsksKept, WalkRestsKept DEF IInv

LEMMA AlwaysIInv == Spec => []IInv
<1>1. IInv /\ [Next]_vars => IInv'
  BY NextInvariant
<1>2. QED
  BY InitInvariant, <1>1, PTL DEF Spec

LEMMA PagesAreServed == IInv => InRangePagesAreServed
<1> SUFFICES ASSUME IInv, pc = "list.items",
                    (request.params.page - 1) * request.params.perPage <= MaxInt
             PROVE  Offset(request.params) = (request.params.page - 1) * request.params.perPage
  BY DEF InRangePagesAreServed
<1> DEFINE page == request.params.page
           perPage == request.params.perPage
<1>1. page \in Nat \ {0} /\ perPage \in 1 .. MaxPerPage
  BY IntIsSigned DEF IInv, ReaderOK, IsListing, Params
<1>2. Offset(request.params) = Wrap((page - 1) * perPage) /\ (page - 1) * perPage <= MaxInt
  BY DEF Offset
<1> HIDE DEF page, perPage
<1>3. (page - 1) * perPage \in Nat
  BY <1>1, Products
<1>4. Wrap((page - 1) * perPage) = (page - 1) * perPage
  BY <1>2, <1>3, WrapOfSmall
<1>5. QED
  BY <1>2, <1>4 DEF page, perPage

LEMMA TotalsCover == IInv => TotalCoversPage
<1> SUFFICES ASSUME IInv, answer.op = "list", Lasting(answer.table, answer.filter),
                    answer.rows # {}
             PROVE  /\ answer.meta.total >= Offset(answer.params) + Cardinality(answer.rows)
                    /\ Cardinality(answer.rows) <= answer.meta.perPage
                    /\ answer.rows \subseteq Matching(answer.table, answer.filter)
  BY DEF TotalCoversPage
<1>1. PageRests(answer) /\ Counted(answer)
  BY DEF IInv, PagesRest
<1>2. QED
  BY <1>1 DEF PageRests, Counted

LEMMA WalksMissNothing == IInv => WalkMissesNothing
  BY DEF IInv, WalkRests, WalkMissesNothing, CreatedApart

\* Although household, pickups and payments are read one after the other while
\* the writers go on, a history shows the bill of every completed pickup it
\* shows, only rows of its household, and rows only of a household that exists
\* (report.Service.HouseholdHistory).
THEOREM HistoriesAreCoherent == Spec => []HistoryIsCoherent
<1>1. IInv => HistoryIsCoherent
  BY DEF IInv, HistoryRests, HistoryIsCoherent
<1>2. QED
  BY AlwaysIInv, <1>1, PTL

\* Every page whose preceding rows can be counted in an int gets the offset it
\* names, however wide int is and whatever the query parameters were; the bound is
\* that of the product itself (pagination.Params.Offset).
THEOREM PagesAreThoseNamed == Spec => []InRangePagesAreServed
  BY AlwaysIInv, PagesAreServed, PTL

\* The total counted after a page was read covers the page, whose rows go on
\* matching the filter, for any number of rows and any page size (List).
THEOREM TotalsCoverPages == Spec => []TotalCoversPage
  BY AlwaysIInv, TotalsCover, PTL

\* A reader that turns the pages to the end has seen every pickup that was there
\* when it started, although the pages are read while the writers go on, offsets
\* shift and a page number may not fit an int (List, pagination).
THEOREM NothingIsMissed == Spec => []WalkMissesNothing
  BY AlwaysIInv, WalksMissNothing, PTL
==============================================================================
