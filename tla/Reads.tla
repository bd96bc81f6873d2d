------------------------------- MODULE Reads -------------------------------
(***************************************************************************)
(* The requests that change nothing: household and list endpoints, the     *)
(* history of a household and the two summaries (List, Get and the report  *)
(* service).  One reader issues them, statement by statement and outside   *)
(* any transaction, while the writers do whatever the ledger allows        *)
(* between two statements.  That the service's writers are those of the    *)
(* ledger is shown of WasteBackend.  Requests that only read do not        *)
(* disturb one another, so a reader asks for one kind of thing for ever.   *)
(*                                                                         *)
(* created_at is kept for pickups only: rows of the other tables come in   *)
(* any order, as do pickups created at the same instant (ORDER BY          *)
(* created_at DESC has no second key).  A date window on payments is one   *)
(* wide enough for every date of the run, so it selects the paid ones.     *)
(***************************************************************************)
EXTENDS LedgerSteps, Pagination, FiniteSets, FiniteSetsExt

CONSTANTS
  Requests,       \* kinds of requests readers ask for in this instance
  Filters,        \* filters it uses: [status, household, dated]
  PageTexts, PerPageTexts,  \* query parameters it sends
  MaxClock        \* bound on the clock

\* config.Validate does not check this of PRICE_STANDARD and PRICE_ELECTRONIC.
ASSUME PriceAssumption == Standard \in Nat /\ Electronic \in Nat

\* a uuid has 128 bits
ASSUME FiniteAssumption == IsFiniteSet(PickupIds) /\ IsFiniteSet(PaymentIds)

Tables == {"households", "pickups", "payments"}

Filter ==
  [status: PickupStatus \cup PaymentStatus \cup {None},
   household: Households \cup {None}, dated: BOOLEAN]

ASSUME FilterAssumption == Filters \in SUBSET Filter

VARIABLES
  asks,      \* the kind of requests this reader asks for
  pc,        \* the statement the reader's request executes next
  request,   \* the request being served, with the rows it has read
  answer,    \* what the reader was told last
  walk,      \* where a reader that turns pages of pickups has got to
  waste,     \* the last GET /reports/waste-summary
  money      \* the last GET /reports/payment-summary

reader == <<asks, pc, request, answer, walk, waste, money>>
vars == <<tables, reader>>

NoRows == <<>>  \* the function on no ids
Nothing == [op |-> "none"]
NoWaste == [counts |-> NoRows, total |-> 0]
NoMoney == [totals |-> NoRows, revenue |-> 0]

Init ==
  /\ TablesInit
  /\ asks \in Requests
  /\ pc = "idle"
  /\ request = Nothing
  /\ answer = Nothing
  /\ walk = Nothing
  /\ waste = NoWaste
  /\ money = NoMoney

Begin(op, label, r) ==
  /\ op = asks
  /\ pc = "idle"
  /\ pc' = label
  /\ request' = r
  /\ answer' = Nothing
  /\ UNCHANGED <<tables, asks, waste, money>>

Reply(a) ==
  /\ pc' = "idle"
  /\ request' = Nothing
  /\ answer' = a
  /\ UNCHANGED <<tables, asks>>

Refused(error) == [op |-> "error", error |-> error]

-----------------------------------------------------------------------------
(* GET /households/:id and GET /reports/households/:id/history             *)

StartGet(h) ==
  Begin("get", "household", [op |-> "get", household |-> h]) /\ UNCHANGED walk

StartHistory(h) ==
  /\ Begin("history", "household",
        [op |-> "history", household |-> h, pickups |-> NoRows, payments |-> NoRows])
  /\ UNCHANGED walk

FindHousehold ==
  LET h == request.household IN
    /\ pc = "household"
    /\ \/ h \notin households /\ Reply(Refused("HOUSEHOLD_NOT_FOUND"))
       \/ h \in households /\ request.op = "get" /\ Reply(request)
       \/ /\ h \in households
          /\ request.op = "history"
          /\ pc' = "history.pickups"
          /\ UNCHANGED <<tables, asks, request, answer>>
    /\ UNCHANGED <<walk, waste, money>>

Shown(table, ids) == [id \in ids |-> table[id]]
PickupsOf(h) == Shown(pickups, {p \in Stored(pickups) : pickups[p].household = h})

\* shows a payment only when it is paid
BugPaymentsOf(h) ==
  Shown(payments, {y \in Stored(payments) : /\ payments[y].household = h
                                            /\ payments[y].status = "paid"})

PaymentsOf(h) == Shown(payments, {y \in Stored(payments) : payments[y].household = h})

HouseholdPickups ==
  /\ pc = "history.pickups"
  /\ pc' = "history.payments"
  /\ request' = [request EXCEPT !.pickups = PickupsOf(request.household)]
  /\ UNCHANGED <<tables, asks, answer, walk, waste, money>>

HouseholdPayments ==
  /\ pc = "history.payments"
  /\ Reply([request EXCEPT !.payments = PaymentsOf(request.household)])
  /\ UNCHANGED <<walk, waste, money>>

-----------------------------------------------------------------------------
(* GET /households, GET /pickups and GET /payments: the rows of a page,    *)
(* then their total number.                                                *)

Selects(filter, row) ==
  /\ row # None
  /\ filter.status \in {None, row.status}
  /\ filter.household \in {None, row.household}

PickupsWhere(filter) == {p \in PickupIds : Selects(filter, pickups[p])}

PaymentsWhere(filter) ==
  {y \in PaymentIds : /\ Selects(filter, payments[y])
                      /\ filter.dated => payments[y].status = "paid"}

Matching(table, filter) ==
  CASE table = "households" -> households
    [] table = "pickups" -> PickupsWhere(filter)
    [] table = "payments" -> PaymentsWhere(filter)

Before(table, a, b) ==
  table = "pickups" => pickups[a].createdAt >= pickups[b].createdAt

Atmost(m, n) == IF m <= n THEN m ELSE n

\* What ORDER BY created_at DESC LIMIT .. OFFSET .. can return of these rows.
Pages(table, rows, params) ==
  {P \in SUBSET rows :
     \E skipped \in SUBSET (rows \ P) :
       LET rest == rows \ (skipped \cup P) IN
         /\ Cardinality(skipped) = Atmost(Offset(params), Cardinality(rows))
         /\ Cardinality(P) =
              Atmost(Limit(params), Cardinality(rows) - Cardinality(skipped))
         /\ \A a \in skipped, b \in P \cup rest : Before(table, a, b)
         /\ \A a \in P, b \in rest : Before(table, a, b)}

Listing(table, filter, params) ==
  [op |-> "list", table |-> table, filter |-> filter, params |-> params,
   rows |-> {}, meta |-> Nothing]

StartList(table, filter, pageText, perPageText) ==
  /\ Begin("list", "list.items", Listing(table, filter, Parse(pageText, perPageText)))
  /\ UNCHANGED walk

\* The database rejects a negative OFFSET (mapError: 500).
ListItems ==
  LET rows == Matching(request.table, request.filter) IN
    /\ pc = "list.items"
    /\ \/ Offset(request.params) < 0 /\ Reply(Refused("INTERNAL_ERROR"))
       \/ /\ Offset(request.params) >= 0
          /\ pc' = "list.count"
          /\ \E P \in Pages(request.table, rows, request.params) :
               request' = [request EXCEPT !.rows = P]
          /\ UNCHANGED <<tables, asks, answer>>
    /\ UNCHANGED <<walk, waste, money>>

\* counts the rows of the page
BugCountRows == Cardinality(request.rows)

CountRows == Cardinality(Matching(request.table, request.filter))

\* A reader that turns pages notes what it saw, and whether that was all.
Noted(meta) ==
  [walk EXCEPT !.seen = @ \cup request.rows, !.page = @ + 1,
               !.done = meta.page * meta.perPage >= meta.total]

ListReply ==
  LET meta == NewMeta(request.params, CountRows) IN
    /\ pc = "list.count"
    /\ Reply([request EXCEPT !.meta = meta])
    /\ walk' = IF walk = Nothing THEN walk ELSE Noted(meta)
    /\ UNCHANGED <<waste, money>>

\* A reader that wants all pickups a filter selects starts at page 1, goes on
\* until page * per_page reaches the total, and repeats a page that failed.
StartWalk(filter, perPageText) ==
  /\ asks = "walk"
  /\ walk = Nothing
  /\ walk' = [op |-> "walk", filter |-> filter, perPageText |-> perPageText,
              page |-> 1, seen |-> {}, stored |-> PickupsWhere(filter), done |-> FALSE]
  /\ UNCHANGED <<tables, asks, pc, request, answer, waste, money>>

NextPage ==
  /\ walk # Nothing
  /\ ~walk.done
  /\ Begin("walk", "list.items",
           Listing("pickups", walk.filter, Parse(walk.page, walk.perPageText)))
  /\ UNCHANGED walk

-----------------------------------------------------------------------------
(* GET /reports/waste-summary and GET /reports/payment-summary             *)

\* GROUP BY type, status
WasteCounts ==
  [g \in {<<pickups[p].type, pickups[p].status>> : p \in Stored(pickups)} |->
     Cardinality({p \in Stored(pickups) : <<pickups[p].type, pickups[p].status>> = g})]

Summary(shown) ==
  /\ asks = "summaries"
  /\ pc = "idle"
  /\ shown
  /\ UNCHANGED <<tables, asks, pc, request, answer, walk>>

WasteSummary ==
  /\ waste' = [counts |-> WasteCounts,
               total |-> MapThenSumSet(LAMBDA g : WasteCounts[g], DOMAIN WasteCounts)]
  /\ UNCHANGED money

BilledWith(status) == {y \in Stored(payments) : payments[y].status = status}

\* leaves out what is not paid yet
BugPaymentTotals ==
  [s \in {payments[y].status : y \in Stored(payments)} \ {"pending"} |->
     [count |-> Cardinality(BilledWith(s)),
      amount |-> MapThenSumSet(LAMBDA y : payments[y].amount, BilledWith(s))]]

\* GROUP BY status
PaymentTotals ==
  [s \in {payments[y].status : y \in Stored(payments)} |->
     [count |-> Cardinality(BilledWith(s)),
      amount |-> MapThenSumSet(LAMBDA y : payments[y].amount, BilledWith(s))]]

Revenue(totals) == IF "paid" \in DOMAIN totals THEN totals["paid"].amount ELSE 0

PaymentSummary ==
  /\ money' = [totals |-> PaymentTotals, revenue |-> Revenue(PaymentTotals)]
  /\ UNCHANGED waste

-----------------------------------------------------------------------------
\* A statement fails or the deadline passes: a 503 or a 500 (see Pipeline) and no
\* part of an answer.
ReadFails ==
  /\ pc # "idle"
  /\ Reply(Refused("FAILED"))
  /\ UNCHANGED <<walk, waste, money>>

Start ==
  \/ \E h \in Households : StartGet(h) \/ StartHistory(h)
  \/ \E table \in Tables, f \in Filters, page \in PageTexts, n \in PerPageTexts :
       StartList(table, f, page, n)
  \/ \E f \in Filters, n \in PerPageTexts : StartWalk(f, n)

Read ==
  \/ Start
  \/ FindHousehold \/ HouseholdPickups \/ HouseholdPayments
  \/ ListItems \/ ListReply \/ NextPage
  \/ Summary(WasteSummary) \/ Summary(PaymentSummary)
  \/ ReadFails

Write == LedgerSpec!Next /\ clock' <= MaxClock /\ UNCHANGED reader

Next == Read \/ Write

Spec == Init /\ [][Next]_vars

-----------------------------------------------------------------------------
\* report.Service.HouseholdHistory: although household, pickups and payments
\* are read one after the other, a history shows the bill of every completed
\* pickup it shows, only rows of its household, and rows only of a household
\* that is still there.
HistoryIsCoherent ==
  answer.op = "history" =>
    LET seen == answer.pickups
        bills == answer.payments
    IN /\ \A p \in DOMAIN seen :
            /\ seen[p].household = answer.household
            /\ seen[p].status = "completed" =>
                 \E y \in DOMAIN bills :
                   bills[y].waste = p /\ bills[y].amount = AmountFor(seen[p].type)
       /\ DOMAIN seen \cup DOMAIN bills # {} => answer.household \in households

\* Rows a filter selects are selected for ever: they never leave the table, nor
\* the status asked for.
Lasting(table, filter) ==
  /\ table \in {"pickups", "payments"}
  /\ filter.status \in {None, "completed", "canceled", "paid"}

\* For a filter whose rows last (not status=pending or scheduled, whose rows leave
\* it, and not households, which are deleted): the total of a page of GET /pickups
\* or GET /payments is never smaller than the rows up to the end of that page,
\* although it is counted in a later statement; no row on it misses the filter
\* that was asked for.
TotalCoversPage ==
  answer.op = "list" /\ Lasting(answer.table, answer.filter) /\ answer.rows # {} =>
    /\ answer.meta.total >= Offset(answer.params) + Cardinality(answer.rows)
    /\ Cardinality(answer.rows) <= answer.meta.perPage
    /\ answer.rows \subseteq Matching(answer.table, answer.filter)

\* A reader that turns the pages of GET /pickups to the end has seen every
\* pickup that was there when it started, whatever was created, completed or
\* canceled meanwhile, if its filter is one whose rows last and no two pickups were
\* created at the same instant, whose order may change from page to page.
WalkMissesNothing ==
  /\ walk # Nothing
  /\ walk.done
  /\ Lasting("pickups", walk.filter)
  /\ \A p, q \in Stored(pickups) :
       p # q => pickups[p].createdAt # pickups[q].createdAt
  => walk.stored \subseteq walk.seen

\* As long as the rows before a page can be counted in an int, the page is read at
\* the offset it names, up to the last such page; only beyond it the offset wraps
\* around, and the database skips other rows or rejects a negative number.
InRangePagesAreServed ==
  /\ pc = "list.items"
  /\ (request.params.page - 1) * request.params.perPage <= MaxInt
  => Offset(request.params) = (request.params.page - 1) * request.params.perPage

Bills(shown) == MapThenSumSet(LAMBDA s : shown.totals[s].count, DOMAIN shown.totals)
Completions(shown) ==
  MapThenSumSet(LAMBDA g : shown.counts[g],
                {g \in DOMAIN shown.counts : g[2] = "completed"})

\* Summaries asked for one after the other, each a statement of its own, agree:
\* neither the number of pickups nor the revenue ever shrinks, and a payment
\* summary accounts for every completed pickup an earlier waste summary showed.
\* That the revenue grows rests on PriceAssumption: config.Validate lets a
\* negative PRICE_STANDARD or PRICE_ELECTRONIC through.
SummariesAgree ==
  [][/\ waste'.total >= waste.total
     /\ money'.revenue >= money.revenue
     /\ money' # money => Bills(money') >= Completions(waste)]_vars
=============================================================================
