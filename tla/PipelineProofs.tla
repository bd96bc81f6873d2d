--------------------------- MODULE PipelineProofs ---------------------------
(***************************************************************************)
(* Whichever requests a client sends, in any order: what it is told, what  *)
(* the log says and what the two stores hold agree.  The argument follows   *)
(* the request through the chain: nothing has happened on the way in, what *)
(* is on its way out is already the answer, and is logged where the access *)
(* log stands in the chain.                                                *)
(***************************************************************************)
EXTENDS Pipeline, TLAPS

\* The answer that a response or an error on its way out becomes.
Outgoing ==
  CASE outcome = None -> reply
    [] outcome = Panicked -> Presented(Internal)
    [] OTHER -> Presented(outcome)

\* What AnswerTellsOutcome and StatusTellsCause ask of an answer.
TellsOutcome(a) ==
  /\ a.status \in 400 .. 499 =>
       /\ change = "none"
       /\ stored => op = "confirmPayment" /\ a.code = "PAYMENT_NOT_PENDING"
  /\ a.status < 300 /\ op \in Writes =>
       /\ change = "made"
       /\ op = "confirmPayment" => stored
  /\ change = "open" => fault = "panic"

TellsCause(a) ==
  /\ a.status >= 500 <=> fault \notin {None, "file"}
  /\ a.status = 503 => fault \in Outages \cup {"storage"} \/ op = "readyz"
  /\ fault = "file" => a.status = 400

Truthful(a) == TellsOutcome(a) /\ TellsCause(a)

\* Between two requests; the process survives every panic.
Between ==
  /\ stage # "lost"
  /\ stage = "idle" => depth = 0 /\ outcome = None

\* Nothing has happened yet to a request on its way in.
OnTheWayIn ==
  stage \in {"in", "check", "serve", "commit"} =>
    /\ op \notin {None, "oversized"}
    /\ outcome = None /\ reply = NoReply /\ logged = <<>>
    /\ fault = None
    /\ stage \in {"in", "check"} => executed = 0 /\ change = "none" /\ ~stored
    /\ stage # "in" => op \in DOMAIN Checks /\ depth = Len(Chain)
    /\ stage = "commit" => op \in InTransaction

\* How far a service has got: without a transaction the last statement is the one
\* that changes rows, with one no change is made before the commit; and only a
\* confirmation uploads, between its look at the payment and the UPDATE.
InService ==
  stage \in {"serve", "commit"} =>
    /\ executed \in 0 .. Len(Statements[op])
    /\ op \in InTransaction => change \in {"none", "open"}
    /\ op \notin InTransaction =>
         change = IF op \in Writes /\ executed = Len(Statements[op]) THEN "made" ELSE "none"
    /\ stored <=> op = "confirmPayment" /\ executed >= 2

\* What is on its way out is the answer already.  A panic has not got past
\* Recover, and the log line is written at the third place.
OnTheWayOut ==
  stage = "out" =>
    /\ op \notin {None, "oversized"}
    /\ Truthful(Outgoing)
    /\ Outgoing.status # 413
    /\ outcome = Panicked => fault = "panic" /\ depth >= 2
    /\ fault = "panic" /\ depth >= 2 => outcome = Panicked
    /\ logged = IF fault = "panic" \/ depth >= 3 THEN <<>> ELSE <<Outgoing.status>>

IInv ==
  /\ TypeOK
  /\ Between
  /\ OnTheWayIn
  /\ InService
  /\ OnTheWayOut
  /\ LogAgreesWithAnswer
  /\ AnswerTellsOutcome
  /\ StatusTellsCause

-----------------------------------------------------------------------------
(* Facts about the chain and the errors.                                   *)

LEMMA ChainOrder ==
  /\ Len(Chain) = 5
  /\ 0 \in 0 .. Len(Chain)
  /\ Chain[1] = "requestId" /\ Chain[2] = "recover" /\ Chain[3] = "accessLog"
  /\ Chain[4] = "cors" /\ Chain[5] = "timeout"
BY DEF Chain

\* what presenter.Error makes of the errors that no service returns
LEMMA ErrorsPresented ==
  /\ Presented(Internal) = [status |-> 500, code |-> "INTERNAL_ERROR"]
  /\ Presented(Unavailable) = [status |-> 503, code |-> "SERVICE_UNAVAILABLE"]
  /\ Presented(App("unavailable", "STORAGE_UNAVAILABLE")) =
       [status |-> 503, code |-> "STORAGE_UNAVAILABLE"]
  /\ Presented(App("rateLimited", "RATE_LIMITED")) = [status |-> 429, code |-> "RATE_LIMITED"]
  /\ Presented(App("validation", "VALIDATION_ERROR")) =
       [status |-> 400, code |-> "VALIDATION_ERROR"]
BY DEF Presented, Internal, Unavailable, App, Status, ClientCode

LEMMA FiberErrorsPresented ==
  /\ Presented(FiberError(404)) = [status |-> 404, code |-> "NOT_FOUND"]
  /\ Presented(FiberError(405)) = [status |-> 405, code |-> "METHOD_NOT_ALLOWED"]
  /\ Presented(FiberError(413)) = [status |-> 413, code |-> "REQUEST_ERROR"]
BY DEF Presented, FiberError, CodeForStatus

LEMMA FiberErrors ==
  ASSUME TypeOK, outcome \notin {None, Panicked}
  PROVE  /\ outcome \in {FiberError(404), FiberError(405)}
         /\ Presented(outcome).status \in {404, 405}
         /\ Presented(outcome).code \in ClientCodes
         /\ StatusCode(outcome) = Presented(outcome).status
<1>1. outcome \in [type : {"fiber"}, status : {404, 405}]
  BY DEF TypeOK
<1>2. outcome = FiberError(404) \/ outcome = FiberError(405)
  BY <1>1 DEF FiberError
<1>3. /\ StatusCode(FiberError(404)) = 404
      /\ StatusCode(FiberError(405)) = 405
  BY DEF StatusCode, FiberError
<1> QED BY <1>2, <1>3, FiberErrorsPresented DEF ClientCodes

\* The plans of the services.
LEMMA OperationNames ==
  ASSUME NEW o \in DOMAIN Checks
  PROVE  o \in {"createHousehold", "listHouseholds", "getHousehold", "deleteHousehold",
                "createPickup", "listPickups", "schedulePickup", "completePickup",
                "cancelPickup", "createPayment", "listPayments", "confirmPayment",
                "wasteSummary", "paymentSummary", "history"}
BY DEF Checks, HouseholdChecks, PickupChecks, PaymentChecks, ReportChecks

\* All the refusals there are.
Catalog ==
  {App("notFound", "HOUSEHOLD_NOT_FOUND"), App("notFound", "PICKUP_NOT_FOUND"),
   App("notFound", "PAYMENT_NOT_FOUND"), App("conflict", "HOUSEHOLD_HAS_DEPENDENTS"),
   App("conflict", "HOUSEHOLD_HAS_PENDING_PAYMENT"), App("conflict", "PICKUP_NOT_PENDING"),
   App("conflict", "PICKUP_NOT_SCHEDULED"), App("conflict", "PICKUP_NOT_CANCELABLE"),
   App("conflict", "PAYMENT_ALREADY_EXISTS"), App("conflict", "PAYMENT_NOT_PENDING"),
   App("unprocessable", "SAFETY_CHECK_REQUIRED"),
   App("unprocessable", "PAYMENT_HOUSEHOLD_MISMATCH")}

\* Where a plan changes rows, and where it uploads.
PlanOK(o, plan) ==
  /\ Len(plan) \in 1 .. 3
  /\ o = "confirmPayment" => Len(plan) = 3
  /\ \A i \in 1 .. Len(plan) :
       /\ plan[i].does \in {"look", "change", "upload"}
       /\ plan[i].refuses \subseteq Catalog
       /\ o = "confirmPayment" /\ i = 3 =>
            plan[i].refuses \subseteq {App("conflict", "PAYMENT_NOT_PENDING")}
       /\ plan[i].does = "upload" <=> o = "confirmPayment" /\ i = 2
       /\ plan[i].does = "change" /\ o \notin InTransaction => i = Len(plan) /\ o \in Writes
       /\ o \in Writes \ InTransaction /\ i = Len(plan) => plan[i].does = "change"

LEMMA PlansByTable ==
  ASSUME NEW o \in DOMAIN Checks
  PROVE  /\ o \in DOMAIN HouseholdStatements => Statements[o] = HouseholdStatements[o]
         /\ o \in DOMAIN PickupStatements => Statements[o] = PickupStatements[o]
         /\ o \in DOMAIN PaymentStatements => Statements[o] = PaymentStatements[o]
         /\ o \in DOMAIN ReportStatements => Statements[o] = ReportStatements[o]
<1>1. /\ DOMAIN HouseholdStatements = {"createHousehold", "listHouseholds", "getHousehold",
                                       "deleteHousehold"}
      /\ DOMAIN PickupStatements = {"createPickup", "listPickups", "schedulePickup",
                                    "completePickup", "cancelPickup"}
      /\ DOMAIN PaymentStatements = {"createPayment", "listPayments", "confirmPayment"}
      /\ DOMAIN ReportStatements = {"wasteSummary", "paymentSummary", "history"}
  BY DEF HouseholdStatements, PickupStatements, PaymentStatements, ReportStatements
<1> QED BY <1>1 DEF Statements

LEMMA PlansOfOneStatement ==
  ASSUME NEW o \in {"createHousehold", "getHousehold", "deleteHousehold", "schedulePickup",
                    "cancelPickup", "wasteSummary", "paymentSummary"}
  PROVE  PlanOK(o, Statements[o])
<1>1. o \in DOMAIN Checks
  BY DEF Checks, HouseholdChecks, PickupChecks, PaymentChecks, ReportChecks
<1>2. Statements[o][1].refuses \subseteq Catalog
  <2>1. CASE o \in {"createHousehold", "getHousehold", "deleteHousehold"}
    BY <1>1, <2>1, PlansByTable DEF HouseholdStatements, Change, Look, Catalog
  <2>2. CASE o \in {"schedulePickup", "cancelPickup"}
    BY <1>1, <2>2, PlansByTable DEF PickupStatements, Change, Catalog
  <2>3. CASE o \in {"wasteSummary", "paymentSummary"}
    BY <1>1, <2>3, PlansByTable DEF ReportStatements, Look, Catalog
  <2> QED BY <2>1, <2>2, <2>3
<1>3. Len(Statements[o]) = 1 /\ Statements[o][1].does = IF o \in Writes THEN "change" ELSE "look"
  BY <1>1 DEF Statements, HouseholdStatements, PickupStatements, PaymentStatements,
              ReportStatements, Look, Change, Writes, Creates
<1>4. o \notin InTransaction /\ o # "confirmPayment"
  BY DEF InTransaction, Lists
<1> QED BY <1>2, <1>3, <1>4 DEF PlanOK

LEMMA PlansOfTwoStatements ==
  ASSUME NEW o \in {"listHouseholds", "listPickups", "listPayments", "createPickup",
                    "completePickup", "createPayment"}
  PROVE  PlanOK(o, Statements[o])
<1>1. o \in DOMAIN Checks
  BY DEF Checks, HouseholdChecks, PickupChecks, PaymentChecks, ReportChecks
<1>2. /\ Len(Statements[o]) = 2
      /\ Statements[o][1].does = IF o = "completePickup" THEN "change" ELSE "look"
      /\ Statements[o][2].does = IF o \in Writes THEN "change" ELSE "look"
  BY <1>1 DEF Statements, HouseholdStatements, PickupStatements, PaymentStatements,
              ReportStatements, Look, Change, Writes, Creates
<1>3. Statements[o][1].refuses \subseteq Catalog /\ Statements[o][2].refuses \subseteq Catalog
  <2>1. CASE o = "listHouseholds"
    BY <1>1, <2>1, PlansByTable DEF HouseholdStatements, Look, Catalog
  <2>2. CASE o \in {"listPickups", "createPickup"}
    BY <1>1, <2>2, PlansByTable DEF PickupStatements, Look, Change, Catalog
  <2>3. CASE o = "completePickup"
    BY <1>1, <2>3, PlansByTable DEF PickupStatements, Change, Catalog
  <2>4. CASE o \in {"listPayments", "createPayment"}
    BY <1>1, <2>4, PlansByTable DEF PaymentStatements, Look, Change, Catalog
  <2> QED BY <2>1, <2>2, <2>3, <2>4
<1>4. /\ o = "completePickup" => o \in InTransaction
      /\ o # "confirmPayment"
  BY DEF InTransaction, Lists, Writes, Creates
<1> QED BY <1>2, <1>3, <1>4 DEF PlanOK

LEMMA PlansOfThreeStatements ==
  ASSUME NEW o \in {"confirmPayment", "history"} PROVE PlanOK(o, Statements[o])
<1>1. o \in DOMAIN Checks
  BY DEF Checks, HouseholdChecks, PickupChecks, PaymentChecks, ReportChecks
<1>2. /\ Len(Statements[o]) = 3
      /\ Statements[o][1].does = "look"
      /\ Statements[o][2].does = IF o = "confirmPayment" THEN "upload" ELSE "look"
      /\ Statements[o][3].does = IF o = "confirmPayment" THEN "change" ELSE "look"
  BY <1>1 DEF Statements, HouseholdStatements, PickupStatements, PaymentStatements,
              ReportStatements, Look, Change, Upload
<1>3. /\ Statements[o][1].refuses \subseteq Catalog
      /\ Statements[o][2].refuses \subseteq Catalog
      /\ Statements[o][3].refuses \subseteq Catalog
      /\ o = "confirmPayment" =>
           Statements[o][3].refuses \subseteq {App("conflict", "PAYMENT_NOT_PENDING")}
  <2>1. CASE o = "confirmPayment"
    BY <1>1, <2>1, PlansByTable DEF PaymentStatements, Look, Change, Upload, Catalog
  <2>2. CASE o = "history"
    BY <1>1, <2>2, PlansByTable DEF ReportStatements, Look, Catalog
  <2> QED BY <2>1, <2>2
<1>4. /\ o \in Writes <=> o = "confirmPayment"
      /\ o \notin InTransaction
  BY DEF InTransaction, Lists, Writes, Creates
<1> QED BY <1>2, <1>3, <1>4 DEF PlanOK

LEMMA Plans == ASSUME NEW o \in DOMAIN Checks PROVE PlanOK(o, Statements[o])
BY OperationNames, PlansOfOneStatement, PlansOfTwoStatements, PlansOfThreeStatements

\* Every refusal of a statement is presented as the client's; after an upload
\* there is one.
LEMMA RefusalsPresented ==
  ASSUME NEW o \in DOMAIN Checks, NEW i \in 1 .. Len(Statements[o]),
         NEW e \in Statements[o][i].refuses
  PROVE  /\ Presented(e) = [status |-> Presented(e).status, code |-> Presented(e).code]
         /\ Presented(e).status \in {404, 409, 422}
         /\ Presented(e).code \in ClientCodes
         /\ o = "confirmPayment" /\ i >= 3 => Presented(e).code = "PAYMENT_NOT_PENDING"
<1>1. Len(Statements[o]) \in 1 .. 3 /\ i \in {1, 2, 3}
  BY Plans DEF PlanOK
<1>2. /\ e.type = "app"
      /\ e.kind \in {"notFound", "conflict", "unprocessable"}
      /\ e.code \in ClientCodes
      /\ o = "confirmPayment" /\ i = 3 => e.code = "PAYMENT_NOT_PENDING"
  <2>1. /\ e \in Catalog
        /\ o = "confirmPayment" /\ i = 3 => e = App("conflict", "PAYMENT_NOT_PENDING")
    BY Plans DEF PlanOK
  <2>2. \A c \in Catalog :
          /\ c.type = "app" /\ c.kind \in {"notFound", "conflict", "unprocessable"}
          /\ c.code \in ClientCodes
    BY DEF Catalog, App, ClientCodes
  <2>3. App("conflict", "PAYMENT_NOT_PENDING").code = "PAYMENT_NOT_PENDING"
    BY DEF App
  <2> QED BY <2>1, <2>2, <2>3
<1> QED BY <1>1, <1>2 DEF Presented, Status, ClientCode

LEMMA Names ==
  /\ None # Panicked
  /\ None \notin ClientCodes /\ None \notin Operations /\ None \notin Faults
  /\ None # "storage" /\ None # "panic" /\ None # "file" /\ None # "offset"
  /\ None # Internal /\ None # Unavailable
  /\ None # FiberError(404) /\ None # FiberError(405)
  /\ Panicked # FiberError(404) /\ Panicked # FiberError(405)
BY NameAssumption DEF AnyFault

LEMMA FaultsMapped ==
  /\ \A f \in Faults :
       /\ MapError(f) \in {Internal, Unavailable}
       /\ MapError(f) = Unavailable => f \in Outages
  /\ MapError("offset") = Internal
  /\ CommitError(None) = None
  /\ \A f \in Faults : CommitError(f) = MapError(f) /\ CommitError(f) # None
<1>1. /\ \A f \in Faults : MapError(f) = Internal \/ MapError(f) = Unavailable
      /\ MapError("offset") = Internal
  BY Names DEF MapError, IsUnavailable
<1>2. MapError(None) = None
  BY DEF MapError
<1>3. Internal # Unavailable
  BY DEF Internal, Unavailable, App
<1>4. \A f \in Faults : MapError(f) = Unavailable => f \in Outages
  BY <1>3, Names DEF MapError, IsUnavailable, Outages
<1> QED BY <1>1, <1>2, <1>4, Names DEF CommitError

-----------------------------------------------------------------------------
(* The way in.                                                             *)

LEMMA Unwritten ==
  /\ reply = NoReply => ReplyOK
  /\ (reply = NoReply)' => ReplyOK'
  /\ <<>> \in Seq(Statuses \ {413})
<1>1. reply = NoReply => ReplyOK
  BY DEF NoReply, ReplyOK, Statuses
<1>2. (reply = NoReply)' => ReplyOK'
  BY DEF NoReply, ReplyOK, Statuses
<1>3. <<>> \in Seq(Statuses \ {413})
  OBVIOUS
<1> QED BY <1>1, <1>2, <1>3

\* What handlers write.
LEMMA Written ==
  ASSUME NEW status, NEW code, reply' = [status |-> status, code |-> code],
         \/ status \in {200, 201, 204} /\ code = None
         \/ status \in Statuses \ {200, 201, 204} /\ code \in ClientCodes
  PROVE  ReplyOK' /\ reply'.status = status
BY Names DEF ReplyOK, Statuses

LEMMA InitInvariant == Init => IInv
<1> SUFFICES ASSUME Init PROVE IInv
  OBVIOUS
<1>1. TypeOK
  <2>1. stored \in BOOLEAN
    BY DEF Init
  <2>2. executed \in 0 .. 3
    BY DEF Init
  <2> QED BY <2>1, <2>2, ChainOrder, Unwritten DEF Init, TypeOK
<1> QED
  BY <1>1, Names DEF Init, IInv, Between, OnTheWayIn, InService, OnTheWayOut, LogAgreesWithAnswer,
       AnswerTellsOutcome, StatusTellsCause, Answered

LEMMA ArriveStep ==
  ASSUME IInv, NEW request \in Operations, Arrive(request) PROVE IInv'
<1>1. /\ op' = request /\ logged' = <<>> /\ checked' = 0 /\ fault' = None
      /\ executed' = 0 /\ change' = "none" /\ stored' = FALSE /\ depth' = 0 /\ outcome' = None
  BY DEF Arrive, IInv, Between
<1>2. request \in DOMAIN Checks \cup Unrouted /\ request # None
  BY OperationAssumption, Names
<1>3. executed' \in 0 .. 3 /\ stored' \in BOOLEAN
  <2>1. executed' \in 0 .. 3
    BY <1>1
  <2>2. stored' \in BOOLEAN
    BY <1>1
  <2> QED BY <2>1, <2>2
<1>4. CASE request = "oversized"
  <2>1. stage' = "idle" /\ reply' = [status |-> 413, code |-> "REQUEST_ERROR"]
    BY <1>4, FiberErrorsPresented DEF Arrive
  <2>2. ReplyOK'
    BY <2>1, Names DEF ReplyOK, Statuses, ClientCodes
  <2>3. TypeOK'
    BY <1>1, <1>3, <2>1, <2>2, ChainOrder, Unwritten DEF TypeOK
  <2>4. request \notin Writes
    BY <1>4 DEF Writes, Creates
  <2> QED BY <1>1, <1>4, <2>1, <2>3, <2>4, Names
          DEF IInv, Between, OnTheWayIn, InService, OnTheWayOut, LogAgreesWithAnswer,
              AnswerTellsOutcome, StatusTellsCause, Answered
<1>5. CASE request # "oversized"
  <2>1. stage' = "in" /\ reply' = NoReply
    BY <1>5 DEF Arrive
  <2>2. TypeOK'
    BY <1>1, <1>3, <2>1, Unwritten, ChainOrder DEF TypeOK
  <2> QED BY <1>1, <1>2, <1>5, <2>1, <2>2
          DEF IInv, Between, OnTheWayIn, InService, OnTheWayOut, LogAgreesWithAnswer,
              AnswerTellsOutcome, StatusTellsCause, Answered
<1> QED BY <1>4, <1>5

\* Steps further in: no answer yet.
LEMMA FurtherIn ==
  ASSUME IInv, stage \in {"in", "check", "serve"}, stage' \in {"in", "check", "serve", "commit"},
         depth' \in 0 .. Len(Chain), checked' \in Nat,
         stage' # "in" => op \in DOMAIN Checks /\ depth' = Len(Chain),
         stage' = "commit" => op \in InTransaction,
         stage' \in {"in", "check"} => UNCHANGED effects /\ stage # "serve",
         executed' \in 0 .. 3, change' \in {"none", "open", "made"}, stored' \in BOOLEAN,
         InService', UNCHANGED <<op, outcome, reply, logged, fault>>
  PROVE  IInv'
<1>1. TypeOK'
  BY DEF IInv, TypeOK, ReplyOK
<1>2. OnTheWayIn'
  BY DEF IInv, OnTheWayIn, NoReply, effects
<1> QED BY <1>1, <1>2 DEF IInv, Between, OnTheWayOut, LogAgreesWithAnswer,
              AnswerTellsOutcome, StatusTellsCause, Answered

\* As long as there is no service, nothing is executed.
LEMMA Untouched ==
  ASSUME IInv, stage \in {"in", "check"}
  PROVE  /\ executed = 0 /\ change = "none" /\ stored = FALSE
         /\ executed \in 0 .. 3 /\ change \in {"none", "open", "made"} /\ stored \in BOOLEAN
BY DEF IInv, OnTheWayIn, TypeOK

LEMMA FurtherInUntouched ==
  ASSUME IInv, stage \in {"in", "check"}, stage' \in {"in", "check", "serve"},
         depth' \in 0 .. Len(Chain), checked' \in Nat,
         stage' # "in" => op \in DOMAIN Checks /\ depth' = Len(Chain),
         UNCHANGED <<op, outcome, reply, logged, fault, effects>>
  PROVE  IInv'
<1>1. executed' = 0 /\ change' = "none" /\ stored' = FALSE
  BY Untouched DEF effects
<1>2. InService'
  <2>1. CASE stage' = "serve"
    <3>1. op' = op /\ op \in DOMAIN Checks /\ Len(Statements[op]) \in 1 .. 3
      BY <2>1, Plans DEF PlanOK
    <3> DEFINE n == Len(Statements[op])
    <3>2. n \in 1 .. 3 /\ n = Len(Statements[op])'
      BY <3>1
    <3> HIDE DEF n
    <3>3. 0 \in 0 .. n /\ ~(0 = n) /\ ~(0 >= 2)
      BY <3>2
    <3>4. executed' \in 0 .. Len(Statements[op])' /\ executed' # Len(Statements[op])'
      BY <1>1, <3>2, <3>3
    <3>5. ~stored' /\ ~(executed' >= 2)
      BY <1>1, <3>3
    <3> QED BY <1>1, <3>4, <3>5 DEF InService
  <2> QED BY <2>1 DEF InService
<1>3. executed' \in 0 .. 3
  BY <1>1
<1>4. stored' \in BOOLEAN
  BY <1>1
<1> QED BY <1>1, <1>2, <1>3, <1>4, FurtherIn

\* A request that is answered inside the access log, without a panic.
LEMMA AnswerInside ==
  ASSUME IInv, stage \in {"in", "check", "serve", "commit"}, depth >= 3, Return(None),
         ReplyOK', reply'.status # 413,
         fault' \in Faults \cup {"offset", "storage", "file", None},
         change' \in {"none", "open", "made"}, stored' \in BOOLEAN, Truthful(reply)'
  PROVE  IInv'
<1>1. /\ stage' = "out" /\ outcome' = None /\ op' = op /\ depth' = depth
      /\ checked' = checked /\ logged' = <<>> /\ logged = <<>> /\ op \notin {None, "oversized"}
      /\ executed' = executed
  BY DEF Return, IInv, OnTheWayIn
<1>2. TypeOK'
  BY <1>1 DEF IInv, TypeOK, AnyFault
<1>3. Outgoing' = reply'
  BY <1>1, Names DEF Outgoing
<1>4. Truthful(Outgoing)'
  BY <1>1, <1>3 DEF Truthful, TellsOutcome, TellsCause
<1>5. fault' # "panic"
  BY Names DEF Faults, Outages
<1>6. OnTheWayOut'
  BY <1>1, <1>3, <1>4, <1>5, Names DEF OnTheWayOut
<1> QED BY <1>1, <1>2, <1>6 DEF IInv, Between, OnTheWayIn, InService, LogAgreesWithAnswer,
              AnswerTellsOutcome, StatusTellsCause, Answered

\* An answer before the service is truthful unless it is the success of a write.
LEMMA WithoutEffect ==
  ASSUME IInv, stage \in {"in", "check"}, UNCHANGED <<op, change, stored>>,
         reply'.status < 300 => op \notin Writes, TellsCause(reply)'
  PROVE  Truthful(reply)' /\ change' \in {"none", "open", "made"} /\ stored' \in BOOLEAN
BY Untouched DEF Truthful, TellsOutcome

LEMMA EnterStep == ASSUME IInv, Enter PROVE IInv'
<1>1. stage = "in" /\ depth \in 0 .. 4 /\ fault = None
  BY ChainOrder DEF Enter, IInv, TypeOK, OnTheWayIn
<1>2. CASE Chain[depth + 1] = "cors" /\ op = "preflight"
  <2>1. depth = 3
    BY <1>1, <1>2, ChainOrder
  <2>2. /\ Return(None) /\ reply' = [status |-> 204, code |-> None]
        /\ fault' = None /\ UNCHANGED <<op, change, stored>>
    BY <1>1, <1>2 DEF Enter, Preflight, Success, Return
  <2>3. op \notin Writes
    BY <1>2 DEF Writes, Creates
  <2>4. ReplyOK' /\ reply'.status = 204
    BY <2>2, Written
  <2>5. TellsCause(reply)'
    BY <2>2, <2>4, Names DEF TellsCause
  <2>6. Truthful(reply)' /\ change' \in {"none", "open", "made"} /\ stored' \in BOOLEAN
    BY <1>1, <2>2, <2>3, <2>5, WithoutEffect
  <2> QED BY <1>1, <2>1, <2>2, <2>4, <2>6, AnswerInside
<1>3. CASE ~(Chain[depth + 1] = "cors" /\ op = "preflight")
  <2>1. /\ depth' = depth + 1 /\ stage' = "in"
        /\ UNCHANGED <<op, checked, outcome, reply, logged, fault, effects>>
    BY <1>1, <1>3 DEF Enter
  <2>2. depth' \in 0 .. Len(Chain) /\ checked' \in Nat
    BY <1>1, <2>1, ChainOrder DEF IInv, TypeOK
  <2> QED BY <1>1, <2>1, <2>2, FurtherInUntouched
<1> QED BY <1>2, <1>3

LEMMA DispatchStep == ASSUME IInv, Dispatch PROVE IInv'
<1>1. /\ stage = "in" /\ depth = Len(Chain) /\ depth >= 3 /\ fault = None
      /\ logged = <<>> /\ reply = NoReply /\ op \notin {None, "oversized"} /\ ReplyOK
  BY ChainOrder DEF Dispatch, IInv, TypeOK, OnTheWayIn
<1>2. CASE NoRoute
  <2>1. /\ stage' = "out" /\ UNCHANGED <<op, depth, checked, logged, reply, fault, effects>>
        /\ outcome' \in {FiberError(404), FiberError(405)}
    BY <1>2 DEF NoRoute, Return, effects
  <2>2. /\ outcome' \in [type : {"fiber"}, status : {404, 405}]
        /\ outcome' # None /\ outcome' # Panicked
    BY <2>1, Names DEF FiberError
  <2>3. ReplyOK'
    BY <1>1, <2>1 DEF ReplyOK
  <2>4. TypeOK'
    BY <2>1, <2>2, <2>3 DEF IInv, TypeOK, effects
  <2>5. Outgoing' = Presented(outcome')
    BY <2>2 DEF Outgoing
  <2>6. Outgoing'.status \in {404, 405}
    BY <2>1, <2>5, FiberErrorsPresented
  <2>7. Truthful(Outgoing)'
    <3>1. change' = "none" /\ stored' = FALSE /\ fault' = None
      BY <1>1, <2>1, Untouched DEF effects
    <3>2. TellsOutcome(Outgoing)'
      BY <2>6, <3>1 DEF TellsOutcome
    <3>3. TellsCause(Outgoing)'
      BY <2>6, <3>1, Names DEF TellsCause
    <3> QED BY <3>2, <3>3 DEF Truthful
  <2>8. OnTheWayOut'
    BY <1>1, <2>1, <2>2, <2>6, <2>7, Names DEF OnTheWayOut
  <2> QED BY <2>1, <2>4, <2>8 DEF IInv, Between, OnTheWayIn, InService, LogAgreesWithAnswer,
              AnswerTellsOutcome, StatusTellsCause, Answered
<1>3. CASE Healthz
  <2>1. /\ Return(None) /\ reply' = [status |-> 200, code |-> None]
        /\ fault' = None /\ UNCHANGED <<op, change, stored>>
    BY <1>1, <1>3 DEF Healthz, Success, Return
  <2>2. op \notin Writes
    BY <1>3 DEF Healthz, Writes, Creates
  <2>3. ReplyOK' /\ reply'.status = 200
    BY <2>1, Written
  <2>4. TellsCause(reply)'
    BY <2>1, <2>3, Names DEF TellsCause
  <2>5. Truthful(reply)' /\ change' \in {"none", "open", "made"} /\ stored' \in BOOLEAN
    BY <1>1, <2>1, <2>2, <2>4, WithoutEffect
  <2> QED BY <1>1, <2>1, <2>3, <2>5, AnswerInside
<1>4. CASE Readyz
  <2>1. op = "readyz" /\ op \notin Writes /\ UNCHANGED <<change, stored>>
    BY <1>4 DEF Readyz, Writes, Creates
  <2>2. CASE Success(200) /\ UNCHANGED fault
    <3>1. Return(None) /\ reply' = [status |-> 200, code |-> None] /\ fault' = None /\ op' = op
      BY <1>1, <2>2 DEF Success, Return
    <3>2. ReplyOK' /\ reply'.status = 200
      BY <3>1, Written
    <3>3. TellsCause(reply)'
      BY <3>1, <3>2, Names DEF TellsCause
    <3>4. Truthful(reply)' /\ change' \in {"none", "open", "made"} /\ stored' \in BOOLEAN
      BY <1>1, <2>1, <3>1, <3>3, WithoutEffect
    <3> QED BY <1>1, <3>1, <3>2, <3>4, AnswerInside
  <2>3. CASE \E f \in Faults \cup {"storage"} : Reject(Unavailable) /\ fault' = f
    <3>1. /\ Return(None) /\ reply' = [status |-> 503, code |-> "SERVICE_UNAVAILABLE"]
          /\ fault' \in Faults \cup {"storage"} /\ fault' # None /\ fault' # "file" /\ op' = op
      BY <2>3, ErrorsPresented, Names DEF Reject, Return, Faults, Outages
    <3>2. ReplyOK' /\ reply'.status = 503
      BY <3>1, Written DEF ClientCodes, Statuses
    <3>3. TellsCause(reply)'
      BY <2>1, <3>1, <3>2 DEF TellsCause
    <3>4. Truthful(reply)' /\ change' \in {"none", "open", "made"} /\ stored' \in BOOLEAN
      BY <1>1, <2>1, <3>1, <3>2, <3>3, WithoutEffect
    <3> QED BY <1>1, <3>1, <3>2, <3>4, AnswerInside
  <2> QED BY <1>4, <2>2, <2>3 DEF Readyz
<1>5. CASE Route
  <2>1. /\ stage' = "check" /\ op \in DOMAIN Checks
        /\ UNCHANGED <<op, depth, checked, outcome, reply, logged, fault, effects>>
    BY <1>5 DEF Route
  <2>2. depth' \in 0 .. Len(Chain) /\ checked' \in Nat
    BY <2>1 DEF IInv, TypeOK
  <2> QED BY <1>1, <2>1, <2>2, FurtherInUntouched
<1> QED BY <1>2, <1>3, <1>4, <1>5 DEF Dispatch

-----------------------------------------------------------------------------
(* The handler and the service.                                            *)

LEMMA Inside ==
  ASSUME IInv, stage \in {"check", "serve", "commit"}
  PROVE  /\ op \in DOMAIN Checks /\ depth = Len(Chain) /\ depth = 5 /\ depth >= 3
         /\ fault = None /\ logged = <<>> /\ checked \in Nat
BY ChainOrder DEF IInv, TypeOK, OnTheWayIn

LEMMA CheckSteps ==
  ASSUME IInv, CheckFails \/ CheckPasses \/ CallService PROVE IInv'
<1>1. stage = "check"
  BY DEF CheckFails, CheckPasses, CallService
<1>2. /\ op \in DOMAIN Checks /\ depth = Len(Chain) /\ depth >= 3
      /\ fault = None /\ checked \in Nat
  BY <1>1, Inside
<1>3. CASE CheckFails
  <2>1. Return(None) /\ UNCHANGED <<op, change, stored>> /\ fault' \in {None, "file"}
    BY <1>2, <1>3 DEF CheckFails, Reject, Return
  <2>2. \/ reply' = [status |-> 429, code |-> "RATE_LIMITED"] /\ fault' = None
        \/ reply' = [status |-> 400, code |-> "VALIDATION_ERROR"]
    BY <1>2, <1>3, ErrorsPresented DEF CheckFails, Reject, FileChecks
  <2>3. ReplyOK' /\ reply'.status \in {429, 400} /\ (reply'.status = 429 => fault' = None)
    BY <2>2, Written DEF ClientCodes, Statuses
  <2>4. TellsCause(reply)'
    BY <2>1, <2>3, Names DEF TellsCause
  <2>5. Truthful(reply)' /\ change' \in {"none", "open", "made"} /\ stored' \in BOOLEAN
    BY <1>1, <2>1, <2>3, <2>4, WithoutEffect
  <2> QED BY <1>1, <1>2, <2>1, <2>3, <2>5, AnswerInside
<1>4. CASE CheckPasses \/ CallService
  <2>1. /\ stage' \in {"check", "serve"} /\ checked' \in Nat
        /\ UNCHANGED <<op, depth, outcome, reply, logged, fault, effects>>
    BY <1>1, <1>2, <1>4 DEF CheckPasses, CallService
  <2>2. depth' \in 0 .. Len(Chain)
    BY <2>1 DEF IInv, TypeOK
  <2> QED BY <1>1, <1>2, <2>1, <2>2, FurtherInUntouched
<1> QED BY <1>3, <1>4

\* What a service is about to execute, and what is there before.
LEMMA AtStatement ==
  ASSUME IInv, Executing
  PROVE  /\ stage = "serve" /\ op \in DOMAIN Checks /\ PlanOK(op, Statements[op])
         /\ executed \in 0 .. 2 /\ executed + 1 \in 1 .. Len(Statements[op])
         /\ op \in InTransaction => change \in {"none", "open"}
         /\ op \notin InTransaction => change = "none"
         /\ Undone = "none"
         /\ stored <=> op = "confirmPayment" /\ executed = 2
         /\ stored \in BOOLEAN
<1>1. stage = "serve" /\ op \in DOMAIN Checks /\ PlanOK(op, Statements[op])
  BY Inside, Plans DEF Executing
<1>2. executed \in Nat /\ executed < Len(Statements[op]) /\ Len(Statements[op]) \in 1 .. 3
  BY <1>1 DEF Executing, PlanOK, IInv, TypeOK
<1>3. executed \in 0 .. 2 /\ executed + 1 \in 1 .. Len(Statements[op])
  <2>1. \A n \in 1 .. 3, m \in Nat : m < n => m \in 0 .. 2 /\ m + 1 \in 1 .. n
    OBVIOUS
  <2> QED BY <1>2, <2>1
<1>4. /\ op \in InTransaction => change \in {"none", "open"}
      /\ op \notin InTransaction => change = "none"
      /\ stored <=> op = "confirmPayment" /\ executed = 2
  BY <1>1, <1>2, <1>3 DEF IInv, InService
<1> QED BY <1>1, <1>3, <1>4 DEF Undone, IInv, TypeOK

LEMMA ExecuteStep == ASSUME IInv, Execute PROVE IInv'
<1> DEFINE n == Len(Statements[op])
<1>1. /\ stage = "serve" /\ op \in DOMAIN Checks /\ PlanOK(op, Statements[op])
      /\ executed \in 0 .. 2 /\ executed + 1 \in 1 .. n
      /\ op \in InTransaction => change \in {"none", "open"}
      /\ op \notin InTransaction => change = "none"
      /\ stored <=> op = "confirmPayment" /\ executed = 2
      /\ stored \in BOOLEAN
  BY AtStatement DEF Execute
<1>2. /\ executed' = executed + 1 /\ stage' = "serve"
      /\ UNCHANGED <<op, depth, checked, outcome, reply, logged, fault>>
      /\ stored' = (stored \/ Current.does = "upload")
  BY <1>1 DEF Execute
<1>3. /\ Current.does # "change" => change' = change
      /\ Current.does = "change" /\ op \in InTransaction => change' = "open"
      /\ Current.does = "change" /\ op \notin InTransaction => change' = "made"
  BY DEF Execute
<1>4. /\ Current.does = "upload" <=> op = "confirmPayment" /\ executed = 1
      /\ Current.does = "change" /\ op \notin InTransaction => executed + 1 = n /\ op \in Writes
      /\ op \in Writes \ InTransaction /\ executed + 1 = n => Current.does = "change"
      /\ n \in 1 .. 3
  BY <1>1 DEF PlanOK, Current
<1>5. stored' \in BOOLEAN /\ (stored' <=> op' = "confirmPayment" /\ executed' >= 2)
  <2>1. stored' <=> op = "confirmPayment" /\ (executed = 2 \/ executed = 1)
    BY <1>1, <1>2, <1>4
  <2>2. executed = 2 \/ executed = 1 <=> executed + 1 >= 2
    BY <1>1
  <2>3. stored' \in BOOLEAN
    BY <1>2
  <2> QED BY <1>2, <2>1, <2>2, <2>3
<1>6. /\ op \in InTransaction => change' \in {"none", "open"}
      /\ op \notin InTransaction =>
           change' = IF op \in Writes /\ executed + 1 = n THEN "made" ELSE "none"
  BY <1>1, <1>3, <1>4
<1>7. executed' \in 0 .. n /\ executed' \in 0 .. 3
  BY <1>1, <1>2, <1>4
<1>8. InService'
  BY <1>2, <1>5, <1>6, <1>7 DEF InService
<1>9. change' \in {"none", "open", "made"}
  BY <1>6
<1>10. depth' = Len(Chain) /\ depth' \in 0 .. Len(Chain) /\ checked' \in Nat
  BY <1>1, <1>2, Inside, ChainOrder
<1> QED BY <1>1, <1>2, <1>5, <1>7, <1>8, <1>9, <1>10, FurtherIn

\* Whichever statement refuses: nothing is left of a transaction, and an object
\* only if it is the last one of a confirmation.
LEMMA RefuseStep == ASSUME IInv, Refuse PROVE IInv'
<1>1. /\ stage = "serve" /\ op \in DOMAIN Checks /\ executed \in 0 .. 2
      /\ executed + 1 \in 1 .. Len(Statements[op])
      /\ stored <=> op = "confirmPayment" /\ executed = 2
      /\ stored \in BOOLEAN /\ Undone = "none"
  BY AtStatement DEF Refuse
<1>2. depth >= 3 /\ fault = None
  BY <1>1, Inside
<1>3. PICK e \in Current.refuses : Reject(e)
  BY DEF Refuse
<1>4. /\ Return(None) /\ reply' = Presented(e) /\ fault' = None /\ op' = op
      /\ change' = "none" /\ stored' = stored
  BY <1>1, <1>2, <1>3 DEF Refuse, Reject, Return
<1>5. /\ Presented(e).status \in {404, 409, 422} /\ Presented(e).code \in ClientCodes
      /\ Presented(e) = [status |-> Presented(e).status, code |-> Presented(e).code]
      /\ op = "confirmPayment" /\ executed + 1 >= 3 => Presented(e).code = "PAYMENT_NOT_PENDING"
  BY <1>1, RefusalsPresented DEF Current
<1>6. /\ ReplyOK' /\ reply'.status \in {404, 409, 422}
  BY <1>4, <1>5, Written DEF Statuses
<1>7. TellsOutcome(reply)'
  BY <1>1, <1>4, <1>5, <1>6 DEF TellsOutcome
<1>8. TellsCause(reply)'
  BY <1>4, <1>6, Names DEF TellsCause
<1> QED BY <1>1, <1>2, <1>4, <1>6, <1>7, <1>8, AnswerInside DEF Truthful

\* A fault is answered 5xx, whatever has become of the statement, and leaves no
\* transaction open.
LEMMA FaultAnswered ==
  ASSUME IInv, stage \in {"serve", "commit"}, Return(None),
         \/ reply' = Presented(Internal)
         \/ reply' = Presented(Unavailable) /\ fault' \in Outages
         \/ reply' = Presented(App("unavailable", "STORAGE_UNAVAILABLE")) /\ fault' = "storage",
         fault' \in Faults \cup {"offset", "storage"},
         change' \in {"none", "made"}, stored' \in BOOLEAN
  PROVE  IInv'
<1>1. depth >= 3
  BY Inside
<1>2. ReplyOK' /\ reply'.status \in {500, 503}
      /\ (reply'.status = 503 => fault' \in Outages \cup {"storage"})
  BY ErrorsPresented, Written DEF Statuses, ClientCodes
<1>3. fault' # None /\ fault' # "file" /\ fault' \in Faults \cup {"offset", "storage", "file", None}
  BY Names DEF Faults, Outages
<1>4. TellsOutcome(reply)'
  BY <1>2 DEF TellsOutcome
<1>5. TellsCause(reply)'
  BY <1>2, <1>3 DEF TellsCause
<1>6. reply'.status # 413
  BY <1>2
<1> QED BY <1>1, <1>2, <1>3, <1>4, <1>5, <1>6, AnswerInside DEF Truthful

LEMMA FaultSteps ==
  ASSUME IInv, (\E f \in Faults : StatementFails(f)) \/ OffsetFails \/ UploadFails PROVE IInv'
<1>1. /\ Executing /\ stage = "serve" /\ stored \in BOOLEAN /\ Undone = "none"
      /\ op \in InTransaction \/ change = "none"
      /\ op \notin InTransaction => change = "none"
  BY AtStatement DEF StatementFails, OffsetFails, UploadFails
<1>2. CASE \E f \in Faults : StatementFails(f)
  <2>1. PICK f \in Faults : StatementFails(f)
    BY <1>2
  <2>2. Return(None) /\ reply' = Presented(MapError(f)) /\ fault' = f /\ stored' = stored
    BY <2>1 DEF StatementFails, Reject
  <2>3. change' \in {"none", "made"}
    BY <1>1, <2>1 DEF StatementFails
  <2>4. CASE MapError(f) = Internal
    BY <1>1, <2>1, <2>2, <2>3, <2>4, FaultAnswered
  <2>5. CASE MapError(f) = Unavailable
    <3>1. fault' \in Outages
      BY <2>1, <2>2, <2>5, FaultsMapped
    <3> QED BY <1>1, <2>1, <2>2, <2>3, <2>5, <3>1, FaultAnswered
  <2> QED BY <2>1, <2>4, <2>5, FaultsMapped
<1>3. CASE OffsetFails
  <2>1. /\ Return(None) /\ reply' = Presented(Internal) /\ fault' = "offset"
        /\ stored' = stored /\ change' = change
    BY <1>3, FaultsMapped DEF OffsetFails, Reject
  <2>2. op \notin InTransaction
    BY <1>3 DEF OffsetFails, Lists, InTransaction
  <2> QED BY <1>1, <2>1, <2>2, FaultAnswered
<1>4. CASE UploadFails
  <2>1. /\ Return(None) /\ fault' = "storage" /\ stored' \in BOOLEAN /\ change' = change
        /\ reply' = Presented(App("unavailable", "STORAGE_UNAVAILABLE"))
    BY <1>4 DEF UploadFails, Reject
  <2>2. op = "confirmPayment"
    <3>1. PlanOK(op, Statements[op]) /\ executed + 1 \in 1 .. Len(Statements[op])
      BY <1>1, AtStatement
    <3> QED BY <1>4, <3>1 DEF UploadFails, Current, PlanOK
  <2>3. op \notin InTransaction
    BY <2>2 DEF InTransaction
  <2> QED BY <1>1, <2>1, <2>3, FaultAnswered
<1> QED BY <1>2, <1>3, <1>4

LEMMA PanicStep == ASSUME IInv, Panic PROVE IInv'
<1>1. /\ stage = "serve" /\ stage' = "out" /\ outcome' = Panicked /\ fault' = "panic"
      /\ UNCHANGED <<op, depth, checked, logged, reply, effects>>
  BY DEF Panic, Return, effects
<1>2. /\ depth = 5 /\ logged = <<>> /\ op \notin {None, "oversized"}
  BY <1>1, Inside DEF IInv, OnTheWayIn
<1>3. ReplyOK'
  BY <1>1 DEF IInv, TypeOK, ReplyOK
<1>4. TypeOK'
  BY <1>1, <1>3 DEF IInv, TypeOK, effects, AnyFault
<1>5. Outgoing' = Presented(Internal)
  BY <1>1, Names DEF Outgoing
<1>6. Outgoing'.status = 500
  BY <1>5, ErrorsPresented
<1>7. Truthful(Outgoing)'
  <2>1. TellsOutcome(Outgoing)'
    BY <1>1, <1>6 DEF TellsOutcome
  <2>2. TellsCause(Outgoing)'
    BY <1>1, <1>6, Names DEF TellsCause
  <2> QED BY <2>1, <2>2 DEF Truthful
<1>8. OnTheWayOut'
  BY <1>1, <1>2, <1>6, <1>7, Names DEF OnTheWayOut
<1> QED BY <1>1, <1>4, <1>8 DEF IInv, Between, OnTheWayIn, InService, LogAgreesWithAnswer,
              AnswerTellsOutcome, StatusTellsCause, Answered

\* A success of a write has been committed, and has stored its proof.
LEMMA SuccessStep ==
  ASSUME IInv, stage \in {"serve", "commit"}, Success(SuccessStatus), fault' = None,
         change' \in {"none", "made"}, stored' \in BOOLEAN,
         op \in Writes => change' = "made", op = "confirmPayment" => stored'
  PROVE  IInv'
<1>1. depth >= 3
  BY Inside
<1>2. SuccessStatus \in {200, 201, 204}
  BY DEF SuccessStatus
<1>3. Return(None) /\ reply' = [status |-> SuccessStatus, code |-> None] /\ op' = op
  BY DEF Success, Return
<1>4. ReplyOK' /\ reply'.status \in {200, 201, 204}
  BY <1>2, <1>3, Written
<1>5. TellsOutcome(reply)'
  BY <1>3, <1>4 DEF TellsOutcome
<1>6. TellsCause(reply)'
  BY <1>4, Names DEF TellsCause
<1>7. reply'.status # 413 /\ fault' \in Faults \cup {"offset", "storage", "file", None}
  BY <1>4
<1> QED BY <1>1, <1>3, <1>4, <1>5, <1>6, <1>7, AnswerInside DEF Truthful

LEMMA ServeSteps ==
  ASSUME IInv, Serve \/ EndWork \/ (\E f \in Faults \cup {None} : Commit(f)) PROVE IInv'
<1>1. CASE Serve
  <2>1. /\ stage = "serve" /\ Success(SuccessStatus) /\ op \notin InTransaction
        /\ executed = Len(Statements[op]) /\ UNCHANGED <<fault, change, stored>>
    BY <1>1 DEF Serve
  <2>2. fault' = None /\ op \in DOMAIN Checks
    BY <2>1, Inside
  <2>3. change = IF op \in Writes THEN "made" ELSE "none"
    BY <2>1 DEF IInv, InService
  <2>4. op = "confirmPayment" => stored
    BY <2>1, <2>2, Plans DEF IInv, InService, PlanOK
  <2>5. stored' \in BOOLEAN
    BY <2>1 DEF IInv, TypeOK
  <2> QED BY <2>1, <2>2, <2>3, <2>4, <2>5, SuccessStep
<1>2. CASE EndWork
  <2>1. /\ stage = "serve" /\ stage' = "commit" /\ op \in InTransaction
        /\ UNCHANGED <<op, depth, checked, outcome, reply, logged, fault, effects>>
    BY <1>2 DEF EndWork
  <2>2. op \in DOMAIN Checks /\ depth' = Len(Chain)
    BY <2>1, Inside
  <2>3. /\ depth' \in 0 .. Len(Chain) /\ checked' \in Nat /\ executed' \in 0 .. 3
        /\ change' \in {"none", "open", "made"} /\ stored' \in BOOLEAN
    BY <2>1 DEF IInv, TypeOK, effects
  <2>4. InService'
    BY <2>1 DEF IInv, InService, effects
  <2> QED BY <2>1, <2>2, <2>3, <2>4, FurtherIn
<1>3. ASSUME NEW f \in Faults \cup {None}, Commit(f) PROVE IInv'
  <2>1. stage = "commit" /\ fault' = f /\ stored' = stored /\ op \in InTransaction
    BY <1>3 DEF Commit, IInv, OnTheWayIn
  <2>2. stored \in BOOLEAN /\ op # "confirmPayment"
    BY <2>1 DEF IInv, TypeOK, InTransaction
  <2>3. CASE f = None
    <3>1. Success(SuccessStatus) /\ change' = "made"
      BY <1>3, <2>3, FaultsMapped DEF Commit
    <3> QED BY <2>1, <2>2, <2>3, <3>1, SuccessStep
  <2>4. CASE f \in Faults
    <3>1. Return(None) /\ reply' = Presented(MapError(f))
      BY <1>3, <2>4, FaultsMapped DEF Commit, Reject
    <3>2. change' \in {"none", "made"}
      BY <1>3 DEF Commit
    <3>3. CASE MapError(f) = Internal
      BY <2>1, <2>2, <2>4, <3>1, <3>2, <3>3, FaultAnswered
    <3>4. CASE MapError(f) = Unavailable
      <4>1. fault' \in Outages
        BY <2>1, <2>4, <3>4, FaultsMapped
      <4> QED BY <2>1, <2>2, <2>4, <3>1, <3>2, <3>4, <4>1, FaultAnswered
    <3> QED BY <2>4, <3>3, <3>4, FaultsMapped
  <2> QED BY <1>3, <2>3, <2>4
<1> QED BY <1>1, <1>2, <1>3

-----------------------------------------------------------------------------
(* The way out.                                                            *)

\* Middlewares pass the answer on; what they may add to the log is Log.
LEMMA PassOn ==
  ASSUME IInv, stage = "out", depth \in 1 .. 5, depth' = depth - 1,
         UNCHANGED <<op, stage, checked, fault, effects>>,
         outcome' \in {outcome, None}, outcome' # outcome => depth = 2,
         ReplyOK', Outgoing' = Outgoing,
         outcome' = Panicked => depth > 2,
         logged' = IF fault = "panic" \/ depth > 3 THEN <<>> ELSE <<Outgoing.status>>
  PROVE  IInv'
<1>1. /\ op \notin {None, "oversized"} /\ Truthful(Outgoing) /\ Outgoing.status # 413
      /\ outcome = Panicked => fault = "panic" /\ depth >= 2
      /\ fault = "panic" /\ depth >= 2 => outcome = Panicked
  BY DEF IInv, OnTheWayOut
<1>2. Outgoing.status \in Statuses
  <2>1. CASE outcome = None
    BY <2>1, Names DEF IInv, TypeOK, ReplyOK, Outgoing
  <2>2. CASE outcome = Panicked
    BY <2>2, Names, ErrorsPresented DEF Outgoing, Statuses
  <2>3. CASE outcome \notin {None, Panicked}
    BY <2>3, FiberErrors DEF IInv, Outgoing, Statuses
  <2> QED BY <2>1, <2>2, <2>3
<1>3. logged' \in Seq(Statuses \ {413})
  <2>1. \A st \in Statuses \ {413} : <<st>> \in Seq(Statuses \ {413})
    OBVIOUS
  <2>2. <<Outgoing.status>> \in Seq(Statuses \ {413})
    BY <1>1, <1>2, <2>1
  <2>3. logged' = <<>> \/ logged' = <<Outgoing.status>>
    OBVIOUS
  <2> QED BY <2>2, <2>3, Unwritten
<1>4. depth' \in 0 .. Len(Chain)
  BY ChainOrder
<1>5. TypeOK'
  BY <1>3, <1>4 DEF IInv, TypeOK, effects
<1>6. Truthful(Outgoing)'
  BY <1>1 DEF Truthful, TellsOutcome, TellsCause, effects
<1>7. OnTheWayOut'
  <2>1. depth' >= 2 <=> depth > 2
    OBVIOUS
  <2>2. depth' >= 3 <=> depth > 3
    OBVIOUS
  <2>3. outcome' = Panicked => fault' = "panic" /\ depth' >= 2
    BY <1>1, <2>1, Names
  <2>4. fault' = "panic" /\ depth' >= 2 => outcome' = Panicked
    BY <1>1, <2>1
  <2> QED BY <1>1, <1>6, <2>2, <2>3, <2>4 DEF OnTheWayOut
<1> QED BY <1>5, <1>7 DEF IInv, Between, OnTheWayIn, InService, LogAgreesWithAnswer,
              AnswerTellsOutcome, StatusTellsCause, Answered

LEMMA LeaveStep == ASSUME IInv, Leave PROVE IInv'
<1>1. /\ stage = "out" /\ depth \in 1 .. 5 /\ depth' = depth - 1
      /\ UNCHANGED <<op, stage, checked, fault, effects>>
      /\ LeaveRecover \/ LeaveAccessLog \/ LeaveOther
  BY ChainOrder DEF Leave, IInv, TypeOK
<1>2. /\ outcome = Panicked => fault = "panic" /\ depth >= 2
      /\ fault = "panic" /\ depth >= 2 => outcome = Panicked
      /\ logged = IF fault = "panic" \/ depth >= 3 THEN <<>> ELSE <<Outgoing.status>>
      /\ ReplyOK
  BY <1>1 DEF IInv, OnTheWayOut, TypeOK
<1>3. /\ depth = 2 => LeaveRecover
      /\ depth = 3 => LeaveAccessLog
      /\ depth \in {1, 4, 5} => LeaveOther
  BY <1>1, ChainOrder DEF LeaveRecover, LeaveAccessLog, LeaveOther
<1>4. CASE depth = 2 /\ outcome = Panicked
  <2>1. outcome' = None /\ reply' = Presented(Internal) /\ logged' = logged
    BY <1>3, <1>4 DEF LeaveRecover
  <2>2. Outgoing' = Outgoing
    BY <1>4, <2>1, Names DEF Outgoing
  <2>3. ReplyOK'
    BY <2>1, ErrorsPresented, Written DEF Statuses, ClientCodes
  <2> QED BY <1>1, <1>2, <1>4, <2>1, <2>2, <2>3, Names, PassOn
<1>5. CASE depth = 3
  <2>1. /\ outcome' = outcome /\ reply' = reply
        /\ logged' = IF outcome = Panicked THEN logged ELSE Append(logged, Observed)
    BY <1>3, <1>5 DEF LeaveAccessLog
  <2>2. Outgoing' = Outgoing /\ ReplyOK'
    BY <1>2, <2>1 DEF Outgoing, ReplyOK
  <2>3. logged = <<>>
    BY <1>2, <1>5
  <2>4. outcome # Panicked => Observed = Outgoing.status
    <3>1. CASE outcome = None
      BY <3>1, Names DEF Observed, Outgoing
    <3>2. CASE outcome \notin {None, Panicked}
      BY <3>2, FiberErrors DEF Observed, Outgoing, IInv
    <3> QED BY <3>1, <3>2
  <2>5. fault = "panic" <=> outcome = Panicked
    BY <1>2, <1>5
  <2>6. logged' = IF fault = "panic" \/ depth > 3 THEN <<>> ELSE <<Outgoing.status>>
    <3>1. ~(depth > 3)
      BY <1>5
    <3>2. CASE outcome = Panicked
      BY <2>1, <2>3, <2>5, <3>2
    <3>3. CASE outcome # Panicked
      <4>1. logged' = Append(<<>>, Outgoing.status)
        BY <2>1, <2>3, <2>4, <3>3
      <4>2. Append(<<>>, Outgoing.status) = <<Outgoing.status>>
        OBVIOUS
      <4> QED BY <2>5, <3>1, <3>3, <4>1, <4>2
    <3> QED BY <3>2, <3>3
  <2>7. depth > 2
    BY <1>5
  <2> QED BY <1>1, <2>1, <2>2, <2>6, <2>7, PassOn
<1>6. CASE depth \in {1, 4, 5} \/ (depth = 2 /\ outcome # Panicked)
  <2>1. UNCHANGED <<outcome, reply, logged>>
    BY <1>3, <1>6 DEF LeaveRecover, LeaveOther
  <2>2. Outgoing' = Outgoing /\ ReplyOK'
    BY <1>2, <2>1 DEF Outgoing, ReplyOK
  <2>3. depth >= 3 <=> depth > 3
    BY <1>6
  <2>4. logged' = IF fault = "panic" \/ depth > 3 THEN <<>> ELSE <<Outgoing.status>>
    BY <1>2, <2>1, <2>3
  <2>5. outcome' = Panicked => depth > 2
    BY <1>2, <1>6, <2>1
  <2> QED BY <1>1, <2>1, <2>2, <2>4, <2>5, PassOn
<1> QED BY <1>1, <1>4, <1>5, <1>6

LEMMA FinishStep == ASSUME IInv, Finish PROVE IInv'
<1>1. /\ stage = "out" /\ depth = 0 /\ outcome' = None
      /\ UNCHANGED <<op, depth, checked, logged, fault, effects>>
  BY DEF Finish
<1>2. /\ op \notin {None, "oversized"} /\ Truthful(Outgoing) /\ outcome # Panicked
      /\ logged = IF fault = "panic" THEN <<>> ELSE <<Outgoing.status>>
  BY <1>1 DEF IInv, OnTheWayOut
<1>3. stage' = "idle"
  BY <1>2 DEF Finish
<1>4. ReplyOK' /\ reply' = Outgoing
  <2>1. CASE outcome = None
    <3>1. reply' = reply
      BY <2>1 DEF Finish
    <3> QED BY <2>1, <3>1, Names DEF Outgoing, ReplyOK, IInv, TypeOK
  <2>2. CASE outcome # None
    <3>1. reply' = Presented(outcome) /\ reply' = Outgoing
      BY <1>2, <2>2 DEF Finish, Outgoing
    <3>2. outcome \in {FiberError(404), FiberError(405)}
      BY <1>2, <2>2, FiberErrors DEF IInv
    <3>3. \/ reply' = [status |-> 404, code |-> "NOT_FOUND"]
          \/ reply' = [status |-> 405, code |-> "METHOD_NOT_ALLOWED"]
      <4>1. CASE outcome = FiberError(404)
        BY Zenon, <3>1, <4>1, FiberErrorsPresented
      <4>2. CASE outcome = FiberError(405)
        BY Zenon, <3>1, <4>2, FiberErrorsPresented
      <4> QED BY <3>2, <4>1, <4>2
    <3>4. {404, 405} \subseteq Statuses \ {200, 201, 204}
      BY DEF Statuses
    <3>5. {"NOT_FOUND", "METHOD_NOT_ALLOWED"} \subseteq ClientCodes
      BY DEF ClientCodes
    <3>6. ReplyOK'
      BY <3>3, <3>4, <3>5, Written
    <3> QED BY <3>1, <3>6
  <2> QED BY <2>1, <2>2
<1>5. TypeOK'
  BY <1>1, <1>3, <1>4 DEF IInv, TypeOK, effects
<1>6. Truthful(reply)'
  BY <1>1, <1>2, <1>4 DEF Truthful, TellsOutcome, TellsCause, effects
<1>7. LogAgreesWithAnswer'
  BY <1>1, <1>2, <1>4 DEF LogAgreesWithAnswer
<1>8. AnswerTellsOutcome' /\ StatusTellsCause'
  BY <1>6 DEF Truthful, TellsOutcome, TellsCause, AnswerTellsOutcome, StatusTellsCause
<1> QED BY <1>1, <1>3, <1>5, <1>7, <1>8 DEF IInv, Between, OnTheWayIn, InService, OnTheWayOut

LEMMA StepKeepsInvariant == ASSUME IInv, [Next]_vars PROVE IInv'
<1>1. CASE Next
  BY <1>1, ArriveStep, EnterStep, DispatchStep, CheckSteps, ExecuteStep, RefuseStep, FaultSteps,
     PanicStep, ServeSteps, LeaveStep, FinishStep DEF Next, Handle
<1>2. CASE UNCHANGED vars
  <2>1. UNCHANGED <<op, stage, depth, checked, outcome, reply, logged, fault, effects>>
    BY <1>2 DEF vars
  <2>2. TypeOK'
    BY <2>1 DEF IInv, TypeOK, ReplyOK, effects
  <2>3. OnTheWayOut'
    <3>1. Outgoing' = Outgoing
      BY <2>1 DEF Outgoing
    <3>2. Truthful(Outgoing)' <=> Truthful(Outgoing)
      BY <2>1, <3>1 DEF Truthful, TellsOutcome, TellsCause, effects
    <3> QED BY <2>1, <3>1, <3>2 DEF IInv, OnTheWayOut
  <2>4. InService'
    BY <2>1 DEF IInv, InService, effects
  <2> QED BY <2>1, <2>2, <2>3, <2>4 DEF IInv, Between, OnTheWayIn, LogAgreesWithAnswer,
              AnswerTellsOutcome, StatusTellsCause, Answered, effects
<1> QED BY <1>1, <1>2

LEMMA Invariance == Spec => []IInv
  BY InitInvariant, StepKeepsInvariant, PTL DEF Spec

\* The chain's bookkeeping never leaves its types: the responses are those the
\* presenter knows.
THEOREM PipelineIsTyped == Spec => []TypeOK
<1>1. IInv => TypeOK
  BY DEF IInv
<1> QED BY <1>1, Invariance, PTL

\* The access log stands inside ErrorHandler and outside Recover in time, and
\* still logs what the client gets.
THEOREM TheLogIsRight == Spec => []LogAgreesWithAnswer
<1>1. IInv => LogAgreesWithAnswer
  BY DEF IInv
<1> QED BY <1>1, Invariance, PTL

\* A refusal leaves no row changed, not even the ones its transaction had already
\* written, and an object only if it lost the race of two confirmations; success
\* has committed and stored its proof; only a panic leaves a transaction open.
THEOREM AnswersTellOutcomes == Spec => []AnswerTellsOutcome
<1>1. IInv => AnswerTellsOutcome
  BY DEF IInv
<1> QED BY <1>1, Invariance, PTL

\* Through service, presenter, Recover and ErrorHandler: 5xx for a fault, 503 for
\* an outage only, with the exceptions StatusTellsCause names.
THEOREM StatusesTellCauses == Spec => []StatusTellsCause
<1>1. IInv => StatusTellsCause
  BY DEF IInv
<1> QED BY <1>1, Invariance, PTL
=============================================================================
