------------------------------ MODULE Pipeline ------------------------------
(***************************************************************************)
(* One request at a time through the HTTP edge (internal/adapter/in/http): *)
(* the middleware chain of NewServer inwards, the checks of the handler,   *)
(* the statements of the service, and the chain outwards.  Which rows the  *)
(* statements find and change is WasteBackend's subject; here each of them *)
(* succeeds, refuses with one of the domain errors, meets a fault of       *)
(* PostgreSQL or MinIO, or panics, and the question is what the client and *)
(* the log are told of it, and what is left behind in the two stores.      *)
(* Messages and field details are left out.                                *)
(***************************************************************************)
EXTENDS Naturals, Sequences

CONSTANTS
  Operations,   \* requests of this instance
  None,
  Panicked      \* what a layer returns that is unwound by a panic

\* What each handler looks at, in its order, before it calls the service.
HouseholdChecks ==
  [createHousehold |-> <<"body", "fields">>,
   listHouseholds  |-> <<>>,
   getHousehold    |-> <<"id">>,
   deleteHousehold |-> <<"id">>]

\* "rate" is the rate limiter in front of the handler
PickupChecks ==
  [createPickup   |-> <<"rate", "body", "fields", "household_id">>,
   listPickups    |-> <<"query", "fields", "household_id">>,
   schedulePickup |-> <<"id", "body", "fields">>,
   completePickup |-> <<"id">>,
   cancelPickup   |-> <<"id">>]

PaymentChecks ==
  [createPayment  |-> <<"body", "fields", "household_id", "waste_id">>,
   listPayments   |-> <<"query", "fields", "household_id", "date_from",
                        "date_to", "dates">>,
   confirmPayment |-> <<"id", "proof", "size", "open", "head", "type", "seek">>]

ReportChecks ==
  [wasteSummary |-> <<>>, paymentSummary |-> <<>>, history |-> <<"id">>]

Checks ==
  [o \in DOMAIN HouseholdChecks \cup DOMAIN PickupChecks
           \cup DOMAIN PaymentChecks \cup DOMAIN ReportChecks |->
     CASE o \in DOMAIN HouseholdChecks -> HouseholdChecks[o]
       [] o \in DOMAIN PickupChecks -> PickupChecks[o]
       [] o \in DOMAIN PaymentChecks -> PaymentChecks[o]
       [] o \in DOMAIN ReportChecks -> ReportChecks[o]]

\* Requests that no handler of the API answers.
Unrouted == {"oversized", "preflight", "unknownPath", "wrongMethod", "healthz", "readyz"}

ASSUME OperationAssumption == Operations \subseteq DOMAIN Checks \cup Unrouted

Lists == {"listHouseholds", "listPickups", "listPayments"}
Creates == {"createHousehold", "createPickup", "createPayment"}
Writes ==
  Creates \cup {"deleteHousehold", "schedulePickup", "completePickup",
                "cancelPickup", "confirmPayment"}
InTransaction == {"createPickup", "completePickup"}

VARIABLES
  op,         \* the request
  stage,      \* "idle", "in", "check", "serve", "commit", "out" or "lost"
  depth,      \* how many middlewares it has entered and not left
  checked,    \* how many checks of its handler it has passed
  outcome,    \* what the inner layer returned: None, an error, or Panicked
  reply,      \* the response
  logged,     \* statuses in the access log
  fault,      \* the fault that was met, or None
  executed,   \* how many statements its service has executed
  change,     \* its change to the database: "none", "open" (uncommitted) or "made"
  stored      \* the bucket holds an object it has uploaded

effects == <<executed, change, stored>>
vars == <<op, stage, depth, checked, outcome, reply, logged, fault, effects>>

-----------------------------------------------------------------------------
(* Errors and what becomes of them.                                        *)

App(kind, code) == [type |-> "app", kind |-> kind, code |-> code]
FiberError(status) == [type |-> "fiber", status |-> status]

\* an unprocessable request is missing from the table
BugStatus(kind) ==
  CASE kind = "validation" -> 400
    [] kind = "notFound" -> 404
    [] kind = "conflict" -> 409
    [] kind = "rateLimited" -> 429
    [] kind = "unavailable" -> 503
    [] OTHER -> 500

Status(kind) ==
  CASE kind = "validation" -> 400
    [] kind = "notFound" -> 404
    [] kind = "conflict" -> 409
    [] kind = "unprocessable" -> 422
    [] kind = "rateLimited" -> 429
    [] kind = "unavailable" -> 503
    [] OTHER -> 500

ClientCode(e) == IF e.kind = "internal" THEN "INTERNAL_ERROR" ELSE e.code

CodeForStatus(status) ==
  CASE status = 404 -> "NOT_FOUND"
    [] status = 405 -> "METHOD_NOT_ALLOWED"
    [] OTHER -> "REQUEST_ERROR"

\* the body is written, the status is not
BugPresented(e) ==
  [status |-> 200, code |-> IF e.type = "app" THEN ClientCode(e) ELSE "REQUEST_ERROR"]

\* presenter.Error: no error of a third type reaches it
Presented(e) ==
  IF e.type = "app" THEN [status |-> Status(e.kind), code |-> ClientCode(e)]
  ELSE [status |-> e.status, code |-> CodeForStatus(e.status)]

\* the status of the response, which an error has not reached yet
BugStatusCode(e) == reply.status

StatusCode(e) == IF e.type = "app" THEN Status(e.kind) ELSE e.status

Internal == App("internal", "INTERNAL_ERROR")
Unavailable == App("unavailable", "SERVICE_UNAVAILABLE")

\* Errors that pgx returns when PostgreSQL cannot be had, and two it does not
\* take for such: "sql" is any other SQLSTATE, "eof" the unexpected end of a
\* connection that broke while an answer was awaited.  "offset" is the SQLSTATE of
\* a negative OFFSET, which a page number the client sent has overflowed to.
Outages == {"deadline", "canceled", "connect", "class08", "class57", "network", "eof"}
Faults == Outages \cup {"sql"}
AnyFault == Faults \cup {"offset", "storage", "file", "panic"}

IsUnavailable(f) ==
  f \in {"deadline", "canceled", "connect", "class08", "class57", "network"}

MapError(f) ==
  CASE f = None -> None
    [] f # None /\ IsUnavailable(f) -> Unavailable
    [] OTHER -> Internal

\* the statement may have been executed although its answer is lost
AnswerLost == {"deadline", "canceled", "network", "eof"}

CommitError(f) == MapError(f)

\* What a service executes: statements that read or change rows, and the upload,
\* each with the domain errors that may come of it.  A guarded UPDATE or DELETE
\* that finds no row changes nothing; its refusal is what a second look finds.
Look(errors) == [does |-> "look", refuses |-> errors]
Change(errors) == [does |-> "change", refuses |-> errors]
Upload == [does |-> "upload", refuses |-> {}]

HouseholdStatements ==
  [createHousehold |-> <<Change({})>>,
   listHouseholds  |-> <<Look({}), Look({})>>,
   getHousehold    |-> <<Look({App("notFound", "HOUSEHOLD_NOT_FOUND")})>>,
   deleteHousehold |-> <<Change({App("notFound", "HOUSEHOLD_NOT_FOUND"),
                                 App("conflict", "HOUSEHOLD_HAS_DEPENDENTS")})>>]

PickupStatements ==
  [createPickup    |-> <<Look({App("conflict", "HOUSEHOLD_HAS_PENDING_PAYMENT")}),
                         Change({App("notFound", "HOUSEHOLD_NOT_FOUND")})>>,
   listPickups     |-> <<Look({}), Look({})>>,
   schedulePickup  |-> <<Change({App("notFound", "PICKUP_NOT_FOUND"),
                                 App("conflict", "PICKUP_NOT_PENDING"),
                                 App("unprocessable", "SAFETY_CHECK_REQUIRED")})>>,
   completePickup  |-> <<Change({App("notFound", "PICKUP_NOT_FOUND"),
                                 App("conflict", "PICKUP_NOT_SCHEDULED")}),
                         Change({App("conflict", "PAYMENT_ALREADY_EXISTS")})>>,
   cancelPickup    |-> <<Change({App("notFound", "PICKUP_NOT_FOUND"),
                                 App("conflict", "PICKUP_NOT_CANCELABLE")})>>]

PaymentStatements ==
  [createPayment   |-> <<Look({App("notFound", "PICKUP_NOT_FOUND"),
                               App("unprocessable", "PAYMENT_HOUSEHOLD_MISMATCH")}),
                         Change({App("conflict", "PAYMENT_ALREADY_EXISTS")})>>,
   listPayments    |-> <<Look({}), Look({})>>,
   confirmPayment  |-> <<Look({App("notFound", "PAYMENT_NOT_FOUND"),
                               App("conflict", "PAYMENT_NOT_PENDING")}),
                         Upload,
                         Change({App("conflict", "PAYMENT_NOT_PENDING")})>>]

ReportStatements ==
  [wasteSummary    |-> <<Look({})>>,
   paymentSummary  |-> <<Look({})>>,
   history         |-> <<Look({App("notFound", "HOUSEHOLD_NOT_FOUND")}), Look({}), Look({})>>]

Statements ==
  [o \in DOMAIN Checks |->
     CASE o \in DOMAIN HouseholdStatements -> HouseholdStatements[o]
       [] o \in DOMAIN PickupStatements -> PickupStatements[o]
       [] o \in DOMAIN PaymentStatements -> PaymentStatements[o]
       [] o \in DOMAIN ReportStatements -> ReportStatements[o]]

-----------------------------------------------------------------------------
(* The chain.                                                              *)

\* panics unwind past everything
BugChain == <<"requestId", "accessLog", "cors", "timeout">>

Chain == <<"requestId", "recover", "accessLog", "cors", "timeout">>

NoReply == [status |-> 200, code |-> None]   \* fasthttp's response before a write

ClientCodes ==
  {"VALIDATION_ERROR", "RATE_LIMITED", "HOUSEHOLD_NOT_FOUND", "HOUSEHOLD_HAS_DEPENDENTS",
   "HOUSEHOLD_HAS_PENDING_PAYMENT", "PICKUP_NOT_FOUND", "PICKUP_NOT_PENDING",
   "SAFETY_CHECK_REQUIRED", "PICKUP_NOT_SCHEDULED", "PICKUP_NOT_CANCELABLE",
   "PAYMENT_ALREADY_EXISTS", "PAYMENT_HOUSEHOLD_MISMATCH", "PAYMENT_NOT_FOUND",
   "PAYMENT_NOT_PENDING", "STORAGE_UNAVAILABLE", "SERVICE_UNAVAILABLE",
   "INTERNAL_ERROR", "NOT_FOUND", "METHOD_NOT_ALLOWED", "REQUEST_ERROR"}

\* None and Panicked are distinct, and neither is a code, a request, a fault or
\* an error.
ASSUME NameAssumption ==
  /\ None # Panicked
  /\ None \notin ClientCodes \cup Operations \cup AnyFault
  /\ \A n \in {None, Panicked} :
       n \notin {Internal, Unavailable, FiberError(404), FiberError(405)}

Statuses == {200, 201, 204, 400, 404, 405, 409, 413, 422, 429, 500, 503}

ReplyOK ==
  /\ reply.status \in Statuses
  /\ reply.code \in ClientCodes \cup {None}
  /\ reply.code = None <=> reply.status < 400

TypeOK ==
  /\ op \in Operations \cup {None}
  /\ stage \in {"idle", "in", "check", "serve", "commit", "out", "lost"}
  /\ depth \in 0 .. Len(Chain)
  /\ checked \in Nat
  /\ \/ outcome \in {None, Panicked}
     \/ outcome \in [type : {"fiber"}, status : {404, 405}]
  /\ ReplyOK
  /\ logged \in Seq(Statuses \ {413})
  /\ fault \in AnyFault \cup {None}
  /\ executed \in 0 .. 3 /\ change \in {"none", "open", "made"} /\ stored \in BOOLEAN

Init ==
  /\ op = None
  /\ stage = "idle"
  /\ depth = 0
  /\ checked = 0
  /\ outcome = None
  /\ reply = NoReply
  /\ logged = <<>>
  /\ fault = None
  /\ executed = 0
  /\ change = "none"
  /\ stored = FALSE

\* The next request, to a process that is started again if a panic has ended
\* it.  fiber answers a body above BodyLimit through ErrorHandler, without the
\* chain.
Arrive(request) ==
  /\ stage \in {"idle", "lost"}
  /\ op' = request
  /\ IF request = "oversized"
     THEN stage' = "idle" /\ reply' = Presented(FiberError(413))
     ELSE stage' = "in" /\ reply' = NoReply
  /\ logged' = <<>>
  /\ checked' = 0
  /\ fault' = None
  /\ executed' = 0
  /\ change' = "none"
  /\ stored' = FALSE
  /\ UNCHANGED <<depth, outcome>>

Return(result) ==
  /\ stage' = "out"
  /\ outcome' = result
  /\ UNCHANGED <<op, depth, checked, logged, executed>>

\* a handler answers an error itself and returns nil
Reject(e) ==
  /\ Return(None)
  /\ reply' = Presented(e)

Success(status) ==
  /\ Return(None)
  /\ reply' = [status |-> status, code |-> None]

\* the cors middleware answers a preflight request without what lies below it
Preflight ==
  /\ Success(204)
  /\ UNCHANGED <<fault, change, stored>>

Enter ==
  /\ stage = "in" /\ depth < Len(Chain)
  /\ IF Chain[depth + 1] = "cors" /\ op = "preflight"
     THEN Preflight
     ELSE /\ depth' = depth + 1
          /\ UNCHANGED <<op, stage, checked, outcome, reply, logged, fault, effects>>

\* No handler matches: the error is left to ErrorHandler.
NoRoute ==
  /\ op \in {"unknownPath", "wrongMethod"}
  /\ Return(FiberError(IF op = "unknownPath" THEN 404 ELSE 405))
  /\ UNCHANGED <<reply, fault, change, stored>>

Healthz ==
  /\ op = "healthz"
  /\ Success(200)
  /\ UNCHANGED <<fault, change, stored>>

Readyz ==
  /\ op = "readyz"
  /\ \/ Success(200) /\ UNCHANGED fault
     \/ \E f \in Faults \cup {"storage"} :
          Reject(Unavailable) /\ fault' = f
  /\ UNCHANGED <<change, stored>>

Route ==
  /\ op \in DOMAIN Checks
  /\ stage' = "check"
  /\ UNCHANGED <<op, depth, checked, outcome, reply, logged, fault, effects>>

Dispatch ==
  /\ stage = "in" /\ depth = Len(Chain)
  /\ NoRoute \/ Healthz \/ Readyz \/ Route

-----------------------------------------------------------------------------
(* The handler and the service.                                            *)

\* reading the uploaded file, not looking at it
FileChecks == {"open", "head", "seek"}

\* A file that cannot be read is the client's, says the answer.
CheckFails ==
  /\ stage = "check" /\ checked < Len(Checks[op])
  /\ Reject(IF Checks[op][checked + 1] = "rate"
            THEN App("rateLimited", "RATE_LIMITED")
            ELSE App("validation", "VALIDATION_ERROR"))
  /\ fault' = IF Checks[op][checked + 1] \in FileChecks THEN "file" ELSE fault
  /\ UNCHANGED <<change, stored>>

CheckPasses ==
  /\ stage = "check" /\ checked < Len(Checks[op])
  /\ checked' = checked + 1
  /\ UNCHANGED <<op, stage, depth, outcome, reply, logged, fault, effects>>

CallService ==
  /\ stage = "check" /\ checked = Len(Checks[op])
  /\ stage' = "serve"
  /\ UNCHANGED <<op, depth, checked, outcome, reply, logged, fault, effects>>

SuccessStatus ==
  CASE op \in Creates -> 201
    [] op = "deleteHousehold" -> 204
    [] OTHER -> 200

Executing == stage = "serve" /\ executed < Len(Statements[op])
Current == Statements[op][executed + 1]

Execute ==
  /\ Executing
  /\ executed' = executed + 1
  /\ change' = CASE Current.does # "change" -> change
                 [] Current.does = "change" /\ op \in InTransaction -> "open"
                 [] OTHER -> "made"
  /\ stored' = (stored \/ Current.does = "upload")
  /\ UNCHANGED <<op, stage, depth, checked, outcome, reply, logged, fault>>

\* Do returns the error without a Rollback
BugUndone == change

\* what an error leaves: Do rolls its transaction back, and if it cannot, because
\* the connection is broken, PostgreSQL does
Undone == IF op \in InTransaction THEN "none" ELSE change

\* an object that was uploaded before stays
Refuse ==
  /\ Executing
  /\ \E e \in Current.refuses : Reject(e)
  /\ change' = Undone
  /\ UNCHANGED <<fault, stored>>

\* a statement fails; outside a transaction it may have taken effect
StatementFails(f) ==
  /\ Executing /\ Current.does # "upload"
  /\ Reject(MapError(f))
  /\ fault' = f
  /\ \/ change' = Undone
     \/ /\ Current.does = "change" /\ op \notin InTransaction
        /\ f \in AnswerLost
        /\ change' = "made"
  /\ UNCHANGED stored

\* the first statement of a list is the one with an OFFSET
OffsetFails ==
  /\ Executing /\ op \in Lists /\ executed = 0
  /\ Reject(MapError("offset"))
  /\ fault' = "offset"
  /\ UNCHANGED <<change, stored>>

\* MinIO may have stored the object
UploadFails ==
  /\ Executing /\ Current.does = "upload"
  /\ Reject(App("unavailable", "STORAGE_UNAVAILABLE"))
  /\ fault' = "storage"
  /\ stored' \in BOOLEAN
  /\ UNCHANGED change

\* past the rollback of Do, too: a transaction stays open
Panic ==
  /\ stage = "serve"
  /\ Return(Panicked)
  /\ fault' = "panic"
  /\ UNCHANGED <<reply, change, stored>>

Serve ==
  /\ stage = "serve" /\ executed = Len(Statements[op]) /\ op \notin InTransaction
  /\ Success(SuccessStatus)
  /\ UNCHANGED <<fault, change, stored>>

EndWork ==
  /\ stage = "serve" /\ executed = Len(Statements[op]) /\ op \in InTransaction
  /\ stage' = "commit"
  /\ UNCHANGED <<op, depth, checked, outcome, reply, logged, fault, effects>>

Commit(f) ==
  /\ stage = "commit"
  /\ fault' = f
  /\ IF CommitError(f) = None THEN Success(SuccessStatus) ELSE Reject(CommitError(f))
  /\ \/ f # None /\ change' = "none"
     \/ f \in AnswerLost \cup {None} /\ change' = "made"
  /\ UNCHANGED stored

-----------------------------------------------------------------------------
(* The way out.                                                            *)

\* the status that is logged of what the inner layers returned
Observed == IF outcome = None THEN reply.status ELSE StatusCode(outcome)

LeaveRecover ==
  /\ Chain[depth] = "recover"
  /\ IF outcome = Panicked
     THEN outcome' = None /\ reply' = Presented(Internal)
     ELSE UNCHANGED <<outcome, reply>>
  /\ UNCHANGED logged

LeaveAccessLog ==
  /\ Chain[depth] = "accessLog"
  /\ logged' = IF outcome = Panicked THEN logged ELSE Append(logged, Observed)
  /\ UNCHANGED <<outcome, reply>>

LeaveOther ==
  /\ Chain[depth] \notin {"recover", "accessLog"}
  /\ UNCHANGED <<outcome, reply, logged>>

Leave ==
  /\ stage = "out" /\ depth > 0
  /\ LeaveRecover \/ LeaveAccessLog \/ LeaveOther
  /\ depth' = depth - 1
  /\ UNCHANGED <<op, stage, checked, fault, effects>>

\* fiber hands an error to ErrorHandler; a panic would end the process.
Finish ==
  /\ stage = "out" /\ depth = 0
  /\ IF outcome = Panicked THEN stage' = "lost" ELSE stage' = "idle"
  /\ IF outcome \in {None, Panicked} THEN UNCHANGED reply ELSE reply' = Presented(outcome)
  /\ outcome' = None
  /\ UNCHANGED <<op, depth, checked, logged, fault, effects>>

Handle ==
  \/ Enter \/ Dispatch
  \/ CheckFails \/ CheckPasses \/ CallService
  \/ Execute \/ Refuse \/ (\E f \in Faults : StatementFails(f)) \/ OffsetFails
  \/ UploadFails \/ Panic
  \/ Serve \/ EndWork \/ (\E f \in Faults \cup {None} : Commit(f))
  \/ Leave \/ Finish

Next == (\E request \in Operations : Arrive(request)) \/ Handle

Spec == Init /\ [][Next]_vars

\* A handler runs to its end: whatever it waits for ends by the request's
\* deadline.
FairSpec == Spec /\ WF_vars(Handle)

-----------------------------------------------------------------------------
(* Properties.                                                             *)

Answered == stage = "idle" /\ op # None

\* The access log agrees with the wire: every request has one line, with the
\* status the client gets, whether the handler has written the response or
\* left an error to ErrorHandler, which runs after the log.  Only a panic, which
\* Recover stops outside the log, and a body the server refuses go unlogged.
LogAgreesWithAnswer ==
  Answered =>
    logged = IF op = "oversized" \/ fault = "panic" THEN <<>> ELSE <<reply.status>>

\* What the answer says of the two stores is so, whichever statement it came of.
\* A refusal (4xx) has changed no row: what the transaction of Complete had
\* already written is rolled back before its 409.  One refusal may have stored an
\* object: of two confirmations that race the loser's is left behind (README.md,
\* "Orphaned proof on race").  Success has committed, and stored its proof.  And
\* no answer leaves a transaction open, unless its handler has panicked.
AnswerTellsOutcome ==
  Answered =>
    /\ reply.status \in 400 .. 499 =>
         /\ change = "none"
         /\ stored => op = "confirmPayment" /\ reply.code = "PAYMENT_NOT_PENDING"
    /\ reply.status < 300 /\ op \in Writes =>
         /\ change = "made"
         /\ op = "confirmPayment" => stored
    /\ change = "open" => fault = "panic"

\* The status is that of the cause, of all the layers an error goes through: 5xx
\* for a fault of the server or of a store and for nothing a service refuses; 503,
\* which invites to try again, for an outage and never for an SQL error or a
\* panic.  Two causes get the status of the other side: a file that cannot be
\* read back is answered 400, a page number that overflows the offset 500.
StatusTellsCause ==
  Answered =>
    /\ reply.status >= 500 <=> fault \notin {None, "file"}
    /\ reply.status = 503 => fault \in Outages \cup {"storage"} \/ op = "readyz"
    /\ fault = "file" => reply.status = 400

\* Every request is answered, the ones whose handler panics included.
EveryRequestIsAnswered == (stage # "idle") ~> (stage = "idle")

\* "dependency-unavailable conditions map to 503 and flip readiness, never a
\* 500" (README): an outage of PostgreSQL or MinIO that a request meets is
\* answered 503.
OutageIs503 == Answered /\ fault \in Outages \cup {"storage"} => reply.status = 503
=============================================================================
