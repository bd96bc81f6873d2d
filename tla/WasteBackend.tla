---------------------------- MODULE WasteBackend ----------------------------
(***************************************************************************)
(* The service as it runs: requests served concurrently, each a sequence   *)
(* of SQL statements and uploads (internal/core/service over               *)
(* internal/adapter/out), and the auto-cancel worker.  A slot serves one   *)
(* request at a time; pc names the statement it executes next.             *)
(*                                                                         *)
(* PostgreSQL runs at READ COMMITTED.  A guarded UPDATE whose condition    *)
(* the committed row fails ends at once; one whose condition it meets      *)
(* waits for the transaction that has written the row and is evaluated     *)
(* again on the version committed by then: one step, not enabled while a   *)
(* matching row is held.  Uncommitted rows are kept in the request of the  *)
(* slot whose transaction is open, and reach the tables at its commit.     *)
(*                                                                         *)
(* A request can be abandoned anywhere: its deadline passes, its           *)
(* connection breaks or the process dies.  An open transaction is rolled   *)
(* back.  A statement that had been sent, a COMMIT or an upload may still  *)
(* take effect afterwards: the slot then stays where it is.                *)
(***************************************************************************)
EXTENDS Database

CONSTANTS
  Slots,     \* requests served at the same time
  Ops,       \* what clients call in this instance, and "sweep" if the worker runs
  MaxClock   \* bound on the clock

ASSUME MaxClockAssumption == MaxClock \in Nat

VARIABLES
  pc,          \* slot -> the statement it executes next
  req,         \* slot -> the local values of its request
  answer,      \* slot -> what its client was told; "none" while it waits
  sweepPc,     \* auto-cancel worker: "idle", "scan" or "rows"
  sweepNow,    \* the time its run read from the clock
  sweepTodo,   \* rows of its snapshot it has not come to yet
  sweepLocked  \* rows it has locked and will cancel

sweep == <<sweepPc, sweepNow, sweepTodo, sweepLocked>>
slots == <<pc, req, answer>>
vars == <<tables, slots, sweep>>

\* Statements that take effect on their own, even if nobody waits any more.
InFlight ==
  {"createHousehold", "deleteHousehold", "createPickup.commit",
   "schedule.update", "complete.commit", "cancel.update",
   "createPayment.insert", "confirm.put", "confirm.update"}

Pc ==
  InFlight \cup
  {"idle", "createPickup.check", "createPickup.insert", "schedule.find",
   "complete.update", "complete.find", "complete.insert", "cancel.find",
   "createPayment.find", "confirm.find"}

\* "FAILED": the server's 503 or 500 for a statement that was cut short (which
\* of the two, the module Pipeline says)
Answer ==
  {"none", "ok", "FAILED", "STORAGE_UNAVAILABLE", "FOREIGN_KEY_VIOLATION",
   "HOUSEHOLD_NOT_FOUND", "HOUSEHOLD_HAS_PENDING_PAYMENT",
   "HOUSEHOLD_HAS_DEPENDENTS", "PICKUP_NOT_FOUND", "PICKUP_NOT_PENDING",
   "PICKUP_NOT_SCHEDULED", "SAFETY_CHECK_REQUIRED", "PICKUP_NOT_CANCELABLE",
   "PAYMENT_NOT_FOUND", "PAYMENT_NOT_PENDING", "PAYMENT_ALREADY_EXISTS",
   "PAYMENT_HOUSEHOLD_MISMATCH"}

\* row: the pickup read, updated or about to be inserted by the request
Request ==
  [household: Households \cup {None}, pickup: PickupIds \cup {None},
   payment: PaymentIds \cup {None}, proof: ProofKeys \cup {None},
   row: Pickup \cup {None}]

NoRequest ==
  [household |-> None, pickup |-> None, payment |-> None, proof |-> None,
   row |-> None]

TypeOK ==
  /\ TablesTypeOK
  /\ pc \in [Slots -> Pc]
  /\ req \in [Slots -> Request]
  /\ answer \in [Slots -> Answer]
  /\ sweepPc \in {"idle", "scan", "rows"}
  /\ sweepNow \in Nat
  /\ sweepTodo \in SUBSET PickupIds
  /\ sweepLocked \in SUBSET PickupIds

Init ==
  /\ TablesInit
  /\ pc = [s \in Slots |-> "idle"]
  /\ req = [s \in Slots |-> NoRequest]
  /\ answer = [s \in Slots |-> "none"]
  /\ sweepPc = "idle"
  /\ sweepNow = 0
  /\ sweepTodo = {}
  /\ sweepLocked = {}

-----------------------------------------------------------------------------
(* Requests.                                                               *)

Begin(s, op, label, r) ==
  /\ op \in Ops
  /\ pc[s] = "idle"
  /\ pc' = [pc EXCEPT ![s] = label]
  /\ req' = [req EXCEPT ![s] = r]
  /\ answer' = [answer EXCEPT ![s] = "none"]
  /\ UNCHANGED <<tables, sweep>>

\* the client has its answer (or its error) and the slot has not ended
Abandoned(s) == answer[s] # "none"

Reply(s, a) ==
  /\ pc' = [pc EXCEPT ![s] = "idle"]
  /\ req' = [req EXCEPT ![s] = NoRequest]
  /\ answer' = [answer EXCEPT ![s] = IF Abandoned(s) THEN @ ELSE a]

\* a request that was abandoned meanwhile does not execute another statement
Proceed(s, label, r) ==
  IF Abandoned(s) THEN Reply(s, "none")
  ELSE /\ pc' = [pc EXCEPT ![s] = label]
       /\ req' = [req EXCEPT ![s] = r]
       /\ UNCHANGED answer

\* uuid.New(): an id no table and no request has
FreshHousehold(h) == h \notin households \cup {req[t].household : t \in Slots}
FreshPickup(p) == pickups[p] = None /\ \A t \in Slots : req[t].pickup # p
FreshPayment(y) == payments[y] = None /\ \A t \in Slots : req[t].payment # y
\* one key per upload name instead of per upload
BugProofKeyReused(k) == TRUE
FreshProof(k) == objects[k] = None /\ \A t \in Slots : req[t].proof # k

\* A client can name any pickup but one whose uuid exists only in an open
\* transaction.
Minted(p) == \E t \in Slots : pc[t] = "createPickup.commit" /\ req[t].pickup = p

-----------------------------------------------------------------------------
(* Locks, as far as they make a statement wait.                            *)

\* Complete has updated the row and not committed.
HoldsRow(s, p) ==
  pc[s] \in {"complete.insert", "complete.commit"} /\ req[s].pickup = p

\* UPDATEs do not wait for Complete's transaction
BugRowUnlocked(p) == p \in sweepLocked

RowLocked(p) == p \in sweepLocked \/ \E t \in Slots : HoldsRow(t, p)

\* the insert of a pickup takes no lock on its household
BugHouseholdUnshared(h) ==
  \E t \in Slots : pc[t] = "complete.commit" /\ req[t].row.household = h

\* An uncommitted row refers to the household (foreign key share lock).
HouseholdShared(h) ==
  \E t \in Slots : /\ pc[t] \in {"createPickup.commit", "complete.commit"}
                   /\ req[t].row.household = h

\* an insert does not wait for the uncommitted entry
BugIndexEntryIgnored(p) == FALSE

\* An uncommitted payment of the pickup holds the entry of the unique index.
BillUncommitted(p) ==
  \E t \in Slots : pc[t] = "complete.commit" /\ req[t].pickup = p

-----------------------------------------------------------------------------
(* POST /households and DELETE /households/:id                             *)

StartCreateHousehold(s) ==
  Begin(s, "createHousehold", "createHousehold", NoRequest)

InsertHousehold(s) ==
  /\ pc[s] = "createHousehold"
  /\ \E h \in Households :
       FreshHousehold(h) /\ households' = households \cup {h}
  /\ Reply(s, "ok")
  /\ UNCHANGED <<pickups, payments, objects, clock, sweep>>

StartDeleteHousehold(s, h) ==
  Begin(s, "deleteHousehold", "deleteHousehold", [NoRequest EXCEPT !.household = h])

DeleteHousehold(s) ==
  LET h == req[s].household IN
    /\ pc[s] = "deleteHousehold"
    /\ ~HouseholdShared(h)
    /\ \/ /\ HasDependents(h)
          /\ Reply(s, "HOUSEHOLD_HAS_DEPENDENTS")
          /\ UNCHANGED households
       \/ /\ ~HasDependents(h)
          /\ Reply(s, IF h \in households THEN "ok" ELSE "HOUSEHOLD_NOT_FOUND")
          /\ households' = households \ {h}
    /\ UNCHANGED <<pickups, payments, objects, clock, sweep>>

-----------------------------------------------------------------------------
(* POST /pickups: read the clock, then check and insert in one transaction *)

StartCreatePickup(s, h, form) ==
  Begin(s, "createPickup", "createPickup.check",
        [NoRequest EXCEPT !.household = h, !.row = NewPickup(h, form, clock)])

CheckPendingPayment(s) ==
  /\ pc[s] = "createPickup.check"
  /\ IF HasPendingByHousehold(req[s].household)
       THEN Reply(s, "HOUSEHOLD_HAS_PENDING_PAYMENT")
       ELSE Proceed(s, "createPickup.insert", req[s])
  /\ UNCHANGED <<tables, sweep>>

InsertPickup(s) ==
  /\ pc[s] = "createPickup.insert"
  /\ \/ /\ req[s].household \notin households
        /\ Reply(s, "HOUSEHOLD_NOT_FOUND")
     \/ /\ req[s].household \in households
        /\ \E p \in PickupIds :
             /\ FreshPickup(p)
             /\ Proceed(s, "createPickup.commit", [req[s] EXCEPT !.pickup = p])
  /\ UNCHANGED <<tables, sweep>>

CommitPickup(s) ==
  /\ pc[s] = "createPickup.commit"
  /\ pickups' = [pickups EXCEPT ![req[s].pickup] = req[s].row]
  /\ Reply(s, "ok")
  /\ UNCHANGED <<households, payments, objects, clock, sweep>>

-----------------------------------------------------------------------------
(* POST /pickups/:id/schedule, /complete and /cancel                       *)

\* The request names a pickup; label is its first statement.
StartOnPickup(s, op, label, p) ==
  /\ ~Minted(p)
  /\ Begin(s, op, label, [NoRequest EXCEPT !.pickup = p])

SchedulePickup(s) ==
  LET p == req[s].pickup IN
    /\ pc[s] = "schedule.update"
    /\ IF ScheduleWhere(pickups[p])
         THEN /\ ~RowLocked(p)
              /\ pickups' = [pickups EXCEPT ![p] = WithStatus(@, "scheduled")]
              /\ Reply(s, "ok")
         ELSE Proceed(s, "schedule.find", req[s]) /\ UNCHANGED pickups
    /\ UNCHANGED <<households, payments, objects, clock, sweep>>

\* No row matched: read the pickup to say why.  The last case is the fallback
\* for a pickup that could be scheduled by now.
ExplainSchedule(s) ==
  LET row == pickups[req[s].pickup] IN
    /\ pc[s] = "schedule.find"
    /\ Reply(s, IF row = None THEN "PICKUP_NOT_FOUND"
                ELSE IF CanSchedule(row) # "ok" THEN CanSchedule(row)
                ELSE "PICKUP_NOT_PENDING")
    /\ UNCHANGED <<tables, sweep>>

\* updates the row outside the transaction that inserts the payment
BugCompleteOutsideTransaction(s) ==
  LET p == req[s].pickup IN
    /\ pc[s] = "complete.update"
    /\ IF CompleteWhere(pickups[p])
         THEN /\ pickups' = [pickups EXCEPT ![p] = WithStatus(@, "completed")]
              /\ Proceed(s, "complete.insert", [req[s] EXCEPT !.row = pickups'[p]])
         ELSE Proceed(s, "complete.find", req[s]) /\ UNCHANGED pickups
    /\ UNCHANGED <<households, payments, objects, clock, sweep>>

\* First statement of Complete's transaction; the row stays locked.
CompletePickup(s) ==
  LET p == req[s].pickup IN
    /\ pc[s] = "complete.update"
    /\ IF CompleteWhere(pickups[p])
         THEN /\ ~RowLocked(p)
              /\ Proceed(s, "complete.insert",
                   [req[s] EXCEPT !.row = WithStatus(pickups[p], "completed")])
         ELSE Proceed(s, "complete.find", req[s])
    /\ UNCHANGED <<tables, sweep>>

ExplainComplete(s) ==
  /\ pc[s] = "complete.find"
  /\ Reply(s, IF pickups[req[s].pickup] = None THEN "PICKUP_NOT_FOUND"
              ELSE "PICKUP_NOT_SCHEDULED")
  /\ UNCHANGED <<tables, sweep>>

\* no unique index on payments(waste_id)
BugNoUniqueIndex(p, row) ==
  IF pickups[p] = None \/ row.household \notin households THEN "FOREIGN_KEY_VIOLATION"
  ELSE "ok"

\* What INSERT INTO payments reports: the unique index first, then the foreign
\* keys, whose violation the repository does not map (mapError: 500
\* INTERNAL_ERROR).
PaymentInsertError(p, row) ==
  CASE Billed(p) -> "PAYMENT_ALREADY_EXISTS"
    [] ~Billed(p) /\ (pickups[p] = None \/ row.household \notin households)
         -> "FOREIGN_KEY_VIOLATION"
    [] OTHER -> "ok"

InsertCompletionPayment(s) ==
  LET p == req[s].pickup
      err == PaymentInsertError(p, req[s].row) IN
    /\ pc[s] = "complete.insert"
    /\ ~BillUncommitted(p)
    /\ \/ err # "ok" /\ Reply(s, err)   \* rolls the UPDATE back
       \/ /\ err = "ok"
          /\ \E y \in PaymentIds :
               /\ FreshPayment(y)
               /\ Proceed(s, "complete.commit", [req[s] EXCEPT !.payment = y])
    /\ UNCHANGED <<tables, sweep>>

CommitCompletion(s) ==
  LET r == req[s] IN
    /\ pc[s] = "complete.commit"
    /\ pickups' = [pickups EXCEPT ![r.pickup] = r.row]
    /\ payments' = [payments EXCEPT ![r.payment] = NewPayment(r.row, r.pickup)]
    /\ Reply(s, "ok")
    /\ UNCHANGED <<households, objects, clock, sweep>>

CancelPickup(s) ==
  LET p == req[s].pickup IN
    /\ pc[s] = "cancel.update"
    /\ IF CancelWhere(pickups[p])
         THEN /\ ~RowLocked(p)
              /\ pickups' = [pickups EXCEPT ![p] = WithStatus(@, "canceled")]
              /\ Reply(s, "ok")
         ELSE Proceed(s, "cancel.find", req[s]) /\ UNCHANGED pickups
    /\ UNCHANGED <<households, payments, objects, clock, sweep>>

ExplainCancel(s) ==
  /\ pc[s] = "cancel.find"
  /\ Reply(s, IF pickups[req[s].pickup] = None THEN "PICKUP_NOT_FOUND"
              ELSE "PICKUP_NOT_CANCELABLE")
  /\ UNCHANGED <<tables, sweep>>

-----------------------------------------------------------------------------
(* POST /payments: read the pickup, then insert                            *)

StartCreatePayment(s, h, p) ==
  /\ ~Minted(p)
  /\ Begin(s, "createPayment", "createPayment.find",
           [NoRequest EXCEPT !.household = h, !.pickup = p])

FindPickupToBill(s) ==
  LET row == pickups[req[s].pickup] IN
    /\ pc[s] = "createPayment.find"
    /\ \/ row = None /\ Reply(s, "PICKUP_NOT_FOUND")
       \/ /\ row # None
          /\ row.household # req[s].household
          /\ Reply(s, "PAYMENT_HOUSEHOLD_MISMATCH")
       \/ /\ row # None
          /\ row.household = req[s].household
          /\ Proceed(s, "createPayment.insert", [req[s] EXCEPT !.row = row])
    /\ UNCHANGED <<tables, sweep>>

InsertPayment(s) ==
  LET p == req[s].pickup
      row == req[s].row
      err == PaymentInsertError(p, row) IN
    /\ pc[s] = "createPayment.insert"
    /\ ~BillUncommitted(p)
    /\ Reply(s, err)
    /\ \/ err # "ok" /\ UNCHANGED payments
       \/ /\ err = "ok"
          /\ \E y \in PaymentIds :
               /\ FreshPayment(y)
               /\ payments' = [payments EXCEPT ![y] = NewPayment(row, p)]
    /\ UNCHANGED <<households, pickups, objects, clock, sweep>>

-----------------------------------------------------------------------------
(* POST /payments/:id/confirm: read, upload the proof, then update         *)

StartConfirm(s, y) ==
  Begin(s, "confirm", "confirm.find", [NoRequest EXCEPT !.payment = y])

FindPaymentToConfirm(s) ==
  LET row == payments[req[s].payment] IN
    /\ pc[s] = "confirm.find"
    /\ \/ row = None /\ Reply(s, "PAYMENT_NOT_FOUND")
       \/ row # None /\ row.status # "pending" /\ Reply(s, "PAYMENT_NOT_PENDING")
       \/ row # None /\ row.status = "pending" /\ Proceed(s, "confirm.put", req[s])
    /\ UNCHANGED <<tables, sweep>>

\* The key is payments/<payment>/<uuid>; a later failure leaves the object.
PutProof(s) ==
  /\ pc[s] = "confirm.put"
  /\ \E k \in ProofKeys :
       /\ FreshProof(k)
       /\ objects' = [objects EXCEPT ![k] = req[s].payment]
       /\ Proceed(s, "confirm.update", [req[s] EXCEPT !.proof = k])
  /\ UNCHANGED <<households, pickups, payments, clock, sweep>>

\* The client of the store reports an error; the object may be there or not.
PutFails(s) ==
  /\ pc[s] = "confirm.put"
  /\ ~Abandoned(s)
  /\ \/ UNCHANGED objects
     \/ \E k \in ProofKeys :
          FreshProof(k) /\ objects' = [objects EXCEPT ![k] = req[s].payment]
  /\ Reply(s, "STORAGE_UNAVAILABLE")
  /\ UNCHANGED <<households, pickups, payments, clock, sweep>>

\* answers "ok" whether or not a row was updated
BugConfirmIgnoresRowCount(s) ==
  LET y == req[s].payment IN
    /\ pc[s] = "confirm.update"
    /\ payments' = IF ConfirmWhere(payments[y])
                     THEN [payments EXCEPT ![y] = Paid(@, req[s].proof)] ELSE payments
    /\ Reply(s, "ok")
    /\ UNCHANGED <<households, pickups, objects, clock, sweep>>

ConfirmPayment(s) ==
  LET y == req[s].payment IN
    /\ pc[s] = "confirm.update"
    /\ IF ConfirmWhere(payments[y])
         THEN /\ payments' = [payments EXCEPT ![y] = Paid(@, req[s].proof)]
              /\ Reply(s, "ok")
         ELSE Reply(s, "PAYMENT_NOT_PENDING") /\ UNCHANGED payments
    /\ UNCHANGED <<households, pickups, objects, clock, sweep>>

-----------------------------------------------------------------------------
(* Timeouts, broken connections and crashes.                               *)

\* The deadline, a broken connection or the end of the process cuts the request
\* off.  mapError makes a deadline a 503 and a connection that breaks a 503 or,
\* when it surfaces as an end of file, a 500; Put's error is always a 503.
Abandon(s) ==
  /\ pc[s] # "idle"
  /\ ~Abandoned(s)
  /\ answer' = [answer EXCEPT ![s] = IF pc[s] = "confirm.put"
                  THEN "STORAGE_UNAVAILABLE" ELSE "FAILED"]
  /\ IF pc[s] \in InFlight THEN UNCHANGED <<pc, req>>
     ELSE /\ pc' = [pc EXCEPT ![s] = "idle"]
          /\ req' = [req EXCEPT ![s] = NoRequest]
  /\ UNCHANGED <<tables, sweep>>

\* The statement, COMMIT or upload of an abandoned request had no effect.
LateDrop(s) ==
  /\ pc[s] # "idle"
  /\ Abandoned(s)
  /\ Reply(s, "none")
  /\ UNCHANGED <<tables, sweep>>

-----------------------------------------------------------------------------
(* The auto-cancel worker: one UPDATE over all stale organic pickups.      *)

\* A tick of the worker: the run reads the clock before it calls the database.
SweepTick ==
  /\ "sweep" \in Ops
  /\ sweepPc = "idle"
  /\ sweepPc' = "scan"
  /\ sweepNow' = clock
  /\ UNCHANGED <<tables, slots, sweepTodo, sweepLocked>>

\* The snapshot of the statement: rows committed later are not seen.
SweepScan ==
  /\ sweepPc = "scan"
  /\ sweepPc' = "rows"
  /\ sweepTodo' = {p \in PickupIds : StaleWhere(pickups[p], sweepNow)}
  /\ UNCHANGED <<tables, slots, sweepNow, sweepLocked>>

\* The next row: wait for its lock, look at its committed version again.
SweepRow(p) ==
  /\ sweepPc = "rows"
  /\ p \in sweepTodo
  /\ ~RowLocked(p)
  /\ sweepTodo' = sweepTodo \ {p}
  /\ sweepLocked' = IF StaleWhere(pickups[p], sweepNow)
                      THEN sweepLocked \cup {p} ELSE sweepLocked
  /\ UNCHANGED <<tables, slots, sweepPc, sweepNow>>

\* the run ends without releasing its row locks
BugSweepKeepsLocks ==
  /\ sweepPc' = "idle"
  /\ sweepNow' = 0
  /\ sweepTodo' = {}
  /\ UNCHANGED sweepLocked

SweepEnds ==
  /\ sweepPc' = "idle"
  /\ sweepNow' = 0
  /\ sweepTodo' = {}
  /\ sweepLocked' = {}

SweepCommit ==
  /\ sweepPc = "rows"
  /\ sweepTodo = {}
  /\ pickups' = [p \in PickupIds |->
                   IF p \in sweepLocked THEN WithStatus(pickups[p], "canceled")
                   ELSE pickups[p]]
  /\ SweepEnds
  /\ UNCHANGED <<households, payments, objects, clock, slots>>

\* The run's deadline passes or the connection breaks: nothing is canceled.
SweepFail ==
  /\ sweepPc # "idle"
  /\ SweepEnds
  /\ UNCHANGED <<tables, slots>>

Tick ==
  /\ clock < MaxClock
  /\ clock' = clock + 1
  /\ UNCHANGED <<households, pickups, payments, objects, slots, sweep>>

-----------------------------------------------------------------------------
Start(s) ==
  \/ StartCreateHousehold(s)
  \/ \E h \in Households : StartDeleteHousehold(s, h)
  \/ \E h \in Households, form \in PickupForms : StartCreatePickup(s, h, form)
  \/ \E p \in PickupIds : \/ StartOnPickup(s, "schedule", "schedule.update", p)
                          \/ StartOnPickup(s, "complete", "complete.update", p)
                          \/ StartOnPickup(s, "cancel", "cancel.update", p)
  \/ \E h \in Households, p \in PickupIds : StartCreatePayment(s, h, p)
  \/ \E y \in PaymentIds : StartConfirm(s, y)

\* The next statement of the request in a slot, whatever it finds.
Serve(s) ==
  \/ InsertHousehold(s) \/ DeleteHousehold(s)
  \/ CheckPendingPayment(s) \/ InsertPickup(s) \/ CommitPickup(s)
  \/ SchedulePickup(s) \/ ExplainSchedule(s)
  \/ CompletePickup(s) \/ ExplainComplete(s)
  \/ InsertCompletionPayment(s) \/ CommitCompletion(s)
  \/ CancelPickup(s) \/ ExplainCancel(s)
  \/ FindPickupToBill(s) \/ InsertPayment(s)
  \/ FindPaymentToConfirm(s) \/ PutProof(s) \/ PutFails(s) \/ ConfirmPayment(s)

Fail(s) == Abandon(s) \/ LateDrop(s)

Worker ==
  SweepTick \/ SweepScan \/ (\E p \in PickupIds : SweepRow(p)) \/ SweepCommit \/ SweepFail

Next == (\E s \in Slots : Start(s) \/ Serve(s) \/ Fail(s)) \/ Worker \/ Tick

Spec == Init /\ [][Next]_vars
=============================================================================
