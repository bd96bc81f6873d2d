-------------------------- MODULE BackendProperties --------------------------
(***************************************************************************)
(* What is claimed of WasteBackend: the integrity of the data at every     *)
(* instant, the meaning of the answers clients get, the locking discipline *)
(* these rest on, progress, and that the concurrent service implements the *)
(* atomic Ledger.                                                          *)
(***************************************************************************)
EXTENDS WasteBackend, LedgerSteps

\* Every step of the service changes the data as one business operation of the
\* ledger does, or not at all: no interleaving of statements shows through.
ImplementsLedger == LedgerSpec!Spec

-----------------------------------------------------------------------------
(* The discipline everything else rests on, as an inductive invariant.     *)

Holding == {"complete.insert", "complete.commit"}  \* the pickup's row lock
Creating == {"createPickup.check", "createPickup.insert", "createPickup.commit"}
Confirming == {"confirm.find", "confirm.put", "confirm.update"}

OnPickup ==
  Holding \cup
  {"createPickup.commit", "schedule.update", "schedule.find", "complete.update",
   "complete.find", "cancel.update", "cancel.find", "createPayment.find",
   "createPayment.insert"}

\* What a request with the local values r may rely on before statement l.
Relies(l, r) ==
  /\ l \in Creating \cup {"deleteHousehold"} => r.household \in Households
  /\ l \in OnPickup => r.pickup \in PickupIds
  /\ l \in Confirming \cup {"complete.commit"} => r.payment \in PaymentIds
  /\ l \in Creating =>
       /\ r.row # None /\ r.row.createdAt <= clock
       /\ \E form \in PickupForms :
            r.row = NewPickup(r.household, form, r.row.createdAt)
  /\ l = "createPickup.commit" =>
       pickups[r.pickup] = None /\ r.household \in households
  /\ l \in Holding =>
       /\ CompleteWhere(pickups[r.pickup])
       /\ r.row = WithStatus(pickups[r.pickup], "completed")
       /\ r.pickup \notin sweepLocked
  /\ l = "complete.commit" => payments[r.payment] = None /\ ~Billed(r.pickup)
  /\ l = "createPayment.insert" =>
       /\ pickups[r.pickup] # None
       /\ r.row # None
       /\ r.row.household = pickups[r.pickup].household
       /\ r.row.type = pickups[r.pickup].type
  /\ l = "confirm.update" => r.proof \in ProofKeys /\ objects[r.proof] = r.payment

\* Two requests never hold the same row nor are about to commit the same id.
Apart(l, r, m, q) ==
  /\ l \in Holding /\ m \in Holding => r.pickup # q.pickup
  /\ l = "complete.commit" /\ m = "complete.commit" => r.payment # q.payment
  /\ l = "createPickup.commit" /\ m = "createPickup.commit" => r.pickup # q.pickup

\* A row updated inside Complete's open transaction is still scheduled in the
\* table, belongs to that transaction alone, and is not being swept; a row the
\* sweep has locked is still stale; an id about to be committed is unused; what
\* POST /payments and the confirmation read before they write still holds.
LocksExclude ==
  /\ \A s \in Slots : Relies(pc[s], req[s])
  /\ \A s, t \in Slots : s # t => Apart(pc[s], req[s], pc[t], req[t])
  /\ \A p \in sweepLocked : StaleWhere(pickups[p], sweepNow)
  /\ sweepNow <= clock

-----------------------------------------------------------------------------
(* What clients are told.                                                  *)

\* A payment insert never fails on a foreign key, which the repository does not
\* map and a client would see as a 500: the pickup that POST /payments or the
\* completion found in an earlier statement is still there, and so is its
\* household.
NoForeignKeyError == \A s \in Slots : answer[s] # "FOREIGN_KEY_VIOLATION"

Replies(s, a) == pc[s] # "idle" /\ ~Abandoned(s) /\ pc'[s] = "idle" /\ answer'[s] = a

\* A refusal states a fact that held when it was sent, although the row may have
\* been read in a statement other than the one that refused: "not pending" is
\* never said of a pending pickup (the fallback of Schedule is dead code), "not
\* cancelable" only of a final one, "safety check required" only of a pickup
\* that has none, "already exists" only of a billed pickup, "payment not
\* pending" only of a paid one, what is said of a household holds of it.  The
\* exception is "not scheduled": another request may have scheduled the pickup
\* since Complete's UPDATE, so that refusal says only that the pickup exists.
RefusalsAreTrue ==
  \A s \in Slots :
    LET p == req[s].pickup
        y == req[s].payment
        h == req[s].household
    IN /\ Replies(s, "HOUSEHOLD_NOT_FOUND") => h \notin households
       /\ Replies(s, "HOUSEHOLD_HAS_DEPENDENTS") => HasDependents(h)
       /\ Replies(s, "HOUSEHOLD_HAS_PENDING_PAYMENT") => HasPendingByHousehold(h)
       /\ Replies(s, "PICKUP_NOT_FOUND") => pickups[p] = None
       /\ Replies(s, "PICKUP_NOT_SCHEDULED") => pickups[p] # None
       /\ Replies(s, "PICKUP_NOT_PENDING") => pickups[p].status # "pending"
       /\ Replies(s, "PICKUP_NOT_CANCELABLE") =>
            pickups[p].status \in {"completed", "canceled"}
       /\ Replies(s, "SAFETY_CHECK_REQUIRED") =>
            pickups[p].type = "electronic" /\ ~pickups[p].safetyCheck
       /\ Replies(s, "PAYMENT_HOUSEHOLD_MISMATCH") =>
            pickups[p] # None /\ pickups[p].household # h
       /\ Replies(s, "PAYMENT_ALREADY_EXISTS") => Billed(p)
       /\ Replies(s, "PAYMENT_NOT_FOUND") => payments[y] = None
       /\ Replies(s, "PAYMENT_NOT_PENDING") => payments[y].status = "paid"

\* An "ok" is given only with the effect in the tables: a confirmed payment is
\* paid with the proof this very request uploaded, a completed pickup comes with
\* a pending payment of its own, what was scheduled is safe to collect, a new
\* row is as it was asked for and a deleted household was there and is gone.
AcksAreKept ==
  \A s \in Slots : Replies(s, "ok") =>
    LET p == req[s].pickup
        y == req[s].payment
    IN /\ pc[s] = "confirm.update" => payments'[y] = Paid(payments[y], req[s].proof)
       /\ pc[s] = "complete.commit" =>
            /\ pickups'[p].status = "completed"
            /\ payments'[y].waste = p /\ payments'[y].status = "pending"
       /\ pc[s] = "createPickup.commit" => pickups'[p] = req[s].row
       /\ pc[s] = "createPayment.insert" =>
            \E z \in PaymentIds : payments'[z] = NewPayment(pickups[p], p)
       /\ pc[s] = "schedule.update" =>
            /\ pickups'[p].status = "scheduled"
            /\ pickups'[p].type # "electronic" \/ pickups'[p].safetyCheck
       /\ pc[s] = "cancel.update" => pickups'[p].status = "canceled"
       /\ pc[s] = "createHousehold" => \E h \in households' : h \notin households
       /\ pc[s] = "deleteHousehold" =>
            req[s].household \in households /\ req[s].household \notin households'

\* Organic waste nobody has collected in time.
Overdue(p) ==
  /\ pickups[p] # None
  /\ pickups[p].type = "organic"
  /\ pickups[p].status \notin {"completed", "canceled"}
  /\ clock > pickups[p].createdAt + OrganicTTL

\* README.md, Rule 4: what a run of the worker cancels is overdue when it is
\* canceled, although the run read the clock and chose the rows some statements
\* earlier and clients worked on them meanwhile.
SweepsOnlyOverdue ==
  sweepPc = "rows" /\ sweepPc' = "idle" =>
    \A p \in PickupIds : pickups'[p] # pickups[p] => Overdue(p)

\* No statement of any request, nor the sweep, changes a completed or canceled
\* pickup, a paid payment or a stored proof (the guards of the UPDATEs).
StepsKeepFinalData == [][NothingFinalChanges]_vars

\* pickup.Service.Complete never completes a pickup that POST /payments billed.
StepsNeverCompleteBilled == [][BilledNeverCompletes]_vars

\* Every 404, 409 and 422 the services answer is true when it is answered, but
\* for PICKUP_NOT_SCHEDULED, of which only the pickup's existence is.
StepsRefuseTruthfully == [][RefusalsAreTrue]_vars

\* Every success the services answer is in the tables when it is answered.
StepsAcknowledgeTruthfully == [][AcksAreKept]_vars

\* CancelStaleOrganic commits cancellations of overdue organic pickups only.
StepsSweepOnlyOverdue == [][SweepsOnlyOverdue]_vars

\* README.md: "A household cannot create a new pickup if it has any payment
\* with `pending` status."  The check and the insert share a transaction, but
\* at READ COMMITTED another request may bill the household in between.
StepsKeepRule1 == [][Rule1]_vars

-----------------------------------------------------------------------------
(* Progress.                                                               *)

\* The statements that wait for the lock of a pickup's row.
UpdatePickup(s) == SchedulePickup(s) \/ CompletePickup(s) \/ CancelPickup(s)

\* A request whose next statement can be executed gets it executed (goroutines
\* are scheduled, the database answers); no use is made of deadlines.  An UPDATE
\* of a request or of the worker queues for the row's lock, so it gets the row
\* in the end, whoever comes after it.  The worker ticks, and from some time on
\* its runs no longer fail (the commit of a run that found nothing is the same
\* step as its failure).
Fairness ==
  /\ \A s \in Slots : WF_vars(Serve(s)) /\ SF_vars(UpdatePickup(s))
  /\ WF_vars(SweepTick)
  /\ WF_vars(SweepScan)
  /\ \A p \in PickupIds : SF_vars(SweepRow(p))
  /\ WF_vars(SweepCommit)
  /\ WF_vars(Tick)
  /\ <>[][SweepFail => SweepCommit]_vars

FairSpec == Spec /\ Fairness

\* From some time on no deadline passes and no connection breaks.  (A late
\* statement that finds nothing to do is the same step as its loss.)
FailuresCease == <>[][\A s \in Slots : Fail(s) => Serve(s)]_vars

\* Once nothing fails any more, every request ends of itself: requests never
\* wait in a circle for the lock of a pickup (Complete's transaction, the sweep),
\* the share lock of a household (its deletion beside a completion) or an entry
\* of the unique index (a bill by hand beside a completion).
EveryRequestEnds ==
  FailuresCease => \A s \in Slots : (pc[s] # "idle" ~> pc[s] = "idle")

\* Stale organic waste does not stay open, whatever clients do to it meanwhile.
StaleIsSwept == \A p \in PickupIds : Overdue(p) ~> ~Overdue(p)
=============================================================================
