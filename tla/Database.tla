------------------------------ MODULE Database ------------------------------
(***************************************************************************)
(* What survives a restart: the three tables of db/migrations/0001 and the *)
(* bucket of payment proofs, as committed at this instant, and the clock.  *)
(* The conditions of the repositories' statements are stated here once.    *)
(* The integrity of the data, which no single statement guarantees, is     *)
(* stated here too: both the abstract ledger and the concurrent service    *)
(* are held to it.                                                         *)
(***************************************************************************)
EXTENDS Domain, Integers

CONSTANTS
  OrganicTTL,      \* ORGANIC_TTL: age beyond which organic waste is stale
  SeedHouseholds,  \* the rows of db/seeds
  SeedPickups,
  PickupForms      \* the (type, safety check) pairs clients send

Stored(table) == {id \in DOMAIN table : table[id] # None}

\* any duration: the configuration checks none
ASSUME OrganicTTLAssumption == OrganicTTL \in Int

ASSUME SeedAssumption ==
  /\ SeedHouseholds \in SUBSET Households
  /\ SeedPickups \in [PickupIds -> Pickup \cup {None}]
  /\ \A p \in Stored(SeedPickups) :
       /\ SeedPickups[p].household \in SeedHouseholds
       /\ SeedPickups[p].status = "pending"

ASSUME FormAssumption ==
  PickupForms \in SUBSET [type: PickupType, safetyCheck: BOOLEAN]

VARIABLES
  households,  \* the ids in table households
  pickups,     \* table waste_pickups: id -> row or None
  payments,    \* table payments: id -> row or None
  objects,     \* bucket: key -> the payment whose path holds it, or None
  clock        \* system time

tables == <<households, pickups, payments, objects, clock>>

TablesTypeOK ==
  /\ households \in SUBSET Households
  /\ pickups \in [PickupIds -> Pickup \cup {None}]
  /\ payments \in [PaymentIds -> Payment \cup {None}]
  /\ objects \in [ProofKeys -> PaymentIds \cup {None}]
  /\ clock \in Nat

\* a freshly migrated and seeded database, an empty bucket
TablesInit ==
  /\ households = SeedHouseholds
  /\ pickups = SeedPickups
  /\ payments = [y \in PaymentIds |-> None]
  /\ objects = [k \in ProofKeys |-> None]
  /\ clock = 0

-----------------------------------------------------------------------------
(* Conditions of the statements in internal/adapter/out/postgres.          *)
(* A definition named Bug... is a plausible mistake in the one below it;   *)
(* nothing uses it but the runs that show the properties notice it.        *)

\* asks for the safety check of any waste
BugScheduleNeedsCheck(row) ==
  row # None /\ row.status = "pending" /\ row.safetyCheck

\* UPDATE ... WHERE status = 'pending' AND (type <> 'electronic' OR safety_check)
ScheduleWhere(row) ==
  /\ row # None
  /\ row.status = "pending"
  /\ row.type # "electronic" \/ row.safetyCheck

CompleteWhere(row) == row # None /\ row.status = "scheduled"

\* cancels whatever is not canceled yet
BugCancelCompleted(row) == row # None /\ row.status # "canceled"

\* leaves scheduled pickups alone
BugCancelPendingOnly(row) == row # None /\ row.status = "pending"

CancelWhere(row) == row # None /\ row.status \in {"pending", "scheduled"}

\* created_at <= olderThan
BugStaleTooEarly(row, now) ==
  /\ row # None
  /\ row.type = "organic"
  /\ row.status \in {"pending", "scheduled"}
  /\ row.createdAt + OrganicTTL <= now

\* sweeps pending pickups only
BugStalePendingOnly(row, now) ==
  /\ row # None
  /\ row.type = "organic"
  /\ row.status = "pending"
  /\ row.createdAt + OrganicTTL < now

\* created_at < olderThan, with olderThan = now - OrganicTTL
StaleWhere(row, now) ==
  /\ row # None
  /\ row.type = "organic"
  /\ row.status \in {"pending", "scheduled"}
  /\ row.createdAt + OrganicTTL < now

ConfirmWhere(row) == row # None /\ row.status = "pending"

HasPendingByHousehold(h) ==
  \E y \in Stored(payments) :
    payments[y].household = h /\ payments[y].status = "pending"

\* the unique index ux_payments_waste already holds an entry for the pickup
Billed(p) == \E y \in Stored(payments) : payments[y].waste = p

\* only payments restrict the deletion
BugPaymentsOnlyRestrict(h) == \E y \in Stored(payments) : payments[y].household = h

\* ON DELETE RESTRICT: rows that refer to the household
HasDependents(h) ==
  \/ \E p \in Stored(pickups) : pickups[p].household = h
  \/ \E y \in Stored(payments) : payments[y].household = h

WithStatus(row, status) == [row EXCEPT !.status = status]
Paid(row, key) == [row EXCEPT !.status = "paid", !.proof = key]

-----------------------------------------------------------------------------
(* Integrity of the committed data.                                        *)

\* Every pickup belongs to a household that has not been deleted, and every
\* payment names a stored pickup, bills that pickup's household and charges
\* that pickup's price (payment.Create and pickup.Complete read the pickup in
\* one statement and insert in another).
BillMatchesPickup ==
  /\ \A p \in Stored(pickups) : pickups[p].household \in households
  /\ \A y \in Stored(payments) :
       LET bill == payments[y] IN
         /\ pickups[bill.waste] # None
         /\ bill.household = pickups[bill.waste].household
         /\ bill.amount = AmountFor(pickups[bill.waste].type)

\* A completed pickup has been billed (Complete flips the status and inserts
\* the payment in one transaction), and no pickup is billed twice.
CompletedIsBilledOnce ==
  /\ \A p \in Stored(pickups) : pickups[p].status = "completed" => Billed(p)
  /\ \A y, z \in Stored(payments) :
       payments[y].waste = payments[z].waste => y = z

\* A paid payment, and only a paid one, points at a proof; the object exists
\* and was uploaded for that very payment (Confirm uploads first, then updates).
PaidHasProof ==
  \A y \in Stored(payments) :
    /\ payments[y].status = "paid" <=> payments[y].proof # None
    /\ payments[y].proof # None => objects[payments[y].proof] = y

\* An electronic pickup without a safety check is never scheduled or completed.
UnsafeStaysUnscheduled ==
  \A p \in Stored(pickups) :
    pickups[p].type = "electronic" /\ ~pickups[p].safetyCheck
      => pickups[p].status \in {"pending", "canceled"}

Integrity ==
  /\ BillMatchesPickup
  /\ CompletedIsBilledOnce
  /\ PaidHasProof
  /\ UnsafeStaysUnscheduled

-----------------------------------------------------------------------------
(* What a step may never do to the committed data.                         *)

\* A completed or canceled pickup and a paid payment never change again, no
\* row of the two tables disappears, an uploaded proof is never overwritten.
NothingFinalChanges ==
  /\ \A p \in Stored(pickups) :
       /\ pickups'[p] # None
       /\ pickups[p].status \in {"completed", "canceled"}
            => pickups'[p] = pickups[p]
  /\ \A y \in Stored(payments) :
       /\ payments'[y] # None
       /\ payments[y].status = "paid" => payments'[y] = payments[y]
  /\ \A k \in Stored(objects) : objects'[k] = objects[k]

\* A pickup that was billed before its completion (POST /payments) can never
\* be completed: Complete inserts a payment of its own and is rolled back.
BilledNeverCompletes ==
  \A p \in Stored(pickups) :
    Billed(p) /\ pickups[p].status # "completed"
      => pickups'[p].status # "completed"

\* README: "A household cannot create a new pickup if it has any payment with
\* pending status": no pickup appears for a household with a pending payment.
Rule1 ==
  \A p \in Stored(pickups') \ Stored(pickups) :
    \A y \in Stored(payments) :
      payments[y].household = pickups'[p].household => payments[y].status # "pending"
=============================================================================
