---------------------------- MODULE BackendProofs ----------------------------
(***************************************************************************)
(* Proofs about WasteBackend for every number of slots, every set of ids   *)
(* and every seed, in three parts.  First the types and the locking        *)
(* discipline LocksExclude, which are inductive.  Then, because locks make *)
(* each commit a single ledger operation, the concurrent service           *)
(* implements the atomic ledger, and what the ledger keeps, the service    *)
(* keeps.  Last, what clients are told is true.                            *)
(***************************************************************************)
EXTENDS BackendProperties, LedgerProofs

USE DEF tables, slots, sweep

\* Only the clock, the tables and the worker's variables that an action names
\* can break the types; the slots' variables change in three ways.
LEMMA BeginTypes ==
  ASSUME NEW s \in Slots, NEW op, NEW label \in Pc, NEW r \in Request,
         TypeOK, Begin(s, op, label, r)
  PROVE  TypeOK'
  BY DEF TypeOK, TablesTypeOK, Begin, Answer

LEMMA NoRequestTyped == NoRequest \in Request
  BY DEF NoRequest, Request

LEMMA ReplyTypes ==
  ASSUME NEW s \in Slots, NEW a \in Answer, TypeOK, Reply(s, a)
  PROVE  /\ pc' \in [Slots -> Pc]
         /\ req' \in [Slots -> Request]
         /\ answer' \in [Slots -> Answer]
  BY NoRequestTyped DEF TypeOK, Reply, Pc

LEMMA ProceedTypes ==
  ASSUME NEW s \in Slots, NEW label \in Pc, NEW r \in Request,
         TypeOK, Proceed(s, label, r)
  PROVE  /\ pc' \in [Slots -> Pc]
         /\ req' \in [Slots -> Request]
         /\ answer' \in [Slots -> Answer]
<1>1. "none" \in Answer
  BY DEF Answer
<1>2. CASE Abandoned(s)
  BY <1>1, <1>2, ReplyTypes DEF Proceed
<1>3. CASE ~Abandoned(s)
  BY <1>3 DEF Proceed, TypeOK
<1>4. QED
  BY <1>2, <1>3

-----------------------------------------------------------------------------
(* LocksExclude, the requests' part: what a step that moves one slot has   *)
(* to show.                                                                *)

IInv == TypeOK /\ LocksExclude

USE DEF Holding, Creating, Confirming, OnPickup

LEMMA IdleRelies == \A r : Relies("idle", r)
  BY DEF Relies

LEMMA IdleApart == \A r, m, q : Apart("idle", r, m, q)
  BY DEF Apart

LEMMA ApartSymmetric == \A l, r, m, q : Apart(l, r, m, q) => Apart(m, q, l, r)
  BY DEF Apart

\* One slot moves: the others stay apart from it, and everyone's reliance and
\* the sweep's locks have to be shown.
LEMMA SlotMoves ==
  ASSUME NEW s \in Slots, NEW l, NEW r, TypeOK, LocksExclude,
         pc' = [pc EXCEPT ![s] = l], req' = [req EXCEPT ![s] = r],
         \A t \in Slots : t # s => Apart(l, r, pc[t], req[t]),
         \A t \in Slots : Relies(pc[t], req[t])',
         (\A p \in sweepLocked : StaleWhere(pickups[p], sweepNow))',
         sweepNow' <= clock'
  PROVE  LocksExclude'
<1>1. pc \in [Slots -> Pc] /\ req \in [Slots -> Request]
  BY DEF TypeOK
<1>2. ASSUME NEW t \in Slots, NEW u \in Slots, t # u
      PROVE  Apart(pc[t], req[t], pc[u], req[u])'
  <2>1. Apart(pc[t], req[t], pc[u], req[u])
    BY <1>2 DEF LocksExclude
  <2>2. CASE t = s
    <3>1. pc'[t] = l /\ req'[t] = r /\ pc'[u] = pc[u] /\ req'[u] = req[u]
      BY <1>1, <1>2, <2>2
    <3>2. Apart(l, r, pc[u], req[u])
      BY <1>2, <2>2
    <3>3. QED
      BY <3>1, <3>2 DEF Apart
  <2>3. CASE u = s
    <3>1. pc'[u] = l /\ req'[u] = r /\ pc'[t] = pc[t] /\ req'[t] = req[t]
      BY <1>1, <1>2, <2>3
    <3>2. Apart(l, r, pc[t], req[t])
      BY <1>2, <2>3
    <3>3. QED
      BY <3>1, <3>2 DEF Apart
  <2>4. CASE t # s /\ u # s
    <3>1. pc'[u] = pc[u] /\ req'[u] = req[u] /\ pc'[t] = pc[t] /\ req'[t] = req[t]
      BY <1>1, <2>4
    <3>2. QED
      BY <2>1, <3>1 DEF Apart
  <2>5. QED
    BY <2>2, <2>3, <2>4
<1>3. QED
  BY <1>2 DEF LocksExclude

\* The same when neither the tables nor the worker change.
LEMMA LocalMove ==
  ASSUME NEW s \in Slots, NEW l, NEW r, TypeOK, LocksExclude,
         pc' = [pc EXCEPT ![s] = l], req' = [req EXCEPT ![s] = r],
         UNCHANGED <<tables, sweep>>,
         Relies(l, r),
         \A t \in Slots : t # s => Apart(l, r, pc[t], req[t])
  PROVE  LocksExclude'
<1>1. pc \in [Slots -> Pc] /\ req \in [Slots -> Request]
  BY DEF TypeOK
<1>2. ASSUME NEW t \in Slots
      PROVE  Relies(pc[t], req[t])'
  <2>1. Relies(pc[t], req[t])
    BY DEF LocksExclude
  <2>2. CASE t = s
    <3>1. pc'[t] = l /\ req'[t] = r
      BY <1>1, <2>2
    <3>2. QED
      BY <3>1 DEF Relies, CompleteWhere, Billed, Stored
  <2>3. CASE t # s
    <3>1. pc'[t] = pc[t] /\ req'[t] = req[t]
      BY <1>1, <2>3
    <3>2. QED
      BY <2>1, <3>1 DEF Relies, CompleteWhere, Billed, Stored
  <2>4. QED
    BY <2>2, <2>3
<1>3. (\A p \in sweepLocked : StaleWhere(pickups[p], sweepNow))' /\ sweepNow' <= clock'
  BY DEF LocksExclude, StaleWhere
<1>4. QED
  BY <1>2, <1>3, SlotMoves

LEMMA LocalReply ==
  ASSUME NEW s \in Slots, NEW a \in Answer, IInv, Reply(s, a), UNCHANGED <<tables, sweep>>
  PROVE  IInv'
<1>1. TypeOK'
  BY ReplyTypes DEF IInv, TypeOK, TablesTypeOK
<1>2. LocksExclude'
  BY LocalMove, IdleRelies, IdleApart DEF IInv, Reply
<1>3. QED
  BY <1>1, <1>2 DEF IInv

LEMMA LocalProceed ==
  ASSUME NEW s \in Slots, NEW l \in Pc, NEW r \in Request, IInv,
         Proceed(s, l, r), UNCHANGED <<tables, sweep>>,
         Relies(l, r),
         \A t \in Slots : t # s => Apart(l, r, pc[t], req[t])
  PROVE  IInv'
<1>1. "none" \in Answer
  BY DEF Answer
<1>2. CASE Abandoned(s)
  BY <1>1, <1>2, LocalReply DEF Proceed
<1>3. CASE ~Abandoned(s)
  <2>1. TypeOK'
    BY ProceedTypes DEF IInv, TypeOK, TablesTypeOK
  <2>2. LocksExclude'
    BY <1>3, LocalMove DEF IInv, Proceed
  <2>3. QED
    BY <2>1, <2>2 DEF IInv
<1>4. QED
  BY <1>2, <1>3

\* A request that starts holds nothing.
LEMMA StartStep ==
  ASSUME NEW s \in Slots, NEW op, NEW l \in Pc, NEW r \in Request, IInv,
         Begin(s, op, l, r), Relies(l, r),
         l \notin Holding \cup {"createPickup.commit"}
  PROVE  IInv'
<1>1. TypeOK'
  BY BeginTypes DEF IInv
<1>2. \A t \in Slots : t # s => Apart(l, r, pc[t], req[t])
  BY DEF Apart
<1>3. LocksExclude'
  BY <1>2, LocalMove DEF IInv, Begin
<1>4. QED
  BY <1>1, <1>3 DEF IInv

-----------------------------------------------------------------------------
(* One lemma per kind of step: it keeps types and locking discipline.      *)

LEMMA InitIInv == Init => IInv
<1> SUFFICES ASSUME Init PROVE IInv
  OBVIOUS
<1>1. TypeOK
  BY SeedAssumption, NoRequestTyped
  DEF Init, TablesInit, TypeOK, TablesTypeOK, Pc, Answer
<1>2. LocksExclude
  BY IdleRelies, IdleApart DEF Init, TablesInit, LocksExclude
<1>3. QED
  BY <1>1, <1>2 DEF IInv

LEMMA StartIInv == ASSUME NEW s \in Slots, IInv, Start(s) PROVE IInv'
<1>1. NoRequest \in Request
  BY NoRequestTyped
<1>2. CASE StartCreateHousehold(s)
  <2>1. "createHousehold" \in Pc /\ Relies("createHousehold", NoRequest)
    BY DEF Pc, InFlight, Relies
  <2>2. QED
    BY <1>1, <1>2, <2>1, StartStep DEF StartCreateHousehold
<1>3. ASSUME NEW h \in Households, StartDeleteHousehold(s, h) PROVE IInv'
  <2> DEFINE r == [NoRequest EXCEPT !.household = h]
  <2>1. r \in Request /\ r.household = h
    BY DEF NoRequest, Request
  <2>2. "deleteHousehold" \in Pc /\ Relies("deleteHousehold", r)
    BY <2>1 DEF Pc, InFlight, Relies
  <2>3. QED
    BY <1>3, <2>1, <2>2, StartStep DEF StartDeleteHousehold
<1>4. ASSUME NEW h \in Households, NEW form \in PickupForms, StartCreatePickup(s, h, form)
      PROVE  IInv'
  <2> DEFINE r == [NoRequest EXCEPT !.household = h, !.row = NewPickup(h, form, clock)]
  <2>1. clock \in Nat
    BY DEF IInv, TypeOK, TablesTypeOK
  <2>2. NewPickup(h, form, clock) \in Pickup
    BY <2>1, RowTypes
  <2>3. r \in Request /\ r.household = h /\ r.row = NewPickup(h, form, clock)
    BY <2>2 DEF NoRequest, Request
  <2>4. r.row # None /\ r.row.createdAt = clock
    BY <2>2, <2>3, NoneIsNone DEF NewPickup
  <2>5. "createPickup.check" \in Pc /\ Relies("createPickup.check", r)
    BY <2>1, <2>3, <2>4 DEF Pc, InFlight, Relies
  <2>6. QED
    BY <1>4, <2>3, <2>5, StartStep DEF StartCreatePickup
<1>5. ASSUME NEW p \in PickupIds, NEW op,
             NEW l \in {"schedule.update", "complete.update", "cancel.update"},
             StartOnPickup(s, op, l, p)
      PROVE  IInv'
  <2> DEFINE r == [NoRequest EXCEPT !.pickup = p]
  <2>1. r \in Request /\ r.pickup = p
    BY DEF NoRequest, Request
  <2>2. l \in Pc /\ Relies(l, r)
    BY <2>1 DEF Pc, InFlight, Relies
  <2>3. QED
    BY <1>5, <2>1, <2>2, StartStep DEF StartOnPickup
<1>6. ASSUME NEW h \in Households, NEW p \in PickupIds, StartCreatePayment(s, h, p)
      PROVE  IInv'
  <2> DEFINE r == [NoRequest EXCEPT !.household = h, !.pickup = p]
  <2>1. r \in Request /\ r.pickup = p
    BY DEF NoRequest, Request
  <2>2. "createPayment.find" \in Pc /\ Relies("createPayment.find", r)
    BY <2>1 DEF Pc, InFlight, Relies
  <2>3. QED
    BY <1>6, <2>1, <2>2, StartStep DEF StartCreatePayment
<1>7. ASSUME NEW y \in PaymentIds, StartConfirm(s, y) PROVE IInv'
  <2> DEFINE r == [NoRequest EXCEPT !.payment = y]
  <2>1. r \in Request /\ r.payment = y
    BY DEF NoRequest, Request
  <2>2. "confirm.find" \in Pc /\ Relies("confirm.find", r)
    BY <2>1 DEF Pc, InFlight, Relies
  <2>3. QED
    BY <1>7, <2>1, <2>2, StartStep DEF StartConfirm
<1>8. QED
  BY <1>2, <1>3, <1>4, <1>5, <1>6, <1>7 DEF Start

\* Statements that only read, and inserts and updates inside a transaction:
\* nothing is committed, the request moves on or is answered.
LEMMA CheckIInv == ASSUME NEW s \in Slots, IInv, CheckPendingPayment(s) PROVE IInv'
<1>1. req[s] \in Request /\ Relies("createPickup.check", req[s])
  BY DEF IInv, TypeOK, LocksExclude, CheckPendingPayment
<1>2. "createPickup.insert" \in Pc /\ Relies("createPickup.insert", req[s])
  BY <1>1 DEF Pc, Relies
<1>3. \A t \in Slots : Apart("createPickup.insert", req[s], pc[t], req[t])
  BY DEF Apart
<1>4. "HOUSEHOLD_HAS_PENDING_PAYMENT" \in Answer
  BY DEF Answer
<1>5. CASE Reply(s, "HOUSEHOLD_HAS_PENDING_PAYMENT")
  BY <1>4, <1>5, LocalReply DEF CheckPendingPayment
<1>6. CASE Proceed(s, "createPickup.insert", req[s])
  BY <1>1, <1>2, <1>3, <1>6, LocalProceed DEF CheckPendingPayment
<1>7. QED
  BY <1>5, <1>6 DEF CheckPendingPayment

LEMMA InsertPickupIInv == ASSUME NEW s \in Slots, IInv, InsertPickup(s) PROVE IInv'
<1>1. req[s] \in Request /\ Relies("createPickup.insert", req[s])
  BY DEF IInv, TypeOK, LocksExclude, InsertPickup
<1>2. CASE Reply(s, "HOUSEHOLD_NOT_FOUND")
  BY <1>2, LocalReply DEF InsertPickup, Answer
<1>3. ASSUME req[s].household \in households, NEW p \in PickupIds, FreshPickup(p),
             Proceed(s, "createPickup.commit", [req[s] EXCEPT !.pickup = p])
      PROVE  IInv'
  <2> DEFINE r == [req[s] EXCEPT !.pickup = p]
  <2>1. /\ r \in Request /\ r.pickup = p
        /\ r.household = req[s].household /\ r.row = req[s].row
    BY <1>1 DEF Request
  <2>2. "createPickup.commit" \in Pc /\ Relies("createPickup.commit", r)
    BY <1>1, <1>3, <2>1 DEF Pc, InFlight, Relies, FreshPickup
  <2>3. \A t \in Slots : Apart("createPickup.commit", r, pc[t], req[t])
    BY <1>3, <2>1 DEF Apart, FreshPickup
  <2>4. QED
    BY <1>3, <2>1, <2>2, <2>3, LocalProceed DEF InsertPickup
<1>4. QED
  BY <1>2, <1>3 DEF InsertPickup

LEMMA CompletePickupIInv == ASSUME NEW s \in Slots, IInv, CompletePickup(s) PROVE IInv'
<1> DEFINE p == req[s].pickup
<1>1. req[s] \in Request /\ p \in PickupIds /\ pickups[p] \in Pickup \cup {None}
  BY DEF IInv, TypeOK, TablesTypeOK, LocksExclude, Relies, CompletePickup
<1>2. ASSUME CompleteWhere(pickups[p]), ~RowLocked(p),
             Proceed(s, "complete.insert", [req[s] EXCEPT !.row = WithStatus(pickups[p], "completed")])
      PROVE  IInv'
  <2> DEFINE r == [req[s] EXCEPT !.row = WithStatus(pickups[p], "completed")]
  <2>1. WithStatus(pickups[p], "completed") \in Pickup
    BY <1>1, <1>2, RowTypes DEF CompleteWhere, PickupStatus
  <2>2. r \in Request /\ r.pickup = p /\ r.row = WithStatus(pickups[p], "completed")
    BY <1>1, <2>1 DEF Request
  <2>3. ~RowLocked(p)
    BY <1>2
  <2>4. "complete.insert" \in Pc /\ Relies("complete.insert", r)
    BY <1>1, <1>2, <2>2, <2>3 DEF Pc, Relies, RowLocked
  <2>5. \A t \in Slots : Apart("complete.insert", r, pc[t], req[t])
    BY <2>2, <2>3 DEF Apart, RowLocked, HoldsRow
  <2>6. QED
    BY <1>2, <2>2, <2>4, <2>5, LocalProceed DEF CompletePickup
<1>3. CASE Proceed(s, "complete.find", req[s])
  <2>1. "complete.find" \in Pc /\ Relies("complete.find", req[s])
    BY <1>1 DEF Pc, Relies
  <2>2. \A t \in Slots : Apart("complete.find", req[s], pc[t], req[t])
    BY DEF Apart
  <2>3. QED
    BY <1>1, <1>3, <2>1, <2>2, LocalProceed DEF CompletePickup
<1>4. QED
  BY <1>2, <1>3 DEF CompletePickup

LEMMA InsertCompletionPaymentIInv ==
  ASSUME NEW s \in Slots, IInv, InsertCompletionPayment(s) PROVE IInv'
<1> DEFINE p == req[s].pickup
           err == PaymentInsertError(p, req[s].row)
<1>1. req[s] \in Request /\ Relies("complete.insert", req[s])
  BY DEF IInv, TypeOK, LocksExclude, InsertCompletionPayment
<1>2. err \in Answer
  BY DEF PaymentInsertError, Answer
<1>3. CASE Reply(s, err)
  BY <1>2, <1>3, LocalReply DEF InsertCompletionPayment
<1>4. ASSUME err = "ok", NEW y \in PaymentIds, FreshPayment(y),
             Proceed(s, "complete.commit", [req[s] EXCEPT !.payment = y])
      PROVE  IInv'
  <2> DEFINE r == [req[s] EXCEPT !.payment = y]
  <2>1. r \in Request /\ r.pickup = p /\ r.row = req[s].row /\ r.payment = y
    BY <1>1 DEF Request
  <2>2. ~Billed(p)
    BY <1>4 DEF PaymentInsertError
  <2>3. "complete.commit" \in Pc /\ Relies("complete.commit", r)
    BY <1>1, <1>4, <2>1, <2>2 DEF Pc, InFlight, Relies, FreshPayment
  <2>4. \A t \in Slots : t # s => Apart("complete.commit", r, pc[t], req[t])
    <3> SUFFICES ASSUME NEW t \in Slots, t # s
                 PROVE  Apart("complete.commit", r, pc[t], req[t])
      OBVIOUS
    <3>1. Apart("complete.insert", req[s], pc[t], req[t])
      BY DEF IInv, LocksExclude, InsertCompletionPayment
    <3>2. r.payment # req[t].payment
      BY <1>4, <2>1 DEF FreshPayment
    <3>3. QED
      BY <2>1, <3>1, <3>2 DEF Apart
  <2>5. QED
    BY <1>4, <2>1, <2>3, <2>4, LocalProceed DEF InsertCompletionPayment
<1>5. QED
  BY <1>3, <1>4 DEF InsertCompletionPayment

LEMMA FindPickupToBillIInv ==
  ASSUME NEW s \in Slots, IInv, FindPickupToBill(s) PROVE IInv'
<1> DEFINE row == pickups[req[s].pickup]
<1>1. /\ req[s] \in Request /\ req[s].pickup \in PickupIds
      /\ row \in Pickup \cup {None}
  BY DEF IInv, TypeOK, TablesTypeOK, LocksExclude, Relies, FindPickupToBill
<1>2. ASSUME NEW a \in {"PICKUP_NOT_FOUND", "PAYMENT_HOUSEHOLD_MISMATCH"}, Reply(s, a)
      PROVE  IInv'
  BY <1>2, LocalReply DEF FindPickupToBill, Answer
<1>3. ASSUME row # None, Proceed(s, "createPayment.insert", [req[s] EXCEPT !.row = row])
      PROVE  IInv'
  <2> DEFINE r == [req[s] EXCEPT !.row = row]
  <2>1. r \in Request /\ r.pickup = req[s].pickup /\ r.row = row
    BY <1>1 DEF Request
  <2>2. "createPayment.insert" \in Pc /\ Relies("createPayment.insert", r)
    BY <1>1, <1>3, <2>1 DEF Pc, InFlight, Relies
  <2>3. \A t \in Slots : Apart("createPayment.insert", r, pc[t], req[t])
    BY DEF Apart
  <2>4. QED
    BY <1>3, <2>1, <2>2, <2>3, LocalProceed DEF FindPickupToBill
<1>4. QED
  BY <1>2, <1>3 DEF FindPickupToBill

LEMMA FindPaymentToConfirmIInv ==
  ASSUME NEW s \in Slots, IInv, FindPaymentToConfirm(s) PROVE IInv'
<1>1. req[s] \in Request /\ req[s].payment \in PaymentIds
  BY DEF IInv, TypeOK, LocksExclude, Relies, FindPaymentToConfirm
<1>2. ASSUME NEW a \in {"PAYMENT_NOT_FOUND", "PAYMENT_NOT_PENDING"}, Reply(s, a)
      PROVE  IInv'
  BY <1>2, LocalReply DEF FindPaymentToConfirm, Answer
<1>3. CASE Proceed(s, "confirm.put", req[s])
  <2>1. "confirm.put" \in Pc /\ Relies("confirm.put", req[s])
    BY <1>1 DEF Pc, InFlight, Relies
  <2>2. \A t \in Slots : Apart("confirm.put", req[s], pc[t], req[t])
    BY DEF Apart
  <2>3. QED
    BY <1>1, <1>3, <2>1, <2>2, LocalProceed DEF FindPaymentToConfirm
<1>4. QED
  BY <1>2, <1>3 DEF FindPaymentToConfirm

LEMMA ExplainIInv ==
  ASSUME NEW s \in Slots, IInv,
         ExplainSchedule(s) \/ ExplainComplete(s) \/ ExplainCancel(s)
  PROVE  IInv'
<1>1. PICK a \in Answer : Reply(s, a)
  BY DEF ExplainSchedule, ExplainComplete, ExplainCancel, CanSchedule, Answer
<1>2. QED
  BY <1>1, LocalReply DEF ExplainSchedule, ExplainComplete, ExplainCancel

LEMMA AbandonIInv == ASSUME NEW s \in Slots, IInv, Abandon(s) PROVE IInv'
<1>1. pc \in [Slots -> Pc] /\ req \in [Slots -> Request] /\ answer \in [Slots -> Answer]
  BY DEF IInv, TypeOK
<1>2. PICK l, r :
           /\ pc' = [pc EXCEPT ![s] = l] /\ req' = [req EXCEPT ![s] = r]
           /\ \/ l = pc[s] /\ r = req[s]
              \/ l = "idle" /\ r = NoRequest
  <2>1. CASE pc[s] \in InFlight
    <3>1. pc' = [pc EXCEPT ![s] = pc[s]] /\ req' = [req EXCEPT ![s] = req[s]]
      BY <1>1, <2>1 DEF Abandon
    <3>2. QED
      BY <3>1
  <2>2. CASE pc[s] \notin InFlight
    BY <2>2 DEF Abandon
  <2>3. QED
    BY <2>1, <2>2
<1>3. Relies(l, r) /\ \A t \in Slots : t # s => Apart(l, r, pc[t], req[t])
  BY <1>2, IdleRelies, IdleApart DEF IInv, LocksExclude
<1>4. LocksExclude'
  BY <1>2, <1>3, LocalMove DEF IInv, Abandon
<1>5. TypeOK'
  <2>1. l \in Pc /\ r \in Request
    BY <1>1, <1>2, NoRequestTyped DEF Pc
  <2>2. answer' \in [Slots -> Answer]
    BY <1>1 DEF Abandon, Answer
  <2>3. QED
    BY <1>1, <1>2, <2>1, <2>2 DEF IInv, TypeOK, TablesTypeOK, Abandon
<1>6. QED
  BY <1>4, <1>5 DEF IInv

LEMMA LateDropIInv == ASSUME NEW s \in Slots, IInv, LateDrop(s) PROVE IInv'
  BY LocalReply DEF LateDrop, Answer

-----------------------------------------------------------------------------
(* Statements that change a table.  A request in another slot still finds  *)
(* what it relies on, provided rows keep their household and type and the  *)
(* rows and ids it has reserved are left alone.                            *)

LEMMA OthersRely ==
  ASSUME NEW t \in Slots, IInv, pc'[t] = pc[t], req'[t] = req[t],
         UNCHANGED <<households, objects, clock, sweepLocked>>,
         \A p \in PickupIds : pickups[p] # None =>
           /\ pickups'[p] # None
           /\ pickups'[p].household = pickups[p].household
           /\ pickups'[p].type = pickups[p].type,
         pc[t] \in Holding => pickups'[req[t].pickup] = pickups[req[t].pickup],
         pc[t] = "createPickup.commit" => pickups'[req[t].pickup] = None,
         pc[t] = "complete.commit" =>
           payments'[req[t].payment] = None /\ ~Billed(req[t].pickup)'
  PROVE  Relies(pc[t], req[t])'
<1>1. Relies(pc[t], req[t])
  BY DEF IInv, LocksExclude
<1>2. pc[t] \in OnPickup => req[t].pickup \in PickupIds
  BY <1>1 DEF Relies
<1>3. QED
  BY <1>1, <1>2 DEF Relies, CompleteWhere, Billed, Stored

\* The slot that executes the statement ends its request.
LEMMA ReplyKeeps ==
  ASSUME NEW s \in Slots, NEW a \in Answer, IInv, Reply(s, a), TablesTypeOK',
         UNCHANGED <<sweep, clock>>,
         \A t \in Slots :
           t # s /\ pc'[t] = pc[t] /\ req'[t] = req[t] => Relies(pc[t], req[t])',
         \A p \in sweepLocked : StaleWhere(pickups'[p], sweepNow)
  PROVE  IInv'
<1>1. pc \in [Slots -> Pc] /\ req \in [Slots -> Request]
  BY DEF IInv, TypeOK
<1>2. TypeOK'
  BY ReplyTypes DEF IInv, TypeOK
<1>3. \A t \in Slots : Relies(pc[t], req[t])'
  <2> SUFFICES ASSUME NEW t \in Slots PROVE Relies(pc[t], req[t])'
    OBVIOUS
  <2>1. CASE t = s
    <3>1. pc'[t] = "idle"
      BY <1>1, <2>1 DEF Reply
    <3>2. QED
      BY <3>1 DEF Relies
  <2>2. CASE t # s
    <3>1. pc'[t] = pc[t] /\ req'[t] = req[t]
      BY <1>1, <2>2 DEF Reply
    <3>2. QED
      BY <2>2, <3>1
  <2>3. QED
    BY <2>1, <2>2
<1>4. (\A p \in sweepLocked : StaleWhere(pickups[p], sweepNow))' /\ sweepNow' <= clock'
  BY DEF IInv, LocksExclude, StaleWhere
<1>5. LocksExclude'
  BY <1>3, <1>4, IdleApart, SlotMoves DEF IInv, Reply
<1>6. QED
  BY <1>2, <1>5 DEF IInv

LEMMA InsertHouseholdIInv == ASSUME NEW s \in Slots, IInv, InsertHousehold(s) PROVE IInv'
<1>1. TablesTypeOK'
  BY DEF IInv, TypeOK, TablesTypeOK, InsertHousehold
<1>2. ASSUME NEW t \in Slots, t # s, pc'[t] = pc[t], req'[t] = req[t]
      PROVE  Relies(pc[t], req[t])'
  <2>1. Relies(pc[t], req[t]) /\ households \subseteq households'
    BY DEF IInv, LocksExclude, InsertHousehold
  <2>2. QED
    BY <1>2, <2>1 DEF InsertHousehold, Relies, CompleteWhere, Billed, Stored
<1>3. \A p \in sweepLocked : StaleWhere(pickups'[p], sweepNow)
  BY DEF IInv, LocksExclude, InsertHousehold
<1>4. "ok" \in Answer
  BY DEF Answer
<1>5. QED
  BY <1>1, <1>2, <1>3, <1>4, ReplyKeeps DEF InsertHousehold

LEMMA DeleteHouseholdIInv == ASSUME NEW s \in Slots, IInv, DeleteHousehold(s) PROVE IInv'
<1> DEFINE h == req[s].household
<1>1. TablesTypeOK'
  BY DEF IInv, TypeOK, TablesTypeOK, DeleteHousehold
<1>2. ASSUME NEW t \in Slots, t # s, pc'[t] = pc[t], req'[t] = req[t]
      PROVE  Relies(pc[t], req[t])'
  <2>1. Relies(pc[t], req[t])
    BY DEF IInv, LocksExclude
  <2>2. pc[t] = "createPickup.commit" => req[t].household \in households'
    <3> SUFFICES ASSUME pc[t] = "createPickup.commit" PROVE req[t].household \in households'
      OBVIOUS
    <3>1. PICK form \in PickupForms :
            req[t].row = NewPickup(req[t].household, form, req[t].row.createdAt)
      BY <2>1 DEF Relies
    <3>2. req[t].row.household = req[t].household
      BY <3>1 DEF NewPickup
    <3>3. req[t].household \in households
      BY <2>1 DEF Relies
    <3>4. req[t].row.household # h
      BY DEF DeleteHousehold, HouseholdShared
    <3>5. QED
      BY <3>2, <3>3, <3>4 DEF DeleteHousehold
  <2>3. QED
    BY <1>2, <2>1, <2>2 DEF DeleteHousehold, Relies, CompleteWhere, Billed, Stored
<1>3. \A p \in sweepLocked : StaleWhere(pickups'[p], sweepNow)
  BY DEF IInv, LocksExclude, DeleteHousehold
<1>4. PICK a \in Answer : Reply(s, a)
  BY DEF DeleteHousehold, Answer
<1>5. QED
  BY <1>1, <1>2, <1>3, <1>4, ReplyKeeps DEF DeleteHousehold

LEMMA CommitPickupIInv == ASSUME NEW s \in Slots, IInv, CommitPickup(s) PROVE IInv'
<1> DEFINE p == req[s].pickup
<1>1. /\ Relies("createPickup.commit", req[s])
      /\ req[s] \in Request /\ pickups \in [PickupIds -> Pickup \cup {None}]
  BY DEF IInv, TypeOK, TablesTypeOK, LocksExclude, CommitPickup
<1>2. p \in PickupIds /\ pickups[p] = None /\ req[s].row \in Pickup
  BY <1>1 DEF Relies, Request
<1>3. TablesTypeOK'
  BY <1>2 DEF IInv, TypeOK, TablesTypeOK, CommitPickup
<1>4. \A q \in PickupIds : q # p => pickups'[q] = pickups[q]
  BY <1>1 DEF CommitPickup
<1>5. ASSUME NEW t \in Slots, t # s, pc'[t] = pc[t], req'[t] = req[t]
      PROVE  Relies(pc[t], req[t])'
  <2>1. Relies(pc[t], req[t]) /\ Apart("createPickup.commit", req[s], pc[t], req[t])
    BY <1>5 DEF IInv, LocksExclude, CommitPickup
  <2>2. pc[t] \in Holding => pickups'[req[t].pickup] = pickups[req[t].pickup]
    BY <1>2, <1>4, <2>1 DEF Relies, CompleteWhere
  <2>3. pc[t] = "createPickup.commit" => pickups'[req[t].pickup] = None
    BY <1>4, <2>1 DEF Relies, Apart
  <2>4. pc[t] = "complete.commit" =>
          payments'[req[t].payment] = None /\ ~Billed(req[t].pickup)'
    BY <1>5, <2>1 DEF Relies, Billed, Stored, CommitPickup
  <2>5. QED
    BY <1>2, <1>4, <1>5, <2>2, <2>3, <2>4, OthersRely DEF CommitPickup
<1>6. \A q \in sweepLocked : StaleWhere(pickups'[q], sweepNow)
  BY <1>2, <1>4 DEF IInv, TypeOK, LocksExclude, StaleWhere
<1>7. "ok" \in Answer
  BY DEF Answer
<1>8. QED
  BY <1>3, <1>5, <1>6, <1>7, ReplyKeeps DEF CommitPickup

\* A guarded UPDATE of one unlocked row, in its own transaction.
LEMMA StatusUpdateIInv ==
  ASSUME NEW s \in Slots, NEW p \in PickupIds, NEW status \in PickupStatus, IInv,
         ~RowLocked(p), pickups[p] # None,
         pickups' = [pickups EXCEPT ![p] = WithStatus(@, status)], Reply(s, "ok"),
         UNCHANGED <<households, payments, objects, clock, sweep>>
  PROVE  IInv'
<1>1. pickups \in [PickupIds -> Pickup \cup {None}]
  BY DEF IInv, TypeOK, TablesTypeOK
<1>2. pickups[p] \in Pickup /\ pickups'[p] = WithStatus(pickups[p], status)
  BY <1>1
<1>3. \A q \in PickupIds : q # p => pickups'[q] = pickups[q]
  BY <1>1
<1>4. /\ pickups'[p] # None
      /\ pickups'[p].household = pickups[p].household
      /\ pickups'[p].type = pickups[p].type
  BY <1>2, RowTypes, NoneIsNone DEF WithStatus, Pickup
<1>5. TablesTypeOK'
  BY <1>2, RowTypes DEF IInv, TypeOK, TablesTypeOK
<1>6. ASSUME NEW t \in Slots, t # s, pc'[t] = pc[t], req'[t] = req[t]
      PROVE  Relies(pc[t], req[t])'
  <2>1. Relies(pc[t], req[t])
    BY DEF IInv, LocksExclude
  <2>2. pc[t] \in Holding => pickups'[req[t].pickup] = pickups[req[t].pickup]
    BY <1>3, <2>1 DEF Relies, RowLocked, HoldsRow
  <2>3. pc[t] = "createPickup.commit" => pickups'[req[t].pickup] = None
    BY <1>3, <2>1 DEF Relies
  <2>4. pc[t] = "complete.commit" =>
          payments'[req[t].payment] = None /\ ~Billed(req[t].pickup)'
    BY <1>6, <2>1 DEF Relies, Billed, Stored
  <2>5. QED
    BY <1>3, <1>4, <1>6, <2>2, <2>3, <2>4, OthersRely
<1>7. \A q \in sweepLocked : StaleWhere(pickups'[q], sweepNow)
  BY <1>3 DEF IInv, TypeOK, LocksExclude, RowLocked
<1>8. "ok" \in Answer
  BY DEF Answer
<1>9. QED
  BY <1>5, <1>6, <1>7, <1>8, ReplyKeeps

\* The guarded UPDATE matched no row: the pickup is read to say why.
LEMMA ExplainNextIInv ==
  ASSUME NEW s \in Slots, NEW l \in {"schedule.find", "cancel.find"}, IInv,
         req[s].pickup \in PickupIds, Proceed(s, l, req[s]), UNCHANGED <<tables, sweep>>
  PROVE  IInv'
<1>1. req[s] \in Request
  BY DEF IInv, TypeOK
<1>2. l \in Pc /\ Relies(l, req[s])
  BY DEF Pc, Relies
<1>3. \A t \in Slots : Apart(l, req[s], pc[t], req[t])
  BY DEF Apart
<1>4. QED
  BY <1>1, <1>2, <1>3, LocalProceed

LEMMA SchedulePickupIInv == ASSUME NEW s \in Slots, IInv, SchedulePickup(s) PROVE IInv'
<1> DEFINE p == req[s].pickup
<1>1. p \in PickupIds
  BY DEF IInv, LocksExclude, Relies, SchedulePickup
<1>2. CASE ScheduleWhere(pickups[p])
  BY <1>1, <1>2, StatusUpdateIInv DEF SchedulePickup, ScheduleWhere, PickupStatus
<1>3. CASE ~ScheduleWhere(pickups[p])
  BY <1>1, <1>3, ExplainNextIInv DEF SchedulePickup
<1>4. QED
  BY <1>2, <1>3

LEMMA CancelPickupIInv == ASSUME NEW s \in Slots, IInv, CancelPickup(s) PROVE IInv'
<1> DEFINE p == req[s].pickup
<1>1. p \in PickupIds
  BY DEF IInv, LocksExclude, Relies, CancelPickup
<1>2. CASE CancelWhere(pickups[p])
  BY <1>1, <1>2, StatusUpdateIInv DEF CancelPickup, CancelWhere, PickupStatus
<1>3. CASE ~CancelWhere(pickups[p])
  BY <1>1, <1>3, ExplainNextIInv DEF CancelPickup
<1>4. QED
  BY <1>2, <1>3

LEMMA CommitCompletionIInv == ASSUME NEW s \in Slots, IInv, CommitCompletion(s) PROVE IInv'
<1> DEFINE p == req[s].pickup
           y == req[s].payment
           row == req[s].row
<1>1. /\ Relies("complete.commit", req[s]) /\ req[s] \in Request
      /\ pickups \in [PickupIds -> Pickup \cup {None}]
      /\ payments \in [PaymentIds -> Payment \cup {None}]
  BY DEF IInv, TypeOK, TablesTypeOK, LocksExclude, CommitCompletion
<1>2. /\ p \in PickupIds /\ y \in PaymentIds /\ p \notin sweepLocked
      /\ CompleteWhere(pickups[p]) /\ row = WithStatus(pickups[p], "completed")
  BY <1>1 DEF Relies
<1>3. pickups[p] \in Pickup /\ row \in Pickup
  BY <1>1, <1>2, RowTypes DEF CompleteWhere, PickupStatus
<1>4. /\ row # None
      /\ row.household = pickups[p].household
      /\ row.type = pickups[p].type
  BY <1>2, <1>3, NoneIsNone DEF WithStatus, Pickup
<1>5. /\ \A q \in PickupIds : q # p => pickups'[q] = pickups[q]
      /\ pickups'[p] = row
      /\ \A z \in PaymentIds : z # y => payments'[z] = payments[z]
      /\ payments'[y] = NewPayment(row, p)
      /\ DOMAIN payments = PaymentIds /\ DOMAIN payments' = PaymentIds
  BY <1>1, <1>2 DEF CommitCompletion
<1>6. NewPayment(row, p) \in Payment
  BY <1>2, <1>3, RowTypes
<1>7. TablesTypeOK'
  BY <1>3, <1>6 DEF IInv, TypeOK, TablesTypeOK, CommitCompletion
<1>8. ASSUME NEW t \in Slots, t # s, pc'[t] = pc[t], req'[t] = req[t]
      PROVE  Relies(pc[t], req[t])'
  <2>1. Relies(pc[t], req[t]) /\ Apart("complete.commit", req[s], pc[t], req[t])
    BY <1>8 DEF IInv, LocksExclude, CommitCompletion
  <2>2. pc[t] \in Holding => pickups'[req[t].pickup] = pickups[req[t].pickup]
    BY <1>5, <2>1 DEF Relies, Apart
  <2>3. pc[t] = "createPickup.commit" => pickups'[req[t].pickup] = None
    BY <1>2, <1>5, <2>1 DEF Relies, CompleteWhere
  <2>4. pc[t] = "complete.commit" =>
          payments'[req[t].payment] = None /\ ~Billed(req[t].pickup)'
    <3> SUFFICES ASSUME pc[t] = "complete.commit"
                 PROVE  payments'[req[t].payment] = None /\ ~Billed(req[t].pickup)'
      OBVIOUS
    <3>1. /\ req[t].payment # y /\ req[t].pickup # p
          /\ req[t].payment \in PaymentIds
          /\ payments[req[t].payment] = None /\ ~Billed(req[t].pickup)
      BY <2>1 DEF Relies, Apart
    <3>2. payments'[y].waste = p
      BY <1>5 DEF NewPayment
    <3>3. QED
      BY <1>5, <1>8, <3>1, <3>2 DEF Billed, Stored
  <2>5. QED
    BY <1>4, <1>5, <1>8, <2>2, <2>3, <2>4, OthersRely DEF CommitCompletion
<1>9. \A q \in sweepLocked : StaleWhere(pickups'[q], sweepNow)
  BY <1>2, <1>5 DEF IInv, TypeOK, LocksExclude
<1>10. "ok" \in Answer
  BY DEF Answer
<1>11. QED
  BY <1>7, <1>8, <1>9, <1>10, ReplyKeeps DEF CommitCompletion

LEMMA InsertPaymentIInv == ASSUME NEW s \in Slots, IInv, InsertPayment(s) PROVE IInv'
<1> DEFINE p == req[s].pickup
           row == req[s].row
           err == PaymentInsertError(p, row)
<1>1. /\ Relies("createPayment.insert", req[s]) /\ req[s] \in Request
      /\ payments \in [PaymentIds -> Payment \cup {None}]
  BY DEF IInv, TypeOK, TablesTypeOK, LocksExclude, InsertPayment
<1>2. p \in PickupIds /\ row \in Pickup
  BY <1>1 DEF Relies, Request
<1>3. err \in Answer
  BY DEF PaymentInsertError, Answer
<1>4. \A q \in sweepLocked : StaleWhere(pickups'[q], sweepNow)
  BY DEF IInv, LocksExclude, InsertPayment
<1>5. CASE UNCHANGED payments
  <2>1. TablesTypeOK'
    BY <1>5 DEF IInv, TypeOK, TablesTypeOK, InsertPayment
  <2>2. ASSUME NEW t \in Slots, t # s, pc'[t] = pc[t], req'[t] = req[t]
        PROVE  Relies(pc[t], req[t])'
    BY <1>5, <2>2 DEF IInv, LocksExclude, Relies, CompleteWhere, Billed, Stored, InsertPayment
  <2>3. QED
    BY <1>3, <1>4, <2>1, <2>2, ReplyKeeps DEF InsertPayment
<1>6. ASSUME NEW y \in PaymentIds, FreshPayment(y),
             payments' = [payments EXCEPT ![y] = NewPayment(row, p)]
      PROVE  IInv'
  <2>1. NewPayment(row, p) \in Payment
    BY <1>2, RowTypes
  <2>2. TablesTypeOK'
    BY <1>6, <2>1 DEF IInv, TypeOK, TablesTypeOK, InsertPayment
  <2>3. ASSUME NEW t \in Slots, t # s, pc'[t] = pc[t], req'[t] = req[t]
        PROVE  Relies(pc[t], req[t])'
    <3>1. Relies(pc[t], req[t])
      BY DEF IInv, LocksExclude
    <3>2. /\ pc[t] \in Holding => pickups'[req[t].pickup] = pickups[req[t].pickup]
          /\ pc[t] = "createPickup.commit" => pickups'[req[t].pickup] = None
      BY <3>1 DEF Relies, InsertPayment
    <3>3. pc[t] = "complete.commit" =>
            payments'[req[t].payment] = None /\ ~Billed(req[t].pickup)'
      <4> SUFFICES ASSUME pc[t] = "complete.commit"
                   PROVE  payments'[req[t].payment] = None /\ ~Billed(req[t].pickup)'
        OBVIOUS
      <4>1. /\ req[t].payment \in PaymentIds
            /\ payments[req[t].payment] = None /\ ~Billed(req[t].pickup)
        BY <3>1 DEF Relies
      <4>2. req[t].payment # y /\ req[t].pickup # p
        BY <1>6 DEF FreshPayment, InsertPayment, BillUncommitted
      <4>3. payments'[y].waste = p /\ DOMAIN payments' = DOMAIN payments
        BY <1>1, <1>6 DEF NewPayment
      <4>4. \A z \in PaymentIds : z # y => payments'[z] = payments[z]
        BY <1>1, <1>6
      <4>5. QED
        BY <1>1, <2>3, <4>1, <4>2, <4>3, <4>4 DEF Billed, Stored
    <3>4. QED
      BY <2>3, <3>2, <3>3, OthersRely DEF InsertPayment
  <2>4. QED
    BY <1>3, <1>4, <2>2, <2>3, ReplyKeeps DEF InsertPayment
<1>7. QED
  BY <1>5, <1>6 DEF InsertPayment

LEMMA ConfirmPaymentIInv == ASSUME NEW s \in Slots, IInv, ConfirmPayment(s) PROVE IInv'
<1> DEFINE y == req[s].payment
<1>1. /\ Relies("confirm.update", req[s])
      /\ payments \in [PaymentIds -> Payment \cup {None}]
  BY DEF IInv, TypeOK, TablesTypeOK, LocksExclude, ConfirmPayment
<1>2. y \in PaymentIds /\ req[s].proof \in ProofKeys
  BY <1>1 DEF Relies
<1>3. PICK a \in Answer : Reply(s, a)
  BY DEF ConfirmPayment, Answer
<1>4. \A q \in sweepLocked : StaleWhere(pickups'[q], sweepNow)
  BY DEF IInv, LocksExclude, ConfirmPayment
<1>5. \/ UNCHANGED payments
      \/ /\ payments[y] \in Payment
         /\ payments' = [payments EXCEPT ![y] = Paid(payments[y], req[s].proof)]
  BY <1>1, <1>2 DEF ConfirmPayment, ConfirmWhere
<1>6. TablesTypeOK'
  BY <1>2, <1>5, RowTypes DEF IInv, TypeOK, TablesTypeOK, ConfirmPayment
<1>7. \A p : Billed(p)' => Billed(p)
  <2>1. CASE UNCHANGED payments
    BY <2>1 DEF Billed, Stored
  <2>2. CASE /\ payments[y] \in Payment
             /\ payments' = [payments EXCEPT ![y] = Paid(payments[y], req[s].proof)]
    <3>1. payments'[y].waste = payments[y].waste /\ payments[y] # None
      BY <1>1, <1>2, <2>2, NoneIsNone DEF Paid, Payment
    <3>2. \A z \in PaymentIds : z # y => payments'[z] = payments[z]
      BY <1>1, <2>2
    <3>3. QED
      BY <1>1, <1>2, <2>2, <3>1, <3>2 DEF Billed, Stored
  <2>3. QED
    BY <1>5, <2>1, <2>2
<1>8. ASSUME NEW t \in Slots, t # s, pc'[t] = pc[t], req'[t] = req[t]
      PROVE  Relies(pc[t], req[t])'
  <2>1. Relies(pc[t], req[t])
    BY DEF IInv, LocksExclude
  <2>2. /\ pc[t] \in Holding => pickups'[req[t].pickup] = pickups[req[t].pickup]
        /\ pc[t] = "createPickup.commit" => pickups'[req[t].pickup] = None
    BY <2>1 DEF Relies, ConfirmPayment
  <2>3. pc[t] = "complete.commit" => payments'[req[t].payment] = None
    BY <1>1, <1>5, <2>1, NoneIsNone DEF Relies
  <2>4. pc[t] = "complete.commit" => ~Billed(req[t].pickup)'
    <3>1. pc[t] = "complete.commit" => ~Billed(req[t].pickup)
      BY <2>1 DEF Relies
    <3>2. Billed(req[t].pickup)' => Billed(req[t].pickup)
      BY <1>7, <1>8 DEF Billed, Stored
    <3>3. QED
      BY <3>1, <3>2
  <2>5. QED
    BY <1>8, <2>2, <2>3, <2>4, OthersRely DEF ConfirmPayment
<1>9. QED
  BY <1>3, <1>4, <1>6, <1>8, ReplyKeeps DEF ConfirmPayment

\* An upload under a fresh key leaves the objects others have uploaded alone.
LEMMA UploadKeeps ==
  ASSUME NEW t \in Slots, NEW k \in ProofKeys, NEW y, IInv, FreshProof(k),
         pc'[t] = pc[t], req'[t] = req[t],
         UNCHANGED objects \/ objects' = [objects EXCEPT ![k] = y],
         UNCHANGED <<households, pickups, payments, clock, sweepLocked>>
  PROVE  Relies(pc[t], req[t])'
<1>1. Relies(pc[t], req[t]) /\ objects \in [ProofKeys -> PaymentIds \cup {None}]
  BY DEF IInv, TypeOK, TablesTypeOK, LocksExclude
<1>2. req[t].proof \in ProofKeys => objects'[req[t].proof] = objects[req[t].proof]
  BY <1>1 DEF FreshProof
<1>3. QED
  BY <1>1, <1>2 DEF Relies, CompleteWhere, Billed, Stored

LEMMA PutProofIInv == ASSUME NEW s \in Slots, IInv, PutProof(s) PROVE IInv'
<1>1. /\ Relies("confirm.put", req[s]) /\ req[s] \in Request
      /\ objects \in [ProofKeys -> PaymentIds \cup {None}]
      /\ pc \in [Slots -> Pc] /\ req \in [Slots -> Request]
  BY DEF IInv, TypeOK, TablesTypeOK, LocksExclude, PutProof
<1>2. PICK k \in ProofKeys :
        /\ FreshProof(k)
        /\ objects' = [objects EXCEPT ![k] = req[s].payment]
        /\ Proceed(s, "confirm.update", [req[s] EXCEPT !.proof = k])
  BY DEF PutProof
<1> DEFINE r == [req[s] EXCEPT !.proof = k]
<1>3. r \in Request /\ r.proof = k /\ r.payment = req[s].payment /\ r.payment \in PaymentIds
  BY <1>1 DEF Request, Relies
<1>4. TablesTypeOK'
  BY <1>2, <1>3 DEF IInv, TypeOK, TablesTypeOK, PutProof
<1>5. ASSUME NEW t \in Slots, t # s, pc'[t] = pc[t], req'[t] = req[t]
      PROVE  Relies(pc[t], req[t])'
  BY <1>2, <1>5, UploadKeeps DEF PutProof
<1>6. \A q \in sweepLocked : StaleWhere(pickups'[q], sweepNow)
  BY DEF IInv, LocksExclude, PutProof
<1>7. CASE Abandoned(s)
  <2>1. "none" \in Answer /\ Reply(s, "none")
    BY <1>2, <1>7 DEF Answer, Proceed
  <2>2. QED
    BY <1>4, <1>5, <1>6, <2>1, ReplyKeeps DEF PutProof
<1>8. CASE ~Abandoned(s)
  <2>1. pc' = [pc EXCEPT ![s] = "confirm.update"] /\ req' = [req EXCEPT ![s] = r]
    BY <1>2, <1>8 DEF Proceed
  <2>2. TypeOK'
    <3>1. "confirm.update" \in Pc
      BY DEF Pc, InFlight
    <3>2. QED
      BY <1>2, <1>3, <1>4, <3>1, ProceedTypes DEF IInv, TypeOK, PutProof
  <2>3. Relies(pc[s], req[s])'
    <3>1. pc'[s] = "confirm.update" /\ req'[s] = r
      BY <1>1, <2>1
    <3>2. objects'[k] = r.payment
      BY <1>1, <1>2, <1>3
    <3>3. QED
      BY <1>3, <3>1, <3>2 DEF Relies
  <2>4. \A t \in Slots : Relies(pc[t], req[t])'
    BY <1>1, <1>5, <2>1, <2>3
  <2>5. \A t \in Slots : Apart("confirm.update", r, pc[t], req[t])
    BY DEF Apart
  <2>6. (\A p \in sweepLocked : StaleWhere(pickups[p], sweepNow))' /\ sweepNow' <= clock'
    BY DEF IInv, LocksExclude, StaleWhere, PutProof
  <2>7. LocksExclude'
    BY <2>1, <2>4, <2>5, <2>6, SlotMoves DEF IInv
  <2>8. QED
    BY <2>2, <2>7 DEF IInv
<1>9. QED
  BY <1>7, <1>8

LEMMA PutFailsIInv == ASSUME NEW s \in Slots, IInv, PutFails(s) PROVE IInv'
<1>1. req[s].payment \in PaymentIds
  BY DEF IInv, LocksExclude, Relies, PutFails
<1>2. \A q \in sweepLocked : StaleWhere(pickups'[q], sweepNow)
  BY DEF IInv, LocksExclude, PutFails
<1>3. "STORAGE_UNAVAILABLE" \in Answer
  BY DEF Answer
<1>4. CASE UNCHANGED objects
  BY <1>3, <1>4, LocalReply DEF PutFails
<1>5. ASSUME NEW k \in ProofKeys, FreshProof(k),
             objects' = [objects EXCEPT ![k] = req[s].payment]
      PROVE  IInv'
  <2>1. TablesTypeOK'
    BY <1>1, <1>5 DEF IInv, TypeOK, TablesTypeOK, PutFails
  <2>2. ASSUME NEW t \in Slots, t # s, pc'[t] = pc[t], req'[t] = req[t]
        PROVE  Relies(pc[t], req[t])'
    BY <1>5, <2>2, UploadKeeps DEF PutFails
  <2>3. QED
    BY <1>2, <1>3, <2>1, <2>2, ReplyKeeps DEF PutFails
<1>6. QED
  BY <1>4, <1>5 DEF PutFails

LEMMA ServeIInv == ASSUME NEW s \in Slots, IInv, Serve(s) PROVE IInv'
  BY InsertHouseholdIInv, DeleteHouseholdIInv, CheckIInv, InsertPickupIInv,
     CommitPickupIInv, SchedulePickupIInv, ExplainIInv, CompletePickupIInv,
     InsertCompletionPaymentIInv, CommitCompletionIInv, CancelPickupIInv,
     FindPickupToBillIInv, InsertPaymentIInv, FindPaymentToConfirmIInv,
     PutProofIInv, PutFailsIInv, ConfirmPaymentIInv
  DEF Serve

-----------------------------------------------------------------------------
(* The worker and the clock.                                               *)

\* A step of the worker leaves the slots alone; it has to respect the rows
\* and ids they have reserved, and to lock only stale rows nobody holds.
LEMMA WorkerKeeps ==
  ASSUME IInv, UNCHANGED <<slots, households, payments, objects>>,
         clock' \in Nat, clock <= clock',
         pickups' \in [PickupIds -> Pickup \cup {None}],
         sweepPc' \in {"idle", "scan", "rows"}, sweepNow' \in Nat,
         sweepTodo' \in SUBSET PickupIds, sweepLocked' \in SUBSET PickupIds,
         sweepNow' <= clock',
         \A p \in PickupIds : pickups[p] = None => pickups'[p] = None,
         \A p \in PickupIds : pickups[p] # None =>
           /\ pickups'[p] # None
           /\ pickups'[p].household = pickups[p].household
           /\ pickups'[p].type = pickups[p].type,
         \A t \in Slots, p \in PickupIds : HoldsRow(t, p) =>
           pickups'[p] = pickups[p] /\ p \notin sweepLocked',
         \A p \in sweepLocked' : StaleWhere(pickups'[p], sweepNow')
  PROVE  IInv'
<1>1. TypeOK'
  BY DEF IInv, TypeOK, TablesTypeOK
<1>2. ASSUME NEW t \in Slots
      PROVE  Relies(pc[t], req[t])'
  <2>1. Relies(pc[t], req[t])
    BY DEF IInv, LocksExclude
  <2>2. req[t] \in Request /\ clock \in Nat
    BY DEF IInv, TypeOK, TablesTypeOK
  <2>3. pc[t] \in OnPickup => req[t].pickup \in PickupIds
    BY <2>1 DEF Relies
  <2>4. pc[t] \in Holding =>
          /\ pickups'[req[t].pickup] = pickups[req[t].pickup]
          /\ req[t].pickup \notin sweepLocked'
    BY <2>3 DEF HoldsRow
  <2>5. pc[t] \in Creating => req[t].row.createdAt <= clock'
    <3> SUFFICES ASSUME pc[t] \in Creating PROVE req[t].row.createdAt <= clock'
      OBVIOUS
    <3>1. req[t].row # None /\ req[t].row.createdAt <= clock
      BY <2>1 DEF Relies
    <3>2. req[t].row.createdAt \in Nat
      BY <2>2, <3>1 DEF Request, Pickup
    <3>3. QED
      BY <2>2, <3>1, <3>2
  <2>6. pc'[t] = pc[t] /\ req'[t] = req[t]
    OBVIOUS
  <2>7. pc[t] = "complete.commit" => ~Billed(req[t].pickup)'
    BY <2>1, <2>6 DEF Relies, Billed, Stored
  <2>8. QED
    BY <2>1, <2>3, <2>4, <2>5, <2>6, <2>7 DEF Relies, CompleteWhere
<1>3. (\A s, t \in Slots : s # t => Apart(pc[s], req[s], pc[t], req[t]))'
  BY DEF IInv, LocksExclude, Apart
<1>4. (\A p \in sweepLocked : StaleWhere(pickups[p], sweepNow))'
  BY DEF StaleWhere
<1>5. LocksExclude'
  BY <1>2, <1>3, <1>4 DEF LocksExclude
<1>6. QED
  BY <1>1, <1>5 DEF IInv

LEMMA SweepQuietIInv ==
  ASSUME IInv, SweepTick \/ SweepScan \/ SweepFail PROVE IInv'
<1>1. /\ clock \in Nat /\ pickups \in [PickupIds -> Pickup \cup {None}]
      /\ sweepNow \in Nat /\ sweepNow <= clock
      /\ sweepTodo \in SUBSET PickupIds /\ sweepLocked \in SUBSET PickupIds
      /\ sweepPc \in {"idle", "scan", "rows"}
  BY DEF IInv, TypeOK, TablesTypeOK, LocksExclude
<1>2. \A t \in Slots, p \in PickupIds : HoldsRow(t, p) => p \notin sweepLocked
  BY DEF IInv, LocksExclude, Relies, HoldsRow
<1>3. \A p \in sweepLocked : StaleWhere(pickups[p], sweepNow)
  BY DEF IInv, LocksExclude
<1>4. CASE SweepTick
  <2>1. \A p \in sweepLocked : StaleWhere(pickups[p], clock)
    <3> SUFFICES ASSUME NEW p \in sweepLocked PROVE StaleWhere(pickups[p], clock)
      OBVIOUS
    <3>1. StaleWhere(pickups[p], sweepNow) /\ pickups[p] \in Pickup
      BY <1>1, <1>3 DEF StaleWhere
    <3>2. pickups[p].createdAt \in Nat
      BY <3>1 DEF Pickup
    <3>3. QED
      BY <1>1, <3>1, <3>2, OrganicTTLAssumption DEF StaleWhere
  <2>2. QED
    BY <1>1, <1>2, <1>4, <2>1, WorkerKeeps DEF SweepTick
<1>5. CASE SweepScan
  BY <1>1, <1>2, <1>3, <1>5, WorkerKeeps DEF SweepScan
<1>6. CASE SweepFail
  BY <1>1, <1>6, WorkerKeeps DEF SweepFail, SweepEnds
<1>7. QED
  BY <1>4, <1>5, <1>6

LEMMA SweepRowIInv ==
  ASSUME NEW p \in PickupIds, IInv, SweepRow(p) PROVE IInv'
<1>1. /\ clock \in Nat /\ pickups \in [PickupIds -> Pickup \cup {None}]
      /\ sweepNow \in Nat /\ sweepNow <= clock
      /\ sweepTodo \in SUBSET PickupIds /\ sweepLocked \in SUBSET PickupIds
      /\ sweepPc \in {"idle", "scan", "rows"}
  BY DEF IInv, TypeOK, TablesTypeOK, LocksExclude
<1>2. \A t \in Slots, q \in PickupIds : HoldsRow(t, q) => q \notin sweepLocked /\ q # p
  BY DEF IInv, LocksExclude, Relies, HoldsRow, SweepRow, RowLocked
<1>3. \A q \in sweepLocked' : StaleWhere(pickups[q], sweepNow)
  BY DEF IInv, LocksExclude, SweepRow
<1>4. sweepLocked' \subseteq sweepLocked \cup {p} /\ sweepTodo' \subseteq sweepTodo
  BY DEF SweepRow
<1>5. QED
  BY <1>1, <1>2, <1>3, <1>4, WorkerKeeps DEF SweepRow

LEMMA SweepCommitIInv == ASSUME IInv, SweepCommit PROVE IInv'
<1>1. /\ clock \in Nat /\ pickups \in [PickupIds -> Pickup \cup {None}]
      /\ sweepLocked \in SUBSET PickupIds
  BY DEF IInv, TypeOK, TablesTypeOK
<1>2. \A t \in Slots, p \in PickupIds : HoldsRow(t, p) => p \notin sweepLocked
  BY DEF IInv, LocksExclude, Relies, HoldsRow
<1>3. \A p \in sweepLocked : pickups[p] \in Pickup
  BY <1>1 DEF IInv, LocksExclude, StaleWhere
<1>4. ASSUME NEW p \in PickupIds
      PROVE  /\ p \in sweepLocked => pickups'[p] = WithStatus(pickups[p], "canceled")
             /\ p \notin sweepLocked => pickups'[p] = pickups[p]
  BY DEF SweepCommit
<1>5. ASSUME NEW p \in sweepLocked
      PROVE  /\ pickups'[p] \in Pickup /\ pickups'[p] # None /\ pickups[p] # None
             /\ pickups'[p].household = pickups[p].household
             /\ pickups'[p].type = pickups[p].type
  <2>1. pickups'[p] = WithStatus(pickups[p], "canceled")
    BY <1>1, <1>4
  <2>2. WithStatus(pickups[p], "canceled") \in Pickup
    BY <1>3, RowTypes DEF PickupStatus
  <2>3. QED
    BY <1>3, <2>1, <2>2, NoneIsNone DEF WithStatus, Pickup
<1>6. pickups' \in [PickupIds -> Pickup \cup {None}]
  <2>1. \A p \in PickupIds : pickups'[p] \in Pickup \cup {None}
    BY <1>1, <1>4, <1>5
  <2>2. QED
    BY <2>1 DEF SweepCommit
<1>7. QED
  BY <1>1, <1>2, <1>4, <1>5, <1>6, WorkerKeeps DEF SweepCommit, SweepEnds

LEMMA TickIInv == ASSUME IInv, Tick PROVE IInv'
<1>1. /\ clock \in Nat /\ pickups \in [PickupIds -> Pickup \cup {None}]
      /\ sweepNow \in Nat /\ sweepNow <= clock
      /\ sweepTodo \in SUBSET PickupIds /\ sweepLocked \in SUBSET PickupIds
      /\ sweepPc \in {"idle", "scan", "rows"}
  BY DEF IInv, TypeOK, TablesTypeOK, LocksExclude
<1>2. \A t \in Slots, p \in PickupIds : HoldsRow(t, p) => p \notin sweepLocked
  BY DEF IInv, LocksExclude, Relies, HoldsRow
<1>3. \A p \in sweepLocked : StaleWhere(pickups[p], sweepNow)
  BY DEF IInv, LocksExclude
<1>4. clock' \in Nat /\ clock <= clock' /\ sweepNow <= clock'
  BY <1>1 DEF Tick
<1>5. QED
  BY <1>1, <1>2, <1>3, <1>4, WorkerKeeps DEF Tick

LEMMA NextIInv == IInv /\ [Next]_vars => IInv'
<1> SUFFICES ASSUME IInv, [Next]_vars PROVE IInv'
  OBVIOUS
<1>1. ASSUME NEW s \in Slots, Start(s) \/ Serve(s) \/ Fail(s) PROVE IInv'
  BY <1>1, StartIInv, ServeIInv, AbandonIInv, LateDropIInv DEF Fail
<1>2. CASE Worker
  BY <1>2, SweepQuietIInv, SweepRowIInv, SweepCommitIInv DEF Worker
<1>3. CASE Tick
  BY <1>3, TickIInv
<1>4. CASE UNCHANGED vars
  BY <1>4 DEF vars, IInv, TypeOK, TablesTypeOK, LocksExclude, Relies, Apart,
              CompleteWhere, StaleWhere, Billed, Stored
<1>5. QED
  BY <1>1, <1>2, <1>3, <1>4 DEF Next

\* Every variable keeps its type, in every instance of the service.
THEOREM TypeCorrect == Spec => []TypeOK
<1>1. Spec => []IInv
  BY InitIInv, NextIInv, PTL DEF Spec
<1>2. IInv => TypeOK
  BY DEF IInv
<1>3. QED
  BY <1>1, <1>2, PTL

\* The locking discipline: a row updated in an open transaction is scheduled
\* and held by that transaction alone, reserved ids stay unused, what was read
\* outside a transaction still holds when it is relied on.
THEOREM LocksAlwaysExclude == Spec => []LocksExclude
<1>1. Spec => []IInv
  BY InitIInv, NextIInv, PTL DEF Spec
<1>2. IInv => LocksExclude
  BY DEF IInv
<1>3. QED
  BY <1>1, <1>2, PTL

-----------------------------------------------------------------------------
(* Second part: every step is a step of the ledger, or changes no table.   *)

USE DEF LedgerSpec!tables

\* Operations of the ledger named by their effect in the service.
LEMMA LedgerSteps ==
  /\ \A h \in Households :
       LedgerSpec!CreateHousehold(h) \/ LedgerSpec!DeleteHousehold(h) => LedgerSpec!Next
  /\ \A p \in PickupIds, h \in Households, form \in PickupForms, now \in 0 .. clock :
       LedgerSpec!CreatePickup(p, h, form, now) => LedgerSpec!Next
  /\ \A p \in PickupIds : LedgerSpec!Schedule(p) \/ LedgerSpec!Cancel(p) => LedgerSpec!Next
  /\ \A P \in SUBSET PickupIds : LedgerSpec!Sweep(P) => LedgerSpec!Next
  /\ \A p \in PickupIds, y \in PaymentIds :
       LedgerSpec!Complete(p, y) \/ LedgerSpec!CreatePayment(p, y) => LedgerSpec!Next
  /\ \A y \in PaymentIds, k \in ProofKeys :
       LedgerSpec!StoreProof(y, k) \/ LedgerSpec!Confirm(y, k) => LedgerSpec!Next
  /\ LedgerSpec!Tick => LedgerSpec!Next
  BY DEF LedgerSpec!Next

LEMMA HouseholdSteps ==
  ASSUME NEW s \in Slots, IInv, InsertHousehold(s) \/ DeleteHousehold(s)
  PROVE  [LedgerSpec!Next]_tables
<1>1. CASE InsertHousehold(s)
  <2>1. PICK h \in Households : households' = households \cup {h}
    BY <1>1 DEF InsertHousehold
  <2>2. LedgerSpec!CreateHousehold(h)
    BY <1>1, <2>1 DEF LedgerSpec!CreateHousehold, InsertHousehold
  <2>3. QED
    BY <2>2, LedgerSteps
<1>2. CASE DeleteHousehold(s)
  <2> DEFINE h == req[s].household
  <2>1. h \in Households
    BY <1>2 DEF IInv, LocksExclude, Relies, DeleteHousehold
  <2>2. CASE HasDependents(h)
    BY <1>2, <2>2 DEF DeleteHousehold
  <2>3. CASE ~HasDependents(h)
    <3>1. LedgerSpec!DeleteHousehold(h)
      BY <1>2, <2>3 DEF LedgerSpec!DeleteHousehold, DeleteHousehold, HasDependents,
                        Stored, LedgerSpec!Stored
    <3>2. QED
      BY <2>1, <3>1, LedgerSteps
  <2>4. QED
    BY <2>2, <2>3
<1>3. QED
  BY <1>1, <1>2

LEMMA CommitPickupStep ==
  ASSUME NEW s \in Slots, IInv, CommitPickup(s) PROVE [LedgerSpec!Next]_tables
<1> DEFINE r == req[s]
<1>1. Relies("createPickup.commit", r) /\ r \in Request /\ clock \in Nat
  BY DEF IInv, TypeOK, TablesTypeOK, LocksExclude, CommitPickup
<1>2. /\ r.household \in Households /\ r.household \in households
      /\ r.pickup \in PickupIds /\ pickups[r.pickup] = None
      /\ r.row # None /\ r.row.createdAt <= clock
  BY <1>1 DEF Relies
<1>3. PICK form \in PickupForms : r.row = NewPickup(r.household, form, r.row.createdAt)
  BY <1>1 DEF Relies
<1>4. r.row.createdAt \in 0 .. clock
  <2>1. r.row \in Pickup
    BY <1>1, <1>2 DEF Request
  <2>2. r.row.createdAt \in Nat
    BY <2>1 DEF Pickup
  <2>3. QED
    BY <1>1, <1>2, <2>2
<1>5. LedgerSpec!CreatePickup(r.pickup, r.household, form, r.row.createdAt)
  BY <1>2, <1>3, SameOperators DEF LedgerSpec!CreatePickup, CommitPickup
<1>6. QED
  BY <1>2, <1>4, <1>5, LedgerSteps

LEMMA SchedulePickupStep ==
  ASSUME NEW s \in Slots, IInv, SchedulePickup(s) PROVE [LedgerSpec!Next]_tables
<1> DEFINE p == req[s].pickup
<1>1. p \in PickupIds
  BY DEF IInv, LocksExclude, Relies, SchedulePickup
<1>2. CASE ScheduleWhere(pickups[p])
  <2>1. pickups[p] # None /\ LedgerSpec!CanSchedule(pickups[p]) = "ok"
    BY <1>2 DEF ScheduleWhere, LedgerSpec!CanSchedule
  <2>2. pickups' = [pickups EXCEPT ![p] = LedgerSpec!WithStatus(@, "scheduled")]
    BY <1>2, SameOperators DEF SchedulePickup
  <2>3. LedgerSpec!Schedule(p)
    BY <2>1, <2>2 DEF LedgerSpec!Schedule, SchedulePickup
  <2>4. QED
    BY <1>1, <2>3, LedgerSteps
<1>3. CASE ~ScheduleWhere(pickups[p])
  BY <1>3 DEF SchedulePickup
<1>4. QED
  BY <1>2, <1>3

LEMMA CancelPickupStep ==
  ASSUME NEW s \in Slots, IInv, CancelPickup(s) PROVE [LedgerSpec!Next]_tables
<1> DEFINE p == req[s].pickup
<1>1. p \in PickupIds
  BY DEF IInv, LocksExclude, Relies, CancelPickup
<1>2. CASE CancelWhere(pickups[p])
  <2>1. pickups' = [pickups EXCEPT ![p] = LedgerSpec!WithStatus(@, "canceled")]
    BY <1>2, SameOperators DEF CancelPickup
  <2>2. LedgerSpec!Cancel(p)
    BY <1>2, <2>1 DEF LedgerSpec!Cancel, LedgerSpec!Open, CancelPickup, CancelWhere
  <2>3. QED
    BY <1>1, <2>2, LedgerSteps
<1>3. CASE ~CancelWhere(pickups[p])
  BY <1>3 DEF CancelPickup
<1>4. QED
  BY <1>2, <1>3

\* Complete commits on a row that is still as its UPDATE found it.
LEMMA CommitCompletionStep ==
  ASSUME NEW s \in Slots, IInv, CommitCompletion(s) PROVE [LedgerSpec!Next]_tables
<1> DEFINE p == req[s].pickup
           y == req[s].payment
<1>1. Relies("complete.commit", req[s])
  BY DEF IInv, LocksExclude, CommitCompletion
<1>2. /\ p \in PickupIds /\ y \in PaymentIds
      /\ pickups[p] # None /\ pickups[p].status = "scheduled"
      /\ req[s].row = WithStatus(pickups[p], "completed")
      /\ payments[y] = None /\ ~Billed(p)
  BY <1>1 DEF Relies, CompleteWhere
<1>3. pickups[p] \in Pickup
  BY <1>2 DEF IInv, TypeOK, TablesTypeOK
<1>4. NewPayment(req[s].row, p) = LedgerSpec!NewPayment(pickups[p], p)
  <2>1. /\ req[s].row.household = pickups[p].household
        /\ req[s].row.type = pickups[p].type
    BY <1>2, <1>3 DEF WithStatus, Pickup
  <2>2. NewPayment(req[s].row, p) = NewPayment(pickups[p], p)
    BY <2>1 DEF NewPayment
  <2>3. QED
    BY <2>2, SameOperators
<1>5. \A z \in LedgerSpec!Stored(payments) : payments[z].waste # p
  BY <1>2 DEF Billed, Stored, LedgerSpec!Stored
<1>6. pickups' = [pickups EXCEPT ![p] = LedgerSpec!WithStatus(@, "completed")]
  BY <1>2, SameOperators DEF CommitCompletion
<1>7. LedgerSpec!Complete(p, y)
  BY <1>2, <1>4, <1>5, <1>6 DEF LedgerSpec!Complete, CommitCompletion
<1>8. QED
  BY <1>2, <1>7, LedgerSteps

\* POST /payments inserts what the pickup read before still says.
LEMMA InsertPaymentStep ==
  ASSUME NEW s \in Slots, IInv, InsertPayment(s) PROVE [LedgerSpec!Next]_tables
<1> DEFINE p == req[s].pickup
           row == req[s].row
<1>1. Relies("createPayment.insert", req[s])
  BY DEF IInv, LocksExclude, InsertPayment
<1>2. /\ p \in PickupIds /\ pickups[p] # None
      /\ row.household = pickups[p].household /\ row.type = pickups[p].type
  BY <1>1 DEF Relies
<1>3. CASE PaymentInsertError(p, row) # "ok"
  BY <1>3 DEF InsertPayment
<1>4. CASE PaymentInsertError(p, row) = "ok"
  <2>1. PICK y \in PaymentIds :
          FreshPayment(y) /\ payments' = [payments EXCEPT ![y] = NewPayment(row, p)]
    BY <1>4 DEF InsertPayment
  <2>2. ~Billed(p)
    BY <1>4 DEF PaymentInsertError
  <2>3. \A z \in LedgerSpec!Stored(payments) : payments[z].waste # p
    BY <2>2 DEF Billed, Stored, LedgerSpec!Stored
  <2>4. NewPayment(row, p) = LedgerSpec!NewPayment(pickups[p], p)
    <3>1. NewPayment(row, p) = NewPayment(pickups[p], p)
      BY <1>2 DEF NewPayment
    <3>2. QED
      BY <3>1, SameOperators
  <2>5. LedgerSpec!CreatePayment(p, y)
    BY <1>2, <2>1, <2>3, <2>4 DEF LedgerSpec!CreatePayment, InsertPayment, FreshPayment
  <2>6. QED
    BY <1>2, <2>5, LedgerSteps
<1>5. QED
  BY <1>3, <1>4

\* An upload, reported as failed or not, stores a fresh object or nothing.
LEMMA ProofSteps ==
  ASSUME NEW s \in Slots, IInv, PutProof(s) \/ PutFails(s)
  PROVE  [LedgerSpec!Next]_tables
<1> DEFINE y == req[s].payment
<1>1. Relies("confirm.put", req[s])
  BY DEF IInv, LocksExclude, PutProof, PutFails
<1>2. y \in PaymentIds
  BY <1>1 DEF Relies
<1>3. ASSUME NEW k \in ProofKeys, FreshProof(k), objects' = [objects EXCEPT ![k] = y],
             UNCHANGED <<households, pickups, payments, clock>>
      PROVE  LedgerSpec!Next
  <2>1. LedgerSpec!StoreProof(y, k)
    BY <1>3 DEF LedgerSpec!StoreProof, FreshProof
  <2>2. QED
    BY <1>2, <2>1, LedgerSteps
<1>4. CASE PutProof(s)
  BY <1>3, <1>4 DEF PutProof
<1>5. CASE PutFails(s)
  BY <1>3, <1>5 DEF PutFails
<1>6. QED
  BY <1>4, <1>5

\* The confirmation names the proof this request uploaded for this payment.
LEMMA ConfirmPaymentStep ==
  ASSUME NEW s \in Slots, IInv, ConfirmPayment(s) PROVE [LedgerSpec!Next]_tables
<1> DEFINE y == req[s].payment
           k == req[s].proof
<1>1. Relies("confirm.update", req[s])
  BY DEF IInv, LocksExclude, ConfirmPayment
<1>2. y \in PaymentIds /\ k \in ProofKeys /\ objects[k] = y
  BY <1>1 DEF Relies
<1>3. CASE ConfirmWhere(payments[y])
  <2>1. payments' = [payments EXCEPT ![y] = LedgerSpec!Paid(@, k)]
    BY <1>3, SameOperators DEF ConfirmPayment
  <2>2. LedgerSpec!Confirm(y, k)
    BY <1>2, <1>3, <2>1 DEF LedgerSpec!Confirm, ConfirmPayment, ConfirmWhere
  <2>3. QED
    BY <1>2, <2>2, LedgerSteps
<1>4. CASE ~ConfirmWhere(payments[y])
  BY <1>4 DEF ConfirmPayment
<1>5. QED
  BY <1>3, <1>4

\* The sweep commits rows that are still stale, at a time not after now.
LEMMA SweepCommitStep ==
  ASSUME IInv, SweepCommit PROVE [LedgerSpec!Next]_tables
<1>1. /\ sweepLocked \in SUBSET PickupIds
      /\ \A p \in sweepLocked : StaleWhere(pickups[p], sweepNow)
      /\ sweepNow <= clock /\ sweepNow \in Nat /\ clock \in Nat
  BY DEF IInv, TypeOK, TablesTypeOK, LocksExclude
<1>2. ASSUME NEW p \in sweepLocked
      PROVE  /\ LedgerSpec!Open(p) /\ pickups[p].type = "organic"
             /\ clock > pickups[p].createdAt + OrganicTTL
  <2>1. pickups[p] # None /\ p \in PickupIds
    BY <1>1 DEF StaleWhere
  <2>2. pickups[p] \in Pickup
    BY <2>1 DEF IInv, TypeOK, TablesTypeOK
  <2>3. pickups[p].createdAt \in Nat /\ OrganicTTL \in Int
    BY <2>2, OrganicTTLAssumption DEF Pickup
  <2>4. /\ pickups[p].type = "organic"
        /\ pickups[p].status \in {"pending", "scheduled"}
        /\ pickups[p].createdAt + OrganicTTL < sweepNow
    BY <1>1 DEF StaleWhere
  <2>5. clock > pickups[p].createdAt + OrganicTTL
    BY <1>1, <2>3, <2>4
  <2>6. QED
    BY <2>1, <2>4, <2>5 DEF LedgerSpec!Open
<1>3. pickups' = [p \in PickupIds |->
                    IF p \in sweepLocked THEN LedgerSpec!WithStatus(pickups[p], "canceled")
                    ELSE pickups[p]]
  BY SameOperators DEF SweepCommit
<1>4. LedgerSpec!Sweep(sweepLocked)
  BY <1>2, <1>3 DEF LedgerSpec!Sweep, SweepCommit
<1>5. QED
  BY <1>1, <1>4, LedgerSteps

-----------------------------------------------------------------------------
(* Every step, and the specification.                                      *)

LEMMA StepRefines == IInv /\ [Next]_vars => [LedgerSpec!Next]_tables
<1> SUFFICES ASSUME IInv, [Next]_vars PROVE [LedgerSpec!Next]_tables
  OBVIOUS
<1>1. CASE UNCHANGED vars
  BY <1>1 DEF vars
<1>2. ASSUME NEW s \in Slots, Start(s) PROVE UNCHANGED tables
  BY <1>2 DEF Start, StartCreateHousehold, StartDeleteHousehold, StartCreatePickup,
              StartOnPickup, StartCreatePayment, StartConfirm, Begin
<1>3. ASSUME NEW s \in Slots, Serve(s) PROVE [LedgerSpec!Next]_tables
  <2>1. CASE \/ CheckPendingPayment(s) \/ InsertPickup(s) \/ ExplainSchedule(s)
             \/ CompletePickup(s) \/ ExplainComplete(s) \/ InsertCompletionPayment(s)
             \/ ExplainCancel(s) \/ FindPickupToBill(s) \/ FindPaymentToConfirm(s)
    BY <2>1 DEF CheckPendingPayment, InsertPickup, ExplainSchedule, CompletePickup,
                ExplainComplete, InsertCompletionPayment, ExplainCancel,
                FindPickupToBill, FindPaymentToConfirm
  <2>2. CASE \/ InsertHousehold(s) \/ DeleteHousehold(s) \/ CommitPickup(s)
             \/ SchedulePickup(s) \/ CommitCompletion(s) \/ CancelPickup(s)
             \/ InsertPayment(s) \/ PutProof(s) \/ PutFails(s) \/ ConfirmPayment(s)
    BY <2>2, HouseholdSteps, CommitPickupStep, SchedulePickupStep, CommitCompletionStep,
       CancelPickupStep, InsertPaymentStep, ProofSteps, ConfirmPaymentStep
  <2>3. QED
    BY <1>3, <2>1, <2>2 DEF Serve
<1>4. ASSUME NEW s \in Slots, Fail(s) PROVE UNCHANGED tables
  BY <1>4 DEF Fail, Abandon, LateDrop
<1>5. CASE Worker
  <2>1. CASE SweepTick \/ SweepScan \/ (\E p \in PickupIds : SweepRow(p)) \/ SweepFail
    BY <2>1 DEF SweepTick, SweepScan, SweepRow, SweepFail
  <2>2. CASE SweepCommit
    BY <2>2, SweepCommitStep
  <2>3. QED
    BY <1>5, <2>1, <2>2 DEF Worker
<1>6. CASE Tick
  <2>1. LedgerSpec!Tick
    BY <1>6 DEF Tick, LedgerSpec!Tick
  <2>2. QED
    BY <2>1, LedgerSteps
<1>7. QED
  BY <1>1, <1>2, <1>3, <1>4, <1>5, <1>6 DEF Next

\* The concurrent service implements the atomic ledger, for any number of
\* requests at once: what lies between the statements of internal/core/service
\* never shows in the data.
THEOREM Refines == Spec => ImplementsLedger
<1>1. Init => LedgerSpec!Init
  BY DEF Init, TablesInit, LedgerSpec!Init, LedgerSpec!TablesInit
<1>2. QED
  BY <1>1, InitIInv, NextIInv, StepRefines, PTL DEF Spec, ImplementsLedger, LedgerSpec!Spec

-----------------------------------------------------------------------------
(* The integrity of the data.                                              *)

\* The invariant the theorems below follow from.
Sound == IInv /\ Integrity

LEMMA NextSound == Sound /\ [Next]_vars => Sound'
<1> SUFFICES ASSUME Sound, [Next]_vars PROVE Sound'
  OBVIOUS
<1>1. IInv'
  BY NextIInv DEF Sound
<1>2. TablesTypeOK /\ TablesTypeOK'
  BY <1>1 DEF Sound, IInv, TypeOK
<1>3. [LedgerSpec!Next]_tables
  BY StepRefines DEF Sound
<1>4. QED
  BY <1>1, <1>2, <1>3, LedgerKeepsIntegrity DEF Sound

LEMMA AlwaysSound == Spec => []Sound
<1>1. Init => Sound
  BY InitIInv, InitIntegrity DEF Sound, Init
<1>2. QED
  BY <1>1, NextSound, PTL DEF Spec

\* No reference dangles and every bill agrees with its pickup, although
\* pickup, household and payment are read and written by separate statements.
THEOREM BillsMatchPickups == Spec => []BillMatchesPickup
<1>1. Sound => BillMatchesPickup
  BY DEF Sound, Integrity
<1>2. QED
  BY <1>1, AlwaysSound, PTL

\* A completed pickup is billed, and none is billed twice, whether the bill
\* comes from Complete, from POST /payments or from both at once.
THEOREM CompletedAreBilledOnce == Spec => []CompletedIsBilledOnce
<1>1. Sound => CompletedIsBilledOnce
  BY DEF Sound, Integrity
<1>2. QED
  BY <1>1, AlwaysSound, PTL

\* A payment is paid exactly when it points at a proof uploaded for it, however
\* confirmations interleave and wherever they are cut off.
THEOREM PaidHaveProof == Spec => []PaidHasProof
<1>1. Sound => PaidHasProof
  BY DEF Sound, Integrity
<1>2. QED
  BY <1>1, AlwaysSound, PTL

\* Unchecked electronic waste is never scheduled or completed.
THEOREM UnsafeNeverScheduled == Spec => []UnsafeStaysUnscheduled
<1>1. Sound => UnsafeStaysUnscheduled
  BY DEF Sound, Integrity
<1>2. QED
  BY <1>1, AlwaysSound, PTL

LEMMA SoundSteps ==
  Sound /\ [Next]_vars => [NothingFinalChanges]_vars /\ [BilledNeverCompletes]_vars
<1> SUFFICES ASSUME Sound, [Next]_vars PROVE NothingFinalChanges /\ BilledNeverCompletes
  OBVIOUS
<1>1. TablesTypeOK /\ [LedgerSpec!Next]_tables
  BY StepRefines DEF Sound, IInv, TypeOK
<1>2. QED
  BY <1>1, LedgerKeepsFinalData, LedgerNeverCompletesBilled

\* Completed and canceled pickups, paid payments and stored proofs never change,
\* although every transition is a single guarded UPDATE and nothing locks a row
\* between two statements.
THEOREM FinalDataKept == Spec => StepsKeepFinalData
  BY AlwaysSound, SoundSteps, PTL DEF Spec, StepsKeepFinalData

\* A pickup billed by POST /payments before its completion never completes.
THEOREM BilledNeverComplete == Spec => StepsNeverCompleteBilled
  BY AlwaysSound, SoundSteps, PTL DEF Spec, StepsNeverCompleteBilled

-----------------------------------------------------------------------------
(* A payment insert never meets a missing pickup or household.             *)

LEMMA ReplyNoError ==
  ASSUME NEW s \in Slots, NEW a, TypeOK, NoForeignKeyError, Reply(s, a), a # "FOREIGN_KEY_VIOLATION"
  PROVE  NoForeignKeyError'
  BY DEF TypeOK, NoForeignKeyError, Reply

LEMMA ProceedNoError ==
  ASSUME NEW s \in Slots, NEW l, NEW r, TypeOK, NoForeignKeyError, Proceed(s, l, r)
  PROVE  NoForeignKeyError'
<1>1. CASE Abandoned(s)
  BY <1>1, ReplyNoError DEF Proceed
<1>2. CASE ~Abandoned(s)
  BY <1>2 DEF Proceed, NoForeignKeyError
<1>3. QED
  BY <1>1, <1>2

\* The pickup found before is still stored, hence so is its household.
LEMMA InsertErrorIsKnown ==
  ASSUME NEW s \in Slots, Sound, pc[s] \in {"complete.insert", "createPayment.insert"}
  PROVE  PaymentInsertError(req[s].pickup, req[s].row) # "FOREIGN_KEY_VIOLATION"
<1> DEFINE p == req[s].pickup
<1>1. /\ p \in PickupIds /\ pickups[p] # None
      /\ \/ req[s].row = WithStatus(pickups[p], "completed")
         \/ req[s].row.household = pickups[p].household
  BY DEF Sound, IInv, LocksExclude, Relies, CompleteWhere
<1>2. pickups[p] \in Pickup /\ p \in Stored(pickups)
  BY <1>1, StoredRows DEF Sound, IInv, TypeOK, TablesTypeOK
<1>3. req[s].row.household = pickups[p].household
  BY <1>1, <1>2 DEF WithStatus, Pickup
<1>4. pickups[p].household \in households
  BY <1>2 DEF Sound, Integrity, BillMatchesPickup
<1>5. QED
  BY <1>1, <1>3, <1>4 DEF PaymentInsertError

LEMMA NextNoError == Sound /\ NoForeignKeyError /\ [Next]_vars => NoForeignKeyError'
<1> SUFFICES ASSUME Sound, NoForeignKeyError, [Next]_vars PROVE NoForeignKeyError'
  OBVIOUS
<1>1. TypeOK
  BY DEF Sound, IInv
<1>2. ASSUME NEW s \in Slots, NEW op, NEW l, NEW r, Begin(s, op, l, r)
      PROVE  NoForeignKeyError'
  BY <1>1, <1>2 DEF Begin, NoForeignKeyError, TypeOK
<1>3. ASSUME NEW s \in Slots, Start(s) PROVE NoForeignKeyError'
  BY <1>2, <1>3 DEF Start, StartCreateHousehold, StartDeleteHousehold, StartCreatePickup,
     StartOnPickup, StartCreatePayment, StartConfirm
<1>4. ASSUME NEW s \in Slots, InsertHousehold(s) \/ DeleteHousehold(s) PROVE NoForeignKeyError'
  BY <1>1, <1>4, ReplyNoError DEF InsertHousehold, DeleteHousehold
<1>5. ASSUME NEW s \in Slots,
             CheckPendingPayment(s) \/ InsertPickup(s) \/ CommitPickup(s)
      PROVE  NoForeignKeyError'
  BY <1>1, <1>5, ReplyNoError, ProceedNoError
  DEF CheckPendingPayment, InsertPickup, CommitPickup
<1>6. ASSUME NEW s \in Slots,
             SchedulePickup(s) \/ ExplainSchedule(s) \/ CancelPickup(s) \/ ExplainCancel(s)
      PROVE  NoForeignKeyError'
  <2>1. (\E l, r : Proceed(s, l, r)) \/ (\E a : Reply(s, a) /\ a # "FOREIGN_KEY_VIOLATION")
    BY <1>6 DEF SchedulePickup, ExplainSchedule, CanSchedule, CancelPickup, ExplainCancel
  <2>2. QED
    BY <1>1, <2>1, ReplyNoError, ProceedNoError
<1>7. ASSUME NEW s \in Slots,
             CompletePickup(s) \/ ExplainComplete(s) \/ CommitCompletion(s)
      PROVE  NoForeignKeyError'
  BY <1>1, <1>7, ReplyNoError, ProceedNoError
  DEF CompletePickup, ExplainComplete, CommitCompletion
<1>8. ASSUME NEW s \in Slots, InsertCompletionPayment(s) \/ InsertPayment(s)
      PROVE  NoForeignKeyError'
  <2>1. PaymentInsertError(req[s].pickup, req[s].row) # "FOREIGN_KEY_VIOLATION"
    BY <1>8, InsertErrorIsKnown DEF InsertCompletionPayment, InsertPayment
  <2>2. QED
    BY <1>1, <1>8, <2>1, ReplyNoError, ProceedNoError
    DEF InsertCompletionPayment, InsertPayment
<1>9. ASSUME NEW s \in Slots, FindPickupToBill(s) \/ FindPaymentToConfirm(s)
      PROVE  NoForeignKeyError'
  BY <1>1, <1>9, ReplyNoError, ProceedNoError DEF FindPickupToBill, FindPaymentToConfirm
<1>10. ASSUME NEW s \in Slots, PutProof(s) \/ PutFails(s) \/ ConfirmPayment(s)
       PROVE  NoForeignKeyError'
  BY <1>1, <1>10, ReplyNoError, ProceedNoError DEF PutProof, PutFails, ConfirmPayment
<1>11. ASSUME NEW s \in Slots, Fail(s) PROVE NoForeignKeyError'
  <2>1. CASE Abandon(s)
    BY <1>1, <2>1 DEF Abandon, NoForeignKeyError, TypeOK
  <2>2. CASE LateDrop(s)
    BY <1>1, <2>2, ReplyNoError DEF LateDrop
  <2>3. QED
    BY <1>11, <2>1, <2>2 DEF Fail
<1>12. CASE Worker \/ Tick \/ UNCHANGED vars
  BY <1>12 DEF Worker, SweepTick, SweepScan, SweepRow, SweepCommit, SweepFail, Tick, vars,
               NoForeignKeyError
<1>13. QED
  BY <1>3, <1>4, <1>5, <1>6, <1>7, <1>8, <1>9, <1>10, <1>11, <1>12 DEF Next, Serve

\* The unmapped foreign-key error of a payment insert, a 500, cannot occur.
THEOREM ForeignKeysHold == Spec => []NoForeignKeyError
<1>1. Init => NoForeignKeyError
  BY DEF Init, NoForeignKeyError
<1>2. QED
  BY <1>1, AlwaysSound, NextNoError, PTL DEF Spec

-----------------------------------------------------------------------------
(* The worker.                                                             *)

\* A run commits while all it has locked is stale at a time not after now.
LEMMA SweepsOverdue == IInv /\ [Next]_vars => [SweepsOnlyOverdue]_vars
<1> SUFFICES ASSUME IInv, [Next]_vars, sweepPc = "rows", sweepPc' = "idle",
                    NEW p \in PickupIds, pickups'[p] # pickups[p]
             PROVE  Overdue(p)
  BY DEF SweepsOnlyOverdue
<1>1. CASE SweepCommit
  <2>1. p \in sweepLocked
    BY <1>1 DEF SweepCommit
  <2>2. StaleWhere(pickups[p], sweepNow) /\ sweepNow <= clock
    BY <2>1 DEF IInv, LocksExclude
  <2>3. /\ pickups[p] \in Pickup /\ sweepNow \in Nat /\ clock \in Nat
    BY <2>2 DEF IInv, TypeOK, TablesTypeOK, StaleWhere
  <2>4. pickups[p].createdAt \in Nat /\ OrganicTTL \in Int
    BY <2>3, OrganicTTLAssumption DEF Pickup
  <2>5. clock > pickups[p].createdAt + OrganicTTL
    BY <2>2, <2>3, <2>4 DEF StaleWhere
  <2>6. QED
    BY <2>2, <2>5 DEF StaleWhere, Overdue
<1>2. CASE SweepTick \/ SweepScan \/ (\E q \in PickupIds : SweepRow(q)) \/ SweepFail
  BY <1>2 DEF SweepTick, SweepScan, SweepRow, SweepFail
<1>3. ASSUME NEW s \in Slots, Start(s) \/ Serve(s) \/ Fail(s) PROVE UNCHANGED sweepPc
  <2>1. CASE Start(s)
    BY <2>1 DEF Start, StartCreateHousehold, StartDeleteHousehold, StartCreatePickup,
                StartOnPickup, StartCreatePayment, StartConfirm, Begin
  <2>2. CASE Serve(s)
    BY <2>2 DEF Serve, InsertHousehold, DeleteHousehold, CheckPendingPayment, InsertPickup,
       CommitPickup, SchedulePickup, ExplainSchedule, CompletePickup, ExplainComplete,
       InsertCompletionPayment, CommitCompletion, CancelPickup, ExplainCancel,
       FindPickupToBill, InsertPayment, FindPaymentToConfirm, PutProof, PutFails,
       ConfirmPayment
  <2>3. CASE Fail(s)
    BY <2>3 DEF Fail, Abandon, LateDrop
  <2>4. QED
    BY <1>3, <2>1, <2>2, <2>3
<1>4. CASE Tick \/ UNCHANGED vars
  BY <1>4 DEF Tick, vars
<1>5. QED
  BY <1>1, <1>2, <1>3, <1>4 DEF Next, Worker

\* The worker cancels only what is overdue, whatever happened since its run
\* read the clock and chose the rows.
THEOREM SweepOnlyOverdue == Spec => StepsSweepOnlyOverdue
  BY InitIInv, NextIInv, SweepsOverdue, PTL DEF Spec, StepsSweepOnlyOverdue

-----------------------------------------------------------------------------
(* Third part: every refusal states a fact, every "ok" comes with its      *)
(* effect.  A refusal is often explained by a statement later than the one *)
(* that refused, so it rests on facts that last between the two: a row     *)
(* that refuses an update goes on to refuse it (Explained).  Rule 1 holds  *)
(* when creations and bills of one household exclude each other.           *)

\* statements of a request that names a stored, or never stored, pickup
Naming == OnPickup \ {"createPickup.commit"}
Uploading == {"confirm.put", "confirm.update"}

\* An id minted by an open transaction is known to nobody else; a row that
\* refused an update goes on to refuse it; what is to be confirmed is there; a
\* payment never fails.
Explained ==
  /\ \A s, t \in Slots :
       pc[s] \in Naming /\ pc[t] = "createPickup.commit" => req[s].pickup # req[t].pickup
  /\ \A s \in Slots :
       /\ pc[s] = "schedule.find" => ~ScheduleWhere(pickups[req[s].pickup])
       /\ pc[s] = "cancel.find" => ~CancelWhere(pickups[req[s].pickup])
       /\ pc[s] \in Uploading => payments[req[s].payment] # None
  /\ \A y \in PaymentIds : payments[y] # None => payments[y].status # "failed"

USE DEF Naming, Uploading

\* What a step of slot s does to the slot, as far as Explained depends on it.
Moves(s) ==
  /\ pc' = [pc EXCEPT ![s] = pc'[s]]
  /\ req' = [req EXCEPT ![s] = req'[s]]
  /\ pc'[s] \in Naming =>
       \/ pc[s] \in Naming /\ req'[s].pickup = req[s].pickup
       \/ ~Minted(req'[s].pickup)
  /\ pc'[s] = "createPickup.commit" =>
       \/ pc[s] = pc'[s] /\ req'[s] = req[s]
       \/ \A t \in Slots : req[t].pickup # req'[s].pickup
  /\ pc'[s] = "schedule.find" =>
       ~ScheduleWhere(pickups[req'[s].pickup]) /\ UNCHANGED pickups
  /\ pc'[s] = "cancel.find" =>
       ~CancelWhere(pickups[req'[s].pickup]) /\ UNCHANGED pickups
  /\ pc'[s] \in Uploading => payments[req'[s].payment] # None

LEMMA ReplyMoves ==
  ASSUME NEW s \in Slots, NEW a, TypeOK, Reply(s, a)
  PROVE  Moves(s)
<1>1. pc'[s] = "idle" /\ pc' = [pc EXCEPT ![s] = pc'[s]] /\ req' = [req EXCEPT ![s] = req'[s]]
  BY DEF TypeOK, Reply
<1>2. QED
  BY <1>1 DEF Moves

LEMMA ProceedIs ==
  ASSUME NEW s \in Slots, NEW l, NEW r, TypeOK, Proceed(s, l, r), ~Abandoned(s)
  PROVE  /\ pc' = [pc EXCEPT ![s] = pc'[s]] /\ req' = [req EXCEPT ![s] = req'[s]]
         /\ pc'[s] = l /\ req'[s] = r
  BY DEF TypeOK, Proceed

LEMMA BeginIs ==
  ASSUME NEW s \in Slots, NEW op, NEW l, NEW r, TypeOK, Begin(s, op, l, r)
  PROVE  /\ pc' = [pc EXCEPT ![s] = pc'[s]] /\ req' = [req EXCEPT ![s] = req'[s]]
         /\ pc'[s] = l /\ req'[s] = r
  BY DEF TypeOK, Begin

LEMMA StartMoves == ASSUME NEW s \in Slots, TypeOK, Start(s) PROVE Moves(s)
<1>1. CASE StartCreateHousehold(s)
  BY <1>1, BeginIs DEF StartCreateHousehold, Moves
<1>2. ASSUME NEW h \in Households, StartDeleteHousehold(s, h) PROVE Moves(s)
  BY <1>2, BeginIs DEF StartDeleteHousehold, Moves
<1>3. ASSUME NEW h \in Households, NEW form \in PickupForms, StartCreatePickup(s, h, form)
      PROVE  Moves(s)
  BY <1>3, BeginIs DEF StartCreatePickup, Moves
<1>4. ASSUME NEW p \in PickupIds, NEW op,
             NEW l \in {"schedule.update", "complete.update", "cancel.update"},
             StartOnPickup(s, op, l, p)
      PROVE  Moves(s)
  <2>1. /\ pc' = [pc EXCEPT ![s] = pc'[s]] /\ req' = [req EXCEPT ![s] = req'[s]]
        /\ pc'[s] = l /\ req'[s].pickup = p /\ ~Minted(p)
    <3>1. /\ Begin(s, op, l, [NoRequest EXCEPT !.pickup = p]) /\ ~Minted(p)
          /\ [NoRequest EXCEPT !.pickup = p].pickup = p
      BY <1>4 DEF StartOnPickup, NoRequest
    <3>2. QED
      BY <3>1, BeginIs
  <2>2. QED
    BY <2>1 DEF Moves
<1>5. ASSUME NEW h \in Households, NEW p \in PickupIds, StartCreatePayment(s, h, p)
      PROVE  Moves(s)
  <2>1. /\ pc' = [pc EXCEPT ![s] = pc'[s]] /\ req' = [req EXCEPT ![s] = req'[s]]
        /\ pc'[s] = "createPayment.find" /\ req'[s].pickup = p /\ ~Minted(p)
    <3> DEFINE r == [NoRequest EXCEPT !.household = h, !.pickup = p]
    <3>1. Begin(s, "createPayment", "createPayment.find", r) /\ ~Minted(p)
      BY <1>5 DEF StartCreatePayment
    <3>2. r.pickup = p
      BY DEF NoRequest
    <3> HIDE DEF r
    <3>3. QED
      BY <3>1, <3>2, BeginIs
  <2>2. QED
    BY <2>1 DEF Moves
<1>6. ASSUME NEW y \in PaymentIds, StartConfirm(s, y) PROVE Moves(s)
  BY <1>6, BeginIs DEF StartConfirm, Moves
<1>7. QED
  BY <1>1, <1>2, <1>3, <1>4, <1>5, <1>6 DEF Start

LEMMA CreateMoves ==
  ASSUME NEW s \in Slots, TypeOK,
         CheckPendingPayment(s) \/ InsertPickup(s) \/ CommitPickup(s)
  PROVE  Moves(s)
<1>1. CASE \E a : Reply(s, a)
  BY <1>1, ReplyMoves
<1>2. CASE CheckPendingPayment(s) /\ ~\E a : Reply(s, a)
  <2>1. ~Abandoned(s) /\ Proceed(s, "createPickup.insert", req[s])
    BY <1>2 DEF CheckPendingPayment, Proceed
  <2>2. QED
    BY <2>1, ProceedIs DEF Moves
<1>3. CASE InsertPickup(s) /\ ~\E a : Reply(s, a)
  <2>1. PICK p \in PickupIds :
          FreshPickup(p) /\ Proceed(s, "createPickup.commit", [req[s] EXCEPT !.pickup = p])
    BY <1>3 DEF InsertPickup
  <2>2. ~Abandoned(s)
    BY <1>3, <2>1 DEF Proceed
  <2>3. req[s] \in Request
    BY DEF TypeOK
  <2>4. req'[s].pickup = p /\ pc'[s] = "createPickup.commit"
    BY <2>1, <2>2, <2>3, ProceedIs DEF Request
  <2>5. \A t \in Slots : req[t].pickup # p
    BY <2>1 DEF FreshPickup
  <2>6. QED
    BY <2>1, <2>2, <2>4, <2>5, ProceedIs DEF Moves
<1>4. QED
  BY <1>1, <1>2, <1>3 DEF CommitPickup

LEMMA StatusMovesSlot ==
  ASSUME NEW s \in Slots, TypeOK,
         \/ SchedulePickup(s) \/ ExplainSchedule(s) \/ CancelPickup(s) \/ ExplainCancel(s)
         \/ CompletePickup(s) \/ ExplainComplete(s)
         \/ InsertCompletionPayment(s) \/ CommitCompletion(s)
  PROVE  Moves(s)
<1>1. req[s] \in Request
  BY DEF TypeOK
<1>2. CASE \E a : Reply(s, a)
  BY <1>2, ReplyMoves
<1>3. CASE ~\E a : Reply(s, a)
  <2>1. ~Abandoned(s) \/ ~\E l, r : Proceed(s, l, r)
    BY <1>3 DEF Proceed
  <2>2. CASE SchedulePickup(s)
    <3>1. /\ Proceed(s, "schedule.find", req[s]) /\ UNCHANGED pickups
          /\ ~ScheduleWhere(pickups[req[s].pickup]) /\ pc[s] = "schedule.update"
      BY <1>3, <2>2 DEF SchedulePickup
    <3>2. QED
      BY <2>1, <3>1, ProceedIs DEF Moves
  <2>3. CASE CancelPickup(s)
    <3>1. /\ Proceed(s, "cancel.find", req[s]) /\ UNCHANGED pickups
          /\ ~CancelWhere(pickups[req[s].pickup]) /\ pc[s] = "cancel.update"
      BY <1>3, <2>3 DEF CancelPickup
    <3>2. QED
      BY <2>1, <3>1, ProceedIs DEF Moves
  <2>4. CASE CompletePickup(s) \/ InsertCompletionPayment(s)
    <3>1. \A x : /\ [req[s] EXCEPT !.row = x].pickup = req[s].pickup
                /\ [req[s] EXCEPT !.payment = x].pickup = req[s].pickup
      BY <1>1 DEF Request
    <3>2. \/ Proceed(s, "complete.find", req[s])
          \/ \E x : \/ Proceed(s, "complete.insert", [req[s] EXCEPT !.row = x])
                    \/ Proceed(s, "complete.commit", [req[s] EXCEPT !.payment = x])
      BY <1>3, <2>4 DEF CompletePickup, InsertCompletionPayment
    <3>3. pc[s] \in Naming
      BY <2>4 DEF CompletePickup, InsertCompletionPayment
    <3>4. ASSUME NEW r, r.pickup = req[s].pickup,
                 NEW l \in {"complete.insert", "complete.find", "complete.commit"},
                 Proceed(s, l, r)
          PROVE  Moves(s)
      <4>1. ~Abandoned(s)
        BY <2>1, <3>4
      <4>2. QED
        BY <3>3, <3>4, <4>1, ProceedIs DEF Moves
    <3>5. QED
      BY <3>1, <3>2, <3>4
  <2>5. CASE ExplainSchedule(s) \/ ExplainCancel(s) \/ ExplainComplete(s) \/ CommitCompletion(s)
    BY <1>3, <2>5 DEF ExplainSchedule, ExplainCancel, ExplainComplete, CommitCompletion
  <2>6. QED
    BY <2>2, <2>3, <2>4, <2>5
<1>4. QED
  BY <1>2, <1>3

LEMMA BillingMoves ==
  ASSUME NEW s \in Slots, TypeOK, Explained,
         \/ FindPickupToBill(s) \/ InsertPayment(s)
         \/ FindPaymentToConfirm(s) \/ PutProof(s) \/ PutFails(s) \/ ConfirmPayment(s)
  PROVE  Moves(s)
<1>1. req[s] \in Request
  BY DEF TypeOK
<1>2. CASE \E a : Reply(s, a)
  BY <1>2, ReplyMoves
<1>3. CASE ~\E a : Reply(s, a)
  <2>1. ~Abandoned(s) \/ ~\E l, r : Proceed(s, l, r)
    BY <1>3 DEF Proceed
  <2>2. CASE FindPickupToBill(s)
    <3>1. /\ pc[s] \in Naming
          /\ \E r : Proceed(s, "createPayment.insert", r) /\ r.pickup = req[s].pickup
      BY <1>1, <1>3, <2>2 DEF FindPickupToBill, Request
    <3>2. QED
      BY <2>1, <3>1, ProceedIs DEF Moves
  <2>3. CASE FindPaymentToConfirm(s)
    <3>1. Proceed(s, "confirm.put", req[s]) /\ payments[req[s].payment] # None
      BY <1>3, <2>3 DEF FindPaymentToConfirm
    <3>2. QED
      BY <2>1, <3>1, ProceedIs DEF Moves
  <2>4. CASE PutProof(s)
    <3>1. payments[req[s].payment] # None
      BY <2>4 DEF PutProof, Explained
    <3>2. \E r : Proceed(s, "confirm.update", r) /\ r.payment = req[s].payment
      BY <1>1, <2>4 DEF PutProof, Request
    <3>3. QED
      BY <2>1, <3>1, <3>2, ProceedIs DEF Moves
  <2>5. CASE InsertPayment(s) \/ PutFails(s) \/ ConfirmPayment(s)
    BY <1>3, <2>5 DEF InsertPayment, PutFails, ConfirmPayment
  <2>6. QED
    BY <2>2, <2>3, <2>4, <2>5
<1>4. QED
  BY <1>2, <1>3

LEMMA ServeMoves == ASSUME NEW s \in Slots, TypeOK, Explained, Serve(s) PROVE Moves(s)
<1>1. CASE InsertHousehold(s) \/ DeleteHousehold(s)
  BY <1>1, ReplyMoves DEF InsertHousehold, DeleteHousehold
<1>2. QED
  BY <1>1, CreateMoves, StatusMovesSlot, BillingMoves DEF Serve

LEMMA FailMoves == ASSUME NEW s \in Slots, TypeOK, Explained, Fail(s) PROVE Moves(s)
<1>1. CASE LateDrop(s)
  BY <1>1, ReplyMoves DEF LateDrop
<1>2. CASE Abandon(s) /\ pc[s] \in InFlight
  <2>1. UNCHANGED <<pc, req, tables>> /\ pc = [pc EXCEPT ![s] = pc[s]]
        /\ req = [req EXCEPT ![s] = req[s]]
    BY <1>2 DEF Abandon, TypeOK
  <2>2. pc[s] \notin {"schedule.find", "cancel.find"}
    BY <1>2 DEF InFlight
  <2>3. pc[s] \in Uploading => payments[req[s].payment] # None
    BY DEF Explained
  <2>4. QED
    BY <2>1, <2>2, <2>3 DEF Moves
<1>3. CASE Abandon(s) /\ pc[s] \notin InFlight
  <2>1. pc'[s] = "idle" /\ pc' = [pc EXCEPT ![s] = pc'[s]] /\ req' = [req EXCEPT ![s] = req'[s]]
    BY <1>3 DEF Abandon, TypeOK
  <2>2. QED
    BY <2>1 DEF Moves
<1>4. QED
  BY <1>1, <1>2, <1>3 DEF Fail

-----------------------------------------------------------------------------
(* What a step does to the rows that explain a refusal.                    *)

\* A stored pickup changes its status only.
LEMMA RowsMove ==
  ASSUME TablesTypeOK, [LedgerSpec!Next]_tables, NEW q \in Stored(pickups)
  PROVE  \/ pickups'[q] = pickups[q]
         \/ \E status \in {"scheduled", "completed", "canceled"} :
              pickups'[q] = WithStatus(pickups[q], status)
<1>1. q \in PickupIds /\ pickups[q] # None
  BY StoredRows
<1>2. ASSUME NEW p \in PickupIds, NEW h, NEW form, NEW now,
             LedgerSpec!CreatePickup(p, h, form, now)
      PROVE  pickups'[q] = pickups[q]
  BY <1>1, <1>2 DEF LedgerSpec!CreatePickup, TablesTypeOK
<1>3. ASSUME NEW p \in PickupIds, NEW y,
             LedgerSpec!Schedule(p) \/ LedgerSpec!Cancel(p) \/ LedgerSpec!Complete(p, y)
      PROVE  \/ pickups'[q] = pickups[q]
             \/ \E status \in {"scheduled", "completed", "canceled"} :
                  pickups'[q] = WithStatus(pickups[q], status)
  <2>1. PICK status \in {"scheduled", "completed", "canceled"} :
          pickups' = [pickups EXCEPT ![p] = WithStatus(pickups[p], status)]
    BY <1>3, SameOperators DEF LedgerSpec!Schedule, LedgerSpec!Cancel, LedgerSpec!Complete
  <2>2. QED
    BY <1>1, <2>1 DEF TablesTypeOK
<1>4. ASSUME NEW P \in SUBSET PickupIds, LedgerSpec!Sweep(P)
      PROVE  pickups'[q] = pickups[q] \/ pickups'[q] = WithStatus(pickups[q], "canceled")
  BY <1>1, <1>4, SameOperators DEF LedgerSpec!Sweep
<1>5. CASE UNCHANGED pickups
  BY <1>5
<1>6. QED
  BY <1>2, <1>3, <1>4, <1>5 DEF LedgerSpec!Next, LedgerSpec!CreateHousehold,
     LedgerSpec!DeleteHousehold, LedgerSpec!CreatePayment, LedgerSpec!StoreProof,
     LedgerSpec!Confirm, LedgerSpec!Tick

\* A stored pickup that cannot be scheduled, or canceled, never can be again.
LEMMA StaysRefused ==
  ASSUME TablesTypeOK, [LedgerSpec!Next]_tables, NEW q \in PickupIds, pickups[q] # None
  PROVE  /\ ~ScheduleWhere(pickups[q]) => ~ScheduleWhere(pickups'[q])
         /\ ~CancelWhere(pickups[q]) => ~CancelWhere(pickups'[q])
<1>1. q \in Stored(pickups) /\ pickups[q] \in Pickup
  BY StoredRows DEF TablesTypeOK
<1>2. CASE pickups'[q] = pickups[q]
  BY <1>2
<1>3. CASE pickups'[q] # pickups[q]
  <2>1. PICK status \in {"scheduled", "completed", "canceled"} :
          pickups'[q] = WithStatus(pickups[q], status)
    BY <1>1, <1>3, RowsMove
  <2>2. pickups[q].status \notin {"completed", "canceled"}
    BY <1>1, <1>3, LedgerKeepsFinalData DEF NothingFinalChanges
  <2>3. CancelWhere(pickups[q])
    BY <1>1, <2>2 DEF CancelWhere, Pickup, PickupStatus
  <2>4. pickups'[q].status = status
    BY <1>1, <2>1 DEF WithStatus, Pickup
  <2>5. ~ScheduleWhere(pickups'[q])
    BY <2>4 DEF ScheduleWhere
  <2>6. QED
    BY <2>3, <2>5
<1>4. QED
  BY <1>2, <1>3


\* A pickup appears only when the request that minted its id commits.
LEMMA PickupAppears ==
  ASSUME IInv, [Next]_vars, NEW q \in PickupIds, pickups[q] = None, pickups'[q] # None
  PROVE  \E t \in Slots : CommitPickup(t) /\ req[t].pickup = q
<1>1. ASSUME NEW p \in PickupIds, NEW row, pickups[p] # None,
             pickups' = [pickups EXCEPT ![p] = row]
      PROVE  FALSE
  BY <1>1 DEF IInv, TypeOK, TablesTypeOK
<1>2. ASSUME NEW t \in Slots, Start(t) \/ Fail(t) PROVE FALSE
  BY <1>2 DEF Start, StartCreateHousehold, StartDeleteHousehold, StartCreatePickup,
              StartOnPickup, StartCreatePayment, StartConfirm, Begin, Fail, Abandon, LateDrop
<1>3. ASSUME NEW t \in Slots, CommitPickup(t)
      PROVE  req[t].pickup = q
  BY <1>3 DEF CommitPickup, IInv, TypeOK, TablesTypeOK
<1>4. ASSUME NEW t \in Slots, SchedulePickup(t) PROVE FALSE
  <2>1. req[t].pickup \in PickupIds
    BY <1>4 DEF IInv, LocksExclude, Relies, SchedulePickup
  <2>2. QED
    BY <1>1, <1>4, <2>1 DEF SchedulePickup, ScheduleWhere
<1>5. ASSUME NEW t \in Slots, CancelPickup(t) PROVE FALSE
  <2>1. req[t].pickup \in PickupIds
    BY <1>5 DEF IInv, LocksExclude, Relies, CancelPickup
  <2>2. QED
    BY <1>1, <1>5, <2>1 DEF CancelPickup, CancelWhere
<1>6. ASSUME NEW t \in Slots, CommitCompletion(t) PROVE FALSE
  <2>1. req[t].pickup \in PickupIds /\ pickups[req[t].pickup] # None
    BY <1>6 DEF IInv, LocksExclude, Relies, CommitCompletion, CompleteWhere
  <2>2. QED
    BY <1>1, <1>6, <2>1 DEF CommitCompletion
<1>7. ASSUME NEW t \in Slots, Serve(t), UNCHANGED pickups PROVE FALSE
  BY <1>7
<1>8. ASSUME NEW t \in Slots, Serve(t)
      PROVE  \/ CommitPickup(t) \/ SchedulePickup(t) \/ CancelPickup(t)
             \/ CommitCompletion(t) \/ UNCHANGED pickups
  BY <1>8 DEF Serve, InsertHousehold, DeleteHousehold, CheckPendingPayment, InsertPickup,
     ExplainSchedule, CompletePickup, ExplainComplete, InsertCompletionPayment,
     ExplainCancel, FindPickupToBill, InsertPayment, FindPaymentToConfirm, PutProof,
     PutFails, ConfirmPayment
<1>9. CASE SweepCommit
  <2>1. q \in sweepLocked
    BY <1>9 DEF SweepCommit
  <2>2. QED
    BY <2>1 DEF IInv, LocksExclude, StaleWhere
<1>10. CASE SweepTick \/ SweepScan \/ (\E p \in PickupIds : SweepRow(p)) \/ SweepFail \/ Tick
            \/ UNCHANGED vars
  BY <1>10 DEF SweepTick, SweepScan, SweepRow, SweepFail, Tick, vars
<1>11. QED
  BY <1>2, <1>3, <1>4, <1>5, <1>6, <1>7, <1>8, <1>9, <1>10 DEF Next, Worker

\* Payments are inserted pending and confirmed as paid; nothing else is written.
LEMMA NeverFailed ==
  ASSUME TablesTypeOK, [LedgerSpec!Next]_tables, NEW z \in PaymentIds, payments'[z] # None,
         payments[z] # None => payments[z].status # "failed"
  PROVE  payments'[z].status # "failed"
<1>1. ASSUME NEW p \in PickupIds, NEW y \in PaymentIds,
             LedgerSpec!Complete(p, y) \/ LedgerSpec!CreatePayment(p, y)
      PROVE  payments'[z].status # "failed"
  <2>1. payments' = [payments EXCEPT ![y] = NewPayment(pickups[p], p)]
    BY <1>1, SameOperators DEF LedgerSpec!Complete, LedgerSpec!CreatePayment
  <2>2. NewPayment(pickups[p], p).status = "pending"
    BY DEF NewPayment
  <2>3. QED
    BY <2>1, <2>2 DEF TablesTypeOK
<1>2. ASSUME NEW y \in PaymentIds, NEW k \in ProofKeys, LedgerSpec!Confirm(y, k)
      PROVE  payments'[z].status # "failed"
  <2>1. payments[y] \in Payment /\ payments' = [payments EXCEPT ![y] = Paid(payments[y], k)]
    BY <1>2, SameOperators DEF LedgerSpec!Confirm, TablesTypeOK
  <2>2. Paid(payments[y], k).status = "paid"
    BY <2>1 DEF Paid, Payment
  <2>3. QED
    BY <2>1, <2>2 DEF TablesTypeOK
<1>3. CASE UNCHANGED payments
  BY <1>3
<1>4. QED
  BY <1>1, <1>2, <1>3 DEF LedgerSpec!Next, LedgerSpec!CreateHousehold,
     LedgerSpec!DeleteHousehold, LedgerSpec!CreatePickup, LedgerSpec!Schedule,
     LedgerSpec!Cancel, LedgerSpec!Sweep, LedgerSpec!StoreProof, LedgerSpec!Tick

-----------------------------------------------------------------------------
(* Explained is an invariant.                                              *)

LEMMA InitExplained == Init => Explained
  BY DEF Init, TablesInit, Explained

\* Whatever happens to the tables, as far as one request's explanation goes.
LEMMA FactsLast ==
  ASSUME Sound, Explained, [Next]_vars, NEW t \in Slots, Relies(pc[t], req[t])
  PROVE  /\ pc[t] = "schedule.find" => ~ScheduleWhere(pickups'[req[t].pickup])
         /\ pc[t] = "cancel.find" => ~CancelWhere(pickups'[req[t].pickup])
<1> DEFINE q == req[t].pickup
<1>1. IInv /\ TablesTypeOK /\ [LedgerSpec!Next]_tables
  BY StepRefines DEF Sound, IInv, TypeOK
<1>2. SUFFICES ASSUME pc[t] \in {"schedule.find", "cancel.find"}
               PROVE  /\ pc[t] = "schedule.find" => ~ScheduleWhere(pickups'[q])
                      /\ pc[t] = "cancel.find" => ~CancelWhere(pickups'[q])
  OBVIOUS
<1>3. q \in PickupIds
  BY <1>2 DEF Relies
<1>4. CASE pickups[q] # None
  <2>1. /\ pc[t] = "schedule.find" => ~ScheduleWhere(pickups[q])
        /\ pc[t] = "cancel.find" => ~CancelWhere(pickups[q])
    BY DEF Explained
  <2>2. QED
    BY <1>1, <1>3, <1>4, <2>1, StaysRefused
<1>5. CASE pickups[q] = None
  <2>1. pickups'[q] = None
    <3>1. \A u \in Slots : pc[u] = "createPickup.commit" => req[u].pickup # q
      BY <1>2 DEF Explained
    <3>2. QED
      BY <1>1, <1>3, <1>5, <3>1, PickupAppears DEF CommitPickup
  <2>2. QED
    BY <2>1 DEF ScheduleWhere, CancelWhere
<1>6. QED
  BY <1>4, <1>5


\* The step of one slot.
LEMMA MoveExplained ==
  ASSUME Sound, Explained, [Next]_vars, NEW s \in Slots, Moves(s)
  PROVE  Explained'
<1>1. /\ IInv /\ TypeOK /\ TablesTypeOK /\ [LedgerSpec!Next]_tables
      /\ \A t \in Slots : Relies(pc[t], req[t])
  BY StepRefines DEF Sound, IInv, TypeOK, LocksExclude
<1>2. \A t \in Slots : t # s => pc'[t] = pc[t] /\ req'[t] = req[t]
  BY <1>1 DEF Moves, TypeOK
<1>3. \A y \in PaymentIds : payments[y] # None => payments'[y] # None
  BY <1>1, LedgerKeepsFinalData, StoredRows DEF NothingFinalChanges
<1>4. ASSUME NEW a \in Slots, NEW b \in Slots,
             pc'[a] \in Naming, pc'[b] = "createPickup.commit"
      PROVE  req'[a].pickup # req'[b].pickup
  <2>1. a # b
    BY <1>4
  <2>2. CASE a # s /\ b # s
    BY <1>2, <1>4, <2>2 DEF Explained
  <2>3. CASE a = s
    <3>1. pc[b] = "createPickup.commit" /\ req'[b] = req[b]
      BY <1>2, <1>4, <2>1, <2>3
    <3>2. CASE pc[s] \in Naming /\ req'[s].pickup = req[s].pickup
      BY <2>3, <3>1, <3>2 DEF Explained
    <3>3. CASE ~Minted(req'[s].pickup)
      BY <2>3, <3>1, <3>3 DEF Minted
    <3>4. QED
      BY <1>4, <2>3, <3>2, <3>3 DEF Moves
  <2>4. CASE b = s
    <3>1. pc[a] \in Naming /\ req'[a] = req[a]
      BY <1>2, <1>4, <2>1, <2>4
    <3>2. CASE pc[s] = pc'[s] /\ req'[s] = req[s]
      BY <1>4, <2>4, <3>1, <3>2 DEF Explained
    <3>3. CASE \A t \in Slots : req[t].pickup # req'[s].pickup
      BY <2>4, <3>1, <3>3
    <3>4. QED
      BY <1>4, <2>4, <3>2, <3>3 DEF Moves
  <2>5. QED
    BY <2>2, <2>3, <2>4
<1>5. ASSUME NEW t \in Slots
      PROVE  /\ pc'[t] = "schedule.find" => ~ScheduleWhere(pickups'[req'[t].pickup])
             /\ pc'[t] = "cancel.find" => ~CancelWhere(pickups'[req'[t].pickup])
             /\ pc'[t] \in Uploading => payments'[req'[t].payment] # None
  <2>1. CASE t = s
    <3>1. Relies(pc[s], req[s])'
      BY NextIInv DEF Sound, IInv, LocksExclude
    <3>2. pc'[s] \in Uploading => req'[s].payment \in PaymentIds
      BY <3>1 DEF Relies
    <3>3. QED
      BY <1>3, <2>1, <3>2 DEF Moves
  <2>2. CASE t # s
    <3>1. pc'[t] = pc[t] /\ req'[t] = req[t]
      BY <1>2, <2>2
    <3>2. pc[t] \in Uploading =>
            req[t].payment \in PaymentIds /\ payments[req[t].payment] # None
      BY <1>1 DEF Relies, Explained
    <3>3. QED
      BY <1>1, <1>3, <3>1, <3>2, FactsLast
  <2>3. QED
    BY <2>1, <2>2
<1>6. \A y \in PaymentIds : payments'[y] # None => payments'[y].status # "failed"
  BY <1>1, NeverFailed DEF Explained
<1>7. QED
  BY <1>4, <1>5, <1>6 DEF Explained

\* The worker and the clock move no request.
LEMMA QuietExplained ==
  ASSUME Sound, Explained, [Next]_vars, UNCHANGED slots
  PROVE  Explained'
<1>1. /\ TablesTypeOK /\ [LedgerSpec!Next]_tables
      /\ \A t \in Slots : Relies(pc[t], req[t])
  BY StepRefines DEF Sound, IInv, TypeOK, LocksExclude
<1>2. \A y \in PaymentIds : payments[y] # None => payments'[y] # None
  BY <1>1, LedgerKeepsFinalData, StoredRows DEF NothingFinalChanges
<1>3. \A t \in Slots :
        /\ pc[t] = "schedule.find" => ~ScheduleWhere(pickups'[req[t].pickup])
        /\ pc[t] = "cancel.find" => ~CancelWhere(pickups'[req[t].pickup])
        /\ pc[t] \in Uploading => payments'[req[t].payment] # None
  BY <1>1, <1>2, FactsLast DEF Relies, Explained
<1>4. \A y \in PaymentIds : payments'[y] # None => payments'[y].status # "failed"
  BY <1>1, NeverFailed DEF Explained
<1>5. QED
  BY <1>3, <1>4 DEF Explained

LEMMA NextExplained == Sound /\ Explained /\ [Next]_vars => Explained'
<1> SUFFICES ASSUME Sound, Explained, [Next]_vars PROVE Explained'
  OBVIOUS
<1>1. TypeOK
  BY DEF Sound, IInv
<1>2. CASE \E s \in Slots : Start(s) \/ Serve(s) \/ Fail(s)
  BY <1>1, <1>2, StartMoves, ServeMoves, FailMoves, MoveExplained
<1>3. CASE Worker \/ Tick \/ UNCHANGED vars
  <2>1. UNCHANGED slots
    BY <1>3 DEF Worker, SweepTick, SweepScan, SweepRow, SweepCommit, SweepFail, Tick, vars
  <2>2. QED
    BY <2>1, QuietExplained
<1>4. QED
  BY <1>2, <1>3 DEF Next


LEMMA AlwaysExplained == Spec => [](Sound /\ Explained)
<1>1. Init => Sound /\ Explained
  BY InitIInv, InitIntegrity, InitExplained DEF Sound, Init
<1>2. Sound /\ Explained /\ [Next]_vars => (Sound /\ Explained)'
  BY NextSound, NextExplained
<1>3. QED
  BY <1>1, <1>2, PTL DEF Spec

-----------------------------------------------------------------------------
(* Who answers what.                                                       *)

\* Only a statement of the request's own answers its client, unless the
\* request is abandoned.
LEMMA ServeReplies ==
  ASSUME TypeOK, Explained, [Next]_vars, NEW s \in Slots, NEW a, Replies(s, a),
         a \notin {"FAILED", "STORAGE_UNAVAILABLE"}
  PROVE  Serve(s)
<1>1. pc[s] # "idle" /\ ~Abandoned(s) /\ pc'[s] = "idle" /\ answer'[s] = a
  BY DEF Replies
<1>2. ASSUME NEW t \in Slots, Start(t) \/ Serve(t) \/ Fail(t), t # s PROVE FALSE
  <2>1. Moves(t)
    BY <1>2, StartMoves, ServeMoves, FailMoves
  <2>2. QED
    BY <1>1, <1>2, <2>1 DEF Moves, TypeOK
<1>3. ~Start(s)
  BY <1>1 DEF Start, StartCreateHousehold, StartDeleteHousehold, StartCreatePickup,
              StartOnPickup, StartCreatePayment, StartConfirm, Begin
<1>4. ~Fail(s)
  <2>1. ~LateDrop(s)
    BY <1>1 DEF LateDrop
  <2>2. ~Abandon(s)
    BY <1>1 DEF Abandon, TypeOK
  <2>3. QED
    BY <2>1, <2>2 DEF Fail
<1>5. ~(Worker \/ Tick \/ UNCHANGED vars)
  BY <1>1 DEF Worker, SweepTick, SweepScan, SweepRow, SweepCommit, SweepFail, Tick, vars
<1>6. QED
  BY <1>2, <1>3, <1>4, <1>5 DEF Next

LEMMA ReplyIs ==
  ASSUME TypeOK, NEW s \in Slots, NEW a, NEW b, Reply(s, b), Replies(s, a)
  PROVE  a = b
  BY DEF TypeOK, Reply, Replies

LEMMA ProceedIsNoReply ==
  ASSUME TypeOK, NEW s \in Slots, NEW a, NEW l, NEW r, l # "idle",
         Proceed(s, l, r), Replies(s, a)
  PROVE  FALSE
  BY DEF TypeOK, Proceed, Replies

-----------------------------------------------------------------------------
(* Refusals.                                                               *)

\* What a refusal says of the household, pickup and payment its request names.
SaysTruth(s, a) ==
  LET p == req[s].pickup
      y == req[s].payment
      h == req[s].household
  IN /\ a = "HOUSEHOLD_NOT_FOUND" => h \notin households
     /\ a = "HOUSEHOLD_HAS_DEPENDENTS" => HasDependents(h)
     /\ a = "HOUSEHOLD_HAS_PENDING_PAYMENT" => HasPendingByHousehold(h)
     /\ a = "PICKUP_NOT_FOUND" => pickups[p] = None
     /\ a = "PICKUP_NOT_SCHEDULED" => pickups[p] # None
     /\ a = "PICKUP_NOT_PENDING" => pickups[p].status # "pending"
     /\ a = "PICKUP_NOT_CANCELABLE" => pickups[p].status \in {"completed", "canceled"}
     /\ a = "SAFETY_CHECK_REQUIRED" =>
          pickups[p].type = "electronic" /\ ~pickups[p].safetyCheck
     /\ a = "PAYMENT_HOUSEHOLD_MISMATCH" => pickups[p] # None /\ pickups[p].household # h
     /\ a = "PAYMENT_ALREADY_EXISTS" => Billed(p)
     /\ a = "PAYMENT_NOT_FOUND" => payments[y] = None
     /\ a = "PAYMENT_NOT_PENDING" => payments[y].status = "paid"

\* The refusals about households.
LEMMA HouseholdRefusals ==
  ASSUME TypeOK, NEW s \in Slots, NEW a, Replies(s, a),
         \/ InsertHousehold(s) \/ DeleteHousehold(s)
         \/ CheckPendingPayment(s) \/ InsertPickup(s) \/ CommitPickup(s)
  PROVE  SaysTruth(s, a)
<1> DEFINE h == req[s].household
<1>1. CASE InsertHousehold(s) \/ CommitPickup(s)
  <2>1. a = "ok"
    BY <1>1, ReplyIs DEF InsertHousehold, CommitPickup
  <2>2. QED
    BY <2>1 DEF SaysTruth
<1>2. CASE DeleteHousehold(s)
  <2>1. \/ a = "HOUSEHOLD_HAS_DEPENDENTS" /\ HasDependents(h)
        \/ a = IF h \in households THEN "ok" ELSE "HOUSEHOLD_NOT_FOUND"
    BY <1>2, ReplyIs DEF DeleteHousehold
  <2>2. QED
    BY <2>1 DEF SaysTruth
<1>3. CASE CheckPendingPayment(s)
  <2>1. a = "HOUSEHOLD_HAS_PENDING_PAYMENT" /\ HasPendingByHousehold(h)
    BY <1>3, ReplyIs, ProceedIsNoReply DEF CheckPendingPayment
  <2>2. QED
    BY <2>1 DEF SaysTruth
<1>4. CASE InsertPickup(s)
  <2>1. a = "HOUSEHOLD_NOT_FOUND" /\ h \notin households
    BY <1>4, ReplyIs, ProceedIsNoReply DEF InsertPickup
  <2>2. QED
    BY <2>1 DEF SaysTruth
<1>5. QED
  BY <1>1, <1>2, <1>3, <1>4

\* The refusals about pickups.
LEMMA PickupRefusals ==
  ASSUME IInv, Explained, NEW s \in Slots, NEW a, Replies(s, a),
         \/ SchedulePickup(s) \/ ExplainSchedule(s) \/ CancelPickup(s) \/ ExplainCancel(s)
         \/ CompletePickup(s) \/ ExplainComplete(s)
  PROVE  SaysTruth(s, a)
<1> DEFINE row == pickups[req[s].pickup]
<1>1. TypeOK /\ Relies(pc[s], req[s])
  BY DEF IInv, LocksExclude
<1>2. CASE SchedulePickup(s) \/ CancelPickup(s) \/ CompletePickup(s)
  <2>1. a = "ok"
    BY <1>1, <1>2, ReplyIs, ProceedIsNoReply DEF SchedulePickup, CancelPickup, CompletePickup
  <2>2. QED
    BY <2>1 DEF SaysTruth
<1>3. CASE ExplainSchedule(s)
  <2>1. a = IF row = None THEN "PICKUP_NOT_FOUND"
            ELSE IF CanSchedule(row) # "ok" THEN CanSchedule(row)
            ELSE "PICKUP_NOT_PENDING"
    BY <1>1, <1>3, ReplyIs DEF ExplainSchedule
  <2>2. ~ScheduleWhere(row)
    BY <1>3 DEF ExplainSchedule, Explained
  <2>3. QED
    BY <2>1, <2>2 DEF SaysTruth, CanSchedule, ScheduleWhere
<1>4. CASE ExplainCancel(s)
  <2>1. a = IF row = None THEN "PICKUP_NOT_FOUND" ELSE "PICKUP_NOT_CANCELABLE"
    BY <1>1, <1>4, ReplyIs DEF ExplainCancel
  <2>2. ~CancelWhere(row) /\ req[s].pickup \in PickupIds
    BY <1>1, <1>4 DEF ExplainCancel, Explained, Relies
  <2>3. row # None => row.status \in {"completed", "canceled"}
    BY <1>1, <2>2 DEF TypeOK, TablesTypeOK, Pickup, PickupStatus, CancelWhere
  <2>4. QED
    BY <2>1, <2>3 DEF SaysTruth
<1>5. CASE ExplainComplete(s)
  <2>1. a = IF row = None THEN "PICKUP_NOT_FOUND" ELSE "PICKUP_NOT_SCHEDULED"
    BY <1>1, <1>5, ReplyIs DEF ExplainComplete
  <2>2. QED
    BY <2>1 DEF SaysTruth
<1>6. QED
  BY <1>2, <1>3, <1>4, <1>5

\* The refusals about bills.
LEMMA PaymentRefusals ==
  ASSUME IInv, Explained, NEW s \in Slots, NEW a, Replies(s, a),
         \/ InsertCompletionPayment(s) \/ CommitCompletion(s)
         \/ FindPickupToBill(s) \/ InsertPayment(s)
         \/ FindPaymentToConfirm(s) \/ PutProof(s) \/ PutFails(s) \/ ConfirmPayment(s)
  PROVE  SaysTruth(s, a)
<1> DEFINE y == req[s].payment
<1>1. TypeOK /\ Relies(pc[s], req[s])
  BY DEF IInv, LocksExclude
<1>2. CASE InsertCompletionPayment(s) \/ InsertPayment(s)
  <2>1. a = PaymentInsertError(req[s].pickup, req[s].row)
    BY <1>1, <1>2, ReplyIs, ProceedIsNoReply DEF InsertCompletionPayment, InsertPayment
  <2>2. QED
    BY <2>1 DEF PaymentInsertError, SaysTruth
<1>3. CASE CommitCompletion(s) \/ PutProof(s) \/ PutFails(s)
  <2>1. a \in {"ok", "STORAGE_UNAVAILABLE"}
    BY <1>1, <1>3, ReplyIs, ProceedIsNoReply DEF CommitCompletion, PutProof, PutFails
  <2>2. QED
    BY <2>1 DEF SaysTruth
<1>4. CASE FindPickupToBill(s)
  <2> DEFINE row == pickups[req[s].pickup]
  <2>1. \/ a = "PICKUP_NOT_FOUND" /\ row = None
        \/ /\ a = "PAYMENT_HOUSEHOLD_MISMATCH"
           /\ row # None /\ row.household # req[s].household
    BY <1>1, <1>4, ReplyIs, ProceedIsNoReply DEF FindPickupToBill
  <2>2. QED
    BY <2>1 DEF SaysTruth
<1>5. ASSUME payments[y] # None, y \in PaymentIds, payments[y].status # "pending"
      PROVE  payments[y].status = "paid"
  <2>1. payments[y] \in Payment /\ payments[y].status # "failed"
    BY <1>1, <1>5 DEF TypeOK, TablesTypeOK, Explained
  <2>2. QED
    BY <1>5, <2>1 DEF Payment, PaymentStatus
<1>6. CASE FindPaymentToConfirm(s)
  <2>1. y \in PaymentIds
    BY <1>1, <1>6 DEF FindPaymentToConfirm, Relies
  <2>2. \/ a = "PAYMENT_NOT_FOUND" /\ payments[y] = None
        \/ a = "PAYMENT_NOT_PENDING" /\ payments[y] # None /\ payments[y].status # "pending"
    BY <1>1, <1>6, ReplyIs, ProceedIsNoReply DEF FindPaymentToConfirm
  <2>3. QED
    BY <1>5, <2>1, <2>2 DEF SaysTruth
<1>7. CASE ConfirmPayment(s)
  <2>1. y \in PaymentIds /\ payments[y] # None
    BY <1>1, <1>7 DEF ConfirmPayment, Relies, Explained
  <2>2. a = "ok" \/ (a = "PAYMENT_NOT_PENDING" /\ payments[y].status # "pending")
    <3>1. CASE ConfirmWhere(payments[y])
      <4>1. Reply(s, "ok")
        BY <1>7, <3>1 DEF ConfirmPayment
      <4>2. QED
        BY <1>1, <4>1, ReplyIs
    <3>2. CASE ~ConfirmWhere(payments[y])
      <4>1. Reply(s, "PAYMENT_NOT_PENDING")
        BY <1>7, <3>2 DEF ConfirmPayment
      <4>2. a = "PAYMENT_NOT_PENDING"
        BY <1>1, <4>1, ReplyIs
      <4>3. QED
        BY <2>1, <3>2, <4>2 DEF ConfirmWhere
    <3>3. QED
      BY <3>1, <3>2
  <2>3. QED
    BY <1>5, <2>1, <2>2 DEF SaysTruth
<1>8. QED
  BY <1>2, <1>3, <1>4, <1>6, <1>7

LEMMA RefusalsHold == Sound /\ Explained /\ [Next]_vars => [RefusalsAreTrue]_vars
<1> SUFFICES ASSUME Sound, Explained, [Next]_vars, NEW s \in Slots, NEW a, Replies(s, a),
                    a \notin {"FAILED", "STORAGE_UNAVAILABLE"}
             PROVE  SaysTruth(s, a)
  BY DEF RefusalsAreTrue, SaysTruth
<1>1. IInv /\ TypeOK
  BY DEF Sound, IInv
<1>2. Serve(s)
  BY <1>1, ServeReplies
<1>3. QED
  BY <1>1, <1>2, HouseholdRefusals, PickupRefusals, PaymentRefusals DEF Serve

\* Whatever happened between the statement that refused and the one that says
\* why, every 404, 409 and 422 is true when it is sent; of PICKUP_NOT_SCHEDULED
\* only that the pickup exists.
THEOREM RefusalsTrue == Spec => StepsRefuseTruthfully
  BY AlwaysExplained, RefusalsHold, PTL DEF Spec, StepsRefuseTruthfully


-----------------------------------------------------------------------------
(* Acknowledgements.                                                       *)

\* What an "ok" says of the rows its request names.
IsKept(s) ==
  LET p == req[s].pickup
      y == req[s].payment
  IN /\ pc[s] = "confirm.update" => payments'[y] = Paid(payments[y], req[s].proof)
     /\ pc[s] = "complete.commit" =>
          /\ pickups'[p].status = "completed"
          /\ payments'[y].waste = p /\ payments'[y].status = "pending"
     /\ pc[s] = "createPickup.commit" => pickups'[p] = req[s].row
     /\ pc[s] = "createPayment.insert" =>
          \E z \in PaymentIds : payments'[z] = NewPayment(pickups[p], p)
     /\ pc[s] = "schedule.update" =>
          /\ pickups'[p].status = "scheduled"
          /\ pickups'[p].type # "electronic" \/ pickups'[p].safetyCheck
     /\ pc[s] = "cancel.update" => pickups'[p].status = "canceled"
     /\ pc[s] = "createHousehold" => \E h \in households' : h \notin households
     /\ pc[s] = "deleteHousehold" =>
          req[s].household \in households /\ req[s].household \notin households'

LEMMA StatusAcks ==
  ASSUME IInv, NEW s \in Slots, Replies(s, "ok"),
         \/ CommitPickup(s) \/ SchedulePickup(s) \/ CancelPickup(s) \/ CommitCompletion(s)
  PROVE  IsKept(s)
<1> DEFINE p == req[s].pickup
           y == req[s].payment
<1>1. TypeOK /\ TablesTypeOK /\ Relies(pc[s], req[s])
  BY DEF IInv, LocksExclude, TypeOK
<1>2. p \in PickupIds
  BY <1>1 DEF CommitPickup, SchedulePickup, CancelPickup, CommitCompletion, Relies
<1>3. CASE CommitPickup(s)
  BY <1>1, <1>2, <1>3 DEF CommitPickup, IsKept, TablesTypeOK
<1>4. CASE SchedulePickup(s)
  <2>1. ScheduleWhere(pickups[p])
    BY <1>1, <1>4, ProceedIsNoReply DEF SchedulePickup
  <2>2. pickups'[p] = WithStatus(pickups[p], "scheduled")
    BY <1>1, <1>2, <1>4, <2>1 DEF SchedulePickup, TablesTypeOK
  <2>3. /\ pickups'[p].status = "scheduled"
        /\ pickups'[p].type # "electronic" \/ pickups'[p].safetyCheck
    BY <1>1, <1>2, <2>1, <2>2 DEF ScheduleWhere, WithStatus, TablesTypeOK, Pickup
  <2>4. QED
    BY <1>4, <2>3 DEF SchedulePickup, IsKept
<1>5. CASE CancelPickup(s)
  <2>1. CancelWhere(pickups[p])
    BY <1>1, <1>5, ProceedIsNoReply DEF CancelPickup
  <2>2. pickups'[p] = WithStatus(pickups[p], "canceled")
    BY <1>1, <1>2, <1>5, <2>1 DEF CancelPickup, TablesTypeOK
  <2>3. pickups'[p].status = "canceled"
    BY <1>1, <1>2, <2>1, <2>2 DEF CancelWhere, WithStatus, TablesTypeOK, Pickup
  <2>4. QED
    BY <1>5, <2>3 DEF CancelPickup, IsKept
<1>6. CASE CommitCompletion(s)
  <2>1. /\ y \in PaymentIds /\ pickups[p] # None
        /\ req[s].row = WithStatus(pickups[p], "completed")
    BY <1>1, <1>6 DEF CommitCompletion, Relies, CompleteWhere
  <2>2. pickups'[p] = req[s].row /\ payments'[y] = NewPayment(req[s].row, p)
    BY <1>1, <1>2, <1>6, <2>1 DEF CommitCompletion, TablesTypeOK
  <2>3. pickups'[p].status = "completed"
    BY <1>1, <1>2, <2>1, <2>2 DEF WithStatus, TablesTypeOK, Pickup
  <2>4. payments'[y].waste = p /\ payments'[y].status = "pending"
    BY <2>2 DEF NewPayment
  <2>5. QED
    BY <1>6, <2>3, <2>4 DEF CommitCompletion, IsKept
<1>7. QED
  BY <1>3, <1>4, <1>5, <1>6

LEMMA PaymentAcks ==
  ASSUME IInv, NEW s \in Slots, Replies(s, "ok"), InsertPayment(s) \/ ConfirmPayment(s)
  PROVE  IsKept(s)
<1> DEFINE p == req[s].pickup
           y == req[s].payment
           row == req[s].row
<1>1. TypeOK /\ TablesTypeOK /\ Relies(pc[s], req[s])
  BY DEF IInv, LocksExclude, TypeOK
<1>2. CASE InsertPayment(s)
  <2>1. row.household = pickups[p].household /\ row.type = pickups[p].type
    BY <1>1, <1>2 DEF InsertPayment, Relies
  <2>2. "ok" = PaymentInsertError(p, row)
    BY <1>1, <1>2, ReplyIs DEF InsertPayment
  <2>3. PICK z \in PaymentIds : payments' = [payments EXCEPT ![z] = NewPayment(row, p)]
    BY <1>2, <2>2 DEF InsertPayment
  <2>4. payments'[z] = NewPayment(pickups[p], p)
    BY <1>1, <2>1, <2>3 DEF TablesTypeOK, NewPayment
  <2>5. QED
    BY <1>2, <2>4 DEF InsertPayment, IsKept
<1>3. CASE ConfirmPayment(s)
  <2>1. y \in PaymentIds
    BY <1>1, <1>3 DEF ConfirmPayment, Relies
  <2>2. ConfirmWhere(payments[y])
    BY <1>1, <1>3, ReplyIs DEF ConfirmPayment
  <2>3. payments'[y] = Paid(payments[y], req[s].proof)
    BY <1>1, <1>3, <2>1, <2>2 DEF ConfirmPayment, TablesTypeOK
  <2>4. QED
    BY <1>3, <2>3 DEF ConfirmPayment, IsKept
<1>4. QED
  BY <1>2, <1>3

LEMMA HouseholdAcks ==
  ASSUME TypeOK, NEW s \in Slots, Replies(s, "ok"), InsertHousehold(s) \/ DeleteHousehold(s)
  PROVE  IsKept(s)
<1>1. CASE InsertHousehold(s)
  <2>1. \E h \in households' : h \notin households
    BY <1>1 DEF InsertHousehold, FreshHousehold
  <2>2. QED
    BY <1>1, <2>1 DEF InsertHousehold, IsKept
<1>2. CASE DeleteHousehold(s)
  <2>1. /\ req[s].household \in households
        /\ households' = households \ {req[s].household}
    BY <1>2, ReplyIs DEF DeleteHousehold
  <2>2. QED
    BY <1>2, <2>1 DEF DeleteHousehold, IsKept
<1>3. QED
  BY <1>1, <1>2

LEMMA AcksHold == Sound /\ Explained /\ [Next]_vars => [AcksAreKept]_vars
<1> SUFFICES ASSUME Sound, Explained, [Next]_vars, NEW s \in Slots, Replies(s, "ok")
             PROVE  IsKept(s)
  BY DEF AcksAreKept, IsKept
<1>1. IInv /\ TypeOK
  BY DEF Sound, IInv
<1>2. Serve(s)
  BY <1>1, ServeReplies
<1>3. CASE \/ CommitPickup(s) \/ SchedulePickup(s) \/ CancelPickup(s) \/ CommitCompletion(s)
           \/ InsertPayment(s) \/ ConfirmPayment(s)
           \/ InsertHousehold(s) \/ DeleteHousehold(s)
  BY <1>1, <1>3, StatusAcks, PaymentAcks, HouseholdAcks
<1>4. CASE ~(\/ CommitPickup(s) \/ SchedulePickup(s) \/ CancelPickup(s) \/ CommitCompletion(s)
             \/ InsertPayment(s) \/ ConfirmPayment(s)
             \/ InsertHousehold(s) \/ DeleteHousehold(s))
  <2>1. pc[s] \notin {"createPickup.commit", "schedule.update", "cancel.update",
                      "complete.commit", "createPayment.insert", "confirm.update",
                      "createHousehold", "deleteHousehold"}
    BY <1>2, <1>4 DEF Serve, CheckPendingPayment,
       InsertPickup, ExplainSchedule, CompletePickup, ExplainComplete,
       InsertCompletionPayment, ExplainCancel, FindPickupToBill, FindPaymentToConfirm,
       PutProof, PutFails
  <2>2. QED
    BY <2>1 DEF IsKept
<1>5. QED
  BY <1>3, <1>4

\* An "ok" is given only when its effect is in the tables: no client is told
\* of a completion, a confirmation or a new row that did not happen.
THEOREM AcksKept == Spec => StepsAcknowledgeTruthfully
  BY AlwaysExplained, AcksHold, PTL DEF Spec, StepsAcknowledgeTruthfully


-----------------------------------------------------------------------------
(* Rule 1, as long as creations and bills of a household exclude each other. *)

Checked == {"createPickup.insert", "createPickup.commit"}
Billing == {"complete.commit", "createPayment.insert"}

\* While a creation is between its check and its end, no bill of its household
\* is about to be inserted or committed; a statement that may still take effect
\* after its client was answered counts.  (The code does not see to it: a lock
\* on the household, taken by both, would.)
BillsApart ==
  \A s, t \in Slots :
    pc[s] \in Checked /\ pc[t] \in Billing => req[t].row.household # req[s].household

\* Between the check and the commit the household has no pending payment.
Unbilled == \A s \in Slots : pc[s] \in Checked => ~HasPendingByHousehold(req[s].household)

\* A request gets past the check only if it found nothing pending, and it goes
\* on with the household it came with.
LEMMA CheckedWith ==
  ASSUME NEW s \in Slots, TypeOK, Start(s) \/ Serve(s) \/ Fail(s), pc'[s] \in Checked
  PROVE  /\ req'[s].household = req[s].household
         /\ UNCHANGED payments
         /\ pc[s] \in Checked \/ ~HasPendingByHousehold(req[s].household)
<1>1. req[s] \in Request
  BY DEF TypeOK
<1>2. ASSUME NEW l, NEW r, l \notin Checked, Proceed(s, l, r) PROVE FALSE
  BY <1>1, <1>2 DEF Proceed, Reply, TypeOK, Checked
<1>3. ASSUME NEW a, Reply(s, a) PROVE FALSE
  BY <1>1, <1>3 DEF Reply, TypeOK, Checked
<1>4. CASE CheckPendingPayment(s)
  <2>1. /\ ~HasPendingByHousehold(req[s].household) /\ UNCHANGED payments
        /\ Proceed(s, "createPickup.insert", req[s])
    BY <1>3, <1>4 DEF CheckPendingPayment
  <2>2. req'[s] = req[s]
    BY <1>1, <1>3, <2>1 DEF Proceed, TypeOK
  <2>3. QED
    BY <2>1, <2>2
<1>5. CASE InsertPickup(s)
  <2>1. pc[s] \in Checked /\ UNCHANGED payments
    BY <1>5 DEF InsertPickup, Checked
  <2>2. PICK p \in PickupIds : Proceed(s, "createPickup.commit", [req[s] EXCEPT !.pickup = p])
    BY <1>3, <1>5 DEF InsertPickup
  <2>3. [req[s] EXCEPT !.pickup = p].household = req[s].household
    BY <1>1 DEF Request
  <2>4. req'[s].household = req[s].household
    BY <1>1, <1>3, <2>2, <2>3 DEF Proceed, TypeOK
  <2>5. QED
    BY <2>1, <2>4
<1>6. CASE Serve(s) /\ ~CheckPendingPayment(s) /\ ~InsertPickup(s)
  <2>1. \/ \E a : Reply(s, a)
        \/ \E l, r : l \notin Checked /\ Proceed(s, l, r)
    BY <1>6 DEF Serve, InsertHousehold, DeleteHousehold, CommitPickup, SchedulePickup,
       ExplainSchedule, CompletePickup, ExplainComplete, InsertCompletionPayment,
       CommitCompletion, CancelPickup, ExplainCancel, FindPickupToBill, InsertPayment,
       FindPaymentToConfirm, PutProof, PutFails, ConfirmPayment, Checked
  <2>2. QED
    BY <1>2, <1>3, <2>1
<1>7. CASE Start(s)
  <2>1. ASSUME NEW op, NEW l, NEW r, l \notin Checked, Begin(s, op, l, r) PROVE FALSE
    BY <1>1, <2>1 DEF Begin, TypeOK, Checked
  <2>2. \E op, l, r : l \notin Checked /\ Begin(s, op, l, r)
    <3>1. CASE StartCreateHousehold(s)
      BY <3>1 DEF StartCreateHousehold, Checked
    <3>2. CASE \E h \in Households : StartDeleteHousehold(s, h)
      BY <3>2 DEF StartDeleteHousehold, Checked
    <3>3. CASE \E h \in Households, form \in PickupForms : StartCreatePickup(s, h, form)
      BY <3>3 DEF StartCreatePickup, Checked
    <3>4. ASSUME NEW p, NEW op,
                 NEW l \in {"schedule.update", "complete.update", "cancel.update"},
                 StartOnPickup(s, op, l, p)
          PROVE  \E r : l \notin Checked /\ Begin(s, op, l, r)
      BY <3>4 DEF StartOnPickup, Checked
    <3>5. CASE \E h \in Households, p \in PickupIds : StartCreatePayment(s, h, p)
      BY <3>5 DEF StartCreatePayment, Checked
    <3>6. CASE \E y \in PaymentIds : StartConfirm(s, y)
      BY <3>6 DEF StartConfirm, Checked
    <3>7. QED
      BY <1>7, <3>1, <3>2, <3>3, <3>4, <3>5, <3>6 DEF Start
  <2>3. QED
    BY <2>1, <2>2
<1>8. CASE Fail(s)
  <2>1. UNCHANGED payments
    BY <1>8 DEF Fail, Abandon, LateDrop
  <2>2. pc'[s] = pc[s] /\ req'[s] = req[s]
    BY <1>1, <1>3, <1>8 DEF Fail, Abandon, LateDrop, TypeOK, Checked
  <2>3. QED
    BY <2>1, <2>2
<1>9. QED
  BY <1>4, <1>5, <1>6, <1>7, <1>8

\* A payment is pending because it was, or because a bill is inserted now.
LEMMA PendingAppears ==
  ASSUME IInv, [Next]_vars, NEW y \in PaymentIds,
         payments'[y] # None, payments'[y].status = "pending"
  PROVE  \/ payments[y] = payments'[y]
         \/ \E t \in Slots : pc[t] \in Billing /\ payments'[y].household = req[t].row.household
<1>1. TablesTypeOK
  BY DEF IInv, TypeOK
<1>2. ASSUME NEW t \in Slots, NEW z \in PaymentIds, NEW p, pc[t] \in Billing,
             payments' = [payments EXCEPT ![z] = NewPayment(req[t].row, p)]
      PROVE  \/ payments[y] = payments'[y]
             \/ pc[t] \in Billing /\ payments'[y].household = req[t].row.household
  BY <1>1, <1>2 DEF TablesTypeOK, NewPayment
<1>3. CASE UNCHANGED payments
  BY <1>3
<1>4. CASE \E t \in Slots : CommitCompletion(t)
  <2>1. PICK t \in Slots : CommitCompletion(t)
    BY <1>4
  <2>2. req[t].payment \in PaymentIds /\ pc[t] \in Billing
    BY <2>1 DEF IInv, LocksExclude, Relies, CommitCompletion, Billing
  <2>3. payments' = [payments EXCEPT ![req[t].payment] = NewPayment(req[t].row, req[t].pickup)]
    BY <2>1 DEF CommitCompletion
  <2>4. QED
    BY <1>2, <2>2, <2>3
<1>5. CASE \E t \in Slots : InsertPayment(t)
  <2>1. PICK t \in Slots : InsertPayment(t)
    BY <1>5
  <2>2. pc[t] \in Billing
    BY <2>1 DEF InsertPayment, Billing
  <2>3. \/ UNCHANGED payments
        \/ \E z \in PaymentIds :
             payments' = [payments EXCEPT ![z] = NewPayment(req[t].row, req[t].pickup)]
    BY <2>1 DEF InsertPayment
  <2>4. QED
    BY <1>2, <1>3, <2>2, <2>3
<1>6. CASE \E t \in Slots : ConfirmPayment(t)
  <2>1. PICK t \in Slots : ConfirmPayment(t)
    BY <1>6
  <2>2. CASE ConfirmWhere(payments[req[t].payment])
    <3>1. req[t].payment \in PaymentIds
      BY <2>1 DEF IInv, LocksExclude, Relies, ConfirmPayment
    <3>2. /\ payments' = [payments EXCEPT ![req[t].payment] =
                            Paid(payments[req[t].payment], req[t].proof)]
          /\ payments[req[t].payment] \in Payment
      BY <1>1, <2>1, <2>2, <3>1 DEF ConfirmPayment, ConfirmWhere, TablesTypeOK
    <3>3. y # req[t].payment
      BY <1>1, <3>1, <3>2 DEF Paid, Payment, TablesTypeOK
    <3>4. QED
      BY <1>1, <3>1, <3>2, <3>3 DEF TablesTypeOK
  <2>3. CASE ~ConfirmWhere(payments[req[t].payment])
    BY <1>3, <2>1, <2>3 DEF ConfirmPayment
  <2>4. QED
    BY <2>2, <2>3
<1>7. ASSUME NEW t \in Slots, Serve(t)
      PROVE  CommitCompletion(t) \/ InsertPayment(t) \/ ConfirmPayment(t) \/ UNCHANGED payments
  BY <1>7 DEF Serve, InsertHousehold, DeleteHousehold, CheckPendingPayment, InsertPickup,
     CommitPickup, SchedulePickup, ExplainSchedule, CompletePickup, ExplainComplete,
     InsertCompletionPayment, CancelPickup, ExplainCancel, FindPickupToBill,
     FindPaymentToConfirm, PutProof, PutFails
<1>8. ASSUME NEW t \in Slots, Start(t) \/ Fail(t) PROVE UNCHANGED payments
  BY <1>8 DEF Start, StartCreateHousehold, StartDeleteHousehold, StartCreatePickup,
              StartOnPickup, StartCreatePayment, StartConfirm, Begin, Fail, Abandon, LateDrop
<1>9. CASE Worker \/ Tick \/ UNCHANGED vars
  BY <1>3, <1>9 DEF Worker, SweepTick, SweepScan, SweepRow, SweepCommit, SweepFail, Tick, vars
<1>10. QED
  BY <1>3, <1>4, <1>5, <1>6, <1>7, <1>8, <1>9 DEF Next

LEMMA UnbilledLasts ==
  ASSUME Sound, Explained, BillsApart, Unbilled, [Next]_vars
  PROVE  Unbilled'
<1> SUFFICES ASSUME NEW s \in Slots, pc'[s] \in Checked, HasPendingByHousehold(req[s].household)'
             PROVE  FALSE
  BY DEF Unbilled
<1>1. IInv /\ TypeOK /\ TablesTypeOK /\ TypeOK'
  BY NextIInv DEF Sound, IInv, TypeOK
<1>2. PICK y \in PaymentIds :
        /\ payments'[y] # None /\ payments'[y].status = "pending"
        /\ payments'[y].household = req'[s].household
  BY <1>1 DEF HasPendingByHousehold, Stored, TypeOK, TablesTypeOK
<1>3. \/ pc'[s] = pc[s] /\ req'[s] = req[s]
      \/ Start(s) \/ Serve(s) \/ Fail(s)
  <2>1. ASSUME NEW t \in Slots, Start(t) \/ Serve(t) \/ Fail(t), t # s
        PROVE  pc'[s] = pc[s] /\ req'[s] = req[s]
    <3>1. Moves(t)
      BY <1>1, <2>1, StartMoves, ServeMoves, FailMoves
    <3>2. QED
      BY <1>1, <2>1, <3>1 DEF Moves, TypeOK
  <2>2. CASE Worker \/ Tick \/ UNCHANGED vars
    BY <2>2 DEF Worker, SweepTick, SweepScan, SweepRow, SweepCommit, SweepFail, Tick, vars, slots
  <2>3. QED
    BY <2>1, <2>2 DEF Next
<1>4. /\ req'[s].household = req[s].household
      /\ pc[s] \in Checked \/ (UNCHANGED payments /\ ~HasPendingByHousehold(req[s].household))
  BY <1>1, <1>3, CheckedWith
<1>5. ~HasPendingByHousehold(req[s].household)
  BY <1>4 DEF Unbilled
<1>6. payments[y] # payments'[y]
  <2>1. DOMAIN payments = PaymentIds
    BY <1>1 DEF TablesTypeOK
  <2>2. QED
    BY <1>2, <1>4, <1>5, <2>1 DEF HasPendingByHousehold, Stored
<1>7. pc[s] \in Checked
  BY <1>4, <1>6
<1>8. PICK t \in Slots : pc[t] \in Billing /\ payments'[y].household = req[t].row.household
  BY <1>1, <1>2, <1>6, PendingAppears
<1>9. QED
  BY <1>2, <1>4, <1>7, <1>8 DEF BillsApart

LEMMA UnbilledKeepsRule1 == Sound /\ Unbilled /\ [Next]_vars => [Rule1]_vars
<1> SUFFICES ASSUME Sound, Unbilled, [Next]_vars, NEW p \in Stored(pickups') \ Stored(pickups),
                    NEW y \in Stored(payments), payments[y].household = pickups'[p].household
             PROVE  payments[y].status # "pending"
  BY DEF Rule1
<1>1. IInv /\ TypeOK /\ TypeOK' /\ TablesTypeOK
  BY NextIInv DEF Sound, IInv, TypeOK
<1>2. p \in PickupIds /\ pickups[p] = None /\ pickups'[p] # None
  BY <1>1 DEF TypeOK, TablesTypeOK, Stored
<1>3. PICK t \in Slots : CommitPickup(t) /\ req[t].pickup = p
  BY <1>1, <1>2, PickupAppears
<1>4. pickups'[p] = req[t].row /\ req[t].row.household = req[t].household
  <2>1. Relies("createPickup.commit", req[t])
    BY <1>1, <1>3 DEF IInv, LocksExclude, CommitPickup
  <2>2. \E form \in PickupForms :
          req[t].row = NewPickup(req[t].household, form, req[t].row.createdAt)
    BY <2>1 DEF Relies
  <2>3. req[t].row.household = req[t].household
    BY <2>2 DEF NewPickup
  <2>4. QED
    BY <1>1, <1>2, <1>3, <2>3 DEF CommitPickup, TablesTypeOK
<1>5. ~HasPendingByHousehold(req[t].household)
  BY <1>3 DEF Unbilled, CommitPickup, Checked
<1>6. QED
  BY <1>4, <1>5 DEF HasPendingByHousehold

\* README.md, Rule 1: the one race that breaks it is a bill of the household that
\* is inserted or committed between the check and the commit of the creation.
\* Whatever else overlaps, fails or takes effect late, for any number of
\* requests, a service that keeps these apart keeps the rule.
THEOREM Rule1WithBillsApart == Spec /\ []BillsApart => StepsKeepRule1
<1>1. Init => Unbilled
  BY DEF Init, Unbilled, Checked
<1>2. Sound /\ Explained /\ BillsApart /\ Unbilled /\ [Next]_vars => Unbilled'
  BY UnbilledLasts
<1>3. Sound /\ Unbilled /\ [Next]_vars => [Rule1]_vars
  BY UnbilledKeepsRule1
<1>4. QED
  BY <1>1, <1>2, <1>3, AlwaysExplained, PTL DEF Spec, StepsKeepRule1
=============================================================================
