------------------------------- MODULE Ledger -------------------------------
(***************************************************************************)
(* What the service promises about its data, without requests, statements, *)
(* transactions, locks or failures: each business operation happens at one *)
(* instant or not at all.  WasteBackend is shown to implement this.        *)
(*                                                                         *)
(* The rule that a household with a pending payment gets no new pickup is  *)
(* absent on purpose: concurrent requests of the code do not keep it (see  *)
(* Rule1 in Database and the run rule1_concurrent).                        *)
(***************************************************************************)
EXTENDS Database

Init == TablesInit

\* Rows are only ever added, except that a household nobody refers to can go.
CreateHousehold(h) ==
  /\ households' = households \cup {h}
  /\ UNCHANGED <<pickups, payments, objects, clock>>

DeleteHousehold(h) ==
  /\ \A p \in Stored(pickups) : pickups[p].household # h
  /\ \A y \in Stored(payments) : payments[y].household # h
  /\ households' = households \ {h}
  /\ UNCHANGED <<pickups, payments, objects, clock>>

\* The request may have read the clock a while ago.
CreatePickup(p, h, form, now) ==
  /\ pickups[p] = None
  /\ h \in households
  /\ now <= clock
  /\ pickups' = [pickups EXCEPT ![p] = NewPickup(h, form, now)]
  /\ UNCHANGED <<households, payments, objects, clock>>

Schedule(p) ==
  /\ pickups[p] # None
  /\ CanSchedule(pickups[p]) = "ok"
  /\ pickups' = [pickups EXCEPT ![p] = WithStatus(@, "scheduled")]
  /\ UNCHANGED <<households, payments, objects, clock>>

\* Only an unbilled pickup completes, and completing it bills it.
Complete(p, y) ==
  /\ pickups[p] # None
  /\ pickups[p].status = "scheduled"
  /\ \A z \in Stored(payments) : payments[z].waste # p
  /\ payments[y] = None
  /\ pickups' = [pickups EXCEPT ![p] = WithStatus(@, "completed")]
  /\ payments' = [payments EXCEPT ![y] = NewPayment(pickups[p], p)]
  /\ UNCHANGED <<households, objects, clock>>

Open(p) == pickups[p] # None /\ pickups[p].status \notin {"completed", "canceled"}

Cancel(p) ==
  /\ Open(p)
  /\ pickups' = [pickups EXCEPT ![p] = WithStatus(@, "canceled")]
  /\ UNCHANGED <<households, payments, objects, clock>>

\* One run of the auto-cancel worker: nothing but open organic pickups whose
\* time is over, any number of them, all at once.
Sweep(P) ==
  /\ \A p \in P : /\ Open(p)
                  /\ pickups[p].type = "organic"
                  /\ clock > pickups[p].createdAt + OrganicTTL
  /\ pickups' = [p \in PickupIds |->
                   IF p \in P THEN WithStatus(pickups[p], "canceled") ELSE pickups[p]]
  /\ UNCHANGED <<households, payments, objects, clock>>

CreatePayment(p, y) ==
  /\ pickups[p] # None
  /\ \A z \in Stored(payments) : payments[z].waste # p
  /\ payments[y] = None
  /\ payments' = [payments EXCEPT ![y] = NewPayment(pickups[p], p)]
  /\ UNCHANGED <<households, pickups, objects, clock>>

StoreProof(y, k) ==
  /\ objects[k] = None
  /\ objects' = [objects EXCEPT ![k] = y]
  /\ UNCHANGED <<households, pickups, payments, clock>>

Confirm(y, k) ==
  /\ payments[y] # None
  /\ payments[y].status = "pending"
  /\ objects[k] = y
  /\ payments' = [payments EXCEPT ![y] = Paid(@, k)]
  /\ UNCHANGED <<households, pickups, objects, clock>>

Tick == clock' = clock + 1 /\ UNCHANGED <<households, pickups, payments, objects>>

Next ==
  \/ \E h \in Households : CreateHousehold(h) \/ DeleteHousehold(h)
  \/ \E p \in PickupIds, h \in Households, form \in PickupForms, now \in 0 .. clock :
       CreatePickup(p, h, form, now)
  \/ \E p \in PickupIds : Schedule(p) \/ Cancel(p)
  \/ \E P \in SUBSET PickupIds : Sweep(P)
  \/ \E p \in PickupIds, y \in PaymentIds : Complete(p, y) \/ CreatePayment(p, y)
  \/ \E y \in PaymentIds, k \in ProofKeys : StoreProof(y, k) \/ Confirm(y, k)
  \/ Tick

Spec == Init /\ [][Next]_tables
=============================================================================
