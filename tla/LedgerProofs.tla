---------------------------- MODULE LedgerProofs ----------------------------
(***************************************************************************)
(* An operation of the ledger keeps the types and the integrity of the     *)
(* data and changes nothing final.  WasteBackend takes no other steps      *)
(* (BackendProofs), and Reads reads beside such steps, so both rely on     *)
(* these lemmas.                                                           *)
(***************************************************************************)
EXTENDS LedgerSteps, TLAPS

USE DEF tables, LedgerSpec!tables

\* Rows written by the statements are rows of their tables.
LEMMA RowTypes ==
  /\ \A row \in Pickup, status \in PickupStatus : WithStatus(row, status) \in Pickup
  /\ \A row \in Payment, k \in ProofKeys : Paid(row, k) \in Payment
  /\ \A h \in Households, form \in PickupForms, now \in Nat : NewPickup(h, form, now) \in Pickup
  /\ \A row \in Pickup, p \in PickupIds : NewPayment(row, p) \in Payment
<1>1. \A h \in Households, form \in PickupForms, now \in Nat : NewPickup(h, form, now) \in Pickup
  BY FormAssumption DEF NewPickup, Pickup, PickupStatus
<1>2. \A row \in Pickup, p \in PickupIds : NewPayment(row, p) \in Payment
  BY DEF NewPayment, AmountFor, Pickup, Payment, PaymentStatus
<1>3. \A row \in Pickup, status \in PickupStatus : WithStatus(row, status) \in Pickup
  BY DEF WithStatus, Pickup
<1>4. \A row \in Payment, k \in ProofKeys : Paid(row, k) \in Payment
  BY DEF Paid, Payment, PaymentStatus
<1>5. QED
  BY <1>1, <1>2, <1>3, <1>4

\* None is not a row, so a lookup that is not None yields one.
LEMMA NoneIsNone ==
  /\ None \notin Households /\ None \notin PickupIds /\ None \notin PaymentIds
  /\ None \notin ProofKeys /\ None \notin Pickup /\ None \notin Payment
  BY NoneIsNoValue

LEMMA SameOperators ==
  /\ \A row, status : LedgerSpec!WithStatus(row, status) = WithStatus(row, status)
  /\ \A row, k : LedgerSpec!Paid(row, k) = Paid(row, k)
  /\ \A row, p : LedgerSpec!NewPayment(row, p) = NewPayment(row, p)
  /\ \A h, form, now : LedgerSpec!NewPickup(h, form, now) = NewPickup(h, form, now)
  BY DEF WithStatus, LedgerSpec!WithStatus, Paid, LedgerSpec!Paid, NewPayment,
         LedgerSpec!NewPayment, AmountFor, LedgerSpec!AmountFor, NewPickup,
         LedgerSpec!NewPickup

-----------------------------------------------------------------------------
(* The integrity of the data.                                              *)

LEMMA StoredRows ==
  ASSUME TablesTypeOK
  PROVE  /\ Stored(pickups) = {p \in PickupIds : pickups[p] # None}
         /\ Stored(payments) = {y \in PaymentIds : payments[y] # None}
         /\ Stored(objects) = {k \in ProofKeys : objects[k] # None}
         /\ \A p \in Stored(pickups) : pickups[p] \in Pickup
         /\ \A y \in Stored(payments) : payments[y] \in Payment
  BY DEF TablesTypeOK, Stored

LEMMA StoredRowsNext ==
  ASSUME TablesTypeOK'
  PROVE  /\ Stored(pickups)' = {p \in PickupIds : pickups'[p] # None}
         /\ Stored(payments)' = {y \in PaymentIds : payments'[y] # None}
         /\ \A p \in Stored(pickups)' : pickups'[p] \in Pickup
         /\ \A y \in Stored(payments)' : payments'[y] \in Payment
  BY DEF TablesTypeOK, Stored

\* Schedule, Cancel and the sweep move open pickups and leave the rest alone.
LEMMA StatusMoves ==
  ASSUME TablesTypeOK, TablesTypeOK', Integrity,
         UNCHANGED <<households, payments, objects>>,
         \A p \in PickupIds :
           \/ pickups'[p] = pickups[p]
           \/ /\ pickups[p] # None /\ pickups'[p] # None
              /\ pickups'[p].household = pickups[p].household
              /\ pickups'[p].type = pickups[p].type
              /\ pickups'[p].safetyCheck = pickups[p].safetyCheck
              /\ \/ pickups'[p].status = "canceled"
                 \/ /\ pickups'[p].status = "scheduled"
                    /\ pickups[p].type # "electronic" \/ pickups[p].safetyCheck
  PROVE  Integrity'
<1>1. Stored(pickups)' = Stored(pickups) /\ Stored(payments)' = Stored(payments)
  BY StoredRows, StoredRowsNext
<1>2. \A y \in Stored(payments) : payments[y].waste \in PickupIds
  BY StoredRows DEF Payment
<1>3. Stored(pickups) \subseteq PickupIds
  BY StoredRows
<1>4. BillMatchesPickup'
  BY <1>1, <1>2, <1>3 DEF Integrity, BillMatchesPickup, AmountFor
<1>5. CompletedIsBilledOnce'
  BY <1>1, <1>3 DEF Integrity, CompletedIsBilledOnce, Billed
<1>6. PaidHasProof'
  BY <1>1 DEF Integrity, PaidHasProof
<1>7. UnsafeStaysUnscheduled'
  BY <1>1, <1>3 DEF Integrity, UnsafeStaysUnscheduled
<1>8. QED
  BY <1>4, <1>5, <1>6, <1>7 DEF Integrity

\* A bill that is inserted, perhaps together with the completion of its pickup.
LEMMA BillInserted ==
  ASSUME TablesTypeOK, TablesTypeOK', Integrity, UNCHANGED <<households, objects>>,
         NEW p \in PickupIds, NEW y \in PaymentIds,
         pickups[p] # None, payments[y] = None,
         \A z \in Stored(payments) : payments[z].waste # p,
         payments' = [payments EXCEPT ![y] = NewPayment(pickups[p], p)],
         \/ UNCHANGED pickups
         \/ /\ pickups[p].status = "scheduled"
            /\ pickups' = [pickups EXCEPT ![p] = WithStatus(@, "completed")]
  PROVE  Integrity'
<1>1. pickups[p] \in Pickup
  BY DEF TablesTypeOK
<1>2. \A q \in PickupIds :
        /\ q # p => pickups'[q] = pickups[q]
        /\ pickups[q] = None <=> pickups'[q] = None
        /\ pickups'[q] # None =>
             /\ pickups'[q].household = pickups[q].household
             /\ pickups'[q].type = pickups[q].type
             /\ pickups'[q].safetyCheck = pickups[q].safetyCheck
  <2>1. WithStatus(pickups[p], "completed") \in Pickup
    BY <1>1, RowTypes DEF PickupStatus
  <2>2. QED
    BY <1>1, <2>1, NoneIsNone DEF TablesTypeOK, WithStatus, Pickup
<1>3. NewPayment(pickups[p], p) \in Payment
  BY <1>1, RowTypes
<1>4. /\ \A z \in PaymentIds : z # y => payments'[z] = payments[z]
      /\ payments'[y] = NewPayment(pickups[p], p) /\ payments'[y] # None
  BY <1>3, NoneIsNone DEF TablesTypeOK
<1>5. Stored(pickups)' = Stored(pickups) /\ Stored(payments)' = Stored(payments) \cup {y}
  <2>1. Stored(pickups)' = Stored(pickups)
    BY <1>2, StoredRows, StoredRowsNext
  <2>2. \A z : z \in Stored(payments)' <=> z \in Stored(payments) \/ z = y
    <3>1. /\ \A z : z \in Stored(payments)' <=> z \in PaymentIds /\ payments'[z] # None
          /\ \A z : z \in Stored(payments) <=> z \in PaymentIds /\ payments[z] # None
      BY StoredRows, StoredRowsNext
    <3>2. \A z \in PaymentIds : payments'[z] # None <=> payments[z] # None \/ z = y
      BY <1>4
    <3>3. QED
      BY <3>1, <3>2
  <2>3. QED
    BY <2>1, <2>2
<1>6. Stored(pickups) \subseteq PickupIds /\ y \notin Stored(payments)
  BY StoredRows
<1>7. /\ payments'[y].waste = p /\ payments'[y].household = pickups[p].household
      /\ payments'[y].amount = AmountFor(pickups[p].type)
      /\ payments'[y].status = "pending" /\ payments'[y].proof = None
  BY <1>4 DEF NewPayment
<1>8. \A z \in Stored(payments) : payments[z].waste \in PickupIds /\ payments'[z] = payments[z]
  BY <1>4, <1>6, StoredRows DEF Payment
<1>9. BillMatchesPickup'
  <2>1. \A q \in Stored(pickups)' : pickups'[q].household \in households'
    BY <1>2, <1>5, <1>6, StoredRowsNext DEF Integrity, BillMatchesPickup
  <2>2. ASSUME NEW z \in Stored(payments)'
        PROVE  /\ pickups'[payments'[z].waste] # None
               /\ payments'[z].household = pickups'[payments'[z].waste].household
               /\ payments'[z].amount = AmountFor(pickups'[payments'[z].waste].type)
    <3>1. CASE z = y
      BY <1>2, <1>7, <3>1
    <3>2. CASE z # y
      <4>1. /\ z \in Stored(payments) /\ payments'[z] = payments[z]
            /\ payments[z].waste \in PickupIds
        BY <1>5, <1>8, <2>2, <3>2
      <4>2. /\ pickups[payments[z].waste] # None
            /\ payments[z].household = pickups[payments[z].waste].household
            /\ payments[z].amount = AmountFor(pickups[payments[z].waste].type)
        BY <4>1 DEF Integrity, BillMatchesPickup
      <4>3. QED
        BY <1>2, <4>1, <4>2
    <3>3. QED
      BY <3>1, <3>2
  <2>3. QED
    BY <2>1, <2>2 DEF BillMatchesPickup, AmountFor
<1>10. CompletedIsBilledOnce'
  <2>1. ASSUME NEW q \in Stored(pickups)', pickups'[q].status = "completed"
        PROVE  \E z \in Stored(payments)' : payments'[z].waste = q
    <3>1. CASE q = p
      BY <1>5, <1>7, <3>1
    <3>2. CASE q # p
      <4>1. q \in Stored(pickups) /\ pickups[q].status = "completed"
        BY <1>2, <1>5, <1>6, <2>1, <3>2
      <4>2. PICK z \in Stored(payments) : payments[z].waste = q
        BY <4>1 DEF Integrity, CompletedIsBilledOnce, Billed
      <4>3. QED
        BY <1>5, <1>8, <4>2
    <3>3. QED
      BY <3>1, <3>2
  <2>2. ASSUME NEW x \in Stored(payments)', NEW z \in Stored(payments)',
               payments'[x].waste = payments'[z].waste
        PROVE  x = z
    <3>1. \A w \in Stored(payments)' : w # y =>
            w \in Stored(payments) /\ payments'[w] = payments[w] /\ payments'[w].waste # p
      BY <1>5, <1>8
    <3>2. CASE x # y /\ z # y
      <4>1. /\ x \in Stored(payments) /\ z \in Stored(payments)
            /\ payments[x].waste = payments[z].waste
        BY <2>2, <3>1, <3>2
      <4>2. QED
        BY <4>1 DEF Integrity, CompletedIsBilledOnce
    <3>3. payments'[y].waste = p
      BY <1>7
    <3>4. CASE x = y
      BY <2>2, <3>1, <3>3, <3>4
    <3>5. CASE z = y
      BY <2>2, <3>1, <3>3, <3>5
    <3>6. QED
      BY <3>2, <3>4, <3>5
  <2>3. QED
    BY <2>1, <2>2 DEF CompletedIsBilledOnce, Billed
<1>11. PaidHasProof'
  BY <1>5, <1>7, <1>8 DEF Integrity, PaidHasProof
<1>12. UnsafeStaysUnscheduled'
  <2>1. ASSUME NEW q \in Stored(pickups)', pickups'[q].type = "electronic",
               ~pickups'[q].safetyCheck
        PROVE  pickups'[q].status \in {"pending", "canceled"}
    <3>1. /\ q \in Stored(pickups) /\ pickups[q].type = "electronic"
          /\ ~pickups[q].safetyCheck
      BY <1>2, <1>5, <1>6, <2>1, StoredRowsNext
    <3>2. pickups[q].status \in {"pending", "canceled"}
      BY <3>1 DEF Integrity, UnsafeStaysUnscheduled
    <3>3. QED
      BY <1>2, <1>6, <3>1, <3>2
  <2>2. QED
    BY <2>1 DEF UnsafeStaysUnscheduled
<1>13. QED
  BY <1>9, <1>10, <1>11, <1>12 DEF Integrity

LEMMA PickupInserted ==
  ASSUME TablesTypeOK, TablesTypeOK', Integrity,
         UNCHANGED <<households, payments, objects>>,
         NEW p \in PickupIds, NEW row \in Pickup, pickups[p] = None,
         row.household \in households, row.status = "pending",
         pickups' = [pickups EXCEPT ![p] = row]
  PROVE  Integrity'
<1>1. /\ \A q \in PickupIds : q # p => pickups'[q] = pickups[q]
      /\ pickups'[p] = row /\ row # None
  BY NoneIsNone DEF TablesTypeOK
<1>2. /\ \A q : q \in Stored(pickups)' <=> q \in Stored(pickups) \/ q = p
      /\ Stored(payments)' = Stored(payments)
  <2>1. \A q : q \in Stored(pickups)' <=> q \in PickupIds /\ pickups'[q] # None
    BY StoredRowsNext
  <2>2. \A q : q \in Stored(pickups) <=> q \in PickupIds /\ pickups[q] # None
    BY StoredRows
  <2>3. Stored(payments)' = Stored(payments)
    BY StoredRows, StoredRowsNext
  <2>4. QED
    BY <1>1, <2>1, <2>2, <2>3
<1>3. /\ \A q \in Stored(pickups) : q \in PickupIds /\ q # p
      /\ \A y \in Stored(payments) : payments[y].waste \in PickupIds
  BY StoredRows DEF Payment
<1>4. BillMatchesPickup'
  <2>1. \A q \in Stored(pickups)' : pickups'[q].household \in households'
    BY <1>1, <1>2, <1>3 DEF Integrity, BillMatchesPickup
  <2>2. ASSUME NEW y \in Stored(payments)'
        PROVE  /\ pickups'[payments'[y].waste] # None
               /\ payments'[y].household = pickups'[payments'[y].waste].household
               /\ payments'[y].amount = AmountFor(pickups'[payments'[y].waste].type)
    BY <1>1, <1>2, <1>3 DEF Integrity, BillMatchesPickup
  <2>3. QED
    BY <2>1, <2>2 DEF BillMatchesPickup, AmountFor
<1>5. CompletedIsBilledOnce'
  BY <1>1, <1>2, <1>3 DEF Integrity, CompletedIsBilledOnce, Billed
<1>6. PaidHasProof'
  BY <1>2 DEF Integrity, PaidHasProof
<1>7. UnsafeStaysUnscheduled'
  BY <1>1, <1>2, <1>3 DEF Integrity, UnsafeStaysUnscheduled
<1>8. QED
  BY <1>4, <1>5, <1>6, <1>7 DEF Integrity

\* Households come and go; a household somebody refers to does not go.
LEMMA HouseholdsChange ==
  ASSUME TablesTypeOK, Integrity, UNCHANGED <<pickups, payments, objects>>,
         \A p \in Stored(pickups) :
           pickups[p].household \in households => pickups[p].household \in households'
  PROVE  Integrity'
  BY DEF Integrity, BillMatchesPickup, AmountFor, CompletedIsBilledOnce, Billed,
         PaidHasProof, UnsafeStaysUnscheduled, Stored

\* A new object is not one an existing proof points at.
LEMMA ObjectStored ==
  ASSUME TablesTypeOK, TablesTypeOK', Integrity,
         UNCHANGED <<households, pickups, payments>>,
         NEW k \in ProofKeys, NEW y \in PaymentIds, objects[k] = None,
         objects' = [objects EXCEPT ![k] = y]
  PROVE  Integrity'
<1>1. /\ \A z \in Stored(payments) :
           /\ z \in PaymentIds
           /\ payments[z].proof # None => payments[z].proof \in ProofKeys
      /\ None \notin PaymentIds
  BY StoredRows, NoneIsNone DEF Payment
<1>2. \A j \in ProofKeys : j # k => objects'[j] = objects[j]
  BY DEF TablesTypeOK
<1>3. PaidHasProof'
  BY <1>1, <1>2 DEF Integrity, PaidHasProof, Stored
<1>4. BillMatchesPickup' /\ CompletedIsBilledOnce' /\ UnsafeStaysUnscheduled'
  BY DEF Integrity, BillMatchesPickup, AmountFor, CompletedIsBilledOnce, Billed,
         UnsafeStaysUnscheduled, Stored
<1>5. QED
  BY <1>3, <1>4 DEF Integrity

LEMMA PaymentConfirmed ==
  ASSUME TablesTypeOK, TablesTypeOK', Integrity,
         UNCHANGED <<households, pickups, objects>>,
         NEW k \in ProofKeys, NEW y \in PaymentIds,
         payments[y] # None, objects[k] = y,
         payments' = [payments EXCEPT ![y] = Paid(@, k)]
  PROVE  Integrity'
<1>1. payments[y] \in Payment /\ Paid(payments[y], k) \in Payment
  BY RowTypes DEF TablesTypeOK
<1>2. /\ \A z \in PaymentIds : z # y => payments'[z] = payments[z]
      /\ payments'[y] = Paid(payments[y], k) /\ payments'[y] # None
  BY <1>1, NoneIsNone DEF TablesTypeOK
<1>3. /\ payments'[y].household = payments[y].household
      /\ payments'[y].waste = payments[y].waste
      /\ payments'[y].amount = payments[y].amount
      /\ payments'[y].status = "paid" /\ payments'[y].proof = k /\ k # None
  <2>1. /\ Paid(payments[y], k).household = payments[y].household
        /\ Paid(payments[y], k).waste = payments[y].waste
        /\ Paid(payments[y], k).amount = payments[y].amount
        /\ Paid(payments[y], k).status = "paid"
        /\ Paid(payments[y], k).proof = k
    BY <1>1 DEF Paid, Payment
  <2>2. k # None
    BY NoneIsNone
  <2>3. QED
    BY <1>2, <2>1, <2>2
<1>4. /\ Stored(pickups)' = Stored(pickups)
      /\ Stored(payments)' = Stored(payments)
      /\ Stored(payments) \subseteq PaymentIds
  <2>1. \A z : z \in Stored(payments)' <=> z \in PaymentIds /\ payments'[z] # None
    BY StoredRowsNext
  <2>2. \A z : z \in Stored(payments) <=> z \in PaymentIds /\ payments[z] # None
    BY StoredRows
  <2>3. Stored(pickups)' = Stored(pickups)
    BY StoredRows, StoredRowsNext
  <2>4. \A z : z \in Stored(payments)' <=> z \in Stored(payments)
    <3>1. \A z \in PaymentIds : payments'[z] # None <=> payments[z] # None
      BY <1>2
    <3>2. QED
      BY <2>1, <2>2, <3>1
  <2>5. Stored(payments)' = Stored(payments)
    BY <2>4
  <2>6. QED
    BY <2>2, <2>3, <2>5
<1>5. \A z \in Stored(payments) :
        /\ payments'[z].household = payments[z].household
        /\ payments'[z].waste = payments[z].waste
        /\ payments'[z].amount = payments[z].amount
  BY <1>2, <1>3, <1>4
<1>6. BillMatchesPickup'
  BY <1>4, <1>5 DEF Integrity, BillMatchesPickup, AmountFor
<1>7. CompletedIsBilledOnce'
  <2>1. ASSUME NEW q \in Stored(pickups), pickups[q].status = "completed"
        PROVE  \E z \in Stored(payments) : payments'[z].waste = q
    <3>1. PICK z \in Stored(payments) : payments[z].waste = q
      BY <2>1 DEF Integrity, CompletedIsBilledOnce, Billed
    <3>2. QED
      BY <1>5, <3>1
  <2>2. ASSUME NEW x \in Stored(payments), NEW z \in Stored(payments),
               payments'[x].waste = payments'[z].waste
        PROVE  x = z
    BY <1>5, <2>2 DEF Integrity, CompletedIsBilledOnce
  <2>3. QED
    BY <1>4, <2>1, <2>2 DEF CompletedIsBilledOnce, Billed
<1>8. PaidHasProof'
  BY <1>2, <1>3, <1>4 DEF Integrity, PaidHasProof
<1>9. UnsafeStaysUnscheduled'
  BY <1>4 DEF Integrity, UnsafeStaysUnscheduled
<1>10. QED
  BY <1>6, <1>7, <1>8, <1>9 DEF Integrity

LEMMA NothingChanges ==
  ASSUME Integrity, UNCHANGED <<households, pickups, payments, objects>>
  PROVE  Integrity'
  BY DEF Integrity, BillMatchesPickup, AmountFor, CompletedIsBilledOnce, Billed,
         PaidHasProof, UnsafeStaysUnscheduled, Stored

-----------------------------------------------------------------------------
(* Every operation of the ledger keeps the data whole.                     *)

LEMMA LedgerKeepsIntegrity ==
  TablesTypeOK /\ TablesTypeOK' /\ Integrity /\ [LedgerSpec!Next]_tables => Integrity'
<1> SUFFICES ASSUME TablesTypeOK, TablesTypeOK', Integrity, [LedgerSpec!Next]_tables
             PROVE  Integrity'
  OBVIOUS
<1>1. ASSUME NEW h \in Households, LedgerSpec!CreateHousehold(h) PROVE Integrity'
  BY <1>1, HouseholdsChange DEF LedgerSpec!CreateHousehold
<1>2. ASSUME NEW h \in Households, LedgerSpec!DeleteHousehold(h) PROVE Integrity'
  BY <1>2, HouseholdsChange DEF LedgerSpec!DeleteHousehold, Stored, LedgerSpec!Stored
<1>3. ASSUME NEW p \in PickupIds, NEW h \in Households, NEW form \in PickupForms,
             NEW now \in 0 .. clock, LedgerSpec!CreatePickup(p, h, form, now)
      PROVE  Integrity'
  <2>1. NewPickup(h, form, now) \in Pickup
    BY RowTypes DEF TablesTypeOK
  <2>2. /\ NewPickup(h, form, now).household = h
        /\ NewPickup(h, form, now).status = "pending"
    BY DEF NewPickup
  <2>3. /\ pickups[p] = None /\ h \in households
        /\ pickups' = [pickups EXCEPT ![p] = NewPickup(h, form, now)]
        /\ UNCHANGED <<households, payments, objects>>
    BY <1>3, SameOperators DEF LedgerSpec!CreatePickup
  <2>4. QED
    BY <2>1, <2>2, <2>3, PickupInserted
<1>4. ASSUME NEW p \in PickupIds, LedgerSpec!Schedule(p) PROVE Integrity'
  <2>1. /\ pickups[p] \in Pickup /\ pickups[p] # None
        /\ pickups[p].type # "electronic" \/ pickups[p].safetyCheck
        /\ pickups' = [pickups EXCEPT ![p] = WithStatus(@, "scheduled")]
        /\ UNCHANGED <<households, payments, objects>>
    BY <1>4, SameOperators DEF LedgerSpec!Schedule, LedgerSpec!CanSchedule, TablesTypeOK
  <2>2. WithStatus(pickups[p], "scheduled") \in Pickup
    BY <2>1, RowTypes DEF PickupStatus
  <2>3. QED
    BY <2>1, <2>2, StatusMoves, NoneIsNone DEF WithStatus, Pickup, TablesTypeOK
<1>5. ASSUME NEW p \in PickupIds, LedgerSpec!Cancel(p) PROVE Integrity'
  <2>1. /\ pickups[p] \in Pickup /\ pickups[p] # None
        /\ pickups' = [pickups EXCEPT ![p] = WithStatus(@, "canceled")]
        /\ UNCHANGED <<households, payments, objects>>
    BY <1>5, SameOperators DEF LedgerSpec!Cancel, LedgerSpec!Open, TablesTypeOK
  <2>2. WithStatus(pickups[p], "canceled") \in Pickup
    BY <2>1, RowTypes DEF PickupStatus
  <2>3. QED
    BY <2>1, <2>2, StatusMoves, NoneIsNone DEF WithStatus, Pickup, TablesTypeOK
<1>6. ASSUME NEW P \in SUBSET PickupIds, LedgerSpec!Sweep(P) PROVE Integrity'
  <2>1. /\ \A p \in P : pickups[p] \in Pickup /\ pickups[p] # None
        /\ \A p \in PickupIds :
             pickups'[p] = IF p \in P THEN WithStatus(pickups[p], "canceled") ELSE pickups[p]
        /\ UNCHANGED <<households, payments, objects>>
    BY <1>6, SameOperators DEF LedgerSpec!Sweep, LedgerSpec!Open, TablesTypeOK
  <2>2. \A p \in P :
          LET row == WithStatus(pickups[p], "canceled") IN
            /\ row # None /\ row.status = "canceled"
            /\ row.household = pickups[p].household
            /\ row.type = pickups[p].type
            /\ row.safetyCheck = pickups[p].safetyCheck
    <3>1. \A p \in P : WithStatus(pickups[p], "canceled") \in Pickup
      BY <2>1, RowTypes DEF PickupStatus
    <3>2. QED
      BY <2>1, <3>1, NoneIsNone DEF WithStatus, Pickup
  <2>3. QED
    BY <2>1, <2>2, StatusMoves
<1>7. ASSUME NEW p \in PickupIds, NEW y \in PaymentIds,
             LedgerSpec!Complete(p, y) \/ LedgerSpec!CreatePayment(p, y)
      PROVE  Integrity'
  <2>1. /\ pickups[p] # None /\ payments[y] = None
        /\ \A z \in Stored(payments) : payments[z].waste # p
        /\ payments' = [payments EXCEPT ![y] = NewPayment(pickups[p], p)]
        /\ UNCHANGED <<households, objects>>
        /\ \/ UNCHANGED pickups
           \/ /\ pickups[p].status = "scheduled"
              /\ pickups' = [pickups EXCEPT ![p] = WithStatus(@, "completed")]
    BY <1>7, SameOperators DEF LedgerSpec!Complete, LedgerSpec!CreatePayment,
                               Stored, LedgerSpec!Stored
  <2>2. QED
    BY <2>1, BillInserted
<1>8. ASSUME NEW y \in PaymentIds, NEW k \in ProofKeys, LedgerSpec!StoreProof(y, k)
      PROVE  Integrity'
  BY <1>8, ObjectStored DEF LedgerSpec!StoreProof
<1>9. ASSUME NEW y \in PaymentIds, NEW k \in ProofKeys, LedgerSpec!Confirm(y, k)
      PROVE  Integrity'
  <2>1. /\ payments[y] # None /\ objects[k] = y
        /\ payments' = [payments EXCEPT ![y] = Paid(@, k)]
        /\ UNCHANGED <<households, pickups, objects>>
    BY <1>9, SameOperators DEF LedgerSpec!Confirm
  <2>2. QED
    BY <2>1, PaymentConfirmed
<1>10. CASE LedgerSpec!Tick \/ UNCHANGED tables
  BY <1>10, NothingChanges DEF LedgerSpec!Tick
<1>11. QED
  BY <1>1, <1>2, <1>3, <1>4, <1>5, <1>6, <1>7, <1>8, <1>9, <1>10 DEF LedgerSpec!Next

\* The seeded database is whole: its pickups are pending and of its households.
LEMMA InitIntegrity == TablesInit => Integrity
<1> SUFFICES ASSUME TablesInit PROVE Integrity
  OBVIOUS
<1>1. /\ households = SeedHouseholds /\ pickups = SeedPickups
      /\ payments = [y \in PaymentIds |-> None]
  BY DEF TablesInit
<1>2. Stored(payments) = {}
  BY <1>1 DEF Stored
<1>3. \A p \in Stored(pickups) :
        pickups[p].household \in households /\ pickups[p].status = "pending"
  BY <1>1, SeedAssumption
<1>4. QED
  BY <1>2, <1>3 DEF Integrity, BillMatchesPickup, CompletedIsBilledOnce, PaidHasProof,
                    UnsafeStaysUnscheduled

-----------------------------------------------------------------------------
(* What no operation of the ledger does.                                   *)

LEMMA LedgerKeepsFinalData ==
  TablesTypeOK /\ [LedgerSpec!Next]_tables => NothingFinalChanges
<1> SUFFICES ASSUME TablesTypeOK, [LedgerSpec!Next]_tables PROVE NothingFinalChanges
  OBVIOUS
<1>1. /\ \A p \in Stored(pickups) :
           p \in PickupIds /\ pickups[p] \in Pickup /\ pickups[p] # None
      /\ \A y \in Stored(payments) :
           y \in PaymentIds /\ payments[y] \in Payment /\ payments[y] # None
      /\ \A k \in Stored(objects) : k \in ProofKeys /\ objects[k] # None
  BY StoredRows
<1> DEFINE PickupsKept == \A p \in Stored(pickups) :
             /\ pickups'[p] # None
             /\ pickups[p].status \in {"completed", "canceled"} => pickups'[p] = pickups[p]
           PaymentsKept == \A y \in Stored(payments) :
             /\ payments'[y] # None
             /\ payments[y].status = "paid" => payments'[y] = payments[y]
           ObjectsKept == \A k \in Stored(objects) : objects'[k] = objects[k]
<1>2. /\ UNCHANGED pickups => PickupsKept
      /\ UNCHANGED payments => PaymentsKept
      /\ UNCHANGED objects => ObjectsKept
  BY <1>1
<1>3. ASSUME NEW p \in PickupIds, NEW row \in Pickup,
             pickups[p] = None \/ pickups[p].status \notin {"completed", "canceled"},
             pickups' = [pickups EXCEPT ![p] = row]
      PROVE  PickupsKept
  BY <1>1, <1>3, NoneIsNone DEF TablesTypeOK
<1>4. ASSUME NEW y \in PaymentIds, NEW row \in Payment,
             payments[y] = None \/ payments[y].status # "paid",
             payments' = [payments EXCEPT ![y] = row]
      PROVE  PaymentsKept
  BY <1>1, <1>4, NoneIsNone DEF TablesTypeOK
<1>5. ASSUME NEW k \in ProofKeys, NEW y, objects[k] = None,
             objects' = [objects EXCEPT ![k] = y]
      PROVE  ObjectsKept
  BY <1>1, <1>5 DEF TablesTypeOK
<1>6. PickupsKept
  <2>1. ASSUME NEW p \in PickupIds, NEW h \in Households, NEW form \in PickupForms,
               NEW now \in 0 .. clock, LedgerSpec!CreatePickup(p, h, form, now)
        PROVE  PickupsKept
    <3>1. NewPickup(h, form, now) \in Pickup
      BY RowTypes DEF TablesTypeOK
    <3>2. pickups[p] = None /\ pickups' = [pickups EXCEPT ![p] = NewPickup(h, form, now)]
      BY <2>1, SameOperators DEF LedgerSpec!CreatePickup
    <3>3. QED
      BY <1>3, <3>1, <3>2
  <2>2. ASSUME NEW p \in PickupIds, NEW y,
               LedgerSpec!Schedule(p) \/ LedgerSpec!Cancel(p) \/ LedgerSpec!Complete(p, y)
        PROVE  PickupsKept
    <3>1. /\ pickups[p] # None
          /\ pickups[p].status \notin {"completed", "canceled"}
          /\ \E status \in PickupStatus :
               pickups' = [pickups EXCEPT ![p] = WithStatus(pickups[p], status)]
      BY <2>2, SameOperators DEF LedgerSpec!Schedule, LedgerSpec!CanSchedule,
         LedgerSpec!Cancel, LedgerSpec!Open, LedgerSpec!Complete, PickupStatus
    <3>2. pickups[p] \in Pickup
      BY <3>1 DEF TablesTypeOK
    <3>3. QED
      BY <1>3, <3>1, <3>2, RowTypes
  <2>3. ASSUME NEW P \in SUBSET PickupIds, LedgerSpec!Sweep(P) PROVE PickupsKept
    <3>1. /\ \A p \in P : /\ pickups[p] \in Pickup
                          /\ pickups[p].status \notin {"completed", "canceled"}
          /\ \A p \in PickupIds :
               pickups'[p] = IF p \in P THEN WithStatus(pickups[p], "canceled")
                             ELSE pickups[p]
      BY <2>3, SameOperators DEF LedgerSpec!Sweep, LedgerSpec!Open, TablesTypeOK
    <3>2. \A p \in P : WithStatus(pickups[p], "canceled") # None
      BY <3>1, RowTypes, NoneIsNone DEF PickupStatus
    <3>3. QED
      BY <1>1, <3>1, <3>2
  <2>4. QED
    BY <1>2, <2>1, <2>2, <2>3 DEF LedgerSpec!Next, LedgerSpec!CreateHousehold,
       LedgerSpec!DeleteHousehold, LedgerSpec!CreatePayment, LedgerSpec!StoreProof,
       LedgerSpec!Confirm, LedgerSpec!Tick
<1>7. PaymentsKept
  <2>1. ASSUME NEW p \in PickupIds, NEW y \in PaymentIds,
               LedgerSpec!Complete(p, y) \/ LedgerSpec!CreatePayment(p, y)
        PROVE  PaymentsKept
    <3>1. /\ pickups[p] # None /\ payments[y] = None
          /\ payments' = [payments EXCEPT ![y] = NewPayment(pickups[p], p)]
      BY <2>1, SameOperators DEF LedgerSpec!Complete, LedgerSpec!CreatePayment
    <3>2. NewPayment(pickups[p], p) \in Payment
      BY <3>1, RowTypes DEF TablesTypeOK
    <3>3. QED
      BY <1>4, <3>1, <3>2
  <2>2. ASSUME NEW y \in PaymentIds, NEW k \in ProofKeys, LedgerSpec!Confirm(y, k)
        PROVE  PaymentsKept
    <3>1. /\ payments[y] # None /\ payments[y].status # "paid"
          /\ payments' = [payments EXCEPT ![y] = Paid(payments[y], k)]
      BY <2>2, SameOperators DEF LedgerSpec!Confirm
    <3>2. Paid(payments[y], k) \in Payment
      BY <3>1, RowTypes DEF TablesTypeOK
    <3>3. QED
      BY <1>4, <3>1, <3>2
  <2>3. QED
    BY <1>2, <2>1, <2>2 DEF LedgerSpec!Next, LedgerSpec!CreateHousehold,
       LedgerSpec!DeleteHousehold, LedgerSpec!CreatePickup, LedgerSpec!Schedule,
       LedgerSpec!Cancel, LedgerSpec!Sweep, LedgerSpec!StoreProof, LedgerSpec!Tick
<1>8. ObjectsKept
  BY <1>2, <1>5 DEF LedgerSpec!Next, LedgerSpec!CreateHousehold,
     LedgerSpec!DeleteHousehold, LedgerSpec!CreatePickup, LedgerSpec!Schedule,
     LedgerSpec!Cancel, LedgerSpec!Sweep, LedgerSpec!Complete, LedgerSpec!CreatePayment,
     LedgerSpec!StoreProof, LedgerSpec!Confirm, LedgerSpec!Tick
<1>9. QED
  BY <1>6, <1>7, <1>8 DEF NothingFinalChanges

\* Only Complete makes a pickup completed, and not one that is billed.
LEMMA LedgerNeverCompletesBilled ==
  TablesTypeOK /\ [LedgerSpec!Next]_tables => BilledNeverCompletes
<1> SUFFICES ASSUME TablesTypeOK, [LedgerSpec!Next]_tables,
                    NEW q \in Stored(pickups), Billed(q), pickups[q].status # "completed"
             PROVE  pickups'[q].status # "completed"
  BY DEF BilledNeverCompletes
<1>1. q \in PickupIds /\ pickups[q] # None /\ pickups[q] \in Pickup
  BY StoredRows
<1>2. ASSUME NEW p \in PickupIds, NEW h, NEW form, NEW now,
             LedgerSpec!CreatePickup(p, h, form, now)
      PROVE  pickups'[q] = pickups[q]
  BY <1>1, <1>2 DEF LedgerSpec!CreatePickup, TablesTypeOK
<1>3. ASSUME NEW p \in PickupIds, LedgerSpec!Schedule(p) \/ LedgerSpec!Cancel(p)
      PROVE  pickups'[q].status # "completed"
  <2>1. \E status \in {"scheduled", "canceled"} :
          pickups' = [pickups EXCEPT ![p] = WithStatus(pickups[p], status)]
    BY <1>3, SameOperators DEF LedgerSpec!Schedule, LedgerSpec!Cancel
  <2>2. QED
    BY <1>1, <2>1 DEF WithStatus, TablesTypeOK, Pickup
<1>4. ASSUME NEW P \in SUBSET PickupIds, LedgerSpec!Sweep(P)
      PROVE  pickups'[q].status # "completed"
  <2>1. pickups'[q] = IF q \in P THEN WithStatus(pickups[q], "canceled") ELSE pickups[q]
    BY <1>1, <1>4, SameOperators DEF LedgerSpec!Sweep
  <2>2. QED
    BY <1>1, <2>1 DEF WithStatus, Pickup
<1>5. ASSUME NEW p \in PickupIds, NEW y \in PaymentIds, LedgerSpec!Complete(p, y)
      PROVE  pickups'[q].status # "completed"
  <2>1. p # q
    BY <1>5 DEF LedgerSpec!Complete, Billed, Stored, LedgerSpec!Stored
  <2>2. QED
    BY <1>1, <1>5, <2>1 DEF LedgerSpec!Complete, TablesTypeOK
<1>6. CASE UNCHANGED pickups
  BY <1>6
<1>7. QED
  BY <1>2, <1>3, <1>4, <1>5, <1>6 DEF LedgerSpec!Next, LedgerSpec!CreateHousehold,
     LedgerSpec!DeleteHousehold, LedgerSpec!CreatePayment, LedgerSpec!StoreProof,
     LedgerSpec!Confirm, LedgerSpec!Tick

-----------------------------------------------------------------------------
(* The types, and what a row keeps for ever.                               *)

\* Only households lose members, and an update keeps who a row belongs to, what
\* it is about and when it was made.
RowsLast ==
  /\ \A p \in Stored(pickups) :
       /\ pickups'[p] # None
       /\ pickups'[p].household = pickups[p].household
       /\ pickups'[p].type = pickups[p].type
       /\ pickups'[p].createdAt = pickups[p].createdAt
  /\ \A y \in Stored(payments) :
       /\ payments'[y] # None
       /\ payments'[y].household = payments[y].household
       /\ payments'[y].waste = payments[y].waste
       /\ payments'[y].amount = payments[y].amount

LEMMA WithStatusKeeps ==
  ASSUME NEW row \in Pickup, NEW status \in PickupStatus
  PROVE  /\ WithStatus(row, status) \in Pickup /\ WithStatus(row, status) # None
         /\ WithStatus(row, status).household = row.household
         /\ WithStatus(row, status).type = row.type
         /\ WithStatus(row, status).createdAt = row.createdAt
         /\ WithStatus(row, status).status = status
<1>1. WithStatus(row, status) \in Pickup
  BY RowTypes
<1>2. QED
  BY <1>1, NoneIsNone DEF WithStatus, Pickup

LEMMA PaidKeeps ==
  ASSUME NEW row \in Payment, NEW k \in ProofKeys
  PROVE  /\ Paid(row, k) \in Payment /\ Paid(row, k) # None
         /\ Paid(row, k).household = row.household
         /\ Paid(row, k).waste = row.waste
         /\ Paid(row, k).amount = row.amount
<1>1. Paid(row, k) \in Payment
  BY RowTypes
<1>2. QED
  BY <1>1, NoneIsNone DEF Paid, Payment

\* What a ledger step does to the two tables, operation by operation.
LEMMA TableSteps ==
  ASSUME TablesTypeOK, [LedgerSpec!Next]_tables
  PROVE  /\ \A p \in PickupIds :
              \/ pickups'[p] = pickups[p]
              \/ pickups[p] = None /\ pickups'[p] \in Pickup
              \/ /\ pickups[p] \in Pickup
                 /\ \E status \in PickupStatus : pickups'[p] = WithStatus(pickups[p], status)
         /\ \A y \in PaymentIds :
              \/ payments'[y] = payments[y]
              \/ payments[y] = None /\ payments'[y] \in Payment
              \/ /\ payments[y] \in Payment
                 /\ \E k \in ProofKeys : payments'[y] = Paid(payments[y], k)
         /\ DOMAIN pickups' = PickupIds /\ DOMAIN payments' = PaymentIds
         /\ pickups' = [p \in PickupIds |-> pickups'[p]]
         /\ payments' = [y \in PaymentIds |-> payments'[y]]
         /\ households' \in SUBSET Households /\ clock' \in Nat
         /\ objects' \in [ProofKeys -> PaymentIds \cup {None}]
<1> DEFINE PickupMoves(p) ==
             \/ pickups'[p] = pickups[p]
             \/ pickups[p] = None /\ pickups'[p] \in Pickup
             \/ /\ pickups[p] \in Pickup
                /\ \E status \in PickupStatus : pickups'[p] = WithStatus(pickups[p], status)
           PaymentMoves(y) ==
             \/ payments'[y] = payments[y]
             \/ payments[y] = None /\ payments'[y] \in Payment
             \/ /\ payments[y] \in Payment
                /\ \E k \in ProofKeys : payments'[y] = Paid(payments[y], k)
           PickupsMove ==
             /\ \A p \in PickupIds : PickupMoves(p)
             /\ DOMAIN pickups' = PickupIds /\ pickups' = [p \in PickupIds |-> pickups'[p]]
           PaymentsMove ==
             /\ \A y \in PaymentIds : PaymentMoves(y)
             /\ DOMAIN payments' = PaymentIds
             /\ payments' = [y \in PaymentIds |-> payments'[y]]
           RestIsTyped ==
             /\ households' \in SUBSET Households /\ clock' \in Nat
             /\ objects' \in [ProofKeys -> PaymentIds \cup {None}]
           Moves == PickupsMove /\ PaymentsMove /\ RestIsTyped
<1>1. /\ UNCHANGED pickups => PickupsMove
      /\ UNCHANGED payments => PaymentsMove
      /\ UNCHANGED <<households, objects, clock>> => RestIsTyped
  BY DEF TablesTypeOK
<1>2. ASSUME NEW p \in PickupIds, NEW row, pickups' = [pickups EXCEPT ![p] = row],
             \/ pickups[p] = None /\ row \in Pickup
             \/ /\ pickups[p] \in Pickup
                /\ \E status \in PickupStatus : row = WithStatus(pickups[p], status)
      PROVE  PickupsMove
  BY <1>2 DEF TablesTypeOK
<1>3. ASSUME NEW y \in PaymentIds, NEW row, payments' = [payments EXCEPT ![y] = row],
             \/ payments[y] = None /\ row \in Payment
             \/ payments[y] \in Payment /\ \E k \in ProofKeys : row = Paid(payments[y], k)
      PROVE  PaymentsMove
  BY <1>3 DEF TablesTypeOK
<1>4. ASSUME NEW h \in Households,
             LedgerSpec!CreateHousehold(h) \/ LedgerSpec!DeleteHousehold(h)
      PROVE  Moves
  BY <1>1, <1>4 DEF TablesTypeOK, LedgerSpec!CreateHousehold, LedgerSpec!DeleteHousehold
<1>5. ASSUME NEW p \in PickupIds, NEW h \in Households, NEW form \in PickupForms,
             NEW now \in 0 .. clock, LedgerSpec!CreatePickup(p, h, form, now)
      PROVE  Moves
  <2>1. NewPickup(h, form, now) \in Pickup
    BY RowTypes DEF TablesTypeOK
  <2>2. /\ pickups[p] = None /\ pickups' = [pickups EXCEPT ![p] = NewPickup(h, form, now)]
        /\ UNCHANGED <<households, payments, objects, clock>>
    BY <1>5, SameOperators DEF LedgerSpec!CreatePickup
  <2>3. PickupsMove
    BY <1>2, <2>1, <2>2
  <2>4. QED
    BY <1>1, <2>2, <2>3
<1>6. ASSUME NEW p \in PickupIds, LedgerSpec!Schedule(p) \/ LedgerSpec!Cancel(p)
      PROVE  Moves
  <2>1. /\ pickups[p] # None
        /\ \E status \in PickupStatus :
             pickups' = [pickups EXCEPT ![p] = WithStatus(pickups[p], status)]
        /\ UNCHANGED <<households, payments, objects, clock>>
    BY <1>6, SameOperators DEF LedgerSpec!Schedule, LedgerSpec!Cancel, LedgerSpec!Open,
                               PickupStatus
  <2>2. pickups[p] \in Pickup
    BY <2>1 DEF TablesTypeOK
  <2>3. PickupsMove
    BY <1>2, <2>1, <2>2
  <2>4. QED
    BY <1>1, <2>1, <2>3
<1>7. ASSUME NEW P \in SUBSET PickupIds, LedgerSpec!Sweep(P)
      PROVE  Moves
  <2>1. /\ \A p \in P : pickups[p] \in Pickup
        /\ pickups' = [p \in PickupIds |->
             IF p \in P THEN WithStatus(pickups[p], "canceled") ELSE pickups[p]]
        /\ UNCHANGED <<households, payments, objects, clock>>
    BY <1>7, SameOperators DEF LedgerSpec!Sweep, LedgerSpec!Open, TablesTypeOK
  <2>2. PickupsMove
    BY <2>1 DEF PickupStatus
  <2>3. QED
    BY <1>1, <2>1, <2>2
<1>8. ASSUME NEW p \in PickupIds, NEW y \in PaymentIds,
             LedgerSpec!Complete(p, y) \/ LedgerSpec!CreatePayment(p, y)
      PROVE  Moves
  <2>1. /\ pickups[p] # None /\ payments[y] = None
        /\ payments' = [payments EXCEPT ![y] = NewPayment(pickups[p], p)]
        /\ UNCHANGED <<households, objects, clock>>
        /\ \/ UNCHANGED pickups
           \/ pickups' = [pickups EXCEPT ![p] = WithStatus(pickups[p], "completed")]
    BY <1>8, SameOperators DEF LedgerSpec!Complete, LedgerSpec!CreatePayment
  <2>2. pickups[p] \in Pickup /\ NewPayment(pickups[p], p) \in Payment
    BY <2>1, RowTypes DEF TablesTypeOK
  <2>3. PaymentsMove
    BY <1>3, <2>1, <2>2
  <2>4. PickupsMove
    BY <1>1, <1>2, <2>1, <2>2 DEF PickupStatus
  <2>5. QED
    BY <1>1, <2>1, <2>3, <2>4
<1>9. ASSUME NEW y \in PaymentIds, NEW k \in ProofKeys, LedgerSpec!StoreProof(y, k)
      PROVE  Moves
  BY <1>1, <1>9 DEF TablesTypeOK, LedgerSpec!StoreProof
<1>10. ASSUME NEW y \in PaymentIds, NEW k \in ProofKeys, LedgerSpec!Confirm(y, k)
       PROVE  Moves
  <2>1. /\ payments[y] # None /\ payments' = [payments EXCEPT ![y] = Paid(payments[y], k)]
        /\ UNCHANGED <<households, pickups, objects, clock>>
    BY <1>10, SameOperators DEF LedgerSpec!Confirm
  <2>2. payments[y] \in Payment
    BY <2>1 DEF TablesTypeOK
  <2>3. PaymentsMove
    BY <1>3, <2>1, <2>2
  <2>4. QED
    BY <1>1, <2>1, <2>3
<1>11. ASSUME LedgerSpec!Tick \/ UNCHANGED tables PROVE Moves
  BY <1>1, <1>11 DEF TablesTypeOK, LedgerSpec!Tick
<1>12. QED
  <2>1. Moves => PickupsMove /\ PaymentsMove /\ RestIsTyped
    OBVIOUS
  <2> HIDE DEF Moves
  <2>2. Moves
    BY <1>4, <1>5, <1>6, <1>7, <1>8, <1>9, <1>10, <1>11 DEF LedgerSpec!Next
  <2>3. QED
    BY <2>1, <2>2

LEMMA LedgerKeepsTypes ==
  ASSUME TablesTypeOK, [LedgerSpec!Next]_tables PROVE TablesTypeOK'
<1>1. ASSUME NEW p \in PickupIds PROVE pickups'[p] \in Pickup \cup {None}
  <2>1. CASE pickups'[p] = pickups[p]
    BY <2>1 DEF TablesTypeOK
  <2>2. CASE pickups'[p] \in Pickup
    BY <2>2
  <2>3. CASE /\ pickups[p] \in Pickup
             /\ \E status \in PickupStatus : pickups'[p] = WithStatus(pickups[p], status)
    BY <2>3, WithStatusKeeps
  <2> QED BY <2>1, <2>2, <2>3, TableSteps
<1>2. ASSUME NEW y \in PaymentIds PROVE payments'[y] \in Payment \cup {None}
  <2>1. CASE payments'[y] = payments[y]
    BY <2>1 DEF TablesTypeOK
  <2>2. CASE payments'[y] \in Payment
    BY <2>2
  <2>3. CASE /\ payments[y] \in Payment
             /\ \E k \in ProofKeys : payments'[y] = Paid(payments[y], k)
    BY <2>3, PaidKeeps
  <2> QED BY <2>1, <2>2, <2>3, TableSteps
<1>3. pickups' \in [PickupIds -> Pickup \cup {None}]
  BY <1>1, TableSteps
<1>4. payments' \in [PaymentIds -> Payment \cup {None}]
  BY <1>2, TableSteps
<1>5. QED
  BY <1>3, <1>4, TableSteps DEF TablesTypeOK

LEMMA LedgerKeepsRows ==
  ASSUME TablesTypeOK, [LedgerSpec!Next]_tables PROVE RowsLast
<1>1. ASSUME NEW p \in Stored(pickups)
      PROVE  /\ pickups'[p] # None
             /\ pickups'[p].household = pickups[p].household
             /\ pickups'[p].type = pickups[p].type
             /\ pickups'[p].createdAt = pickups[p].createdAt
  <2>1. p \in PickupIds /\ pickups[p] \in Pickup /\ pickups[p] # None
    BY StoredRows
  <2>2. QED
    BY <2>1, TableSteps, WithStatusKeeps
<1>2. ASSUME NEW y \in Stored(payments)
      PROVE  /\ payments'[y] # None
             /\ payments'[y].household = payments[y].household
             /\ payments'[y].waste = payments[y].waste
             /\ payments'[y].amount = payments[y].amount
  <2>1. y \in PaymentIds /\ payments[y] \in Payment /\ payments[y] # None
    BY StoredRows
  <2>2. QED
    BY <2>1, TableSteps, PaidKeeps
<1>3. QED
  BY <1>1, <1>2 DEF RowsLast

LEMMA InitTables == TablesInit => TablesTypeOK
BY SeedAssumption DEF TablesInit, TablesTypeOK
==============================================================================
