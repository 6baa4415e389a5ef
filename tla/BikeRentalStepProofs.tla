------------------------ MODULE BikeRentalStepProofs ------------------------
(***************************************************************************)
(* What no step of BikeRental ever does to a rental, an item, a bicycle or *)
(* a payment that exists.                                                  *)
(***************************************************************************)
EXTENDS BikeRentalProofs

\* A rental that is not stored has no items; and a reference has been counted, and is its
\* payment's own.
RecordsHold ==
  /\ \A r \in RentalIds : rentals[r] = None => \A b \in Bicycles : items[r][b] = None
  /\ \A r \in RentalIds : payments[r] # None => payments[r].reference <= counter
  /\ DistinctReferences

\* A creation stores its rental under a fresh id, with items of its own, and changes no
\* other rental.
LEMMA CreationStores ==
  ASSUME TypeOK, InventoryCounts, NEW c \in CreateCommands, NEW r \in RentalIds,
         DeclineCreate(c, r) \/ ConfirmCreate(c, r)
  PROVE  /\ CreateFaults(c) = {} /\ rentals[r] = None /\ results[r] = None
         /\ rentals'[r] \in Rental /\ rentals'[r].status \in {"activa", "fallida"}
         /\ items' = [items EXCEPT ![r] = NewItems(c)]
         /\ \A q \in RentalIds \ {r} :
              rentals'[q] = rentals[q] /\ items'[q] = items[q] /\ results'[q] = results[q]
<1>1. CreateFaults(c) = {} /\ rentals[r] = None /\ results[r] = None
  BY DEF DeclineCreate, ConfirmCreate, Accepts
<1>2. EstimatedTotal(c) \in Nat
  BY <1>1, CreateAccepted, EstimatedTotalType
<1>3. \A q \in RentalIds \ {r} : results'[q] = results[q]
  BY DEF DeclineCreate, ConfirmCreate, Authorize, TypeOK
<1>4. CASE DeclineCreate(c, r)
  <2>1. AddRental(c, r, "fallida", FALSE)
    BY <1>4 DEF DeclineCreate
  <2>2. rentals'[r] \in Rental /\ rentals'[r].status = "fallida"
    BY <1>2, <2>1 DEF AddRental, TypeOK, Rental, RentalStatus
  <2>. QED  BY <1>1, <1>3, <2>1, <2>2 DEF AddRental, TypeOK
<1>5. CASE ConfirmCreate(c, r)
  <2>1. AddRental(c, r, DeriveStatus(NewItems(c)), TRUE)
    BY <1>5, CommitRuns
  <2>2. DeriveStatus(NewItems(c)) = "activa"
    <3>. DEFINE list == NewItems(c)
                statuses == {list[x].status : x \in {y \in Bicycles : list[y] # None}}
    <3>1. \A b \in Bicycles : list[b] # None => list[b].status = "activo"
      BY <1>1, NewItemsActive
    <3>2. \E b \in Bicycles : list[b] # None
      BY <1>1, NewItemsActive, CreateAccepted
    <3>. HIDE DEF list
    <3>3. statuses = {"activo"}
      BY <3>1, <3>2
    <3>4. DeriveStatus(list) = IF statuses = {} THEN "fallida"
                               ELSE IF statuses = {"devuelto"} THEN "completada"
                               ELSE IF "devuelto" \in statuses THEN "parcialmente_devuelta"
                               ELSE "activa"
      BY DEF DeriveStatus
    <3>. HIDE DEF statuses
    <3>5. DeriveStatus(list) = "activa"
      BY <3>3, <3>4
    <3>. QED  BY <3>5 DEF list
  <2>3. rentals'[r] \in Rental /\ rentals'[r].status = "activa"
    BY <1>2, <2>1, <2>2 DEF AddRental, TypeOK, Rental, RentalStatus
  <2>. QED  BY <1>1, <1>3, <2>1, <2>3 DEF AddRental, TypeOK
<1>. QED  BY <1>4, <1>5

\* The payment a confirmed creation stores.
LEMMA CreationPays ==
  ASSUME TypeOK, InventoryCounts, NEW c \in CreateCommands, NEW r \in RentalIds,
         ConfirmCreate(c, r)
  PROVE  /\ payments'[r].reference = counter + 1 /\ counter' = counter + 1
         /\ \A q \in RentalIds \ {r} : payments'[q] = payments[q]
<1>1. results'[r].reference = counter + 1 /\ counter' = counter + 1
  BY DEF ConfirmCreate, Authorize, TypeOK
<1>2. AddPayment(r, EstimatedTotal(c))
  BY CommitRuns
<1>. QED  BY <1>1, <1>2 DEF AddPayment, TypeOK

LEMMA RecordsPreserved ==
  TypeOK /\ InventoryCounts /\ RecordsHold /\ [Next]_vars => RecordsHold'
<1> SUFFICES ASSUME TypeOK, InventoryCounts, RecordsHold, [Next]_vars PROVE RecordsHold'
  OBVIOUS
<1>1. ASSUME NEW c \in CreateCommands, NEW r \in RentalIds, DeclineCreate(c, r)
      PROVE  RecordsHold'
  <2>1. rentals'[r] # None
    BY <1>1, CreationStores, NoneAssumption
  <2>2. payments' = payments /\ counter' = counter
    BY <1>1 DEF DeclineCreate, Authorize
  <2>. QED  BY <1>1, <2>1, <2>2, CreationStores DEF RecordsHold, DistinctReferences
<1>2. ASSUME NEW c \in CreateCommands, NEW r \in RentalIds, ConfirmCreate(c, r)
      PROVE  RecordsHold'
  <2>1. rentals'[r] # None
    BY <1>2, CreationStores, NoneAssumption
  <2>2. \A q \in RentalIds : rentals'[q] = None => \A b \in Bicycles : items'[q][b] = None
    BY <1>2, <2>1, CreationStores DEF RecordsHold
  <2>3. counter \in Nat /\ \A q \in RentalIds :
          payments[q] # None => payments[q].reference \in Nat /\ payments[q].reference <= counter
    BY DEF TypeOK, Payment, RecordsHold
  <2>4. \A q \in RentalIds : payments'[q] # None => payments'[q].reference <= counter'
    BY <1>2, <2>3, CreationPays
  <2>5. DistinctReferences'
    BY <1>2, <2>3, CreationPays DEF RecordsHold, DistinctReferences
  <2>. QED  BY <2>2, <2>4, <2>5 DEF RecordsHold
<1>3. ASSUME NEW c \in ReturnCommands, AcceptReturn(c)
      PROVE  RecordsHold'
  <2>1. rentals'[c.rental] # None
    BY <1>3, ReturnRental, NoneAssumption
  <2>2. payments' = payments /\ counter' = counter
    BY <1>3 DEF AcceptReturn
  <2>. QED  BY <1>3, <2>1, <2>2, ReturnRental DEF RecordsHold, DistinctReferences
<1>4. ASSUME UNCHANGED <<rentals, items, payments, counter>>
      PROVE  RecordsHold'
  BY <1>4 DEF RecordsHold, DistinctReferences
<1>. QED  BY <1>1, <1>2, <1>3, <1>4
          DEF Next, CreateRental, ReturnBicycles, RejectCreate, RejectReturn, ClockMoves,
              stored, vars

LEMMA AlwaysRecordsHold == Spec => []RecordsHold
<1>1. Init => RecordsHold
  BY DEF Init, RecordsHold, DistinctReferences
<1>. QED  BY <1>1, RecordsPreserved, InventoryCorrect, TypeCorrect, PTL DEF Spec

\* RN-20: two payments never carry the same gateway reference.
THEOREM ReferencesNeverShared == Spec => []DistinctReferences
<1>1. RecordsHold => DistinctReferences
  BY DEF RecordsHold
<1>. QED  BY <1>1, AlwaysRecordsHold, PTL

-----------------------------------------------------------------------------
(* Steps *)

\* How a step of the system may change a rental, whatever the step is.
LEMMA Steps ==
  ASSUME [Next]_vars
  PROVE  \/ \E c \in CreateCommands, r \in RentalIds : DeclineCreate(c, r)
         \/ \E c \in CreateCommands, r \in RentalIds : ConfirmCreate(c, r)
         \/ \E c \in ReturnCommands : AcceptReturn(c)
         \/ UNCHANGED <<stored, results, counter>>
BY DEF Next, CreateRental, ReturnBicycles, RejectCreate, RejectReturn, ClockMoves, stored, vars

\* A list with a returned item derives partly returned or complete.
LEMMA DerivedReturned ==
  ASSUME NEW list, NEW b \in Bicycles, list[b] # None, list[b].status = "devuelto"
  PROVE  DeriveStatus(list) \in {"parcialmente_devuelta", "completada"}
<1>. DEFINE statuses == {list[x].status : x \in {y \in Bicycles : list[y] # None}}
<1>1. "devuelto" \in statuses
  OBVIOUS
<1>2. DeriveStatus(list) = IF statuses = {} THEN "fallida"
                           ELSE IF statuses = {"devuelto"} THEN "completada"
                           ELSE IF "devuelto" \in statuses THEN "parcialmente_devuelta"
                           ELSE "activa"
  BY DEF DeriveStatus
<1>. HIDE DEF statuses
<1>. QED  BY <1>1, <1>2

\* What a return does to its items: those of its bicycles, active until then, are marked
\* with the clock, the others stay.
LEMMA ReturnItems ==
  ASSUME TypeOK, NEW c \in ReturnCommands, AcceptReturn(c), NEW b \in c.bikes
  PROVE  LET before == items[c.rental][b]
             after  == items'[c.rental][b]
         IN  /\ b \in Bicycles /\ c.rental \in RentalIds
             /\ before \in Item /\ before.status = "activo"
             /\ after \in Item /\ after # None
             /\ after.status = "devuelto" /\ after.returned_at = now
             /\ after.fare = before.fare /\ after.started_at = before.started_at
<1>1. b \in Bicycles /\ c.rental \in RentalIds /\ HasActiveItem(c.rental, b)
  BY ReturnAccepted DEF AcceptReturn
<1>2. items[c.rental][b] \in Item /\ items[c.rental][b].status = "activo"
  BY <1>1 DEF HasActiveItem, HasItem, TypeOK
<1>3. items'[c.rental][b] = MarkReturned(items[c.rental][b])
  BY ReturnRental
<1>4. MarkReturned(items[c.rental][b]) \in Item
  BY <1>2, MarkReturnedType DEF TypeOK
<1>5. MarkReturned(items[c.rental][b]) # None
  BY <1>4, NoneAssumption
<1>. QED  BY <1>1, <1>2, <1>3, <1>4, <1>5 DEF MarkReturned, Item

\* The status a return leaves its rental with.
LEMMA ReturnStatus ==
  ASSUME TypeOK, NEW c \in ReturnCommands, AcceptReturn(c)
  PROVE  /\ c.rental \in RentalIds /\ rentals'[c.rental] # None
         /\ rentals'[c.rental].status \in {"parcialmente_devuelta", "completada"}
<1>1. PICK b \in c.bikes : TRUE
  BY ReturnAccepted DEF AcceptReturn
<1>2. DeriveStatus(items'[c.rental]) \in {"parcialmente_devuelta", "completada"}
  BY ReturnItems, DerivedReturned
<1>. QED  BY <1>2, ReturnRental, NoneAssumption

\* RN-12: rentals only go from open towards complete, a failed rental stays as it is, and
\* a bicycle changes place only by being rented or returned, with a new version each time.
THEOREM TransitionsAreLegal == Spec => LegalTransitions
<1>. DEFINE Legal == /\ \A r \in RentalIds : LegalRental(rentals[r], rentals'[r])
                     /\ \A b \in Bicycles : LegalBicycle(bicycles[b], bicycles'[b])
<1>1. TypeOK /\ InventoryCounts /\ HeldIffRented /\ [Next]_vars => Legal
  <2> SUFFICES ASSUME TypeOK, InventoryCounts, HeldIffRented, [Next]_vars PROVE Legal
    OBVIOUS
  <2>1. ASSUME NEW c \in CreateCommands, NEW r \in RentalIds, DeclineCreate(c, r)
        PROVE  Legal
    <3>1. \A q \in RentalIds : LegalRental(rentals[q], rentals'[q])
      BY <2>1, CreationStores DEF LegalRental
    <3>2. bicycles' = bicycles
      BY <2>1 DEF DeclineCreate
    <3>. QED  BY <3>1, <3>2 DEF LegalBicycle
  <2>2. ASSUME NEW c \in CreateCommands, NEW r \in RentalIds, ConfirmCreate(c, r)
        PROVE  Legal
    <3>1. \A q \in RentalIds : LegalRental(rentals[q], rentals'[q])
      BY <2>2, CreationStores DEF LegalRental
    <3>2. ASSUME NEW b \in c.bikes
          PROVE  b \in Bicycles /\ LegalBicycle(bicycles[b], bicycles'[b])
      <4>1. /\ c.station \in Stations /\ b \in Bicycles
            /\ bicycles[b].status = "disponible" /\ bicycles[b].station = c.station
        BY <2>2, <3>2, CreateAccepted DEF ConfirmCreate, Accepts, AvailableAt, IsAvailableAt
      <4>2. bicycles'[b] = Rented(bicycles[b])
        BY <2>2, <3>2, <4>1 DEF ConfirmCreate, RentAll
      <4>. QED  BY <4>1, <4>2, NoneAssumption DEF Rented, LegalBicycle
    <3>3. \A b \in Bicycles \ c.bikes : bicycles'[b] = bicycles[b]
      BY <2>2 DEF ConfirmCreate, RentAll
    <3>. QED  BY <3>1, <3>2, <3>3 DEF LegalBicycle
  <2>3. ASSUME NEW c \in ReturnCommands, AcceptReturn(c)
        PROVE  Legal
    <3>1. \A q \in RentalIds : LegalRental(rentals[q], rentals'[q])
      <4>1. rentals[c.rental] # None /\ rentals[c.rental].status \in OpenStatuses
        BY <2>3, ReturnRental, NoneAssumption
      <4>. QED  BY <2>3, <4>1, ReturnStatus, ReturnRental DEF LegalRental
    <3>2. ASSUME NEW b \in c.bikes
          PROVE  b \in Bicycles /\ LegalBicycle(bicycles[b], bicycles'[b])
      <4>1. c.station \in Stations /\ b \in Bicycles /\ c.rental \in RentalIds
        BY <2>3, <3>2, ReturnAccepted DEF AcceptReturn
      <4>2. bicycles[b].status = "rentada" /\ bicycles[b].station = None
        BY <2>3, <3>2, <4>1, ReturnHolds DEF HeldIffRented
      <4>3. bicycles'[b] = ReturnedTo(bicycles[b], c.station)
        BY <2>3, <3>2, <4>1 DEF AcceptReturn
      <4>. QED  BY <4>1, <4>2, <4>3, NoneAssumption DEF ReturnedTo, LegalBicycle
    <3>3. \A b \in Bicycles \ c.bikes : bicycles'[b] = bicycles[b]
      BY <2>3 DEF AcceptReturn
    <3>. QED  BY <3>1, <3>2, <3>3 DEF LegalBicycle
  <2>. QED  BY <2>1, <2>2, <2>3, Steps DEF LegalRental, LegalBicycle, stored
<1>. QED  BY <1>1, HeldExactlyWhenRented, InventoryCorrect, TypeCorrect, PTL
          DEF Spec, LegalTransitions

\* RN-08: a stored item changes only by the return of its bicycle from its open rental, and
\* keeps its fare and its start; a request changes the items of one rental.
THEOREM ItemsAreOnlyReturned == Spec => ItemsOnlyReturned
<1>. DEFINE Legal(r, b) ==
              \/ items[r][b] = None /\ rentals[r] = None
              \/ /\ Holds(r, b)
                 /\ items'[r][b] # None
                 /\ items'[r][b].status = "devuelto"
                 /\ items'[r][b].fare = items[r][b].fare
                 /\ items'[r][b].started_at = items[r][b].started_at
                 /\ bicycles'[b].status = "disponible"
            Goal == /\ \A r \in RentalIds, b \in Bicycles :
                         items'[r][b] # items[r][b] => Legal(r, b)
                    /\ \A q, r \in RentalIds :
                         items'[q] # items[q] /\ items'[r] # items[r] => q = r
<1>1. TypeOK /\ InventoryCounts /\ RecordsHold /\ [Next]_vars => Goal
  <2> SUFFICES ASSUME TypeOK, InventoryCounts, RecordsHold, [Next]_vars PROVE Goal
    OBVIOUS
  <2>1. ASSUME NEW c \in CreateCommands, NEW r \in RentalIds,
               DeclineCreate(c, r) \/ ConfirmCreate(c, r)
        PROVE  Goal
    <3>1. rentals[r] = None /\ \A b \in Bicycles : items[r][b] = None
      BY <2>1, CreationStores DEF RecordsHold
    <3>2. \A q \in RentalIds \ {r} : items'[q] = items[q]
      BY <2>1, CreationStores
    <3>. QED  BY <3>1, <3>2
  <2>2. ASSUME NEW c \in ReturnCommands, AcceptReturn(c)
        PROVE  Goal
    <3>1. \A q \in RentalIds \ {c.rental} : items'[q] = items[q]
      BY <2>2, ReturnRental
    <3>2. \A b \in Bicycles \ c.bikes : items'[c.rental][b] = items[c.rental][b]
      BY <2>2, ReturnRental
    <3>3. ASSUME NEW b \in c.bikes
          PROVE  Legal(c.rental, b)
      <4>1. c.rental \in RentalIds /\ b \in Bicycles /\ c.station \in Stations
        BY <2>2, <3>3, ReturnAccepted DEF AcceptReturn
      <4>2. Holds(c.rental, b)
        BY <2>2, <3>3, <4>1, ReturnHolds
      <4>3. bicycles'[b].status = "disponible"
        BY <2>2, <3>3, <4>1 DEF AcceptReturn, ReturnedTo
      <4>. QED  BY <2>2, <3>3, <4>2, <4>3, ReturnItems
    <3>. QED  BY <3>1, <3>2, <3>3
  <2>3. ASSUME UNCHANGED items
        PROVE  Goal
    BY <2>3
  <2>. QED  BY <2>1, <2>2, <2>3, Steps DEF stored
<1>. QED  BY <1>1, AlwaysRecordsHold, InventoryCorrect, TypeCorrect, PTL
          DEF Spec, ItemsOnlyReturned

\* RN-19, RN-20: a payment, and the gateway's answer for a rental, never change.
THEOREM PaymentsAreFinal == Spec => PaymentsFinal
<1>1. TypeOK /\ InventoryCounts /\ PaidIffConfirmed /\ [Next]_vars =>
        \A r \in RentalIds :
          /\ payments[r] # None => payments'[r] = payments[r]
          /\ results[r] # None => results'[r] = results[r]
  <2>. DEFINE Final == \A q \in RentalIds :
                /\ payments[q] # None => payments'[q] = payments[q]
                /\ results[q] # None => results'[q] = results[q]
  <2> SUFFICES ASSUME TypeOK, InventoryCounts, PaidIffConfirmed, [Next]_vars PROVE Final
    OBVIOUS
  <2>1. ASSUME NEW c \in CreateCommands, NEW r \in RentalIds, DeclineCreate(c, r)
        PROVE  Final
    <3>1. payments' = payments
      BY <2>1 DEF DeclineCreate
    <3>. QED  BY <2>1, <3>1, CreationStores
  <2>2. ASSUME NEW c \in CreateCommands, NEW r \in RentalIds, ConfirmCreate(c, r)
        PROVE  Final
    <3>1. results[r] = None /\ payments[r] = None
      BY <2>2, CreationStores DEF PaidIffConfirmed
    <3>. QED  BY <2>2, <3>1, CreationStores, CreationPays
  <2>3. ASSUME NEW c \in ReturnCommands, AcceptReturn(c)
        PROVE  Final
    BY <2>3 DEF AcceptReturn
  <2>. QED  BY <2>1, <2>2, <2>3, Steps DEF stored
<1>. QED  BY <1>1, MoneyAgrees, InventoryCorrect, TypeCorrect, PTL DEF Spec, PaymentsFinal

\* UC-02: a rental stops being open by the return of its last bicycle, and is closed at the
\* instant of that return, whatever the clock did before.
THEOREM ClosedByItsLastReturn == Spec => ClosedByLastReturn
<1>. DEFINE Closed(r) == IsOpen(r) /\ ~IsOpen(r)' =>
       /\ rentals'[r].closed_at = now
       /\ \E b \in Bicycles : Holds(r, b) /\ items'[r][b].returned_at = rentals'[r].closed_at
       /\ \A b \in Bicycles : ~HasActiveItem(r, b)'
<1>1. TypeOK /\ InventoryCounts /\ StatusDerived /\ [Next]_vars =>
        \A r \in RentalIds : Closed(r)
  <2> SUFFICES ASSUME TypeOK, InventoryCounts, StatusDerived, [Next]_vars, NEW r \in RentalIds,
                      IsOpen(r), ~IsOpen(r)'
               PROVE  /\ rentals'[r].closed_at = now
                      /\ \E b \in Bicycles :
                           Holds(r, b) /\ items'[r][b].returned_at = rentals'[r].closed_at
                      /\ \A b \in Bicycles : ~HasActiveItem(r, b)'
    OBVIOUS
  <2>1. rentals'[r] # rentals[r] /\ rentals[r] # None
    BY DEF IsOpen
  <2>2. ~\E c \in CreateCommands, q \in RentalIds : DeclineCreate(c, q) \/ ConfirmCreate(c, q)
    BY <2>1, CreationStores
  <2>3. PICK c \in ReturnCommands : AcceptReturn(c)
    BY <2>1, <2>2, Steps DEF stored
  <2>4. r = c.rental
    BY <2>1, <2>3, ReturnRental
  <2>5. rentals'[r].status = "completada" /\ DeriveStatus(items'[r]) = "completada"
    BY <2>3, <2>4, ReturnStatus, ReturnRental DEF IsOpen, OpenStatuses
  <2>6. rentals[r].closed_at = None
    BY DEF IsOpen, OpenStatuses, StatusDerived
  <2>7. rentals'[r].closed_at = now
    BY <2>3, <2>4, <2>5, <2>6, ReturnRental
  <2>8. PICK b \in c.bikes : TRUE
    BY <2>3, ReturnAccepted DEF AcceptReturn
  <2>9. b \in Bicycles /\ Holds(r, b) /\ items'[r][b].returned_at = now
    BY <2>3, <2>4, ReturnItems, ReturnHolds
  <2>10. \A x \in Bicycles : ~HasActiveItem(r, x)'
    BY <2>5, DerivedOpen DEF HasActiveItem, HasItem, OpenStatuses
  <2>. QED  BY <2>7, <2>9, <2>10
<1>. QED  BY <1>1, StatusAlwaysDerived, InventoryCorrect, TypeCorrect, PTL
          DEF Spec, ClosedByLastReturn
=============================================================================
