-------------------------- MODULE BikeRentalProofs --------------------------
(***************************************************************************)
(* Theorems of BikeRental, for any fleet, stations, fares, clock readings  *)
(* and requests.                                                           *)
(***************************************************************************)
EXTENDS BikeRental, BillingProofs, FiniteSetTheorems

-----------------------------------------------------------------------------
(* What the use cases may rely on once their checks have passed *)

\* Steps 1 to 4 of CreateRental accept a command: its bicycles are some, known, on no
\* open rental, and available at the known station.
LEMMA CreateAccepted ==
  ASSUME NEW c \in CreateCommands, CreateFaults(c) = {}
  PROVE  /\ c.bikes # {} /\ c.bikes \subseteq Bicycles
         /\ c.station \in Stations /\ c.fare \in Fares
         /\ c.bikes \cap ListActiveBicycleIds = {}
         /\ c.bikes \subseteq AvailableAt(c.station)
<1>1. c.fare \in Fares
  BY CommandsAssumption DEF CreateCommand
<1>2. c.bikes # {} /\ c.station \in Stations /\ c.bikes \subseteq Bicycles
  BY DEF CreateFaults
<1>3. BicycleFaults(c) = {}
  BY DEF CreateFaults
<1>. QED  BY <1>1, <1>2, <1>3 DEF BicycleFaults, AvailableAt

\* Steps 1 to 5b of ReturnBicycles accept a command: its bicycles are some, rented, each
\* an active item of its open rental, and they fit in the known station.
LEMMA ReturnAccepted ==
  ASSUME NEW c \in ReturnCommands, ReturnFaults(c) = {}
  PROVE  /\ c.rental \in RentalIds /\ IsOpen(c.rental)
         /\ c.bikes # {} /\ c.bikes \subseteq Bicycles
         /\ c.station \in Stations /\ ~DoesNotFit(c)
         /\ \A b \in c.bikes : HasActiveItem(c.rental, b) /\ bicycles[b].status = "rentada"
<1>1. c.rental \in RentalIds
  BY CommandsAssumption DEF ReturnCommand
<1>2. c.bikes # {} /\ IsOpen(c.rental) /\ ItemFaults(c) = {}
  BY DEF ReturnFaults
<1>3. c.station \in Stations /\ ~DoesNotFit(c) /\ c.bikes \subseteq Bicycles
  BY <1>2 DEF ReturnFaults
<1>4. \A b \in c.bikes : bicycles[b].status = "rentada"
  BY <1>2, <1>3 DEF ReturnFaults
<1>5. \A b \in c.bikes : HasActiveItem(c.rental, b)
  BY <1>2 DEF ItemFaults
<1>. QED  BY <1>1, <1>2, <1>3, <1>4, <1>5

\* A set of bicycles is finite, and larger than those of its subsets that lack one.
LEMMA BikesFinite ==
  ASSUME NEW bikes \in SUBSET Bicycles
  PROVE  IsFiniteSet(bikes) /\ Cardinality(bikes) \in Nat
BY BicyclesAssumption, FS_Subset, FS_CardinalityType

-----------------------------------------------------------------------------
(* Types *)

LEMMA NewItemType ==
  ASSUME NEW fare \in Fares, now \in Instants
  PROVE  NewItem(fare) \in Item /\ NewItem(fare).status = "activo"
BY DEF NewItem, Item

LEMMA MarkReturnedType ==
  ASSUME NEW item \in Item, now \in Instants
  PROVE  MarkReturned(item) \in Item
<1>1. item.fare.fixed \in Nat /\ item.fare.time \in Nat /\ item.fare.unit \in TimeUnits
  BY FaresAssumption DEF Item
<1>2. item.started_at \in Nat /\ now \in Nat
  BY InstantsAssumption DEF Item
<1>3. FinalAmount(item.fare, item.started_at, now) \in Nat
  BY <1>1, <1>2, FinalAmountCoversEstimate
<1>. QED  BY <1>3 DEF MarkReturned, Item

LEMMA EstimatedTotalType ==
  ASSUME NEW c, c.fare \in Fares, c.bikes \in SUBSET Bicycles
  PROVE  EstimatedTotal(c) \in Nat
<1>1. Cardinality(c.bikes) \in Nat
  BY BikesFinite
<1>2. EstimatedAmount(c.fare) \in Nat
  BY FaresAssumption DEF EstimatedAmount
<1>. QED  BY <1>1, <1>2 DEF EstimatedTotal

LEMMA DeriveStatusType ==
  ASSUME NEW list
  PROVE  DeriveStatus(list) \in RentalStatus
BY DEF DeriveStatus, RentalStatus

LEMMA InitialTypes == Init => TypeOK
<1> SUFFICES ASSUME Init PROVE TypeOK
  OBVIOUS
<1>1. bicycles \in [Bicycles -> Bicycle]
  <2>1. \A b \in Bicycles : SeedOf(b) \subseteq Bicycle
    BY DEF SeedOf, Bicycle, BicycleStatus
  <2>. QED  BY <2>1 DEF Init
<1>2. inventory \in [Stations -> Nat]
  <2>1. \A s \in Stations : AvailableAt(s) \in SUBSET Bicycles
    BY DEF AvailableAt
  <2>. QED  BY <2>1, BikesFinite DEF Init
<1>. QED  BY <1>1, <1>2 DEF Init, TypeOK, Replies

\* Every use case keeps every type: the inventory only shrinks by what is there, and only
\* grows by what fits.
LEMMA TypePreserved == TypeOK /\ [Next]_vars => TypeOK'
<1> SUFFICES ASSUME TypeOK, [Next]_vars PROVE TypeOK'
  OBVIOUS
<1>1. ASSUME NEW c \in CreateCommands, NEW r \in RentalIds,
             DeclineCreate(c, r)
      PROVE  TypeOK'
  <2>1. c.bikes \subseteq Bicycles /\ c.fare \in Fares
    BY <1>1, CreateAccepted DEF DeclineCreate, Accepts
  <2>2. rentals' \in [RentalIds -> Rental \cup {None}]
    BY <1>1, <2>1, EstimatedTotalType
       DEF TypeOK, DeclineCreate, AddRental, Rental, RentalStatus
  <2>3. items' \in [RentalIds -> [Bicycles -> Item \cup {None}]]
    BY <1>1, <2>1, NewItemType DEF TypeOK, DeclineCreate, AddRental, NewItems
  <2>4. results' \in [RentalIds -> Authorization \cup {None}] /\ counter' \in Nat
    BY <1>1 DEF TypeOK, DeclineCreate, Authorize, Authorization
  <2>. QED  BY <1>1, <2>2, <2>3, <2>4 DEF TypeOK, DeclineCreate, Replies
<1>2. ASSUME NEW c \in CreateCommands, NEW r \in RentalIds,
             ConfirmCreate(c, r)
      PROVE  TypeOK'
  <2>1. c.bikes \subseteq Bicycles /\ c.fare \in Fares /\ c.station \in Stations
    BY <1>2, CreateAccepted DEF ConfirmCreate, Accepts
  <2>2. Cardinality(c.bikes) \in Nat
    BY <2>1, BikesFinite
  <2>3. EstimatedTotal(c) \in Nat
    BY <2>1, EstimatedTotalType
  <2>4. bicycles' \in [Bicycles -> Bicycle]
    BY <1>2 DEF TypeOK, ConfirmCreate, RentAll, Rented, Bicycle, BicycleStatus
  <2>5. inventory' \in [Stations -> Nat] /\ \A s \in Stations : inventory'[s] <= Capacity[s]
    <3>1. CASE inventory[c.station] < Cardinality(c.bikes)
      BY <1>2, <3>1 DEF TypeOK, ConfirmCreate
    <3>2. CASE ~(inventory[c.station] < Cardinality(c.bikes))
      <4>1. inventory' = [inventory EXCEPT ![c.station] = @ - Cardinality(c.bikes)]
        BY <1>2, <3>2 DEF ConfirmCreate, DecrementInventory
      <4>2. inventory[c.station] \in Nat /\ Capacity[c.station] \in Nat
              /\ inventory[c.station] <= Capacity[c.station]
        BY <2>1, StationsAssumption DEF TypeOK
      <4>3. /\ inventory[c.station] - Cardinality(c.bikes) \in Nat
            /\ inventory[c.station] - Cardinality(c.bikes) <= Capacity[c.station]
        BY <2>2, <3>2, <4>2
      <4>. QED  BY <2>1, <4>1, <4>3 DEF TypeOK
    <3>. QED  BY <3>1, <3>2
  <2>6. rentals' \in [RentalIds -> Rental \cup {None}]
    <3>. DEFINE new == [status |-> DeriveStatus(NewItems(c)), total |-> EstimatedTotal(c),
                        paid |-> TRUE, closed_at |-> None]
    <3>1. new \in Rental
      BY <2>3, DeriveStatusType DEF Rental
    <3>2. rentals' = rentals \/ rentals' = [rentals EXCEPT ![r] = new]
      BY <1>2 DEF ConfirmCreate, AddRental
    <3>. HIDE DEF new
    <3>. QED  BY <3>1, <3>2 DEF TypeOK
  <2>7. items' \in [RentalIds -> [Bicycles -> Item \cup {None}]]
    BY <1>2, <2>1, NewItemType DEF TypeOK, ConfirmCreate, AddRental, NewItems
  <2>8. /\ counter' = counter + 1
        /\ results' = [results EXCEPT ![r] = [approved |-> TRUE, reference |-> counter + 1]]
    BY <1>2 DEF ConfirmCreate, Authorize
  <2>9. counter' \in Nat /\ results' \in [RentalIds -> Authorization \cup {None}]
    BY <2>8 DEF TypeOK, Authorization
  <2>10. payments' \in [RentalIds -> Payment \cup {None}]
    <3>. DEFINE new == [amount |-> EstimatedTotal(c), reference |-> results'[r].reference]
    <3>1. new \in Payment
      BY <2>3, <2>8 DEF TypeOK, Payment
    <3>2. payments' = payments \/ payments' = [payments EXCEPT ![r] = new]
      BY <1>2 DEF ConfirmCreate, AddPayment
    <3>. HIDE DEF new
    <3>. QED  BY <3>1, <3>2 DEF TypeOK
  <2>. QED  BY <1>2, <2>4, <2>5, <2>6, <2>7, <2>8, <2>9, <2>10
            DEF TypeOK, ConfirmCreate, Replies
<1>3. ASSUME NEW c \in ReturnCommands, AcceptReturn(c)
      PROVE  TypeOK'
  <2>1. /\ c.rental \in RentalIds /\ IsOpen(c.rental) /\ c.bikes \subseteq Bicycles
        /\ c.station \in Stations /\ ~DoesNotFit(c)
        /\ \A b \in c.bikes : HasActiveItem(c.rental, b)
    BY <1>3, ReturnAccepted DEF AcceptReturn
  <2>2. Cardinality(c.bikes) \in Nat
    BY <2>1, BikesFinite
  <2>3. bicycles' \in [Bicycles -> Bicycle]
    BY <1>3, <2>1 DEF TypeOK, AcceptReturn, ReturnedTo, Bicycle, BicycleStatus
  <2>4. inventory' \in [Stations -> Nat] /\ \A s \in Stations : inventory'[s] <= Capacity[s]
    <3>1. inventory[c.station] \in Nat /\ Capacity[c.station] \in Nat
      BY <2>1, StationsAssumption DEF TypeOK
    <3>2. /\ inventory[c.station] + Cardinality(c.bikes) \in Nat
          /\ inventory[c.station] + Cardinality(c.bikes) <= Capacity[c.station]
      BY <2>1, <2>2, <3>1 DEF DoesNotFit
    <3>. QED  BY <1>3, <2>1, <3>2 DEF TypeOK, AcceptReturn
  <2>5. \A b \in c.bikes : MarkReturned(items[c.rental][b]) \in Item
    <3>1. \A b \in c.bikes : items[c.rental][b] \in Item
      BY <2>1 DEF TypeOK, HasActiveItem, HasItem
    <3>. QED  BY <3>1, MarkReturnedType DEF TypeOK
  <2>6. items' \in [RentalIds -> [Bicycles -> Item \cup {None}]]
    BY <1>3, <2>1, <2>5 DEF TypeOK, AcceptReturn, ApplyReturn
  <2>7. rentals' \in [RentalIds -> Rental \cup {None}]
    <3>. DEFINE list == [b \in Bicycles |-> IF b \in c.bikes
                           THEN MarkReturned(items[c.rental][b]) ELSE items[c.rental][b]]
                old == rentals[c.rental]
                new == [old EXCEPT !.status = DeriveStatus(list),
                          !.closed_at = IF DeriveStatus(list) = "completada" /\ @ = None
                                        THEN now ELSE @]
    <3>1. old \in Rental
      BY <2>1 DEF TypeOK, IsOpen
    <3>2. DeriveStatus(list) \in RentalStatus
      BY DeriveStatusType
    <3>3. new \in Rental
      <4>. HIDE DEF list
      <4>. QED  BY <3>1, <3>2 DEF TypeOK, Rental
    <3>4. rentals' = [rentals EXCEPT ![c.rental] = new]
      BY <1>3 DEF AcceptReturn, ApplyReturn
    <3>. HIDE DEF new
    <3>. QED  BY <3>3, <3>4 DEF TypeOK
  <2>. QED  BY <1>3, <2>3, <2>4, <2>6, <2>7 DEF TypeOK, AcceptReturn, Replies
<1>4. ASSUME NEW c \in CreateCommands, RejectCreate(c)
      PROVE  TypeOK'
  BY <1>4 DEF TypeOK, RejectCreate, stored, Replies
<1>5. ASSUME NEW c \in ReturnCommands, RejectReturn(c)
      PROVE  TypeOK'
  BY <1>5 DEF TypeOK, RejectReturn, stored, Replies
<1>6. CASE ClockMoves
  BY <1>6 DEF TypeOK, ClockMoves, stored
<1>7. CASE UNCHANGED vars
  BY <1>7 DEF TypeOK, vars
<1>. QED  BY <1>1, <1>2, <1>3, <1>4, <1>5, <1>6, <1>7
          DEF Next, CreateRental, ReturnBicycles

\* Every repository holds what its entities allow, and a station's inventory stays
\* between 0 and its capacity, in every reachable state.
THEOREM TypeCorrect == Spec => []TypeOK
BY InitialTypes, TypePreserved, PTL DEF Spec

-----------------------------------------------------------------------------
(* The materialized inventory *)

\* The bicycles of an accepted command are among those the inventory counts, so that
\* decrement_inventory finds units enough.
LEMMA EnoughUnits ==
  ASSUME InventoryCounts, NEW s \in Stations, NEW bikes \in SUBSET AvailableAt(s)
  PROVE  inventory[s] \in Nat /\ Cardinality(bikes) \in Nat
           /\ Cardinality(bikes) <= inventory[s]
<1>1. AvailableAt(s) \in SUBSET Bicycles
  BY DEF AvailableAt
<1>2. IsFiniteSet(AvailableAt(s)) /\ Cardinality(AvailableAt(s)) \in Nat
  BY <1>1, BikesFinite
<1>3. Cardinality(bikes) \in Nat /\ Cardinality(bikes) <= Cardinality(AvailableAt(s))
  BY <1>2, FS_Subset, FS_CardinalityType
<1>. QED  BY <1>2, <1>3 DEF InventoryCounts

\* The commit of a confirmed creation, as it runs when the inventory counts.
LEMMA CommitRuns ==
  ASSUME TypeOK, InventoryCounts,
         NEW c \in CreateCommands, NEW r \in RentalIds, ConfirmCreate(c, r)
  PROVE  /\ inventory' = [inventory EXCEPT ![c.station] = @ - Cardinality(c.bikes)]
         /\ AddPayment(r, EstimatedTotal(c))
         /\ AddRental(c, r, DeriveStatus(NewItems(c)), TRUE)
         /\ reply' = "ok"
<1>1. c.station \in Stations /\ c.bikes \subseteq AvailableAt(c.station)
  BY CreateAccepted DEF ConfirmCreate, Accepts
<1>2. ~(inventory[c.station] < Cardinality(c.bikes))
  BY <1>1, EnoughUnits
<1>. QED  BY <1>2 DEF ConfirmCreate, DecrementInventory

\* A creation takes its bicycles from those available at its station, and from no other.
LEMMA RentedLeave ==
  ASSUME TypeOK, NEW c \in CreateCommands, NEW r \in RentalIds, ConfirmCreate(c, r),
         NEW s \in Stations
  PROVE  AvailableAt(s)' = IF s = c.station THEN AvailableAt(s) \ c.bikes ELSE AvailableAt(s)
<1>1. c.bikes \subseteq Bicycles /\ c.bikes \subseteq AvailableAt(c.station)
  BY CreateAccepted DEF ConfirmCreate, Accepts
<1>2. \A b \in c.bikes : bicycles[b].station = c.station
  BY <1>1 DEF AvailableAt, IsAvailableAt
<1>3. \A b \in c.bikes : ~IsAvailableAt(b, s)'
  BY <1>1 DEF ConfirmCreate, RentAll, Rented, IsAvailableAt
<1>4. \A b \in Bicycles \ c.bikes : IsAvailableAt(b, s)' <=> IsAvailableAt(b, s)
  BY DEF ConfirmCreate, RentAll, IsAvailableAt
<1>5. s # c.station => \A b \in c.bikes : ~IsAvailableAt(b, s)
  BY <1>2 DEF IsAvailableAt
<1>. QED  BY <1>1, <1>3, <1>4, <1>5 DEF AvailableAt

\* A return adds its bicycles, none of which was available, to those of its station.
LEMMA ReturnedArrive ==
  ASSUME TypeOK, NEW c \in ReturnCommands, AcceptReturn(c), NEW s \in Stations
  PROVE  /\ AvailableAt(s)' = IF s = c.station THEN AvailableAt(s) \cup c.bikes
                                               ELSE AvailableAt(s)
         /\ AvailableAt(s) \cap c.bikes = {}
<1>1. c.bikes \subseteq Bicycles /\ \A b \in c.bikes : bicycles[b].status = "rentada"
  BY ReturnAccepted DEF AcceptReturn
<1>2. \A b \in c.bikes : ~IsAvailableAt(b, s)
  BY <1>1 DEF IsAvailableAt
<1>3. \A b \in c.bikes : IsAvailableAt(b, s)' <=> s = c.station
  BY <1>1 DEF AcceptReturn, ReturnedTo, IsAvailableAt
<1>4. \A b \in Bicycles \ c.bikes : IsAvailableAt(b, s)' <=> IsAvailableAt(b, s)
  BY DEF AcceptReturn, IsAvailableAt
<1>. QED  BY <1>1, <1>2, <1>3, <1>4 DEF AvailableAt

LEMMA InventoryPreserved ==
  TypeOK /\ InventoryCounts /\ [Next]_vars => InventoryCounts'
<1> SUFFICES ASSUME TypeOK, InventoryCounts, [Next]_vars PROVE InventoryCounts'
  OBVIOUS
<1>1. ASSUME NEW c \in CreateCommands, NEW r \in RentalIds, ConfirmCreate(c, r)
      PROVE  InventoryCounts'
  <2>1. c.station \in Stations /\ c.bikes \subseteq AvailableAt(c.station)
    BY <1>1, CreateAccepted DEF ConfirmCreate, Accepts
  <2>2. inventory' = [inventory EXCEPT ![c.station] = @ - Cardinality(c.bikes)]
    BY <1>1, CommitRuns
  <2>3. ASSUME NEW s \in Stations
        PROVE  inventory'[s] = Cardinality(AvailableAt(s)')
    <3>1. AvailableAt(s)' = IF s = c.station THEN AvailableAt(s) \ c.bikes ELSE AvailableAt(s)
      BY <1>1, RentedLeave
    <3>2. CASE s = c.station
      <4>1. IsFiniteSet(AvailableAt(s))
        BY BikesFinite DEF AvailableAt
      <4>2. AvailableAt(s) \cap c.bikes = c.bikes
        BY <2>1, <3>2
      <4>3. Cardinality(AvailableAt(s) \ c.bikes)
              = Cardinality(AvailableAt(s)) - Cardinality(c.bikes)
        BY <4>1, <4>2, FS_Difference
      <4>. QED  BY <2>2, <3>1, <3>2, <4>3 DEF TypeOK, InventoryCounts
    <3>3. CASE s # c.station
      BY <2>2, <3>1, <3>3 DEF TypeOK, InventoryCounts
    <3>. QED  BY <3>2, <3>3
  <2>. QED  BY <2>3 DEF InventoryCounts
<1>2. ASSUME NEW c \in ReturnCommands, AcceptReturn(c)
      PROVE  InventoryCounts'
  <2>1. c.station \in Stations /\ c.bikes \subseteq Bicycles
    BY <1>2, ReturnAccepted DEF AcceptReturn
  <2>2. inventory' = [inventory EXCEPT ![c.station] = @ + Cardinality(c.bikes)]
    BY <1>2 DEF AcceptReturn
  <2>3. ASSUME NEW s \in Stations
        PROVE  inventory'[s] = Cardinality(AvailableAt(s)')
    <3>1. /\ AvailableAt(s)' = IF s = c.station THEN AvailableAt(s) \cup c.bikes
                                                ELSE AvailableAt(s)
          /\ AvailableAt(s) \cap c.bikes = {}
      BY <1>2, ReturnedArrive
    <3>2. CASE s = c.station
      <4>1. /\ IsFiniteSet(AvailableAt(s)) /\ Cardinality(AvailableAt(s)) \in Nat
            /\ IsFiniteSet(c.bikes) /\ Cardinality(c.bikes) \in Nat
        BY <2>1, BikesFinite DEF AvailableAt
      <4>2. Cardinality(AvailableAt(s) \cup c.bikes)
              = Cardinality(AvailableAt(s)) + Cardinality(c.bikes)
        BY <3>1, <4>1, FS_Union, FS_EmptySet
      <4>. QED  BY <2>2, <3>1, <3>2, <4>2 DEF TypeOK, InventoryCounts
    <3>3. CASE s # c.station
      BY <2>2, <3>1, <3>3 DEF TypeOK, InventoryCounts
    <3>. QED  BY <3>2, <3>3
  <2>. QED  BY <2>3 DEF InventoryCounts
<1>3. ASSUME UNCHANGED <<bicycles, inventory>>
      PROVE  InventoryCounts'
  BY <1>3 DEF InventoryCounts, AvailableAt, IsAvailableAt
<1>. QED  BY <1>1, <1>2, <1>3
          DEF Next, CreateRental, ReturnBicycles, RejectCreate, DeclineCreate,
              RejectReturn, ClockMoves, stored, vars

\* RN-01: through rentals, declined payments, partial returns and relocations, the
\* inventory of a station is the number of available bicycles that stand there.
THEOREM InventoryCorrect == Spec => []InventoryCounts
<1>1. Init => InventoryCounts
  BY DEF Init, InventoryCounts
<1>. QED  BY <1>1, InventoryPreserved, TypeCorrect, PTL DEF Spec

\* create_rental.py, step 7: the commit of an accepted creation cannot raise, although
\* steps 1 to 4 never look at the inventory.
THEOREM CommitNeverRaises == Spec => []CommitCannotRaise
<1>1. InventoryCounts => CommitCannotRaise
  BY EnoughUnits DEF CommitCannotRaise
<1>. QED  BY <1>1, InventoryCorrect, PTL

-----------------------------------------------------------------------------
(* The derived status, and the bicycles a rental holds *)

\* derive_status (ADR-0004): a list with an active item derives an open status, a list
\* with an item does not derive 'fallida', and no list derives 'completada' with an active
\* item.
LEMMA DerivedOpen ==
  ASSUME NEW list, NEW b \in Bicycles, list[b] # None
  PROVE  /\ DeriveStatus(list) # "fallida"
         /\ list[b].status = "activo" => DeriveStatus(list) \in OpenStatuses
<1>. DEFINE statuses == {list[x].status : x \in {y \in Bicycles : list[y] # None}}
<1>1. list[b].status \in statuses
  OBVIOUS
<1>2. statuses # {} /\ (list[b].status = "activo" => statuses # {"devuelto"})
  BY <1>1
<1>3. DeriveStatus(list) = IF statuses = {} THEN "fallida"
                           ELSE IF statuses = {"devuelto"} THEN "completada"
                           ELSE IF "devuelto" \in statuses THEN "parcialmente_devuelta"
                           ELSE "activa"
  BY DEF DeriveStatus
<1>. HIDE DEF statuses
<1>. QED  BY <1>2, <1>3 DEF OpenStatuses

\* The items of a creation: one, active, for each bicycle of the command.
LEMMA NewItemsActive ==
  ASSUME TypeOK, NEW c \in CreateCommands, CreateFaults(c) = {}
  PROVE  /\ \A b \in c.bikes : NewItems(c)[b] # None /\ NewItems(c)[b].status = "activo"
         /\ \A b \in Bicycles \ c.bikes : NewItems(c)[b] = None
         /\ DeriveStatus(NewItems(c)) \in OpenStatuses
<1>1. c.bikes # {} /\ c.bikes \subseteq Bicycles /\ c.fare \in Fares
  BY CreateAccepted
<1>2. NewItem(c.fare) # None /\ NewItem(c.fare).status = "activo"
  BY <1>1, NewItemType, NoneAssumption DEF TypeOK
<1>3. \A b \in c.bikes : NewItems(c)[b] # None /\ NewItems(c)[b].status = "activo"
  BY <1>1, <1>2 DEF NewItems
<1>4. DeriveStatus(NewItems(c)) \in OpenStatuses
  BY <1>1, <1>3, DerivedOpen
<1>. QED  BY <1>3, <1>4 DEF NewItems

\* A confirmed creation holds its bicycles, which no rental held, and nothing else changes
\* hands.
LEMMA ConfirmHolds ==
  ASSUME TypeOK, InventoryCounts, NEW c \in CreateCommands, NEW r \in RentalIds,
         ConfirmCreate(c, r), NEW q \in RentalIds, NEW b \in Bicycles
  PROVE  /\ Holds(q, b)' <=> Holds(q, b) \/ (q = r /\ b \in c.bikes)
         /\ ~Holds(r, b)
         /\ b \in c.bikes => ~Holds(q, b)
<1>1. rentals[r] = None /\ CreateFaults(c) = {} /\ c.bikes \cap ListActiveBicycleIds = {}
  BY CreateAccepted DEF ConfirmCreate, Accepts
<1>2. ~Holds(r, b)
  BY <1>1 DEF Holds, IsOpen
<1>3. /\ rentals' = [rentals EXCEPT ![r] =
             [status |-> DeriveStatus(NewItems(c)), total |-> EstimatedTotal(c),
              paid |-> TRUE, closed_at |-> None]]
      /\ items' = [items EXCEPT ![r] = NewItems(c)]
  BY CommitRuns DEF AddRental
<1>4. CASE q = r
  <2>1. rentals'[r].status = DeriveStatus(NewItems(c)) /\ items'[r] = NewItems(c)
    BY <1>3 DEF TypeOK
  <2>2. rentals'[r] # None
    <3>1. [status |-> DeriveStatus(NewItems(c)), total |-> EstimatedTotal(c),
           paid |-> TRUE, closed_at |-> None] \in Rental
      BY <1>1, CreateAccepted, EstimatedTotalType, DeriveStatusType DEF Rental
    <3>. QED  BY <1>3, <3>1, NoneAssumption DEF TypeOK
  <2>. QED  BY <1>1, <1>2, <1>4, <2>1, <2>2, NewItemsActive
            DEF Holds, IsOpen, HasActiveItem, HasItem
<1>5. CASE q # r
  <2>1. rentals'[q] = rentals[q] /\ items'[q] = items[q]
    BY <1>3, <1>5 DEF TypeOK
  <2>. QED  BY <1>1, <1>2, <1>5, <2>1
            DEF Holds, IsOpen, HasActiveItem, HasItem, ListActiveBicycleIds
<1>. QED  BY <1>4, <1>5

\* A declined creation stores a failed rental, which holds nothing.
LEMMA DeclineHolds ==
  ASSUME TypeOK, NEW c \in CreateCommands, NEW r \in RentalIds,
         DeclineCreate(c, r), NEW q \in RentalIds, NEW b \in Bicycles
  PROVE  Holds(q, b)' <=> Holds(q, b)
<1>1. rentals[r] = None
  BY DEF DeclineCreate, Accepts
<1>2. CASE q = r
  <2>1. rentals'[r].status = "fallida"
    BY DEF DeclineCreate, AddRental, TypeOK
  <2>. QED  BY <1>1, <1>2, <2>1 DEF Holds, IsOpen, OpenStatuses
<1>3. CASE q # r
  <2>1. rentals'[q] = rentals[q] /\ items'[q] = items[q]
    BY <1>3 DEF DeclineCreate, AddRental, TypeOK
  <2>. QED  BY <2>1 DEF Holds, IsOpen, HasActiveItem, HasItem
<1>. QED  BY <1>2, <1>3

\* What a return does to the rental it names.
LEMMA ReturnRental ==
  ASSUME TypeOK, NEW c \in ReturnCommands, AcceptReturn(c)
  PROVE  LET r   == c.rental
             new == items'[r]
         IN  /\ r \in RentalIds /\ rentals[r] \in Rental /\ rentals[r].status \in OpenStatuses
             /\ rentals'[r] \in Rental
             /\ rentals'[r].status = DeriveStatus(new)
             /\ rentals'[r].total = rentals[r].total /\ rentals'[r].paid = rentals[r].paid
             /\ rentals'[r].closed_at =
                  IF DeriveStatus(new) = "completada" /\ rentals[r].closed_at = None
                  THEN now ELSE rentals[r].closed_at
             /\ \A b \in c.bikes : new[b] = MarkReturned(items[r][b])
             /\ \A b \in Bicycles \ c.bikes : new[b] = items[r][b]
             /\ \A q \in RentalIds \ {r} : rentals'[q] = rentals[q] /\ items'[q] = items[q]
<1>. DEFINE r == c.rental
            list == [b \in Bicycles |-> IF b \in c.bikes
                       THEN MarkReturned(items[r][b]) ELSE items[r][b]]
            closed == IF DeriveStatus(list) = "completada" /\ rentals[r].closed_at = None
                      THEN now ELSE rentals[r].closed_at
            new == [rentals[r] EXCEPT !.status = DeriveStatus(list), !.closed_at = closed]
<1>1. r \in RentalIds /\ IsOpen(r) /\ c.bikes \subseteq Bicycles
  BY ReturnAccepted DEF AcceptReturn
<1>2. rentals[r] \in Rental /\ rentals[r].status \in OpenStatuses
  BY <1>1 DEF IsOpen, TypeOK
<1>3. items' = [items EXCEPT ![r] = list] /\ rentals' = [rentals EXCEPT ![r] = new]
  BY DEF AcceptReturn, ApplyReturn
<1>4. items'[r] = list /\ rentals'[r] = new
  BY <1>1, <1>3 DEF TypeOK
<1>5. /\ new.status = DeriveStatus(list) /\ new.closed_at = closed
      /\ new.total = rentals[r].total /\ new.paid = rentals[r].paid
  <2>. HIDE DEF list, closed
  <2>. QED  BY <1>2 DEF Rental
<1>6. rentals'[r] \in Rental
  <2>1. closed \in Instants \cup {None}
    BY <1>2 DEF TypeOK, Rental
  <2>2. DeriveStatus(list) \in RentalStatus
    BY DeriveStatusType
  <2>3. new \in Rental
    <3>. HIDE DEF closed, list
    <3>. QED  BY <1>2, <2>1, <2>2 DEF Rental
  <2>. QED  BY <1>4, <2>3
<1>7. \A q \in RentalIds \ {r} : rentals'[q] = rentals[q] /\ items'[q] = items[q]
  BY <1>3 DEF TypeOK
<1>8. /\ \A b \in c.bikes : list[b] = MarkReturned(items[r][b])
      /\ \A b \in Bicycles \ c.bikes : list[b] = items[r][b]
  BY <1>1
<1>. HIDE DEF list, new, closed
<1>. QED  BY <1>1, <1>2, <1>4, <1>5, <1>6, <1>7, <1>8 DEF closed

\* A return gives back its bicycles, which its rental held, and nothing else changes
\* hands: a rental with an active item left stays open.
LEMMA ReturnHolds ==
  ASSUME TypeOK, NEW c \in ReturnCommands, AcceptReturn(c),
         NEW q \in RentalIds, NEW b \in Bicycles
  PROVE  /\ Holds(q, b)' <=> Holds(q, b) /\ ~(q = c.rental /\ b \in c.bikes)
         /\ b \in c.bikes => Holds(c.rental, b)
<1>1. b \in c.bikes => Holds(c.rental, b)
  BY ReturnAccepted DEF AcceptReturn, Holds
<1>2. CASE q = c.rental /\ b \in c.bikes
  <2>1. items[q][b] \in Item
    BY <1>2, ReturnAccepted DEF AcceptReturn, HasActiveItem, HasItem, TypeOK
  <2>2. items'[q][b] = MarkReturned(items[q][b])
    BY <1>2, ReturnRental
  <2>3. items'[q][b].status = "devuelto"
    BY <2>1, <2>2 DEF MarkReturned, Item
  <2>. QED  BY <1>1, <1>2, <2>3 DEF Holds, HasActiveItem
<1>3. CASE q = c.rental /\ b \notin c.bikes
  <2>1. items'[q][b] = items[q][b]
    BY <1>3, ReturnRental
  <2>2. rentals'[q] # None /\ rentals'[q].status = DeriveStatus(items'[q])
    BY <1>3, ReturnRental, NoneAssumption
  <2>3. IsOpen(q)
    BY <1>3, ReturnAccepted DEF AcceptReturn
  <2>4. HasActiveItem(q, b) => IsOpen(q)'
    BY <2>1, <2>2, DerivedOpen DEF HasActiveItem, HasItem, IsOpen
  <2>. QED  BY <1>1, <1>3, <2>1, <2>3, <2>4 DEF Holds, HasActiveItem, HasItem
<1>4. CASE q # c.rental
  BY <1>1, <1>4, ReturnRental DEF Holds, IsOpen, HasActiveItem, HasItem
<1>. QED  BY <1>2, <1>3, <1>4

\* Whatever leaves the rentals and their items alone leaves what they hold alone.
LEMMA SameHolds ==
  ASSUME UNCHANGED <<rentals, items>>, NEW q \in RentalIds, NEW b \in Bicycles
  PROVE  Holds(q, b)' <=> Holds(q, b)
BY DEF Holds, IsOpen, HasActiveItem, HasItem

LEMMA NoDoublePreserved ==
  TypeOK /\ InventoryCounts /\ NoDoubleAssignment /\ [Next]_vars => NoDoubleAssignment'
<1> SUFFICES ASSUME TypeOK, InventoryCounts, NoDoubleAssignment, [Next]_vars
             PROVE  NoDoubleAssignment'
  OBVIOUS
<1>1. ASSUME NEW c \in CreateCommands, NEW r \in RentalIds, DeclineCreate(c, r)
      PROVE  NoDoubleAssignment'
  BY <1>1, DeclineHolds DEF NoDoubleAssignment
<1>2. ASSUME NEW c \in CreateCommands, NEW r \in RentalIds, ConfirmCreate(c, r)
      PROVE  NoDoubleAssignment'
  BY <1>2, ConfirmHolds DEF NoDoubleAssignment
<1>3. ASSUME NEW c \in ReturnCommands, AcceptReturn(c)
      PROVE  NoDoubleAssignment'
  BY <1>3, ReturnHolds DEF NoDoubleAssignment
<1>4. ASSUME UNCHANGED <<rentals, items>>
      PROVE  NoDoubleAssignment'
  BY <1>4, SameHolds DEF NoDoubleAssignment
<1>. QED  BY <1>1, <1>2, <1>3, <1>4
          DEF Next, CreateRental, ReturnBicycles, RejectCreate, RejectReturn, ClockMoves,
              stored, vars

\* RN-06: handled one request at a time, no bicycle is ever out on two rentals.
THEOREM NeverDoublyAssigned == Spec => []NoDoubleAssignment
<1>1. Init => NoDoubleAssignment
  BY DEF Init, NoDoubleAssignment, Holds, IsOpen
<1>. QED  BY <1>1, NoDoublePreserved, InventoryCorrect, TypeCorrect, PTL DEF Spec

-----------------------------------------------------------------------------
(* Bicycles and rentals agree *)

LEMMA HeldPreserved ==
  TypeOK /\ InventoryCounts /\ NoDoubleAssignment /\ HeldIffRented /\ [Next]_vars
    => HeldIffRented'
<1> SUFFICES ASSUME TypeOK, InventoryCounts, NoDoubleAssignment, HeldIffRented, [Next]_vars
             PROVE  HeldIffRented'
  OBVIOUS
<1>1. ASSUME NEW c \in CreateCommands, NEW r \in RentalIds, DeclineCreate(c, r)
      PROVE  HeldIffRented'
  <2>1. bicycles' = bicycles
    BY <1>1 DEF DeclineCreate
  <2>. QED  BY <1>1, <2>1, DeclineHolds DEF HeldIffRented
<1>2. ASSUME NEW c \in CreateCommands, NEW r \in RentalIds, ConfirmCreate(c, r)
      PROVE  HeldIffRented'
  <2>1. ASSUME NEW b \in Bicycles, b \in c.bikes
        PROVE  /\ bicycles'[b].status = "rentada" /\ bicycles'[b].station = None
               /\ Holds(r, b)'
    BY <1>2, <2>1, ConfirmHolds DEF ConfirmCreate, RentAll, Rented
  <2>2. ASSUME NEW b \in Bicycles, b \notin c.bikes
        PROVE  /\ bicycles'[b] = bicycles[b]
               /\ \A q \in RentalIds : Holds(q, b)' <=> Holds(q, b)
    BY <1>2, <2>2, ConfirmHolds DEF ConfirmCreate, RentAll
  <2>. QED  BY <2>1, <2>2 DEF HeldIffRented
<1>3. ASSUME NEW c \in ReturnCommands, AcceptReturn(c)
      PROVE  HeldIffRented'
  <2>1. c.rental \in RentalIds
    BY <1>3, ReturnRental
  <2>2. ASSUME NEW b \in Bicycles, b \in c.bikes
        PROVE  /\ bicycles'[b].status = "disponible"
               /\ \A q \in RentalIds : ~Holds(q, b)'
    BY <1>3, <2>1, <2>2, ReturnHolds DEF AcceptReturn, ReturnedTo, NoDoubleAssignment
  <2>3. ASSUME NEW b \in Bicycles, b \notin c.bikes
        PROVE  /\ bicycles'[b] = bicycles[b]
               /\ \A q \in RentalIds : Holds(q, b)' <=> Holds(q, b)
    BY <1>3, <2>3, ReturnHolds DEF AcceptReturn
  <2>. QED  BY <2>2, <2>3 DEF HeldIffRented
<1>4. ASSUME UNCHANGED <<bicycles, rentals, items>>
      PROVE  HeldIffRented'
  BY <1>4, SameHolds DEF HeldIffRented
<1>. QED  BY <1>1, <1>2, <1>3, <1>4
          DEF Next, CreateRental, ReturnBicycles, RejectCreate, RejectReturn, ClockMoves,
              stored, vars

\* return_bicycles.py, "active item <=> RENTADA bicycle": a bicycle out on a rental is
\* rented and at no station, and a bicycle that was rented is out on a rental.
THEOREM HeldExactlyWhenRented == Spec => []HeldIffRented
<1>1. Init => HeldIffRented
  <2> SUFFICES ASSUME Init PROVE HeldIffRented
    OBVIOUS
  <2>1. \A b \in Bicycles : bicycles[b].version = 0
    BY DEF Init, SeedOf
  <2>. QED  BY <2>1 DEF Init, HeldIffRented, Holds, IsOpen
<1>. QED  BY <1>1, HeldPreserved, NeverDoublyAssigned, InventoryCorrect, TypeCorrect, PTL
          DEF Spec

-----------------------------------------------------------------------------
(* Rentals, items and money agree *)

LEMMA StatusPreserved ==
  TypeOK /\ InventoryCounts /\ StatusDerived /\ [Next]_vars => StatusDerived'
<1> SUFFICES ASSUME TypeOK, InventoryCounts, StatusDerived, [Next]_vars
             PROVE  StatusDerived'
  OBVIOUS
<1>. DEFINE Derived(header, list) == header # None /\ header.status # "fallida" =>
              /\ header.status = DeriveStatus(list)
              /\ header.status = "completada" <=> header.closed_at # None
<1>0. \A q \in RentalIds : Derived(rentals[q], items[q])
  BY DEF StatusDerived
<1>1. ASSUME NEW c \in CreateCommands, NEW r \in RentalIds, DeclineCreate(c, r)
      PROVE  StatusDerived'
  <2>1. rentals'[r].status = "fallida"
    BY <1>1 DEF DeclineCreate, AddRental, TypeOK
  <2>2. \A q \in RentalIds \ {r} : rentals'[q] = rentals[q] /\ items'[q] = items[q]
    BY <1>1 DEF DeclineCreate, AddRental, TypeOK
  <2>. QED  BY <1>0, <2>1, <2>2 DEF StatusDerived
<1>2. ASSUME NEW c \in CreateCommands, NEW r \in RentalIds, ConfirmCreate(c, r)
      PROVE  StatusDerived'
  <2>1. /\ rentals'[r].status = DeriveStatus(NewItems(c)) /\ items'[r] = NewItems(c)
        /\ rentals'[r].closed_at = None
    BY <1>2, CommitRuns DEF AddRental, TypeOK
  <2>2. DeriveStatus(NewItems(c)) \in OpenStatuses
    BY <1>2, NewItemsActive DEF ConfirmCreate, Accepts
  <2>3. \A q \in RentalIds \ {r} : rentals'[q] = rentals[q] /\ items'[q] = items[q]
    BY <1>2, CommitRuns DEF AddRental, TypeOK
  <2>. QED  BY <1>0, <2>1, <2>2, <2>3 DEF StatusDerived, OpenStatuses
<1>3. ASSUME NEW c \in ReturnCommands, AcceptReturn(c)
      PROVE  StatusDerived'
  <2>. DEFINE r == c.rental
  <2>1. /\ r \in RentalIds /\ rentals[r] # None /\ rentals[r].status \in OpenStatuses
        /\ rentals'[r].status = DeriveStatus(items'[r])
        /\ rentals'[r].closed_at =
             IF DeriveStatus(items'[r]) = "completada" /\ rentals[r].closed_at = None
             THEN now ELSE rentals[r].closed_at
    BY <1>3, ReturnRental, NoneAssumption
  <2>2. rentals[r].closed_at = None
    BY <1>0, <2>1 DEF OpenStatuses
  <2>3. now # None
    BY NoneAssumption DEF TypeOK
  <2>4. \A q \in RentalIds \ {r} : rentals'[q] = rentals[q] /\ items'[q] = items[q]
    BY <1>3, ReturnRental
  <2>5. Derived(rentals'[r], items'[r])
    BY <2>1, <2>2, <2>3
  <2>. QED  BY <1>0, <2>4, <2>5 DEF StatusDerived
<1>4. ASSUME UNCHANGED <<rentals, items>>
      PROVE  StatusDerived'
  BY <1>4 DEF StatusDerived
<1>. QED  BY <1>1, <1>2, <1>3, <1>4
          DEF Next, CreateRental, ReturnBicycles, RejectCreate, RejectReturn, ClockMoves,
              stored, vars

\* ADR-0004: the stored status of a confirmed rental is always the one its items derive,
\* and it is closed exactly when it is complete.
THEOREM StatusAlwaysDerived == Spec => []StatusDerived
<1>1. Init => StatusDerived
  BY DEF Init, StatusDerived
<1>. QED  BY <1>1, StatusPreserved, InventoryCorrect, TypeCorrect, PTL DEF Spec

LEMMA PaidPreserved ==
  TypeOK /\ InventoryCounts /\ PaidIffConfirmed /\ [Next]_vars => PaidIffConfirmed'
<1> SUFFICES ASSUME TypeOK, InventoryCounts, PaidIffConfirmed, [Next]_vars
             PROVE  PaidIffConfirmed'
  OBVIOUS
<1>. DEFINE Agree(header, result, payment) ==
              /\ (header = None) <=> (result = None)
              /\ (payment # None) <=> (result # None /\ result.approved)
              /\ header # None =>
                   /\ header.paid <=> payment # None
                   /\ (header.status = "fallida") <=> (payment = None)
                   /\ payment # None => payment.amount = header.total
<1>0. \A q \in RentalIds : Agree(rentals[q], results[q], payments[q])
  BY DEF PaidIffConfirmed
<1>1. ASSUME NEW c \in CreateCommands, NEW r \in RentalIds, DeclineCreate(c, r)
      PROVE  PaidIffConfirmed'
  <2>1. EstimatedTotal(c) \in Nat
    BY <1>1, CreateAccepted, EstimatedTotalType DEF DeclineCreate, Accepts
  <2>. DEFINE header == [status |-> "fallida", total |-> EstimatedTotal(c), paid |-> FALSE,
                         closed_at |-> None]
              result == [approved |-> FALSE, reference |-> None]
  <2>2. header # None /\ result # None
    <3>1. header \in Rental /\ result \in Authorization
      BY <2>1 DEF Rental, RentalStatus, Authorization
    <3>. QED  BY <3>1, NoneAssumption
  <2>3. rentals'[r] = header /\ results'[r] = result /\ payments'[r] = None
    BY <1>0, <1>1 DEF DeclineCreate, Accepts, AddRental, Authorize, TypeOK
  <2>4. \A q \in RentalIds \ {r} : /\ rentals'[q] = rentals[q] /\ results'[q] = results[q]
                                   /\ payments'[q] = payments[q]
    BY <1>1 DEF DeclineCreate, AddRental, Authorize, TypeOK
  <2>5. Agree(rentals'[r], results'[r], payments'[r])
    BY <2>2, <2>3
  <2>. QED  BY <1>0, <2>4, <2>5 DEF PaidIffConfirmed
<1>2. ASSUME NEW c \in CreateCommands, NEW r \in RentalIds, ConfirmCreate(c, r)
      PROVE  PaidIffConfirmed'
  <2>1. EstimatedTotal(c) \in Nat /\ DeriveStatus(NewItems(c)) \in OpenStatuses
    BY <1>2, CreateAccepted, EstimatedTotalType, NewItemsActive DEF ConfirmCreate, Accepts
  <2>. DEFINE header == [status |-> DeriveStatus(NewItems(c)), total |-> EstimatedTotal(c),
                         paid |-> TRUE, closed_at |-> None]
              result == [approved |-> TRUE, reference |-> counter + 1]
              payment == [amount |-> EstimatedTotal(c), reference |-> counter + 1]
  <2>2. header # None /\ result # None /\ payment # None
    <3>1. header \in Rental /\ result \in Authorization /\ payment \in Payment
      BY <2>1, DeriveStatusType DEF Rental, Authorization, Payment, TypeOK
    <3>. QED  BY <3>1, NoneAssumption
  <2>3. rentals' = [rentals EXCEPT ![r] = header]
    BY <1>2, CommitRuns DEF AddRental
  <2>4. results' = [results EXCEPT ![r] = result]
    BY <1>2 DEF ConfirmCreate, Authorize
  <2>5. results'[r] = result
    BY <2>4 DEF TypeOK
  <2>6. payments' = [payments EXCEPT ![r] = payment]
    <3>1. payments' = [payments EXCEPT ![r] = [amount |-> EstimatedTotal(c),
                                               reference |-> results'[r].reference]]
      BY <1>2, CommitRuns DEF AddPayment
    <3>2. results'[r].reference = counter + 1
      BY <2>5
    <3>. QED  BY <3>1, <3>2
  <2>7. \A q \in RentalIds \ {r} : /\ rentals'[q] = rentals[q] /\ results'[q] = results[q]
                                   /\ payments'[q] = payments[q]
    BY <2>3, <2>4, <2>6 DEF TypeOK
  <2>8. rentals'[r] = header /\ payments'[r] = payment
    BY <2>3, <2>6 DEF TypeOK
  <2>9. Agree(rentals'[r], results'[r], payments'[r])
    BY <2>1, <2>2, <2>5, <2>8 DEF OpenStatuses
  <2>. QED  BY <1>0, <2>7, <2>9 DEF PaidIffConfirmed
<1>3. ASSUME NEW c \in ReturnCommands, AcceptReturn(c)
      PROVE  PaidIffConfirmed'
  <2>. DEFINE r == c.rental
  <2>1. /\ r \in RentalIds /\ rentals[r] # None /\ rentals'[r] # None
        /\ rentals[r].status \in OpenStatuses
        /\ rentals'[r].status = DeriveStatus(items'[r])
        /\ rentals'[r].total = rentals[r].total /\ rentals'[r].paid = rentals[r].paid
    BY <1>3, ReturnRental, NoneAssumption
  <2>2. rentals'[r].status # "fallida"
    <3>1. PICK b \in c.bikes : HasActiveItem(r, b)
      BY <1>3, ReturnAccepted DEF AcceptReturn
    <3>2. items[r][b] \in Item /\ items'[r][b] = MarkReturned(items[r][b]) /\ b \in Bicycles
      BY <1>3, <2>1, <3>1, ReturnRental DEF HasActiveItem, HasItem, TypeOK
    <3>3. items'[r][b] # None
      BY <3>2, MarkReturnedType, NoneAssumption DEF TypeOK
    <3>. QED  BY <2>1, <3>2, <3>3, DerivedOpen
  <2>3. payments' = payments /\ results' = results
    BY <1>3 DEF AcceptReturn
  <2>4. \A q \in RentalIds \ {r} : rentals'[q] = rentals[q]
    BY <1>3, ReturnRental
  <2>5. Agree(rentals'[r], results'[r], payments'[r])
    BY <1>0, <2>1, <2>2, <2>3 DEF OpenStatuses
  <2>. QED  BY <1>0, <2>3, <2>4, <2>5 DEF PaidIffConfirmed
<1>4. ASSUME UNCHANGED <<rentals, results, payments>>
      PROVE  PaidIffConfirmed'
  BY <1>4 DEF PaidIffConfirmed
<1>. QED  BY <1>1, <1>2, <1>3, <1>4
          DEF Next, CreateRental, ReturnBicycles, RejectCreate, RejectReturn, ClockMoves,
              stored, vars

\* RN-05, RN-19: an approved charge always has its payment, for the amount of its rental,
\* and a rental that is not failed; a declined one has a failed rental and no payment.
THEOREM MoneyAgrees == Spec => []PaidIffConfirmed
<1>1. Init => PaidIffConfirmed
  BY DEF Init, PaidIffConfirmed
<1>. QED  BY <1>1, PaidPreserved, InventoryCorrect, TypeCorrect, PTL DEF Spec

-----------------------------------------------------------------------------
(* Requests that fail *)

\* RN-05: a request that does not succeed leaves bicycles, inventory, payments, the
\* rentals there were and what they hold as they were.
THEOREM FailuresLeaveNoTrace == Spec => FailedRequestLeavesNoTrace
<1>. DEFINE NoTrace ==
       /\ UNCHANGED <<bicycles, inventory, payments>>
       /\ \A r \in RentalIds : rentals[r] # None => rentals'[r] = rentals[r]
       /\ ListActiveBicycleIds' = ListActiveBicycleIds
<1>1. TypeOK /\ InventoryCounts /\ [Next]_vars => [reply' # "ok" => NoTrace]_vars
  <2> SUFFICES ASSUME TypeOK, InventoryCounts, Next, reply' # "ok"
               PROVE  NoTrace
    OBVIOUS
  <2>1. ASSUME NEW c \in CreateCommands, NEW r \in RentalIds, DeclineCreate(c, r)
        PROVE  NoTrace
    <3>1. ListActiveBicycleIds' = ListActiveBicycleIds
      BY <2>1, DeclineHolds DEF ListActiveBicycleIds
    <3>. QED  BY <2>1, <3>1 DEF DeclineCreate, Accepts, AddRental, TypeOK
  <2>2. ASSUME NEW c \in CreateCommands, NEW r \in RentalIds, ConfirmCreate(c, r)
        PROVE  NoTrace
    BY <2>2, CommitRuns
  <2>3. ASSUME NEW c \in ReturnCommands, AcceptReturn(c)
        PROVE  NoTrace
    BY <2>3 DEF AcceptReturn
  <2>4. ASSUME UNCHANGED stored
        PROVE  NoTrace
    <3>1. ListActiveBicycleIds' = ListActiveBicycleIds
      BY <2>4, SameHolds DEF stored, ListActiveBicycleIds
    <3>. QED  BY <2>4, <3>1 DEF stored
  <2>. QED  BY <2>1, <2>2, <2>3, <2>4
            DEF Next, CreateRental, ReturnBicycles, RejectCreate, RejectReturn, ClockMoves
<1>. QED  BY <1>1, InventoryCorrect, TypeCorrect, PTL DEF Spec, FailedRequestLeavesNoTrace

-----------------------------------------------------------------------------
(* What a returned bicycle is billed *)

\* Strengthens the billing properties: the two instants and the amount of a returned item
\* are those mark_returned recorded, computed from the fare frozen in the item.
ItemsBilled ==
  \A r \in RentalIds, b \in Bicycles :
    HasItem(r, b) /\ items[r][b].status = "devuelto" =>
      /\ items[r][b].returned_at \in Instants
      /\ items[r][b].final_amount =
           FinalAmount(items[r][b].fare, items[r][b].started_at, items[r][b].returned_at)

LEMMA BilledPreserved ==
  TypeOK /\ InventoryCounts /\ ItemsBilled /\ [Next]_vars => ItemsBilled'
<1> SUFFICES ASSUME TypeOK, InventoryCounts, ItemsBilled, [Next]_vars PROVE ItemsBilled'
  OBVIOUS
<1>. DEFINE Billed(item) == item # None /\ item.status = "devuelto" =>
              /\ item.returned_at \in Instants
              /\ item.final_amount = FinalAmount(item.fare, item.started_at, item.returned_at)
<1>0. \A q \in RentalIds, b \in Bicycles : Billed(items[q][b])
  BY DEF ItemsBilled, HasItem
<1>1. ASSUME NEW c \in CreateCommands, NEW r \in RentalIds, CreateFaults(c) = {},
             items' = [items EXCEPT ![r] = NewItems(c)]
      PROVE  ItemsBilled'
  <2>1. \A b \in Bicycles : Billed(NewItems(c)[b])
    BY <1>1, NewItemsActive
  <2>2. \A q \in RentalIds, b \in Bicycles : Billed(items'[q][b])
    BY <1>0, <1>1, <2>1 DEF TypeOK
  <2>. QED  BY <2>2 DEF ItemsBilled, HasItem
<1>2. ASSUME NEW c \in ReturnCommands, AcceptReturn(c)
      PROVE  ItemsBilled'
  <2>1. ASSUME NEW item \in Item
        PROVE  Billed(MarkReturned(item))
    <3>1. /\ MarkReturned(item).returned_at = now
          /\ MarkReturned(item).fare = item.fare
          /\ MarkReturned(item).started_at = item.started_at
          /\ MarkReturned(item).final_amount = FinalAmount(item.fare, item.started_at, now)
      BY DEF MarkReturned, Item
    <3>. QED  BY <3>1 DEF TypeOK
  <2>2. \A b \in c.bikes : items[c.rental][b] \in Item
    BY <1>2, ReturnAccepted DEF AcceptReturn, HasActiveItem, HasItem, TypeOK
  <2>3. \A q \in RentalIds, b \in Bicycles : Billed(items'[q][b])
    BY <1>0, <1>2, <2>1, <2>2, ReturnRental
  <2>. QED  BY <2>3 DEF ItemsBilled, HasItem
<1>3. ASSUME UNCHANGED items
      PROVE  ItemsBilled'
  BY <1>3 DEF ItemsBilled, HasItem
<1>. QED  BY <1>1, <1>2, <1>3, CommitRuns
          DEF Next, CreateRental, ReturnBicycles, RejectCreate, RejectReturn, ClockMoves,
              DeclineCreate, ConfirmCreate, AddRental, Accepts, stored, vars

\* The inductive invariant of the two billing theorems.
LEMMA AlwaysItemsBilled == Spec => []ItemsBilled
<1>1. Init => ItemsBilled
  BY DEF Init, ItemsBilled, HasItem
<1>. QED  BY <1>1, BilledPreserved, InventoryCorrect, TypeCorrect, PTL DEF Spec

\* RN-08, RN-10: no returned bicycle is ever billed less than the estimate that was
\* authorized for it, however the clock moved.
THEOREM NeverBilledBelowEstimate == Spec => []BilledAtLeastEstimate
<1>1. TypeOK /\ ItemsBilled => BilledAtLeastEstimate
  <2> SUFFICES ASSUME TypeOK, ItemsBilled, NEW r \in RentalIds, NEW b \in Bicycles,
                      HasItem(r, b), items[r][b].status = "devuelto"
               PROVE  /\ items[r][b].returned_at # None
                      /\ items[r][b].final_amount >= EstimatedAmount(items[r][b].fare)
    BY DEF BilledAtLeastEstimate
  <2>. DEFINE item == items[r][b]
  <2>1. /\ item.returned_at \in Instants
        /\ item.final_amount = FinalAmount(item.fare, item.started_at, item.returned_at)
    BY DEF ItemsBilled
  <2>2. item.fare \in Fares /\ item.started_at \in Instants
    BY DEF TypeOK, HasItem, Item
  <2>. HIDE DEF item
  <2>3. /\ item.fare.fixed \in Nat /\ item.fare.time \in Nat /\ item.fare.unit \in TimeUnits
        /\ item.started_at \in Nat /\ item.returned_at \in Nat
    BY <2>1, <2>2, FaresAssumption, InstantsAssumption
  <2>4. item.final_amount >= EstimatedAmount(item.fare)
    BY <2>1, <2>3, FinalAmountCoversEstimate
  <2>. QED  BY <2>1, <2>4, NoneAssumption DEF item
<1>. QED  BY <1>1, AlwaysItemsBilled, TypeCorrect, PTL

\* RN-10: every returned bicycle is billed the least number of units, one at least, that
\* covers its whole minutes out.
THEOREM AlwaysBilledLeastCover == Spec => []BilledLeastCover
<1>1. TypeOK /\ ItemsBilled => BilledLeastCover
  <2> SUFFICES ASSUME TypeOK, ItemsBilled, NEW r \in RentalIds, NEW b \in Bicycles,
                      HasItem(r, b), items[r][b].status = "devuelto"
               PROVE  LET item      == items[r][b]
                          seconds   == item.returned_at - item.started_at
                          Covers(n) == n * MinutesPerUnit[item.fare.unit] * 60 > seconds - 60
                      IN  \E n \in 1 .. (IF seconds > 0 THEN seconds ELSE 1) :
                            /\ item.final_amount = item.fare.fixed + n * item.fare.time
                            /\ Covers(n)
                            /\ \A m \in 1 .. (n - 1) : ~Covers(m)
    BY DEF BilledLeastCover
  <2>. DEFINE item == items[r][b]
  <2>1. /\ item.returned_at \in Instants
        /\ item.final_amount = FinalAmount(item.fare, item.started_at, item.returned_at)
    BY DEF ItemsBilled
  <2>2. item.fare \in Fares /\ item.started_at \in Instants
    BY DEF TypeOK, HasItem, Item
  <2>. HIDE DEF item
  <2>3. /\ item.fare.fixed \in Nat /\ item.fare.time \in Nat /\ item.fare.unit \in TimeUnits
        /\ item.started_at \in Nat /\ item.returned_at \in Nat
    BY <2>1, <2>2, FaresAssumption, InstantsAssumption
  <2>4. PICK started \in Nat, returned \in Nat, unit \in TimeUnits, time \in Nat, fixed \in Nat :
          /\ started = item.started_at /\ returned = item.returned_at
          /\ unit = item.fare.unit /\ time = item.fare.time /\ fixed = item.fare.fixed
    BY <2>3
  <2>. DEFINE n == BillableUnits(ElapsedMinutes(started, returned), unit)
  <2>5. n \in Nat
    BY ElapsedMinutesBounds, BillableUnitsCover
  <2>6. item.final_amount = fixed + n * time
    <3>1. item.final_amount = fixed + time * n
      BY <2>1, <2>4 DEF FinalAmount
    <3>. HIDE DEF n
    <3>. QED  BY <2>5, <3>1
  <2>7. /\ n \in 1 .. (IF returned - started > 0 THEN returned - started ELSE 1)
        /\ n * MinutesPerUnit[unit] * 60 > (returned - started) - 60
        /\ \A m \in 1 .. (n - 1) : ~(m * MinutesPerUnit[unit] * 60 > (returned - started) - 60)
    BY LeastCover
  <2>. HIDE DEF n
  <2>8. /\ item.final_amount = item.fare.fixed + n * item.fare.time
        /\ n \in 1 .. (IF item.returned_at - item.started_at > 0
                       THEN item.returned_at - item.started_at ELSE 1)
        /\ n * MinutesPerUnit[item.fare.unit] * 60 > (item.returned_at - item.started_at) - 60
        /\ \A m \in 1 .. (n - 1) : ~(m * MinutesPerUnit[item.fare.unit] * 60
                                       > (item.returned_at - item.started_at) - 60)
    BY <2>4, <2>6, <2>7, Zenon
  <2>. QED  BY <2>8, Zenon DEF item
<1>. QED  BY <1>1, AlwaysItemsBilled, TypeCorrect, PTL

-----------------------------------------------------------------------------
(* The refinement of BikeAllocation *)

LEMMA HeldBikes ==
  ASSUME NEW r \in RentalIds
  PROVE  Held[r] = {b \in Bicycles : Holds(r, b)}
BY DEF Held

\* A confirmed creation is Rent of the promise.
LEMMA ConfirmRents ==
  ASSUME TypeOK, InventoryCounts, PaidIffConfirmed,
         NEW c \in CreateCommands, NEW r \in RentalIds, ConfirmCreate(c, r)
  PROVE  c.bikes \in SUBSET Bicycles /\ Allocation!Rent(r, c.bikes)
<1>1. c.bikes # {} /\ c.bikes \subseteq Bicycles /\ rentals[r] = None
  BY CreateAccepted DEF ConfirmCreate, Accepts
<1>2. r \notin Charged
  BY <1>1 DEF Charged, PaidIffConfirmed
<1>3. c.bikes \cap Allocation!Taken = {}
  <2>1. \A q \in RentalIds : c.bikes \cap Held[q] = {}
    BY <1>1, ConfirmHolds, HeldBikes
  <2>. QED  BY <2>1 DEF Allocation!Taken
<1>4. Held' = [Held EXCEPT ![r] = c.bikes]
  <2>1. \A b \in Bicycles : Holds(r, b)' <=> b \in c.bikes
    BY ConfirmHolds
  <2>2. \A q \in RentalIds \ {r}, b \in Bicycles : Holds(q, b)' <=> Holds(q, b)
    BY ConfirmHolds
  <2>. QED  BY <1>1, <2>1, <2>2 DEF Held
<1>5. Charged' = Charged \cup {r}
  <2>1. payments' = [payments EXCEPT ![r] = [amount |-> EstimatedTotal(c),
                                             reference |-> results'[r].reference]]
    BY CommitRuns DEF AddPayment
  <2>2. results'[r].reference = counter + 1
    BY DEF ConfirmCreate, Authorize, TypeOK
  <2>3. EstimatedTotal(c) \in Nat
    BY CreateAccepted, EstimatedTotalType DEF ConfirmCreate, Accepts
  <2>4. [amount |-> EstimatedTotal(c), reference |-> counter + 1] # None
    <3>1. [amount |-> EstimatedTotal(c), reference |-> counter + 1] \in Payment
      BY <2>3 DEF Payment, TypeOK
    <3>. QED  BY <3>1, NoneAssumption
  <2>. QED  BY <2>1, <2>2, <2>4 DEF Charged, TypeOK
<1>. QED  BY <1>1, <1>2, <1>3, <1>4, <1>5 DEF Allocation!Rent

\* A return is GiveBack of the promise.
LEMMA ReturnGivesBack ==
  ASSUME TypeOK, NEW c \in ReturnCommands, AcceptReturn(c)
  PROVE  /\ c.rental \in RentalIds /\ c.bikes \in SUBSET Bicycles
         /\ Allocation!GiveBack(c.rental, c.bikes)
<1>1. c.rental \in RentalIds /\ c.bikes # {} /\ c.bikes \subseteq Bicycles
  BY ReturnAccepted DEF AcceptReturn
<1>2. c.bikes \subseteq Held[c.rental]
  BY <1>1, ReturnHolds, HeldBikes
<1>3. Held' = [Held EXCEPT ![c.rental] = @ \ c.bikes]
  <2>1. \A b \in Bicycles : Holds(c.rental, b)' <=> Holds(c.rental, b) /\ b \notin c.bikes
    BY <1>1, ReturnHolds
  <2>2. \A q \in RentalIds \ {c.rental}, b \in Bicycles : Holds(q, b)' <=> Holds(q, b)
    BY ReturnHolds
  <2>. QED  BY <1>1, <2>1, <2>2 DEF Held
<1>4. Charged' = Charged
  BY DEF AcceptReturn, Charged
<1>. QED  BY <1>1, <1>2, <1>3, <1>4 DEF Allocation!GiveBack

\* RN-05, RN-06: handled one request at a time, CreateRental and ReturnBicycles implement
\* the promise of BikeAllocation: a rental takes its bicycles, none of them out, and is
\* charged once, in one step; returns give back bicycles that are out, and nothing else.
THEOREM RefinesAllocation == Spec => ImplementsAllocation
<1>1. Init => Allocation!Init
  <2> SUFFICES ASSUME Init PROVE Allocation!Init
    OBVIOUS
  <2>1. \A r \in RentalIds, b \in Bicycles : ~Holds(r, b)
    BY DEF Init, Holds, IsOpen
  <2>2. Held = [r \in RentalIds |-> {}] /\ Charged = {}
    BY <2>1 DEF Init, Held, Charged
  <2>. QED  BY <2>2 DEF Allocation!Init
<1>2. TypeOK /\ InventoryCounts /\ PaidIffConfirmed /\ [Next]_vars
        => [Allocation!Next]_(Allocation!vars)
  <2> SUFFICES ASSUME TypeOK, InventoryCounts, PaidIffConfirmed, [Next]_vars
               PROVE  [Allocation!Next]_(Allocation!vars)
    OBVIOUS
  <2>1. ASSUME NEW c \in CreateCommands, NEW r \in RentalIds, ConfirmCreate(c, r)
        PROVE  Allocation!Next
    BY <2>1, ConfirmRents DEF Allocation!Next
  <2>2. ASSUME NEW c \in ReturnCommands, AcceptReturn(c)
        PROVE  Allocation!Next
    BY <2>2, ReturnGivesBack DEF Allocation!Next
  <2>3. ASSUME NEW c \in CreateCommands, NEW r \in RentalIds, DeclineCreate(c, r)
        PROVE  UNCHANGED Allocation!vars
    <3>1. Held' = Held
      BY <2>3, DeclineHolds DEF Held
    <3>2. Charged' = Charged
      BY <2>3 DEF DeclineCreate, Charged
    <3>. QED  BY <3>1, <3>2 DEF Allocation!vars
  <2>4. ASSUME UNCHANGED <<rentals, items, payments>>
        PROVE  UNCHANGED Allocation!vars
    <3>1. Held' = Held
      BY <2>4, SameHolds DEF Held
    <3>2. Charged' = Charged
      BY <2>4 DEF Charged
    <3>. QED  BY <3>1, <3>2 DEF Allocation!vars
  <2>. QED  BY <2>1, <2>2, <2>3, <2>4
            DEF Next, CreateRental, ReturnBicycles, RejectCreate, RejectReturn, ClockMoves,
                stored, vars
<1>. QED  BY <1>1, <1>2, MoneyAgrees, InventoryCorrect, TypeCorrect, PTL
          DEF Spec, ImplementsAllocation, Allocation!Spec
=============================================================================
