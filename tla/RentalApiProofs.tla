--------------------------- MODULE RentalApiProofs ---------------------------
(***************************************************************************)
(* Proofs of what RentalApi promises its clients, from the invariants of   *)
(* BikeRentalProofs: the answers are documented because the commit never   *)
(* raises and an active item means a rented bicycle; what the views offer  *)
(* is accepted for the same two reasons; and a bicycle that is out can     *)
(* always be returned somewhere, because the seed fits the docks.          *)
(***************************************************************************)
EXTENDS RentalApi, BikeRentalProofs, FunctionTheorems

-----------------------------------------------------------------------------
(* How requests end *)

\* What steps 1 to 4 of CreateRental refuse with, once there are bicycles in the list.
LEMMA CreateErrors ==
  ASSUME NEW c, c.bikes # {}
  PROVE  CreateFaults(c) \subseteq
           {"DuplicateBicycle", "StationNotFound", "BicycleNotFound",
            "BicycleAlreadyRented", "BicycleNotAvailable", "InactiveFare"}
BY DEF CreateFaults, BicycleFaults

\* A creation that passes its checks is confirmed or declined.
LEMMA AcceptedCreateEnds ==
  ASSUME InventoryCounts, NEW c, c.bikes # {}, CreateFaults(c) = {}
  PROVE  CreateEnds(c) = {"PaymentDeclined", Done}
<1>1. c.station \in Stations /\ c.bikes \subseteq Bicycles /\ BicycleFaults(c) = {}
  BY DEF CreateFaults
<1>2. c.bikes \in SUBSET AvailableAt(c.station)
  BY <1>1 DEF BicycleFaults, AvailableAt
<1>3. ~(inventory[c.station] < Cardinality(c.bikes))
  BY <1>1, <1>2, EnoughUnits
<1>. QED  BY <1>3 DEF CreateEnds, RefusedAtEdge

\* An active item of an open rental is a known bicycle, and rented.
LEMMA ActiveItemRented ==
  ASSUME HeldIffRented, NEW r \in RentalIds, IsOpen(r), NEW b, HasActiveItem(r, b)
  PROVE  b \in Bicycles /\ bicycles[b].status = "rentada"
<1>1. b \in Bicycles
  BY DEF HasActiveItem, HasItem
<1>. QED  BY <1>1 DEF HeldIffRented, Holds

\* What steps 1 to 5b of ReturnBicycles refuse with, once there are bicycles in the list:
\* its last two checks never fail.
LEMMA ReturnErrors ==
  ASSUME HeldIffRented, NEW c, c.rental \in RentalIds, c.bikes # {}
  PROVE  /\ c.repeated => ReturnFaults(c) = {"DuplicateBicycle"}
         /\ ~c.repeated => ReturnFaults(c) \subseteq
              {"RentalNotFound", "RentalNotActive", "RentalItemAlreadyReturned",
               "BicycleNotInRental", "StationNotFound", "StationFull"}
<1>1. ItemFaults(c) \subseteq {"RentalItemAlreadyReturned", "BicycleNotInRental"}
  BY DEF ItemFaults
<1>2. CASE ~IsOpen(c.rental)
  BY <1>2 DEF ReturnFaults
<1>3. CASE IsOpen(c.rental) /\ ItemFaults(c) # {}
  BY <1>1, <1>3 DEF ReturnFaults
<1>4. CASE IsOpen(c.rental) /\ ItemFaults(c) = {}
  <2>1. \A b \in c.bikes : HasActiveItem(c.rental, b)
    BY <1>4 DEF ItemFaults
  <2>2. \A b \in c.bikes : b \in Bicycles /\ bicycles[b].status = "rentada"
    BY <1>4, <2>1, ActiveItemRented
  <2>. QED  BY <1>4, <2>2 DEF ReturnFaults
<1>. QED  BY <1>2, <1>3, <1>4

\* E-02, E-04: the API never answers 500, and raises no error its endpoint does not
\* document, but for the 422 of a return that names a bicycle twice.
THEOREM AnswersAlwaysDocumented == Spec => []AnswersDocumented
<1>1. InventoryCounts /\ HeldIffRented => AnswersDocumented
  <2> SUFFICES ASSUME InventoryCounts, HeldIffRented PROVE AnswersDocumented
    OBVIOUS
  <2>1. ASSUME NEW c \in CreateCommands, NEW end \in CreateEnds(c)
        PROVE  Documented(end, DocumentedOfCreate)
    <3>1. end \in {"EdgeError", "DuplicateBicycle", "StationNotFound", "BicycleNotFound",
                   "BicycleAlreadyRented", "BicycleNotAvailable", "InactiveFare",
                   "PaymentDeclined", Done}
      <4>1. CASE c.bikes = {}
        BY <2>1, <4>1 DEF CreateEnds, RefusedAtEdge
      <4>2. CASE c.bikes # {} /\ CreateFaults(c) # {}
        BY <2>1, <4>2, CreateErrors DEF CreateEnds, RefusedAtEdge
      <4>3. CASE c.bikes # {} /\ CreateFaults(c) = {}
        BY <2>1, <4>3, AcceptedCreateEnds
      <4>. QED  BY <4>1, <4>2, <4>3
    <3>. QED  BY <3>1 DEF Documented, DocumentedOfCreate, StatusFor, ErrorStatus, Done
  <2>2. ASSUME NEW c \in ReturnCommands, NEW end \in ReturnEnds(c)
        PROVE  IF c.repeated /\ ~RefusedAtEdge(c)
               THEN ~Documented(end, DocumentedOfReturn) /\ StatusFor(end) = 422
               ELSE Documented(end, DocumentedOfReturn)
    <3>1. c.rental \in RentalIds
      BY CommandsAssumption DEF ReturnCommand
    <3>2. CASE c.repeated /\ ~RefusedAtEdge(c)
      <4>1. end = "DuplicateBicycle"
        BY <2>2, <3>1, <3>2, ReturnErrors DEF ReturnEnds, RefusedAtEdge
      <4>. QED  BY <3>2, <4>1 DEF Documented, DocumentedOfReturn, StatusFor, ErrorStatus
    <3>3. CASE ~(c.repeated /\ ~RefusedAtEdge(c))
      <4>1. end \in {"EdgeError", "RentalNotFound", "RentalNotActive",
                     "RentalItemAlreadyReturned", "BicycleNotInRental", "StationNotFound",
                     "StationFull", Done}
        BY <2>2, <3>1, <3>3, ReturnErrors DEF ReturnEnds, RefusedAtEdge
      <4>2. Documented(end, DocumentedOfReturn)
        BY <4>1 DEF Documented, DocumentedOfReturn, StatusFor, ErrorStatus, Done
      <4>. QED  BY <3>3, <4>2
    <3>. QED  BY <3>2, <3>3
  <2>. QED  BY <2>1, <2>2 DEF AnswersDocumented
<1>. QED  BY <1>1, InventoryCorrect, HeldExactlyWhenRented, PTL

-----------------------------------------------------------------------------
(* What the views offer *)

\* HU-11, UC-01: the bicycles a station's list shows as available can be rented, any of
\* them together, and no others there.
THEOREM AvailableAlwaysRentable == Spec => []AvailableCanBeRented
<1>1. InventoryCounts /\ HeldIffRented => AvailableCanBeRented
  <2> SUFFICES ASSUME InventoryCounts, HeldIffRented,
                      NEW s \in Stations, NEW bikes \in (SUBSET Bicycles) \ {{}},
                      NEW fare \in {f \in Fares : f.is_active}
               PROVE  LET c == [bikes |-> bikes, repeated |-> FALSE, station |-> s,
                                fare |-> fare]
                      IN  Done \in CreateEnds(c) <=> bikes \subseteq ListStationBicycles(s, TRUE)
    BY DEF AvailableCanBeRented
  <2> DEFINE c == [bikes |-> bikes, repeated |-> FALSE, station |-> s, fare |-> fare]
  <2>1. ListStationBicycles(s, TRUE) = AvailableAt(s)
    BY DEF ListStationBicycles, AvailableAt, IsAvailableAt
  <2>2. CASE bikes \subseteq AvailableAt(s)
    <3>1. \A b \in bikes : b \in Bicycles /\ IsAvailableAt(b, s)
      BY <2>2 DEF AvailableAt
    <3>2. c.bikes \cap ListActiveBicycleIds = {}
      BY <3>1 DEF ListActiveBicycleIds, HeldIffRented, IsAvailableAt
    <3>3. CreateFaults(c) = {}
      BY <3>1, <3>2 DEF CreateFaults, BicycleFaults
    <3>4. CreateEnds(c) = {"PaymentDeclined", Done}
      BY <3>3, AcceptedCreateEnds
    <3>. QED  BY <2>1, <2>2, <3>4
  <2>3. CASE ~(bikes \subseteq AvailableAt(s))
    <3>1. \E b \in c.bikes : ~IsAvailableAt(b, s)
      BY <2>3 DEF AvailableAt
    <3>2. BicycleFaults(c) # {}
      BY <3>1 DEF BicycleFaults
    <3>3. CreateFaults(c) # {}
      BY <3>2 DEF CreateFaults
    <3>4. Done \notin CreateEnds(c)
      BY <3>3, CreateErrors DEF CreateEnds, RefusedAtEdge, Done
    <3>. QED  BY <2>1, <2>3, <3>4
  <2>. QED  BY <2>2, <2>3
<1>. QED  BY <1>1, InventoryCorrect, HeldExactlyWhenRented, PTL

\* HU-10, HU-12, UC-02: the bicycles a view shows 'activo' in an open rental can be
\* returned, any of them together, where a station's view has room, and nowhere else.
THEOREM ShownAlwaysReturnable == Spec => []ShownCanBeReturned
<1>1. TypeOK /\ HeldIffRented /\ StatusDerived => ShownCanBeReturned
  <2> SUFFICES ASSUME TypeOK, HeldIffRented, StatusDerived, NEW r \in RentalIds, IsOpen(r)
               PROVE  LET view == RentalView(r)
                          out  == {b \in DOMAIN view.items : view.items[b].status = "activo"}
                      IN  /\ out # {}
                          /\ \A s \in Stations, bikes \in (SUBSET out) \ {{}} :
                               LET c == [rental |-> r, bikes |-> bikes, repeated |-> FALSE,
                                         station |-> s]
                                   room == StationView(s).capacity
                                             - StationView(s).available_inventory
                               IN  Done \in ReturnEnds(c) <=> Cardinality(bikes) <= room
    BY DEF ShownCanBeReturned
  <2> DEFINE view == RentalView(r)
             out  == {b \in DOMAIN view.items : view.items[b].status = "activo"}
  <2>1. out = {b \in Bicycles : HasActiveItem(r, b)}
    BY DEF RentalView, ItemView, HasActiveItem, HasItem
  <2>2. out # {}
    <3>1. DeriveStatus(items[r]) \in OpenStatuses
      BY DEF StatusDerived, IsOpen, OpenStatuses
    <3>2. PICK b \in Bicycles : items[r][b] # None /\ items[r][b].status # "devuelto"
      BY <3>1 DEF DeriveStatus, OpenStatuses
    <3>3. items[r][b].status = "activo"
      BY <3>2 DEF TypeOK, Item
    <3>. QED  BY <2>1, <3>2, <3>3 DEF HasActiveItem, HasItem
  <2>3. ASSUME NEW s \in Stations, NEW bikes \in (SUBSET out) \ {{}}
        PROVE  LET c == [rental |-> r, bikes |-> bikes, repeated |-> FALSE, station |-> s]
                   room == StationView(s).capacity - StationView(s).available_inventory
               IN  Done \in ReturnEnds(c) <=> Cardinality(bikes) <= room
    <3> DEFINE c == [rental |-> r, bikes |-> bikes, repeated |-> FALSE, station |-> s]
               room == StationView(s).capacity - StationView(s).available_inventory
    <3>1. \A b \in bikes : HasActiveItem(r, b) /\ b \in Bicycles
      BY <2>1
    <3>2. \A b \in bikes : bicycles[b].status = "rentada"
      BY <3>1, ActiveItemRented
    <3>3. Cardinality(bikes) \in Nat
      BY <3>1, BikesFinite
    <3>4. inventory[s] \in Nat /\ Capacity[s] \in Nat
      BY StationsAssumption DEF TypeOK
    <3>5. DoesNotFit(c) <=> ~(Cardinality(bikes) <= room)
      BY <3>3, <3>4 DEF DoesNotFit, StationView
    <3>6. ItemFaults(c) = {}
      BY <3>1 DEF ItemFaults
    <3>7. ReturnFaults(c) = IF DoesNotFit(c) THEN {"StationFull"} ELSE {}
      BY <3>1, <3>2, <3>6 DEF ReturnFaults, IsOpen
    <3>. HIDE DEF c, room
    <3>8. Done \in ReturnEnds(c) <=> ~DoesNotFit(c)
      <4>1. c.bikes # {}
        BY DEF c
      <4>. QED  BY <3>7, <4>1 DEF ReturnEnds, RefusedAtEdge, Done
    <3>. QED  BY <3>5, <3>8 DEF c, room
  <2>. QED  BY <2>2, <2>3
<1>. QED  BY <1>1, TypeCorrect, HeldExactlyWhenRented, StatusAlwaysDerived, PTL

-----------------------------------------------------------------------------
(* A way back for every bicycle.  The seed gives each bicycle in service a *)
(* dock of its own, and bicycles out of service never leave nor arrive: if *)
(* every station were full, the bicycles standing at the docks would be as *)
(* many as all those in service, though one of them is out.                *)

InService == Bicycles \ OutOfService

\* The docks hold the bicycles in service: each has a number of its own at some station.
DocksForAll ==
  \E home \in [InService -> Stations], dock \in [InService -> Nat] :
    /\ \A b \in InService : dock[b] \in 1 .. Capacity[home[b]]
    /\ \A a, b \in InService : home[a] = home[b] /\ dock[a] = dock[b] => a = b

\* A bicycle out of service is neither rented nor offered.
ServiceKept ==
  \A b \in OutOfService :
    /\ bicycles[b].status # "disponible"
    /\ \A r \in RentalIds : ~Holds(r, b)

\* The members of a finite set can be numbered, and listed by their numbers.
LEMMA Numbering ==
  ASSUME NEW S, IsFiniteSet(S)
  PROVE  /\ \E f \in [S -> 1 .. Cardinality(S)] : \A x, y \in S : f[x] = f[y] => x = y
         /\ \E g \in [1 .. Cardinality(S) -> S] :
              \A i, j \in 1 .. Cardinality(S) : g[i] = g[j] => i = j
<1>1. ExistsBijection(1 .. Cardinality(S), S)
  BY FS_CardinalityType
<1>2. PICK g \in Bijection(1 .. Cardinality(S), S) : TRUE
  BY <1>1 DEF ExistsBijection
<1>3. ExistsBijection(S, 1 .. Cardinality(S))
  BY <1>1, Fun_ExistsBijSymmetric
<1>4. PICK f \in Bijection(S, 1 .. Cardinality(S)) : TRUE
  BY <1>3 DEF ExistsBijection
<1>5. /\ g \in [1 .. Cardinality(S) -> S]
      /\ \A i, j \in 1 .. Cardinality(S) : g[i] = g[j] => i = j
  BY <1>2 DEF Bijection, Injection, IsInjective
<1>6. /\ f \in [S -> 1 .. Cardinality(S)]
      /\ \A x, y \in S : f[x] = f[y] => x = y
  BY <1>4 DEF Bijection, Injection, IsInjective
<1>. QED  BY <1>5, <1>6

\* composition.py seeds every station within its capacity.
LEMMA SeededDocks == Init => DocksForAll
<1> SUFFICES ASSUME Init PROVE DocksForAll
  OBVIOUS
<1>. DEFINE Numbers(s) == {f \in [AvailableAt(s) -> 1 .. Cardinality(AvailableAt(s))] :
                             \A x, y \in AvailableAt(s) : f[x] = f[y] => x = y}
            home == [b \in InService |-> bicycles[b].station]
            dock == [b \in InService |-> (CHOOSE f \in Numbers(bicycles[b].station) : TRUE)[b]]
<1>1. \A b \in InService : bicycles[b].station \in Stations
                             /\ b \in AvailableAt(bicycles[b].station)
  BY DEF Init, SeedOf, InService, AvailableAt, IsAvailableAt
<1>2. ASSUME NEW s \in Stations
      PROVE  /\ Cardinality(AvailableAt(s)) \in Nat
             /\ Cardinality(AvailableAt(s)) <= Capacity[s]
             /\ (CHOOSE f \in Numbers(s) : TRUE) \in Numbers(s)
  <2>1. IsFiniteSet(AvailableAt(s)) /\ Cardinality(AvailableAt(s)) \in Nat
    BY BikesFinite DEF AvailableAt
  <2>2. \E f \in Numbers(s) : TRUE
    BY <2>1, Numbering
  <2>. QED  BY <2>1, <2>2 DEF Init
<1>3. ASSUME NEW b \in InService
      PROVE  dock[b] \in 1 .. Capacity[home[b]] /\ dock[b] \in Nat
  <2>. DEFINE s == bicycles[b].station
              f == CHOOSE f \in Numbers(s) : TRUE
  <2>1. s \in Stations /\ b \in AvailableAt(s)
    BY <1>1
  <2>2. f \in Numbers(s) /\ Cardinality(AvailableAt(s)) \in Nat
          /\ Cardinality(AvailableAt(s)) <= Capacity[s] /\ Capacity[s] \in Nat
    BY <1>2, <2>1, StationsAssumption
  <2>3. dock[b] = f[b] /\ home[b] = s
    OBVIOUS
  <2>. HIDE DEF f, s, dock, home
  <2>4. f[b] \in 1 .. Cardinality(AvailableAt(s))
    BY <2>1, <2>2
  <2>. QED  BY <2>2, <2>3, <2>4
<1>4. ASSUME NEW a \in InService, NEW b \in InService, home[a] = home[b], dock[a] = dock[b]
      PROVE  a = b
  <2>. DEFINE s == bicycles[a].station
              f == CHOOSE f \in Numbers(s) : TRUE
  <2>1. s \in Stations /\ a \in AvailableAt(s) /\ b \in AvailableAt(s)
    BY <1>1, <1>4
  <2>2. f \in Numbers(s)
    BY <1>2, <2>1
  <2>3. bicycles[b].station = s
    BY <1>4
  <2>. HIDE DEF Numbers
  <2>4. dock[a] = f[a] /\ dock[b] = f[b]
    BY <2>3
  <2>5. f[a] = f[b]
    BY <1>4, <2>4
  <2>. USE DEF Numbers
  <2>. HIDE DEF f
  <2>. QED  BY <2>1, <2>2, <2>5
<1>5. home \in [InService -> Stations]
  BY <1>1
<1>6. dock \in [InService -> Nat]
  BY <1>3
<1>. HIDE DEF home, dock
<1>. QED  BY <1>3, <1>4, <1>5, <1>6 DEF DocksForAll

LEMMA ServicePreserved ==
  TypeOK /\ InventoryCounts /\ ServiceKept /\ [Next]_vars => ServiceKept'
<1> SUFFICES ASSUME TypeOK, InventoryCounts, ServiceKept, [Next]_vars PROVE ServiceKept'
  OBVIOUS
<1>1. ASSUME NEW c \in CreateCommands, NEW r \in RentalIds, ConfirmCreate(c, r)
      PROVE  ServiceKept'
  <2>1. \A b \in c.bikes : b \in Bicycles /\ bicycles[b].status = "disponible"
    BY <1>1, CreateAccepted DEF ConfirmCreate, Accepts, AvailableAt, IsAvailableAt
  <2>2. \A b \in OutOfService : b \in Bicycles /\ b \notin c.bikes
    BY <2>1, BicyclesAssumption DEF ServiceKept
  <2>3. \A b \in OutOfService : bicycles'[b] = bicycles[b]
    BY <1>1, <2>2 DEF ConfirmCreate, RentAll
  <2>4. \A q \in RentalIds, b \in OutOfService : ~Holds(q, b)'
    BY <1>1, <2>2, ConfirmHolds DEF ServiceKept
  <2>. QED  BY <2>3, <2>4 DEF ServiceKept
<1>2. ASSUME NEW c \in CreateCommands, NEW r \in RentalIds, DeclineCreate(c, r)
      PROVE  ServiceKept'
  <2>1. \A q \in RentalIds, b \in OutOfService : ~Holds(q, b)'
    BY <1>2, DeclineHolds, BicyclesAssumption DEF ServiceKept
  <2>. QED  BY <1>2, <2>1 DEF ServiceKept, DeclineCreate
<1>3. ASSUME NEW c \in ReturnCommands, AcceptReturn(c)
      PROVE  ServiceKept'
  <2>1. \A q \in RentalIds, b \in OutOfService : ~Holds(q, b)'
    BY <1>3, ReturnHolds, BicyclesAssumption DEF ServiceKept
  <2>2. c.rental \in RentalIds
    BY <1>3, ReturnAccepted DEF AcceptReturn
  <2>3. \A b \in OutOfService : b \in Bicycles /\ b \notin c.bikes
    BY <1>3, <2>2, ReturnHolds, BicyclesAssumption DEF ServiceKept
  <2>4. \A b \in OutOfService : bicycles'[b] = bicycles[b]
    BY <1>3, <2>3 DEF AcceptReturn
  <2>. QED  BY <2>1, <2>4 DEF ServiceKept
<1>4. ASSUME UNCHANGED <<bicycles, rentals, items>>
      PROVE  ServiceKept'
  <2>1. \A q \in RentalIds, b \in OutOfService : ~Holds(q, b)'
    BY <1>4, SameHolds, BicyclesAssumption DEF ServiceKept
  <2>. QED  BY <1>4, <2>1 DEF ServiceKept
<1>. QED  BY <1>1, <1>2, <1>3, <1>4
          DEF Next, CreateRental, ReturnBicycles, RejectCreate, RejectReturn,
              ClockMoves, stored, vars

LEMMA AlwaysServiceKept == Spec => [](DocksForAll /\ ServiceKept)
<1>1. Init => DocksForAll /\ ServiceKept
  BY SeededDocks, BicyclesAssumption DEF Init, ServiceKept, SeedOf, Holds, IsOpen
<1>2. DocksForAll /\ [Next]_vars => DocksForAll'
  BY DEF DocksForAll
<1>. QED  BY <1>1, <1>2, ServicePreserved, TypeCorrect, InventoryCorrect, PTL DEF Spec

\* While a bicycle is out, some station has a dock free.
LEMMA SomeDockFree ==
  ASSUME TypeOK, InventoryCounts, HeldIffRented, DocksForAll, ServiceKept,
         NEW r \in RentalIds, NEW b \in Bicycles, Holds(r, b)
  PROVE  \E s \in Stations : inventory[s] < Capacity[s]
<1> SUFFICES ASSUME \A s \in Stations : ~(inventory[s] < Capacity[s])
             PROVE  FALSE
  OBVIOUS
<1>. DEFINE In == InService \ {b}
            Bikes(s) == {g \in [1 .. Capacity[s] -> AvailableAt(s)] :
                           \A i, j \in 1 .. Capacity[s] : g[i] = g[j] => i = j}
            At(s) == CHOOSE g \in Bikes(s) : TRUE
<1>1. b \in InService /\ IsFiniteSet(InService)
  BY BicyclesAssumption, FS_Subset DEF ServiceKept, InService
<1>2. \A s \in Stations : AvailableAt(s) \subseteq In
  BY DEF AvailableAt, IsAvailableAt, ServiceKept, InService, HeldIffRented
<1>3. ASSUME NEW s \in Stations PROVE At(s) \in Bikes(s)
  <2>1. inventory[s] = Capacity[s]
    <3>1. Capacity[s] \in Nat /\ inventory[s] \in Nat /\ inventory[s] <= Capacity[s]
      BY StationsAssumption DEF TypeOK
    <3>. QED  BY <3>1
  <2>2. Cardinality(AvailableAt(s)) = Capacity[s]
    BY <2>1 DEF InventoryCounts
  <2>3. IsFiniteSet(AvailableAt(s))
    BY BikesFinite DEF AvailableAt
  <2>4. \E g \in Bikes(s) : TRUE
    BY <2>2, <2>3, Numbering
  <2>. QED  BY <2>4
<1>4. PICK home \in [InService -> Stations], dock \in [InService -> Nat] :
        /\ \A x \in InService : dock[x] \in 1 .. Capacity[home[x]]
        /\ \A x, y \in InService : home[x] = home[y] /\ dock[x] = dock[y] => x = y
  BY DEF DocksForAll
<1>. DEFINE standing == [x \in InService |-> At(home[x])[dock[x]]]
<1>5. ASSUME NEW x \in InService
      PROVE  standing[x] \in AvailableAt(home[x]) /\ standing[x] \in In
  <2>1. At(home[x]) \in Bikes(home[x]) /\ dock[x] \in 1 .. Capacity[home[x]]
    BY <1>3, <1>4
  <2>. HIDE DEF At
  <2>2. At(home[x])[dock[x]] \in AvailableAt(home[x])
    BY <2>1
  <2>. QED  BY <1>2, <1>4, <2>2
<1>6. ASSUME NEW x \in InService, NEW y \in InService, standing[x] = standing[y]
      PROVE  x = y
  <2>1. home[x] = home[y]
    BY <1>5, <1>6 DEF AvailableAt, IsAvailableAt
  <2>2. At(home[x]) \in Bikes(home[x])
          /\ dock[x] \in 1 .. Capacity[home[x]] /\ dock[y] \in 1 .. Capacity[home[x]]
    BY <1>3, <1>4, <2>1
  <2>3. At(home[x])[dock[x]] = At(home[x])[dock[y]]
    BY <1>6, <2>1
  <2>. HIDE DEF At
  <2>4. dock[x] = dock[y]
    BY <2>2, <2>3
  <2>. QED  BY <1>4, <2>1, <2>4
<1>7. IsFiniteSet(In) /\ Cardinality(In) < Cardinality(InService)
  <2>1. In \in SUBSET InService /\ In # InService
    BY <1>1
  <2>. QED  BY <1>1, <2>1, FS_Subset, FS_CardinalityType
<1>8. standing \in [InService -> In]
  BY <1>5
<1>. HIDE DEF standing, In
<1>9. \E x, y \in InService : x # y /\ standing[x] = standing[y]
  BY <1>1, <1>7, <1>8, FS_PigeonHole
<1>. QED  BY <1>6, <1>9

\* UC-02: whatever the stations hold, a bicycle that is out can be returned somewhere.
THEOREM HeldAlwaysReturnable == Spec => []EveryHeldBicycleReturnable
<1>1. TypeOK /\ InventoryCounts /\ HeldIffRented /\ DocksForAll /\ ServiceKept
        => EveryHeldBicycleReturnable
  <2> SUFFICES ASSUME TypeOK, InventoryCounts, HeldIffRented, DocksForAll, ServiceKept,
                      NEW r \in RentalIds, NEW b \in Bicycles, Holds(r, b)
               PROVE  \E s \in Stations :
                        ReturnFaults([rental |-> r, bikes |-> {b}, repeated |-> FALSE,
                                      station |-> s]) = {}
    BY DEF EveryHeldBicycleReturnable
  <2>1. PICK s \in Stations : inventory[s] < Capacity[s]
    BY SomeDockFree
  <2>. DEFINE c == [rental |-> r, bikes |-> {b}, repeated |-> FALSE, station |-> s]
  <2>2. Cardinality(c.bikes) = 1
    BY FS_Singleton
  <2>3. ~DoesNotFit(c)
    BY <2>1, <2>2, StationsAssumption DEF DoesNotFit, TypeOK
  <2>4. IsOpen(r) /\ HasActiveItem(r, b) /\ bicycles[b].status = "rentada"
    BY ActiveItemRented DEF Holds
  <2>5. ItemFaults(c) = {}
    BY <2>4 DEF ItemFaults
  <2>6. ReturnFaults(c) = {}
    BY <2>3, <2>4, <2>5 DEF ReturnFaults, IsOpen
  <2>. QED  BY <2>6
<1>. QED  BY <1>1, TypeCorrect, InventoryCorrect, HeldExactlyWhenRented,
             AlwaysServiceKept, PTL
=============================================================================
