----------------------------- MODULE BikeRental -----------------------------
(***************************************************************************)
(* The rental system one request at a time: the bicycles, the stations,    *)
(* the rentals with their items, the payments and the payment gateway, and *)
(* the two use cases that write them, CreateRental (UC-01) and             *)
(* ReturnBicycles (UC-02).  Each use case is one atomic step, which is     *)
(* what a caller that waits for every answer sees; RentalThreads takes the *)
(* steps apart.                                                            *)
(*                                                                         *)
(* A rental's list of items is the function items[r] from bicycles to      *)
(* items, None where the rental has no item for the bicycle: a rental      *)
(* never holds two items of one bicycle, and the order of the list only    *)
(* chooses among error messages.                                           *)
(***************************************************************************)
EXTENDS Billing, FiniteSets

CONSTANTS
  Bicycles,        \* the bicycles seeded in the repository
  OutOfService,    \* those seeded as not rentable
  Stations,        \* the stations seeded in the repository
  Capacity,        \* Station.capacity of each
  RentalIds,       \* the rental ids uuid4 will mint: bounds how many are created
  Fares,           \* the fares a command may carry
  Instants,        \* the readings of the clock, in seconds
  CreateCommands,  \* the commands users send to POST /rentals ...
  ReturnCommands,  \* ... and to POST /rentals/{id}/returns
  UnknownBicycle, UnknownStation,   \* ids no repository holds
  None

ASSUME BicyclesAssumption ==
  /\ IsFiniteSet(Bicycles)
  /\ OutOfService \subseteq Bicycles
  /\ UnknownBicycle \notin Bicycles

\* Station.__post_init__ refuses a capacity that is not positive.
ASSUME StationsAssumption ==
  /\ Capacity \in [Stations -> Nat \ {0}]
  /\ UnknownStation \notin Stations

\* Money refuses a negative amount.
ASSUME FaresAssumption ==
  Fares \subseteq [fixed : Nat, time : Nat, unit : TimeUnits, is_active : BOOLEAN]

ASSUME InstantsAssumption == Instants \subseteq Nat

\* CreateRentalCommand and ReturnBicyclesCommand: the list bicycle_ids as a set, where
\* repeated says that the list names one twice.
CreateCommand ==
  [bikes : SUBSET (Bicycles \cup {UnknownBicycle}), repeated : BOOLEAN,
   station : Stations \cup {UnknownStation}, fare : Fares]

ReturnCommand ==
  [rental : RentalIds, bikes : SUBSET (Bicycles \cup {UnknownBicycle}),
   repeated : BOOLEAN, station : Stations \cup {UnknownStation}]

ASSUME CommandsAssumption ==
  /\ CreateCommands \subseteq CreateCommand
  /\ ReturnCommands \subseteq ReturnCommand

VARIABLES
  bicycles,    \* InMemoryBicycleRepository
  inventory,   \* available_inventory of each station of InMemoryStationRepository
  rentals,     \* InMemoryRentalRepository: the header of each rental, None if absent
  items,       \* the items of each rental
  payments,    \* InMemoryPaymentRepository, by rental id
  results,     \* FakePaymentGateway._results; its key is derived from the rental id
  counter,     \* FakePaymentGateway._counter
  now,         \* what the clock reads
  reply        \* how the last request ended, a member of Replies

stored == <<bicycles, inventory, rentals, items, payments>>
vars == <<bicycles, inventory, rentals, items, payments, results, counter, now, reply>>

-----------------------------------------------------------------------------
(* The stored entities *)

\* en_movimiento is in the enum, and no code of the repository ever sets it.
BicycleStatus == {"disponible", "rentada", "mantenimiento"}

Bicycle == [status : BicycleStatus, station : Stations \cup {None}, version : Nat]

\* cancelada is in the enum, and no code sets it; pendiente_pago lives only inside
\* CreateRental, which stores no rental in it.
RentalStatus == {"activa", "parcialmente_devuelta", "completada", "fallida"}

Rental == [status : RentalStatus, total : Nat, paid : BOOLEAN,
           closed_at : Instants \cup {None}]

Item == [status : {"activo", "devuelto"}, fare : Fares, started_at : Instants,
         returned_at : Instants \cup {None}, final_amount : Nat \cup {None}]

Payment == [amount : Nat, reference : Nat]

Authorization == [approved : BOOLEAN, reference : Nat \cup {None}]

\* Python's None is no value of the types it stands beside.
ASSUME NoneAssumption ==
  /\ None \notin Stations /\ None \notin Instants /\ None \notin Nat
  /\ None \notin Item /\ None \notin Rental
  /\ None \notin Payment /\ None \notin Authorization

\* A request succeeds; or a check raises before anything is written; or the gateway
\* declines; or the commit itself raises.
Replies == {"ok", "refused", "declined", "crashed"}

\* The statuses _RETURNABLE_STATUSES of ReturnBicycles and _ACTIVE_RENTAL_STATUSES
\* of the rental repository name alike.
OpenStatuses == {"activa", "parcialmente_devuelta"}

IsAvailableAt(b, s) ==
  /\ bicycles[b].status = "disponible"
  /\ bicycles[b].station = s

AvailableAt(s) == {b \in Bicycles : IsAvailableAt(b, s)}

HasItem(r, b) == b \in Bicycles /\ items[r][b] # None

HasActiveItem(r, b) == HasItem(r, b) /\ items[r][b].status = "activo"

IsOpen(r) == rentals[r] # None /\ rentals[r].status \in OpenStatuses

\* Bicycle b is out on rental r.
Holds(r, b) == IsOpen(r) /\ HasActiveItem(r, b)

-----------------------------------------------------------------------------
(* Where the program starts: the world composition.py seeds.  A rentable   *)
(* bicycle is at a station, a bicycle out of service is in maintenance at  *)
(* one or marked rented though no rental knows it, and the materialized    *)
(* inventory of a station counts the available bicycles standing there.    *)

SeedOf(b) ==
  IF b \in OutOfService
  THEN {[status |-> "mantenimiento", station |-> s, version |-> 0] : s \in Stations}
         \cup {[status |-> "rentada", station |-> None, version |-> 0]}
  ELSE {[status |-> "disponible", station |-> s, version |-> 0] : s \in Stations}

Seeds == UNION {SeedOf(b) : b \in Bicycles}

Init ==
  /\ bicycles \in [Bicycles -> Seeds]
  /\ \A b \in Bicycles : bicycles[b] \in SeedOf(b)
  /\ inventory = [s \in Stations |-> Cardinality(AvailableAt(s))]
  /\ \A s \in Stations : inventory[s] <= Capacity[s]
  /\ rentals = [r \in RentalIds |-> None]
  /\ items = [r \in RentalIds |-> [b \in Bicycles |-> None]]
  /\ payments = [r \in RentalIds |-> None]
  /\ results = [r \in RentalIds |-> None]
  /\ counter = 0
  /\ now \in Instants
  /\ reply = "ok"

-----------------------------------------------------------------------------
(* What the entities and the repositories do *)

\* Faulty variant: a rented bicycle stays at the station.
RentedInPlace(bicycle) ==
  [bicycle EXCEPT !.status = "rentada", !.version = @ + 1]

\* Bicycle.rent, where the guard has been checked.
Rented(bicycle) ==
  [status |-> "rentada", station |-> None, version |-> bicycle.version + 1]

\* Faulty variant: the bicycle is relocated but stays rented.
MovedOnly(bicycle, s) ==
  [status |-> "rentada", station |-> s, version |-> bicycle.version + 1]

\* Bicycle.return_to, where the guard has been checked.
ReturnedTo(bicycle, s) ==
  [status |-> "disponible", station |-> s, version |-> bicycle.version + 1]

\* Faulty variant: a rental is over with its first returned bicycle.
DeriveStatusEager(list) ==
  LET statuses == {list[b].status : b \in {x \in Bicycles : list[x] # None}}
  IN  IF "devuelto" \in statuses THEN "completada" ELSE "activa"

\* Rental.derive_status (ADR-0004): the header's status from those of the items.
DeriveStatus(list) ==
  LET statuses == {list[b].status : b \in {x \in Bicycles : list[x] # None}}
  IN  IF statuses = {} THEN "fallida"
      ELSE IF statuses = {"devuelto"} THEN "completada"
      ELSE IF "devuelto" \in statuses THEN "parcialmente_devuelta"
      ELSE "activa"

\* Faulty variant: looks at the items alone, those of a failed rental included.
ListActiveBicycleIdsByItem == {b \in Bicycles : \E r \in RentalIds : HasActiveItem(r, b)}

\* RentalRepository.list_active_bicycle_ids.
ListActiveBicycleIds == {b \in Bicycles : \E r \in RentalIds : Holds(r, b)}

\* RentalItem.from_fare: the fare is copied into the item.
NewItem(fare) ==
  [status |-> "activo", fare |-> fare, started_at |-> now,
   returned_at |-> None, final_amount |-> None]

NewItems(c) == [b \in Bicycles |-> IF b \in c.bikes THEN NewItem(c.fare) ELSE None]

\* Faulty variant: bills the units from a fare of today instead of the snapshot.
MarkReturnedAtFare(item) ==
  LET fare == CHOOSE f \in Fares : f.is_active /\ f # item.fare
  IN  [item EXCEPT !.status = "devuelto", !.returned_at = now, !.fare = fare,
                   !.final_amount = FinalAmount(fare, item.started_at, now)]

\* RentalItem.mark_returned, with the amount ReturnBicycles computed for the item.
MarkReturned(item) ==
  [item EXCEPT !.status = "devuelto", !.returned_at = now,
               !.final_amount = FinalAmount(item.fare, item.started_at, now)]

\* Faulty variant: a gateway reference used again for the next authorization.
AuthorizeSameReference(r, approved) ==
  /\ results' = [results EXCEPT ![r] =
                   [approved |-> approved, reference |-> IF approved THEN 1 ELSE None]]
  /\ UNCHANGED counter

\* FakePaymentGateway.authorize under the key of rental r, which is new: the id was
\* minted by this request.
Authorize(r, approved) ==
  /\ counter' = IF approved THEN counter + 1 ELSE counter
  /\ results' = [results EXCEPT ![r] =
                   [approved |-> approved,
                    reference |-> IF approved THEN counter + 1 ELSE None]]

-----------------------------------------------------------------------------
(* UC-01, CreateRental.execute *)

\* Faulty variant: trusts the availability the user was shown.
BicycleFaultsTrusting(c) == {}

\* Faulty variant: forgets is_at_station.
BicycleFaultsAnyStation(c) ==
  IF c.bikes \cap ListActiveBicycleIds # {} THEN {"BicycleAlreadyRented"}
  ELSE IF \E b \in c.bikes : bicycles[b].status # "disponible"
    THEN {"BicycleNotAvailable"}
  ELSE {}

\* Step 3 and the bicycles' part of step 4.
BicycleFaults(c) ==
  IF c.bikes \cap ListActiveBicycleIds # {} THEN {"BicycleAlreadyRented"}
  ELSE IF \E b \in c.bikes : ~IsAvailableAt(b, c.station) THEN {"BicycleNotAvailable"}
  ELSE {}

\* The exception steps 1 to 4 raise; none when the command is accepted.
CreateFaults(c) ==
  IF c.bikes = {} THEN {"EmptyRental"}
  ELSE IF c.repeated THEN {"DuplicateBicycle"}
  ELSE IF c.station \notin Stations THEN {"StationNotFound"}
  ELSE IF ~(c.bikes \subseteq Bicycles) THEN {"BicycleNotFound"}
  ELSE IF BicycleFaults(c) # {} THEN BicycleFaults(c)
  ELSE IF ~c.fare.is_active THEN {"InactiveFare"}
  ELSE {}

\* Steps 1 to 4 fail: nothing has been written.
RejectCreate(c) ==
  /\ CreateFaults(c) # {}
  /\ reply' = "refused"
  /\ UNCHANGED <<stored, results, counter, now>>

\* Rental.create_pending sums the estimates; all items of a command carry one fare.
EstimatedTotal(c) == Cardinality(c.bikes) * EstimatedAmount(c.fare)

\* RentalRepository.add of a rental that CreateRental built.
AddRental(c, r, status, paid) ==
  /\ rentals' = [rentals EXCEPT ![r] = [status |-> status, total |-> EstimatedTotal(c),
                                        paid |-> paid, closed_at |-> None]]
  /\ items' = [items EXCEPT ![r] = NewItems(c)]

\* Faulty variant: nothing is stored.
AddNoPayment(r, amount) == UNCHANGED payments

\* Payment.authorized with the reference just obtained, and PaymentRepository.add.
AddPayment(r, amount) ==
  payments' = [payments EXCEPT ![r] = [amount |-> amount,
                                       reference |-> results'[r].reference]]

\* Step 7a: every bicycle of the command is rented.
RentAll(bikes) ==
  bicycles' = [b \in Bicycles |-> IF b \in bikes THEN Rented(bicycles[b]) ELSE bicycles[b]]

\* Faulty variant: one unit per rental instead of one per bicycle.
DecrementByOne(s, n) == inventory' = [inventory EXCEPT ![s] = @ - 1]

\* Station.decrement_inventory, where the guard has been checked.
DecrementInventory(s, n) == inventory' = [inventory EXCEPT ![s] = @ - n]

\* Faulty variant: an id minted before is minted again.
AcceptsAnyId(c, r) == CreateFaults(c) = {}

\* The command passes steps 1 to 4, and r is the fresh id minted in step 5.
Accepts(c, r) ==
  /\ CreateFaults(c) = {}
  /\ rentals[r] = None
  /\ results[r] = None

\* Faulty variant: the bicycles are taken before the gateway has answered.
DeclineCreateLate(c, r) ==
  /\ Accepts(c, r)
  /\ Authorize(r, FALSE)
  /\ RentAll(c.bikes)
  /\ AddRental(c, r, "fallida", FALSE)
  /\ reply' = "declined"
  /\ UNCHANGED <<inventory, payments, now>>

\* Step 6, the gateway declines: mark_failed, and the failed rental is stored with
\* its items as they are, 'activo'.
DeclineCreate(c, r) ==
  /\ Accepts(c, r)
  /\ Authorize(r, FALSE)
  /\ AddRental(c, r, "fallida", FALSE)
  /\ reply' = "declined"
  /\ UNCHANGED <<bicycles, inventory, payments, now>>

\* Steps 6 and 7, the gateway approves.  The bicycles are rented first; when
\* decrement_inventory then finds too few units it raises, and since the entities are
\* the stored ones, all that remains of the rental is its bicycles marked rented.
ConfirmCreate(c, r) ==
  LET n == Cardinality(c.bikes)
  IN  /\ Accepts(c, r)
      /\ Authorize(r, TRUE)
      /\ RentAll(c.bikes)
      /\ IF inventory[c.station] < n
         THEN /\ reply' = "crashed"
              /\ UNCHANGED <<inventory, rentals, items, payments>>
         ELSE /\ DecrementInventory(c.station, n)
              /\ AddPayment(r, EstimatedTotal(c))
              /\ AddRental(c, r, DeriveStatus(NewItems(c)), TRUE)
              /\ reply' = "ok"
      /\ UNCHANGED now

-----------------------------------------------------------------------------
(* UC-02, ReturnBicycles.execute *)

\* Step 3 stops at the first bicycle of the list that has no active item here.
ItemFaults(c) ==
  {IF HasItem(c.rental, b) THEN "RentalItemAlreadyReturned" ELSE "BicycleNotInRental" :
     b \in {x \in c.bikes : ~HasActiveItem(c.rental, x)}}

\* Faulty variant: only the first bicycle of a return is checked against capacity.
DoesNotFitOne(c) == inventory[c.station] + 1 > Capacity[c.station]

\* Faulty variant: off by one, a station is full with one dock free.
DoesNotFitStrict(c) == inventory[c.station] + Cardinality(c.bikes) >= Capacity[c.station]

\* The capacity check of step 4.
DoesNotFit(c) == inventory[c.station] + Cardinality(c.bikes) > Capacity[c.station]

\* The exceptions steps 1 to 5b may raise; none when the command is accepted.  Only
\* step 3 has a choice, by the order of the list.
ReturnFaults(c) ==
  IF c.bikes = {} THEN {"EmptyRental"}
  ELSE IF c.repeated THEN {"DuplicateBicycle"}
  ELSE IF rentals[c.rental] = None THEN {"RentalNotFound"}
  ELSE IF ~IsOpen(c.rental) THEN {"RentalNotActive"}
  ELSE IF ItemFaults(c) # {} THEN ItemFaults(c)
  ELSE IF c.station \notin Stations THEN {"StationNotFound"}
  ELSE IF DoesNotFit(c) THEN {"StationFull"}
  ELSE IF ~(c.bikes \subseteq Bicycles) THEN {"BicycleNotFound"}
  ELSE IF \E b \in c.bikes : bicycles[b].status # "rentada" THEN {"BicycleNotReturnable"}
  ELSE {}

\* Steps 1 to 5b fail: nothing has been written.
RejectReturn(c) ==
  /\ ReturnFaults(c) # {}
  /\ reply' = "refused"
  /\ UNCHANGED <<stored, results, counter, now>>

\* Faulty variant: the header keeps the status it had.
ApplyReturnKeepingStatus(r, list) ==
  /\ items' = [items EXCEPT ![r] = list]
  /\ UNCHANGED rentals

\* Faulty variant: the items to mark are found by their bicycles alone, in any rental.
ApplyReturnByBicycle(r, list) ==
  LET returned == {b \in Bicycles : list[b] # None /\ list[b] # items[r][b]}
  IN  /\ items' = [q \in RentalIds |-> [b \in Bicycles |->
                     IF b \in returned /\ HasActiveItem(q, b) THEN list[b] ELSE items[q][b]]]
      /\ rentals' = [rentals EXCEPT
           ![r].status = DeriveStatus(list),
           ![r].closed_at = IF DeriveStatus(list) = "completada" /\ @ = None THEN now ELSE @]

\* The end of Rental.apply_return: the items are marked, the status is derived again,
\* and a rental that is complete for the first time is closed.
ApplyReturn(r, list) ==
  /\ items' = [items EXCEPT ![r] = list]
  /\ rentals' = [rentals EXCEPT
       ![r].status = DeriveStatus(list),
       ![r].closed_at = IF DeriveStatus(list) = "completada" /\ @ = None THEN now ELSE @]

\* Steps 6 and 7.  Every guard of the commit (apply_return, mark_returned, return_to,
\* increment_inventory) repeats a check made above on the same state.
AcceptReturn(c) ==
  /\ ReturnFaults(c) = {}
  /\ ApplyReturn(c.rental,
       [b \in Bicycles |-> IF b \in c.bikes THEN MarkReturned(items[c.rental][b])
                                            ELSE items[c.rental][b]])
  /\ bicycles' = [b \in Bicycles |->
       IF b \in c.bikes THEN ReturnedTo(bicycles[b], c.station) ELSE bicycles[b]]
  /\ inventory' = [inventory EXCEPT ![c.station] = @ + Cardinality(c.bikes)]
  /\ reply' = "ok"
  /\ UNCHANGED <<payments, results, counter, now>>

-----------------------------------------------------------------------------

\* The clock.  SystemClock reads the wall clock, which may also be set back.
ClockMoves ==
  /\ now' \in Instants \ {now}
  /\ UNCHANGED <<stored, results, counter, reply>>

CreateRental(c) ==
  \/ RejectCreate(c)
  \/ \E r \in RentalIds : DeclineCreate(c, r)
  \/ \E r \in RentalIds : ConfirmCreate(c, r)

ReturnBicycles(c) ==
  \/ RejectReturn(c)
  \/ AcceptReturn(c)

Next ==
  \/ \E c \in CreateCommands : CreateRental(c)
  \/ \E c \in ReturnCommands : ReturnBicycles(c)
  \/ ClockMoves

Spec == Init /\ [][Next]_vars

-----------------------------------------------------------------------------
(* Invariants *)

\* Every repository holds what its entities allow, and a station's inventory stays
\* between 0 and its capacity (Station.__post_init__).
TypeOK ==
  /\ bicycles \in [Bicycles -> Bicycle]
  /\ inventory \in [Stations -> Nat]
  /\ \A s \in Stations : inventory[s] <= Capacity[s]
  /\ rentals \in [RentalIds -> Rental \cup {None}]
  /\ items \in [RentalIds -> [Bicycles -> Item \cup {None}]]
  /\ payments \in [RentalIds -> Payment \cup {None}]
  /\ results \in [RentalIds -> Authorization \cup {None}]
  /\ counter \in Nat
  /\ now \in Instants
  /\ reply \in Replies

\* RN-06, NFR-02: no bicycle is out on two rentals.
NoDoubleAssignment ==
  \A b \in Bicycles : \A q, r \in RentalIds : Holds(q, b) /\ Holds(r, b) => q = r

\* The invariant return_bicycles.py names, "active item <=> RENTADA bicycle": a bicycle
\* out on a rental is rented and at no station, and a bicycle some request rented is out
\* on a rental.  (A bicycle seeded as rented was rented by none: its version is 0.)
HeldIffRented ==
  \A b \in Bicycles :
    /\ (\E r \in RentalIds : Holds(r, b)) =>
         bicycles[b].status = "rentada" /\ bicycles[b].station = None
    /\ bicycles[b].status = "rentada" /\ bicycles[b].version > 0 =>
         \E r \in RentalIds : Holds(r, b)

\* RN-01: the materialized inventory of a station is the number of available bicycles
\* that stand there, through rentals, partial returns and relocations.
InventoryCounts ==
  \A s \in Stations : inventory[s] = Cardinality(AvailableAt(s))

\* ADR-0004: the stored status of a confirmed rental is the one its items derive, and
\* it is closed exactly when it is complete.
StatusDerived ==
  \A r \in RentalIds : rentals[r] # None /\ rentals[r].status # "fallida" =>
    /\ rentals[r].status = DeriveStatus(items[r])
    /\ rentals[r].status = "completada" <=> rentals[r].closed_at # None

\* RN-05, RN-19: money and rentals agree.  An approved authorization has its payment,
\* for the amount of its rental, and a rental that is not failed; a declined one has a
\* failed rental and no payment; nothing else was authorized.
PaidIffConfirmed ==
  \A r \in RentalIds :
    /\ (rentals[r] = None) <=> (results[r] = None)
    /\ (payments[r] # None) <=> (results[r] # None /\ results[r].approved)
    /\ rentals[r] # None =>
         /\ rentals[r].paid <=> payments[r] # None
         /\ (rentals[r].status = "fallida") <=> (payments[r] = None)
         /\ payments[r] # None => payments[r].amount = rentals[r].total

\* RN-20: two payments never carry the same gateway reference.
DistinctReferences ==
  \A q, r \in RentalIds :
    payments[q] # None /\ payments[r] # None /\ payments[q].reference = payments[r].reference
      => q = r

\* RN-08, RN-10: what a returned bicycle is billed never falls below the estimate
\* frozen with its item and authorized, even when the clock was set back.
BilledAtLeastEstimate ==
  \A r \in RentalIds, b \in Bicycles :
    HasItem(r, b) /\ items[r][b].status = "devuelto" =>
      /\ items[r][b].returned_at # None
      /\ items[r][b].final_amount >= EstimatedAmount(items[r][b].fare)

\* RN-10, from the two instants and the frozen fare alone: a returned bicycle is billed
\* the least number of units, one at least, that covers its whole minutes out: that leaves
\* less than a minute over.
BilledLeastCover ==
  \A r \in RentalIds, b \in Bicycles :
    HasItem(r, b) /\ items[r][b].status = "devuelto" =>
      LET item    == items[r][b]
          seconds == item.returned_at - item.started_at
          Covers(n) == n * MinutesPerUnit[item.fare.unit] * 60 > seconds - 60
      IN  \E n \in 1 .. (IF seconds > 0 THEN seconds ELSE 1) :
            /\ item.final_amount = item.fare.fixed + n * item.fare.time
            /\ Covers(n)
            /\ \A m \in 1 .. (n - 1) : ~Covers(m)

\* UC-02: whatever the stations hold, a bicycle that is out can be returned somewhere;
\* the docks its rental freed are never all taken.
EveryHeldBicycleReturnable ==
  \A r \in RentalIds, b \in Bicycles : Holds(r, b) =>
    \E s \in Stations :
      ReturnFaults([rental |-> r, bikes |-> {b}, repeated |-> FALSE, station |-> s]) = {}

\* create_rental.py: "every operation is pre-validated and cannot raise, so the in-memory
\* writes always complete together".  Steps 1 to 4 never look at the inventory that
\* decrement_inventory checks: it holds by RN-01 alone.
CommitCannotRaise ==
  \A s \in Stations : \A bikes \in SUBSET AvailableAt(s) : inventory[s] >= Cardinality(bikes)

-----------------------------------------------------------------------------
(* Action properties *)

\* RN-12: the transitions of a rental and of a bicycle.  A bicycle changes place only by
\* being rented or returned, and each change counts in its version.
LegalRental(before, after) ==
  \/ after = before
  \/ before = None /\ after.status \in {"activa", "fallida"}
  \/ /\ before # None /\ before.status \in OpenStatuses
     /\ after # None /\ after.status \in {"parcialmente_devuelta", "completada"}

LegalBicycle(before, after) ==
  \/ after = before
  \/ /\ <<before.status, after.status>> \in {<<"disponible", "rentada">>,
                                             <<"rentada", "disponible">>}
     /\ before.station # after.station
     /\ after.version = before.version + 1

LegalTransitions ==
  [][/\ \A r \in RentalIds : LegalRental(rentals[r], rentals'[r])
     /\ \A b \in Bicycles : LegalBicycle(bicycles[b], bicycles'[b])]_vars

\* RN-08: a stored item changes only while its rental is open and its bicycle out on it, by
\* the return that brings the bicycle back, and keeps its fare and its start: what a customer
\* was billed stays, and so do the items of a failed rental, 'activo' for ever.  Items are
\* only added under a fresh rental id, and a request changes the items of one rental.
ItemsOnlyReturned ==
  [][/\ \A r \in RentalIds, b \in Bicycles : items'[r][b] # items[r][b] =>
          \/ items[r][b] = None /\ rentals[r] = None
          \/ /\ Holds(r, b)
             /\ items'[r][b] # None
             /\ items'[r][b].status = "devuelto"
             /\ items'[r][b].fare = items[r][b].fare
             /\ items'[r][b].started_at = items[r][b].started_at
             /\ bicycles'[b].status = "disponible"
     /\ \A q, r \in RentalIds : items'[q] # items[q] /\ items'[r] # items[r] => q = r]_vars

\* UC-02: closed_at is the instant of the return that completed the rental, whatever the
\* clock did between its returns.
ClosedByLastReturn ==
  [][\A r \in RentalIds : IsOpen(r) /\ ~IsOpen(r)' =>
       /\ rentals'[r].closed_at = now
       /\ \E b \in Bicycles : Holds(r, b) /\ items'[r][b].returned_at = rentals'[r].closed_at
       /\ \A b \in Bicycles : ~HasActiveItem(r, b)']_vars

\* RN-05: a request that raises leaves bicycles, inventory and payments as they were;
\* a declined payment adds its failed rental and no other change.
FailedRequestLeavesNoTrace ==
  [][reply' # "ok" =>
       /\ UNCHANGED <<bicycles, inventory, payments>>
       /\ \A r \in RentalIds : rentals[r] # None => rentals'[r] = rentals[r]
       /\ ListActiveBicycleIds' = ListActiveBicycleIds]_vars

\* RN-19, RN-20: a payment, once authorized, and the gateway's answer to a rental's key
\* never change: a return leaves both alone.
PaymentsFinal ==
  [][\A r \in RentalIds :
       /\ payments[r] # None => payments'[r] = payments[r]
       /\ results[r] # None => results'[r] = results[r]]_vars

-----------------------------------------------------------------------------
(* Refinement: a rental holds the bicycles of its active items, and is     *)
(* charged when its payment is stored.                                     *)

Held == [r \in RentalIds |-> {b \in Bicycles : Holds(r, b)}]
Charged == {r \in RentalIds : payments[r] # None}

Allocation == INSTANCE BikeAllocation WITH held <- Held, charged <- Charged

\* RN-05, RN-06: the use cases implement the promise of BikeAllocation.
ImplementsAllocation == Allocation!Spec
=============================================================================
