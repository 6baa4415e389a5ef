---------------------------- MODULE RentalThreads ----------------------------
(***************************************************************************)
(* The two use cases as the server runs them: the endpoints are plain      *)
(* functions, so FastAPI runs each request on a thread of its pool, and    *)
(* all threads work on the same in-memory entities without a lock.  One    *)
(* step of a request is one access to an entity that other threads see.    *)
(*                                                                         *)
(* The repositories hand out the stored objects themselves: a write to an  *)
(* entity is visible at once, and save, save_all and the second add of a   *)
(* returned rental store again what is stored, so they are no steps.       *)
(* Checks of the command alone (steps 1 and 2, and the fare's is_active)   *)
(* read nothing a thread writes; BikeRental has them.                      *)
(***************************************************************************)
EXTENDS Integers, Sequences, FiniteSets

CONSTANTS
  Bicycles, Stations, Capacity,
  Requests,    \* the requests the server handles, each once; bounds how many
  Orders,      \* what each of them may ask for
  Threads,     \* how many requests are handled at a time
  None

\* A creation mints a fresh rental id: the model uses the request itself for it, so that
\* the rentals are requests too.  A return names any rental, stored or not.
\* The list of bicycles is not empty and names none twice, or step 1 refuses the request.
BikeLists ==
  {list \in UNION {[1 .. n -> Bicycles] : n \in 1 .. Cardinality(Bicycles)} :
     \A i, j \in DOMAIN list : list[i] = list[j] => i = j}

CreateOrder == [kind : {"create"}, bikes : BikeLists, station : Stations]

ReturnOrder == [kind : {"return"}, rental : Requests, bikes : BikeLists, station : Stations]

ASSUME OrdersAssumption ==
  Orders \in [Requests -> SUBSET (CreateOrder \cup ReturnOrder)]

ASSUME BoundsAssumption ==
  /\ IsFiniteSet(Bicycles)
  /\ IsFiniteSet(Requests)
  /\ Capacity \in [Stations -> Nat \ {0}]
  /\ Threads \in Nat \ {0}
  /\ None \notin Stations \cup CreateOrder \cup ReturnOrder
  /\ None \notin {"activa", "parcialmente_devuelta", "completada", "fallida",
                 "activo", "devuelto"}

VARIABLES
  status, place,   \* Bicycle.status and Bicycle.station_id
  inventory,       \* Station.available_inventory
  header,          \* the status of each stored rental, None if it is not stored
  item,            \* the status of each item of a stored rental
  closed,          \* the rentals with a closed_at
  approved,        \* the rentals whose charge the gateway approved
  paid,            \* the rentals with a payment in the repository
  order,           \* what each request asks for, None before it arrives
  pc,              \* where each request is
  todo,            \* the list its current loop has still to walk
  local            \* the value it read and has not used yet

bikeVars == <<status, place>>
rentalVars == <<header, item, closed>>
moneyVars == <<approved, paid>>
vars == <<bikeVars, inventory, rentalVars, moneyVars, order, pc, todo, local>>

-----------------------------------------------------------------------------

OpenStatuses == {"activa", "parcialmente_devuelta"}

\* How a request ends: ok; refused by a check; declined by the gateway; interrupted by
\* Python's RuntimeError while it walks the rentals; crashed by an exception out of the
\* commit.
Outcomes == {"ok", "refused", "declined", "interrupted", "crashed"}

Rental(q) == order[q].rental
List(q) == order[q].bikes
Bikes(q) == {List(q)[i] : i \in DOMAIN List(q)}
Station(q) == order[q].station
Size(q) == Len(List(q))

InFlight(q) == pc[q] \notin Outcomes \cup {"idle"}

Quiet == \A q \in Requests : ~InFlight(q)

Holds(r, b) == header[r] \in OpenStatuses /\ item[r][b] = "activo"

ActiveIds == {b \in Bicycles : \E r \in Requests : Holds(r, b)}

Stored == {r \in Requests : header[r] # None}

DeriveStatus(list) ==
  LET statuses == {list[b] : b \in Bicycles} \ {None}
  IN  IF statuses = {"devuelto"} THEN "completada"
      ELSE IF "devuelto" \in statuses THEN "parcialmente_devuelta"
      ELSE "activa"

Init ==
  /\ status = [b \in Bicycles |-> "disponible"]
  /\ place \in [Bicycles -> Stations]
  /\ inventory = [s \in Stations |-> Cardinality({b \in Bicycles : place[b] = s})]
  /\ \A s \in Stations : inventory[s] <= Capacity[s]
  /\ header = [r \in Requests |-> None]
  /\ item = [r \in Requests |-> [b \in Bicycles |-> None]]
  /\ closed = {} /\ approved = {} /\ paid = {}
  /\ order = [q \in Requests |-> None]
  /\ pc = [q \in Requests |-> "idle"]
  /\ todo = [q \in Requests |-> <<>>]
  /\ local = [q \in Requests |-> None]

-----------------------------------------------------------------------------
(* Moving the control of a request *)

\* Request q goes from one place to another, its locals unchanged.
Move(q, from, to) ==
  /\ pc[q] = from
  /\ pc' = [pc EXCEPT ![q] = to]
  /\ UNCHANGED <<todo, local>>

\* Request q enters a loop over its bicycles.
EnterLoop(q, from, loop) ==
  /\ pc[q] = from
  /\ pc' = [pc EXCEPT ![q] = loop]
  /\ todo' = [todo EXCEPT ![q] = List(q)]
  /\ UNCHANGED local

\* The bicycle the loop of request q has reached.
Bike(q) == Head(todo[q])

\* Request q is done with that bicycle, and leaves its loop after the last one.
NextBike(q, from, loop, after) ==
  /\ pc[q] = from
  /\ todo' = [todo EXCEPT ![q] = Tail(@)]
  /\ pc' = [pc EXCEPT ![q] = IF Tail(todo[q]) = <<>> THEN after ELSE loop]
  /\ UNCHANGED local

\* Request q goes on with a value it has read.
Read(q, from, to, value) ==
  /\ pc[q] = from
  /\ pc' = [pc EXCEPT ![q] = to]
  /\ local' = [local EXCEPT ![q] = value]
  /\ UNCHANGED todo

\* ... and on, the value being used.
Use(q, from, to) ==
  /\ pc[q] = from
  /\ pc' = [pc EXCEPT ![q] = to]
  /\ local' = [local EXCEPT ![q] = None]
  /\ UNCHANGED todo

\* Faulty variant: the pool is not limited.
BeginUnlimited(q, kind) ==
  /\ pc[q] = "idle"
  /\ \E o \in Orders[q] : o.kind = kind /\ order' = [order EXCEPT ![q] = o]

\* A thread of the pool takes request q.
Begin(q, kind) ==
  /\ pc[q] = "idle"
  /\ Cardinality({p \in Requests : InFlight(p)}) < Threads
  /\ \E o \in Orders[q] : o.kind = kind /\ order' = [order EXCEPT ![q] = o]

-----------------------------------------------------------------------------
(* CreateRental *)

\* Faulty variant: the gateway is asked before the checks.
CreateScanCharging(q) ==
  /\ Begin(q, "create")
  /\ Read(q, "idle", "scan", [size |-> Cardinality(Stored), active |-> ActiveIds])
  /\ approved' = approved \cup {q}
  /\ UNCHANGED <<bikeVars, inventory, rentalVars, paid>>

\* Step 3: list_active_bicycle_ids starts to walk the stored rentals.
CreateScan(q) ==
  /\ Begin(q, "create")
  /\ Read(q, "idle", "scan", [size |-> Cardinality(Stored), active |-> ActiveIds])
  /\ UNCHANGED <<bikeVars, inventory, rentalVars, moneyVars>>

\* ... and ends.  A rental stored meanwhile grew the dict, and Python raises.  Otherwise
\* rentals only lost active items, so what the walk read of each bicycle is what was true
\* when it started or what is true now.
CreateScanned(q) ==
  /\ pc[q] = "scan"
  /\ \E active \in {local[q].active, ActiveIds} :
       pc' = [pc EXCEPT ![q] =
                IF Cardinality(Stored) # local[q].size THEN "interrupted"
                ELSE IF Bikes(q) \cap active # {} THEN "refused"
                ELSE "check"]
  /\ todo' = [todo EXCEPT ![q] = List(q)]
  /\ local' = [local EXCEPT ![q] = None]
  /\ UNCHANGED <<bikeVars, inventory, rentalVars, moneyVars>>

\* Step 4: one bicycle of the list is available, or the request is refused, ...
CreateCheck(q) ==
  /\ Move(q, "check", IF status[Bike(q)] = "disponible" THEN "check_station" ELSE "refused")
  /\ UNCHANGED <<bikeVars, inventory, rentalVars, moneyVars>>

\* ... and it is at the station.  (is_available has also asked that it be at some station: a
\* bicycle at none is refused as one at another is.)
CreateCheckStation(q) ==
  /\ pc[q] = "check_station"
  /\ IF place[Bike(q)] = Station(q)
     THEN NextBike(q, "check_station", "check", "authorize")
     ELSE Move(q, "check_station", "refused")
  /\ UNCHANGED <<bikeVars, inventory, rentalVars, moneyVars>>

\* Step 6: the gateway approves the charge of the rental, or declines it.
CreateAuthorize(q) ==
  /\ \/ /\ EnterLoop(q, "authorize", "rent")
        /\ approved' = approved \cup {q}
     \/ /\ Move(q, "authorize", "decline")
        /\ UNCHANGED approved
  /\ UNCHANGED <<bikeVars, inventory, rentalVars, paid>>

\* RentalRepository.add of the rental request q has built.
Store(q, newStatus) ==
  /\ header' = [header EXCEPT ![q] = newStatus]
  /\ item' = [item EXCEPT ![q] =
                [b \in Bicycles |-> IF b \in Bikes(q) THEN "activo" ELSE None]]
  /\ UNCHANGED closed

\* Faulty variant: the declined rental is stored as if it had been confirmed.
CreateDeclineActive(q) ==
  /\ Move(q, "decline", "declined")
  /\ Store(q, "activa")
  /\ UNCHANGED <<bikeVars, inventory, moneyVars>>

CreateDecline(q) ==
  /\ Move(q, "decline", "declined")
  /\ Store(q, "fallida")
  /\ UNCHANGED <<bikeVars, inventory, moneyVars>>

\* Faulty variant: rent waits for the bicycle instead of raising.
CreateRentWaiting(q) ==
  /\ Move(q, "rent", "rent_status")
  /\ status[Bike(q)] = "disponible"
  /\ UNCHANGED <<bikeVars, inventory, rentalVars, moneyVars>>

\* Step 7a, Bicycle.rent of one bicycle: the guard, ...
CreateRent(q) ==
  /\ Move(q, "rent", IF status[Bike(q)] = "disponible" THEN "rent_status" ELSE "crashed")
  /\ UNCHANGED <<bikeVars, inventory, rentalVars, moneyVars>>

\* ... the status, ...
CreateRentStatus(q) ==
  /\ Move(q, "rent_status", "rent_place")
  /\ status' = [status EXCEPT ![Bike(q)] = "rentada"]
  /\ UNCHANGED <<place, inventory, rentalVars, moneyVars>>

\* ... and the station.
CreateRentPlace(q) ==
  /\ NextBike(q, "rent_place", "rent", "decrement")
  /\ place' = [place EXCEPT ![Bike(q)] = None]
  /\ UNCHANGED <<status, inventory, rentalVars, moneyVars>>

\* Faulty variant: the station may not give its last unit.
CreateDecrementStrict(q) ==
  /\ Move(q, "decrement", IF inventory[Station(q)] <= Size(q) THEN "crashed" ELSE "dec_read")
  /\ UNCHANGED <<bikeVars, inventory, rentalVars, moneyVars>>

\* Faulty variant: the exception of the guard is answered like a refusal.
CreateDecrementSwallowed(q) ==
  /\ Move(q, "decrement", IF inventory[Station(q)] < Size(q) THEN "refused" ELSE "dec_read")
  /\ UNCHANGED <<bikeVars, inventory, rentalVars, moneyVars>>

\* Step 7b, Station.decrement_inventory: the guard, ...
CreateDecrement(q) ==
  /\ Move(q, "decrement", IF inventory[Station(q)] < Size(q) THEN "crashed" ELSE "dec_read")
  /\ UNCHANGED <<bikeVars, inventory, rentalVars, moneyVars>>

\* ... the reading half of -=, ...
CreateDecRead(q) ==
  /\ Read(q, "dec_read", "dec_write", inventory[Station(q)])
  /\ UNCHANGED <<bikeVars, inventory, rentalVars, moneyVars>>

\* Faulty variant: one unit per rental instead of one per bicycle.
CreateDecWriteOne(q) ==
  /\ Use(q, "dec_write", "pay")
  /\ inventory' = [inventory EXCEPT ![Station(q)] = local[q] - 1]
  /\ UNCHANGED <<bikeVars, rentalVars, moneyVars>>

\* ... and the writing half.
CreateDecWrite(q) ==
  /\ Use(q, "dec_write", "pay")
  /\ inventory' = [inventory EXCEPT ![Station(q)] = local[q] - Size(q)]
  /\ UNCHANGED <<bikeVars, rentalVars, moneyVars>>

\* Faulty variant: the rental is stored before its payment.
CreatePayLate(q) ==
  /\ IF header[q] = None
     THEN Move(q, "pay", "pay") /\ Store(q, "activa") /\ UNCHANGED paid
     ELSE Move(q, "pay", "store") /\ paid' = paid \cup {q} /\ UNCHANGED rentalVars
  /\ UNCHANGED <<bikeVars, inventory, approved>>

\* Step 7c: the payment is stored, ...
CreatePay(q) ==
  /\ Move(q, "pay", "store")
  /\ paid' = paid \cup {q}
  /\ UNCHANGED <<bikeVars, inventory, rentalVars, approved>>

\* Faulty variant: the rental is stored without being confirmed.
CreateStoreUnconfirmed(q) ==
  /\ Move(q, "store", "ok")
  /\ Store(q, "pendiente_pago")
  /\ UNCHANGED <<bikeVars, inventory, moneyVars>>

\* ... and then the confirmed rental.
CreateStore(q) ==
  /\ Move(q, "store", "ok")
  /\ Store(q, "activa")
  /\ UNCHANGED <<bikeVars, inventory, moneyVars>>

CreateStep(q) ==
  \/ CreateScanned(q) \/ CreateCheck(q) \/ CreateCheckStation(q)
  \/ CreateAuthorize(q) \/ CreateDecline(q)
  \/ CreateRent(q) \/ CreateRentStatus(q) \/ CreateRentPlace(q)
  \/ CreateDecrement(q) \/ CreateDecRead(q) \/ CreateDecWrite(q)
  \/ CreatePay(q) \/ CreateStore(q)

-----------------------------------------------------------------------------
(* ReturnBicycles *)

\* Steps 2 and 3: the rental is open and every bicycle is an active item of it.  Items
\* are only ever returned, so reading them one after the other refuses the same requests.
ReturnLoad(q) ==
  /\ Begin(q, "return")
  /\ Move(q, "idle", IF \A b \in Bikes(q)' : Holds(Rental(q)', b) THEN "fit" ELSE "refused")
  /\ UNCHANGED <<bikeVars, inventory, rentalVars, moneyVars>>

\* Step 4: the bicycles fit in the station.
ReturnFit(q) ==
  /\ pc[q] = "fit"
  /\ IF inventory[Station(q)] + Size(q) > Capacity[Station(q)]
     THEN Move(q, "fit", "refused")
     ELSE EnterLoop(q, "fit", "check_rented")
  /\ UNCHANGED <<bikeVars, inventory, rentalVars, moneyVars>>

\* Step 5b: one bicycle of the list is rented, or the request is refused.
ReturnCheck(q) ==
  /\ pc[q] = "check_rented"
  /\ IF status[Bike(q)] = "rentada"
     THEN NextBike(q, "check_rented", "check_rented", "apply")
     ELSE Move(q, "check_rented", "refused")
  /\ UNCHANGED <<bikeVars, inventory, rentalVars, moneyVars>>

\* Step 7a, Rental.apply_return: the guard on the header, ...
ReturnApply(q) ==
  /\ pc[q] = "apply"
  /\ IF header[Rental(q)] \in OpenStatuses
     THEN EnterLoop(q, "apply", "mark")
     ELSE Move(q, "apply", "crashed")
  /\ UNCHANGED <<bikeVars, inventory, rentalVars, moneyVars>>

\* ... for each item the guard of mark_returned, ...
ReturnMark(q) ==
  /\ Move(q, "mark",
          IF item[Rental(q)][Bike(q)] = "activo" THEN "mark_write" ELSE "crashed")
  /\ UNCHANGED <<bikeVars, inventory, rentalVars, moneyVars>>

\* ... and its status, with what the return recorded (the station, the instant, the
\* minutes and the amount, which no check reads); ...
ReturnMarkWrite(q) ==
  /\ NextBike(q, "mark_write", "mark", "derive")
  /\ item' = [item EXCEPT ![Rental(q)][Bike(q)] = "devuelto"]
  /\ UNCHANGED <<bikeVars, inventory, header, closed, moneyVars>>

\* Faulty variant: the status is derived as if the loop had returned every item.
ReturnDeriveAll(q) ==
  /\ Read(q, "derive", "derived", "completada")
  /\ UNCHANGED <<bikeVars, inventory, rentalVars, moneyVars>>

\* ... then the header's status is derived from the items, ...  (Items are returned one at a
\* time and for good, so what reading them in turn gives was true at some moment meanwhile.)
ReturnDerive(q) ==
  /\ Read(q, "derive", "derived", DeriveStatus(item[Rental(q)]))
  /\ UNCHANGED <<bikeVars, inventory, rentalVars, moneyVars>>

\* ... and written, ...
ReturnDerived(q) ==
  /\ Use(q, "derived", "close")
  /\ header' = [header EXCEPT ![Rental(q)] = local[q]]
  /\ UNCHANGED <<bikeVars, inventory, item, closed, moneyVars>>

\* ... and a rental whose header says it is complete is closed.
ReturnClose(q) ==
  /\ EnterLoop(q, "close", "return")
  /\ closed' = IF header[Rental(q)] = "completada" THEN closed \cup {Rental(q)} ELSE closed
  /\ UNCHANGED <<bikeVars, inventory, header, item, moneyVars>>

\* Step 7b, Bicycle.return_to of one bicycle: the guard, ...
ReturnBike(q) ==
  /\ Move(q, "return", IF status[Bike(q)] = "rentada" THEN "return_status" ELSE "crashed")
  /\ UNCHANGED <<bikeVars, inventory, rentalVars, moneyVars>>

\* ... the status, ...
ReturnBikeStatus(q) ==
  /\ Move(q, "return_status", "return_place")
  /\ status' = [status EXCEPT ![Bike(q)] = "disponible"]
  /\ UNCHANGED <<place, inventory, rentalVars, moneyVars>>

\* ... and the station.
ReturnBikePlace(q) ==
  /\ NextBike(q, "return_place", "return", "increment")
  /\ place' = [place EXCEPT ![Bike(q)] = Station(q)]
  /\ UNCHANGED <<status, inventory, rentalVars, moneyVars>>

\* Step 7c, Station.increment_inventory: the guard, ...
ReturnIncrement(q) ==
  /\ Move(q, "increment",
          IF inventory[Station(q)] + Size(q) > Capacity[Station(q)]
          THEN "crashed" ELSE "inc_read")
  /\ UNCHANGED <<bikeVars, inventory, rentalVars, moneyVars>>

\* ... the reading half of +=, ...
ReturnIncRead(q) ==
  /\ Read(q, "inc_read", "inc_write", inventory[Station(q)])
  /\ UNCHANGED <<bikeVars, inventory, rentalVars, moneyVars>>

\* ... and the writing half.
ReturnIncWrite(q) ==
  /\ Use(q, "inc_write", "ok")
  /\ inventory' = [inventory EXCEPT ![Station(q)] = local[q] + Size(q)]
  /\ UNCHANGED <<bikeVars, rentalVars, moneyVars>>

ReturnStep(q) ==
  \/ ReturnFit(q) \/ ReturnCheck(q) \/ ReturnApply(q)
  \/ ReturnMark(q) \/ ReturnMarkWrite(q)
  \/ ReturnDerive(q) \/ ReturnDerived(q) \/ ReturnClose(q)
  \/ ReturnBike(q) \/ ReturnBikeStatus(q) \/ ReturnBikePlace(q)
  \/ ReturnIncrement(q) \/ ReturnIncRead(q) \/ ReturnIncWrite(q)

-----------------------------------------------------------------------------

\* A user sends request q, when a thread of the pool is free.
Arrive(q) ==
  \/ CreateScan(q)
  \/ ReturnLoad(q)

Step(q) ==
  \/ CreateStep(q) /\ UNCHANGED order
  \/ ReturnStep(q) /\ UNCHANGED order

Next == \E q \in Requests : Arrive(q) \/ Step(q)

Spec == Init /\ [][Next]_vars

\* The operating system runs every thread that can run, and no thread ever waits for
\* another.  Users need not send anything.
FairSpec == Spec /\ \A q \in Requests : WF_vars(Step(q))

-----------------------------------------------------------------------------
(* Invariants *)

Labels ==
  {"idle", "scan", "check", "check_station", "authorize", "decline", "rent", "rent_status",
   "rent_place", "decrement", "dec_read", "dec_write", "pay", "store",
   "fit", "check_rented", "apply", "mark", "mark_write", "derive", "derived", "close",
   "return", "return_status", "return_place", "increment", "inc_read", "inc_write"}
    \cup Outcomes

TypeOK ==
  /\ status \in [Bicycles -> {"disponible", "rentada"}]
  /\ place \in [Bicycles -> Stations \cup {None}]
  /\ inventory \in [Stations -> Int]
  /\ header \in [Requests -> OpenStatuses \cup {"completada", "fallida", None}]
  /\ item \in [Requests -> [Bicycles -> {None, "activo", "devuelto"}]]
  /\ closed \subseteq Requests /\ approved \subseteq Requests /\ paid \subseteq Requests
  /\ \A q \in Requests : order[q] \in Orders[q] \cup {None}
  /\ pc \in [Requests -> Labels]
  /\ todo \in [Requests -> BikeLists \cup {<<>>}]

\* RN-06, NFR-02: no bicycle is out on two rentals.
NoDoubleAssignment ==
  \A b \in Bicycles : \A q, r \in Requests : Holds(q, b) /\ Holds(r, b) => q = r

\* RN-01, while no request is in flight: the inventory of a station is the number of
\* available bicycles there.
InventoryCounts ==
  Quiet => \A s \in Stations :
    inventory[s] = Cardinality({b \in Bicycles : status[b] = "disponible" /\ place[b] = s})

\* create_rental.py: a request whose charge the gateway approved ends with its rental and
\* its payment stored ("must not leave step 7 half-done; it does not").
ChargedMeansRented ==
  \A q \in Requests :
    q \in approved /\ ~InFlight(q) => q \in Stored /\ q \in paid

\* ADR-0004, while no request is in flight: the header of a confirmed rental has the
\* status its items derive, and the rental is closed exactly when it is complete.
HeaderDerived ==
  Quiet => \A r \in Stored : header[r] # "fallida" =>
    /\ header[r] = DeriveStatus(item[r])
    /\ r \in closed <=> header[r] = "completada"

\* "active item <=> RENTADA bicycle" (return_bicycles.py), while no request is in flight.
HeldIffRented ==
  Quiet => \A b \in Bicycles :
    (status[b] = "rentada") <=> \E r \in Requests : Holds(r, b)

\* RN-19 whatever the interleaving: a stored rental that is not failed has its payment,
\* and its charge was approved; a failed one has neither.
ActiveRentalPaid ==
  \A r \in Stored :
    IF header[r] = "fallida" THEN r \notin approved \cup paid ELSE r \in approved \cap paid

\* RN-14 whatever the interleaving: no rental is complete, or closed, while one of its
\* bicycles is out.
CompleteMeansReturned ==
  \A r \in Stored :
    header[r] = "completada" \/ r \in closed => \A b \in Bicycles : item[r][b] # "activo"

\* RN-05 for the request that loses a race before its charge: a refused or interrupted
\* creation was not charged and stored nothing, a declined one stored its failed rental.
LosersNotCharged ==
  \A q \in Requests :
    /\ pc[q] \in {"refused", "interrupted"} => q \notin approved \cup Stored
    /\ pc[q] = "declined" => q \notin approved /\ header[q] = "fallida"

\* What is left of "active item <=> RENTADA bicycle" whatever the interleaving: when no
\* request is in flight and none crashed, every rented bicycle is out on a rental.
NoBicycleLost ==
  Quiet /\ (\A q \in Requests : pc[q] # "crashed") => \A b \in Bicycles :
    status[b] = "rentada" => \E r \in Requests : Holds(r, b)

\* Every request that starts is answered: no thread waits for another.
Answered == \A q \in Requests : InFlight(q) ~> pc[q] \in Outcomes

-----------------------------------------------------------------------------
(* Refinement: a rental holds the bicycles of its active items, and is     *)
(* charged once it is stored with its payment.                             *)

Allocation == INSTANCE BikeAllocation WITH
  RentalIds <- Requests,
  held <- [r \in Requests |-> {b \in Bicycles : Holds(r, b)}],
  charged <- Stored \cap paid

\* RN-05, RN-06: handling one request at a time, the access-by-access implementation
\* keeps the promise of BikeAllocation.
ImplementsAllocation == Allocation!Spec
=============================================================================
