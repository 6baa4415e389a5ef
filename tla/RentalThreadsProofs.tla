------------------------- MODULE RentalThreadsProofs -------------------------
(***************************************************************************)
(* What RentalThreads keeps whatever the interleaving, for any bicycles,   *)
(* stations, requests and number of threads; then what it keeps besides    *)
(* with one thread, and that it implements BikeAllocation then.            *)
(***************************************************************************)
EXTENDS RentalThreads, SequenceTheorems, FiniteSetTheorems, TLAPS

CreateLabels ==
  {"scan", "check", "check_station", "authorize", "decline", "rent", "rent_status", "rent_place",
   "decrement", "dec_read", "dec_write", "pay", "store"}

ReturnLabels ==
  {"fit", "check_rented", "apply", "mark", "mark_write", "derive", "derived", "close",
   "return", "return_status", "return_place", "increment", "inc_read", "inc_write"}

\* The places inside a loop over bicycles.
LoopLabels ==
  {"check", "check_station", "rent", "rent_status", "rent_place", "check_rented", "mark",
   "mark_write", "return", "return_status", "return_place"}

\* The header of a confirmed rental.
ConfirmedStatuses == OpenStatuses \cup {"completada"}

Elems(list) == {list[i] : i \in DOMAIN list}

\* What a request at its place may rely on: where its own rental and its charge are, the
\* list its loop walks, the value it has read, and the rental it returns.
AtPlace(q) ==
  /\ pc[q] = "idle" <=> order[q] = None
  /\ pc[q] \in CreateLabels \cup {"declined", "interrupted"} => order[q] \in CreateOrder
  /\ pc[q] \in ReturnLabels => order[q] \in ReturnOrder
  /\ pc[q] \in {"idle", "scan", "check", "check_station", "authorize", "decline", "refused",
                 "interrupted"}
                \cup ReturnLabels =>
       q \notin approved \cup paid /\ header[q] = None
  /\ pc[q] \in {"rent", "rent_status", "rent_place", "decrement", "dec_read", "dec_write", "pay"} =>
       q \in approved /\ q \notin paid /\ header[q] = None
  /\ pc[q] = "store" => q \in approved \cap paid /\ header[q] = None
  /\ pc[q] = "declined" => q \notin approved \cup paid /\ header[q] = "fallida"
  /\ pc[q] = "ok" => \/ header[q] = None
                     \/ q \in approved \cap paid /\ header[q] \in ConfirmedStatuses
  /\ pc[q] = "crashed" => header[q] = None
  /\ pc[q] \in LoopLabels => todo[q] \in BikeLists /\ Elems(todo[q]) \subseteq Bikes(q)
  /\ pc[q] \in {"dec_write", "inc_write"} => local[q] \in Int
  /\ pc[q] = "derived" =>
       /\ local[q] \in ConfirmedStatuses
       /\ local[q] = "completada" => \A b \in Bicycles : item[Rental(q)][b] # "activo"
  /\ pc[q] \in ReturnLabels => header[Rental(q)] \in ConfirmedStatuses

\* The two halves of TypeOK; order and local are functions too.
DataTypes ==
  /\ status \in [Bicycles -> {"disponible", "rentada"}]
  /\ place \in [Bicycles -> Stations \cup {None}]
  /\ inventory \in [Stations -> Int]
  /\ header \in [Requests -> ConfirmedStatuses \cup {"fallida", None}]
  /\ item \in [Requests -> [Bicycles -> {None, "activo", "devuelto"}]]
  /\ closed \subseteq Requests /\ approved \subseteq Requests /\ paid \subseteq Requests

ControlTypes ==
  /\ \A q \in Requests : order[q] \in Orders[q] \cup {None}
  /\ pc \in [Requests -> Labels]
  /\ todo \in [Requests -> BikeLists \cup {<<>>}]
  /\ local = [q \in Requests |-> local[q]] /\ order = [q \in Requests |-> order[q]]

\* Strengthens the invariants whatever the interleaving.
IInv ==
  /\ DataTypes /\ ControlTypes
  /\ \A q \in Requests : AtPlace(q)
  /\ CompleteMeansReturned
  /\ closed \subseteq Stored

LEMMA Types == DataTypes /\ ControlTypes => TypeOK
BY DEF DataTypes, ControlTypes, ConfirmedStatuses, TypeOK

-----------------------------------------------------------------------------
(* Lists of bicycles *)

\* A list of bicycles is a sequence; its head is one of its bicycles, and its tail, when it
\* is not empty, is such a list of the others.
LEMMA ListParts ==
  ASSUME NEW list \in BikeLists
  PROVE  /\ list \in Seq(Bicycles) /\ list # <<>>
         /\ Head(list) \in Bicycles /\ Head(list) \in Elems(list)
         /\ Tail(list) \in BikeLists \cup {<<>>}
         /\ Elems(Tail(list)) \subseteq Elems(list)
         /\ Elems(list) \subseteq {Head(list)} \cup Elems(Tail(list))
<1>1. PICK n \in 1 .. Cardinality(Bicycles) : list \in [1 .. n -> Bicycles]
  BY DEF BikeLists
<1>2. Cardinality(Bicycles) \in Nat
  BY BoundsAssumption, FS_CardinalityType
<1>3. n \in Nat \ {0} /\ n <= Cardinality(Bicycles)
  BY <1>2
<1>4. list \in Seq(Bicycles) /\ Len(list) = n /\ DOMAIN list = 1 .. n
  BY <1>1, <1>3
<1>5. list # <<>>
  BY <1>3, <1>4
<1>6. Head(list) = list[1] /\ Head(list) \in Bicycles
  BY <1>3, <1>4
<1>7. /\ Tail(list) \in Seq(Bicycles) /\ Len(Tail(list)) = n - 1
      /\ \A i \in 1 .. (n - 1) : Tail(list)[i] = list[i + 1]
  BY <1>4, <1>5, HeadTailProperties
<1>8. DOMAIN Tail(list) = 1 .. (n - 1)
  BY <1>3, <1>7
<1>9. Elems(Tail(list)) \subseteq Elems(list)
  BY <1>3, <1>4, <1>7, <1>8 DEF Elems
<1>10. Elems(list) \subseteq {Head(list)} \cup Elems(Tail(list))
  <2> SUFFICES ASSUME NEW i \in 1 .. n, i # 1
               PROVE  list[i] \in Elems(Tail(list))
    BY <1>4, <1>6 DEF Elems
  <2>1. i - 1 \in 1 .. (n - 1) /\ Tail(list)[i - 1] = list[i]
    BY <1>3, <1>7
  <2> QED BY <1>8, <2>1 DEF Elems
<1>11. Tail(list) \in BikeLists \cup {<<>>}
  <2>1. CASE n = 1
    BY <1>7, <2>1, EmptySeq
  <2>2. CASE n # 1
    <3>1. n - 1 \in 1 .. Cardinality(Bicycles)
      BY <1>2, <1>3, <2>2
    <3>2. Tail(list) \in [1 .. (n - 1) -> Bicycles]
      BY <1>7, LenProperties
    <3>3. \A i, j \in 1 .. n : list[i] = list[j] => i = j
      BY <1>4 DEF BikeLists
    <3>4. \A i, j \in 1 .. (n - 1) : Tail(list)[i] = Tail(list)[j] => i = j
      BY <1>3, <1>7, <3>3
    <3> QED BY <1>8, <3>1, <3>2, <3>4 DEF BikeLists
  <2> QED BY <2>1, <2>2
<1> QED BY <1>3, <1>4, <1>5, <1>6, <1>9, <1>10, <1>11 DEF Elems

\* The orders of the two kinds, and None, are apart; an order has its parts.
LEMMA OrderParts ==
  ASSUME NEW o
  PROVE  /\ o \in CreateOrder => /\ o.kind = "create" /\ o.bikes \in BikeLists
                                 /\ o.station \in Stations /\ o # None
         /\ o \in ReturnOrder => /\ o.kind = "return" /\ o.bikes \in BikeLists
                                 /\ o.station \in Stations /\ o.rental \in Requests /\ o # None
BY BoundsAssumption DEF CreateOrder, ReturnOrder

LEMMA InitHolds == Init => IInv
<1> SUFFICES ASSUME Init PROVE IInv
  OBVIOUS
<1>1. inventory \in [Stations -> Int]
  <2>1. \A s \in Stations : Cardinality({b \in Bicycles : place[b] = s}) \in Nat
    BY BoundsAssumption, FS_Subset, FS_CardinalityType
  <2> QED BY <2>1 DEF Init
<1>2. DataTypes /\ ControlTypes
  BY <1>1 DEF Init, DataTypes, ControlTypes, Labels
<1>3. \A q \in Requests : AtPlace(q)
  BY BoundsAssumption DEF Init, AtPlace, CreateLabels, ReturnLabels, LoopLabels
<1>4. CompleteMeansReturned /\ closed \subseteq Stored
  BY DEF Init, CompleteMeansReturned, Stored
<1> QED BY <1>2, <1>3, <1>4 DEF IInv

-----------------------------------------------------------------------------
(* Control *)

\* The other requests stay where they are.
OthersWait(q) ==
  \A p \in Requests \ {q} :
    pc'[p] = pc[p] /\ todo'[p] = todo[p] /\ local'[p] = local[p] /\ order'[p] = order[p]

LEMMA MoveControl ==
  ASSUME ControlTypes, NEW q \in Requests, NEW from, NEW to \in Labels, Move(q, from, to),
         UNCHANGED order
  PROVE  /\ pc[q] = from /\ pc'[q] = to /\ todo' = todo /\ local' = local
         /\ ControlTypes' /\ OthersWait(q)
BY DEF ControlTypes, Move, OthersWait

LEMMA EnterLoopControl ==
  ASSUME ControlTypes, NEW q \in Requests, NEW from, NEW to \in Labels, EnterLoop(q, from, to),
         UNCHANGED order, List(q) \in BikeLists
  PROVE  /\ pc[q] = from /\ pc'[q] = to /\ todo'[q] = List(q) /\ local' = local
         /\ ControlTypes' /\ OthersWait(q)
BY DEF ControlTypes, EnterLoop, OthersWait

LEMMA NextBikeControl ==
  ASSUME ControlTypes, NEW q \in Requests, NEW from, NEW loop \in Labels, NEW after \in Labels,
         NextBike(q, from, loop, after), UNCHANGED order, todo[q] \in BikeLists
  PROVE  /\ pc[q] = from /\ todo'[q] = Tail(todo[q]) /\ local' = local
         /\ \/ todo'[q] \in BikeLists /\ pc'[q] = loop
            \/ todo'[q] = <<>> /\ pc'[q] = after
         /\ ControlTypes' /\ OthersWait(q)
<1>1. Tail(todo[q]) \in BikeLists \cup {<<>>} /\ <<>> \notin BikeLists
  BY ListParts
<1> QED BY <1>1 DEF ControlTypes, NextBike, OthersWait

LEMMA ReadControl ==
  ASSUME ControlTypes, NEW q \in Requests, NEW from, NEW to \in Labels, NEW value,
         Read(q, from, to, value), UNCHANGED order
  PROVE  /\ pc[q] = from /\ pc'[q] = to /\ todo' = todo /\ local'[q] = value
         /\ ControlTypes' /\ OthersWait(q)
BY DEF ControlTypes, Read, OthersWait

LEMMA UseControl ==
  ASSUME ControlTypes, NEW q \in Requests, NEW from, NEW to \in Labels, Use(q, from, to),
         UNCHANGED order
  PROVE  /\ pc[q] = from /\ pc'[q] = to /\ todo' = todo
         /\ ControlTypes' /\ OthersWait(q)
BY DEF ControlTypes, Use, OthersWait

\* A step of q that writes no rental keeps the invariant if it keeps the types and leaves q
\* where it should be.
LEMMA NeutralStep ==
  ASSUME IInv, NEW q \in Requests, DataTypes', ControlTypes', OthersWait(q), AtPlace(q)',
         \A p \in Requests \ {q} :
           (p \in approved' <=> p \in approved) /\ (p \in paid' <=> p \in paid),
         UNCHANGED rentalVars
  PROVE  IInv'
<1>1. header' = header /\ item' = item /\ closed' = closed
  BY DEF rentalVars
<1>2. ASSUME NEW p \in Requests \ {q} PROVE AtPlace(p)'
  BY <1>1, <1>2 DEF IInv, OthersWait, AtPlace, Rental, Bikes, List, Elems
<1>3. CompleteMeansReturned' /\ (closed \subseteq Stored)'
  BY <1>1 DEF IInv, CompleteMeansReturned, Stored
<1> QED BY <1>2, <1>3 DEF IInv

-----------------------------------------------------------------------------
(* Creations *)

LEMMA CreateNeutral ==
  ASSUME IInv, NEW q \in Requests, UNCHANGED order,
         \/ CreateScanned(q) \/ CreateCheck(q) \/ CreateCheckStation(q) \/ CreateAuthorize(q)
         \/ CreateRent(q) \/ CreateRentStatus(q) \/ CreateRentPlace(q)
         \/ CreateDecrement(q) \/ CreateDecRead(q) \/ CreateDecWrite(q) \/ CreatePay(q)
  PROVE  IInv'
<1>0. DataTypes /\ ControlTypes /\ AtPlace(q)
  BY DEF IInv
<1>a. order[q] \in CreateOrder => /\ List(q) \in BikeLists /\ Station(q) \in Stations
                                 /\ Elems(List(q)) = Bikes(q)
  BY OrderParts DEF List, Station, Bikes, Elems
<1>b. todo[q] \in BikeLists => /\ Bike(q) \in Bicycles
                              /\ Elems(Tail(todo[q])) \subseteq Elems(todo[q])
  BY ListParts DEF Bike
<1> DEFINE Same == /\ UNCHANGED <<header, item, closed, order>>
                   /\ Bikes(q)' = Bikes(q) /\ Rental(q)' = Rental(q)
<1>c. UNCHANGED rentalVars => Same
  BY DEF rentalVars, Bikes, Rental, List
<1> USE DEF CreateLabels, ReturnLabels, LoopLabels, bikeVars, rentalVars, moneyVars
<1>1. CASE CreateRent(q)
  <2> DEFINE to == IF status[Bike(q)] = "disponible" THEN "rent_status" ELSE "crashed"
  <2>0. to \in Labels
    BY DEF Labels, Outcomes
  <2>1. /\ pc[q] = "rent" /\ pc'[q] = to /\ todo' = todo
        /\ local' = local /\ ControlTypes' /\ OthersWait(q)
    BY <1>0, <1>1, <2>0, MoveControl, Zenon DEF CreateRent
  <2>2. DataTypes' /\ UNCHANGED <<approved, paid>> /\ Same
    BY <1>0, <1>1, <1>c DEF CreateRent, DataTypes
  <2>3. AtPlace(q)'
    BY <1>0, <2>1, <2>2 DEF AtPlace
  <2> QED BY <2>1, <2>2, <2>3, NeutralStep
<1>2. CASE CreateRentStatus(q)
  <2> DEFINE to == "rent_place"
  <2>0. to \in Labels
    BY DEF Labels, Outcomes
  <2>1. /\ pc[q] = "rent_status" /\ pc'[q] = to /\ todo' = todo
        /\ local' = local /\ ControlTypes' /\ OthersWait(q)
    BY <1>0, <1>2, <2>0, MoveControl, Zenon DEF CreateRentStatus
  <2>2. DataTypes' /\ UNCHANGED <<approved, paid>> /\ Same
    BY <1>0, <1>2, <1>c DEF CreateRentStatus, DataTypes
  <2>3. AtPlace(q)'
    BY <1>0, <2>1, <2>2 DEF AtPlace
  <2> QED BY <2>1, <2>2, <2>3, NeutralStep
<1>3. CASE CreateRentPlace(q)
  <2>0. todo[q] \in BikeLists /\ {"rent", "decrement"} \subseteq Labels
    BY <1>0, <1>3 DEF AtPlace, CreateRentPlace, NextBike, Labels
  <2>1. /\ pc[q] = "rent_place" /\ todo'[q] = Tail(todo[q]) /\ local' = local
        /\ \/ todo'[q] \in BikeLists /\ pc'[q] = "rent"
           \/ todo'[q] = <<>> /\ pc'[q] = "decrement"
        /\ ControlTypes' /\ OthersWait(q)
    BY <1>0, <1>3, <2>0, NextBikeControl, Zenon DEF CreateRentPlace
  <2>2. DataTypes' /\ UNCHANGED <<approved, paid>> /\ Same
    BY <1>0, <1>3, <1>c DEF CreateRentPlace, DataTypes
  <2>3. AtPlace(q)'
    BY <1>0, <1>b, <2>0, <2>1, <2>2 DEF AtPlace
  <2> QED BY <2>1, <2>2, <2>3, NeutralStep
<1>4. CASE CreateDecrement(q)
  <2> DEFINE to == IF inventory[Station(q)] < Size(q) THEN "crashed" ELSE "dec_read"
  <2>0. to \in Labels
    BY DEF Labels, Outcomes
  <2>1. /\ pc[q] = "decrement" /\ pc'[q] = to /\ todo' = todo
        /\ local' = local /\ ControlTypes' /\ OthersWait(q)
    BY <1>0, <1>4, <2>0, MoveControl, Zenon DEF CreateDecrement
  <2>2. DataTypes' /\ UNCHANGED <<approved, paid>> /\ Same
    BY <1>0, <1>4, <1>c DEF CreateDecrement, DataTypes
  <2>3. AtPlace(q)'
    BY <1>0, <2>1, <2>2 DEF AtPlace
  <2> QED BY <2>1, <2>2, <2>3, NeutralStep
<1>5. CASE CreateDecRead(q)
  <2>0. "dec_write" \in Labels
    BY DEF Labels
  <2>1. /\ pc[q] = "dec_read" /\ pc'[q] = "dec_write" /\ todo' = todo
        /\ local'[q] = inventory[Station(q)] /\ ControlTypes' /\ OthersWait(q)
    BY <1>0, <1>5, <2>0, ReadControl, Zenon DEF CreateDecRead
  <2>a. inventory[Station(q)] \in Int
    BY <1>0, <1>a, <2>1 DEF AtPlace, DataTypes
  <2>2. DataTypes' /\ UNCHANGED <<approved, paid>> /\ Same
    BY <1>0, <1>5, <1>c DEF CreateDecRead, DataTypes
  <2>3. AtPlace(q)'
    BY <1>0, <2>a, <2>1, <2>2 DEF AtPlace
  <2> QED BY <2>1, <2>2, <2>3, NeutralStep
<1>6. CASE CreateDecWrite(q)
  <2>0. "pay" \in Labels
    BY DEF Labels
  <2>1. /\ pc[q] = "dec_write" /\ pc'[q] = "pay" /\ todo' = todo
        /\ ControlTypes' /\ OthersWait(q)
    BY <1>0, <1>6, <2>0, UseControl, Zenon DEF CreateDecWrite
  <2>a. local[q] - Size(q) \in Int
    BY <1>0, <1>a, <2>1, ListParts, LenProperties DEF AtPlace, Size
  <2>2. DataTypes' /\ UNCHANGED <<approved, paid>> /\ Same
    BY <1>0, <1>6, <1>c, <2>a DEF CreateDecWrite, DataTypes
  <2>3. AtPlace(q)'
    BY <1>0, <2>1, <2>2 DEF AtPlace
  <2> QED BY <2>1, <2>2, <2>3, NeutralStep
<1>7. CASE CreatePay(q)
  <2> DEFINE to == "store"
  <2>0. to \in Labels
    BY DEF Labels, Outcomes
  <2>1. /\ pc[q] = "pay" /\ pc'[q] = to /\ todo' = todo
        /\ local' = local /\ ControlTypes' /\ OthersWait(q)
    BY <1>0, <1>7, <2>0, MoveControl, Zenon DEF CreatePay
  <2>2. DataTypes' /\ approved' = approved /\ paid' = paid \cup {q} /\ Same
    BY <1>0, <1>7, <1>c DEF CreatePay, DataTypes
  <2>3. AtPlace(q)'
    BY <1>0, <2>1, <2>2 DEF AtPlace
  <2> QED BY <2>1, <2>2, <2>3, NeutralStep
<1>8. CASE CreateScanned(q)
  <2>1. /\ pc[q] = "scan" /\ pc'[q] \in {"interrupted", "refused", "check"}
        /\ todo'[q] = List(q) /\ ControlTypes' /\ OthersWait(q)
    <3>1. pc[q] = "scan" /\ List(q) \in BikeLists
      BY <1>0, <1>a, <1>8 DEF CreateScanned, AtPlace
    <3> QED BY <1>0, <1>8, <3>1 DEF CreateScanned, ControlTypes, OthersWait, Labels, Outcomes
  <2>2. DataTypes' /\ UNCHANGED <<approved, paid>> /\ Same
    BY <1>0, <1>8, <1>c DEF CreateScanned, DataTypes
  <2>3. AtPlace(q)'
    BY <1>0, <1>a, <2>1, <2>2 DEF AtPlace
  <2> QED BY <2>1, <2>2, <2>3, NeutralStep
<1>9. CASE CreateCheck(q)
  <2> DEFINE to == IF status[Bike(q)] = "disponible" THEN "check_station" ELSE "refused"
  <2>0. to \in Labels
    BY DEF Labels, Outcomes
  <2>1. /\ pc[q] = "check" /\ pc'[q] = to /\ todo' = todo
        /\ local' = local /\ ControlTypes' /\ OthersWait(q)
    BY <1>0, <1>9, <2>0, MoveControl, Zenon DEF CreateCheck
  <2>2. DataTypes' /\ UNCHANGED <<approved, paid>> /\ Same
    BY <1>0, <1>9, <1>c DEF CreateCheck, DataTypes
  <2>3. AtPlace(q)'
    BY <1>0, <2>1, <2>2 DEF AtPlace
  <2> QED BY <2>1, <2>2, <2>3, NeutralStep
<1>11. CASE CreateCheckStation(q)
  <2>0. /\ pc[q] = "check_station" /\ todo[q] \in BikeLists
        /\ {"check", "authorize", "refused"} \subseteq Labels
    BY <1>0, <1>11 DEF AtPlace, CreateCheckStation, Labels, Outcomes
  <2>1. /\ \/ todo'[q] = todo[q] /\ pc'[q] = "refused"
           \/ todo'[q] = Tail(todo[q]) /\ todo'[q] \in BikeLists /\ pc'[q] = "check"
           \/ todo'[q] = <<>> /\ pc'[q] = "authorize"
        /\ local' = local /\ ControlTypes' /\ OthersWait(q)
    <3>1. CASE Move(q, "check_station", "refused")
      BY <1>0, <2>0, <3>1, MoveControl
    <3>2. CASE NextBike(q, "check_station", "check", "authorize")
      BY <1>0, <2>0, <3>2, NextBikeControl
    <3> QED BY <1>11, <3>1, <3>2 DEF CreateCheckStation
  <2>2. DataTypes' /\ UNCHANGED <<approved, paid>> /\ Same
    BY <1>0, <1>11, <1>c DEF CreateCheckStation, DataTypes
  <2>3. AtPlace(q)'
    BY <1>0, <1>b, <2>0, <2>1, <2>2 DEF AtPlace
  <2> QED BY <2>1, <2>2, <2>3, NeutralStep
<1>10. CASE CreateAuthorize(q)
  <2>0. /\ pc[q] = "authorize" /\ List(q) \in BikeLists /\ Elems(List(q)) = Bikes(q)
        /\ {"rent", "decline"} \subseteq Labels
    BY <1>0, <1>a, <1>10 DEF AtPlace, CreateAuthorize, EnterLoop, Move, Labels
  <2>1. /\ \/ todo'[q] = List(q) /\ pc'[q] = "rent" /\ approved' = approved \cup {q}
           \/ pc'[q] = "decline" /\ approved' = approved
        /\ ControlTypes' /\ OthersWait(q)
    <3>1. CASE EnterLoop(q, "authorize", "rent") /\ approved' = approved \cup {q}
      BY <1>0, <2>0, <3>1, EnterLoopControl
    <3>2. CASE Move(q, "authorize", "decline") /\ UNCHANGED approved
      BY <1>0, <2>0, <3>2, MoveControl
    <3> QED BY <1>10, <3>1, <3>2 DEF CreateAuthorize
  <2>2. DataTypes' /\ paid' = paid /\ Same
    BY <1>0, <1>10, <1>c DEF CreateAuthorize, DataTypes
  <2>3. AtPlace(q)'
    BY <1>0, <2>0, <2>1, <2>2 DEF AtPlace
  <2> QED BY <2>1, <2>2, <2>3, NeutralStep
<1> QED BY <1>1, <1>2, <1>3, <1>4, <1>5, <1>6, <1>7, <1>8, <1>9, <1>10, <1>11

-----------------------------------------------------------------------------
(* Returns *)

\* What is derived of a stored rental: it is complete only without an active item.
LEMMA Derived ==
  ASSUME NEW list \in [Bicycles -> {None, "activo", "devuelto"}]
  PROVE  /\ DeriveStatus(list) \in ConfirmedStatuses
         /\ DeriveStatus(list) = "completada" => \A b \in Bicycles : list[b] # "activo"
<1>1. None # "activo"
  BY BoundsAssumption
<1> QED BY <1>1 DEF DeriveStatus, ConfirmedStatuses, OpenStatuses

LEMMA ReturnNeutral ==
  ASSUME IInv, NEW q \in Requests, UNCHANGED order,
         \/ ReturnFit(q) \/ ReturnCheck(q) \/ ReturnApply(q) \/ ReturnMark(q)
         \/ ReturnDerive(q) \/ ReturnBike(q) \/ ReturnBikeStatus(q) \/ ReturnBikePlace(q)
         \/ ReturnIncrement(q) \/ ReturnIncRead(q) \/ ReturnIncWrite(q)
  PROVE  IInv'
<1>0. DataTypes /\ ControlTypes /\ AtPlace(q)
  BY DEF IInv
<1>a. order[q] \in ReturnOrder => /\ List(q) \in BikeLists /\ Station(q) \in Stations
                                 /\ Elems(List(q)) = Bikes(q) /\ Rental(q) \in Requests
  BY OrderParts DEF List, Station, Bikes, Elems, Rental
<1>b. todo[q] \in BikeLists => /\ Bike(q) \in Bicycles
                              /\ Elems(Tail(todo[q])) \subseteq Elems(todo[q])
  BY ListParts DEF Bike
<1> DEFINE Same == /\ UNCHANGED <<header, item, closed, order>>
                   /\ Bikes(q)' = Bikes(q) /\ Rental(q)' = Rental(q)
<1>c. UNCHANGED rentalVars => Same
  BY DEF rentalVars, Bikes, Rental, List
<1> USE DEF CreateLabels, ReturnLabels, LoopLabels, bikeVars, rentalVars, moneyVars
<1>1. CASE ReturnFit(q)
  <2>0. /\ pc[q] = "fit" /\ List(q) \in BikeLists /\ Elems(List(q)) = Bikes(q)
        /\ {"check_rented", "refused"} \subseteq Labels
    BY <1>0, <1>a, <1>1 DEF AtPlace, ReturnFit, Labels, Outcomes
  <2>1. /\ \/ todo'[q] = List(q) /\ pc'[q] = "check_rented"
           \/ pc'[q] = "refused"
        /\ ControlTypes' /\ OthersWait(q)
    <3>1. CASE EnterLoop(q, "fit", "check_rented")
      BY <1>0, <2>0, <3>1, EnterLoopControl
    <3>2. CASE Move(q, "fit", "refused")
      BY <1>0, <2>0, <3>2, MoveControl
    <3> QED BY <1>1, <3>1, <3>2 DEF ReturnFit
  <2>2. DataTypes' /\ UNCHANGED <<approved, paid>> /\ Same
    BY <1>0, <1>1, <1>c DEF ReturnFit, DataTypes
  <2>3. AtPlace(q)'
    BY <1>0, <2>0, <2>1, <2>2 DEF AtPlace
  <2> QED BY <2>1, <2>2, <2>3, NeutralStep
<1>2. CASE ReturnCheck(q)
  <2>0. /\ pc[q] = "check_rented" /\ todo[q] \in BikeLists
        /\ {"check_rented", "apply", "refused"} \subseteq Labels
    BY <1>0, <1>2 DEF AtPlace, ReturnCheck, Labels, Outcomes
  <2>1. /\ \/ todo'[q] = todo[q] /\ pc'[q] = "refused"
           \/ todo'[q] = Tail(todo[q]) /\ todo'[q] \in BikeLists /\ pc'[q] = "check_rented"
           \/ todo'[q] = <<>> /\ pc'[q] = "apply"
        /\ local' = local /\ ControlTypes' /\ OthersWait(q)
    <3>1. CASE Move(q, "check_rented", "refused")
      BY <1>0, <2>0, <3>1, MoveControl
    <3>2. CASE NextBike(q, "check_rented", "check_rented", "apply")
      BY <1>0, <2>0, <3>2, NextBikeControl
    <3> QED BY <1>2, <3>1, <3>2 DEF ReturnCheck
  <2>2. DataTypes' /\ UNCHANGED <<approved, paid>> /\ Same
    BY <1>0, <1>2, <1>c DEF ReturnCheck, DataTypes
  <2>3. AtPlace(q)'
    BY <1>0, <1>b, <2>0, <2>1, <2>2 DEF AtPlace
  <2> QED BY <2>1, <2>2, <2>3, NeutralStep
<1>3. CASE ReturnApply(q)
  <2>0. /\ pc[q] = "apply" /\ List(q) \in BikeLists /\ Elems(List(q)) = Bikes(q)
        /\ {"mark", "crashed"} \subseteq Labels
    BY <1>0, <1>a, <1>3 DEF AtPlace, ReturnApply, Labels, Outcomes
  <2>1. /\ \/ todo'[q] = List(q) /\ pc'[q] = "mark"
           \/ pc'[q] = "crashed"
        /\ ControlTypes' /\ OthersWait(q)
    <3>1. CASE EnterLoop(q, "apply", "mark")
      BY <1>0, <2>0, <3>1, EnterLoopControl
    <3>2. CASE Move(q, "apply", "crashed")
      BY <1>0, <2>0, <3>2, MoveControl
    <3> QED BY <1>3, <3>1, <3>2 DEF ReturnApply
  <2>2. DataTypes' /\ UNCHANGED <<approved, paid>> /\ Same
    BY <1>0, <1>3, <1>c DEF ReturnApply, DataTypes
  <2>3. AtPlace(q)'
    BY <1>0, <2>0, <2>1, <2>2 DEF AtPlace
  <2> QED BY <2>1, <2>2, <2>3, NeutralStep
<1>4. CASE ReturnMark(q)
  <2> DEFINE to == IF item[Rental(q)][Bike(q)] = "activo" THEN "mark_write" ELSE "crashed"
  <2>0. to \in Labels
    BY DEF Labels, Outcomes
  <2>1. /\ pc[q] = "mark" /\ pc'[q] = to /\ todo' = todo
        /\ local' = local /\ ControlTypes' /\ OthersWait(q)
    BY <1>0, <1>4, <2>0, MoveControl, Zenon DEF ReturnMark
  <2>2. DataTypes' /\ UNCHANGED <<approved, paid>> /\ Same
    BY <1>0, <1>4, <1>c DEF ReturnMark, DataTypes
  <2>3. AtPlace(q)'
    BY <1>0, <2>1, <2>2 DEF AtPlace
  <2> QED BY <2>1, <2>2, <2>3, NeutralStep
<1>5. CASE ReturnDerive(q)
  <2>0. "derived" \in Labels
    BY DEF Labels
  <2>1. /\ pc[q] = "derive" /\ pc'[q] = "derived" /\ todo' = todo
        /\ local'[q] = DeriveStatus(item[Rental(q)]) /\ ControlTypes' /\ OthersWait(q)
    BY <1>0, <1>5, <2>0, ReadControl, Zenon DEF ReturnDerive
  <2>a. /\ local'[q] \in ConfirmedStatuses
        /\ local'[q] = "completada" => \A b \in Bicycles : item[Rental(q)][b] # "activo"
    <3>1. item[Rental(q)] \in [Bicycles -> {None, "activo", "devuelto"}]
      BY <1>0, <1>a, <2>1 DEF AtPlace, DataTypes
    <3> QED BY <2>1, <3>1, Derived
  <2>2. DataTypes' /\ UNCHANGED <<approved, paid>> /\ Same
    BY <1>0, <1>5, <1>c DEF ReturnDerive, DataTypes
  <2>3. AtPlace(q)'
    BY <1>0, <2>a, <2>1, <2>2 DEF AtPlace
  <2> QED BY <2>1, <2>2, <2>3, NeutralStep
<1>6. CASE ReturnBike(q)
  <2> DEFINE to == IF status[Bike(q)] = "rentada" THEN "return_status" ELSE "crashed"
  <2>0. to \in Labels
    BY DEF Labels, Outcomes
  <2>1. /\ pc[q] = "return" /\ pc'[q] = to /\ todo' = todo
        /\ local' = local /\ ControlTypes' /\ OthersWait(q)
    BY <1>0, <1>6, <2>0, MoveControl, Zenon DEF ReturnBike
  <2>2. DataTypes' /\ UNCHANGED <<approved, paid>> /\ Same
    BY <1>0, <1>6, <1>c DEF ReturnBike, DataTypes
  <2>3. AtPlace(q)'
    BY <1>0, <2>1, <2>2 DEF AtPlace
  <2> QED BY <2>1, <2>2, <2>3, NeutralStep
<1>7. CASE ReturnBikeStatus(q)
  <2> DEFINE to == "return_place"
  <2>0. to \in Labels
    BY DEF Labels, Outcomes
  <2>1. /\ pc[q] = "return_status" /\ pc'[q] = to /\ todo' = todo
        /\ local' = local /\ ControlTypes' /\ OthersWait(q)
    BY <1>0, <1>7, <2>0, MoveControl, Zenon DEF ReturnBikeStatus
  <2>2. DataTypes' /\ UNCHANGED <<approved, paid>> /\ Same
    BY <1>0, <1>7, <1>c DEF ReturnBikeStatus, DataTypes
  <2>3. AtPlace(q)'
    BY <1>0, <2>1, <2>2 DEF AtPlace
  <2> QED BY <2>1, <2>2, <2>3, NeutralStep
<1>8. CASE ReturnBikePlace(q)
  <2>0. todo[q] \in BikeLists /\ {"return", "increment"} \subseteq Labels
    BY <1>0, <1>8 DEF AtPlace, ReturnBikePlace, NextBike, Labels
  <2>1. /\ pc[q] = "return_place" /\ todo'[q] = Tail(todo[q]) /\ local' = local
        /\ \/ todo'[q] \in BikeLists /\ pc'[q] = "return"
           \/ todo'[q] = <<>> /\ pc'[q] = "increment"
        /\ ControlTypes' /\ OthersWait(q)
    BY <1>0, <1>8, <2>0, NextBikeControl, Zenon DEF ReturnBikePlace
  <2>a. Station(q) \in Stations
    BY <1>0, <1>a, <2>1 DEF AtPlace
  <2>2. DataTypes' /\ UNCHANGED <<approved, paid>> /\ Same
    BY <1>0, <1>8, <1>c, <2>a DEF ReturnBikePlace, DataTypes
  <2>3. AtPlace(q)'
    BY <1>0, <1>b, <2>0, <2>1, <2>2 DEF AtPlace
  <2> QED BY <2>1, <2>2, <2>3, NeutralStep
<1>9. CASE ReturnIncrement(q)
  <2> DEFINE to == IF inventory[Station(q)] + Size(q) > Capacity[Station(q)]
               THEN "crashed" ELSE "inc_read"
  <2>0. to \in Labels
    BY DEF Labels, Outcomes
  <2>1. /\ pc[q] = "increment" /\ pc'[q] = to /\ todo' = todo
        /\ local' = local /\ ControlTypes' /\ OthersWait(q)
    BY <1>0, <1>9, <2>0, MoveControl, Zenon DEF ReturnIncrement
  <2>2. DataTypes' /\ UNCHANGED <<approved, paid>> /\ Same
    BY <1>0, <1>9, <1>c DEF ReturnIncrement, DataTypes
  <2>3. AtPlace(q)'
    BY <1>0, <2>1, <2>2 DEF AtPlace
  <2> QED BY <2>1, <2>2, <2>3, NeutralStep
<1>10. CASE ReturnIncRead(q)
  <2>0. "inc_write" \in Labels
    BY DEF Labels
  <2>1. /\ pc[q] = "inc_read" /\ pc'[q] = "inc_write" /\ todo' = todo
        /\ local'[q] = inventory[Station(q)] /\ ControlTypes' /\ OthersWait(q)
    BY <1>0, <1>10, <2>0, ReadControl, Zenon DEF ReturnIncRead
  <2>a. inventory[Station(q)] \in Int
    BY <1>0, <1>a, <2>1 DEF AtPlace, DataTypes
  <2>2. DataTypes' /\ UNCHANGED <<approved, paid>> /\ Same
    BY <1>0, <1>10, <1>c DEF ReturnIncRead, DataTypes
  <2>3. AtPlace(q)'
    BY <1>0, <2>a, <2>1, <2>2 DEF AtPlace
  <2> QED BY <2>1, <2>2, <2>3, NeutralStep
<1>11. CASE ReturnIncWrite(q)
  <2>0. "ok" \in Labels
    BY DEF Labels, Outcomes
  <2>1. /\ pc[q] = "inc_write" /\ pc'[q] = "ok" /\ todo' = todo
        /\ ControlTypes' /\ OthersWait(q)
    BY <1>0, <1>11, <2>0, UseControl, Zenon DEF ReturnIncWrite
  <2>a. local[q] + Size(q) \in Int
    BY <1>0, <1>a, <2>1, ListParts, LenProperties DEF AtPlace, Size
  <2>2. DataTypes' /\ UNCHANGED <<approved, paid>> /\ Same
    BY <1>0, <1>11, <1>c, <2>a DEF ReturnIncWrite, DataTypes
  <2>3. AtPlace(q)'
    BY <1>0, <2>1, <2>2 DEF AtPlace
  <2> QED BY <2>1, <2>2, <2>3, NeutralStep
<1> QED BY <1>1, <1>2, <1>3, <1>4, <1>5, <1>6, <1>7, <1>8, <1>9, <1>10, <1>11

-----------------------------------------------------------------------------
(* The steps that write a rental *)

\* What a step of q does to the rentals: a confirmed one stays confirmed and gets no active
\* item, and only q's own is stored.
RentalsKeep(q) ==
  \A r \in Requests :
    /\ header[r] \in ConfirmedStatuses =>
         /\ header'[r] \in ConfirmedStatuses
         /\ \A b \in Bicycles : item'[r][b] = "activo" => item[r][b] = "activo"
    /\ r # q /\ header[r] \notin ConfirmedStatuses => header'[r] = header[r]

LEMMA WriteStep ==
  ASSUME IInv, NEW q \in Requests, DataTypes', ControlTypes', OthersWait(q), AtPlace(q)',
         \A p \in Requests \ {q} :
           (p \in approved' <=> p \in approved) /\ (p \in paid' <=> p \in paid),
         RentalsKeep(q), CompleteMeansReturned', (closed \subseteq Stored)'
  PROVE  IInv'
<1>1. None \notin ConfirmedStatuses /\ "fallida" \notin ConfirmedStatuses
  BY BoundsAssumption DEF ConfirmedStatuses, OpenStatuses
<1>2. ASSUME NEW p \in Requests \ {q} PROVE AtPlace(p)'
  <2>1. AtPlace(p) /\ (p \in approved' <=> p \in approved) /\ (p \in paid' <=> p \in paid)
    BY DEF IInv
  <2>2. /\ pc'[p] = pc[p] /\ todo'[p] = todo[p] /\ local'[p] = local[p] /\ order'[p] = order[p]
        /\ Rental(p)' = Rental(p) /\ Bikes(p)' = Bikes(p)
    BY DEF OthersWait, Rental, Bikes, List
  <2>3. /\ header[p] = None => header'[p] = None
        /\ header[p] = "fallida" => header'[p] = "fallida"
        /\ header[p] \in ConfirmedStatuses => header'[p] \in ConfirmedStatuses
    BY <1>1 DEF RentalsKeep
  <2>4. pc[p] \in ReturnLabels =>
          /\ header'[Rental(p)] \in ConfirmedStatuses
          /\ \A b \in Bicycles :
               item'[Rental(p)][b] = "activo" => item[Rental(p)][b] = "activo"
    <3>1. pc[p] \in ReturnLabels => Rental(p) \in Requests
      BY <2>1, OrderParts DEF AtPlace, Rental
    <3> QED BY <2>1, <3>1 DEF AtPlace, RentalsKeep
  <2>5. pc[p] = "derived" => pc[p] \in ReturnLabels
    BY DEF ReturnLabels
  <2> QED BY <2>1, <2>2, <2>3, <2>4, <2>5 DEF AtPlace, Elems
<1> QED BY <1>2 DEF IInv

\* Storing the rental of q.
LEMMA StoreStep ==
  ASSUME IInv, NEW q \in Requests, NEW newStatus \in {"activa", "fallida"},
         NEW from, NEW to \in Labels, Move(q, from, to), UNCHANGED order,
         Store(q, newStatus), UNCHANGED <<bikeVars, inventory, moneyVars>>,
         \/ from = "decline" /\ to = "declined" /\ newStatus = "fallida"
         \/ from = "store" /\ to = "ok" /\ newStatus = "activa"
  PROVE  IInv'
<1>0. DataTypes /\ ControlTypes /\ AtPlace(q)
  BY DEF IInv
<1>1. /\ pc[q] = from /\ pc'[q] = to /\ todo' = todo /\ local' = local
      /\ ControlTypes' /\ OthersWait(q)
  BY <1>0, MoveControl
<1>2. header[q] = None /\ order[q] \in CreateOrder /\ q \notin closed
  <2>1. header[q] = None /\ order[q] \in CreateOrder
    BY <1>0, <1>1 DEF AtPlace, CreateLabels
  <2> QED BY <2>1 DEF IInv, Stored
<1>3. /\ header' = [header EXCEPT ![q] = newStatus] /\ closed' = closed
      /\ \A r \in Requests : r # q => item'[r] = item[r]
  BY <1>0 DEF Store, DataTypes
<1>4. DataTypes'
  BY <1>0 DEF Store, DataTypes, bikeVars, moneyVars, ConfirmedStatuses, OpenStatuses
<1>5. header'[q] = newStatus /\ \A r \in Requests : r # q => header'[r] = header[r]
  BY <1>0, <1>3 DEF DataTypes
<1>6. None \notin ConfirmedStatuses /\ newStatus # None /\ "activa" \in ConfirmedStatuses
  BY BoundsAssumption DEF ConfirmedStatuses, OpenStatuses
<1>7. AtPlace(q)'
  <2>1. approved' = approved /\ paid' = paid /\ order' = order
    BY DEF moneyVars
  <2> QED BY <1>0, <1>1, <1>2, <1>5, <1>6, <2>1
          DEF AtPlace, CreateLabels, ReturnLabels, LoopLabels
<1>8. RentalsKeep(q)
  BY <1>2, <1>3, <1>5, <1>6 DEF RentalsKeep
<1>9. CompleteMeansReturned' /\ (closed \subseteq Stored)'
  <2>1. newStatus # "completada"
    OBVIOUS
  <2>2. \A r \in Requests : r # q => (r \in Stored' <=> r \in Stored)
    BY <1>5 DEF Stored
  <2> QED BY <1>2, <1>3, <1>5, <2>1, <2>2 DEF IInv, CompleteMeansReturned, Stored
<1> QED BY <1>1, <1>4, <1>7, <1>8, <1>9, WriteStep DEF moneyVars

LEMMA CreateWrites ==
  ASSUME IInv, NEW q \in Requests, UNCHANGED order, CreateDecline(q) \/ CreateStore(q)
  PROVE  IInv'
<1>0. {"declined", "ok"} \subseteq Labels
  BY DEF Labels, Outcomes
<1>1. CASE CreateDecline(q)
  BY <1>0, <1>1, StoreStep DEF CreateDecline
<1>2. CASE CreateStore(q)
  BY <1>0, <1>2, StoreStep DEF CreateStore
<1> QED BY <1>1, <1>2

LEMMA ReturnWrites ==
  ASSUME IInv, NEW q \in Requests, UNCHANGED order,
         ReturnMarkWrite(q) \/ ReturnDerived(q) \/ ReturnClose(q)
  PROVE  IInv'
<1>0. DataTypes /\ ControlTypes /\ AtPlace(q) /\ CompleteMeansReturned /\ closed \subseteq Stored
  BY DEF IInv
<1> DEFINE R == Rental(q)
<1>1. /\ pc[q] \in ReturnLabels /\ order[q] \in ReturnOrder /\ R \in Requests
      /\ List(q) \in BikeLists /\ Elems(List(q)) = Bikes(q)
      /\ header[R] \in ConfirmedStatuses
  <2>1. pc[q] \in {"mark_write", "derived", "close"}
    BY DEF ReturnMarkWrite, NextBike, ReturnDerived, Use, ReturnClose, EnterLoop
  <2>2. pc[q] \in ReturnLabels
    BY <2>1 DEF ReturnLabels
  <2> QED BY <1>0, <2>2, OrderParts DEF AtPlace, List, Bikes, Elems, Rental
<1>2. None \notin ConfirmedStatuses /\ None # "activo" /\ "completada" \in ConfirmedStatuses
  BY BoundsAssumption DEF ConfirmedStatuses, OpenStatuses
<1>3. R \in Stored
  BY <1>1, <1>2 DEF Stored
<1>4. UNCHANGED <<approved, paid>> /\ R' = R /\ Bikes(q)' = Bikes(q)
  BY DEF ReturnMarkWrite, ReturnDerived, ReturnClose, moneyVars, Rental, Bikes, List
<1> HIDE DEF R
<1>5. CASE ReturnMarkWrite(q)
  <2>0. /\ todo[q] \in BikeLists /\ Elems(todo[q]) \subseteq Bikes(q)
        /\ {"mark", "derive"} \subseteq Labels
    BY <1>0, <1>5 DEF AtPlace, ReturnMarkWrite, NextBike, LoopLabels, Labels
  <2>1. /\ pc[q] = "mark_write" /\ todo'[q] = Tail(todo[q]) /\ local' = local
        /\ \/ todo'[q] \in BikeLists /\ pc'[q] = "mark"
           \/ todo'[q] = <<>> /\ pc'[q] = "derive"
        /\ ControlTypes' /\ OthersWait(q)
    BY <1>0, <1>5, <2>0, NextBikeControl, Zenon DEF ReturnMarkWrite
  <2>2. Bike(q) \in Bicycles /\ Elems(Tail(todo[q])) \subseteq Elems(todo[q])
    BY <2>0, ListParts DEF Bike
  <2>3. item' = [item EXCEPT ![R][Bike(q)] = "devuelto"] /\ header' = header /\ closed' = closed
    BY <1>5 DEF ReturnMarkWrite, R
  <2>4. DataTypes'
    <3>1. item' \in [Requests -> [Bicycles -> {None, "activo", "devuelto"}]]
      BY <1>0, <1>1, <2>2, <2>3 DEF DataTypes
    <3>2. UNCHANGED <<status, place, inventory, header, closed, approved, paid>>
      BY <1>5 DEF ReturnMarkWrite, bikeVars, moneyVars
    <3> QED BY <1>0, <3>1, <3>2 DEF DataTypes
  <2>5. \A r \in Requests, b \in Bicycles : item'[r][b] = "activo" => item[r][b] = "activo"
    BY <1>0, <1>1, <2>2, <2>3 DEF DataTypes
  <2>6. AtPlace(q)'
    BY <1>0, <1>1, <1>4, <2>0, <2>1, <2>2, <2>3
       DEF AtPlace, CreateLabels, ReturnLabels, LoopLabels, R
  <2>7. RentalsKeep(q) /\ CompleteMeansReturned' /\ (closed \subseteq Stored)'
    BY <1>0, <2>3, <2>5 DEF RentalsKeep, CompleteMeansReturned, Stored
  <2> QED BY <1>4, <2>1, <2>4, <2>6, <2>7, WriteStep
<1>6. CASE ReturnDerived(q)
  <2>0. "close" \in Labels
    BY DEF Labels
  <2>1. /\ pc[q] = "derived" /\ pc'[q] = "close" /\ todo' = todo
        /\ ControlTypes' /\ OthersWait(q)
    BY <1>0, <1>6, <2>0, UseControl, Zenon DEF ReturnDerived
  <2>2. header' = [header EXCEPT ![R] = local[q]] /\ item' = item /\ closed' = closed
    BY <1>6 DEF ReturnDerived, R
  <2>3. /\ local[q] \in ConfirmedStatuses
        /\ local[q] = "completada" => \A b \in Bicycles : item[R][b] # "activo"
    BY <1>0, <2>1 DEF AtPlace, R
  <2>4. /\ header'[R] = local[q]
        /\ \A r \in Requests : r # R => header'[r] = header[r]
    BY <1>0, <1>1, <2>2 DEF DataTypes
  <2>5. DataTypes'
    BY <1>0, <1>4, <1>6, <2>2, <2>3 DEF DataTypes, ReturnDerived, bikeVars
  <2>6. q # R
    BY <1>0, <1>1, <1>2 DEF AtPlace, ReturnLabels
  <2>7. AtPlace(q)'
    BY <1>0, <1>1, <1>4, <2>1, <2>2, <2>3, <2>4, <2>6
       DEF AtPlace, CreateLabels, ReturnLabels, LoopLabels, R
  <2>8. RentalsKeep(q)
    BY <1>1, <2>2, <2>3, <2>4 DEF RentalsKeep
  <2>9. CompleteMeansReturned' /\ (closed \subseteq Stored)'
    <3>1. Stored' = Stored
      BY <1>2, <1>3, <2>3, <2>4 DEF Stored
    <3> QED BY <1>0, <2>2, <2>3, <2>4, <3>1 DEF CompleteMeansReturned
  <2> QED BY <1>4, <2>1, <2>5, <2>7, <2>8, <2>9, WriteStep
<1>7. CASE ReturnClose(q)
  <2>0. "return" \in Labels
    BY DEF Labels
  <2>1. /\ pc[q] = "close" /\ pc'[q] = "return" /\ todo'[q] = List(q) /\ local' = local
        /\ ControlTypes' /\ OthersWait(q)
    BY <1>0, <1>1, <1>7, <2>0, EnterLoopControl, Zenon DEF ReturnClose
  <2>2. /\ header' = header /\ item' = item
        /\ closed' = IF header[R] = "completada" THEN closed \cup {R} ELSE closed
    BY <1>7 DEF ReturnClose, R
  <2>3. DataTypes'
    BY <1>0, <1>1, <1>4, <1>7, <2>2 DEF DataTypes, ReturnClose, bikeVars
  <2>4. AtPlace(q)'
    BY <1>0, <1>1, <1>4, <2>1, <2>2
       DEF AtPlace, CreateLabels, ReturnLabels, LoopLabels, R
  <2>5. RentalsKeep(q) /\ CompleteMeansReturned' /\ (closed \subseteq Stored)'
    BY <1>0, <1>3, <2>2 DEF RentalsKeep, CompleteMeansReturned, Stored
  <2> QED BY <1>4, <2>1, <2>3, <2>4, <2>5, WriteStep
<1> QED BY <1>5, <1>6, <1>7

-----------------------------------------------------------------------------
(* Arrivals *)

LEMMA Arrival ==
  ASSUME IInv, NEW q \in Requests, Arrive(q)
  PROVE  IInv'
<1>0. DataTypes /\ ControlTypes /\ AtPlace(q)
  BY DEF IInv
<1>1. PICK o \in Orders[q] : order' = [order EXCEPT ![q] = o] /\ (CreateScan(q) \/ ReturnLoad(q))
                            /\ (CreateScan(q) => o.kind = "create")
                            /\ (ReturnLoad(q) => o.kind = "return")
  <2>1. CASE CreateScan(q)
    <3>1. PICK o \in Orders[q] : o.kind = "create" /\ order' = [order EXCEPT ![q] = o]
      BY <2>1 DEF CreateScan, Begin
    <3>2. pc' = [pc EXCEPT ![q] = "scan"]
      BY <2>1 DEF CreateScan, Read
    <3>3. ~ReturnLoad(q)
      BY <1>0, <3>2 DEF ReturnLoad, Move, ControlTypes
    <3> QED BY <2>1, <3>1, <3>3
  <2>2. CASE ReturnLoad(q)
    <3>1. PICK o \in Orders[q] : o.kind = "return" /\ order' = [order EXCEPT ![q] = o]
      BY <2>2 DEF ReturnLoad, Begin
    <3>2. pc'[q] \in {"fit", "refused"}
      BY <1>0, <2>2 DEF ReturnLoad, Move, ControlTypes
    <3>3. ~CreateScan(q)
      BY <1>0, <3>2 DEF CreateScan, Read, ControlTypes
    <3> QED BY <2>2, <3>1, <3>3
  <2> QED BY <2>1, <2>2 DEF Arrive
<1>2. order'[q] = o /\ \A p \in Requests \ {q} : order'[p] = order[p]
  BY <1>0, <1>1 DEF ControlTypes
<1>3. o \in CreateOrder \cup ReturnOrder
  BY OrdersAssumption
<1>4. UNCHANGED <<header, item, closed, approved, paid>> /\ DataTypes'
  <2>1. UNCHANGED <<bikeVars, inventory, rentalVars, moneyVars>>
    BY <1>1 DEF CreateScan, ReturnLoad
  <2> QED BY <1>0, <2>1 DEF DataTypes, bikeVars, rentalVars, moneyVars
<1>5. header[q] = None /\ q \notin approved \cup paid /\ pc[q] = "idle"
  <2>1. pc[q] = "idle"
    BY <1>1 DEF CreateScan, ReturnLoad, Begin
  <2> QED BY <1>0, <2>1 DEF AtPlace
<1>6. CASE CreateScan(q)
  <2>1. /\ pc'[q] = "scan" /\ ControlTypes' /\ OthersWait(q)
    <3>1. "scan" \in Labels
      BY DEF Labels
    <3> QED BY <1>0, <1>1, <1>2, <1>6, <3>1 DEF CreateScan, Read, ControlTypes, OthersWait
  <2>2. o \in CreateOrder
    BY <1>1, <1>3, <1>6, OrderParts
  <2>3. AtPlace(q)'
    BY <1>2, <1>4, <1>5, <2>1, <2>2, OrderParts DEF AtPlace, ReturnLabels, LoopLabels
  <2> QED BY <1>4, <2>1, <2>3, NeutralStep DEF rentalVars
<1>7. CASE ReturnLoad(q)
  <2>1. /\ pc'[q] = IF \A b \in Bikes(q)' : Holds(Rental(q)', b) THEN "fit" ELSE "refused"
        /\ ControlTypes' /\ OthersWait(q)
    <3>1. {"fit", "refused"} \subseteq Labels
      BY DEF Labels, Outcomes
    <3> QED BY <1>0, <1>1, <1>2, <1>7, <3>1 DEF ReturnLoad, Move, ControlTypes, OthersWait
  <2>2. o \in ReturnOrder
    BY <1>1, <1>3, <1>7, OrderParts
  <2>3. pc'[q] = "fit" => header[Rental(q)'] \in OpenStatuses
    <3>1. Head(o.bikes) \in Elems(o.bikes)
      BY <2>2, OrderParts, ListParts
    <3>2. Bikes(q)' = Elems(o.bikes)
      BY <1>2 DEF Bikes, List, Elems
    <3> QED BY <2>1, <3>1, <3>2 DEF Holds
  <2>4. pc'[q] = "fit" => (header[Rental(q)] \in ConfirmedStatuses)'
    BY <1>4, <2>3 DEF ConfirmedStatuses
  <2>5. order'[q] \in ReturnOrder /\ order'[q] # None /\ pc'[q] \in {"fit", "refused"}
    BY <1>2, <2>1, <2>2, OrderParts
  <2>6. (header[q] = None /\ q \notin approved \cup paid)'
    BY <1>4, <1>5
  <2>7. AtPlace(q)'
    BY <2>4, <2>5, <2>6 DEF AtPlace, CreateLabels, ReturnLabels, LoopLabels
  <2> QED BY <1>4, <2>1, <2>7, NeutralStep DEF rentalVars
<1> QED BY <1>1, <1>6, <1>7

-----------------------------------------------------------------------------
(* The invariants *)

LEMMA StepHolds == IInv /\ [Next]_vars => IInv'
<1> SUFFICES ASSUME IInv, [Next]_vars PROVE IInv'
  OBVIOUS
<1>1. CASE UNCHANGED vars
  <2>1. UNCHANGED <<status, place, inventory, header, item, closed, approved, paid, order, pc,
                    todo, local>>
    BY <1>1 DEF vars, bikeVars, rentalVars, moneyVars
  <2>2. DataTypes' /\ ControlTypes'
    BY <2>1 DEF IInv, DataTypes, ControlTypes
  <2>3. \A q \in Requests : AtPlace(q)'
    BY <2>1 DEF IInv, AtPlace, Rental, Bikes, List, Elems
  <2>4. CompleteMeansReturned' /\ (closed \subseteq Stored)'
    BY <2>1 DEF IInv, CompleteMeansReturned, Stored
  <2> QED BY <2>2, <2>3, <2>4 DEF IInv
<1>2. ASSUME NEW q \in Requests, Arrive(q) PROVE IInv'
  BY <1>2, Arrival
<1>3. ASSUME NEW q \in Requests, CreateStep(q), UNCHANGED order PROVE IInv'
  BY <1>3, CreateNeutral, CreateWrites DEF CreateStep
<1>4. ASSUME NEW q \in Requests, ReturnStep(q), UNCHANGED order PROVE IInv'
  BY <1>4, ReturnNeutral, ReturnWrites DEF ReturnStep
<1> QED BY <1>1, <1>2, <1>3, <1>4 DEF Next, Step

LEMMA Invariant == Spec => []IInv
<1>1. Init => IInv
  BY InitHolds
<1>2. IInv /\ [Next]_vars => IInv'
  BY StepHolds
<1> QED BY <1>1, <1>2, PTL DEF Spec

\* The entities keep their types whatever the threads do to them: above all, no item, header
\* or bicycle is ever left with a status its enumeration does not have.
THEOREM TypeCorrect == Spec => []TypeOK
<1>1. IInv => TypeOK
  BY Types DEF IInv
<1> QED BY <1>1, Invariant, PTL

\* RN-19 for any number of requests on any number of threads: whatever was interleaved, a
\* rental that is stored as confirmed was charged and has its payment, and a failed one has
\* neither.
THEOREM ActiveRentalsArePaid == Spec => []ActiveRentalPaid
<1>1. IInv => ActiveRentalPaid
  <2> SUFFICES ASSUME IInv, NEW r \in Requests, header[r] # None
               PROVE  IF header[r] = "fallida" THEN r \notin approved \cup paid
                      ELSE r \in approved \cap paid
    BY DEF ActiveRentalPaid, Stored
  <2>1. AtPlace(r) /\ pc[r] \in Labels
    BY DEF IInv, ControlTypes
  <2>2. pc[r] = "declined" \/ pc[r] = "ok"
    BY <2>1 DEF AtPlace, Labels, Outcomes, ReturnLabels
  <2> QED BY <2>1, <2>2 DEF AtPlace, ConfirmedStatuses, OpenStatuses
<1> QED BY <1>1, Invariant, PTL

\* RN-14 for any number of overlapping returns of one rental: it is complete, and closed,
\* only when each of its bicycles has been returned.
THEOREM CompleteRentalsAreReturned == Spec => []CompleteMeansReturned
<1>1. IInv => CompleteMeansReturned
  BY DEF IInv
<1> QED BY <1>1, Invariant, PTL

\* RN-05 for a request that loses a race: a creation that is refused, interrupted or declined
\* leaves no charge and no open rental.
THEOREM LosersPayNothing == Spec => []LosersNotCharged
<1>1. IInv => LosersNotCharged
  BY DEF IInv, AtPlace, LosersNotCharged, Stored
<1> QED BY <1>1, Invariant, PTL

-----------------------------------------------------------------------------
(* No bicycle is lost *)

\* Where a request has bicycles in its hands: in the commit of a creation, and in that of a
\* return until it has released them.
CommitLabels ==
  {"rent", "rent_status", "rent_place", "decrement", "dec_read", "dec_write", "pay", "store",
   "mark", "mark_write", "derive", "derived", "close"}

InHand(q, b) ==
  \/ pc[q] \in CommitLabels /\ b \in Bikes(q)
  \/ pc[q] \in {"return", "return_status"} /\ b \in Elems(todo[q])
  \/ pc[q] = "return_place" /\ b \in Elems(Tail(todo[q]))

\* A rented bicycle is out on a rental or in the hands of a request, unless one crashed.
Accounted ==
  \A b \in Bicycles : status[b] = "rentada" =>
    \/ \E r \in Requests : Holds(r, b)
    \/ \E q \in Requests : InHand(q, b) \/ pc[q] = "crashed"

\* A step of q keeps account of the bicycles if what it rents or takes off a rental is in its
\* hands, and what leaves its hands is released or out on a rental, unless it crashes.
LEMMA AccountStep ==
  ASSUME Accounted, NEW q \in Requests, OthersWait(q), pc[q] # "crashed",
         \A b \in Bicycles : status'[b] = "rentada" => status[b] = "rentada" \/ InHand(q, b)',
         \A b \in Bicycles : \A r \in Requests : Holds(r, b) => Holds(r, b)' \/ InHand(q, b)',
         \A b \in Bicycles : status'[b] = "rentada" /\ InHand(q, b) =>
           InHand(q, b)' \/ pc'[q] = "crashed" \/ \E r \in Requests : Holds(r, b)'
  PROVE  Accounted'
<1> SUFFICES ASSUME NEW b \in Bicycles, status'[b] = "rentada"
             PROVE  \/ \E r \in Requests : Holds(r, b)'
                    \/ \E p \in Requests : InHand(p, b)' \/ pc'[p] = "crashed"
  BY DEF Accounted
<1>1. CASE InHand(q, b)'
  BY <1>1
<1>2. CASE ~InHand(q, b)'
  <2>1. \/ \E r \in Requests : Holds(r, b)
        \/ \E p \in Requests : InHand(p, b) \/ pc[p] = "crashed"
    BY <1>2 DEF Accounted
  <2>2. CASE \E r \in Requests : Holds(r, b)
    BY <1>2, <2>2
  <2>3. ASSUME NEW p \in Requests, InHand(p, b) \/ pc[p] = "crashed"
        PROVE  \/ \E r \in Requests : Holds(r, b)'
               \/ \E x \in Requests : InHand(x, b)' \/ pc'[x] = "crashed"
    <3>1. CASE p = q
      BY <1>2, <2>3, <3>1
    <3>2. CASE p # q
      <4>1. InHand(p, b)' \/ pc'[p] = "crashed"
        BY <2>3, <3>2 DEF OthersWait, InHand, Bikes, List
      <4> QED BY <4>1
    <3> QED BY <3>1, <3>2
  <2> QED BY <2>1, <2>2, <2>3
<1> QED BY <1>1, <1>2

\* A step that neither rents nor touches a confirmed rental, taken without a bicycle in hand
\* or keeping them in its hands.
LEMMA IdleStep ==
  ASSUME Accounted, NEW q \in Requests, OthersWait(q), pc[q] # "crashed",
         UNCHANGED status, \A r \in Requests : \A b \in Bicycles : Holds(r, b) => Holds(r, b)',
         \/ pc[q] \notin CommitLabels \cup {"return", "return_status", "return_place"}
         \/ /\ pc[q] \in CommitLabels /\ pc'[q] \in CommitLabels \cup {"crashed"}
            /\ UNCHANGED order
         \/ \A b \in Bicycles : InHand(q, b) => InHand(q, b)' \/ pc'[q] = "crashed"
  PROVE  Accounted'
<1>1. \A b \in Bicycles : InHand(q, b) => InHand(q, b)' \/ pc'[q] = "crashed"
  BY DEF InHand, Bikes, List, CommitLabels
<1> QED BY <1>1, AccountStep

\* The places an action may leave q at.
LEMMA Waits ==
  ASSUME ControlTypes, NEW q \in Requests, Arrive(q) \/ Step(q)
  PROVE  OthersWait(q) /\ pc[q] # "crashed"
<1> USE DEF ControlTypes, OthersWait, Move, EnterLoop, NextBike, Read, Use
<1>1. CASE CreateScan(q)
  BY <1>1 DEF CreateScan, Begin
<1>2. CASE ReturnLoad(q)
  BY <1>2 DEF ReturnLoad, Begin
<1>3. CASE CreateStep(q) /\ UNCHANGED order
  <2>1. CASE \/ CreateScanned(q) \/ CreateCheck(q) \/ CreateCheckStation(q)
             \/ CreateAuthorize(q) \/ CreateDecline(q)
    BY <1>3, <2>1 DEF CreateScanned, CreateCheck, CreateCheckStation, CreateAuthorize,
                      CreateDecline
  <2>2. CASE \/ CreateRent(q) \/ CreateRentStatus(q) \/ CreateRentPlace(q) \/ CreateDecrement(q)
    BY <1>3, <2>2 DEF CreateRent, CreateRentStatus, CreateRentPlace, CreateDecrement
  <2>3. CASE \/ CreateDecRead(q) \/ CreateDecWrite(q) \/ CreatePay(q) \/ CreateStore(q)
    BY <1>3, <2>3 DEF CreateDecRead, CreateDecWrite, CreatePay, CreateStore
  <2> QED BY <1>3, <2>1, <2>2, <2>3 DEF CreateStep
<1>4. CASE ReturnStep(q) /\ UNCHANGED order
  <2>1. CASE ReturnFit(q) \/ ReturnCheck(q) \/ ReturnApply(q) \/ ReturnMark(q) \/ ReturnMarkWrite(q)
    BY <1>4, <2>1 DEF ReturnFit, ReturnCheck, ReturnApply, ReturnMark, ReturnMarkWrite
  <2>2. CASE ReturnDerive(q) \/ ReturnDerived(q) \/ ReturnClose(q) \/ ReturnBike(q)
    BY <1>4, <2>2 DEF ReturnDerive, ReturnDerived, ReturnClose, ReturnBike
  <2>3. CASE \/ ReturnBikeStatus(q) \/ ReturnBikePlace(q) \/ ReturnIncrement(q)
             \/ ReturnIncRead(q) \/ ReturnIncWrite(q)
    BY <1>4, <2>3 DEF ReturnBikeStatus, ReturnBikePlace, ReturnIncrement, ReturnIncRead,
                      ReturnIncWrite
  <2> QED BY <1>4, <2>1, <2>2, <2>3 DEF ReturnStep
<1> QED BY <1>1, <1>2, <1>3, <1>4 DEF Arrive, Step

\* The steps that leave the rentals and the status of the bicycles as they are.
LEMMA IdleAccounted ==
  ASSUME IInv, Accounted, NEW q \in Requests, OthersWait(q), pc[q] # "crashed",
         \/ Arrive(q)
         \/ /\ UNCHANGED order
            /\ \/ CreateScanned(q) \/ CreateCheck(q) \/ CreateCheckStation(q)
               \/ CreateAuthorize(q) \/ CreateRent(q) \/ CreateRentPlace(q)
               \/ CreateDecrement(q) \/ CreateDecRead(q) \/ CreateDecWrite(q) \/ CreatePay(q)
               \/ ReturnFit(q) \/ ReturnCheck(q) \/ ReturnApply(q) \/ ReturnMark(q)
               \/ ReturnDerive(q) \/ ReturnClose(q) \/ ReturnBike(q) \/ ReturnBikePlace(q)
               \/ ReturnIncrement(q) \/ ReturnIncRead(q) \/ ReturnIncWrite(q)
  PROVE  Accounted'
<1>1. UNCHANGED <<status, header, item>>
  BY DEF Arrive, CreateScan, ReturnLoad, CreateScanned, CreateCheck, CreateCheckStation,
         CreateAuthorize, CreateRent, CreateRentPlace, CreateDecrement, CreateDecRead,
         CreateDecWrite, CreatePay, ReturnFit, ReturnCheck, ReturnApply, ReturnMark, ReturnDerive, ReturnClose, ReturnBike,
         ReturnBikePlace, ReturnIncrement, ReturnIncRead, ReturnIncWrite, bikeVars, rentalVars
<1>2. \A r \in Requests : \A b \in Bicycles : Holds(r, b) => Holds(r, b)'
  BY <1>1 DEF Holds
<1> USE DEF Move, EnterLoop, NextBike, Read, Use, CommitLabels
<1>3. ControlTypes /\ AtPlace(q)
  BY DEF IInv
<1>4. CASE Arrive(q)
  <2>1. pc[q] = "idle"
    BY <1>4 DEF Arrive, CreateScan, ReturnLoad, Begin
  <2> QED BY <1>1, <1>2, <2>1, IdleStep
<1>5. CASE /\ UNCHANGED order
           /\ \/ CreateScanned(q) \/ CreateCheck(q) \/ CreateCheckStation(q) \/ CreateAuthorize(q)
              \/ ReturnFit(q) \/ ReturnCheck(q) \/ ReturnApply(q)
              \/ ReturnIncrement(q) \/ ReturnIncRead(q) \/ ReturnIncWrite(q)
  <2>1. pc[q] \in {"scan", "check", "check_station", "authorize", "fit", "check_rented",
                   "apply", "increment", "inc_read", "inc_write"}
    BY <1>5 DEF CreateScanned, CreateCheck, CreateCheckStation, CreateAuthorize, ReturnFit,
                ReturnCheck, ReturnApply, ReturnIncrement, ReturnIncRead, ReturnIncWrite
  <2> QED BY <1>1, <1>2, <2>1, IdleStep
<1>6. CASE /\ UNCHANGED order
           /\ \/ CreateRent(q) \/ CreateRentPlace(q) \/ CreateDecrement(q) \/ CreateDecRead(q)
              \/ CreateDecWrite(q) \/ CreatePay(q) \/ ReturnMark(q) \/ ReturnDerive(q)
  <2>1. pc[q] \in CommitLabels /\ pc'[q] \in CommitLabels \cup {"crashed"}
    BY <1>3, <1>6 DEF CreateRent, CreateRentPlace, CreateDecrement, CreateDecRead, CreateDecWrite,
                      CreatePay, ReturnMark, ReturnDerive, ControlTypes
  <2> QED BY <1>1, <1>2, <1>6, <2>1, IdleStep
<1>7. CASE UNCHANGED order /\ ReturnClose(q)
  <2>1. pc[q] = "close" /\ pc'[q] = "return" /\ todo'[q] = List(q)
    BY <1>3, <1>7 DEF ReturnClose, ControlTypes
  <2>2. \A b \in Bicycles : InHand(q, b) => InHand(q, b)'
    BY <2>1 DEF InHand, Elems, Bikes
  <2> QED BY <1>1, <1>2, <2>2, IdleStep
<1>8. CASE UNCHANGED order /\ ReturnBike(q)
  <2>1. pc[q] = "return" /\ pc'[q] \in {"return_status", "crashed"} /\ todo' = todo
    BY <1>3, <1>8 DEF ReturnBike, ControlTypes
  <2>2. \A b \in Bicycles : InHand(q, b) => InHand(q, b)' \/ pc'[q] = "crashed"
    BY <2>1 DEF InHand, Elems
  <2> QED BY <1>1, <1>2, <2>2, IdleStep
<1>9. CASE UNCHANGED order /\ ReturnBikePlace(q)
  <2>1. /\ pc[q] = "return_place" /\ todo'[q] = Tail(todo[q])
        /\ pc'[q] = IF Tail(todo[q]) = <<>> THEN "increment" ELSE "return"
    BY <1>3, <1>9 DEF ReturnBikePlace, ControlTypes
  <2>2. Elems(<<>>) = {}
    BY DEF Elems
  <2>3. \A b \in Bicycles : InHand(q, b) => InHand(q, b)'
    BY <2>1, <2>2 DEF InHand, Elems
  <2> QED BY <1>1, <1>2, <2>3, IdleStep
<1> QED BY <1>4, <1>5, <1>6, <1>7, <1>8, <1>9

\* The steps that rent or release a bicycle, or write a rental.
LEMMA BusyAccounted ==
  ASSUME IInv, Accounted, NEW q \in Requests, UNCHANGED order, OthersWait(q), pc[q] # "crashed",
         \/ CreateDecline(q) \/ CreateRentStatus(q) \/ CreateStore(q)
         \/ ReturnMarkWrite(q) \/ ReturnDerived(q) \/ ReturnBikeStatus(q)
  PROVE  Accounted'
<1> USE DEF Move, NextBike, Use, CommitLabels
<1>1. DataTypes /\ ControlTypes /\ AtPlace(q)
  BY DEF IInv
<1>2. Bikes(q)' = Bikes(q) /\ Rental(q)' = Rental(q)
  BY DEF Bikes, List, Rental
<1>3. todo[q] \in BikeLists => /\ Bike(q) \in Elems(todo[q]) /\ Bike(q) \in Bicycles
                              /\ Elems(todo[q]) \subseteq {Bike(q)} \cup Elems(Tail(todo[q]))
  BY ListParts DEF Bike
<1>4. None \notin OpenStatuses
  BY BoundsAssumption DEF OpenStatuses
<1>5. ASSUME CreateDecline(q) \/ CreateStore(q), NEW r \in Requests, NEW b \in Bicycles, Holds(r, b)
      PROVE  Holds(r, b)'
  <2>1. header[q] = None
    BY <1>1, <1>5 DEF CreateDecline, CreateStore, AtPlace
  <2>2. r # q
    BY <1>4, <1>5, <2>1 DEF Holds
  <2> QED BY <1>1, <1>5, <2>2 DEF CreateDecline, CreateStore, Store, Holds, DataTypes
<1>6. CASE CreateDecline(q)
  <2>1. pc[q] = "decline" /\ status' = status
    BY <1>6 DEF CreateDecline, bikeVars
  <2> QED BY <1>5, <1>6, <2>1, IdleStep
<1>7. CASE CreateStore(q)
  <2>1. pc[q] = "store" /\ status' = status
    BY <1>7 DEF CreateStore, bikeVars
  <2>2. /\ header'[q] = "activa"
        /\ \A b \in Bicycles : b \in Bikes(q) => item'[q][b] = "activo"
    BY <1>1, <1>7 DEF CreateStore, Store, DataTypes
  <2>3. \A b \in Bicycles : InHand(q, b) => Holds(q, b)'
    BY <2>1, <2>2 DEF InHand, Holds, OpenStatuses
  <2> QED BY <1>5, <1>7, <2>1, <2>3, AccountStep
<1>8. CASE CreateRentStatus(q)
  <2>1. /\ pc[q] = "rent_status" /\ pc'[q] = "rent_place" /\ header' = header /\ item' = item
        /\ status' = [status EXCEPT ![Bike(q)] = "rentada"]
    BY <1>1, <1>8 DEF CreateRentStatus, rentalVars, ControlTypes
  <2>2. Bike(q) \in Bikes(q)
    BY <1>1, <1>3, <2>1 DEF AtPlace, LoopLabels
  <2>3. \A b \in Bicycles : status'[b] = "rentada" => status[b] = "rentada" \/ InHand(q, b)'
    BY <1>1, <1>2, <2>1, <2>2 DEF DataTypes, InHand
  <2>4. \A b \in Bicycles : InHand(q, b) => InHand(q, b)'
    BY <1>2, <2>1 DEF InHand
  <2>5. \A r \in Requests, b \in Bicycles : Holds(r, b) => Holds(r, b)'
    BY <2>1 DEF Holds
  <2> QED BY <2>3, <2>4, <2>5, AccountStep
<1>9. CASE ReturnMarkWrite(q)
  <2>1. /\ pc[q] = "mark_write" /\ pc'[q] \in {"mark", "derive"} /\ status' = status
        /\ header' = header /\ item' = [item EXCEPT ![Rental(q)][Bike(q)] = "devuelto"]
    BY <1>1, <1>9 DEF ReturnMarkWrite, bikeVars, ControlTypes
  <2>2. Bike(q) \in Bikes(q)
    BY <1>1, <1>3, <2>1 DEF AtPlace, LoopLabels
  <2>3. \A r \in Requests, b \in Bicycles : Holds(r, b) => Holds(r, b)' \/ b = Bike(q)
    BY <1>1, <2>1 DEF Holds, DataTypes
  <2>4. \A b \in Bicycles : b \in Bikes(q) => InHand(q, b)'
    BY <1>2, <2>1 DEF InHand
  <2>5. \A b \in Bicycles : InHand(q, b) => InHand(q, b)'
    BY <2>1, <2>4 DEF InHand
  <2> QED BY <2>1, <2>2, <2>3, <2>4, <2>5, AccountStep
<1>10. CASE ReturnDerived(q)
  <2>1. /\ pc[q] = "derived" /\ pc'[q] = "close" /\ status' = status /\ item' = item
        /\ header' = [header EXCEPT ![Rental(q)] = local[q]]
    BY <1>1, <1>10 DEF ReturnDerived, bikeVars, ControlTypes
  <2>2. ASSUME NEW r \in Requests, NEW b \in Bicycles, Holds(r, b) PROVE Holds(r, b)'
    <3>1. /\ local[q] \in ConfirmedStatuses
          /\ local[q] = "completada" => item[Rental(q)][b] # "activo"
      BY <1>1, <2>1 DEF AtPlace
    <3>2. CASE r # Rental(q)
      BY <1>1, <2>1, <2>2, <3>2 DEF Holds, DataTypes
    <3>3. CASE r = Rental(q)
      <4>1. header'[r] = local[q] /\ item'[r][b] = "activo" /\ local[q] \in OpenStatuses
        BY <1>1, <2>1, <2>2, <3>1, <3>3 DEF Holds, DataTypes, ConfirmedStatuses
      <4> QED BY <4>1 DEF Holds
    <3> QED BY <3>2, <3>3
  <2> QED BY <1>10, <2>1, <2>2, IdleStep
<1>11. CASE ReturnBikeStatus(q)
  <2>1. /\ pc[q] = "return_status" /\ pc'[q] = "return_place" /\ todo' = todo
        /\ header' = header /\ item' = item
        /\ status' = [status EXCEPT ![Bike(q)] = "disponible"]
    BY <1>1, <1>11 DEF ReturnBikeStatus, rentalVars, ControlTypes
  <2>2. todo[q] \in BikeLists
    BY <1>1, <2>1 DEF AtPlace, LoopLabels
  <2>3. \A b \in Bicycles : status'[b] = "rentada" => status[b] = "rentada" /\ b # Bike(q)
    BY <1>1, <2>1 DEF DataTypes
  <2>4. \A b \in Bicycles : status'[b] = "rentada" /\ InHand(q, b) => InHand(q, b)'
    BY <1>3, <2>1, <2>2, <2>3 DEF InHand, Elems
  <2>5. \A r \in Requests, b \in Bicycles : Holds(r, b) => Holds(r, b)'
    BY <2>1 DEF Holds
  <2> QED BY <2>3, <2>4, <2>5, AccountStep
<1> QED BY <1>6, <1>7, <1>8, <1>9, <1>10, <1>11

\* For any number of threads: once every request has been answered and none crashed out of
\* its commit, a bicycle that says it is rented is out on a rental, and can be returned.
THEOREM NoBicycleIsLost == Spec => []NoBicycleLost
<1>1. Init => IInv /\ Accounted
  BY InitHolds DEF Init, Accounted
<1>2. (IInv /\ Accounted) /\ [Next]_vars => (IInv /\ Accounted)'
  <2> SUFFICES ASSUME IInv, Accounted, [Next]_vars PROVE Accounted'
    BY StepHolds
  <2>1. CASE UNCHANGED vars
    BY <2>1 DEF vars, bikeVars, rentalVars, Accounted, Holds, InHand, Elems, Bikes, List
  <2>2. ASSUME NEW q \in Requests, Arrive(q) \/ Step(q) PROVE Accounted'
    <3>1. OthersWait(q) /\ pc[q] # "crashed"
      BY <2>2, Waits DEF IInv
    <3> QED BY <2>2, <3>1, IdleAccounted, BusyAccounted DEF Step, CreateStep, ReturnStep
  <2> QED BY <2>1, <2>2 DEF Next
<1>3. Accounted => NoBicycleLost
  BY DEF Accounted, NoBicycleLost, Quiet, InFlight, Outcomes, InHand, CommitLabels
<1> QED BY <1>1, <1>2, <1>3, PTL DEF Spec

-----------------------------------------------------------------------------
(* One request at a time.  With one thread the accesses of a request follow *)
(* each other undisturbed; the invariant says what each of them finds.      *)

OneAtATime == \A p, r \in Requests : InFlight(p) /\ InFlight(r) => p = r

\* The bicycles available at each station.
Avail ==
  [s \in Stations |-> {b \in Bicycles : status[b] = "disponible" /\ place[b] = s}]

\* The bicycles request q has rented and not stored yet, or taken off a rental and not
\* released yet.
Taken(q) ==
  {b \in Bicycles :
     \/ /\ pc[q] \in {"decrement", "dec_read", "dec_write", "pay", "store",
                      "derive", "derived", "close"}
        /\ b \in Bikes(q)
     \/ /\ pc[q] \in {"rent", "rent_status", "mark", "mark_write"}
        /\ b \in Bikes(q) \ Elems(todo[q])
     \/ pc[q] = "rent_place" /\ b \in Bikes(q) \ Elems(Tail(todo[q]))
     \/ pc[q] \in {"return", "return_status"} /\ b \in Elems(todo[q])
     \/ pc[q] = "return_place" /\ b \in Elems(Tail(todo[q]))}

\* Where the inventory counts bicycles that have left, or not yet those that are back.
Leaving == {"rent", "rent_status", "rent_place", "decrement", "dec_read", "dec_write"}
Coming == {"return", "return_status", "return_place", "increment", "inc_read", "inc_write"}

\* The bicycles the inventory of each station counts.
Counted(q) ==
  [s \in Stations |->
     {b \in Bicycles :
        \/ b \in Avail[s] /\ ~(pc[q] \in Coming /\ b \in Bikes(q))
        \/ pc[q] \in Leaving /\ s = Station(q) /\ b \in Bikes(q)}]

BikesHeld(q) ==
  /\ NoDoubleAssignment
  /\ \A b \in Bicycles :
       /\ status[b] = "rentada" <=> b \in ActiveIds \/ b \in Taken(q)
       /\ b \in Taken(q) => b \notin ActiveIds
       /\ status[b] = "rentada" => place[b] = None \/ (pc[q] = "rent_place" /\ b = Bike(q))

UnitsCounted(q) == \A s \in Stations : inventory[s] = Cardinality(Counted(q)[s])

\* Where the header of a rental is behind its items, or the rental not closed yet.
BehindAt == {"mark", "mark_write", "derive", "derived"}
ClosingAt == BehindAt \cup {"close"}

HeadersTrue(q) ==
  /\ \A r \in Stored : header[r] # "fallida" =>
       /\ header[r] = DeriveStatus(item[r]) \/ (pc[q] \in BehindAt /\ r = Rental(q))
       /\ (r \in closed <=> header[r] = "completada") \/ (pc[q] \in ClosingAt /\ r = Rental(q))
  /\ pc[q] \in BehindAt => header[Rental(q)] \in OpenStatuses
  /\ pc[q] \in ClosingAt => Rental(q) \notin closed

\* What the next steps of a creation will find, ...
CreateAhead(q) ==
  /\ pc[q] \in {"check", "check_station"} => Bikes(q) \ Elems(todo[q]) \subseteq Avail[Station(q)]
  /\ pc[q] = "check_station" => status[Bike(q)] = "disponible"
  /\ pc[q] = "authorize" => Bikes(q) \subseteq Avail[Station(q)]
  /\ pc[q] \in {"rent", "rent_status"} => Elems(todo[q]) \subseteq Avail[Station(q)]
  /\ pc[q] = "rent_place" => Elems(Tail(todo[q])) \subseteq Avail[Station(q)]
  /\ pc[q] = "dec_write" => local[q] = inventory[Station(q)]

\* ... and those of a return.
ReturnAhead(q) ==
  /\ pc[q] \in {"fit", "check_rented", "apply"} => \A b \in Bikes(q) : Holds(Rental(q), b)
  /\ pc[q] \in {"mark", "mark_write"} => \A b \in Elems(todo[q]) : Holds(Rental(q), b)
  /\ pc[q] = "derived" => local[q] = DeriveStatus(item[Rental(q)])
  /\ pc[q] \in {"check_rented", "apply", "return", "return_status", "return_place", "increment"}
                 \cup ClosingAt =>
       inventory[Station(q)] + Size(q) <= Capacity[Station(q)]
  /\ pc[q] \in {"return", "return_status", "return_place"} =>
       Bikes(q) \ Elems(todo[q]) \subseteq Avail[Station(q)]
  /\ pc[q] = "return_place" => status[Bike(q)] = "disponible" /\ place[Bike(q)] = None
  /\ pc[q] \in {"increment", "inc_read", "inc_write"} => Bikes(q) \subseteq Avail[Station(q)]
  /\ pc[q] = "inc_write" => local[q] = inventory[Station(q)]

\* No request crashes, and an approved charge ends with its rental.
EndsWell ==
  \A r \in Requests : pc[r] # "crashed" /\ (pc[r] = "ok" /\ r \in approved => header[r] # None)

Serially(q) ==
  /\ BikesHeld(q) /\ UnitsCounted(q) /\ HeadersTrue(q)
  /\ CreateAhead(q) /\ ReturnAhead(q)

\* The same between two requests.
Settled ==
  /\ NoDoubleAssignment
  /\ \A b \in Bicycles : /\ status[b] = "rentada" <=> b \in ActiveIds
                         /\ status[b] = "rentada" => place[b] = None
  /\ \A s \in Stations : inventory[s] = Cardinality(Avail[s])
  /\ \A r \in Stored : header[r] # "fallida" =>
       /\ header[r] = DeriveStatus(item[r])
       /\ r \in closed <=> header[r] = "completada"

SerialInv ==
  /\ OneAtATime /\ EndsWell
  /\ Quiet => Settled
  /\ \A q \in Requests : InFlight(q) => Serially(q)

\* A list names its bicycles once: the tail has all but the head, and as many as its length.
LEMMA ListOnce ==
  ASSUME NEW list \in BikeLists
  PROVE  /\ Elems(Tail(list)) = Elems(list) \ {Head(list)}
         /\ Head(list) \in Elems(list)
         /\ Elems(list) \in SUBSET Bicycles
         /\ IsFiniteSet(Elems(list)) /\ Cardinality(Elems(list)) = Len(list) /\ Len(list) \in Nat
<1>1. PICK n \in 1 .. Cardinality(Bicycles) : list \in [1 .. n -> Bicycles]
  BY DEF BikeLists
<1>2. n \in Nat \ {0}
  BY <1>1, BoundsAssumption, FS_CardinalityType
<1>3. list \in Seq(Bicycles) /\ Len(list) = n /\ DOMAIN list = 1 .. n /\ Head(list) = list[1]
  BY <1>1, <1>2
<1>4. \A i, j \in 1 .. n : list[i] = list[j] => i = j
  BY <1>3 DEF BikeLists
<1>5. /\ Tail(list) \in Seq(Bicycles) /\ Len(Tail(list)) = n - 1
      /\ \A i \in 1 .. (n - 1) : Tail(list)[i] = list[i + 1]
  BY <1>2, <1>3, EmptySeq, HeadTailProperties
<1>6. DOMAIN Tail(list) = 1 .. (n - 1)
  BY <1>2, <1>5
<1>7. Head(list) \notin Elems(Tail(list))
  <2> SUFFICES ASSUME NEW i \in 1 .. (n - 1), Tail(list)[i] = Head(list) PROVE FALSE
    BY <1>6 DEF Elems
  <2>1. i + 1 \in 1 .. n /\ 1 \in 1 .. n /\ i + 1 # 1 /\ list[i + 1] = list[1]
    BY <1>2, <1>3, <1>5
  <2> QED BY <1>4, <2>1
<1>8. /\ Head(list) \in Elems(list) /\ Elems(Tail(list)) \subseteq Elems(list)
      /\ Elems(list) \subseteq {Head(list)} \cup Elems(Tail(list))
  BY ListParts
<1>9. Elems(list) \in SUBSET Bicycles
  BY <1>1, <1>3 DEF Elems
<1>10. IsFiniteSet(1 .. n) /\ Cardinality(1 .. n) = n
  BY <1>2, FS_Interval
<1>11. list \in Bijection(1 .. n, Elems(list))
  <2>1. list \in [1 .. n -> Elems(list)] /\ \A y \in Elems(list) : \E i \in 1 .. n : list[i] = y
    BY <1>1, <1>3 DEF Elems
  <2> QED BY <1>4, <2>1 DEF Bijection, Injection, Surjection, IsInjective
<1>12. IsFiniteSet(Elems(list)) /\ Cardinality(Elems(list)) = n
  BY <1>10, <1>11, FS_Bijection, Zenon DEF ExistsBijection
<1> QED BY <1>2, <1>3, <1>7, <1>8, <1>9, <1>12

LEMMA NoElems == Elems(<<>>) = {}
BY DEF Elems

\* What a request asks for, once it has arrived.
LEMMA OrderFacts ==
  ASSUME NEW q \in Requests, order[q] \in CreateOrder \cup ReturnOrder
  PROVE  /\ List(q) \in BikeLists /\ Station(q) \in Stations
         /\ Bikes(q) = Elems(List(q)) /\ Bikes(q) \in SUBSET Bicycles
         /\ IsFiniteSet(Bikes(q)) /\ Cardinality(Bikes(q)) = Size(q) /\ Size(q) \in Nat
         /\ order[q] \in ReturnOrder => Rental(q) \in Requests
<1>1. /\ List(q) \in BikeLists /\ Station(q) \in Stations /\ Bikes(q) = Elems(List(q))
      /\ order[q] \in ReturnOrder => Rental(q) \in Requests
  BY OrderParts DEF List, Station, Bikes, Elems, Rental
<1> QED BY <1>1, ListOnce DEF Size

LEMMA AvailFinite ==
  ASSUME NEW s \in Stations
  PROVE  /\ Avail[s] \in SUBSET Bicycles /\ IsFiniteSet(Avail[s])
         /\ Cardinality(Avail[s]) \in Nat
<1>1. Avail[s] \in SUBSET Bicycles
  BY DEF Avail
<1> QED BY <1>1, BoundsAssumption, FS_Subset, FS_CardinalityType

\* The set of requests in flight is empty when a thread is free, if there is one thread.
LEMMA FreeThread ==
  ASSUME Threads = 1, NEW q \in Requests, NEW kind, Begin(q, kind)
  PROVE  Quiet
<1>1. Cardinality({p \in Requests : InFlight(p)}) < 1
  BY DEF Begin
<1>2. IsFiniteSet({p \in Requests : InFlight(p)})
  BY BoundsAssumption, FS_Subset
<1>3. Cardinality({p \in Requests : InFlight(p)}) = 0
  BY <1>1, <1>2, FS_CardinalityType
<1>4. {p \in Requests : InFlight(p)} = {}
  BY <1>2, <1>3, FS_EmptySet
<1> QED BY <1>4 DEF Quiet

\* A request that takes a step is the only one in flight.
LEMMA OnlyOne ==
  ASSUME Threads = 1, ControlTypes, OneAtATime, NEW q \in Requests, Arrive(q) \/ Step(q)
  PROVE  /\ OthersWait(q) /\ OneAtATime'
         /\ \A r \in Requests \ {q} : ~InFlight(r) /\ pc'[r] = pc[r]
         /\ pc[q] = "idle" => Quiet
         /\ pc[q] = "idle" \/ InFlight(q)
<1>1. OthersWait(q) /\ pc[q] # "crashed"
  BY Waits
<1>2. CASE Arrive(q)
  <2>1. Quiet /\ pc[q] = "idle"
    BY <1>2, FreeThread DEF Arrive, CreateScan, ReturnLoad, Begin
  <2> QED BY <1>1, <2>1 DEF Quiet, OthersWait, OneAtATime, InFlight
<1>3. CASE Step(q)
  <2>1. InFlight(q) /\ pc[q] # "idle"
    BY <1>3 DEF Step, CreateStep, CreateScanned, CreateCheck, CreateCheckStation,
           CreateAuthorize, CreateDecline, CreateRent, CreateRentStatus, CreateRentPlace,
           CreateDecrement, CreateDecRead, CreateDecWrite, CreatePay, CreateStore,
           ReturnStep, ReturnFit, ReturnCheck, ReturnApply, ReturnMark, ReturnMarkWrite,
           ReturnDerive, ReturnDerived, ReturnClose, ReturnBike, ReturnBikeStatus,
           ReturnBikePlace, ReturnIncrement, ReturnIncRead, ReturnIncWrite,
           Move, EnterLoop, NextBike, Read, Use, InFlight, Outcomes
  <2> QED BY <1>1, <2>1 DEF OneAtATime, OthersWait, InFlight
<1> QED BY <1>2, <1>3

\* Between requests, what is settled is what a request that is not in flight relies on.
LEMMA RestSettled ==
  ASSUME NEW q \in Requests, ~InFlight(q)
  PROVE  Serially(q) <=> Settled
<1>1. pc[q] \in Outcomes \cup {"idle"}
  BY DEF InFlight
<1>2. /\ Taken(q) = {}
      /\ pc[q] \notin Coming \cup Leaving \cup BehindAt \cup ClosingAt \cup {"rent_place"}
      /\ CreateAhead(q) /\ ReturnAhead(q)
  BY <1>1 DEF Taken, Coming, Leaving, BehindAt, ClosingAt, Outcomes, CreateAhead, ReturnAhead
<1>3. \A s \in Stations : Counted(q)[s] = Avail[s]
  BY <1>2 DEF Counted, Avail
<1> QED BY <1>2, <1>3 DEF Serially, BikesHeld, UnitsCounted, HeadersTrue, Settled

\* The same after a step.
LEMMA RestSettledNext ==
  ASSUME NEW q \in Requests, ~InFlight(q)', Serially(q)'
  PROVE  Settled'
<1>1. pc'[q] \in Outcomes \cup {"idle"}
  BY DEF InFlight
<1>2. /\ Taken(q)' = {}
      /\ pc'[q] \notin Coming \cup Leaving \cup BehindAt \cup ClosingAt \cup {"rent_place"}
  BY <1>1 DEF Taken, Coming, Leaving, BehindAt, ClosingAt, Outcomes
<1>3. \A s \in Stations : Counted(q)'[s] = Avail'[s]
  BY <1>2 DEF Counted, Avail
<1> QED BY <1>2, <1>3 DEF Serially, BikesHeld, UnitsCounted, HeadersTrue, Settled

\* A step of q that leaves bicycles, stations and rentals as they are.
LEMMA SameData ==
  ASSUME NEW q \in Requests, Serially(q), pc[q] # "rent_place",
         UNCHANGED <<status, place, inventory, header, item, closed, order>>,
         UNCHANGED <<Taken(q), Counted(q)>>,
         \/ pc[q] \in BehindAt /\ pc'[q] \in BehindAt
         \/ /\ pc[q] \notin ClosingAt
            /\ pc'[q] \in ClosingAt => Rental(q) \in Requests /\ header[Rental(q)] \in OpenStatuses
  PROVE  BikesHeld(q)' /\ UnitsCounted(q)' /\ HeadersTrue(q)'
<1>1. BikesHeld(q)'
  <2>1. ActiveIds' = ActiveIds
    BY DEF ActiveIds, Holds
  <2>2. NoDoubleAssignment'
    BY DEF Serially, BikesHeld, NoDoubleAssignment, Holds
  <2> QED BY <2>1, <2>2 DEF Serially, BikesHeld
<1>2. UnitsCounted(q)'
  BY DEF Serially, UnitsCounted
<1>3. HeadersTrue(q)'
  <2>1. Rental(q)' = Rental(q) /\ Stored' = Stored
    BY DEF Rental, Stored
  <2>2. HeadersTrue(q)
    BY DEF Serially
  <2>3. CASE pc[q] \in BehindAt /\ pc'[q] \in BehindAt
    BY <2>1, <2>2, <2>3 DEF HeadersTrue, ClosingAt
  <2>4. CASE /\ pc[q] \notin ClosingAt
             /\ pc'[q] \in ClosingAt =>
                  Rental(q) \in Requests /\ header[Rental(q)] \in OpenStatuses
    <3>1. pc[q] \notin BehindAt
      BY <2>4 DEF ClosingAt
    <3>2. pc'[q] \in BehindAt => pc'[q] \in ClosingAt
      BY DEF ClosingAt
    <3>3. pc'[q] \in ClosingAt => Rental(q) \notin closed
      <4> SUFFICES ASSUME pc'[q] \in ClosingAt PROVE Rental(q) \notin closed
        OBVIOUS
      <4>1. /\ Rental(q) \in Stored
            /\ header[Rental(q)] # "fallida" /\ header[Rental(q)] # "completada"
        BY <2>4, BoundsAssumption DEF Stored, OpenStatuses
      <4> QED BY <2>2, <2>4, <3>1, <4>1 DEF HeadersTrue
    <3> QED BY <2>1, <2>2, <2>4, <3>1, <3>2, <3>3 DEF HeadersTrue
  <2> QED BY <2>3, <2>4
<1> QED BY <1>1, <1>2, <1>3

\* What the stations count is the same between places on the same side of the counting.
LEMMA SameCount ==
  ASSUME NEW q \in Requests, UNCHANGED <<status, place, order>>,
         pc'[q] \in Leaving <=> pc[q] \in Leaving, pc'[q] \in Coming <=> pc[q] \in Coming
  PROVE  Counted(q)' = Counted(q)
<1>1. Avail' = Avail /\ Bikes(q)' = Bikes(q) /\ Station(q)' = Station(q)
  BY DEF Avail, Bikes, List, Station
<1> QED BY <1>1 DEF Counted

\* The checks and the charge of a creation.
LEMMA ChecksSerial ==
  ASSUME IInv, NEW q \in Requests, Serially(q), UNCHANGED order,
         CreateScanned(q) \/ CreateCheck(q) \/ CreateCheckStation(q) \/ CreateAuthorize(q)
  PROVE  Serially(q)' /\ pc'[q] \notin {"crashed", "ok"}
<1>0. DataTypes /\ ControlTypes /\ AtPlace(q)
  BY DEF IInv
<1>a. /\ UNCHANGED <<status, place, inventory, header, item, closed>>
      /\ Bikes(q)' = Bikes(q) /\ Station(q)' = Station(q) /\ Avail' = Avail
      /\ pc[q] \in {"scan", "check", "check_station", "authorize"}
  BY DEF CreateScanned, CreateCheck, CreateCheckStation, CreateAuthorize, bikeVars,
         rentalVars, Bikes, List, Station, Avail, EnterLoop, Move
<1>b. /\ List(q) \in BikeLists /\ Station(q) \in Stations /\ Bikes(q) = Elems(List(q))
  BY <1>0, <1>a, OrderFacts DEF AtPlace, CreateLabels
<1> USE DEF Leaving, Coming, ClosingAt, BehindAt
<1>1. ASSUME NEW to \in {"check", "check_station", "authorize", "refused", "interrupted",
                         "decline"},
             pc'[q] = to
      PROVE  BikesHeld(q)' /\ UnitsCounted(q)' /\ HeadersTrue(q)' /\ ReturnAhead(q)'
  <2>1. Taken(q)' = Taken(q)
    BY <1>a, <1>1 DEF Taken
  <2>2. Counted(q)' = Counted(q)
    BY <1>a, <1>1, SameCount
  <2>3. BikesHeld(q)' /\ UnitsCounted(q)' /\ HeadersTrue(q)'
    BY <1>a, <1>1, <2>1, <2>2, SameData
  <2> QED BY <1>1, <2>3 DEF ReturnAhead
<1>2. CASE CreateScanned(q)
  <2>1. pc'[q] \in {"check", "refused", "interrupted"} /\ todo'[q] = List(q)
    BY <1>0, <1>2 DEF CreateScanned, ControlTypes
  <2>2. CreateAhead(q)'
    BY <1>a, <1>b, <2>1 DEF CreateAhead
  <2> QED BY <1>1, <2>1, <2>2 DEF Serially
<1>3. CASE CreateCheck(q)
  <2>1. /\ pc[q] = "check" /\ todo' = todo /\ Bike(q)' = Bike(q)
        /\ pc'[q] = IF status[Bike(q)] = "disponible" THEN "check_station" ELSE "refused"
    BY <1>0, <1>3 DEF CreateCheck, Move, ControlTypes, Bike
  <2>2. CreateAhead(q)'
    BY <1>a, <2>1 DEF Serially, CreateAhead
  <2> QED BY <1>1, <2>1, <2>2 DEF Serially
<1>4. CASE CreateCheckStation(q)
  <2>1. pc[q] = "check_station" /\ todo[q] \in BikeLists
    BY <1>0, <1>4 DEF CreateCheckStation, AtPlace, LoopLabels
  <2>2. CASE pc'[q] = "refused"
    BY <1>1, <2>2 DEF Serially, CreateAhead
  <2>3. CASE place[Bike(q)] = Station(q)
    <3>1. /\ todo'[q] = Tail(todo[q])
          /\ pc'[q] = IF Tail(todo[q]) = <<>> THEN "authorize" ELSE "check"
      BY <1>0, <1>4, <2>3 DEF CreateCheckStation, NextBike, ControlTypes
    <3>2. Bike(q) \in Bicycles /\ Elems(todo[q]) \subseteq {Bike(q)} \cup Elems(Tail(todo[q]))
      BY <2>1, ListParts DEF Bike
    <3>3. Bike(q) \in Avail[Station(q)]
      BY <1>b, <2>1, <2>3, <3>2 DEF Avail, Serially, CreateAhead
    <3>4. Bikes(q) \ Elems(Tail(todo[q])) \subseteq Avail[Station(q)]
      BY <2>1, <3>2, <3>3 DEF Serially, CreateAhead
    <3>5. CreateAhead(q)'
      BY <1>a, <3>1, <3>4, NoElems DEF CreateAhead
    <3> QED BY <1>1, <3>1, <3>5 DEF Serially
  <2>4. CASE place[Bike(q)] # Station(q)
    BY <1>0, <1>4, <2>2, <2>4 DEF CreateCheckStation, Move, ControlTypes
  <2> QED BY <2>3, <2>4
<1>5. CASE CreateAuthorize(q)
  <2>1. /\ pc[q] = "authorize"
        /\ \/ pc'[q] = "rent" /\ todo'[q] = List(q)
           \/ pc'[q] = "decline"
    BY <1>0, <1>5 DEF CreateAuthorize, EnterLoop, Move, ControlTypes
  <2>2. CASE pc'[q] = "decline"
    BY <1>1, <2>2 DEF Serially, CreateAhead
  <2>3. CASE pc'[q] = "rent" /\ todo'[q] = List(q)
    <3>1. Bikes(q) \subseteq Avail[Station(q)]
      BY <2>1 DEF Serially, CreateAhead
    <3>2. Taken(q)' = Taken(q)
      BY <1>a, <1>b, <2>1, <2>3 DEF Taken
    <3>3. Counted(q)' = Counted(q)
      BY <1>a, <2>1, <2>3, <3>1 DEF Counted
    <3>4. BikesHeld(q)' /\ UnitsCounted(q)' /\ HeadersTrue(q)'
      BY <1>a, <2>1, <2>3, <3>2, <3>3, SameData
    <3>5. CreateAhead(q)' /\ ReturnAhead(q)'
      BY <1>a, <1>b, <2>3, <3>1 DEF CreateAhead, ReturnAhead
    <3> QED BY <2>3, <3>4, <3>5 DEF Serially
  <2> QED BY <2>1, <2>2, <2>3
<1> QED BY <1>2, <1>3, <1>4, <1>5

\* A bicycle of a list, and the rest of it.
LEMMA NextOf ==
  ASSUME NEW q \in Requests, todo[q] \in BikeLists
  PROVE  /\ Bike(q) \in Bicycles /\ Bike(q) \in Elems(todo[q])
         /\ Elems(Tail(todo[q])) = Elems(todo[q]) \ {Bike(q)}
BY ListOnce DEF Bike

\* The steps of a creation that rent its bicycles.
LEMMA RentsSerial ==
  ASSUME IInv, NEW q \in Requests, Serially(q), UNCHANGED order,
         CreateRent(q) \/ CreateRentStatus(q) \/ CreateRentPlace(q)
  PROVE  Serially(q)' /\ pc'[q] \notin {"crashed", "ok"}
<1>0. DataTypes /\ ControlTypes /\ AtPlace(q)
  BY DEF IInv
<1>a. /\ UNCHANGED <<inventory, header, item, closed>>
      /\ Bikes(q)' = Bikes(q) /\ Station(q)' = Station(q)
      /\ pc[q] \in {"rent", "rent_status", "rent_place"}
  BY DEF CreateRent, CreateRentStatus, CreateRentPlace, rentalVars, Bikes, List, Station,
         Move, NextBike
<1>b. /\ todo[q] \in BikeLists /\ Elems(todo[q]) \subseteq Bikes(q)
      /\ Station(q) \in Stations /\ Bikes(q) \in SUBSET Bicycles
  BY <1>0, <1>a, OrderFacts DEF AtPlace, CreateLabels, LoopLabels
<1>c. /\ Bike(q) \in Bicycles /\ Bike(q) \in Elems(todo[q])
      /\ Elems(Tail(todo[q])) = Elems(todo[q]) \ {Bike(q)}
  BY <1>b, NextOf
<1>d. ActiveIds' = ActiveIds /\ NoDoubleAssignment'
  BY <1>a DEF ActiveIds, Holds, Serially, BikesHeld, NoDoubleAssignment
<1>e. None \notin Stations
  BY BoundsAssumption
<1>f. ASSUME pc'[q] \in {"rent", "rent_status", "rent_place", "decrement"}
      PROVE  HeadersTrue(q)' /\ ReturnAhead(q)'
  BY <1>a, <1>f DEF Serially, HeadersTrue, ReturnAhead, BehindAt, ClosingAt, Stored
<1> USE DEF Leaving, Coming
<1>1. CASE CreateRent(q)
  <2>1. pc[q] = "rent" /\ todo' = todo /\ status' = status /\ place' = place /\ Avail' = Avail
    BY <1>1 DEF CreateRent, Move, bikeVars, Avail
  <2>2. Bike(q) \in Avail[Station(q)]
    BY <1>c, <2>1 DEF Serially, CreateAhead
  <2>3. pc'[q] = "rent_status"
    BY <1>0, <1>1, <1>b, <2>2 DEF Avail, CreateRent, Move, ControlTypes
  <2>4. Taken(q)' = Taken(q)
    BY <1>a, <2>1, <2>3 DEF Taken
  <2>5. Counted(q)' = Counted(q)
    BY <2>1, <2>3, SameCount
  <2>6. BikesHeld(q)' /\ UnitsCounted(q)' /\ HeadersTrue(q)'
    BY <1>a, <2>1, <2>3, <2>4, <2>5, SameData DEF BehindAt, ClosingAt
  <2>7. CreateAhead(q)'
    BY <1>a, <2>1, <2>3 DEF Serially, CreateAhead
  <2> QED BY <1>f, <2>3, <2>6, <2>7 DEF Serially
<1>2. CASE CreateRentStatus(q)
  <2>1. /\ pc[q] = "rent_status" /\ pc'[q] = "rent_place" /\ todo' = todo /\ place' = place
        /\ status' = [status EXCEPT ![Bike(q)] = "rentada"]
    BY <1>0, <1>2 DEF CreateRentStatus, Move, ControlTypes
  <2>2. Bike(q) \in Avail[Station(q)] /\ Elems(todo[q]) \subseteq Avail[Station(q)]
    BY <1>c, <2>1 DEF Serially, CreateAhead
  <2>3. status[Bike(q)] = "disponible" /\ place[Bike(q)] = Station(q)
    BY <1>b, <2>2 DEF Avail
  <2>4. \A b \in Bicycles : status'[b] = IF b = Bike(q) THEN "rentada" ELSE status[b]
    BY <1>0, <2>1 DEF DataTypes
  <2>5. Taken(q)' = Taken(q) \cup {Bike(q)}
    BY <1>a, <1>b, <1>c, <2>1 DEF Taken
  <2>6. Bike(q)' = Bike(q)
    BY <2>1 DEF Bike
  <2>7. BikesHeld(q)'
    <3>1. Bike(q) \notin ActiveIds
      BY <1>c, <2>3 DEF Serially, BikesHeld
    <3> QED BY <1>d, <2>1, <2>4, <2>5, <2>6, <3>1 DEF Serially, BikesHeld
  <2>8. \A s \in Stations : Avail'[s] = Avail[s] \ {Bike(q)}
    BY <2>1, <2>4 DEF Avail
  <2>9. Counted(q)' = Counted(q)
    <3>1. \A s \in Stations \ {Station(q)} : Bike(q) \notin Avail[s]
      BY <2>3 DEF Avail
    <3> QED BY <1>a, <1>b, <1>c, <2>1, <2>8, <3>1 DEF Counted
  <2>10. UnitsCounted(q)'
    BY <1>a, <2>9 DEF Serially, UnitsCounted
  <2>11. CreateAhead(q)'
    BY <1>a, <1>b, <1>c, <2>1, <2>2, <2>8 DEF CreateAhead
  <2> QED BY <1>f, <2>1, <2>7, <2>10, <2>11 DEF Serially
<1>3. CASE CreateRentPlace(q)
  <2>1. /\ pc[q] = "rent_place" /\ todo'[q] = Tail(todo[q]) /\ status' = status
        /\ pc'[q] = IF Tail(todo[q]) = <<>> THEN "decrement" ELSE "rent"
        /\ place' = [place EXCEPT ![Bike(q)] = None]
    BY <1>0, <1>3 DEF CreateRentPlace, NextBike, ControlTypes
  <2>2. Bike(q) \in Taken(q)
    BY <1>b, <1>c, <2>1 DEF Taken
  <2>3. status[Bike(q)] = "rentada"
    BY <1>c, <2>2 DEF Serially, BikesHeld
  <2>4. \A b \in Bicycles : place'[b] = IF b = Bike(q) THEN None ELSE place[b]
    BY <1>0, <2>1 DEF DataTypes
  <2>5. Taken(q)' = Taken(q)
    BY <1>a, <1>b, <2>1, NoElems DEF Taken
  <2>6. BikesHeld(q)'
    BY <1>d, <2>1, <2>4, <2>5 DEF Serially, BikesHeld
  <2>7. Avail' = Avail
    BY <2>1, <2>3, <2>4 DEF Avail
  <2>8. Counted(q)' = Counted(q)
    BY <1>a, <2>1, <2>7 DEF Counted
  <2>9. UnitsCounted(q)'
    BY <1>a, <2>8 DEF Serially, UnitsCounted
  <2>10. CreateAhead(q)'
    BY <1>a, <2>1, <2>7 DEF Serially, CreateAhead
  <2> QED BY <1>f, <2>1, <2>6, <2>9, <2>10 DEF Serially
<1> QED BY <1>1, <1>2, <1>3

\* The steps of a creation that count them out of the station, and its payment.
LEMMA CountsOutSerial ==
  ASSUME IInv, NEW q \in Requests, Serially(q), UNCHANGED order,
         CreateDecrement(q) \/ CreateDecRead(q) \/ CreateDecWrite(q) \/ CreatePay(q)
  PROVE  Serially(q)' /\ pc'[q] \notin {"crashed", "ok"}
<1>0. DataTypes /\ ControlTypes /\ AtPlace(q)
  BY DEF IInv
<1>a. /\ UNCHANGED <<status, place, header, item, closed>>
      /\ Bikes(q)' = Bikes(q) /\ Station(q)' = Station(q) /\ Avail' = Avail
      /\ pc[q] \in {"decrement", "dec_read", "dec_write", "pay"}
  BY DEF CreateDecrement, CreateDecRead, CreateDecWrite, CreatePay, bikeVars, rentalVars,
         Bikes, List, Station, Avail, Move, Read, Use
<1>b. /\ Station(q) \in Stations /\ Bikes(q) \in SUBSET Bicycles /\ IsFiniteSet(Bikes(q))
      /\ Cardinality(Bikes(q)) = Size(q) /\ Size(q) \in Nat
  BY <1>0, <1>a, OrderFacts DEF AtPlace, CreateLabels
<1>c. /\ IsFiniteSet(Avail[Station(q)]) /\ Cardinality(Avail[Station(q)]) \in Nat
      /\ Avail[Station(q)] \in SUBSET Bicycles
  BY <1>b, AvailFinite
<1>d. Bikes(q) \cap Avail[Station(q)] = {}
  <2>1. Taken(q) = Bikes(q)
    BY <1>a, <1>b DEF Taken
  <2>2. \A b \in Bikes(q) : status[b] = "rentada"
    BY <1>b, <2>1 DEF Serially, BikesHeld
  <2> QED BY <1>b, <2>2 DEF Avail
<1>e. ASSUME pc[q] \in Leaving
      PROVE  inventory[Station(q)] = Cardinality(Avail[Station(q)]) + Size(q)
  <2>1. Counted(q)[Station(q)] = Avail[Station(q)] \cup Bikes(q)
    BY <1>a, <1>b, <1>c, <1>e DEF Counted, Coming, Leaving
  <2>2. Cardinality(Avail[Station(q)] \cup Bikes(q))
          = Cardinality(Avail[Station(q)]) + Cardinality(Bikes(q))
              - Cardinality(Avail[Station(q)] \cap Bikes(q))
    BY <1>b, <1>c, FS_Union
  <2>3. Cardinality(Avail[Station(q)] \cap Bikes(q)) = 0
    BY <1>d, FS_EmptySet
  <2>4. inventory[Station(q)] = Cardinality(Avail[Station(q)] \cup Bikes(q))
    BY <1>b, <2>1 DEF Serially, UnitsCounted
  <2> QED BY <1>b, <1>c, <2>2, <2>3, <2>4
<1>f. ASSUME pc'[q] \in {"dec_read", "dec_write", "pay", "store"}
      PROVE  Taken(q)' = Taken(q) /\ ReturnAhead(q)'
  BY <1>a, <1>f DEF Taken, ReturnAhead, ClosingAt, BehindAt
<1>g. ASSUME inventory' = inventory, pc'[q] \in {"dec_read", "dec_write", "pay", "store"},
             pc'[q] \in Leaving <=> pc[q] \in Leaving
      PROVE  BikesHeld(q)' /\ UnitsCounted(q)' /\ HeadersTrue(q)'
  <2>1. Counted(q)' = Counted(q)
    BY <1>a, <1>g, SameCount DEF Coming
  <2> QED BY <1>a, <1>f, <1>g, <2>1, SameData DEF BehindAt, ClosingAt
<1> USE DEF Leaving
<1>1. CASE CreateDecrement(q)
  <2>1. ~(inventory[Station(q)] < Size(q)) /\ pc[q] = "decrement"
    <3>1. pc[q] = "decrement"
      BY <1>1 DEF CreateDecrement, Move
    <3>2. inventory[Station(q)] = Cardinality(Avail[Station(q)]) + Size(q)
      BY <1>e, <3>1
    <3> QED BY <1>b, <1>c, <3>1, <3>2
  <2>2. pc'[q] = "dec_read" /\ inventory' = inventory
    BY <1>0, <1>1, <2>1 DEF CreateDecrement, Move, ControlTypes
  <2>3. CreateAhead(q)'
    BY <2>2 DEF CreateAhead
  <2> QED BY <1>f, <1>g, <2>1, <2>2, <2>3 DEF Serially
<1>2. CASE CreateDecRead(q)
  <2>1. /\ pc[q] = "dec_read" /\ pc'[q] = "dec_write" /\ inventory' = inventory
        /\ local'[q] = inventory[Station(q)]
    <3>1. ControlTypes /\ local = [r \in Requests |-> local[r]]
      BY <1>0 DEF ControlTypes
    <3> QED BY <1>2, <3>1 DEF CreateDecRead, Read, ControlTypes
  <2>2. CreateAhead(q)'
    BY <1>a, <2>1 DEF CreateAhead
  <2> QED BY <1>f, <1>g, <2>1, <2>2 DEF Serially
<1>3. CASE CreateDecWrite(q)
  <2>1. /\ pc[q] = "dec_write" /\ pc'[q] = "pay"
        /\ inventory' = [inventory EXCEPT ![Station(q)] = local[q] - Size(q)]
    BY <1>0, <1>3 DEF CreateDecWrite, Use, ControlTypes
  <2>2. local[q] = Cardinality(Avail[Station(q)]) + Size(q)
    BY <1>e, <2>1 DEF Serially, CreateAhead
  <2>3. local[q] - Size(q) = Cardinality(Avail[Station(q)])
    BY <1>b, <1>c, <2>2
  <2>4. \A s \in Stations : Counted(q)'[s] = Avail[s]
    BY <1>a, <2>1 DEF Counted, Coming, Avail
  <2>5. \A s \in Stations \ {Station(q)} : Counted(q)[s] = Avail[s]
    BY <2>1 DEF Counted, Coming, Avail
  <2>6. UnitsCounted(q)'
    <3> SUFFICES ASSUME NEW s \in Stations PROVE inventory'[s] = Cardinality(Avail[s])
      BY <2>4 DEF UnitsCounted
    <3>1. CASE s = Station(q)
      BY <1>0, <2>1, <2>3, <3>1 DEF DataTypes
    <3>2. CASE s # Station(q)
      BY <1>0, <2>1, <2>5, <3>2 DEF DataTypes, Serially, UnitsCounted
    <3> QED BY <3>1, <3>2
  <2>7. BikesHeld(q)'
    <3>1. ActiveIds' = ActiveIds /\ NoDoubleAssignment' /\ Taken(q)' = Taken(q)
      BY <1>a, <1>f, <2>1 DEF ActiveIds, Holds, Serially, BikesHeld, NoDoubleAssignment
    <3> QED BY <1>a, <2>1, <3>1 DEF Serially, BikesHeld
  <2>8. HeadersTrue(q)'
    BY <1>a, <2>1 DEF Serially, HeadersTrue, BehindAt, ClosingAt, Stored
  <2>9. CreateAhead(q)'
    BY <2>1 DEF CreateAhead
  <2> QED BY <1>f, <2>1, <2>6, <2>7, <2>8, <2>9 DEF Serially
<1>4. CASE CreatePay(q)
  <2>1. pc[q] = "pay" /\ pc'[q] = "store" /\ inventory' = inventory
    BY <1>0, <1>4 DEF CreatePay, Move, ControlTypes
  <2>2. CreateAhead(q)'
    BY <2>1 DEF CreateAhead
  <2> QED BY <1>f, <1>g, <2>1, <2>2 DEF Serially
<1> QED BY <1>1, <1>2, <1>3, <1>4

\* The steps that store the rental of a creation.
LEMMA StoresSerial ==
  ASSUME IInv, NEW q \in Requests, Serially(q), UNCHANGED order,
         CreateDecline(q) \/ CreateStore(q)
  PROVE  /\ Serially(q)' /\ pc'[q] # "crashed"
         /\ pc'[q] = "ok" => header'[q] = "activa"
<1>0. DataTypes /\ ControlTypes /\ AtPlace(q) /\ closed \subseteq Stored
  BY DEF IInv
<1>a. /\ UNCHANGED <<status, place, inventory, closed>> /\ Avail' = Avail
      /\ Bikes(q)' = Bikes(q) /\ Station(q)' = Station(q)
      /\ pc[q] \in {"decline", "store"}
  BY DEF CreateDecline, CreateStore, Store, bikeVars, Bikes, List, Station, Avail, Move
<1>b. Bikes(q) \in SUBSET Bicycles
  BY <1>0, <1>a, OrderFacts DEF AtPlace, CreateLabels
<1>c. header[q] = None /\ q \notin closed
  BY <1>0, <1>a DEF AtPlace, ReturnLabels, Stored
<1>d. /\ \A r \in Requests \ {q} : header'[r] = header[r] /\ item'[r] = item[r]
      /\ item'[q] = [b \in Bicycles |-> IF b \in Bikes(q) THEN "activo" ELSE None]
  BY <1>0 DEF CreateDecline, CreateStore, Store, DataTypes
<1>e. /\ pc[q] = "decline" => pc'[q] = "declined" /\ header'[q] = "fallida"
      /\ pc[q] = "store" => pc'[q] = "ok" /\ header'[q] = "activa"
  BY <1>0 DEF CreateDecline, CreateStore, Store, Move, DataTypes, ControlTypes
<1>f. None \notin OpenStatuses /\ None # "activo" /\ None # "devuelto" /\ None # "fallida"
  BY BoundsAssumption DEF OpenStatuses
<1>g. \A b \in Bicycles : ~Holds(q, b)
  BY <1>c, <1>f DEF Holds
<1>h. /\ Taken(q) = IF pc[q] = "store" THEN Bikes(q) ELSE {}
      /\ Taken(q)' = {}
      /\ \A s \in Stations : Counted(q)'[s] = Avail[s] /\ Counted(q)[s] = Avail[s]
  BY <1>a, <1>b, <1>e DEF Taken, Counted, Leaving, Coming, Avail
<1>1. UnitsCounted(q)'
  BY <1>a, <1>h DEF Serially, UnitsCounted
<1>2. HeadersTrue(q)'
  <2>1. DeriveStatus(item'[q]) = "activa"
    BY <1>d, <1>f DEF DeriveStatus
  <2>2. HeadersTrue(q) /\ pc[q] \notin ClosingAt /\ pc[q] \notin BehindAt
    BY <1>a DEF Serially, ClosingAt, BehindAt
  <2>3. pc'[q] \notin ClosingAt /\ pc'[q] \notin BehindAt
    BY <1>a, <1>e DEF ClosingAt, BehindAt
  <2>4. ASSUME NEW r \in Requests, header'[r] # None, header'[r] # "fallida"
        PROVE  header'[r] = DeriveStatus(item'[r]) /\ (r \in closed <=> header'[r] = "completada")
    <3>1. CASE r = q
      BY <1>a, <1>c, <1>e, <2>1, <2>4, <3>1
    <3>2. CASE r # q
      BY <1>d, <2>2, <2>4, <3>2 DEF HeadersTrue, Stored
    <3> QED BY <3>1, <3>2
  <2> QED BY <1>a, <2>3, <2>4 DEF HeadersTrue, Stored
<1>3. BikesHeld(q)'
  <2>1. \A r \in Requests \ {q}, b \in Bicycles : Holds(r, b)' <=> Holds(r, b)
    BY <1>d DEF Holds
  <2>2. \A b \in Bicycles : Holds(q, b)' <=> b \in Taken(q)
    <3>1. CASE pc[q] = "store"
      BY <1>d, <1>e, <1>f, <1>h, <3>1 DEF Holds, OpenStatuses
    <3>2. CASE pc[q] = "decline"
      BY <1>e, <1>h, <3>2 DEF Holds, OpenStatuses
    <3> QED BY <1>a, <3>1, <3>2
  <2>3. \A b \in Bicycles : b \in Taken(q) => \A r \in Requests : ~Holds(r, b)
    BY DEF Serially, BikesHeld, ActiveIds
  <2>4. NoDoubleAssignment'
    BY <2>1, <2>2, <2>3 DEF Serially, BikesHeld, NoDoubleAssignment
  <2>5. \A b \in Bicycles : b \in ActiveIds' <=> b \in ActiveIds \/ b \in Taken(q)
    BY <1>g, <2>1, <2>2 DEF ActiveIds
  <2> QED BY <1>a, <1>e, <1>h, <2>4, <2>5 DEF Serially, BikesHeld
<1>4. CreateAhead(q)' /\ ReturnAhead(q)'
  BY <1>a, <1>e DEF CreateAhead, ReturnAhead, ClosingAt, BehindAt
<1> QED BY <1>1, <1>2, <1>3, <1>4, <1>a, <1>e DEF Serially

\* The checks of a return.
LEMMA ReturnChecksSerial ==
  ASSUME IInv, NEW q \in Requests, Serially(q), UNCHANGED order,
         ReturnFit(q) \/ ReturnCheck(q) \/ ReturnApply(q)
  PROVE  Serially(q)' /\ pc'[q] \notin {"crashed", "ok"}
<1>0. DataTypes /\ ControlTypes /\ AtPlace(q)
  BY DEF IInv
<1>a. /\ UNCHANGED <<status, place, inventory, header, item, closed>>
      /\ Bikes(q)' = Bikes(q) /\ Station(q)' = Station(q) /\ Avail' = Avail
      /\ Rental(q)' = Rental(q) /\ Size(q)' = Size(q)
      /\ pc[q] \in {"fit", "check_rented", "apply"}
  BY DEF ReturnFit, ReturnCheck, ReturnApply, bikeVars, rentalVars, Bikes, List, Station, Rental,
         Size, Avail
<1>b. /\ List(q) \in BikeLists /\ Station(q) \in Stations /\ Rental(q) \in Requests
      /\ Bikes(q) = Elems(List(q)) /\ Bikes(q) \in SUBSET Bicycles /\ Size(q) \in Nat
  BY <1>0, <1>a, OrderFacts DEF AtPlace, ReturnLabels
<1>c. inventory[Station(q)] \in Int /\ Capacity[Station(q)] \in Nat
  BY <1>0, <1>b, BoundsAssumption DEF DataTypes
<1> USE DEF ClosingAt, BehindAt
<1>1. ASSUME NEW to \in {"check_rented", "apply", "refused", "mark"}, pc'[q] = to,
             to = "mark" => header[Rental(q)] \in OpenStatuses /\ todo'[q] = List(q)
      PROVE  BikesHeld(q)' /\ UnitsCounted(q)' /\ HeadersTrue(q)' /\ CreateAhead(q)'
  <2>1. Taken(q)' = Taken(q)
    BY <1>a, <1>b, <1>1 DEF Taken
  <2>2. Counted(q)' = Counted(q)
    BY <1>a, <1>1, SameCount DEF Leaving, Coming
  <2>3. BikesHeld(q)' /\ UnitsCounted(q)' /\ HeadersTrue(q)'
    BY <1>a, <1>b, <1>1, <2>1, <2>2, SameData
  <2> QED BY <1>1, <2>3 DEF CreateAhead
<1>2. (\A b \in Bikes(q) : Holds(Rental(q), b)) /\ (\A b \in Bikes(q) : Holds(Rental(q), b))'
  BY <1>a DEF Serially, ReturnAhead, Holds
<1>3. CASE pc'[q] = "refused"
  BY <1>1, <1>3 DEF Serially, ReturnAhead
<1>4. CASE ReturnFit(q)
  <2>1. CASE inventory[Station(q)] + Size(q) > Capacity[Station(q)]
    BY <1>0, <1>3, <1>4, <2>1 DEF ReturnFit, Move, ControlTypes
  <2>2. CASE ~(inventory[Station(q)] + Size(q) > Capacity[Station(q)])
    <3>1. pc'[q] = "check_rented"
      BY <1>0, <1>4, <2>2 DEF ReturnFit, EnterLoop, ControlTypes
    <3>2. inventory[Station(q)] + Size(q) <= Capacity[Station(q)]
      BY <1>b, <1>c, <2>2
    <3>3. ReturnAhead(q)'
      BY <1>2, <1>a, <3>1, <3>2 DEF ReturnAhead
    <3> QED BY <1>1, <3>1, <3>3 DEF Serially
  <2> QED BY <2>1, <2>2
<1>5. CASE ReturnCheck(q)
  <2>1. pc[q] = "check_rented" /\ pc'[q] \in {"check_rented", "apply", "refused"}
    BY <1>0, <1>5 DEF ReturnCheck, Move, NextBike, ControlTypes
  <2>2. CASE pc'[q] \in {"check_rented", "apply"}
    <3>1. ReturnAhead(q)'
      BY <1>2, <1>a, <2>1, <2>2 DEF Serially, ReturnAhead
    <3> QED BY <1>1, <2>2, <3>1 DEF Serially
  <2> QED BY <1>3, <2>1, <2>2
<1>6. CASE ReturnApply(q)
  <2>1. pc[q] = "apply" /\ header[Rental(q)] \in OpenStatuses
    <3>1. pc[q] = "apply"
      BY <1>6 DEF ReturnApply
    <3>2. Head(List(q)) \in Bikes(q)
      BY <1>b, ListOnce
    <3> QED BY <1>2, <3>1, <3>2 DEF Holds
  <2>2. pc'[q] = "mark" /\ todo'[q] = List(q)
    BY <1>0, <1>6, <2>1 DEF ReturnApply, EnterLoop, ControlTypes
  <2>3. ReturnAhead(q)'
    BY <1>2, <1>a, <1>b, <2>1, <2>2 DEF Serially, ReturnAhead
  <2> QED BY <1>1, <2>1, <2>2, <2>3 DEF Serially
<1> QED BY <1>4, <1>5, <1>6

\* The steps of a return that take its bicycles off the rental and derive its header.
LEMMA MarksSerial ==
  ASSUME IInv, NEW q \in Requests, Serially(q), UNCHANGED order,
         ReturnMark(q) \/ ReturnMarkWrite(q) \/ ReturnDerive(q)
  PROVE  Serially(q)' /\ pc'[q] \notin {"crashed", "ok"}
<1>0. DataTypes /\ ControlTypes /\ AtPlace(q)
  BY DEF IInv
<1>a. /\ UNCHANGED <<status, place, inventory, header, closed>>
      /\ Bikes(q)' = Bikes(q) /\ Station(q)' = Station(q) /\ Avail' = Avail
      /\ Rental(q)' = Rental(q) /\ Size(q)' = Size(q)
      /\ pc[q] \in {"mark", "mark_write", "derive"}
  BY DEF ReturnMark, ReturnMarkWrite, ReturnDerive, bikeVars, rentalVars, Bikes, List, Station,
         Rental, Size, Avail, Move, NextBike, Read
<1>b. /\ Rental(q) \in Requests /\ Bikes(q) \in SUBSET Bicycles
      /\ pc[q] \in {"mark", "mark_write"} => /\ todo[q] \in BikeLists
                                             /\ Elems(todo[q]) \subseteq Bikes(q)
  BY <1>0, <1>a, OrderFacts DEF AtPlace, ReturnLabels, LoopLabels
<1>c. ASSUME pc'[q] \in {"mark", "mark_write", "derive", "derived"}
      PROVE  Counted(q)' = Counted(q) /\ CreateAhead(q)'
  BY <1>a, <1>c, SameCount DEF Leaving, Coming, CreateAhead
<1>d. ASSUME pc'[q] \in BehindAt, item' = item, Taken(q)' = Taken(q)
      PROVE  BikesHeld(q)' /\ UnitsCounted(q)' /\ HeadersTrue(q)'
  BY <1>a, <1>c, <1>d, SameData DEF BehindAt
<1>1. CASE ReturnMark(q)
  <2>1. pc[q] = "mark" /\ todo' = todo /\ item' = item
    BY <1>1 DEF ReturnMark, Move, rentalVars
  <2>2. Bike(q) \in Elems(todo[q])
    BY <1>b, <2>1, NextOf
  <2>3. Holds(Rental(q), Bike(q))
    BY <2>1, <2>2 DEF Serially, ReturnAhead
  <2>4. pc'[q] = "mark_write"
    BY <1>0, <1>1, <2>3 DEF ReturnMark, Move, ControlTypes, Holds
  <2>5. Taken(q)' = Taken(q)
    BY <1>a, <2>1, <2>4 DEF Taken
  <2>6. ReturnAhead(q)'
    BY <1>a, <2>1, <2>4 DEF Serially, ReturnAhead, Holds, ClosingAt, BehindAt
  <2> QED BY <1>c, <1>d, <2>1, <2>4, <2>5, <2>6 DEF Serially, BehindAt
<1>2. CASE ReturnMarkWrite(q)
  <2>1. /\ pc[q] = "mark_write" /\ todo'[q] = Tail(todo[q])
        /\ pc'[q] = IF Tail(todo[q]) = <<>> THEN "derive" ELSE "mark"
        /\ item' = [item EXCEPT ![Rental(q)][Bike(q)] = "devuelto"]
    BY <1>0, <1>2 DEF ReturnMarkWrite, NextBike, ControlTypes
  <2>2. /\ Bike(q) \in Bicycles /\ Bike(q) \in Elems(todo[q]) /\ Bike(q) \in Bikes(q)
        /\ Elems(Tail(todo[q])) = Elems(todo[q]) \ {Bike(q)}
    BY <1>b, <2>1, NextOf
  <2>3. \A b \in Elems(todo[q]) : Holds(Rental(q), b)
    BY <2>1 DEF Serially, ReturnAhead
  <2>4. \A r \in Requests, b \in Bicycles :
          item'[r][b] = IF r = Rental(q) /\ b = Bike(q) THEN "devuelto" ELSE item[r][b]
    BY <1>0, <1>b, <2>1, <2>2 DEF DataTypes
  <2>5. \A r \in Requests, b \in Bicycles :
          Holds(r, b)' <=> Holds(r, b) /\ ~(r = Rental(q) /\ b = Bike(q))
    BY <1>a, <2>4 DEF Holds
  <2>6. Taken(q)' = Taken(q) \cup {Bike(q)}
    BY <1>a, <1>b, <2>1, <2>2, NoElems DEF Taken
  <2>7. BikesHeld(q)'
    <3>1. NoDoubleAssignment /\ NoDoubleAssignment'
      BY <2>5 DEF Serially, BikesHeld, NoDoubleAssignment
    <3>2. \A b \in Bicycles : b \in ActiveIds' <=> b \in ActiveIds /\ b # Bike(q)
      BY <1>b, <2>2, <2>3, <2>5, <3>1 DEF ActiveIds, NoDoubleAssignment
    <3>3. Bike(q) \in ActiveIds
      BY <1>b, <2>2, <2>3 DEF ActiveIds
    <3>4. pc'[q] # "rent_place"
      BY <2>1
    <3> QED BY <1>a, <2>1, <2>6, <3>1, <3>2, <3>3, <3>4 DEF Serially, BikesHeld
  <2>8. UnitsCounted(q)'
    BY <1>a, <1>c, <2>1 DEF Serially, UnitsCounted
  <2>9. HeadersTrue(q)'
    <3>1. \A r \in Requests \ {Rental(q)} : item'[r] = item[r]
      BY <1>0, <2>1 DEF DataTypes
    <3>2. pc[q] \in BehindAt /\ pc'[q] \in BehindAt
      BY <2>1 DEF BehindAt
    <3> QED BY <1>a, <3>1, <3>2 DEF Serially, HeadersTrue, Stored, ClosingAt
  <2>10. ReturnAhead(q)'
    <3>1. \A b \in Elems(Tail(todo[q])) :
            header[Rental(q)] \in OpenStatuses /\ item'[Rental(q)][b] = "activo"
      BY <1>b, <2>1, <2>2, <2>3, <2>4 DEF Holds
    <3>2. (\A b \in Elems(todo[q]) : Holds(Rental(q), b))'
      BY <1>a, <2>1, <3>1 DEF Holds
    <3> QED BY <1>a, <2>1, <3>2 DEF Serially, ReturnAhead, ClosingAt, BehindAt
  <2> QED BY <1>c, <2>1, <2>7, <2>8, <2>9, <2>10 DEF Serially
<1>3. CASE ReturnDerive(q)
  <2>1. /\ pc[q] = "derive" /\ pc'[q] = "derived" /\ todo' = todo /\ item' = item
        /\ local'[q] = DeriveStatus(item[Rental(q)])
    BY <1>0, <1>3 DEF ReturnDerive, Read, rentalVars, ControlTypes
  <2>2. Taken(q)' = Taken(q)
    BY <1>a, <2>1 DEF Taken
  <2>3. ReturnAhead(q)'
    BY <1>a, <2>1 DEF Serially, ReturnAhead, ClosingAt, BehindAt
  <2> QED BY <1>c, <1>d, <2>1, <2>2, <2>3 DEF Serially, BehindAt
<1> QED BY <1>1, <1>2, <1>3

\* The steps of a return that write and close the rental.
LEMMA ClosesSerial ==
  ASSUME IInv, NEW q \in Requests, Serially(q), UNCHANGED order,
         ReturnDerived(q) \/ ReturnClose(q)
  PROVE  /\ Serially(q)' /\ pc'[q] \notin {"crashed", "ok"}
         /\ \A r \in Requests : header[r] # None => header'[r] # None
<1>0. DataTypes /\ ControlTypes /\ AtPlace(q)
  BY DEF IInv
<1>a. /\ UNCHANGED <<status, place, inventory, item>>
      /\ Bikes(q)' = Bikes(q) /\ Station(q)' = Station(q) /\ Avail' = Avail
      /\ Rental(q)' = Rental(q) /\ Size(q)' = Size(q)
      /\ pc[q] \in {"derived", "close"}
  BY DEF ReturnDerived, ReturnClose, bikeVars, Bikes, List, Station, Rental, Size, Avail, Use,
         EnterLoop
<1>b. /\ Rental(q) \in Requests /\ Bikes(q) \in SUBSET Bicycles /\ Bikes(q) = Elems(List(q))
  BY <1>0, <1>a, OrderFacts DEF AtPlace, ReturnLabels
<1>c. None \notin ConfirmedStatuses /\ "fallida" \notin ConfirmedStatuses
  BY BoundsAssumption DEF ConfirmedStatuses, OpenStatuses
<1>1. CASE ReturnDerived(q)
  <2>1. /\ pc[q] = "derived" /\ pc'[q] = "close" /\ closed' = closed
        /\ header' = [header EXCEPT ![Rental(q)] = local[q]]
    BY <1>0, <1>1 DEF ReturnDerived, Use, ControlTypes
  <2>2. /\ local[q] \in ConfirmedStatuses /\ local[q] = DeriveStatus(item[Rental(q)])
        /\ local[q] = "completada" => \A b \in Bicycles : item[Rental(q)][b] # "activo"
    BY <1>0, <2>1 DEF AtPlace, Serially, ReturnAhead
  <2>3. header[Rental(q)] \in OpenStatuses /\ Rental(q) \notin closed
    BY <2>1 DEF Serially, HeadersTrue, BehindAt, ClosingAt
  <2>4. /\ header'[Rental(q)] = local[q]
        /\ \A r \in Requests \ {Rental(q)} : header'[r] = header[r]
    BY <1>0, <1>b, <2>1 DEF DataTypes
  <2>5. \A r \in Requests, b \in Bicycles : Holds(r, b)' <=> Holds(r, b)
    BY <1>a, <1>b, <2>2, <2>3, <2>4 DEF Holds, ConfirmedStatuses
  <2>6. BikesHeld(q)'
    <3>1. ActiveIds' = ActiveIds /\ NoDoubleAssignment'
      BY <2>5 DEF ActiveIds, Serially, BikesHeld, NoDoubleAssignment
    <3>2. Taken(q)' = Taken(q)
      BY <1>a, <2>1 DEF Taken
    <3> QED BY <1>a, <2>1, <3>1, <3>2 DEF Serially, BikesHeld
  <2>7. UnitsCounted(q)'
    <3>1. Counted(q)' = Counted(q)
      BY <1>a, <2>1, SameCount DEF Leaving, Coming
    <3> QED BY <1>a, <3>1 DEF Serially, UnitsCounted
  <2>8. HeadersTrue(q)'
    <3>1. pc'[q] \in ClosingAt /\ pc'[q] \notin BehindAt
      BY <2>1 DEF ClosingAt, BehindAt
    <3> QED BY <1>a, <2>1, <2>2, <2>3, <2>4, <3>1 DEF Serially, HeadersTrue, Stored
  <2>9. CreateAhead(q)' /\ ReturnAhead(q)'
    BY <1>a, <2>1 DEF Serially, CreateAhead, ReturnAhead, ClosingAt, BehindAt
  <2> QED BY <1>c, <2>1, <2>2, <2>4, <2>6, <2>7, <2>8, <2>9 DEF Serially
<1>2. CASE ReturnClose(q)
  <2>1. /\ pc[q] = "close" /\ pc'[q] = "return" /\ todo'[q] = List(q) /\ header' = header
        /\ closed' = IF header[Rental(q)] = "completada" THEN closed \cup {Rental(q)} ELSE closed
    BY <1>0, <1>2 DEF ReturnClose, EnterLoop, ControlTypes
  <2>2. Taken(q) = Bikes(q) /\ Taken(q)' = Bikes(q)
    BY <1>a, <1>b, <2>1 DEF Taken
  <2>3. BikesHeld(q)'
    <3>1. ActiveIds' = ActiveIds /\ NoDoubleAssignment'
      BY <1>a, <2>1 DEF ActiveIds, Holds, Serially, BikesHeld, NoDoubleAssignment
    <3> QED BY <1>a, <2>1, <2>2, <3>1 DEF Serially, BikesHeld
  <2>4. \A b \in Bikes(q) : status[b] = "rentada"
    BY <1>b, <2>2 DEF Serially, BikesHeld
  <2>5. Counted(q)' = Counted(q)
    BY <1>a, <2>1, <2>4 DEF Counted, Avail, Leaving, Coming
  <2>6. UnitsCounted(q)'
    BY <1>a, <2>5 DEF Serially, UnitsCounted
  <2>7. HeadersTrue(q)'
    <3>1. pc[q] \notin BehindAt /\ pc[q] \in ClosingAt /\ pc'[q] \notin ClosingAt
          /\ pc'[q] \notin BehindAt
      BY <2>1 DEF ClosingAt, BehindAt
    <3>2. Rental(q) \notin closed
      BY <3>1 DEF Serially, HeadersTrue
    <3> QED BY <1>a, <2>1, <3>1, <3>2 DEF Serially, HeadersTrue, Stored
  <2>8. CreateAhead(q)' /\ ReturnAhead(q)'
    BY <1>a, <1>b, <2>1 DEF Serially, CreateAhead, ReturnAhead, ClosingAt, BehindAt
  <2> QED BY <2>1, <2>3, <2>6, <2>7, <2>8 DEF Serially
<1> QED BY <1>1, <1>2

\* The steps of a return that release its bicycles.
LEMMA ReleasesSerial ==
  ASSUME IInv, NEW q \in Requests, Serially(q), UNCHANGED order,
         ReturnBike(q) \/ ReturnBikeStatus(q) \/ ReturnBikePlace(q)
  PROVE  Serially(q)' /\ pc'[q] \notin {"crashed", "ok"}
<1>0. DataTypes /\ ControlTypes /\ AtPlace(q)
  BY DEF IInv
<1>a. /\ UNCHANGED <<inventory, header, item, closed>>
      /\ Bikes(q)' = Bikes(q) /\ Station(q)' = Station(q)
      /\ Rental(q)' = Rental(q) /\ Size(q)' = Size(q)
      /\ pc[q] \in {"return", "return_status", "return_place"}
  BY DEF ReturnBike, ReturnBikeStatus, ReturnBikePlace, rentalVars, Bikes, List, Station, Rental,
         Size, Move, NextBike
<1>b. /\ todo[q] \in BikeLists /\ Elems(todo[q]) \subseteq Bikes(q)
      /\ Station(q) \in Stations /\ Bikes(q) \in SUBSET Bicycles
  BY <1>0, <1>a, OrderFacts DEF AtPlace, ReturnLabels, LoopLabels
<1>c. /\ Bike(q) \in Bicycles /\ Bike(q) \in Elems(todo[q])
      /\ Elems(Tail(todo[q])) = Elems(todo[q]) \ {Bike(q)}
  BY <1>b, NextOf
<1>d. ActiveIds' = ActiveIds /\ NoDoubleAssignment'
  BY <1>a DEF ActiveIds, Holds, Serially, BikesHeld, NoDoubleAssignment
<1>e. None \notin Stations
  BY BoundsAssumption
<1>f. Bikes(q) \ Elems(todo[q]) \subseteq Avail[Station(q)]
  BY <1>a DEF Serially, ReturnAhead
<1>g. ASSUME pc'[q] \in {"return", "return_status", "return_place", "increment"}
      PROVE  HeadersTrue(q)' /\ CreateAhead(q)'
  BY <1>a, <1>g DEF Serially, HeadersTrue, CreateAhead, BehindAt, ClosingAt, Stored
<1> USE DEF ClosingAt, BehindAt
<1>1. CASE ReturnBike(q)
  <2>1. pc[q] = "return" /\ todo' = todo /\ status' = status /\ place' = place /\ Avail' = Avail
    BY <1>1 DEF ReturnBike, Move, bikeVars, Avail
  <2>2. status[Bike(q)] = "rentada"
    <3>1. Bike(q) \in Taken(q)
      BY <1>c, <2>1 DEF Taken
    <3> QED BY <1>c, <3>1 DEF Serially, BikesHeld
  <2>3. pc'[q] = "return_status"
    BY <1>0, <1>1, <2>2 DEF ReturnBike, Move, ControlTypes
  <2>4. Taken(q)' = Taken(q)
    BY <1>a, <2>1, <2>3 DEF Taken
  <2>5. Counted(q)' = Counted(q)
    BY <2>1, <2>3, SameCount DEF Leaving, Coming
  <2>6. BikesHeld(q)' /\ UnitsCounted(q)'
    BY <1>a, <2>1, <2>3, <2>4, <2>5, SameData
  <2>7. ReturnAhead(q)'
    BY <1>a, <2>1, <2>3 DEF Serially, ReturnAhead
  <2> QED BY <1>g, <2>3, <2>6, <2>7 DEF Serially
<1>2. CASE ReturnBikeStatus(q)
  <2>1. /\ pc[q] = "return_status" /\ pc'[q] = "return_place" /\ todo' = todo /\ place' = place
        /\ status' = [status EXCEPT ![Bike(q)] = "disponible"]
    BY <1>0, <1>2 DEF ReturnBikeStatus, Move, ControlTypes
  <2>2. Bike(q)' = Bike(q)
    BY <2>1 DEF Bike
  <2>3. \A b \in Bicycles : status'[b] = IF b = Bike(q) THEN "disponible" ELSE status[b]
    BY <1>0, <2>1 DEF DataTypes
  <2>4. Bike(q) \in Taken(q)
    BY <1>c, <2>1 DEF Taken
  <2>5. status[Bike(q)] = "rentada" /\ place[Bike(q)] = None /\ Bike(q) \notin ActiveIds
    BY <1>c, <2>1, <2>4 DEF Serially, BikesHeld
  <2>6. Taken(q)' = Taken(q) \ {Bike(q)}
    BY <1>a, <1>c, <2>1 DEF Taken
  <2>7. BikesHeld(q)'
    BY <1>d, <2>1, <2>3, <2>5, <2>6 DEF Serially, BikesHeld
  <2>8. Avail' = Avail
    BY <1>e, <2>1, <2>3, <2>5 DEF Avail
  <2>9. Counted(q)' = Counted(q)
    BY <1>a, <2>1, <2>8 DEF Counted, Leaving, Coming
  <2>10. UnitsCounted(q)'
    BY <1>a, <2>9 DEF Serially, UnitsCounted
  <2>11. ReturnAhead(q)'
    BY <1>a, <1>c, <2>1, <2>2, <2>3, <2>5, <2>8 DEF Serially, ReturnAhead
  <2> QED BY <1>g, <2>1, <2>7, <2>10, <2>11 DEF Serially
<1>3. CASE ReturnBikePlace(q)
  <2>1. /\ pc[q] = "return_place" /\ todo'[q] = Tail(todo[q]) /\ status' = status
        /\ pc'[q] = IF Tail(todo[q]) = <<>> THEN "increment" ELSE "return"
        /\ place' = [place EXCEPT ![Bike(q)] = Station(q)]
    BY <1>0, <1>3 DEF ReturnBikePlace, NextBike, ControlTypes
  <2>2. status[Bike(q)] = "disponible" /\ place[Bike(q)] = None
    BY <2>1 DEF Serially, ReturnAhead
  <2>3. \A b \in Bicycles : place'[b] = IF b = Bike(q) THEN Station(q) ELSE place[b]
    BY <1>0, <2>1 DEF DataTypes
  <2>4. Taken(q)' = Taken(q)
    BY <1>a, <1>b, <2>1, NoElems DEF Taken
  <2>5. BikesHeld(q)'
    BY <1>d, <2>1, <2>2, <2>3, <2>4 DEF Serially, BikesHeld
  <2>6. \A s \in Stations : Avail'[s] = IF s = Station(q) THEN Avail[s] \cup {Bike(q)} ELSE Avail[s]
    BY <1>c, <1>e, <2>1, <2>2, <2>3 DEF Avail
  <2>7. Bike(q) \in Bikes(q)
    BY <1>b, <1>c
  <2>8. Counted(q)' = Counted(q)
    BY <1>a, <1>c, <2>1, <2>6, <2>7 DEF Counted, Leaving, Coming
  <2>9. UnitsCounted(q)'
    BY <1>a, <2>8 DEF Serially, UnitsCounted
  <2>10. Bikes(q) \ Elems(Tail(todo[q])) \subseteq Avail'[Station(q)]
    BY <1>b, <1>c, <1>f, <2>6
  <2>11. inventory[Station(q)] + Size(q) <= Capacity[Station(q)]
    BY <2>1 DEF Serially, ReturnAhead
  <2>12. ReturnAhead(q)'
    BY <1>a, <2>1, <2>10, <2>11, NoElems DEF ReturnAhead
  <2> QED BY <1>g, <2>1, <2>5, <2>9, <2>12 DEF Serially
<1> QED BY <1>1, <1>2, <1>3

\* The steps of a return that count its bicycles back in.
LEMMA CountsInSerial ==
  ASSUME IInv, NEW q \in Requests, Serially(q), UNCHANGED order,
         ReturnIncrement(q) \/ ReturnIncRead(q) \/ ReturnIncWrite(q)
  PROVE  Serially(q)' /\ pc'[q] # "crashed" /\ (pc'[q] = "ok" => q \notin approved')
<1>0. DataTypes /\ ControlTypes /\ AtPlace(q)
  BY DEF IInv
<1>a. /\ UNCHANGED <<status, place, header, item, closed, approved>>
      /\ Bikes(q)' = Bikes(q) /\ Station(q)' = Station(q) /\ Avail' = Avail
      /\ pc[q] \in {"increment", "inc_read", "inc_write"}
  BY DEF ReturnIncrement, ReturnIncRead, ReturnIncWrite, bikeVars, rentalVars, moneyVars,
         Bikes, List, Station, Avail, Move, Read, Use
<1>b. /\ Station(q) \in Stations /\ Bikes(q) \in SUBSET Bicycles /\ IsFiniteSet(Bikes(q))
      /\ Cardinality(Bikes(q)) = Size(q) /\ Size(q) \in Nat /\ q \notin approved
  BY <1>0, <1>a, OrderFacts DEF AtPlace, ReturnLabels
<1>c. /\ IsFiniteSet(Avail[Station(q)]) /\ Cardinality(Avail[Station(q)]) \in Nat
      /\ Bikes(q) \subseteq Avail[Station(q)]
  BY <1>a, <1>b, AvailFinite DEF Serially, ReturnAhead
<1>d. inventory[Station(q)] + Size(q) = Cardinality(Avail[Station(q)])
  <2>1. Counted(q)[Station(q)] = Avail[Station(q)] \ Bikes(q)
    BY <1>a, <1>b DEF Counted, Coming, Leaving, Avail
  <2>2. Cardinality(Avail[Station(q)] \ Bikes(q))
          = Cardinality(Avail[Station(q)]) - Cardinality(Avail[Station(q)] \cap Bikes(q))
    BY <1>c, FS_Difference
  <2>3. Avail[Station(q)] \cap Bikes(q) = Bikes(q)
    BY <1>c
  <2>4. inventory[Station(q)] = Cardinality(Avail[Station(q)] \ Bikes(q))
    BY <1>b, <2>1 DEF Serially, UnitsCounted
  <2>5. Cardinality(Avail[Station(q)] \cap Bikes(q)) = Size(q)
    BY <1>b, <2>3
  <2> QED BY <1>b, <1>c, <2>2, <2>4, <2>5
<1>f. ASSUME pc'[q] \in {"inc_read", "inc_write", "ok"}
      PROVE  Taken(q) = {} /\ Taken(q)' = {} /\ CreateAhead(q)'
  BY <1>a, <1>f DEF Taken, CreateAhead
<1>g. ASSUME inventory' = inventory, pc'[q] \in {"inc_read", "inc_write"}
      PROVE  BikesHeld(q)' /\ UnitsCounted(q)' /\ HeadersTrue(q)'
  <2>1. Counted(q)' = Counted(q)
    BY <1>a, <1>g, SameCount DEF Coming, Leaving
  <2>2. Taken(q)' = Taken(q)
    BY <1>f, <1>g
  <2> QED BY <1>a, <1>g, <2>1, <2>2, SameData DEF BehindAt, ClosingAt
<1>1. CASE ReturnIncrement(q)
  <2>1. pc[q] = "increment" /\ inventory' = inventory
    BY <1>1 DEF ReturnIncrement, Move
  <2>2. inventory[Station(q)] + Size(q) <= Capacity[Station(q)]
    BY <2>1 DEF Serially, ReturnAhead
  <2>3. ~(inventory[Station(q)] + Size(q) > Capacity[Station(q)])
    BY <1>b, <1>c, <1>d, <2>2, BoundsAssumption
  <2>4. pc'[q] = "inc_read"
    BY <1>0, <1>1, <2>3 DEF ReturnIncrement, Move, ControlTypes
  <2>5. ReturnAhead(q)'
    BY <1>a, <1>c, <2>4 DEF ReturnAhead, ClosingAt, BehindAt
  <2> QED BY <1>f, <1>g, <2>1, <2>4, <2>5 DEF Serially
<1>2. CASE ReturnIncRead(q)
  <2>1. /\ pc'[q] = "inc_write" /\ inventory' = inventory /\ local'[q] = inventory[Station(q)]
    <3>1. local = [r \in Requests |-> local[r]]
      BY <1>0 DEF ControlTypes
    <3> QED BY <1>0, <1>2, <3>1 DEF ReturnIncRead, Read, ControlTypes
  <2>2. ReturnAhead(q)'
    BY <1>a, <1>c, <2>1 DEF ReturnAhead, ClosingAt, BehindAt
  <2> QED BY <1>f, <1>g, <2>1, <2>2 DEF Serially
<1>3. CASE ReturnIncWrite(q)
  <2>1. /\ pc[q] = "inc_write" /\ pc'[q] = "ok"
        /\ inventory' = [inventory EXCEPT ![Station(q)] = local[q] + Size(q)]
    BY <1>0, <1>3 DEF ReturnIncWrite, Use, ControlTypes
  <2>2. local[q] + Size(q) = Cardinality(Avail[Station(q)])
    BY <1>d, <2>1 DEF Serially, ReturnAhead
  <2>3. \A s \in Stations : Counted(q)'[s] = Avail[s]
    BY <1>a, <2>1 DEF Counted, Coming, Leaving, Avail
  <2>4. \A s \in Stations \ {Station(q)} : Counted(q)[s] = Avail[s]
    <3>1. \A b \in Bikes(q) : place[b] = Station(q)
      BY <1>b, <1>c DEF Avail
    <3> QED BY <1>a, <2>1, <3>1 DEF Counted, Coming, Leaving, Avail
  <2>5. UnitsCounted(q)'
    <3> SUFFICES ASSUME NEW s \in Stations PROVE inventory'[s] = Cardinality(Avail[s])
      BY <2>3 DEF UnitsCounted
    <3>1. CASE s = Station(q)
      BY <1>0, <2>1, <2>2, <3>1 DEF DataTypes
    <3>2. CASE s # Station(q)
      BY <1>0, <2>1, <2>4, <3>2 DEF DataTypes, Serially, UnitsCounted
    <3> QED BY <3>1, <3>2
  <2>6. BikesHeld(q)'
    <3>1. ActiveIds' = ActiveIds /\ NoDoubleAssignment'
      BY <1>a, <2>1 DEF ActiveIds, Holds, Serially, BikesHeld, NoDoubleAssignment
    <3> QED BY <1>a, <1>f, <2>1, <3>1 DEF Serially, BikesHeld
  <2>7. HeadersTrue(q)'
    BY <1>a, <2>1 DEF Serially, HeadersTrue, BehindAt, ClosingAt, Stored
  <2>8. ReturnAhead(q)'
    BY <2>1 DEF ReturnAhead, BehindAt, ClosingAt
  <2> QED BY <1>a, <1>b, <1>f, <2>1, <2>5, <2>6, <2>7, <2>8 DEF Serially
<1> QED BY <1>1, <1>2, <1>3

\* The arrival of a request, no other being in flight.
LEMMA ArrivalSerial ==
  ASSUME IInv, Settled, NEW q \in Requests, Arrive(q)
  PROVE  Serially(q)' /\ pc'[q] \notin {"crashed", "ok"}
<1>0. DataTypes /\ ControlTypes
  BY DEF IInv
<1>a. /\ UNCHANGED <<status, place, inventory, header, item, closed>> /\ Avail' = Avail
      /\ pc'[q] \in {"scan", "fit", "refused"}
      /\ pc'[q] = "fit" => \A b \in Bikes(q)' : Holds(Rental(q)', b)
  <2>1. CASE CreateScan(q)
    BY <1>0, <2>1 DEF CreateScan, Read, ControlTypes, bikeVars, rentalVars, Avail
  <2>2. CASE ReturnLoad(q)
    BY <1>0, <2>2 DEF ReturnLoad, Move, ControlTypes, bikeVars, rentalVars, Avail
  <2> QED BY <2>1, <2>2 DEF Arrive
<1> USE DEF ClosingAt, BehindAt
<1>1. Taken(q)' = {} /\ \A s \in Stations : Counted(q)'[s] = Avail[s]
  BY <1>a DEF Taken, Counted, Avail, Coming, Leaving
<1>2. BikesHeld(q)'
  <2>1. ActiveIds' = ActiveIds /\ NoDoubleAssignment'
    BY <1>a DEF ActiveIds, Holds, Settled, NoDoubleAssignment
  <2> QED BY <1>a, <1>1, <2>1 DEF Settled, BikesHeld
<1>3. UnitsCounted(q)' /\ HeadersTrue(q)'
  BY <1>a, <1>1 DEF Settled, UnitsCounted, HeadersTrue, Stored
<1>4. CreateAhead(q)'
  BY <1>a DEF CreateAhead
<1>5. ReturnAhead(q)'
  BY <1>a DEF ReturnAhead, Holds
<1> QED BY <1>a, <1>2, <1>3, <1>4, <1>5 DEF Serially

\* A step of the request in flight: it finds what it relies on, and does not crash.
LEMMA StepSerially ==
  ASSUME IInv, NEW q \in Requests, Serially(q), Step(q)
  PROVE  /\ Serially(q)' /\ pc'[q] # "crashed"
         /\ pc'[q] = "ok" /\ q \in approved' => header'[q] # None
<1>1. "activa" # None
  BY BoundsAssumption
<1> QED BY <1>1, ChecksSerial, RentsSerial, CountsOutSerial, StoresSerial, ReturnChecksSerial,
           MarksSerial, ClosesSerial, ReleasesSerial, CountsInSerial
        DEF Step, CreateStep, ReturnStep

\* What a step of q does to the ends of the other requests.
LEMMA StepEnds ==
  ASSUME IInv, NEW q \in Requests, Arrive(q) \/ Step(q)
  PROVE  \A r \in Requests \ {q} : /\ r \in approved' <=> r \in approved
                                   /\ header[r] # None => header'[r] # None
<1>0. DataTypes
  BY DEF IInv
<1>1. CASE Arrive(q)
  BY <1>1 DEF Arrive, CreateScan, ReturnLoad, moneyVars, rentalVars
<1>2. CASE CreateStep(q) /\ UNCHANGED order
  BY <1>0, <1>2 DEF CreateStep, CreateScanned, CreateCheck, CreateCheckStation,
     CreateAuthorize, CreateDecline, CreateRent, CreateRentStatus, CreateRentPlace,
     CreateDecrement, CreateDecRead, CreateDecWrite, CreatePay,
     CreateStore, Store, moneyVars, rentalVars, DataTypes
<1>3. CASE ReturnStep(q) /\ UNCHANGED order
  <2>1. approved' = approved
    BY <1>3 DEF ReturnStep, ReturnFit, ReturnCheck, ReturnApply, ReturnMark, ReturnMarkWrite,
       ReturnDerive, ReturnDerived, ReturnClose, ReturnBike, ReturnBikeStatus, ReturnBikePlace,
       ReturnIncrement, ReturnIncRead, ReturnIncWrite, moneyVars
  <2>2. CASE header' = header
    BY <2>1, <2>2
  <2>3. CASE ReturnDerived(q)
    <3>1. local[q] # None
      BY <2>3, BoundsAssumption DEF IInv, AtPlace, ReturnDerived, Use, ConfirmedStatuses,
                                    OpenStatuses
    <3> QED BY <1>0, <2>1, <2>3, <3>1 DEF ReturnDerived, DataTypes
  <2> QED BY <1>3, <2>2, <2>3 DEF ReturnStep, ReturnFit, ReturnCheck, ReturnApply, ReturnMark,
       ReturnMarkWrite, ReturnDerive, ReturnClose, ReturnBike, ReturnBikeStatus,
       ReturnBikePlace, ReturnIncrement, ReturnIncRead, ReturnIncWrite, rentalVars
<1> QED BY <1>1, <1>2, <1>3 DEF Step

LEMMA SerialInit == Init => SerialInv
<1> SUFFICES ASSUME Init PROVE SerialInv
  OBVIOUS
<1>1. \A q \in Requests : pc[q] = "idle" /\ ~InFlight(q)
  BY DEF Init, InFlight
<1>2. \A r \in Requests, b \in Bicycles : ~Holds(r, b)
  BY BoundsAssumption DEF Init, Holds, OpenStatuses
<1>3. Settled
  <2>1. \A b \in Bicycles : status[b] # "rentada" /\ b \notin ActiveIds
    BY <1>2 DEF Init, ActiveIds
  <2>2. Stored = {} /\ NoDoubleAssignment
    BY <1>2 DEF Init, Stored, NoDoubleAssignment
  <2>3. \A s \in Stations : inventory[s] = Cardinality(Avail[s])
    <3>1. \A s \in Stations : Avail[s] = {b \in Bicycles : place[b] = s}
      BY DEF Init, Avail
    <3> QED BY <3>1 DEF Init
  <2> QED BY <2>1, <2>2, <2>3 DEF Settled
<1> QED BY <1>1, <1>3 DEF SerialInv, OneAtATime, EndsWell

LEMMA SerialNext ==
  ASSUME Threads = 1, IInv, SerialInv, [Next]_vars
  PROVE  SerialInv'
<1>1. CASE UNCHANGED vars
  <2>1. UNCHANGED <<status, place, inventory, header, item, closed, approved, order, pc, todo,
                    local>>
    BY <1>1 DEF vars, bikeVars, rentalVars, moneyVars
  <2>2. OneAtATime' /\ EndsWell' /\ (Quiet' <=> Quiet)
    BY <2>1 DEF SerialInv, OneAtATime, EndsWell, Quiet, InFlight
  <2>3. Avail' = Avail /\ ActiveIds' = ActiveIds /\ (NoDoubleAssignment' <=> NoDoubleAssignment)
    BY <2>1 DEF Avail, ActiveIds, Holds, NoDoubleAssignment
  <2>4. Settled' <=> Settled
    BY <2>1, <2>3 DEF Settled, Stored
  <2>5. ASSUME NEW q \in Requests, InFlight(q)' PROVE Serially(q)'
    <3>1. Serially(q)
      BY <2>1, <2>5 DEF SerialInv, InFlight
    <3>2. /\ Bikes(q)' = Bikes(q) /\ Station(q)' = Station(q) /\ Rental(q)' = Rental(q)
          /\ Size(q)' = Size(q) /\ Bike(q)' = Bike(q)
      BY <2>1 DEF Bikes, List, Station, Rental, Size, Bike
    <3>3. Taken(q)' = Taken(q) /\ Counted(q)' = Counted(q)
      BY <2>1, <2>3, <3>2 DEF Taken, Counted
    <3>4. BikesHeld(q)' /\ UnitsCounted(q)' /\ HeadersTrue(q)'
      BY <2>1, <2>3, <3>1, <3>2, <3>3 DEF Serially, BikesHeld, UnitsCounted, HeadersTrue, Stored
    <3>5. CreateAhead(q)' /\ ReturnAhead(q)'
      BY <2>1, <2>3, <3>1, <3>2 DEF Serially, CreateAhead, ReturnAhead, Holds
    <3> QED BY <3>4, <3>5 DEF Serially
  <2> QED BY <2>2, <2>4, <2>5 DEF SerialInv
<1>2. ASSUME NEW q \in Requests, Arrive(q) \/ Step(q) PROVE SerialInv'
  <2>1. /\ OthersWait(q) /\ OneAtATime'
        /\ \A r \in Requests \ {q} : ~InFlight(r) /\ pc'[r] = pc[r]
        /\ pc[q] = "idle" => Quiet
        /\ pc[q] = "idle" \/ InFlight(q)
    BY <1>2, OnlyOne DEF IInv, SerialInv
  <2>2. /\ Serially(q)' /\ pc'[q] # "crashed"
        /\ pc'[q] = "ok" /\ q \in approved' => header'[q] # None
    <3>1. CASE Arrive(q)
      <4>1. pc[q] = "idle"
        BY <3>1 DEF Arrive, CreateScan, ReturnLoad, Begin
      <4>2. Settled
        BY <2>1, <4>1 DEF SerialInv
      <4> QED BY <3>1, <4>2, ArrivalSerial
    <3>2. CASE Step(q)
      <4>1. Serially(q)
        <5>1. CASE InFlight(q)
          BY <5>1 DEF SerialInv
        <5>2. CASE ~InFlight(q)
          BY <2>1, <5>2, RestSettled DEF SerialInv
        <5> QED BY <5>1, <5>2
      <4> QED BY <3>2, <4>1, StepSerially
    <3> QED BY <1>2, <3>1, <3>2
  <2>3. EndsWell'
    BY <1>2, <2>1, <2>2, StepEnds DEF SerialInv, EndsWell
  <2>4. \A r \in Requests \ {q} : ~InFlight(r)'
    BY <2>1 DEF InFlight
  <2>5. Quiet' => Settled'
    BY <2>2, RestSettledNext DEF Quiet
  <2>6. \A r \in Requests : InFlight(r)' => Serially(r)'
    <3> SUFFICES ASSUME NEW r \in Requests, InFlight(r)' PROVE Serially(r)'
      OBVIOUS
    <3>1. r = q
      BY <2>4
    <3> QED BY <2>2, <3>1
  <2> QED BY <2>1, <2>3, <2>5, <2>6 DEF SerialInv
<1> QED BY <1>1, <1>2 DEF Next

LEMMA SerialInvariant ==
  ASSUME Threads = 1
  PROVE  Spec => [](IInv /\ SerialInv)
<1>1. Init => IInv /\ SerialInv
  BY InitHolds, SerialInit
<1>2. (IInv /\ SerialInv) /\ [Next]_vars => (IInv /\ SerialInv)'
  BY StepHolds, SerialNext
<1> QED BY <1>1, <1>2, PTL DEF Spec

\* RN-06, NFR-02, handling one request at a time: no bicycle is out on two rentals, at any
\* access of any request.
THEOREM NeverDoublyAssigned ==
  ASSUME Threads = 1
  PROVE  Spec => []NoDoubleAssignment
<1>1. SerialInv => NoDoubleAssignment
  BY DEF SerialInv, Quiet, Settled, Serially, BikesHeld
<1> QED BY <1>1, SerialInvariant, PTL

\* RN-01, handling one request at a time: the split decrement and increment lose no unit, and
\* between requests the inventory of a station is the number of bicycles available there.
THEOREM InventoryCorrect ==
  ASSUME Threads = 1
  PROVE  Spec => []InventoryCounts
<1>1. SerialInv => InventoryCounts
  BY DEF SerialInv, Settled, Avail, InventoryCounts
<1> QED BY <1>1, SerialInvariant, PTL

\* Handling one request at a time, the commit of a creation cannot raise: an approved charge
\* ends with its rental and its payment stored.
THEOREM ChargedAlwaysRented ==
  ASSUME Threads = 1
  PROVE  Spec => []ChargedMeansRented
<1>1. IInv /\ SerialInv => ChargedMeansRented
  <2> SUFFICES ASSUME IInv, SerialInv, NEW q \in Requests, q \in approved, ~InFlight(q)
               PROVE  q \in Stored /\ q \in paid
    BY DEF ChargedMeansRented
  <2>1. AtPlace(q)
    BY DEF IInv
  <2>2. pc[q] = "ok" /\ header[q] # None
    BY <2>1 DEF SerialInv, EndsWell, InFlight, Outcomes, AtPlace
  <2> QED BY <2>1, <2>2 DEF AtPlace, Stored
<1> QED BY <1>1, SerialInvariant, PTL

\* ADR-0004, handling one request at a time: between requests the header of a confirmed rental
\* is what its items derive, and the rental is closed exactly when it is complete.
THEOREM HeadersAlwaysDerived ==
  ASSUME Threads = 1
  PROVE  Spec => []HeaderDerived
<1>1. SerialInv => HeaderDerived
  BY DEF SerialInv, Settled, HeaderDerived
<1> QED BY <1>1, SerialInvariant, PTL

\* "active item <=> RENTADA bicycle" (return_bicycles.py), between requests that are handled
\* one at a time.
THEOREM HeldExactlyWhenRented ==
  ASSUME Threads = 1
  PROVE  Spec => []HeldIffRented
<1>1. SerialInv => HeldIffRented
  BY DEF SerialInv, Settled, ActiveIds, HeldIffRented
<1> QED BY <1>1, SerialInvariant, PTL

-----------------------------------------------------------------------------
(* The refinement of BikeAllocation *)

Held == [r \in Requests |-> {b \in Bicycles : Holds(r, b)}]

\* The step that stores a confirmed rental is Rent of the promise.
LEMMA StoreRents ==
  ASSUME IInv, SerialInv, NEW q \in Requests, CreateStore(q), UNCHANGED order
  PROVE  \E bikes \in SUBSET Bicycles : Allocation!Rent(q, bikes)
<1>0. DataTypes /\ AtPlace(q)
  BY DEF IInv
<1>1. pc[q] = "store" /\ paid' = paid
  BY DEF CreateStore, Move, moneyVars
<1>2. Serially(q)
  BY <1>1 DEF SerialInv, InFlight, Outcomes
<1>3. header[q] = None /\ q \in paid /\ List(q) \in BikeLists /\ Bikes(q) \in SUBSET Bicycles
      /\ Bikes(q) = Elems(List(q))
  BY <1>0, <1>1, OrderFacts DEF AtPlace, CreateLabels
<1>4. Bikes(q) # {}
  BY <1>3, ListOnce
<1>5. /\ header' = [header EXCEPT ![q] = "activa"]
      /\ item' = [item EXCEPT ![q] = [b \in Bicycles |-> IF b \in Bikes(q) THEN "activo" ELSE None]]
  BY DEF CreateStore, Store
<1>6. "activa" # None /\ None # "activo" /\ None \notin OpenStatuses
  BY BoundsAssumption DEF OpenStatuses
<1>7. Bikes(q) \cap Allocation!Taken = {}
  <2>1. Taken(q) = Bikes(q)
    BY <1>1, <1>3 DEF Taken
  <2>2. \A b \in Bikes(q) : b \notin ActiveIds
    BY <1>2, <1>3, <2>1 DEF Serially, BikesHeld
  <2> QED BY <2>2 DEF Allocation!Taken, ActiveIds
<1>8. Held' = [Held EXCEPT ![q] = Bikes(q)]
  <2>1. \A b \in Bicycles : Holds(q, b)' <=> b \in Bikes(q)
    BY <1>0, <1>5, <1>6 DEF Holds, DataTypes, OpenStatuses
  <2>2. \A r \in Requests \ {q}, b \in Bicycles : Holds(r, b)' <=> Holds(r, b)
    BY <1>0, <1>5 DEF Holds, DataTypes
  <2> QED BY <1>3, <2>1, <2>2 DEF Held
<1>9. (Stored \cap paid)' = (Stored \cap paid) \cup {q} /\ q \notin Stored \cap paid
  BY <1>0, <1>1, <1>3, <1>5, <1>6 DEF Stored, DataTypes
<1> QED BY <1>3, <1>4, <1>7, <1>8, <1>9 DEF Allocation!Rent, Held

\* The step that marks an item returned is GiveBack of its bicycle.
LEMMA MarkGivesBack ==
  ASSUME IInv, SerialInv, NEW q \in Requests, ReturnMarkWrite(q), UNCHANGED order
  PROVE  \E r \in Requests, bikes \in SUBSET Bicycles : Allocation!GiveBack(r, bikes)
<1>0. DataTypes /\ AtPlace(q)
  BY DEF IInv
<1>1. /\ pc[q] = "mark_write" /\ paid' = paid /\ header' = header
      /\ item' = [item EXCEPT ![Rental(q)][Bike(q)] = "devuelto"]
  BY DEF ReturnMarkWrite, NextBike, moneyVars
<1>2. Serially(q)
  BY <1>1 DEF SerialInv, InFlight, Outcomes
<1>3. Rental(q) \in Requests /\ Bike(q) \in Bicycles /\ Bike(q) \in Elems(todo[q])
  BY <1>0, <1>1, OrderFacts, NextOf DEF AtPlace, ReturnLabels, LoopLabels
<1>4. Holds(Rental(q), Bike(q))
  BY <1>1, <1>2, <1>3 DEF Serially, ReturnAhead
<1>5. \A r \in Requests, b \in Bicycles :
        Holds(r, b)' <=> Holds(r, b) /\ ~(r = Rental(q) /\ b = Bike(q))
  <2>1. \A r \in Requests, b \in Bicycles :
          item'[r][b] = IF r = Rental(q) /\ b = Bike(q) THEN "devuelto" ELSE item[r][b]
    BY <1>0, <1>1, <1>3 DEF DataTypes
  <2> QED BY <1>1, <2>1 DEF Holds
<1>6. Held' = [Held EXCEPT ![Rental(q)] = @ \ {Bike(q)}]
  BY <1>3, <1>5 DEF Held
<1>7. (Stored \cap paid)' = Stored \cap paid
  BY <1>1 DEF Stored
<1>8. {Bike(q)} \in SUBSET Bicycles /\ {Bike(q)} # {} /\ {Bike(q)} \subseteq Held[Rental(q)]
  BY <1>3, <1>4 DEF Held
<1>9. Allocation!GiveBack(Rental(q), {Bike(q)})
  BY <1>6, <1>7, <1>8 DEF Allocation!GiveBack, Held
<1> QED BY <1>3, <1>8, <1>9

\* A step that changes neither which bicycles are held nor which rentals are charged.
LEMMA SameAllocation ==
  ASSUME \A r \in Requests, b \in Bicycles : Holds(r, b)' <=> Holds(r, b),
         \A r \in Requests : (r \in Stored \cap paid)' <=> r \in Stored \cap paid
  PROVE  UNCHANGED Allocation!vars
<1>1. Held' = Held
  BY DEF Held
<1>2. (Stored \cap paid)' = Stored \cap paid
  BY DEF Stored
<1> QED BY <1>1, <1>2 DEF Allocation!vars, Held

\* All the other steps are invisible to the promise.
LEMMA OthersStutter ==
  ASSUME IInv, SerialInv, NEW q \in Requests, Arrive(q) \/ Step(q),
         ~CreateStore(q), ~ReturnMarkWrite(q)
  PROVE  UNCHANGED Allocation!vars
<1>0. DataTypes /\ AtPlace(q)
  BY DEF IInv
<1>a. None \notin OpenStatuses /\ None # "fallida" /\ "fallida" \notin OpenStatuses
  BY BoundsAssumption DEF OpenStatuses
<1>1. ASSUME UNCHANGED <<header, item, paid>> PROVE UNCHANGED Allocation!vars
  BY <1>1, SameAllocation DEF Holds, Stored
<1>2. CASE CreatePay(q)
  <2>1. header[q] = None /\ header' = header /\ item' = item /\ paid' = paid \cup {q}
    BY <1>0, <1>2 DEF CreatePay, Move, AtPlace, rentalVars
  <2> QED BY <2>1, SameAllocation DEF Holds, Stored
<1>3. CASE CreateDecline(q)
  <2>1. /\ header[q] = None /\ q \notin paid /\ paid' = paid
        /\ header' = [header EXCEPT ![q] = "fallida"]
        /\ \A r \in Requests \ {q} : item'[r] = item[r]
    BY <1>0, <1>3 DEF CreateDecline, Store, Move, AtPlace, moneyVars, DataTypes
  <2> QED BY <1>0, <1>a, <2>1, SameAllocation DEF Holds, Stored, DataTypes
<1>4. CASE ReturnDerived(q) /\ UNCHANGED order
  <2>1. /\ pc[q] = "derived" /\ paid' = paid /\ item' = item
        /\ header' = [header EXCEPT ![Rental(q)] = local[q]]
    BY <1>4 DEF ReturnDerived, Use, moneyVars
  <2>2. /\ local[q] \in ConfirmedStatuses /\ Rental(q) \in Requests
        /\ local[q] = "completada" => \A b \in Bicycles : item[Rental(q)][b] # "activo"
    BY <1>0, <2>1, OrderFacts DEF AtPlace, ReturnLabels
  <2>3. header[Rental(q)] \in OpenStatuses
    BY <2>1 DEF SerialInv, InFlight, Outcomes, Serially, HeadersTrue, BehindAt
  <2>4. local[q] # None
    BY <2>2, BoundsAssumption DEF ConfirmedStatuses, OpenStatuses
  <2>5. \A r \in Requests, b \in Bicycles : Holds(r, b)' <=> Holds(r, b)
    BY <1>0, <2>1, <2>2, <2>3 DEF Holds, DataTypes, ConfirmedStatuses
  <2>6. \A r \in Requests : header'[r] # None <=> header[r] # None
    BY <1>0, <1>a, <2>1, <2>2, <2>3, <2>4 DEF DataTypes
  <2> QED BY <2>1, <2>5, <2>6, SameAllocation DEF Stored
<1>5. CASE Arrive(q)
  BY <1>1, <1>5 DEF Arrive, CreateScan, ReturnLoad, rentalVars, moneyVars
<1>6. CASE CreateStep(q) /\ UNCHANGED order
  BY <1>1, <1>2, <1>3, <1>6 DEF CreateStep, CreateScanned, CreateCheck,
     CreateCheckStation, CreateAuthorize, CreateRent, CreateRentStatus, CreateRentPlace,
     CreateDecrement, CreateDecRead, CreateDecWrite, moneyVars, rentalVars
<1>7. CASE ReturnStep(q) /\ UNCHANGED order
  BY <1>1, <1>4, <1>7 DEF ReturnStep, ReturnFit, ReturnCheck, ReturnApply, ReturnMark,
     ReturnDerive, ReturnClose, ReturnBike, ReturnBikeStatus, ReturnBikePlace,
     ReturnIncrement, ReturnIncRead, ReturnIncWrite, moneyVars, rentalVars
<1> QED BY <1>5, <1>6, <1>7 DEF Step

\* RN-05, RN-06: handling one request at a time, the access-by-access implementation keeps
\* the promise of BikeAllocation: storing the confirmed rental takes its bicycles and charges
\* it in one step, marking an item gives its bicycle back, and no other access is seen.
THEOREM RefinesAllocation ==
  ASSUME Threads = 1
  PROVE  Spec => ImplementsAllocation
<1>1. Init => Allocation!Init
  <2> SUFFICES ASSUME Init PROVE Allocation!Init
    OBVIOUS
  <2>1. \A r \in Requests, b \in Bicycles : ~Holds(r, b)
    BY BoundsAssumption DEF Init, Holds, OpenStatuses
  <2>2. Held = [r \in Requests |-> {}] /\ Stored \cap paid = {}
    BY <2>1 DEF Init, Held, Stored
  <2> QED BY <2>2 DEF Allocation!Init, Held
<1>2. (IInv /\ SerialInv) /\ [Next]_vars => [Allocation!Next]_(Allocation!vars)
  <2> SUFFICES ASSUME IInv, SerialInv, [Next]_vars PROVE [Allocation!Next]_(Allocation!vars)
    OBVIOUS
  <2>1. CASE UNCHANGED vars
    <3>1. UNCHANGED <<header, item, paid>>
      BY <2>1 DEF vars, rentalVars, moneyVars
    <3> QED BY <3>1, SameAllocation DEF Holds, Stored
  <2>2. ASSUME NEW q \in Requests, Arrive(q) \/ Step(q)
        PROVE  Allocation!Next \/ UNCHANGED Allocation!vars
    <3>1. CASE ~CreateStore(q) /\ ~ReturnMarkWrite(q)
      BY <2>2, <3>1, OthersStutter
    <3>2. CASE CreateStore(q)
      <4>1. UNCHANGED order
        BY <2>2, <3>2 DEF Step, Arrive, CreateScan, ReturnLoad, Begin, CreateStore, Move, Read
      <4> QED BY <3>2, <4>1, StoreRents DEF Allocation!Next
    <3>3. CASE ReturnMarkWrite(q)
      <4>1. UNCHANGED order
        BY <2>2, <3>3 DEF Step, Arrive, CreateScan, ReturnLoad, Begin, ReturnMarkWrite, NextBike
      <4> QED BY <3>3, <4>1, MarkGivesBack DEF Allocation!Next
    <3> QED BY <3>1, <3>2, <3>3
  <2> QED BY <2>1, <2>2 DEF Next
<1> QED BY <1>1, <1>2, SerialInvariant, PTL DEF Spec, ImplementsAllocation, Allocation!Spec
=============================================================================
