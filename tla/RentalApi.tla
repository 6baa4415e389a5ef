----------------------------- MODULE RentalApi -----------------------------
(***************************************************************************)
(* The HTTP API over the use cases of BikeRental: what each endpoint may   *)
(* answer in the present state, and what its views show of it.  The API    *)
(* has no state of its own: a POST is a step of BikeRental, a GET changes  *)
(* nothing.                                                                *)
(***************************************************************************)
EXTENDS BikeRental

\* What a request ends with: the exception it raises, or that it is done.  EdgeError is
\* Pydantic's RequestValidationError, ValueError whatever the domain does not name.
Done == "done"

\* Faulty variant: the mapping of E-02, where returns have added no errors.
ErrorStatusE02 ==
  [EmptyRental |-> 422, DuplicateBicycle |-> 422,
   StationNotFound |-> 404, BicycleNotFound |-> 404,
   BicycleNotAvailable |-> 409, BicycleAlreadyRented |-> 409, InactiveFare |-> 409,
   IllegalRentalTransition |-> 409, PaymentDeclined |-> 402]

\* ERROR_STATUS of errors.py, ...
ErrorStatus ==
  [BicycleNotFound |-> 404, StationNotFound |-> 404, RentalNotFound |-> 404,
   BicycleNotAvailable |-> 409, BicycleAlreadyRented |-> 409, InactiveFare |-> 409,
   IllegalRentalTransition |-> 409,
   RentalNotActive |-> 409, RentalItemAlreadyReturned |-> 409, BicycleNotInRental |-> 409,
   BicycleNotReturnable |-> 409, StationFull |-> 409,
   EmptyRental |-> 422, DuplicateBicycle |-> 422, PaymentDeclined |-> 402]

\* ... and the status of the answer to a request that raises: 500 for an error without a
\* mapping, and for an exception without a handler.
StatusFor(error) ==
  IF error = "EdgeError" THEN 422
  ELSE IF error \in DOMAIN ErrorStatus THEN ErrorStatus[error]
  ELSE 500

-----------------------------------------------------------------------------
(* Endpoints: how a request may end in the present state *)

\* The schemas of both bodies refuse an empty list before the domain sees it.  (What JSON
\* alone makes malformed never becomes a command, and is left out.)
RefusedAtEdge(c) == c.bikes = {}

\* POST /rentals.
CreateEnds(c) ==
  IF RefusedAtEdge(c) THEN {"EdgeError"}
  ELSE IF CreateFaults(c) # {} THEN CreateFaults(c)
  ELSE {"PaymentDeclined",
        IF inventory[c.station] < Cardinality(c.bikes) THEN "ValueError" ELSE Done}

\* POST /rentals/{id}/returns.
ReturnEnds(c) ==
  IF RefusedAtEdge(c) THEN {"EdgeError"}
  ELSE IF ReturnFaults(c) # {} THEN ReturnFaults(c)
  ELSE {Done}

\* GET /stations: what it shows of each station.
StationView(s) == [capacity |-> Capacity[s], available_inventory |-> inventory[s]]

\* GET /stations/{id}/bicycles?available=...
ListStationBicycles(s, available) ==
  {b \in Bicycles : /\ bicycles[b].station = s
                    /\ available => bicycles[b].status = "disponible"}

\* GET /rentals/{id}: what it shows of a stored rental.
ItemView(item) ==
  [status |-> item.status, estimated_amount |-> EstimatedAmount(item.fare),
   final_amount |-> item.final_amount, returned_at |-> item.returned_at]

RentalView(r) ==
  [status |-> rentals[r].status,
   estimated_total |-> rentals[r].total,
   has_payment |-> rentals[r].paid,
   items |-> [b \in {x \in Bicycles : HasItem(r, x)} |-> ItemView(items[r][b])]]

-----------------------------------------------------------------------------
(* Invariants *)

\* What the descriptions of the endpoints' responses name, code by code.
DocumentedOfCreate ==
  [done |-> 201, PaymentDeclined |-> 402,
   BicycleNotFound |-> 404, StationNotFound |-> 404,
   BicycleNotAvailable |-> 409, BicycleAlreadyRented |-> 409, InactiveFare |-> 409,
   EdgeError |-> 422, DuplicateBicycle |-> 422]

DocumentedOfReturn ==
  [done |-> 200, RentalNotFound |-> 404, StationNotFound |-> 404,
   RentalNotActive |-> 409, RentalItemAlreadyReturned |-> 409,
   BicycleNotInRental |-> 409, StationFull |-> 409,
   EdgeError |-> 422]

\* An end is one the descriptions name, and is answered with the code they name for it.
Documented(end, descriptions) ==
  /\ end \in DOMAIN descriptions
  /\ end # Done => StatusFor(end) = descriptions[end]

\* Every creation ends in a way its endpoint documents, with the code documented for it, and
\* so does every return but one of a list that names a bicycle twice: it ends in a 422 of
\* another kind than those the 422 of returns is described with (app.py:228, "lista vacía /
\* UUID malformado").  No rental accepted and paid for ends in a 500, and none of the errors
\* of ReturnBicycles that its code calls defensive (a bicycle missing or not rented) is ever
\* raised.
AnswersDocumented ==
  /\ \A c \in CreateCommands : \A end \in CreateEnds(c) : Documented(end, DocumentedOfCreate)
  /\ \A c \in ReturnCommands : \A end \in ReturnEnds(c) :
       IF c.repeated /\ ~RefusedAtEdge(c)
       THEN ~Documented(end, DocumentedOfReturn) /\ StatusFor(end) = 422
       ELSE Documented(end, DocumentedOfReturn)

\* HU-11 and UC-01: a client can rent what the list of a station's available bicycles shows,
\* any of them together, and nothing else there.
AvailableCanBeRented ==
  \A s \in Stations, bikes \in (SUBSET Bicycles) \ {{}} :
    \A fare \in {f \in Fares : f.is_active} :
      LET c == [bikes |-> bikes, repeated |-> FALSE, station |-> s, fare |-> fare]
      IN  Done \in CreateEnds(c) <=> bikes \subseteq ListStationBicycles(s, TRUE)

\* HU-12, HU-10 and UC-02: a client can return the bicycles the view of an open rental shows
\* 'activo', any of them together, to a station whose view has room for them.
ShownCanBeReturned ==
  \A r \in {x \in RentalIds : IsOpen(x)} :
    LET view == RentalView(r)
        out  == {b \in DOMAIN view.items : view.items[b].status = "activo"}
    IN  /\ out # {}
        /\ \A s \in Stations, bikes \in (SUBSET out) \ {{}} :
             LET c == [rental |-> r, bikes |-> bikes, repeated |-> FALSE, station |-> s]
                 room == StationView(s).capacity - StationView(s).available_inventory
             IN  Done \in ReturnEnds(c) <=> Cardinality(bikes) <= room
=============================================================================
