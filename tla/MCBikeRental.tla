--------------------------- MODULE MCBikeRental ---------------------------
(***************************************************************************)
(* Instances of BikeRental for TLC.                                        *)
(***************************************************************************)
EXTENDS BikeRental, TLC

\* Two stations; a relocation can fill the smaller one.
MCCapacity == [s \in Stations |-> IF s = "st1" THEN 1 ELSE 3]

\* A fare in force and one no longer active.
MCFares == {[fixed |-> 1000, time |-> 200, unit |-> "minuto", is_active |-> TRUE],
            [fixed |-> 500, time |-> 900, unit |-> "hora", is_active |-> FALSE]}

\* Two fares in force, so that the snapshot of an item may differ from today's fare.
MCFaresInForce == {[fixed |-> 1000, time |-> 200, unit |-> "minuto", is_active |-> TRUE],
                   [fixed |-> 500, time |-> 900, unit |-> "hora", is_active |-> TRUE]}

\* Clock readings: less than a minute apart, and an hour, a minute and a second.
MCInstants == {0, 59, 3661}

\* Every request for rentable bicycles, requests with all bicycles, and one of each
\* malformed kind.
ActiveFares == {f \in Fares : f.is_active}

Wanted == SUBSET (Bicycles \ OutOfService) \cup {Bicycles}

Create(bikes, repeated, s, fare) ==
  [bikes |-> bikes, repeated |-> repeated, station |-> s, fare |-> fare]

MCCreateCommands ==
  {Create(bikes, FALSE, s, f) : bikes \in Wanted, s \in Stations,
                                f \in ActiveFares}
    \cup {Create(Bicycles \ OutOfService, FALSE, "st2", f) : f \in Fares}
    \cup {Create(Bicycles, TRUE, "st2", f) : f \in Fares}
    \cup {Create({UnknownBicycle}, FALSE, "st2", f) : f \in Fares}
    \cup {Create(Bicycles, FALSE, UnknownStation, f) : f \in Fares}

Return(r, bikes, repeated, s) ==
  [rental |-> r, bikes |-> bikes, repeated |-> repeated, station |-> s]

MCReturnCommands ==
  {Return(r, bikes, FALSE, s) : r \in RentalIds, bikes \in Wanted, s \in Stations}
    \cup {Return(r, Bicycles, TRUE, "st2") : r \in RentalIds}
    \cup {Return(r, {UnknownBicycle}, FALSE, "st2") : r \in RentalIds}
    \cup {Return(r, {b}, FALSE, UnknownStation) :
            r \in RentalIds, b \in Bicycles \ OutOfService}

\* Rental ids are interchangeable: they are minted, never compared in order.
Symmetry == Permutations(RentalIds)
=============================================================================
