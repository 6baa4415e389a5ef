--------------------------- MODULE BikeAllocation ---------------------------
(***************************************************************************)
(* What the rental system promises, without its bookkeeping: a rental      *)
(* takes its bicycles and is charged in one step or not at all (RN-05), no *)
(* bicycle is taken twice (RN-06), no rental is charged twice (RN-20), and *)
(* bicycles come back in any parts (RN-14).                                *)
(***************************************************************************)
CONSTANTS Bicycles, RentalIds

VARIABLES
  held,      \* the bicycles out on each rental
  charged    \* the rentals whose payment is authorized

vars == <<held, charged>>

Taken == UNION {held[r] : r \in RentalIds}

Init ==
  /\ held = [r \in RentalIds |-> {}]
  /\ charged = {}

\* A rental takes all its bicycles, none of which is out, and is charged.
Rent(r, bikes) ==
  /\ r \notin charged
  /\ bikes # {}
  /\ bikes \cap Taken = {}
  /\ held' = [held EXCEPT ![r] = bikes]
  /\ charged' = charged \cup {r}

\* Some of a rental's bicycles come back; its charge stays.
GiveBack(r, bikes) ==
  /\ bikes # {}
  /\ bikes \subseteq held[r]
  /\ held' = [held EXCEPT ![r] = @ \ bikes]
  /\ UNCHANGED charged

Next ==
  \E r \in RentalIds, bikes \in SUBSET Bicycles : Rent(r, bikes) \/ GiveBack(r, bikes)

Spec == Init /\ [][Next]_vars

TypeOK ==
  /\ held \in [RentalIds -> SUBSET Bicycles]
  /\ charged \subseteq RentalIds

\* RN-06 of the promise itself: two rentals never hold the same bicycle.
Exclusive == \A q, r \in RentalIds : q # r => held[q] \cap held[r] = {}

\* RN-19 of the promise itself: a rental that holds bicycles is charged.
HeldIsCharged == \A r \in RentalIds : held[r] # {} => r \in charged
=============================================================================
