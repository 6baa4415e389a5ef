------------------------ MODULE BikeAllocationProofs ------------------------
(***************************************************************************)
(* What the abstract promise entails, for any bicycles and rentals.        *)
(***************************************************************************)
EXTENDS BikeAllocation, TLAPS

\* A rental holds bicycles of the system, and only rentals of the system are charged.
LEMMA TypeCorrect == Spec => []TypeOK
<1>1. Init => TypeOK
  BY DEF Init, TypeOK
<1>2. TypeOK /\ [Next]_vars => TypeOK'
  <2>1. ASSUME TypeOK, NEW r \in RentalIds, NEW bikes \in SUBSET Bicycles, Rent(r, bikes)
        PROVE  TypeOK'
    BY <2>1 DEF TypeOK, Rent
  <2>2. ASSUME TypeOK, NEW r \in RentalIds, NEW bikes \in SUBSET Bicycles,
               GiveBack(r, bikes)
        PROVE  TypeOK'
    BY <2>2 DEF TypeOK, GiveBack
  <2>3. ASSUME TypeOK, UNCHANGED vars  PROVE TypeOK'
    BY <2>3 DEF TypeOK, vars
  <2>. QED  BY <2>1, <2>2, <2>3 DEF Next
<1>. QED  BY <1>1, <1>2, PTL DEF Spec

\* RN-06: two rentals never hold the same bicycle.
THEOREM AllocationIsExclusive == Spec => []Exclusive
<1>1. Init => Exclusive
  BY DEF Init, Exclusive
<1>2. TypeOK /\ Exclusive /\ [Next]_vars => Exclusive'
  <2>1. ASSUME TypeOK, Exclusive,
               NEW r \in RentalIds, NEW bikes \in SUBSET Bicycles, Rent(r, bikes)
        PROVE  Exclusive'
    <3>1. \A p \in RentalIds : held[p] \cap bikes = {}
      BY <2>1 DEF Rent, Taken
    <3>. QED  BY <2>1, <3>1 DEF TypeOK, Exclusive, Rent
  <2>2. ASSUME TypeOK, Exclusive,
               NEW r \in RentalIds, NEW bikes \in SUBSET Bicycles, GiveBack(r, bikes)
        PROVE  Exclusive'
    BY <2>2 DEF TypeOK, Exclusive, GiveBack
  <2>3. ASSUME Exclusive, UNCHANGED vars  PROVE Exclusive'
    BY <2>3 DEF Exclusive, vars
  <2>. QED  BY <2>1, <2>2, <2>3 DEF Next
<1>. QED  BY <1>1, <1>2, TypeCorrect, PTL DEF Spec

\* RN-19: a rental that holds bicycles is charged.
THEOREM HoldersAreCharged == Spec => []HeldIsCharged
<1>1. Init => HeldIsCharged
  BY DEF Init, HeldIsCharged
<1>2. TypeOK /\ HeldIsCharged /\ [Next]_vars => HeldIsCharged'
  <2>1. ASSUME TypeOK, HeldIsCharged,
               NEW r \in RentalIds, NEW bikes \in SUBSET Bicycles, Rent(r, bikes)
        PROVE  HeldIsCharged'
    BY <2>1 DEF TypeOK, HeldIsCharged, Rent
  <2>2. ASSUME TypeOK, HeldIsCharged,
               NEW r \in RentalIds, NEW bikes \in SUBSET Bicycles, GiveBack(r, bikes)
        PROVE  HeldIsCharged'
    BY <2>2 DEF TypeOK, HeldIsCharged, GiveBack
  <2>3. ASSUME HeldIsCharged, UNCHANGED vars  PROVE HeldIsCharged'
    BY <2>3 DEF HeldIsCharged, vars
  <2>. QED  BY <2>1, <2>2, <2>3 DEF Next
<1>. QED  BY <1>1, <1>2, TypeCorrect, PTL DEF Spec
=============================================================================
