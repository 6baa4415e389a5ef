--------------------------- MODULE MCRentalThreads ---------------------------
(***************************************************************************)
(* Batches of requests for RentalThreads.                                  *)
(***************************************************************************)
EXTENDS RentalThreads, TLC

MCCapacity == [s \in Stations |-> 2]

\* Any request of any kind.
AnyOrders == [q \in Requests |-> CreateOrder \cup ReturnOrder]

\* The same, one of them a creation: with nothing but returns every request is refused.
CreateAndAny ==
  LET first == CHOOSE q \in Requests : TRUE
  IN  [AnyOrders EXCEPT ![first] = CreateOrder]

\* Requests are interchangeable, and so are bicycles: nothing orders either.
Symmetry == Permutations(Requests) \cup Permutations(Bicycles)
=============================================================================
