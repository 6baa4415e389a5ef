--------------------------- MODULE MCRentalViews ---------------------------
(***************************************************************************)
(* A rental of two bicycles for RentalViews.                               *)
(***************************************************************************)
EXTENDS RentalViews, TLC

CONSTANTS b1, b2

MCItems == <<b1, b2>>

\* Returns are interchangeable; the bicycles are not, the list of items orders them.
Symmetry == Permutations(Returns)
=============================================================================
