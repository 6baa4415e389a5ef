---------------------------- MODULE MCRentalApi ----------------------------
(***************************************************************************)
(* The instance of MCBikeRental, seen through the API.                     *)
(***************************************************************************)
EXTENDS MCBikeRental, RentalApi
=============================================================================
