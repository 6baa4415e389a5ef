-------------------------- MODULE MCPaymentGateway --------------------------
(***************************************************************************)
(* Calls and keys for PaymentGateway.                                      *)
(***************************************************************************)
EXTENDS PaymentGateway, TLC

CONSTANTS k1, k2

\* Calls are interchangeable, and so are the keys with one outcome.
Symmetry == Permutations(Calls) \cup Permutations({k1, k2})
=============================================================================
