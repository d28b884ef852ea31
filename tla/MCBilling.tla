------------------------------ MODULE MCBilling ------------------------------
(***************************************************************************)
(* Symmetry for the model-checking of Billing: requests and keys are told  *)
(* apart by nothing but their state.                                       *)
(***************************************************************************)
EXTENDS Billing, TLC

Symmetry == Permutations(Handlers) \cup Permutations(Users)
=============================================================================
