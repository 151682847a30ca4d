----------------------------- MODULE MCAccount -----------------------------
(***************************************************************************)
(* A small instance of Account: requests are interchangeable.              *)
(***************************************************************************)
EXTENDS Account, TLC

Symmetry == Permutations(Requests)
=============================================================================
