------------------------------ MODULE MCPages ------------------------------
(***************************************************************************)
(* A small instance of Pages: requests are interchangeable.                *)
(***************************************************************************)
EXTENDS Pages, TLC

Symmetry == Permutations(Requests)
=============================================================================
