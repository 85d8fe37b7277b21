---------------------------- MODULE MCWorkOrders ----------------------------
(***************************************************************************)
(* Small instances of WorkOrders: two crews, and an id that is not a crew. *)
(***************************************************************************)
EXTENDS WorkOrders, TLC

CONSTANTS a, b

TwoCrews == <<a, b>>

Symmetry == Permutations(Callers)

=============================================================================
