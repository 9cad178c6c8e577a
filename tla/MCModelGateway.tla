--------------------------- MODULE MCModelGateway ---------------------------
(* ModelGateway with three interchangeable calls. *)
EXTENDS ModelGateway, TLC

Symmetry == Permutations(Calls)
=============================================================================
