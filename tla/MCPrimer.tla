------------------------------ MODULE MCPrimer ------------------------------
(* Small instances of Primer. *)
EXTENDS Primer, TLC

Symmetry == Permutations(Node)

=============================================================================
