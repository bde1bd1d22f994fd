---------------------------- MODULE MCBuildLock ----------------------------
(* Small instances of BuildLock. *)
EXTENDS BuildLock, TLC

Symmetry == Permutations(Node)

=============================================================================
