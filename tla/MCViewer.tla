------------------------------- MODULE MCViewer -------------------------------
(* A small instance of Viewer: two addresses, a ClassCache, an archive. *)
EXTENDS Viewer

CONSTANTS a1, a2, c1, k1

=============================================================================
