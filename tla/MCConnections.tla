--------------------------- MODULE MCConnections ---------------------------
(* Instance of Connections for TLC. *)
EXTENDS Connections, TLC

Symmetry == Permutations(Pcbs) \cup Permutations(Names)
=============================================================================
