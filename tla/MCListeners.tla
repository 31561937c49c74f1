---------------------------- MODULE MCListeners ----------------------------
(* Listeners for TLC.                                                       *)
EXTENDS Listeners, TLC

Symmetry == Permutations(Ports) \cup Permutations(Hosts)
=============================================================================
