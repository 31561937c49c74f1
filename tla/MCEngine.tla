------------------------------ MODULE MCEngine ------------------------------
(* Engine with a few peers, for TLC.                                        *)
EXTENDS Engine
=============================================================================
