--------------------------- MODULE MCPasswordFifo ---------------------------
(* PasswordFifo with short passwords, for TLC.                              *)
EXTENDS PasswordFifo
=============================================================================
