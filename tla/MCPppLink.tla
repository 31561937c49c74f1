----------------------------- MODULE MCPppLink -----------------------------
(* Instances of PppLink for TLC.                                             *)
EXTENDS PppLink
==============================================================================
