----------------------------- MODULE MCProfiles -----------------------------
(* Profiles with a few ids and texts, for TLC.                              *)
EXTENDS Profiles
=============================================================================
