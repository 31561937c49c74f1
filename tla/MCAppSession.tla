---------------------------- MODULE MCAppSession ----------------------------
(* Instances of AppSession for TLC.                                         *)
EXTENDS AppSession

(* One session with three events, and two sessions with one.                *)
MCBounds == {[sessions |-> 1, events |-> 3], [sessions |-> 2, events |-> 1]}

(* Two sessions in which nothing goes wrong but the prompt.                 *)
MCQuietBounds == {[sessions |-> 2, events |-> 0]}
=============================================================================
