------------------------------ MODULE Channel ------------------------------
(***************************************************************************)
(* What a proxied connection promises for each of its two directions: the  *)
(* receiver gets the sender's bytes in order, none twice, none skipped and *)
(* none invented, up to a point where the channel may be cut; from then on *)
(* it gets nothing more.  It says nothing about how the bytes are buffered *)
(* on their way: Stream, the code's own pipeline, is shown to implement it *)
(* in both directions.                                                     *)
(***************************************************************************)
EXTENDS Naturals, Sequences

VARIABLES
    sent,       \* what the sender has handed over since the beginning
    received,   \* what has been handed to the receiver
    cut         \* nothing more will be

vars == <<sent, received, cut>>

IsPrefix(s, t) == Len(s) <= Len(t) /\ s = SubSeq(t, 1, Len(s))

Init == received = <<>> /\ cut = FALSE

Send == IsPrefix(sent, sent') /\ UNCHANGED <<received, cut>>

Deliver ==
    /\ ~cut
    /\ IsPrefix(received, received')
    /\ IsPrefix(received', sent)
    /\ UNCHANGED <<sent, cut>>

(* The last bytes and the end may come in one step.                         *)
Cut ==
    /\ ~cut /\ cut'
    /\ IsPrefix(received, received')
    /\ IsPrefix(received', sent)
    /\ UNCHANGED sent

Next == Send \/ Deliver \/ Cut

Spec == Init /\ [][Next]_vars
=============================================================================
