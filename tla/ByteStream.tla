------------------------------ MODULE ByteStream ------------------------------
(***************************************************************************)
(* What a stream of chunks promises to the one who reads it: the chunks    *)
(* arrive numbered 1, 2, 3, ..., the reader gets each of them once and in  *)
(* that order, and it is told the end only when the source has closed and  *)
(* nothing is left to read.  AsyncQueue implements it.                     *)
(***************************************************************************)
EXTENDS Naturals, Sequences

VARIABLES
    sent,      \* how many chunks the source has produced
    closed,    \* the source will produce no more
    received,  \* the chunks the reader got, in the order it got them
    ended      \* the reader has been told that the stream is over

vars == <<sent, closed, received, ended>>

Init ==
    /\ sent = 0
    /\ closed = FALSE
    /\ received = <<>>
    /\ ended = FALSE

Send ==
    /\ ~closed
    /\ sent' = sent + 1
    /\ UNCHANGED <<closed, received, ended>>

Close ==
    /\ ~closed
    /\ closed' = TRUE
    /\ UNCHANGED <<sent, received, ended>>

Receive ==
    /\ ~ended
    /\ Len(received) < sent
    /\ received' = Append(received, Len(received) + 1)
    /\ UNCHANGED <<sent, closed, ended>>

End ==
    /\ ~ended
    /\ closed
    /\ Len(received) = sent
    /\ ended' = TRUE
    /\ UNCHANGED <<sent, closed, received>>

Next == Send \/ Close \/ Receive \/ End

SafeSpec == Init /\ [][Next]_vars

Spec == SafeSpec /\ WF_vars(Receive) /\ WF_vars(End)
=============================================================================
