----------------------------- MODULE ProxiedStream -----------------------------
(***************************************************************************)
(* What a TCP stream through the proxy promises to the browser: it gets    *)
(* what the server sends, each chunk once and in order, and it is told the *)
(* end once.  After a FIN it has everything by then; after a reset the     *)
(* rest may be missing.  As long as the browser keeps its stream open, it  *)
(* gets what there is, and it is told the end.  RotatingSocket implements  *)
(* it.                                                                     *)
(***************************************************************************)
EXTENDS Naturals, Sequences

VARIABLES
    sent,      \* how many chunks the server has sent
    fate,      \* how the server ended: "none", "fin" or "rst"
    received,  \* the chunks the browser got, in the order it got them
    told,      \* the browser has been told that the stream is over
    open       \* the stream to the browser is open

vars == <<sent, fate, received, told, open>>

Init ==
    /\ sent = 0 /\ fate = "none"
    /\ received = <<>> /\ told = FALSE /\ open = TRUE

Send ==
    /\ fate = "none"
    /\ sent' = sent + 1
    /\ UNCHANGED <<fate, received, told, open>>

Finish ==
    /\ fate = "none"
    /\ fate' \in {"fin", "rst"}
    /\ UNCHANGED <<sent, received, told, open>>

CanReceive == ~told /\ Len(received) < sent

Receive ==
    /\ CanReceive
    /\ received' = Append(received, Len(received) + 1)
    /\ UNCHANGED <<sent, fate, told, open>>

CanEnd == ~told /\ (fate = "rst" \/ (fate = "fin" /\ Len(received) = sent))

(* The end closes the stream. *)
End ==
    /\ CanEnd
    /\ told' = TRUE /\ open' = FALSE
    /\ UNCHANGED <<sent, fate, received>>

(* The browser closes the stream, or the proxy gives it up. *)
Close ==
    /\ open
    /\ open' = FALSE
    /\ UNCHANGED <<sent, fate, received, told>>

Next == Send \/ Finish \/ Receive \/ End \/ Close

SafeSpec == Init /\ [][Next]_vars

(* Weak fairness of Receive and of End for an open stream, with the guards  *)
(* in the place of ENABLED.  What a refinement may assume of its peers      *)
(* differs for the two.                                                     *)
DeliversChunks == []<>~(open /\ CanReceive) \/ []<><<Receive>>_vars
DeliversEnd == []<>~(open /\ CanEnd) \/ []<><<End>>_vars

Spec == SafeSpec /\ DeliversChunks /\ DeliversEnd
=============================================================================
