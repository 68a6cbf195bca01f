------------------------------ MODULE Forwarding ------------------------------
(***************************************************************************)
(* The two goroutines of wireproxy that copy between a pair of TCP         *)
(* connections: connForward of routine.go for the tunnels, and the end of  *)
(* serve() in http.go for the HTTP proxy.  Each copies with io.Copy until  *)
(* its source ends or an operation fails, and then closes both             *)
(* connections, one of them (the argument first) before the other.         *)
(*                                                                         *)
(* The ends are conn, the accepted connection, and sconn, the dialed one.  *)
(* What the peer behind an end sends is counted in chunks; chunks are      *)
(* copied in order, so four counters say what is where.  A write has no    *)
(* deadline: it waits until the peer has taken enough of what was written. *)
(***************************************************************************)
EXTENDS Naturals

CONSTANTS
    MaxChunks, \* bound: chunks that each peer sends
    Window     \* chunks written to a peer that it need not have taken yet

ASSUME MaxChunksAssumption == MaxChunks \in Nat
ASSUME WindowAssumption == Window \in Nat \ {0}

Ends == {"conn", "sconn"}
Other(e) == IF e = "conn" THEN "sconn" ELSE "conn"

VARIABLES
    open,    \* the end is not closed by wireproxy
    sent,    \* chunks the peer at this end has sent
    peer,    \* the peer at this end: "sending", "fin" (no more to send), "rst"
    read,    \* chunks the copy has read from this end
    written, \* chunks read from this end and written to the other one
    taken,   \* chunks written to this end that its peer has taken
    fwd      \* the goroutine that reads from this end: "off", "copy",
             \* "closeFirst", "closeSecond", "done"

forwardVars == <<open, sent, peer, read, written, taken, fwd>>

(* A connection has been accepted; its peer may already send. *)
ForwardInit ==
    /\ open = [e \in Ends |-> e = "conn"]
    /\ sent = [e \in Ends |-> 0]
    /\ peer = [e \in Ends |-> "sending"]
    /\ read = [e \in Ends |-> 0]
    /\ written = [e \in Ends |-> 0]
    /\ taken = [e \in Ends |-> 0]
    /\ fwd = [e \in Ends |-> "off"]

-----------------------------------------------------------------------------
(* The peers. *)
PeerSends(e) ==
    /\ open[e] /\ peer[e] = "sending" /\ sent[e] < MaxChunks
    /\ sent' = [sent EXCEPT ![e] = @ + 1]
    /\ UNCHANGED <<open, peer, read, written, taken, fwd>>

(* With a FIN, or with an RST, which may also follow a FIN.                 *)
PeerEnds(e) ==
    /\ open[e]
    /\ \/ peer[e] = "sending" /\ peer' = [peer EXCEPT ![e] = "fin"]
       \/ peer[e] # "rst" /\ peer' = [peer EXCEPT ![e] = "rst"]
    /\ UNCHANGED <<open, sent, read, written, taken, fwd>>

PeerTakes(e) ==
    /\ peer[e] # "rst" /\ taken[e] < written[Other(e)]
    /\ taken' = [taken EXCEPT ![e] = @ + 1]
    /\ UNCHANGED <<open, sent, peer, read, written, fwd>>

-----------------------------------------------------------------------------
(* Both goroutines are started. *)
StartCopies == fwd' = [e \in Ends |-> "copy"]

Holds(e) == read[e] > written[e]

(* A write to this end would take effect, or would return: now, or at once  *)
(* with an error.  A write that can do neither waits.                       *)
Takes(e) == open[e] /\ peer[e] # "rst" /\ written[Other(e)] - taken[e] < Window
WriteReturns(e) == Takes(e) \/ ~open[e] \/ peer[e] = "rst"

(* Mutant: the copy reads on before it has written what it read. *)
ReadAhead(e) ==
    /\ fwd[e] = "copy"
    /\ open[e] /\ peer[e] # "rst" /\ read[e] < sent[e]
    /\ read' = [read EXCEPT ![e] = @ + 1]
    /\ UNCHANGED <<open, sent, peer, written, taken, fwd>>

Read(e) ==
    /\ fwd[e] = "copy" /\ ~Holds(e)
    /\ open[e] /\ peer[e] # "rst" /\ read[e] < sent[e]
    /\ read' = [read EXCEPT ![e] = @ + 1]
    /\ UNCHANGED <<open, sent, peer, written, taken, fwd>>

Write(e) ==
    /\ fwd[e] = "copy" /\ Holds(e) /\ Takes(Other(e))
    /\ written' = [written EXCEPT ![e] = @ + 1]
    /\ UNCHANGED <<open, sent, peer, read, taken, fwd>>

(* Mutant: the copy ends as soon as the FIN is there, without the rest. *)
CopyEndsAtFin(e) ==
    /\ fwd[e] = "copy"
    /\ \/ peer[e] \in {"fin", "rst"} \/ ~open[e]
       \/ Holds(e) /\ (~open[Other(e)] \/ peer[Other(e)] = "rst")
    /\ fwd' = [fwd EXCEPT ![e] = "closeFirst"]
    /\ UNCHANGED <<open, sent, peer, read, written, taken>>

(* Mutant: only an error ends the copy. *)
CopyEndsOnErrorOnly(e) ==
    /\ fwd[e] = "copy"
    /\ \/ ~Holds(e) /\ (peer[e] = "rst" \/ ~open[e])
       \/ Holds(e) /\ (~open[Other(e)] \/ peer[Other(e)] = "rst")
    /\ fwd' = [fwd EXCEPT ![e] = "closeFirst"]
    /\ UNCHANGED <<open, sent, peer, read, written, taken>>

(* io.Copy returns: end of the source, or an error of a read or a write.    *)
(* A chunk that was read and not written is dropped.                        *)
CopyEnds(e) ==
    /\ fwd[e] = "copy"
    /\ \/ ~Holds(e) /\ peer[e] = "fin" /\ read[e] = sent[e]
       \/ ~Holds(e) /\ (peer[e] = "rst" \/ ~open[e])
       \/ Holds(e) /\ (~open[Other(e)] \/ peer[Other(e)] = "rst")
    /\ fwd' = [fwd EXCEPT ![e] = "closeFirst"]
    /\ UNCHANGED <<open, sent, peer, read, written, taken>>

CloseFirst(e, first) ==
    /\ fwd[e] = "closeFirst"
    /\ open' = [open EXCEPT ![first] = FALSE]
    /\ fwd' = [fwd EXCEPT ![e] = "closeSecond"]
    /\ UNCHANGED <<sent, peer, read, written, taken>>

(* Mutant: only one connection is closed. *)
CloseSecondNot(e, first) ==
    /\ fwd[e] = "closeSecond"
    /\ fwd' = [fwd EXCEPT ![e] = "done"]
    /\ UNCHANGED <<open, sent, peer, read, written, taken>>

CloseSecond(e, first) ==
    /\ fwd[e] = "closeSecond"
    /\ open' = [open EXCEPT ![Other(first)] = FALSE]
    /\ fwd' = [fwd EXCEPT ![e] = "done"]
    /\ UNCHANGED <<sent, peer, read, written, taken>>

Copy(e, first) ==
    Read(e) \/ Write(e) \/ CopyEnds(e) \/ CloseFirst(e, first) \/ CloseSecond(e, first)

-----------------------------------------------------------------------------
ForwardTypeOK ==
    /\ open \in [Ends -> BOOLEAN]
    /\ sent \in [Ends -> 0..MaxChunks]
    /\ peer \in [Ends -> {"sending", "fin", "rst"}]
    /\ read \in [Ends -> 0..MaxChunks]
    /\ written \in [Ends -> 0..MaxChunks]
    /\ taken \in [Ends -> 0..MaxChunks]
    /\ fwd \in [Ends -> {"off", "copy", "closeFirst", "closeSecond", "done"}]
    /\ \A e \in Ends :
         /\ written[e] <= read[e] /\ read[e] <= sent[e] /\ read[e] <= written[e] + 1
         /\ taken[Other(e)] <= written[e] /\ written[e] <= taken[Other(e)] + Window

(* The copy from e has returned. *)
Ended(e) == fwd[e] \in {"closeFirst", "closeSecond", "done"}
=============================================================================
