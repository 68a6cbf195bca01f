---------------------------- MODULE ProxyConnection ----------------------------
(***************************************************************************)
(* One connection accepted by wireproxy, from its acceptance to the end:   *)
(* by a TCP tunnel (tcpClientForward and tcpServerForward of routine.go),  *)
(* which resolves and dials its target, or by the HTTP proxy (serve() of   *)
(* http.go), which reads a request, checks the credentials, dials the host *)
(* of the request, and answers a CONNECT or passes a GET on.  Then two     *)
(* goroutines copy, see Forwarding.                                        *)
(***************************************************************************)
EXTENDS Forwarding

VARIABLES
    service, \* who accepted the connection: "tunnel" or "http"
    request, \* what the client asks of the HTTP proxy
    stage,   \* "resolving", "reading", "dialing", "greeting", "up" or "over"
    answer,  \* status of the response written by the proxy, or "none"
    greeted, \* the 200 was written to the client, or the GET to the target
    early    \* chunks behind the request that the buffered reader has taken

serviceVars == <<service, request, stage, answer, greeted, early>>
vars == <<serviceVars, forwardVars>>

(* "ok": the right ones, or none are required. *)
Credentials == {"ok", "missing", "undecodable", "no colon", "wrong"}

Requests == [method : {"CONNECT", "GET", "other"}, credentials : Credentials]

Nothing == [method |-> "none", credentials |-> "ok"]

Init ==
    /\ ForwardInit
    /\ \/ service = "tunnel" /\ request = Nothing /\ stage = "resolving"
       \/ service = "http" /\ request \in Requests /\ stage = "reading"
    /\ answer = "none" /\ greeted = FALSE /\ early = 0

-----------------------------------------------------------------------------
(* The tunnels. *)
Resolved ==
    /\ stage = "resolving"
    /\ stage' \in {"dialing", "over"}
    /\ UNCHANGED <<service, request, answer, greeted, early, forwardVars>>

-----------------------------------------------------------------------------
(* The HTTP proxy. *)

(* What the client sends right behind its request may be read with it, and  *)
(* stays in a buffer that the copy does not read from.                      *)
EarlyData ==
    /\ stage = "reading" /\ peer["conn"] = "sending" /\ early < MaxChunks
    /\ early' = early + 1
    /\ UNCHANGED <<service, request, stage, answer, greeted, forwardVars>>

RequestFails ==
    /\ stage = "reading"
    /\ stage' = "over"
    /\ UNCHANGED <<service, request, answer, greeted, early, forwardVars>>

(* The status of authenticate(), "none" when the credentials will do. *)
authenticate ==
    CASE request.credentials = "ok"          -> "none"
      [] request.credentials = "missing"     -> "407"
      [] request.credentials = "undecodable" -> "406"
      [] request.credentials = "no colon"    -> "411"
      [] request.credentials = "wrong"       -> "401"

Refusal == IF authenticate = "none" /\ request.method = "other" THEN "405" ELSE authenticate

Refuse ==
    /\ stage = "reading" /\ Refusal # "none"
    /\ answer' = Refusal
    /\ stage' = "over"
    /\ UNCHANGED <<service, request, greeted, early, forwardVars>>

Accept ==
    /\ stage = "reading" /\ Refusal = "none"
    /\ stage' = "dialing"
    /\ UNCHANGED <<service, request, answer, greeted, early, forwardVars>>

(* The answer to a CONNECT goes to the client, a GET to its target.         *)
GreetedEnd == IF request.method = "CONNECT" THEN "conn" ELSE "sconn"

Greet ==
    /\ stage = "greeting" /\ peer[GreetedEnd] # "rst"
    /\ stage' = "up" /\ greeted' = TRUE
    /\ answer' = IF request.method = "CONNECT" THEN "200" ELSE "none"
    /\ StartCopies
    /\ UNCHANGED <<service, request, early, open, sent, peer, read, written, taken>>

(* Mutant: the connection to the target stays open. *)
GreetFailsKeepsPeer ==
    /\ stage = "greeting" /\ peer[GreetedEnd] = "rst"
    /\ stage' = "over"
    /\ UNCHANGED <<service, request, answer, greeted, early, forwardVars>>

GreetFails ==
    /\ stage = "greeting" /\ peer[GreetedEnd] = "rst"
    /\ stage' = "over"
    /\ open' = [open EXCEPT !["sconn"] = FALSE]
    /\ UNCHANGED <<service, request, answer, greeted, early, sent, peer, read, written, taken, fwd>>

-----------------------------------------------------------------------------
(* Both. *)

(* On an error of the dial the handlers return without closing conn. *)
DialFails ==
    /\ stage = "dialing"
    /\ stage' = "over"
    /\ UNCHANGED <<service, request, answer, greeted, early, forwardVars>>

(* Mutant: the proxy, too, starts to copy as soon as it has dialed. *)
DialedStartsCopies ==
    /\ stage = "dialing"
    /\ open' = [open EXCEPT !["sconn"] = TRUE]
    /\ StartCopies
    /\ stage' = IF service = "tunnel" THEN "up" ELSE "greeting"
    /\ UNCHANGED <<service, request, answer, greeted, early, sent, peer, read, written, taken>>

Dialed ==
    /\ stage = "dialing"
    /\ open' = [open EXCEPT !["sconn"] = TRUE]
    /\ \/ service = "tunnel" /\ stage' = "up" /\ StartCopies
       \/ service = "http" /\ stage' = "greeting" /\ UNCHANGED fwd
    /\ UNCHANGED <<service, request, answer, greeted, early, sent, peer, read, written, taken>>

(* A finalizer closes the socket of an accepted connection that nobody      *)
(* holds any more; a connection of the WireGuard side has none.             *)
Finalized ==
    /\ stage = "over" /\ open["conn"]
    /\ open' = [open EXCEPT !["conn"] = FALSE]
    /\ UNCHANGED <<serviceVars, sent, peer, read, written, taken, fwd>>

(* connForward closes the connection it wrote to first; the goroutines of   *)
(* the HTTP proxy close that to the target first.                           *)
ClosedFirst(e) == IF service = "tunnel" THEN Other(e) ELSE "sconn"

Forward(e) == Copy(e, ClosedFirst(e)) /\ UNCHANGED serviceVars

PeerStep(e) == (PeerSends(e) \/ PeerEnds(e) \/ PeerTakes(e)) /\ UNCHANGED serviceVars

Next ==
    \/ Resolved
    \/ EarlyData \/ RequestFails \/ Refuse \/ Accept \/ Greet \/ GreetFails
    \/ DialFails \/ Dialed \/ Finalized
    \/ \E e \in Ends : PeerStep(e) \/ Forward(e)

(* The goroutines run.  Nothing is promised of what a peer sends or takes,  *)
(* or that it ends.                                                         *)
Fairness == \A e \in Ends : WF_vars(Forward(e))

Spec == Init /\ [][Next]_vars /\ Fairness

-----------------------------------------------------------------------------
TypeOK ==
    /\ ForwardTypeOK
    /\ service \in {"tunnel", "http"}
    /\ request \in Requests \union {Nothing}
    /\ stage \in {"resolving", "reading", "dialing", "greeting", "up", "over"}
    /\ answer \in {"none", "200", "401", "405", "406", "407", "411"}
    /\ greeted \in BOOLEAN
    /\ early \in 0..MaxChunks

(* The client hears the proxy's 200 before any byte of the target, and the  *)
(* target hears the request before any other byte of the client.            *)
PreambleFirst ==
    service = "http" =>
        (\A e \in Ends : Other(e) = GreetedEnd /\ written[e] > 0 => greeted)

(* A client that was refused is not connected to anybody, and an attempt    *)
(* that fails on the way leaves no connection to the target behind.         *)
OverMeansNoTarget ==
    stage = "over" \/ answer \notin {"none", "200"} =>
        ~open["sconn"] /\ \A e \in Ends : fwd[e] = "off"

(* The direction that ends first loses nothing: if one peer finishes with a *)
(* FIN while the other one has not ended, all it sent (behind what the      *)
(* buffered reader took) has been written.                                  *)
FirstFinIsComplete ==
    \A e \in Ends :
        Ended(e) /\ peer[e] = "fin" /\ peer[Other(e)] = "sending" => written[e] = sent[e]

(* A pair of connections is never left half open: when one goroutine is     *)
(* done both connections are closed, so that the other one is not left      *)
(* waiting for a connection that will not move.                             *)
DoneMeansBothClosed == \A e \in Ends : fwd[e] = "done" => ~open[e] /\ ~open[Other(e)]

(* When a peer ends, both connections are released, provided that writes to *)
(* the other peer go on returning: the copy that must see the end may have  *)
(* to write before it reads on, and io.Copy sets no deadline (routine.go:216). *)
(* A peer that stops reading and stays holds on to both connections.        *)
EndReleasesBoth ==
    \A e \in Ends :
        []<>WriteReturns(Other(e)) =>
            (stage = "up" /\ peer[e] # "sending" ~> fwd = [x \in Ends |-> "done"])
=============================================================================
