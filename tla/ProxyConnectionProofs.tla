------------------------ MODULE ProxyConnectionProofs ------------------------
(***************************************************************************)
(* Theorems about ProxyConnection, for every number of chunks.             *)
(***************************************************************************)
EXTENDS ProxyConnection, TLAPS

(* What the stage says of the connections and of the copies. *)
Stages ==
    /\ stage = "up" => \A e \in Ends : fwd[e] # "off"
    /\ stage # "up" => \A e \in Ends : fwd[e] = "off" /\ read[e] = 0 /\ written[e] = 0
    /\ stage \in {"resolving", "reading", "dialing"} => open["conn"] /\ ~open["sconn"]
    /\ stage = "greeting" => service = "http" /\ open["conn"] /\ open["sconn"]
    /\ stage = "over" => ~open["sconn"]
    /\ stage = "resolving" => service = "tunnel"
    /\ stage = "reading" => service = "http"
    /\ stage = "up" /\ service = "http" => greeted
    /\ answer \notin {"none", "200"} => stage = "over"

(* A goroutine closes one connection after the other; nobody else closes    *)
(* the connections of a pair that is up.                                    *)
Closing ==
    /\ \A e \in Ends : fwd[e] = "closeSecond" => ~open[ClosedFirst(e)]
    /\ stage = "up" => \A x \in Ends : ~open[x] => \E e \in Ends : Ended(e)

(* Copies end because of a peer: one has sent an RST, or a FIN, and then    *)
(* all of its chunks were written.  A copy that was stopped because a       *)
(* connection was closed under it is not the first one to end.              *)
Culprit ==
    (\E e \in Ends : Ended(e)) =>
        \E x \in Ends : peer[x] = "rst" \/ (peer[x] = "fin" /\ written[x] = sent[x])

(* The inductive invariant. *)
IInv ==
    /\ TypeOK
    /\ Stages
    /\ Closing
    /\ Culprit
    /\ DoneMeansBothClosed

USE MaxChunksAssumption, WindowAssumption DEF Ends

-----------------------------------------------------------------------------
LEMMA OtherEnd ==
    /\ \A e \in Ends : Other(e) \in Ends /\ Other(e) # e /\ Other(Other(e)) = e
    /\ \A e, x \in Ends : x = e \/ x = Other(e)
    /\ \A e \in Ends : ClosedFirst(e) \in Ends
  BY DEF Other, ClosedFirst

LEMMA RefusalIsAnswer ==
    ASSUME request \in Requests \union {Nothing}
    PROVE  Refusal \in {"none", "401", "405", "406", "407", "411"}
<1>1. request.credentials \in Credentials
  <2>1. CASE request \in Requests
    BY <2>1 DEF Requests
  <2>2. CASE request = Nothing
    BY <2>2 DEF Nothing, Credentials
  <2> QED
    BY <2>1, <2>2
<1>2. authenticate \in {"none", "401", "406", "407", "411"}
  BY <1>1 DEF authenticate, Credentials
<1> QED
  BY <1>2 DEF Refusal

LEMMA InitIInv == Init => IInv
<1> SUFFICES ASSUME Init PROVE IInv
  OBVIOUS
<1>1. TypeOK
  <2>1. ForwardTypeOK
    <3>1. \A e \in Ends : Other(e) \in Ends
      BY DEF Other
    <3> QED
      BY <3>1 DEF Init, ForwardInit, ForwardTypeOK
  <2>2. request \in Requests \union {Nothing}
    BY DEF Init
  <2>3. service \in {"tunnel", "http"} /\ stage \in {"resolving", "reading"}
    BY DEF Init
  <2>4. answer = "none" /\ greeted \in BOOLEAN
    BY DEF Init
  <2>5. early \in 0..MaxChunks
    BY DEF Init
  <2> QED
    BY <2>1, <2>2, <2>3, <2>4, <2>5, Zenon DEF TypeOK
<1>2. Stages
  BY DEF Init, ForwardInit, Stages
<1>3. Closing /\ Culprit /\ DoneMeansBothClosed
  BY DEF Init, ForwardInit, Closing, Culprit, DoneMeansBothClosed, Ended
<1> QED
  BY <1>1, <1>2, <1>3 DEF IInv

(* The steps of the handler that leave both connections alone. *)
LEMMA HandlerIInv ==
    ASSUME IInv, Resolved \/ EarlyData \/ RequestFails \/ Refuse \/ Accept \/ DialFails
    PROVE  IInv'
<1> USE DEF IInv
<1>1. /\ UNCHANGED <<service, request, greeted, open, sent, peer, read, written, taken, fwd>>
      /\ stage # "up" /\ stage' # "up"
      /\ stage' \in {"resolving", "reading", "greeting"} => stage' = stage
  BY DEF Resolved, EarlyData, RequestFails, Refuse, Accept, DialFails, forwardVars
<1>2. TypeOK'
  <2>1. ForwardTypeOK'
    BY <1>1 DEF TypeOK, ForwardTypeOK
  <2>2. answer' \in {"none", "200", "401", "405", "406", "407", "411"}
    BY RefusalIsAnswer DEF TypeOK, Resolved, EarlyData, RequestFails, Refuse, Accept, DialFails
  <2>3. early' \in 0..MaxChunks
    BY DEF TypeOK, Resolved, EarlyData, RequestFails, Refuse, Accept, DialFails
  <2>4. stage' \in {"resolving", "reading", "dialing", "greeting", "up", "over"}
    BY DEF TypeOK, Resolved, EarlyData, RequestFails, Refuse, Accept, DialFails
  <2> QED
    BY <1>1, <2>1, <2>2, <2>3, <2>4 DEF TypeOK
<1>3. Stages'
  BY <1>1 DEF Stages, Resolved, EarlyData, RequestFails, Refuse, Accept, DialFails
<1>4. Closing' /\ Culprit' /\ DoneMeansBothClosed'
  BY <1>1 DEF Closing, Culprit, DoneMeansBothClosed, Ended, ClosedFirst, Other
<1> QED
  BY <1>2, <1>3, <1>4

LEMMA GreetIInv == IInv /\ Greet => IInv'
<1> SUFFICES ASSUME IInv, Greet PROVE IInv'
  OBVIOUS
<1> USE DEF IInv
<1>1. /\ UNCHANGED <<service, request, early, open, sent, peer, read, written, taken>>
      /\ stage = "greeting" /\ stage' = "up" /\ greeted' = TRUE
      /\ answer' \in {"none", "200"}
      /\ fwd' = [e \in Ends |-> "copy"]
  BY DEF Greet, StartCopies
<1>2. TypeOK'
  BY <1>1 DEF TypeOK, ForwardTypeOK
<1>3. Stages'
  BY <1>1 DEF Stages
<1>4. open["conn"] /\ open["sconn"]
  BY <1>1 DEF Stages
<1>5. Closing' /\ Culprit' /\ DoneMeansBothClosed'
  BY <1>1, <1>4 DEF Closing, Culprit, DoneMeansBothClosed, Ended
<1> QED
  BY <1>2, <1>3, <1>5

LEMMA GreetFailsIInv == IInv /\ GreetFails => IInv'
<1> SUFFICES ASSUME IInv, GreetFails PROVE IInv'
  OBVIOUS
<1> USE DEF IInv
<1>1. /\ UNCHANGED <<service, request, answer, greeted, early, sent, peer, read, written, taken, fwd>>
      /\ stage = "greeting" /\ stage' = "over"
      /\ open' = [open EXCEPT !["sconn"] = FALSE]
  BY DEF GreetFails
<1>2. TypeOK' /\ Stages'
  BY <1>1 DEF TypeOK, ForwardTypeOK, Stages
<1>3. Closing' /\ Culprit' /\ DoneMeansBothClosed'
  BY <1>1 DEF Closing, Culprit, DoneMeansBothClosed, Ended, Stages
<1> QED
  BY <1>2, <1>3

LEMMA DialedIInv == IInv /\ Dialed => IInv'
<1> SUFFICES ASSUME IInv, Dialed PROVE IInv'
  OBVIOUS
<1> USE DEF IInv
<1>1. /\ UNCHANGED <<service, request, answer, greeted, early, sent, peer, read, written, taken>>
      /\ stage = "dialing"
      /\ open' = [open EXCEPT !["sconn"] = TRUE]
      /\ \/ service = "tunnel" /\ stage' = "up" /\ fwd' = [e \in Ends |-> "copy"]
         \/ service = "http" /\ stage' = "greeting" /\ fwd' = fwd
  BY DEF Dialed, StartCopies
<1>2. open' = [e \in Ends |-> TRUE]
  BY <1>1 DEF Stages, TypeOK, ForwardTypeOK
<1>3. TypeOK' /\ Stages'
  BY <1>1, <1>2 DEF TypeOK, ForwardTypeOK, Stages
<1>4. Closing' /\ Culprit' /\ DoneMeansBothClosed'
  BY <1>1, <1>2 DEF Closing, Culprit, DoneMeansBothClosed, Ended, Stages
<1> QED
  BY <1>3, <1>4

LEMMA FinalizedIInv == IInv /\ Finalized => IInv'
<1> SUFFICES ASSUME IInv, Finalized PROVE IInv'
  OBVIOUS
<1> USE DEF IInv
<1>1. /\ UNCHANGED <<service, request, stage, answer, greeted, early, sent, peer, read, written, taken, fwd>>
      /\ stage = "over"
      /\ open' = [open EXCEPT !["conn"] = FALSE]
  BY DEF Finalized, serviceVars
<1>2. TypeOK' /\ Stages'
  BY <1>1 DEF TypeOK, ForwardTypeOK, Stages
<1>3. Closing' /\ Culprit' /\ DoneMeansBothClosed'
  BY <1>1 DEF Closing, Culprit, DoneMeansBothClosed, Ended, Stages
<1> QED
  BY <1>2, <1>3

-----------------------------------------------------------------------------
(* The peers. *)
LEMMA PeerIInv == ASSUME NEW e \in Ends, IInv, PeerStep(e) PROVE IInv'
<1> USE DEF IInv
<1>1. /\ UNCHANGED <<service, request, stage, answer, greeted, early, open, read, written, fwd>>
      /\ peer[e] # "rst"
  BY DEF PeerStep, PeerSends, PeerEnds, PeerTakes, serviceVars
<1>2. /\ sent' \in [Ends -> 0..MaxChunks]
      /\ \A x \in Ends : sent[x] <= sent'[x] /\ (x # e => sent'[x] = sent[x])
  BY <1>1 DEF PeerStep, PeerSends, PeerEnds, PeerTakes, TypeOK, ForwardTypeOK
<1>3. /\ peer' \in [Ends -> {"sending", "fin", "rst"}]
      /\ \A x \in Ends : peer'[x] \in {peer[x], "fin", "rst"}
      /\ \A x \in Ends : peer[x] # "sending" => peer'[x] \in {peer[x], "rst"}
      /\ \A x \in Ends : peer[x] # "sending" => sent'[x] = sent[x]
  BY <1>1 DEF PeerStep, PeerSends, PeerEnds, PeerTakes, TypeOK, ForwardTypeOK
<1>4. TypeOK'
  <2>1. \A x \in Ends : read[x] <= sent'[x]
    BY <1>2 DEF TypeOK, ForwardTypeOK
  <2>2. /\ taken' \in [Ends -> 0..MaxChunks]
        /\ \A x \in Ends : taken'[Other(x)] <= written[x] /\ written[x] <= taken'[Other(x)] + Window
    BY OtherEnd DEF PeerStep, PeerSends, PeerEnds, PeerTakes, TypeOK, ForwardTypeOK
  <2> QED
    BY <1>1, <1>2, <1>3, <2>1, <2>2 DEF TypeOK, ForwardTypeOK, Other
<1>5. Stages' /\ Closing' /\ DoneMeansBothClosed'
  BY <1>1 DEF Stages, Closing, DoneMeansBothClosed, Ended, ClosedFirst, Other
<1>6. Culprit'
  BY <1>1, <1>2, <1>3 DEF Culprit, Ended
<1> QED
  BY <1>4, <1>5, <1>6

-----------------------------------------------------------------------------
(* The goroutines.  A copy runs only in a pair that is up. *)
LEMMA CopiesAreUp ==
    ASSUME NEW e \in Ends, IInv, fwd[e] # "off"
    PROVE  stage = "up" /\ \A x \in Ends : fwd[x] # "off"
  BY DEF IInv, Stages, TypeOK

LEMMA ReadIInv == ASSUME NEW e \in Ends, IInv, Read(e), UNCHANGED serviceVars PROVE IInv'
<1> USE DEF IInv
<1>1. /\ UNCHANGED <<service, request, stage, answer, greeted, early, open, sent, peer, written, taken, fwd>>
      /\ stage = "up"
  BY CopiesAreUp DEF Read, serviceVars
<1>2. TypeOK'
  BY <1>1 DEF Read, Holds, TypeOK, ForwardTypeOK
<1>3. Stages' /\ Closing' /\ Culprit' /\ DoneMeansBothClosed'
  BY <1>1 DEF Stages, Closing, Culprit, DoneMeansBothClosed, Ended, ClosedFirst, Other
<1> QED
  BY <1>2, <1>3

LEMMA WriteIInv == ASSUME NEW e \in Ends, IInv, Write(e), UNCHANGED serviceVars PROVE IInv'
<1> USE DEF IInv
<1>1. /\ UNCHANGED <<service, request, stage, answer, greeted, early, open, sent, peer, read, taken, fwd>>
      /\ stage = "up" /\ written[e] < read[e]
      /\ written' = [written EXCEPT ![e] = @ + 1]
  BY CopiesAreUp DEF Write, Holds, serviceVars, TypeOK, ForwardTypeOK
<1>2. TypeOK'
  <2>1. written[e] < taken[Other(e)] + Window /\ Other(e) \in Ends
    BY OtherEnd DEF Write, Takes, TypeOK, ForwardTypeOK
  <2> QED
    BY <1>1, <2>1 DEF TypeOK, ForwardTypeOK
<1>3. Stages' /\ Closing' /\ DoneMeansBothClosed'
  BY <1>1 DEF Stages, Closing, DoneMeansBothClosed, Ended, ClosedFirst, Other
<1>4. written[e] # sent[e] /\ \A x \in Ends : x # e => written'[x] = written[x]
  BY <1>1 DEF TypeOK, ForwardTypeOK
<1>5. Culprit'
  BY <1>1, <1>4 DEF Culprit, Ended
<1> QED
  BY <1>2, <1>3, <1>5

(* A copy ends: of its own accord, with nothing left to write, or because a *)
(* peer has reset, or on a connection that the other goroutine has closed,  *)
(* and then Culprit held already.                                           *)
LEMMA CopyEndsIInv ==
    ASSUME NEW e \in Ends, IInv, CopyEnds(e), UNCHANGED serviceVars PROVE IInv'
<1> USE DEF IInv
<1>1. /\ UNCHANGED <<service, request, stage, answer, greeted, early, open, sent, peer, read, written, taken>>
      /\ stage = "up" /\ fwd[e] = "copy"
      /\ fwd' = [fwd EXCEPT ![e] = "closeFirst"]
  BY CopiesAreUp DEF CopyEnds, serviceVars
<1>2. TypeOK'
  BY <1>1 DEF TypeOK, ForwardTypeOK
<1>3. \A x \in Ends : fwd'[x] = IF x = e THEN "closeFirst" ELSE fwd[x]
  BY <1>1 DEF TypeOK, ForwardTypeOK
<1>4. Stages' /\ Closing' /\ DoneMeansBothClosed'
  BY <1>1, <1>3 DEF Stages, Closing, DoneMeansBothClosed, Ended, ClosedFirst, Other
<1>5. \E x \in Ends : peer[x] = "rst" \/ (peer[x] = "fin" /\ written[x] = sent[x])
  <2>1. CASE ~Holds(e) /\ peer[e] = "fin" /\ read[e] = sent[e]
    <3>1. written[e] = sent[e]
      BY <2>1 DEF Holds, TypeOK, ForwardTypeOK
    <3> QED
      BY <2>1, <3>1
  <2>2. CASE peer[e] = "rst" \/ peer[Other(e)] = "rst"
    BY <2>2, OtherEnd
  <2>3. CASE ~open[e] \/ ~open[Other(e)]
    BY <2>3, <1>1, OtherEnd DEF Closing, Culprit
  <2> QED
    BY <2>1, <2>2, <2>3 DEF CopyEnds
<1>6. Culprit'
  BY <1>1, <1>5 DEF Culprit
<1> QED
  BY <1>2, <1>4, <1>6

LEMMA CloseFirstIInv ==
    ASSUME NEW e \in Ends, IInv, CloseFirst(e, ClosedFirst(e)), UNCHANGED serviceVars
    PROVE  IInv'
<1> USE DEF IInv
<1>1. /\ UNCHANGED <<service, request, stage, answer, greeted, early, sent, peer, read, written, taken>>
      /\ stage = "up" /\ fwd[e] = "closeFirst"
      /\ fwd' = [fwd EXCEPT ![e] = "closeSecond"]
      /\ open' = [open EXCEPT ![ClosedFirst(e)] = FALSE]
  BY CopiesAreUp DEF CloseFirst, serviceVars
<1>2. TypeOK'
  BY <1>1, OtherEnd DEF TypeOK, ForwardTypeOK
<1>3. /\ \A x \in Ends : fwd'[x] = IF x = e THEN "closeSecond" ELSE fwd[x]
      /\ \A x \in Ends : open'[x] = (open[x] /\ x # ClosedFirst(e))
      /\ \A x \in Ends : ClosedFirst(x)' = ClosedFirst(x)
  BY <1>1, OtherEnd DEF TypeOK, ForwardTypeOK, ClosedFirst, Other
<1>4. Stages'
  BY <1>1, <1>3 DEF Stages
<1>5. Closing'
  <2>1. \A x \in Ends : fwd'[x] = "closeSecond" => ~open'[ClosedFirst(x)]
    BY <1>3, OtherEnd DEF Closing
  <2>2. fwd'[e] = "closeSecond"
    BY <1>3
  <2> QED
    BY <1>3, <2>1, <2>2 DEF Closing, Ended
<1>6. Culprit' /\ DoneMeansBothClosed'
  BY <1>1, <1>3, OtherEnd DEF Culprit, DoneMeansBothClosed, Ended
<1> QED
  BY <1>2, <1>4, <1>5, <1>6

LEMMA CloseSecondIInv ==
    ASSUME NEW e \in Ends, IInv, CloseSecond(e, ClosedFirst(e)), UNCHANGED serviceVars
    PROVE  IInv'
<1> USE DEF IInv
<1>1. /\ UNCHANGED <<service, request, stage, answer, greeted, early, sent, peer, read, written, taken>>
      /\ stage = "up" /\ fwd[e] = "closeSecond"
      /\ fwd' = [fwd EXCEPT ![e] = "done"]
      /\ open' = [open EXCEPT ![Other(ClosedFirst(e))] = FALSE]
  BY CopiesAreUp DEF CloseSecond, serviceVars
<1>2. TypeOK'
  BY <1>1, OtherEnd DEF TypeOK, ForwardTypeOK
<1>3. /\ \A x \in Ends : fwd'[x] = IF x = e THEN "done" ELSE fwd[x]
      /\ \A x \in Ends : open'[x] = (open[x] /\ x # Other(ClosedFirst(e)))
      /\ \A x \in Ends : ClosedFirst(x)' = ClosedFirst(x)
  BY <1>1, OtherEnd DEF TypeOK, ForwardTypeOK, ClosedFirst, Other
<1>4. Stages'
  BY <1>1, <1>3 DEF Stages
<1>5. Closing' /\ Culprit'
  BY <1>1, <1>3, OtherEnd DEF Closing, Culprit, Ended
<1>6. \A x \in Ends : ~open'[x]
  BY <1>1, <1>3, OtherEnd DEF Closing
<1>7. DoneMeansBothClosed'
  BY <1>6, OtherEnd DEF DoneMeansBothClosed
<1> QED
  BY <1>2, <1>4, <1>5, <1>7

LEMMA NextIInv == IInv /\ [Next]_vars => IInv'
<1> SUFFICES ASSUME IInv, [Next]_vars PROVE IInv'
  OBVIOUS
<1>1. CASE UNCHANGED vars
  BY <1>1 DEF vars, serviceVars, forwardVars, IInv, TypeOK, ForwardTypeOK, Stages, Closing,
              Culprit, DoneMeansBothClosed, Ended, ClosedFirst, Other
<1>2. CASE Resolved \/ EarlyData \/ RequestFails \/ Refuse \/ Accept \/ DialFails
  BY <1>2, HandlerIInv
<1>3. CASE Greet \/ GreetFails \/ Dialed \/ Finalized
  BY <1>3, GreetIInv, GreetFailsIInv, DialedIInv, FinalizedIInv
<1>4. ASSUME NEW e \in Ends, PeerStep(e) PROVE IInv'
  BY <1>4, PeerIInv
<1>5. ASSUME NEW e \in Ends, Forward(e) PROVE IInv'
  BY <1>5, ReadIInv, WriteIInv, CopyEndsIInv, CloseFirstIInv, CloseSecondIInv
     DEF Forward, Copy
<1> QED
  BY <1>1, <1>2, <1>3, <1>4, <1>5 DEF Next

LEMMA Invariance == Spec => []IInv
  BY InitIInv, NextIInv, PTL DEF Spec

-----------------------------------------------------------------------------
(* Every variable keeps to its type, and no copy writes more than it read   *)
(* or reads more than the peer sent (the io.Copy loops of routine.go and    *)
(* http.go).                                                                *)
THEOREM TypeCorrect == Spec => []TypeOK
<1>1. IInv => TypeOK
  BY DEF IInv
<1> QED
  BY <1>1, Invariance, PTL

(* The HTTP proxy copies nothing in a direction before it has written the   *)
(* 200 to the client or the GET to the target, whichever goes that way.     *)
THEOREM PreambleIsFirst == Spec => []PreambleFirst
<1>1. IInv => PreambleFirst
  BY DEF IInv, Stages, PreambleFirst
<1> QED
  BY <1>1, Invariance, PTL

(* However an attempt fails (resolution, request, credentials, dial or the  *)
(* write of the preamble), no connection to the target is left and no copy  *)
(* was started.                                                             *)
THEOREM NothingLeftAtTarget == Spec => []OverMeansNoTarget
<1>1. IInv => OverMeansNoTarget
  BY DEF IInv, Stages, OverMeansNoTarget
<1> QED
  BY <1>1, Invariance, PTL

(* Although the goroutine that ends first closes both connections under the *)
(* other one, a peer that finished with a FIN while the other peer had not  *)
(* ended loses none of what it sent.                                        *)
THEOREM FirstEndComplete == Spec => []FirstFinIsComplete
<1>1. IInv => FirstFinIsComplete
  BY OtherEnd DEF IInv, Culprit, FirstFinIsComplete
<1> QED
  BY <1>1, Invariance, PTL

(* When one of the two goroutines is done, neither connection of the pair   *)
(* is open, whichever of the two was closed first.                          *)
THEOREM BothClosed == Spec => []DoneMeansBothClosed
<1>1. IInv => DoneMeansBothClosed
  BY DEF IInv
<1> QED
  BY <1>1, Invariance, PTL

-----------------------------------------------------------------------------
(* Why the copies end.  A copy is doomed when its source has ended or was   *)
(* closed.  What it can still do is counted by Left: two steps per chunk it *)
(* has not read, one for a chunk it holds, and three to end and close.      *)
Doomed(e) == stage = "up" /\ (peer[e] # "sending" \/ ~open[e])

Left(e) ==
    CASE fwd[e] = "copy" -> 3 + (sent[e] - read[e]) + (sent[e] - written[e])
      [] fwd[e] = "closeFirst" -> 2
      [] fwd[e] = "closeSecond" -> 1
      [] OTHER -> 0

(* The guards of Read, Write, CopyEnds, CloseFirst and CloseSecond. *)
CanGoOn(e) ==
    \/ fwd[e] \in {"closeFirst", "closeSecond"}
    \/ /\ fwd[e] = "copy" /\ ~Holds(e)
       /\ \/ open[e] /\ peer[e] # "rst" /\ read[e] < sent[e]
          \/ peer[e] = "fin" /\ read[e] = sent[e]
          \/ peer[e] = "rst" \/ ~open[e]
    \/ /\ fwd[e] = "copy" /\ Holds(e)
       /\ WriteReturns(Other(e))

(* A doomed copy that is not done waits for at most one thing: that a write *)
(* to the other peer, which is connected and has not taken what was written *)
(* before, returns.  When one copy is done the other one is doomed too, and *)
(* waits for nothing, whatever the peers do.                                *)
PeerIsWaitedFor ==
    \A e \in Ends :
        /\ Doomed(e) /\ fwd[e] # "done" /\ ~CanGoOn(e) =>
            /\ fwd[e] = "copy" /\ Holds(e)
            /\ open[Other(e)] /\ peer[Other(e)] # "rst" /\ taken[Other(e)] < written[e]
        /\ fwd[e] = "done" =>
            Doomed(Other(e)) /\ (fwd[Other(e)] = "done" \/ CanGoOn(Other(e)))

(* No step revives a doomed copy or gives it more to do, and each of its    *)
(* own steps leaves less.                                                   *)
LessIsLeft ==
    \A e \in Ends : Doomed(e) =>
        /\ Doomed(e)' /\ Left(e)' <= Left(e)
        /\ Forward(e) => Left(e)' < Left(e)

LEMMA LeftIsNatural == IInv => \A e \in Ends : Left(e) \in Nat
BY DEF IInv, TypeOK, ForwardTypeOK, Left

LEMMA OwnStepLeavesLess ==
  ASSUME IInv, NEW e \in Ends, Doomed(e), Forward(e)
  PROVE  Doomed(e)' /\ Left(e)' < Left(e)
<1>. DEFINE first == ClosedFirst(e)
<1>0. first \in Ends /\ Other(first) \in Ends
  BY OtherEnd
<1>1. /\ sent[e] \in Nat /\ read[e] \in Nat /\ written[e] \in Nat
      /\ written[e] <= read[e] /\ read[e] <= sent[e]
  BY DEF IInv, TypeOK, ForwardTypeOK
<1>2. Doomed(e)'
  BY <1>0 DEF Doomed, Forward, Copy, Read, Write, CopyEnds, CloseFirst, CloseSecond, serviceVars,
              IInv, TypeOK, ForwardTypeOK
<1>3. CASE Read(e)
  <2>1. /\ fwd[e] = "copy" /\ fwd'[e] = "copy"
        /\ sent'[e] = sent[e] /\ read'[e] = read[e] + 1 /\ written'[e] = written[e]
    BY <1>3 DEF Read, IInv, TypeOK, ForwardTypeOK
  <2>. QED
    BY <1>1, <1>2, <2>1 DEF Left
<1>4. CASE Write(e)
  <2>1. /\ fwd[e] = "copy" /\ fwd'[e] = "copy"
        /\ sent'[e] = sent[e] /\ read'[e] = read[e] /\ written'[e] = written[e] + 1
    BY <1>4 DEF Write, IInv, TypeOK, ForwardTypeOK
  <2>. QED
    BY <1>1, <1>2, <2>1 DEF Left
<1>5. CASE CopyEnds(e)
  <2>1. fwd[e] = "copy" /\ fwd'[e] = "closeFirst"
    BY <1>5 DEF CopyEnds, IInv, TypeOK, ForwardTypeOK
  <2>. QED
    BY <1>1, <1>2, <2>1 DEF Left
<1>6. CASE CloseFirst(e, first) \/ CloseSecond(e, first)
  <2>1. \/ fwd[e] = "closeFirst" /\ fwd'[e] = "closeSecond"
        \/ fwd[e] = "closeSecond" /\ fwd'[e] = "done"
    BY <1>6 DEF CloseFirst, CloseSecond, IInv, TypeOK, ForwardTypeOK
  <2>. QED
    BY <1>2, <2>1 DEF Left
<1>. QED
  BY <1>2, <1>3, <1>4, <1>5, <1>6 DEF Forward, Copy

LEMMA OtherStepLeavesNoMore ==
  ASSUME IInv, NEW e \in Ends, Doomed(e), [Next]_vars, ~Forward(e)
  PROVE  Doomed(e)' /\ Left(e)' <= Left(e)
<1>0. stage = "up" /\ Left(e) \in Nat
  BY LeftIsNatural DEF Doomed
<1>1. CASE UNCHANGED vars
  BY <1>0, <1>1 DEF vars, serviceVars, forwardVars, Doomed, Left
<1>2. ASSUME NEW x \in Ends, PeerStep(x) PROVE Doomed(e)' /\ Left(e)' <= Left(e)
  <2>1. /\ UNCHANGED <<stage, open, read, written, fwd>>
        /\ peer'[e] = peer[e] \/ peer'[e] # "sending"
    BY <1>2 DEF PeerStep, PeerSends, PeerEnds, PeerTakes, serviceVars, IInv, TypeOK, ForwardTypeOK
  <2>2. sent'[e] = sent[e]
    BY <1>2 DEF Doomed, PeerStep, PeerSends, PeerEnds, PeerTakes, IInv, TypeOK, ForwardTypeOK
  <2>. QED
    BY <1>0, <2>1, <2>2 DEF Doomed, Left
<1>3. ASSUME NEW x \in Ends, x # e, Forward(x) PROVE Doomed(e)' /\ Left(e)' <= Left(e)
  <2>0. ClosedFirst(x) \in Ends /\ Other(ClosedFirst(x)) \in Ends
    BY OtherEnd
  <2>1. /\ UNCHANGED <<stage, sent, peer>>
        /\ read'[e] = read[e] /\ written'[e] = written[e] /\ fwd'[e] = fwd[e]
        /\ ~open[e] => ~open'[e]
    BY <1>3, <2>0 DEF Forward, Copy, Read, Write, CopyEnds, CloseFirst, CloseSecond, serviceVars,
              IInv, TypeOK, ForwardTypeOK
  <2>. QED
    BY <1>0, <2>1 DEF Doomed, Left
<1>4. ~(Resolved \/ EarlyData \/ RequestFails \/ Refuse \/ Accept \/ Greet \/ GreetFails
        \/ DialFails \/ Dialed \/ Finalized)
  BY <1>0 DEF Resolved, EarlyData, RequestFails, Refuse, Accept, Greet, GreetFails,
              DialFails, Dialed, Finalized
<1>. QED
  BY <1>1, <1>2, <1>3, <1>4 DEF Next

(* EndReleasesBoth rests on two facts that hold for any amount of data.     *)
(* First, the copy of a peer that ended waits, if at all, for the other     *)
(* peer to read, in a write without a deadline (routine.go:216), and for no *)
(* other goroutine; and the copy that is left when the other one is done    *)
(* waits for nobody: its connections were closed under it.                  *)
THEOREM CopiesWaitForPeersOnly == Spec => []PeerIsWaitedFor
<1>1. IInv => PeerIsWaitedFor
  <2>. SUFFICES ASSUME IInv, NEW e \in Ends
                PROVE  /\ Doomed(e) /\ fwd[e] # "done" /\ ~CanGoOn(e) =>
                           /\ fwd[e] = "copy" /\ Holds(e)
                           /\ open[Other(e)] /\ peer[Other(e)] # "rst"
                           /\ taken[Other(e)] < written[e]
                       /\ fwd[e] = "done" =>
                           Doomed(Other(e)) /\ (fwd[Other(e)] = "done" \/ CanGoOn(Other(e)))
    BY DEF PeerIsWaitedFor
  <2>0. Other(e) \in Ends /\ Other(Other(e)) = e
    BY OtherEnd
  <2>1. ASSUME NEW x \in Ends, Doomed(x), fwd[x] # "done", ~CanGoOn(x)
        PROVE  fwd[x] = "copy" /\ Holds(x) /\ ~WriteReturns(Other(x))
    BY <2>1 DEF CanGoOn, Doomed, Holds, IInv, TypeOK, ForwardTypeOK, Stages
  <2>2. ASSUME ~WriteReturns(Other(e))
        PROVE  /\ open[Other(e)] /\ peer[Other(e)] # "rst"
               /\ taken[Other(e)] < written[e]
    BY <2>0, <2>2 DEF WriteReturns, Takes, IInv, TypeOK, ForwardTypeOK
  <2>3. ASSUME fwd[e] = "done"
        PROVE  Doomed(Other(e)) /\ WriteReturns(e)
    BY <2>0, <2>3 DEF Doomed, WriteReturns, IInv, Stages, DoneMeansBothClosed
  <2>. QED
    BY <2>0, <2>1, <2>2, <2>3
<1>. QED
  BY <1>1, Invariance, PTL

(* Second, no copy of such a pair goes on for ever: each of its steps uses  *)
(* up some of what is left, and no other step adds to it, so that fair      *)
(* goroutines release the pair.                                             *)
THEOREM CopiesRunOut == Spec => [][LessIsLeft]_vars
<1>1. IInv /\ [Next]_vars => [LessIsLeft]_vars
  <2>. SUFFICES ASSUME IInv, [Next]_vars, NEW e \in Ends, Doomed(e)
                PROVE  /\ Doomed(e)' /\ Left(e)' <= Left(e)
                       /\ Forward(e) => Left(e)' < Left(e)
    BY DEF LessIsLeft
  <2>1. CASE Forward(e)
    <3>1. Doomed(e)' /\ Left(e)' < Left(e)
      BY <2>1, OwnStepLeavesLess
    <3>2. IInv'
      BY NextIInv
    <3>3. Left(e) \in Nat /\ Left(e)' \in Nat
      BY <3>2, LeftIsNatural DEF IInv, TypeOK, ForwardTypeOK, Left
    <3>. QED
      BY <3>1, <3>3
  <2>2. CASE ~Forward(e)
    BY <2>2, OtherStepLeavesNoMore
  <2>. QED
    BY <2>1, <2>2
<1>. QED
  BY <1>1, Invariance, PTL DEF Spec
=============================================================================
