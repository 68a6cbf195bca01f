------------------------- MODULE RotatingSocketProofs -------------------------
(***************************************************************************)
(* Theorems about RotatingSocket, for every size of the queue and of the   *)
(* Node socket's buffer.  What AsyncQueueProofs shows of the queue is used *)
(* here: each step of the socket is a step of its queue or leaves it alone.*)
(***************************************************************************)
EXTENDS RotatingSocket, TLAPS

QP == INSTANCE AsyncQueueProofs

(* Before connect() has succeeded there is nothing but a queue. *)
Lifecycle ==
    /\ conn = "up" <=> node # "none"
    /\ conn # "up" => /\ socket = "null" /\ reader = "off" /\ sender = "off"
                      /\ ~flowing /\ ~paused
    /\ socket = "set" => node = "open"

(* The queue is closed by the event 'close' and by nothing else, once the   *)
(* server ended, and after a FIN only when every chunk was put into it.     *)
Chunks ==
    /\ closed <=> node = "closed"
    /\ closed => srvEnd # "none"
    /\ arrived + buffered <= srvSent
    /\ closed /\ srvEnd # "rst" => arrived = srvSent

Writes == sender = "writing" => resolved < sends

(* The inductive invariant. *)
IInv ==
    /\ QP!IInv
    /\ TypeOK
    /\ Lifecycle
    /\ Chunks
    /\ Writes
    /\ PauseAgrees
    /\ DroppedSocketIsEnded

-----------------------------------------------------------------------------
(* The queue's own theorem, for the queue inside the socket. *)
LEMMA QueueInit == Q!Init => QP!IInv
<1>1. Q!Init => QP!Init
  BY DEF Q!Init, QP!Init
<1> QED
  BY <1>1, QP!InitIInv, SizesAssumption DEF SizesAssumption, QP!InitIInv

LEMMA QueueStepIInv ==
    ASSUME QP!IInv, Q!Next \/ UNCHANGED queueVars
    PROVE  QP!IInv'
<1>1. Q!Put => QP!Put
  BY DEF Q!Put, QP!Put, Q!put_now, QP!put_now, Q!Woken, QP!Woken
<1>2. Q!PutResume => QP!PutResume
  BY DEF Q!PutResume, QP!PutResume, Q!put_now, QP!put_now, Q!Woken, QP!Woken
<1>3. Q!get_now => QP!get_now
  BY DEF Q!get_now, QP!get_now, Q!WakeFirstPut, QP!WakeFirstPut
<1>4. Q!Get => QP!Get
  BY <1>3 DEF Q!Get, QP!Get
<1>5. Q!GetResume => QP!GetResume
  BY <1>3 DEF Q!GetResume, QP!GetResume
<1>6. Q!Close => QP!Close
  BY DEF Q!Close, QP!Close, Q!Woken, QP!Woken
<1>7. [QP!Next]_(QP!vars)
  BY <1>1, <1>2, <1>4, <1>5, <1>6 DEF Q!Next, QP!Next, QP!vars, queueVars
<1> QED
  BY <1>7, QP!NextIInv, SizesAssumption DEF SizesAssumption, QP!NextIInv

LEMMA QueueFacts ==
    ASSUME QP!IInv
    PROVE  /\ Q!TypeOK
           /\ ended => closed /\ Len(delivered) = arrived
BY DEF QP!IInv, QP!TypeOK, Q!TypeOK, QP!EndIsComplete

(* What a step of the queue does to the counters of the socket. *)
LEMMA QueueCounters ==
    /\ Q!Put => UNCHANGED closed /\ arrived' = arrived + 1
    /\ Q!PutResume \/ Q!Get \/ Q!GetResume => UNCHANGED <<closed, arrived>>
    /\ Q!Close => closed' = TRUE /\ UNCHANGED arrived
BY DEF Q!Put, Q!PutResume, Q!Get, Q!GetResume, Q!Close

(* Closing the stream ends the socket, if there is one. *)
LEMMA StreamCloses ==
    ASSUME CloseStream, socket \in {"null", "set"}, stream \in {"open", "closed"},
           endCalled \in BOOLEAN
    PROVE  /\ socket' \in {"null", "set"} /\ stream' \in {"open", "closed"}
           /\ endCalled' \in BOOLEAN
           /\ UNCHANGED <<socket, endCalled>> \/ (socket' = "null" /\ endCalled')
BY DEF CloseStream, close

-----------------------------------------------------------------------------
LEMMA InitIInv == Init => IInv
<1> SUFFICES ASSUME Init PROVE IInv
  OBVIOUS
<1>1. QP!IInv
  BY QueueInit DEF Init
<1>2. arrived = 0 /\ closed = FALSE
  BY DEF Init, Q!Init
<1>3. TypeOK
  <2>1. Q!TypeOK
    BY <1>1, QueueFacts
  <2>2. MaxChunks \in Nat /\ MaxSends \in Nat /\ HighWater \in Nat
    BY SizesAssumption, HighWaterAssumption DEF SizesAssumption, HighWaterAssumption
  <2>3. /\ buffered \in 0..HighWater /\ srvSent \in 0..MaxChunks
        /\ sends \in 0..MaxSends /\ accepted \in 0..resolved /\ resolved \in 0..sends
    BY <2>2 DEF Init
  <2> QED
    BY <2>1, <2>3 DEF Init, TypeOK
<1>4. Lifecycle /\ Chunks /\ Writes /\ PauseAgrees /\ DroppedSocketIsEnded
  BY <1>2 DEF Init, Lifecycle, Chunks, Writes, PauseAgrees, DroppedSocketIsEnded
<1> QED
  BY <1>1, <1>3, <1>4 DEF IInv

(* The part of the invariant, and of the types, that is not the queue's.    *)
Rest == Lifecycle /\ Chunks /\ Writes /\ PauseAgrees /\ DroppedSocketIsEnded

SocketTypes ==
    /\ conn \in {"dialing", "up", "failed"}
    /\ socket \in {"null", "set"}
    /\ paused \in BOOLEAN /\ flowing \in BOOLEAN /\ endCalled \in BOOLEAN
    /\ node \in {"none", "open", "closed"}
    /\ buffered \in 0..HighWater
    /\ srvSent \in 0..MaxChunks /\ srvEnd \in {"none", "fin", "rst"}
    /\ stream \in {"open", "closed"}
    /\ reader \in {"off", "recv", "got", "sending", "done"}
    /\ sender \in {"off", "idle", "writing", "stopped"}
    /\ sends \in 0..MaxSends /\ accepted \in 0..resolved /\ resolved \in 0..sends

LEMMA QueueOfStep == IInv /\ [Next]_vars => QP!IInv'
<1> SUFFICES ASSUME IInv, [Next]_vars PROVE QP!IInv'
  OBVIOUS
<1>1. Q!Next \/ UNCHANGED queueVars
  BY DEF Next, vars, Q!Next, Connected, ConnectFails, ServerSends, ServerEnds, NodeData,
         NodeReadAhead, CloseEvent, ResetEvent, QueueStep, Recv, Pause, Resume,
         EndOfStream, ClientCloses, Send, WriteDone, SenderStops
<1> QED
  BY <1>1, QueueStepIInv DEF IInv

(* One step per action. *)
LEMMA RestOfStep == IInv /\ Next => SocketTypes' /\ Rest'
<1> SUFFICES ASSUME IInv, Next PROVE SocketTypes' /\ Rest'
  OBVIOUS
<1> USE DEF Rest, SocketTypes
<1>0. /\ SocketTypes /\ Rest /\ arrived \in Nat /\ closed \in BOOLEAN
      /\ MaxChunks \in Nat /\ MaxSends \in Nat /\ HighWater \in Nat
  BY SizesAssumption, HighWaterAssumption
     DEF IInv, TypeOK, Q!TypeOK, SizesAssumption, HighWaterAssumption
<1> USE <1>0
<1>1. CASE Connected
  BY <1>1 DEF Connected, queueVars, serverVars, Lifecycle, Chunks, Writes, PauseAgrees,
              DroppedSocketIsEnded
<1>2. CASE ConnectFails
  BY <1>2 DEF ConnectFails, CloseStream, close, queueVars, serverVars, sendVars, Lifecycle,
              Chunks, Writes, PauseAgrees, DroppedSocketIsEnded
<1>3. CASE ServerSends
  BY <1>3 DEF ServerSends, queueVars, nodeVars, sendVars, Lifecycle, Chunks, Writes,
              PauseAgrees, DroppedSocketIsEnded
<1>4. CASE ServerEnds
  BY <1>4 DEF ServerEnds, queueVars, nodeVars, sendVars, Lifecycle, Chunks, Writes,
              PauseAgrees, DroppedSocketIsEnded
<1>5. CASE NodeData
  <2>1. arrived' = arrived + 1 /\ UNCHANGED closed
    BY <1>5, QueueCounters DEF NodeData
  <2> QED
    BY <1>5, <2>1 DEF NodeData, InKernel, serverVars, sendVars, Lifecycle, Chunks, Writes,
                      PauseAgrees, DroppedSocketIsEnded
<1>6. CASE NodeReadAhead
  BY <1>6 DEF NodeReadAhead, InKernel, queueVars, serverVars, sendVars, Lifecycle, Chunks,
              Writes, PauseAgrees, DroppedSocketIsEnded
<1>7. CASE CloseEvent
  <2>1. closed' = TRUE /\ UNCHANGED arrived
    BY <1>7, QueueCounters DEF CloseEvent
  <2> QED
    BY <1>7, <2>1 DEF CloseEvent, InKernel, serverVars, sendVars, Lifecycle, Chunks, Writes,
                      PauseAgrees, DroppedSocketIsEnded
<1>8. CASE ResetEvent
  <2>1. closed' = TRUE /\ UNCHANGED arrived
    BY <1>8, QueueCounters DEF ResetEvent
  <2> QED
    BY <1>8, <2>1 DEF ResetEvent, serverVars, Lifecycle, Chunks, Writes, PauseAgrees,
                      DroppedSocketIsEnded
<1>9. CASE QueueStep
  <2>1. UNCHANGED <<closed, arrived>>
    BY <1>9, QueueCounters DEF QueueStep
  <2> QED
    BY <1>9, <2>1 DEF QueueStep, nodeVars, serverVars, sendVars, Lifecycle, Chunks, Writes,
                      PauseAgrees, DroppedSocketIsEnded
<1>10. CASE Recv
  <2>1. UNCHANGED <<closed, arrived>>
    BY <1>10, QueueCounters DEF Recv
  <2>2. reader = "recv" /\ reader' \in {"got", "recv"}
    BY <1>10 DEF Recv
  <2>3. UNCHANGED <<conn, socket, paused, nodeVars, serverVars, stream, sendVars>>
    BY <1>10 DEF Recv
  <2> QED
    BY <2>1, <2>2, <2>3 DEF nodeVars, serverVars, sendVars, Lifecycle, Chunks, Writes,
                            PauseAgrees, DroppedSocketIsEnded
<1>11. CASE Pause
  BY <1>11 DEF Pause, pause, queueVars, serverVars, sendVars, Lifecycle, Chunks, Writes,
               PauseAgrees, DroppedSocketIsEnded
<1>12. CASE Resume
  BY <1>12 DEF Resume, resume, queueVars, serverVars, sendVars, Lifecycle, Chunks, Writes,
               PauseAgrees, DroppedSocketIsEnded
<1>13. CASE EndOfStream
  <2>1. CloseStream
    BY <1>13 DEF EndOfStream
  <2>2. /\ socket' \in {"null", "set"} /\ stream' \in {"open", "closed"}
        /\ endCalled' \in BOOLEAN
        /\ UNCHANGED <<socket, endCalled>> \/ (socket' = "null" /\ endCalled')
    BY <2>1, StreamCloses
  <2> QED
    BY <1>13, <2>2 DEF EndOfStream, queueVars, serverVars, sendVars, Lifecycle, Chunks, Writes,
                       PauseAgrees, DroppedSocketIsEnded
<1>14. CASE ClientCloses
  <2>1. CloseStream
    BY <1>14 DEF ClientCloses
  <2>2. /\ socket' \in {"null", "set"} /\ stream' \in {"open", "closed"}
        /\ endCalled' \in BOOLEAN
        /\ UNCHANGED <<socket, endCalled>> \/ (socket' = "null" /\ endCalled')
    BY <2>1, StreamCloses
  <2> QED
    BY <1>14, <2>2 DEF ClientCloses, queueVars, serverVars, sendVars, Lifecycle, Chunks, Writes,
                       PauseAgrees, DroppedSocketIsEnded
<1>15. CASE Send
  BY <1>15 DEF Send, CloseStream, close, queueVars, serverVars, Lifecycle, Chunks, Writes,
               PauseAgrees, DroppedSocketIsEnded
<1>16. CASE WriteDone
  <2>1. /\ accepted \in Nat /\ resolved \in Nat /\ sends \in Nat
        /\ accepted <= resolved /\ resolved < sends
    BY <1>16 DEF WriteDone, Writes
  <2>2. accepted' \in 0..resolved' /\ resolved' \in 0..sends'
    BY <1>16, <2>1 DEF WriteDone
  <2> QED
    BY <1>16, <2>2 DEF WriteDone, queueVars, nodeVars, serverVars, Lifecycle, Chunks, Writes,
               PauseAgrees, DroppedSocketIsEnded
<1>17. CASE SenderStops
  BY <1>17 DEF SenderStops, queueVars, nodeVars, serverVars, Lifecycle, Chunks, Writes,
               PauseAgrees, DroppedSocketIsEnded
<1> QED
  BY <1>1, <1>2, <1>3, <1>4, <1>5, <1>6, <1>7, <1>8, <1>9, <1>10, <1>11, <1>12, <1>13,
     <1>14, <1>15, <1>16, <1>17 DEF Next

LEMMA NextIInv == IInv /\ [Next]_vars => IInv'
<1> SUFFICES ASSUME IInv, [Next]_vars PROVE IInv'
  OBVIOUS
<1>1. QP!IInv'
  BY QueueOfStep
<1>2. Q!TypeOK'
  BY <1>1 DEF QP!IInv, QP!TypeOK, Q!TypeOK
<1>3. CASE Next
  BY <1>1, <1>2, <1>3, RestOfStep DEF IInv, TypeOK, SocketTypes, Rest
<1>4. CASE UNCHANGED vars
  <2>1. SocketTypes' /\ Rest'
    BY <1>4 DEF IInv, vars, queueVars, nodeVars, serverVars, sendVars, TypeOK, SocketTypes,
                Rest, Lifecycle, Chunks, Writes, PauseAgrees, DroppedSocketIsEnded
  <2> QED
    BY <1>1, <1>2, <2>1 DEF IInv, TypeOK, SocketTypes, Rest
<1> QED
  BY <1>3, <1>4

(* The invariant that carries the theorems below. *)
THEOREM Invariant == Spec => []IInv
BY InitIInv, NextIInv, PTL DEF Spec

-----------------------------------------------------------------------------
(* Every variable keeps its type; no write is resolved that was not asked   *)
(* for, and none more often than once (send(), lines 130-138).              *)
THEOREM TypeCorrect == Spec => []TypeOK
<1>1. IInv => TypeOK
  BY DEF IInv
<1> QED
  BY <1>1, Invariant, PTL

(* The browser that is told the end after a FIN has all that was sent       *)
(* (connect(), lines 97-121).                                               *)
THEOREM FinCompletes == Spec => []FinIsComplete
<1>1. IInv => FinIsComplete
  BY QueueFacts DEF IInv, Chunks, FinIsComplete
<1> QED
  BY <1>1, Invariant, PTL

(* this.paused tells the truth about the socket, and the reader never waits *)
(* for a socket that is paused (pause() and resume()).                      *)
THEOREM PauseIsTrue == Spec => []PauseAgrees
<1>1. IInv => PauseAgrees
  BY DEF IInv
<1> QED
  BY <1>1, Invariant, PTL

(* No connected socket is dropped without end() (close(), lines 123-128).   *)
THEOREM DroppedIsEnded == Spec => []DroppedSocketIsEnded
<1>1. IInv => DroppedSocketIsEnded
  BY DEF IInv
<1> QED
  BY <1>1, Invariant, PTL

-----------------------------------------------------------------------------
(* The refinement of ProxiedStream.  What a call of recv() takes from the   *)
(* queue is the next chunk, if it takes one.                                *)
LEMMA QueueReceives ==
  ASSUME QP!IInv, Q!Get \/ Q!GetResume
  PROVE  \/ UNCHANGED delivered
         \/ /\ Len(delivered) < arrived
            /\ delivered' = Append(delivered, Len(delivered) + 1)
<1>1. QP!Get \/ QP!GetResume
  BY DEF Q!Get, QP!Get, Q!GetResume, QP!GetResume, Q!get_now, QP!get_now,
         Q!WakeFirstPut, QP!WakeFirstPut
<1>2. QP!IInv'
  BY QueueStepIInv DEF Q!Next
<1>3. [QP!Channel!Next]_(QP!Channel!vars)
  BY <1>1, <1>2, QP!StepRefines, SizesAssumption DEF QP!Next, SizesAssumption, QP!StepRefines
<1>. QED
  BY <1>3 DEF QP!Channel!Next, QP!Channel!vars, QP!Channel!Send, QP!Channel!Close,
              QP!Channel!Receive, QP!Channel!End

LEMMA QueueKeepsDelivered ==
  Q!Put \/ Q!PutResume \/ Q!Close => UNCHANGED delivered
BY DEF Q!Put, Q!PutResume, Q!Close

LEMMA InitRefines == Init => Proxied!Init
BY DEF Init, Q!Init, Proxied!Init

LEMMA RecvRefines == IInv /\ Recv => [Proxied!Receive]_(Proxied!vars)
<1>. SUFFICES ASSUME IInv, Recv PROVE [Proxied!Receive]_(Proxied!vars)
  OBVIOUS
<1>1. \/ UNCHANGED delivered
      \/ Len(delivered) < arrived /\ delivered' = Append(delivered, Len(delivered) + 1)
  BY QueueReceives DEF IInv, Recv
<1>2. UNCHANGED <<srvSent, srvEnd, stream>> /\ reader = "recv" /\ reader' \in {"recv", "got"}
  BY DEF Recv, serverVars
<1>3. Len(delivered) < arrived => Len(delivered) < srvSent
  BY DEF IInv, TypeOK, Q!TypeOK, Chunks
<1>. QED
  BY <1>1, <1>2, <1>3 DEF Proxied!Receive, Proxied!CanReceive, Proxied!vars

(* The reader is told the end when the queue is closed and empty.           *)
LEMMA EndRefines == IInv /\ EndOfStream => Proxied!End
<1>. SUFFICES ASSUME IInv, EndOfStream PROVE Proxied!End
  OBVIOUS
<1>1. /\ reader = "recv" /\ reader' = "done" /\ ended
      /\ UNCHANGED <<srvSent, srvEnd, delivered>>
  BY DEF EndOfStream, queueVars, serverVars
<1>2. stream' # "open"
  BY DEF EndOfStream, CloseStream
<1>3. closed /\ Len(delivered) = arrived
  BY <1>1, QueueFacts DEF IInv
<1>4. srvEnd = "rst" \/ (srvEnd = "fin" /\ Len(delivered) = srvSent)
  BY <1>3 DEF IInv, TypeOK, Chunks
<1>. QED
  BY <1>1, <1>2, <1>4 DEF Proxied!End, Proxied!CanEnd

LEMMA CloseRefines ==
  ASSUME CloseStream, stream \in {"open", "closed"},
         UNCHANGED <<srvSent, srvEnd, delivered, reader>>
  PROVE  [Proxied!Close]_(Proxied!vars)
BY DEF CloseStream, Proxied!Close, Proxied!vars

LEMMA StepRefines == IInv /\ [Next]_vars => [Proxied!Next]_(Proxied!vars)
<1>. SUFFICES ASSUME IInv, [Next]_vars PROVE [Proxied!Next]_(Proxied!vars)
  OBVIOUS
<1>0. stream \in {"open", "closed"}
  BY DEF IInv, TypeOK
<1>1. CASE Recv
  BY <1>1, RecvRefines DEF Proxied!Next
<1>2. CASE EndOfStream
  BY <1>2, EndRefines DEF Proxied!Next
<1>3. CASE ServerSends
  BY <1>3 DEF ServerSends, queueVars, Proxied!Next, Proxied!Send
<1>4. CASE ServerEnds
  BY <1>4 DEF ServerEnds, queueVars, Proxied!Next, Proxied!Finish
<1>5. CASE ClientCloses \/ ConnectFails
  <2>1. CloseStream /\ UNCHANGED <<srvSent, srvEnd, delivered, reader>>
    BY <1>5 DEF ClientCloses, ConnectFails, queueVars, serverVars
  <2>. QED
    BY <1>0, <2>1, CloseRefines DEF Proxied!Next
<1>6. CASE Send
  <2>1. UNCHANGED <<srvSent, srvEnd, delivered, reader>>
    BY <1>6 DEF Send, queueVars, serverVars
  <2>2. UNCHANGED stream \/ CloseStream
    BY <1>6 DEF Send
  <2>. QED
    BY <1>0, <2>1, <2>2, CloseRefines DEF Proxied!Next, Proxied!vars
<1>7. CASE Connected
  <2>1. reader # "done" /\ reader' # "done"
    BY <1>7 DEF Connected, IInv, Lifecycle
  <2>. QED
    BY <1>7, <2>1 DEF Connected, queueVars, serverVars, Proxied!vars
<1>8. CASE NodeData \/ NodeReadAhead \/ CloseEvent \/ ResetEvent \/ QueueStep
  <2>1. UNCHANGED <<srvSent, srvEnd, stream, reader>>
    BY <1>8 DEF NodeData, NodeReadAhead, CloseEvent, ResetEvent, QueueStep, serverVars
  <2>2. UNCHANGED delivered
    BY <1>8, QueueKeepsDelivered
       DEF NodeData, NodeReadAhead, CloseEvent, ResetEvent, QueueStep, queueVars
  <2>. QED
    BY <2>1, <2>2 DEF Proxied!vars
<1>9. CASE Pause \/ Resume
  <2>1. /\ UNCHANGED <<srvSent, srvEnd, stream, delivered>>
        /\ reader # "done" /\ reader' # "done"
    BY <1>9 DEF Pause, Resume, queueVars, serverVars
  <2>. QED
    BY <2>1 DEF Proxied!vars
<1>10. CASE WriteDone \/ SenderStops
  BY <1>10 DEF WriteDone, SenderStops, queueVars, serverVars, Proxied!vars
<1>11. CASE UNCHANGED vars
  BY <1>11 DEF vars, queueVars, serverVars, Proxied!vars
<1>. QED
  BY <1>1, <1>2, <1>3, <1>4, <1>5, <1>6, <1>7, <1>8, <1>9, <1>10, <1>11 DEF Next

(* From the server to the browser nothing is invented, repeated, reordered  *)
(* or, before an end that follows a FIN, lost: the safety part of           *)
(* ImplementsProxiedStream (socksTcpSocket.js:97-153).                      *)
THEOREM SocketImplementsProxiedStream == Spec => Proxied!SafeSpec
BY InitRefines, StepRefines, Invariant, PTL DEF Spec, Proxied!SafeSpec

-----------------------------------------------------------------------------
(* Nobody waits for somebody who waits.  An open stream has its socket, and *)
(* only the loop in recv() waits for the queue.                             *)
Attached ==
    /\ stream = "open" /\ node = "open" => socket = "set"
    /\ reader # "recv" => getter = "none"
    /\ conn = "up" => reader # "off"

(* There is something the browser has not got: a chunk or the end. *)
Outstanding == reader # "done" /\ (Len(delivered) < srvSent \/ srvEnd # "none")

(* Guards of the steps that Fairness promises: the Node socket goes on, ... *)
NodeCanGoOn ==
    /\ node = "open" /\ Macrotask
    /\ \/ flowing /\ (buffered > 0 \/ InKernel > 0) /\ ~closed /\ arrived < MaxChunks
       \/ srvEnd = "fin" /\ InKernel = 0 /\ buffered = 0 /\ sender # "writing" /\ ~closed
       \/ flowing /\ srvEnd = "rst" /\ InKernel = 0 /\ buffered = 0 /\ ~closed

(* ... or the loop to the browser or the queue does. *)
LoopCanGoOn ==
    \/ put_ready # <<>>
    \/ reader = "recv" /\ (getter = "ready" \/ (getter = "none" /\ ~ended) \/ ended)
    \/ reader = "got" /\ put_ready = <<>>

(* The others are waited for only if they do not take what is sent to them: *)
(* the browser at any time, the server only for the event 'close', when the *)
(* browser has everything.                                                  *)
WaitsForBrowser == reader = "sending"
WaitsForServer == sender = "writing" /\ srvEnd = "fin" /\ Len(delivered) = srvSent

(* As long as the browser keeps the stream and is owed something, the proxy *)
(* can go on or waits for a send to complete: the socket is not paused with *)
(* nobody to resume it, the queue not full with a reader that sleeps, the   *)
(* end not behind data that waits.                                          *)
NeverStuck ==
    conn = "up" /\ stream = "open" /\ Outstanding
        => NodeCanGoOn \/ LoopCanGoOn \/ WaitsForBrowser \/ WaitsForServer

LEMMA AttachedInit == Init => Attached
BY DEF Init, Q!Init, Attached

LEMMA QueueGetter ==
  ASSUME QP!IInv
  PROVE  /\ Q!Put \/ Q!PutResume \/ Q!Close => (getter = "none" => getter' = "none")
         /\ Q!Get \/ Q!GetResume => (delivered' # delivered => getter' = "none")
         /\ ended => getter = "none"
BY DEF QP!IInv, QP!TypeOK, Q!Put, Q!PutResume, Q!Close, Q!put_now, Q!Woken, Q!Get, Q!GetResume,
       Q!get_now

LEMMA AttachedNext == IInv /\ Attached /\ [Next]_vars => Attached'
<1>. SUFFICES ASSUME IInv, Attached, [Next]_vars PROVE Attached'
  OBVIOUS
<1>. USE DEF Attached
<1>0. /\ stream \in {"open", "closed"} /\ node \in {"none", "open", "closed"}
      /\ conn \in {"dialing", "up", "failed"}
      /\ conn = "up" <=> node # "none"
      /\ QP!IInv
  BY DEF IInv, TypeOK, Lifecycle
<1>1. CASE Recv
  <2>1. reader' \in {"got", "recv"} /\ (reader' = "got" => delivered' # delivered)
    BY <1>1 DEF Recv
  <2>2. reader' # "recv" => getter' = "none"
    BY <1>0, <1>1, <2>1, QueueGetter DEF Recv
  <2>. QED
    BY <1>1, <2>1, <2>2 DEF Recv, nodeVars
<1>2. CASE EndOfStream
  <2>1. getter = "none" /\ UNCHANGED <<getter, node, conn>> /\ stream' = "closed" /\ reader' = "done"
    BY <1>0, <1>2, QueueGetter DEF EndOfStream, CloseStream, queueVars
  <2>. QED
    BY <2>1
<1>3. CASE NodeData \/ CloseEvent \/ ResetEvent \/ QueueStep
  <2>1. UNCHANGED <<stream, reader, conn>> /\ (getter = "none" => getter' = "none")
    BY <1>0, <1>3, QueueGetter DEF NodeData, CloseEvent, ResetEvent, QueueStep
  <2>2. (node' = node /\ socket' = socket) \/ node' = "closed"
    BY <1>3 DEF NodeData, CloseEvent, ResetEvent, QueueStep, nodeVars
  <2>. QED
    BY <2>1, <2>2
<1>4. CASE Connected
  BY <1>4 DEF Connected, queueVars
<1>5. CASE ClientCloses \/ ConnectFails
  BY <1>0, <1>5 DEF ClientCloses, ConnectFails, CloseStream, queueVars
<1>6. CASE Send
  BY <1>0, <1>6 DEF Send, CloseStream, queueVars
<1>7. CASE Pause \/ Resume
  BY <1>7 DEF Pause, Resume, queueVars
<1>8. CASE ServerSends \/ ServerEnds \/ NodeReadAhead \/ WriteDone \/ SenderStops
  BY <1>8 DEF ServerSends, ServerEnds, NodeReadAhead, WriteDone, SenderStops, queueVars, nodeVars
<1>9. CASE UNCHANGED vars
  BY <1>9 DEF vars, queueVars, nodeVars
<1>. QED
  BY <1>1, <1>2, <1>3, <1>4, <1>5, <1>6, <1>7, <1>8, <1>9 DEF Next

LEMMA StuckNowhere == IInv /\ Attached => NeverStuck
<1>. SUFFICES ASSUME IInv, Attached, conn = "up", stream = "open", Outstanding,
                     ~LoopCanGoOn, ~WaitsForBrowser, ~WaitsForServer
              PROVE  NodeCanGoOn
  BY DEF NeverStuck
<1>1. /\ put_ready = <<>> /\ reader = "recv" /\ ~ended /\ getter = "waiting"
  BY DEF LoopCanGoOn, WaitsForBrowser, Macrotask, Outstanding, Attached, IInv, TypeOK, Q!TypeOK
<1>2. /\ queue = <<>> /\ put_callbacks = <<>> /\ ~closed
      /\ arrived = Len(delivered)
  BY <1>1 DEF IInv, QP!IInv, QP!NoLostWakeup, QP!InOrder, QP!TypeOK
<1>3. node = "open" /\ socket = "set"
  BY <1>2 DEF IInv, TypeOK, Lifecycle, Chunks, Attached
<1>4. flowing
  BY <1>1, <1>3 DEF IInv, TypeOK, PauseAgrees
<1>5. Macrotask
  BY <1>1 DEF Macrotask
<1>6. /\ arrived \in Nat /\ buffered \in Nat /\ srvSent \in Nat /\ MaxChunks \in Nat
      /\ arrived + buffered <= srvSent /\ srvSent <= MaxChunks
  BY SizesAssumption DEF IInv, TypeOK, Q!TypeOK, Chunks, SizesAssumption
<1>7. CASE Len(delivered) < srvSent
  <2>1. buffered > 0 \/ InKernel > 0
    BY <1>2, <1>6, <1>7 DEF InKernel
  <2>. QED
    BY <1>2, <1>3, <1>4, <1>5, <1>6, <1>7, <2>1 DEF NodeCanGoOn
<1>8. CASE ~(Len(delivered) < srvSent)
  <2>1. InKernel = 0 /\ buffered = 0
    BY <1>2, <1>6, <1>8 DEF InKernel
  <2>2. srvEnd = "rst" \/ (srvEnd = "fin" /\ sender # "writing")
    BY <1>2, <1>3, <1>6, <1>8 DEF Outstanding, WaitsForServer, IInv, TypeOK, Chunks
  <2>. QED
    BY <1>2, <1>3, <1>4, <1>5, <2>1, <2>2 DEF NodeCanGoOn
<1>. QED
  BY <1>7, <1>8

(* For every size of the queue and of the buffer of the Node socket, there  *)
(* is no deadlock between put(), get(), pause(), resume() and the events.   *)
THEOREM NobodyIsStuck == Spec => []NeverStuck
BY AttachedInit, AttachedNext, StuckNowhere, Invariant, PTL DEF Spec
=============================================================================
