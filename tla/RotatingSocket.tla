---------------------------- MODULE RotatingSocket ----------------------------
(***************************************************************************)
(* One TCP stream of a browser: class RotatingSocksTCPSocket of            *)
(* src/socksTcpSocket.js between two things that are not in the            *)
(* repository.  On one side the Node socket it wraps: it reads what the    *)
(* server sends, emits 'data' while it flows, keeps up to HighWater chunks *)
(* in its own buffer while it is paused, and emits 'close' after the       *)
(* server's FIN has been read or when the connection breaks.  On the other *)
(* side the two loops of the wisp server: one forwards chunks to the       *)
(* browser (recv, pause, send, resume), one writes the browser's chunks to *)
(* the socket.  The queue in the middle is AsyncQueue.                     *)
(***************************************************************************)
EXTENDS Naturals, Sequences

CONSTANTS
    MaxSize,    \* recv_buffer_size
    MaxChunks,  \* bound: chunks the server sends
    MaxSends,   \* bound: chunks the browser sends
    HighWater   \* chunks a paused Node socket still reads ahead

ASSUME SizesAssumption == MaxSize \in Nat /\ MaxChunks \in Nat /\ MaxSends \in Nat
ASSUME HighWaterAssumption == HighWater \in Nat \ {0}

VARIABLES
    queue, put_callbacks, put_ready, getter, closed, arrived, delivered, ended,
               \* the state of data_queue, see AsyncQueue
    conn,      \* "dialing", "up" or "failed": how far connect() is
    socket,    \* this.socket: "null" or "set"
    paused,    \* this.paused
    node,      \* the Node socket: "none", "open" or "closed"
    flowing,   \* the Node socket emits 'data'
    buffered,  \* chunks that the paused Node socket has read ahead
    endCalled, \* socket.end() was called
    srvSent,   \* chunks the server has sent
    srvEnd,    \* how the server ended: "none", "fin" or "rst"
    stream,    \* the wisp stream: "open" or "closed"
    reader,    \* loop to the browser: "off", "recv", "got", "sending", "done"
    sender,    \* loop to the server: "off", "idle", "writing", "stopped"
    sends,     \* calls of send()
    resolved,  \* calls of send() whose promise was resolved
    accepted   \* chunks that the kernel took

queueVars == <<queue, put_callbacks, put_ready, getter, closed, arrived, delivered, ended>>
nodeVars == <<node, flowing, buffered, endCalled>>
serverVars == <<srvSent, srvEnd>>
sendVars == <<sender, sends, resolved, accepted>>
vars == <<queueVars, conn, socket, paused, nodeVars, serverVars, stream, reader, sendVars>>

Q == INSTANCE AsyncQueue

Init ==
    /\ Q!Init
    /\ conn = "dialing" /\ socket = "null" /\ paused = FALSE
    /\ node = "none" /\ flowing = FALSE /\ buffered = 0 /\ endCalled = FALSE
    /\ srvSent = 0 /\ srvEnd = "none"
    /\ stream = "open" /\ reader = "off"
    /\ sender = "off" /\ sends = 0 /\ resolved = 0 /\ accepted = 0

(* An event runs after the microtasks of the one before it: the put()s that *)
(* were woken, and the loop's way from recv() to pause().                   *)
Macrotask == put_ready = <<>> /\ reader # "got"

(* Chunks that are on their way to the Node socket. *)
InKernel == srvSent - arrived - buffered

-----------------------------------------------------------------------------
(* Mutant: the socket is forgotten without being ended. *)
CloseNoEnd ==
    /\ socket' = "null"
    /\ UNCHANGED endCalled

close ==
    \/ socket = "null" /\ UNCHANGED <<socket, endCalled>>
    \/ socket = "set" /\ endCalled' = TRUE /\ socket' = "null"

(* The wisp stream closes once, and closes its socket then. *)
CloseStream ==
    \/ stream = "closed" /\ UNCHANGED <<stream, socket, endCalled>>
    \/ stream = "open" /\ stream' = "closed" /\ close

pause ==
    IF socket = "set" /\ Len(queue) >= MaxSize
    THEN flowing' = FALSE /\ paused' = TRUE
    ELSE UNCHANGED <<flowing, paused>>

(* Mutant: the flag is not cleared. *)
ResumeKeepsFlag ==
    IF socket = "set" /\ paused
    THEN flowing' = TRUE /\ UNCHANGED paused
    ELSE UNCHANGED <<flowing, paused>>

resume ==
    IF socket = "set" /\ paused
    THEN flowing' = TRUE /\ paused' = FALSE
    ELSE UNCHANGED <<flowing, paused>>

-----------------------------------------------------------------------------
(* connect() *)
Connected ==
    /\ conn = "dialing"
    /\ conn' = "up" /\ socket' = "set"
    /\ node' = "open" /\ flowing' = TRUE
    /\ reader' = "recv"
    /\ sender' = IF stream = "open" THEN "idle" ELSE "stopped"
    /\ UNCHANGED <<queueVars, paused, buffered, endCalled, serverVars, stream,
                   sends, resolved, accepted>>

ConnectFails ==
    /\ conn = "dialing"
    /\ conn' = "failed"
    /\ CloseStream
    /\ UNCHANGED <<queueVars, paused, node, flowing, buffered, serverVars, reader, sendVars>>

(* The server, and the wire. *)
ServerSends ==
    /\ node = "open" /\ srvEnd = "none" /\ srvSent < MaxChunks
    /\ srvSent' = srvSent + 1
    /\ UNCHANGED <<queueVars, conn, socket, paused, nodeVars, srvEnd, stream, reader, sendVars>>

ServerEnds ==
    /\ node = "open" /\ srvEnd = "none"
    /\ srvEnd' \in {"fin", "rst"}
    /\ UNCHANGED <<queueVars, conn, socket, paused, nodeVars, srvSent, stream, reader, sendVars>>

(* The Node socket: a chunk is emitted as 'data', first those read ahead. *)
NodeData ==
    /\ node = "open" /\ flowing /\ Macrotask
    /\ \/ buffered > 0 /\ buffered' = buffered - 1
       \/ buffered = 0 /\ InKernel > 0 /\ UNCHANGED buffered
    /\ Q!Put
    /\ UNCHANGED <<conn, socket, paused, node, flowing, endCalled, serverVars, stream,
                   reader, sendVars>>

NodeReadAhead ==
    /\ node = "open" /\ ~flowing /\ InKernel > 0 /\ buffered < HighWater
    /\ buffered' = buffered + 1
    /\ UNCHANGED <<queueVars, conn, socket, paused, node, flowing, endCalled, serverVars,
                   stream, reader, sendVars>>

(* Mutant: the queue is closed already on 'end' or 'error', before the rest *)
(* of the data has been emitted.                                            *)
CloseEventEarly ==
    /\ node = "open" /\ srvEnd = "fin" /\ Macrotask
    /\ Q!Close
    /\ socket' = "null" /\ node' = "closed"
    /\ UNCHANGED <<conn, paused, flowing, buffered, endCalled, serverVars, stream, reader,
                   sendVars>>

(* Mutant: the handler of 'close' does not close the queue. *)
CloseEventForgetsQueue ==
    /\ node = "open" /\ srvEnd = "fin" /\ InKernel = 0 /\ buffered = 0
    /\ sender # "writing" /\ Macrotask
    /\ socket' = "null" /\ node' = "closed"
    /\ UNCHANGED <<queueVars, conn, paused, flowing, buffered, endCalled, serverVars, stream,
                   reader, sendVars>>

(* 'close' after the FIN: everything was read, emitted and written.  Also a *)
(* paused socket gets there, if nothing is left in its buffer.              *)
CloseEvent ==
    /\ node = "open" /\ srvEnd = "fin" /\ InKernel = 0 /\ buffered = 0
    /\ sender # "writing" /\ Macrotask
    /\ Q!Close
    /\ socket' = "null" /\ node' = "closed"
    /\ UNCHANGED <<conn, paused, flowing, buffered, endCalled, serverVars, stream, reader,
                   sendVars>>

(* A broken connection is noticed by reading past the last chunk, which a   *)
(* paused socket does until its buffer is full, or by writing.  The socket  *)
(* is destroyed: 'error' (ignored), then 'close'; what was not emitted as   *)
(* 'data' is gone, and the callback of a pending write gets the error,      *)
(* which send() takes for success.                                          *)
ResetEvent ==
    /\ node = "open" /\ srvEnd = "rst" /\ Macrotask
    /\ \/ InKernel = 0 /\ (IF flowing THEN buffered = 0 ELSE buffered < HighWater)
       \/ sender = "writing"
    /\ Q!Close
    /\ socket' = "null" /\ node' = "closed"
    /\ \/ sender = "writing" /\ sender' = "idle" /\ resolved' = resolved + 1
       \/ sender # "writing" /\ UNCHANGED <<sender, resolved>>
    /\ UNCHANGED <<conn, paused, flowing, buffered, endCalled, serverVars, stream, reader,
                   sends, accepted>>

-----------------------------------------------------------------------------
(* The loop to the browser: recv(), pause(), send to the browser, resume(). *)
QueueStep ==
    /\ Q!PutResume
    /\ UNCHANGED <<conn, socket, paused, nodeVars, serverVars, stream, reader, sendVars>>

Recv ==
    /\ reader = "recv"
    /\ Q!Get \/ Q!GetResume
    /\ reader' = IF delivered' # delivered THEN "got" ELSE "recv"
    /\ UNCHANGED <<conn, socket, paused, nodeVars, serverVars, stream, sendVars>>

Pause ==
    /\ reader = "got" /\ put_ready = <<>>
    /\ pause
    /\ reader' = "sending"
    /\ UNCHANGED <<queueVars, conn, socket, node, buffered, endCalled, serverVars, stream,
                   sendVars>>

Resume ==
    /\ reader = "sending" /\ Macrotask
    /\ resume
    /\ reader' = "recv"
    /\ UNCHANGED <<queueVars, conn, socket, node, buffered, endCalled, serverVars, stream,
                   sendVars>>

(* recv() returned null: the browser is told the end, the stream closes. *)
EndOfStream ==
    /\ reader = "recv" /\ ended
    /\ reader' = "done"
    /\ CloseStream
    /\ UNCHANGED <<queueVars, conn, paused, node, flowing, buffered, serverVars, sendVars>>

(* The browser closes the stream, or its WebSocket is gone. *)
ClientCloses ==
    /\ stream = "open" /\ Macrotask
    /\ CloseStream
    /\ UNCHANGED <<queueVars, conn, paused, node, flowing, buffered, serverVars, reader, sendVars>>

-----------------------------------------------------------------------------
(* The loop to the server: send() waits for the callback of the write, and  *)
(* without a socket it is rejected, which closes the stream.                *)
Send ==
    /\ sender = "idle" /\ stream = "open" /\ sends < MaxSends /\ Macrotask
    /\ sends' = sends + 1
    /\ \/ socket = "set" /\ sender' = "writing" /\ UNCHANGED <<stream, socket, endCalled>>
       \/ socket = "null" /\ sender' = "stopped" /\ CloseStream
    /\ UNCHANGED <<queueVars, conn, paused, node, flowing, buffered, serverVars, reader,
                   resolved, accepted>>

(* Mutant: send() resolves at once, and again when the callback comes. *)
WriteDoneTwice ==
    /\ sender = "writing" /\ node = "open" /\ srvEnd # "rst"
    /\ accepted' = accepted + 1
    /\ resolved' = resolved + 2
    /\ sender' = "idle"
    /\ UNCHANGED <<queueVars, conn, socket, paused, nodeVars, serverVars, stream, reader, sends>>

WriteDone ==
    /\ sender = "writing" /\ node = "open" /\ srvEnd # "rst"
    /\ accepted' = accepted + 1
    /\ resolved' = resolved + 1
    /\ sender' = "idle"
    /\ UNCHANGED <<queueVars, conn, socket, paused, nodeVars, serverVars, stream, reader, sends>>

SenderStops ==
    /\ sender = "idle" /\ stream = "closed"
    /\ sender' = "stopped"
    /\ UNCHANGED <<queueVars, conn, socket, paused, nodeVars, serverVars, stream, reader,
                   sends, resolved, accepted>>

Next ==
    \/ Connected \/ ConnectFails
    \/ ServerSends \/ ServerEnds
    \/ NodeData \/ NodeReadAhead \/ CloseEvent \/ ResetEvent
    \/ QueueStep \/ Recv \/ Pause \/ Resume \/ EndOfStream \/ ClientCloses
    \/ Send \/ WriteDone \/ SenderStops

(* Node reads what there is and runs its callbacks, and the loop goes on.   *)
(* Nothing is promised of the server or of the browser: not that they send  *)
(* or end, nor that they take what is sent to them, for which Resume and    *)
(* WriteDone wait.                                                          *)
Fairness ==
    /\ WF_vars(NodeData) /\ WF_vars(NodeReadAhead)
    /\ WF_vars(CloseEvent) /\ WF_vars(ResetEvent)
    /\ WF_vars(QueueStep) /\ WF_vars(Recv) /\ WF_vars(Pause) /\ WF_vars(EndOfStream)

Spec == Init /\ [][Next]_vars /\ Fairness

-----------------------------------------------------------------------------
TypeOK ==
    /\ Q!TypeOK
    /\ conn \in {"dialing", "up", "failed"}
    /\ socket \in {"null", "set"}
    /\ paused \in BOOLEAN /\ flowing \in BOOLEAN /\ endCalled \in BOOLEAN
    /\ node \in {"none", "open", "closed"}
    /\ buffered \in 0..HighWater
    /\ srvSent \in 0..MaxChunks /\ srvEnd \in {"none", "fin", "rst"}
    /\ stream \in {"open", "closed"}
    /\ reader \in {"off", "recv", "got", "sending", "done"}
    /\ sender \in {"off", "idle", "writing", "stopped"}
    /\ sends \in 0..MaxSends /\ accepted \in 0..resolved /\ resolved \in 0..sends

(* After a FIN, a reader that is told the end has every chunk the server    *)
(* sent, however the queue, the pauses and the close were interleaved       *)
(* (comment at lines 109-111).                                              *)
FinIsComplete == ended /\ srvEnd # "rst" => Len(delivered) = srvSent

(* As long as the stream has its socket, this.paused says what the socket   *)
(* does, and it is paused only during one send to the browser: the reader   *)
(* never waits in recv() for a socket that is paused.                       *)
PauseAgrees ==
    socket = "set" =>
        /\ flowing <=> ~paused
        /\ paused => reader = "sending"

(* A socket that was connected is let go only after end() or 'close'. *)
DroppedSocketIsEnded ==
    conn = "up" /\ socket = "null" => endCalled \/ node = "closed"

Proxied == INSTANCE ProxiedStream
    WITH sent <- srvSent, fate <- srvEnd, received <- delivered,
         told <- reader = "done", open <- stream = "open"

(* From the server to the browser, through the buffer of the socket, the    *)
(* queue, the pauses and the close: what arrives is a prefix of what was    *)
(* sent, all of it before the end that follows a FIN.  While the browser    *)
(* keeps the stream and each send to it completes, what was sent arrives,   *)
(* also if it came while the socket was paused, and whether or not the      *)
(* server reads; if the server takes what is written to it, too, its end is *)
(* told (connect(), lines 97-121, and pause(), resume(), close()).          *)
BrowserTakes == []<>(reader # "sending")
ServerTakes == []<>(sender # "writing")

ImplementsProxiedStream ==
    /\ Proxied!SafeSpec
    /\ BrowserTakes => Proxied!DeliversChunks
    /\ BrowserTakes /\ ServerTakes => Proxied!DeliversEnd

-----------------------------------------------------------------------------
(* What comments of the source say and the code does not do. *)

(* A reset right after the last byte must not truncate the response (lines  *)
(* 109-111 and 116-119).                                                    *)
EndIsComplete == ended => Len(delivered) = srvSent
=============================================================================
