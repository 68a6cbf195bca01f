---------------------------- MODULE UdpProxyTunnel ----------------------------
(***************************************************************************)
(* The UDP tunnel of wireproxy/udp_proxy.go: a session per local source    *)
(* address, kept in a map behind a mutex, and four kinds of goroutines:    *)
(* the main loop that reads from the local clients, one handler per        *)
(* session that reads from the remote end, the cleaner that evicts idle    *)
(* sessions, and the clock.  A critical section that does not block is one *)
(* step; the mutex is visible only while the main loop dials inside it.    *)
(*                                                                         *)
(* Time: lastActive is kept as an age, in ticks of five seconds (the read  *)
(* deadline of a handler), and the time the cleaner took before it locked  *)
(* as a lag.  lastActive is written without the lock (lines 123 and 164):  *)
(* Sub reads its monotonic word, so the cleaner sees the old value or the  *)
(* new one, which is what an interleaving of whole steps gives.            *)
(***************************************************************************)
EXTENDS Naturals

CONSTANTS
    Sources,      \* local client addresses
    MaxSessions,  \* bound: how many sessions are ever created
    Timeout,      \* InactivityTimeout in ticks; 0: sessions never time out
    MaxLag,       \* bound: ticks a Dial may hold the mutex
    MaxStall      \* bound: ticks the main loop may be held up before a write

ASSUME SourcesAssumption == Sources # {}
ASSUME MaxSessionsAssumption == MaxSessions \in Nat
ASSUME TimeoutAssumption == Timeout \in Nat
ASSUME MaxLagAssumption == MaxLag \in Nat

(* The one thing asked of the scheduler: the main loop, which holds no lock *)
(* between the lookup of a session and the write to it, is not held up      *)
(* there for as long as the inactivity timeout.                             *)
ASSUME MaxStallAssumption ==
    /\ MaxStall \in Nat
    /\ Timeout > 0 => MaxStall < Timeout

NoSession == 0
Ids == 1..MaxSessions

VARIABLES
    sessions,  \* the map: source -> session, or NoSession
    created,   \* sessions 1..created have been created
    source,    \* the source address of a session
    chanOpen,  \* closeChan is not closed
    connOpen,  \* remoteConn is not closed
    age,       \* ticks since lastActive
    handler,   \* handleRemoteToLocal: "none", "loop", "read", "exit", "closing", "gone"
    failed,    \* history: the handler met an error of the network
    main,      \* the main loop: "read", "dialing" or "write"
    packetSrc, \* the source of the packet the main loop has
    target,    \* the session it writes to
    stall,     \* ticks since it looked that session up
    cleaner,   \* "idle" or "ticked": it took the time and wants the lock
    lag        \* ticks since it took the time

sessionVars == <<source, chanOpen, connOpen>>
mainVars == <<main, packetSrc, target, stall>>
cleanerVars == <<cleaner, lag>>
vars == <<sessions, created, sessionVars, age, handler, failed, mainVars, cleanerVars>>

AnySource == CHOOSE src \in Sources : TRUE

Init ==
    /\ sessions = [src \in Sources |-> NoSession]
    /\ created = 0
    /\ source = [s \in Ids |-> AnySource]
    /\ chanOpen = [s \in Ids |-> FALSE]
    /\ connOpen = [s \in Ids |-> FALSE]
    /\ age = [s \in Ids |-> 0]
    /\ handler = [s \in Ids |-> "none"]
    /\ failed = [s \in Ids |-> FALSE]
    /\ main = "read" /\ packetSrc = AnySource /\ target = NoSession /\ stall = 0
    /\ cleaner = "idle" /\ lag = 0

MutexFree == main # "dialing"

InMap(s) == sessions[source[s]] = s

MaxAge == Timeout + MaxLag

-----------------------------------------------------------------------------
(* The main loop. *)

(* Mutant: an existing session is returned without being refreshed. *)
ReceiveNoRefresh(src) ==
    /\ main = "read"
    /\ packetSrc' = src /\ stall' = 0
    /\ \/ /\ sessions[src] # NoSession
          /\ target' = sessions[src]
          /\ main' = "write"
       \/ /\ sessions[src] = NoSession /\ created < MaxSessions
          /\ main' = "dialing"
          /\ UNCHANGED target
    /\ UNCHANGED <<sessions, created, sessionVars, age, handler, failed, cleanerVars>>

(* A packet from src: its session is found and refreshed, or the loop dials *)
(* with the mutex held.                                                     *)
Receive(src) ==
    /\ main = "read"
    /\ packetSrc' = src /\ stall' = 0
    /\ \/ /\ sessions[src] # NoSession
          /\ target' = sessions[src]
          /\ age' = [age EXCEPT ![sessions[src]] = 0]
          /\ main' = "write"
       \/ /\ sessions[src] = NoSession /\ created < MaxSessions
          /\ main' = "dialing"
          /\ UNCHANGED <<target, age>>
    /\ UNCHANGED <<sessions, created, sessionVars, handler, failed, cleanerVars>>

(* Mutant: after a failing Dial the handler is started all the same. *)
DialFailsNoReturn ==
    /\ main = "dialing"
    /\ main' = "read"
    /\ handler' = [handler EXCEPT ![created + 1] = "loop"]
    /\ UNCHANGED <<sessions, created, sessionVars, age, failed, packetSrc, target, stall,
                   cleanerVars>>

DialFails ==
    /\ main = "dialing"
    /\ main' = "read"
    /\ UNCHANGED <<sessions, created, sessionVars, age, handler, failed, packetSrc, target,
                   stall, cleanerVars>>

DialSucceeds ==
    /\ main = "dialing"
    /\ created' = created + 1
    /\ source' = [source EXCEPT ![created + 1] = packetSrc]
    /\ chanOpen' = [chanOpen EXCEPT ![created + 1] = TRUE]
    /\ connOpen' = [connOpen EXCEPT ![created + 1] = TRUE]
    /\ handler' = [handler EXCEPT ![created + 1] = "loop"]
    /\ age' = [age EXCEPT ![created + 1] = 0]
    /\ sessions' = [sessions EXCEPT ![packetSrc] = created + 1]
    /\ target' = created + 1
    /\ main' = "write"
    /\ UNCHANGED <<failed, packetSrc, stall, cleanerVars>>

(* lastActive again, without the lock, and the write; its error is logged. *)
Write ==
    /\ main = "write"
    /\ age' = [age EXCEPT ![target] = 0]
    /\ main' = "read" /\ stall' = 0
    /\ UNCHANGED <<sessions, created, sessionVars, handler, failed, packetSrc, target,
                   cleanerVars>>

-----------------------------------------------------------------------------
(* The handler of session s. *)
CheckClosed(s) ==
    /\ handler[s] = "loop"
    /\ handler' = [handler EXCEPT ![s] = IF chanOpen[s] THEN "read" ELSE "exit"]
    /\ UNCHANGED <<sessions, created, sessionVars, age, failed, mainVars, cleanerVars>>

(* Mutant: no read deadline is set. *)
ReadTimeoutNever(s) == FALSE /\ UNCHANGED vars

ReadTimeout(s) ==
    /\ handler[s] = "read"
    /\ handler' = [handler EXCEPT ![s] = IF chanOpen[s] THEN "loop" ELSE "exit"]
    /\ UNCHANGED <<sessions, created, sessionVars, age, failed, mainVars, cleanerVars>>

ReadFails(s) ==
    /\ handler[s] = "read"
    /\ handler' = [handler EXCEPT ![s] = "exit"]
    /\ failed' = [failed EXCEPT ![s] = TRUE]
    /\ UNCHANGED <<sessions, created, sessionVars, age, mainVars, cleanerVars>>

(* A datagram from the remote end goes to the client; the write may fail. *)
Forward(s) ==
    /\ handler[s] = "read"
    /\ age' = [age EXCEPT ![s] = 0]
    /\ \/ handler' = [handler EXCEPT ![s] = "loop"] /\ UNCHANGED failed
       \/ /\ handler' = [handler EXCEPT ![s] = "exit"]
          /\ failed' = [failed EXCEPT ![s] = TRUE]
    /\ UNCHANGED <<sessions, created, sessionVars, mainVars, cleanerVars>>

(* Mutant: removeSession deletes whatever session its source has now. *)
RemoveSessionOfSource(s) ==
    /\ handler[s] = "exit" /\ MutexFree
    /\ chanOpen' = [chanOpen EXCEPT ![s] = FALSE]
    /\ sessions' = [sessions EXCEPT ![source[s]] = NoSession]
    /\ handler' = [handler EXCEPT ![s] = "closing"]
    /\ UNCHANGED <<created, source, connOpen, age, failed, mainVars, cleanerVars>>

(* Mutant: the connection is closed before the session leaves the map. *)
RemoveSessionAfterClose(s) ==
    /\ handler[s] = "exit"
    /\ connOpen' = [connOpen EXCEPT ![s] = FALSE]
    /\ handler' = [handler EXCEPT ![s] = "closing"]
    /\ UNCHANGED <<sessions, created, source, chanOpen, age, failed, mainVars, cleanerVars>>

RemoveSession(s) ==
    /\ handler[s] = "exit" /\ MutexFree
    /\ \/ /\ InMap(s)
          /\ chanOpen' = [chanOpen EXCEPT ![s] = FALSE]
          /\ sessions' = [sessions EXCEPT ![source[s]] = NoSession]
       \/ ~InMap(s) /\ UNCHANGED <<chanOpen, sessions>>
    /\ handler' = [handler EXCEPT ![s] = "closing"]
    /\ UNCHANGED <<created, source, connOpen, age, failed, mainVars, cleanerVars>>

CloseConn(s) ==
    /\ handler[s] = "closing"
    /\ connOpen' = [connOpen EXCEPT ![s] = FALSE]
    /\ handler' = [handler EXCEPT ![s] = "gone"]
    /\ UNCHANGED <<sessions, created, source, chanOpen, age, failed, mainVars, cleanerVars>>

-----------------------------------------------------------------------------
(* The cleaner; there is none when the timeout is 0. *)

TakeTime ==
    /\ Timeout > 0 /\ cleaner = "idle"
    /\ cleaner' = "ticked" /\ lag' = 0
    /\ UNCHANGED <<sessions, created, sessionVars, age, handler, failed, mainVars>>

(* now.Sub(lastActive) >= inactivityDur, with the time taken lag ticks ago. *)
Expired(s) == age[s] >= Timeout + lag

(* Mutant: the session is deleted and its channel left open. *)
SweepKeepsChannels ==
    /\ cleaner = "ticked" /\ MutexFree
    /\ sessions' = [src \in Sources |->
         IF sessions[src] # NoSession /\ Expired(sessions[src]) THEN NoSession
         ELSE sessions[src]]
    /\ cleaner' = "idle" /\ lag' = 0
    /\ UNCHANGED <<created, source, chanOpen, connOpen, age, handler, failed, mainVars>>

(* Mutant: the cleaner waits for one tick only. *)
SweepOnce ==
    /\ cleaner = "ticked" /\ MutexFree
    /\ cleaner' = "stopped" /\ lag' = 0
    /\ chanOpen' = [s \in Ids |-> chanOpen[s] /\ ~(InMap(s) /\ Expired(s))]
    /\ sessions' = [src \in Sources |->
         IF sessions[src] # NoSession /\ Expired(sessions[src]) THEN NoSession
         ELSE sessions[src]]
    /\ UNCHANGED <<created, source, connOpen, age, handler, failed, mainVars>>

Sweep ==
    /\ cleaner = "ticked" /\ MutexFree
    /\ chanOpen' = [s \in Ids |-> chanOpen[s] /\ ~(InMap(s) /\ Expired(s))]
    /\ sessions' = [src \in Sources |->
         IF sessions[src] # NoSession /\ Expired(sessions[src]) THEN NoSession
         ELSE sessions[src]]
    /\ cleaner' = "idle" /\ lag' = 0
    /\ UNCHANGED <<created, source, connOpen, age, handler, failed, mainVars>>

(* Five seconds pass, wherever the goroutines are. *)
Tick ==
    /\ main = "write" => stall < MaxStall
    /\ cleaner = "ticked" => lag < MaxLag
    /\ age' = [s \in Ids |-> IF InMap(s) /\ age[s] < MaxAge THEN age[s] + 1 ELSE age[s]]
    /\ lag' = IF cleaner = "ticked" THEN lag + 1 ELSE lag
    /\ stall' = IF main = "write" THEN stall + 1 ELSE stall
    /\ UNCHANGED <<sessions, created, sessionVars, handler, failed, main, packetSrc, target,
                   cleaner>>

-----------------------------------------------------------------------------
HandlerStep(s) ==
    \/ CheckClosed(s) \/ ReadTimeout(s) \/ ReadFails(s) \/ Forward(s)
    \/ RemoveSession(s) \/ CloseConn(s)

Next ==
    \/ \E src \in Sources : Receive(src)
    \/ DialFails \/ DialSucceeds \/ Write
    \/ \E s \in Ids : HandlerStep(s)
    \/ TakeTime \/ Sweep \/ Tick

(* A Dial ends, a handler goes on (its reads have a deadline), the ticker   *)
(* fires and the cleaner gets the lock (Go's mutex starves nobody), and     *)
(* time passes.  No packet is promised, from either side.                   *)
Fairness ==
    /\ WF_vars(DialFails \/ DialSucceeds) /\ WF_vars(Write)
    /\ \A s \in Ids :
         /\ WF_vars(CheckClosed(s))
         /\ WF_vars(ReadTimeout(s))
         /\ SF_vars(RemoveSession(s))
         /\ WF_vars(CloseConn(s))
    /\ WF_vars(TakeTime) /\ SF_vars(Sweep) /\ SF_vars(Tick)

Spec == Init /\ [][Next]_vars /\ Fairness

-----------------------------------------------------------------------------
TypeOK ==
    /\ sessions \in [Sources -> {NoSession} \union Ids]
    /\ created \in 0..MaxSessions
    /\ source \in [Ids -> Sources]
    /\ chanOpen \in [Ids -> BOOLEAN]
    /\ connOpen \in [Ids -> BOOLEAN]
    /\ age \in [Ids -> 0..MaxAge]
    /\ handler \in [Ids -> {"none", "loop", "read", "exit", "closing", "gone"}]
    /\ failed \in [Ids -> BOOLEAN]
    /\ main \in {"read", "dialing", "write"}
    /\ packetSrc \in Sources
    /\ target \in {NoSession} \union Ids
    /\ cleaner \in {"idle", "ticked"}
    /\ lag \in 0..MaxLag
    /\ stall \in 0..MaxStall
    /\ \A s \in Ids : s > created =>
         handler[s] = "none" /\ ~chanOpen[s] /\ ~connOpen[s] /\ ~failed[s]

(* A session in the map can be used: its connection is open and a handler   *)
(* serves it, so a packet is never given to a session that is already over. *)
MapIsLive ==
    \A src \in Sources :
        LET s == sessions[src]
        IN  s # NoSession =>
                /\ source[s] = src
                /\ connOpen[s]
                /\ handler[s] \in {"loop", "read", "exit"}

(* The channel of a session is closed exactly when it has left the map: its *)
(* handler is told to stop and never stops while packets still go to it,    *)
(* although three places close and delete (udp_proxy.go:46-51, 65-69).      *)
ChannelFollowsMap == \A s \in 1..created : chanOpen[s] <=> InMap(s)

(* The session that the main loop looked up is still in the map when it     *)
(* writes to it, unless its handler met an error in between: the refresh at *)
(* the lookup keeps the cleaner away for a timeout, also when its time is   *)
(* older than the refresh and the main loop is held up before the write.    *)
WriteHitsMappedSession == main = "write" => InMap(target) \/ failed[target]

(* A session leaves the map only when its own handler met an error of the   *)
(* network or after being idle for the timeout, and never when the timeout  *)
(* is 0; the late handler of an evicted session does not take the new       *)
(* session of the same source with it.                                      *)
OnlyIdleOrFailed ==
    [][\A src \in Sources :
         LET s == sessions[src]
         IN  s # NoSession /\ sessions'[src] # s =>
                 failed[s] \/ (Timeout > 0 /\ age[s] >= Timeout)]_vars

(* A session that was evicted releases its connection. *)
EvictedIsReleased == \A s \in Ids : s <= created /\ ~chanOpen[s] ~> ~connOpen[s]

(* A session that stays in the map forever is active again and again. *)
IdleIsEvicted ==
    \A s \in Ids :
        <>[](s <= created /\ InMap(s)) => []<>(age[s] = 0)
=============================================================================
