------------------------- MODULE UdpProxyTunnelProofs -------------------------
(***************************************************************************)
(* Theorems about UdpProxyTunnel, for every set of sources, every number   *)
(* of sessions, every timeout, every lag of the cleaner, and every stall   *)
(* of the main loop that is shorter than the timeout.                      *)
(***************************************************************************)
EXTENDS UdpProxyTunnel, TLAPS

(* What the main loop relies on between its steps: while it dials, the      *)
(* mutex keeps the source without a session; the session it is about to     *)
(* write to exists and was refreshed when it was looked up, stall ticks ago *)
(* or later.                                                                *)
MainLoop ==
    /\ main = "dialing" => created < MaxSessions /\ sessions[packetSrc] = NoSession
    /\ main = "write" => target \in 1..created /\ age[target] <= stall

(* A handler leaves its loop with its session still in the map only after   *)
(* an error of the network: had the channel been closed, the session would  *)
(* have been deleted in the same critical section.                          *)
ExitsOnError ==
    /\ \A s \in Ids : handler[s] = "exit" /\ InMap(s) => failed[s]
    /\ cleaner = "ticked" => Timeout > 0

(* A session in the map has been created. *)
MapIsCreated == \A src \in Sources : sessions[src] <= created

(* The inductive invariant. *)
IInv ==
    /\ TypeOK
    /\ MapIsLive
    /\ ChannelFollowsMap
    /\ WriteHitsMappedSession
    /\ MainLoop
    /\ ExitsOnError
    /\ MapIsCreated

USE MaxSessionsAssumption, TimeoutAssumption, MaxLagAssumption, MaxStallAssumption DEF NoSession, Ids, MaxAge

-----------------------------------------------------------------------------
LEMMA InitIInv == Init => IInv
<1> SUFFICES ASSUME Init PROVE IInv
  OBVIOUS
<1>1. AnySource \in Sources
  BY SourcesAssumption DEF AnySource
<1>2. TypeOK
  BY <1>1 DEF Init, TypeOK
<1>3. MapIsLive /\ ChannelFollowsMap /\ WriteHitsMappedSession
  BY DEF Init, MapIsLive, ChannelFollowsMap, WriteHitsMappedSession
<1>4. MainLoop /\ ExitsOnError /\ MapIsCreated
  BY DEF Init, MainLoop, ExitsOnError, MapIsCreated
<1> QED
  BY <1>2, <1>3, <1>4 DEF IInv

LEMMA ReceiveIInv ==
    ASSUME IInv, NEW src \in Sources, Receive(src)
    PROVE  IInv'
<1> USE DEF IInv
<1>1. /\ UNCHANGED <<sessions, created, source, chanOpen, connOpen, handler, failed, cleaner, lag>>
      /\ packetSrc' = src /\ stall' = 0
  BY DEF Receive, sessionVars, cleanerVars
<1>2. MapIsLive' /\ ChannelFollowsMap' /\ ExitsOnError' /\ MapIsCreated'
  BY <1>1 DEF MapIsLive, ChannelFollowsMap, ExitsOnError, MapIsCreated, InMap
<1>3. CASE /\ sessions[src] # NoSession
           /\ target' = sessions[src]
           /\ age' = [age EXCEPT ![sessions[src]] = 0]
           /\ main' = "write"
  <2>1. /\ target' \in 1..created
        /\ source[target'] = src
    BY <1>3 DEF TypeOK, MapIsLive, MapIsCreated
  <2>2. TypeOK'
    BY <1>1, <1>3, <2>1 DEF TypeOK
  <2>3. WriteHitsMappedSession' /\ MainLoop'
    BY <1>1, <1>3, <2>1 DEF WriteHitsMappedSession, MainLoop, InMap, TypeOK
  <2> QED
    BY <1>2, <2>2, <2>3
<1>4. CASE /\ sessions[src] = NoSession /\ created < MaxSessions
           /\ main' = "dialing"
           /\ UNCHANGED <<target, age>>
  <2>1. TypeOK'
    BY <1>1, <1>4 DEF TypeOK
  <2>2. WriteHitsMappedSession' /\ MainLoop'
    BY <1>1, <1>4 DEF WriteHitsMappedSession, MainLoop
  <2> QED
    BY <1>2, <2>1, <2>2
<1> QED
  BY <1>3, <1>4 DEF Receive

LEMMA DialFailsIInv == IInv /\ DialFails => IInv'
<1> SUFFICES ASSUME IInv, DialFails PROVE IInv'
  OBVIOUS
<1> USE DEF IInv, DialFails, sessionVars, cleanerVars
<1>1. TypeOK'
  BY DEF TypeOK
<1>2. MapIsLive' /\ ChannelFollowsMap' /\ ExitsOnError' /\ MapIsCreated'
  BY DEF MapIsLive, ChannelFollowsMap, ExitsOnError, MapIsCreated, InMap
<1>3. WriteHitsMappedSession' /\ MainLoop'
  BY DEF WriteHitsMappedSession, MainLoop
<1> QED
  BY <1>1, <1>2, <1>3

(* The new session gets a number that nobody has used. *)
LEMMA DialSucceedsIInv == IInv /\ DialSucceeds => IInv'
<1> SUFFICES ASSUME IInv, DialSucceeds PROVE IInv'
  OBVIOUS
<1> USE DEF IInv
<1> DEFINE n == created + 1
<1>1. /\ n \in Ids /\ created' = n
      /\ sessions[packetSrc] = NoSession
      /\ packetSrc \in Sources
      /\ source' = [source EXCEPT ![n] = packetSrc]
      /\ chanOpen' = [chanOpen EXCEPT ![n] = TRUE]
      /\ connOpen' = [connOpen EXCEPT ![n] = TRUE]
      /\ handler' = [handler EXCEPT ![n] = "loop"]
      /\ sessions' = [sessions EXCEPT ![packetSrc] = n]
      /\ target' = n /\ main' = "write"
      /\ age' = [age EXCEPT ![n] = 0]
      /\ UNCHANGED <<failed, packetSrc, stall, cleaner, lag>>
  BY DEF DialSucceeds, MainLoop, TypeOK, cleanerVars
<1>2. \A src \in Sources : sessions[src] # n
  <2> SUFFICES ASSUME NEW src \in Sources PROVE sessions[src] # n
    OBVIOUS
  <2>1. sessions[src] <= created /\ created \in Nat /\ sessions[src] \in Nat
    BY DEF MapIsCreated, TypeOK
  <2> QED
    BY <2>1
<1>3. TypeOK'
  BY <1>1 DEF TypeOK
<1>4. MapIsLive'
  BY <1>1, <1>2 DEF MapIsLive, TypeOK
<1>5. \A s \in 1..created : InMap(s)' <=> InMap(s)
  <2> SUFFICES ASSUME NEW s \in 1..created PROVE InMap(s)' <=> InMap(s)
    OBVIOUS
  <2>1. s # n /\ s # NoSession /\ source'[s] = source[s] /\ source[s] \in Sources
    BY <1>1 DEF TypeOK
  <2> QED
    BY <1>1, <2>1 DEF InMap, TypeOK
<1>6. sessions'[source'[n]] = n
  BY <1>1 DEF TypeOK
<1>7. ChannelFollowsMap'
  <2> SUFFICES ASSUME NEW s \in 1..n PROVE chanOpen'[s] <=> InMap(s)'
    BY <1>1 DEF ChannelFollowsMap
  <2>1. CASE s = n
    BY <1>1, <1>6, <2>1 DEF TypeOK, InMap
  <2>2. CASE s # n
    BY <1>1, <1>5, <2>2 DEF TypeOK, ChannelFollowsMap
  <2> QED
    BY <2>1, <2>2
<1>8. WriteHitsMappedSession'
  BY <1>1, <1>6 DEF WriteHitsMappedSession, InMap
<1>10. MainLoop'
  BY <1>1 DEF MainLoop, TypeOK
<1>11. ExitsOnError'
  <2> SUFFICES ASSUME NEW s \in Ids, handler'[s] = "exit", InMap(s)'
               PROVE  failed'[s]
    BY <1>1 DEF ExitsOnError
  <2>1. s # n /\ handler[s] = "exit"
    BY <1>1 DEF TypeOK
  <2>2. s \in 1..created
    BY <2>1 DEF TypeOK
  <2> QED
    BY <1>1, <1>5, <2>1, <2>2 DEF ExitsOnError
<1>12. MapIsCreated'
  BY <1>1 DEF MapIsCreated, TypeOK
<1> QED
  BY <1>3, <1>4, <1>7, <1>8, <1>10, <1>11, <1>12

LEMMA WriteIInv == IInv /\ Write => IInv'
<1> SUFFICES ASSUME IInv, Write PROVE IInv'
  OBVIOUS
<1> USE DEF IInv
<1>0. /\ age' = [age EXCEPT ![target] = 0] /\ main' = "read" /\ stall' = 0
      /\ UNCHANGED <<sessions, created, source, chanOpen, connOpen, handler, failed,
                     packetSrc, target, cleaner, lag>>
  BY DEF Write, sessionVars, cleanerVars
<1>1. TypeOK'
  <2>1. age' \in [Ids -> 0..MaxAge]
    <3>1. target \in Ids /\ 0 \in 0..MaxAge
      BY DEF Write, MainLoop, TypeOK
    <3> QED
      BY <1>0, <3>1 DEF TypeOK
  <2> QED
    BY <1>0, <2>1 DEF TypeOK
<1>2. MapIsLive' /\ ChannelFollowsMap' /\ ExitsOnError' /\ MapIsCreated'
  BY <1>0 DEF MapIsLive, ChannelFollowsMap, ExitsOnError, MapIsCreated, InMap
<1>3. WriteHitsMappedSession' /\ MainLoop'
  BY <1>0 DEF WriteHitsMappedSession, MainLoop
<1> QED
  BY <1>1, <1>2, <1>3

-----------------------------------------------------------------------------
(* Steps of a handler that leave the map and the channels alone. *)
LEMMA HandlerMovesIInv ==
    ASSUME IInv, NEW s \in Ids, CheckClosed(s) \/ ReadTimeout(s)
    PROVE  IInv'
<1> USE DEF IInv
<1>1. /\ handler[s] \in {"loop", "read"}
      /\ handler' \in {[handler EXCEPT ![s] = "loop"], [handler EXCEPT ![s] = "read"],
                       [handler EXCEPT ![s] = "exit"]}
      /\ handler'[s] = "exit" => ~chanOpen[s]
      /\ UNCHANGED <<sessions, created, source, chanOpen, connOpen, age, failed, main,
                     packetSrc, target, stall, cleaner, lag>>
  BY DEF CheckClosed, ReadTimeout, TypeOK, sessionVars, mainVars, cleanerVars
<1>2. s <= created
  BY <1>1 DEF TypeOK
<1>3. TypeOK'
  BY <1>1, <1>2 DEF TypeOK
<1>4. MapIsLive'
  BY <1>1 DEF MapIsLive, TypeOK
<1>5. ChannelFollowsMap' /\ WriteHitsMappedSession' /\ MainLoop' /\ MapIsCreated'
  BY <1>1 DEF ChannelFollowsMap, WriteHitsMappedSession, MainLoop, MapIsCreated, InMap
<1>6. ExitsOnError'
  <2> SUFFICES ASSUME NEW r \in Ids, handler'[r] = "exit", InMap(r) PROVE failed[r]
    BY <1>1 DEF ExitsOnError, InMap
  <2>1. CASE r = s
    BY <1>1, <1>2, <2>1 DEF ChannelFollowsMap, TypeOK
  <2>2. CASE r # s
    BY <1>1, <2>2 DEF ExitsOnError, TypeOK
  <2> QED
    BY <2>1, <2>2
<1> QED
  BY <1>3, <1>4, <1>5, <1>6

LEMMA HandlerTrafficIInv ==
    ASSUME IInv, NEW s \in Ids, ReadFails(s) \/ Forward(s)
    PROVE  IInv'
<1> USE DEF IInv
<1>1. /\ handler[s] = "read"
      /\ \/ /\ handler' = [handler EXCEPT ![s] = "loop"]
            /\ UNCHANGED failed
         \/ /\ handler' = [handler EXCEPT ![s] = "exit"]
            /\ failed' = [failed EXCEPT ![s] = TRUE]
      /\ age' \in {age, [age EXCEPT ![s] = 0]}
      /\ UNCHANGED <<sessions, created, source, chanOpen, connOpen, main, packetSrc,
                     target, stall, cleaner, lag>>
  BY DEF ReadFails, Forward, TypeOK, sessionVars, mainVars, cleanerVars
<1>2. s <= created
  BY <1>1 DEF TypeOK
<1>3. TypeOK'
  <2>1. age' \in [Ids -> 0..MaxAge]
    <3>1. 0 \in 0..MaxAge /\ age \in [Ids -> 0..MaxAge]
      BY DEF TypeOK
    <3>2. age' = age \/ age' = [age EXCEPT ![s] = 0]
      BY <1>1
    <3> QED
      BY <3>1, <3>2
  <2>2. handler' \in [Ids -> {"none", "loop", "read", "exit", "closing", "gone"}]
    BY <1>1 DEF TypeOK
  <2>3. failed' \in [Ids -> BOOLEAN]
    BY <1>1 DEF TypeOK
  <2>4. \A r \in Ids : r > created => handler'[r] = handler[r] /\ failed'[r] = failed[r]
    BY <1>1, <1>2 DEF TypeOK
  <2> QED
    BY <1>1, <2>1, <2>2, <2>3, <2>4 DEF TypeOK
<1>4. MapIsLive'
  BY <1>1 DEF MapIsLive, TypeOK
<1>5. ChannelFollowsMap' /\ MapIsCreated'
  BY <1>1 DEF ChannelFollowsMap, MapIsCreated, InMap
<1>6. WriteHitsMappedSession' /\ MainLoop'
  BY <1>1 DEF WriteHitsMappedSession, MainLoop, InMap, TypeOK
<1>7. ExitsOnError'
  BY <1>1 DEF ExitsOnError, InMap, TypeOK
<1> QED
  BY <1>3, <1>4, <1>5, <1>6, <1>7

(* The handler that leaves finds in the map its own session, or another one *)
(* or none: only the first is deleted.                                      *)
LEMMA RemoveSessionIInv ==
    ASSUME IInv, NEW s \in Ids, RemoveSession(s)
    PROVE  IInv'
<1> USE DEF IInv
<1>1. /\ handler[s] = "exit" /\ main # "dialing"
      /\ handler' = [handler EXCEPT ![s] = "closing"]
      /\ UNCHANGED <<created, source, connOpen, age, failed, main, packetSrc, target,
                     stall, cleaner, lag>>
  BY DEF RemoveSession, MutexFree, mainVars, cleanerVars
<1>2. s <= created
  BY <1>1 DEF TypeOK
<1>3. CASE /\ InMap(s)
           /\ chanOpen' = [chanOpen EXCEPT ![s] = FALSE]
           /\ sessions' = [sessions EXCEPT ![source[s]] = NoSession]
  <2>1. source[s] \in Sources /\ sessions[source[s]] = s /\ failed[s]
    BY <1>1, <1>3 DEF InMap, TypeOK, ExitsOnError
  <2>2. \A r \in Ids : InMap(r)' <=> InMap(r) /\ r # s
    BY <1>1, <1>3, <2>1 DEF InMap, TypeOK
  <2>3. TypeOK'
    BY <1>1, <1>2, <1>3, <2>1 DEF TypeOK
  <2>4. MapIsLive'
    BY <1>1, <1>3, <2>1 DEF MapIsLive, TypeOK
  <2>5. ChannelFollowsMap'
    BY <1>1, <1>3, <2>2 DEF ChannelFollowsMap, TypeOK
  <2>6. MainLoop'
    BY <1>1 DEF MainLoop
  <2>7. WriteHitsMappedSession'
    <3> SUFFICES ASSUME main = "write" PROVE InMap(target)' \/ failed[target]
      BY <1>1 DEF WriteHitsMappedSession
    <3>1. target \in Ids
      BY DEF MainLoop, TypeOK
    <3>2. InMap(target) \/ failed[target]
      BY DEF WriteHitsMappedSession
    <3>3. sessions'[source'[target]] = target <=> sessions[source[target]] = target /\ target # s
      BY <1>1, <1>3, <2>1, <3>1 DEF TypeOK
    <3> QED
      BY <1>1, <2>1, <3>2, <3>3 DEF InMap
  <2>8. ExitsOnError'
    BY <1>1, <2>2 DEF ExitsOnError, TypeOK
  <2>9. MapIsCreated'
    BY <1>1, <1>3 DEF MapIsCreated, TypeOK
  <2> QED
    BY <2>3, <2>4, <2>5, <2>6, <2>7, <2>8, <2>9
<1>4. CASE ~InMap(s) /\ UNCHANGED <<chanOpen, sessions>>
  <2>1. TypeOK'
    BY <1>1, <1>2, <1>4 DEF TypeOK
  <2>2. MapIsLive'
    BY <1>1, <1>4 DEF MapIsLive, InMap, TypeOK
  <2>3. ChannelFollowsMap' /\ WriteHitsMappedSession' /\ MainLoop' /\ MapIsCreated'
    BY <1>1, <1>4 DEF ChannelFollowsMap, WriteHitsMappedSession, MainLoop, MapIsCreated, InMap
  <2>4. ExitsOnError'
    BY <1>1, <1>4 DEF ExitsOnError, InMap, TypeOK
  <2> QED
    BY <2>1, <2>2, <2>3, <2>4
<1> QED
  BY <1>3, <1>4 DEF RemoveSession

LEMMA CloseConnIInv ==
    ASSUME IInv, NEW s \in Ids, CloseConn(s)
    PROVE  IInv'
<1> USE DEF IInv
<1>1. /\ handler[s] = "closing"
      /\ handler' = [handler EXCEPT ![s] = "gone"]
      /\ connOpen' = [connOpen EXCEPT ![s] = FALSE]
      /\ UNCHANGED <<sessions, created, source, chanOpen, age, failed, main, packetSrc,
                     target, stall, cleaner, lag>>
  BY DEF CloseConn, mainVars, cleanerVars
<1>2. s <= created /\ \A src \in Sources : sessions[src] # s
  <2>1. s <= created
    BY <1>1 DEF TypeOK
  <2>2. \A src \in Sources : sessions[src] # s
    BY <1>1 DEF MapIsLive
  <2> QED
    BY <2>1, <2>2
<1>3. TypeOK'
  BY <1>1, <1>2 DEF TypeOK
<1>4. MapIsLive'
  BY <1>1, <1>2 DEF MapIsLive, TypeOK
<1>5. ChannelFollowsMap' /\ WriteHitsMappedSession' /\ MainLoop' /\ MapIsCreated'
  BY <1>1 DEF ChannelFollowsMap, WriteHitsMappedSession, MainLoop, MapIsCreated, InMap
<1>6. ExitsOnError'
  BY <1>1 DEF ExitsOnError, InMap, TypeOK
<1> QED
  BY <1>3, <1>4, <1>5, <1>6

-----------------------------------------------------------------------------
LEMMA TakeTimeIInv == IInv /\ TakeTime => IInv'
<1> SUFFICES ASSUME IInv, TakeTime PROVE IInv'
  OBVIOUS
<1> USE DEF IInv, TakeTime, sessionVars, mainVars
<1>1. TypeOK'
  BY DEF TypeOK
<1>2. /\ MapIsLive' /\ ChannelFollowsMap' /\ WriteHitsMappedSession' /\ MainLoop'
      /\ ExitsOnError' /\ MapIsCreated'
  BY DEF MapIsLive, ChannelFollowsMap, WriteHitsMappedSession, MainLoop, ExitsOnError,
         MapIsCreated, InMap
<1> QED
  BY <1>1, <1>2

(* A sweep deletes a session and closes its channel in one critical section, *)
(* and it spares the session that the main loop has just refreshed.          *)
LEMMA SweepIInv == IInv /\ Sweep => IInv'
<1> SUFFICES ASSUME IInv, Sweep PROVE IInv'
  OBVIOUS
<1> USE DEF IInv
<1>1. /\ cleaner = "ticked" /\ main # "dialing" /\ Timeout > 0
      /\ chanOpen' = [s \in Ids |-> chanOpen[s] /\ ~(InMap(s) /\ Expired(s))]
      /\ sessions' = [src \in Sources |->
           IF sessions[src] # NoSession /\ Expired(sessions[src]) THEN NoSession
           ELSE sessions[src]]
      /\ cleaner' = "idle" /\ lag' = 0
      /\ UNCHANGED <<created, source, connOpen, age, handler, failed, main, packetSrc, target,
                     stall>>
  BY DEF Sweep, MutexFree, ExitsOnError, mainVars
<1>2. \A s \in Ids : InMap(s)' <=> InMap(s) /\ ~Expired(s)
  BY <1>1 DEF InMap, TypeOK
<1>3. TypeOK'
  <2>1. sessions' \in [Sources -> {NoSession} \union Ids]
    BY <1>1 DEF TypeOK
  <2>2. chanOpen' \in [Ids -> BOOLEAN]
    BY <1>1
  <2>3. \A s \in Ids : ~chanOpen[s] => ~chanOpen'[s]
    BY <1>1
  <2> QED
    BY <1>1, <2>1, <2>2, <2>3 DEF TypeOK
<1>4. MapIsLive'
  BY <1>1 DEF MapIsLive
<1>5. ChannelFollowsMap'
  <2> SUFFICES ASSUME NEW s \in 1..created PROVE chanOpen'[s] <=> InMap(s)'
    BY <1>1 DEF ChannelFollowsMap
  <2>1. s \in Ids
    BY DEF TypeOK
  <2>2. chanOpen[s] <=> InMap(s)
    BY DEF ChannelFollowsMap
  <2>3. chanOpen'[s] <=> chanOpen[s] /\ ~(InMap(s) /\ Expired(s))
    BY <1>1, <2>1
  <2> QED
    BY <1>2, <2>1, <2>2, <2>3
<1>6. WriteHitsMappedSession'
  <2> SUFFICES ASSUME main = "write" PROVE sessions'[source[target]] = target \/ failed[target]
    BY <1>1 DEF WriteHitsMappedSession, InMap
  <2>1. target \in Ids /\ age[target] < Timeout /\ source[target] \in Sources
    <3>1. target \in Ids /\ age[target] <= stall /\ age[target] \in Nat /\ stall \in 0..MaxStall
      BY DEF MainLoop, TypeOK
    <3>2. MaxStall < Timeout /\ source[target] \in Sources
      BY <1>1, <3>1 DEF TypeOK
    <3> QED
      BY <3>1, <3>2
  <2>2. ~Expired(target)
    BY <1>1, <2>1 DEF Expired, TypeOK
  <2>3. sessions[source[target]] = target \/ failed[target]
    BY DEF WriteHitsMappedSession, InMap
  <2> QED
    BY <1>1, <2>1, <2>2, <2>3
<1>7. MainLoop'
  BY <1>1 DEF MainLoop
<1>8. ExitsOnError'
  BY <1>1, <1>2 DEF ExitsOnError
<1>9. MapIsCreated'
  BY <1>1 DEF MapIsCreated, TypeOK
<1> QED
  BY <1>3, <1>4, <1>5, <1>6, <1>7, <1>8, <1>9

(* A tick makes no session older than the lookup of the main loop. *)
LEMMA TickIInv == IInv /\ Tick => IInv'
<1> SUFFICES ASSUME IInv, Tick PROVE IInv'
  OBVIOUS
<1> USE DEF IInv
<1>1. /\ main = "write" => stall < MaxStall
      /\ cleaner = "ticked" => lag < MaxLag
      /\ age' = [s \in Ids |-> IF InMap(s) /\ age[s] < MaxAge THEN age[s] + 1 ELSE age[s]]
      /\ lag' = IF cleaner = "ticked" THEN lag + 1 ELSE lag
      /\ stall' = IF main = "write" THEN stall + 1 ELSE stall
      /\ UNCHANGED <<sessions, created, source, chanOpen, connOpen, handler, failed, main,
                     packetSrc, target, cleaner>>
  BY DEF Tick, sessionVars
<1>2. TypeOK'
  <2>1. age' \in [Ids -> 0..MaxAge]
    BY <1>1 DEF TypeOK
  <2>2. lag' \in 0..MaxLag /\ stall' \in 0..MaxStall
    BY <1>1 DEF TypeOK
  <2> QED
    BY <1>1, <2>1, <2>2 DEF TypeOK
<1>3. /\ MapIsLive' /\ ChannelFollowsMap' /\ WriteHitsMappedSession'
      /\ ExitsOnError' /\ MapIsCreated'
  BY <1>1 DEF MapIsLive, ChannelFollowsMap, WriteHitsMappedSession, ExitsOnError,
              MapIsCreated, InMap
<1>4. MainLoop'
  <2>1. main = "write" => age'[target] <= stall'
    <3> SUFFICES ASSUME main = "write" PROVE age'[target] <= stall'
      OBVIOUS
    <3>1. target \in Ids /\ age[target] <= stall /\ age[target] \in Nat /\ stall \in Nat
      BY DEF MainLoop, TypeOK
    <3>2. age'[target] <= age[target] + 1 /\ stall' = stall + 1 /\ age'[target] \in Nat
      BY <1>1, <3>1
    <3> QED
      BY <3>1, <3>2
  <2> QED
    BY <1>1, <2>1 DEF MainLoop
<1> QED
  BY <1>2, <1>3, <1>4

LEMMA NextIInv == IInv /\ [Next]_vars => IInv'
<1> SUFFICES ASSUME IInv, [Next]_vars PROVE IInv'
  OBVIOUS
<1>1. CASE \E src \in Sources : Receive(src)
  BY <1>1, ReceiveIInv
<1>2. CASE DialFails \/ DialSucceeds \/ Write
  BY <1>2, DialFailsIInv, DialSucceedsIInv, WriteIInv
<1>3. CASE \E s \in Ids : HandlerStep(s)
  BY <1>3, HandlerMovesIInv, HandlerTrafficIInv, RemoveSessionIInv, CloseConnIInv DEF HandlerStep
<1>4. CASE TakeTime \/ Sweep \/ Tick
  BY <1>4, TakeTimeIInv, SweepIInv, TickIInv
<1>5. CASE UNCHANGED vars
  BY <1>5 DEF vars, sessionVars, mainVars, cleanerVars, IInv, TypeOK, MapIsLive,
              ChannelFollowsMap, WriteHitsMappedSession, MainLoop, ExitsOnError, MapIsCreated,
              InMap
<1> QED
  BY <1>1, <1>2, <1>3, <1>4, <1>5 DEF Next

LEMMA Invariance == Spec => []IInv
  BY InitIInv, NextIInv, PTL DEF Spec

-----------------------------------------------------------------------------
(* The map, the sessions, the goroutines and the clock keep their types. *)
THEOREM TypeCorrect == Spec => []TypeOK
<1>1. IInv => TypeOK
  BY DEF IInv
<1> QED
  BY <1>1, Invariance, PTL

(* The map never holds a session whose connection is closed or whose        *)
(* handler is gone.                                                         *)
THEOREM MapStaysLive == Spec => []MapIsLive
<1>1. IInv => MapIsLive
  BY DEF IInv
<1> QED
  BY <1>1, Invariance, PTL

(* A closeChan is closed exactly when its session leaves the map.           *)
THEOREM ChannelsFollowMap == Spec => []ChannelFollowsMap
<1>1. IInv => ChannelFollowsMap
  BY DEF IInv
<1> QED
  BY <1>1, Invariance, PTL

(* The main loop never writes to a session that the cleaner evicted after   *)
(* the main loop had looked it up, provided that it is held up between the  *)
(* two for less than the timeout (MaxStallAssumption).                      *)
THEOREM WritesHitMappedSessions == Spec => []WriteHitsMappedSession
<1>1. IInv => WriteHitsMappedSession
  BY DEF IInv
<1> QED
  BY <1>1, Invariance, PTL

-----------------------------------------------------------------------------
(* What a step that takes a session out of the map is. *)
LEMMA WhoRemoves ==
    ASSUME IInv, [Next]_vars, NEW src \in Sources, NEW s, s = sessions[src],
           s # NoSession, sessions'[src] # s
    PROVE  \/ handler[s] = "exit" /\ failed[s]
           \/ Timeout > 0 /\ age[s] >= Timeout
<1> USE DEF IInv
<1>1. s \in Ids /\ source[s] = src
  BY DEF TypeOK, MapIsLive
<1>2. CASE DialSucceeds
  BY <1>2 DEF DialSucceeds, MainLoop, TypeOK
<1>3. CASE \E r \in Ids : RemoveSession(r)
  <2>1. PICK r \in Ids : RemoveSession(r)
    BY <1>3
  <2>2. handler[r] = "exit" /\ InMap(r) /\ sessions' = [sessions EXCEPT ![source[r]] = NoSession]
    BY <2>1 DEF RemoveSession
  <2>3. r = s
    BY <1>1, <2>2 DEF InMap, TypeOK
  <2> QED
    BY <2>2, <2>3 DEF ExitsOnError
<1>4. CASE Sweep
  <2>1. Expired(s) /\ Timeout > 0
    BY <1>1, <1>4 DEF Sweep, ExitsOnError
  <2> QED
    BY <1>1, <2>1 DEF Expired, TypeOK
<1>5. CASE UNCHANGED sessions
  BY <1>5
<1>6. [Next]_vars => \/ DialSucceeds \/ (\E r \in Ids : RemoveSession(r)) \/ Sweep
                     \/ UNCHANGED sessions
  BY DEF Next, vars, HandlerStep, Receive, DialFails, Write, CheckClosed, ReadTimeout,
         ReadFails, Forward, CloseConn, TakeTime, Tick
<1> QED
  BY <1>2, <1>3, <1>4, <1>5, <1>6

(* A session leaves the map only by its own handler or after its timeout. *)
THEOREM RemovalIsJustified == Spec => OnlyIdleOrFailed
<1>1. IInv /\ [Next]_vars =>
        [\A src \in Sources :
           LET s == sessions[src]
           IN  s # NoSession /\ sessions'[src] # s =>
                   failed[s] \/ (Timeout > 0 /\ age[s] >= Timeout)]_vars
  BY WhoRemoves
<1> QED
  BY <1>1, Invariance, PTL DEF Spec, OnlyIdleOrFailed

(* README of wireproxy: with InactivityTimeout = 0 "it will never timeout": *)
(* only an error of the network ends a session.                             *)
THEOREM ZeroNeverTimesOut ==
    ASSUME Timeout = 0
    PROVE  Spec => [][\A src \in Sources :
                        LET s == sessions[src]
                        IN  s # NoSession /\ sessions'[src] # s => failed[s]]_vars
<1>1. IInv /\ [Next]_vars =>
        [\A src \in Sources :
           LET s == sessions[src]
           IN  s # NoSession /\ sessions'[src] # s => failed[s]]_vars
  BY WhoRemoves
<1> QED
  BY <1>1, Invariance, PTL DEF Spec

-----------------------------------------------------------------------------
(* Why an evicted session releases its connection.  It is open until the    *)
(* handler closes it, and what the handler still has to do is counted.      *)
Handled ==
    \A s \in 1..created :
        /\ handler[s] # "none"
        /\ connOpen[s] <=> handler[s] # "gone"

StepsLeft(s) ==
    CASE handler[s] = "read" -> 4
      [] handler[s] = "loop" -> 3
      [] handler[s] = "exit" -> 2
      [] handler[s] = "closing" -> 1
      [] OTHER -> 0

(* A session whose channel is closed stays so, and every step of its        *)
(* handler brings the release nearer, also one in which a datagram of the   *)
(* remote end is still forwarded.                                           *)
ReleaseComesNearer ==
    \A s \in 1..created : ~chanOpen[s] =>
        /\ ~chanOpen'[s] /\ StepsLeft(s)' <= StepsLeft(s)
        /\ HandlerStep(s) => StepsLeft(s)' < StepsLeft(s)

LEMMA HandledInvariant == Spec => []Handled
<1>1. Init => Handled
  BY DEF Init, Handled
<1>2. IInv /\ Handled /\ [Next]_vars => Handled'
  <2>. SUFFICES ASSUME IInv, Handled, [Next]_vars PROVE Handled'
    OBVIOUS
  <2>. USE DEF IInv, TypeOK, Handled
  <2>1. CASE UNCHANGED <<created, connOpen, handler>>
    BY <2>1
  <2>2. CASE DialSucceeds
    <3>1. created + 1 \in Ids /\ 1..created' = (1..created) \union {created + 1}
      BY <2>2 DEF DialSucceeds, MainLoop
    <3>. QED
      BY <2>2, <3>1 DEF DialSucceeds
  <2>3. ASSUME NEW s \in Ids, HandlerStep(s) PROVE Handled'
    <3>1. UNCHANGED created
      BY <2>3 DEF HandlerStep, CheckClosed, ReadTimeout, ReadFails, Forward, RemoveSession, CloseConn
    <3>2. CASE CloseConn(s)
      BY <3>1, <3>2 DEF CloseConn
    <3>3. CASE CheckClosed(s) \/ ReadTimeout(s) \/ ReadFails(s) \/ Forward(s) \/ RemoveSession(s)
      <4>1. /\ UNCHANGED connOpen /\ handler[s] \notin {"none", "gone"}
            /\ handler'[s] \notin {"none", "gone"}
            /\ \A r \in Ids : r # s => handler'[r] = handler[r]
        BY <3>3 DEF CheckClosed, ReadTimeout, ReadFails, Forward, RemoveSession, sessionVars
      <4>. QED
        BY <3>1, <4>1
    <3>. QED
      BY <2>3, <3>2, <3>3 DEF HandlerStep
  <2>4. [Next]_vars => \/ DialSucceeds \/ (\E s \in Ids : HandlerStep(s))
                       \/ UNCHANGED <<created, connOpen, handler>>
    BY DEF Next, vars, sessionVars, Receive, DialFails, Write, TakeTime, Sweep, Tick
  <2>. QED
    BY <2>1, <2>2, <2>3, <2>4
<1>. QED
  BY <1>1, <1>2, Invariance, PTL DEF Spec

(* Together with Handled, the fact EvictedIsReleased rests on: a session    *)
(* that left the map has at most four steps of its handler to go until its  *)
(* connection is closed, whatever the network and the main loop do.         *)
THEOREM EvictedIsNearRelease ==
  Spec => /\ [](\A s \in 1..created : connOpen[s] <=> StepsLeft(s) > 0)
          /\ [][ReleaseComesNearer]_vars
<1>1. IInv /\ Handled => \A s \in 1..created : connOpen[s] <=> StepsLeft(s) > 0
  BY DEF IInv, TypeOK, Handled, StepsLeft
<1>2. IInv /\ [Next]_vars => [ReleaseComesNearer]_vars
  <2>. SUFFICES ASSUME IInv, [Next]_vars, NEW s \in 1..created, ~chanOpen[s]
                PROVE  /\ ~chanOpen'[s] /\ StepsLeft(s)' <= StepsLeft(s)
                       /\ HandlerStep(s) => StepsLeft(s)' < StepsLeft(s)
    BY DEF ReleaseComesNearer
  <2>. USE DEF IInv, TypeOK
  <2>0. s \in Ids /\ s # created + 1
    OBVIOUS
  <2>1. CASE HandlerStep(s)
    <3>1. ~chanOpen'[s]
      BY <2>0, <2>1 DEF HandlerStep, CheckClosed, ReadTimeout, ReadFails, Forward, RemoveSession,
                  CloseConn, sessionVars
    <3>2. StepsLeft(s)' < StepsLeft(s)
      BY <2>0, <2>1 DEF HandlerStep, CheckClosed, ReadTimeout, ReadFails, Forward, RemoveSession,
                  CloseConn, StepsLeft
    <3>3. StepsLeft(s) \in 0..4 /\ StepsLeft(s)' \in 0..4
      BY DEF StepsLeft
    <3>. QED
      BY <3>1, <3>2, <3>3
  <2>2. CASE ~HandlerStep(s)
    <3>1. ~chanOpen'[s] /\ handler'[s] = handler[s]
      <4>1. ASSUME NEW r \in Ids, r # s, HandlerStep(r) PROVE ~chanOpen'[s] /\ handler'[s] = handler[s]
        BY <2>0, <4>1 DEF HandlerStep, CheckClosed, ReadTimeout, ReadFails, Forward, RemoveSession,
                    CloseConn, sessionVars
      <4>2. CASE DialSucceeds
        BY <2>0, <4>2 DEF DialSucceeds
      <4>3. CASE Sweep
        BY <2>0, <4>3 DEF Sweep
      <4>4. [Next]_vars => \/ DialSucceeds \/ Sweep \/ (\E r \in Ids : HandlerStep(r))
                           \/ UNCHANGED <<chanOpen, handler>>
        BY DEF Next, vars, sessionVars, Receive, DialFails, Write, TakeTime, Tick
      <4>. QED
        BY <2>2, <4>1, <4>2, <4>3, <4>4
    <3>2. StepsLeft(s)' = StepsLeft(s) /\ StepsLeft(s) \in 0..4
      BY <3>1 DEF StepsLeft
    <3>. QED
      BY <2>2, <3>1, <3>2
  <2>. QED
    BY <2>1, <2>2
<1>. QED
  BY <1>1, <1>2, Invariance, HandledInvariant, PTL DEF Spec
-----------------------------------------------------------------------------
(* Why an idle session is evicted.  A session that stays in the map and is  *)
(* not used grows older with every tick, up to an age at which it expires   *)
(* however long the cleaner waits for the lock; when it is old enough as    *)
(* the cleaner takes the time, it stays so until the sweep, and the sweep   *)
(* does not pass it over.                                                   *)
EvictionComesNearer ==
    \A s \in 1..created : InMap(s) /\ InMap(s)' =>
        /\ age'[s] < age[s] => age'[s] = 0
        /\ age'[s] >= age[s] =>
             /\ Tick => age'[s] > age[s] \/ age[s] = MaxAge
             /\ TakeTime /\ age[s] >= Timeout => cleaner' = "ticked" /\ Expired(s)'
             /\ cleaner = "ticked" /\ Expired(s) => cleaner' = "ticked" /\ Expired(s)'

(* Whoever is idle comes nearer to its eviction, for every timeout and for  *)
(* every lag of the cleaner: the fact that IdleIsEvicted rests on           *)
(* (udp_proxy.go:56-73).                                                    *)
THEOREM IdleIsNearEviction == Spec => [][EvictionComesNearer]_vars
<1>1. IInv /\ [Next]_vars => [EvictionComesNearer]_vars
  <2>. SUFFICES ASSUME IInv, [Next]_vars, NEW s \in 1..created, InMap(s), InMap(s)'
                PROVE  /\ age'[s] < age[s] => age'[s] = 0
                       /\ age'[s] >= age[s] =>
                            /\ Tick => age'[s] > age[s] \/ age[s] = MaxAge
                            /\ TakeTime /\ age[s] >= Timeout => cleaner' = "ticked" /\ Expired(s)'
                            /\ cleaner = "ticked" /\ Expired(s) => cleaner' = "ticked" /\ Expired(s)'
    BY DEF EvictionComesNearer
  <2>0. /\ s \in Ids /\ s # created + 1 /\ age[s] \in 0..MaxAge /\ lag \in 0..MaxLag
        /\ cleaner = "ticked" => Timeout > 0
        /\ cleaner \in {"idle", "ticked"}
    BY DEF IInv, TypeOK, ExitsOnError
  <2>1. CASE Tick
    <3>1. /\ age'[s] = IF age[s] < MaxAge THEN age[s] + 1 ELSE age[s]
          /\ lag' = IF cleaner = "ticked" THEN lag + 1 ELSE lag
          /\ cleaner' = cleaner /\ (cleaner = "ticked" => lag < MaxLag)
      BY <2>0, <2>1 DEF Tick
    <3>2. ~TakeTime
      BY <2>1, <3>1 DEF Tick, TakeTime
    <3>. QED
      BY <2>0, <3>1, <3>2 DEF Expired
  <2>2. CASE TakeTime
    <3>1. cleaner = "idle" /\ cleaner' = "ticked" /\ lag' = 0 /\ age' = age
      BY <2>2 DEF TakeTime
    <3>. QED
      BY <2>0, <3>1 DEF Expired, Tick
  <2>3. CASE Sweep
    <3>1. Expired(s) => ~InMap(s)'
      BY <2>0, <2>3 DEF Sweep, InMap, IInv, TypeOK
    <3>2. cleaner = "ticked" /\ age' = age /\ cleaner' = "idle"
      BY <2>3 DEF Sweep
    <3>. QED
      BY <2>0, <3>1, <3>2 DEF Tick, TakeTime
  <2>4. CASE ~Tick /\ ~TakeTime /\ ~Sweep
    <3>. DEFINE Same == cleaner' = cleaner /\ lag' = lag /\ (age'[s] = age[s] \/ age'[s] = 0)
    <3>1. Same
      <4>1. ASSUME NEW src \in Sources, Receive(src) PROVE Same
        BY <2>0, <4>1 DEF Receive, IInv, TypeOK, cleanerVars
      <4>2. CASE DialSucceeds
        BY <2>0, <4>2 DEF DialSucceeds, IInv, TypeOK, cleanerVars
      <4>3. CASE DialFails \/ UNCHANGED vars
        BY <4>3 DEF DialFails, vars, cleanerVars
      <4>4. CASE Write
        BY <2>0, <4>4 DEF Write, IInv, TypeOK, cleanerVars
      <4>5. ASSUME NEW r \in Ids, HandlerStep(r) PROVE Same
        <5>1. CASE Forward(r)
          BY <2>0, <5>1 DEF Forward, IInv, TypeOK, cleanerVars
        <5>2. CASE ~Forward(r)
          BY <4>5, <5>2 DEF HandlerStep, CheckClosed, ReadTimeout, ReadFails, RemoveSession, CloseConn,
                      cleanerVars
        <5>. QED
          BY <5>1, <5>2
      <4>. HIDE DEF Same
      <4>. QED
        BY <2>4, <4>1, <4>2, <4>3, <4>4, <4>5 DEF Next
    <3>. QED
      BY <2>0, <2>4, <3>1 DEF Expired
  <2>. QED
    BY <2>1, <2>2, <2>3, <2>4
<1>. QED
  BY <1>1, Invariance, PTL DEF Spec
=============================================================================
