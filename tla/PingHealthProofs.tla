--------------------------- MODULE PingHealthProofs ---------------------------
(***************************************************************************)
(* Theorems about PingHealth, for every set of addresses, interval and     *)
(* resolution of the clock: what an answer of /readyz says about the time  *)
(* of the last pongs, of which the map keeps whole seconds only.           *)
(***************************************************************************)
EXTENDS PingHealth, TLAPS

(* The map holds the second of the last pong.                               *)
MapHoldsPongs ==
    /\ PingRecord \in [Addrs -> Nat] /\ lastPong \in [Addrs -> Nat]
    /\ \A a \in Addrs : lastPong[a] <= now /\ PingRecord[a] = lastPong[a] \div SecondTicks

(* A pong that is being stored is not older than the one in the map: its    *)
(* time was taken under the lock.                                           *)
StoresLater ==
    \A w \in writing :
        w.addr \in Addrs /\ w.at \in Nat /\ lastPong[w.addr] <= w.at /\ w.at <= now

(* What the handler knows: an address it has passed had answered lately     *)
(* when the request came, and the entry it has is one that the map held.    *)
HandlerKnows ==
    /\ \A a \in seen : ~Older(lastPong[a], asked, Interval + 2)
    /\ \A e \in looked :
         /\ e.addr \in Addrs /\ e.pong \in Nat
         /\ e.pong <= lastPong[e.addr] /\ e.second = e.pong \div SecondTicks

Types ==
    /\ now \in Nat /\ nextRound \in Nat /\ asked \in Nat /\ asked <= now /\ Epoch <= now
    /\ \A p \in pings : p.addr \in Addrs /\ p.deadline \in Int
    /\ answered \subseteq Addrs
    /\ request \in {"none", "marshal", "next", "compare"}
    /\ request \in {"none", "marshal"} => seen = {}
    /\ seen \subseteq Addrs
    /\ status \in {"none", "200", "503"}
    /\ crashed \in BOOLEAN

(* The inductive invariant. *)
IInv == MapHoldsPongs /\ StoresLater /\ HandlerKnows /\ Types

-----------------------------------------------------------------------------
(* Whole seconds. *)
LEMMA Seconds ==
  ASSUME NEW n \in Nat, NEW s \in Nat \ {0}
  PROVE  /\ n \div s \in Nat
         /\ (n \div s) * s <= n
         /\ n < (n \div s) * s + s
BY Z3

LEMMA Factor ==
  ASSUME NEW q \in Nat, NEW r \in Nat, NEW s \in Nat \ {0}, q * s < r * s + s
  PROVE  q <= r
<1>1. SUFFICES ASSUME r + 1 <= q PROVE FALSE
  OBVIOUS
<1>2. (r + 1) * s <= q * s
  BY <1>1, Z3
<1>3. (r + 1) * s = r * s + s
  BY Z3
<1>. QED
  BY <1>2, <1>3

LEMMA LaterSeconds ==
  ASSUME NEW m \in Nat, NEW n \in Nat, m <= n, NEW s \in Nat \ {0}
  PROVE  m \div s <= n \div s
<1>1. (m \div s) * s <= m /\ n < (n \div s) * s + s /\ m \div s \in Nat /\ n \div s \in Nat
  BY Seconds
<1>2. (m \div s) * s \in Nat /\ (n \div s) * s \in Nat
  BY <1>1
<1>3. (m \div s) * s < (n \div s) * s + s
  BY <1>1, <1>2
<1>. QED
  BY <1>1, <1>3, Factor

(* What the handler makes of the second of a pong. *)
LEMMA StaleOrFresh ==
  ASSUME NEW pong \in Nat, now \in Nat, NEW r, r = pong \div SecondTicks
  PROVE  /\ ~Stale(r) => ~Older(pong, now, Interval + 2)
         /\ Stale(r) => Older(pong, now, Interval + 1)
<1>. DEFINE s == SecondTicks
<1>1. s \in Nat \ {0} /\ Interval \in Int
  BY SecondTicksAssumption, IntervalAssumption
<1>2. r \in Nat /\ r * s <= pong /\ pong < r * s + s
  BY <1>1, Seconds
<1>3. r * s \in Int /\ Interval * s \in Int
  BY <1>1, <1>2
<1>4. (r + Interval + 2) * s = r * s + Interval * s + s + s
  BY <1>1, <1>2, Z3
<1>5. (Interval + 2) * s = Interval * s + s + s /\ (Interval + 1) * s = Interval * s + s
  BY <1>1, Z3
<1>6. Stale(r) <=> now > r * s + Interval * s + s + s
  BY <1>4 DEF Stale
<1>7. /\ Older(pong, now, Interval + 2) <=> now - pong > Interval * s + s + s
      /\ Older(pong, now, Interval + 1) <=> now - pong > Interval * s + s
  BY <1>5 DEF Older
<1>. HIDE DEF s
<1>. QED
  BY <1>1, <1>2, <1>3, <1>6, <1>7

(* A later pong is not older, nor is a pong at an earlier time. *)
LEMMA NotOlder ==
  ASSUME NEW p \in Nat, NEW q \in Nat, p <= q, NEW t \in Nat, NEW u \in Nat, u <= t,
         ~Older(p, t, Interval + 2)
  PROVE  ~Older(q, u, Interval + 2)
<1>1. (Interval + 2) * SecondTicks \in Int
  BY IntervalAssumption, SecondTicksAssumption
<1>. QED
  BY <1>1 DEF Older

(* The map is never ahead of the clock. *)
LEMMA Typed ==
  ASSUME IInv
  PROVE  TypeOK
<1>. USE DEF IInv, MapHoldsPongs, Types
<1>1. ASSUME NEW a \in Addrs
      PROVE  PingRecord[a] \in 0..(now \div SecondTicks) /\ lastPong[a] \in 0..now
  <2>1. PingRecord[a] <= now \div SecondTicks
    BY LaterSeconds, SecondTicksAssumption
  <2>2. now \div SecondTicks \in Nat
    BY Seconds, SecondTicksAssumption
  <2>. QED
    BY <2>1, <2>2
<1>2. /\ PingRecord \in [Addrs -> 0..(now \div SecondTicks)]
      /\ lastPong \in [Addrs -> 0..now]
  BY <1>1
<1>3. \A w \in writing : w.addr \in Addrs /\ w.at \in 0..now
  BY DEF StoresLater
<1>4. \A e \in looked : e.addr \in Addrs /\ e.second \in Nat /\ e.pong \in 0..now
  <2>. SUFFICES ASSUME NEW e \in looked
                PROVE  e.addr \in Addrs /\ e.second \in Nat /\ e.pong \in 0..now
    OBVIOUS
  <2>1. /\ e.addr \in Addrs /\ e.pong \in Nat /\ e.pong <= lastPong[e.addr]
        /\ e.second = e.pong \div SecondTicks
    BY DEF HandlerKnows
  <2>. QED
    BY <2>1, Seconds, SecondTicksAssumption
<1>. QED
  BY <1>2, <1>3, <1>4 DEF TypeOK

-----------------------------------------------------------------------------
LEMMA InitIInv ==
  ASSUME Init
  PROVE  IInv
<1>1. Never \div SecondTicks = 0
  BY Seconds, SecondTicksAssumption DEF Never
<1>2. Epoch \in Nat
  BY EpochAssumption
<1>3. MapHoldsPongs
  BY <1>1, <1>2 DEF Init, MapHoldsPongs, Never
<1>4. StoresLater /\ HandlerKnows
  BY DEF Init, StoresLater, HandlerKnows
<1>5. Types
  <2>1. crashed \in BOOLEAN
    BY DEF Init
  <2>2. now = Epoch /\ asked = Epoch /\ nextRound = Epoch /\ Epoch <= Epoch
    BY <1>2 DEF Init
  <2>. QED
    BY <1>2, <2>1, <2>2 DEF Init, Types
<1>. QED
  BY <1>3, <1>4, <1>5 DEF IInv

(* Steps that leave the map, its lock, the clock and the request alone. *)
LEMMA PingStepPreserves ==
  ASSUME IInv, NEW p \in pings, PingFails(p) \/ PongArrives(p)
  PROVE  IInv'
<1>1. /\ UNCHANGED <<now, PingRecord, lastPong, nextRound, writing, requestVars, crashed>>
      /\ pings' \subseteq pings /\ answered' \subseteq Addrs
  BY DEF PingFails, PongArrives, IInv, Types
<1>. QED
  BY <1>1 DEF IInv, MapHoldsPongs, StoresLater, HandlerKnows, Types, Older, requestVars

LEMMA PingRoundPreserves ==
  ASSUME IInv, PingRound
  PROVE  IInv'
<1>1. now + Interval * SecondTicks \in Int /\ now \in Nat
  BY IntervalAssumption, SecondTicksAssumption DEF IInv, Types
<1>2. nextRound' \in Nat
  <2>1. Max({now, now + Interval * SecondTicks}) \in Nat
    BY <1>1 DEF Max
  <2>. QED
    BY <2>1 DEF PingRound
<1>3. \A p \in pings' : p.addr \in Addrs /\ p.deadline \in Int
  BY <1>1 DEF IInv, Types, PingRound
<1>. QED
  BY <1>2, <1>3 DEF IInv, MapHoldsPongs, StoresLater, HandlerKnows, Types, PingRound, requestVars, Older

LEMMA PongTimedPreserves ==
  ASSUME IInv, NEW a \in Addrs, PongTimed(a)
  PROVE  IInv'
BY DEF IInv, MapHoldsPongs, StoresLater, HandlerKnows, Types, PongTimed, requestVars, Older

LEMMA PongStoredPreserves ==
  ASSUME IInv, NEW w \in writing, PongStored(w)
  PROVE  IInv'
<1>1. /\ UNCHANGED <<now, pingVars, requestVars, crashed>> /\ writing' = {}
      /\ w.addr \in Addrs /\ w.at \in Nat /\ w.at <= now /\ lastPong[w.addr] <= w.at
      /\ now \in Nat /\ lastPong \in [Addrs -> Nat] /\ asked \in Nat /\ seen \subseteq Addrs
  BY DEF IInv, StoresLater, MapHoldsPongs, Types, PongStored
<1>2. w.at \div SecondTicks \in Nat
  BY <1>1, Seconds, SecondTicksAssumption
<1>3. /\ PingRecord' \in [Addrs -> Nat] /\ lastPong' \in [Addrs -> Nat]
      /\ \A a \in Addrs : lastPong'[a] = IF a = w.addr THEN w.at ELSE lastPong[a]
      /\ \A a \in Addrs : PingRecord'[a] = IF a = w.addr THEN w.at \div SecondTicks ELSE PingRecord[a]
  BY <1>1, <1>2 DEF IInv, MapHoldsPongs, PongStored
<1>4. MapHoldsPongs'
  BY <1>1, <1>3 DEF IInv, MapHoldsPongs
<1>5. \A a \in Addrs : lastPong[a] <= lastPong'[a] /\ lastPong[a] \in Nat /\ lastPong'[a] \in Nat
  BY <1>1, <1>3
<1>6. \A a \in seen : ~Older(lastPong'[a], asked, Interval + 2)
  BY <1>1, <1>5, NotOlder DEF IInv, HandlerKnows
<1>7. HandlerKnows'
  BY <1>1, <1>5, <1>6 DEF IInv, HandlerKnows, requestVars, Older
<1>. QED
  BY <1>1, <1>4, <1>7 DEF IInv, StoresLater, Types, pingVars, requestVars

-----------------------------------------------------------------------------
(* The handler. *)
LEMMA LookPreserves ==
  ASSUME IInv, NEW a \in Addrs, Look(a)
  PROVE  IInv'
<1>1. /\ looked' = {[addr |-> a, second |-> PingRecord[a], pong |-> lastPong[a]]}
      /\ request' = "compare"
      /\ UNCHANGED <<now, PingRecord, lastPong, pingVars, writing, asked, seen, status, crashed>>
  BY DEF Look
<1>2. lastPong[a] \in Nat /\ PingRecord[a] = lastPong[a] \div SecondTicks
  BY DEF IInv, MapHoldsPongs
<1>3. HandlerKnows'
  BY <1>1, <1>2 DEF IInv, HandlerKnows, Older
<1>. QED
  BY <1>1, <1>3 DEF IInv, MapHoldsPongs, StoresLater, Types, pingVars

LEMMA RespondPreserves ==
  ASSUME IInv, NEW code \in {"200", "503"}, Respond(code),
         UNCHANGED <<now, PingRecord, lastPong, pingVars, writing, crashed>>
  PROVE  IInv'
BY EpochAssumption
DEF IInv, MapHoldsPongs, StoresLater, HandlerKnows, Types, Respond, pingVars, Older

(* An entry that is fresh now was fresh when the request came, and a pong   *)
(* that was stored since makes it fresher.                                  *)
LEMMA ComparePreserves ==
  ASSUME IInv, NEW e \in looked, Compare(e)
  PROVE  IInv'
<1>1. CASE Stale(e.second) /\ Respond("503")
  BY <1>1, RespondPreserves DEF Compare
<1>2. CASE /\ ~Stale(e.second)
           /\ request' = "next" /\ seen' = seen \union {e.addr} /\ looked' = {}
           /\ UNCHANGED <<asked, status>>
  <2>1. /\ e.addr \in Addrs /\ e.pong \in Nat /\ e.pong <= lastPong[e.addr]
        /\ e.second = e.pong \div SecondTicks
        /\ lastPong[e.addr] \in Nat /\ now \in Nat /\ asked \in Nat /\ asked <= now
    BY DEF IInv, HandlerKnows, MapHoldsPongs, Types
  <2>2. ~Older(e.pong, now, Interval + 2)
    BY <1>2, <2>1, StaleOrFresh
  <2>3. ~Older(lastPong[e.addr], asked, Interval + 2)
    BY <2>1, <2>2, NotOlder
  <2>4. UNCHANGED <<now, PingRecord, lastPong, pingVars, writing, crashed>>
    BY DEF Compare
  <2>5. HandlerKnows'
    BY <1>2, <2>3, <2>4 DEF IInv, HandlerKnows, Older
  <2>. QED
    BY <1>2, <2>1, <2>4, <2>5 DEF IInv, MapHoldsPongs, StoresLater, Types, pingVars
<1>. QED
  BY <1>1, <1>2 DEF Compare

LEMMA TickPreserves ==
  ASSUME IInv, Tick
  PROVE  IInv'
<1>1. /\ now' = now + 1
      /\ UNCHANGED <<PingRecord, lastPong, pingVars, writing, requestVars, crashed>>
  BY DEF Tick
<1>2. now \in Nat /\ asked \in Nat /\ asked <= now' /\ Epoch <= now' /\ now' \in Nat
  BY <1>1, EpochAssumption DEF IInv, Types
<1>3. MapHoldsPongs'
  BY <1>1, <1>2 DEF IInv, MapHoldsPongs
<1>4. StoresLater'
  BY <1>1, <1>2 DEF IInv, StoresLater, MapHoldsPongs
<1>. QED
  BY <1>1, <1>2, <1>3, <1>4 DEF IInv, HandlerKnows, Types, pingVars, requestVars, Older

LEMMA NextIInv ==
  ASSUME IInv, [Next]_vars
  PROVE  IInv'
<1>. USE DEF MapHoldsPongs, StoresLater, HandlerKnows, Types, Older
<1>1. CASE PingRound
  BY <1>1, PingRoundPreserves
<1>2. CASE Request
  BY <1>2 DEF IInv, Request, pingVars
<1>3. CASE Marshal
  BY <1>3 DEF IInv, Marshal, pingVars
<1>4. CASE AllFresh
  BY <1>4, RespondPreserves DEF AllFresh
<1>5. CASE ConcurrentAccess
  BY <1>5 DEF IInv, ConcurrentAccess, pingVars, requestVars
<1>6. CASE Tick
  BY <1>6, TickPreserves
<1>7. ASSUME NEW p \in pings, PingFails(p) \/ PongArrives(p) PROVE IInv'
  BY <1>7, PingStepPreserves
<1>8. ASSUME NEW a \in Addrs, PongTimed(a) PROVE IInv'
  BY <1>8, PongTimedPreserves
<1>9. ASSUME NEW a \in Addrs, Look(a) PROVE IInv'
  BY <1>9, LookPreserves
<1>10. ASSUME NEW w \in writing, PongStored(w) PROVE IInv'
  BY <1>10, PongStoredPreserves
<1>11. ASSUME NEW e \in looked, Compare(e) PROVE IInv'
  BY <1>11, ComparePreserves
<1>12. CASE UNCHANGED vars
  BY <1>12 DEF IInv, vars, pingVars, requestVars
<1>. QED
  BY <1>1, <1>2, <1>3, <1>4, <1>5, <1>6, <1>7, <1>8, <1>9, <1>10, <1>11, <1>12 DEF Next

THEOREM Invariant == Spec => []IInv
BY InitIInv, NextIInv, PTL DEF Spec

(* The type invariant, of which the essential part is that the map is never *)
(* ahead of the clock (routine.go:463-465).                                 *)
THEOREM TypeCorrect == Spec => []TypeOK
BY Invariant, Typed, PTL

(* For every CheckAliveInterval and any number of addresses: a 200 means    *)
(* that every address had answered in the Interval + 2 seconds before the   *)
(* request or answered since, although pongs are stored and time passes     *)
(* while the handler goes over the map (routine.go:338-362).                *)
THEOREM OkMeansFreshHolds == Spec => OkMeansFresh
<1>1. ASSUME IInv, [Next]_vars
      PROVE  [Answers("200") => \A a \in Addrs : ~Older(lastPong[a], asked, Interval + 2)]_vars
  <2>1. SUFFICES ASSUME Next, Answers("200") PROVE seen = Addrs
    BY <1>1 DEF IInv, HandlerKnows
  <2>2. CASE AllFresh
    BY <2>2 DEF AllFresh
  <2>3. ASSUME NEW e \in looked, Compare(e) PROVE FALSE
    BY <2>1, <2>3 DEF Compare, Respond, Answers
  <2>. QED
    BY <2>1, <2>2, <2>3 DEF Next, Answers, PingRound, PongStored, Request, Marshal, ConcurrentAccess,
                Tick, PingFails, PongArrives, PongTimed, Look, requestVars
<1>. QED
  BY Invariant, <1>1, PTL DEF Spec, OkMeansFresh

(* A 503 means that the last pong which the handler found for some address  *)
(* is more than Interval + 1 seconds old: the truncation to seconds costs   *)
(* one, and no more.                                                        *)
THEOREM UnavailableMeansSilentHolds == Spec => UnavailableMeansSilent
<1>1. ASSUME IInv, [Next]_vars
      PROVE  [Answers("503") => \E e \in looked : Older(e.pong, now, Interval + 1)]_vars
  <2>1. SUFFICES ASSUME Next, Answers("503") PROVE \E e \in looked : Older(e.pong, now, Interval + 1)
    BY <1>1
  <2>2. CASE AllFresh
    BY <2>1, <2>2 DEF AllFresh, Respond, Answers
  <2>3. ASSUME NEW e \in looked, Compare(e) PROVE Older(e.pong, now, Interval + 1)
    <3>1. Stale(e.second)
      BY <2>1, <2>3 DEF Compare, Answers
    <3>2. e.pong \in Nat /\ e.second = e.pong \div SecondTicks /\ now \in Nat
      BY <1>1 DEF IInv, HandlerKnows, Types
    <3>. QED
      BY <3>1, <3>2, StaleOrFresh
  <2>. QED
    BY <2>1, <2>2, <2>3 DEF Next, Answers, PingRound, PongStored, Request, Marshal, ConcurrentAccess,
                Tick, PingFails, PongArrives, PongTimed, Look, requestVars
<1>. QED
  BY Invariant, <1>1, PTL DEF Spec, UnavailableMeansSilent
=============================================================================
