------------------------------ MODULE PingHealth ------------------------------
(***************************************************************************)
(* The health endpoint of wireproxy: StartPingIPs and pingIPs of           *)
(* wireproxy/routine.go, which ping the CheckAlive addresses and store the *)
(* second of the last pong in the map PingRecord, and the handler of       *)
(* /readyz, which reads that map without its lock.                         *)
(*                                                                         *)
(* Time is counted in ticks, SecondTicks to a second; the map holds whole  *)
(* seconds, like time.Now().Unix().  The clock moves between any two steps *)
(* of a goroutine.  A request only reads, so one at a time is modelled.    *)
(***************************************************************************)
EXTENDS Integers, FiniteSetsExt

CONSTANTS
    Addrs,       \* Conf.CheckAlive
    Interval,    \* Conf.CheckAliveInterval, in seconds: any integer is accepted
    SecondTicks, \* resolution of the clock
    Epoch,       \* the clock when the program starts
    MaxTime      \* bound: where the clock stops

ASSUME IntervalAssumption == Interval \in Int
ASSUME SecondTicksAssumption == SecondTicks \in Nat \ {0}

(* time.Unix(0, 0) lies further back than any CheckAliveInterval. *)
ASSUME EpochAssumption == Epoch \in Nat /\ Epoch > (Interval + 2) * SecondTicks
ASSUME MaxTimeAssumption == MaxTime \in Nat

Never == 0

VARIABLES
    now,        \* the clock
    PingRecord, \* the map: second of the last pong
    lastPong,   \* history: tick of the last pong
    nextRound,  \* when the pinging goroutine wakes up
    pings,      \* pings without an answer: address and read deadline
    answered,   \* addresses whose valid reply waits for the lock
    writing,    \* under the lock: the address and the time of its pong
    request,    \* /readyz: "none", "marshal", "next", "compare"
    asked,      \* history: when it came; Epoch without a request
    seen,       \* the addresses found fresh; none without a request
    looked,     \* the entry that the loop has: address, second; history: the pong
    status,     \* the last response: "none", "200" or "503"
    crashed     \* the Go runtime aborted: concurrent map iteration and write

pingVars == <<nextRound, pings, answered>>
requestVars == <<request, asked, seen, looked, status>>
vars == <<now, PingRecord, lastPong, pingVars, writing, requestVars, crashed>>

(* Mutant: the map starts with the time of the start. *)
InitRecordNow ==
    /\ now = Epoch
    /\ PingRecord = [a \in Addrs |-> Epoch \div SecondTicks]
    /\ lastPong = [a \in Addrs |-> Never]
    /\ nextRound = Epoch /\ pings = {} /\ answered = {}
    /\ writing = {}
    /\ request = "none" /\ asked = Epoch /\ seen = {} /\ looked = {} /\ status = "none"
    /\ crashed = FALSE

(* StartPingIPs has filled the map and started the goroutine. *)
Init ==
    /\ now = Epoch
    /\ PingRecord = [a \in Addrs |-> Never]
    /\ lastPong = [a \in Addrs |-> Never]
    /\ nextRound = Epoch /\ pings = {} /\ answered = {}
    /\ writing = {}
    /\ request = "none" /\ asked = Epoch /\ seen = {} /\ looked = {} /\ status = "none"
    /\ crashed = FALSE

-----------------------------------------------------------------------------
(* pingIPs: every address gets a socket and a ping, or an error of Dial or  *)
(* Write; then the goroutine sleeps, not at all if the interval is negative.*)
PingRound ==
    /\ now >= nextRound
    /\ \E sent \in SUBSET Addrs :
         pings' = pings \union {[addr |-> a, deadline |-> now + Interval * SecondTicks] : a \in sent}
    /\ nextRound' = Max({now, now + Interval * SecondTicks})
    /\ UNCHANGED <<now, PingRecord, lastPong, answered, writing, requestVars, crashed>>

(* The read fails or runs into its deadline, or the reply is not valid.     *)
PingFails(p) ==
    /\ pings' = pings \ {p}
    /\ UNCHANGED <<now, PingRecord, lastPong, nextRound, answered, writing, requestVars, crashed>>

(* A valid reply, in time. *)
PongArrives(p) ==
    /\ now <= p.deadline
    /\ pings' = pings \ {p}
    /\ answered' = answered \union {p.addr}
    /\ UNCHANGED <<now, PingRecord, lastPong, nextRound, writing, requestVars, crashed>>

(* The goroutine of the ping takes the lock and reads the clock ...         *)
PongTimed(a) ==
    /\ a \in answered /\ writing = {}
    /\ answered' = answered \ {a}
    /\ writing' = {[addr |-> a, at |-> now]}
    /\ UNCHANGED <<now, PingRecord, lastPong, nextRound, pings, requestVars, crashed>>

(* Mutant: the second is rounded up. *)
PongStoredRoundedUp(w) ==
    /\ PingRecord' = [PingRecord EXCEPT ![w.addr] = w.at \div SecondTicks + 1]
    /\ lastPong' = [lastPong EXCEPT ![w.addr] = w.at]
    /\ writing' = {}
    /\ UNCHANGED <<now, pingVars, requestVars, crashed>>

(* Mutant: the time in the map is a second late. *)
PongStoredLate(w) ==
    /\ PingRecord' = [PingRecord EXCEPT ![w.addr] = w.at \div SecondTicks - 1]
    /\ lastPong' = [lastPong EXCEPT ![w.addr] = w.at]
    /\ writing' = {}
    /\ UNCHANGED <<now, pingVars, requestVars, crashed>>

(* ... stores the second, and releases the lock. *)
PongStored(w) ==
    /\ PingRecord' = [PingRecord EXCEPT ![w.addr] = w.at \div SecondTicks]
    /\ lastPong' = [lastPong EXCEPT ![w.addr] = w.at]
    /\ writing' = {}
    /\ UNCHANGED <<now, pingVars, requestVars, crashed>>

-----------------------------------------------------------------------------
(* GET /readyz *)
Request ==
    /\ request = "none"
    /\ request' = "marshal" /\ asked' = now /\ status' = "none"
    /\ UNCHANGED <<now, PingRecord, lastPong, pingVars, writing, seen, looked, crashed>>

(* The body is written from the map, before the status is decided. *)
Marshal ==
    /\ request = "marshal"
    /\ request' = "next"
    /\ UNCHANGED <<now, PingRecord, lastPong, pingVars, writing, asked, seen, looked, status,
                   crashed>>

(* One turn of the loop takes an entry of the map, without the lock ...     *)
Look(a) ==
    /\ request = "next" /\ a \notin seen
    /\ looked' = {[addr |-> a, second |-> PingRecord[a], pong |-> lastPong[a]]}
    /\ request' = "compare"
    /\ UNCHANGED <<now, PingRecord, lastPong, pingVars, writing, asked, seen, status, crashed>>

(* time.Since(lastPong) > CheckAliveInterval + 2 seconds *)
Stale(second) == now > (second + Interval + 2) * SecondTicks

(* The response: the variables of the handler are gone. *)
Respond(code) ==
    /\ request' = "none" /\ status' = code
    /\ asked' = Epoch /\ seen' = {} /\ looked' = {}

(* ... and looks at the clock: the first stale entry decides. *)
Compare(e) ==
    /\ request = "compare"
    /\ \/ Stale(e.second) /\ Respond("503")
       \/ /\ ~Stale(e.second)
          /\ request' = "next" /\ seen' = seen \union {e.addr} /\ looked' = {}
          /\ UNCHANGED <<asked, status>>
    /\ UNCHANGED <<now, PingRecord, lastPong, pingVars, writing, crashed>>

(* The map has no more entries. *)
AllFresh ==
    /\ request = "next" /\ seen = Addrs
    /\ Respond("200")
    /\ UNCHANGED <<now, PingRecord, lastPong, pingVars, writing, crashed>>

(* The map is iterated while it is written to: the runtime may notice, and  *)
(* then it stops the whole program.                                         *)
ConcurrentAccess ==
    /\ request \in {"marshal", "next"} /\ writing # {}
    /\ crashed' = TRUE
    /\ UNCHANGED <<now, PingRecord, lastPong, pingVars, writing, requestVars>>

(* The clock moves, wherever the goroutines are; a read ends by its deadline. *)
Tick ==
    /\ now < MaxTime
    /\ \A p \in pings : now < p.deadline
    /\ now' = now + 1
    /\ UNCHANGED <<PingRecord, lastPong, pingVars, writing, requestVars, crashed>>

Next ==
    /\ ~crashed
    /\ \/ PingRound \/ Request \/ Marshal \/ AllFresh \/ ConcurrentAccess \/ Tick
       \/ \E p \in pings : PingFails(p) \/ PongArrives(p)
       \/ \E a \in Addrs : PongTimed(a) \/ Look(a)
       \/ \E w \in writing : PongStored(w)
       \/ \E e \in looked : Compare(e)

Spec == Init /\ [][Next]_vars

-----------------------------------------------------------------------------
TypeOK ==
    /\ now \in Nat /\ nextRound \in Nat
    /\ PingRecord \in [Addrs -> 0..(now \div SecondTicks)]
    /\ lastPong \in [Addrs -> 0..now]
    /\ \A p \in pings : p.addr \in Addrs /\ p.deadline \in Int
    /\ answered \subseteq Addrs
    /\ \A w \in writing : w.addr \in Addrs /\ w.at \in 0..now
    /\ request \in {"none", "marshal", "next", "compare"}
    /\ asked \in 0..now
    /\ seen \subseteq Addrs
    /\ \A e \in looked : e.addr \in Addrs /\ e.second \in Nat /\ e.pong \in 0..now
    /\ status \in {"none", "200", "503"}
    /\ crashed \in BOOLEAN

(* The step in which /readyz answers. *)
Answers(code) == request # "none" /\ request' = "none" /\ status' = code

(* At time t, the pong is more than n seconds old. *)
Older(pong, t, n) == t - pong > n * SecondTicks

(* A 200 means that, when the request came, every address had answered      *)
(* within the last Interval + 2 seconds, or that it has answered since: the *)
(* map is read without the lock, address by address, while the clock runs.  *)
OkMeansFresh ==
    [][Answers("200") => \A a \in Addrs : ~Older(lastPong[a], asked, Interval + 2)]_vars

(* A 503 means that the last pong of some address, as the handler found it  *)
(* in the map, is more than Interval + 1 seconds old.  Not Interval + 2, as *)
(* the README has it: the map holds whole seconds, and a pong looks up to   *)
(* one second older than it is.                                             *)
UnavailableMeansSilent ==
    [][Answers("503") => \E e \in looked : Older(e.pong, now, Interval + 1)]_vars

-----------------------------------------------------------------------------
(* What the README of wireproxy says and the code does not do (line 246).   *)

(* /readyz answers with a 503, "otherwise a 200": the program survives it.  *)
ReadyzAnswers == ~crashed
=============================================================================
