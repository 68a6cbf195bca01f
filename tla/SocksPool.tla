------------------------------ MODULE SocksPool ------------------------------
(***************************************************************************)
(* The pool of SOCKS5 endpoints of src/socksPool.js and what uses it: the  *)
(* upgrade handler of src/index.js, which decides once per WebSocket       *)
(* whether its streams dial through the pool, and connect() of             *)
(* src/socksTcpSocket.js, which picks an endpoint and then waits for the   *)
(* connection while other streams pick theirs.                             *)
(***************************************************************************)
EXTENDS Lists

CONSTANTS
    Hosts,     \* well-formed tokens of WIREPROXY_SOCKS: host:port
    Malformed, \* tokens without a port, without a host, or with no number
    Blank,     \* an empty token, as a trailing comma leaves it
    Dead,      \* the endpoints that accept no connection
    Streams,   \* TCP streams of the browsers
    MaxTokens, \* bound: tokens in WIREPROXY_SOCKS
    MaxPicks   \* bound: calls of pickSocksEndpoint

ASSUME DeadAssumption == Dead \subseteq Hosts
ASSUME BoundsAssumption == MaxTokens \in Nat /\ MaxPicks \in Nat

Tokens == Hosts \union {Malformed, Blank}

VARIABLES
    raw,       \* WIREPROXY_SOCKS, split at the commas
    process,   \* "starting", "running" or "failed"
    endpoints, \* the parsed pool
    counter,   \* the number of picks so far
    via,       \* how a stream dials: "none", "direct" or "pool"
    endpoint,  \* the endpoint it picked
    state,     \* "new", "dialing", "connected" or "error"
    picks      \* history: the index picked, in order

vars == <<raw, process, endpoints, counter, via, endpoint, state, picks>>

Sequences(S, n) == UNION {[1..m -> S] : m \in 0..n}

(* Init fixes the environment of the process. *)
Init ==
    /\ raw \in Sequences(Tokens, MaxTokens)
    /\ process = "starting"
    /\ endpoints = <<>>
    /\ counter = 0
    /\ via = [s \in Streams |-> "none"]
    /\ endpoint = [s \in Streams |-> Blank]
    /\ state = [s \in Streams |-> "new"]
    /\ picks = <<>>

(* Mutant: blank tokens are not filtered out. *)
ParseKeepsBlanks == raw

parseEndpoints == Without(raw, Blank)

(* The module is loaded: a malformed token throws, and nothing starts. *)
Start ==
    /\ process = "starting"
    /\ \/ /\ \E i \in 1..Len(parseEndpoints) : parseEndpoints[i] = Malformed
          /\ process' = "failed"
          /\ UNCHANGED endpoints
       \/ /\ \A i \in 1..Len(parseEndpoints) : parseEndpoints[i] # Malformed
          /\ process' = "running"
          /\ endpoints' = parseEndpoints
    /\ UNCHANGED <<raw, counter, via, endpoint, state, picks>>

isEnabled == Len(endpoints) > 0

(* An upgrade to /wisp/: the kind of socket for its streams is chosen. *)
Upgrade(s) ==
    /\ process = "running" /\ via[s] = "none"
    /\ via' = [via EXCEPT ![s] = IF isEnabled THEN "pool" ELSE "direct"]
    /\ UNCHANGED <<raw, process, endpoints, counter, endpoint, state, picks>>

(* counter % endpoints.length, counted from 1 *)
Next1 == (counter % Len(endpoints)) + 1

(* Mutant: the counter moves only when the connection stands. *)
PickWithoutCounting(s) ==
    /\ via[s] = "pool" /\ state[s] \in {"new", "error"} /\ Len(picks) < MaxPicks
    /\ endpoint' = [endpoint EXCEPT ![s] = endpoints[Next1]]
    /\ picks' = Append(picks, Next1)
    /\ state' = [state EXCEPT ![s] = "dialing"]
    /\ UNCHANGED <<raw, process, endpoints, counter, via>>

(* connect() up to its await: pickSocksEndpoint() and the start of the dial. *)
(* A browser whose stream failed opens it again.                             *)
Connect(s) ==
    /\ via[s] = "pool" /\ state[s] \in {"new", "error"} /\ Len(picks) < MaxPicks
    /\ endpoint' = [endpoint EXCEPT ![s] = endpoints[Next1]]
    /\ counter' = counter + 1
    /\ picks' = Append(picks, Next1)
    /\ state' = [state EXCEPT ![s] = "dialing"]
    /\ UNCHANGED <<raw, process, endpoints, via>>

(* The dial ends; connect() tries no second endpoint. *)
Dialed(s) ==
    /\ state[s] = "dialing"
    /\ state' = [state EXCEPT ![s] = IF endpoint[s] \in Dead THEN "error" ELSE "connected"]
    /\ UNCHANGED <<raw, process, endpoints, counter, via, endpoint, picks>>

Next ==
    \/ Start
    \/ \E s \in Streams : Upgrade(s) \/ Connect(s) \/ Dialed(s)

Spec == Init /\ [][Next]_vars

-----------------------------------------------------------------------------
TypeOK ==
    /\ process \in {"starting", "running", "failed"}
    /\ \A i \in 1..Len(endpoints) : endpoints[i] \in Hosts
    /\ counter \in 0..MaxPicks
    /\ via \in [Streams -> {"none", "direct", "pool"}]
    /\ endpoint \in [Streams -> Hosts \union {Blank}]
    /\ state \in [Streams -> {"new", "dialing", "connected", "error"}]

(* Egress rotates: any run of picks as long as the pool uses every entry    *)
(* once, however the streams' dials overlap: of as many attempts as the     *)
(* pool has entries, one is made through a live entry if there is any.      *)
RotationCovers ==
    LET n == Len(endpoints)
    IN  \A i \in 1..Len(picks) :
            n > 0 /\ i + n - 1 <= Len(picks) => {picks[j] : j \in i..(i + n - 1)} = 1..n
=============================================================================
