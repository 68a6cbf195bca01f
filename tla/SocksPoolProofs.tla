--------------------------- MODULE SocksPoolProofs ---------------------------
(***************************************************************************)
(* Theorems about SocksPool, for every set of endpoints, of which any may  *)
(* be dead, every number of streams and every value of WIREPROXY_SOCKS:    *)
(* what is in the pool, and how its use rotates.                           *)
(***************************************************************************)
EXTENDS SocksPool, WellFoundedInduction, TLAPS

(* The pool is empty until the process runs, and a stream dials through it  *)
(* only if it is not empty; the counter is the number of picks, each of     *)
(* which is the number of those before it, modulo the size of the pool.     *)
IInv ==
    /\ process \in {"starting", "running", "failed"}
    /\ raw \in Seq(Tokens) /\ endpoints \in Seq(Hosts)
    /\ via \in [Streams -> {"none", "direct", "pool"}]
    /\ endpoint \in [Streams -> Hosts \union {Blank}]
    /\ state \in [Streams -> {"new", "dialing", "connected", "error"}]
    /\ process # "running" => endpoints = <<>>
    /\ \A s \in Streams : via[s] = "pool" => process = "running" /\ Len(endpoints) > 0
    /\ picks \in Seq(Nat) /\ counter = Len(picks) /\ Len(picks) <= MaxPicks
    /\ picks # <<>> => Len(endpoints) > 0
    /\ \A i \in 1..Len(picks) : picks[i] = ((i - 1) % Len(endpoints)) + 1
-----------------------------------------------------------------------------
(* Induction, from the least element of a set of naturals. *)
LEMMA Least ==
  ASSUME NEW T, T \subseteq Nat, T # {}
  PROVE  \E n \in T : \A m \in T : n <= m
<1> DEFINE R == OpToRel(<, Nat)
<1>1. IsWellFoundedOn(R, Nat)
  BY NatLessThanWellFounded
<1>2. \A m, n \in Nat : m < n => <<m, n>> \in R
  BY DEF OpToRel
<1> HIDE DEF R
<1>3. PICK n \in T : \A m \in T : <<m, n>> \notin R
  BY <1>1, WFMin
<1>4. \A m \in T : ~(m < n)
  BY <1>2, <1>3
<1>5. \A m \in T : n <= m
  BY <1>4
<1> QED
  BY <1>5

LEMMA Induction ==
  ASSUME NEW S, 0 \in S, \A n \in Nat : n \in S => n + 1 \in S
  PROVE  Nat \subseteq S
<1> SUFFICES ASSUME Nat \ S # {} PROVE FALSE
  OBVIOUS
<1>1. PICK n \in Nat \ S : \A m \in Nat \ S : n <= m
  BY Least
<1>2. n - 1 \in Nat /\ (n - 1) + 1 = n
  BY <1>1
<1>3. n - 1 \in S
  BY <1>1, <1>2
<1> QED
  BY <1>1, <1>2, <1>3

(* The lists after the first elements, of which Without takes the last. *)
Steps(s, x, n, g) ==
    g = [i \in 0..n |-> IF i = 0 THEN <<>>
                        ELSE IF s[i] = x THEN g[i - 1] ELSE Append(g[i - 1], s[i])]

(* They exist: the recursive function of Without is one. *)
LEMMA StepsExist ==
  ASSUME NEW s, NEW x
  PROVE \A n \in Nat : \E g : Steps(s, x, n, g)
<1> DEFINE T == {n \in Nat : \E g : Steps(s, x, n, g)}
<1>1. 0 \in T
  <2>1. Steps(s, x, 0, [i \in 0..0 |-> <<>>])
    BY DEF Steps
  <2> QED BY <2>1
<1>2. ASSUME NEW n \in Nat, n \in T PROVE n + 1 \in T
  <2>1. PICK g : Steps(s, x, n, g)
    BY <1>2
  <2> DEFINE h == [i \in 0..n + 1 |-> IF i = n + 1 THEN (IF s[i] = x THEN g[i - 1] ELSE Append(g[i - 1], s[i])) ELSE g[i]]
  <2>2. \A i \in 0..n : h[i] = g[i]
    OBVIOUS
  <2>3. \A i \in 0..n + 1 : h[i] = IF i = 0 THEN <<>>
            ELSE IF s[i] = x THEN h[i - 1] ELSE Append(h[i - 1], s[i])
    <3>0. h[0] = <<>>
      <4>1. g[0] = <<>> /\ 0 \in 0..n
        BY <2>1 DEF Steps
      <4> QED BY <4>1, <2>2
    <3> SUFFICES ASSUME NEW i \in 0..n + 1, i # 0
                 PROVE  h[i] = IF s[i] = x THEN h[i - 1] ELSE Append(h[i - 1], s[i])
      <4> HIDE DEF h
      <4> QED BY <3>0
    <3>1. i - 1 \in 0..n /\ h[i - 1] = g[i - 1]
      BY <2>2
    <3>2. CASE i = n + 1
      BY <3>1, <3>2
    <3>3. CASE i \in 0..n
      <4>1. g[i] = IF s[i] = x THEN g[i - 1] ELSE Append(g[i - 1], s[i])
        BY <2>1, <3>3 DEF Steps
      <4>2. h[i] = g[i]
        BY <2>2, <3>3
      <4> QED BY <3>1, <4>1, <4>2
    <3> QED BY <3>2, <3>3
  <2>4. Steps(s, x, n + 1, h)
    BY <2>3 DEF Steps
  <2> QED BY <2>4
<1> QED
  <2> HIDE DEF T
  <2>1. Nat \subseteq T
    BY <1>1, <1>2, Induction
  <2> QED BY <2>1 DEF T

LEMMA WithoutSteps ==
  ASSUME NEW S, NEW s \in Seq(S), NEW x
  PROVE  \E g : Steps(s, x, Len(s), g) /\ Without(s, x) = g[Len(s)]
<1>1. \E g : Steps(s, x, Len(s), g)
  <2>1. Len(s) \in Nat
    OBVIOUS
  <2> QED BY <2>1, StepsExist
<1> QED BY <1>1 DEF Without, Steps

(* What is left are elements of the list, none of them the one dropped. *)
LEMMA WithoutSeq ==
  ASSUME NEW S, NEW s \in Seq(S), NEW x
  PROVE  Without(s, x) \in Seq(S \ {x})
<1>1. PICK g : Steps(s, x, Len(s), g) /\ Without(s, x) = g[Len(s)]
  BY WithoutSteps
<1> DEFINE T == {n \in Nat : n <= Len(s) => g[n] \in Seq(S \ {x})}
<1>2. 0 \in T
  BY <1>1 DEF Steps
<1>3. ASSUME NEW n \in Nat, n \in T PROVE n + 1 \in T
  <2> SUFFICES ASSUME n + 1 <= Len(s) PROVE g[n + 1] \in Seq(S \ {x})
    OBVIOUS
  <2>1. g[n] \in Seq(S \ {x}) /\ s[n + 1] \in S
    BY <1>3
  <2>2. n + 1 \in 0..Len(s) /\ n + 1 # 0 /\ (n + 1) - 1 = n
    OBVIOUS
  <2>3. g[n + 1] = IF s[n + 1] = x THEN g[(n + 1) - 1] ELSE Append(g[(n + 1) - 1], s[n + 1])
    <3> HIDE DEF T
    <3> QED BY <1>1, <2>2 DEF Steps
  <2> QED BY <2>1, <2>2, <2>3
<1> QED
  <2> HIDE DEF T
  <2>1. Nat \subseteq T
    BY <1>2, <1>3, Induction
  <2>2. Len(s) \in T
    BY <2>1
  <2> QED BY <1>1, <2>2 DEF T
-----------------------------------------------------------------------------
(* Remainders: a number is what is taken off it and a remainder. *)
LEMMA Remainder ==
  ASSUME NEW k \in Nat, NEW n \in Nat \ {0}
  PROVE  /\ k % n \in 0..(n - 1) /\ k \div n \in Nat
         /\ k = (k \div n) * n + (k % n)
BY Z3

LEMMA RemainderUnique ==
  ASSUME NEW q \in Nat, NEW n \in Nat \ {0}, NEW r \in 0..(n - 1)
  PROVE  (q * n + r) % n = r
<1>. DEFINE k == q * n + r
            p == k \div n
            t == k % n
<1>1. k \in Nat
  <2>1. q * n \in Nat
    BY Z3
  <2>. QED BY <2>1
<1>2. t \in 0..(n - 1) /\ p \in Nat /\ k = p * n + t
  <2>. HIDE DEF k
  <2>. QED BY <1>1, Remainder
<1>. HIDE DEF p, t
<1>3. p * n \in Nat /\ q * n \in Nat
  BY <1>2, Z3
<1>4. ~(p + 1 <= q)
  <2>. SUFFICES ASSUME p + 1 <= q PROVE FALSE
    OBVIOUS
  <2>1. (p + 1) * n <= q * n /\ (p + 1) * n = p * n + n
    BY <1>2, Z3
  <2>2. (p + 1) * n \in Nat
    BY <2>1, <1>3
  <2>. QED BY <1>2, <1>3, <2>1, <2>2
<1>5. ~(q + 1 <= p)
  <2>. SUFFICES ASSUME q + 1 <= p PROVE FALSE
    OBVIOUS
  <2>1. (q + 1) * n <= p * n /\ (q + 1) * n = q * n + n
    BY <1>2, Z3
  <2>2. (q + 1) * n \in Nat
    BY <2>1, <1>3
  <2>. QED BY <1>2, <1>3, <2>1, <2>2
<1>6. p = q
  BY <1>2, <1>4, <1>5
<1>. QED
  BY <1>2, <1>3, <1>6 DEF t

(* Of n numbers in a row one leaves the remainder r. *)
LEMMA EveryRemainder ==
  ASSUME NEW k \in Nat, NEW n \in Nat \ {0}, NEW r \in 0..(n - 1)
  PROVE  \E j \in k..(k + n - 1) : j % n = r
<1>. DEFINE q == k \div n
            m == k % n
<1>1. q \in Nat /\ m \in 0..(n - 1) /\ k = q * n + m
  BY Remainder
<1>. HIDE DEF q, m
<1>2. q * n \in Nat /\ (q + 1) * n = q * n + n
  BY <1>1, Z3
<1>3. CASE m <= r
  <2>1. q * n + r \in k..(k + n - 1)
    BY <1>1, <1>2, <1>3
  <2>. QED
    BY <1>1, <2>1, RemainderUnique
<1>4. CASE r < m
  <2>1. (q + 1) * n + r \in k..(k + n - 1)
    BY <1>1, <1>2, <1>4
  <2>2. ((q + 1) * n + r) % n = r
    BY <1>1, RemainderUnique
  <2>. QED
    BY <2>1, <2>2
<1>. QED
  BY <1>1, <1>3, <1>4

-----------------------------------------------------------------------------
LEMMA InitIInv == Init => IInv
<1>. SUFFICES ASSUME Init PROVE IInv
  OBVIOUS
<1>1. raw \in Seq(Tokens)
  <2>1. PICK m \in 0..MaxTokens : raw \in [1..m -> Tokens]
    BY DEF Init, Sequences
  <2>. QED
    BY <2>1, BoundsAssumption
<1>. QED
  BY <1>1, BoundsAssumption DEF Init, IInv

LEMMA StartIInv == IInv /\ Start => IInv'
<1>. SUFFICES ASSUME IInv, Start PROVE IInv'
  OBVIOUS
<1>1. parseEndpoints \in Seq(Tokens \ {Blank})
  BY WithoutSeq DEF IInv, parseEndpoints
<1>2. endpoints = <<>> /\ picks = <<>> /\ \A s \in Streams : via[s] # "pool"
  BY DEF IInv, Start
<1>3. endpoints' \in Seq(Hosts) /\ (process' # "running" => endpoints' = <<>>)
  <2>1. CASE process' = "failed" /\ UNCHANGED endpoints
    BY <1>2, <2>1
  <2>2. CASE /\ process' = "running" /\ endpoints' = parseEndpoints
             /\ \A i \in 1..Len(parseEndpoints) : parseEndpoints[i] # Malformed
    <3>1. \A i \in 1..Len(parseEndpoints) : parseEndpoints[i] \in Hosts
      BY <1>1, <2>2 DEF Tokens
    <3>. QED
      BY <1>1, <2>2, <3>1
  <2>. QED
    BY <2>1, <2>2 DEF Start
<1>. QED
  BY <1>2, <1>3 DEF IInv, Start

LEMMA UpgradeIInv == ASSUME IInv, NEW s \in Streams, Upgrade(s) PROVE IInv'
BY DEF IInv, Upgrade, isEnabled

LEMMA ConnectIInv == ASSUME IInv, NEW s \in Streams, Connect(s) PROVE IInv'
<1>. DEFINE n == Len(endpoints)
<1>1. n \in Nat \ {0} /\ counter \in Nat /\ counter = Len(picks) /\ Len(picks) < MaxPicks
  BY DEF IInv, Connect
<1>2. counter % n \in 0..(n - 1) /\ Next1 = (counter % n) + 1
  BY <1>1, Remainder DEF Next1
<1>3. endpoints[Next1] \in Hosts
  <2>1. Next1 \in 1..n
    BY <1>1, <1>2
  <2>. QED
    BY <2>1 DEF IInv
<1>4. picks' \in Seq(Nat) /\ Len(picks') = Len(picks) + 1
  BY <1>1, <1>2 DEF IInv, Connect
<1>5. \A i \in 1..Len(picks') : picks'[i] = ((i - 1) % n) + 1
  <2>1. picks'[Len(picks) + 1] = (Len(picks) % n) + 1
    BY <1>1, <1>2 DEF IInv, Connect
  <2>2. \A i \in 1..Len(picks) : picks'[i] = picks[i]
    BY DEF IInv, Connect
  <2>3. \A i \in 1..Len(picks) : picks'[i] = ((i - 1) % n) + 1
    BY <2>2 DEF IInv
  <2>. HIDE DEF n
  <2>4. ASSUME NEW i \in 1..Len(picks') PROVE picks'[i] = ((i - 1) % n) + 1
    <3>1. CASE i = Len(picks) + 1
      <4>1. i - 1 = Len(picks)
        BY <1>1, <3>1
      <4>. QED
        BY <2>1, <3>1, <4>1
    <3>2. CASE i \in 1..Len(picks)
      BY <2>3, <3>2
    <3>. QED
      BY <1>1, <1>4, <3>1, <3>2
  <2>. QED
    BY <2>4
<1>6. counter' = Len(picks') /\ Len(picks') <= MaxPicks
  BY <1>1, <1>4, BoundsAssumption DEF Connect
<1>7. /\ endpoint' \in [Streams -> Hosts \union {Blank}]
      /\ state' \in [Streams -> {"new", "dialing", "connected", "error"}]
  BY <1>3 DEF IInv, Connect
<1>. QED
  BY <1>1, <1>4, <1>5, <1>6, <1>7 DEF IInv, Connect

LEMMA DialedIInv == ASSUME IInv, NEW s \in Streams, Dialed(s) PROVE IInv'
BY DEF IInv, Dialed

LEMMA NextIInv == IInv /\ [Next]_vars => IInv'
<1>. SUFFICES ASSUME IInv, [Next]_vars PROVE IInv'
  OBVIOUS
<1>1. CASE UNCHANGED vars
  BY <1>1 DEF vars, IInv
<1>. QED
  BY <1>1, StartIInv, UpgradeIInv, ConnectIInv, DialedIInv DEF Next

THEOREM Invariant == Spec => []IInv
BY InitIInv, NextIInv, PTL DEF Spec

-----------------------------------------------------------------------------
(* Type correctness: the pool holds endpoints only, whatever was written    *)
(* into WIREPROXY_SOCKS, a blank token never, a malformed one stops it.     *)
THEOREM TypeCorrect == Spec => []TypeOK
<1>1. IInv => TypeOK
  BY BoundsAssumption DEF IInv, TypeOK
<1>. QED
  BY <1>1, Invariant, PTL

LEMMA Covers == IInv => RotationCovers
<1>. DEFINE n == Len(endpoints)
<1>. SUFFICES ASSUME IInv, NEW i \in 1..Len(picks), n > 0, i + n - 1 <= Len(picks)
              PROVE  {picks[j] : j \in i..(i + n - 1)} = 1..n
  BY DEF RotationCovers
<1>1. n \in Nat \ {0} /\ Len(picks) \in Nat /\ i \in Nat \ {0}
  BY DEF IInv
<1>2. \A j \in i..(i + n - 1) : picks[j] = ((j - 1) % n) + 1
  BY <1>1 DEF IInv
<1>. HIDE DEF n
<1>3. ASSUME NEW j \in i..(i + n - 1) PROVE picks[j] \in 1..n
  <2>1. j - 1 \in Nat
    BY <1>1
  <2>2. (j - 1) % n \in 0..(n - 1)
    BY <1>1, <2>1, Remainder
  <2>. QED
    BY <1>1, <1>2, <2>2
<1>4. ASSUME NEW r \in 1..n PROVE \E j \in i..(i + n - 1) : picks[j] = r
  <2>1. i - 1 \in Nat /\ r - 1 \in 0..(n - 1)
    BY <1>1
  <2>2. PICK k \in (i - 1)..((i - 1) + n - 1) : k % n = r - 1
    BY <1>1, <2>1, EveryRemainder
  <2>3. k + 1 \in i..(i + n - 1) /\ (k + 1) - 1 = k
    BY <1>1, <2>2
  <2>4. picks[k + 1] = r
    BY <1>2, <2>2, <2>3
  <2>. QED
    BY <2>3, <2>4
<1>. QED
  BY <1>3, <1>4

(* Egress rotates over the whole pool, however the dials overlap. *)
THEOREM RotationHolds == Spec => []RotationCovers
BY Invariant, Covers, PTL

(* Of as many attempts in a row as the pool has entries, whoever makes      *)
(* them, one is made through an endpoint that is not dead, if there is one: *)
(* connect() fails at a dead endpoint and tries no second one, but enough   *)
(* attempts of the browsers get through.                                    *)
LiveAmongAttempts ==
    LET n == Len(endpoints)
    IN  \A i \in 1..Len(picks) :
            /\ i + n - 1 <= Len(picks)
            /\ \E e \in 1..n : endpoints[e] \notin Dead
            => \E j \in i..(i + n - 1) : endpoints[picks[j]] \notin Dead

THEOREM AttemptsGetThrough == Spec => []LiveAmongAttempts
<1>1. IInv => LiveAmongAttempts
  <2>. DEFINE n == Len(endpoints)
  <2>. SUFFICES ASSUME IInv, NEW i \in 1..Len(picks), i + n - 1 <= Len(picks),
                       NEW e \in 1..n, endpoints[e] \notin Dead
                PROVE  \E j \in i..(i + n - 1) : endpoints[picks[j]] \notin Dead
    BY DEF LiveAmongAttempts
  <2>1. n > 0
    BY DEF IInv
  <2>2. {picks[j] : j \in i..(i + n - 1)} = 1..n
    BY <2>1, Covers DEF RotationCovers
  <2>. QED
    BY <2>2
<1>. QED
  BY <1>1, Invariant, PTL
=============================================================================
