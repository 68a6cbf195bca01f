--------------------------- MODULE AsyncQueueProofs ---------------------------
(***************************************************************************)
(* Theorems about AsyncQueue, for every MaxSize and MaxChunks.             *)
(***************************************************************************)
EXTENDS AsyncQueue, TLAPS

(* A get() that was woken finds a chunk, unless the queue is closed and dry; *)
(* no put() waits on a closed queue.                                         *)
Wakeups ==
    /\ getter = "ready" =>
         \/ queue # <<>>
         \/ closed /\ put_ready = <<>> /\ put_callbacks = <<>>
    /\ closed => put_callbacks = <<>>

(* The inductive invariant. *)
IInv ==
    /\ TypeOK
    /\ InOrder
    /\ NoLostWakeup
    /\ Backpressure
    /\ EndIsComplete
    /\ Wakeups

-----------------------------------------------------------------------------
(* Facts about sequences of numbers. *)
LEMMA AppendFacts ==
    ASSUME NEW s \in Seq(Nat), NEW x \in Nat
    PROVE  /\ Append(s, x) \in Seq(Nat)
           /\ Len(Append(s, x)) = Len(s) + 1
           /\ Append(s, x)[Len(s) + 1] = x
           /\ \A i \in 1..Len(s) : Append(s, x)[i] = s[i]
           /\ Append(s, x) # <<>>
  OBVIOUS

LEMMA TailFacts ==
    ASSUME NEW s \in Seq(Nat), s # <<>>
    PROVE  /\ Tail(s) \in Seq(Nat)
           /\ Head(s) \in Nat
           /\ Len(s) \in Nat
           /\ Len(s) > 0
           /\ Head(s) = s[1]
           /\ Len(Tail(s)) = Len(s) - 1
           /\ \A i \in 1..Len(s) - 1 : Tail(s)[i] = s[i + 1]
  OBVIOUS

LEMMA NumberedAppend ==
    ASSUME NEW s \in Seq(Nat), NEW n \in Nat, Numbered(s, n)
    PROVE  Numbered(Append(s, n + Len(s) + 1), n)
  BY AppendFacts DEF Numbered

LEMMA NumberedTail ==
    ASSUME NEW s \in Seq(Nat), NEW n \in Nat, Numbered(s, n), s # <<>>
    PROVE  /\ Numbered(Tail(s), n + 1)
           /\ Head(s) = n + 1
  BY TailFacts DEF Numbered

LEMMA NumberedEmpty == \A n : Numbered(<<>>, n)
  BY DEF Numbered

-----------------------------------------------------------------------------
LEMMA InitIInv == Init => IInv
<1> SUFFICES ASSUME Init PROVE IInv
  OBVIOUS
<1>1. Len(<<>>) = 0 /\ <<>> \in Seq(Nat)
  OBVIOUS
<1>2. TypeOK
  BY <1>1 DEF Init, TypeOK
<1>3. InOrder
  BY <1>1, NumberedEmpty DEF Init, InOrder
<1>4. NoLostWakeup /\ Backpressure /\ EndIsComplete /\ Wakeups
  BY <1>1, MaxSizeAssumption DEF Init, NoLostWakeup, Backpressure, EndIsComplete, Wakeups
<1> QED
  BY <1>2, <1>3, <1>4 DEF IInv

(* Put: the new chunk carries the next number, wherever it is placed. *)
LEMMA PutIInv == IInv /\ Put => IInv'
<1> SUFFICES ASSUME IInv, Put PROVE IInv'
  OBVIOUS
<1> USE MaxSizeAssumption DEF IInv
<1>1. CASE Len(queue) <= MaxSize /\ put_now(arrived + 1) /\ UNCHANGED put_callbacks
  <2>1. put_callbacks = <<>>
    BY <1>1 DEF Put, Backpressure, TypeOK
  <2>2. /\ arrived + 1 = Len(delivered) + Len(queue) + 1
        /\ arrived' = arrived + 1
        /\ queue' = Append(queue, arrived + 1)
        /\ UNCHANGED <<put_ready, put_callbacks, closed, delivered, ended>>
        /\ put_ready = <<>>
        /\ ~closed
    BY <1>1, <2>1 DEF Put, put_now, InOrder, TypeOK
  <2>3. TypeOK'
    BY <1>1, <2>2, AppendFacts DEF TypeOK, put_now, Woken
  <2>4. InOrder'
    <3>1. Numbered(queue', Len(delivered))
      BY <2>2, NumberedAppend DEF InOrder, TypeOK
    <3>2. Len(queue') = Len(queue) + 1
      BY <2>2, AppendFacts DEF TypeOK
    <3> QED
      BY <2>1, <2>2, <3>1, <3>2, NumberedEmpty DEF InOrder, TypeOK
  <2>5. NoLostWakeup'
    BY <1>1, <2>2 DEF put_now, Woken, NoLostWakeup
  <2>6. Backpressure'
    BY <1>1, <2>1, <2>2, AppendFacts DEF Backpressure, TypeOK
  <2>7. EndIsComplete'
    BY <2>2 DEF EndIsComplete
  <2>8. Wakeups'
    BY <1>1, <2>1, <2>2, AppendFacts DEF Wakeups, TypeOK, EndIsComplete
  <2> QED
    BY <2>3, <2>4, <2>5, <2>6, <2>7, <2>8
<1>2. CASE /\ Len(queue) > MaxSize
           /\ put_callbacks' = Append(put_callbacks, arrived + 1)
           /\ UNCHANGED <<queue, getter>>
  <2>1. /\ arrived' = arrived + 1
        /\ arrived + 1 = Len(delivered) + Len(queue) + Len(put_ready)
                           + Len(put_callbacks) + 1
        /\ UNCHANGED <<queue, getter, put_ready, closed, delivered, ended>>
        /\ ~closed /\ queue # <<>>
    BY <1>2 DEF Put, InOrder, TypeOK
  <2>2. TypeOK'
    BY <1>2, <2>1, AppendFacts DEF TypeOK
  <2>3. InOrder'
    <3>1. Numbered(put_callbacks', Len(delivered) + Len(queue) + Len(put_ready))
      BY <1>2, <2>1, NumberedAppend DEF InOrder, TypeOK
    <3>2. Len(put_callbacks') = Len(put_callbacks) + 1
      BY <1>2, AppendFacts DEF TypeOK
    <3> QED
      BY <2>1, <3>1, <3>2 DEF InOrder, TypeOK
  <2>4. NoLostWakeup' /\ EndIsComplete' /\ Wakeups'
    BY <2>1 DEF NoLostWakeup, EndIsComplete, Wakeups
  <2>5. Backpressure'
    BY <1>2, <2>1 DEF Backpressure, Put, TypeOK
  <2> QED
    BY <2>2, <2>3, <2>4, <2>5
<1> QED
  BY <1>1, <1>2 DEF Put

(* PutResume: the first woken put() is the next one in the order of arrival. *)
LEMMA PutResumeIInv == IInv /\ PutResume => IInv'
<1> SUFFICES ASSUME IInv, PutResume PROVE IInv'
  OBVIOUS
<1> USE DEF IInv
<1> DEFINE x == Head(put_ready)
<1>1. /\ put_ready # <<>>
      /\ put_ready' = Tail(put_ready)
      /\ queue' = Append(queue, x)
      /\ getter' = Woken(getter)
      /\ UNCHANGED <<put_callbacks, closed, arrived, delivered, ended>>
  BY DEF PutResume, put_now
<1>2. /\ x \in Nat
      /\ Len(put_ready') = Len(put_ready) - 1
      /\ Len(queue') = Len(queue) + 1
      /\ queue' # <<>>
      /\ getter # "waiting"
  BY <1>1, TailFacts, AppendFacts DEF TypeOK, NoLostWakeup
<1>3. TypeOK'
  BY <1>1, <1>2, TailFacts, AppendFacts DEF TypeOK, Woken
<1>4. InOrder'
  <2>1. /\ x = Len(delivered) + Len(queue) + 1
        /\ Numbered(put_ready', Len(delivered) + Len(queue) + 1)
    BY <1>1, NumberedTail DEF InOrder, TypeOK
  <2>2. Numbered(queue', Len(delivered))
    BY <1>1, <2>1, NumberedAppend DEF InOrder, TypeOK
  <2>3. /\ Len(delivered) + Len(queue) + 1 = Len(delivered) + Len(queue')
        /\ Len(delivered) + Len(queue) + Len(put_ready)
             = Len(delivered) + Len(queue') + Len(put_ready')
    BY <1>2 DEF TypeOK
  <2> QED
    BY <1>1, <1>2, <2>1, <2>2, <2>3 DEF InOrder, TypeOK
<1>5. NoLostWakeup'
  BY <1>1, <1>2 DEF NoLostWakeup, Woken
<1>6. Backpressure'
  BY <1>1, <1>2 DEF Backpressure, TypeOK
<1>7. EndIsComplete' /\ Wakeups'
  BY <1>1, <1>2 DEF EndIsComplete, Wakeups, Woken
<1> QED
  BY <1>3, <1>4, <1>5, <1>6, <1>7

(* get_now, from Get or from GetResume, when there is a chunk to take. *)
LEMMA GetNowIInv ==
    ASSUME IInv, get_now, queue # <<>>, ~ended, getter # "waiting",
           UNCHANGED <<closed, arrived>>
    PROVE  IInv'
<1> USE MaxSizeAssumption DEF IInv
<1>1. /\ queue' = Tail(queue)
      /\ delivered' = Append(delivered, Head(queue))
      /\ getter' = "none"
      /\ UNCHANGED <<ended, closed, arrived>>
  BY DEF get_now
<1>2. /\ Head(queue) = Len(delivered) + 1
      /\ Head(queue) \in Nat
      /\ Numbered(queue', Len(delivered) + 1)
      /\ Numbered(delivered', 0)
      /\ Len(queue') = Len(queue) - 1
      /\ Len(delivered') = Len(delivered) + 1
      /\ queue' \in Seq(Nat)
      /\ delivered' \in Seq(Nat)
  BY <1>1, NumberedTail, NumberedAppend, TailFacts, AppendFacts DEF InOrder, TypeOK
<1>3. Len(delivered') + Len(queue') = Len(delivered) + Len(queue)
  BY <1>2 DEF TypeOK
<1>4. CASE put_callbacks = <<>>
  <2>1. UNCHANGED <<put_callbacks, put_ready>>
    BY <1>4 DEF get_now, WakeFirstPut
  <2>2. TypeOK' /\ InOrder'
    BY <1>1, <1>2, <1>3, <2>1 DEF TypeOK, InOrder
  <2>3. NoLostWakeup' /\ EndIsComplete' /\ Wakeups'
    BY <1>1, <1>4, <2>1 DEF NoLostWakeup, EndIsComplete, Wakeups
  <2>4. Backpressure'
    BY <1>1, <1>2, <1>4, <2>1 DEF Backpressure, TypeOK
  <2> QED
    BY <2>2, <2>3, <2>4
<1>5. CASE put_callbacks # <<>>
  <2>1. /\ put_ready' = Append(put_ready, Head(put_callbacks))
        /\ put_callbacks' = Tail(put_callbacks)
    BY <1>5 DEF get_now, WakeFirstPut
  <2>2. /\ Head(put_callbacks) = Len(delivered) + Len(queue) + Len(put_ready) + 1
        /\ Numbered(put_callbacks', Len(delivered) + Len(queue) + Len(put_ready) + 1)
        /\ Numbered(put_ready', Len(delivered) + Len(queue))
        /\ Len(put_callbacks') = Len(put_callbacks) - 1
        /\ Len(put_ready') = Len(put_ready) + 1
        /\ put_callbacks' \in Seq(Nat)
        /\ put_ready' \in Seq(Nat)
    BY <1>5, <2>1, NumberedTail, NumberedAppend, TailFacts, AppendFacts DEF InOrder, TypeOK
  <2>3. Len(delivered') + Len(queue') + Len(put_ready')
          = Len(delivered) + Len(queue) + Len(put_ready) + 1
    BY <1>2, <2>2 DEF TypeOK
  <2>4. TypeOK' /\ InOrder'
    BY <1>1, <1>2, <1>3, <2>2, <2>3 DEF TypeOK, InOrder
  <2>5. NoLostWakeup' /\ EndIsComplete' /\ Wakeups'
    BY <1>1, <1>5 DEF NoLostWakeup, EndIsComplete, Wakeups
  <2>6. Backpressure'
    BY <1>1, <1>2, <1>5, <2>2 DEF Backpressure, TypeOK
  <2> QED
    BY <2>4, <2>5, <2>6
<1> QED
  BY <1>4, <1>5

LEMMA GetIInv == IInv /\ Get => IInv'
<1> SUFFICES ASSUME IInv, Get PROVE IInv'
  OBVIOUS
<1>1. getter = "none" /\ ~ended /\ put_ready = <<>> /\ UNCHANGED <<closed, arrived>>
  BY DEF Get
<1>2. CASE queue # <<>> /\ get_now
  BY <1>1, <1>2, GetNowIInv
<1>3. CASE /\ queue = <<>> /\ closed
           /\ ended' = TRUE
           /\ UNCHANGED <<queue, put_callbacks, put_ready, getter, delivered>>
  <2>1. put_callbacks = <<>>
    BY <1>3 DEF IInv, Wakeups
  <2>2. Len(delivered) = arrived
    BY <1>1, <1>3, <2>1 DEF IInv, InOrder, TypeOK
  <2> QED
    BY <1>1, <1>3, <2>1, <2>2 DEF IInv, TypeOK, InOrder, NoLostWakeup, Backpressure,
                             EndIsComplete, Wakeups
<1>4. CASE /\ queue = <<>> /\ ~closed
           /\ getter' = "waiting"
           /\ UNCHANGED <<queue, put_callbacks, put_ready, delivered, ended>>
  <2>1. put_callbacks = <<>>
    BY <1>1, <1>4, MaxSizeAssumption DEF IInv, Backpressure
  <2> QED
    BY <1>1, <1>4, <2>1 DEF IInv, TypeOK, InOrder, NoLostWakeup, Backpressure,
                            EndIsComplete, Wakeups
<1> QED
  BY <1>2, <1>3, <1>4 DEF Get

LEMMA GetResumeIInv == IInv /\ GetResume => IInv'
<1> SUFFICES ASSUME IInv, GetResume PROVE IInv'
  OBVIOUS
<1>1. getter = "ready" /\ ~ended /\ get_now /\ UNCHANGED <<closed, arrived>>
  BY DEF GetResume, IInv, TypeOK
<1>2. CASE queue # <<>>
  BY <1>1, <1>2, GetNowIInv
<1>3. CASE queue = <<>>
  <2>1. /\ closed /\ put_ready = <<>> /\ put_callbacks = <<>>
        /\ ended' = TRUE /\ getter' = "none"
        /\ UNCHANGED <<queue, put_callbacks, put_ready, delivered>>
    BY <1>1, <1>3 DEF IInv, Wakeups, get_now, WakeFirstPut
  <2>2. Len(delivered) = arrived
    BY <1>3, <2>1 DEF IInv, InOrder, TypeOK
  <2> QED
    BY <1>1, <1>3, <2>1, <2>2 DEF IInv, TypeOK, InOrder, NoLostWakeup, Backpressure,
                             EndIsComplete, Wakeups
<1> QED
  BY <1>2, <1>3

(* Close: the waiting put()s become the woken ones, none is lost. *)
LEMMA CloseIInv == IInv /\ Close => IInv'
<1> SUFFICES ASSUME IInv, Close PROVE IInv'
  OBVIOUS
<1> USE DEF IInv
<1>1. /\ ~closed /\ closed' = TRUE
      /\ getter' = Woken(getter)
      /\ put_ready = <<>> /\ put_ready' = put_callbacks
      /\ put_callbacks' = <<>>
      /\ UNCHANGED <<queue, arrived, delivered, ended>>
  BY DEF Close
<1>2. TypeOK'
  BY <1>1 DEF TypeOK, Woken
<1>3. InOrder'
  BY <1>1, NumberedEmpty DEF InOrder, TypeOK
<1>4. NoLostWakeup' /\ Backpressure'
  BY <1>1 DEF NoLostWakeup, Backpressure, Woken
<1>5. EndIsComplete' /\ Wakeups'
  BY <1>1 DEF EndIsComplete, Wakeups, Woken, NoLostWakeup
<1> QED
  BY <1>2, <1>3, <1>4, <1>5

LEMMA NextIInv == IInv /\ [Next]_vars => IInv'
<1> SUFFICES ASSUME IInv, [Next]_vars PROVE IInv'
  OBVIOUS
<1>1. CASE UNCHANGED vars
  BY <1>1 DEF vars, IInv, TypeOK, InOrder, NoLostWakeup, Backpressure, EndIsComplete,
              Wakeups, Numbered
<1> QED
  BY <1>1, PutIInv, PutResumeIInv, GetIInv, GetResumeIInv, CloseIInv DEF Next

LEMMA Invariance == Spec => []IInv
  BY InitIInv, NextIInv, PTL DEF Spec

-----------------------------------------------------------------------------
(* Every variable keeps its type: chunks are numbers, the flags are flags. *)
THEOREM TypeCorrect == Spec => []TypeOK
<1>1. IInv => TypeOK
  BY DEF IInv
<1> QED
  BY <1>1, Invariance, PTL

(* No chunk is lost, doubled or overtaken between put() and get(). *)
THEOREM OrderPreserved == Spec => []InOrder
<1>1. IInv => InOrder
  BY DEF IInv
<1> QED
  BY <1>1, Invariance, PTL

(* A waiting get() has nothing to wait for but a new chunk or the end. *)
THEOREM NoWakeupIsLost == Spec => []NoLostWakeup
<1>1. IInv => NoLostWakeup
  BY DEF IInv
<1> QED
  BY <1>1, Invariance, PTL

(* The queue never holds more than one chunk above max_size before close(). *)
THEOREM BackpressureHolds == Spec => []Backpressure
<1>1. IInv => Backpressure
  BY DEF IInv
<1> QED
  BY <1>1, Invariance, PTL

(* The reader that is told the end has been given every chunk. *)
THEOREM EndComplete == Spec => []EndIsComplete
<1>1. IInv => EndIsComplete
  BY DEF IInv
<1> QED
  BY <1>1, Invariance, PTL

-----------------------------------------------------------------------------
(* A delivery of the queue is a Receive of the stream. *)
LEMMA GetNowReceives ==
    ASSUME IInv, get_now, queue # <<>>, ~ended, UNCHANGED <<closed, arrived>>
    PROVE  Channel!Receive
<1>1. /\ delivered' = Append(delivered, Head(queue))
      /\ UNCHANGED ended
  BY DEF get_now
<1>2. Head(queue) = Len(delivered) + 1 /\ Len(queue) > 0
  BY NumberedTail, TailFacts DEF IInv, InOrder, TypeOK
<1>3. Len(delivered) < arrived
  BY <1>2 DEF IInv, InOrder, TypeOK
<1> QED
  BY <1>1, <1>2, <1>3 DEF Channel!Receive

LEMMA StepRefines == IInv /\ IInv' /\ [Next]_vars => [Channel!Next]_Channel!vars
<1> SUFFICES ASSUME IInv, IInv', [Next]_vars PROVE [Channel!Next]_Channel!vars
  OBVIOUS
<1> USE DEF Channel!vars
<1>1. CASE Put
  BY <1>1 DEF Put, Channel!Next, Channel!Send
<1>2. CASE PutResume
  BY <1>2 DEF PutResume
<1>3. CASE Get
  <2>1. ~ended /\ UNCHANGED <<closed, arrived>>
    BY <1>3 DEF Get
  <2>2. CASE queue # <<>> /\ get_now
    BY <2>1, <2>2, GetNowReceives DEF Channel!Next
  <2>3. CASE closed /\ ended' = TRUE /\ UNCHANGED delivered
    BY <2>1, <2>3 DEF Channel!Next, Channel!End, IInv, EndIsComplete
  <2>4. CASE UNCHANGED <<delivered, ended>>
    BY <2>1, <2>4
  <2> QED
    BY <1>3, <2>2, <2>3, <2>4 DEF Get
<1>4. CASE GetResume
  <2>1. getter = "ready" /\ ~ended /\ get_now /\ UNCHANGED <<closed, arrived>>
    BY <1>4 DEF GetResume, IInv, TypeOK
  <2>2. CASE queue # <<>>
    BY <2>1, <2>2, GetNowReceives DEF Channel!Next
  <2>3. CASE queue = <<>>
    <3>1. ended' = TRUE /\ UNCHANGED delivered
      BY <2>1, <2>3 DEF get_now
    <3> QED
      BY <2>1, <3>1 DEF Channel!Next, Channel!End, IInv, EndIsComplete
  <2> QED
    BY <2>2, <2>3
<1>5. CASE Close
  BY <1>5 DEF Close, Channel!Next, Channel!Close
<1>6. CASE UNCHANGED vars
  BY <1>6 DEF vars
<1> QED
  BY <1>1, <1>2, <1>3, <1>4, <1>5, <1>6 DEF Next

(* The queue is an ordered, loss-free stream: the safety part of Channel!Spec. *)
THEOREM QueueImplementsByteStream == Spec => Channel!SafeSpec
<1>1. Init => Channel!Init
  BY DEF Init, Channel!Init
<1> QED
  BY <1>1, StepRefines, Invariance, PTL DEF Spec, Channel!SafeSpec
=============================================================================
