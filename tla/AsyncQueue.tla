------------------------------ MODULE AsyncQueue ------------------------------
(***************************************************************************)
(* The queue between the outbound socket of a stream and the loop that     *)
(* forwards its bytes to the browser: class AsyncQueue of                  *)
(* src/socksTcpSocket.js.  A put() that finds the queue full and a get()   *)
(* that finds it empty wait on a promise, and a promise that is resolved   *)
(* continues later, in a step of its own: PutResume and GetResume.         *)
(*                                                                         *)
(* The event loop: 'data' and 'close' events are macrotasks, and the       *)
(* continuations of put() and get() are microtasks that run before the     *)
(* next one.  Hence the guard put_ready = <<>> of Put and Close.  The      *)
(* reader needs at least one more turn of the microtask queue between two  *)
(* calls of get(), and a put() that a get() woke is ahead of it in that    *)
(* queue: hence the same guard in Get.  One loop reads one queue, so there *)
(* is at most one waiting get().                                           *)
(***************************************************************************)
EXTENDS Naturals, Sequences

CONSTANTS
    MaxSize,   \* max_size of the constructor
    MaxChunks  \* bound: how many chunks the socket delivers

ASSUME MaxSizeAssumption == MaxSize \in Nat
ASSUME MaxChunksAssumption == MaxChunks \in Nat

VARIABLES
    queue,          \* this.queue: chunks, numbered in the order of their arrival
    put_callbacks,  \* this.put_callbacks: the chunk of each waiting put()
    put_ready,      \* the chunks of the put()s that were woken and have not run yet
    getter,         \* this.get_callbacks: what the reader's get() is doing
    closed,         \* this.closed
    arrived,        \* history: number of chunks given to put()
    delivered,      \* history: what get() returned, in order
    ended           \* the reader got null (or undefined) and stopped reading

vars == <<queue, put_callbacks, put_ready, getter, closed, arrived, delivered, ended>>

Init ==
    /\ queue = <<>>
    /\ put_callbacks = <<>>
    /\ put_ready = <<>>
    /\ getter = "none"
    /\ closed = FALSE
    /\ arrived = 0
    /\ delivered = <<>>
    /\ ended = FALSE

-----------------------------------------------------------------------------
Woken(g) == IF g = "waiting" THEN "ready" ELSE g

(* Mutant: put_now forgets to wake the waiting get(). *)
PutNowNoWake(chunk) ==
    /\ queue' = Append(queue, chunk)
    /\ UNCHANGED getter

(* Mutant: the newest chunk is put at the front. *)
PutNowInFront(chunk) ==
    /\ queue' = <<chunk>> \o queue
    /\ getter' = Woken(getter)

put_now(chunk) ==
    /\ queue' = Append(queue, chunk)
    /\ getter' = Woken(getter)

(* Mutant: put() enqueues however long the queue is. *)
PutUnbounded ==
    /\ ~closed /\ put_ready = <<>> /\ arrived < MaxChunks
    /\ arrived' = arrived + 1
    /\ put_now(arrived + 1)
    /\ UNCHANGED <<put_callbacks, put_ready, closed, delivered, ended>>

(* A chunk arrives.  The queue may exceed MaxSize by one: size <= max_size. *)
Put ==
    /\ ~closed /\ put_ready = <<>> /\ arrived < MaxChunks
    /\ arrived' = arrived + 1
    /\ \/ /\ Len(queue) <= MaxSize
          /\ put_now(arrived + 1)
          /\ UNCHANGED put_callbacks
       \/ /\ Len(queue) > MaxSize
          /\ put_callbacks' = Append(put_callbacks, arrived + 1)
          /\ UNCHANGED <<queue, getter>>
    /\ UNCHANGED <<put_ready, closed, delivered, ended>>

(* A woken put() goes on: it enqueues without looking at the size again. *)
PutResume ==
    /\ put_ready # <<>>
    /\ put_now(Head(put_ready))
    /\ put_ready' = Tail(put_ready)
    /\ UNCHANGED <<put_callbacks, closed, arrived, delivered, ended>>

-----------------------------------------------------------------------------
WakeFirstPut ==
    \/ put_callbacks = <<>> /\ UNCHANGED <<put_callbacks, put_ready>>
    \/ /\ put_callbacks # <<>>
       /\ put_ready' = Append(put_ready, Head(put_callbacks))
       /\ put_callbacks' = Tail(put_callbacks)

(* Mutant: a closed queue answers null even when chunks are left. *)
GetNowClosedFirst ==
    /\ WakeFirstPut
    /\ getter' = "none"
    /\ IF closed
       THEN ended' = TRUE /\ UNCHANGED <<queue, delivered>>
       ELSE /\ queue' = Tail(queue)
            /\ delivered' = Append(delivered, Head(queue))
            /\ UNCHANGED ended

(* Mutant: get_now does not wake a waiting put(). *)
GetNowNoWake ==
    /\ getter' = "none"
    /\ \/ queue = <<>> /\ ended' = TRUE /\ UNCHANGED <<queue, delivered>>
       \/ /\ queue # <<>>
          /\ queue' = Tail(queue)
          /\ delivered' = Append(delivered, Head(queue))
          /\ UNCHANGED ended
    /\ UNCHANGED <<put_callbacks, put_ready>>

(* Mutant: the callback of the waiting get() stays on its list. *)
GetNowKeepsCallback ==
    /\ WakeFirstPut
    /\ \/ queue = <<>> /\ ended' = TRUE /\ UNCHANGED <<queue, delivered>>
       \/ /\ queue # <<>>
          /\ queue' = Tail(queue)
          /\ delivered' = Append(delivered, Head(queue))
          /\ UNCHANGED ended
    /\ UNCHANGED getter

(* Wakes the first waiting put(), then takes the first chunk.  An empty queue *)
(* yields null when closed and undefined when not: both end the reader.       *)
get_now ==
    /\ WakeFirstPut
    /\ getter' = "none"
    /\ \/ queue = <<>> /\ ended' = TRUE /\ UNCHANGED <<queue, delivered>>
       \/ /\ queue # <<>>
          /\ queue' = Tail(queue)
          /\ delivered' = Append(delivered, Head(queue))
          /\ UNCHANGED ended

(* The reader calls get(). *)
Get ==
    /\ getter = "none" /\ ~ended /\ put_ready = <<>>
    /\ \/ queue # <<>> /\ get_now
       \/ /\ queue = <<>> /\ closed
          /\ ended' = TRUE
          /\ UNCHANGED <<queue, put_callbacks, put_ready, getter, delivered>>
       \/ /\ queue = <<>> /\ ~closed
          /\ getter' = "waiting"
          /\ UNCHANGED <<queue, put_callbacks, put_ready, delivered, ended>>
    /\ UNCHANGED <<closed, arrived>>

(* A woken get() goes on: it takes what is there now. *)
GetResume ==
    /\ getter = "ready"
    /\ get_now
    /\ UNCHANGED <<closed, arrived>>

-----------------------------------------------------------------------------
(* The socket is closed: what is queued stays, and everyone is woken. *)
Close ==
    /\ ~closed /\ put_ready = <<>>
    /\ closed' = TRUE
    /\ getter' = Woken(getter)
    /\ put_ready' = put_callbacks
    /\ put_callbacks' = <<>>
    /\ UNCHANGED <<queue, arrived, delivered, ended>>

Next == Put \/ PutResume \/ Get \/ GetResume \/ Close

(* Microtasks that are due run, and the reader's loop calls get() again.  *)
(* Neither the arrival of data nor the end of the socket is promised.     *)
Fairness == WF_vars(PutResume) /\ WF_vars(GetResume) /\ WF_vars(Get)

Spec == Init /\ [][Next]_vars /\ Fairness

-----------------------------------------------------------------------------
TypeOK ==
    /\ queue \in Seq(Nat)
    /\ put_callbacks \in Seq(Nat)
    /\ put_ready \in Seq(Nat)
    /\ getter \in {"none", "waiting", "ready"}
    /\ closed \in BOOLEAN
    /\ arrived \in Nat
    /\ delivered \in Seq(Nat)
    /\ ended \in BOOLEAN
    /\ ended => getter = "none"

(* The chunks of s are consecutive, and the first follows number n. *)
Numbered(s, n) == \A i \in 1..Len(s) : s[i] = n + i

(* Every chunk that arrived is in exactly one place, and the places line up  *)
(* in the order of arrival: delivered, queued, woken, waiting.  A put() that *)
(* had to wait is neither overtaken nor lost.                                *)
InOrder ==
    /\ Numbered(delivered, 0)
    /\ Numbered(queue, Len(delivered))
    /\ Numbered(put_ready, Len(delivered) + Len(queue))
    /\ Numbered(put_callbacks, Len(delivered) + Len(queue) + Len(put_ready))
    /\ arrived = Len(delivered) + Len(queue) + Len(put_ready) + Len(put_callbacks)

(* The reader never waits while there is something for it: neither a chunk, *)
(* queued or held by a put(), nor the end of the stream.                    *)
NoLostWakeup ==
    getter = "waiting" =>
        /\ queue = <<>> /\ put_ready = <<>> /\ put_callbacks = <<>>
        /\ ~closed

(* Backpressure: a put() waits only while the queue is full, and until the  *)
(* socket closes the queue holds at most one chunk more than max_size.      *)
Backpressure ==
    /\ put_callbacks # <<>> => Len(queue) + Len(put_ready) > MaxSize
    /\ ~closed => Len(queue) + Len(put_ready) <= MaxSize + 1

(* The end is reported only after close(), and only when every chunk that   *)
(* arrived has been handed to the reader (the comments at lines 41-44 and   *)
(* 59-63: close() must not truncate the response).                          *)
EndIsComplete == ended => closed /\ Len(delivered) = arrived

Channel == INSTANCE ByteStream WITH sent <- arrived, received <- delivered

(* The queue is an ordered, loss-free stream: each chunk that arrives is    *)
(* eventually read, also one whose put() waits, and the end is told.        *)
ImplementsByteStream == Channel!Spec
=============================================================================
