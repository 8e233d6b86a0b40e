---------------------------- MODULE OutputBatcher ----------------------------
(***************************************************************************)
(* The terminal output batcher of src/internal/sessions/batcher.go: one    *)
(* mutex, one condition variable shared by everybody, a bounded queue of   *)
(* batches, a worker goroutine that hands batches to the sink, a coalesce  *)
(* timer, and teardown by Close (drain) or Discard (drop).                 *)
(*                                                                         *)
(* Bytes are positions 1..Len(stream) of the stream in the order Add       *)
(* accepted them; only the UTF-8 class of a byte is kept.  pending is the  *)
(* interval taken+1..recv, a batch is an interval from+1..to.              *)
(***************************************************************************)
EXTENDS Integers, Sequences, FiniteSets

CONSTANTS Pumps,          \* goroutines that call Add: stdout and stderr
          Timers,         \* time.AfterFunc callbacks that may coexist (bound)
          Closers,        \* goroutines that call Close or Discard once
          Worker,         \* the run goroutine
          Free,           \* the mutex has no owner
          NoTimer,        \* b.timer == nil
          NoChunk,        \* the worker holds no batch
          Streams,        \* possible remote outputs, sequences of byte classes
          MaxRead,        \* longest slice one Add is given (bound)
          FlushBytes, MaxFlushBytes, MaxBatches, AdaptiveHigh

Actors == Pumps \cup Timers \cup Closers \cup {Worker}

ByteClass == {"ascii", "lead2", "lead3", "lead4", "cont"}

ASSUME ActorsAssumption ==
    /\ Pumps \cap Timers = {} /\ Pumps \cap Closers = {}
    /\ Timers \cap Closers = {} /\ Worker \notin Pumps \cup Timers \cup Closers
    /\ Free \notin Actors /\ NoTimer \notin Timers
    /\ IsFiniteSet(Pumps)
ASSUME StreamsAssumption == \A s \in Streams : s \in Seq(ByteClass)
ASSUME NoChunkAssumption == NoChunk \notin [from : Nat, to : Nat]
ASSUME SizesAssumption ==
    /\ MaxRead \in Nat \ {0} /\ FlushBytes \in Nat \ {0}
    /\ MaxFlushBytes \in Nat /\ FlushBytes <= MaxFlushBytes
    /\ MaxBatches \in Nat \ {0} /\ AdaptiveHigh \in Nat

VARIABLES
    stream,      \* what the remote side writes, fixed in a behaviour
    recv,        \* bytes accepted by Add so far
    taken,       \* bytes that have left b.pending
    queue,       \* b.queue
    chunk,       \* the batch in the worker's hands, outside the lock
    sunk,        \* end of the last batch the sink was given
    mu,          \* owner of b.mu
    pc,          \* where each goroutine is
    timerSet, timer, closed, discarded

vars == <<stream, recv, taken, queue, chunk, sunk, mu, pc,
          timerSet, timer, closed, discarded>>
bytes == <<stream, recv, sunk>>
flags == <<timerSet, timer, closed, discarded>>

-----------------------------------------------------------------------------
(* What takeLocked removes from pending.                                   *)

Pending == recv - taken

Least(a, b) == IF a <= b THEN a ELSE b

RuneStart(i) == stream[i] # "cont"

RuneLen(c) == CASE c = "lead2" -> 2 [] c = "lead3" -> 3
                [] c = "lead4" -> 4 [] OTHER -> 1

(* n is utf8PrefixLen(pending, MaxFlushBytes).                             *)
IsPrefixLen(n) ==
    IF Pending <= MaxFlushBytes
      THEN n = Pending
      ELSE /\ n \in 0..MaxFlushBytes
           /\ n = 0 \/ RuneStart(taken + n + 1)
           /\ \A m \in (n + 1)..MaxFlushBytes : ~RuneStart(taken + m + 1)

(* The first n pending bytes end in k bytes of an incomplete rune.         *)
PartialTail(n, k) ==
    LET lead == taken + n - k + 1
    IN  /\ k < RuneLen(stream[lead])
        /\ \A i \in (lead + 1)..(taken + n) : ~RuneStart(i)

(* Mutant: an incomplete rune at the end is not held back.                 *)
SplitsRunes(n, p) == n = p

(* n is what trailingPartialLen leaves of a prefix of p bytes.             *)
IsWholeLen(n, p) ==
    \/ n = p /\ \A k \in 1..p : ~PartialTail(p, k)
    \/ n \in 0..(p - 1) /\ PartialTail(p, p - n)

(* takeLocked(batchCapLocked(), final) moves n bytes out of pending.       *)
IsTake(n, final) ==
    IF Pending = 0
      THEN n = 0
      ELSE \E p \in 0..Pending :
             /\ IsPrefixLen(p)
             /\ IF final
                  THEN n = IF p = 0 THEN Least(MaxFlushBytes, Pending) ELSE p
                  ELSE IsWholeLen(n, p)

(* Mutant: the adaptive threshold is not capped by maxFlushBytes.          *)
UncappedThreshold(q) ==
    IF q < AdaptiveHigh THEN FlushBytes
    ELSE FlushBytes + FlushBytes * (q - AdaptiveHigh + 1)

(* flushThresholdLocked at queue depth q: rises under backpressure.        *)
FlushThreshold(q) ==
    IF q < AdaptiveHigh
      THEN FlushBytes
      ELSE LET span == IF MaxBatches - AdaptiveHigh < 1
                         THEN 1 ELSE MaxBatches - AdaptiveHigh
           IN  Least(MaxFlushBytes,
                     FlushBytes
                       + (FlushBytes * (q - AdaptiveHigh + 1)) \div span)

-----------------------------------------------------------------------------
(* Mutex and condition variable.                                           *)

Holds(x, at) == pc[x] = at /\ mu = x

(* x owns the lock at the head of waitForQueueCapacityLocked's loop: it    *)
(* just got there, or it was woken and reacquires the mutex.               *)
AtCapacity(x) == Holds(x, "cap") \/ (pc[x] = "woken" /\ mu = Free)

Waiters == {x \in Actors : pc[x] = "wait"}

(* Mutant: enqueueLocked forgets cond.Signal.                              *)
SignalForgotten(f, g) == g = f

(* The program counters f after cond.Signal wakes some waiter, if any.     *)
SignalWakes(f, g) ==
    LET w == {x \in Actors : f[x] = "wait"}
    IN  \/ w = {} /\ g = f
        \/ \E x \in w : g = [f EXCEPT ![x] = "woken"]

(* Mutant: teardown and the worker forget cond.Broadcast.                  *)
BroadcastForgotten(f) == f

(* The program counters f after cond.Broadcast.                            *)
Broadcast(f) == [x \in Actors |-> IF f[x] = "wait" THEN "woken" ELSE f[x]]

MayUseClosed(x) == x \in Closers

Aborted(x) == discarded \/ (closed /\ ~MayUseClosed(x))

(* waitForQueueCapacityLocked returned true.                               *)
HasRoom(x) == Len(queue) < MaxBatches

(* cond.Wait: the queue is full and the call is not aborted.               *)
Park(x) ==
    /\ AtCapacity(x)
    /\ Len(queue) >= MaxBatches /\ ~Aborted(x)
    /\ pc' = [pc EXCEPT ![x] = "wait"]
    /\ mu' = Free
    /\ UNCHANGED <<bytes, taken, queue, chunk, flags>>

(* Where a pump or a timer callback is when it does not run.               *)
Rest(x) == IF x \in Pumps THEN "idle" ELSE "off"

(* Mutant: less than a threshold's worth of bytes is left without a timer. *)
NeedsTimerWhenFull == /\ Pending >= FlushBytes
                      /\ ~closed /\ ~discarded /\ ~timerSet

(* armTimerLocked's conditions and those of its callers.                   *)
NeedsTimer == Pending > 0 /\ ~closed /\ ~discarded /\ ~timerSet

(* Add and onTimer end: armTimerLocked when bytes are left, then unlock.   *)
LeaveArming(x) ==
    /\ mu' = Free
    /\ UNCHANGED <<bytes, taken, queue, chunk, closed, discarded>>
    /\ LET free == [pc EXCEPT ![x] = Rest(x)]
       IN  IF NeedsTimer
             THEN \E t \in Timers :
                    /\ free[t] = "off"
                    /\ pc' = [free EXCEPT ![t] = "armed"]
                    /\ timer' = t /\ timerSet' = TRUE
             ELSE pc' = free /\ UNCHANGED <<timerSet, timer>>

(* Mutant: the new batch overtakes those already queued.                   *)
EnqueueFirst(x, n, next) ==
    /\ taken' = taken + n
    /\ queue' = <<[from |-> taken, to |-> taken + n]>> \o queue
    /\ SignalWakes([pc EXCEPT ![x] = next], pc')
    /\ mu' = x

(* takeLocked and enqueueLocked: n bytes become a batch, x goes on at next.*)
Enqueue(x, n, next) ==
    /\ taken' = taken + n
    /\ queue' = Append(queue, [from |-> taken, to |-> taken + n])
    /\ SignalWakes([pc EXCEPT ![x] = next], pc')
    /\ mu' = x

-----------------------------------------------------------------------------
(* Add, called by a pump with the n bytes of one read.                     *)

(* Mutant: Add does not look at closed.                                    *)
AddAnyway(p, n) ==
    /\ pc[p] = "idle" /\ mu = Free
    /\ ~discarded
    /\ recv + n <= Len(stream)
    /\ recv' = recv + n
    /\ mu' = p /\ pc' = [pc EXCEPT ![p] = "flush"]
    /\ UNCHANGED <<stream, sunk, taken, queue, chunk, flags>>

Add(p, n) ==
    /\ pc[p] = "idle" /\ mu = Free
    /\ ~closed /\ ~discarded
    /\ recv + n <= Len(stream)
    /\ recv' = recv + n
    /\ mu' = p /\ pc' = [pc EXCEPT ![p] = "flush"]
    /\ UNCHANGED <<stream, sunk, taken, queue, chunk, flags>>

AddAfterTeardown(p) ==
    /\ pc[p] = "idle" /\ mu = Free
    /\ closed \/ discarded
    /\ UNCHANGED vars

(* flushReadyLocked's loop condition.                                      *)
FlushReady(p) ==
    /\ Holds(p, "flush")
    /\ IF Pending >= FlushThreshold(Len(queue))
         THEN /\ pc' = [pc EXCEPT ![p] = "cap"]
              /\ UNCHANGED <<bytes, taken, queue, chunk, mu, flags>>
         ELSE LeaveArming(p)

(* The loop body, once there is room in the queue.                         *)
FlushTake(p) ==
    /\ AtCapacity(p)
    /\ HasRoom(p) /\ ~Aborted(p)
    /\ \E n \in 0..Pending :
         /\ IsTake(n, FALSE)
         /\ IF n = 0
              THEN LeaveArming(p)
              ELSE /\ Enqueue(p, n, "flush")
                   /\ UNCHANGED <<bytes, chunk, flags>>

(* waitForQueueCapacityLocked returned false.                              *)
GiveUp(x) ==
    /\ AtCapacity(x) /\ Aborted(x)
    /\ LeaveArming(x)

-----------------------------------------------------------------------------
(* The coalesce timer.  Bound: it does not fire while every other callback *)
(* of Timers is still running, so that one is left to be armed.            *)

TimerFires(t) ==
    /\ pc[t] = "armed"
    /\ \E u \in Timers \ {t} : pc[u] = "off"
    /\ pc' = [pc EXCEPT ![t] = "fired"]
    /\ UNCHANGED <<bytes, taken, queue, chunk, mu, flags>>

OnTimer(t) ==
    /\ pc[t] = "fired" /\ mu = Free
    /\ timerSet' = FALSE
    /\ IF closed \/ discarded
         THEN pc' = [pc EXCEPT ![t] = "off"] /\ mu' = Free
         ELSE pc' = [pc EXCEPT ![t] = "cap"] /\ mu' = t
    /\ UNCHANGED <<bytes, taken, queue, chunk, timer, closed, discarded>>

(* One round of onTimer's loop: it goes on while a cap-sized batch or a    *)
(* threshold's worth of bytes is left.                                     *)
OnTimerTake(t) ==
    /\ AtCapacity(t)
    /\ HasRoom(t) /\ ~Aborted(t)
    /\ \E n \in 0..Pending :
         /\ IsTake(n, FALSE)
         /\ IF n = 0
              THEN LeaveArming(t)
              ELSE LET left == Pending - n
                       done == \/ left = 0
                               \/ /\ left < MaxFlushBytes
                                  /\ left < FlushThreshold(Len(queue) + 1)
                   IN  /\ Enqueue(t, n, IF done THEN "leave" ELSE "cap")
                       /\ UNCHANGED <<bytes, chunk, flags>>

OnTimerLeaves(t) == Holds(t, "leave") /\ LeaveArming(t)

-----------------------------------------------------------------------------
(* Teardown.                                                               *)

(* b.timer.Stop(): cancels the callback unless it already started.         *)
StopTimer(f) ==
    IF timer # NoTimer /\ f[timer] = "armed"
      THEN [f EXCEPT ![timer] = "off"] ELSE f

Close(c) ==
    /\ pc[c] = "idle" /\ mu = Free /\ ~closed
    /\ closed' = TRUE
    /\ timerSet' = IF timer = NoTimer THEN timerSet ELSE FALSE
    /\ pc' = [StopTimer(pc) EXCEPT ![c] = "drain"]
    /\ mu' = c
    /\ UNCHANGED <<bytes, taken, queue, chunk, timer, discarded>>

CloseAgain(c) ==
    /\ pc[c] = "idle" /\ mu = Free /\ closed
    /\ pc' = [pc EXCEPT ![c] = "join"]
    /\ UNCHANGED <<bytes, taken, queue, chunk, mu, flags>>

(* Close's loop condition; past the loop it wakes everybody and unlocks.   *)
CloseLoop(c) ==
    /\ Holds(c, "drain")
    /\ IF Pending > 0 /\ ~discarded
         THEN pc' = [pc EXCEPT ![c] = "cap"] /\ mu' = c
         ELSE pc' = Broadcast([pc EXCEPT ![c] = "join"]) /\ mu' = Free
    /\ UNCHANGED <<bytes, taken, queue, chunk, flags>>

CloseTake(c) ==
    /\ AtCapacity(c)
    /\ HasRoom(c) /\ ~Aborted(c)
    /\ \E n \in 0..Pending :
         /\ IsTake(n, TRUE)
         /\ IF n = 0
              THEN /\ pc' = [pc EXCEPT ![c] = "drain"] /\ mu' = c
                   /\ UNCHANGED <<taken, queue>>
              ELSE Enqueue(c, n, "drain")
    /\ UNCHANGED <<bytes, chunk, flags>>

CloseAborted(c) ==
    /\ AtCapacity(c) /\ Aborted(c)
    /\ pc' = Broadcast([pc EXCEPT ![c] = "join"]) /\ mu' = Free
    /\ UNCHANGED <<bytes, taken, queue, chunk, flags>>

Discard(c) ==
    /\ pc[c] = "idle" /\ mu = Free
    /\ discarded' = TRUE /\ closed' = TRUE
    /\ timerSet' = IF timer = NoTimer THEN timerSet ELSE FALSE
    /\ taken' = recv /\ queue' = <<>>
    /\ pc' = Broadcast([StopTimer(pc) EXCEPT ![c] = "join"])
    /\ UNCHANGED <<bytes, chunk, mu, timer>>

(* <-b.done, then the call returns.                                        *)
Join(c) ==
    /\ pc[c] = "join" /\ pc[Worker] = "done"
    /\ pc' = [pc EXCEPT ![c] = "returned"]
    /\ UNCHANGED <<bytes, taken, queue, chunk, mu, flags>>

-----------------------------------------------------------------------------
(* The worker goroutine.                                                   *)

WorkerRuns == pc[Worker] \in {"run", "woken"} /\ mu = Free

WorkerWaits ==
    /\ WorkerRuns
    /\ queue = <<>> /\ ~closed /\ ~discarded
    /\ pc' = [pc EXCEPT ![Worker] = "wait"]
    /\ UNCHANGED <<bytes, taken, queue, chunk, mu, flags>>

WorkerExits ==
    /\ WorkerRuns
    /\ discarded \/ (queue = <<>> /\ closed)
    /\ queue' = <<>>
    /\ pc' = Broadcast([pc EXCEPT ![Worker] = "done"])
    /\ UNCHANGED <<bytes, taken, chunk, mu, flags>>

WorkerDequeues ==
    /\ WorkerRuns
    /\ queue # <<>> /\ ~discarded
    /\ chunk' = Head(queue) /\ queue' = Tail(queue)
    /\ pc' = Broadcast([pc EXCEPT ![Worker] = "emit"])
    /\ UNCHANGED <<bytes, taken, mu, flags>>

(* b.emit runs outside the lock.                                           *)
WorkerEmits ==
    /\ pc[Worker] = "emit"
    /\ sunk' = chunk.to /\ chunk' = NoChunk
    /\ pc' = [pc EXCEPT ![Worker] = "run"]
    /\ UNCHANGED <<stream, recv, taken, queue, mu, flags>>

-----------------------------------------------------------------------------
Init ==
    /\ stream \in Streams
    /\ recv = 0 /\ taken = 0 /\ queue = <<>> /\ chunk = NoChunk /\ sunk = 0
    /\ mu = Free
    /\ pc = [x \in Actors |-> IF x \in Pumps \cup Closers THEN "idle"
                              ELSE IF x \in Timers THEN "off" ELSE "run"]
    /\ timerSet = FALSE /\ timer = NoTimer
    /\ closed = FALSE /\ discarded = FALSE

PumpStep(p) == FlushReady(p) \/ FlushTake(p) \/ Park(p) \/ GiveUp(p)

TimerStep(t) == \/ TimerFires(t) \/ OnTimer(t) \/ OnTimerTake(t)
                \/ OnTimerLeaves(t) \/ Park(t) \/ GiveUp(t)

CloserStep(c) == \/ CloseLoop(c) \/ CloseTake(c) \/ CloseAborted(c)
                 \/ Park(c) \/ Join(c)

WorkerStep == WorkerWaits \/ WorkerExits \/ WorkerDequeues \/ WorkerEmits

Next ==
    \/ \E p \in Pumps : \/ \E n \in 1..MaxRead : Add(p, n)
                        \/ AddAfterTeardown(p)
                        \/ PumpStep(p)
    \/ \E t \in Timers : TimerStep(t)
    \/ \E c \in Closers : Close(c) \/ CloseAgain(c) \/ Discard(c) \/ CloserStep(c)
    \/ WorkerStep

(* A goroutine that may run does run, a timer that is armed fires, and the *)
(* mutex starves nobody (sync.Mutex hands over to a waiter after 1 ms), so *)
(* a step that needs the lock is taken if it is possible again and again.  *)
(* Nobody is obliged to call Add, Close or Discard.                        *)
Fairness ==
    /\ \A p \in Pumps : SF_vars(PumpStep(p))
    /\ \A t \in Timers : SF_vars(TimerStep(t))
    /\ \A c \in Closers : SF_vars(CloserStep(c))
    /\ SF_vars(WorkerStep)

Spec == Init /\ [][Next]_vars

FairSpec == Spec /\ Fairness
-----------------------------------------------------------------------------
Chunk == [from : Nat, to : Nat]

PumpPC   == {"idle", "flush", "cap", "wait", "woken"}
TimerPC  == {"off", "armed", "fired", "cap", "wait", "woken", "leave"}
CloserPC == {"idle", "drain", "cap", "wait", "woken", "join", "returned"}
WorkerPC == {"run", "wait", "woken", "emit", "done"}

(* The types of the batcher's fields and of every goroutine's position.    *)
TypeOK ==
    /\ stream \in Streams
    /\ recv \in Nat /\ taken \in Nat /\ sunk \in Nat
    /\ queue \in Seq(Chunk) /\ chunk \in Chunk \cup {NoChunk}
    /\ mu \in Actors \cup {Free}
    /\ pc \in [Actors -> PumpPC \cup TimerPC \cup CloserPC \cup WorkerPC]
    /\ \A p \in Pumps : pc[p] \in PumpPC
    /\ \A t \in Timers : pc[t] \in TimerPC
    /\ \A c \in Closers : pc[c] \in CloserPC
    /\ pc[Worker] \in WorkerPC
    /\ timerSet \in BOOLEAN /\ timer \in Timers \cup {NoTimer}
    /\ closed \in BOOLEAN /\ discarded \in BOOLEAN

(* The end of what the sink or the worker has: the queue starts there.     *)
Delivering == IF chunk = NoChunk THEN sunk ELSE chunk.to

(* What the batcher is to its users: the channel of OutputChannel, with    *)
(* pending, the queue and the worker's hands all on the way through it.    *)
Phase == IF discarded THEN "dropped" ELSE IF closed THEN "closed" ELSE "open"

Limit == IF discarded THEN Delivering ELSE 0

Ended == pc[Worker] = "done"

Returned == {c \in Closers : pc[c] = "returned"}

Channel == INSTANCE OutputChannel
    WITH Callers <- Closers, MaxPiece <- MaxFlushBytes, accepted <- recv, delivered <- sunk,
         phase <- Phase, limit <- Limit, ended <- Ended, returned <- Returned

(* Whatever goroutine cuts, queues, wakes or tears down: the batcher       *)
(* delivers what it accepted in order, takes nothing in after teardown     *)
(* began, lets at most the batch in the worker's hands out after Discard,  *)
(* and lets no Close or Discard return while anything may still come out.  *)
ImplementsChannel == Channel!Spec

(* Output is neither lost, duplicated nor reordered on its way from Add to *)
(* the sink, whichever goroutine cut the batches: what was sunk, the batch *)
(* in the worker's hands, the queue and pending are adjacent pieces of the *)
(* accepted bytes, until Discard drops the rest.                           *)
InOrder ==
    /\ sunk <= taken /\ taken <= recv
    /\ chunk # NoChunk => chunk.from = sunk
    /\ \A i \in 1..(Len(queue) - 1) : queue[i].to = queue[i + 1].from
    /\ queue # <<>> => /\ queue[1].from = Delivering
                       /\ queue[Len(queue)].to = taken
    /\ ~discarded /\ queue = <<>> => Delivering = taken

(* Backpressure bounds the memory a session's output takes: the queue is   *)
(* never above maxQueueBatches although Add, onTimer and Close all fill it *)
(* after waiting for room, no batch is above maxFlushBytes, and until      *)
(* teardown pending is less than one batch plus the reads of the pumps     *)
(* that are still inside Add.                                              *)
Backpressure ==
    /\ Len(queue) <= MaxBatches
    /\ \A i \in 1..Len(queue) :
         queue[i].to - queue[i].from \in 1..MaxFlushBytes
    /\ ~closed =>
         Pending < MaxFlushBytes
                     + MaxRead * Cardinality({p \in Pumps : pc[p] # "idle"})

(* No wakeup is lost on the condition variable the worker shares with the  *)
(* producers, although enqueueLocked signals only one waiter: the worker   *)
(* sleeps only on an empty queue, a producer only on a full one, and after *)
(* teardown started only while a Close that still drains will broadcast.   *)
NoLostWakeup ==
    LET draining == \E c \in Closers : pc[c] \in {"drain", "cap", "wait", "woken"}
    IN  /\ pc[Worker] = "wait" => queue = <<>>
        /\ \A x \in Waiters \ {Worker} : Len(queue) = MaxBatches
        /\ Waiters # {} => ~discarded /\ (closed => draining)

(* What the type comment promises: when a Close or Discard call returns,   *)
(* every accepted byte was delivered unless a Discard dropped some.        *)
CloseDelivers ==
    (\E c \in Closers : pc[c] = "returned") /\ ~discarded => sunk = recv

(* The worker quits before a Discard only when everything accepted was     *)
(* sunk, or when it overtook a Close that was woken up to a drained queue  *)
(* and has not got the mutex back yet: no other loss of output exists.     *)
WorkerQuitsLast ==
    [][pc[Worker] # "done" /\ pc'[Worker] = "done" /\ ~discarded
         => sunk = recv \/ \E c \in Closers : pc[c] = "woken"]_vars

(* What the users of the batcher may count on: it is such a channel, and   *)
(* the channel ends early only in the one way above.                       *)
OutputPromise == ImplementsChannel /\ WorkerQuitsLast

(* No batch ends inside a rune of a well-formed stream, however the reads  *)
(* cut it, except the remainder that Close flushes.                        *)
RunesWhole ==
    LET cut(i) == i < Len(stream) /\ ~RuneStart(i + 1)
    IN  \A i \in {sunk} \cup {queue[k].to : k \in 1..Len(queue)} :
          cut(i) => closed /\ i = recv

(* The queue holds the output in order, bounded, and cut where it may be.  *)
BatchesFit == TypeOK /\ InOrder /\ Backpressure /\ RunesWhole

(* A blocked Add, a timer callback and a teardown call all return.         *)
CallsReturn ==
    /\ \A p \in Pumps : pc[p] # "idle" ~> pc[p] = "idle"
    /\ \A c \in Closers : pc[c] # "idle" ~> pc[c] = "returned"

(* Accepted bytes that complete a rune reach the sink without any further  *)
(* Add, by threshold or by timer, unless teardown begins.                  *)
Delivered ==
    \A i \in UNION {1..Len(s) : s \in Streams} :
        (recv >= i /\ (i = Len(stream) \/ (i < Len(stream) /\ RuneStart(i + 1))))
            ~> (sunk >= i \/ closed)

(* Nobody sleeps for ever: no wakeup is lost, every call returns, and the  *)
(* output arrives.                                                         *)
Progress == []NoLostWakeup /\ CallsReturn /\ Delivered
=============================================================================
