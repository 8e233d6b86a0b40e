------------------------- MODULE OutputBatcherProofs -------------------------
(***************************************************************************)
(* Proofs about the terminal output batcher of OutputBatcher: any number   *)
(* of pumps, timer callbacks and callers of teardown, any sizes.  That     *)
(* batches end where runes end, and that what is pending stays bounded,    *)
(* needs output that is UTF-8 and batches that hold a rune at least.       *)
(***************************************************************************)
EXTENDS OutputBatcher, FiniteSetTheorems, SequenceTheorems, TLAPS

(* A lead byte is followed by the rest of its rune, as far as the output   *)
(* goes, and no other continuation bytes occur.                            *)
Utf8(s) ==
    /\ \A i \in 1 .. Len(s) : RuneLen(s[i]) <= MaxFlushBytes
    /\ \A i \in 1 .. Len(s) : \A m \in 1 .. Len(s) :
         i < m /\ m < i + RuneLen(s[i]) => s[m] = "cont"
    /\ \A m \in 1 .. Len(s) : s[m] = "cont" => \E i \in 1 .. m - 1 : m < i + RuneLen(s[i]) /\ s[i] # "cont"

AllUtf8 == \A s \in Streams : Utf8(s)

Draining == {"drain", "cap", "wait", "woken"}

(* Who is in the middle of a call has the lock.                            *)
Locking == {"flush", "cap", "drain", "leave"}

Locked ==
    /\ \A x \in Actors : pc[x] \in Locking => mu = x
    /\ pc[Worker] = "emit" <=> chunk # NoChunk
    /\ discarded => closed
    /\ \A c \in Closers : pc[c] # "idle" => closed

(* Who waits has a reason, and who teardown does not wake is woken by a    *)
(* Close that still drains.                                                *)
Waits ==
    /\ pc[Worker] = "wait" => queue = <<>>
    /\ \A x \in Actors \ {Worker} : pc[x] = "wait" => Len(queue) = MaxBatches
    /\ discarded => \A x \in Actors : pc[x] # "wait"

Sizes ==
    /\ Len(queue) <= MaxBatches
    /\ \A i \in 1 .. Len(queue) : queue[i].to - queue[i].from \in 1 .. MaxFlushBytes /\ queue[i].to <= taken
    /\ chunk # NoChunk => chunk.to - chunk.from \in 1 .. MaxFlushBytes /\ chunk.to <= taken

(* What is still pending or asleep after Close began, a Close sees to.     *)
Waiting == \E x \in Actors : pc[x] = "wait"

Drains == closed /\ ~discarded /\ (taken # recv \/ Waiting) => \E c \in Closers : pc[c] \in Draining

Busy == {p \in Pumps : pc[p] # "idle"}

Bounded == ~closed => Pending < MaxFlushBytes + MaxRead * Cardinality(Busy)

(* The bytes 1..i end inside a rune.                                       *)
Cut(i) == i < Len(stream) /\ ~RuneStart(i + 1)

Clean(i) == Cut(i) => closed /\ i = recv

Whole ==
    /\ Clean(sunk) /\ Clean(taken) /\ (chunk # NoChunk => Clean(chunk.to))
    /\ \A k \in 1 .. Len(queue) : Clean(queue[k].to)

Inv ==
    /\ TypeOK /\ recv <= Len(stream)
    /\ Locked /\ Waits /\ InOrder /\ Sizes /\ Drains
    /\ AllUtf8 => Bounded /\ Whole

-----------------------------------------------------------------------------
(* How the program counters move: one actor steps, those that wait may be  *)
(* woken, a callback may be armed or stopped.                              *)

PlacesOf(x) == IF x \in Pumps THEN PumpPC ELSE IF x \in Timers THEN TimerPC
               ELSE IF x \in Closers THEN CloserPC ELSE WorkerPC

Places == PumpPC \cup TimerPC \cup CloserPC \cup WorkerPC

Beside(f, g, y) == \/ g[y] = f[y]
                   \/ f[y] = "wait" /\ g[y] = "woken"
                   \/ y \in Timers /\ f[y] \in {"off", "armed"} /\ g[y] \in {"off", "armed"}

Moves(x, next) ==
    /\ pc' \in [Actors -> Places] /\ pc'[x] = next
    /\ \A y \in Actors \ {x} : Beside(pc, pc', y)

LEMMA Typed ==
    ASSUME Inv
    PROVE  /\ stream \in Seq(ByteClass) /\ Len(stream) \in Nat /\ stream \in Streams
           /\ recv \in Nat /\ taken \in Nat /\ sunk \in Nat /\ recv <= Len(stream)
           /\ sunk <= taken /\ taken <= recv
           /\ queue \in Seq(Chunk) /\ Len(queue) \in Nat /\ chunk \in Chunk \cup {NoChunk}
           /\ mu \in Actors \cup {Free}
           /\ pc \in [Actors -> Places] /\ \A x \in Actors : pc[x] \in PlacesOf(x)
           /\ timerSet \in BOOLEAN /\ timer \in Timers \cup {NoTimer}
           /\ closed \in BOOLEAN /\ discarded \in BOOLEAN
<1>1. stream \in Seq(ByteClass) /\ Len(stream) \in Nat /\ stream \in Streams
  BY StreamsAssumption, LenProperties DEF Inv, TypeOK
<1>2. queue \in Seq(Chunk) /\ Len(queue) \in Nat
  BY LenProperties DEF Inv, TypeOK
<1>3. \A x \in Actors : pc[x] \in PlacesOf(x)
  BY DEF Inv, TypeOK, Actors, PlacesOf
<1>. QED BY <1>1, <1>2, <1>3 DEF Inv, TypeOK, InOrder, Places

LEMMA Parties ==
    /\ \A p \in Pumps : p \in Actors /\ p \notin Timers /\ p \notin Closers /\ p # Worker
    /\ \A t \in Timers : t \in Actors /\ t \notin Pumps /\ t \notin Closers /\ t # Worker
    /\ \A c \in Closers : c \in Actors /\ c \notin Pumps /\ c \notin Timers /\ c # Worker
    /\ Worker \in Actors /\ Worker \notin Pumps /\ Worker \notin Timers /\ Worker \notin Closers
    /\ Free \notin Actors
BY ActorsAssumption DEF Actors

(* What a move does to the type and the lock.                              *)
LEMMA MoveTyped ==
    ASSUME Inv, NEW x \in Actors, NEW next \in PlacesOf(x), Moves(x, next),
           mu' \in Actors \cup {Free}, mu' # mu => mu \in {x, Free}, next \in Locking => mu' = x
    PROVE  /\ pc' \in [Actors -> Places] /\ \A y \in Actors : pc'[y] \in PlacesOf(y)
           /\ \A y \in Actors : pc'[y] \in Locking => mu' = y
           /\ \A y \in Actors \ {x} : (pc'[y] = "idle" <=> pc[y] = "idle")
                                      /\ (y \in Closers => (pc'[y] \in Draining <=> pc[y] \in Draining))
                                      /\ (pc'[y] = "wait" => pc[y] = "wait")
                                      /\ (pc'[y] = "emit" <=> pc[y] = "emit")
                                      /\ (pc'[y] = "done" => pc[y] = "done")
<1>1. ASSUME NEW y \in Actors \ {x}
      PROVE  /\ pc'[y] \in PlacesOf(y) /\ (pc'[y] \in Locking => pc'[y] = pc[y])
             /\ (pc'[y] = "idle" <=> pc[y] = "idle")
             /\ (y \in Closers => (pc'[y] \in Draining <=> pc[y] \in Draining))
             /\ (pc'[y] = "wait" => pc[y] = "wait") /\ (pc'[y] = "emit" <=> pc[y] = "emit")
             /\ (pc'[y] = "done" => pc[y] = "done")
  <2>1. pc[y] \in PlacesOf(y) /\ Beside(pc, pc', y)
    BY Typed DEF Moves
  <2>2. CASE pc'[y] = pc[y]
    BY <2>1, <2>2
  <2>3. CASE pc[y] = "wait" /\ pc'[y] = "woken"
    BY <2>1, <2>3 DEF PlacesOf, PumpPC, TimerPC, CloserPC, WorkerPC, Draining, Locking
  <2>4. CASE y \in Timers /\ pc[y] \in {"off", "armed"} /\ pc'[y] \in {"off", "armed"}
    BY <2>4, Parties DEF PlacesOf, TimerPC, Locking
  <2>. QED BY <2>1, <2>2, <2>3, <2>4 DEF Beside
<1>2. ASSUME NEW y \in Actors, pc'[y] \in Locking PROVE mu' = y
  <2>1. CASE y = x
    BY <1>2, <2>1 DEF Moves
  <2>2. CASE y # x
    <3>1. mu = y
      BY <1>1, <1>2, <2>2 DEF Inv, Locked
    <3>. QED BY <2>2, <3>1, Parties
  <2>. QED BY <2>1, <2>2
<1>. QED BY <1>1, <1>2 DEF Moves

LEMMA Stepping ==
    ASSUME Inv, NEW x \in Actors, NEW next \in PlacesOf(x), pc' = [pc EXCEPT ![x] = next]
    PROVE  Moves(x, next)
BY Typed DEF Moves, Beside, PlacesOf, Places, PumpPC, TimerPC, CloserPC, WorkerPC

LEMMA Waking ==
    ASSUME Inv, NEW x \in Actors, NEW next \in PlacesOf(x) \ {"wait"},
           SignalWakes([pc EXCEPT ![x] = next], pc') \/ pc' = Broadcast([pc EXCEPT ![x] = next])
    PROVE  Moves(x, next)
<1>1. PICK f : f = [pc EXCEPT ![x] = next]
  OBVIOUS
<1>2. next \in Places /\ "woken" \in Places
  BY DEF PlacesOf, Places, PumpPC, TimerPC, CloserPC, WorkerPC
<1>3. f \in [Actors -> Places] /\ f[x] = next /\ \A y \in Actors \ {x} : f[y] = pc[y]
  BY <1>1, <1>2, Typed
<1>4. CASE SignalWakes(f, pc')
  <2>1. CASE pc' = f
    BY <1>3, <2>1 DEF Moves, Beside
  <2>2. CASE \E z \in Actors : f[z] = "wait" /\ pc' = [f EXCEPT ![z] = "woken"]
    <3>1. PICK z \in Actors : f[z] = "wait" /\ pc' = [f EXCEPT ![z] = "woken"]
      BY <2>2
    <3>2. z # x
      BY <1>3, <3>1
    <3>3. /\ pc' \in [Actors -> Places] /\ pc'[z] = "woken" /\ pc[z] = "wait"
          /\ \A y \in Actors \ {z} : pc'[y] = f[y]
      BY <1>2, <1>3, <3>1, <3>2
    <3>. QED BY <1>3, <3>2, <3>3 DEF Moves, Beside
  <2>. QED BY <1>4, <2>1, <2>2 DEF SignalWakes
<1>5. CASE pc' = Broadcast(f)
  <2>1. \A y \in Actors : pc'[y] = IF f[y] = "wait" THEN "woken" ELSE f[y]
    BY <1>5 DEF Broadcast
  <2>2. pc' \in [Actors -> Places]
    BY <1>2, <1>3, <1>5 DEF Broadcast
  <2>. QED BY <1>3, <2>1, <2>2 DEF Moves, Beside
<1>. QED BY <1>1, <1>4, <1>5

(* A broadcast leaves nobody asleep; a signal neither, where nobody but    *)
(* the worker can be.                                                      *)
LEMMA Woken ==
    ASSUME NEW f, pc' = Broadcast(f)
    PROVE  ~Waiting'
BY DEF Broadcast, Waiting

LEMMA Signalled ==
    ASSUME Inv, HasRoom(Worker), NEW x \in Actors \ {Worker}, NEW next \in PlacesOf(x) \ {"wait"},
           SignalWakes([pc EXCEPT ![x] = next], pc')
    PROVE  ~Waiting'
<1>1. PICK f : f = [pc EXCEPT ![x] = next]
  OBVIOUS
<1>2. next \in Places /\ "woken" \in Places
  BY DEF PlacesOf, Places, PumpPC, TimerPC, CloserPC, WorkerPC
<1>3. f \in [Actors -> Places] /\ f[x] = next /\ \A y \in Actors \ {x} : f[y] = pc[y]
  BY <1>1, <1>2, Typed
<1>4. \A y \in Actors \ {Worker} : f[y] # "wait"
  BY <1>3, Typed, SizesAssumption DEF Inv, Waits, HasRoom
<1>5. SignalWakes(f, pc')
  BY <1>1
<1>6. CASE f[Worker] = "wait"
  <2>1. pc' = [f EXCEPT ![Worker] = "woken"]
    BY <1>4, <1>5, <1>6, Parties DEF SignalWakes
  <2>. QED BY <1>3, <1>4, <2>1, Parties DEF Waiting
<1>7. CASE f[Worker] # "wait"
  <2>1. pc' = f
    BY <1>4, <1>5, <1>7 DEF SignalWakes
  <2>. QED BY <1>4, <1>7, <2>1 DEF Waiting
<1>. QED BY <1>6, <1>7

LEMMA Leaving ==
    ASSUME Inv, NEW x \in Pumps \cup Timers, LeaveArming(x)
    PROVE  /\ Moves(x, Rest(x)) \/ (x \in Timers /\ Moves(x, "armed"))
           /\ mu' = Free /\ timerSet' \in BOOLEAN /\ timer' \in Timers \cup {NoTimer}
           /\ UNCHANGED <<bytes, taken, queue, chunk, closed, discarded>>
<1>1. PICK free : free = [pc EXCEPT ![x] = Rest(x)]
  OBVIOUS
<1>2. x \in Actors /\ Rest(x) \in PlacesOf(x) /\ Rest(x) \in Places /\ "armed" \in Places
  BY Parties DEF Rest, PlacesOf, Places, PumpPC, TimerPC
<1>3. free \in [Actors -> Places] /\ free[x] = Rest(x) /\ \A y \in Actors \ {x} : free[y] = pc[y]
  BY <1>1, <1>2, Typed
<1>4. CASE NeedsTimer
  <2>1. PICK t \in Timers : free[t] = "off" /\ pc' = [free EXCEPT ![t] = "armed"] /\ timer' = t /\ timerSet' = TRUE
    BY <1>1, <1>4 DEF LeaveArming
  <2>2. pc' \in [Actors -> Places] /\ pc'[t] = "armed" /\ \A y \in Actors \ {t} : pc'[y] = free[y]
    BY <1>2, <1>3, <2>1, Parties
  <2>3. Moves(x, Rest(x)) \/ (x \in Timers /\ Moves(x, "armed"))
    <3>1. CASE t = x
      BY <1>2, <1>3, <2>2, <3>1 DEF Moves, Beside
    <3>2. CASE t # x
      BY <1>2, <1>3, <2>1, <2>2, <3>2 DEF Moves, Beside
    <3>. QED BY <3>1, <3>2
  <2>. QED BY <2>1, <2>3 DEF LeaveArming
<1>5. CASE ~NeedsTimer
  <2>1. pc' = free /\ UNCHANGED <<timerSet, timer>>
    BY <1>1, <1>5 DEF LeaveArming
  <2>. QED BY <1>2, <1>3, <2>1, Typed DEF LeaveArming, Moves, Beside
<1>. QED BY <1>4, <1>5

LEMMA Stopping ==
    ASSUME Inv, NEW c \in Closers, NEW next \in CloserPC \ {"wait"},
           \/ pc' = [StopTimer(pc) EXCEPT ![c] = next]
           \/ pc' = Broadcast([StopTimer(pc) EXCEPT ![c] = next])
    PROVE  Moves(c, next)
<1>1. PICK f : f = StopTimer(pc)
  OBVIOUS
<1>2. PICK g : g = [f EXCEPT ![c] = next]
  OBVIOUS
<1>3. next \in Places /\ "woken" \in Places /\ "off" \in Places /\ c \in Actors /\ c \notin Timers
  BY Parties DEF Places, CloserPC, PumpPC, TimerPC
<1>4. f \in [Actors -> Places] /\ \A y \in Actors : f[y] = pc[y] \/ (y \in Timers /\ pc[y] = "armed" /\ f[y] = "off")
  <2>1. CASE timer # NoTimer /\ pc[timer] = "armed"
    <3>1. timer \in Timers /\ timer \in Actors /\ f = [pc EXCEPT ![timer] = "off"]
      BY <1>1, <2>1, Typed, Parties DEF StopTimer
    <3>. QED BY <1>3, <2>1, <3>1, Typed
  <2>2. CASE ~(timer # NoTimer /\ pc[timer] = "armed")
    BY <1>1, <2>2, Typed DEF StopTimer
  <2>. QED BY <2>1, <2>2
<1>5. g \in [Actors -> Places] /\ g[c] = next /\ \A y \in Actors \ {c} : g[y] = f[y]
  BY <1>2, <1>3, <1>4
<1>6. \A y \in Actors \ {c} : g[y] # "wait" => Beside(pc, g, y)
  BY <1>4, <1>5 DEF Beside
<1>7. CASE pc' = g
  BY <1>3, <1>4, <1>5, <1>7 DEF Moves, Beside
<1>8. CASE pc' = Broadcast(g)
  <2>1. \A y \in Actors : pc'[y] = IF g[y] = "wait" THEN "woken" ELSE g[y]
    BY <1>8 DEF Broadcast
  <2>2. pc' \in [Actors -> Places]
    BY <1>3, <1>5, <1>8 DEF Broadcast
  <2>3. ASSUME NEW y \in Actors \ {c} PROVE Beside(pc, pc', y)
    <3>1. CASE g[y] = "wait"
      <4>1. pc[y] = "wait" /\ pc'[y] = "woken"
        BY <1>4, <1>5, <2>1, <3>1
      <4>. QED BY <4>1 DEF Beside
    <3>2. CASE g[y] # "wait"
      <4>1. pc'[y] = g[y]
        BY <2>1, <3>2
      <4>. QED BY <1>4, <1>5, <4>1 DEF Beside
    <3>. QED BY <3>1, <3>2
  <2>. QED BY <1>3, <1>5, <2>1, <2>2, <2>3 DEF Moves
<1>. QED BY <1>1, <1>2, <1>7, <1>8

LEMMA Lifted ==
    ASSUME pc' \in [Actors -> Places], \A y \in Actors : pc'[y] \in PlacesOf(y),
           stream' \in Streams, recv' \in Nat, taken' \in Nat, sunk' \in Nat,
           queue' \in Seq(Chunk), chunk' \in Chunk \cup {NoChunk}, mu' \in Actors \cup {Free},
           timerSet' \in BOOLEAN, timer' \in Timers \cup {NoTimer}, closed' \in BOOLEAN, discarded' \in BOOLEAN
    PROVE  TypeOK'
<1>1. /\ \A p \in Pumps : pc'[p] \in PumpPC
      /\ \A t \in Timers : pc'[t] \in TimerPC
      /\ \A c \in Closers : pc'[c] \in CloserPC
      /\ pc'[Worker] \in WorkerPC
  BY Parties DEF PlacesOf
<1>. QED BY <1>1 DEF TypeOK, Places

(* A pump that becomes idle leaves less than a batch behind.               *)
LEMMA BusyStays ==
    ASSUME Inv, AllUtf8, Bounded, UNCHANGED <<recv, taken>>, closed => closed',
           NEW x \in Actors, \A y \in Actors \ {x} : pc'[y] = "idle" <=> pc[y] = "idle",
           x \in Pumps => /\ pc'[x] = "idle" /\ ~closed' => Pending < MaxFlushBytes
                          /\ pc[x] = "idle" => pc'[x] = "idle"
    PROVE  Bounded'
<1>1. \A S \in SUBSET Pumps : IsFiniteSet(S) /\ Cardinality(S) \in Nat
  BY ActorsAssumption, FS_Subset, FS_CardinalityType
<1>2. Cardinality(Busy') \in Nat /\ Cardinality(Busy) \in Nat
  BY <1>1 DEF Busy
<1>3. Pending' = Pending /\ Pending \in Int /\ MaxFlushBytes \in Nat /\ MaxRead \in Nat
  BY Typed, SizesAssumption DEF Pending
<1>4. CASE x \in Pumps /\ pc'[x] = "idle" /\ ~closed'
  <2>1. MaxRead * Cardinality(Busy') >= 0
    BY <1>2, <1>3
  <2>. QED BY <1>2, <1>3, <1>4, <2>1 DEF Bounded
<1>5. CASE ~(x \in Pumps /\ pc'[x] = "idle")
  <2>1. Busy' = Busy
    BY <1>5, Parties DEF Busy
  <2>. QED BY <1>3, <2>1, Typed DEF Bounded
<1>. QED BY <1>4, <1>5, Typed DEF Bounded

(* What a step of anybody else than the worker does.                       *)
Kept == Inv' /\ (pc'[Worker] = "done" => pc[Worker] = "done")

(* A step that moves no bytes.                                             *)
LEMMA QuietKeeps ==
    ASSUME Inv, NEW x \in Actors, NEW next \in PlacesOf(x), Moves(x, next),
           mu' \in Actors \cup {Free}, mu' # mu => mu \in {x, Free}, next \in Locking => mu' = x,
           UNCHANGED <<bytes, taken, queue, chunk, discarded>>,
           closed' \in BOOLEAN, closed => closed', x \in Closers /\ next # "idle" => closed',
           timerSet' \in BOOLEAN, timer' \in Timers \cup {NoTimer},
           x = Worker => next # "emit" /\ pc[x] # "emit" /\ next # "done",
           next = "wait" => /\ ~discarded
                            /\ IF x = Worker THEN queue = <<>> /\ ~closed' ELSE Len(queue) = MaxBatches
                            /\ closed' => x \in Closers,
           closed' /\ ~discarded /\ (taken # recv \/ Waiting') =>
              \/ x \in Closers /\ next \in Draining
              \/ closed /\ (x \in Closers /\ pc[x] \in Draining => next \in Draining),
           x \in Pumps => /\ next = "idle" /\ ~closed' /\ AllUtf8 => Pending < MaxFlushBytes
                          /\ pc[x] = "idle" => next = "idle"
    PROVE  Kept
<1>1. UNCHANGED <<stream, recv, sunk, taken, queue, chunk, discarded>>
  BY DEF bytes
<1>2. /\ pc' \in [Actors -> Places] /\ \A y \in Actors : pc'[y] \in PlacesOf(y)
      /\ \A y \in Actors : pc'[y] \in Locking => mu' = y
      /\ \A y \in Actors \ {x} : (pc'[y] = "idle" <=> pc[y] = "idle")
                                 /\ (y \in Closers => (pc'[y] \in Draining <=> pc[y] \in Draining))
                                 /\ (pc'[y] = "wait" => pc[y] = "wait")
                                 /\ (pc'[y] = "emit" <=> pc[y] = "emit")
                                 /\ (pc'[y] = "done" => pc[y] = "done")
      /\ pc'[x] = next
  BY MoveTyped DEF Moves
<1>3. TypeOK' /\ recv' <= Len(stream')
  BY <1>1, <1>2, Typed, Lifted
<1>4. Locked'
  <2>1. pc'[Worker] = "emit" <=> chunk # NoChunk
    BY <1>2, Parties DEF Inv, Locked
  <2>2. \A c \in Closers : pc'[c] # "idle" => closed'
    BY <1>2, Parties DEF Inv, Locked
  <2>. QED BY <1>1, <1>2, <2>1, <2>2 DEF Inv, Locked
<1>5. Waits'
  <2>1. pc'[Worker] = "wait" => queue = <<>>
    BY <1>2, Parties DEF Inv, Waits
  <2>2. \A y \in Actors \ {Worker} : pc'[y] = "wait" => Len(queue) = MaxBatches
    BY <1>2 DEF Inv, Waits
  <2>3. discarded => \A y \in Actors : pc'[y] # "wait"
    BY <1>2 DEF Inv, Waits
  <2>. QED BY <1>1, <2>1, <2>2, <2>3 DEF Waits
<1>6. InOrder' /\ Sizes'
  BY <1>1 DEF Inv, InOrder, Sizes, Delivering
<1>7. Drains'
  <2>1. ASSUME closed', ~discarded, taken # recv \/ Waiting' PROVE \E c \in Closers : pc'[c] \in Draining
    <3>1. CASE x \in Closers /\ next \in Draining
      BY <1>2, <3>1
    <3>2. CASE ~(x \in Closers /\ next \in Draining)
      <4>1. closed /\ (x \in Closers /\ pc[x] \in Draining => next \in Draining) /\ next # "wait"
        BY <2>1, <3>2 DEF Draining
      <4>2. Waiting' => Waiting
        BY <1>2, <4>1 DEF Waiting
      <4>3. PICK c \in Closers : pc[c] \in Draining
        BY <2>1, <4>1, <4>2 DEF Inv, Drains
      <4>. QED BY <1>2, <4>1, <4>3, Parties
    <3>. QED BY <3>1, <3>2
  <2>. QED BY <1>1, <2>1 DEF Drains
<1>8. ASSUME AllUtf8 PROVE Bounded' /\ Whole'
  <2>1. Bounded'
    BY <1>1, <1>2, <1>8, BusyStays DEF Inv
  <2>2. \A i : Clean(i) => Clean(i)'
    BY <1>1 DEF Clean, Cut, RuneStart
  <2>3. Whole'
    BY <1>1, <1>8, <2>2 DEF Inv, Whole, Clean, Cut, RuneStart
  <2>. QED BY <2>1, <2>3
<1>9. pc'[Worker] = "done" => pc[Worker] = "done"
  BY <1>2, Parties
<1>. QED BY <1>3, <1>4, <1>5, <1>6, <1>7, <1>8, <1>9 DEF Inv, Kept

-----------------------------------------------------------------------------
(* What takeLocked cuts off.                                               *)

LEMMA TakeSize ==
    ASSUME Inv, NEW final \in BOOLEAN, NEW n \in 0 .. Pending, IsTake(n, final)
    PROVE  n <= MaxFlushBytes /\ (final /\ n = 0 => Pending = 0)
<1>1. Pending \in Nat /\ MaxFlushBytes \in Nat /\ MaxFlushBytes > 0
  BY Typed, SizesAssumption DEF Pending
<1>2. CASE Pending = 0
  BY <1>1, <1>2
<1>3. CASE Pending # 0
  <2>1. PICK p \in 0 .. Pending : IsPrefixLen(p) /\ (IF final THEN n = IF p = 0 THEN Least(MaxFlushBytes, Pending) ELSE p
                                                     ELSE IsWholeLen(n, p))
    BY <1>3 DEF IsTake
  <2>2. p <= MaxFlushBytes
    BY <1>1, <2>1 DEF IsPrefixLen
  <2>3. CASE final
    BY <1>1, <1>3, <2>1, <2>2, <2>3 DEF Least
  <2>4. CASE ~final
    BY <1>1, <2>1, <2>2, <2>4 DEF IsWholeLen
  <2>. QED BY <2>3, <2>4
<1>. QED BY <1>2, <1>3

LEMMA RuneLens == \A c : RuneLen(c) \in 1 .. 4
BY DEF RuneLen

(* Where pending begins at a rune, each continuation byte in it is part of *)
(* a rune that begins in it.                                               *)
LEMMA RuneBegins ==
    ASSUME Inv, AllUtf8, Pending > 0, NEW m \in taken + 1 .. Len(stream), ~RuneStart(m)
    PROVE  \E i \in taken + 1 .. m - 1 : RuneStart(i) /\ m < i + RuneLen(stream[i])
<1>1. /\ taken \in Nat /\ recv \in Nat /\ Len(stream) \in Nat /\ taken < recv /\ recv <= Len(stream)
      /\ Utf8(stream) /\ ~Cut(taken)
  BY Typed DEF AllUtf8, Pending, Inv, Whole, Clean
<1>2. RuneStart(taken + 1)
  BY <1>1 DEF Cut
<1>3. PICK i \in 1 .. m - 1 : m < i + RuneLen(stream[i]) /\ stream[i] # "cont"
  BY <1>1 DEF Utf8, RuneStart
<1>4. i \in taken + 1 .. m - 1
  <2>1. SUFFICES ASSUME i <= taken PROVE FALSE
    BY <1>1, <1>3
  <2>2. RuneLen(stream[i]) \in Nat
    BY DEF RuneLen
  <2>3. taken + 1 < i + RuneLen(stream[i]) /\ taken + 1 \in 1 .. Len(stream) /\ i \in 1 .. Len(stream) /\ i < taken + 1
    BY <1>1, <1>3, <2>1, <2>2
  <2>. QED BY <1>1, <1>2, <2>3 DEF Utf8, RuneStart
<1>. QED BY <1>3, <1>4 DEF RuneStart

(* A prefix that is not all of pending ends where a rune ends, and it is   *)
(* not empty.                                                              *)
LEMMA PrefixWhole ==
    ASSUME Inv, AllUtf8, Pending > 0, NEW p \in 0 .. Pending, IsPrefixLen(p)
    PROVE  p > 0 /\ (p # Pending => ~Cut(taken + p))
<1>1. /\ taken \in Nat /\ recv \in Nat /\ Len(stream) \in Nat /\ taken < recv /\ recv <= Len(stream)
      /\ Utf8(stream) /\ MaxFlushBytes \in Nat /\ MaxFlushBytes > 0 /\ recv = taken + Pending /\ Pending \in Nat
  BY Typed, SizesAssumption DEF AllUtf8, Pending
<1>2. CASE Pending <= MaxFlushBytes
  BY <1>1, <1>2 DEF IsPrefixLen
<1>3. CASE Pending > MaxFlushBytes
  <2>1. /\ p = 0 \/ RuneStart(taken + p + 1)
        /\ \A m \in p + 1 .. MaxFlushBytes : ~RuneStart(taken + m + 1)
    BY <1>1, <1>3 DEF IsPrefixLen
  <2>2. p # 0
    <3>1. SUFFICES ASSUME p = 0 PROVE FALSE
      OBVIOUS
    <3>2. ~RuneStart(taken + MaxFlushBytes + 1) /\ taken + MaxFlushBytes + 1 \in taken + 1 .. Len(stream)
      BY <1>1, <1>3, <2>1, <3>1
    <3>3. PICK i \in taken + 1 .. taken + MaxFlushBytes : RuneStart(i) /\ taken + MaxFlushBytes + 1 < i + RuneLen(stream[i])
      BY <1>1, <3>2, RuneBegins
    <3>4. CASE i = taken + 1
      <4>1. RuneLen(stream[i]) <= MaxFlushBytes /\ RuneLen(stream[i]) \in Nat
        BY <1>1, <1>3, <3>4, RuneLens DEF Utf8
      <4>. QED BY <1>1, <3>3, <3>4, <4>1
    <3>5. CASE i > taken + 1
      <4>1. i - taken - 1 \in 1 .. MaxFlushBytes /\ i = taken + (i - taken - 1) + 1
        BY <1>1, <3>5
      <4>. QED BY <2>1, <3>1, <3>3, <4>1
    <3>. QED BY <1>1, <3>4, <3>5
  <2>. QED BY <1>1, <2>1, <2>2 DEF Cut
<1>. QED BY <1>1, <1>2, <1>3

LEMMA TakeWhole ==
    ASSUME Inv, AllUtf8, Pending > 0, NEW n \in 0 .. Pending, IsTake(n, FALSE)
    PROVE  ~Cut(taken + n) /\ (n = 0 => Pending < MaxFlushBytes)
<1>1. /\ taken \in Nat /\ recv \in Nat /\ Len(stream) \in Nat /\ taken < recv /\ recv <= Len(stream)
      /\ Utf8(stream) /\ MaxFlushBytes \in Nat /\ recv = taken + Pending /\ Pending \in Nat
  BY Typed, SizesAssumption DEF AllUtf8, Pending
<1>2. PICK p \in 0 .. Pending : IsPrefixLen(p) /\ IsWholeLen(n, p)
  BY <1>1 DEF IsTake
<1>3. p > 0 /\ (p # Pending => ~Cut(taken + p))
  BY <1>2, PrefixWhole
<1>4. CASE n = p /\ \A k \in 1 .. p : ~PartialTail(p, k)
  <2>1. CASE Cut(taken + p)
    <3>1. taken + p + 1 \in taken + 1 .. Len(stream) /\ ~RuneStart(taken + p + 1)
      BY <1>1, <2>1 DEF Cut
    <3>2. PICK i \in taken + 1 .. taken + p : RuneStart(i) /\ taken + p + 1 < i + RuneLen(stream[i])
      BY <1>1, <3>1, RuneBegins
    <3>3. PICK k : k = taken + p + 1 - i
      OBVIOUS
    <3>4. k \in 1 .. p /\ taken + p - k + 1 = i /\ RuneLen(stream[i]) \in Nat /\ k < RuneLen(stream[i])
      BY <1>1, <3>2, <3>3, RuneLens
    <3>5. \A j \in i + 1 .. taken + p : ~RuneStart(j)
      <4>1. ASSUME NEW j \in i + 1 .. taken + p PROVE stream[j] = "cont"
        <5>1. i \in 1 .. Len(stream) /\ j \in 1 .. Len(stream) /\ i < j /\ j < i + RuneLen(stream[i])
          BY <1>1, <3>1, <3>2, <3>4
        <5>. QED BY <1>1, <5>1 DEF Utf8
      <4>. QED BY <4>1 DEF RuneStart
    <3>6. PartialTail(p, k)
      BY <3>4, <3>5 DEF PartialTail
    <3>. QED BY <1>4, <3>4, <3>6
  <2>. QED BY <1>3, <1>4, <2>1
<1>5. CASE n \in 0 .. p - 1 /\ PartialTail(p, p - n)
  <2>1. taken + p - (p - n) + 1 = taken + n + 1
    BY <1>1, <1>5
  <2>2. p - n < RuneLen(stream[taken + n + 1]) /\ RuneLen(stream[taken + n + 1]) \in Nat
    BY <1>5, <2>1 DEF PartialTail, RuneLen
  <2>3. RuneStart(taken + n + 1)
    BY <1>1, <1>5, <2>2 DEF RuneStart, RuneLen
  <2>4. ASSUME n = 0 PROVE Pending < MaxFlushBytes
    <3>1. p < RuneLen(stream[taken + 1]) /\ RuneLen(stream[taken + 1]) <= MaxFlushBytes
      BY <1>1, <2>2, <2>4 DEF Utf8
    <3>2. CASE p = Pending
      BY <1>1, <2>2, <2>4, <3>1, <3>2
    <3>3. CASE p # Pending
      <4>1. RuneStart(taken + p + 1)
        BY <1>1, <1>3, <3>3 DEF Cut
      <4>2. taken + p + 1 \in 1 .. Len(stream) /\ taken + 1 \in 1 .. Len(stream) /\ taken + 1 < taken + p + 1
            /\ taken + p + 1 < taken + 1 + RuneLen(stream[taken + 1])
        BY <1>1, <1>3, <2>2, <2>4, <3>1, <3>3
      <4>. QED BY <1>1, <4>1, <4>2 DEF Utf8, RuneStart
    <3>. QED BY <3>2, <3>3
  <2>. QED BY <2>3, <2>4 DEF Cut
<1>. QED BY <1>2, <1>4, <1>5 DEF IsWholeLen

LEMMA FinalWhole ==
    ASSUME Inv, AllUtf8, NEW n \in 0 .. Pending, n > 0, IsTake(n, TRUE)
    PROVE  taken + n = recv \/ ~Cut(taken + n)
<1>1. taken \in Nat /\ recv \in Nat /\ recv = taken + Pending /\ Pending \in Nat /\ Pending > 0
  BY Typed DEF Pending
<1>2. PICK p \in 0 .. Pending : IsPrefixLen(p) /\ n = IF p = 0 THEN Least(MaxFlushBytes, Pending) ELSE p
  BY <1>1 DEF IsTake
<1>3. p > 0 /\ (p # Pending => ~Cut(taken + p))
  BY <1>1, <1>2, PrefixWhole
<1>. QED BY <1>1, <1>2, <1>3

LEMMA Threshold ==
    ASSUME NEW q \in Nat
    PROVE  FlushThreshold(q) \in Int /\ FlushThreshold(q) <= MaxFlushBytes
<1>1. PICK span : span = IF MaxBatches - AdaptiveHigh < 1 THEN 1 ELSE MaxBatches - AdaptiveHigh
  OBVIOUS
<1>2. span \in Nat \ {0}
  BY <1>1, SizesAssumption
<1>3. PICK extra : extra = FlushBytes * (q - AdaptiveHigh + 1)
  OBVIOUS
<1>4. extra \in Int /\ extra \div span \in Int
  BY <1>2, <1>3, SizesAssumption
<1>5. FlushThreshold(q) = IF q < AdaptiveHigh THEN FlushBytes ELSE Least(MaxFlushBytes, FlushBytes + extra \div span)
  BY <1>1, <1>3 DEF FlushThreshold
<1>. QED BY <1>4, <1>5, SizesAssumption DEF Least

-----------------------------------------------------------------------------
(* Whoever leaves a call, and whoever cuts a batch.                        *)

LEMMA Capacity ==
    ASSUME Inv, NEW x \in Actors, AtCapacity(x)
    PROVE  mu \in {x, Free} /\ pc[x] \in {"cap", "woken"} /\ (x \in Closers => closed)
BY DEF AtCapacity, Holds, Inv, Locked

LEMMA LeaveKeeps ==
    ASSUME Inv, NEW x \in Pumps \cup Timers, LeaveArming(x), mu \in {x, Free}, pc[x] # "idle",
           x \in Pumps /\ ~closed /\ AllUtf8 => Pending < MaxFlushBytes
    PROVE  Kept
<1>1. /\ Moves(x, Rest(x)) \/ (x \in Timers /\ Moves(x, "armed"))
      /\ mu' = Free /\ timerSet' \in BOOLEAN /\ timer' \in Timers \cup {NoTimer}
      /\ UNCHANGED <<bytes, taken, queue, chunk, closed, discarded>>
  BY Leaving
<1>2. /\ x \in Actors /\ x \notin Closers /\ x # Worker
      /\ Rest(x) \in PlacesOf(x) /\ Rest(x) \in {"idle", "off"} /\ (x \in Pumps => Rest(x) = "idle")
      /\ (x \in Timers => "armed" \in PlacesOf(x) /\ x \notin Pumps)
  BY Parties DEF Rest, PlacesOf, PumpPC, TimerPC
<1>3. PICK next \in PlacesOf(x) : /\ Moves(x, next) /\ next \in {"idle", "off", "armed"}
                                  /\ (x \in Pumps => next = "idle")
  BY <1>1, <1>2
<1>4. next \notin Locking /\ next # "wait" /\ next # "emit" /\ closed' \in BOOLEAN /\ closed' = closed
  BY <1>1, <1>3, Typed DEF Locking
<1>. QED BY <1>1, <1>2, <1>3, <1>4, QuietKeeps, Typed

LEMMA Queued ==
    ASSUME Inv, NEW x \in Actors \ {Worker}, AtCapacity(x), HasRoom(x), ~Aborted(x),
           NEW next \in PlacesOf(x), next \notin {"wait", "idle", "emit", "done"}, x \in Closers => next \in Draining,
           NEW n \in 1 .. Pending, n <= MaxFlushBytes, Enqueue(x, n, next), UNCHANGED <<bytes, chunk, flags>>,
           AllUtf8 => ~Cut(taken + n) \/ (closed /\ taken + n = recv)
    PROVE  Kept
<1>. DEFINE b == [from |-> taken, to |-> taken + n]
<1>1. /\ UNCHANGED <<stream, recv, sunk, chunk, timerSet, timer, closed, discarded>>
      /\ taken' = taken + n /\ queue' = Append(queue, b) /\ mu' = x
      /\ SignalWakes([pc EXCEPT ![x] = next], pc')
  BY DEF Enqueue, bytes, flags
<1>2. /\ recv \in Nat /\ taken \in Nat /\ sunk \in Nat /\ Pending = recv - taken /\ n \in Nat /\ n > 0 /\ taken + n <= recv
      /\ queue \in Seq(Chunk) /\ Len(queue) \in Nat /\ b \in Chunk /\ b.from = taken /\ b.to = taken + n
      /\ ~discarded /\ (closed => x \in Closers) /\ Len(queue) < MaxBatches /\ MaxFlushBytes \in Nat /\ MaxBatches \in Nat
  BY Typed, SizesAssumption DEF Pending, Chunk, Aborted, MayUseClosed, HasRoom
<1>3. /\ queue' \in Seq(Chunk) /\ Len(queue') = Len(queue) + 1 /\ queue'[Len(queue) + 1] = b
      /\ \A i \in 1 .. Len(queue) : queue'[i] = queue[i]
  <2>. HIDE DEF b
  <2>. QED BY <1>1, <1>2, AppendProperties
<1>. HIDE DEF b
<1>4. Moves(x, next) /\ ~Waiting' /\ mu \in {x, Free}
  BY <1>1, Waking, Signalled, Capacity DEF HasRoom
<1>5. /\ pc' \in [Actors -> Places] /\ \A y \in Actors : pc'[y] \in PlacesOf(y)
      /\ \A y \in Actors : pc'[y] \in Locking => mu' = y
      /\ \A y \in Actors \ {x} : (pc'[y] = "idle" <=> pc[y] = "idle")
                                 /\ (pc'[y] = "emit" <=> pc[y] = "emit")
                                 /\ (pc'[y] = "done" => pc[y] = "done")
      /\ pc'[x] = next /\ pc[x] # "idle"
  BY <1>1, <1>4, MoveTyped, Capacity DEF Moves
<1>6. TypeOK' /\ recv' <= Len(stream')
  <2>1. taken' \in Nat
    BY <1>1, <1>2
  <2>. QED BY <1>1, <1>3, <1>5, <2>1, Typed, Lifted
<1>7. Locked'
  <2>1. pc'[Worker] = "emit" <=> chunk # NoChunk
    BY <1>5, Parties DEF Inv, Locked
  <2>2. \A c \in Closers : pc'[c] # "idle" => closed
    BY <1>5, Parties, Capacity DEF Inv, Locked
  <2>. QED BY <1>1, <1>5, <2>1, <2>2 DEF Inv, Locked
<1>8. Waits'
  BY <1>1, <1>4, Parties DEF Waits, Waiting
<1>9. InOrder'
  <2>1. /\ queue' # <<>> /\ sunk' <= taken' /\ taken' <= recv' /\ (chunk' # NoChunk => chunk'.from = sunk')
        /\ queue'[Len(queue')].to = taken' /\ Delivering' = Delivering
    BY <1>1, <1>2, <1>3, Typed DEF Inv, InOrder, Delivering
  <2>2. ASSUME NEW i \in 1 .. Len(queue') - 1 PROVE queue'[i].to = queue'[i + 1].from
    <3>1. CASE i = Len(queue)
      <4>1. queue # <<>> /\ queue'[i] = queue[i] /\ queue'[i + 1] = b
        BY <1>2, <1>3, <3>1
      <4>. QED BY <1>2, <3>1, <4>1 DEF Inv, InOrder
    <3>2. CASE i # Len(queue)
      <4>1. i \in 1 .. Len(queue) - 1 /\ queue'[i] = queue[i] /\ queue'[i + 1] = queue[i + 1]
        BY <1>2, <1>3, <3>2
      <4>. QED BY <4>1 DEF Inv, InOrder
    <3>. QED BY <3>1, <3>2
  <2>3. queue'[1].from = Delivering
    <3>1. CASE queue = <<>>
      BY <1>2, <1>3, <3>1 DEF Inv, InOrder
    <3>2. CASE queue # <<>>
      <4>1. queue'[1] = queue[1]
        BY <1>2, <1>3, <3>2
      <4>. QED BY <3>2, <4>1 DEF Inv, InOrder
    <3>. QED BY <3>1, <3>2
  <2>. QED BY <2>1, <2>2, <2>3 DEF InOrder
<1>10. Sizes'
  <2>1. /\ Len(queue') <= MaxBatches
        /\ chunk' # NoChunk => chunk'.to - chunk'.from \in 1 .. MaxFlushBytes /\ chunk'.to <= taken'
    <3>1. chunk # NoChunk => /\ chunk.to - chunk.from \in 1 .. MaxFlushBytes /\ chunk.to <= taken
                             /\ chunk.to \in Nat
      BY Typed DEF Inv, Sizes, Chunk
    <3>2. chunk' = chunk /\ taken <= taken' /\ taken' \in Nat
      BY <1>1, <1>2
    <3>3. chunk # NoChunk => chunk.to <= taken'
      BY <1>2, <3>1, <3>2
    <3>. QED BY <1>1, <1>2, <1>3, <3>1, <3>2, <3>3
  <2>2. ASSUME NEW i \in 1 .. Len(queue')
        PROVE  queue'[i].to - queue'[i].from \in 1 .. MaxFlushBytes /\ queue'[i].to <= taken'
    <3>1. CASE i = Len(queue) + 1
      <4>1. queue'[i] = b
        BY <1>3, <3>1
      <4>2. b.to - b.from = n /\ b.to <= taken'
        BY <1>1, <1>2
      <4>. QED BY <1>2, <4>1, <4>2
    <3>2. CASE i # Len(queue) + 1
      <4>1. i \in 1 .. Len(queue) /\ queue'[i] = queue[i]
        BY <1>2, <1>3, <3>2
      <4>2. queue[i].to - queue[i].from \in 1 .. MaxFlushBytes /\ queue[i].to <= taken /\ queue[i].to \in Nat
        <5>1. queue[i] \in Chunk
          BY <1>2, <4>1, ElementOfSeq
        <5>. QED BY <4>1, <5>1 DEF Inv, Sizes, Chunk
      <4>3. queue[i].to <= taken'
        BY <1>1, <1>2, <4>2
      <4>. QED BY <4>1, <4>2, <4>3
    <3>. QED BY <3>1, <3>2
  <2>. QED BY <2>1, <2>2 DEF Sizes
<1>11. Drains'
  <2>1. closed /\ ~discarded => pc'[x] \in Draining /\ x \in Closers
    BY <1>2, <1>5
  <2>. QED BY <1>1, <2>1 DEF Drains
<1>12. ASSUME AllUtf8 PROVE Bounded' /\ Whole'
  <2>1. Bounded'
    <3>1. Busy' = Busy
      BY <1>5, Parties DEF Busy
    <3>2. Cardinality(Busy) \in Nat
      <4>1. IsFiniteSet(Busy)
        BY ActorsAssumption, FS_Subset DEF Busy
      <4>. QED BY <4>1, FS_CardinalityType
    <3>3. PICK k : k = MaxRead * Cardinality(Busy)
      OBVIOUS
    <3>4. k \in Nat /\ Pending' = Pending - n /\ Pending \in Nat
      BY <1>1, <1>2, <3>2, <3>3, SizesAssumption DEF Pending
    <3>5. ~closed => Pending < MaxFlushBytes + k
      BY <1>12, <3>3 DEF Inv, Bounded
    <3>6. ~closed => Pending - n < MaxFlushBytes + k
      BY <1>2, <3>4, <3>5
    <3>. QED BY <1>1, <3>1, <3>3, <3>4, <3>6 DEF Bounded
  <2>2. \A i : (Clean(i) => Clean(i)') /\ (Cut(i)' <=> Cut(i))
    BY <1>1 DEF Clean, Cut, RuneStart
  <2>3. Clean(sunk)' /\ Clean(taken)' /\ (chunk # NoChunk => Clean(chunk.to))'
    <3>1. ~Cut(taken + n) \/ (closed /\ taken + n = recv)
      BY <1>12
    <3>2. Clean(taken + n)
      BY <3>1 DEF Clean
    <3>. QED BY <1>1, <1>12, <3>2 DEF Inv, Whole, Clean, Cut, RuneStart
  <2>4. ASSUME NEW k \in 1 .. Len(queue') PROVE (\A i : i = queue[k].to => Clean(i))'
    <3>1. CASE k = Len(queue) + 1
      <4>1. queue'[k].to = taken'
        BY <1>1, <1>2, <1>3, <3>1
      <4>. QED BY <2>3, <4>1 DEF Clean, Cut
    <3>2. CASE k # Len(queue) + 1
      <4>1. k \in 1 .. Len(queue) /\ queue'[k] = queue[k]
        BY <1>2, <1>3, <3>2
      <4>2. Clean(queue[k].to)
        BY <1>12, <4>1 DEF Inv, Whole
      <4>. QED BY <1>1, <4>1, <4>2 DEF Clean, Cut, RuneStart
    <3>. QED BY <3>1, <3>2
  <2>5. (\A k \in 1 .. Len(queue) : Clean(queue[k].to))'
    BY <2>4 DEF Clean, Cut
  <2>. QED BY <2>1, <2>3, <2>5 DEF Whole
<1>13. pc'[Worker] = "done" => pc[Worker] = "done"
  BY <1>5, Parties
<1>. QED BY <1>6, <1>7, <1>8, <1>9, <1>10, <1>11, <1>12, <1>13 DEF Inv, Kept

-----------------------------------------------------------------------------
(* One lemma per action.                                                   *)

LEMMA Stays ==
    ASSUME Inv
    PROVE  /\ closed' = closed => closed' \in BOOLEAN /\ (closed => closed')
           /\ timerSet' = timerSet => timerSet' \in BOOLEAN
           /\ timer' = timer => timer' \in Timers \cup {NoTimer}
           /\ mu' = mu => mu' \in Actors \cup {Free}
BY Typed

LEMMA AddKeeps ==
    ASSUME Inv, NEW p \in Pumps, NEW n \in 1 .. MaxRead, Add(p, n)
    PROVE  Kept
<1>1. /\ pc[p] = "idle" /\ mu = Free /\ ~closed /\ ~discarded /\ recv + n <= Len(stream)
      /\ recv' = recv + n /\ mu' = p /\ pc' = [pc EXCEPT ![p] = "flush"]
      /\ UNCHANGED <<stream, sunk, taken, queue, chunk, timerSet, timer, closed, discarded>>
  BY DEF Add, flags
<1>2. "flush" \in PlacesOf(p) /\ p \in Actors /\ p \notin Closers /\ p # Worker
  BY Parties DEF PlacesOf, PumpPC
<1>3. Moves(p, "flush")
  BY <1>1, <1>2, Stepping
<1>4. /\ pc' \in [Actors -> Places] /\ \A y \in Actors : pc'[y] \in PlacesOf(y)
      /\ \A y \in Actors : pc'[y] \in Locking => mu' = y
      /\ \A y \in Actors \ {p} : pc'[y] = pc[y]
      /\ pc'[p] = "flush"
  <2>1. "flush" \in PlacesOf(p)
    BY <1>2
  <2>. QED BY <1>1, <1>2, <1>3, <2>1, MoveTyped, Typed DEF Moves
<1>5. TypeOK' /\ recv' <= Len(stream')
  <2>1. recv' \in Nat
    BY <1>1, Typed
  <2>. QED BY <1>1, <1>2, <1>4, <2>1, Typed, Lifted
<1>6. Locked' /\ Waits' /\ Drains'
  BY <1>1, <1>2, <1>4 DEF Inv, Locked, Waits, Drains
<1>7. InOrder' /\ Sizes'
  <2>1. recv <= recv' /\ taken <= recv'
    BY <1>1, Typed
  <2>. QED BY <1>1, <2>1 DEF Inv, InOrder, Sizes, Delivering
<1>8. ASSUME AllUtf8 PROVE Bounded' /\ Whole'
  <2>1. Busy' = Busy \cup {p} /\ p \notin Busy /\ IsFiniteSet(Busy)
    BY <1>1, <1>2, <1>4, Parties, ActorsAssumption, FS_Subset DEF Busy
  <2>2. PICK c \in Nat : c = Cardinality(Busy) /\ Cardinality(Busy') = c + 1
    BY <2>1, FS_AddElement, FS_CardinalityType
  <2>3. MaxRead \in Nat /\ Pending \in Int /\ MaxFlushBytes \in Nat /\ Pending' = Pending + n
    BY <1>1, Typed, SizesAssumption DEF Pending
  <2>4. MaxRead * (c + 1) = MaxRead * c + MaxRead /\ MaxRead * c \in Nat
    BY <2>3
  <2>5. Pending < MaxFlushBytes + MaxRead * c
    BY <1>1, <1>8, <2>2 DEF Inv, Bounded
  <2>6. Pending + n < MaxFlushBytes + MaxRead * (c + 1)
    BY <2>3, <2>4, <2>5
  <2>7. Bounded'
    BY <2>2, <2>3, <2>6 DEF Bounded
  <2>8. Whole'
    BY <1>1, <1>8 DEF Inv, Whole, Clean, Cut, RuneStart
  <2>. QED BY <2>7, <2>8
<1>9. pc'[Worker] = "done" => pc[Worker] = "done"
  BY <1>2, <1>4, Parties
<1>. QED BY <1>5, <1>6, <1>7, <1>8, <1>9 DEF Inv, Kept

LEMMA ParkKeeps ==
    ASSUME Inv, NEW x \in Pumps \cup Timers \cup Closers, Park(x)
    PROVE  Kept
<1>1. /\ AtCapacity(x) /\ Len(queue) >= MaxBatches /\ ~discarded /\ (closed => x \in Closers)
      /\ pc' = [pc EXCEPT ![x] = "wait"] /\ mu' = Free
      /\ UNCHANGED <<bytes, taken, queue, chunk, timerSet, timer, closed, discarded>>
  BY DEF Park, Aborted, MayUseClosed, flags
<1>2. x \in Actors /\ x # Worker /\ "wait" \in PlacesOf(x)
  BY Parties DEF PlacesOf, PumpPC, TimerPC, CloserPC
<1>3. Moves(x, "wait") /\ mu \in {x, Free} /\ pc[x] # "idle" /\ Len(queue) = MaxBatches /\ (x \in Closers => closed)
  <2>1. Len(queue) = MaxBatches
    BY <1>1, Typed, SizesAssumption DEF Inv, Sizes
  <2>. QED BY <1>1, <1>2, <2>1, Stepping, Capacity
<1>4. "wait" \notin Locking /\ "wait" \in Draining
  BY DEF Locking, Draining
<1>. QED BY <1>1, <1>2, <1>3, <1>4, Stays, QuietKeeps

LEMMA GiveUpKeeps ==
    ASSUME Inv, NEW x \in Pumps \cup Timers, GiveUp(x)
    PROVE  Kept
<1>1. AtCapacity(x) /\ (discarded \/ closed) /\ LeaveArming(x) /\ x \in Actors
  BY Parties DEF GiveUp, Aborted
<1>2. closed /\ mu \in {x, Free} /\ pc[x] # "idle"
  BY <1>1, Capacity DEF Inv, Locked
<1>. QED BY <1>1, <1>2, LeaveKeeps

LEMMA FlushReadyKeeps ==
    ASSUME Inv, NEW p \in Pumps, FlushReady(p)
    PROVE  Kept
<1>1. pc[p] = "flush" /\ mu = p /\ p \in Actors /\ p \notin Closers /\ p # Worker /\ "cap" \in PlacesOf(p)
  BY Parties DEF FlushReady, Holds, PlacesOf, PumpPC
<1>2. CASE Pending >= FlushThreshold(Len(queue))
  <2>1. pc' = [pc EXCEPT ![p] = "cap"] /\ UNCHANGED <<bytes, taken, queue, chunk, mu, timerSet, timer, closed, discarded>>
    BY <1>2 DEF FlushReady, flags
  <2>2. Moves(p, "cap") /\ (closed /\ ~discarded /\ (taken # recv \/ Waiting') => closed)
    BY <1>1, <2>1, Stepping
  <2>. QED BY <1>1, <2>1, <2>2, Stays, QuietKeeps
<1>3. CASE ~(Pending >= FlushThreshold(Len(queue)))
  <2>1. LeaveArming(p)
    BY <1>3 DEF FlushReady
  <2>2. Pending < MaxFlushBytes
    BY <1>3, Typed, Threshold, SizesAssumption DEF Pending
  <2>. QED BY <1>1, <2>1, <2>2, LeaveKeeps
<1>. QED BY <1>2, <1>3

(* A round of flushing by a pump or by a callback.                         *)
LEMMA TakeKeeps ==
    ASSUME Inv, NEW x \in Pumps \cup Timers, AtCapacity(x), HasRoom(x), ~Aborted(x),
           NEW n \in 0 .. Pending, IsTake(n, FALSE),
           \/ n = 0 /\ LeaveArming(x)
           \/ /\ n # 0
              /\ \E next \in PlacesOf(x) \cap {"flush", "leave", "cap"} : Enqueue(x, n, next)
              /\ UNCHANGED <<bytes, chunk, flags>>
    PROVE  Kept
<1>1. x \in Actors /\ x # Worker /\ x \notin Closers /\ mu \in {x, Free} /\ pc[x] # "idle"
  <2>1. x \in Actors /\ x # Worker /\ x \notin Closers
    BY Parties
  <2>. QED BY <2>1, Capacity
<1>2. CASE n = 0 /\ LeaveArming(x)
  <2>1. AllUtf8 => Pending < MaxFlushBytes
    <3>1. Pending \in Nat /\ MaxFlushBytes \in Nat /\ MaxFlushBytes > 0
      BY Typed, SizesAssumption DEF Pending
    <3>2. ASSUME AllUtf8, Pending > 0 PROVE Pending < MaxFlushBytes
      BY <1>2, <3>2, TakeWhole
    <3>. QED BY <3>1, <3>2
  <2>. QED BY <1>1, <1>2, <2>1, LeaveKeeps
<1>3. CASE /\ n # 0
           /\ \E next \in PlacesOf(x) \cap {"flush", "leave", "cap"} : Enqueue(x, n, next)
           /\ UNCHANGED <<bytes, chunk, flags>>
  <2>1. PICK next \in PlacesOf(x) \cap {"flush", "leave", "cap"} : Enqueue(x, n, next)
    BY <1>3
  <2>2. n \in 1 .. Pending /\ n <= MaxFlushBytes /\ Pending > 0
    <3>1. n <= MaxFlushBytes
      BY TakeSize
    <3>2. Pending \in Nat
      BY Typed DEF Pending
    <3>. QED BY <1>3, <3>1, <3>2
  <2>3. AllUtf8 => ~Cut(taken + n)
    BY <2>2, TakeWhole
  <2>. QED BY <1>1, <1>3, <2>1, <2>2, <2>3, Queued
<1>. QED BY <1>2, <1>3

LEMMA FlushTakeKeeps ==
    ASSUME Inv, NEW p \in Pumps, FlushTake(p)
    PROVE  Kept
<1>1. AtCapacity(p) /\ HasRoom(p) /\ ~Aborted(p) /\ "flush" \in PlacesOf(p)
  BY DEF FlushTake, PlacesOf, PumpPC
<1>2. PICK n \in 0 .. Pending : /\ IsTake(n, FALSE)
                                /\ IF n = 0 THEN LeaveArming(p)
                                   ELSE Enqueue(p, n, "flush") /\ UNCHANGED <<bytes, chunk, flags>>
  BY DEF FlushTake
<1>. QED BY <1>1, <1>2, TakeKeeps

LEMMA OnTimerTakeKeeps ==
    ASSUME Inv, NEW t \in Timers, OnTimerTake(t)
    PROVE  Kept
<1>1. AtCapacity(t) /\ HasRoom(t) /\ ~Aborted(t) /\ {"leave", "cap"} \subseteq PlacesOf(t)
  BY Parties DEF OnTimerTake, PlacesOf, TimerPC
<1>2. PICK n \in 0 .. Pending : /\ IsTake(n, FALSE)
                                /\ IF n = 0 THEN LeaveArming(t)
                                   ELSE /\ Enqueue(t, n, "leave") \/ Enqueue(t, n, "cap")
                                        /\ UNCHANGED <<bytes, chunk, flags>>
  BY DEF OnTimerTake
<1>. QED BY <1>1, <1>2, TakeKeeps

LEMMA TimerFiresKeeps ==
    ASSUME Inv, NEW t \in Timers, TimerFires(t)
    PROVE  Kept
<1>1. /\ pc[t] = "armed" /\ pc' = [pc EXCEPT ![t] = "fired"]
      /\ UNCHANGED <<bytes, taken, queue, chunk, mu, timerSet, timer, closed, discarded>>
  BY DEF TimerFires, flags
<1>2. "fired" \in PlacesOf(t) /\ t \in Actors /\ t \notin Closers /\ t \notin Pumps /\ t # Worker /\ "fired" \notin Locking
  BY Parties DEF PlacesOf, TimerPC, Locking
<1>3. Moves(t, "fired") /\ (closed /\ ~discarded /\ (taken # recv \/ Waiting') => closed)
  BY <1>1, <1>2, Stepping
<1>. QED BY <1>1, <1>2, <1>3, Stays, QuietKeeps

LEMMA OnTimerKeeps ==
    ASSUME Inv, NEW t \in Timers, OnTimer(t)
    PROVE  Kept
<1>1. /\ pc[t] = "fired" /\ mu = Free /\ timerSet' = FALSE
      /\ UNCHANGED <<bytes, taken, queue, chunk, timer, closed, discarded>>
  BY DEF OnTimer
<1>2. /\ "off" \in PlacesOf(t) /\ "cap" \in PlacesOf(t) /\ "off" \notin Locking
      /\ t \in Actors /\ t \notin Closers /\ t \notin Pumps /\ t # Worker
  BY Parties DEF PlacesOf, TimerPC, Locking
<1>3. CASE closed \/ discarded
  <2>1. pc' = [pc EXCEPT ![t] = "off"] /\ mu' = Free
    BY <1>3 DEF OnTimer
  <2>2. Moves(t, "off") /\ (closed /\ ~discarded /\ (taken # recv \/ Waiting') => closed)
    BY <1>2, <2>1, Stepping
  <2>. QED BY <1>1, <1>2, <2>1, <2>2, Stays, QuietKeeps
<1>4. CASE ~(closed \/ discarded)
  <2>1. pc' = [pc EXCEPT ![t] = "cap"] /\ mu' = t
    BY <1>4 DEF OnTimer
  <2>2. Moves(t, "cap")
    BY <1>2, <2>1, Stepping
  <2>. QED BY <1>1, <1>2, <1>4, <2>1, <2>2, Stays, QuietKeeps
<1>. QED BY <1>3, <1>4

LEMMA OnTimerLeavesKeeps ==
    ASSUME Inv, NEW t \in Timers, OnTimerLeaves(t)
    PROVE  Kept
<1>1. pc[t] = "leave" /\ mu = t /\ LeaveArming(t) /\ t \notin Pumps
  BY Parties DEF OnTimerLeaves, Holds
<1>. QED BY <1>1, LeaveKeeps

LEMMA CloserPlaces ==
    ASSUME Inv, NEW c \in Closers
    PROVE  /\ c \in Actors /\ c # Worker /\ c \notin Pumps /\ c \notin Timers /\ PlacesOf(c) = CloserPC
           /\ \A next \in CloserPC : next # "emit" /\ next # "done"
           /\ (pc[c] # "idle" => closed)
           /\ {"idle", "join", "returned"} \cap Draining = {} /\ {"join", "returned"} \cap Locking = {}
BY Parties DEF PlacesOf, CloserPC, Draining, Locking, Inv, Locked

LEMMA CloseKeeps ==
    ASSUME Inv, NEW c \in Closers, Close(c)
    PROVE  Kept
<1>1. /\ pc[c] = "idle" /\ mu = Free /\ closed' = TRUE /\ mu' = c
      /\ pc' = [StopTimer(pc) EXCEPT ![c] = "drain"]
      /\ UNCHANGED <<bytes, taken, queue, chunk, timer, discarded>>
      /\ timerSet' \in BOOLEAN
  BY Typed DEF Close
<1>2. "drain" \in CloserPC \ {"wait"} /\ "drain" \in Draining
  BY DEF CloserPC, Draining
<1>3. Moves(c, "drain") /\ c \in Actors /\ "drain" \in PlacesOf(c)
  BY <1>1, <1>2, Stopping, CloserPlaces
<1>4. c # Worker /\ c \notin Pumps
  BY CloserPlaces
<1>. QED BY <1>1, <1>2, <1>3, <1>4, Stays, QuietKeeps

LEMMA CloseAgainKeeps ==
    ASSUME Inv, NEW c \in Closers, CloseAgain(c)
    PROVE  Kept
<1>1. /\ pc[c] = "idle" /\ closed /\ pc' = [pc EXCEPT ![c] = "join"]
      /\ UNCHANGED <<bytes, taken, queue, chunk, mu, timerSet, timer, closed, discarded>>
  BY DEF CloseAgain, flags
<1>2. /\ c \in Actors /\ c # Worker /\ c \notin Pumps /\ "join" \in PlacesOf(c) /\ "join" \notin Locking
      /\ pc[c] \notin Draining
  BY <1>1, CloserPlaces DEF CloserPC
<1>3. Moves(c, "join")
  BY <1>1, <1>2, Stepping
<1>. QED BY <1>1, <1>2, <1>3, Stays, QuietKeeps

(* A Close that is done draining: nobody sleeps on.                        *)
LEMMA CloserEnds ==
    ASSUME Inv, NEW c \in Closers, pc[c] # "idle", mu \in {c, Free}, discarded \/ taken = recv,
           pc' = Broadcast([pc EXCEPT ![c] = "join"]), mu' = Free,
           UNCHANGED <<bytes, taken, queue, chunk, flags>>
    PROVE  Kept
<1>1. /\ c \in Actors /\ c # Worker /\ c \notin Pumps /\ "join" \in PlacesOf(c) \ {"wait"} /\ "join" \notin Locking
      /\ closed /\ UNCHANGED <<timerSet, timer, closed, discarded>>
  BY CloserPlaces DEF CloserPC, flags
<1>2. Moves(c, "join") /\ ~Waiting'
  BY <1>1, Waking, Woken
<1>. QED BY <1>1, <1>2, Stays, QuietKeeps

LEMMA CloseLoopKeeps ==
    ASSUME Inv, NEW c \in Closers, CloseLoop(c)
    PROVE  Kept
<1>1. /\ pc[c] = "drain" /\ mu = c
      /\ UNCHANGED <<bytes, taken, queue, chunk, timerSet, timer, closed, discarded>>
  BY DEF CloseLoop, Holds, flags
<1>2. CASE Pending > 0 /\ ~discarded
  <2>1. pc' = [pc EXCEPT ![c] = "cap"] /\ mu' = c
    BY <1>2 DEF CloseLoop
  <2>2. c \in Actors /\ c # Worker /\ c \notin Pumps /\ "cap" \in PlacesOf(c) /\ closed /\ "cap" \in Draining
    BY <1>1, CloserPlaces DEF CloserPC, Draining
  <2>3. Moves(c, "cap")
    BY <2>1, <2>2, Stepping
  <2>. QED BY <1>1, <2>1, <2>2, <2>3, Stays, QuietKeeps
<1>3. CASE ~(Pending > 0 /\ ~discarded)
  <2>1. pc' = Broadcast([pc EXCEPT ![c] = "join"]) /\ mu' = Free
    BY <1>3 DEF CloseLoop
  <2>2. discarded \/ taken = recv
    BY <1>3, Typed DEF Pending
  <2>3. UNCHANGED <<bytes, taken, queue, chunk, flags>>
    BY DEF CloseLoop
  <2>. QED BY <1>1, <2>1, <2>2, <2>3, CloserEnds
<1>. QED BY <1>2, <1>3

LEMMA CloseAbortedKeeps ==
    ASSUME Inv, NEW c \in Closers, CloseAborted(c)
    PROVE  Kept
<1>1. /\ AtCapacity(c) /\ discarded
      /\ pc' = Broadcast([pc EXCEPT ![c] = "join"]) /\ mu' = Free
      /\ UNCHANGED <<bytes, taken, queue, chunk, flags>>
  BY DEF CloseAborted, Aborted, MayUseClosed
<1>2. pc[c] # "idle" /\ mu \in {c, Free}
  BY <1>1, Capacity, CloserPlaces
<1>. QED BY <1>1, <1>2, CloserEnds

LEMMA CloseTakeKeeps ==
    ASSUME Inv, NEW c \in Closers, CloseTake(c)
    PROVE  Kept
<1>1. /\ AtCapacity(c) /\ HasRoom(c) /\ ~Aborted(c) /\ ~discarded
      /\ UNCHANGED <<bytes, chunk, flags>> /\ UNCHANGED <<timerSet, timer, closed, discarded>>
  BY DEF CloseTake, Aborted, flags
<1>2. /\ c \in Actors \ {Worker} /\ c \notin Pumps /\ "drain" \in PlacesOf(c) /\ "drain" \in Draining
      /\ closed /\ mu \in {c, Free}
  BY <1>1, CloserPlaces, Capacity DEF CloserPC, Draining
<1>3. PICK n \in 0 .. Pending : /\ IsTake(n, TRUE)
                                /\ IF n = 0
                                     THEN pc' = [pc EXCEPT ![c] = "drain"] /\ mu' = c /\ UNCHANGED <<taken, queue>>
                                     ELSE Enqueue(c, n, "drain")
  BY DEF CloseTake
<1>4. CASE n = 0
  <2>1. Moves(c, "drain")
    BY <1>2, <1>3, <1>4, Stepping
  <2>. QED BY <1>1, <1>2, <1>3, <1>4, <2>1, Stays, QuietKeeps
<1>5. CASE n # 0
  <2>1. n \in 1 .. Pending /\ n > 0 /\ n <= MaxFlushBytes
    <3>1. n <= MaxFlushBytes
      BY <1>3, TakeSize
    <3>2. Pending \in Nat
      BY Typed DEF Pending
    <3>. QED BY <1>3, <1>5, <3>1, <3>2
  <2>2. AllUtf8 => taken + n = recv \/ ~Cut(taken + n)
    BY <1>3, <2>1, FinalWhole
  <2>. QED BY <1>1, <1>2, <1>3, <1>5, <2>1, <2>2, Queued
<1>. QED BY <1>4, <1>5

LEMMA JoinKeeps ==
    ASSUME Inv, NEW c \in Closers, Join(c)
    PROVE  Kept
<1>1. /\ pc[c] = "join" /\ pc' = [pc EXCEPT ![c] = "returned"]
      /\ UNCHANGED <<bytes, taken, queue, chunk, mu, timerSet, timer, closed, discarded>>
  BY DEF Join, flags
<1>2. /\ c \in Actors /\ c # Worker /\ c \notin Pumps /\ "returned" \in PlacesOf(c) /\ "returned" \notin Locking
      /\ closed /\ pc[c] \notin Draining
  BY <1>1, CloserPlaces DEF CloserPC
<1>3. Moves(c, "returned")
  BY <1>1, <1>2, Stepping
<1>. QED BY <1>1, <1>2, <1>3, Stays, QuietKeeps

LEMMA DiscardKeeps ==
    ASSUME Inv, NEW c \in Closers, Discard(c)
    PROVE  Kept
<1>1. /\ pc[c] = "idle" /\ mu = Free /\ discarded' = TRUE /\ closed' = TRUE /\ timerSet' \in BOOLEAN
      /\ taken' = recv /\ queue' = <<>>
      /\ pc' = Broadcast([StopTimer(pc) EXCEPT ![c] = "join"])
      /\ UNCHANGED <<stream, recv, sunk, chunk, mu, timer>>
  BY Typed DEF Discard, bytes
<1>2. /\ c \in Actors /\ c # Worker /\ c \notin Pumps /\ "join" \in PlacesOf(c) /\ "join" \in CloserPC \ {"wait"}
      /\ "join" \notin Locking /\ "join" # "emit"
  BY CloserPlaces DEF CloserPC
<1>3. Moves(c, "join") /\ ~Waiting'
  BY <1>1, <1>2, Stopping, Woken
<1>4. /\ pc' \in [Actors -> Places] /\ \A y \in Actors : pc'[y] \in PlacesOf(y)
      /\ \A y \in Actors : pc'[y] \in Locking => mu' = y
      /\ \A y \in Actors \ {c} : (pc'[y] = "emit" <=> pc[y] = "emit") /\ (pc'[y] = "done" => pc[y] = "done")
  BY <1>1, <1>2, <1>3, MoveTyped, Typed
<1>5. queue' \in Seq(Chunk) /\ Len(queue') = 0 /\ 1 .. 0 = {}
  BY <1>1
<1>6. TypeOK' /\ recv' <= Len(stream')
  BY <1>1, <1>4, <1>5, Typed, Lifted
<1>7. Locked' /\ Waits' /\ Drains'
  <2>1. pc'[Worker] = "emit" <=> chunk # NoChunk
    BY <1>2, <1>4, Parties DEF Inv, Locked
  <2>. QED BY <1>1, <1>3, <1>4, <2>1 DEF Locked, Waits, Drains, Waiting
<1>8. InOrder' /\ Sizes'
  <2>1. /\ sunk <= recv
        /\ chunk # NoChunk => /\ chunk.from = sunk /\ chunk.to <= recv
                              /\ chunk.to - chunk.from \in 1 .. MaxFlushBytes
    <3>1. chunk # NoChunk => chunk.to \in Nat
      BY Typed DEF Chunk
    <3>. QED BY <3>1, Typed DEF Inv, InOrder, Sizes
  <2>2. \A i \in 1 .. Len(queue') : FALSE
    BY <1>5
  <2>3. \A i \in 1 .. Len(queue') - 1 : FALSE
    BY <1>5
  <2>4. Len(queue') <= MaxBatches
    BY <1>5, SizesAssumption
  <2>. QED BY <1>1, <2>1, <2>2, <2>3, <2>4, Typed DEF InOrder, Sizes
<1>9. ASSUME AllUtf8 PROVE Bounded' /\ Whole'
  <2>1. \A k \in 1 .. Len(queue') : FALSE
    BY <1>5
  <2>. QED BY <1>1, <1>9, <2>1 DEF Inv, Bounded, Whole, Clean, Cut, RuneStart
<1>10. pc'[Worker] = "done" => pc[Worker] = "done"
  BY <1>2, <1>4, Parties
<1>. QED BY <1>6, <1>7, <1>8, <1>9, <1>10 DEF Inv, Kept

LEMMA WorkerWaitsKeeps ==
    ASSUME Inv, WorkerWaits
    PROVE  Kept
<1>1. /\ pc[Worker] \in {"run", "woken"} /\ mu = Free /\ queue = <<>> /\ ~closed /\ ~discarded
      /\ pc' = [pc EXCEPT ![Worker] = "wait"]
      /\ UNCHANGED <<bytes, taken, queue, chunk, mu, timerSet, timer, closed, discarded>>
  BY DEF WorkerWaits, WorkerRuns, flags
<1>2. Worker \in Actors /\ Worker \notin Pumps /\ Worker \notin Closers /\ "wait" \in PlacesOf(Worker) /\ "wait" \notin Locking
  BY Parties DEF PlacesOf, WorkerPC, Locking
<1>3. Moves(Worker, "wait")
  BY <1>1, <1>2, Stepping
<1>. QED BY <1>1, <1>2, <1>3, Stays, QuietKeeps

LEMMA WorkerPlaces ==
    ASSUME Inv, WorkerRuns
    PROVE  /\ Worker \in Actors /\ Worker \notin Pumps /\ Worker \notin Closers /\ PlacesOf(Worker) = WorkerPC
           /\ mu = Free /\ pc[Worker] # "emit" /\ pc[Worker] # "done" /\ chunk = NoChunk
           /\ {"done", "emit", "run"} \subseteq WorkerPC \ {"wait"} /\ {"done", "emit", "run"} \cap Locking = {}
BY Parties DEF WorkerRuns, PlacesOf, WorkerPC, Locking, Inv, Locked

LEMMA WorkerExitsKeeps ==
    ASSUME Inv, WorkerExits
    PROVE  Inv' /\ (~discarded => sunk = recv \/ \E c \in Closers : pc[c] = "woken")
<1>1. /\ WorkerRuns /\ (~discarded => queue = <<>> /\ closed) /\ queue' = <<>>
      /\ pc' = Broadcast([pc EXCEPT ![Worker] = "done"])
      /\ UNCHANGED <<stream, recv, sunk, taken, chunk, mu, timerSet, timer, closed, discarded>>
  BY DEF WorkerExits, bytes, flags
<1>2. /\ Worker \in Actors /\ "done" \in PlacesOf(Worker) \ {"wait"} /\ "done" \notin Locking
      /\ mu = Free /\ pc[Worker] # "emit" /\ chunk = NoChunk
  BY <1>1, WorkerPlaces
<1>3. Moves(Worker, "done") /\ ~Waiting'
  BY <1>1, <1>2, Waking, Woken
<1>4. /\ pc' \in [Actors -> Places] /\ \A y \in Actors : pc'[y] \in PlacesOf(y)
      /\ \A y \in Actors : pc'[y] \in Locking => mu' = y
      /\ \A y \in Actors \ {Worker} : (pc'[y] = "idle" <=> pc[y] = "idle")
                                      /\ (y \in Closers => (pc'[y] \in Draining <=> pc[y] \in Draining))
      /\ pc'[Worker] = "done"
  BY <1>1, <1>2, <1>3, MoveTyped, Typed DEF Moves
<1>5. queue' \in Seq(Chunk) /\ Len(queue') = 0 /\ 1 .. 0 = {}
  BY <1>1
<1>6. TypeOK' /\ recv' <= Len(stream')
  BY <1>1, <1>4, <1>5, Typed, Lifted
<1>7. Locked' /\ Waits'
  <2>1. \A c \in Closers : pc'[c] # "idle" => closed
    BY <1>4, Parties DEF Inv, Locked
  <2>. QED BY <1>1, <1>2, <1>3, <1>4, <2>1 DEF Inv, Locked, Waits, Waiting
<1>8. Drains'
  <2>1. ASSUME closed, ~discarded, taken # recv PROVE \E c \in Closers : pc'[c] \in Draining
    <3>1. PICK c \in Closers : pc[c] \in Draining
      BY <2>1 DEF Inv, Drains
    <3>. QED BY <1>4, <3>1, Parties
  <2>. QED BY <1>1, <1>3, <2>1 DEF Drains
<1>9. InOrder' /\ Sizes'
  <2>1. ~discarded => Delivering = taken
    BY <1>1 DEF Inv, InOrder
  <2>2. (\A i \in 1 .. Len(queue') : FALSE) /\ \A i \in 1 .. Len(queue') - 1 : FALSE
    BY <1>5
  <2>3. Len(queue') <= MaxBatches /\ Delivering' = Delivering
    BY <1>1, <1>5, SizesAssumption DEF Delivering
  <2>. QED BY <1>1, <2>1, <2>2, <2>3 DEF Inv, InOrder, Sizes
<1>10. ASSUME AllUtf8 PROVE Bounded' /\ Whole'
  <2>1. Busy' = Busy
    BY <1>4, Parties DEF Busy
  <2>2. (\A i \in 1 .. Len(queue') : FALSE)
    BY <1>5
  <2>3. Bounded'
    BY <1>1, <1>10, <2>1 DEF Inv, Bounded, Pending
  <2>. QED BY <1>1, <1>10, <2>2, <2>3 DEF Inv, Whole, Clean, Cut, RuneStart
<1>11. ASSUME ~discarded, sunk # recv PROVE \E c \in Closers : pc[c] = "woken"
  <2>1. queue = <<>> /\ closed /\ sunk = taken
    BY <1>1, <1>2, <1>11 DEF Inv, InOrder, Delivering
  <2>2. PICK c \in Closers : pc[c] \in Draining
    BY <1>11, <2>1 DEF Inv, Drains
  <2>3. pc[c] \notin Locking
    BY <1>2, Parties DEF Inv, Locked
  <2>4. pc[c] # "wait"
    <3>1. Len(queue) # MaxBatches
      BY <2>1, SizesAssumption
    <3>. QED BY <3>1, Parties DEF Inv, Waits
  <2>. QED BY <2>2, <2>3, <2>4 DEF Draining, Locking
<1>. QED BY <1>6, <1>7, <1>8, <1>9, <1>10, <1>11 DEF Inv

LEMMA WorkerDequeuesKeeps ==
    ASSUME Inv, WorkerDequeues
    PROVE  Kept
<1>1. /\ WorkerRuns /\ queue # <<>> /\ ~discarded /\ chunk' = Head(queue) /\ queue' = Tail(queue)
      /\ pc' = Broadcast([pc EXCEPT ![Worker] = "emit"])
      /\ UNCHANGED <<stream, recv, sunk, taken, mu, timerSet, timer, closed, discarded>>
  BY DEF WorkerDequeues, bytes, flags
<1>2. /\ Worker \in Actors /\ "emit" \in PlacesOf(Worker) \ {"wait"} /\ "emit" \notin Locking
      /\ mu = Free /\ pc[Worker] # "emit" /\ chunk = NoChunk
  BY <1>1, WorkerPlaces
<1>3. Moves(Worker, "emit") /\ ~Waiting'
  BY <1>1, <1>2, Waking, Woken
<1>4. /\ pc' \in [Actors -> Places] /\ \A y \in Actors : pc'[y] \in PlacesOf(y)
      /\ \A y \in Actors : pc'[y] \in Locking => mu' = y
      /\ \A y \in Actors \ {Worker} : (pc'[y] = "idle" <=> pc[y] = "idle")
                                      /\ (y \in Closers => (pc'[y] \in Draining <=> pc[y] \in Draining))
      /\ pc'[Worker] = "emit"
  BY <1>1, <1>2, <1>3, MoveTyped, Typed DEF Moves
<1>5. /\ queue' \in Seq(Chunk) /\ Len(queue) \in Nat /\ Len(queue) > 0 /\ Len(queue') = Len(queue) - 1
      /\ chunk' = queue[1] /\ chunk' \in Chunk /\ chunk' # NoChunk
      /\ \A i \in 1 .. Len(queue') : queue'[i] = queue[i + 1] /\ i + 1 \in 1 .. Len(queue)
  <2>1. queue \in Seq(Chunk) /\ queue # <<>>
    BY <1>1, Typed
  <2>2. /\ Head(queue) = queue[1] /\ queue[1] \in Chunk /\ Tail(queue) \in Seq(Chunk) /\ Len(queue) \in Nat /\ Len(queue) > 0
        /\ Len(Tail(queue)) = Len(queue) - 1
        /\ \A i \in 1 .. Len(Tail(queue)) : Tail(queue)[i] = queue[i + 1]
    BY <2>1, HeadTailProperties, ElementOfSeq, EmptySeq, LenProperties
  <2>3. \A c \in Chunk : c # NoChunk
    BY NoChunkAssumption DEF Chunk
  <2>. QED BY <1>1, <2>2, <2>3
<1>6. TypeOK' /\ recv' <= Len(stream')
  BY <1>1, <1>4, <1>5, Typed, Lifted
<1>7. Locked' /\ Waits'
  <2>1. \A c \in Closers : pc'[c] # "idle" => closed
    BY <1>4, Parties DEF Inv, Locked
  <2>. QED BY <1>1, <1>2, <1>3, <1>4, <1>5, <2>1 DEF Inv, Locked, Waits, Waiting
<1>8. Drains'
  <2>1. ASSUME closed, ~discarded, taken # recv PROVE \E c \in Closers : pc'[c] \in Draining
    <3>1. PICK c \in Closers : pc[c] \in Draining
      BY <2>1 DEF Inv, Drains
    <3>. QED BY <1>4, <3>1, Parties
  <2>. QED BY <1>1, <1>3, <2>1 DEF Drains
<1>9. InOrder' /\ Sizes'
  <2>1. /\ chunk'.from = sunk /\ Delivering' = queue[1].to
        /\ \A i \in 1 .. Len(queue) - 1 : queue[i].to = queue[i + 1].from
        /\ queue[Len(queue)].to = taken /\ Len(queue) <= MaxBatches
        /\ \A i \in 1 .. Len(queue) : queue[i].to - queue[i].from \in 1 .. MaxFlushBytes /\ queue[i].to <= taken
    BY <1>1, <1>2, <1>5 DEF Inv, InOrder, Sizes, Delivering
  <2>2. /\ \A i \in 1 .. Len(queue') - 1 : queue'[i].to = queue'[i + 1].from
        /\ queue' # <<>> => /\ queue'[1].from = Delivering'
                            /\ queue'[Len(queue')].to = taken'
        /\ queue' = <<>> => Delivering' = taken'
    <3>1. ASSUME NEW i \in 1 .. Len(queue') - 1 PROVE queue'[i].to = queue'[i + 1].from
      <4>1. i \in 1 .. Len(queue') /\ i + 1 \in 1 .. Len(queue') /\ i + 1 \in 1 .. Len(queue) - 1
        BY <1>5
      <4>. QED BY <1>5, <2>1, <4>1
    <3>2. ASSUME queue' # <<>> PROVE queue'[1].from = Delivering' /\ queue'[Len(queue')].to = taken'
      <4>1. Len(queue') >= 1
        BY <1>5, <3>2, EmptySeq
      <4>2. 1 \in 1 .. Len(queue') /\ Len(queue') \in 1 .. Len(queue') /\ 1 \in 1 .. Len(queue) - 1
        BY <1>5, <4>1
      <4>. QED BY <1>1, <1>5, <2>1, <4>2
    <3>3. ASSUME queue' = <<>> PROVE Delivering' = taken'
      <4>1. Len(queue) = 1
        BY <1>5, <3>3
      <4>. QED BY <1>1, <2>1, <4>1
    <3>. QED BY <3>1, <3>2, <3>3
  <2>3. sunk <= taken /\ taken <= recv /\ 1 \in 1 .. Len(queue)
    BY <1>5, Typed
  <2>4. InOrder'
    BY <1>1, <2>1, <2>2, <2>3 DEF InOrder
  <2>5. Len(queue') <= MaxBatches
    BY <1>5, <2>1, SizesAssumption
  <2>. QED BY <1>1, <1>5, <2>1, <2>3, <2>4, <2>5 DEF Sizes
<1>10. ASSUME AllUtf8 PROVE Bounded' /\ Whole'
  <2>1. Busy' = Busy
    BY <1>4, Parties DEF Busy
  <2>2. Bounded'
    BY <1>1, <1>10, <2>1 DEF Inv, Bounded, Pending
  <2>3. \A k \in 1 .. Len(queue) : Clean(queue[k].to)
    BY <1>10 DEF Inv, Whole
  <2>4. ASSUME NEW k \in 1 .. Len(queue') PROVE (\A i : i = queue[k].to => Clean(i))'
    <3>1. queue'[k] = queue[k + 1] /\ Clean(queue[k + 1].to)
      BY <1>5, <2>3
    <3>. QED BY <1>1, <3>1 DEF Clean, Cut, RuneStart
  <2>5. (\A k \in 1 .. Len(queue) : Clean(queue[k].to))'
    BY <2>4 DEF Clean, Cut
  <2>6. (\A i : i = chunk.to => Clean(i))'
    BY <1>1, <1>5, <2>3 DEF Clean, Cut, RuneStart
  <2>7. Clean(sunk)' /\ Clean(taken)' /\ Clean(chunk.to)'
    BY <1>1, <1>10, <2>6 DEF Inv, Whole, Clean, Cut, RuneStart
  <2>. QED BY <2>2, <2>5, <2>7 DEF Whole
<1>11. pc'[Worker] = "done" => pc[Worker] = "done"
  BY <1>4
<1>. QED BY <1>6, <1>7, <1>8, <1>9, <1>10, <1>11 DEF Inv, Kept

LEMMA WorkerEmitsKeeps ==
    ASSUME Inv, WorkerEmits
    PROVE  Kept
<1>1. /\ pc[Worker] = "emit" /\ sunk' = chunk.to /\ chunk' = NoChunk /\ pc' = [pc EXCEPT ![Worker] = "run"]
      /\ UNCHANGED <<stream, recv, taken, queue, mu, timerSet, timer, closed, discarded>>
  BY DEF WorkerEmits, flags
<1>2. /\ Worker \in Actors /\ "run" \in PlacesOf(Worker) /\ "run" \notin Locking
      /\ chunk # NoChunk /\ chunk \in Chunk /\ sunk' \in Nat
  <2>1. Worker \in Actors /\ "run" \in PlacesOf(Worker) /\ "run" \notin Locking /\ chunk # NoChunk
    BY <1>1, Parties DEF PlacesOf, WorkerPC, Locking, Inv, Locked
  <2>. QED BY <1>1, <2>1, Typed DEF Chunk
<1>3. Moves(Worker, "run")
  BY <1>1, <1>2, Stepping
<1>4. /\ pc' \in [Actors -> Places] /\ \A y \in Actors : pc'[y] \in PlacesOf(y)
      /\ \A y \in Actors : pc'[y] \in Locking => mu' = y
      /\ \A y \in Actors \ {Worker} : pc'[y] = pc[y]
      /\ pc'[Worker] = "run"
  BY <1>1, <1>2, <1>3, MoveTyped, Typed DEF Moves
<1>5. TypeOK' /\ recv' <= Len(stream')
  BY <1>1, <1>2, <1>4, Typed, Lifted
<1>6. Locked' /\ Waits' /\ Drains'
  <2>1. Waiting' => Waiting
    BY <1>4 DEF Waiting
  <2>2. \A c \in Closers : pc'[c] = pc[c]
    BY <1>4, Parties
  <2>. QED BY <1>1, <1>2, <1>4, <2>1, <2>2 DEF Inv, Locked, Waits, Drains
<1>7. InOrder' /\ Sizes'
  <2>1. Delivering' = Delivering /\ chunk.to <= taken
    BY <1>1, <1>2 DEF Inv, Sizes, Delivering
  <2>. QED BY <1>1, <2>1 DEF Inv, InOrder, Sizes
<1>8. ASSUME AllUtf8 PROVE Bounded' /\ Whole'
  <2>1. Busy' = Busy
    BY <1>4, Parties DEF Busy
  <2>2. Bounded'
    BY <1>1, <1>8, <2>1 DEF Inv, Bounded, Pending
  <2>3. Clean(chunk.to)
    BY <1>2, <1>8 DEF Inv, Whole
  <2>. QED BY <1>1, <1>8, <2>2, <2>3 DEF Inv, Whole, Clean, Cut, RuneStart
<1>. QED BY <1>4, <1>5, <1>6, <1>7, <1>8 DEF Inv, Kept

-----------------------------------------------------------------------------
LEMMA Initial == Init => Inv
<1>. SUFFICES ASSUME Init PROVE Inv
  OBVIOUS
<1>1. /\ stream \in Streams /\ recv = 0 /\ taken = 0 /\ queue = <<>> /\ chunk = NoChunk /\ sunk = 0 /\ mu = Free
      /\ timerSet = FALSE /\ timer = NoTimer /\ closed = FALSE /\ discarded = FALSE
      /\ pc = [x \in Actors |-> IF x \in Pumps \cup Closers THEN "idle" ELSE IF x \in Timers THEN "off" ELSE "run"]
  BY DEF Init
<1>2. \A p \in Pumps \cup Closers : pc[p] = "idle"
  BY <1>1, Parties
<1>3. (\A t \in Timers : pc[t] = "off") /\ pc[Worker] = "run" /\ \A x \in Actors : pc[x] \in {"idle", "off", "run"}
  BY <1>1, Parties
<1>4. pc \in [Actors -> {"idle", "off", "run"}]
  BY <1>1
<1>5. stream \in Seq(ByteClass) /\ Len(stream) \in Nat /\ queue \in Seq(Chunk) /\ Len(queue) = 0
  BY <1>1, StreamsAssumption, LenProperties
<1>6. TypeOK
  <2>1. pc \in [Actors -> PumpPC \cup TimerPC \cup CloserPC \cup WorkerPC]
    BY <1>4 DEF PumpPC, TimerPC, WorkerPC
  <2>. QED BY <1>1, <1>2, <1>3, <1>5, <2>1 DEF TypeOK, PumpPC, TimerPC, CloserPC, WorkerPC
<1>7. Locked /\ Waits /\ Drains
  BY <1>1, <1>2, <1>3 DEF Locked, Waits, Drains, Locking
<1>8. InOrder /\ Sizes
  <2>1. (\A i \in 1 .. Len(queue) : FALSE) /\ (\A i \in 1 .. Len(queue) - 1 : FALSE)
    BY <1>5
  <2>. QED BY <1>1, <1>5, <2>1, SizesAssumption DEF InOrder, Sizes, Delivering
<1>9. ASSUME AllUtf8 PROVE Bounded /\ Whole
  <2>1. Busy = {}
    BY <1>2 DEF Busy
  <2>2. Bounded
    BY <1>1, <2>1, FS_EmptySet, SizesAssumption DEF Bounded, Pending
  <2>3. ~Cut(0)
    <3>1. SUFFICES ASSUME Cut(0) PROVE FALSE
      OBVIOUS
    <3>2. 1 \in 1 .. Len(stream) /\ stream[1] = "cont" /\ 1 .. 0 = {} /\ 1 - 1 = 0
      BY <1>5, <3>1 DEF Cut, RuneStart
    <3>3. \E i \in 1 .. 1 - 1 : TRUE
      BY <1>1, <1>9, <3>2 DEF AllUtf8, Utf8
    <3>. QED BY <3>2, <3>3
  <2>4. \A i \in 1 .. Len(queue) : FALSE
    BY <1>5
  <2>. QED BY <1>1, <2>2, <2>3, <2>4 DEF Whole, Clean
<1>. QED BY <1>1, <1>5, <1>6, <1>7, <1>8, <1>9 DEF Inv

(* Before a Discard, the worker quits with everything delivered, or it     *)
(* leaves a Close behind that was woken and waits for the lock.            *)
Quits == pc[Worker] # "done" /\ pc'[Worker] = "done" /\ ~discarded
           => sunk = recv \/ \E c \in Closers : pc[c] = "woken"

LEMMA StepKeeps == Inv /\ Next => Inv' /\ Quits
<1>. SUFFICES ASSUME Inv, Next PROVE Inv' /\ Quits
  OBVIOUS
<1>1. Kept => Inv' /\ Quits
  BY DEF Kept, Quits
<1>2. CASE \E p \in Pumps : (\E n \in 1 .. MaxRead : Add(p, n)) \/ AddAfterTeardown(p) \/ PumpStep(p)
  <2>1. PICK p \in Pumps : (\E n \in 1 .. MaxRead : Add(p, n)) \/ AddAfterTeardown(p) \/ PumpStep(p)
    BY <1>2
  <2>2. CASE AddAfterTeardown(p)
    <3>1. UNCHANGED vars
      BY <2>2 DEF AddAfterTeardown
    <3>. QED BY <3>1 DEF vars, Inv, TypeOK, Locked, Waits, Waiting, InOrder, Delivering, Sizes, Drains, Bounded, Busy, Pending, Whole, Clean, Cut, RuneStart, Quits
  <2>. QED BY <1>1, <2>1, <2>2, AddKeeps, FlushReadyKeeps, FlushTakeKeeps, ParkKeeps, GiveUpKeeps DEF PumpStep
<1>3. CASE \E t \in Timers : TimerStep(t)
  BY <1>1, <1>3, TimerFiresKeeps, OnTimerKeeps, OnTimerTakeKeeps, OnTimerLeavesKeeps, ParkKeeps, GiveUpKeeps DEF TimerStep
<1>4. CASE \E c \in Closers : Close(c) \/ CloseAgain(c) \/ Discard(c) \/ CloserStep(c)
  BY <1>1, <1>4, CloseKeeps, CloseAgainKeeps, DiscardKeeps, CloseLoopKeeps, CloseTakeKeeps, CloseAbortedKeeps,
     ParkKeeps, JoinKeeps DEF CloserStep
<1>5. CASE WorkerStep
  <2>1. CASE WorkerExits
    BY <2>1, WorkerExitsKeeps DEF Quits
  <2>. QED BY <1>1, <1>5, <2>1, WorkerWaitsKeeps, WorkerDequeuesKeeps, WorkerEmitsKeeps DEF WorkerStep
<1>. QED BY <1>2, <1>3, <1>4, <1>5 DEF Next

LEMMA Stutters == Inv /\ UNCHANGED vars => Inv'
BY DEF vars, Inv, TypeOK, Locked, Waits, Waiting, InOrder, Delivering, Sizes, Drains, Bounded, Busy, Pending, Whole, Clean, Cut, RuneStart

(* The inductive invariant holds for any number of pumps, callbacks and    *)
(* callers of teardown, any remote output and any sizes.                   *)
THEOREM Invariant == Spec => []Inv
<1>. QED BY Initial, StepKeeps, Stutters, PTL DEF Spec

(* Output is neither lost, duplicated nor reordered between Add and the    *)
(* sink, whatever the remote side writes.                                  *)
THEOREM OutputInOrder == Spec => []InOrder
<1>1. Inv => InOrder
  BY DEF Inv
<1>. QED BY <1>1, Invariant, PTL

(* Of a UTF-8 output no batch ends inside a rune, and the queue and what   *)
(* is pending stay bounded whoever fills them.                             *)
THEOREM QueueFits == Spec => [](AllUtf8 => BatchesFit)
<1>1. Inv => (AllUtf8 => BatchesFit)
  <2>. SUFFICES ASSUME Inv, AllUtf8 PROVE BatchesFit
    OBVIOUS
  <2>1. TypeOK /\ InOrder /\ Sizes /\ Bounded /\ Whole
    BY DEF Inv
  <2>2. Backpressure
    BY <2>1 DEF Backpressure, Sizes, Bounded, Busy
  <2>3. RunesWhole
    BY <2>1 DEF RunesWhole, Whole, Clean, Cut
  <2>. QED BY <2>1, <2>2, <2>3 DEF BatchesFit
<1>. QED BY <1>1, Invariant, PTL

(* No wakeup is lost on the condition variable that the worker, the        *)
(* producers and teardown share, though Enqueue signals only one of them.  *)
THEOREM WakeupsArrive == Spec => []NoLostWakeup
<1>1. Inv => NoLostWakeup
  <2>. SUFFICES ASSUME Inv PROVE NoLostWakeup
    OBVIOUS
  <2>1. Waiters # {} => Waiting
    BY DEF Waiters, Waiting
  <2>. QED BY <2>1, Typed DEF NoLostWakeup, Inv, Waits, Drains, Draining, Waiters, Waiting
<1>. QED BY <1>1, Invariant, PTL

(* When the worker quits before a Discard, all that was accepted is at the *)
(* sink, or a Close was woken to a drained queue and lost the race for the *)
(* lock.                                                                   *)
THEOREM WorkerQuits == Spec => WorkerQuitsLast
<1>1. Inv /\ [Next]_vars => [Quits]_vars
  BY StepKeeps
<1>2. Spec => [][Quits]_vars
  BY <1>1, Invariant, PTL DEF Spec
<1>. QED BY <1>2 DEF WorkerQuitsLast, Quits

-----------------------------------------------------------------------------
(* The batcher implements the channel.                                     *)
Over == {"returned", "done"}

(* Who has neither returned nor ended, and does not now, ends nothing.     *)
LEMMA Unended ==
    ASSUME Inv, NEW x \in Actors, NEW next, Moves(x, next), pc[x] \notin Over, next \notin Over
    PROVE  Ended' = Ended /\ Returned' = Returned
<1>1. ASSUME NEW y \in Actors, NEW o \in Over PROVE pc'[y] = o <=> pc[y] = o
  BY <1>1 DEF Moves, Beside, Over
<1>2. Ended' = Ended
  BY <1>1, Parties DEF Ended, Over
<1>3. \A c \in Closers : pc'[c] = "returned" <=> pc[c] = "returned"
  BY <1>1, Parties DEF Over
<1>. QED BY <1>2, <1>3 DEF Returned

(* What moves no bytes in or out, and tears nothing down, the channel does *)
(* not see.                                                                *)
LEMMA Hidden ==
    ASSUME Inv, NEW x \in Actors, NEW next, Moves(x, next), pc[x] \notin Over, next \notin Over,
           UNCHANGED <<bytes, closed, discarded>>, discarded => UNCHANGED chunk
    PROVE  UNCHANGED Channel!vars
<1>1. Ended' = Ended /\ Returned' = Returned
  BY Unended
<1>2. Phase' = Phase /\ Limit' = Limit
  BY DEF Phase, Limit, Delivering, bytes
<1>. QED BY <1>1, <1>2 DEF Channel!vars, bytes

LEMMA LeaveHidden ==
    ASSUME Inv, NEW x \in Pumps \cup Timers, LeaveArming(x)
    PROVE  UNCHANGED Channel!vars
<1>1. x \in Actors /\ pc[x] \in PlacesOf(x) /\ pc[x] \notin Over
  BY Typed, Parties DEF PlacesOf, PumpPC, TimerPC, Over
<1>2. Rest(x) \notin Over /\ "armed" \notin Over
  BY DEF Rest, Over
<1>3. /\ Moves(x, Rest(x)) \/ Moves(x, "armed")
      /\ UNCHANGED <<bytes, closed, discarded, chunk>>
  BY Leaving
<1>. QED BY <1>1, <1>2, <1>3, Hidden

LEMMA EnqueueHidden ==
    ASSUME Inv, NEW x \in Pumps \cup Timers \cup Closers, pc[x] \notin Over,
           NEW n, NEW next \in PlacesOf(x) \ {"wait", "returned", "done"}, Enqueue(x, n, next),
           UNCHANGED <<bytes, chunk, closed, discarded>>
    PROVE  UNCHANGED Channel!vars
<1>1. x \in Actors /\ next \notin Over
  BY Parties DEF Over
<1>2. Moves(x, next)
  BY <1>1, Waking DEF Enqueue
<1>. QED BY <1>1, <1>2, Hidden

LEMMA StepHidden ==
    ASSUME Inv, NEW x \in Actors, NEW next \in PlacesOf(x) \ Over, pc[x] \notin Over,
           pc' = [pc EXCEPT ![x] = next] \/ (next # "wait" /\ pc' = Broadcast([pc EXCEPT ![x] = next])),
           UNCHANGED <<bytes, chunk, closed, discarded>>
    PROVE  UNCHANGED Channel!vars
<1>1. Moves(x, next)
  BY Stepping, Waking
<1>. QED BY <1>1, Hidden

LEMMA PumpMaps ==
    ASSUME Inv, NEW p \in Pumps, PumpStep(p)
    PROVE  UNCHANGED Channel!vars
<1>1. p \in Actors /\ pc[p] \notin Over /\ PlacesOf(p) = PumpPC /\ p \in Pumps \cup Timers
  BY Typed, Parties DEF PlacesOf, PumpPC, Over
<1>2. {"cap", "wait", "flush"} \subseteq PumpPC \ Over /\ "flush" \notin {"wait", "returned", "done"}
  BY DEF PumpPC, Over
<1>3. CASE FlushReady(p)
  BY <1>1, <1>2, <1>3, LeaveHidden, StepHidden DEF FlushReady, flags
<1>4. CASE FlushTake(p)
  BY <1>1, <1>2, <1>4, LeaveHidden, EnqueueHidden DEF FlushTake, flags
<1>5. CASE Park(p)
  BY <1>1, <1>2, <1>5, StepHidden DEF Park, flags
<1>6. CASE GiveUp(p)
  BY <1>1, <1>6, LeaveHidden DEF GiveUp
<1>. QED BY <1>3, <1>4, <1>5, <1>6 DEF PumpStep

LEMMA TimerMaps ==
    ASSUME Inv, NEW t \in Timers, TimerStep(t)
    PROVE  UNCHANGED Channel!vars
<1>1. t \in Actors /\ pc[t] \notin Over /\ PlacesOf(t) = TimerPC /\ t \in Pumps \cup Timers
  BY Typed, Parties DEF PlacesOf, TimerPC, Over
<1>2. {"cap", "wait", "fired", "off", "leave"} \subseteq TimerPC \ Over
  BY DEF TimerPC, Over
<1>3. CASE TimerFires(t)
  BY <1>1, <1>2, <1>3, StepHidden DEF TimerFires, flags
<1>4. CASE OnTimer(t)
  BY <1>1, <1>2, <1>4, StepHidden DEF OnTimer
<1>5. CASE OnTimerTake(t)
  <2>1. "leave" \in PlacesOf(t) \ {"wait", "returned", "done"} /\ "cap" \in PlacesOf(t) \ {"wait", "returned", "done"}
    BY <1>1, <1>2 DEF Over
  <2>2. CASE LeaveArming(t)
    BY <1>1, <2>2, LeaveHidden
  <2>3. CASE \E n : \E next \in {"leave", "cap"} : Enqueue(t, n, next) /\ UNCHANGED <<bytes, chunk, flags>>
    BY <1>1, <2>1, <2>3, EnqueueHidden DEF flags
  <2>. QED BY <1>5, <2>2, <2>3 DEF OnTimerTake
<1>6. CASE OnTimerLeaves(t)
  BY <1>1, <1>6, LeaveHidden DEF OnTimerLeaves
<1>7. CASE Park(t)
  BY <1>1, <1>2, <1>7, StepHidden DEF Park, flags
<1>8. CASE GiveUp(t)
  BY <1>1, <1>8, LeaveHidden DEF GiveUp
<1>. QED BY <1>3, <1>4, <1>5, <1>6, <1>7, <1>8 DEF TimerStep

LEMMA AddMaps ==
    ASSUME Inv, NEW p \in Pumps, NEW n \in 1 .. MaxRead, Add(p, n)
    PROVE  Channel!Accept(n)
<1>1. p \in Actors /\ pc[p] \notin Over /\ "flush" \in PlacesOf(p) /\ "flush" \notin Over
  BY Typed, Parties DEF PlacesOf, PumpPC, Over
<1>2. Moves(p, "flush")
  BY <1>1, Stepping DEF Add
<1>3. Ended' = Ended /\ Returned' = Returned
  BY <1>1, <1>2, Unended
<1>4. Phase = "open" /\ Phase' = Phase /\ Limit' = Limit
  BY DEF Add, flags, Phase, Limit
<1>. QED BY <1>3, <1>4 DEF Add, Channel!Accept

(* Only the first Close or Discard closes, and a call returns once the     *)
(* worker is done.                                                         *)
LEMMA CloserMaps ==
    ASSUME Inv, NEW c \in Closers, CloseAgain(c) \/ CloseLoop(c) \/ CloseTake(c) \/ CloseAborted(c) \/ Park(c)
    PROVE  UNCHANGED Channel!vars
<1>1. c \in Actors /\ PlacesOf(c) = CloserPC /\ c \in Pumps \cup Timers \cup Closers
  BY Parties DEF PlacesOf
<1>2. {"cap", "wait", "drain", "join"} \subseteq CloserPC \ Over
  BY DEF CloserPC, Over
<1>3. CASE CloseAgain(c)
  BY <1>1, <1>2, <1>3, StepHidden DEF CloseAgain, flags, Over
<1>4. CASE CloseLoop(c)
  BY <1>1, <1>2, <1>4, StepHidden DEF CloseLoop, Holds, flags, Over
<1>5. pc[c] \in {"cap", "woken"} => pc[c] \notin Over
  BY DEF Over
<1>6. CASE CloseTake(c)
  <2>1. pc[c] \notin Over /\ "drain" \in PlacesOf(c) \ {"wait", "returned", "done"}
    BY <1>1, <1>5, <1>6 DEF CloseTake, AtCapacity, Holds, CloserPC
  <2>2. UNCHANGED <<bytes, chunk, closed, discarded>>
    BY <1>6 DEF CloseTake, flags
  <2>3. CASE \E n : Enqueue(c, n, "drain")
    BY <1>1, <2>1, <2>2, <2>3, EnqueueHidden
  <2>4. CASE pc' = [pc EXCEPT ![c] = "drain"]
    BY <1>1, <1>2, <2>1, <2>2, <2>4, StepHidden
  <2>. QED BY <1>6, <2>3, <2>4 DEF CloseTake
<1>7. CASE CloseAborted(c)
  <2>1. pc[c] \notin Over /\ "join" \in PlacesOf(c) \ Over /\ "join" # "wait"
    BY <1>1, <1>2, <1>5, <1>7 DEF CloseAborted, AtCapacity, Holds
  <2>. QED BY <1>1, <1>7, <2>1, StepHidden DEF CloseAborted, flags
<1>8. CASE Park(c)
  <2>1. pc[c] \notin Over /\ "wait" \in PlacesOf(c) \ Over
    BY <1>1, <1>2, <1>5, <1>8 DEF Park, AtCapacity, Holds
  <2>. QED BY <1>1, <1>8, <2>1, StepHidden DEF Park, flags
<1>. QED BY <1>3, <1>4, <1>6, <1>7, <1>8

LEMMA CloseMaps ==
    ASSUME Inv, NEW c \in Closers, Close(c)
    PROVE  Channel!Close
<1>1. c \in Actors /\ pc[c] \notin Over /\ "drain" \in CloserPC \ {"wait"} /\ "drain" \notin Over
  BY Parties DEF Close, CloserPC, Over
<1>2. Moves(c, "drain")
  BY <1>1, Stopping DEF Close
<1>3. Ended' = Ended /\ Returned' = Returned
  BY <1>1, <1>2, Unended
<1>4. ~discarded /\ ~closed
  BY DEF Close, Inv, Locked
<1>5. Phase = "open" /\ Phase' = "closed" /\ Limit' = Limit
  BY <1>4 DEF Close, Phase, Limit
<1>. QED BY <1>3, <1>5 DEF Close, bytes, Channel!Close

LEMMA DiscardMaps ==
    ASSUME Inv, NEW c \in Closers, Discard(c)
    PROVE  Channel!Drop \/ UNCHANGED Channel!vars
<1>1. c \in Actors /\ pc[c] \notin Over /\ "join" \in CloserPC \ {"wait"} /\ "join" \notin Over
  BY Parties DEF Discard, CloserPC, Over
<1>2. Moves(c, "join")
  BY <1>1, Stopping DEF Discard
<1>3. Ended' = Ended /\ Returned' = Returned
  BY <1>1, <1>2, Unended
<1>4. Phase' = "dropped" /\ Limit' = Delivering /\ UNCHANGED <<stream, recv, sunk, chunk>>
  BY DEF Discard, Phase, Limit, Delivering, bytes
<1>5. CASE discarded
  BY <1>3, <1>4, <1>5 DEF Phase, Limit, Channel!vars
<1>6. CASE ~discarded
  <2>1. Phase # "dropped"
    BY <1>6 DEF Phase
  <2>2. PICK n : n = Delivering - sunk
    OBVIOUS
  <2>3. n \in 0 .. MaxFlushBytes /\ sunk + n = Delivering /\ Delivering <= recv /\ (Ended => n = 0)
    <3>1. CASE chunk = NoChunk
      <4>1. Delivering = sunk
        BY <3>1 DEF Delivering
      <4>2. n = 0
        BY <2>2, <4>1, Typed
      <4>. QED BY <4>1, <4>2, Typed, SizesAssumption
    <3>2. CASE chunk # NoChunk
      <4>1. /\ chunk.to \in Nat /\ chunk.from = sunk /\ chunk.to <= taken
            /\ chunk.to - chunk.from \in 1 .. MaxFlushBytes /\ ~Ended
        BY <3>2, Typed DEF Inv, InOrder, Sizes, Locked, Chunk, Ended
      <4>2. Delivering = chunk.to
        BY <3>2 DEF Delivering
      <4>3. n = chunk.to - sunk /\ n \in 1 .. MaxFlushBytes
        BY <2>2, <4>1, <4>2
      <4>4. /\ sunk + n = chunk.to /\ n \in 0 .. MaxFlushBytes
            /\ chunk.to <= recv
        <5>1. chunk.to <= recv
          BY <4>1, Typed
        <5>2. PICK e : e = chunk.to
          OBVIOUS
        <5>3. e \in Nat /\ n = e - sunk /\ sunk \in Nat /\ n \in Int
          BY <4>1, <4>3, <5>2, Typed
        <5>4. sunk + n = e
          BY <5>3
        <5>. QED BY <4>3, <5>1, <5>2, <5>4, SizesAssumption
      <4>. QED BY <4>1, <4>2, <4>4
    <3>. QED BY <3>1, <3>2
  <2>. QED BY <1>3, <1>4, <2>1, <2>3 DEF Channel!Drop
<1>. QED BY <1>5, <1>6

LEMMA JoinMaps ==
    ASSUME Inv, NEW c \in Closers, Join(c)
    PROVE  Channel!Return(c)
<1>1. /\ Ended /\ c \notin Returned /\ pc' = [pc EXCEPT ![c] = "returned"] /\ c \in Actors /\ c # Worker
      /\ pc \in [Actors -> Places]
  BY Parties, Typed DEF Join, Ended, Returned
<1>2. Ended' = Ended
  BY <1>1, Parties DEF Ended
<1>3. Returned' = Returned \cup {c}
  BY <1>1, Parties DEF Returned
<1>4. Phase' = Phase /\ Limit' = Limit /\ UNCHANGED bytes
  BY DEF Join, flags, Phase, Limit, Delivering, bytes
<1>. QED BY <1>1, <1>2, <1>3, <1>4 DEF bytes, Channel!Return

LEMMA ExitMaps ==
    ASSUME Inv, WorkerExits
    PROVE  Channel!End
<1>1. /\ pc[Worker] \in {"run", "woken"} /\ chunk = NoChunk /\ ~Ended /\ closed
      /\ UNCHANGED <<stream, recv, sunk, chunk, closed, discarded>>
  BY DEF WorkerExits, WorkerRuns, Ended, Inv, Locked, flags, bytes
<1>2. Moves(Worker, "done")
  BY Parties, Waking DEF WorkerExits, PlacesOf, WorkerPC
<1>3. Ended' /\ Returned' = Returned
  <2>1. \A c \in Closers : pc'[c] = "returned" <=> pc[c] = "returned"
    BY <1>2, Parties DEF Moves, Beside
  <2>. QED BY <1>2, <2>1 DEF Moves, Ended, Returned
<1>4. Phase # "open" /\ Phase' = Phase /\ Limit' = Limit /\ (Phase = "dropped" => sunk = Limit)
  BY <1>1 DEF Phase, Limit, Delivering
<1>. QED BY <1>1, <1>3, <1>4 DEF Channel!End, Ended

LEMMA EmitMaps ==
    ASSUME Inv, AllUtf8, WorkerEmits
    PROVE  \E n \in 1 .. MaxFlushBytes : Channel!Deliver(n)
<1>1. /\ pc[Worker] = "emit" /\ chunk # NoChunk /\ sunk' = chunk.to /\ chunk' = NoChunk
      /\ pc' = [pc EXCEPT ![Worker] = "run"] /\ UNCHANGED <<stream, recv, closed, discarded>>
  BY DEF WorkerEmits, Inv, Locked, flags
<1>2. Worker \in Actors /\ "run" \in PlacesOf(Worker) /\ "run" \notin Over /\ pc[Worker] \notin Over
  BY <1>1, Parties DEF PlacesOf, WorkerPC, Over
<1>3. Moves(Worker, "run")
  BY <1>1, <1>2, Stepping
<1>4. Ended' = Ended /\ Returned' = Returned /\ ~Ended
  BY <1>1, <1>2, <1>3, Unended DEF Ended
<1>5. Phase' = Phase /\ Limit' = Limit
  BY <1>1 DEF Phase, Limit, Delivering
<1>6. PICK n : n = chunk.to - chunk.from
  OBVIOUS
<1>7. /\ n \in 1 .. MaxFlushBytes /\ chunk.to \in Nat /\ sunk + n = chunk.to
      /\ chunk.to <= recv /\ chunk.to <= Len(stream) /\ Len(stream) \in Nat
  BY <1>1, <1>6, Typed DEF Inv, InOrder, Sizes, Chunk
<1>8. sunk + n <= (IF Phase = "dropped" THEN Limit ELSE recv)
  BY <1>1, <1>7 DEF Phase, Limit, Delivering
<1>9. Channel!Boundary(sunk + n)
  <2>1. Clean(chunk.to)
    BY <1>1 DEF Inv, Whole
  <2>2. closed => Phase # "open"
    BY DEF Phase
  <2>3. chunk.to = Len(stream) \/ stream[chunk.to + 1] # "cont" \/ Cut(chunk.to)
    BY <1>7 DEF Cut, RuneStart
  <2>. QED BY <1>7, <2>1, <2>2, <2>3 DEF Clean, Channel!Boundary
<1>10. Channel!Deliver(n)
  BY <1>1, <1>4, <1>5, <1>7, <1>8, <1>9 DEF Channel!Deliver
<1>. QED BY <1>7, <1>10

LEMMA WorkerMaps ==
    ASSUME Inv, WorkerWaits \/ WorkerDequeues
    PROVE  UNCHANGED Channel!vars
<1>1. Worker \in Actors /\ PlacesOf(Worker) = WorkerPC /\ {"wait", "emit"} \subseteq WorkerPC \ Over
  BY Parties DEF PlacesOf, WorkerPC, Over
<1>2. pc[Worker] \notin Over
  BY DEF WorkerWaits, WorkerDequeues, WorkerRuns, Over
<1>3. CASE WorkerWaits
  BY <1>1, <1>2, <1>3, StepHidden DEF WorkerWaits, flags
<1>4. CASE WorkerDequeues
  <2>1. Moves(Worker, "emit")
    BY <1>1, <1>4, Waking DEF WorkerDequeues
  <2>. QED BY <1>1, <1>2, <1>4, <2>1, Hidden DEF WorkerDequeues, flags
<1>. QED BY <1>3, <1>4

LEMMA StepMaps == Inv /\ AllUtf8 /\ [Next]_vars => [Channel!Next]_(Channel!vars)
<1>. SUFFICES ASSUME Inv, AllUtf8, [Next]_vars PROVE Channel!Next \/ UNCHANGED Channel!vars
  OBVIOUS
<1>1. CASE UNCHANGED vars
  BY <1>1 DEF vars, Channel!vars, Phase, Limit, Delivering, Ended, Returned
<1>2. CASE \E p \in Pumps : (\E n \in 1 .. MaxRead : Add(p, n)) \/ AddAfterTeardown(p) \/ PumpStep(p)
  <2>1. PICK p \in Pumps : (\E n \in 1 .. MaxRead : Add(p, n)) \/ AddAfterTeardown(p) \/ PumpStep(p)
    BY <1>2
  <2>2. CASE AddAfterTeardown(p)
    BY <1>1, <2>2 DEF AddAfterTeardown
  <2>3. CASE \E n \in 1 .. MaxRead : Add(p, n)
    BY <2>3, AddMaps DEF Channel!Next
  <2>. QED BY <2>1, <2>2, <2>3, PumpMaps
<1>3. CASE \E t \in Timers : TimerStep(t)
  BY <1>3, TimerMaps
<1>4. CASE \E c \in Closers : Close(c) \/ CloseAgain(c) \/ Discard(c) \/ CloserStep(c)
  BY <1>4, CloserMaps, CloseMaps, DiscardMaps, JoinMaps DEF CloserStep, Channel!Next
<1>5. CASE WorkerStep
  BY <1>5, WorkerMaps, ExitMaps, EmitMaps DEF WorkerStep, Channel!Next
<1>. QED BY <1>1, <1>2, <1>3, <1>4, <1>5 DEF Next

LEMMA InitMaps == Init => Channel!Init
<1>. SUFFICES ASSUME Init PROVE Channel!Init
  OBVIOUS
<1>1. ~Ended /\ Returned = {}
  BY Parties DEF Init, Ended, Returned
<1>. QED BY <1>1 DEF Init, Channel!Init, Phase, Limit, Ended

(* For any number of pumps, callbacks and callers of teardown, any sizes   *)
(* and any UTF-8 output: every step of the batcher is one of the channel,  *)
(* or one that the channel's users do not see.                             *)
THEOREM Implements ==
    ASSUME AllUtf8
    PROVE  Spec => ImplementsChannel
<1>1. Inv /\ [Next]_vars => [Channel!Next]_(Channel!vars)
  BY StepMaps
<1>. QED BY <1>1, InitMaps, Invariant, PTL DEF Spec, ImplementsChannel, Channel!Spec

(* What the users of the batcher may count on holds for any number of      *)
(* goroutines and any sizes: it is the channel, and it ends early only     *)
(* when the worker overtook a Close that was woken to a drained queue.     *)
THEOREM Promise ==
    ASSUME AllUtf8
    PROVE  Spec => OutputPromise
BY Implements, WorkerQuits DEF OutputPromise
================================================================================
