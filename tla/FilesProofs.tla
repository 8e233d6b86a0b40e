------------------------ MODULE FilesProofs ------------------------
(***************************************************************************)
(* Proofs about parts of Files.  Of TransferManager: the queue and         *)
(* its slots, for any tasks, sessions, calls and limits.  Of SftpFiles:    *)
(* what becomes of the files they replace, for any number of uploads and   *)
(* downloads to one name.  Of RemoteTree: what Remove may take, for any    *)
(* tree with any links, and any calls beside it.                           *)
(***************************************************************************)
EXTENDS Files, SequenceTheorems, FiniteSetTheorems, WellFoundedInduction, TLAPS

USE GoroutinesAssumption, SessionsAssumption, CapsAssumption

Copying == {"start", "copy", "close"}         \* the transfer may still be called off
Active  == Copying \cup {"commit"}            \* the transfer holds a slot
Over    == {"schedule", "pick", "launch", "done"}

Dead == Terminal \cup {"cleared"}

Holds == TasksIn(Running)

HoldsIn(s) == {t \in Holds : SessionOf(t) = s}

(* Goroutine g is inside schedule, with launches it has yet to make.       *)
Launching(g) == pc[g] \in {"pick", "launch"}

-----------------------------------------------------------------------------
(* The queue holds the queued tasks, each once.                            *)
QueueInv ==
    /\ \A i \in 1..Len(queue) : state[queue[i]] = "queued"
    /\ \A i, j \in 1..Len(queue) : queue[i] = queue[j] => i = j
    /\ closed => queue = <<>> /\ \A t \in Tasks : state[t] # "queued"

(* What a task's goroutine does agrees with the task's state.              *)
PlaceInv ==
    \A t \in Tasks :
      /\ state[t] \in {"none", "queued"} => pc[t] = "none"
      /\ pc[t] \in Copying => state[t] = "running"
      /\ pc[t] = "commit" => state[t] \in Running
      /\ state[t] = "finalizing" => pc[t] = "commit"
      /\ pc[t] \in Over => state[t] \in Dead
      /\ t \in cancelled => state[t] \in Running
      /\ t \in committed => state[t] = "succeeded"

(* A launch that is due is of a running task without a goroutine, and no   *)
(* other goroutine is about to launch it too.                              *)
LaunchInv ==
    /\ \A g \in Goroutines : Launching(g) =>
         \A i \in 1..Len(todo[g]) :
           /\ todo[g][i] = Told(todo[g][i].task, "running")
           /\ state[todo[g][i].task] = "running" /\ pc[todo[g][i].task] = "none"
    /\ \A g, h \in Goroutines : Launching(g) /\ Launching(h) =>
         \A i \in 1..Len(todo[g]), j \in 1..Len(todo[h]) :
           todo[g][i].task = todo[h][j].task => g = h /\ i = j

(* A goroutine that is at rest, or inside a file operation, owes no event. *)
TodoInv ==
    \A g \in Goroutines :
      /\ pc[g] \in {"idle", "joined", "none", "start", "close", "done"} => todo[g] = <<>>
      /\ pc[g] = "launch" => todo[g] # <<>>

(* Every slot in use is counted, in all and by session.                    *)
SlotsInv ==
    /\ IsFiniteSet(Holds)
    /\ SlotsExact

(* Dispose has cancelled every task whose state is still running.          *)
ClosedInv ==
    /\ closed => \A t \in Tasks : state[t] = "running" => t \in cancelled
    /\ \A u \in Callers :
         /\ pc[u] \in {"join", "joined"} => closed
         /\ pc[u] = "joined" => \A t \in Tasks : pc[t] \notin {"copy", "close", "commit"}

(* What the renderer shows, and what it will be told, is not ahead of the  *)
(* state; and unless Dispose suppressed it, the state itself is among them.*)
NotAhead(s, t) ==
    state[t] # "cleared" => \/ Rank(s) < Rank(state[t])
                            \/ s = state[t]

ViewInv ==
    /\ \A t \in Tasks : NotAhead(view[t], t)
    /\ \A g \in Goroutines : \A i \in 1..Len(todo[g]) :
         state[todo[g][i].task] # "none" /\ NotAhead(todo[g][i].state, todo[g][i].task)
    /\ ~closed => \A t \in Tasks :
         \/ state[t] = "cleared" \/ view[t] = state[t]
         \/ \E g \in Goroutines : \E i \in 1..Len(todo[g]) : todo[g][i] = Told(t, state[t])

IInv == /\ TypeOK /\ QueueInv /\ PlaceInv /\ LaunchInv /\ TodoInv /\ SlotsInv
        /\ ClosedInv /\ ViewInv /\ WorkConserving

(* Task t was cancelled before its commit, or its transfer is over.        *)
Doomed(t) ==
    /\ t \notin committed
    /\ \/ t \in cancelled /\ pc[t] \in {"none"} \cup Copying
       \/ pc[t] \in Over

-----------------------------------------------------------------------------
(* The ranks, and the positions they are asked about.                      *)
LEMMA Ranks ==
    /\ Rank("none") = 0 /\ Rank("cleared") = 0 /\ Rank("queued") = 1 /\ Rank("running") = 2
    /\ Rank("finalizing") = 3 /\ \A s \in Terminal : Rank(s) = 4
    /\ \A s \in States : Rank(s) \in Nat
  BY DEF Rank, Terminal, Running, States

(* An event is a record of a task and a state it can be told to be in.     *)
LEMMA ToldIsEvent ==
    ASSUME NEW t \in Tasks, NEW s \in States \ {"none", "cleared"}
    PROVE  Told(t, s) \in Event /\ Told(t, s).task = t /\ Told(t, s).state = s
  BY DEF Told, Event

(* A position leaves the queue, the others keep their order.               *)
LEMMA WithoutIs ==
    ASSUME queue \in Seq(Tasks), NEW i \in 1..Len(queue)
    PROVE  /\ Without(i) \in Seq(Tasks) /\ Len(Without(i)) = Len(queue) - 1
           /\ \A j \in 1..(Len(queue) - 1) :
                Without(i)[j] = IF j < i THEN queue[j] ELSE queue[j + 1]
<1>. DEFINE a == SubSeq(queue, 1, i - 1)
            b == SubSeq(queue, i + 1, Len(queue))
<1>1. Len(queue) \in Nat /\ \A j \in 1..Len(queue) : queue[j] \in Tasks
  BY LenProperties, ElementOfSeq
<1>2. /\ a \in Seq(Tasks) /\ Len(a) = i - 1
      /\ \A j \in 1..(i - 1) : a[j] = queue[j]
  BY <1>1, SubSeqProperties
<1>3. /\ b \in Seq(Tasks) /\ Len(b) = Len(queue) - i
      /\ \A j \in 1..(Len(queue) - i) : b[j] = queue[j + i]
  BY <1>1, SubSeqProperties
<1>. HIDE DEF a, b
<1>4. /\ a \o b \in Seq(Tasks) /\ Len(a \o b) = Len(queue) - 1
      /\ \A j \in 1..(Len(queue) - 1) :
           (a \o b)[j] = IF j <= i - 1 THEN a[j] ELSE b[j - (i - 1)]
  BY <1>1, <1>2, <1>3, ConcatProperties
<1>5. \A j \in 1..(Len(queue) - 1) : (a \o b)[j] = IF j < i THEN queue[j] ELSE queue[j + 1]
  <2>. SUFFICES ASSUME NEW j \in 1..(Len(queue) - 1)
                PROVE  (a \o b)[j] = IF j < i THEN queue[j] ELSE queue[j + 1]
    OBVIOUS
  <2>1. CASE j < i
    BY <1>1, <1>2, <1>4, <2>1
  <2>2. CASE ~(j < i)
    <3>1. j - (i - 1) \in 1..(Len(queue) - i) /\ (j - (i - 1)) + i = j + 1 /\ ~(j <= i - 1)
      BY <1>1, <2>2
    <3>2. (a \o b)[j] = b[j - (i - 1)]
      BY <1>4, <3>1
    <3>. QED
      BY <1>3, <2>2, <3>1, <3>2
  <2>. QED
    BY <2>1, <2>2
<1>. QED
  BY <1>4, <1>5 DEF Without, a, b

(* Without it, the queue has no task twice and one task less.              *)
LEMMA WithoutQueued ==
    ASSUME TypeOK, QueueInv, NEW i \in 1..Len(queue), queue' = Without(i)
    PROVE  /\ queue' \in Seq(Tasks)
           /\ \A j \in 1..Len(queue') : queue'[j] # queue[i] /\ state[queue'[j]] = "queued"
           /\ \A j, k \in 1..Len(queue') : queue'[j] = queue'[k] => j = k
<1>. /\ queue \in Seq(Tasks) /\ Len(queue) \in Nat /\ DOMAIN queue = 1..Len(queue)
     /\ \A j, k \in 1..Len(queue) : queue[j] = queue[k] => j = k
     /\ \A j \in 1..Len(queue) : state[queue[j]] = "queued"
  BY LenProperties DEF TypeOK, QueueInv
<1>1. /\ queue' \in Seq(Tasks) /\ Len(queue') = Len(queue) - 1
      /\ \A j \in 1..(Len(queue) - 1) : queue'[j] = IF j < i THEN queue[j] ELSE queue[j + 1]
  BY WithoutIs
<1>2. \A j \in 1..Len(queue') : \E k \in 1..Len(queue) : k # i /\ queue'[j] = queue[k]
  BY <1>1
<1>3. ASSUME NEW j \in 1..Len(queue'), NEW k \in 1..Len(queue'), queue'[j] = queue'[k]
      PROVE  j = k
  BY <1>1, <1>3
<1>. QED
  BY <1>1, <1>2, <1>3

(* What is known of a goroutine's events.                                  *)
LEMMA TodoIs ==
    ASSUME TypeOK, NEW g \in Goroutines
    PROVE  /\ todo[g] \in Seq(Event) /\ Len(todo[g]) \in Nat
           /\ \A i \in 1..Len(todo[g]) :
                /\ todo[g][i] \in Event /\ todo[g][i].task \in Tasks
                /\ todo[g][i].state \in States \ {"none", "cleared"}
                /\ todo[g][i] = Told(todo[g][i].task, todo[g][i].state)
           /\ todo[g] # <<>> =>
                /\ Len(todo[g]) > 0 /\ Head(todo[g]) = todo[g][1]
                /\ Tail(todo[g]) \in Seq(Event) /\ Len(Tail(todo[g])) = Len(todo[g]) - 1
                /\ \A i \in 1..(Len(todo[g]) - 1) : Tail(todo[g])[i] = todo[g][i + 1]
<1>1. todo[g] \in Seq(Event) /\ Len(todo[g]) \in Nat
  BY LenProperties DEF TypeOK
<1>2. \A i \in 1..Len(todo[g]) : todo[g][i] \in Event
  BY <1>1, ElementOfSeq
<1>3. \A e \in Event : /\ e.task \in Tasks /\ e.state \in States \ {"none", "cleared"}
                       /\ e = Told(e.task, e.state)
  BY DEF Event, Told
<1>4. todo[g] # <<>> =>
        /\ Len(todo[g]) > 0 /\ Head(todo[g]) = todo[g][1]
        /\ Tail(todo[g]) \in Seq(Event) /\ Len(Tail(todo[g])) = Len(todo[g]) - 1
        /\ \A i \in 1..(Len(todo[g]) - 1) : Tail(todo[g])[i] = todo[g][i + 1]
  BY <1>1, HeadTailProperties, EmptySeq
<1>. QED
  BY <1>1, <1>2, <1>3, <1>4

-----------------------------------------------------------------------------
(* Nothing runs, waits or is shown at first.                               *)
LEMMA InitIInv == Init => IInv
<1>. SUFFICES ASSUME Init PROVE IInv
  OBVIOUS
<1>. USE DEF Init
<1>1. TypeOK
  <2>1. /\ pc \in [Goroutines -> CallerPC \cup RunnerPC]
        /\ \A u \in Callers : pc[u] \in CallerPC
        /\ \A t \in Tasks : pc[t] \in RunnerPC
    BY DEF CallerPC, RunnerPC, Goroutines
  <2>2. todo \in [Goroutines -> Seq(Event)] /\ queue \in Seq(Tasks)
    BY EmptySeq
  <2>. QED
    BY <2>1, <2>2 DEF TypeOK, States
<1>2. QueueInv /\ LaunchInv /\ TodoInv
  BY DEF QueueInv, LaunchInv, TodoInv, Launching, Goroutines
<1>3. PlaceInv
  BY DEF PlaceInv, Copying, Over, Running, Goroutines
<1>4. SlotsInv
  <2>1. TasksIn(Running) = {}
    BY DEF TasksIn, Running
  <2>2. \A s \in Sessions : {t \in TasksIn(Running) : SessionOf(t) = s} = {}
    BY <2>1
  <2>. QED
    BY <2>1, <2>2, FS_EmptySet DEF SlotsInv, Holds, SlotsExact
<1>5. ClosedInv
  BY DEF ClosedInv, Goroutines
<1>6. ViewInv
  BY DEF ViewInv, NotAhead
<1>7. WorkConserving
  BY DEF WorkConserving, CanPick
<1>. QED
  BY <1>1, <1>2, <1>3, <1>4, <1>5, <1>6, <1>7 DEF IInv

-----------------------------------------------------------------------------
(* The slots, when no task takes or leaves one.                            *)
LEMMA SlotsKept ==
    ASSUME SlotsInv, UNCHANGED counters,
           \A t \in Tasks : state'[t] \in Running <=> state[t] \in Running
    PROVE  SlotsInv'
<1>1. TasksIn(Running)' = TasksIn(Running)
  BY DEF TasksIn, Running
<1>2. \A s \in Sessions : {t \in TasksIn(Running) : SessionOf(t) = s}'
                            = {t \in TasksIn(Running) : SessionOf(t) = s}
  BY <1>1
<1>. QED
  BY <1>1, <1>2 DEF SlotsInv, SlotsExact, Holds, counters

(* Task t takes a slot that was free.                                      *)
LEMMA SlotTaken ==
    ASSUME TypeOK, SlotsInv, NEW t \in Tasks, state[t] \notin Running,
           state' = [state EXCEPT ![t] = "running"],
           GlobalRoom, runningSession[SessionOf(t)] < MaxSession,
           runningGlobal' = runningGlobal + 1,
           runningSession' = [runningSession EXCEPT ![SessionOf(t)] = @ + 1]
    PROVE  SlotsInv' /\ runningGlobal' \in Nat /\ runningSession' \in [Sessions -> Nat]
<1>1. /\ runningGlobal \in Nat /\ runningSession \in [Sessions -> Nat]
      /\ state \in [Tasks -> States]
  BY DEF TypeOK
<1>2. Holds' = Holds \cup {t} /\ t \notin Holds
  BY <1>1 DEF Holds, TasksIn, Running
<1>3. \A s \in Sessions : /\ HoldsIn(s)' = IF s = SessionOf(t) THEN HoldsIn(s) \cup {t} ELSE HoldsIn(s)
                          /\ t \notin HoldsIn(s)
  BY <1>2 DEF HoldsIn
<1>4. \A s \in Sessions : IsFiniteSet(HoldsIn(s))
  BY FS_Subset DEF HoldsIn, SlotsInv
<1>5. /\ IsFiniteSet(Holds') /\ Cardinality(Holds') = Cardinality(Holds) + 1
      /\ \A s \in Sessions : Cardinality(HoldsIn(s)') =
           IF s = SessionOf(t) THEN Cardinality(HoldsIn(s)) + 1 ELSE Cardinality(HoldsIn(s))
  BY <1>2, <1>3, <1>4, FS_AddElement DEF SlotsInv
<1>6. /\ runningGlobal = Cardinality(Holds) /\ runningGlobal' <= MaxGlobal
      /\ \A s \in Sessions : runningSession[s] = Cardinality(HoldsIn(s)) /\ runningSession[s] <= MaxSession
  BY <1>1 DEF SlotsInv, SlotsExact, Holds, HoldsIn, GlobalRoom
<1>7. /\ runningGlobal' = Cardinality(Holds')
      /\ \A s \in Sessions : runningSession'[s] = Cardinality(HoldsIn(s)') /\ runningSession'[s] <= MaxSession
  BY <1>1, <1>5, <1>6
<1>. QED
  BY <1>1, <1>5, <1>6, <1>7 DEF SlotsInv, SlotsExact, Holds, HoldsIn

(* Task t gives its slot back.                                             *)
LEMMA SlotFreed ==
    ASSUME TypeOK, SlotsInv, NEW t \in Tasks, state[t] \in Running,
           NEW s \in States \ Running, state' = [state EXCEPT ![t] = s],
           runningGlobal' = runningGlobal - 1,
           runningSession' = [runningSession EXCEPT ![SessionOf(t)] = @ - 1]
    PROVE  SlotsInv' /\ runningGlobal' \in Nat /\ runningSession' \in [Sessions -> Nat]
<1>1. /\ runningGlobal \in Nat /\ runningSession \in [Sessions -> Nat]
      /\ state \in [Tasks -> States]
  BY DEF TypeOK
<1>2. Holds' = Holds \ {t} /\ t \in Holds
  BY <1>1 DEF Holds, TasksIn
<1>3. \A r \in Sessions : /\ HoldsIn(r)' = IF r = SessionOf(t) THEN HoldsIn(r) \ {t} ELSE HoldsIn(r)
                          /\ r = SessionOf(t) => t \in HoldsIn(r)
  BY <1>2 DEF HoldsIn
<1>4. \A r \in Sessions : IsFiniteSet(HoldsIn(r))
  BY FS_Subset DEF HoldsIn, SlotsInv
<1>5. /\ IsFiniteSet(Holds') /\ Cardinality(Holds') = Cardinality(Holds) - 1
      /\ \A r \in Sessions : Cardinality(HoldsIn(r)') =
           IF r = SessionOf(t) THEN Cardinality(HoldsIn(r)) - 1 ELSE Cardinality(HoldsIn(r))
  BY <1>2, <1>3, <1>4, FS_RemoveElement DEF SlotsInv
<1>6. /\ runningGlobal = Cardinality(Holds) /\ runningGlobal <= MaxGlobal
      /\ \A r \in Sessions : runningSession[r] = Cardinality(HoldsIn(r)) /\ runningSession[r] <= MaxSession
  BY DEF SlotsInv, SlotsExact, Holds, HoldsIn
<1>7. /\ Cardinality(Holds') \in Nat
      /\ \A r \in Sessions : IsFiniteSet(HoldsIn(r)') /\ Cardinality(HoldsIn(r)') \in Nat
  BY <1>3, <1>4, <1>5, FS_CardinalityType, FS_RemoveElement
<1>8. /\ runningGlobal' = Cardinality(Holds') /\ runningGlobal' <= MaxGlobal
      /\ \A r \in Sessions : runningSession'[r] = Cardinality(HoldsIn(r)') /\ runningSession'[r] <= MaxSession
  BY <1>1, <1>5, <1>6
<1>9. runningGlobal' \in Nat /\ runningSession' \in [Sessions -> Nat]
  BY <1>1, <1>7, <1>8
<1>. QED
  BY <1>5, <1>8, <1>9 DEF SlotsInv, SlotsExact, Holds, HoldsIn

-----------------------------------------------------------------------------
(* Steps that only move a goroutine.                                       *)
LEMMA OnlyMoves ==
    ASSUME IInv, UNCHANGED <<state, queue, counters, cancelled, closed, todo, committed, view>>
    PROVE  QueueInv' /\ SlotsInv' /\ ViewInv'
<1>1. QueueInv'
  BY DEF IInv, QueueInv
<1>2. SlotsInv'
  BY SlotsKept DEF IInv
<1>3. ViewInv'
  BY DEF IInv, ViewInv, NotAhead
<1>. QED
  BY <1>1, <1>2, <1>3

(* What else holds after such a step, of goroutine g, that does not begin  *)
(* to launch and leaves schedule only when nothing more can start.         *)
LEMMA MoveKeeps ==
    ASSUME IInv, NEW g \in Goroutines, NEW next \in CallerPC \cup RunnerPC,
           pc' = [pc EXCEPT ![g] = next],
           g \in Callers => next \in CallerPC, g \in Tasks => next \in RunnerPC,
           mu' \in Goroutines \cup {Free},
           UNCHANGED <<state, queue, counters, cancelled, closed, todo, committed, view>>,
           next \in {"pick", "launch"} => Launching(g) \/ todo[g] = <<>>,
           next \in {"idle", "joined", "none", "start", "close", "done"} => todo[g] = <<>>,
           next = "launch" => todo[g] # <<>>,
           pc[g] \in {"schedule", "pick"} /\ next \notin {"schedule", "pick"} => ~CanPick
    PROVE  TypeOK' /\ QueueInv' /\ SlotsInv' /\ ViewInv' /\ TodoInv' /\ WorkConserving'
<1>1. TypeOK'
  BY DEF IInv, TypeOK, counters, Goroutines
<1>2. TodoInv'
  BY <1>1 DEF IInv, TypeOK, TodoInv
<1>3. WorkConserving'
  <2>1. CanPick' = CanPick
    BY DEF CanPick, GlobalRoom, SessionFree, counters
  <2>2. \A h \in Goroutines : pc'[h] = IF h = g THEN next ELSE pc[h]
    BY DEF IInv, TypeOK
  <2>. QED
    BY <2>1, <2>2 DEF IInv, WorkConserving
<1>. QED
  BY <1>1, <1>2, <1>3, OnlyMoves

(* Goroutine g enters scheduleLocked.                                      *)
LEMMA ScheduleKeeps ==
    ASSUME IInv, NEW g \in Goroutines, Schedule(g)
    PROVE  IInv'
<1>. USE DEF Schedule, Quiet
<1>0. pc \in [Goroutines -> CallerPC \cup RunnerPC] /\ pc[g] = "schedule" /\ todo[g] = <<>>
  BY DEF IInv, TypeOK
<1>1. TypeOK' /\ QueueInv' /\ SlotsInv' /\ ViewInv' /\ TodoInv' /\ WorkConserving'
  BY <1>0, MoveKeeps DEF CallerPC, RunnerPC, Goroutines
<1>2. PlaceInv'
  BY <1>0 DEF IInv, PlaceInv, Copying, Over, Goroutines
<1>3. LaunchInv'
  BY <1>0 DEF IInv, LaunchInv, Launching
<1>4. ClosedInv'
  BY <1>0 DEF IInv, ClosedInv, Goroutines
<1>. QED
  BY <1>1, <1>2, <1>3, <1>4 DEF IInv

(* It finds nothing more that could start.                                 *)
LEMMA PickNoMoreKeeps ==
    ASSUME IInv, NEW g \in Goroutines, PickNoMore(g)
    PROVE  IInv'
<1>. USE DEF PickNoMore, Returned
<1>. DEFINE next == IF todo[g] = <<>> THEN Returned(g) ELSE "launch"
<1>0. /\ pc \in [Goroutines -> CallerPC \cup RunnerPC] /\ pc[g] = "pick"
      /\ pc' = [pc EXCEPT ![g] = next]
      /\ next = IF todo[g] = <<>> THEN IF g \in Callers THEN "idle" ELSE "done" ELSE "launch"
  BY DEF IInv, TypeOK
<1>. HIDE DEF next
<1>1. TypeOK' /\ QueueInv' /\ SlotsInv' /\ ViewInv' /\ TodoInv' /\ WorkConserving'
  BY <1>0, MoveKeeps DEF CallerPC, RunnerPC, Goroutines, Launching
<1>2. PlaceInv'
  BY <1>0 DEF IInv, PlaceInv, Copying, Over, Goroutines
<1>3. LaunchInv'
  BY <1>0 DEF IInv, LaunchInv, Launching
<1>4. ClosedInv'
  BY <1>0 DEF IInv, ClosedInv, Goroutines
<1>. QED
  BY <1>1, <1>2, <1>3, <1>4 DEF IInv

(* Dispose's wait ends, in one way or the other.                           *)
LEMMA DisposeEndsKeeps ==
    ASSUME IInv, NEW u \in Callers, DisposeJoins(u) \/ DisposeTimesOut(u)
    PROVE  IInv'
<1>. DEFINE next == IF DisposeJoins(u) THEN "joined" ELSE "idle"
<1>0. /\ pc \in [Goroutines -> CallerPC \cup RunnerPC] /\ pc[u] = "join" /\ todo[u] = <<>>
      /\ pc' = [pc EXCEPT ![u] = next] /\ next \in {"joined", "idle"} /\ mu' = mu
      /\ next = "joined" => \A t \in Tasks : pc[t] \in {"none", "done"}
      /\ UNCHANGED <<state, queue, counters, cancelled, closed, todo, committed, view>>
      /\ u \in Goroutines /\ \A t \in Tasks : t # u
  BY DEF IInv, TypeOK, DisposeJoins, DisposeTimesOut, Quiet, Goroutines
<1>. HIDE DEF next
<1>1. TypeOK' /\ QueueInv' /\ SlotsInv' /\ ViewInv' /\ TodoInv' /\ WorkConserving'
  <2>1. mu' \in Goroutines \cup {Free}
    BY <1>0 DEF IInv, TypeOK
  <2>. QED
    BY <1>0, <2>1, MoveKeeps DEF CallerPC, RunnerPC
<1>2. PlaceInv'
  BY <1>0 DEF IInv, PlaceInv, Goroutines
<1>3. LaunchInv'
  BY <1>0 DEF IInv, LaunchInv, Launching
<1>4. ClosedInv'
  BY <1>0 DEF IInv, ClosedInv, Goroutines
<1>. QED
  BY <1>1, <1>2, <1>3, <1>4 DEF IInv

(* The transfer of t comes to the end of its data, or to its commit.       *)
LEMMA CopyKeeps ==
    ASSUME IInv, NEW t \in Tasks, CopyEnds(t) \/ Closes(t)
    PROVE  IInv'
<1>. DEFINE next == IF pc[t] = "copy" THEN "close" ELSE "commit"
<1>0. /\ pc \in [Goroutines -> CallerPC \cup RunnerPC] /\ pc[t] \in {"copy", "close"}
      /\ pc' = [pc EXCEPT ![t] = next] /\ next \in {"close", "commit"} /\ mu' = mu
      /\ next = "close" => todo[t] = <<>>
      /\ pc[t] = "close" => next = "commit" /\ t \notin cancelled
      /\ UNCHANGED <<state, queue, counters, cancelled, closed, todo, committed, view>>
      /\ t \in Goroutines /\ t \notin Callers
  BY DEF IInv, TypeOK, CopyEnds, Closes, Unabandoned, Goto, Quiet, Goroutines
<1>. HIDE DEF next
<1>1. TypeOK' /\ QueueInv' /\ SlotsInv' /\ ViewInv' /\ TodoInv' /\ WorkConserving'
  <2>1. mu' \in Goroutines \cup {Free}
    BY <1>0 DEF IInv, TypeOK
  <2>. QED
    BY <1>0, <2>1, MoveKeeps DEF CallerPC, RunnerPC
<1>2. PlaceInv'
  BY <1>0 DEF IInv, PlaceInv, Copying, Running, Over, Goroutines
<1>3. LaunchInv'
  BY <1>0 DEF IInv, LaunchInv, Launching
<1>4. ClosedInv'
  BY <1>0 DEF IInv, ClosedInv, Goroutines
<1>. QED
  BY <1>1, <1>2, <1>3, <1>4 DEF IInv

-----------------------------------------------------------------------------
(* The renderer takes in the first event of goroutine g.                   *)
LEMMA ShownIs ==
    ASSUME IInv, NEW g \in Goroutines, todo[g] # <<>>,
           view' = Shown(view, Head(todo[g])), todo' = [todo EXCEPT ![g] = Tail(@)],
           UNCHANGED <<state, closed>>
    PROVE  ViewInv' /\ view' \in [Tasks -> States] /\ todo' \in [Goroutines -> Seq(Event)]
<1>. DEFINE e == todo[g][1]
<1>1. /\ e.task \in Tasks /\ e.state \in States /\ view \in [Tasks -> States]
      /\ state \in [Tasks -> States] /\ todo \in [Goroutines -> Seq(Event)]
      /\ view' = Shown(view, e) /\ e = Told(e.task, e.state)
      /\ Len(todo[g]) \in Nat /\ Len(todo[g]) > 0
      /\ Len(Tail(todo[g])) = Len(todo[g]) - 1
      /\ \A i \in 1..(Len(todo[g]) - 1) : Tail(todo[g])[i] = todo[g][i + 1]
  <2>1. /\ view \in [Tasks -> States] /\ state \in [Tasks -> States]
        /\ todo \in [Goroutines -> Seq(Event)] /\ TypeOK
    BY DEF IInv, TypeOK
  <2>2. /\ Len(todo[g]) \in Nat /\ Len(todo[g]) > 0 /\ Head(todo[g]) = e
        /\ Len(Tail(todo[g])) = Len(todo[g]) - 1
        /\ \A i \in 1..(Len(todo[g]) - 1) : Tail(todo[g])[i] = todo[g][i + 1]
    BY <2>1, TodoIs
  <2>3. e.task \in Tasks /\ e.state \in States /\ e = Told(e.task, e.state)
    BY <2>1, <2>2, TodoIs
  <2>. QED
    BY <2>1, <2>2, <2>3
<1>2. todo' \in [Goroutines -> Seq(Event)]
  BY <1>1, TodoIs DEF IInv
<1>3. \A h \in Goroutines : \A i \in 1..Len(todo[h]) :
        h # g \/ i # 1 => \E j \in 1..Len(todo'[h]) : todo'[h][j] = todo[h][i]
  <2>. SUFFICES ASSUME NEW h \in Goroutines, NEW i \in 1..Len(todo[h]), h # g \/ i # 1
                PROVE  \E j \in 1..Len(todo'[h]) : todo'[h][j] = todo[h][i]
    OBVIOUS
  <2>1. CASE h # g
    BY <1>1, <2>1
  <2>2. CASE h = g
    <3>1. i - 1 \in 1..(Len(todo[g]) - 1) /\ (i - 1) + 1 = i
      BY <1>1, <2>2
    <3>2. Tail(todo[g])[i - 1] = todo[g][i]
      BY <1>1, <3>1
    <3>. QED
      BY <1>1, <2>2, <3>1, <3>2
  <2>. QED
    BY <2>1, <2>2
<1>4. \A h \in Goroutines : \A i \in 1..Len(todo'[h]) :
        \E j \in 1..Len(todo[h]) : todo'[h][i] = todo[h][j]
  <2>. SUFFICES ASSUME NEW h \in Goroutines, NEW i \in 1..Len(todo'[h])
                PROVE  \E j \in 1..Len(todo[h]) : todo'[h][i] = todo[h][j]
    OBVIOUS
  <2>1. CASE h # g
    BY <1>1, <2>1
  <2>2. CASE h = g
    BY <1>1, <2>2
  <2>. QED
    BY <2>1, <2>2
<1>5. \A t \in Tasks : view'[t] = IF t = e.task /\ ~(Rank(e.state) < Rank(view[t]))
                                  THEN e.state ELSE view[t]
  BY <1>1 DEF Shown
<1>6. view' \in [Tasks -> States]
  BY <1>1 DEF Shown
<1>7. NotAhead(e.state, e.task) /\ \A t \in Tasks : NotAhead(view[t], t)
  BY <1>1 DEF IInv, ViewInv
<1>8. \A t \in Tasks : NotAhead(view[t], t)'
  BY <1>5, <1>7 DEF NotAhead
<1>9. ASSUME ~closed, NEW t \in Tasks, state[t] # "cleared"
      PROVE  \/ view'[t] = state[t]
             \/ \E h \in Goroutines : \E i \in 1..Len(todo'[h]) : todo'[h][i] = Told(t, state[t])
  <2>1. \A s \in States : Rank(s) \in Nat
    BY Ranks
  <2>2. CASE view[t] = state[t]
    BY <1>1, <1>5, <1>7, <1>9, <2>1, <2>2 DEF NotAhead
  <2>3. CASE e = Told(t, state[t])
    <3>1. e.task = t /\ e.state = state[t]
      BY <2>3 DEF Told
    <3>. QED
      BY <1>1, <1>5, <1>7, <1>9, <2>1, <3>1 DEF NotAhead
  <2>4. CASE \E h \in Goroutines : \E i \in 1..Len(todo[h]) :
               (h # g \/ i # 1) /\ todo[h][i] = Told(t, state[t])
    <3>1. PICK h \in Goroutines : \E i \in 1..Len(todo[h]) :
            (h # g \/ i # 1) /\ todo[h][i] = Told(t, state[t])
      BY <2>4
    <3>2. PICK i \in 1..Len(todo[h]) : (h # g \/ i # 1) /\ todo[h][i] = Told(t, state[t])
      BY <3>1
    <3>3. \E j \in 1..Len(todo'[h]) : todo'[h][j] = todo[h][i]
      BY <1>3, <3>2
    <3>. QED
      BY <3>2, <3>3
  <2>. QED
    BY <1>9, <2>2, <2>3, <2>4 DEF IInv, ViewInv
<1>10. \A h \in Goroutines : \A i \in 1..Len(todo'[h]) :
         state[todo'[h][i].task] # "none" /\ NotAhead(todo'[h][i].state, todo'[h][i].task)
  <2>. SUFFICES ASSUME NEW h \in Goroutines, NEW i \in 1..Len(todo'[h])
                PROVE  state[todo'[h][i].task] # "none" /\ NotAhead(todo'[h][i].state, todo'[h][i].task)
    OBVIOUS
  <2>1. PICK j \in 1..Len(todo[h]) : todo'[h][i] = todo[h][j]
    BY <1>4
  <2>. QED
    BY <2>1 DEF IInv, ViewInv
<1>11. (\A h \in Goroutines : \A i \in 1..Len(todo[h]) :
          state[todo[h][i].task] # "none" /\ NotAhead(todo[h][i].state, todo[h][i].task))'
  <2>. SUFFICES ASSUME NEW h \in Goroutines, NEW i \in 1..Len(todo'[h])
                PROVE  (state[todo[h][i].task] # "none" /\ NotAhead(todo[h][i].state, todo[h][i].task))'
    OBVIOUS
  <2>1. state[todo'[h][i].task] # "none" /\ NotAhead(todo'[h][i].state, todo'[h][i].task)
    BY <1>10
  <2>2. state' = state
    OBVIOUS
  <2>. QED
    BY <2>1, <2>2 DEF NotAhead
<1>. QED
  BY <1>2, <1>6, <1>8, <1>9, <1>11 DEF ViewInv

(* What is left of the events of g are events it had.                      *)
LEMMA TailIs ==
    ASSUME IInv, NEW g \in Goroutines, todo[g] # <<>>, todo' = [todo EXCEPT ![g] = Tail(@)]
    PROVE  /\ \A h \in Goroutines : h # g => todo'[h] = todo[h]
           /\ Len(todo'[g]) = Len(todo[g]) - 1 /\ Len(todo[g]) \in Nat
           /\ \A i \in 1..Len(todo'[g]) : i + 1 \in 1..Len(todo[g]) /\ todo'[g][i] = todo[g][i + 1]
           /\ todo'[g] = <<>> <=> Len(todo[g]) = 1
<1>. DEFINE rest == Tail(todo[g])
            n    == Len(todo[g])
<1>1. todo'[g] = rest /\ \A h \in Goroutines : h # g => todo'[h] = todo[h]
  BY DEF IInv, TypeOK
<1>2. /\ n \in Nat /\ n > 0 /\ rest \in Seq(Event) /\ Len(rest) = n - 1
      /\ \A i \in 1..(n - 1) : rest[i] = todo[g][i + 1]
  BY TodoIs DEF IInv
<1>3. rest = <<>> <=> Len(rest) = 0
  BY <1>2, EmptySeq
<1>. HIDE DEF rest, n
<1>4. rest = <<>> <=> n = 1
  BY <1>2, <1>3
<1>5. \A i \in 1..(n - 1) : i + 1 \in 1..n /\ rest[i] = todo[g][i + 1]
  BY <1>2
<1>. QED
  BY <1>1, <1>2, <1>4, <1>5 DEF n

(* Goroutine g emits its first event.                                      *)
LEMMA EmitKeeps ==
    ASSUME IInv, NEW g \in Goroutines, Emit(g)
    PROVE  IInv'
<1>. USE DEF Emit
<1>0. \A h \in Goroutines : h # g => todo'[h] = todo[h]
  BY TailIs
<1>1. ViewInv' /\ view' \in [Tasks -> States] /\ todo' \in [Goroutines -> Seq(Event)]
  BY ShownIs
<1>2. TypeOK'
  BY <1>1 DEF IInv, TypeOK, counters
<1>3. QueueInv' /\ PlaceInv'
  BY DEF IInv, QueueInv, PlaceInv
<1>4. LaunchInv'
  BY <1>0 DEF IInv, LaunchInv, Launching
<1>5. TodoInv'
  BY <1>0 DEF IInv, TodoInv
<1>6. SlotsInv' /\ ClosedInv'
  BY SlotsKept DEF IInv, ClosedInv
<1>7. WorkConserving'
  BY DEF IInv, WorkConserving, CanPick, GlobalRoom, SessionFree, counters
<1>. QED
  BY <1>1, <1>2, <1>3, <1>4, <1>5, <1>6, <1>7 DEF IInv

(* Goroutine g starts the goroutine of the first task it has to launch.    *)
LEMMA LaunchKeeps ==
    ASSUME IInv, NEW g \in Goroutines, Launch(g)
    PROVE  IInv'
<1>. DEFINE r == todo[g][1].task
<1>0. todo[g] # <<>> /\ pc[g] = "launch" /\ Launching(g)
  BY DEF IInv, TodoInv, Launch, Launching
<1>1. /\ Head(todo[g]).task = r /\ r \in Tasks /\ r \in Goroutines /\ r \notin Callers /\ Len(todo[g]) > 0
      /\ Len(todo[g]) \in Nat /\ 1 \in 1..Len(todo[g])
  BY <1>0, TodoIs DEF IInv, Goroutines
<1>2. pc[r] = "none" /\ state[r] = "running" /\ r # g
  BY <1>0, <1>1 DEF IInv, LaunchInv
<1>3. /\ pc \in [Goroutines -> CallerPC \cup RunnerPC]
      /\ pc' = [pc EXCEPT ![r] = "start", ![g] = IF Len(todo[g]) = 1 THEN Returned(g) ELSE @]
  BY <1>1 DEF IInv, TypeOK, Launch
<1>. HIDE DEF r
<1>4. \A h \in Goroutines : pc'[h] = IF h = g THEN IF Len(todo[g]) = 1 THEN Returned(g) ELSE "launch"
                                     ELSE IF h = r THEN "start" ELSE pc[h]
  BY <1>0, <1>1, <1>2, <1>3
<1>5. Returned(g) \in {"idle", "done"} /\ (Returned(g) = "idle" <=> g \in Callers)
  BY DEF Returned
<1>6. ViewInv' /\ view' \in [Tasks -> States] /\ todo' \in [Goroutines -> Seq(Event)]
  BY <1>0, ShownIs DEF Launch
<1>7. /\ \A h \in Goroutines : h # g => todo'[h] = todo[h]
      /\ Len(todo'[g]) = Len(todo[g]) - 1
      /\ \A i \in 1..Len(todo'[g]) : i + 1 \in 1..Len(todo[g]) /\ todo'[g][i] = todo[g][i + 1]
      /\ todo'[g] = <<>> <=> Len(todo[g]) = 1
  BY <1>0, TailIs DEF Launch
<1>8. TypeOK'
  <2>1. pc' \in [Goroutines -> CallerPC \cup RunnerPC]
    BY <1>3, <1>5 DEF CallerPC, RunnerPC
  <2>2. \A u \in Callers : pc'[u] \in CallerPC
    <3>. SUFFICES ASSUME NEW u \in Callers PROVE pc'[u] \in CallerPC
      OBVIOUS
    <3>1. u \in Goroutines /\ u # r /\ pc[u] \in CallerPC
      BY <1>1 DEF IInv, TypeOK, Goroutines
    <3>. QED
      BY <1>4, <1>5, <3>1 DEF CallerPC
  <2>3. \A t \in Tasks : pc'[t] \in RunnerPC
    BY <1>4, <1>5 DEF IInv, TypeOK, RunnerPC, Goroutines
  <2>. QED
    BY <1>6, <2>1, <2>2, <2>3 DEF IInv, TypeOK, Launch, counters
<1>9. QueueInv' /\ SlotsInv'
  BY SlotsKept DEF IInv, QueueInv, Launch
<1>10. PlaceInv'
  <2>1. UNCHANGED <<state, cancelled, committed>>
    BY DEF Launch
  <2>. SUFFICES ASSUME NEW t \in Tasks
                PROVE  /\ state[t] \in {"none", "queued"} => pc'[t] = "none"
                       /\ pc'[t] \in Copying => state[t] = "running"
                       /\ pc'[t] = "commit" => state[t] \in Running
                       /\ state[t] = "finalizing" => pc'[t] = "commit"
                       /\ pc'[t] \in Over => state[t] \in Dead
                       /\ t \in cancelled => state[t] \in Running
                       /\ t \in committed => state[t] = "succeeded"
    BY <2>1 DEF PlaceInv
  <2>2. t \in Goroutines /\ t \notin Callers
    BY DEF Goroutines
  <2>3. CASE t = g
    <3>1. pc'[t] \in {"done", "launch"}
      BY <1>4, <1>5, <2>2, <2>3
    <3>. QED
      BY <1>0, <2>3, <3>1 DEF IInv, PlaceInv, Copying, Over
  <2>4. CASE t = r
    BY <1>2, <1>4, <2>2, <2>4 DEF IInv, PlaceInv, Copying, Over
  <2>5. CASE t # g /\ t # r
    BY <1>4, <2>2, <2>5 DEF IInv, PlaceInv
  <2>. QED
    BY <2>3, <2>4, <2>5
<1>11. LaunchInv'
  <2>1. \A h \in Goroutines : Launching(h)' => Launching(h)
    BY <1>0, <1>4, <1>5 DEF Launching
  <2>2. \A h \in Goroutines : Launching(h) => \A i \in 1..Len(todo'[h]) :
          \E j \in 1..Len(todo[h]) : /\ todo'[h][i] = todo[h][j] /\ (h = g => j = i + 1)
                                     /\ (h # g => j = i) /\ todo[h][j].task # r
    <3>. SUFFICES ASSUME NEW h \in Goroutines, Launching(h), NEW i \in 1..Len(todo'[h])
                  PROVE  \E j \in 1..Len(todo[h]) :
                           /\ todo'[h][i] = todo[h][j] /\ (h = g => j = i + 1)
                           /\ (h # g => j = i) /\ todo[h][j].task # r
      OBVIOUS
    <3>1. \A j \in 1..Len(todo[h]) : h # g \/ j # 1 => todo[h][j].task # r
      BY <1>0, <1>1 DEF IInv, LaunchInv, r
    <3>2. CASE h = g
      BY <1>7, <3>1, <3>2
    <3>3. CASE h # g
      BY <1>7, <3>1, <3>3
    <3>. QED
      BY <3>2, <3>3
  <2>3. ASSUME NEW h \in Goroutines, Launching(h)', NEW i \in 1..Len(todo'[h])
        PROVE  /\ todo'[h][i] = Told(todo'[h][i].task, "running")
               /\ state'[todo'[h][i].task] = "running" /\ pc'[todo'[h][i].task] = "none"
    <3>1. PICK j \in 1..Len(todo[h]) : todo'[h][i] = todo[h][j] /\ todo[h][j].task # r
      BY <2>1, <2>2, <2>3
    <3>2. /\ todo[h][j] = Told(todo[h][j].task, "running") /\ todo[h][j].task \in Tasks
          /\ state[todo[h][j].task] = "running" /\ pc[todo[h][j].task] = "none"
      BY <2>1, <2>3, TodoIs DEF IInv, LaunchInv
    <3>. QED
      BY <1>0, <1>4, <3>1, <3>2 DEF Launch, Goroutines
  <2>4. ASSUME NEW h \in Goroutines, NEW k \in Goroutines, Launching(h)', Launching(k)',
               NEW i \in 1..Len(todo'[h]), NEW j \in 1..Len(todo'[k]),
               todo'[h][i].task = todo'[k][j].task
        PROVE  h = k /\ i = j
    <3>1. PICK a \in 1..Len(todo[h]) :
            todo'[h][i] = todo[h][a] /\ (h = g => a = i + 1) /\ (h # g => a = i)
      BY <2>1, <2>2, <2>4
    <3>2. PICK b \in 1..Len(todo[k]) :
            todo'[k][j] = todo[k][b] /\ (k = g => b = j + 1) /\ (k # g => b = j)
      BY <2>1, <2>2, <2>4
    <3>3. todo[h][a].task = todo[k][b].task /\ Launching(h) /\ Launching(k)
      BY <2>1, <2>4, <3>1, <3>2
    <3>5. h = k /\ a = b
      BY <3>3 DEF IInv, LaunchInv
    <3>4. Len(todo'[h]) \in Nat /\ Len(todo'[k]) \in Nat
      BY <1>6, LenProperties
    <3>. QED
      BY <3>1, <3>2, <3>4, <3>5
  <2>. QED
    BY <2>3, <2>4 DEF LaunchInv, Launching
<1>12. TodoInv'
  BY <1>2, <1>4, <1>5, <1>7 DEF IInv, TodoInv
<1>13. ClosedInv'
  <2>1. \A u \in Callers : pc'[u] \in {"join", "joined"} => pc'[u] = pc[u]
    BY <1>1, <1>4, <1>5 DEF Goroutines
  <2>2. \A t \in Tasks : pc'[t] \in {"copy", "close", "commit"} => pc'[t] = pc[t]
    BY <1>1, <1>4, <1>5 DEF Goroutines
  <2>. QED
    BY <2>1, <2>2 DEF IInv, ClosedInv, Launch
<1>14. WorkConserving'
  <2>1. CanPick' = CanPick
    BY DEF CanPick, GlobalRoom, SessionFree, counters, Launch
  <2>. QED
    BY <1>0, <1>2, <1>4, <2>1 DEF IInv, WorkConserving
<1>. QED
  BY <1>6, <1>8, <1>9, <1>10, <1>11, <1>12, <1>13, <1>14 DEF IInv

-----------------------------------------------------------------------------
(* States advance, and goroutine g is to tell the states reached, unless   *)
(* the manager is closed.                                                  *)
LEMMA Advance ==
    ASSUME IInv, state' \in [Tasks -> States], todo' \in [Goroutines -> Seq(Event)],
           NEW g \in Goroutines, UNCHANGED view, closed => closed',
           \A t \in Tasks : \/ state'[t] = state[t]
                            \/ state[t] # "cleared" /\ Rank(state[t]) < Rank(state'[t]),
           \A h \in Goroutines : h # g => todo'[h] = todo[h],
           \A i \in 1..Len(todo[g]) : i \in 1..Len(todo'[g]) /\ todo'[g][i] = todo[g][i],
           \A i \in 1..Len(todo'[g]) :
             i \in 1..Len(todo[g]) \/ todo'[g][i].state = state'[todo'[g][i].task],
           closed' \/ \A t \in Tasks : \/ state'[t] = state[t]
                                       \/ \E i \in 1..Len(todo'[g]) : todo'[g][i] = Told(t, state'[t])
    PROVE  ViewInv'
<1>1. \A s \in States : Rank(s) \in Nat /\ (s = "none" => Rank(s) = 0)
  BY Ranks
<1>2. state \in [Tasks -> States] /\ view \in [Tasks -> States]
  BY DEF IInv, TypeOK
<1>3. \A s \in States : \A t \in Tasks : NotAhead(s, t) =>
        \/ state'[t] = "cleared" \/ Rank(s) < Rank(state'[t]) \/ s = state'[t]
  BY <1>1, <1>2 DEF NotAhead
<1>4. \A t \in Tasks : NotAhead(view[t], t)'
  BY <1>2, <1>3 DEF IInv, ViewInv, NotAhead
<1>5. ASSUME NEW h \in Goroutines, NEW i \in 1..Len(todo'[h])
      PROVE  (state[todo[h][i].task] # "none" /\ NotAhead(todo[h][i].state, todo[h][i].task))'
  <2>1. /\ todo'[h][i] \in Event /\ todo'[h][i].task \in Tasks
        /\ todo'[h][i].state \in States \ {"none"}
    <3>1. todo'[h][i] \in Event
      BY ElementOfSeq
    <3>. QED
      BY <3>1 DEF Event
  <2>2. CASE i \in 1..Len(todo[h]) /\ todo'[h][i] = todo[h][i]
    <3>1. state[todo[h][i].task] # "none" /\ NotAhead(todo[h][i].state, todo[h][i].task)
      BY <2>2 DEF IInv, ViewInv
    <3>2. /\ state'[todo'[h][i].task] # "none"
          /\ \/ state'[todo'[h][i].task] = "cleared"
             \/ Rank(todo'[h][i].state) < Rank(state'[todo'[h][i].task])
             \/ todo'[h][i].state = state'[todo'[h][i].task]
      BY <1>1, <1>2, <1>3, <2>1, <2>2, <3>1
    <3>. QED
      BY <3>2 DEF NotAhead
  <2>3. CASE todo'[h][i].state = state'[todo'[h][i].task]
    BY <2>1, <2>3 DEF NotAhead
  <2>. QED
    BY <2>2, <2>3
<1>6. ASSUME ~closed', NEW t \in Tasks, state'[t] # "cleared", view'[t] # state'[t]
      PROVE  \E h \in Goroutines : \E i \in 1..Len(todo'[h]) : todo'[h][i] = Told(t, state'[t])
  <2>1. CASE state'[t] # state[t]
    BY <1>6, <2>1
  <2>2. CASE state'[t] = state[t]
    <3>1. PICK h \in Goroutines : \E i \in 1..Len(todo[h]) : todo[h][i] = Told(t, state[t])
      BY <1>6, <2>2 DEF IInv, ViewInv
    <3>2. PICK i \in 1..Len(todo[h]) : todo[h][i] = Told(t, state[t])
      BY <3>1
    <3>3. i \in 1..Len(todo'[h]) /\ todo'[h][i] = todo[h][i]
      OBVIOUS
    <3>. QED
      BY <2>2, <3>2, <3>3
  <2>. QED
    BY <2>1, <2>2
<1>. QED
  BY <1>4, <1>5, <1>6 DEF ViewInv

(* The same, where g had no event to emit and now has those of es.         *)
LEMMA AdvanceBy ==
    ASSUME IInv, state' \in [Tasks -> States],
           NEW g \in Goroutines, todo[g] = <<>>,
           NEW es \in Seq(Event), todo' = [todo EXCEPT ![g] = es],
           UNCHANGED view, closed => closed',
           \A t \in Tasks : \/ state'[t] = state[t]
                            \/ state[t] # "cleared" /\ Rank(state[t]) < Rank(state'[t]),
           \A i \in 1..Len(es) : es[i].state = state'[es[i].task],
           closed' \/ \A t \in Tasks : \/ state'[t] = state[t]
                                       \/ \E i \in 1..Len(es) : es[i] = Told(t, state'[t])
    PROVE  ViewInv' /\ todo' \in [Goroutines -> Seq(Event)]
<1>1. /\ todo \in [Goroutines -> Seq(Event)] /\ todo' \in [Goroutines -> Seq(Event)]
      /\ todo'[g] = es /\ \A h \in Goroutines : h # g => todo'[h] = todo[h]
  BY DEF IInv, TypeOK
<1>2. \A i \in 1..Len(todo[g]) : FALSE
  OBVIOUS
<1>. QED
  BY <1>1, <1>2, Advance

(* One event makes a sequence.                                             *)
LEMMA OneEvent ==
    ASSUME NEW e \in Event
    PROVE  <<e>> \in Seq(Event) /\ Len(<<e>>) = 1 /\ <<e>>[1] = e /\ <<e>> # <<>>
  OBVIOUS

(* A task takes a slot and is to be launched by goroutine g.               *)
LEMMA PickKeeps ==
    ASSUME IInv, NEW g \in Goroutines, Pick(g)
    PROVE  IInv'
<1>1. PICK i \in 1..Len(queue) :
        /\ SessionFree(i) /\ queue' = Without(i)
        /\ state' = [state EXCEPT ![queue[i]] = "running"]
        /\ runningSession' = [runningSession EXCEPT ![SessionOf(queue[i])] = @ + 1]
        /\ todo' = [todo EXCEPT ![g] = Append(@, Told(queue[i], "running"))]
        /\ runningGlobal' = runningGlobal + 1
  BY DEF Pick
<1>. DEFINE t == queue[i]
            e == Told(t, "running")
            n == Len(todo[g])
<1>2. /\ UNCHANGED <<cancelled, closed, mu, pc, committed, view>> /\ pc[g] = "pick"
      /\ ~closed /\ GlobalRoom
  BY DEF Pick, CanPick
<1>3. /\ t \in Tasks /\ t \in Goroutines /\ state[t] = "queued" /\ pc[t] = "none"
      /\ \A j \in 1..Len(queue) : queue[j] \in Tasks
  BY ElementOfSeq DEF IInv, TypeOK, QueueInv, PlaceInv, Goroutines
<1>4. /\ e \in Event /\ e.task = t /\ e.state = "running" /\ e = Told(t, "running")
  BY <1>3, ToldIsEvent DEF States, Running
<1>5. /\ todo'[g] = Append(todo[g], e) /\ todo' \in [Goroutines -> Seq(Event)]
      /\ \A h \in Goroutines : h # g => todo'[h] = todo[h]
  BY <1>1, <1>4, AppendProperties DEF IInv, TypeOK
<1>6. /\ n \in Nat /\ Len(todo'[g]) = n + 1 /\ todo'[g][n + 1] = e /\ todo'[g] # <<>>
      /\ \A j \in 1..n : todo'[g][j] = todo[g][j]
  BY <1>4, <1>5, TodoIs, AppendProperties DEF IInv
<1>7. /\ state \in [Tasks -> States] /\ state' \in [Tasks -> States] /\ state'[t] = "running"
      /\ \A x \in Tasks : x # t => state'[x] = state[x]
  BY <1>1, <1>3 DEF IInv, TypeOK, States, Running
<1>. HIDE DEF t, e, n
<1>8. QueueInv'
  <2>1. /\ \A j \in 1..Len(queue') : queue'[j] # t /\ state[queue'[j]] = "queued" /\ queue'[j] \in Tasks
        /\ \A j, k \in 1..Len(queue') : queue'[j] = queue'[k] => j = k
    BY <1>1, WithoutQueued, ElementOfSeq DEF IInv, t
  <2>. QED
    BY <1>2, <1>7, <2>1 DEF QueueInv
<1>9. SlotsInv' /\ runningGlobal' \in Nat /\ runningSession' \in [Sessions -> Nat]
  <2>1. /\ state[t] \notin Running /\ state' = [state EXCEPT ![t] = "running"]
        /\ runningSession[SessionOf(t)] < MaxSession
        /\ runningSession' = [runningSession EXCEPT ![SessionOf(t)] = @ + 1]
    BY <1>1, <1>3 DEF Running, SessionFree, t
  <2>. QED
    BY <1>1, <1>2, <1>3, <2>1, SlotTaken DEF IInv
<1>10. TypeOK'
  <2>1. queue' \in Seq(Tasks)
    BY <1>1, WithoutIs DEF IInv, TypeOK
  <2>. QED
    BY <1>2, <1>5, <1>7, <1>9, <2>1 DEF IInv, TypeOK
<1>11. PlaceInv'
  BY <1>2, <1>3, <1>7 DEF IInv, PlaceInv, Copying, Running, Over, Goroutines
<1>12. LaunchInv'
  <2>1. \A h \in Goroutines : Launching(h)' <=> Launching(h)
    BY <1>2 DEF Launching
  <2>2. \A h \in Goroutines : Launching(h) => \A j \in 1..Len(todo[h]) :
          /\ todo[h][j] = Told(todo[h][j].task, "running") /\ todo[h][j].task \in Tasks
          /\ state'[todo[h][j].task] = "running" /\ pc[todo[h][j].task] = "none"
          /\ todo[h][j].task # t
    <3>1. \A h \in Goroutines : Launching(h) => \A j \in 1..Len(todo[h]) :
            /\ todo[h][j] = Told(todo[h][j].task, "running") /\ todo[h][j].task \in Tasks
            /\ state[todo[h][j].task] = "running" /\ pc[todo[h][j].task] = "none"
      BY TodoIs DEF IInv, LaunchInv
    <3>. QED
      BY <1>3, <1>7, <3>1
  <2>3. ASSUME NEW h \in Goroutines, Launching(h), NEW j \in 1..Len(todo'[h])
        PROVE  /\ todo'[h][j] = Told(todo'[h][j].task, "running")
               /\ state'[todo'[h][j].task] = "running" /\ pc'[todo'[h][j].task] = "none"
               /\ \/ j \in 1..Len(todo[h]) /\ todo'[h][j] = todo[h][j]
                  \/ h = g /\ j = n + 1 /\ todo'[h][j] = e
    <3>1. \/ j \in 1..Len(todo[h]) /\ todo'[h][j] = todo[h][j]
          \/ h = g /\ j = n + 1 /\ todo'[h][j] = e
      BY <1>5, <1>6 DEF n
    <3>. QED
      BY <1>2, <1>3, <1>4, <1>7, <2>2, <2>3, <3>1
  <2>4. ASSUME NEW h \in Goroutines, NEW k \in Goroutines, Launching(h), Launching(k),
               NEW a \in 1..Len(todo'[h]), NEW b \in 1..Len(todo'[k]),
               todo'[h][a].task = todo'[k][b].task
        PROVE  h = k /\ a = b
    <3>1. CASE /\ a \in 1..Len(todo[h]) /\ todo'[h][a] = todo[h][a]
               /\ b \in 1..Len(todo[k]) /\ todo'[k][b] = todo[k][b]
      <4>1. todo[h][a].task = todo[k][b].task
        BY <2>4, <3>1
      <4>. QED
        BY <2>4, <3>1, <4>1 DEF IInv, LaunchInv
    <3>2. CASE /\ a \in 1..Len(todo[h]) /\ todo'[h][a] = todo[h][a]
               /\ k = g /\ b = n + 1 /\ todo'[k][b] = e
      BY <1>4, <2>2, <2>4, <3>2
    <3>3. CASE /\ h = g /\ a = n + 1 /\ todo'[h][a] = e
               /\ b \in 1..Len(todo[k]) /\ todo'[k][b] = todo[k][b]
      BY <1>4, <2>2, <2>4, <3>3
    <3>. QED
      BY <2>3, <2>4, <3>1, <3>2, <3>3
  <2>. QED
    BY <2>1, <2>3, <2>4 DEF LaunchInv
<1>13. TodoInv'
  BY <1>2, <1>5, <1>6 DEF IInv, TodoInv
<1>14. ClosedInv'
  BY <1>2 DEF IInv, ClosedInv
<1>15. ViewInv'
  <2>1. Rank("queued") < Rank("running")
    BY Ranks
  <2>2. \A j \in 1..Len(todo'[g]) : j \in 1..Len(todo[g]) \/ todo'[g][j].state = state'[todo'[g][j].task]
    BY <1>4, <1>6, <1>7 DEF n
  <2>3. n + 1 \in 1..Len(todo'[g]) /\ todo'[g][n + 1] = Told(t, state'[t])
    BY <1>4, <1>6, <1>7
  <2>4. \A x \in Tasks : \/ state'[x] = state[x]
                         \/ \E j \in 1..Len(todo'[g]) : todo'[g][j] = Told(x, state'[x])
    BY <1>7, <2>3
  <2>5. \A j \in 1..Len(todo[g]) : j \in 1..Len(todo'[g]) /\ todo'[g][j] = todo[g][j]
    BY <1>6 DEF n
  <2>6. \A x \in Tasks : \/ state'[x] = state[x]
                         \/ state[x] # "cleared" /\ Rank(state[x]) < Rank(state'[x])
    BY <1>3, <1>7, <2>1
  <2>. QED
    BY <1>2, <1>5, <1>7, <2>2, <2>4, <2>5, <2>6, Advance
<1>16. WorkConserving'
  BY <1>2 DEF WorkConserving
<1>. QED
  BY <1>8, <1>9, <1>10, <1>11, <1>12, <1>13, <1>14, <1>15, <1>16 DEF IInv

-----------------------------------------------------------------------------
(* Goroutine g, which launches nothing, moves on with the events es.       *)
LEMMA GoesOn ==
    ASSUME IInv, NEW g \in Goroutines, pc[g] # "none", ~Launching(g),
           NEW next \in CallerPC \cup RunnerPC, next \notin {"pick", "launch"},
           pc' = [pc EXCEPT ![g] = next],
           NEW es, todo' = [todo EXCEPT ![g] = es],
           next \in {"idle", "joined", "none", "start", "close", "done"} => es = <<>>,
           \A x \in Tasks : x # g /\ state[x] = "running" => state'[x] = "running"
    PROVE  /\ LaunchInv' /\ TodoInv'
           /\ pc' \in [Goroutines -> CallerPC \cup RunnerPC]
           /\ \A h \in Goroutines : pc'[h] = IF h = g THEN next ELSE pc[h]
<1>1. /\ pc' \in [Goroutines -> CallerPC \cup RunnerPC]
      /\ \A h \in Goroutines : pc'[h] = IF h = g THEN next ELSE pc[h]
      /\ todo'[g] = es /\ \A h \in Goroutines : h # g => todo'[h] = todo[h]
  BY DEF IInv, TypeOK
<1>2. TodoInv'
  BY <1>1 DEF IInv, TodoInv
<1>3. \A h \in Goroutines : Launching(h)' => h # g /\ Launching(h) /\ todo'[h] = todo[h]
  BY <1>1 DEF Launching
<1>4. \A h \in Goroutines : Launching(h) => \A j \in 1..Len(todo[h]) :
        /\ todo[h][j].task \in Tasks /\ todo[h][j].task \in Goroutines
        /\ todo[h][j] = Told(todo[h][j].task, "running")
        /\ state[todo[h][j].task] = "running" /\ pc[todo[h][j].task] = "none"
  BY TodoIs DEF IInv, LaunchInv, Goroutines
<1>5. ASSUME NEW h \in Goroutines, Launching(h)', NEW j \in 1..Len(todo'[h])
      PROVE  /\ todo'[h][j] = Told(todo'[h][j].task, "running")
             /\ state'[todo'[h][j].task] = "running" /\ pc'[todo'[h][j].task] = "none"
  BY <1>1, <1>3, <1>4, <1>5
<1>6. ASSUME NEW h \in Goroutines, NEW k \in Goroutines, Launching(h)', Launching(k)',
             NEW a \in 1..Len(todo'[h]), NEW b \in 1..Len(todo'[k]),
             todo'[h][a].task = todo'[k][b].task
      PROVE  h = k /\ a = b
  <2>1. /\ Launching(h) /\ Launching(k) /\ todo'[h] = todo[h] /\ todo'[k] = todo[k]
    BY <1>3, <1>6
  <2>. QED
    BY <1>6, <2>1 DEF IInv, LaunchInv
<1>7. LaunchInv'
  BY <1>5, <1>6 DEF LaunchInv
<1>. QED
  BY <1>1, <1>2, <1>7

(* The context of a running task is cancelled.                             *)
LEMMA CancelRunningKeeps ==
    ASSUME IInv, NEW t \in Tasks, CancelRunning(t)
    PROVE  IInv'
<1>. USE DEF CancelRunning
<1>1. TypeOK' /\ QueueInv' /\ PlaceInv' /\ TodoInv'
  BY DEF IInv, TypeOK, QueueInv, PlaceInv, TodoInv, counters, Running
<1>2. LaunchInv' /\ ClosedInv'
  BY DEF IInv, LaunchInv, Launching, ClosedInv
<1>3. SlotsInv'
  BY SlotsKept DEF IInv
<1>4. ViewInv'
  BY DEF IInv, ViewInv, NotAhead
<1>5. WorkConserving'
  BY DEF IInv, WorkConserving, CanPick, GlobalRoom, SessionFree, counters
<1>. QED
  BY <1>1, <1>2, <1>3, <1>4, <1>5 DEF IInv

(* Tasks ts, which no one knows yet, are queued.                           *)
LEMMA EnqueueKeeps ==
    ASSUME IInv, NEW u \in Callers, NEW ts \in Batches, Enqueue(u, ts)
    PROVE  IInv'
<1>. DEFINE es == [i \in 1..Len(ts) |-> Told(ts[i], "queued")]
            New(t) == \E i \in 1..Len(ts) : ts[i] = t
<1>1. /\ ts \in Seq(Tasks) /\ Len(ts) \in {1, 2}
      /\ \A i, j \in 1..Len(ts) : ts[i] = ts[j] => i = j
  <2>1. CASE \E t \in Tasks : ts = <<t>>
    BY <2>1
  <2>2. CASE \E p \in Tasks \X Tasks : p[1] # p[2] /\ ts = <<p[1], p[2]>>
    BY <2>2
  <2>. QED
    BY <2>1, <2>2 DEF Batches
<1>2. /\ u \in Goroutines /\ u \notin Tasks /\ pc[u] = "idle" /\ todo[u] = <<>> /\ ~Launching(u)
      /\ ~closed /\ queue' = queue \o ts
      /\ state' = [t \in Tasks |-> IF New(t) THEN "queued" ELSE state[t]]
      /\ pc' = [pc EXCEPT ![u] = "schedule"] /\ todo' = [todo EXCEPT ![u] = es]
      /\ UNCHANGED <<counters, cancelled, closed, mu, committed, view>>
  BY DEF IInv, TodoInv, Enqueue, Ready, ThenEmit, Launching, Goroutines
<1>3. /\ \A i \in 1..Len(ts) : ts[i] \in Tasks
      /\ \A t \in Tasks : New(t) => state[t] = "none"
  BY <1>1, ElementOfSeq DEF Enqueue
<1>4. /\ es \in Seq(Event) /\ Len(es) = Len(ts)
      /\ \A i \in 1..Len(ts) : es[i] = Told(ts[i], "queued") /\ es[i].task = ts[i] /\ es[i].state = "queued"
  <2>1. \A i \in 1..Len(ts) : /\ Told(ts[i], "queued") \in Event /\ Told(ts[i], "queued").task = ts[i]
                              /\ Told(ts[i], "queued").state = "queued"
    BY <1>3, ToldIsEvent DEF States
  <2>2. Len(ts) \in Nat
    BY <1>1
  <2>. QED
    BY <2>1, <2>2
<1>5. /\ state \in [Tasks -> States] /\ state' \in [Tasks -> States]
      /\ \A t \in Tasks : state'[t] = IF New(t) THEN "queued" ELSE state[t]
  BY <1>2 DEF IInv, TypeOK, States
<1>. HIDE DEF es
<1>6. QueueInv'
  <2>1. /\ queue \in Seq(Tasks) /\ Len(queue) \in Nat /\ Len(queue') = Len(queue) + Len(ts)
        /\ \A i \in 1..Len(queue') : queue'[i] = IF i <= Len(queue) THEN queue[i] ELSE ts[i - Len(queue)]
        /\ \A i \in 1..Len(queue) : queue[i] \in Tasks /\ state[queue[i]] = "queued"
    BY <1>1, <1>2, ConcatProperties, LenProperties, ElementOfSeq DEF IInv, TypeOK, QueueInv
  <2>2. \A i \in 1..Len(queue') : \/ i \in 1..Len(queue) /\ queue'[i] = queue[i]
                                  \/ i - Len(queue) \in 1..Len(ts) /\ queue'[i] = ts[i - Len(queue)]
    BY <1>1, <2>1
  <2>3. ASSUME NEW i \in 1..Len(queue') PROVE state'[queue'[i]] = "queued"
    BY <1>3, <1>5, <2>1, <2>2
  <2>4. ASSUME NEW i \in 1..Len(queue'), NEW j \in 1..Len(queue'), queue'[i] = queue'[j]
        PROVE  i = j
    <3>1. CASE i \in 1..Len(queue) /\ j \in 1..Len(queue) /\ queue'[i] = queue[i] /\ queue'[j] = queue[j]
      BY <2>4, <3>1 DEF IInv, QueueInv
    <3>2. CASE /\ i - Len(queue) \in 1..Len(ts) /\ queue'[i] = ts[i - Len(queue)]
               /\ j - Len(queue) \in 1..Len(ts) /\ queue'[j] = ts[j - Len(queue)]
      <4>1. i - Len(queue) = j - Len(queue)
        BY <1>1, <2>4, <3>2
      <4>. QED
        BY <2>1, <4>1, LenProperties
    <3>. QED
      BY <1>3, <2>1, <2>2, <2>4, <3>1, <3>2
  <2>. QED
    BY <1>2, <2>3, <2>4 DEF QueueInv
<1>7. SlotsInv'
  BY <1>2, <1>3, <1>5, SlotsKept DEF IInv, Running
<1>8. /\ LaunchInv' /\ TodoInv' /\ pc' \in [Goroutines -> CallerPC \cup RunnerPC]
      /\ \A h \in Goroutines : pc'[h] = IF h = u THEN "schedule" ELSE pc[h]
  <2>1. \A x \in Tasks : x # u /\ state[x] = "running" => state'[x] = "running"
    BY <1>3, <1>5
  <2>2. pc[u] # "none" /\ "schedule" \in CallerPC \cup RunnerPC
    BY <1>2 DEF CallerPC
  <2>3. /\ u \in Goroutines /\ ~Launching(u) /\ pc' = [pc EXCEPT ![u] = "schedule"]
        /\ todo' = [todo EXCEPT ![u] = es]
    BY <1>2
  <2>. QED
    BY <2>1, <2>2, <2>3, GoesOn
<1>9. ViewInv' /\ todo' \in [Goroutines -> Seq(Event)]
  <2>1. \A t \in Tasks : \/ state'[t] = state[t]
                         \/ state[t] # "cleared" /\ Rank(state[t]) < Rank(state'[t])
    BY <1>3, <1>5, Ranks
  <2>2. \A i \in 1..Len(es) : es[i].state = state'[es[i].task]
    BY <1>3, <1>4, <1>5
  <2>3. \A t \in Tasks : state'[t] = state[t] \/ \E i \in 1..Len(es) : es[i] = Told(t, state'[t])
    BY <1>3, <1>4, <1>5
  <2>. QED
    BY <1>2, <1>4, <1>5, <2>1, <2>2, <2>3, AdvanceBy
<1>10. TypeOK'
  <2>1. queue' \in Seq(Tasks)
    BY <1>1, <1>2, ConcatProperties DEF IInv, TypeOK
  <2>2. \A v \in Callers : pc'[v] \in CallerPC
    BY <1>8 DEF IInv, TypeOK, CallerPC, Goroutines
  <2>3. \A t \in Tasks : pc'[t] \in RunnerPC
    BY <1>2, <1>8 DEF IInv, TypeOK, Goroutines
  <2>. QED
    BY <1>2, <1>5, <1>8, <1>9, <2>1, <2>2, <2>3 DEF IInv, TypeOK, counters
<1>11. PlaceInv'
  BY <1>2, <1>3, <1>5, <1>8 DEF IInv, PlaceInv, Copying, Running, Over, Dead, Terminal, Goroutines
<1>12. ClosedInv'
  BY <1>2, <1>5, <1>8 DEF IInv, ClosedInv, Goroutines
<1>13. WorkConserving'
  BY <1>2, <1>8 DEF WorkConserving
<1>. QED
  BY <1>6, <1>7, <1>8, <1>9, <1>10, <1>11, <1>12, <1>13 DEF IInv

(* A queued task leaves the queue.                                         *)
LEMMA CancelQueuedKeeps ==
    ASSUME IInv, NEW u \in Callers, NEW t \in Tasks, CancelQueued(u, t)
    PROVE  IInv'
<1>. DEFINE e == Told(t, "cancelled")
<1>1. /\ u \in Goroutines /\ u \notin Tasks /\ pc[u] = "idle" /\ todo[u] = <<>> /\ ~Launching(u)
      /\ state[t] = "queued" /\ state' = [state EXCEPT ![t] = "cancelled"]
      /\ pc' = [pc EXCEPT ![u] = "schedule"] /\ todo' = [todo EXCEPT ![u] = <<e>>]
      /\ UNCHANGED <<counters, cancelled, closed, mu, committed, view>>
  BY DEF IInv, TodoInv, CancelQueued, Ready, ThenEmit, Launching, Goroutines
<1>2. PICK i \in 1..Len(queue) : queue[i] = t /\ queue' = Without(i)
  BY DEF CancelQueued
<1>3. /\ <<e>> \in Seq(Event) /\ Len(<<e>>) = 1 /\ <<e>>[1] = e
      /\ e = Told(t, "cancelled") /\ e.task = t /\ e.state = "cancelled"
  BY ToldIsEvent, OneEvent DEF States, Terminal
<1>4. /\ state \in [Tasks -> States] /\ state' \in [Tasks -> States]
      /\ \A x \in Tasks : state'[x] = IF x = t THEN "cancelled" ELSE state[x]
  BY <1>1 DEF IInv, TypeOK, States, Terminal
<1>. HIDE DEF e
<1>5. QueueInv'
  <2>1. /\ \A j \in 1..Len(queue') : queue'[j] # t /\ state[queue'[j]] = "queued" /\ queue'[j] \in Tasks
        /\ \A j, k \in 1..Len(queue') : queue'[j] = queue'[k] => j = k
    BY <1>2, WithoutQueued, ElementOfSeq DEF IInv
  <2>. QED
    BY <1>1, <1>4, <2>1 DEF IInv, QueueInv
<1>6. SlotsInv'
  BY <1>1, <1>4, SlotsKept DEF IInv, Running
<1>7. /\ LaunchInv' /\ TodoInv' /\ pc' \in [Goroutines -> CallerPC \cup RunnerPC]
      /\ \A h \in Goroutines : pc'[h] = IF h = u THEN "schedule" ELSE pc[h]
  <2>1. \A x \in Tasks : x # u /\ state[x] = "running" => state'[x] = "running"
    BY <1>1, <1>4
  <2>2. pc[u] # "none" /\ "schedule" \in CallerPC \cup RunnerPC
    BY <1>1 DEF CallerPC
  <2>. QED
    BY <1>1, <2>1, <2>2, GoesOn
<1>8. ViewInv' /\ todo' \in [Goroutines -> Seq(Event)]
  <2>1. Rank("queued") < Rank("cancelled")
    BY Ranks DEF Terminal
  <2>2. \A x \in Tasks : \/ state'[x] = state[x]
                         \/ state[x] # "cleared" /\ Rank(state[x]) < Rank(state'[x])
    BY <1>1, <1>4, <2>1
  <2>3. \A j \in 1..Len(<<e>>) : <<e>>[j].state = state'[<<e>>[j].task]
    BY <1>3, <1>4
  <2>4. \A x \in Tasks : state'[x] = state[x] \/ \E j \in 1..Len(<<e>>) : <<e>>[j] = Told(x, state'[x])
    BY <1>3, <1>4
  <2>. QED
    BY <1>1, <1>3, <1>4, <2>2, <2>3, <2>4, AdvanceBy
<1>9. TypeOK'
  <2>1. queue' \in Seq(Tasks)
    BY <1>2, WithoutIs DEF IInv, TypeOK
  <2>2. \A v \in Callers : pc'[v] \in CallerPC
    BY <1>7 DEF IInv, TypeOK, CallerPC, Goroutines
  <2>3. \A x \in Tasks : pc'[x] \in RunnerPC
    BY <1>1, <1>7 DEF IInv, TypeOK, Goroutines
  <2>. QED
    BY <1>1, <1>4, <1>7, <1>8, <2>1, <2>2, <2>3 DEF IInv, TypeOK, counters
<1>10. PlaceInv'
  BY <1>1, <1>4, <1>7 DEF IInv, PlaceInv, Copying, Running, Over, Dead, Terminal, Goroutines
<1>11. ClosedInv'
  BY <1>1, <1>4, <1>7 DEF IInv, ClosedInv, Goroutines
<1>12. WorkConserving'
  BY <1>1, <1>7 DEF WorkConserving
<1>. QED
  BY <1>5, <1>6, <1>7, <1>8, <1>9, <1>10, <1>11, <1>12 DEF IInv

(* Finished tasks leave the manager, those of S the renderer's list too.   *)
LEMMA ClearKeeps ==
    ASSUME IInv, NEW S, NEW all \in BOOLEAN, Clear(S, all)
    PROVE  IInv'
<1>1. /\ state \in [Tasks -> States] /\ view \in [Tasks -> States]
      /\ state' \in [Tasks -> States] /\ view' \in [Tasks -> States]
      /\ \A t \in Tasks : state'[t] = state[t] \/ (state[t] \in Terminal /\ state'[t] = "cleared")
      /\ UNCHANGED <<queue, counters, cancelled, closed, mu, pc, todo>>
  BY DEF IInv, TypeOK, Clear, States
<1>2. \A t \in Tasks : \/ view'[t] = view[t]
                       \/ view'[t] = "none" /\ state'[t] = "cleared"
  <2>1. \A t \in Tasks : view[t] \in Terminal => state[t] = "cleared" \/ state[t] = view[t]
    <3>1. \A s \in Terminal : Rank(s) = 4
      BY Ranks
    <3>2. \A t \in Tasks : Rank(state[t]) <= 4
      BY <1>1, Ranks DEF States, Running, Terminal
    <3>. QED
      BY <1>1, <3>1, <3>2, Ranks DEF IInv, ViewInv, NotAhead
  <2>. QED
    BY <2>1 DEF Clear
<1>3. committed' \subseteq committed /\ \A t \in committed' : state'[t] # "cleared"
  BY DEF Clear
<1>4. TypeOK'
  BY <1>1, <1>3 DEF IInv, TypeOK, counters
<1>5. QueueInv'
  <2>1. \A i \in 1..Len(queue) : queue[i] \in Tasks
    BY ElementOfSeq DEF IInv, TypeOK
  <2>. QED
    BY <1>1, <2>1 DEF IInv, QueueInv, Terminal
<1>6. PlaceInv'
  BY <1>1, <1>3 DEF IInv, TypeOK, PlaceInv, Copying, Running, Dead, Terminal
<1>7. LaunchInv' /\ TodoInv'
  <2>1. \A h \in Goroutines : \A j \in 1..Len(todo[h]) : todo[h][j].task \in Tasks
    BY TodoIs DEF IInv
  <2>. QED
    BY <1>1, <2>1 DEF IInv, LaunchInv, Launching, TodoInv, Terminal
<1>8. SlotsInv'
  BY <1>1, SlotsKept DEF IInv, Running, Terminal
<1>9. ClosedInv'
  BY <1>1 DEF IInv, ClosedInv
<1>10. ViewInv'
  <2>1. \A t \in Tasks : NotAhead(view[t], t)'
    BY <1>1, <1>2 DEF IInv, ViewInv, NotAhead
  <2>2. \A h \in Goroutines : \A j \in 1..Len(todo'[h]) :
          state'[todo'[h][j].task] # "none" /\ NotAhead(todo[h][j].state, todo[h][j].task)'
    <3>1. \A h \in Goroutines : \A j \in 1..Len(todo[h]) :
            /\ todo[h][j].task \in Tasks
            /\ state[todo[h][j].task] # "none" /\ NotAhead(todo[h][j].state, todo[h][j].task)
      BY TodoIs DEF IInv, ViewInv
    <3>. QED
      BY <1>1, <3>1 DEF NotAhead
  <2>3. ~closed' => \A t \in Tasks :
         \/ state'[t] = "cleared" \/ view'[t] = state'[t]
         \/ \E h \in Goroutines : \E j \in 1..Len(todo[h]) : todo[h][j] = Told(t, state'[t])
    BY <1>1, <1>2 DEF IInv, ViewInv
  <2>. QED
    BY <1>1, <2>1, <2>2, <2>3 DEF ViewInv
<1>11. WorkConserving'
  BY <1>1 DEF IInv, WorkConserving, CanPick, GlobalRoom, SessionFree, counters
<1>. QED
  BY <1>4, <1>5, <1>6, <1>7, <1>8, <1>9, <1>10, <1>11 DEF IInv

(* The manager is closed: nothing is queued any more, and every task that  *)
(* runs is cancelled.                                                      *)
LEMMA DisposeKeeps ==
    ASSUME IInv, NEW u \in Callers, Dispose(u)
    PROVE  IInv'
<1>. DEFINE es == [i \in 1..Len(queue) |-> Told(queue[i], "cancelled")]
<1>1. /\ u \in Goroutines /\ u \notin Tasks /\ pc[u] = "idle" /\ todo[u] = <<>> /\ ~Launching(u)
      /\ closed' = TRUE /\ queue' = <<>>
      /\ state' = [t \in Tasks |-> IF state[t] = "queued" THEN "cancelled" ELSE state[t]]
      /\ cancelled' = cancelled \cup Stopped
      /\ pc' = [pc EXCEPT ![u] = "join"] /\ todo' = [todo EXCEPT ![u] = es]
      /\ UNCHANGED <<counters, mu, committed, view>>
  BY DEF IInv, TodoInv, Dispose, Ready, ThenEmit, Launching, Goroutines
<1>2. Len(queue) \in Nat /\ \A i \in 1..Len(queue) : queue[i] \in Tasks /\ state[queue[i]] = "queued"
  BY LenProperties, ElementOfSeq DEF IInv, TypeOK, QueueInv
<1>3. /\ es \in Seq(Event) /\ Len(es) = Len(queue)
      /\ \A i \in 1..Len(queue) : es[i] = Told(queue[i], "cancelled") /\ es[i].task = queue[i]
                                  /\ es[i].state = "cancelled"
  <2>1. \A i \in 1..Len(queue) : /\ Told(queue[i], "cancelled") \in Event
                                 /\ Told(queue[i], "cancelled").task = queue[i]
                                 /\ Told(queue[i], "cancelled").state = "cancelled"
    BY <1>2, ToldIsEvent DEF States, Terminal
  <2>. QED
    BY <1>2, <2>1
<1>4. /\ state \in [Tasks -> States] /\ state' \in [Tasks -> States]
      /\ \A t \in Tasks : state'[t] = IF state[t] = "queued" THEN "cancelled" ELSE state[t]
  BY <1>1 DEF IInv, TypeOK, States, Terminal
<1>5. Stopped \subseteq Tasks /\ \A t \in Tasks : t \in Stopped <=> state[t] = "running"
  BY DEF Stopped, TasksIn
<1>. HIDE DEF es
<1>6. QueueInv'
  BY <1>1, <1>4 DEF QueueInv
<1>7. SlotsInv'
  BY <1>1, <1>4, SlotsKept DEF IInv, Running
<1>8. /\ LaunchInv' /\ TodoInv' /\ pc' \in [Goroutines -> CallerPC \cup RunnerPC]
      /\ \A h \in Goroutines : pc'[h] = IF h = u THEN "join" ELSE pc[h]
  <2>1. \A x \in Tasks : x # u /\ state[x] = "running" => state'[x] = "running"
    BY <1>4
  <2>2. pc[u] # "none" /\ "join" \in CallerPC \cup RunnerPC
    BY <1>1 DEF CallerPC
  <2>. QED
    BY <1>1, <2>1, <2>2, GoesOn
<1>9. ViewInv' /\ todo' \in [Goroutines -> Seq(Event)]
  <2>1. Rank("queued") < Rank("cancelled")
    BY Ranks DEF Terminal
  <2>2. \A x \in Tasks : \/ state'[x] = state[x]
                         \/ state[x] # "cleared" /\ Rank(state[x]) < Rank(state'[x])
    BY <1>4, <2>1
  <2>3. \A j \in 1..Len(es) : es[j].state = state'[es[j].task]
    BY <1>2, <1>3, <1>4
  <2>. QED
    BY <1>1, <1>3, <1>4, <2>2, <2>3, AdvanceBy
<1>10. TypeOK'
  <2>1. queue' \in Seq(Tasks) /\ cancelled' \in SUBSET Tasks
    BY <1>1, <1>5 DEF IInv, TypeOK
  <2>2. \A v \in Callers : pc'[v] \in CallerPC
    BY <1>8 DEF IInv, TypeOK, CallerPC, Goroutines
  <2>3. \A x \in Tasks : pc'[x] \in RunnerPC
    BY <1>1, <1>8 DEF IInv, TypeOK, Goroutines
  <2>. QED
    BY <1>1, <1>4, <1>8, <1>9, <2>1, <2>2, <2>3 DEF IInv, TypeOK, counters
<1>11. PlaceInv'
  BY <1>1, <1>4, <1>5, <1>8 DEF IInv, PlaceInv, Copying, Running, Over, Dead, Terminal, Goroutines
<1>12. ClosedInv'
  BY <1>1, <1>4, <1>5, <1>8 DEF IInv, ClosedInv, Goroutines
<1>13. WorkConserving'
  BY <1>1 DEF WorkConserving, CanPick
<1>. QED
  BY <1>6, <1>7, <1>8, <1>9, <1>10, <1>11, <1>12, <1>13 DEF IInv

(* The transfer of t reports that it copies, or that it commits.           *)
LEMMA ProgressKeeps ==
    ASSUME IInv, NEW t \in Tasks, Starts(t) \/ Finalizing(t)
    PROVE  IInv'
<1>. DEFINE s  == IF pc[t] = "start" THEN "running" ELSE "finalizing"
            next == IF pc[t] = "start" THEN "copy" ELSE "commit"
            es == IF closed THEN <<>> ELSE <<Told(t, s)>>
<1>1. /\ t \in Goroutines /\ t \notin Callers /\ pc[t] \in {"start", "commit"} /\ ~Launching(t)
      /\ state[t] = "running" /\ todo[t] = <<>>
      /\ pc[t] = "start" => t \notin cancelled /\ ~closed
      /\ pc' = [pc EXCEPT ![t] = next] /\ todo' = [todo EXCEPT ![t] = es]
      /\ state' = [state EXCEPT ![t] = s]
      /\ UNCHANGED <<queue, counters, cancelled, closed, mu, committed, view>>
  <2>1. t \in Goroutines /\ t \notin Callers
    BY DEF Goroutines
  <2>2. CASE Starts(t)
    <3>1. pc[t] = "start" /\ t \notin cancelled /\ ~Launching(t)
      BY <2>2 DEF Starts, Launching
    <3>2. state[t] = "running" /\ todo[t] = <<>> /\ ~closed
      BY <2>1, <3>1 DEF IInv, PlaceInv, Copying, TodoInv, ClosedInv
    <3>. QED
      BY <2>1, <2>2, <3>1, <3>2 DEF Starts, Goto, Progress
  <2>3. CASE Finalizing(t)
    BY <2>1, <2>3 DEF Finalizing, Quiet, Goto, Progress, Launching
  <2>. QED
    BY <2>2, <2>3
<1>2. /\ s \in {"running", "finalizing"} /\ (s = "running" <=> pc[t] = "start")
      /\ next \in {"copy", "commit"} /\ (next = "copy" <=> pc[t] = "start")
  BY <1>1
<1>3. /\ es \in Seq(Event) /\ (closed => es = <<>>)
      /\ ~closed => Len(es) = 1 /\ es[1] = Told(t, s)
      /\ \A i \in 1..Len(es) : es[i].task = t /\ es[i].state = s
  <2>1. Told(t, s) \in Event /\ Told(t, s).task = t /\ Told(t, s).state = s
    BY <1>2, ToldIsEvent DEF States, Running
  <2>2. CASE closed
    BY <2>2, EmptySeq
  <2>3. CASE ~closed
    BY <2>1, <2>3, OneEvent
  <2>. QED
    BY <2>2, <2>3
<1>4. /\ state \in [Tasks -> States] /\ state' \in [Tasks -> States]
      /\ \A x \in Tasks : state'[x] = IF x = t THEN s ELSE state[x]
  BY <1>1, <1>2 DEF IInv, TypeOK, States, Running
<1>. HIDE DEF s, next, es
<1>5. QueueInv'
  <2>1. \A i \in 1..Len(queue) : queue[i] \in Tasks /\ queue[i] # t
    BY <1>1, ElementOfSeq DEF IInv, TypeOK, QueueInv
  <2>. QED
    BY <1>1, <1>2, <1>4, <2>1 DEF IInv, QueueInv
<1>6. SlotsInv'
  BY <1>1, <1>2, <1>4, SlotsKept DEF IInv, Running
<1>7. /\ LaunchInv' /\ TodoInv' /\ pc' \in [Goroutines -> CallerPC \cup RunnerPC]
      /\ \A h \in Goroutines : pc'[h] = IF h = t THEN next ELSE pc[h]
  <2>1. \A x \in Tasks : x # t /\ state[x] = "running" => state'[x] = "running"
    BY <1>4
  <2>2. pc[t] # "none" /\ next \in CallerPC \cup RunnerPC
    BY <1>1, <1>2 DEF RunnerPC
  <2>. QED
    BY <1>1, <1>2, <2>1, <2>2, GoesOn
<1>8. ViewInv' /\ todo' \in [Goroutines -> Seq(Event)]
  <2>1. Rank("running") < Rank("finalizing")
    BY Ranks
  <2>2. \A x \in Tasks : \/ state'[x] = state[x]
                         \/ state[x] # "cleared" /\ Rank(state[x]) < Rank(state'[x])
    BY <1>1, <1>2, <1>4, <2>1
  <2>3. \A j \in 1..Len(es) : es[j].state = state'[es[j].task]
    BY <1>3, <1>4
  <2>4. closed' \/ \A x \in Tasks : state'[x] = state[x] \/ \E j \in 1..Len(es) : es[j] = Told(x, state'[x])
    BY <1>1, <1>3, <1>4
  <2>. QED
    BY <1>1, <1>3, <1>4, <2>2, <2>3, <2>4, AdvanceBy
<1>9. TypeOK'
  <2>1. \A v \in Callers : pc'[v] \in CallerPC
    BY <1>1, <1>7 DEF IInv, TypeOK, Goroutines
  <2>2. \A x \in Tasks : pc'[x] \in RunnerPC
    BY <1>2, <1>7 DEF IInv, TypeOK, RunnerPC, Goroutines
  <2>. QED
    BY <1>1, <1>4, <1>7, <1>8, <2>1, <2>2 DEF IInv, TypeOK, counters
<1>10. PlaceInv'
  BY <1>1, <1>2, <1>4, <1>7 DEF IInv, PlaceInv, Copying, Running, Over, Dead, Terminal, Goroutines
<1>11. ClosedInv'
  <2>1. \A x \in Tasks : state'[x] = "running" => state[x] = "running"
    BY <1>1, <1>4
  <2>2. \A v \in Callers : pc'[v] = pc[v]
    BY <1>1, <1>7 DEF Goroutines
  <2>3. pc[t] = "commit" => \A v \in Callers : pc[v] # "joined"
    BY DEF IInv, ClosedInv
  <2>4. pc[t] = "start" => \A v \in Callers : pc[v] # "joined"
    BY <1>1 DEF IInv, ClosedInv
  <2>. QED
    BY <1>1, <2>1, <2>2, <2>3, <2>4 DEF IInv, ClosedInv
<1>12. WorkConserving'
  <2>1. CanPick' = CanPick
    BY <1>1 DEF CanPick, GlobalRoom, SessionFree, counters
  <2>. QED
    BY <1>1, <1>7, <2>1 DEF IInv, WorkConserving
<1>. QED
  BY <1>5, <1>6, <1>7, <1>8, <1>9, <1>10, <1>11, <1>12 DEF IInv

(* The transfer of t is over: its slot is free again.                      *)
LEMMA EndKeeps ==
    ASSUME IInv, NEW t \in Tasks, Succeeds(t) \/ Fails(t)
    PROVE  IInv'
<1>1. PICK s \in Terminal : End(t, s) /\ (committed' = committed \/ (s = "succeeded" /\ committed' = committed \cup {t}))
  BY DEF Succeeds, Fails, Outcome, Terminal
<1>. DEFINE next == IF closed THEN "done" ELSE "schedule"
            es == IF closed THEN <<>> ELSE <<Told(t, s)>>
<1>2. /\ t \in Goroutines /\ t \notin Callers /\ pc[t] \in Active /\ ~Launching(t) /\ pc[t] # "none"
      /\ state[t] \in Running /\ todo[t] = <<>>
  <2>1. t \in Goroutines /\ t \notin Callers /\ pc[t] \in Active /\ todo[t] = <<>>
    BY <1>1 DEF Succeeds, Fails, End, Active, Copying, Goroutines
  <2>2. state[t] \in Running
    BY <2>1 DEF IInv, PlaceInv, Active, Running
  <2>. QED
    BY <2>1, <2>2 DEF Launching, Active, Copying
<1>3. /\ todo \in [Goroutines -> Seq(Event)] /\ todo = [todo EXCEPT ![t] = <<>>]
      /\ pc' = [pc EXCEPT ![t] = next] /\ todo' = [todo EXCEPT ![t] = es]
      /\ state' = [state EXCEPT ![t] = s]
      /\ runningGlobal' = runningGlobal - 1
      /\ runningSession' = [runningSession EXCEPT ![SessionOf(t)] = @ - 1]
      /\ cancelled' = cancelled \ {t} /\ UNCHANGED <<queue, closed, mu, view>>
  <2>1. todo \in [Goroutines -> Seq(Event)] /\ todo = [todo EXCEPT ![t] = <<>>]
    BY <1>2 DEF IInv, TypeOK
  <2>. QED
    BY <1>1, <2>1 DEF End, Slots, AfterEnd, ThenEmit
<1>4. /\ es \in Seq(Event) /\ (closed => es = <<>>)
      /\ ~closed => Len(es) = 1 /\ es[1] = Told(t, s)
      /\ \A i \in 1..Len(es) : es[i].task = t /\ es[i].state = s
  <2>1. Told(t, s) \in Event /\ Told(t, s).task = t /\ Told(t, s).state = s
    BY ToldIsEvent DEF States, Terminal
  <2>2. CASE closed
    BY <2>2, EmptySeq
  <2>3. CASE ~closed
    BY <2>1, <2>3, OneEvent
  <2>. QED
    BY <2>2, <2>3
<1>5. /\ state \in [Tasks -> States] /\ state' \in [Tasks -> States]
      /\ \A x \in Tasks : state'[x] = IF x = t THEN s ELSE state[x]
  BY <1>3 DEF IInv, TypeOK, States
<1>6. next \in {"done", "schedule"} /\ (next = "done" => closed) /\ (closed => next = "done")
  OBVIOUS
<1>. HIDE DEF next, es
<1>7. QueueInv'
  <2>1. \A i \in 1..Len(queue) : queue[i] \in Tasks /\ queue[i] # t
    BY <1>2, ElementOfSeq DEF IInv, TypeOK, QueueInv, Running
  <2>2. /\ \A i \in 1..Len(queue) : state[queue[i]] = "queued"
        /\ \A i, j \in 1..Len(queue) : queue[i] = queue[j] => i = j
        /\ closed => queue = <<>> /\ \A x \in Tasks : state[x] # "queued"
    BY DEF IInv, QueueInv
  <2>3. queue' = queue /\ closed' = closed /\ s # "queued"
    BY <1>3 DEF Terminal
  <2>4. \A i \in 1..Len(queue) : state'[queue[i]] = "queued"
    BY <1>5, <2>1, <2>2
  <2>. QED
    BY <1>5, <2>2, <2>3, <2>4 DEF QueueInv
<1>8. SlotsInv' /\ runningGlobal' \in Nat /\ runningSession' \in [Sessions -> Nat]
  BY <1>2, <1>3, SlotFreed DEF IInv, States, Running, Terminal
<1>9. /\ LaunchInv' /\ TodoInv' /\ pc' \in [Goroutines -> CallerPC \cup RunnerPC]
      /\ \A h \in Goroutines : pc'[h] = IF h = t THEN next ELSE pc[h]
  <2>1. \A x \in Tasks : x # t /\ state[x] = "running" => state'[x] = "running"
    BY <1>5
  <2>2. next \in CallerPC \cup RunnerPC
    BY <1>6 DEF RunnerPC
  <2>. QED
    BY <1>2, <1>3, <1>4, <1>6, <2>1, <2>2, GoesOn
<1>10. ViewInv' /\ todo' \in [Goroutines -> Seq(Event)]
  <2>1. Rank(state[t]) < Rank(s) /\ state[t] # "cleared"
    BY <1>2, Ranks DEF Running
  <2>2. \A x \in Tasks : \/ state'[x] = state[x]
                         \/ state[x] # "cleared" /\ Rank(state[x]) < Rank(state'[x])
    BY <1>5, <2>1
  <2>3. \A j \in 1..Len(es) : es[j].state = state'[es[j].task]
    BY <1>4, <1>5
  <2>4. closed' \/ \A x \in Tasks : state'[x] = state[x] \/ \E j \in 1..Len(es) : es[j] = Told(x, state'[x])
    BY <1>3, <1>4, <1>5
  <2>. QED
    BY <1>2, <1>3, <1>4, <1>5, <2>2, <2>3, <2>4, AdvanceBy
<1>11. TypeOK'
  <2>1. \A v \in Callers : pc'[v] \in CallerPC
    BY <1>2, <1>9 DEF IInv, TypeOK, Goroutines
  <2>2. \A x \in Tasks : pc'[x] \in RunnerPC
    BY <1>6, <1>9 DEF IInv, TypeOK, RunnerPC, Goroutines
  <2>3. committed' \in SUBSET Tasks /\ cancelled' \in SUBSET Tasks
    BY <1>1, <1>3 DEF IInv, TypeOK
  <2>. QED
    BY <1>3, <1>5, <1>8, <1>9, <1>10, <2>1, <2>2, <2>3 DEF IInv, TypeOK
<1>12. PlaceInv'
  <2>1. \A x \in Tasks : x \in cancelled' => x \in cancelled /\ x # t
    BY <1>3
  <2>2. \A x \in Tasks : x \in committed' => x \in committed \/ (x = t /\ s = "succeeded")
    BY <1>1
  <2>3. t \notin committed
    BY <1>2 DEF IInv, PlaceInv, Running
  <2>. QED
    BY <1>2, <1>5, <1>6, <1>9, <2>1, <2>2, <2>3
       DEF IInv, PlaceInv, Copying, Running, Over, Dead, Terminal, Goroutines
<1>13. ClosedInv'
  <2>1. \A x \in Tasks : state'[x] = "running" => state[x] = "running" /\ x # t
    BY <1>5 DEF Terminal
  <2>2. \A v \in Callers : pc'[v] = pc[v]
    BY <1>2, <1>9 DEF Goroutines
  <2>3. \A x \in Tasks : pc'[x] \in {"copy", "close", "commit"} => pc[x] = pc'[x]
    BY <1>6, <1>9 DEF Goroutines
  <2>. QED
    BY <1>3, <2>1, <2>2, <2>3 DEF IInv, ClosedInv
<1>14. WorkConserving'
  <2>1. CASE closed
    BY <1>3, <2>1 DEF WorkConserving, CanPick
  <2>2. CASE ~closed
    BY <1>2, <1>6, <1>9, <2>2 DEF WorkConserving
  <2>. QED
    BY <2>1, <2>2
<1>. QED
  BY <1>7, <1>8, <1>9, <1>10, <1>11, <1>12, <1>13, <1>14 DEF IInv

-----------------------------------------------------------------------------
(* A step that changes nothing, such as a call of a closed manager.        *)
LEMMA StutterKeeps ==
    ASSUME IInv, UNCHANGED vars
    PROVE  IInv'
<1>. USE DEF vars
<1>1. QueueInv' /\ SlotsInv' /\ ViewInv'
  BY OnlyMoves DEF counters
<1>2. TypeOK' /\ PlaceInv' /\ TodoInv' /\ ClosedInv'
  BY DEF IInv, TypeOK, PlaceInv, TodoInv, ClosedInv, counters
<1>3. LaunchInv'
  BY DEF IInv, LaunchInv, Launching
<1>4. WorkConserving'
  BY DEF IInv, WorkConserving, CanPick, GlobalRoom, SessionFree, counters
<1>. QED
  BY <1>1, <1>2, <1>3, <1>4 DEF IInv

(* Every step of the manager, its tasks and its callers keeps it.          *)
LEMMA NextKeeps == IInv /\ [Next]_vars => IInv'
<1>. SUFFICES ASSUME IInv, [Next]_vars PROVE IInv'
  OBVIOUS
<1>1. ASSUME NEW g \in Goroutines, Scheduling(g) PROVE IInv'
  BY <1>1, EmitKeeps, ScheduleKeeps, PickKeeps, PickNoMoreKeeps, LaunchKeeps DEF Scheduling
<1>2. ASSUME NEW u \in Callers, Call(u) PROVE IInv'
  <2>1. ASSUME NEW ts \in Batches, Enqueue(u, ts) PROVE IInv'
    BY <2>1, EnqueueKeeps
  <2>2. ASSUME NEW old \in Tasks, NEW new \in Tasks, Retry(u, old, new) PROVE IInv'
    <3>1. <<new>> \in Batches
      BY DEF Batches
    <3>. QED
      BY <2>2, <3>1, EnqueueKeeps DEF Retry
  <2>3. CASE Refused(u) \/ UNCHANGED vars
    BY <2>3, StutterKeeps DEF Refused
  <2>. QED
    BY <1>2, <2>1, <2>2, <2>3, CancelQueuedKeeps, DisposeKeeps DEF Call
<1>3. ASSUME NEW u \in Callers, CallerStep(u) PROVE IInv'
  BY <1>1, <1>3, DisposeEndsKeeps DEF CallerStep, Goroutines
<1>4. ASSUME NEW t \in Tasks, RunnerStep(t) PROVE IInv'
  BY <1>1, <1>4, ProgressKeeps, CopyKeeps, EndKeeps DEF RunnerStep, Goroutines
<1>5. CASE UNCHANGED vars
  BY <1>5, StutterKeeps
<1>. QED
  BY <1>2, <1>3, <1>4, <1>5, CancelRunningKeeps, ClearKeeps DEF Next

(* The invariant holds at every point of every behaviour.                  *)
THEOREM Invariant == Spec => []IInv
<1>. QED
  BY InitIInv, NextKeeps, PTL DEF Spec

(* The counters of scheduleLocked count the running tasks, in all and of   *)
(* each session, within the limits, and a slot is free only while nothing  *)
(* queued could take it or a goroutine is about to look.                   *)
THEOREM SlotsAreUsed == Spec => []SlotsUsed
<1>1. IInv => SlotsUsed
  BY DEF IInv, SlotsInv, SlotsUsed
<1>. QED
  BY <1>1, Invariant, PTL

(* When all events have been emitted, in whatever order, the renderer      *)
(* shows every task in the state it has.                                   *)
THEOREM TheViewSettles == Spec => []ViewSettles
<1>1. IInv => ViewSettles
  BY DEF IInv, ViewInv, ViewSettles
<1>. QED
  BY <1>1, Invariant, PTL

(* Once a Dispose has waited for the goroutines, no transfer touches a     *)
(* file and nothing is queued.                                             *)
THEOREM DisposeQuiets == Spec => []DisposedIsQuiet
<1>1. IInv => DisposedIsQuiet
  BY DEF IInv, QueueInv, ClosedInv, DisposedIsQuiet, TasksIn
<1>. QED
  BY <1>1, Invariant, PTL

(* A task that is doomed stays so.                                         *)
LEMMA DoomedStays ==
    ASSUME NEW t \in Tasks
    PROVE  IInv /\ Doomed(t) /\ [Next]_vars => Doomed(t)'
<1>. SUFFICES ASSUME IInv, Doomed(t), [Next]_vars PROVE Doomed(t)'
  OBVIOUS
<1>0. /\ t \in Goroutines /\ t \notin Callers /\ pc \in [Goroutines -> CallerPC \cup RunnerPC]
      /\ pc[t] # "commit" /\ (pc[t] \in Copying \cup {"none"} => t \in cancelled)
      /\ t \notin committed
  BY DEF IInv, TypeOK, Doomed, Goroutines, Copying, Over
<1>1. ASSUME UNCHANGED <<cancelled, committed>>, pc'[t] = pc[t] PROVE Doomed(t)'
  BY <1>1 DEF Doomed
<1>2. ASSUME NEW g \in Goroutines, Scheduling(g) PROVE Doomed(t)'
  <2>1. CASE Emit(g)
    BY <1>1, <2>1 DEF Emit
  <2>2. CASE Schedule(g)
    BY <1>0, <2>2 DEF Schedule, Quiet, Doomed, Copying, Over
  <2>3. CASE Pick(g)
    BY <1>1, <2>3 DEF Pick
  <2>4. CASE PickNoMore(g)
    BY <1>0, <2>4 DEF PickNoMore, Returned, Doomed, Copying, Over
  <2>5. CASE Launch(g)
    <3>1. todo[g] # <<>> /\ pc[g] = "launch" /\ Launching(g)
      BY <2>5 DEF IInv, TodoInv, Launch, Launching
    <3>2. 1 \in 1..Len(todo[g]) /\ Head(todo[g]) = todo[g][1] /\ todo[g][1].task \in Goroutines
      BY <3>1, TodoIs DEF IInv, Goroutines
    <3>3. pc[todo[g][1].task] = "none"
      BY <3>1, <3>2 DEF IInv, LaunchInv
    <3>4. \/ pc'[t] = pc[t]
          \/ t = g /\ pc'[t] \in {"launch", "done"}
          \/ pc[t] = "none" /\ pc'[t] = "start"
      BY <1>0, <2>5, <3>1, <3>2, <3>3 DEF Launch, Returned
    <3>. QED
      BY <1>0, <2>5, <3>4 DEF Launch, Doomed, Copying, Over
  <2>. QED
    BY <1>2, <2>1, <2>2, <2>3, <2>4, <2>5 DEF Scheduling
<1>3. ASSUME NEW u \in Callers, Call(u) PROVE Doomed(t)'
  <2>1. cancelled \subseteq cancelled' /\ committed' = committed
    BY <1>3 DEF Call, Enqueue, Retry, CancelQueued, Dispose, Refused, vars
  <2>2. pc'[t] = pc[t]
    BY <1>0, <1>3 DEF Call, Enqueue, Retry, CancelQueued, Dispose, Refused, ThenEmit, vars
  <2>. QED
    BY <2>1, <2>2 DEF Doomed
<1>4. ASSUME NEW u \in Callers, CallerStep(u) PROVE Doomed(t)'
  <2>1. CASE DisposeJoins(u) \/ DisposeTimesOut(u)
    BY <1>0, <1>1, <2>1 DEF DisposeJoins, DisposeTimesOut
  <2>. QED
    BY <1>2, <1>4, <2>1 DEF CallerStep, Goroutines
<1>5. ASSUME NEW r \in Tasks, RunnerStep(r) PROVE Doomed(t)'
  <2>1. CASE Scheduling(r)
    BY <1>2, <2>1 DEF Goroutines
  <2>2. CASE r # t /\ ~Scheduling(r)
    <3>1. pc'[t] = pc[t]
      BY <1>0, <1>5, <2>2 DEF RunnerStep, Starts, CopyEnds, Closes, Finalizing, Goto, Succeeds, Fails,
         End, ThenEmit
    <3>2. (t \in cancelled => t \in cancelled') /\ t \notin committed'
      BY <1>0, <1>5, <2>2 DEF RunnerStep, Starts, CopyEnds, Closes, Finalizing, Goto, Succeeds, Fails, End
    <3>. QED
      BY <3>1, <3>2 DEF Doomed
  <2>3. CASE r = t /\ CopyEnds(t)
    BY <1>0, <2>3 DEF CopyEnds, Quiet, Goto, Doomed, Copying, Over
  <2>4. CASE r = t /\ Fails(t)
    BY <1>0, <2>4 DEF Fails, End, ThenEmit, AfterEnd, Doomed, Over
  <2>5. ~Starts(t) /\ ~Closes(t) /\ ~Finalizing(t) /\ ~Succeeds(t)
    BY <1>0 DEF Starts, Closes, Unabandoned, Finalizing, Quiet, Succeeds, Copying
  <2>. QED
    BY <1>5, <2>1, <2>2, <2>3, <2>4, <2>5 DEF RunnerStep
<1>6. ASSUME NEW S, NEW all, Clear(S, all) PROVE Doomed(t)'
  BY <1>6 DEF Clear, Doomed
<1>7. ASSUME NEW r \in Tasks, CancelRunning(r) PROVE Doomed(t)'
  BY <1>7 DEF CancelRunning, Doomed
<1>8. CASE UNCHANGED vars
  BY <1>1, <1>8 DEF vars
<1>. QED
  BY <1>3, <1>4, <1>5, <1>6, <1>7, <1>8 DEF Next

(* A task cancelled before its data was copied, wherever Cancel or Dispose *)
(* found it, never replaces its target file.                               *)
THEOREM CancelledNeverCommit == Spec => CancelledNeverCommits
<1>. SUFFICES ASSUME NEW t \in Tasks
              PROVE  Spec => [](t \in cancelled /\ pc[t] \in {"none", "start", "copy"}
                                  => [](t \notin committed))
  BY DEF CancelledNeverCommits
<1>1. IInv /\ t \in cancelled /\ pc[t] \in {"none", "start", "copy"} => Doomed(t)
  BY DEF IInv, PlaceInv, Running, Copying, Doomed
<1>2. IInv /\ Doomed(t) /\ [Next]_vars => Doomed(t)'
  BY DoomedStays
<1>3. Doomed(t) => t \notin committed
  BY DEF Doomed
<1>. QED
  BY <1>1, <1>2, <1>3, Invariant, PTL DEF Spec

-----------------------------------------------------------------------------
(* The files that transfers replace: where a writer is, and what is known  *)
(* there of its temporary file t and of the permissions m it has read.     *)

UploadAt == {"create", "copy", "close", "inspect", "chmod", "rename", "replace", "aside", "place", "restore",
             "unback", "cleanup", "ok", "failed", "dead"}

DownloadAt == {"create", "temp", "fetch", "keep", "cleanup", "ok", "failed", "dead"}

Modes == {"none", "kept", "default"}

NoneFound == \A w \in Uploads : ~F!FoundNone(w)

Known(w, a, t, m) ==
    /\ w \in Uploads => a \in UploadAt
    /\ w \in Downloads => a \in DownloadAt
    /\ a \in {"copy", "close", "inspect", "chmod", "rename", "replace", "aside", "place", "fetch", "keep"} => t # NoFile
    /\ a \in {"close", "inspect", "chmod", "rename", "replace", "aside", "place", "keep"} => t.whole
    /\ a \in {"replace", "aside", "place"} => t.mode = m
    /\ t # NoFile => t.by = w
    /\ a \in {"ok", "unback"} => t = NoFile
    /\ a \in {"chmod", "replace", "aside", "place", "temp", "fetch", "keep"} => m # "none"
    /\ a = "rename" => m = "none"
    /\ existed /\ a \in {"temp", "fetch", "keep"} => m = "kept"
    /\ existed /\ posix => a \notin {"rename", "aside", "place", "restore", "unback"}
    /\ existed /\ (posix \/ NoneFound) /\ a \in {"chmod", "replace", "aside", "place"} => m = "kept"

(* A file under its name, or in a backup, is complete, and its writer has  *)
(* reported success or is about to, or does not know.                      *)
Committed(w) == unsure[w] \/ at[w] \in {"ok", "unback", "dead"}

Settled(f) == f # NoFile => f.whole /\ (f.by = Previous \/ Committed(f.by))

Kept(f) == f # NoFile => f.mode = "kept"

FileTyped == F!TypeOK /\ at \in [F!Writers -> UploadAt \cup DownloadAt]

WritersKnown == \A w \in F!Writers : Known(w, at[w], tmp[w], mode[w]) /\ (unsure[w] => ~link[w])

(* A file that existed has not been lost: its copy is under its name, or   *)
(* in a backup that nobody is about to remove.                             *)
InPlace ==
    /\ Settled(target["remote"]) /\ Settled(target["local"]) /\ \A w \in F!Writers : Settled(backup[w])
    /\ existed => target["local"] # NoFile /\ Kept(target["local"])
    /\ existed => target["remote"] # NoFile \/ \E w \in Uploads : backup[w] # NoFile /\ at[w] # "unback"
    /\ existed /\ posix => target["remote"] # NoFile
    /\ existed /\ (posix \/ NoneFound) => Kept(target["remote"]) /\ \A w \in Uploads : Kept(backup[w])
    /\ \A w \in Downloads : backup[w] = NoFile

FileInv == FileTyped /\ WritersKnown /\ InPlace

-----------------------------------------------------------------------------
(* What a step of the writer w does to what w has: where it is next, its   *)
(* temporary file, the permissions it has read, and its connection.        *)

Goes(w, a, t, m) ==
    /\ at' = [at EXCEPT ![w] = a] /\ tmp' = [tmp EXCEPT ![w] = t] /\ mode' = [mode EXCEPT ![w] = m]
    /\ UNCHANGED <<posix, existed>>

LinkOK(w) ==
    /\ link' \in [F!Writers -> BOOLEAN] /\ unsure' \in [F!Writers -> BOOLEAN]
    /\ \A v \in F!Writers : v # w => link'[v] = link[v] /\ unsure'[v] = unsure[v]
    /\ unsure[w] => unsure'[w]
    /\ unsure'[w] => ~link'[w]

May(w, a, t, m) ==
    /\ Goes(w, a, t, m) /\ LinkOK(w)
    /\ t \in F!Content \cup {NoFile} /\ m \in Modes /\ Known(w, a, t, m)
    /\ at[w] \notin {"ok", "dead"} /\ (at[w] = "unback" => a = "ok")
    /\ w \in Uploads /\ unsure[w] => m = mode[w]

(* Nothing else that was known changes: what is known of the other         *)
(* writers, and which files are settled.                                   *)
LEMMA Own ==
    ASSUME FileInv, NEW w \in F!Writers, NEW a, NEW t, NEW m, May(w, a, t, m),
           target' \in [{"remote", "local"} -> F!Content \cup {NoFile}],
           backup' \in [F!Writers -> F!Content \cup {NoFile}]
    PROVE  /\ FileTyped' /\ WritersKnown'
           /\ \A f \in F!Content \cup {NoFile} : Settled(f) => Settled(f)'
           /\ NoneFound' => NoneFound
           /\ at'[w] = a /\ \A v \in F!Writers : v # w => at'[v] = at[v]
<1> USE DEF FileInv
<1>1. /\ tmp \in [F!Writers -> F!Content \cup {NoFile}] /\ mode \in [F!Writers -> Modes]
      /\ at \in [F!Writers -> UploadAt \cup DownloadAt] /\ posix \in BOOLEAN /\ existed \in BOOLEAN
      /\ link \in [F!Writers -> BOOLEAN] /\ unsure \in [F!Writers -> BOOLEAN]
  BY DEF FileTyped, F!TypeOK, Modes
<1>2. a \in UploadAt \cup DownloadAt
  BY DEF May, Known, F!Writers
<1>3. /\ at' \in [F!Writers -> UploadAt \cup DownloadAt] /\ tmp' \in [F!Writers -> F!Content \cup {NoFile}]
      /\ mode' \in [F!Writers -> Modes]
  BY <1>1, <1>2 DEF May, Goes
<1>4. FileTyped'
  BY <1>1, <1>3 DEF May, Goes, LinkOK, FileTyped, F!TypeOK, Modes
<1>5. at'[w] = a /\ tmp'[w] = t /\ mode'[w] = m
  BY <1>1 DEF May, Goes
<1>6. \A v \in F!Writers : v # w => at'[v] = at[v] /\ tmp'[v] = tmp[v] /\ mode'[v] = mode[v]
  BY <1>1 DEF May, Goes
<1>7. \A v \in F!Writers : v # w => unsure'[v] = unsure[v] /\ link'[v] = link[v]
  BY DEF May, LinkOK
<1>8. NoneFound' => NoneFound
  <2>1. SUFFICES ASSUME NEW v \in Uploads, F!FoundNone(v) PROVE F!FoundNone(v)'
    BY DEF NoneFound
  <2>2. v \in F!Writers
    BY DEF F!Writers
  <2>3. CASE v = w
    <3>1. unsure[w] /\ mode[w] = "none"
      BY <2>1, <2>3 DEF F!FoundNone, May
    <3>2. unsure'[w] /\ mode'[w] = "none"
      BY <3>1, <1>5, <2>3 DEF May, LinkOK
    <3> QED BY <3>2, <2>3 DEF F!FoundNone
  <2>4. CASE v # w
    BY <2>1, <2>2, <2>4, <1>6, <1>7 DEF F!FoundNone
  <2> QED BY <2>3, <2>4
<1>9. posix' = posix /\ existed' = existed
  BY DEF May, Goes
<1>10. WritersKnown'
  <2>1. SUFFICES ASSUME NEW v \in F!Writers
                 PROVE  (Known(v, at[v], tmp[v], mode[v]) /\ (unsure[v] => ~link[v]))'
    BY DEF WritersKnown
  <2>2. \E b, s, n : /\ b = at'[v] /\ s = tmp'[v] /\ n = mode'[v] /\ Known(v, b, s, n)
    <3>1. CASE v = w
      BY <3>1, <1>5 DEF May
    <3>2. CASE v # w
      BY <3>2, <1>6 DEF WritersKnown
    <3> QED BY <3>1, <3>2
  <2>3. PICK b, s, n : b = at'[v] /\ s = tmp'[v] /\ n = mode'[v] /\ Known(v, b, s, n)
    BY <2>2
  <2>4. Known(v, b, s, n)'
    BY <2>3, <1>8, <1>9 DEF Known
  <2>5. unsure'[v] => ~link'[v]
    BY <1>7 DEF WritersKnown, May, LinkOK
  <2> QED BY <2>3, <2>4, <2>5 DEF Known
<1>11. ASSUME NEW f \in F!Content \cup {NoFile}, Settled(f)
       PROVE  Settled(f)'
  <2>1. CASE f = NoFile \/ f.by = Previous
    BY <1>11, <2>1 DEF Settled
  <2>2. CASE f # NoFile /\ f.by # Previous
    <3>1. f \in F!Content
      BY <2>2
    <3>2. f.by \in F!Writers
      BY <3>1, <2>2 DEF F!Content
    <3>3. PICK v \in F!Writers : v = f.by
      BY <3>2
    <3>4. Committed(v)
      BY <1>11, <2>2, <3>3 DEF Settled
    <3>5. Committed(v)'
      <4>1. CASE v = w
        BY <3>4, <4>1, <1>5 DEF Committed, May, LinkOK
      <4>2. CASE v # w
        BY <3>4, <4>2, <1>6, <1>7 DEF Committed
      <4> QED BY <4>1, <4>2
    <3> QED BY <3>3, <3>5, <1>11, <2>2 DEF Settled
  <2> QED BY <2>1, <2>2
<1> QED BY <1>4, <1>5, <1>6, <1>8, <1>10, <1>11

(* A step that moves no file under its name or into a backup.              *)
LEMMA Looks ==
    ASSUME FileInv, NEW w \in F!Writers, NEW a, NEW t, NEW m, May(w, a, t, m),
           UNCHANGED <<target, backup>>, a # "unback"
    PROVE  FileInv'
<1>1. FileTyped /\ InPlace
  BY DEF FileInv
<1>2. /\ target \in [{"remote", "local"} -> F!Content \cup {NoFile}]
      /\ backup \in [F!Writers -> F!Content \cup {NoFile}]
  BY <1>1 DEF FileTyped, F!TypeOK
<1>3. /\ FileTyped' /\ WritersKnown'
      /\ \A f \in F!Content \cup {NoFile} : Settled(f) => Settled(f)'
      /\ NoneFound' => NoneFound
      /\ at'[w] = a /\ \A v \in F!Writers : v # w => at'[v] = at[v]
  BY <1>2, Own
<1>4. posix' = posix /\ existed' = existed
  BY DEF May, Goes
<1>5. /\ target["remote"] \in F!Content \cup {NoFile} /\ target["local"] \in F!Content \cup {NoFile}
      /\ \A v \in F!Writers : backup[v] \in F!Content \cup {NoFile}
  BY <1>2
<1>6. /\ Settled(target["remote"])' /\ Settled(target["local"])' /\ \A v \in F!Writers : Settled(backup[v])'
  <2>1. \A f \in F!Content \cup {NoFile} :
           /\ f = target["remote"] => Settled(target["remote"])'
           /\ f = target["local"] => Settled(target["local"])'
           /\ \A v \in F!Writers : f = backup[v] => Settled(backup[v])'
    BY <1>1, <1>3 DEF InPlace, Settled, Committed
  <2> QED BY <2>1, <1>5
<1>7. existed => target["remote"] # NoFile \/ \E v \in Uploads : backup[v] # NoFile /\ at'[v] # "unback"
  BY <1>1, <1>3 DEF InPlace, F!Writers
<1>8. InPlace'
  BY <1>1, <1>3, <1>4, <1>6, <1>7 DEF InPlace, Kept
<1> QED BY <1>3, <1>8 DEF FileInv

(* An upload or a download puts its file under the name.                   *)
LEMMA Lands ==
    ASSUME FileInv, NEW w \in F!Writers, NEW a, NEW t, NEW m, May(w, a, t, m), NEW f \in F!Content,
           target' = [target EXCEPT ![F!Place(w)] = f], UNCHANGED backup,
           f.whole, f.by = w, a \in {"ok", "unback"} \/ unsure'[w],
           w \in Downloads /\ existed => f.mode = "kept",
           w \in Uploads /\ existed /\ (posix \/ (NoneFound /\ NoneFound')) => f.mode = "kept"
    PROVE  FileInv'
<1>1. FileTyped /\ InPlace
  BY DEF FileInv
<1>2. /\ target \in [{"remote", "local"} -> F!Content \cup {NoFile}]
      /\ backup \in [F!Writers -> F!Content \cup {NoFile}]
  BY <1>1 DEF FileTyped, F!TypeOK
<1>3. target' \in [{"remote", "local"} -> F!Content \cup {NoFile}]
  BY <1>2 DEF F!Place
<1>4. /\ FileTyped' /\ WritersKnown'
      /\ \A g \in F!Content \cup {NoFile} : Settled(g) => Settled(g)'
      /\ NoneFound' => NoneFound
      /\ at'[w] = a /\ \A v \in F!Writers : v # w => at'[v] = at[v]
  BY <1>2, <1>3, Own
<1>5. posix' = posix /\ existed' = existed
  BY DEF May, Goes
<1>6. \A v \in F!Writers : backup[v] \in F!Content \cup {NoFile}
  BY <1>2
<1>7. \A v \in F!Writers : Settled(backup[v])'
  <2>1. \A g \in F!Content \cup {NoFile}, v \in F!Writers : g = backup[v] => Settled(backup[v])'
    BY <1>1, <1>4 DEF InPlace, Settled, Committed
  <2> QED BY <2>1, <1>6
<1>8. Settled(f)'
  BY <1>4 DEF Settled, Committed
<1>9. Settled(target["remote"]) /\ Settled(target["local"])
  BY <1>1 DEF InPlace
<1>10. f # NoFile
  BY WritersAssumption
<1>11. /\ target["remote"] \in F!Content \cup {NoFile} /\ target["local"] \in F!Content \cup {NoFile}
  BY <1>2
<1>12. CASE w \in Downloads
  <2>1. target'["local"] = f /\ target'["remote"] = target["remote"]
    BY <1>2, <1>12, WritersAssumption DEF F!Place
  <2>2. Settled(target["remote"])'
    <3>1. \A g \in F!Content \cup {NoFile} : g = target["remote"] => Settled(target["remote"])'
      BY <2>1, <1>4, <1>9 DEF Settled, Committed
    <3> QED BY <3>1, <1>11
  <2>3. Settled(target["local"])'
    BY <2>1, <1>8 DEF Settled, Committed
  <2>4. existed => target'["remote"] # NoFile \/ \E v \in Uploads : backup[v] # NoFile /\ at'[v] # "unback"
    BY <2>1, <1>1, <1>4, <1>12, WritersAssumption DEF InPlace, F!Writers
  <2>5. InPlace'
    BY <2>1, <2>2, <2>3, <2>4, <1>1, <1>4, <1>5, <1>7, <1>10, <1>12 DEF InPlace, Kept
  <2> QED BY <2>5, <1>4 DEF FileInv
<1>13. CASE w \in Uploads
  <2>1. target'["remote"] = f /\ target'["local"] = target["local"]
    BY <1>2, <1>13 DEF F!Place
  <2>2. Settled(target["local"])'
    <3>1. \A g \in F!Content \cup {NoFile} : g = target["local"] => Settled(target["local"])'
      BY <2>1, <1>4, <1>9 DEF Settled, Committed
    <3> QED BY <3>1, <1>11
  <2>3. Settled(target["remote"])'
    BY <2>1, <1>8 DEF Settled, Committed
  <2>4. InPlace'
    BY <2>1, <2>2, <2>3, <1>1, <1>4, <1>5, <1>7, <1>10, <1>13 DEF InPlace, Kept
  <2> QED BY <2>4, <1>4 DEF FileInv
<1> QED BY <1>12, <1>13 DEF F!Writers

(* An upload moves the target aside, into its backup.                      *)
LEMMA MovesAside ==
    ASSUME FileInv, NEW w \in Uploads, NEW a, NEW t, NEW m, May(w, a, t, m),
           at[w] = "aside", a # "unback", target["remote"] # NoFile,
           target' = [target EXCEPT !["remote"] = NoFile],
           backup' = [backup EXCEPT ![w] = target["remote"]]
    PROVE  FileInv'
<1>1. FileTyped /\ InPlace /\ w \in F!Writers /\ w \notin Downloads
  BY WritersAssumption DEF FileInv, F!Writers
<1>2. /\ target \in [{"remote", "local"} -> F!Content \cup {NoFile}]
      /\ backup \in [F!Writers -> F!Content \cup {NoFile}]
  BY <1>1 DEF FileTyped, F!TypeOK
<1>3. PICK f \in F!Content : f = target["remote"]
  BY <1>2
<1>4. /\ target' \in [{"remote", "local"} -> F!Content \cup {NoFile}]
      /\ backup' \in [F!Writers -> F!Content \cup {NoFile}]
  BY <1>1, <1>2, <1>3
<1>5. /\ FileTyped' /\ WritersKnown'
      /\ \A g \in F!Content \cup {NoFile} : Settled(g) => Settled(g)'
      /\ NoneFound' => NoneFound
      /\ at'[w] = a /\ \A v \in F!Writers : v # w => at'[v] = at[v]
  BY <1>1, <1>4, Own
<1>6. posix' = posix /\ existed' = existed
  BY DEF May, Goes
<1>7. /\ target'["remote"] = NoFile /\ target'["local"] = target["local"]
      /\ backup'[w] = f /\ \A v \in F!Writers : v # w => backup'[v] = backup[v]
  BY <1>1, <1>2, <1>3
<1>8. ~(existed /\ posix)
  BY <1>1 DEF FileInv, WritersKnown, Known
<1>9. Settled(f) /\ Settled(target["local"]) /\ \A v \in F!Writers : Settled(backup[v])
  BY <1>1, <1>3 DEF InPlace, Settled, Committed
<1>10. /\ target["local"] \in F!Content \cup {NoFile}
       /\ \A v \in F!Writers : backup[v] \in F!Content \cup {NoFile}
  BY <1>2
<1>11. Settled(target["remote"])' /\ Settled(target["local"])' /\ \A v \in F!Writers : Settled(backup[v])'
  <2>1. \A g \in F!Content \cup {NoFile} :
           /\ g = target["local"] => Settled(target["local"])'
           /\ \A v \in F!Writers : v # w /\ g = backup[v] => Settled(backup[v])'
    BY <1>5, <1>7, <1>9 DEF Settled, Committed
  <2>2. Settled(f)'
    BY <1>5, <1>9
  <2>3. Settled(backup[w])' /\ Settled(target["remote"])'
    BY <2>2, <1>7 DEF Settled, Committed
  <2>4. \A v \in F!Writers : Settled(backup[v])'
    <3>1. SUFFICES ASSUME NEW v \in F!Writers PROVE Settled(backup[v])'
      OBVIOUS
    <3>2. CASE v = w
      BY <2>3, <3>2
    <3>3. CASE v # w
      BY <2>1, <1>10, <3>3
    <3> QED BY <3>2, <3>3
  <2> QED BY <2>1, <2>3, <2>4, <1>10
<1>12. existed => target'["remote"] # NoFile \/ \E v \in Uploads : backup'[v] # NoFile /\ at'[v] # "unback"
  BY <1>3, <1>5, <1>7, WritersAssumption
<1>13. existed /\ (posix \/ NoneFound') => \A v \in Uploads : Kept(backup[v])'
  BY <1>1, <1>3, <1>5, <1>7, <1>8 DEF InPlace, Kept, F!Writers
<1>14. \A v \in Downloads : backup'[v] = NoFile
  BY <1>1, <1>7 DEF InPlace, F!Writers
<1>15. InPlace'
  BY <1>1, <1>6, <1>7, <1>8, <1>11, <1>12, <1>13, <1>14 DEF InPlace, Kept
<1> QED BY <1>5, <1>15 DEF FileInv

(* An upload moves its backup to the name, if that is free.                *)
LEMMA MovesBack ==
    ASSUME FileInv, NEW w \in Uploads, NEW a, NEW t, NEW m, May(w, a, t, m),
           at[w] = "restore", a # "unback", target["remote"] = NoFile,
           target' = [target EXCEPT !["remote"] = backup[w]],
           backup' = [backup EXCEPT ![w] = NoFile]
    PROVE  FileInv'
<1>1. FileTyped /\ InPlace /\ w \in F!Writers /\ w \notin Downloads
  BY WritersAssumption DEF FileInv, F!Writers
<1>2. /\ target \in [{"remote", "local"} -> F!Content \cup {NoFile}]
      /\ backup \in [F!Writers -> F!Content \cup {NoFile}]
  BY <1>1 DEF FileTyped, F!TypeOK
<1>3. PICK f \in F!Content \cup {NoFile} : f = backup[w]
  BY <1>1, <1>2
<1>4. /\ target' \in [{"remote", "local"} -> F!Content \cup {NoFile}]
      /\ backup' \in [F!Writers -> F!Content \cup {NoFile}]
  BY <1>1, <1>2, <1>3
<1>5. /\ FileTyped' /\ WritersKnown'
      /\ \A g \in F!Content \cup {NoFile} : Settled(g) => Settled(g)'
      /\ NoneFound' => NoneFound
      /\ at'[w] = a /\ \A v \in F!Writers : v # w => at'[v] = at[v]
  BY <1>1, <1>4, Own
<1>6. posix' = posix /\ existed' = existed
  BY DEF May, Goes
<1>7. /\ target'["remote"] = f /\ target'["local"] = target["local"]
      /\ backup'[w] = NoFile /\ \A v \in F!Writers : v # w => backup'[v] = backup[v]
  BY <1>1, <1>2, <1>3
<1>8. ~(existed /\ posix)
  BY <1>1 DEF FileInv, WritersKnown, Known
<1>9. Settled(f) /\ Settled(target["local"]) /\ \A v \in F!Writers : Settled(backup[v])
  BY <1>1, <1>3 DEF InPlace, Settled, Committed
<1>10. /\ target["local"] \in F!Content \cup {NoFile}
       /\ \A v \in F!Writers : backup[v] \in F!Content \cup {NoFile}
  BY <1>2
<1>11. Settled(target["remote"])' /\ Settled(target["local"])' /\ \A v \in F!Writers : Settled(backup[v])'
  <2>1. \A g \in F!Content \cup {NoFile} :
           /\ g = target["local"] => Settled(target["local"])'
           /\ \A v \in F!Writers : v # w /\ g = backup[v] => Settled(backup[v])'
    BY <1>5, <1>7, <1>9 DEF Settled, Committed
  <2>2. Settled(f)'
    BY <1>5, <1>9
  <2>3. Settled(backup[w])' /\ Settled(target["remote"])'
    BY <2>2, <1>7 DEF Settled, Committed
  <2>4. \A v \in F!Writers : Settled(backup[v])'
    <3>1. SUFFICES ASSUME NEW v \in F!Writers PROVE Settled(backup[v])'
      OBVIOUS
    <3>2. CASE v = w
      BY <2>3, <3>2
    <3>3. CASE v # w
      BY <2>1, <1>10, <3>3
    <3> QED BY <3>2, <3>3
  <2> QED BY <2>1, <2>3, <2>4, <1>10
<1>12. existed => target'["remote"] # NoFile \/ \E v \in Uploads : backup'[v] # NoFile /\ at'[v] # "unback"
  <2>1. SUFFICES ASSUME existed, f = NoFile
                 PROVE  \E v \in Uploads : backup'[v] # NoFile /\ at'[v] # "unback"
    BY <1>7
  <2>2. PICK v \in Uploads : backup[v] # NoFile /\ at[v] # "unback"
    BY <2>1, <1>1 DEF InPlace
  <2> QED BY <2>1, <2>2, <1>3, <1>5, <1>7 DEF F!Writers
<1>13. existed /\ NoneFound' => Kept(f) /\ \A v \in Uploads : Kept(backup[v])'
  BY <1>1, <1>3, <1>5, <1>7 DEF InPlace, Kept, F!Writers
<1>14. \A v \in Downloads : backup'[v] = NoFile
  BY <1>1, <1>7 DEF InPlace, F!Writers
<1>15. InPlace'
  BY <1>1, <1>6, <1>7, <1>8, <1>11, <1>12, <1>13, <1>14 DEF InPlace, Kept
<1> QED BY <1>5, <1>15 DEF FileInv

(* An upload that has taken the place removes its backup.                  *)
LEMMA DropsBackup ==
    ASSUME FileInv, NEW w \in Uploads, NEW a, NEW t, NEW m, May(w, a, t, m),
           at[w] = "unback", a # "unback", UNCHANGED target,
           backup' = [backup EXCEPT ![w] = NoFile]
    PROVE  FileInv'
<1>1. FileTyped /\ InPlace /\ w \in F!Writers /\ w \notin Downloads
  BY WritersAssumption DEF FileInv, F!Writers
<1>2. /\ target \in [{"remote", "local"} -> F!Content \cup {NoFile}]
      /\ backup \in [F!Writers -> F!Content \cup {NoFile}]
  BY <1>1 DEF FileTyped, F!TypeOK
<1>3. /\ target["remote"] \in F!Content \cup {NoFile} /\ target["local"] \in F!Content \cup {NoFile}
      /\ \A v \in F!Writers : backup[v] \in F!Content \cup {NoFile}
  BY <1>2
<1>4. backup' \in [F!Writers -> F!Content \cup {NoFile}]
  BY <1>1, <1>2
<1>5. /\ FileTyped' /\ WritersKnown'
      /\ \A g \in F!Content \cup {NoFile} : Settled(g) => Settled(g)'
      /\ NoneFound' => NoneFound
      /\ at'[w] = a /\ \A v \in F!Writers : v # w => at'[v] = at[v]
  BY <1>1, <1>2, <1>4, Own
<1>6. posix' = posix /\ existed' = existed
  BY DEF May, Goes
<1>7. backup'[w] = NoFile /\ \A v \in F!Writers : v # w => backup'[v] = backup[v]
  BY <1>1, <1>2
<1>8. Settled(target["remote"]) /\ Settled(target["local"]) /\ \A v \in F!Writers : Settled(backup[v])
  BY <1>1 DEF InPlace
<1>9. Settled(target["remote"])' /\ Settled(target["local"])' /\ \A v \in F!Writers : Settled(backup[v])'
  <2>1. \A g \in F!Content \cup {NoFile} :
           /\ g = target["remote"] => Settled(target["remote"])'
           /\ g = target["local"] => Settled(target["local"])'
           /\ \A v \in F!Writers : v # w /\ g = backup[v] => Settled(backup[v])'
    BY <1>5, <1>7, <1>8 DEF Settled, Committed
  <2>2. Settled(backup[w])'
    BY <1>7 DEF Settled
  <2>3. \A v \in F!Writers : Settled(backup[v])'
    <3>1. SUFFICES ASSUME NEW v \in F!Writers PROVE Settled(backup[v])'
      OBVIOUS
    <3>2. CASE v = w
      BY <2>2, <3>2
    <3>3. CASE v # w
      BY <2>1, <1>3, <3>3
    <3> QED BY <3>2, <3>3
  <2> QED BY <2>1, <2>3, <1>3
<1>10. existed => target["remote"] # NoFile \/ \E v \in Uploads : backup'[v] # NoFile /\ at'[v] # "unback"
  <2>1. SUFFICES ASSUME existed, target["remote"] = NoFile
                 PROVE  \E v \in Uploads : backup'[v] # NoFile /\ at'[v] # "unback"
    OBVIOUS
  <2>2. PICK v \in Uploads : backup[v] # NoFile /\ at[v] # "unback"
    BY <2>1, <1>1 DEF InPlace
  <2> QED BY <2>2, <1>5, <1>7 DEF F!Writers
<1>11. existed /\ (posix \/ NoneFound') => Kept(target["remote"]) /\ \A v \in Uploads : Kept(backup[v])'
  BY <1>1, <1>5, <1>7 DEF InPlace, Kept, F!Writers
<1>12. \A v \in Downloads : backup'[v] = NoFile
  BY <1>1, <1>7 DEF InPlace, F!Writers
<1>13. InPlace'
  BY <1>1, <1>6, <1>9, <1>10, <1>11, <1>12 DEF InPlace, Kept
<1> QED BY <1>5, <1>13 DEF FileInv

-----------------------------------------------------------------------------
(* The requests, and the steps of a writer.                                *)

LEMMA Has ==
    ASSUME FileInv, NEW w \in F!Writers
    PROVE  /\ tmp \in [F!Writers -> F!Content \cup {NoFile}] /\ mode \in [F!Writers -> Modes]
           /\ at \in [F!Writers -> UploadAt \cup DownloadAt]
           /\ link \in [F!Writers -> BOOLEAN] /\ unsure \in [F!Writers -> BOOLEAN]
           /\ target \in [{"remote", "local"} -> F!Content \cup {NoFile}]
           /\ posix \in BOOLEAN /\ existed \in BOOLEAN
           /\ tmp[w] \in F!Content \cup {NoFile} /\ mode[w] \in Modes
           /\ Known(w, at[w], tmp[w], mode[w]) /\ (unsure[w] => ~link[w])
           /\ tmp = [tmp EXCEPT ![w] = tmp[w]] /\ mode = [mode EXCEPT ![w] = mode[w]]
           /\ (w \in Uploads <=> w \notin Downloads)
BY WritersAssumption DEF FileInv, FileTyped, F!TypeOK, WritersKnown, Modes, F!Writers

LEMMA Answered ==
    ASSUME FileInv, NEW w \in F!Writers, NEW a, NEW b, F!Does(w, a, b)
    PROVE  /\ LinkOK(w) /\ ~unsure[w]
           /\ \E c \in {a, b} : at' = [at EXCEPT ![w] = c] /\ (c = a \/ unsure'[w])
<1>1. /\ link \in [F!Writers -> BOOLEAN] /\ unsure \in [F!Writers -> BOOLEAN]
      /\ \A v \in F!Writers : unsure[v] => ~link[v]
  BY Has
<1>2. CASE F!Ok(w, a)
  BY <1>1, <1>2 DEF F!Ok, F!Go, LinkOK
<1>3. CASE F!Lost(w, b)
  BY <1>1, <1>3 DEF F!Lost, F!Go, LinkOK
<1> QED BY <1>2, <1>3 DEF F!Does

LEMMA Unlinked ==
    ASSUME FileInv, NEW w \in F!Writers, UNCHANGED <<link, unsure>>
    PROVE  LinkOK(w)
<1>1. /\ link \in [F!Writers -> BOOLEAN] /\ unsure \in [F!Writers -> BOOLEAN]
      /\ \A v \in F!Writers : unsure[v] => ~link[v]
  BY Has
<1> QED BY <1>1 DEF LinkOK

(* A request that was refused, or that found no connection.                *)
LEMMA Denied ==
    ASSUME FileInv, NEW w \in F!Writers, NEW b, F!Error(w, b), UNCHANGED <<posix, existed>>,
           Known(w, b, tmp[w], mode[w]), at[w] \notin {"ok", "dead"}, at[w] = "unback" => b = "ok",
           b # "unback"
    PROVE  FileInv'
<1>1. /\ link \in [F!Writers -> BOOLEAN] /\ unsure \in [F!Writers -> BOOLEAN]
      /\ \A v \in F!Writers : unsure[v] => ~link[v]
  BY Has
<1>2. LinkOK(w)
  BY <1>1 DEF F!Error, LinkOK
<1>3. Goes(w, b, tmp[w], mode[w]) /\ UNCHANGED <<target, backup>>
  BY Has DEF F!Error, F!Go, F!files, Goes
<1>4. May(w, b, tmp[w], mode[w])
  BY <1>2, <1>3, Has DEF May
<1> QED BY <1>3, <1>4, Looks

LEMMA CreateKeeps ==
    ASSUME FileInv, NEW w \in F!Writers, F!Create(w)
    PROVE  FileInv'
<1> USE Has
<1>1. at[w] = "create" /\ w \in Uploads /\ UNCHANGED <<posix, existed>>
  BY DEF F!Create
<1>2. CASE F!Error(w, "failed")
  BY <1>1, <1>2, Denied DEF Known, UploadAt
<1>3. CASE tmp' = [tmp EXCEPT ![w] = F!Fresh(w)] /\ F!Does(w, "copy", "failed") /\ UNCHANGED <<target, backup, mode>>
  <2>1. PICK c \in {"copy", "failed"} : LinkOK(w) /\ ~unsure[w] /\ at' = [at EXCEPT ![w] = c]
    BY <1>3, Answered
  <2>2. PICK t \in F!Content : t = F!Fresh(w) /\ t.by = w
    <3>1. F!Fresh(w) \in F!Content /\ F!Fresh(w).by = w
      BY DEF F!Fresh, F!Content
    <3> QED BY <3>1
  <2>3. Known(w, c, t, mode[w])
    BY <1>1, <2>1, <2>2, WritersAssumption DEF Known, UploadAt
  <2>4. May(w, c, t, mode[w])
    BY <1>1, <1>3, <2>1, <2>2, <2>3 DEF May, Goes
  <2> QED BY <1>3, <2>1, <2>4, Looks
<1> QED BY <1>2, <1>3 DEF F!Create

LEMMA CopyAllKeeps ==
    ASSUME FileInv, NEW w \in F!Writers, F!Copy(w)
    PROVE  FileInv'
<1> USE Has
<1>1. w \in Uploads /\ UNCHANGED <<posix, existed>>
  BY DEF F!Copy, F!CopyAll
<1>2. CASE F!CopyAll(w) /\ UNCHANGED <<target, backup, mode>>
  <2>1. PICK c \in {"close", "cleanup"} : LinkOK(w) /\ ~unsure[w] /\ at' = [at EXCEPT ![w] = c]
    BY <1>2, Answered DEF F!CopyAll
  <2>2. at[w] = "copy" /\ tmp[w] \in F!Content /\ tmp[w].by = w
    BY <1>2 DEF F!CopyAll, Known
  <2>3. PICK t \in F!Content : t = [tmp[w] EXCEPT !.whole = TRUE] /\ t.by = w /\ t.whole
    <3>1. [tmp[w] EXCEPT !.whole = TRUE] \in F!Content
      BY <2>2 DEF F!Content
    <3>2. [tmp[w] EXCEPT !.whole = TRUE].by = w /\ [tmp[w] EXCEPT !.whole = TRUE].whole
      BY <2>2 DEF F!Content
    <3> QED BY <3>1, <3>2
  <2>4. tmp' = [tmp EXCEPT ![w] = t]
    BY <1>2, <2>3 DEF F!CopyAll
  <2>5. Known(w, c, t, mode[w])
    BY <1>1, <2>1, <2>2, <2>3, WritersAssumption DEF Known, UploadAt
  <2>6. May(w, c, t, mode[w])
    BY <1>1, <1>2, <2>1, <2>2, <2>3, <2>4, <2>5 DEF May, Goes
  <2> QED BY <1>2, <2>1, <2>6, Looks
<1>3. CASE at[w] \in {"copy", "close"} /\ F!Error(w, "cleanup")
  BY <1>1, <1>3, Denied DEF Known, UploadAt
<1>4. CASE at[w] = "close" /\ F!Ok(w, "inspect") /\ UNCHANGED <<target, tmp, backup, mode>>
  <2>1. LinkOK(w) /\ at' = [at EXCEPT ![w] = "inspect"]
    BY <1>4, Unlinked DEF F!Ok, F!Go
  <2>2. Known(w, "inspect", tmp[w], mode[w])
    BY <1>1, <1>4 DEF Known, UploadAt
  <2>3. May(w, "inspect", tmp[w], mode[w])
    BY <1>1, <1>4, <2>1, <2>2 DEF May, Goes
  <2> QED BY <1>4, <2>3, Looks
<1> QED BY <1>2, <1>3, <1>4 DEF F!Copy, F!files

LEMMA CleanupKeeps ==
    ASSUME FileInv, NEW w \in F!Writers, F!Cleanup(w)
    PROVE  FileInv'
<1> USE Has
<1>1. at[w] = "cleanup" /\ UNCHANGED <<posix, existed>>
  BY DEF F!Cleanup
<1>2. CASE F!Error(w, "failed")
  BY <1>1, <1>2, Denied DEF Known, UploadAt, DownloadAt
<1>3. CASE /\ tmp' = [tmp EXCEPT ![w] = NoFile] /\ UNCHANGED <<target, backup, mode>>
           /\ F!Does(w, "failed", "failed") \/ F!Locally(w, "failed")
  <2>1. LinkOK(w) /\ at' = [at EXCEPT ![w] = "failed"]
    BY <1>3, Answered, Unlinked DEF F!Locally, F!Go
  <2>2. Known(w, "failed", NoFile, mode[w])
    BY <1>1 DEF Known, UploadAt, DownloadAt
  <2>3. May(w, "failed", NoFile, mode[w])
    BY <1>1, <1>3, <2>1, <2>2 DEF May, Goes
  <2> QED BY <1>3, <2>3, Looks
<1> QED BY <1>2, <1>3 DEF F!Cleanup

LEMMA InspectKeeps ==
    ASSUME FileInv, NEW w \in F!Writers, F!Inspect(w)
    PROVE  FileInv'
<1> USE Has
<1>1. at[w] = "inspect" /\ w \in Uploads /\ UNCHANGED <<posix, existed>>
  BY DEF F!Inspect
<1>2. CASE F!Error(w, "cleanup")
  BY <1>1, <1>2, Denied DEF Known, UploadAt
<1>3. CASE /\ F!Ok(w, IF F!Target(w) = NoFile THEN "rename" ELSE "chmod")
           /\ mode' = [mode EXCEPT ![w] = IF F!Target(w) = NoFile THEN "none" ELSE F!Target(w).mode]
           /\ UNCHANGED <<target, tmp, backup>>
  <2>1. PICK a : a = (IF F!Target(w) = NoFile THEN "rename" ELSE "chmod")
    OBVIOUS
  <2>2. PICK m : m = (IF F!Target(w) = NoFile THEN "none" ELSE F!Target(w).mode)
    OBVIOUS
  <2>3. LinkOK(w) /\ ~unsure[w] /\ at' = [at EXCEPT ![w] = a]
    BY <1>3, <2>1, Unlinked DEF F!Ok, F!Go
  <2>4. F!Target(w) = target["remote"]
    BY <1>1 DEF F!Target, F!Place
  <2>5. m \in Modes /\ (a = "rename" => m = "none") /\ (a = "chmod" => m # "none") /\ a \in {"rename", "chmod"}
    BY <2>1, <2>2, <2>4 DEF Modes, F!Content
  <2>6. InPlace
    BY DEF FileInv
  <2>7. existed /\ posix => a = "chmod"
    BY <2>1, <2>4, <2>6 DEF InPlace
  <2>8. existed /\ (posix \/ NoneFound) /\ a = "chmod" => m = "kept"
    BY <2>1, <2>2, <2>4, <2>6 DEF InPlace, Kept
  <2>9. Known(w, a, tmp[w], m)
    BY <1>1, <2>5, <2>7, <2>8 DEF Known, UploadAt
  <2>10. May(w, a, tmp[w], m)
    BY <1>1, <1>3, <2>2, <2>3, <2>5, <2>9 DEF May, Goes
  <2> QED BY <1>3, <2>5, <2>10, Looks
<1> QED BY <1>2, <1>3 DEF F!Inspect, F!files

LEMMA ChmodKeeps ==
    ASSUME FileInv, NEW w \in F!Writers, F!Chmod(w)
    PROVE  FileInv'
<1> USE Has
<1>1. at[w] = "chmod" /\ w \in Uploads /\ UNCHANGED <<posix, existed>>
  BY DEF F!Chmod
<1>2. CASE F!Error(w, "cleanup")
  BY <1>1, <1>2, Denied DEF Known, UploadAt
<1>3. CASE /\ tmp' = [tmp EXCEPT ![w].mode = mode[w]] /\ UNCHANGED <<target, backup, mode>>
           /\ F!Does(w, IF posix THEN "replace" ELSE "aside", "cleanup")
  <2>1. PICK a : a = (IF posix THEN "replace" ELSE "aside")
    OBVIOUS
  <2>2. PICK c \in {a, "cleanup"} : LinkOK(w) /\ ~unsure[w] /\ at' = [at EXCEPT ![w] = c]
    BY <1>3, <2>1, Answered
  <2>3. tmp[w] \in F!Content /\ tmp[w].by = w /\ tmp[w].whole /\ mode[w] \in {"kept", "default"}
    BY <1>1 DEF Known, Modes
  <2>4. PICK t \in F!Content : t = [tmp[w] EXCEPT !.mode = mode[w]] /\ t.by = w /\ t.whole /\ t.mode = mode[w]
    <3>1. [tmp[w] EXCEPT !.mode = mode[w]] \in F!Content
      BY <2>3 DEF F!Content
    <3>2. /\ [tmp[w] EXCEPT !.mode = mode[w]].by = w /\ [tmp[w] EXCEPT !.mode = mode[w]].whole
          /\ [tmp[w] EXCEPT !.mode = mode[w]].mode = mode[w]
      BY <2>3 DEF F!Content
    <3> QED BY <3>1, <3>2
  <2>5. tmp' = [tmp EXCEPT ![w] = t]
    BY <1>3, <2>4
  <2>6. Known(w, c, t, mode[w])
    BY <1>1, <2>1, <2>2, <2>3, <2>4, WritersAssumption DEF Known, UploadAt
  <2>7. May(w, c, t, mode[w])
    BY <1>1, <1>3, <2>2, <2>4, <2>5, <2>6 DEF May, Goes
  <2> QED BY <1>3, <2>1, <2>2, <2>7, Looks
<1> QED BY <1>2, <1>3 DEF F!Chmod

(* A temporary file takes the name: by Rename, posix-rename, or the plain  *)
(* Rename after the target was moved aside.                                *)
LEMMA MoveTmpKeeps ==
    ASSUME FileInv, NEW w \in Uploads, NEW a, NEW c, F!MoveTmp(w), F!Does(w, a, c), UNCHANGED <<posix, existed>>,
           \/ at[w] = "rename" /\ a = "ok" /\ c = "cleanup"
           \/ at[w] = "replace" /\ a = "ok" /\ c = "cleanup"
           \/ at[w] = "place" /\ a = "unback" /\ c = "restore"
    PROVE  FileInv'
<1>1. w \in F!Writers /\ w \notin Downloads
  BY WritersAssumption DEF F!Writers
<1> USE <1>1, Has
<1>2. PICK b \in {a, c} : LinkOK(w) /\ ~unsure[w] /\ at' = [at EXCEPT ![w] = b] /\ (b = a \/ unsure'[w])
  BY Answered
<1>3. PICK f \in F!Content : f = tmp[w] /\ f.by = w /\ f.whole
  BY DEF Known
<1>4. /\ target' = [target EXCEPT ![F!Place(w)] = f] /\ tmp' = [tmp EXCEPT ![w] = NoFile]
      /\ UNCHANGED <<backup, mode>>
  BY <1>3 DEF F!MoveTmp, F!SetTarget
<1>5. Known(w, b, NoFile, mode[w])
  BY <1>2 DEF Known, UploadAt
<1>6. May(w, b, NoFile, mode[w])
  BY <1>2, <1>4, <1>5 DEF May, Goes
<1>7. existed /\ (posix \/ (NoneFound /\ NoneFound')) => f.mode = "kept"
  <2>1. CASE at[w] = "rename"
    <3>1. mode'[w] = "none" /\ (at'[w] = "ok" \/ unsure'[w])
      BY <2>1, <1>2, <1>4 DEF Known
    <3>2. ~NoneFound'
      BY <3>1 DEF NoneFound, F!FoundNone
    <3>3. ~(existed /\ posix)
      BY <2>1 DEF Known
    <3> QED BY <3>2, <3>3
  <2>2. CASE at[w] \in {"replace", "place"}
    BY <2>2, <1>3 DEF Known
  <2> QED BY <2>1, <2>2
<1>8. (b \in {"ok", "unback"} \/ unsure'[w]) /\ backup' = backup
  BY <1>2, <1>4
<1> HIDE <1>1, Has
<1> QED BY <1>1, <1>3, <1>4, <1>6, <1>7, <1>8, Lands

LEMMA RenameKeeps ==
    ASSUME FileInv, NEW w \in F!Writers, F!Rename(w)
    PROVE  FileInv'
<1> USE Has
<1>1. at[w] = "rename" /\ w \in Uploads /\ UNCHANGED <<posix, existed>>
  BY DEF F!Rename, Known, DownloadAt, F!Writers
<1>2. CASE F!Error(w, "cleanup")
  BY <1>1, <1>2, Denied DEF Known, UploadAt
<1>3. CASE F!MoveTmp(w) /\ F!Does(w, "ok", "cleanup")
  BY <1>1, <1>3, MoveTmpKeeps
<1> QED BY <1>2, <1>3 DEF F!Rename

LEMMA PosixRenameKeeps ==
    ASSUME FileInv, NEW w \in F!Writers, F!PosixRename(w)
    PROVE  FileInv'
<1> USE Has
<1>1. at[w] = "replace" /\ w \in Uploads /\ UNCHANGED <<posix, existed>>
  BY DEF F!PosixRename
<1>2. CASE F!Error(w, "cleanup")
  BY <1>1, <1>2, Denied DEF Known, UploadAt
<1>3. CASE F!MoveTmp(w) /\ F!Does(w, "ok", "cleanup")
  BY <1>1, <1>3, MoveTmpKeeps
<1> QED BY <1>2, <1>3 DEF F!PosixRename

LEMMA TakePlaceKeeps ==
    ASSUME FileInv, NEW w \in F!Writers, F!TakePlace(w)
    PROVE  FileInv'
<1> USE Has
<1>1. at[w] = "place" /\ w \in Uploads /\ UNCHANGED <<posix, existed>>
  BY DEF F!TakePlace, Known, DownloadAt, F!Writers
<1>2. CASE F!Error(w, "restore")
  BY <1>1, <1>2, Denied DEF Known, UploadAt
<1>3. CASE F!MoveTmp(w) /\ F!Does(w, "unback", "restore")
  BY <1>1, <1>3, MoveTmpKeeps
<1> QED BY <1>2, <1>3 DEF F!TakePlace

LEMMA MoveAsideKeeps ==
    ASSUME FileInv, NEW w \in F!Writers, F!MoveAside(w)
    PROVE  FileInv'
<1> USE Has
<1>1. at[w] = "aside" /\ w \in Uploads /\ UNCHANGED <<posix, existed>>
  BY DEF F!MoveAside, Known, DownloadAt, F!Writers
<1>2. CASE F!Error(w, "cleanup")
  BY <1>1, <1>2, Denied DEF Known, UploadAt
<1>3. CASE F!Target(w) # NoFile /\ F!MoveTarget(w) /\ F!Does(w, "place", "cleanup")
  <2>1. PICK c \in {"place", "cleanup"} : LinkOK(w) /\ ~unsure[w] /\ at' = [at EXCEPT ![w] = c]
    BY <1>3, Answered
  <2>2. /\ target["remote"] # NoFile /\ backup' = [backup EXCEPT ![w] = target["remote"]]
        /\ target' = [target EXCEPT !["remote"] = NoFile] /\ UNCHANGED <<tmp, mode>>
    BY <1>1, <1>3 DEF F!MoveTarget, F!SetTarget, F!Target, F!Place
  <2>3. Known(w, c, tmp[w], mode[w])
    BY <1>1, <2>1 DEF Known, UploadAt
  <2>4. May(w, c, tmp[w], mode[w])
    BY <1>1, <2>1, <2>2, <2>3 DEF May, Goes
  <2> QED BY <1>1, <2>1, <2>2, <2>4, MovesAside
<1> QED BY <1>2, <1>3 DEF F!MoveAside

LEMMA RestoreKeeps ==
    ASSUME FileInv, NEW w \in F!Writers, F!Restore(w)
    PROVE  FileInv'
<1> USE Has
<1>1. at[w] = "restore" /\ w \in Uploads /\ UNCHANGED <<posix, existed>>
  BY DEF F!Restore, Known, DownloadAt, F!Writers
<1>2. CASE F!Error(w, "cleanup")
  BY <1>1, <1>2, Denied DEF Known, UploadAt
<1>3. CASE /\ F!Target(w) = NoFile /\ F!SetTarget(w, backup[w])
           /\ backup' = [backup EXCEPT ![w] = NoFile] /\ UNCHANGED <<tmp, mode>>
           /\ F!Does(w, "cleanup", "cleanup")
  <2>1. LinkOK(w) /\ ~unsure[w] /\ at' = [at EXCEPT ![w] = "cleanup"]
    BY <1>3, Answered
  <2>2. target["remote"] = NoFile /\ target' = [target EXCEPT !["remote"] = backup[w]]
    BY <1>1, <1>3 DEF F!SetTarget, F!Target, F!Place
  <2>3. Known(w, "cleanup", tmp[w], mode[w])
    BY <1>1, <2>1 DEF Known, UploadAt
  <2>4. May(w, "cleanup", tmp[w], mode[w])
    BY <1>1, <1>3, <2>1, <2>3 DEF May, Goes
  <2> QED BY <1>1, <1>3, <2>2, <2>4, MovesBack
<1> QED BY <1>2, <1>3 DEF F!Restore

LEMMA RemoveBackupKeeps ==
    ASSUME FileInv, NEW w \in F!Writers, F!RemoveBackup(w)
    PROVE  FileInv'
<1> USE Has
<1>1. at[w] = "unback" /\ w \in Uploads /\ UNCHANGED <<posix, existed>>
  BY DEF F!RemoveBackup, Known, DownloadAt, F!Writers
<1>2. CASE F!Error(w, "ok")
  BY <1>1, <1>2, Denied DEF Known, UploadAt
<1>3. CASE /\ backup' = [backup EXCEPT ![w] = NoFile]
           /\ F!Does(w, "ok", "ok") /\ UNCHANGED <<target, tmp, mode>>
  <2>1. LinkOK(w) /\ ~unsure[w] /\ at' = [at EXCEPT ![w] = "ok"]
    BY <1>3, Answered
  <2>2. Known(w, "ok", tmp[w], mode[w])
    BY <1>1, <2>1 DEF Known, UploadAt
  <2>3. May(w, "ok", tmp[w], mode[w])
    BY <1>1, <1>3, <2>1, <2>2 DEF May, Goes
  <2> QED BY <1>1, <1>3, <2>3, DropsBackup
<1> QED BY <1>2, <1>3 DEF F!RemoveBackup

LEMMA DInspectKeeps ==
    ASSUME FileInv, NEW w \in F!Writers, F!DInspect(w)
    PROVE  FileInv'
<1> USE Has
<1>1. at[w] = "create" /\ w \in Downloads /\ w \notin Uploads /\ UNCHANGED <<target, tmp, backup, posix, existed>>
  BY DEF F!DInspect, F!files
<1>2. PICK m : m = (IF F!Target(w) = NoFile THEN "default" ELSE F!Target(w).mode)
  OBVIOUS
<1>3. LinkOK(w) /\ at' = [at EXCEPT ![w] = "temp"] /\ mode' = [mode EXCEPT ![w] = m]
  BY <1>2, Unlinked DEF F!DInspect, F!Locally, F!Go
<1>4. F!Target(w) = target["local"]
  BY <1>1 DEF F!Target, F!Place
<1>5. m \in Modes /\ m # "none"
  BY <1>2, <1>4 DEF Modes, F!Content
<1>6. existed => m = "kept"
  BY <1>2, <1>4 DEF FileInv, InPlace, Kept
<1>7. Known(w, "temp", tmp[w], m)
  BY <1>1, <1>5, <1>6 DEF Known, DownloadAt
<1>8. May(w, "temp", tmp[w], m)
  BY <1>1, <1>3, <1>5, <1>7 DEF May, Goes
<1> QED BY <1>1, <1>8, Looks

LEMMA DTempKeeps ==
    ASSUME FileInv, NEW w \in F!Writers, F!DTemp(w)
    PROVE  FileInv'
<1> USE Has
<1>1. at[w] = "temp" /\ w \in Downloads /\ w \notin Uploads /\ UNCHANGED <<target, backup, mode, posix, existed>>
  BY DEF F!DTemp, Known, UploadAt, F!Writers
<1>2. CASE tmp' = [tmp EXCEPT ![w] = F!Fresh(w)] /\ F!Locally(w, "fetch")
  <2>1. PICK t \in F!Content : t = F!Fresh(w) /\ t.by = w
    <3>1. F!Fresh(w) \in F!Content /\ F!Fresh(w).by = w
      BY DEF F!Fresh, F!Content
    <3> QED BY <3>1
  <2>2. LinkOK(w) /\ at' = [at EXCEPT ![w] = "fetch"]
    BY <1>2, Unlinked DEF F!Locally, F!Go
  <2>3. Known(w, "fetch", t, mode[w])
    BY <1>1, <2>1, WritersAssumption DEF Known, DownloadAt
  <2>4. May(w, "fetch", t, mode[w])
    BY <1>1, <1>2, <2>1, <2>2, <2>3 DEF May, Goes
  <2> QED BY <1>1, <2>4, Looks
<1>3. CASE F!Locally(w, "failed") /\ UNCHANGED tmp
  <2>1. LinkOK(w) /\ at' = [at EXCEPT ![w] = "failed"]
    BY <1>3, Unlinked DEF F!Locally, F!Go
  <2>2. Known(w, "failed", tmp[w], mode[w])
    BY <1>1 DEF Known, DownloadAt
  <2>3. May(w, "failed", tmp[w], mode[w])
    BY <1>1, <1>3, <2>1, <2>2 DEF May, Goes
  <2> QED BY <1>1, <2>3, Looks
<1> QED BY <1>2, <1>3 DEF F!DTemp

LEMMA DCopyKeeps ==
    ASSUME FileInv, NEW w \in F!Writers, F!DCopy(w)
    PROVE  FileInv'
<1> USE Has
<1>1. at[w] = "fetch" /\ w \in Downloads /\ w \notin Uploads /\ UNCHANGED <<posix, existed>>
  BY DEF F!DCopy, Known, UploadAt, F!Writers
<1>2. CASE F!Error(w, "cleanup")
  BY <1>1, <1>2, Denied DEF Known, DownloadAt
<1>3. CASE /\ F!Ok(w, "keep") /\ tmp' = [tmp EXCEPT ![w].whole = TRUE]
           /\ UNCHANGED <<target, backup, mode>>
  <2>1. LinkOK(w) /\ at' = [at EXCEPT ![w] = "keep"]
    BY <1>3, Unlinked DEF F!Ok, F!Go
  <2>2. tmp[w] \in F!Content /\ tmp[w].by = w
    BY <1>1 DEF Known
  <2>3. PICK t \in F!Content : t = [tmp[w] EXCEPT !.whole = TRUE] /\ t.by = w /\ t.whole
    <3>1. [tmp[w] EXCEPT !.whole = TRUE] \in F!Content
      BY <2>2 DEF F!Content
    <3>2. [tmp[w] EXCEPT !.whole = TRUE].by = w /\ [tmp[w] EXCEPT !.whole = TRUE].whole
      BY <2>2 DEF F!Content
    <3> QED BY <3>1, <3>2
  <2>4. tmp' = [tmp EXCEPT ![w] = t]
    BY <1>3, <2>3
  <2>5. Known(w, "keep", t, mode[w])
    BY <1>1, <2>2, <2>3, WritersAssumption DEF Known, DownloadAt
  <2>6. May(w, "keep", t, mode[w])
    BY <1>1, <1>3, <2>1, <2>3, <2>4, <2>5 DEF May, Goes
  <2> QED BY <1>3, <2>6, Looks
<1> QED BY <1>2, <1>3 DEF F!DCopy

LEMMA DReplaceKeeps ==
    ASSUME FileInv, NEW w \in F!Writers, F!DReplace(w)
    PROVE  FileInv'
<1>1. at[w] = "keep" /\ w \in Downloads /\ w \notin Uploads /\ UNCHANGED <<backup, mode, posix, existed>>
  BY Has DEF F!DReplace, Known, UploadAt, F!Writers
<1>2. CASE F!Locally(w, "cleanup") /\ UNCHANGED <<target, tmp>>
  <2>1. LinkOK(w) /\ at' = [at EXCEPT ![w] = "cleanup"]
    BY <1>2, Unlinked DEF F!Locally, F!Go
  <2>2. Known(w, "cleanup", tmp[w], mode[w])
    BY <1>1, Has DEF Known, DownloadAt
  <2>3. May(w, "cleanup", tmp[w], mode[w])
    BY <1>1, <1>2, <2>1, <2>2, Has DEF May, Goes
  <2> QED BY <1>1, <1>2, <2>3, Looks
<1>3. CASE /\ F!SetTarget(w, [tmp[w] EXCEPT !.mode = mode[w]])
           /\ tmp' = [tmp EXCEPT ![w] = NoFile] /\ F!Locally(w, "ok")
  <2>1. LinkOK(w) /\ at' = [at EXCEPT ![w] = "ok"]
    BY <1>3, Unlinked DEF F!Locally, F!Go
  <2>2. tmp[w] \in F!Content /\ tmp[w].by = w /\ tmp[w].whole /\ mode[w] \in {"kept", "default"}
    BY <1>1, Has DEF Known, Modes
  <2>3. PICK f \in F!Content : f = [tmp[w] EXCEPT !.mode = mode[w]] /\ f.by = w /\ f.whole /\ f.mode = mode[w]
    <3>1. [tmp[w] EXCEPT !.mode = mode[w]] \in F!Content
      BY <2>2 DEF F!Content
    <3>2. /\ [tmp[w] EXCEPT !.mode = mode[w]].by = w /\ [tmp[w] EXCEPT !.mode = mode[w]].whole
          /\ [tmp[w] EXCEPT !.mode = mode[w]].mode = mode[w]
      BY <2>2 DEF F!Content
    <3> QED BY <3>1, <3>2
  <2>4. target' = [target EXCEPT ![F!Place(w)] = f]
    BY <1>3, <2>3 DEF F!SetTarget
  <2>5. Known(w, "ok", NoFile, mode[w])
    BY <1>1, Has DEF Known, DownloadAt
  <2>6. May(w, "ok", NoFile, mode[w])
    BY <1>1, <1>3, <2>1, <2>5, Has DEF May, Goes
  <2>7. existed => f.mode = "kept"
    BY <1>1, <2>3, Has DEF Known
  <2> QED BY <1>1, <2>3, <2>4, <2>6, <2>7, Lands
<1> QED BY <1>2, <1>3 DEF F!DReplace

LEMMA DiesKeeps ==
    ASSUME FileInv, F!Dies
    PROVE  FileInv'
<1>1. FileTyped /\ WritersKnown /\ InPlace
  BY DEF FileInv
<1>2. /\ at' = [w \in F!Writers |-> IF at[w] \in {"ok", "failed"} THEN at[w] ELSE "dead"]
      /\ UNCHANGED <<target, tmp, backup, mode, link, unsure, posix, existed>>
  BY DEF F!Dies, F!files
<1>3. \A w \in F!Writers : at'[w] = (IF at[w] \in {"ok", "failed"} THEN at[w] ELSE "dead")
  BY <1>2
<1>4. FileTyped'
  BY <1>1, <1>2 DEF FileTyped, F!TypeOK, UploadAt, DownloadAt
<1>5. NoneFound' => NoneFound
  BY <1>2, <1>3 DEF NoneFound, F!FoundNone, F!Writers
<1>6. WritersKnown'
  <2>1. SUFFICES ASSUME NEW w \in F!Writers
                 PROVE  (Known(w, at[w], tmp[w], mode[w]) /\ (unsure[w] => ~link[w]))'
    BY DEF WritersKnown
  <2>2. \E a : a = at'[w] /\ Known(w, a, tmp[w], mode[w])
    BY <1>1, <1>3 DEF WritersKnown, Known, UploadAt, DownloadAt
  <2>3. PICK a : a = at'[w] /\ Known(w, a, tmp[w], mode[w])
    BY <2>2
  <2>4. Known(w, a, tmp[w], mode[w])'
    BY <2>3, <1>2, <1>5 DEF Known
  <2> QED BY <2>3, <2>4, <1>1, <1>2 DEF Known, WritersKnown
<1>7. /\ target["remote"] \in F!Content \cup {NoFile} /\ target["local"] \in F!Content \cup {NoFile}
      /\ \A v \in F!Writers : backup[v] \in F!Content \cup {NoFile}
  BY <1>1 DEF FileTyped, F!TypeOK
<1>8. \A f \in F!Content \cup {NoFile} : Settled(f) => Settled(f)'
  <2>1. SUFFICES ASSUME NEW f \in F!Content, Settled(f), f # NoFile, f.by # Previous PROVE Committed(f.by)'
    BY DEF Settled
  <2>2. PICK v \in F!Writers : v = f.by
    BY <2>1 DEF F!Content
  <2>3. Committed(v)
    BY <2>1, <2>2 DEF Settled
  <2> QED BY <2>2, <2>3, <1>2, <1>3 DEF Committed
<1>9. /\ Settled(target["remote"])' /\ Settled(target["local"])' /\ \A v \in F!Writers : Settled(backup[v])'
  <2>1. \A f \in F!Content \cup {NoFile} :
           /\ f = target["remote"] => Settled(target["remote"])'
           /\ f = target["local"] => Settled(target["local"])'
           /\ \A v \in F!Writers : f = backup[v] => Settled(backup[v])'
    BY <1>1, <1>2, <1>8 DEF InPlace, Settled, Committed
  <2> QED BY <2>1, <1>7
<1>10. existed => target["remote"] # NoFile \/ \E v \in Uploads : backup[v] # NoFile /\ at'[v] # "unback"
  BY <1>1, <1>3 DEF InPlace, F!Writers
<1>11. InPlace'
  BY <1>1, <1>2, <1>5, <1>9, <1>10 DEF InPlace, Kept
<1> QED BY <1>4, <1>6, <1>11 DEF FileInv

LEMMA FilesFirst == F!Init => FileInv
<1> SUFFICES ASSUME F!Init PROVE FileInv
  OBVIOUS
<1>1. PICK f \in F!Content : f = [by |-> Previous, whole |-> TRUE, mode |-> "kept"] /\ f.by = Previous /\ f.whole /\ f.mode = "kept"
  <2>1. [by |-> Previous, whole |-> TRUE, mode |-> "kept"] \in F!Content
    BY DEF F!Content
  <2> QED BY <2>1
<1>2. /\ existed \in BOOLEAN /\ posix \in BOOLEAN
      /\ target = [p \in {"remote", "local"} |-> IF existed THEN f ELSE NoFile]
      /\ tmp = [w \in F!Writers |-> NoFile] /\ backup = [w \in F!Writers |-> NoFile]
      /\ at = [w \in F!Writers |-> "create"] /\ mode = [w \in F!Writers |-> "none"]
      /\ link = [w \in F!Writers |-> TRUE] /\ unsure = [w \in F!Writers |-> FALSE]
  BY <1>1 DEF F!Init
<1>3. FileTyped
  BY <1>2 DEF FileTyped, F!TypeOK, UploadAt, DownloadAt
<1>4. WritersKnown
  BY <1>2 DEF WritersKnown, Known, UploadAt, DownloadAt
<1>5. f # NoFile
  BY WritersAssumption
<1>6. InPlace
  BY <1>1, <1>2, <1>5 DEF InPlace, Settled, Kept, F!Writers
<1> QED BY <1>3, <1>4, <1>6 DEF FileInv

LEMMA FileStepKeeps == FileInv /\ F!Next => FileInv'
<1> SUFFICES ASSUME FileInv, F!Next PROVE FileInv'
  OBVIOUS
<1>1. CASE F!Dies
  BY <1>1, DiesKeeps
<1>2. CASE \E w \in F!Writers : F!Upload(w)
  <2>1. PICK w \in F!Writers : F!Upload(w)
    BY <1>2
  <2> QED BY <2>1, CreateKeeps, CopyAllKeeps, CleanupKeeps, InspectKeeps, ChmodKeeps, RenameKeeps, PosixRenameKeeps,
             MoveAsideKeeps, TakePlaceKeeps, RestoreKeeps, RemoveBackupKeeps DEF F!Upload
<1>3. CASE \E w \in F!Writers : F!Download(w)
  <2>1. PICK w \in F!Writers : F!Download(w)
    BY <1>3
  <2> QED BY <2>1, DInspectKeeps, DTempKeeps, DCopyKeeps, DReplaceKeeps DEF F!Download
<1> QED BY <1>1, <1>2, <1>3 DEF F!Next

LEMMA FilesStayPut == FileInv /\ UNCHANGED fileVars => FileInv'
<1> SUFFICES ASSUME FileInv, UNCHANGED <<target, tmp, backup, at, mode, link, unsure, posix, existed>> PROVE FileInv'
  BY DEF fileVars
<1>1. FileTyped'
  BY DEF FileInv, FileTyped, F!TypeOK
<1>2. WritersKnown'
  BY DEF FileInv, WritersKnown, Known, NoneFound, F!FoundNone
<1>3. InPlace'
  BY DEF FileInv, InPlace, Settled, Committed, Kept, NoneFound, F!FoundNone
<1> QED BY <1>1, <1>2, <1>3 DEF FileInv

LEMMA FilesStepKeeps ==
    (focus = "files" => FileInv) /\ [Queue \/ Replacing \/ Clients \/ Tree \/ Rest]_allVars => (focus = "files" => FileInv)'
<1> SUFFICES ASSUME focus = "files" => FileInv, [Queue \/ Replacing \/ Clients \/ Tree \/ Rest]_allVars, focus' = "files"
             PROVE  FileInv'
  OBVIOUS
<1>1. CASE Queue
  BY <1>1 DEF Queue
<1>2. CASE Replacing
  BY <1>2, FileStepKeeps DEF Replacing
<1>3. CASE Clients
  BY <1>3 DEF Clients
<1>4. CASE Tree
  BY <1>4 DEF Tree
<1>5. CASE Rest \/ UNCHANGED allVars
  BY <1>5, FilesStayPut DEF Rest, allVars
<1> QED BY <1>1, <1>2, <1>3, <1>4, <1>5

(* Whatever the other parts do, the files that any number of uploads and   *)
(* downloads replace keep the invariant (sftpservice.go:500-900).          *)
THEOREM FilesInvariant == FilesSpec => [](focus = "files" => FileInv)
<1>1. FilesInit => (focus = "files" => FileInv)
  BY FilesFirst DEF FilesInit, FileInit
<1> QED BY <1>1, FilesStepKeeps, PTL DEF FilesSpec

LEMMA FileInvIsSafe == FileInv => F!ReplacesSafely
<1> SUFFICES ASSUME FileInv PROVE F!ReplacesSafely
  OBVIOUS
<1>1. FileTyped /\ WritersKnown /\ InPlace
  BY DEF FileInv
<1>2. F!TypeOK
  BY <1>1 DEF FileTyped
<1>3. \A w \in Uploads : w \in F!Writers /\ F!Place(w) = "remote"
  BY DEF F!Writers, F!Place
<1>4. \A w \in Downloads : w \in F!Writers /\ F!Place(w) = "local"
  BY WritersAssumption DEF F!Writers, F!Place
<1>5. \A f \in F!Copies("remote") : f # NoFile /\ (f = target["remote"] \/ \E w \in Uploads : f = backup[w])
  BY <1>4 DEF F!Copies, F!Writers
<1>6. \A f \in F!Copies("local") : f # NoFile /\ f = target["local"]
  BY <1>1, <1>3 DEF F!Copies, F!Writers, InPlace
<1>7. \A p \in {"remote", "local"} : \A f \in F!Copies(p) : Settled(f) /\ f # NoFile
  BY <1>1, <1>3, <1>5, <1>6 DEF InPlace, Settled, Committed
<1>8. F!PreviousSurvives
  <2>1. SUFFICES ASSUME NEW p \in {"remote", "local"}
                 PROVE  /\ \A f \in F!Copies(p) : f.whole
                        /\ existed => F!Copies(p) # {}
                        /\ existed /\ (p = "local" \/ posix) => target[p] # NoFile /\ target[p].mode = "kept"
                        /\ existed /\ (\A w \in Uploads : ~F!FoundNone(w)) => \A f \in F!Copies(p) : f.mode = "kept"
    BY DEF F!PreviousSurvives
  <2>2. \A f \in F!Copies(p) : f.whole
    BY <1>7 DEF Settled
  <2>3. existed => F!Copies(p) # {}
    <3>1. target[p] # NoFile => target[p] \in F!Copies(p)
      BY DEF F!Copies
    <3>2. \A w \in Uploads : p = "remote" /\ backup[w] # NoFile => backup[w] \in F!Copies(p)
      BY <1>3 DEF F!Copies
    <3> QED BY <1>1, <3>1, <3>2 DEF InPlace
  <2>4. existed /\ (p = "local" \/ posix) => target[p] # NoFile /\ target[p].mode = "kept"
    BY <1>1 DEF InPlace, Kept
  <2>5. existed /\ (\A w \in Uploads : ~F!FoundNone(w)) => \A f \in F!Copies(p) : f.mode = "kept"
    BY <1>1, <1>5, <1>6 DEF InPlace, Kept, NoneFound
  <2> QED BY <2>2, <2>3, <2>4, <2>5
<1>9. F!OutcomeIsTrue
  <2>1. SUFFICES ASSUME NEW w \in F!Writers
                 PROVE  /\ at[w] = "failed" /\ ~unsure[w] => \A f \in F!Copies(F!Place(w)) : f.by # w
                        /\ at[w] = "ok" => tmp[w] = NoFile
    BY DEF F!OutcomeIsTrue
  <2>2. F!Place(w) \in {"remote", "local"} /\ w # Previous
    BY WritersAssumption DEF F!Place, F!Writers
  <2>3. at[w] = "failed" /\ ~unsure[w] => \A f \in F!Copies(F!Place(w)) : f.by # w
    BY <1>7, <2>2 DEF Settled, Committed
  <2>4. at[w] = "ok" => tmp[w] = NoFile
    BY <1>1 DEF WritersKnown, Known
  <2> QED BY <2>3, <2>4
<1> QED BY <1>2, <1>8, <1>9 DEF F!ReplacesSafely

(* A file that was there survives whatever fails, is cut off or gets in    *)
(* the way, nothing incomplete is ever under its name, and an outcome that *)
(* is reported is true (sftpservice.go:524-526, 609-624, 718-726,          *)
(* 882-890).                                                               *)
THEOREM FilesAreReplacedSafely == FilesSpec => []ReplacesSafely
<1>1. (focus = "files" => FileInv) => ReplacesSafely
  BY FileInvIsSafe DEF ReplacesSafely
<1> QED BY <1>1, FilesInvariant, PTL

(* With the other parts beside it, the queue behaves as it does alone: all *)
(* that is proved of Spec holds of FilesSpec (transfer.go:262-390).        *)
THEOREM QueueAsAlone == FilesSpec => Spec
<1>1. FilesInit => Init
  BY DEF FilesInit
<1>2. [Queue \/ Replacing \/ Clients \/ Tree \/ Rest]_allVars => [Next]_vars
  BY DEF Queue, Replacing, Clients, Tree, Rest, allVars
<1> QED BY <1>1, <1>2, PTL DEF FilesSpec, Spec

-----------------------------------------------------------------------------
(* RemoteTree.  A path is a sequence of names, the root the empty one.     *)
Path == Seq(Names)
Kinds == [is : {"dir", "file", "link"}, to : Path]

(* A set of numbers has a least one.                                       *)
LEMMA Least ==
    ASSUME NEW T \in SUBSET Nat, T # {}
    PROVE  \E n \in T : \A m \in T : n <= m
<1>1. PICK n \in T : \A m \in T : ~(<<m, n>> \in OpToRel(<, Nat))
  BY WFMin, NatLessThanWellFounded
<1>2. ASSUME NEW m \in T PROVE n <= m
  <2>1. m \in Nat /\ n \in Nat /\ <<m, n>> \in Nat \X Nat
    OBVIOUS
  <2>2. ~(m < n)
    BY <1>1, <2>1 DEF OpToRel
  <2>. QED BY <2>1, <2>2
<1>. QED BY <1>2

(* What is computed step by step from a first value exists.                *)
Steps(S, N, step) == \A n \in 1 .. N : \A x \in S : step[<<n, x>>] \in S

Computes(S, N, a, step, f) ==
    f \in [0 .. N -> S] /\ f[0] = a /\ \A n \in 1 .. N : f[n] = step[<<n, f[n - 1]>>]

LEMMA Iterates ==
    ASSUME NEW S, NEW N \in Nat, NEW a \in S, NEW step, Steps(S, N, step)
    PROVE  \E f : Computes(S, N, a, step, f)
<1>. DEFINE Upto(n) == \E f \in [0 .. n -> S] : f[0] = a /\ \A k \in 1 .. n : f[k] = step[<<k, f[k - 1]>>]
            Bad     == {n \in 0 .. N : ~Upto(n)}
<1>1. Upto(0)
  <2>1. PICK f : f = [k \in 0 .. 0 |-> a]
    OBVIOUS
  <2>2. f \in [0 .. 0 -> S] /\ f[0] = a
    BY <2>1
  <2>. QED BY <2>2
<1>2. ASSUME NEW n \in 0 .. N - 1, Upto(n) PROVE Upto(n + 1)
  <2>1. PICK f \in [0 .. n -> S] : f[0] = a /\ \A k \in 1 .. n : f[k] = step[<<k, f[k - 1]>>]
    BY <1>2
  <2>2. n \in 0 .. n /\ n + 1 \in 1 .. N /\ f[n] \in S
    BY <2>1
  <2>3. step[<<n + 1, f[n]>>] \in S
    BY <2>2 DEF Steps
  <2>4. PICK g : g = [k \in 0 .. n + 1 |-> IF k = n + 1 THEN step[<<n + 1, f[n]>>] ELSE f[k]]
    OBVIOUS
  <2>5. \A k \in 0 .. n + 1 : g[k] \in S
    <3>1. \A k \in 0 .. n + 1 : k = n + 1 \/ k \in 0 .. n
      OBVIOUS
    <3>. QED BY <2>1, <2>3, <2>4, <3>1
  <2>6. g[n + 1] = step[<<n + 1, f[n]>>] /\ \A k \in 0 .. n : g[k] = f[k]
    BY <2>4
  <2>7. \A k \in 1 .. n + 1 : g[k] = step[<<k, g[k - 1]>>]
    <3>. SUFFICES ASSUME NEW k \in 1 .. n + 1 PROVE g[k] = step[<<k, g[k - 1]>>]
      OBVIOUS
    <3>1. CASE k = n + 1
      <4>1. k - 1 = n /\ g[k - 1] = f[n]
        BY <2>6, <3>1
      <4>. QED BY <2>6, <3>1, <4>1
    <3>2. CASE k \in 1 .. n
      <4>1. k - 1 \in 0 .. n /\ k \in 0 .. n
        BY <3>2
      <4>2. g[k] = f[k] /\ g[k - 1] = f[k - 1]
        BY <2>6, <4>1
      <4>. QED BY <2>1, <3>2, <4>2
    <3>3. k = n + 1 \/ k \in 1 .. n
      OBVIOUS
    <3>. QED BY <3>1, <3>2, <3>3
  <2>8. g \in [0 .. n + 1 -> S] /\ g[0] = a
    <3>1. 0 \in 0 .. n
      OBVIOUS
    <3>. QED BY <2>1, <2>4, <2>5, <2>6, <3>1
  <2>. QED BY <2>7, <2>8
<1>. HIDE DEF Upto
<1>3. SUFFICES ASSUME Bad # {} PROVE FALSE
  <2>1. Bad = {} => Upto(N)
    OBVIOUS
  <2>. QED BY <1>3, <2>1 DEF Upto, Computes
<1>4. PICK n \in Bad : \A m \in Bad : n <= m
  <2>1. Bad \in SUBSET Nat
    OBVIOUS
  <2>. HIDE DEF Bad
  <2>. QED BY <1>3, <2>1, Least
<1>5. n # 0
  BY <1>1, <1>4
<1>6. n - 1 \in 0 .. N - 1 /\ (n - 1) + 1 = n /\ n - 1 \notin Bad
  BY <1>4, <1>5
<1>7. Upto(n - 1)
  BY <1>6
<1>. QED BY <1>2, <1>4, <1>6, <1>7

(* A path is within another if it begins with its names.                   *)
LEMMA Within ==
    ASSUME NEW p \in Path, NEW q \in Path
    PROVE  R!withinRoot(p, q) <=> Len(q) <= Len(p) /\ \A i \in 1 .. Len(q) : p[i] = q[i]
<1>1. /\ Len(p) \in Nat /\ Len(q) \in Nat
      /\ \A i \in 1 .. Len(p) : p[i] \in Names
      /\ \A i \in 1 .. Len(q) : q[i] \in Names
  BY LenProperties DEF Path
<1>2. SubSeq(q, 1, Len(q)) = q
  BY SubSeqFull DEF Path
<1>3. ASSUME Len(q) <= Len(p)
      PROVE  /\ SubSeq(p, 1, Len(q)) \in Seq(Names) /\ Len(SubSeq(p, 1, Len(q))) = Len(q)
             /\ \A i \in 1 .. Len(q) : SubSeq(p, 1, Len(q))[i] = p[i]
  <2>1. PICK n \in Nat : n = Len(q)
    BY <1>1
  <2>2. \A i \in 1 .. n : p[i] \in Names
    BY <1>1, <1>3, <2>1
  <2>3. /\ SubSeq(p, 1, n) \in Seq(Names)
        /\ Len(SubSeq(p, 1, n)) = IF 1 <= n THEN n - 1 + 1 ELSE 0
        /\ \A i \in 1 .. n - 1 + 1 : SubSeq(p, 1, n)[i] = p[1 + i - 1]
    BY <2>2, SubSeqProperties
  <2>4. (IF 1 <= n THEN n - 1 + 1 ELSE 0) = n /\ n - 1 + 1 = n /\ \A i \in 1 .. n : 1 + i - 1 = i
    OBVIOUS
  <2>. QED BY <2>1, <2>3, <2>4
<1>4. R!withinRoot(p, q) <=> Len(q) <= Len(p) /\ q = SubSeq(p, 1, Len(q))
  BY <1>2 DEF R!withinRoot, R!IsPrefix
<1>5. ASSUME Len(q) <= Len(p), \A i \in 1 .. Len(q) : p[i] = q[i] PROVE q = SubSeq(p, 1, Len(q))
  <2>1. PICK s : s = SubSeq(p, 1, Len(q))
    OBVIOUS
  <2>2. s \in Seq(Names) /\ Len(s) = Len(q) /\ \A i \in 1 .. Len(q) : q[i] = s[i]
    BY <1>3, <1>5, <2>1
  <2>. QED BY <2>1, <2>2, SeqEqual DEF Path
<1>. QED BY <1>3, <1>4, <1>5

(* To be within is transitive; what is within another and not longer is it.*)
LEMMA WithinOrder ==
    ASSUME NEW p \in Path, NEW q \in Path, R!withinRoot(p, q)
    PROVE  /\ \A r \in Path : R!withinRoot(q, r) => R!withinRoot(p, r)
           /\ q # p => Len(q) < Len(p)
<1>1. Len(p) \in Nat /\ Len(q) \in Nat /\ Len(q) <= Len(p) /\ \A i \in 1 .. Len(q) : p[i] = q[i]
  BY Within, LenProperties DEF Path
<1>2. ASSUME NEW r \in Path, R!withinRoot(q, r) PROVE R!withinRoot(p, r)
  <2>1. Len(r) \in Nat /\ Len(r) <= Len(q) /\ \A i \in 1 .. Len(r) : q[i] = r[i]
    BY <1>2, Within, LenProperties DEF Path
  <2>2. Len(r) <= Len(p) /\ \A i \in 1 .. Len(r) : p[i] = r[i]
    BY <1>1, <2>1
  <2>. QED BY <2>2, Within
<1>3. ASSUME ~(Len(q) < Len(p)) PROVE q = p
  <2>1. Len(q) = Len(p)
    BY <1>1, <1>3
  <2>. QED BY <1>1, <2>1, SeqEqual DEF Path
<1>. QED BY <1>2, <1>3

(* A path without its last name, and with one more.                        *)
LEMMA Ends ==
    ASSUME NEW p \in Path
    PROVE  /\ R!withinRoot(p, p) /\ R!withinRoot(p, <<>>) /\ <<>> \in Path
           /\ p # <<>> => /\ R!Front(p) \in Path /\ R!Last(p) \in Names /\ p = Append(R!Front(p), R!Last(p))
                          /\ R!withinRoot(p, R!Front(p)) /\ Len(R!Front(p)) = Len(p) - 1
                          /\ \A r \in Path : R!withinRoot(p, r) /\ r # p => R!withinRoot(R!Front(p), r)
           /\ \A n \in Names : /\ Append(p, n) \in Path /\ Append(p, n) # <<>>
                               /\ R!Front(Append(p, n)) = p /\ R!Last(Append(p, n)) = n
                               /\ R!withinRoot(Append(p, n), p)
<1>0. Len(p) \in Nat /\ \A i \in 1 .. Len(p) : p[i] \in Names
  BY LenProperties DEF Path
<1>1. <<>> \in Path /\ Len(<<>>) = 0
  BY EmptySeq DEF Path
<1>2. R!withinRoot(p, p) /\ R!withinRoot(p, <<>>)
  <2>1. Len(p) <= Len(p) /\ \A i \in 1 .. Len(<<>>) : p[i] = <<>>[i]
    BY <1>0, <1>1
  <2>2. Len(<<>>) <= Len(p)
    BY <1>0, <1>1
  <2>. QED BY <1>1, <2>1, <2>2, Within
<1>3. ASSUME p # <<>>
      PROVE  /\ R!Front(p) \in Path /\ R!Last(p) \in Names /\ p = Append(R!Front(p), R!Last(p))
             /\ R!withinRoot(p, R!Front(p)) /\ Len(R!Front(p)) = Len(p) - 1
             /\ \A r \in Path : R!withinRoot(p, r) /\ r # p => R!withinRoot(R!Front(p), r)
  <2>1. PICK n \in Nat : Len(p) = n + 1
    <3>1. Len(p) # 0
      BY <1>3, EmptySeq DEF Path
    <3>2. Len(p) - 1 \in Nat /\ Len(p) = (Len(p) - 1) + 1
      BY <1>0, <3>1
    <3>. QED BY <3>2
  <2>2. PICK f : f = R!Front(p)
    OBVIOUS
  <2>3. /\ f \in Path /\ Len(f) = n
        /\ \A i \in 1 .. n : f[i] = p[i]
    <3>1. f = SubSeq(p, 1, n)
      <4>1. Len(p) - 1 = n
        BY <2>1
      <4>. QED BY <2>2, <4>1 DEF R!Front
    <3>2. \A i \in 1 .. n : p[i] \in Names
      BY <1>0, <2>1
    <3>3. /\ SubSeq(p, 1, n) \in Seq(Names)
          /\ Len(SubSeq(p, 1, n)) = IF 1 <= n THEN n - 1 + 1 ELSE 0
          /\ \A i \in 1 .. n - 1 + 1 : SubSeq(p, 1, n)[i] = p[1 + i - 1]
      BY <3>2, SubSeqProperties
    <3>4. (IF 1 <= n THEN n - 1 + 1 ELSE 0) = n /\ n - 1 + 1 = n /\ \A i \in 1 .. n : 1 + i - 1 = i
      OBVIOUS
    <3>. QED BY <3>1, <3>3, <3>4 DEF Path
  <2>4. PICK l \in Names : l = R!Last(p) /\ l = p[n + 1]
    BY <1>0, <2>1 DEF R!Last
  <2>5. p = Append(f, l)
    <3>1. PICK a : a = Append(f, l)
      OBVIOUS
    <3>2. a \in Path /\ Len(a) = n + 1 /\ (\A i \in 1 .. n : a[i] = f[i]) /\ a[n + 1] = l
      BY <2>3, <3>1, AppendProperties DEF Path
    <3>3. \A i \in 1 .. n + 1 : i \in 1 .. n \/ i = n + 1
      OBVIOUS
    <3>4. \A i \in 1 .. n + 1 : p[i] = a[i]
      BY <2>3, <2>4, <3>2, <3>3
    <3>. QED BY <2>1, <3>1, <3>2, <3>4, SeqEqual DEF Path
  <2>6. R!withinRoot(p, f)
    <3>1. n <= n + 1 /\ \A i \in 1 .. n : p[i] = f[i]
      BY <2>3
    <3>. QED BY <2>1, <2>3, <3>1, Within
  <2>7. ASSUME NEW r \in Path, R!withinRoot(p, r), r # p PROVE R!withinRoot(f, r)
    <3>1. Len(r) \in Nat /\ Len(r) <= n /\ \A i \in 1 .. Len(r) : p[i] = r[i]
      BY <2>1, <2>7, Within, WithinOrder, LenProperties DEF Path
    <3>2. \A i \in 1 .. Len(r) : f[i] = r[i]
      BY <2>3, <3>1
    <3>. QED BY <2>3, <3>1, <3>2, Within
  <2>8. Len(f) = Len(p) - 1
    BY <2>1, <2>3
  <2>. QED BY <2>2, <2>3, <2>4, <2>5, <2>6, <2>7, <2>8
<1>4. ASSUME NEW n \in Names
      PROVE  /\ Append(p, n) \in Path /\ Append(p, n) # <<>>
             /\ R!Front(Append(p, n)) = p /\ R!Last(Append(p, n)) = n
             /\ R!withinRoot(Append(p, n), p)
  <2>1. PICK a : a = Append(p, n)
    OBVIOUS
  <2>2. /\ a \in Path /\ a # <<>> /\ Len(a) = Len(p) + 1
        /\ (\A i \in 1 .. Len(p) : a[i] = p[i]) /\ a[Len(p) + 1] = n
    BY <2>1, AppendProperties DEF Path
  <2>3. R!Last(a) = n
    BY <2>2 DEF R!Last
  <2>4. R!withinRoot(a, p)
    <3>1. Len(p) <= Len(p) + 1
      BY <1>0
    <3>. QED BY <2>2, <3>1, Within
  <2>5. R!Front(a) = p
    <3>1. PICK m \in Nat : m = Len(p)
      BY <1>0
    <3>2. R!Front(a) = SubSeq(a, 1, m)
      <4>1. Len(a) - 1 = m
        BY <2>2, <3>1
      <4>. QED BY <4>1 DEF R!Front
    <3>3. SubSeq(a, 1, Len(p)) = SubSeq(p, 1, Len(p)) /\ SubSeq(p, 1, Len(p)) = p
      BY <2>2, <2>4, SubSeqFull DEF R!withinRoot, R!IsPrefix, Path
    <3>. QED BY <3>1, <3>2, <3>3
  <2>. QED BY <2>1, <2>2, <2>3, <2>4, <2>5
<1>. QED BY <1>1, <1>2, <1>3, <1>4

(* What follows the first names of a path.                                 *)
LEMMA Remainder ==
    ASSUME NEW p \in Path, NEW k \in Nat, k <= Len(p)
    PROVE  /\ SubSeq(p, k + 1, Len(p)) \in Path /\ Len(SubSeq(p, k + 1, Len(p))) = Len(p) - k
           /\ \A i \in 1 .. Len(p) - k : SubSeq(p, k + 1, Len(p))[i] = p[k + i]
<1>1. PICK n \in Nat : Len(p) = n
  BY LenProperties DEF Path
<1>2. \A i \in k + 1 .. n : p[i] \in Names
  <2>1. \A i \in k + 1 .. n : i \in 1 .. Len(p)
    BY <1>1
  <2>. QED BY <2>1, LenProperties DEF Path
<1>3. PICK s : s = SubSeq(p, k + 1, n)
  OBVIOUS
<1>4. /\ s \in Seq(Names)
      /\ Len(s) = IF k + 1 <= n THEN n - (k + 1) + 1 ELSE 0
      /\ \A i \in 1 .. n - (k + 1) + 1 : s[i] = p[k + 1 + i - 1]
  <2>1. k + 1 \in Nat
    OBVIOUS
  <2>. QED BY <1>2, <1>3, <2>1, SubSeqProperties
<1>5. /\ (IF k + 1 <= n THEN n - (k + 1) + 1 ELSE 0) = n - k /\ n - (k + 1) + 1 = n - k
      /\ \A i \in 1 .. n - k : k + 1 + i - 1 = k + i
  BY <1>1
<1>. QED BY <1>1, <1>3, <1>4, <1>5 DEF Path

(* What is below a path is below one of its names.                         *)
LEMMA Towards ==
    ASSUME NEW p \in Path, NEW q \in Path, R!withinRoot(p, q), q # p
    PROVE  \E n \in Names : Append(q, n) \in Path /\ R!withinRoot(p, Append(q, n))
<1>1. PICK k \in Nat : k = Len(q)
  BY LenProperties DEF Path
<1>2. k < Len(p) /\ Len(p) \in Nat /\ \A i \in 1 .. k : p[i] = q[i]
  BY <1>1, Within, WithinOrder, LenProperties DEF Path
<1>3. p[k + 1] \in Names
  BY <1>2, LenProperties DEF Path
<1>4. PICK a : a = Append(q, p[k + 1])
  OBVIOUS
<1>5. a \in Path /\ Len(a) = k + 1 /\ (\A i \in 1 .. k : a[i] = q[i]) /\ a[k + 1] = p[k + 1]
  BY <1>1, <1>3, <1>4, AppendProperties DEF Path
<1>6. Len(a) <= Len(p) /\ \A i \in 1 .. Len(a) : p[i] = a[i]
  <2>1. \A i \in 1 .. k + 1 : i \in 1 .. k \/ i = k + 1
    OBVIOUS
  <2>. QED BY <1>2, <1>5, <2>1
<1>. QED BY <1>3, <1>4, <1>5, <1>6, Within

LEMMA WithinLength ==
    ASSUME NEW p \in Path, NEW q \in Path, R!withinRoot(p, q)
    PROVE  \E k \in Nat, m \in Nat : Len(q) = k /\ Len(p) = k + m
<1>1. Len(q) \in Nat /\ Len(p) \in Nat /\ Len(q) <= Len(p)
  BY Within, LenProperties DEF Path
<1>2. Len(p) - Len(q) \in Nat /\ Len(p) = Len(q) + (Len(p) - Len(q))
  BY <1>1
<1>. QED BY <1>1, <1>2

(* A path whose beginning a is replaced by b.                              *)
Shift(a, b, p) == b \o SubSeq(p, Len(a) + 1, Len(p))

LEMMA Shifts ==
    ASSUME NEW a \in Path, NEW b \in Path, NEW p \in Path, R!withinRoot(p, a)
    PROVE  /\ Shift(a, b, p) \in Path /\ R!withinRoot(Shift(a, b, p), b)
           /\ Len(Shift(a, b, p)) = Len(b) + (Len(p) - Len(a))
           /\ \A i \in 1 .. Len(p) - Len(a) : Shift(a, b, p)[Len(b) + i] = p[Len(a) + i]
<1>0. PICK k \in Nat, m \in Nat : Len(a) = k /\ Len(p) = k + m
  BY WithinLength
<1>1. PICK n \in Nat : k = Len(a) /\ m = Len(p) - k /\ n = Len(b) /\ k <= Len(p)
  <2>1. Len(b) \in Nat
    BY LenProperties DEF Path
  <2>. QED BY <1>0, <2>1
<1>2. PICK s \in Path : /\ s = SubSeq(p, k + 1, Len(p)) /\ Len(s) = m
                        /\ \A i \in 1 .. m : s[i] = p[k + i]
  <2>1. /\ SubSeq(p, k + 1, Len(p)) \in Path /\ Len(SubSeq(p, k + 1, Len(p))) = Len(p) - k
        /\ \A i \in 1 .. Len(p) - k : SubSeq(p, k + 1, Len(p))[i] = p[k + i]
    BY <1>1, Remainder
  <2>. QED BY <1>1, <2>1
<1>3. PICK r : r = b \o s
  OBVIOUS
<1>4. /\ r \in Path /\ Len(r) = n + m
      /\ \A i \in 1 .. n + m : r[i] = IF i <= n THEN b[i] ELSE s[i - n]
  <2>1. /\ b \o s \in Seq(Names) /\ Len(b \o s) = Len(b) + Len(s)
        /\ \A i \in 1 .. Len(b) + Len(s) : (b \o s)[i] = IF i <= Len(b) THEN b[i] ELSE s[i - Len(b)]
    BY ConcatProperties DEF Path
  <2>. QED BY <1>1, <1>2, <1>3, <2>1 DEF Path
<1>5. \A i \in 1 .. m : r[n + i] = p[k + i]
  <2>. SUFFICES ASSUME NEW i \in 1 .. m PROVE r[n + i] = p[k + i]
    OBVIOUS
  <2>1. n + i \in 1 .. n + m /\ ~(n + i <= n) /\ n + i - n = i
    OBVIOUS
  <2>. QED BY <1>2, <1>4, <2>1
<1>6. R!withinRoot(r, b)
  <2>1. n <= n + m /\ \A i \in 1 .. n : i \in 1 .. n + m /\ i <= n
    OBVIOUS
  <2>2. \A i \in 1 .. n : r[i] = b[i]
    BY <1>4, <2>1
  <2>. QED BY <1>1, <1>4, <2>1, <2>2, Within
<1>7. r = Shift(a, b, p)
  BY <1>1, <1>2, <1>3 DEF Shift
<1>. QED BY <1>1, <1>4, <1>5, <1>6, <1>7

(* It is replaced back again.                                              *)
LEMMA ShiftsBack ==
    ASSUME NEW a \in Path, NEW b \in Path, NEW p \in Path, R!withinRoot(p, a)
    PROVE  Shift(b, a, Shift(a, b, p)) = p
<1>1. PICK r : /\ r = Shift(a, b, p)
               /\ r \in Path /\ R!withinRoot(r, b) /\ Len(r) = Len(b) + (Len(p) - Len(a))
               /\ \A i \in 1 .. Len(p) - Len(a) : r[Len(b) + i] = p[Len(a) + i]
  <2>1. /\ Shift(a, b, p) \in Path /\ R!withinRoot(Shift(a, b, p), b) /\ Len(Shift(a, b, p)) = Len(b) + (Len(p) - Len(a))
        /\ \A i \in 1 .. Len(p) - Len(a) : Shift(a, b, p)[Len(b) + i] = p[Len(a) + i]
    BY Shifts
  <2>. QED BY <2>1
<1>2. PICK s : /\ s = Shift(b, a, r)
               /\ s \in Path /\ R!withinRoot(s, a) /\ Len(s) = Len(a) + (Len(r) - Len(b))
               /\ \A i \in 1 .. Len(r) - Len(b) : s[Len(a) + i] = r[Len(b) + i]
  <2>1. /\ Shift(b, a, r) \in Path /\ R!withinRoot(Shift(b, a, r), a) /\ Len(Shift(b, a, r)) = Len(a) + (Len(r) - Len(b))
        /\ \A i \in 1 .. Len(r) - Len(b) : Shift(b, a, r)[Len(a) + i] = r[Len(b) + i]
    BY <1>1, Shifts
  <2>. QED BY <2>1
<1>3a. PICK k \in Nat, m \in Nat : Len(a) = k /\ Len(p) = k + m
  BY WithinLength
<1>3. PICK n \in Nat : k = Len(a) /\ n = Len(b) /\ m = Len(p) - k /\ Len(p) = k + m
  <2>1. Len(b) \in Nat
    BY LenProperties DEF Path
  <2>. QED BY <1>3a, <2>1
<1>4. Len(r) = n + m /\ Len(r) - n = m /\ Len(s) = k + m
  BY <1>1, <1>2, <1>3
<1>5. \A i \in 1 .. k : s[i] = a[i] /\ p[i] = a[i]
  BY <1>2, <1>3, Within
<1>6. \A i \in 1 .. m : s[k + i] = p[k + i]
  BY <1>1, <1>2, <1>3, <1>4
<1>7. \A i \in 1 .. k + m : s[i] = p[i]
  <2>. SUFFICES ASSUME NEW i \in 1 .. k + m PROVE s[i] = p[i]
    OBVIOUS
  <2>1. CASE i <= k
    <3>1. i \in 1 .. k
      BY <2>1
    <3>. QED BY <1>5, <3>1
  <2>2. CASE ~(i <= k)
    <3>1. i - k \in 1 .. m /\ k + (i - k) = i
      BY <2>2
    <3>2. s[k + (i - k)] = p[k + (i - k)]
      BY <1>6, <3>1
    <3>. QED BY <3>1, <3>2
  <2>. QED BY <2>1, <2>2
<1>8. s = p
  <2>1. s \in Seq(Names) /\ p \in Seq(Names) /\ Len(s) = Len(p)
    BY <1>2, <1>3, <1>4 DEF Path
  <2>2. \A i \in 1 .. Len(s) : s[i] = p[i]
    BY <1>4, <1>7
  <2>. QED BY <2>1, <2>2, SeqEqual
<1>. QED BY <1>1, <1>2, <1>8

(* A longer path is within the same ones after as before.                  *)
LEMMA ShiftsWithin ==
    ASSUME NEW a \in Path, NEW b \in Path, NEW p \in Path, NEW q \in Path,
           R!withinRoot(p, a), R!withinRoot(q, a), R!withinRoot(p, q)
    PROVE  R!withinRoot(Shift(a, b, p), Shift(a, b, q))
<1>1. PICK r : /\ r = Shift(a, b, p)
               /\ r \in Path /\ R!withinRoot(r, b) /\ Len(r) = Len(b) + (Len(p) - Len(a))
               /\ \A i \in 1 .. Len(p) - Len(a) : r[Len(b) + i] = p[Len(a) + i]
  <2>1. /\ Shift(a, b, p) \in Path /\ R!withinRoot(Shift(a, b, p), b) /\ Len(Shift(a, b, p)) = Len(b) + (Len(p) - Len(a))
        /\ \A i \in 1 .. Len(p) - Len(a) : Shift(a, b, p)[Len(b) + i] = p[Len(a) + i]
    BY Shifts
  <2>. QED BY <2>1
<1>2. PICK s : /\ s = Shift(a, b, q)
               /\ s \in Path /\ R!withinRoot(s, b) /\ Len(s) = Len(b) + (Len(q) - Len(a))
               /\ \A i \in 1 .. Len(q) - Len(a) : s[Len(b) + i] = q[Len(a) + i]
  <2>1. /\ Shift(a, b, q) \in Path /\ R!withinRoot(Shift(a, b, q), b) /\ Len(Shift(a, b, q)) = Len(b) + (Len(q) - Len(a))
        /\ \A i \in 1 .. Len(q) - Len(a) : Shift(a, b, q)[Len(b) + i] = q[Len(a) + i]
    BY Shifts
  <2>. QED BY <2>1
<1>3a. PICK k \in Nat, m \in Nat : Len(a) = k /\ Len(p) = k + m
  BY WithinLength
<1>3b. PICK l \in Nat : Len(q) = k + l
  BY <1>3a, WithinLength
<1>3c. PICK n \in Nat : n = Len(b)
  BY LenProperties DEF Path
<1>3. /\ k = Len(a) /\ n = Len(b) /\ m = Len(p) - k /\ l = Len(q) - k /\ l <= m
      /\ \A i \in 1 .. k + l : p[i] = q[i]
  <2>1. Len(q) <= Len(p) /\ \A i \in 1 .. Len(q) : p[i] = q[i]
    BY Within
  <2>. QED BY <1>3a, <1>3b, <1>3c, <2>1
<1>4. Len(r) = n + m /\ Len(s) = n + l
  BY <1>1, <1>2, <1>3
<1>5. \A i \in 1 .. n + l : r[i] = s[i]
  <2>. SUFFICES ASSUME NEW i \in 1 .. n + l PROVE r[i] = s[i]
    OBVIOUS
  <2>1. CASE i <= n
    <3>1. i \in 1 .. n
      BY <2>1
    <3>2. r[i] = b[i] /\ s[i] = b[i]
      BY <1>1, <1>2, <1>3, <3>1, Within
    <3>. QED BY <3>2
  <2>2. CASE ~(i <= n)
    <3>1. PICK j \in 1 .. l : i = n + j
      <4>1. i - n \in 1 .. l /\ i = n + (i - n)
        BY <2>2
      <4>. QED BY <4>1
    <3>2. j \in 1 .. m /\ k + j \in 1 .. k + l
      BY <1>3
    <3>3. r[n + j] = p[k + j] /\ s[n + j] = q[k + j]
      BY <1>1, <1>2, <1>3, <3>2
    <3>4. p[k + j] = q[k + j]
      BY <1>3, <3>2
    <3>. QED BY <3>1, <3>3, <3>4
  <2>. QED BY <2>1, <2>2
<1>6. Len(s) <= Len(r) /\ \A i \in 1 .. Len(s) : r[i] = s[i]
  <2>1. n + l <= n + m
    BY <1>3
  <2>. QED BY <1>4, <1>5, <2>1
<1>7. R!withinRoot(r, s)
  <2>1. r \in Path /\ s \in Path
    BY <1>1, <1>2
  <2>. QED BY <1>6, <2>1, Within
<1>. QED BY <1>1, <1>2, <1>7

(* Of two beginnings of a path, the longer is within the other.            *)
LEMMA Nested ==
    ASSUME NEW p \in Path, NEW q \in Path, NEW r \in Path, R!withinRoot(p, q), R!withinRoot(p, r)
    PROVE  R!withinRoot(q, r) \/ R!withinRoot(r, q)
<1>1. /\ Len(q) \in Nat /\ Len(r) \in Nat
      /\ \A i \in 1 .. Len(q) : p[i] = q[i]
      /\ \A i \in 1 .. Len(r) : p[i] = r[i]
  BY Within, LenProperties DEF Path
<1>2. CASE Len(r) <= Len(q)
  <2>1. \A i \in 1 .. Len(r) : q[i] = r[i]
    BY <1>1, <1>2
  <2>. QED BY <1>2, <2>1, Within
<1>3. CASE Len(q) <= Len(r)
  <2>1. \A i \in 1 .. Len(q) : r[i] = q[i]
    BY <1>1, <1>3
  <2>. QED BY <1>3, <2>1, Within
<1>. QED BY <1>1, <1>2, <1>3

Plain(p) == \A q \in DOMAIN tree : R!withinRoot(p, q) => tree[q].is = "dir"

PlainAbove(p) == \A q \in DOMAIN tree : R!withinRoot(p, q) /\ q # p => tree[q].is = "dir"

(* The root is a directory, and so is what is above an entry.              *)
Grown ==
    /\ <<>> \in DOMAIN tree /\ tree[<<>>].is = "dir"
    /\ \A p \in DOMAIN tree :
         /\ p \in Path /\ tree[p] \in Kinds
         /\ \A q \in Path : R!withinRoot(p, q) /\ q # p => R!IsDir(q)

(* A link is the last name of an entry, so that a path goes through one.   *)
LEMMA LinksAlone ==
    Grown => \A p \in Path : /\ R!LinksOn(p) \subseteq Path
                             /\ \A q, r \in R!LinksOn(p) : q = r
                             /\ p \in DOMAIN tree => \A q \in R!LinksOn(p) : q = p
<1>. SUFFICES ASSUME Grown, NEW p \in Path
              PROVE  /\ R!LinksOn(p) \subseteq Path
                     /\ \A q, r \in R!LinksOn(p) : q = r
                     /\ p \in DOMAIN tree => \A q \in R!LinksOn(p) : q = p
  OBVIOUS
<1>1. \A q \in R!LinksOn(p) : q \in DOMAIN tree /\ q \in Path /\ R!withinRoot(p, q) /\ tree[q].is = "link"
  BY DEF Grown, R!LinksOn
<1>2. \A r \in DOMAIN tree : \A q \in R!LinksOn(p) : R!withinRoot(r, q) => q = r
  <2>. SUFFICES ASSUME NEW r \in DOMAIN tree, NEW q \in R!LinksOn(p), R!withinRoot(r, q), q # r PROVE FALSE
    OBVIOUS
  <2>1. R!IsDir(q)
    BY <1>1 DEF Grown
  <2>. QED BY <1>1, <2>1 DEF R!IsDir
<1>3. \A q, r \in R!LinksOn(p) : q = r
  <2>. SUFFICES ASSUME NEW q \in R!LinksOn(p), NEW r \in R!LinksOn(p) PROVE q = r
    OBVIOUS
  <2>1. R!withinRoot(q, r) \/ R!withinRoot(r, q)
    BY <1>1, Nested
  <2>. QED BY <1>1, <1>2, <2>1
<1>4. p \in DOMAIN tree => \A q \in R!LinksOn(p) : q = p
  BY <1>1, <1>2
<1>. QED BY <1>1, <1>3, <1>4

LEMMA Substitutes ==
    Grown => \A p \in Path : /\ R!Substituted(p) \in Path
                             /\ R!LinksOn(p) = {} => R!Substituted(p) = p
<1>. SUFFICES ASSUME Grown, NEW p \in Path
              PROVE  R!Substituted(p) \in Path /\ (R!LinksOn(p) = {} => R!Substituted(p) = p)
  OBVIOUS
<1>1. CASE R!LinksOn(p) = {}
  BY <1>1 DEF R!Substituted
<1>2. CASE R!LinksOn(p) # {}
  <2>1. PICK q : q = CHOOSE r \in R!LinksOn(p) : TRUE
    OBVIOUS
  <2>2. q \in R!LinksOn(p)
    BY <1>2, <2>1
  <2>3. q \in DOMAIN tree /\ q \in Path /\ R!withinRoot(p, q) /\ tree[q].to \in Path
    BY <2>2 DEF R!LinksOn, Grown, Kinds
  <2>4. Len(q) \in Nat /\ Len(q) <= Len(p)
    BY <2>3, Within, LenProperties DEF Path
  <2>5. SubSeq(p, Len(q) + 1, Len(p)) \in Path
    BY <2>4, Remainder
  <2>6. tree[q].to \o SubSeq(p, Len(q) + 1, Len(p)) \in Path
    BY <2>3, <2>5, ConcatProperties DEF Path
  <2>7. R!Substituted(p) = tree[q].to \o SubSeq(p, Len(q) + 1, Len(p))
    BY <1>2, <2>1 DEF R!Substituted
  <2>. QED BY <1>2, <2>6, <2>7
<1>. QED BY <1>1, <1>2

(* The server follows one link at a time.                                  *)
Chained(p) ==
    \E f \in [0 .. MaxLinks -> Path] :
      /\ f[0] = p /\ \A n \in 1 .. MaxLinks : f[n] = R!Substituted(f[n - 1])
      /\ R!RealPath(p) = IF f[MaxLinks] \in DOMAIN tree /\ R!LinksOn(f[MaxLinks]) = {}
                         THEN f[MaxLinks] ELSE NoPath

LEMMA Chains == Grown => \A p \in Path : Chained(p)
<1>. SUFFICES ASSUME Grown, NEW p \in Path PROVE Chained(p)
  OBVIOUS
<1>. DEFINE Eq(g) == g = [n \in 0 .. MaxLinks |-> IF n = 0 THEN p ELSE R!Substituted(g[n - 1])]
<1>0. MaxLinks \in Nat
  BY TreeAssumption
<1>1. PICK step : step = [x \in (1 .. MaxLinks) \X Path |-> R!Substituted(x[2])]
  OBVIOUS
<1>2. Steps(Path, MaxLinks, step)
  <2>. SUFFICES ASSUME NEW n \in 1 .. MaxLinks, NEW x \in Path PROVE step[<<n, x>>] \in Path
    BY DEF Steps
  <2>1. <<n, x>> \in (1 .. MaxLinks) \X Path /\ <<n, x>>[2] = x
    OBVIOUS
  <2>2. step[<<n, x>>] = R!Substituted(x)
    BY <1>1, <2>1
  <2>. QED BY <2>2, Substitutes
<1>3. PICK f \in [0 .. MaxLinks -> Path] : f[0] = p /\ \A n \in 1 .. MaxLinks : f[n] = step[<<n, f[n - 1]>>]
  <2>1. \E f : Computes(Path, MaxLinks, p, step, f)
    BY <1>0, <1>2, Iterates
  <2>. QED BY <2>1 DEF Computes
<1>4. \A n \in 1 .. MaxLinks : f[n] = R!Substituted(f[n - 1])
  <2>. SUFFICES ASSUME NEW n \in 1 .. MaxLinks PROVE f[n] = R!Substituted(f[n - 1])
    OBVIOUS
  <2>1. n - 1 \in 0 .. MaxLinks
    BY <1>0
  <2>2. <<n, f[n - 1]>> \in (1 .. MaxLinks) \X Path /\ <<n, f[n - 1]>>[2] = f[n - 1]
    BY <2>1
  <2>3. step[<<n, f[n - 1]>>] = R!Substituted(<<n, f[n - 1]>>[2])
    BY <1>1, <2>2
  <2>. QED BY <1>3, <2>2, <2>3
<1>5. Eq(f)
  <2>1. \A n \in 0 .. MaxLinks : f[n] = IF n = 0 THEN p ELSE R!Substituted(f[n - 1])
    <3>1. \A n \in 0 .. MaxLinks : n = 0 \/ n \in 1 .. MaxLinks
      BY <1>0
    <3>. QED BY <1>3, <1>4, <3>1
  <2>. QED BY <2>1
<1>6. PICK g : g = CHOOSE h : Eq(h)
  OBVIOUS
<1>7. Eq(g)
  <2>. HIDE DEF Eq
  <2>. QED BY <1>5, <1>6
<1>8. \A n \in 0 .. MaxLinks : g[n] = f[n]
  <2>. SUFFICES ASSUME {n \in 0 .. MaxLinks : g[n] # f[n]} # {} PROVE FALSE
    OBVIOUS
  <2>1. PICK n \in {n \in 0 .. MaxLinks : g[n] # f[n]} :
            \A m \in {m \in 0 .. MaxLinks : g[m] # f[m]} : n <= m
    <3>1. PICK B : B = {n \in 0 .. MaxLinks : g[n] # f[n]}
      OBVIOUS
    <3>2. B # {} /\ B \in SUBSET Nat
      BY <3>1
    <3>. QED BY <3>1, <3>2, Least
  <2>2. n \in 0 .. MaxLinks /\ g[n] = (IF n = 0 THEN p ELSE R!Substituted(g[n - 1]))
    BY <1>7
  <2>3. n # 0
    BY <1>3, <2>1, <2>2
  <2>4. n \in 1 .. MaxLinks /\ n - 1 \in 0 .. MaxLinks /\ ~(n <= n - 1)
    BY <1>0, <2>2, <2>3
  <2>5. g[n - 1] = f[n - 1]
    BY <2>1, <2>4
  <2>. QED BY <1>4, <2>1, <2>2, <2>3, <2>4, <2>5
<1>9. R!RealPath(p) = IF g[MaxLinks] \in DOMAIN tree /\ R!LinksOn(g[MaxLinks]) = {}
                      THEN g[MaxLinks] ELSE NoPath
  BY <1>6 DEF R!RealPath
<1>10. g[MaxLinks] = f[MaxLinks]
  <2>1. MaxLinks \in 0 .. MaxLinks
    BY <1>0
  <2>. QED BY <1>8, <2>1
<1>. QED BY <1>3, <1>4, <1>9, <1>10 DEF Chained

(* What the server finds is an entry.                                      *)
LEMMA RealPathIs ==
    Grown => \A p \in Path : R!RealPath(p) # NoPath => R!RealPath(p) \in DOMAIN tree /\ R!RealPath(p) \in Path
<1>. SUFFICES ASSUME Grown, NEW p \in Path, R!RealPath(p) # NoPath
              PROVE  R!RealPath(p) \in DOMAIN tree /\ R!RealPath(p) \in Path
  OBVIOUS
<1>1. PICK f \in [0 .. MaxLinks -> Path] :
          R!RealPath(p) = IF f[MaxLinks] \in DOMAIN tree /\ R!LinksOn(f[MaxLinks]) = {}
                          THEN f[MaxLinks] ELSE NoPath
  BY Chains DEF Chained
<1>2. R!RealPath(p) \in DOMAIN tree
  BY <1>1
<1>. QED BY <1>2 DEF Grown

LEMMA EntryIs ==
    Grown => \A p \in Path \ {<<>>} : R!Entry(p) # NoPath => /\ R!Entry(p) \in DOMAIN tree /\ R!Entry(p) \in Path
                                                            /\ R!Entry(p) # <<>>
<1>. SUFFICES ASSUME Grown, NEW p \in Path \ {<<>>}, R!Entry(p) # NoPath
              PROVE  R!Entry(p) \in DOMAIN tree /\ R!Entry(p) \in Path /\ R!Entry(p) # <<>>
  OBVIOUS
<1>1. R!Front(p) \in Path /\ R!Last(p) \in Names
  BY Ends
<1>2. PICK parent : parent = R!RealPath(R!Front(p))
  OBVIOUS
<1>3. parent # NoPath /\ R!Entry(p) = Append(parent, R!Last(p)) /\ R!Entry(p) \in DOMAIN tree
  BY <1>2 DEF R!Entry
<1>4. parent \in Path
  BY <1>1, <1>2, <1>3, RealPathIs
<1>. QED BY <1>1, <1>3, <1>4, Ends DEF Grown

LEMMA MutableIs ==
    Grown => \A p \in Path : R!resolveMutable(p) # NoPath => R!resolveMutable(p) \in Path
<1>. SUFFICES ASSUME Grown, NEW p \in Path, R!resolveMutable(p) # NoPath PROVE R!resolveMutable(p) \in Path
  OBVIOUS
<1>1. CASE R!RealPath(p) # NoPath
  BY <1>1, RealPathIs DEF R!resolveMutable
<1>2. CASE R!RealPath(p) = NoPath
  <2>1. p # <<>> /\ R!Front(p) \in Path /\ R!Last(p) \in Names
    BY <1>2, Ends DEF R!resolveMutable
  <2>2. PICK parent : parent = R!RealPath(R!Front(p))
    OBVIOUS
  <2>3. parent # NoPath /\ R!resolveMutable(p) = Append(parent, R!Last(p))
    BY <1>2, <2>1, <2>2 DEF R!resolveMutable
  <2>4. parent \in Path
    BY <2>1, <2>2, <2>3, RealPathIs
  <2>5. Append(parent, R!Last(p)) \in Path
    BY <2>1, <2>4, Ends
  <2>. QED BY <2>3, <2>5
<1>. QED BY <1>1, <1>2

(* Where no link is on a path, it names itself or nothing.                 *)
LEMMA Straight ==
    Grown => \A p \in Path : /\ Plain(p) => R!RealPath(p) \in {p, NoPath}
                             /\ p # <<>> /\ PlainAbove(p) => R!Entry(p) \in {p, NoPath}
<1>. SUFFICES ASSUME Grown, NEW p \in Path
              PROVE  /\ Plain(p) => R!RealPath(p) \in {p, NoPath}
                     /\ p # <<>> /\ PlainAbove(p) => R!Entry(p) \in {p, NoPath}
  OBVIOUS
<1>1. ASSUME NEW r \in Path, Plain(r) PROVE R!RealPath(r) \in {r, NoPath}
  <2>1. R!LinksOn(r) = {}
    BY <1>1 DEF Plain, R!LinksOn
  <2>2. R!Substituted(r) = r
    BY <2>1 DEF R!Substituted
  <2>3. PICK f \in [0 .. MaxLinks -> Path] :
          /\ f[0] = r /\ \A n \in 1 .. MaxLinks : f[n] = R!Substituted(f[n - 1])
          /\ R!RealPath(r) = IF f[MaxLinks] \in DOMAIN tree /\ R!LinksOn(f[MaxLinks]) = {}
                             THEN f[MaxLinks] ELSE NoPath
    BY Chains DEF Chained
  <2>4. MaxLinks \in 0 .. MaxLinks
    BY TreeAssumption
  <2>5. \A n \in 0 .. MaxLinks : f[n] = r
    <3>. SUFFICES ASSUME {n \in 0 .. MaxLinks : f[n] # r} # {} PROVE FALSE
      OBVIOUS
    <3>1. PICK n \in {n \in 0 .. MaxLinks : f[n] # r} : \A m \in {m \in 0 .. MaxLinks : f[m] # r} : n <= m
      <4>1. PICK B : B = {n \in 0 .. MaxLinks : f[n] # r}
        OBVIOUS
      <4>2. B # {} /\ B \in SUBSET Nat
        BY <4>1
      <4>. QED BY <4>1, <4>2, Least
    <3>2. n \in 1 .. MaxLinks /\ n - 1 \in 0 .. MaxLinks /\ ~(n <= n - 1)
      <4>1. MaxLinks \in Nat /\ n \in 0 .. MaxLinks /\ n # 0
        BY TreeAssumption, <2>3, <3>1
      <4>. QED BY <4>1
    <3>. QED BY <2>2, <2>3, <3>1, <3>2
  <2>. QED BY <2>3, <2>4, <2>5
<1>2. ASSUME p # <<>>, PlainAbove(p) PROVE R!Entry(p) \in {p, NoPath}
  <2>1. /\ R!Front(p) \in Path /\ p = Append(R!Front(p), R!Last(p)) /\ R!withinRoot(p, R!Front(p))
        /\ Len(R!Front(p)) = Len(p) - 1
    BY <1>2, Ends
  <2>2. Plain(R!Front(p))
    <3>. SUFFICES ASSUME NEW q \in DOMAIN tree, R!withinRoot(R!Front(p), q) PROVE tree[q].is = "dir"
      BY DEF Plain
    <3>1. q \in Path /\ R!withinRoot(p, q)
      <4>1. q \in Path
        BY DEF Grown
      <4>. QED BY <2>1, <4>1, WithinOrder
    <3>2. q # p
      <4>1. Len(q) <= Len(R!Front(p)) /\ Len(p) \in Nat /\ Len(q) \in Nat
        BY <2>1, <3>1, Within, LenProperties DEF Path
      <4>. QED BY <2>1, <4>1
    <3>. QED BY <1>2, <3>1, <3>2 DEF PlainAbove
  <2>3. PICK parent : parent = R!RealPath(R!Front(p))
    OBVIOUS
  <2>4. parent \in {R!Front(p), NoPath}
    BY <1>1, <2>1, <2>2, <2>3
  <2>. QED BY <1>2, <2>1, <2>3, <2>4 DEF R!Entry
<1>. QED BY <1>1, <1>2

(* The names of a wish, joined to a path, are a path.                      *)
LEMMA Joins ==
    ASSUME NEW base \in Path, NEW name, name.parts \in Seq(Names \cup {".", ".."})
    PROVE  R!JoinRemote(base, name) \in Path
<1>. DEFINE first       == IF name.abs THEN <<>> ELSE base
            Then(n, x)  == CASE name.parts[n] = "."  -> x
                             [] name.parts[n] = ".." -> IF x = <<>> THEN <<>> ELSE R!Front(x)
                             [] OTHER                -> Append(x, name.parts[n])
            Eq(g)       == g = [n \in 0 .. Len(name.parts) |-> IF n = 0 THEN first ELSE Then(n, g[n - 1])]
<1>1. PICK N \in Nat : N = Len(name.parts)
  BY LenProperties
<1>2. first \in Path
  BY Ends
<1>3. ASSUME NEW n \in 1 .. N, NEW x \in Path PROVE Then(n, x) \in Path
  <2>1. name.parts[n] \in Names \cup {".", ".."}
    BY <1>1, LenProperties
  <2>2. CASE name.parts[n] = "."
    BY <2>2
  <2>3. CASE name.parts[n] # "." /\ name.parts[n] = ".."
    <3>1. x # <<>> => R!Front(x) \in Path
      BY Ends
    <3>2. <<>> \in Path
      BY Ends
    <3>. QED BY <2>3, <3>1, <3>2
  <2>4. CASE name.parts[n] # "." /\ name.parts[n] # ".."
    <3>1. name.parts[n] \in Names
      BY <2>1, <2>4
    <3>2. Append(x, name.parts[n]) \in Path
      BY <3>1, Ends
    <3>. QED BY <2>4, <3>2
  <2>. QED BY <2>2, <2>3, <2>4
<1>4. R!JoinRemote(base, name) = (CHOOSE g : Eq(g))[Len(name.parts)]
  BY DEF R!JoinRemote
<1>. HIDE DEF Then, first
<1>5. PICK step : step = [x \in (1 .. N) \X Path |-> Then(x[1], x[2])]
  OBVIOUS
<1>6. \A n \in 1 .. N : \A x \in Path : step[<<n, x>>] = Then(n, x)
  <2>. SUFFICES ASSUME NEW n \in 1 .. N, NEW x \in Path PROVE step[<<n, x>>] = Then(n, x)
    OBVIOUS
  <2>1. <<n, x>> \in (1 .. N) \X Path /\ <<n, x>>[1] = n /\ <<n, x>>[2] = x
    OBVIOUS
  <2>. QED BY <1>5, <2>1
<1>7. Steps(Path, N, step)
  BY <1>3, <1>6 DEF Steps
<1>8. PICK f : Computes(Path, N, first, step, f)
  BY <1>1, <1>2, <1>7, Iterates
<1>9. /\ f \in [0 .. N -> Path] /\ f[0] = first
      /\ \A n \in 1 .. N : f[n] = Then(n, f[n - 1])
  <2>1. f \in [0 .. N -> Path] /\ f[0] = first /\ \A n \in 1 .. N : f[n] = step[<<n, f[n - 1]>>]
    BY <1>8 DEF Computes
  <2>2. \A n \in 1 .. N : n - 1 \in 0 .. N
    OBVIOUS
  <2>. QED BY <1>6, <2>1, <2>2
<1>10. Eq(f)
  <2>1. \A n \in 0 .. N : f[n] = IF n = 0 THEN first ELSE Then(n, f[n - 1])
    <3>1. \A n \in 0 .. N : n = 0 \/ n \in 1 .. N
      OBVIOUS
    <3>. QED BY <1>9, <3>1
  <2>2. f = [n \in 0 .. N |-> f[n]]
    BY <1>9
  <2>. QED BY <1>1, <2>1, <2>2
<1>11. PICK g : g = CHOOSE h : Eq(h)
  OBVIOUS
<1>12. Eq(g)
  <2>. HIDE DEF Eq
  <2>. QED BY <1>10, <1>11
<1>13. \A n \in 0 .. N : g[n] = IF n = 0 THEN first ELSE Then(n, g[n - 1])
  BY <1>1, <1>12
<1>14. \A n \in 0 .. N : g[n] \in Path
  <2>. SUFFICES ASSUME {n \in 0 .. N : g[n] \notin Path} # {} PROVE FALSE
    OBVIOUS
  <2>1. PICK n \in {n \in 0 .. N : g[n] \notin Path} : \A m \in {m \in 0 .. N : g[m] \notin Path} : n <= m
    <3>1. PICK B : B = {n \in 0 .. N : g[n] \notin Path}
      OBVIOUS
    <3>2. B # {} /\ B \in SUBSET Nat
      BY <3>1
    <3>. QED BY <3>1, <3>2, Least
  <2>2. n # 0
    BY <1>2, <1>13, <2>1
  <2>3. n \in 1 .. N /\ n - 1 \in 0 .. N /\ ~(n <= n - 1)
    BY <2>1, <2>2
  <2>4. g[n - 1] \in Path
    BY <2>1, <2>3
  <2>. QED BY <1>3, <1>13, <2>1, <2>2, <2>3, <2>4
<1>15. R!JoinRemote(base, name) = g[N]
  BY <1>1, <1>4, <1>11
<1>16. N \in 0 .. N
  OBVIOUS
<1>. QED BY <1>14, <1>15, <1>16

-----------------------------------------------------------------------------
(* While entries are only taken away, a path names what it did or nothing. *)
Shrinks == DOMAIN tree' \subseteq DOMAIN tree /\ \A p \in DOMAIN tree' : tree'[p] = tree[p]

LEMMA ChainsNext == Grown' => \A p \in Path : Chained(p)'
<1>1. (Grown => \A p \in Path : Chained(p))'
  BY Chains, PTL
<1>. QED BY <1>1

LEMMA ShrinksReal ==
    ASSUME Grown, Grown', Shrinks, NEW p \in Path
    PROVE  R!RealPath(p)' \in {R!RealPath(p), NoPath}
<1>0. MaxLinks \in Nat /\ MaxLinks \in 0 .. MaxLinks
  BY TreeAssumption
<1>1. PICK f \in [0 .. MaxLinks -> Path] :
        /\ f[0] = p /\ \A n \in 1 .. MaxLinks : f[n] = R!Substituted(f[n - 1])
        /\ R!RealPath(p) = IF f[MaxLinks] \in DOMAIN tree /\ R!LinksOn(f[MaxLinks]) = {}
                           THEN f[MaxLinks] ELSE NoPath
  BY Chains DEF Chained
<1>2. PICK g \in [0 .. MaxLinks -> Path] :
        /\ g[0] = p /\ \A n \in 1 .. MaxLinks : g[n] = R!Substituted(g[n - 1])'
        /\ R!RealPath(p)' = IF g[MaxLinks] \in DOMAIN tree' /\ R!LinksOn(g[MaxLinks])' = {}
                            THEN g[MaxLinks] ELSE NoPath
  <2>1. Chained(p)'
    BY ChainsNext
  <2>. QED BY <2>1 DEF Chained
<1>3. \A q \in Path : R!LinksOn(q)' = R!LinksOn(q) \cap DOMAIN tree'
  BY DEF R!LinksOn, Shrinks
<1>. DEFINE Lost(q) == q \notin DOMAIN tree' /\ R!LinksOn(q)' = {}
<1>4. ASSUME NEW q \in Path, ~Lost(q)
      PROVE  R!LinksOn(q)' = R!LinksOn(q) /\ R!Substituted(q)' = R!Substituted(q)
  <2>1. R!LinksOn(q)' = R!LinksOn(q)
    <3>. SUFFICES ASSUME NEW r \in R!LinksOn(q), r \notin DOMAIN tree' PROVE FALSE
      BY <1>3
    <3>1. R!LinksOn(q)' = {}
      BY <1>3, LinksAlone
    <3>2. q \in DOMAIN tree'
      BY <1>4, <3>1
    <3>3. q = r
      <4>1. q \in DOMAIN tree
        BY <3>2 DEF Shrinks
      <4>. QED BY <4>1, LinksAlone
    <3>. QED BY <3>2, <3>3
  <2>2. PICK r : r = CHOOSE s \in R!LinksOn(q) : TRUE
    OBVIOUS
  <2>3. R!Substituted(q) = IF R!LinksOn(q) = {} THEN q ELSE tree[r].to \o SubSeq(q, Len(r) + 1, Len(q))
    BY <2>2 DEF R!Substituted
  <2>4. R!Substituted(q)' = IF R!LinksOn(q) = {} THEN q ELSE tree'[r].to \o SubSeq(q, Len(r) + 1, Len(q))
    BY <2>1, <2>2 DEF R!Substituted
  <2>5. R!LinksOn(q) # {} => tree'[r] = tree[r]
    <3>1. R!LinksOn(q) # {} => r \in R!LinksOn(q)
      BY <2>2
    <3>2. R!LinksOn(q) \subseteq DOMAIN tree'
      BY <1>3, <2>1
    <3>. QED BY <3>1, <3>2 DEF Shrinks
  <2>. QED BY <2>1, <2>3, <2>4, <2>5
<1>5. ASSUME NEW q \in Path, Lost(q) PROVE R!Substituted(q)' = q
  BY <1>5 DEF R!Substituted
<1>6. \A n \in 0 .. MaxLinks : g[n] = f[n] \/ Lost(g[n])
  <2>. SUFFICES ASSUME {n \in 0 .. MaxLinks : ~(g[n] = f[n] \/ Lost(g[n]))} # {} PROVE FALSE
    OBVIOUS
  <2>1. PICK n \in {n \in 0 .. MaxLinks : ~(g[n] = f[n] \/ Lost(g[n]))} :
           \A m \in {m \in 0 .. MaxLinks : ~(g[m] = f[m] \/ Lost(g[m]))} : n <= m
    <3>1. PICK B : B = {n \in 0 .. MaxLinks : ~(g[n] = f[n] \/ Lost(g[n]))}
      OBVIOUS
    <3>2. B # {} /\ B \in SUBSET Nat
      BY <3>1
    <3>. QED BY <3>1, <3>2, Least
  <2>. HIDE DEF Lost
  <2>2. n \in 0 .. MaxLinks /\ n # 0
    BY <1>1, <1>2, <2>1
  <2>3. n \in 1 .. MaxLinks /\ n - 1 \in 0 .. MaxLinks /\ ~(n <= n - 1)
    BY <1>0, <2>2
  <2>4. g[n - 1] = f[n - 1] \/ Lost(g[n - 1])
    BY <2>1, <2>3
  <2>5. g[n] = R!Substituted(g[n - 1])' /\ f[n] = R!Substituted(f[n - 1]) /\ g[n - 1] \in Path
    BY <1>1, <1>2, <2>3
  <2>6. CASE Lost(g[n - 1])
    BY <1>5, <2>1, <2>5, <2>6
  <2>7. CASE ~Lost(g[n - 1])
    BY <1>4, <2>1, <2>4, <2>5, <2>7
  <2>. QED BY <2>6, <2>7
<1>7. CASE Lost(g[MaxLinks])
  BY <1>2, <1>7
<1>8. CASE ~Lost(g[MaxLinks])
  <2>1. g[MaxLinks] = f[MaxLinks] /\ g[MaxLinks] \in Path
    BY <1>0, <1>6, <1>8
  <2>2. R!LinksOn(g[MaxLinks])' = R!LinksOn(g[MaxLinks])
    BY <1>4, <1>8, <2>1
  <2>. QED BY <1>1, <1>2, <2>1, <2>2 DEF Shrinks
<1>. QED BY <1>7, <1>8

LEMMA ShrinksEntry ==
    ASSUME Grown, Grown', Shrinks, NEW p \in Path, p # <<>>, R!Entry(p)' # NoPath
    PROVE  R!Entry(p)' = R!Entry(p) /\ R!Entry(p) \in DOMAIN tree'
<1>1. PICK f, l : f = R!Front(p) /\ l = R!Last(p) /\ f \in Path
  BY Ends
<1>2. R!RealPath(f)' \in {R!RealPath(f), NoPath}
  BY <1>1, ShrinksReal
<1>3. R!Entry(p)' = IF R!RealPath(f)' = NoPath THEN NoPath
                    ELSE IF Append(R!RealPath(f)', l) \in DOMAIN tree' THEN Append(R!RealPath(f)', l) ELSE NoPath
  BY <1>1 DEF R!Entry
<1>4. R!Entry(p) = IF R!RealPath(f) = NoPath THEN NoPath
                   ELSE IF Append(R!RealPath(f), l) \in DOMAIN tree THEN Append(R!RealPath(f), l) ELSE NoPath
  BY <1>1 DEF R!Entry
<1>. QED BY <1>2, <1>3, <1>4 DEF Shrinks

(* A file, a link or an empty directory goes, a directory comes, or an     *)
(* entry moves with all below it: the root is still a directory and so is  *)
(* what is above an entry.                                                 *)
LEMMA GoneKeeps ==
    ASSUME Grown, NEW x \in DOMAIN tree, x # <<>>, ~R!IsDir(x) \/ R!Children(x) = {}, R!Gone(x)
    PROVE  Grown' /\ Shrinks
<1>1. /\ DOMAIN tree' = DOMAIN tree \ {x}
      /\ \A p \in DOMAIN tree' : tree'[p] = tree[p]
  BY DEF R!Gone
<1>2. Shrinks
  BY <1>1 DEF Shrinks
<1>3. ASSUME NEW p \in DOMAIN tree, NEW q \in Path, R!withinRoot(p, q), q # p PROVE R!IsDir(q) /\ q # x
  <2>1. R!IsDir(q) /\ p \in Path
    BY <1>3 DEF Grown
  <2>2. ASSUME q = x PROVE FALSE
    <3>1. PICK n \in Names : Append(q, n) \in Path /\ R!withinRoot(p, Append(q, n))
      BY <1>3, <2>1, Towards
    <3>2. Append(q, n) \in DOMAIN tree
      <4>1. Append(q, n) # p => R!IsDir(Append(q, n))
        BY <3>1 DEF Grown
      <4>. QED BY <4>1 DEF R!IsDir
    <3>3. n \in R!Children(x)
      BY <2>2, <3>2 DEF R!Children
    <3>. QED BY <2>1, <2>2, <3>3
  <2>. QED BY <2>1, <2>2
<1>4. ASSUME NEW p \in DOMAIN tree' PROVE /\ p \in Path /\ tree'[p] \in Kinds
                                          /\ \A q \in Path : R!withinRoot(p, q) /\ q # p => R!IsDir(q)'
  <2>1. p \in DOMAIN tree /\ tree'[p] = tree[p] /\ p \in Path /\ tree[p] \in Kinds
    BY <1>1, <1>4 DEF Grown
  <2>2. \A q \in Path : R!withinRoot(p, q) /\ q # p => R!IsDir(q) /\ q # x
    BY <1>3, <2>1
  <2>. QED BY <1>1, <2>1, <2>2 DEF R!IsDir
<1>5. <<>> \in DOMAIN tree' /\ tree'[<<>>].is = "dir"
  BY <1>1 DEF Grown
<1>. QED BY <1>2, <1>4, <1>5 DEF Grown

(* A free name in a directory: where the server may make an entry.         *)
Empty(x) == x # <<>> /\ x \notin DOMAIN tree /\ R!IsDir(R!Front(x))

LEMMA PlaceIs ==
    ASSUME Grown, NEW p \in Path, R!Vacant(p)
    PROVE  R!Place(p) \in Path /\ Empty(R!Place(p))
<1>1. R!Last(p) \in Names
  BY Ends DEF R!Vacant
<1>2. PICK parent : parent = R!RealPath(R!Front(p))
  OBVIOUS
<1>3. /\ R!IsDir(parent) /\ parent \in Path
      /\ R!Place(p) = Append(parent, R!Last(p)) /\ R!Place(p) \notin DOMAIN tree
  BY <1>2 DEF R!Vacant, R!Place, R!IsDir, Grown
<1>4. /\ Append(parent, R!Last(p)) \in Path /\ Append(parent, R!Last(p)) # <<>>
      /\ R!Front(Append(parent, R!Last(p))) = parent
  BY <1>1, <1>3, Ends
<1>. QED BY <1>3, <1>4 DEF Empty

LEMMA MadeKeeps ==
    ASSUME Grown, NEW x \in Path, Empty(x),
           tree' = [p \in DOMAIN tree \cup {x} |-> IF p = x THEN R!Dir ELSE tree[p]]
    PROVE  Grown' /\ \A p \in Path : (Plain(p) => Plain(p)') /\ (PlainAbove(p) => PlainAbove(p)')
<1>1. /\ DOMAIN tree' = DOMAIN tree \cup {x} /\ x \notin DOMAIN tree /\ tree'[x] = R!Dir
      /\ \A p \in DOMAIN tree : tree'[p] = tree[p]
      /\ x # <<>> /\ R!IsDir(R!Front(x))
  BY DEF Empty
<1>2. R!Dir \in Kinds /\ R!Dir.is = "dir"
  BY Ends DEF R!Dir, Kinds
<1>3. \A q \in Path : R!IsDir(q) => R!IsDir(q)'
  BY <1>1 DEF R!IsDir
<1>4. ASSUME NEW q \in Path, R!withinRoot(x, q), q # x PROVE R!IsDir(q)
  <2>1. R!withinRoot(R!Front(x), q) /\ R!Front(x) \in DOMAIN tree
    BY <1>1, <1>4, Ends DEF R!IsDir
  <2>. QED BY <1>1, <2>1 DEF Grown
<1>5. ASSUME NEW p \in DOMAIN tree' PROVE /\ p \in Path /\ tree'[p] \in Kinds
                                          /\ \A q \in Path : R!withinRoot(p, q) /\ q # p => R!IsDir(q)'
  <2>1. CASE p = x
    BY <1>1, <1>2, <1>3, <1>4, <2>1
  <2>2. CASE p # x
    <3>1. p \in DOMAIN tree /\ tree'[p] = tree[p]
      BY <1>1, <1>5, <2>2
    <3>. QED BY <1>3, <3>1 DEF Grown
  <2>. QED BY <2>1, <2>2
<1>6. Grown'
  <2>1. <<>> \in DOMAIN tree' /\ tree'[<<>>].is = "dir"
    BY <1>1 DEF Grown
  <2>. QED BY <1>5, <2>1 DEF Grown
<1>7. \A p \in Path : (Plain(p) => Plain(p)') /\ (PlainAbove(p) => PlainAbove(p)')
  BY <1>1, <1>2 DEF Plain, PlainAbove
<1>. QED BY <1>6, <1>7

LEMMA MovedKeeps ==
    ASSUME Grown, NEW from \in DOMAIN tree, NEW to \in Path, Empty(to), ~R!withinRoot(to, from),
           tree' = R!Moved(from, to)
    PROVE  Grown'
<1>1. from \in Path /\ to \notin DOMAIN tree /\ to # <<>> /\ R!IsDir(R!Front(to)) /\ tree[from] \in Kinds
  BY DEF Grown, Empty
<1>2. PICK below : below = {p \in DOMAIN tree : R!withinRoot(p, from)}
  OBVIOUS
<1>3. PICK new : new = {Shift(from, to, p) : p \in below}
  OBVIOUS
<1>4. tree' = [p \in (DOMAIN tree \ below) \cup new |-> IF p \in new THEN tree[Shift(to, from, p)] ELSE tree[p]]
  BY <1>2, <1>3 DEF R!Moved, Shift
<1>5. \A p \in below : p \in DOMAIN tree /\ p \in Path /\ R!withinRoot(p, from)
  BY <1>2 DEF Grown
<1>6. \A p \in below : /\ Shift(from, to, p) \in new /\ Shift(from, to, p) \in Path
                       /\ tree'[Shift(from, to, p)] = tree[p]
  <2>. SUFFICES ASSUME NEW p \in below
                PROVE  /\ Shift(from, to, p) \in new /\ Shift(from, to, p) \in Path
                       /\ tree'[Shift(from, to, p)] = tree[p]
    OBVIOUS
  <2>1. Shift(from, to, p) \in new /\ Shift(from, to, p) \in Path
    BY <1>1, <1>3, <1>5, Shifts
  <2>2. Shift(to, from, Shift(from, to, p)) = p
    BY <1>1, <1>5, ShiftsBack
  <2>. QED BY <1>4, <2>1, <2>2
<1>7. \A r \in new : /\ r \in Path /\ R!withinRoot(r, to)
                     /\ Shift(to, from, r) \in below /\ Shift(from, to, Shift(to, from, r)) = r
  <2>. SUFFICES ASSUME NEW p \in below
                PROVE  /\ Shift(from, to, p) \in Path /\ R!withinRoot(Shift(from, to, p), to)
                       /\ Shift(to, from, Shift(from, to, p)) = p
    BY <1>3
  <2>. QED BY <1>1, <1>5, Shifts, ShiftsBack
<1>8. \A q \in DOMAIN tree : ~R!withinRoot(q, to)
  <2>. SUFFICES ASSUME NEW q \in DOMAIN tree, R!withinRoot(q, to) PROVE FALSE
    OBVIOUS
  <2>1. q # to => R!IsDir(to)
    BY DEF Grown
  <2>. QED BY <1>1, <2>1 DEF R!IsDir
<1>9. \A q \in DOMAIN tree \ below : q \in DOMAIN tree' /\ tree'[q] = tree[q]
  BY <1>4, <1>7, <1>8
<1>10. ASSUME NEW q \in Path, R!withinRoot(to, q), q # to PROVE R!IsDir(q)'
  <2>1. R!withinRoot(R!Front(to), q) /\ R!Front(to) \in DOMAIN tree
    BY <1>1, <1>10, Ends DEF R!IsDir
  <2>2. R!IsDir(q)
    BY <1>1, <1>10, <2>1 DEF Grown
  <2>3. q \notin below
    BY <1>1, <1>5, <1>10, WithinOrder
  <2>. QED BY <1>9, <2>2, <2>3 DEF R!IsDir
<1>11. ASSUME NEW r \in new, NEW q \in Path, R!withinRoot(r, q), q # r PROVE R!IsDir(q)'
  <2>1. R!withinRoot(q, to) \/ R!withinRoot(to, q)
    BY <1>7, <1>11, Nested
  <2>2. CASE R!withinRoot(q, to)
    <3>1. PICK p \in below : p = Shift(to, from, r)
      BY <1>7
    <3>2. PICK o : o = Shift(to, from, q)
      OBVIOUS
    <3>3. o \in Path /\ R!withinRoot(o, from)
      BY <1>1, <2>2, <3>2, Shifts
    <3>4. R!withinRoot(p, o)
      BY <1>1, <1>7, <1>11, <2>2, <3>1, <3>2, ShiftsWithin
    <3>5. Shift(from, to, o) = q /\ Shift(from, to, p) = r
      BY <1>1, <1>7, <2>2, <3>1, <3>2, ShiftsBack
    <3>6. o # p
      BY <1>11, <3>5
    <3>7. R!IsDir(o)
      BY <1>5, <3>3, <3>4, <3>6 DEF Grown
    <3>8. o \in below
      BY <1>2, <3>3, <3>7 DEF R!IsDir
    <3>9. q \in new /\ tree'[q] = tree[o]
      BY <1>6, <3>5, <3>8
    <3>. QED BY <1>4, <3>7, <3>9 DEF R!IsDir
  <2>3. CASE R!withinRoot(to, q) /\ q # to
    BY <1>10, <2>3
  <2>4. R!withinRoot(to, to)
    BY Ends
  <2>. QED BY <2>1, <2>2, <2>3, <2>4
<1>12. ASSUME NEW p \in DOMAIN tree \ below, NEW q \in Path, R!withinRoot(p, q), q # p PROVE R!IsDir(q)'
  <2>1. R!IsDir(q) /\ p \in Path
    BY <1>12 DEF Grown
  <2>2. q \notin below
    <3>1. q \in below => R!withinRoot(p, from)
      BY <1>1, <1>5, <1>12, <2>1, WithinOrder
    <3>. QED BY <1>2, <1>12, <3>1
  <2>. QED BY <1>9, <2>1, <2>2 DEF R!IsDir
<1>13. ASSUME NEW p \in DOMAIN tree' PROVE /\ p \in Path /\ tree'[p] \in Kinds
                                           /\ \A q \in Path : R!withinRoot(p, q) /\ q # p => R!IsDir(q)'
  <2>1. CASE p \in new
    <3>1. p \in Path /\ tree'[p] = tree[Shift(to, from, p)] /\ Shift(to, from, p) \in DOMAIN tree
      BY <1>4, <1>5, <1>7, <2>1
    <3>2. tree'[p] \in Kinds
      BY <3>1 DEF Grown
    <3>. QED BY <1>11, <2>1, <3>1, <3>2
  <2>2. CASE p \notin new
    <3>1. p \in DOMAIN tree \ below
      BY <1>4, <1>13, <2>2
    <3>2. tree'[p] = tree[p]
      BY <1>9, <3>1
    <3>3. p \in Path /\ tree[p] \in Kinds
      BY <3>1 DEF Grown
    <3>. QED BY <1>12, <3>1, <3>2, <3>3
  <2>. QED BY <2>1, <2>2
<1>14. <<>> \in DOMAIN tree' /\ tree'[<<>>].is = "dir"
  <2>1. <<>> \in below => from = <<>>
    <3>. SUFFICES ASSUME <<>> \in below PROVE from = <<>>
      OBVIOUS
    <3>1. Len(from) <= Len(<<>>) /\ Len(from) \in Nat /\ <<>> \in Path
      BY <1>1, <1>5, Within, LenProperties DEF Path
    <3>2. Len(from) = 0
      BY <3>1
    <3>. QED BY <1>1, <3>2, EmptySeq DEF Path
  <2>2. R!withinRoot(to, <<>>)
    BY Ends
  <2>3. <<>> \in DOMAIN tree \ below
    BY <2>1, <2>2 DEF Grown
  <2>. QED BY <1>9, <2>3 DEF Grown
<1>. QED BY <1>13, <1>14 DEF Grown

LEMMA ShrinksKeep ==
    ASSUME Shrinks
    PROVE  \A p \in Path : (Plain(p) => Plain(p)') /\ (PlainAbove(p) => PlainAbove(p)')
BY DEF Shrinks, Plain, PlainAbove

Frame == [dir : Path, left : SUBSET Names]

CallType ==
    [op : {"none", "chdir", "mkdir", "rename", "remove"},
     at : {"idle", "find", "stat", "set", "make", "findTo", "move", "root", "resolve",
           "drop", "visit", "list", "next", "unlink"},
     path : Path, to : Path, root : Path, here : Path, stack : Seq(Frame), moved : BOOLEAN]

(* What a removal is about to look at or to take, unless something has     *)
(* been renamed since it found it: a link, or a path below its root that   *)
(* goes through directories only.                                          *)
Drops(k) == R!Entry(k.path) = NoPath \/ tree[R!Entry(k.path)].is = "link"

Walked(k) ==
    /\ R!withinRoot(k.path, k.root) /\ k.path # k.root
    /\ \A i \in 1 .. Len(k.stack) : R!withinRoot(k.stack[i].dir, k.path) /\ (k.moved \/ Plain(k.stack[i].dir))
    /\ k.at = "next" => k.stack # <<>>
    /\ k.at # "next" => R!withinRoot(k.here, k.path) /\ (k.moved \/ PlainAbove(k.here))
    /\ k.at = "list" => k.moved \/ Plain(k.here)

Sound(k) ==
    /\ (k.op = "remove" /\ k.at = "find") \/ k.at = "drop" => k.path # <<>>
    /\ k.at = "drop" => k.moved \/ Drops(k)
    /\ IF k.at \in {"visit", "list", "next", "unlink"} THEN Walked(k) ELSE k.stack = <<>>

TreeInv ==
    /\ Grown /\ cwd \in Path /\ made \in 0 .. MaxCalls
    /\ calls \in [Callers -> CallType] /\ \A c \in Callers : Sound(calls[c])

(* What holds of a call still does while nothing, a directory or a         *)
(* removal changes the tree, and when something has moved.                 *)
LEMMA StaysSound ==
    ASSUME NEW k \in CallType, NEW m \in CallType, Sound(k), k.moved => m.moved,
           m.op = k.op, m.at = k.at, m.path = k.path, m.root = k.root, m.here = k.here, m.stack = k.stack,
           m.at = "drop" /\ ~m.moved => Drops(m)',
           m.at \in {"visit", "list", "next", "unlink"} /\ ~m.moved
             => \A p \in Path : (Plain(p) => Plain(p)') /\ (PlainAbove(p) => PlainAbove(p)')
    PROVE  Sound(m)'
<1>0. k.here \in Path /\ k.moved \in BOOLEAN /\ m.moved \in BOOLEAN /\ \A i \in 1 .. Len(k.stack) : k.stack[i].dir \in Path
  <2>1. \A i \in 1 .. Len(k.stack) : k.stack[i] \in Frame
    BY LenProperties DEF CallType
  <2>. QED BY <2>1 DEF CallType, Frame
<1>1. ASSUME m.at \in {"visit", "list", "next", "unlink"} PROVE Walked(m)'
  <2>1. Walked(k)
    BY <1>1 DEF Sound
  <2>. QED BY <1>0, <1>1, <2>1 DEF Walked
<1>2. m.at \notin {"visit", "list", "next", "unlink"} => m.stack = <<>>
  BY DEF Sound
<1>3. (m.op = "remove" /\ m.at = "find") \/ m.at = "drop" => m.path # <<>>
  BY DEF Sound
<1>. QED BY <1>1, <1>2, <1>3 DEF Sound

LEMMA Carries ==
    ASSUME TreeInv, NEW c \in Callers, NEW m \in CallType, calls' = [calls EXCEPT ![c] = m], Sound(m)',
           Grown', Shrinks, cwd' \in Path, made' \in 0 .. MaxCalls
    PROVE  TreeInv'
<1>1. calls' \in [Callers -> CallType]
  BY DEF TreeInv
<1>2. ASSUME NEW d \in Callers PROVE Sound(calls[d])'
  <2>1. CASE d = c
    <3>1. calls'[d] = m
      BY <2>1 DEF TreeInv
    <3>. QED BY <3>1 DEF Sound, Walked, Drops
  <2>2. CASE d # c
    <3>1. PICK k \in CallType : k = calls[d]
      BY DEF TreeInv
    <3>2. Sound(k) /\ Grown
      BY <3>1 DEF TreeInv
    <3>3. ASSUME k.at = "drop", ~k.moved PROVE Drops(k)'
      <4>1. k.path # <<>> /\ Drops(k) /\ k.path \in Path
        BY <3>2, <3>3 DEF Sound, CallType
      <4>2. R!Entry(k.path)' # NoPath => R!Entry(k.path)' = R!Entry(k.path) /\ R!Entry(k.path) \in DOMAIN tree'
        BY <3>2, <4>1, ShrinksEntry
      <4>3. R!Entry(k.path)' # NoPath => tree'[R!Entry(k.path)'].is = "link"
        BY <4>1, <4>2 DEF Drops, Shrinks
      <4>. QED BY <4>3 DEF Drops
    <3>4. Sound(k)'
      BY <3>2, <3>3, ShrinksKeep, StaysSound
    <3>5. calls'[d] = k
      BY <2>2, <3>1 DEF TreeInv
    <3>. QED BY <3>4, <3>5 DEF Sound, Walked, Drops
  <2>. QED BY <2>1, <2>2
<1>. QED BY <1>1, <1>2 DEF TreeInv

LEMMA CarriesOn ==
    ASSUME TreeInv, NEW c \in Callers, NEW m \in CallType, calls' = [calls EXCEPT ![c] = m], Sound(m),
           tree' = tree, cwd' \in Path, made' \in 0 .. MaxCalls
    PROVE  TreeInv'
<1>1. Grown' /\ Shrinks
  BY DEF TreeInv, Grown, R!IsDir, Shrinks
<1>2. ASSUME m.at = "drop", ~m.moved PROVE Drops(m)'
  <2>1. R!Entry(m.path)' = R!Entry(m.path)
    BY DEF R!Entry, R!RealPath, R!Substituted, R!LinksOn
  <2>. QED BY <1>2, <2>1 DEF Sound, Drops
<1>3. Sound(m)'
  <2>1. m.moved => m.moved
    OBVIOUS
  <2>. QED BY <1>1, <1>2, <2>1, ShrinksKeep, StaysSound
<1>. QED BY <1>1, <1>3, Carries

LEMMA IdleSound == R!Idle \in CallType /\ Sound(R!Idle) /\ (TRUE => Sound(R!Idle)')
<1>1. <<>> \in Path /\ <<>> \in Seq(Frame)
  BY EmptySeq DEF Path
<1>2. R!Idle \in CallType
  BY <1>1 DEF R!Idle, CallType
<1>. QED BY <1>2 DEF R!Idle, Sound

(* The steps that only look.                                               *)
LEMMA LooksSound ==
    ASSUME TreeInv, NEW c \in Callers,
           R!Begin(c) \/ R!Fails(c) \/ R!FindDir(c) \/ R!StatDir(c) \/ R!setCwd(c) \/ R!FindParent(c)
           \/ R!FindFrom(c) \/ R!FindTo(c)
    PROVE  TreeInv'
<1>1. PICK k \in CallType : k = calls[c] /\ Sound(k)
  BY DEF TreeInv
<1>2. Grown /\ cwd \in Path /\ made \in 0 .. MaxCalls
  BY DEF TreeInv
<1>3. k.path \in Path /\ k.to \in Path /\ k.root \in Path
  BY DEF CallType
<1>. USE DEF R!Set, R!At, R!Go, R!End
<1>4. CASE R!Begin(c)
  <2>0. PICK w \in Wishes :
          /\ ~R!Refused(w.op, R!JoinRemote(cwd, w.name))
          /\ calls' = [calls EXCEPT ![c] = [R!Idle EXCEPT !.op = w.op, !.at = "find",
                                           !.path = R!JoinRemote(cwd, w.name), !.root = cwd,
                                           !.to = R!JoinRemote(cwd, w.to)]]
    BY <1>4 DEF R!Begin
  <2>1. PICK path, to :
          /\ path = R!JoinRemote(cwd, w.name) /\ to = R!JoinRemote(cwd, w.to) /\ ~R!Refused(w.op, path)
          /\ calls' = [calls EXCEPT ![c] = [R!Idle EXCEPT !.op = w.op, !.at = "find", !.path = path,
                                                        !.root = cwd, !.to = to]]
    BY <2>0
  <2>2. path \in Path /\ to \in Path /\ w.op \in {"chdir", "mkdir", "rename", "remove"}
    <3>1. w.name.parts \in Seq(Names \cup {".", ".."}) /\ w.to.parts \in Seq(Names \cup {".", ".."})
      BY TreeAssumption
    <3>. QED BY <1>2, <2>1, <3>1, Joins, TreeAssumption
  <2>3. PICK m : m = [R!Idle EXCEPT !.op = w.op, !.at = "find", !.path = path, !.root = cwd, !.to = to]
    OBVIOUS
  <2>4. m \in CallType /\ m.op = w.op /\ m.at = "find" /\ m.path = path /\ m.stack = <<>>
    <3>1. R!Idle \in CallType
      BY IdleSound
    <3>2. m \in CallType /\ m.op = w.op /\ m.at = "find" /\ m.path = path /\ m.stack = R!Idle.stack
      BY <1>2, <2>2, <2>3, <3>1 DEF CallType
    <3>. QED BY <3>2 DEF R!Idle
  <2>5. Sound(m)
    BY <2>1, <2>4 DEF Sound, R!Refused
  <2>6. tree' = tree /\ cwd' = cwd /\ made' = made + 1 /\ made < MaxCalls
    BY <1>4 DEF R!Begin
  <2>7. made' \in 0 .. MaxCalls
    BY <1>2, <2>6, TreeAssumption
  <2>. QED BY <1>2, <2>1, <2>3, <2>4, <2>5, <2>6, <2>7, CarriesOn
<1>5. CASE R!Fails(c)
  <2>1. calls' = [calls EXCEPT ![c] = R!Idle] /\ tree' = tree /\ cwd' = cwd /\ made' = made
    BY <1>5 DEF R!Fails
  <2>. QED BY <1>2, <2>1, IdleSound, CarriesOn
<1>6. ASSUME NEW next \in {"stat", "set", "make", "findTo", "move"}, NEW path \in Path, NEW to \in Path,
             calls' = [calls EXCEPT ![c] = [k EXCEPT !.at = next, !.path = path, !.to = to]],
             k.at \in {"find", "stat", "findTo"}, UNCHANGED <<tree, cwd, made>>
      PROVE  TreeInv'
  <2>1. PICK m : m = [k EXCEPT !.at = next, !.path = path, !.to = to]
    OBVIOUS
  <2>2. m \in CallType /\ m.at = next /\ m.stack = k.stack
    BY <2>1 DEF CallType
  <2>3. Sound(m)
    BY <1>1, <1>6, <2>2 DEF Sound
  <2>. QED BY <1>2, <1>6, <2>1, <2>2, <2>3, CarriesOn
<1>7. k = [k EXCEPT !.path = k.path, !.to = k.to] /\ k = [k EXCEPT !.to = k.to]
  BY DEF CallType
<1>8. CASE R!FindDir(c)
  <2>1. R!RealPath(k.path) \in Path /\ UNCHANGED <<tree, cwd, made>>
    BY <1>1, <1>2, <1>3, <1>8, RealPathIs DEF R!FindDir
  <2>2. calls' = [calls EXCEPT ![c] = [k EXCEPT !.at = "stat", !.path = R!RealPath(k.path), !.to = k.to]]
    BY <1>1, <1>8 DEF R!FindDir, CallType
  <2>3. k.at \in {"find", "stat", "findTo"}
    BY <1>1, <1>8 DEF R!FindDir
  <2>. QED BY <1>3, <1>6, <2>1, <2>2, <2>3
<1>9. CASE R!StatDir(c)
  <2>2. calls' = [calls EXCEPT ![c] = [k EXCEPT !.at = "set", !.path = k.path, !.to = k.to]]
    BY <1>1, <1>9 DEF R!StatDir, CallType
  <2>3. k.at \in {"find", "stat", "findTo"}
    BY <1>1, <1>9 DEF R!StatDir
  <2>4. UNCHANGED <<tree, cwd, made>>
    BY <1>9 DEF R!StatDir
  <2>. QED BY <1>3, <1>6, <2>2, <2>3, <2>4
<1>10. CASE R!setCwd(c)
  <2>1. calls' = [calls EXCEPT ![c] = R!Idle] /\ tree' = tree /\ cwd' = k.path /\ made' = made
    BY <1>1, <1>10 DEF R!setCwd
  <2>. QED BY <1>2, <1>3, <2>1, IdleSound, CarriesOn
<1>11. CASE R!FindParent(c)
  <2>1. R!resolveMutable(k.path) \in Path /\ UNCHANGED <<tree, cwd, made>>
    BY <1>1, <1>2, <1>3, <1>11, MutableIs DEF R!FindParent
  <2>2. calls' = [calls EXCEPT ![c] = [k EXCEPT !.at = "make", !.path = R!resolveMutable(k.path), !.to = k.to]]
    BY <1>1, <1>11 DEF R!FindParent, CallType
  <2>3. k.at \in {"find", "stat", "findTo"}
    BY <1>1, <1>11 DEF R!FindParent
  <2>. QED BY <1>3, <1>6, <2>1, <2>2, <2>3
<1>12. CASE R!FindFrom(c)
  <2>1. R!RealPath(k.path) \in Path /\ UNCHANGED <<tree, cwd, made>>
    BY <1>1, <1>2, <1>3, <1>12, RealPathIs DEF R!FindFrom
  <2>2. calls' = [calls EXCEPT ![c] = [k EXCEPT !.at = "findTo", !.path = R!RealPath(k.path), !.to = k.to]]
    BY <1>1, <1>12 DEF R!FindFrom, CallType
  <2>3. k.at \in {"find", "stat", "findTo"}
    BY <1>1, <1>12 DEF R!FindFrom
  <2>. QED BY <1>3, <1>6, <2>1, <2>2, <2>3
<1>13. CASE R!FindTo(c)
  <2>1. R!resolveMutable(k.to) \in Path /\ UNCHANGED <<tree, cwd, made>>
    BY <1>1, <1>2, <1>3, <1>13, MutableIs DEF R!FindTo
  <2>2. calls' = [calls EXCEPT ![c] = [k EXCEPT !.at = "move", !.path = k.path, !.to = R!resolveMutable(k.to)]]
    BY <1>1, <1>13 DEF R!FindTo, CallType
  <2>3. k.at \in {"find", "stat", "findTo"}
    BY <1>1, <1>13 DEF R!FindTo
  <2>. QED BY <1>3, <1>6, <2>1, <2>2, <2>3
<1>. QED BY <1>4, <1>5, <1>8, <1>9, <1>10, <1>11, <1>12, <1>13

(* Something comes or moves.                                               *)
LEMMA EndsMoving ==
    ASSUME TreeInv, NEW c \in Callers, NEW places, Grown', UNCHANGED <<cwd, made>>, R!EndMoving(c, places),
           "drop" \in places,
           \/ {"visit", "list", "next", "unlink"} \subseteq places
           \/ \A p \in Path : (Plain(p) => Plain(p)') /\ (PlainAbove(p) => PlainAbove(p)')
    PROVE  TreeInv'
<1>1. calls' = [d \in Callers |-> IF d = c THEN R!Idle
                                  ELSE [calls[d] EXCEPT !.moved = calls[d].moved \/ calls[d].at \in places]]
  BY DEF R!EndMoving
<1>2. ASSUME NEW d \in Callers PROVE calls'[d] \in CallType /\ Sound(calls[d])'
  <2>1. CASE d = c
    <3>1. calls'[d] = R!Idle
      BY <1>1, <2>1
    <3>2. Sound(calls[d])'
      BY <3>1 DEF Sound, R!Idle
    <3>. QED BY <3>1, <3>2, IdleSound
  <2>2. CASE d # c
    <3>1. PICK k \in CallType : k = calls[d] /\ Sound(k)
      BY DEF TreeInv
    <3>2. PICK moved \in BOOLEAN : moved = (k.moved \/ k.at \in places)
      BY DEF CallType
    <3>3. PICK m : m = [k EXCEPT !.moved = moved]
      OBVIOUS
    <3>4. /\ m \in CallType /\ m.moved = moved
          /\ m.op = k.op /\ m.at = k.at /\ m.path = k.path /\ m.root = k.root /\ m.here = k.here /\ m.stack = k.stack
      BY <3>3 DEF CallType
    <3>5. calls'[d] = m
      BY <1>1, <2>2, <3>1, <3>2, <3>3
    <3>6. /\ k.moved => m.moved
          /\ m.at = "drop" => m.moved
          /\ m.at \in {"visit", "list", "next", "unlink"} /\ ~m.moved
               => \A p \in Path : (Plain(p) => Plain(p)') /\ (PlainAbove(p) => PlainAbove(p)')
      BY <3>2, <3>4
    <3>7. Sound(m)'
      BY <3>1, <3>4, <3>6, StaysSound
    <3>. QED BY <3>4, <3>5, <3>7 DEF Sound, Walked, Drops
  <2>. QED BY <2>1, <2>2
<1>3. calls' \in [Callers -> CallType]
  BY <1>1, <1>2
<1>. QED BY <1>2, <1>3 DEF TreeInv

LEMMA ChangesSound ==
    ASSUME TreeInv, NEW c \in Callers, R!Mkdir(c) \/ R!Rename(c)
    PROVE  TreeInv'
<1>1. PICK k \in CallType : k = calls[c]
  BY DEF TreeInv
<1>2. k.path \in Path /\ k.to \in Path
  BY DEF CallType
<1>3. CASE R!Mkdir(c)
  <2>1. PICK x : x = R!Place(k.path)
    OBVIOUS
  <2>2. /\ R!Vacant(k.path) /\ UNCHANGED <<cwd, made>> /\ R!EndMoving(c, {"drop"})
        /\ tree' = [p \in DOMAIN tree \cup {x} |-> IF p = x THEN R!Dir ELSE tree[p]]
    BY <1>1, <1>3, <2>1 DEF R!Mkdir
  <2>3. x \in Path /\ Empty(x)
    BY <1>2, <2>1, <2>2, PlaceIs DEF TreeInv
  <2>4. Grown' /\ \A p \in Path : (Plain(p) => Plain(p)') /\ (PlainAbove(p) => PlainAbove(p)')
    BY <2>2, <2>3, MadeKeeps DEF TreeInv
  <2>5. "drop" \in {"drop"}
    OBVIOUS
  <2>. QED BY <2>2, <2>4, <2>5, EndsMoving
<1>4. CASE R!Rename(c)
  <2>1. PICK from : from = R!Entry(k.path)
    OBVIOUS
  <2>2. PICK to : to = R!Place(k.to)
    OBVIOUS
  <2>3. /\ from \in DOMAIN tree /\ R!Vacant(k.to) /\ ~R!withinRoot(to, from)
        /\ tree' = R!Moved(from, to)
        /\ UNCHANGED <<cwd, made>> /\ R!EndMoving(c, {"drop", "visit", "list", "next", "unlink"})
    BY <1>1, <1>4, <2>1, <2>2 DEF R!Rename
  <2>4. to \in Path /\ Empty(to)
    BY <1>2, <2>2, <2>3, PlaceIs DEF TreeInv
  <2>5. Grown'
    BY <2>3, <2>4, MovedKeeps DEF TreeInv
  <2>6. /\ "drop" \in {"drop", "visit", "list", "next", "unlink"}
        /\ {"visit", "list", "next", "unlink"} \subseteq {"drop", "visit", "list", "next", "unlink"}
    OBVIOUS
  <2>. QED BY <2>3, <2>5, <2>6, EndsMoving
<1>. QED BY <1>3, <1>4

(* The stack of a removal without its last frame.                          *)
LEMMA Pops ==
    ASSUME NEW s \in Seq(Frame), s # <<>>
    PROVE  \E n \in Nat : /\ Len(s) = n + 1 /\ R!Last(s) = s[n + 1] /\ R!Last(s) \in Frame
                         /\ R!Front(s) \in Seq(Frame) /\ Len(R!Front(s)) = n
                         /\ \A i \in 1 .. n : R!Front(s)[i] = s[i]
<1>1. PICK n \in Nat : Len(s) = n + 1
  <2>1. Len(s) \in Nat \ {0}
    BY EmptySeq
  <2>2. Len(s) - 1 \in Nat /\ Len(s) = (Len(s) - 1) + 1
    BY <2>1
  <2>. QED BY <2>2
<1>2. \A i \in 1 .. n + 1 : s[i] \in Frame
  BY <1>1, LenProperties
<1>3. R!Last(s) = s[n + 1] /\ R!Last(s) \in Frame
  BY <1>1, <1>2 DEF R!Last
<1>4. PICK f : f = SubSeq(s, 1, n)
  OBVIOUS
<1>5. f \in Seq(Frame) /\ Len(f) = n /\ \A i \in 1 .. n : f[i] = s[i]
  <2>1. \A i \in 1 .. n : s[i] \in Frame
    BY <1>2
  <2>2. /\ f \in Seq(Frame) /\ Len(f) = IF 1 <= n THEN n - 1 + 1 ELSE 0
        /\ \A i \in 1 .. n - 1 + 1 : f[i] = s[1 + i - 1]
    BY <1>4, <2>1, SubSeqProperties
  <2>3. (IF 1 <= n THEN n - 1 + 1 ELSE 0) = n /\ n - 1 + 1 = n /\ \A i \in 1 .. n : 1 + i - 1 = i
    OBVIOUS
  <2>. QED BY <2>2, <2>3
<1>6. R!Front(s) = f
  <2>1. Len(s) - 1 = n
    BY <1>1
  <2>. QED BY <1>4, <2>1 DEF R!Front
<1>. QED BY <1>1, <1>3, <1>5, <1>6

(* A removal looks at one entry after the other.                           *)
LEMMA WalksSound ==
    ASSUME TreeInv, NEW c \in Callers,
           R!LstatTarget(c) \/ R!ResolveRoot(c) \/ R!Resolve(c) \/ R!Visit(c) \/ R!ReadDir(c) \/ R!NextChild(c)
    PROVE  TreeInv'
<1>1. PICK k \in CallType : k = calls[c] /\ Sound(k)
  BY DEF TreeInv
<1>2. Grown /\ cwd \in Path /\ made \in 0 .. MaxCalls
  BY DEF TreeInv
<1>3. /\ k.path \in Path /\ k.to \in Path /\ k.root \in Path /\ k.here \in Path /\ k.stack \in Seq(Frame)
      /\ k.moved \in BOOLEAN
  BY DEF CallType
<1>4. SUFFICES \E m \in CallType : calls' = [calls EXCEPT ![c] = m] /\ Sound(m)
  <2>1. UNCHANGED <<tree, cwd, made>>
    BY DEF R!LstatTarget, R!ResolveRoot, R!Resolve, R!Visit, R!ReadDir, R!NextChild
  <2>2. PICK m \in CallType : calls' = [calls EXCEPT ![c] = m] /\ Sound(m)
    BY <1>4
  <2>. QED BY <1>2, <2>1, <2>2, CarriesOn
<1>5. CASE R!LstatTarget(c)
  <2>1. PICK next \in {"drop", "root"} :
          /\ next = "drop" => R!Lstat(k.path) = "link"
          /\ calls' = [calls EXCEPT ![c] = [k EXCEPT !.at = next]]
    BY <1>1, <1>5 DEF R!LstatTarget, R!Go, R!Set
  <2>2. PICK m : m = [k EXCEPT !.at = next]
    OBVIOUS
  <2>3. m \in CallType /\ m.at = next /\ m.path = k.path /\ m.stack = k.stack
    BY <2>2 DEF CallType
  <2>4. k.path # <<>> /\ k.stack = <<>>
    BY <1>1, <1>5 DEF R!LstatTarget, R!At, Sound
  <2>5. next = "drop" => Drops(m)
    BY <2>1, <2>3 DEF Drops, R!Lstat
  <2>6. Sound(m)
    BY <2>3, <2>4, <2>5 DEF Sound
  <2>. QED BY <2>1, <2>2, <2>3, <2>6
<1>6. CASE R!ResolveRoot(c)
  <2>1. PICK root \in Path : calls' = [calls EXCEPT ![c] = [k EXCEPT !.at = "resolve", !.root = root]]
    <3>1. R!RealPath(k.root) \in Path
      BY <1>1, <1>2, <1>3, <1>6, RealPathIs DEF R!ResolveRoot
    <3>. QED BY <1>1, <1>6, <3>1 DEF R!ResolveRoot, R!Set
  <2>2. PICK m : m = [k EXCEPT !.at = "resolve", !.root = root]
    OBVIOUS
  <2>3. m \in CallType /\ m.at = "resolve" /\ m.stack = k.stack
    BY <2>2 DEF CallType
  <2>4. Sound(m)
    BY <1>1, <1>6, <2>3 DEF R!ResolveRoot, R!At, Sound
  <2>. QED BY <2>1, <2>2, <2>3, <2>4
<1>7. CASE R!Resolve(c)
  <2>1. PICK real \in Path :
          /\ real \in DOMAIN tree /\ R!Allows(real, k.root)
          /\ calls' = [calls EXCEPT ![c] = [k EXCEPT !.at = "visit", !.path = real, !.here = real]]
    <3>1. R!RealPath(k.path) # NoPath
      BY <1>1, <1>7 DEF R!Resolve
    <3>2. R!RealPath(k.path) \in DOMAIN tree /\ R!RealPath(k.path) \in Path
      BY <1>2, <1>3, <3>1, RealPathIs
    <3>. QED BY <1>1, <1>7, <3>2 DEF R!Resolve, R!Set
  <2>2. PICK m : m = [k EXCEPT !.at = "visit", !.path = real, !.here = real]
    OBVIOUS
  <2>3. /\ m \in CallType /\ m.at = "visit" /\ m.path = real /\ m.here = real
        /\ m.root = k.root /\ m.stack = k.stack
    BY <2>2 DEF CallType
  <2>4. k.stack = <<>> /\ Len(k.stack) = 0
    <3>1. k.stack = <<>>
      BY <1>1, <1>7 DEF R!Resolve, R!At, Sound
    <3>. QED BY <3>1, EmptySeq
  <2>5. R!withinRoot(real, real) /\ R!withinRoot(real, k.root) /\ real # k.root /\ PlainAbove(real)
    <3>1. PlainAbove(real)
      BY <1>2, <2>1 DEF Grown, PlainAbove, R!IsDir
    <3>. QED BY <2>1, <3>1, Ends DEF R!Allows
  <2>6. Sound(m)
    BY <2>3, <2>4, <2>5 DEF Sound, Walked
  <2>. QED BY <2>1, <2>2, <2>3, <2>6
<1>8. CASE R!Visit(c)
  <2>1. PICK next \in {"list", "unlink"} :
          /\ R!Entry(k.here) # NoPath /\ (next = "list" => tree[R!Entry(k.here)].is = "dir")
          /\ calls' = [calls EXCEPT ![c] = [k EXCEPT !.at = next]]
    BY <1>1, <1>8 DEF R!Visit, R!Recurses, R!Exists, R!Lstat, R!Go, R!Set
  <2>2. PICK m : m = [k EXCEPT !.at = next]
    OBVIOUS
  <2>3. /\ m \in CallType /\ m.at = next /\ m.path = k.path /\ m.here = k.here
        /\ m.root = k.root /\ m.stack = k.stack /\ m.moved = k.moved
    BY <2>2 DEF CallType
  <2>4. Walked(k) /\ k.at = "visit"
    BY <1>1, <1>8 DEF R!Visit, R!At, Sound
  <2>5. next = "list" => k.moved \/ Plain(k.here)
    <3>. SUFFICES ASSUME next = "list", ~k.moved PROVE Plain(k.here)
      BY <1>3
    <3>1. PlainAbove(k.here)
      BY <2>4 DEF Walked
    <3>2. k.here # <<>> => R!Entry(k.here) = k.here
      BY <1>2, <1>3, <2>1, <3>1, Straight
    <3>3. k.here = <<>> => R!Entry(k.here) = k.here
      BY DEF R!Entry
    <3>4. tree[k.here].is = "dir"
      BY <2>1, <3>2, <3>3
    <3>. QED BY <3>1, <3>4 DEF Plain, PlainAbove
  <2>6. Walked(m)
    BY <2>3, <2>4, <2>5 DEF Walked
  <2>7. Sound(m)
    BY <2>3, <2>6 DEF Sound
  <2>. QED BY <2>1, <2>2, <2>3, <2>7
<1>9. CASE R!ReadDir(c)
  <2>1. PICK fr \in Frame :
          /\ fr.dir = k.here
          /\ calls' = [calls EXCEPT ![c] = [k EXCEPT !.at = "next", !.stack = Append(k.stack, fr)]]
    <3>1. PICK fr : fr = [dir |-> k.here, left |-> R!Children(R!RealPath(k.here))]
      OBVIOUS
    <3>2. fr \in Frame /\ fr.dir = k.here
      BY <1>3, <3>1 DEF Frame, R!Children
    <3>. QED BY <1>1, <1>9, <3>1, <3>2 DEF R!ReadDir, R!Set
  <2>2. PICK s : s = Append(k.stack, fr)
    OBVIOUS
  <2>3. PICK n \in Nat : n = Len(k.stack)
    BY <1>3, LenProperties
  <2>4. /\ s \in Seq(Frame) /\ s # <<>> /\ Len(s) = n + 1
        /\ (\A i \in 1 .. n : s[i] = k.stack[i]) /\ s[n + 1] = fr
    BY <1>3, <2>2, <2>3, AppendProperties
  <2>5. PICK m : m = [k EXCEPT !.at = "next", !.stack = s]
    OBVIOUS
  <2>6. /\ m \in CallType /\ m.at = "next" /\ m.path = k.path
        /\ m.root = k.root /\ m.stack = s /\ m.moved = k.moved
    BY <2>4, <2>5 DEF CallType
  <2>7. Walked(k) /\ k.at = "list"
    BY <1>1, <1>9 DEF R!ReadDir, R!At, Sound
  <2>8. /\ R!withinRoot(k.path, k.root) /\ k.path # k.root
        /\ \A i \in 1 .. n : R!withinRoot(k.stack[i].dir, k.path) /\ (k.moved \/ Plain(k.stack[i].dir))
        /\ R!withinRoot(k.here, k.path) /\ (k.moved \/ Plain(k.here))
    BY <2>3, <2>7 DEF Walked
  <2>9. \A i \in 1 .. n + 1 : R!withinRoot(s[i].dir, k.path) /\ (k.moved \/ Plain(s[i].dir))
    <3>1. \A i \in 1 .. n + 1 : i \in 1 .. n \/ i = n + 1
      OBVIOUS
    <3>. QED BY <2>1, <2>4, <2>8, <3>1
  <2>10. Walked(m)
    BY <2>4, <2>6, <2>8, <2>9 DEF Walked
  <2>11. Sound(m)
    BY <2>6, <2>10 DEF Sound
  <2>. QED BY <2>1, <2>2, <2>5, <2>6, <2>11
<1>10. CASE R!NextChild(c)
  <2>1. Walked(k) /\ k.at = "next" /\ k.stack # <<>>
    BY <1>1, <1>10 DEF R!NextChild, R!At, Sound, Walked
  <2>2. PICK n \in Nat : /\ Len(k.stack) = n + 1 /\ R!Last(k.stack) = k.stack[n + 1] /\ R!Last(k.stack) \in Frame
                        /\ R!Front(k.stack) \in Seq(Frame) /\ Len(R!Front(k.stack)) = n
                        /\ \A i \in 1 .. n : R!Front(k.stack)[i] = k.stack[i]
    BY <1>3, <2>1, Pops
  <2>3. PICK top \in Frame : top = R!Last(k.stack)
    BY <2>2
  <2>4. PICK a \in top.left :
          calls' = [calls EXCEPT ![c] = [k EXCEPT !.at = "visit", !.here = Append(top.dir, a),
                      !.stack = Append(R!Front(k.stack), [top EXCEPT !.left = top.left \ {a}])]]
    BY <1>1, <1>10, <2>3 DEF R!NextChild, R!Set
  <2>5. top.dir \in Path /\ a \in Names
    BY DEF Frame
  <2>6. PICK here \in Path : /\ here = Append(top.dir, a) /\ R!withinRoot(here, top.dir)
                             /\ R!Front(here) = top.dir /\ here # <<>>
    <3>1. /\ Append(top.dir, a) \in Path /\ R!withinRoot(Append(top.dir, a), top.dir)
          /\ R!Front(Append(top.dir, a)) = top.dir /\ Append(top.dir, a) # <<>>
      BY <2>5, Ends
    <3>. QED BY <3>1
  <2>6a. PICK rest : rest = [top EXCEPT !.left = top.left \ {a}]
    OBVIOUS
  <2>7. rest \in Frame /\ rest.dir = top.dir
    BY <2>6a DEF Frame
  <2>8. PICK s : s = Append(R!Front(k.stack), rest)
    OBVIOUS
  <2>9. /\ s \in Seq(Frame) /\ s # <<>> /\ Len(s) = n + 1
        /\ (\A i \in 1 .. n : s[i] = k.stack[i]) /\ s[n + 1] = rest
    BY <2>2, <2>7, <2>8, AppendProperties
  <2>10. PICK m : m = [k EXCEPT !.at = "visit", !.here = here, !.stack = s]
    OBVIOUS
  <2>11. /\ m \in CallType /\ m.at = "visit" /\ m.path = k.path /\ m.here = here
         /\ m.root = k.root /\ m.stack = s /\ m.moved = k.moved
    BY <2>9, <2>10 DEF CallType
  <2>12. /\ R!withinRoot(k.path, k.root) /\ k.path # k.root
         /\ \A i \in 1 .. n + 1 : R!withinRoot(k.stack[i].dir, k.path) /\ (k.moved \/ Plain(k.stack[i].dir))
    BY <2>1, <2>2 DEF Walked
  <2>13. n + 1 \in 1 .. n + 1 /\ \A i \in 1 .. n + 1 : i \in 1 .. n \/ i = n + 1
    OBVIOUS
  <2>14. R!withinRoot(top.dir, k.path) /\ (k.moved \/ Plain(top.dir))
    BY <2>2, <2>3, <2>12, <2>13
  <2>15. \A i \in 1 .. n + 1 : R!withinRoot(s[i].dir, k.path) /\ (k.moved \/ Plain(s[i].dir))
    BY <2>7, <2>9, <2>12, <2>13, <2>14
  <2>16. R!withinRoot(here, k.path)
    BY <1>3, <2>5, <2>6, <2>14, WithinOrder
  <2>17. k.moved \/ PlainAbove(here)
    <3>. SUFFICES ASSUME ~k.moved, NEW q \in DOMAIN tree, R!withinRoot(here, q), q # here PROVE tree[q].is = "dir"
      BY DEF PlainAbove
    <3>1. q \in Path
      BY <1>2 DEF Grown
    <3>2. R!withinRoot(R!Front(here), q)
      BY <2>6, <3>1, Ends
    <3>3. R!withinRoot(top.dir, q)
      BY <2>6, <3>2
    <3>. QED BY <2>14, <3>3 DEF Plain
  <2>18. Walked(m)
    BY <2>9, <2>11, <2>12, <2>15, <2>16, <2>17 DEF Walked
  <2>19. Sound(m)
    BY <2>11, <2>18 DEF Sound
  <2>20. calls' = [calls EXCEPT ![c] = m]
    BY <2>4, <2>6, <2>6a, <2>8, <2>10
  <2>. QED BY <2>11, <2>19, <2>20
<1>. QED BY <1>5, <1>6, <1>7, <1>8, <1>9, <1>10

(* It takes an entry, and goes back to the directory above.                *)
LEMMA Returns ==
    ASSUME NEW k \in CallType, Sound(k), k.at \in {"next", "unlink"}, NEW s \in Seq(Frame),
           s = k.stack \/ (k.stack # <<>> /\ s = R!Front(k.stack))
    PROVE  LET m == IF s = <<>> THEN R!Idle ELSE [k EXCEPT !.at = "next", !.stack = s]
           IN  m \in CallType /\ Sound(m) /\ m.at # "drop"
<1>1. CASE s = <<>>
  BY <1>1, IdleSound DEF R!Idle
<1>2. CASE s # <<>>
  <2>1. PICK m : m = [k EXCEPT !.at = "next", !.stack = s]
    OBVIOUS
  <2>2. m \in CallType /\ m.at = "next" /\ m.path = k.path /\ m.root = k.root /\ m.stack = s /\ m.moved = k.moved
    BY <2>1 DEF CallType
  <2>3. /\ R!withinRoot(k.path, k.root) /\ k.path # k.root
        /\ \A i \in 1 .. Len(k.stack) : R!withinRoot(k.stack[i].dir, k.path) /\ (k.moved \/ Plain(k.stack[i].dir))
    BY DEF Sound, Walked
  <2>4. \A i \in 1 .. Len(s) : R!withinRoot(s[i].dir, k.path) /\ (k.moved \/ Plain(s[i].dir))
    <3>1. CASE s = k.stack
      BY <2>3, <3>1
    <3>2. CASE k.stack # <<>> /\ s = R!Front(k.stack)
      <4>1. k.stack \in Seq(Frame)
        BY DEF CallType
      <4>2. PICK n \in Nat : Len(k.stack) = n + 1 /\ Len(s) = n /\ \A i \in 1 .. n : s[i] = k.stack[i]
        BY <3>2, <4>1, Pops
      <4>3. \A i \in 1 .. n : i \in 1 .. n + 1
        OBVIOUS
      <4>. QED BY <2>3, <4>2, <4>3
    <3>. QED BY <3>1, <3>2
  <2>5. Walked(m)
    BY <1>2, <2>2, <2>3, <2>4 DEF Walked
  <2>6. Sound(m)
    BY <2>2, <2>5 DEF Sound
  <2>. QED BY <1>2, <2>1, <2>2, <2>6
<1>. QED BY <1>1, <1>2

(* What is below a path below another is below that one.                   *)
LEMMA BelowBoth ==
    ASSUME NEW p \in Path, NEW root \in Path, NEW q \in Path,
           R!withinRoot(p, root), p # root, R!withinRoot(q, p)
    PROVE  q # <<>> /\ R!withinRoot(q, root) /\ q # root
<1>1. /\ Len(root) \in Nat /\ Len(p) \in Nat /\ Len(q) \in Nat
      /\ Len(root) < Len(p) /\ Len(p) <= Len(q)
  BY Within, WithinOrder, LenProperties DEF Path
<1>2. Len(q) # 0 /\ Len(q) # Len(root)
  BY <1>1
<1>. QED BY <1>2, WithinOrder, EmptySeq DEF Path

(* What goes when a call takes an entry, and where the call is then.       *)
Taken(c, x) ==
    /\ x # <<>> /\ (~R!IsDir(x) \/ R!Children(x) = {}) /\ R!Gone(x)
    /\ \/ R!At(c, "remove", "drop") /\ R!Named(c, x)
       \/ /\ R!At(c, "remove", "unlink") \/ R!At(c, "remove", "next")
          /\ R!Below(c, x) \/ calls[c].moved
    /\ \E m \in CallType : calls' = [calls EXCEPT ![c] = m] /\ Sound(m) /\ m.at # "drop"

LEMMA Takes ==
    ASSUME TreeInv, NEW c \in Callers, R!DropLink(c) \/ R!Unlink(c) \/ R!RemoveDirectory(c)
    PROVE  \E x \in DOMAIN tree : Taken(c, x)
<1>1. PICK k \in CallType : k = calls[c] /\ Sound(k)
  BY DEF TreeInv
<1>2. Grown
  BY DEF TreeInv
<1>3. k.path \in Path /\ k.root \in Path /\ k.here \in Path /\ k.stack \in Seq(Frame) /\ k.moved \in BOOLEAN
  BY DEF CallType
<1>4. CASE R!DropLink(c)
  <2>1. PICK x : x = R!Entry(k.path)
    OBVIOUS
  <2>2. x # NoPath /\ (~R!IsDir(x) \/ R!Children(x) = {}) /\ R!Gone(x)
    BY <1>1, <1>4, <2>1 DEF R!DropLink, R!Takes, R!Exists
  <2>3. R!At(c, "remove", "drop") /\ k.at = "drop" /\ k.path # <<>> /\ (k.moved \/ Drops(k))
    BY <1>1, <1>4 DEF R!DropLink, R!At, Sound
  <2>4. x \in DOMAIN tree /\ x # <<>>
    BY <1>2, <1>3, <2>1, <2>2, <2>3, EntryIs
  <2>5. R!Named(c, x)
    BY <1>1, <2>1, <2>2, <2>3 DEF R!Named, Drops
  <2>6. calls' = [calls EXCEPT ![c] = R!Idle]
    BY <1>4 DEF R!DropLink, R!End, R!Set
  <2>7. R!Idle.at # "drop"
    BY DEF R!Idle
  <2>. QED BY <2>2, <2>3, <2>4, <2>5, <2>6, <2>7, IdleSound DEF Taken
<1>5. CASE R!Unlink(c)
  <2>1. PICK x : x = R!Entry(k.here)
    OBVIOUS
  <2>2. x # NoPath /\ (~R!IsDir(x) \/ R!Children(x) = {}) /\ R!Gone(x)
    BY <1>1, <1>5, <2>1 DEF R!Unlink, R!Takes, R!Exists
  <2>3. R!At(c, "remove", "unlink") /\ k.at = "unlink" /\ Walked(k)
    BY <1>1, <1>5 DEF R!Unlink, R!At, Sound
  <2>4. /\ R!withinRoot(k.path, k.root) /\ k.path # k.root
        /\ R!withinRoot(k.here, k.path) /\ (k.moved \/ PlainAbove(k.here))
    BY <2>3 DEF Walked
  <2>5. k.here # <<>> /\ R!withinRoot(k.here, k.root) /\ k.here # k.root
    BY <1>3, <2>4, BelowBoth
  <2>6. x \in DOMAIN tree /\ x # <<>>
    BY <1>2, <1>3, <2>1, <2>2, <2>5, EntryIs
  <2>7. R!Below(c, x) \/ calls[c].moved
    <3>1. ~k.moved => x = k.here
      BY <1>2, <1>3, <2>1, <2>2, <2>4, <2>5, Straight
    <3>. QED BY <1>1, <2>4, <2>5, <3>1 DEF R!Below
  <2>8. PICK m : m = IF k.stack = <<>> THEN R!Idle ELSE [k EXCEPT !.at = "next", !.stack = k.stack]
    OBVIOUS
  <2>9. calls' = [calls EXCEPT ![c] = m]
    BY <1>1, <1>5, <2>8 DEF R!Unlink, R!Return, R!Set
  <2>10. m \in CallType /\ Sound(m) /\ m.at # "drop"
    BY <1>1, <1>3, <2>3, <2>8, Returns
  <2>. QED BY <2>2, <2>3, <2>6, <2>7, <2>9, <2>10 DEF Taken
<1>6. CASE R!RemoveDirectory(c)
  <2>1. R!At(c, "remove", "next") /\ k.at = "next" /\ Walked(k) /\ k.stack # <<>>
    BY <1>1, <1>6 DEF R!RemoveDirectory, R!At, Sound, Walked
  <2>2. PICK n \in Nat : /\ Len(k.stack) = n + 1 /\ R!Last(k.stack) = k.stack[n + 1] /\ R!Last(k.stack) \in Frame
                        /\ R!Front(k.stack) \in Seq(Frame)
    BY <1>3, <2>1, Pops
  <2>3. PICK d \in Path : d = R!Last(k.stack).dir
    BY <2>2 DEF Frame
  <2>4. /\ R!withinRoot(k.path, k.root) /\ k.path # k.root
        /\ R!withinRoot(d, k.path) /\ (k.moved \/ Plain(d))
    <3>1. n + 1 \in 1 .. Len(k.stack)
      BY <2>2
    <3>. QED BY <2>1, <2>2, <2>3, <3>1 DEF Walked
  <2>5. d # <<>> /\ R!withinRoot(d, k.root) /\ d # k.root
    BY <1>3, <2>4, BelowBoth
  <2>6. PICK x : x = R!Entry(d)
    OBVIOUS
  <2>7. x # NoPath /\ R!Children(x) = {} /\ R!Gone(x)
    BY <1>1, <1>6, <2>3, <2>6 DEF R!RemoveDirectory
  <2>8. x \in DOMAIN tree /\ x # <<>>
    BY <1>2, <2>5, <2>6, <2>7, EntryIs
  <2>9. R!Below(c, x) \/ calls[c].moved
    <3>1. Plain(d) => PlainAbove(d)
      BY DEF Plain, PlainAbove
    <3>2. ~k.moved => x = d
      BY <1>2, <2>4, <2>5, <2>6, <2>7, <3>1, Straight
    <3>. QED BY <1>1, <2>4, <2>5, <3>2 DEF R!Below
  <2>10. PICK m : m = IF R!Front(k.stack) = <<>> THEN R!Idle
                      ELSE [k EXCEPT !.at = "next", !.stack = R!Front(k.stack)]
    OBVIOUS
  <2>11. calls' = [calls EXCEPT ![c] = m]
    BY <1>1, <1>6, <2>10 DEF R!RemoveDirectory, R!Return, R!Set
  <2>12. m \in CallType /\ Sound(m) /\ m.at # "drop"
    BY <1>1, <2>1, <2>2, <2>10, Returns
  <2>. QED BY <2>1, <2>7, <2>8, <2>9, <2>11, <2>12 DEF Taken
<1>. QED BY <1>4, <1>5, <1>6

LEMMA TakesSound ==
    ASSUME TreeInv, NEW c \in Callers, R!DropLink(c) \/ R!Unlink(c) \/ R!RemoveDirectory(c)
    PROVE  TreeInv'
<1>1. PICK x \in DOMAIN tree : Taken(c, x)
  BY Takes
<1>2. Grown /\ cwd \in Path /\ made \in 0 .. MaxCalls
  BY DEF TreeInv
<1>3. x # <<>> /\ (~R!IsDir(x) \/ R!Children(x) = {}) /\ R!Gone(x)
  BY <1>1 DEF Taken
<1>4. Grown' /\ Shrinks
  BY <1>2, <1>3, GoneKeeps
<1>5. PICK m \in CallType : calls' = [calls EXCEPT ![c] = m] /\ Sound(m) /\ m.at # "drop"
  BY <1>1 DEF Taken
<1>6. Sound(m)'
  <2>1. m.moved => m.moved
    OBVIOUS
  <2>. QED BY <1>4, <1>5, <2>1, ShrinksKeep, StaysSound
<1>7. UNCHANGED <<cwd, made>>
  BY DEF R!DropLink, R!Unlink, R!RemoveDirectory
<1>. QED BY <1>2, <1>4, <1>5, <1>6, <1>7, Carries

LEMMA TreeStep ==
    ASSUME TreeInv, R!Next
    PROVE  TreeInv' /\ R!RemovesBelow
<1>1. PICK c \in Callers : R!Step(c)
  BY DEF R!Next
<1>2. CASE R!Begin(c) \/ R!Fails(c) \/ R!FindDir(c) \/ R!StatDir(c) \/ R!setCwd(c) \/ R!FindParent(c)
           \/ R!FindFrom(c) \/ R!FindTo(c)
  <2>1. tree' = tree
    BY <1>2 DEF R!Begin, R!Fails, R!FindDir, R!StatDir, R!setCwd, R!FindParent, R!FindFrom, R!FindTo
  <2>. QED BY <1>2, <2>1, LooksSound DEF R!RemovesBelow
<1>3. CASE R!LstatTarget(c) \/ R!ResolveRoot(c) \/ R!Resolve(c) \/ R!Visit(c) \/ R!ReadDir(c) \/ R!NextChild(c)
  <2>1. tree' = tree
    BY <1>3 DEF R!LstatTarget, R!ResolveRoot, R!Resolve, R!Visit, R!ReadDir, R!NextChild
  <2>. QED BY <1>3, <2>1, WalksSound DEF R!RemovesBelow
<1>4. CASE R!Mkdir(c)
  <2>1. DOMAIN tree \subseteq DOMAIN tree'
    BY <1>4 DEF R!Mkdir
  <2>. QED BY <1>4, <2>1, ChangesSound DEF R!RemovesBelow
<1>5. CASE R!Rename(c)
  <2>1. PICK from : from = R!Entry(calls[c].path)
    OBVIOUS
  <2>2. PICK to : to = R!Place(calls[c].to)
    OBVIOUS
  <2>3. R!At(c, "rename", "move") /\ from \in DOMAIN tree /\ tree' = R!Moved(from, to)
    BY <1>5, <2>1, <2>2 DEF R!Rename
  <2>4. \A q \in DOMAIN tree \ DOMAIN tree' : R!withinRoot(q, from)
    BY <2>3 DEF R!Moved
  <2>5. R!RemovesBelow
    BY <2>1, <2>3, <2>4 DEF R!RemovesBelow, R!TakenByMove
  <2>. QED BY <1>5, <2>5, ChangesSound
<1>6. CASE R!DropLink(c) \/ R!Unlink(c) \/ R!RemoveDirectory(c)
  <2>1. PICK x \in DOMAIN tree : Taken(c, x)
    BY <1>6, Takes
  <2>2. DOMAIN tree \ DOMAIN tree' \subseteq {x}
    BY <2>1 DEF Taken, R!Gone
  <2>3. R!RemovesBelow
    BY <2>1, <2>2 DEF Taken, R!RemovesBelow
  <2>. QED BY <1>6, <2>3, TakesSound
<1>. QED BY <1>1, <1>2, <1>3, <1>4, <1>5, <1>6 DEF R!Step, R!Removal

LEMMA TreeStart ==
    ASSUME R!Init
    PROVE  TreeInv
<1>1. tree = FirstTree /\ cwd = FirstCwd /\ calls = [c \in Callers |-> R!Idle] /\ made = 0
  BY DEF R!Init
<1>2. Grown
  <2>1. ASSUME NEW p \in DOMAIN FirstTree, NEW q \in Path, R!withinRoot(p, q), q # p PROVE R!IsDir(q)
    <3>1. p \in Path
      BY TreeAssumption DEF Path
    <3>2. Len(q) \in Nat /\ Len(p) \in Nat /\ Len(q) < Len(p)
      BY <2>1, <3>1, WithinOrder, LenProperties DEF Path
    <3>3. PICK n \in 0 .. Len(p) - 1 : n = Len(q)
      BY <3>2
    <3>4. q = SubSeq(p, 1, n)
      BY <2>1, <3>3, SubSeqFull DEF R!withinRoot, R!IsPrefix, Path
    <3>. QED BY <1>1, <3>4, TreeAssumption DEF R!IsDir
  <2>. QED BY <1>1, <2>1, TreeAssumption DEF Grown, Path, Kinds
<1>3. calls \in [Callers -> CallType] /\ \A c \in Callers : Sound(calls[c])
  BY <1>1, IdleSound
<1>. QED BY <1>1, <1>2, <1>3, TreeAssumption DEF TreeInv, Path

(* Whatever the calls do, what TreeInv says of the tree and of the calls   *)
(* holds: a removal that nothing was renamed under is about to look at, or *)
(* to take, a link, or a path that goes through directories only           *)
(* (sftpservice.go:437-547).                                               *)
THEOREM TreeInvariant == FilesSpec => [](focus = "tree" => TreeInv)
<1>1. FilesInit => (focus = "tree" => TreeInv)
  BY TreeStart DEF FilesInit, TreeInit
<1>2. ASSUME focus = "tree" => TreeInv, [Queue \/ Replacing \/ Clients \/ Tree \/ Rest]_allVars
      PROVE  (focus = "tree" => TreeInv)'
  <2>1. CASE Tree
    BY <1>2, <2>1, TreeStep DEF Tree
  <2>2. CASE focus' = focus /\ UNCHANGED treeVars
    <3>1. UNCHANGED <<tree, cwd, calls, made>>
      BY <2>2 DEF treeVars
    <3>2. TreeInv => TreeInv'
      <4>. SUFFICES ASSUME TreeInv PROVE TreeInv'
        OBVIOUS
      <4>1. Grown'
        BY <3>1 DEF TreeInv, Grown, R!IsDir
      <4>2. \A p \in Path : (Plain(p) => Plain(p)') /\ (PlainAbove(p) => PlainAbove(p)')
        BY <3>1 DEF Plain, PlainAbove
      <4>3. ASSUME NEW c \in Callers PROVE Sound(calls[c])'
        <5>1. PICK k \in CallType : k = calls[c] /\ Sound(k)
          BY DEF TreeInv
        <5>2. R!Entry(k.path)' = R!Entry(k.path)
          BY <3>1 DEF R!Entry, R!RealPath, R!Substituted, R!LinksOn
        <5>3. k.at = "drop" /\ ~k.moved => Drops(k)'
          BY <3>1, <5>1, <5>2 DEF Sound, Drops
        <5>4. Sound(k)'
          BY <4>2, <5>1, <5>3, StaysSound
        <5>. QED BY <3>1, <5>1, <5>4 DEF Sound, Walked, Drops
      <4>. QED BY <3>1, <4>1, <4>3 DEF TreeInv
    <3>. QED BY <1>2, <2>2, <3>2
  <2>. QED BY <1>2, <2>1, <2>2 DEF Queue, Replacing, Clients, Rest, allVars
<1>. QED BY <1>1, <1>2, PTL DEF FilesSpec

LEMMA TreeTyped ==
    ASSUME TreeInv
    PROVE  R!TypeOK
<1>1. ASSUME NEW p \in DOMAIN tree, p # <<>> PROVE R!IsDir(R!Front(p))
  <2>1. p \in Path
    BY DEF TreeInv, Grown
  <2>2. R!Front(p) \in Path /\ R!withinRoot(p, R!Front(p)) /\ Len(R!Front(p)) = Len(p) - 1 /\ Len(p) \in Nat
    BY <1>1, <2>1, Ends, LenProperties DEF Path
  <2>3. R!Front(p) # p
    BY <2>2
  <2>. QED BY <2>2, <2>3 DEF TreeInv, Grown
<1>2. \A c \in Callers : calls[c] \in CallType
  BY DEF TreeInv
<1>. QED BY <1>1, <1>2 DEF TreeInv, Grown, CallType, R!TypeOK

(* However the calls interleave, and whatever fails, Remove takes only what*)
(* is below the directory that was current and below what its target       *)
(* resolved to, or the link its target is, unless something was renamed    *)
(* meanwhile or came in the place of the link (sftpservice.go:432-547).    *)
THEOREM RemovesOnlyBelow == FilesSpec => OnlyBelow
<1>1. (focus = "tree" => TreeInv) => (focus = "tree" => R!TypeOK)
  BY TreeTyped
<1>2. (focus = "tree" => TreeInv) /\ [Queue \/ Replacing \/ Clients \/ Tree \/ Rest]_allVars
        => [focus = "tree" => R!RemovesBelow]_allVars
  <2>. SUFFICES ASSUME focus = "tree" => TreeInv, Queue \/ Replacing \/ Clients \/ Tree \/ Rest, focus = "tree"
                PROVE  R!RemovesBelow \/ UNCHANGED allVars
    OBVIOUS
  <2>1. Tree \/ UNCHANGED allVars
    BY DEF Queue, Replacing, Clients, Rest
  <2>. QED BY <2>1, TreeStep DEF Tree
<1>. QED BY <1>1, <1>2, TreeInvariant, PTL DEF FilesSpec, OnlyBelow

================================================================================
