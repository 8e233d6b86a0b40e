--------------------------- MODULE TransferManager ---------------------------
(***************************************************************************)
(* The transfer queue of src/internal/sftpservice/transfer_manager.go, the *)
(* upload or download each task runs (sftpservice.go), and the task list   *)
(* the renderer folds the events into (useTransferTasks.ts).               *)
(*                                                                         *)
(* Task states change under the manager's lock, but the events that report *)
(* them are emitted after the lock is released, by whichever goroutine     *)
(* made the change: calls of the UI and the tasks' own goroutines.         *)
(***************************************************************************)
EXTENDS Integers, Sequences, FiniteSets

CONSTANTS Tasks,        \* task ids, fresh ones are taken from here (bound)
          Sessions, SessionOf(_),
          Callers,      \* goroutines of the UI's calls (bound)
          Free,         \* m.mu is not held across steps
          MaxGlobal, MaxSession

Goroutines == Callers \cup Tasks

ASSUME GoroutinesAssumption == Callers \cap Tasks = {} /\ Free \notin Goroutines
ASSUME SessionsAssumption == \A t \in Tasks : SessionOf(t) \in Sessions
ASSUME CapsAssumption == MaxGlobal \in Nat \ {0} /\ MaxSession \in Nat \ {0}

VARIABLES
    state,           \* m.tasks[t].state; "none" and "cleared": not in m.tasks
    queue,           \* m.queue
    runningGlobal, runningSession,
    cancelled,       \* running tasks whose context was cancelled
    closed,          \* m.closed
    mu,              \* the goroutine inside scheduleLocked
    pc,              \* where each goroutine is
    todo,            \* the events it still has to emit
    committed,       \* known tasks that replaced their target file
    view             \* the renderer's tasksMap

vars == <<state, queue, runningGlobal, runningSession, cancelled, closed, mu,
          pc, todo, committed, view>>
counters == <<runningGlobal, runningSession>>

Terminal == {"succeeded", "failed", "cancelled"}
Running  == {"running", "finalizing"}
States   == {"none", "queued", "cleared"} \cup Running \cup Terminal
Event    == [task : Tasks, state : States \ {"none", "cleared"}]

CallerPC == {"idle", "schedule", "pick", "launch", "join", "joined"}
RunnerPC == {"none", "start", "copy", "close", "commit",
             "schedule", "pick", "launch", "done"}

TasksIn(S) == {t \in Tasks : state[t] \in S}

Told(t, s) == [task |-> t, state |-> s]

-----------------------------------------------------------------------------
(* The renderer: an event replaces an entry unless its state has a lower   *)
(* rank, so a late "queued" or "running" cannot undo a terminal state.     *)

Rank(s) == CASE s = "queued" -> 1 [] s = "running" -> 2
             [] s = "finalizing" -> 3 [] s \in Terminal -> 4 [] OTHER -> 0

(* Mutant: the renderer believes whatever event comes last.                *)
LastWins(v, e) == [v EXCEPT ![e.task] = e.state]

Shown(v, e) == IF Rank(e.state) < Rank(v[e.task]) THEN v
               ELSE [v EXCEPT ![e.task] = e.state]

-----------------------------------------------------------------------------
(* Emission and scheduling, for any goroutine g.                           *)

(* What g does after its last event: a call of the UI schedules (Dispose   *)
(* waits); a runner goes on copying, or schedules after its final event.   *)
Emit(g) ==
    /\ pc[g] \notin {"pick", "launch"} /\ todo[g] # <<>>
    /\ view' = Shown(view, Head(todo[g]))
    /\ todo' = [todo EXCEPT ![g] = Tail(@)]
    /\ UNCHANGED <<state, queue, counters, cancelled, closed, mu, pc, committed>>

Quiet(g, at) == pc[g] = at /\ todo[g] = <<>>

Schedule(g) ==
    /\ Quiet(g, "schedule") /\ mu = Free
    /\ mu' = g /\ pc' = [pc EXCEPT ![g] = "pick"]
    /\ UNCHANGED <<state, queue, counters, cancelled, closed, todo, committed, view>>

(* Mutant: the limit of the session is not tested.                         *)
AnySession(i) == TRUE

(* Position i of the queue may start as far as its session is concerned.   *)
SessionFree(i) == runningSession[SessionOf(queue[i])] < MaxSession

GlobalRoom == runningGlobal < MaxGlobal

CanPick == ~closed /\ GlobalRoom /\ \E i \in 1..Len(queue) : SessionFree(i)

(* The queue without its position i.                                       *)
Without(i) == SubSeq(queue, 1, i - 1) \o SubSeq(queue, i + 1, Len(queue))

(* scheduleLocked's loop: the first queued task whose session is free.     *)
Pick(g) ==
    /\ pc[g] = "pick" /\ mu = g /\ CanPick
    /\ \E i \in 1..Len(queue) :
         /\ SessionFree(i) /\ \A j \in 1..(i - 1) : ~SessionFree(j)
         /\ LET t == queue[i]
            IN  /\ queue' = Without(i)
                /\ state' = [state EXCEPT ![t] = "running"]
                /\ runningGlobal' = runningGlobal + 1
                /\ runningSession' = [runningSession EXCEPT ![SessionOf(t)] = @ + 1]
                /\ todo' = [todo EXCEPT ![g] = Append(@, Told(t, "running"))]
    /\ UNCHANGED <<cancelled, closed, mu, pc, committed, view>>

(* Where g is once schedule has returned.                                  *)
Returned(g) == IF g \in Callers THEN "idle" ELSE "done"

PickNoMore(g) ==
    /\ pc[g] = "pick" /\ mu = g /\ ~CanPick
    /\ mu' = Free
    /\ pc' = [pc EXCEPT ![g] = IF todo[g] = <<>> THEN Returned(g) ELSE "launch"]
    /\ UNCHANGED <<state, queue, counters, cancelled, closed, todo, committed, view>>

(* schedule, after the unlock: emit, wg.Add(1), start the goroutine.       *)
Launch(g) ==
    /\ pc[g] = "launch"
    /\ view' = Shown(view, Head(todo[g]))
    /\ pc' = [pc EXCEPT ![Head(todo[g]).task] = "start",
                        ![g] = IF Len(todo[g]) = 1 THEN Returned(g) ELSE @]
    /\ todo' = [todo EXCEPT ![g] = Tail(@)]
    /\ UNCHANGED <<state, queue, counters, cancelled, closed, mu, committed>>

-----------------------------------------------------------------------------
(* Calls of the UI.  Each locks once, so it needs mu to be free.           *)

Ready(u) == pc[u] = "idle" /\ mu = Free

(* The call goes on with events es, then calls schedule.                   *)
ThenEmit(u, es, next) ==
    /\ pc' = [pc EXCEPT ![u] = next]
    /\ todo' = [todo EXCEPT ![u] = es]

(* EnqueueUpload adds every valid file in one critical section;            *)
(* EnqueueDownload one task.                                               *)
Enqueue(u, ts) ==
    /\ Ready(u) /\ ~closed
    /\ \A i \in 1..Len(ts) : state[ts[i]] = "none"
    /\ state' = [t \in Tasks |->
                   IF \E i \in 1..Len(ts) : ts[i] = t THEN "queued" ELSE state[t]]
    /\ queue' = queue \o ts
    /\ ThenEmit(u, [i \in 1..Len(ts) |-> Told(ts[i], "queued")], "schedule")
    /\ UNCHANGED <<counters, cancelled, closed, mu, committed, view>>

(* A failed or cancelled task is enqueued again under a fresh id.          *)
Retry(u, old, new) ==
    /\ state[old] \in {"failed", "cancelled"}
    /\ SessionOf(new) = SessionOf(old)
    /\ Enqueue(u, <<new>>)

(* The list offers to cancel the tasks it shows.                           *)
CancelQueued(u, t) ==
    /\ Ready(u) /\ state[t] = "queued" /\ view[t] # "none"
    /\ \E i \in 1..Len(queue) : queue[i] = t /\ queue' = Without(i)
    /\ state' = [state EXCEPT ![t] = "cancelled"]
    /\ ThenEmit(u, <<Told(t, "cancelled")>>, "schedule")
    /\ UNCHANGED <<counters, cancelled, closed, mu, committed, view>>

CancelRunning(t) ==
    /\ mu = Free /\ state[t] = "running" /\ view[t] # "none"
    /\ cancelled' = cancelled \cup {t}
    /\ UNCHANGED <<state, queue, counters, closed, mu, pc, todo, committed, view>>

(* The renderer drops the entries S it shows as finished and calls Clear   *)
(* (or ClearCompleted, which drops what else is finished by then).         *)
Clear(S, all) ==
    /\ mu = Free
    /\ S # {} /\ \A t \in S : view[t] \in Terminal
    /\ state' = [t \in Tasks |-> IF state[t] \in Terminal /\ (t \in S \/ all)
                                 THEN "cleared" ELSE state[t]]
    /\ view' = [t \in Tasks |-> IF t \in S THEN "none" ELSE view[t]]
    /\ committed' = {t \in committed : state'[t] # "cleared"}
    /\ UNCHANGED <<queue, counters, cancelled, closed, mu, pc, todo>>

(* Mutant: the contexts of running tasks are left alone.                   *)
NoneStopped == {}

(* The tasks whose context Dispose cancels.                                *)
Stopped == TasksIn({"running"})

(* Queued tasks are cancelled, the contexts of running ones as well.       *)
Dispose(u) ==
    /\ Ready(u) /\ ~closed
    /\ closed' = TRUE
    /\ state' = [t \in Tasks |-> IF state[t] = "queued" THEN "cancelled" ELSE state[t]]
    /\ queue' = <<>>
    /\ cancelled' = cancelled \cup Stopped
    /\ ThenEmit(u, [i \in 1..Len(queue) |-> Told(queue[i], "cancelled")], "join")
    /\ UNCHANGED <<counters, mu, committed, view>>

(* "Transfer manager is closed".                                           *)
Refused(u) == Ready(u) /\ closed /\ UNCHANGED vars

(* wg.Wait returned: every goroutine that was started is done.             *)
DisposeJoins(u) ==
    /\ Quiet(u, "join")
    /\ \A t \in Tasks : pc[t] \in {"none", "done"}
    /\ pc' = [pc EXCEPT ![u] = "joined"]
    /\ UNCHANGED <<state, queue, counters, cancelled, closed, mu, todo, committed, view>>

(* The three seconds are over.                                             *)
DisposeTimesOut(u) ==
    /\ Quiet(u, "join")
    /\ pc' = [pc EXCEPT ![u] = "idle"]
    /\ UNCHANGED <<state, queue, counters, cancelled, closed, mu, todo, committed, view>>

-----------------------------------------------------------------------------
(* A task's goroutine: UploadWithContext or DownloadWithContext.           *)

Goto(t, at) ==
    /\ pc' = [pc EXCEPT ![t] = at]
    /\ UNCHANGED <<queue, counters, cancelled, closed, mu, committed, view>>

(* onProgress: the state may become finalizing, and an event is due unless *)
(* the manager is closed.                                                  *)
Progress(t, s) ==
    /\ mu = Free
    /\ state' = [state EXCEPT ![t] = s]
    /\ todo' = [todo EXCEPT ![t] = IF closed THEN <<>> ELSE <<Told(t, s)>>]

(* The context is checked, paths are validated, the temp file is created.  *)
Starts(t) ==
    /\ pc[t] = "start" /\ t \notin cancelled
    /\ Goto(t, "copy") /\ Progress(t, "running")

(* io.Copy through the reader that tests the context before every read;    *)
(* its further reports only change the byte count.                         *)
CopyEnds(t) == Quiet(t, "copy") /\ Goto(t, "close") /\ UNCHANGED <<state, todo>>

(* Mutant: the context is not looked at again before the commit.           *)
Unchecked(t) == TRUE

Unabandoned(t) == t \notin cancelled

(* The temp file is closed and the context was not cancelled; a Cancel may *)
(* still come before the state says finalizing.                            *)
Closes(t) ==
    /\ pc[t] = "close" /\ Unabandoned(t)
    /\ Goto(t, "commit") /\ UNCHANGED <<state, todo>>

Finalizing(t) ==
    /\ Quiet(t, "commit") /\ state[t] = "running"
    /\ Goto(t, "commit") /\ Progress(t, "finalizing")

(* Mutant: a cancelled task keeps its slot.                                *)
SlotKept(t) == IF t \in cancelled THEN 0 ELSE 1

(* The slots a finished task gives back.                                   *)
Slots(t) == 1

(* Mutant: the end of a task does not fill the slot it frees.              *)
NoReschedule(t) == "done"

AfterEnd(t) == "schedule"

(* runTask ends: state, slots, final event; without Dispose it schedules.  *)
End(t, outcome) ==
    /\ todo[t] = <<>> /\ mu = Free
    /\ state' = [state EXCEPT ![t] = outcome]
    /\ runningGlobal' = runningGlobal - Slots(t)
    /\ runningSession' = [runningSession EXCEPT ![SessionOf(t)] = @ - Slots(t)]
    /\ IF closed
         THEN pc' = [pc EXCEPT ![t] = "done"] /\ UNCHANGED todo
         ELSE ThenEmit(t, <<Told(t, outcome)>>, AfterEnd(t))
    /\ cancelled' = cancelled \ {t}
    /\ UNCHANGED <<queue, closed, mu, view>>

(* The temp file replaces the target.                                      *)
Succeeds(t) ==
    /\ pc[t] = "commit" /\ state[t] = "finalizing"
    /\ committed' = committed \cup {t}
    /\ End(t, "succeeded")

(* How runTask names an error: ctx.Err() itself, or another error while    *)
(* the context is cancelled and the task is not finalizing, is a           *)
(* cancellation.                                                           *)
Outcome(t) ==
    IF t \in cancelled /\ state[t] # "finalizing" THEN "cancelled" ELSE "failed"

(* An error, or the cancelled context, ends the transfer and removes the   *)
(* temp file.                                                              *)
Fails(t) ==
    /\ \/ pc[t] \in {"start", "copy", "close"}
       \/ pc[t] = "commit" /\ state[t] = "finalizing"
    /\ End(t, Outcome(t))
    /\ UNCHANGED committed

-----------------------------------------------------------------------------
Init ==
    /\ state = [t \in Tasks |-> "none"] /\ queue = <<>>
    /\ runningGlobal = 0 /\ runningSession = [s \in Sessions |-> 0]
    /\ cancelled = {} /\ closed = FALSE /\ mu = Free
    /\ pc = [g \in Goroutines |-> IF g \in Callers THEN "idle" ELSE "none"]
    /\ todo = [g \in Goroutines |-> <<>>]
    /\ committed = {} /\ view = [t \in Tasks |-> "none"]

(* The batches EnqueueUpload is given: one or two files.                   *)
Batches == {<<t>> : t \in Tasks} \cup
           {<<p[1], p[2]>> : p \in {p \in Tasks \X Tasks : p[1] # p[2]}}

Scheduling(g) == \/ Emit(g) \/ Schedule(g) \/ Pick(g) \/ PickNoMore(g)
                 \/ Launch(g)

CallerStep(u) == Scheduling(u) \/ DisposeJoins(u) \/ DisposeTimesOut(u)

RunnerStep(t) == \/ Scheduling(t) \/ Starts(t) \/ CopyEnds(t) \/ Closes(t)
                 \/ Finalizing(t) \/ Succeeds(t) \/ Fails(t)

Call(u) ==
    \/ \E ts \in Batches : Enqueue(u, ts)
    \/ \E old, new \in Tasks : Retry(u, old, new)
    \/ \E t \in Tasks : CancelQueued(u, t)
    \/ Dispose(u)
    \/ Refused(u)

(* What "clear completed" removes from the renderer's list.                *)
Finished == {t \in Tasks : view[t] \in Terminal}

Next ==
    \/ \E u \in Callers : Call(u) \/ CallerStep(u)
    \/ \E t \in Tasks : RunnerStep(t) \/ CancelRunning(t) \/ Clear({t}, FALSE)
    \/ Clear(Finished, TRUE)

(* Goroutines run, file operations end, and the lock starves nobody.  The  *)
(* calls of the UI are not obliged to happen.                              *)
Fairness ==
    /\ \A u \in Callers : SF_vars(CallerStep(u))
    /\ \A t \in Tasks : SF_vars(RunnerStep(t))

Spec == Init /\ [][Next]_vars

FairSpec == Spec /\ Fairness

-----------------------------------------------------------------------------
(* The types of the manager's fields and of every goroutine's position.    *)
TypeOK ==
    /\ state \in [Tasks -> States] /\ queue \in Seq(Tasks)
    /\ runningGlobal \in Nat /\ runningSession \in [Sessions -> Nat]
    /\ cancelled \in SUBSET Tasks /\ closed \in BOOLEAN
    /\ mu \in Goroutines \cup {Free}
    /\ pc \in [Goroutines -> CallerPC \cup RunnerPC]
    /\ \A u \in Callers : pc[u] \in CallerPC
    /\ \A t \in Tasks : pc[t] \in RunnerPC
    /\ todo \in [Goroutines -> Seq(Event)]
    /\ committed \in SUBSET Tasks /\ view \in [Tasks -> States]

(* The counters scheduleLocked relies on agree with the tasks that occupy  *)
(* a slot whatever way they end, and the caps hold: at most                *)
(* MaxGlobalConcurrentTransfers in all, MaxSessionConcurrentTransfers each.*)
SlotsExact ==
    /\ runningGlobal = Cardinality(TasksIn(Running))
    /\ \A s \in Sessions :
         runningSession[s] =
           Cardinality({t \in TasksIn(Running) : SessionOf(t) = s})
    /\ runningGlobal <= MaxGlobal
    /\ \A s \in Sessions : runningSession[s] <= MaxSession

(* No task waits beside a free slot: once no goroutine is about to call    *)
(* schedule, nothing in the queue could start.                             *)
WorkConserving ==
    (\A g \in Goroutines : pc[g] \notin {"schedule", "pick"}) => ~CanPick

(* The slots are counted right, and none is left unused.                   *)
SlotsUsed == TypeOK /\ SlotsExact /\ WorkConserving

(* When every event was emitted, the renderer shows the manager's state of *)
(* every task the manager has, in whatever order the events were emitted;  *)
(* only events that Dispose suppresses are missing.                        *)
ViewSettles ==
    (\A g \in Goroutines : todo[g] = <<>>) /\ ~closed =>
      \A t \in Tasks : state[t] = "cleared" \/ view[t] = state[t]

(* After a Dispose that waited for the goroutines, none works on files any *)
(* more and nothing is left queued: a launch Dispose overlooked finds its  *)
(* context cancelled.                                                      *)
DisposedIsQuiet ==
    (\E u \in Callers : pc[u] = "joined") =>
      /\ \A t \in Tasks : pc[t] \notin {"copy", "close", "commit"}
      /\ TasksIn({"queued"}) = {}

(* Every task that is enqueued ends.                                       *)
TasksEnd ==
    \A t \in Tasks : state[t] = "queued" ~> state[t] \in Terminal \cup {"cleared"}

(* A task that was cancelled, or swept by Dispose, while it was copying    *)
(* never replaces its target file, whatever it was doing at that moment.   *)
CancelledNeverCommits ==
    \A t \in Tasks :
      [](t \in cancelled /\ pc[t] \in {"none", "start", "copy"}
           => [](t \notin committed))
=============================================================================
