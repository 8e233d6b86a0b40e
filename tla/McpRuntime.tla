------------------------------ MODULE McpRuntime ------------------------------
(***************************************************************************)
(* The session table of the --mcp process, src/internal/mcpcli/runtime.go: *)
(* slot reservations, tombstones of sessions that close before they are    *)
(* recorded, the idle reaper, and disposal, over a session manager that    *)
(* ends a session once and reports it with session:closed.  The i-th call  *)
(* of ConnectHost opens session i; ids are never reused, and 0 is none.    *)
(***************************************************************************)
EXTENDS Integers, FiniteSets

CONSTANTS MaxConnects,   \* calls of ConnectHost (bound)
          MaxSess,       \* the session limit of the settings
          MaxOps         \* tool operations at a time on one session (bound)

ASSUME LimitsAssumption == MaxConnects \in Nat /\ MaxSess \in Nat \ {0} /\ MaxOps \in Nat

Ids == 1..MaxConnects

VARIABLES
    closed,                      \* Runtime.closed
    meta, busy, reaping, idle,   \* Runtime.meta; busyCount, reaping, lastUsed
    pending,                     \* Runtime.pending
    tombstones, localClosing,    \* Runtime.tombstones and localClosing
    pc,                          \* the ConnectHost call of each session
    down,                        \* its local teardown
    ops,                         \* operations in flight (history)
    life, mgrClosing,            \* the manager's side of the session
    reaper, toReap, reapAt,      \* the reap loop
    quit, toEnd, endAt           \* DisposeAll

table == <<closed, meta, busy, reaping, idle, pending, tombstones, localClosing>>
mgr   == <<life, mgrClosing>>
loop  == <<reaper, toReap, reapAt>>
final == <<quit, toEnd, endAt>>
vars  == <<table, pc, down, ops, mgr, loop, final>>

-----------------------------------------------------------------------------
(* ConnectHost.                                                            *)

(* Mutant: connects in flight are not counted.                             *)
MetaOnly == Cardinality(meta)

Booked == Cardinality(meta) + pending

Reserve(i) ==
    /\ pc[i] = "idle" /\ ~closed /\ Booked < MaxSess
    /\ pending' = pending + 1
    /\ pc' = [pc EXCEPT ![i] = "connecting"]
    /\ UNCHANGED <<closed, meta, busy, reaping, idle, tombstones, localClosing,
                   down, ops, mgr, loop, final>>

Release == pending' = IF pending > 0 THEN pending - 1 ELSE pending

ConnectFails(i) ==
    /\ pc[i] = "connecting" /\ life[i] = "none"
    /\ Release
    /\ pc' = [pc EXCEPT ![i] = "over"]
    /\ UNCHANGED <<closed, meta, busy, reaping, idle, tombstones, localClosing,
                   down, ops, mgr, loop, final>>

(* Mutant: a session that is closed already is recorded all the same.      *)
OnlyShutdown(i) == closed

TooLate(i) == closed \/ i \in tombstones

(* The manager has connected; the metadata is inserted, or the session is  *)
(* one to discard.                                                         *)
Insert(i) ==
    /\ pc[i] = "connecting" /\ life[i] # "none" /\ ~TooLate(i)
    /\ meta' = meta \cup {i} /\ pending' = pending - 1
    /\ pc' = [pc EXCEPT ![i] = "over"]
    /\ UNCHANGED <<closed, busy, reaping, idle, tombstones, localClosing,
                   down, ops, mgr, loop, final>>

Discard(i) ==
    /\ pc[i] = "connecting" /\ life[i] # "none" /\ TooLate(i)
    /\ tombstones' = IF closed THEN tombstones ELSE tombstones \ {i}
    /\ pc' = [pc EXCEPT ![i] = "discarding"]
    /\ UNCHANGED <<closed, meta, busy, reaping, idle, pending, localClosing,
                   down, ops, mgr, loop, final>>

(* discardLateConnect marks the session before it disconnects it ...       *)
MarkLate(i) ==
    /\ pc[i] = "discarding" /\ down[i] = "no"
    /\ localClosing' = localClosing \cup {i}
    /\ down' = [down EXCEPT ![i] = "marked"]
    /\ UNCHANGED <<closed, meta, busy, reaping, idle, pending, tombstones,
                   pc, ops, mgr, loop, final>>

(* ... and the slot is given back after that.                              *)
Discarded(i) ==
    /\ pc[i] = "discarding" /\ down[i] = "done"
    /\ Release
    /\ pc' = [pc EXCEPT ![i] = "over"]
    /\ UNCHANGED <<closed, meta, busy, reaping, idle, tombstones, localClosing,
                   down, ops, mgr, loop, final>>

ConnectStep(i) == Insert(i) \/ Discard(i) \/ MarkLate(i) \/ Discarded(i)

-----------------------------------------------------------------------------
(* disconnectSession: the metadata goes, the mark is set, and then the     *)
(* manager disconnects without any lock.                                   *)
Drop(i) ==
    /\ meta' = meta \ {i} /\ idle' = idle \ {i} /\ reaping' = reaping \ {i}
    /\ busy' = [busy EXCEPT ![i] = 0]

StartDown(i) ==
    /\ i \in meta /\ Drop(i)
    /\ localClosing' = localClosing \cup {i}
    /\ down' = [down EXCEPT ![i] = "marked"]
    /\ UNCHANGED <<closed, pending, tombstones, pc, ops, mgr>>

(* The disconnect tool.                                                    *)
DisconnectSession(i) == StartDown(i) /\ UNCHANGED <<loop, final>>

(* Manager.Disconnect: nothing to do for a session the manager no longer   *)
(* has; otherwise this call ends the session, or waits for who does.       *)
HangUp(i) ==
    /\ down[i] = "marked"
    /\ IF life[i] \in {"up", "ending"}
         THEN /\ down' = [down EXCEPT ![i] = "hanging"]
              /\ life' = [life EXCEPT ![i] = "ending"]
         ELSE /\ down' = [down EXCEPT ![i] = "unmark"]
              /\ life' = life
    /\ UNCHANGED <<table, pc, ops, mgrClosing, loop, final>>

HungUp(i) ==
    /\ down[i] = "hanging" /\ life[i] = "gone"
    /\ down' = [down EXCEPT ![i] = "unmark"]
    /\ UNCHANGED <<table, pc, ops, mgr, loop, final>>

Unmark(i) ==
    /\ down[i] = "unmark"
    /\ localClosing' = localClosing \ {i}
    /\ down' = [down EXCEPT ![i] = "done"]
    /\ UNCHANGED <<closed, meta, busy, reaping, idle, pending, tombstones,
                   pc, ops, mgr, loop, final>>

DownStep(i) == HangUp(i) \/ HungUp(i) \/ Unmark(i)

-----------------------------------------------------------------------------
(* The session manager.                                                    *)

(* Connect registers the session; its pumps run from here on.              *)
Registers(i) ==
    /\ pc[i] = "connecting" /\ life[i] = "none" /\ ~mgrClosing
    /\ life' = [life EXCEPT ![i] = "up"]
    /\ UNCHANGED <<table, pc, down, ops, mgrClosing, loop, final>>

RemoteEnds(i) ==
    /\ life[i] = "up"
    /\ life' = [life EXCEPT ![i] = "ending"]
    /\ UNCHANGED <<table, pc, down, ops, mgrClosing, loop, final>>

(* finish takes the session out of the manager's map before it tells.      *)
Unmaps(i) ==
    /\ life[i] = "ending"
    /\ life' = [life EXCEPT ![i] = "unmapped"]
    /\ UNCHANGED <<table, pc, down, ops, mgrClosing, loop, final>>

(* session:closed, and the runtime's onClosed.                             *)
Closed(i) ==
    /\ life[i] = "unmapped"
    /\ life' = [life EXCEPT ![i] = "gone"]
    /\ localClosing' = localClosing \ {i}
    /\ Drop(i)
    /\ tombstones' = IF i \in meta \cup localClosing THEN tombstones
                                                     ELSE tombstones \cup {i}
    /\ UNCHANGED <<closed, pending, pc, down, ops, mgrClosing, loop, final>>

(* shutdownMCP disposes the manager first: its sessions end without events.*)
ManagerDisposeAll ==
    /\ quit = "no" /\ ~mgrClosing
    /\ mgrClosing' = TRUE
    /\ life' = [i \in Ids |-> IF life[i] = "up" THEN "gone" ELSE life[i]]
    /\ UNCHANGED <<table, pc, down, ops, loop, final>>

-----------------------------------------------------------------------------
(* Tool operations.                                                        *)

(* Mutant: an operation starts on a session the reaper has chosen.         *)
AnyRecorded == meta

Open == meta \ reaping

begin(i) ==
    /\ i \in Open /\ ops[i] < MaxOps
    /\ busy' = [busy EXCEPT ![i] = @ + 1] /\ idle' = idle \ {i}
    /\ ops' = [ops EXCEPT ![i] = @ + 1]
    /\ UNCHANGED <<closed, meta, reaping, pending, tombstones, localClosing,
                   pc, down, mgr, loop, final>>

EndOp(i) ==
    IF i \in meta THEN busy' = [busy EXCEPT ![i] = @ - 1] /\ idle' = idle \ {i}
                  ELSE UNCHANGED <<busy, idle>>

done(i) ==
    /\ ops[i] > 0
    /\ ops' = [ops EXCEPT ![i] = @ - 1]
    /\ EndOp(i)
    /\ UNCHANGED <<closed, meta, reaping, pending, tombstones, localClosing,
                   pc, down, mgr, loop, final>>

(* The idle timeout passes since the session was last used.                *)
GoesIdle(i) ==
    /\ i \in meta \ idle
    /\ idle' = idle \cup {i}
    /\ UNCHANGED <<closed, meta, busy, reaping, pending, tombstones, localClosing,
                   pc, down, ops, mgr, loop, final>>

-----------------------------------------------------------------------------
(* The reap loop.                                                          *)

StartReaper ==
    /\ reaper = "none" /\ ~closed
    /\ reaper' = "waiting"
    /\ UNCHANGED <<table, pc, down, ops, mgr, toReap, reapAt, final>>

Idlers == {i \in (meta \cap idle) \ reaping : busy[i] = 0}

Reap ==
    /\ reaper = "waiting" /\ Idlers # {}
    /\ reaping' = reaping \cup Idlers
    /\ reaper' = "reaping" /\ toReap' = Idlers
    /\ UNCHANGED <<closed, meta, busy, idle, pending, tombstones, localClosing,
                   pc, down, ops, mgr, reapAt, final>>

(* One after another; a session that is gone meanwhile is skipped.         *)
ReapNext(i) ==
    /\ reaper = "reaping" /\ reapAt = 0 /\ i \in toReap
    /\ toReap' = toReap \ {i}
    /\ IF i \in meta
         THEN StartDown(i) /\ reapAt' = i
         ELSE UNCHANGED <<table, pc, down, ops, mgr, reapAt>>
    /\ UNCHANGED <<reaper, final>>

Reaped ==
    /\ reaper = "reaping" /\ reapAt # 0 /\ down[reapAt] = "done"
    /\ reapAt' = 0
    /\ UNCHANGED <<table, pc, down, ops, mgr, reaper, toReap, final>>

ReapEnds ==
    /\ reaper = "reaping" /\ reapAt = 0 /\ toReap = {}
    /\ reaper' = "waiting"
    /\ UNCHANGED <<table, pc, down, ops, mgr, toReap, reapAt, final>>

ReaperStops ==
    /\ reaper = "waiting" /\ quit # "no"
    /\ reaper' = "stopped"
    /\ UNCHANGED <<table, pc, down, ops, mgr, toReap, reapAt, final>>

(* Rounds that find nobody to reap change nothing, and need not happen.    *)
ReaperStep == Reap \/ Reaped \/ ReapEnds \/ ReaperStops \/ \E i \in Ids : ReapNext(i)

-----------------------------------------------------------------------------
(* DisposeAll: the gate and the snapshot, the reaper joined, and then the  *)
(* sessions one after another.                                             *)

(* Mutant: the gate stays open.                                            *)
GateOpen == FALSE

Gate == TRUE

DisposeAll ==
    /\ quit = "no"
    /\ closed' = Gate
    /\ quit' = "joining" /\ toEnd' = meta
    /\ UNCHANGED <<meta, busy, reaping, idle, pending, tombstones, localClosing,
                   pc, down, ops, mgr, loop, endAt>>

ReaperJoined ==
    /\ quit = "joining" /\ reaper \in {"none", "stopped"}
    /\ quit' = "ending"
    /\ UNCHANGED <<table, pc, down, ops, mgr, loop, toEnd, endAt>>

EndNext(i) ==
    /\ quit = "ending" /\ endAt = 0 /\ i \in toEnd
    /\ toEnd' = toEnd \ {i}
    /\ IF i \in meta
         THEN StartDown(i) /\ endAt' = i
         ELSE UNCHANGED <<table, pc, down, ops, mgr, endAt>>
    /\ UNCHANGED <<loop, quit>>

Ended ==
    /\ quit = "ending" /\ endAt # 0 /\ down[endAt] = "done"
    /\ endAt' = 0
    /\ UNCHANGED <<table, pc, down, ops, mgr, loop, quit, toEnd>>

Returns ==
    /\ quit = "ending" /\ endAt = 0 /\ toEnd = {}
    /\ quit' = "returned"
    /\ UNCHANGED <<table, pc, down, ops, mgr, loop, toEnd, endAt>>

QuitStep == ReaperJoined \/ Ended \/ Returns \/ \E i \in Ids : EndNext(i)

-----------------------------------------------------------------------------
Init ==
    /\ closed = FALSE /\ meta = {} /\ busy = [i \in Ids |-> 0]
    /\ reaping = {} /\ idle = {} /\ pending = 0
    /\ tombstones = {} /\ localClosing = {}
    /\ pc = [i \in Ids |-> "idle"] /\ down = [i \in Ids |-> "no"]
    /\ ops = [i \in Ids |-> 0]
    /\ life = [i \in Ids |-> "none"] /\ mgrClosing = FALSE
    /\ reaper = "none" /\ toReap = {} /\ reapAt = 0
    /\ quit = "no" /\ toEnd = {} /\ endAt = 0

ManagerStep(i) == Unmaps(i) \/ Closed(i)

Next ==
    \/ \E i \in Ids :
         \/ Reserve(i) \/ ConnectFails(i) \/ Registers(i) \/ ConnectStep(i)
         \/ DisconnectSession(i) \/ DownStep(i) \/ RemoteEnds(i) \/ ManagerStep(i)
         \/ begin(i) \/ done(i) \/ GoesIdle(i)
    \/ ManagerDisposeAll \/ StartReaper \/ ReaperStep \/ DisposeAll \/ QuitStep

Spec == Init /\ [][Next]_vars

(* Goroutines run, and a dial ends by its deadline.  Nobody need call, and *)
(* neither a remote end nor a tool operation need come to its end.         *)
Fairness ==
    /\ \A i \in Ids : /\ WF_vars(ConnectFails(i) \/ Registers(i))
                      /\ WF_vars(ConnectStep(i)) /\ WF_vars(DownStep(i))
                      /\ WF_vars(ManagerStep(i))
    /\ WF_vars(ReaperStep) /\ WF_vars(QuitStep)

FairSpec == Spec /\ Fairness

-----------------------------------------------------------------------------
(* The types of the fields; both loops tear down one session at a time.    *)
TypeOK ==
    /\ closed \in BOOLEAN /\ mgrClosing \in BOOLEAN
    /\ meta \subseteq Ids /\ busy \in [Ids -> 0..MaxOps]
    /\ reaping \subseteq meta /\ idle \subseteq meta /\ pending \in 0..MaxSess
    /\ tombstones \subseteq Ids /\ localClosing \subseteq Ids
    /\ pc \in [Ids -> {"idle", "connecting", "discarding", "over"}]
    /\ down \in [Ids -> {"no", "marked", "hanging", "unmark", "done"}]
    /\ ops \in [Ids -> 0..MaxOps]
    /\ life \in [Ids -> {"none", "up", "ending", "unmapped", "gone"}]
    /\ reaper \in {"none", "waiting", "reaping", "stopped"}
    /\ toReap \subseteq Ids /\ reapAt \in Ids \cup {0}
    /\ quit \in {"no", "joining", "ending", "returned"}
    /\ toEnd \subseteq Ids /\ endAt \in Ids \cup {0}

(* Each call of ConnectHost that is under way holds exactly one slot, and  *)
(* sessions and slots together never exceed the limit of the settings.     *)
SlotsExact ==
    /\ pending = Cardinality({i \in Ids : pc[i] \in {"connecting", "discarding"}})
    /\ Booked <= MaxSess

(* No session the reaper has chosen has a tool operation in flight, not    *)
(* even one that started after the choice.                                 *)
ReaperSpares == \A i \in reaping : ops[i] = 0

(* The table and the manager agree: no session stays recorded once its end *)
(* has been told, and no live connection is without a record, or a call    *)
(* that is about to record or to close it.                                 *)
TableIsLive ==
    \A i \in Ids :
      /\ i \in meta /\ life[i] \in {"none", "gone"} => mgrClosing
      /\ life[i] = "up" => i \in meta \/ pc[i] # "over" \/ down[i] = "marked"

(* The table counts what there is, and there is what it records.           *)
TableSound == TypeOK /\ SlotsExact /\ TableIsLive

(* After DisposeAll no connection stays open, whatever was under way: a    *)
(* connect, a reap or a disconnect.                                        *)
NothingSurvives == quit # "no" ~> [](\A i \in Ids : life[i] \in {"none", "gone"})
===============================================================================
