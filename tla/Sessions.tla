------------------------------ MODULE Sessions ------------------------------
(***************************************************************************)
(* The session manager of src/internal/sessions/sessions.go: connects that *)
(* race with shutdown, the goroutines of a session (two output pumps, the  *)
(* wait pump, callers of Write and Disconnect) that race to end it, and    *)
(* the events the frontend gets.                                           *)
(*                                                                         *)
(* A session is named by its Connect call.  Output is counted in chunks;   *)
(* the batcher is what OutputBatcher promises: Close returns when every    *)
(* chunk it took was shown, Discard when none is going to be.              *)
(***************************************************************************)
EXTENDS Integers, Sequences, FiniteSets

CONSTANTS Sess,         \* Connect calls and the sessions they make (bound)
          MaxOut        \* chunks a remote side writes (bound)

ASSUME MaxOutAssumption == MaxOut \in Nat

Pumps  == {"out", "err"}
Actors == Pumps \cup {"wait", "write", "disconnect"}

VARIABLES
    call,        \* how far Connect is
    inflight, sessions, closing,      \* the manager's maps and gate
    conn,        \* our end of the SSH connection
    remote,      \* the other end: up, exited, or lost
    sent, wire,  \* chunks written by the remote side, and not yet read
    added, shown,                     \* chunks the batcher took and emitted
    batcher,     \* its teardown state
    pc,          \* where each actor is
    once,        \* progress of the endOnce body
    localClose, fault,   \* sessions with localClose set, with a firstFault
    log,         \* error and closed events emitted
    asked,       \* sessions somebody ended locally (history)
    disposer, sweep                   \* DisposeAll

vars == <<call, inflight, sessions, closing, conn, remote, sent, wire, added,
          shown, batcher, pc, once, localClose, fault, log, asked,
          disposer, sweep>>

manager == <<call, inflight, sessions, closing, disposer, sweep>>
link    == <<conn, remote, sent, wire>>
output  == <<added, shown, batcher>>
ending  == <<once, localClose, fault, log, asked>>

-----------------------------------------------------------------------------
(* Connect.                                                                *)

Connect(s) ==
    /\ call[s] = "none"
    /\ call' = [call EXCEPT ![s] = "dialing"]
    /\ inflight' = inflight \cup {s}
    /\ UNCHANGED <<sessions, closing, disposer, sweep, link, output, pc, ending>>

(* Connect returns an error: the dial failed or was cancelled, or the host *)
(* key could not be remembered, in which case the connection is closed.    *)
ConnectFails(s) ==
    /\ call[s] \in {"dialing", "dialed"}
    /\ call' = [call EXCEPT ![s] = "failed"]
    /\ inflight' = inflight \ {s}
    /\ conn' = [conn EXCEPT ![s] = IF @ = "open" THEN "closed" ELSE @]
    /\ UNCHANGED <<sessions, closing, disposer, sweep, remote, sent, wire,
                   output, pc, ending>>

Dialed(s) ==
    /\ call[s] = "dialing"
    /\ call' = [call EXCEPT ![s] = "dialed"]
    /\ conn' = [conn EXCEPT ![s] = "open"]
    /\ UNCHANGED <<inflight, sessions, closing, disposer, sweep, remote, sent,
                   wire, output, pc, ending>>

(* Mutant: the shutdown gate is not tested when a session is registered.   *)
GateIgnored == TRUE

GateOpen == ~closing

Register(s) ==
    /\ call[s] = "dialed" /\ GateOpen
    /\ call' = [call EXCEPT ![s] = "registered"]
    /\ sessions' = sessions \cup {s}
    /\ UNCHANGED <<inflight, closing, disposer, sweep, link, output, pc, ending>>

(* Mutant: Discard lets the worker drain its queue, as Close does.         *)
DrainedLater == "closed"

(* batcher.Discard: what was not emitted never is.                         *)
Dropped == "discarded"

(* Mutant: a rejected connect leaves its connection open.                  *)
KeptOpen(s) == conn[s]

Rejected(s) == "closed"

RegisterRejected(s) ==
    /\ call[s] = "dialed" /\ closing
    /\ call' = [call EXCEPT ![s] = "failed"]
    /\ inflight' = inflight \ {s}
    /\ batcher' = [batcher EXCEPT ![s] = Dropped]
    /\ conn' = [conn EXCEPT ![s] = Rejected(s)]
    /\ UNCHANGED <<sessions, closing, disposer, sweep, remote, sent, wire,
                   added, shown, pc, ending>>

(* The pumps and the wait goroutine start, and Connect returns.            *)
StartPumps(s) ==
    /\ call[s] = "registered"
    /\ call' = [call EXCEPT ![s] = "returned"]
    /\ inflight' = inflight \ {s}
    /\ pc' = [pc EXCEPT ![s] = [a \in Actors |->
                IF a \in Pumps THEN "read" ELSE IF a = "wait" THEN "wait" ELSE pc[s][a]]]
    /\ UNCHANGED <<sessions, closing, disposer, sweep, link, output, ending>>

-----------------------------------------------------------------------------
(* The remote side.                                                        *)

RemoteWrites(s, k) ==
    /\ conn[s] = "open" /\ remote[s] = "up" /\ sent[s] < MaxOut
    /\ sent' = [sent EXCEPT ![s] = @ + 1]
    /\ wire' = [wire EXCEPT ![s][k] = @ + 1]
    /\ UNCHANGED <<manager, conn, remote, output, pc, ending>>

RemoteEnds(s, how) ==
    /\ conn[s] = "open" /\ remote[s] = "up"
    /\ remote' = [remote EXCEPT ![s] = how]
    /\ UNCHANGED <<manager, conn, sent, wire, output, pc, ending>>

-----------------------------------------------------------------------------
(* Actor a of session s goes on at the given place.                        *)

Goto(s, a, at) == pc' = [pc EXCEPT ![s][a] = at]

Broken(s) == remote[s] = "lost" \/ conn[s] = "closed"

(* A pump takes what has arrived, even after the connection is closed.     *)
Read(s, k) ==
    /\ pc[s][k] = "read" /\ wire[s][k] > 0
    /\ wire' = [wire EXCEPT ![s][k] = @ - 1]
    /\ Goto(s, k, "add")
    /\ UNCHANGED <<manager, conn, remote, sent, output, ending>>

(* batcher.Add: nothing is taken once teardown began.                      *)
AddChunk(s, k) ==
    /\ pc[s][k] = "add"
    /\ added' = [added EXCEPT ![s] = IF batcher[s] = "open" THEN @ + 1 ELSE @]
    /\ Goto(s, k, "read")
    /\ UNCHANGED <<manager, link, shown, batcher, ending>>

ReadEOF(s, k) ==
    /\ pc[s][k] = "read" /\ wire[s][k] = 0
    /\ remote[s] # "up" \/ conn[s] = "closed"
    /\ Goto(s, k, "done")
    /\ UNCHANGED <<manager, link, output, ending>>

ReadFails(s, k) ==
    /\ pc[s][k] = "read" /\ Broken(s)
    /\ Goto(s, k, "classify")
    /\ UNCHANGED <<manager, link, output, ending>>

(* conn.Wait returns nil or an exit status when the remote side exited,    *)
(* and a transport error when the connection is gone.                      *)
WaitReturns(s) ==
    /\ pc[s]["wait"] = "wait"
    /\ \/ remote[s] = "exited" /\ Goto(s, "wait", "drain")
       \/ Broken(s) /\ Goto(s, "wait", "drain lost")
    /\ UNCHANGED <<manager, link, output, ending>>

(* Mutant: the wait goroutine does not wait for the pumps.                 *)
NotDrained(s) == TRUE

(* pumps.Wait returned.                                                    *)
Drained(s) == \A k \in Pumps : pc[s][k] = "done"

WaitDrained(s) ==
    /\ Drained(s)
    /\ \/ pc[s]["wait"] = "drain" /\ Goto(s, "wait", "clean")
       \/ pc[s]["wait"] = "drain lost" /\ Goto(s, "wait", "classify")
    /\ UNCHANGED <<manager, link, output, ending>>

Write(s) ==
    /\ pc[s]["write"] = "idle" /\ s \in sessions
    /\ Goto(s, "write", "writing")
    /\ UNCHANGED <<manager, link, output, ending>>

WriteReturns(s) ==
    /\ pc[s]["write"] = "writing"
    /\ \/ Goto(s, "write", "idle")
       \/ Broken(s) /\ Goto(s, "write", "classify")
    /\ UNCHANGED <<manager, link, output, ending>>

Disconnect(s) ==
    /\ pc[s]["disconnect"] = "idle" /\ s \in sessions
    /\ asked' = asked \cup {s}
    /\ Goto(s, "disconnect", "clean")
    /\ UNCHANGED <<manager, link, output, once, localClose, fault, log>>

(* A Write or a Disconnect finds no session: nothing changes.              *)
UnknownSession(s) ==
    /\ s \notin sessions
    /\ UNCHANGED vars

(* classifyEndError of a transport error: a side effect of a local close   *)
(* is silent.  A failed Write that is silent does not end the session.     *)
Classify(s, a) ==
    /\ pc[s][a] = "classify"
    /\ \/ s \notin localClose /\ Goto(s, a, "fault")
       \/ s \in localClose /\ Goto(s, a, IF a = "write" THEN "idle" ELSE "clean")
    /\ UNCHANGED <<manager, link, output, ending>>

(* Mutant: the last error wins, nil included.                              *)
RecordedLast(s, a) == IF pc[s][a] = "fault" THEN fault \cup {s} ELSE fault \ {s}

Recorded(s, a) == IF pc[s][a] = "fault" THEN fault \cup {s} ELSE fault

(* end: recordFault comes before endOnce.Do.                               *)
RecordFault(s, a) ==
    /\ pc[s][a] \in {"clean", "fault"}
    /\ fault' = Recorded(s, a)
    /\ Goto(s, a, "once")
    /\ UNCHANGED <<manager, link, output, once, localClose, log, asked>>

(* Mutant: the body may run again.                                         *)
OnceMore(s) == once[s] \in {"open", "done"}

OnceFree(s) == once[s] = "open"

EnterOnce(s, a) ==
    /\ pc[s][a] = "once" /\ OnceFree(s)
    /\ once' = [once EXCEPT ![s] = "mark"]
    /\ UNCHANGED <<manager, link, output, pc, localClose, fault, log, asked>>

(* endOnce.Do returns to everybody when the body is done.                  *)
EndReturns(s, a) ==
    /\ pc[s][a] = "once" /\ once[s] = "done"
    /\ Goto(s, a, IF a \in Pumps \cup {"wait"} THEN "done" ELSE "idle")
    /\ UNCHANGED <<manager, link, output, ending>>

-----------------------------------------------------------------------------
(* The body of endOnce: finish, or disposeQuiet from "qmark" on.           *)

At(s, here, next) ==
    /\ once[s] = here
    /\ once' = [once EXCEPT ![s] = next]

MarkLocal(s) ==
    /\ At(s, "mark", "close") \/ At(s, "qmark", "discard")
    /\ localClose' = localClose \cup {s}
    /\ UNCHANGED <<manager, link, output, pc, fault, log, asked>>

CloseConn(s) ==
    /\ At(s, "close", "flush") \/ At(s, "qclose", "qunmap")
    /\ conn' = [conn EXCEPT ![s] = "closed"]
    /\ UNCHANGED <<manager, remote, sent, wire, output, pc, localClose,
                   fault, log, asked>>

StartFlush(s) ==
    /\ At(s, "flush", "flushing")
    /\ batcher' = [batcher EXCEPT ![s] = "closed"]
    /\ UNCHANGED <<manager, link, added, shown, pc, localClose, fault, log, asked>>

(* Mutant: Close also waits for the pumps, one of which may be its caller. *)
FlushedAndDrained(s) == shown[s] = added[s] /\ \A k \in Pumps : pc[s][k] = "done"

Flushed(s) == shown[s] = added[s]

EndFlush(s) ==
    /\ Flushed(s) /\ At(s, "flushing", "unmap")
    /\ UNCHANGED <<manager, link, output, pc, localClose, fault, log, asked>>

DiscardOutput(s) ==
    /\ At(s, "discard", "qclose")
    /\ batcher' = [batcher EXCEPT ![s] = Dropped]
    /\ UNCHANGED <<manager, link, added, shown, pc, localClose, fault, log, asked>>

Unmap(s) ==
    /\ At(s, "unmap", "report") \/ At(s, "qunmap", "done")
    /\ sessions' = sessions \ {s}
    /\ UNCHANGED <<call, inflight, closing, disposer, sweep, link, output, pc,
                   localClose, fault, log, asked>>

ReportFault(s) ==
    /\ At(s, "report", "announce")
    /\ log' = [log EXCEPT ![s] = IF s \in fault THEN Append(@, "error") ELSE @]
    /\ UNCHANGED <<manager, link, output, pc, localClose, fault, asked>>

AnnounceClosed(s) ==
    /\ At(s, "announce", "done")
    /\ log' = [log EXCEPT ![s] = Append(@, "closed")]
    /\ UNCHANGED <<manager, link, output, pc, localClose, fault, asked>>

(* Mutant: off by one.                                                     *)
AtOrBehind(s) == shown[s] <= added[s]

Behind(s) == shown[s] < added[s]

(* The batcher's worker emits session:data.                                *)
ShowChunk(s) ==
    /\ batcher[s] # "discarded" /\ Behind(s)
    /\ shown' = [shown EXCEPT ![s] = @ + 1]
    /\ UNCHANGED <<manager, link, added, batcher, pc, ending>>

-----------------------------------------------------------------------------
(* DisposeAll: CancelConnect (the cancelled dials fail), the gate, then    *)
(* every registered session in turn.                                       *)

DisposeAll ==
    /\ disposer = "idle"
    /\ disposer' = "sweeping" /\ closing' = TRUE /\ sweep' = sessions
    /\ asked' = asked \cup sessions
    /\ UNCHANGED <<call, inflight, sessions, link, output, pc, once,
                   localClose, fault, log>>

DisposeOne(s) ==
    /\ disposer = "sweeping" /\ s \in sweep
    /\ \A r \in sweep \ {s} : once[r] \notin {"qmark", "discard", "qclose", "qunmap"}
    /\ At(s, "open", "qmark")
    /\ UNCHANGED <<manager, link, output, pc, localClose, fault, log, asked>>

DisposedOne(s) ==
    /\ disposer = "sweeping" /\ s \in sweep /\ once[s] = "done"
    /\ sweep' = sweep \ {s}
    /\ UNCHANGED <<call, inflight, sessions, closing, disposer, link, output,
                   pc, ending>>

DisposeReturns ==
    /\ disposer = "sweeping" /\ sweep = {}
    /\ disposer' = "returned"
    /\ UNCHANGED <<call, inflight, sessions, closing, sweep, link, output, pc,
                   ending>>

-----------------------------------------------------------------------------
Init ==
    /\ call = [s \in Sess |-> "none"]
    /\ inflight = {} /\ sessions = {} /\ closing = FALSE
    /\ conn = [s \in Sess |-> "none"] /\ remote = [s \in Sess |-> "up"]
    /\ sent = [s \in Sess |-> 0] /\ wire = [s \in Sess |-> [k \in Pumps |-> 0]]
    /\ added = [s \in Sess |-> 0] /\ shown = [s \in Sess |-> 0]
    /\ batcher = [s \in Sess |-> "open"]
    /\ pc = [s \in Sess |-> [a \in Actors |->
              IF a \in {"write", "disconnect"} THEN "idle" ELSE "off"]]
    /\ once = [s \in Sess |-> "open"]
    /\ localClose = {} /\ fault = {}
    /\ log = [s \in Sess |-> <<>>] /\ asked = {}
    /\ disposer = "idle" /\ sweep = {}

ConnectStep(s) == \/ ConnectFails(s) \/ Dialed(s) \/ Register(s)
                  \/ RegisterRejected(s) \/ StartPumps(s)

EndStep(s) == \/ MarkLocal(s) \/ CloseConn(s) \/ StartFlush(s) \/ EndFlush(s)
              \/ DiscardOutput(s) \/ Unmap(s) \/ ReportFault(s) \/ AnnounceClosed(s)

(* What the goroutine of actor a does by itself.                           *)
ActorStep(s, a) ==
    \/ a \in Pumps /\ (Read(s, a) \/ AddChunk(s, a) \/ ReadEOF(s, a) \/ ReadFails(s, a))
    \/ a = "wait" /\ (WaitReturns(s) \/ WaitDrained(s))
    \/ a = "write" /\ WriteReturns(s)
    \/ Classify(s, a) \/ RecordFault(s, a) \/ EnterOnce(s, a) \/ EndReturns(s, a)

DisposeStep == DisposeReturns \/ \E s \in Sess : DisposeOne(s) \/ DisposedOne(s)

Next ==
    \/ \E s \in Sess :
         \/ Connect(s) \/ Write(s) \/ Disconnect(s) \/ UnknownSession(s)
         \/ \E k \in Pumps : RemoteWrites(s, k)
         \/ \E how \in {"exited", "lost"} : RemoteEnds(s, how)
         \/ ConnectStep(s) \/ EndStep(s) \/ ShowChunk(s)
         \/ \E a \in Actors : ActorStep(s, a)
    \/ DisposeAll \/ DisposeStep

(* Every goroutine that can run does; a dial ends by its hard deadline and *)
(* the sink returns.  Users and the remote side need not do anything.      *)
Fairness ==
    /\ \A s \in Sess :
         /\ WF_vars(ConnectStep(s)) /\ WF_vars(EndStep(s)) /\ WF_vars(ShowChunk(s))
         /\ \A a \in Actors : WF_vars(ActorStep(s, a))
    /\ WF_vars(DisposeStep)

Spec == Init /\ [][Next]_vars

FairSpec == Spec /\ Fairness

-----------------------------------------------------------------------------
Emitted(s, e) == \E i \in 1..Len(log[s]) : log[s][i] = e

Spots == {"off", "idle", "read", "add", "wait", "drain", "drain lost",
          "writing", "classify", "clean", "fault", "once", "done"}

ManagerType ==
    /\ call \in [Sess -> {"none", "dialing", "dialed", "registered", "returned", "failed"}]
    /\ inflight \in SUBSET Sess /\ sessions \in SUBSET Sess /\ sweep \in SUBSET Sess
    /\ closing \in BOOLEAN /\ disposer \in {"idle", "sweeping", "returned"}

LinkType ==
    /\ conn \in [Sess -> {"none", "open", "closed"}]
    /\ remote \in [Sess -> {"up", "exited", "lost"}]
    /\ sent \in [Sess -> 0..MaxOut] /\ wire \in [Sess -> [Pumps -> 0..MaxOut]]

OutputType ==
    /\ added \in [Sess -> 0..MaxOut] /\ shown \in [Sess -> 0..MaxOut]
    /\ batcher \in [Sess -> {"open", "closed", "discarded"}]

EndType ==
    /\ once \in [Sess -> {"open", "mark", "close", "flush", "flushing", "unmap",
         "report", "announce", "qmark", "discard", "qclose", "qunmap", "done"}]
    /\ localClose \in SUBSET Sess /\ fault \in SUBSET Sess /\ asked \in SUBSET Sess
    /\ log \in [Sess -> Seq({"error", "closed"})]

(* The types of the manager's and the sessions' fields.                    *)
TypeOK ==
    /\ ManagerType /\ LinkType /\ OutputType /\ EndType
    /\ pc \in [Sess -> [Actors -> Spots]]

(* The frontend hears of the end of a session once, an error before it,    *)
(* and no output after it, whoever ended the session and whatever the      *)
(* other goroutines still do.                                              *)
ClosedIsLast ==
    \A s \in Sess :
      /\ log[s] \in {<<>>, <<"error">>, <<"closed">>, <<"error", "closed">>}
      /\ Emitted(s, "closed") => shown[s] = added[s] /\ batcher[s] # "open"
                                 /\ s \notin sessions /\ conn[s] = "closed"

(* A session whose remote side exited and that nobody ended locally shows  *)
(* all its output before it is announced closed: Wait may return early.    *)
CleanEndShowsAll ==
    \A s \in Sess \ asked :
      Emitted(s, "closed") /\ remote[s] = "exited" => shown[s] = sent[s]

(* A lost connection that nobody ended locally is reported as an error,    *)
(* whichever of the racing goroutines gets to run the end.                 *)
LossIsReported ==
    \A s \in Sess \ asked :
      Emitted(s, "closed") /\ remote[s] = "lost" => Emitted(s, "error")

(* A fault recorded before the end begins surfaces, even if a clean end    *)
(* wins endOnce; only a quiet disposal may silence it.                     *)
FaultSurfaces ==
    \A s \in Sess :
      (s \in fault /\ once[s] = "open") ~> (Emitted(s, "error") \/ once[s] = "qmark")

(* Once DisposeAll returned there is no session, and no connect that was   *)
(* under way adds one.                                                     *)
ShutdownIsFinal == disposer = "returned" => sessions = {}

(* Nothing of a session reaches the frontend once its end has returned:    *)
(* neither the tail its pumps still read nor a late fault.                 *)
EndIsFinal ==
    [][\A s \in Sess : once[s] = "done"
         => log'[s] = log[s] /\ shown'[s] = shown[s]]_vars

(* Shutdown closes every connection, whoever is ending its session: after  *)
(* DisposeAll one is open only for a connect that has yet to meet the gate. *)
ConnsClose ==
    disposer = "returned" =>
      \A s \in Sess : conn[s] = "open" => call[s] = "dialed"

(* The end of the remote side, or a Disconnect, ends the session.          *)
SessionsEnd ==
    \A s \in Sess :
      (s \in sessions /\ (remote[s] # "up" \/ pc[s]["disconnect"] # "idle"))
        ~> once[s] = "done"
=============================================================================
