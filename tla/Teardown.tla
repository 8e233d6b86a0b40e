-------------------------------- MODULE Teardown --------------------------------
(***************************************************************************)
(* The application around the sessions, src/internal/app/app.go: when a    *)
(* session ends, the event sink disposes its SFTP client, its poller and   *)
(* its port forwards before the renderer hears of it; the shutdown stops   *)
(* all of them.  The renderer goes on calling the services meanwhile.      *)
(* The services are Monitor, Tunnel and SftpHandles; each has the ending   *)
(* sessions and the shutdown among its callers.                            *)
(***************************************************************************)
EXTENDS Naturals, FiniteSets

CONSTANTS Users,           \* calls of the renderer at a time (bound)
          Sessions,
          Shutdown,        \* the thread of the OnShutdown hook
          MaxOps,          \* calls of the renderer (bound)
          Ports, MaxForwards, MaxConns,
          MaxGenerations,
          Dirs, Home, MaxHandles, MaxClients,
          None

VARIABLES session,         \* of the session manager: "up", "closed", "gone"
          ending,          \* how far each session's end has come
          quiet,           \* sessions whose end emits no event
          stopping,        \* how far the shutdown has come
          sweep,           \* sessions the shutdown still waits for
          ops,             \* calls of the renderer so far
          late,            \* history: sessions called for while they ended, or after
          active, monClosed, trans, pollers, monCall, screen,
          table, forward, listening, tunClosed, conns, tunCall,
          handles, handle, clientOf, openClients, sftpCall

Callers == Users \cup Sessions \cup {Shutdown}

Mon == INSTANCE Monitor
Tun == INSTANCE Tunnel
Sftp == INSTANCE SftpHandles

ASSUME BoundsAreNat ==
    {MaxOps, MaxGenerations, MaxForwards, MaxConns, MaxHandles, MaxClients} \subseteq Nat

ASSUME NamesApart ==
    /\ Users \cap Sessions = {} /\ Shutdown \notin Users \cup Sessions
    /\ None \notin Callers
    /\ None \notin Mon!Generations \cup Tun!Forwards \cup Sftp!Handles \cup Sftp!Clients

monitor == <<active, monClosed, trans, pollers, monCall, screen>>
tunnels == <<table, forward, listening, tunClosed, conns, tunCall>>
sftp == <<handles, handle, clientOf, openClients, sftpCall>>
life == <<session, ending, quiet, stopping, sweep, ops, late>>
vars == <<life, monitor, tunnels, sftp>>

OnlyLife == UNCHANGED <<monitor, tunnels, sftp>>

-----------------------------------------------------------------------------
(* The services go on by themselves.                                       *)
MonitorGoes == Mon!Goes /\ UNCHANGED <<life, tunnels, sftp>>

TunnelGoes == Tun!Goes /\ UNCHANGED <<life, monitor, sftp>>

SftpGoes == (\E c \in Callers : Sftp!Step(c)) /\ UNCHANGED <<life, monitor, tunnels>>

Idle(c) == monCall[c].op = "none" /\ tunCall[c].op = "none" /\ sftpCall[c].op = "none"

AskMonitor(c, op, s) == Mon!Begin(c, op, s) /\ UNCHANGED <<tunnels, sftp>>

AskTunnels(c, op, s, p) == Tun!Begin(c, op, s, p) /\ UNCHANGED <<monitor, sftp>>

AskSftp(c, op, s, d) == Sftp!Begin(c, op, s, d) /\ UNCHANGED <<monitor, tunnels>>

-----------------------------------------------------------------------------
(* The renderer.  A service is told of a session without asking whether it *)
(* is still there; TunnelsStart asks.                                      *)
Calls(u, s) ==
    \/ AskMonitor(u, "set", s)
    \/ \E p \in Ports : s # None /\ (AskTunnels(u, "start", s, p) \/ AskTunnels(u, "stop", s, p))
    \/ s # None /\ (AskSftp(u, "use", s, None) \/ AskSftp(u, "interrupt", s, None))
    \/ \E d \in Dirs : s # None /\ AskSftp(u, "chdir", s, d)

Call(u) ==
    /\ Idle(u) /\ ops < MaxOps /\ ops' = ops + 1
    /\ \E s \in Sessions \cup {None} :
         /\ Calls(u, s)
         /\ late' = IF s # None /\ session[s] # "up" THEN late \cup {s} ELSE late
    /\ UNCHANGED <<session, ending, quiet, stopping, sweep>>

-----------------------------------------------------------------------------
(* Session.finish: the connection is closed, the session leaves the table, *)
(* and the closed event goes through disposeSink.                          *)
Concerns(s) == \E u \in Users : s \in {monCall[u].session, tunCall[u].session, sftpCall[u].session}

Closes(s, silent) ==
    /\ ending[s] = "no"
    /\ session' = [session EXCEPT ![s] = "closed"]
    /\ ending' = [ending EXCEPT ![s] = "closing"]
    /\ quiet' = IF silent THEN quiet \cup {s} ELSE quiet
    /\ late' = IF Concerns(s) THEN late \cup {s} ELSE late
    /\ UNCHANGED <<stopping, sweep, ops>> /\ OnlyLife

SessionEnds(s) == Closes(s, FALSE)

Removed(s) ==
    /\ ending[s] = "closing"
    /\ session' = [session EXCEPT ![s] = "gone"]
    /\ ending' = [ending EXCEPT ![s] = IF s \in quiet THEN "over" ELSE "sftp"]
    /\ UNCHANGED <<quiet, stopping, sweep, ops, late>> /\ OnlyLife

NextStage(s, stage) ==
    /\ Idle(s) /\ ending' = [ending EXCEPT ![s] = stage]
    /\ UNCHANGED <<session, quiet, stopping, sweep, ops, late>>

DisposeSftp(s) == ending[s] = "sftp" /\ NextStage(s, "monitor") /\ AskSftp(s, "dispose", s, None)

DisposeMonitor(s) == ending[s] = "monitor" /\ NextStage(s, "tunnels") /\ AskMonitor(s, "dispose", s)

(* Mutant: the port forwards are left alone.                               *)
ForgetsTunnels(s) == ending[s] = "tunnels" /\ NextStage(s, "event") /\ OnlyLife

DisposeTunnels(s) ==
    ending[s] = "tunnels" /\ NextStage(s, "event") /\ AskTunnels(s, "dispose", s, None)

ClosedEvent(s) == ending[s] = "event" /\ NextStage(s, "over") /\ OnlyLife

EndGoes(s) == Removed(s) \/ DisposeSftp(s) \/ DisposeMonitor(s) \/ DisposeTunnels(s) \/ ClosedEvent(s)

-----------------------------------------------------------------------------
(* shutdown, after the agent and the transfers (Agent, TransferManager).   *)
ShutdownTo(stage) ==
    /\ Idle(Shutdown) /\ stopping' = stage
    /\ UNCHANGED <<session, ending, quiet, ops, late>>

BeginShutdown == stopping = "no" /\ ShutdownTo("monitor") /\ UNCHANGED sweep /\ OnlyLife

StopMonitor ==
    stopping = "monitor" /\ ShutdownTo("tunnels") /\ UNCHANGED sweep /\ AskMonitor(Shutdown, "stop", None)

StopTunnels ==
    stopping = "tunnels" /\ ShutdownTo("sessions") /\ UNCHANGED sweep /\ AskTunnels(Shutdown, "all", None, None)

(* sessions.DisposeAll looks once at the table, which a session leaves     *)
(* before the events of its end.                                           *)
TakeSessions ==
    /\ stopping = "sessions" /\ ShutdownTo("sweep") /\ OnlyLife
    /\ sweep' = {s \in Sessions : session[s] # "gone"}

(* It ends those it saw one by one, and waits for an end that is under way *)
(* with what it disposes of and its events.                                *)
StopSession(s) ==
    /\ stopping = "sweep" /\ s \in sweep /\ \A r \in quiet : ending[r] = "over"
    /\ Closes(s, TRUE)

SessionsStopped ==
    /\ stopping = "sweep" /\ \A s \in sweep : ending[s] = "over"
    /\ ShutdownTo("sftp") /\ sweep' = {} /\ OnlyLife

StopSftp ==
    stopping = "sftp" /\ ShutdownTo("last") /\ UNCHANGED sweep /\ AskSftp(Shutdown, "all", None, None)

ShutdownDone == stopping = "last" /\ ShutdownTo("over") /\ UNCHANGED sweep /\ OnlyLife

ShutdownGoes == StopMonitor \/ StopTunnels \/ TakeSessions \/ (\E s \in Sessions : StopSession(s))
                \/ SessionsStopped \/ StopSftp \/ ShutdownDone

-----------------------------------------------------------------------------
Init ==
    /\ session = [s \in Sessions |-> "up"] /\ ending = [s \in Sessions |-> "no"]
    /\ quiet = {} /\ stopping = "no" /\ sweep = {} /\ ops = 0 /\ late = {}
    /\ Mon!Init /\ Tun!Init /\ Sftp!Init

Next ==
    \/ MonitorGoes \/ TunnelGoes \/ SftpGoes
    \/ \E u \in Users : Call(u)
    \/ \E s \in Sessions : SessionEnds(s) \/ EndGoes(s)
    \/ BeginShutdown \/ ShutdownGoes

Spec == Init /\ [][Next]_vars

(* An end and a shutdown that have begun go on; whether they begin, and    *)
(* whether the renderer calls, is open.                                    *)
FairSpec == /\ Spec /\ Mon!Fairness /\ Tun!Fairness /\ Sftp!Fairness
            /\ \A s \in Sessions : WF_vars(EndGoes(s))
            /\ WF_vars(ShutdownGoes)

-----------------------------------------------------------------------------
(* Every variable has its type, those of the services included.            *)
TypeOK ==
    /\ session \in [Sessions -> {"up", "closed", "gone"}]
    /\ ending \in [Sessions -> {"no", "closing", "sftp", "monitor", "tunnels", "event", "over"}]
    /\ quiet \subseteq Sessions /\ late \subseteq Sessions /\ sweep \subseteq Sessions
    /\ ops \in 0 .. MaxOps
    /\ stopping \in {"no", "monitor", "tunnels", "sessions", "sweep", "sftp", "last", "over"}
    /\ Mon!TypeOK /\ Tun!TypeOK /\ Sftp!TypeOK

(* See Monitor, Tunnel and SftpHandles.                                    *)
NeverStale == Mon!NeverStale

OwnersKnown == Mon!OnePoller /\ Tun!ListenersOwned /\ Sftp!ClientsOwned

Over(s) == ending[s] = "over" /\ s \notin quiet

Polled(s) == active # None /\ pollers[active].session = s

(* Once the renderer hears that a session has ended, there is no poller,   *)
(* no listening port and no SFTP handle of it (app.go:243-249), but for    *)
(* what a call of the renderer left that overlapped the end or came after  *)
(* it: a poller that fails, a port that leads nowhere, an empty handle.    *)
(* No such call leaves an SFTP client: each is closed, or a call or the    *)
(* shutdown, which took it first, is about to close it.                    *)
NothingLeft ==
    \A s \in Sessions :
      Over(s) =>
        /\ s \in late \/ (~Polled(s) /\ Tun!Of(s) = {} /\ handles[s] = None)
        /\ \A k \in openClients : clientOf[k] = s => Sftp!BeingClosed(k)

(* Whatever there is belongs to somebody who will close it, and nothing of *)
(* a session outlives it that its end could see.                           *)
EndsClean == TypeOK /\ OwnersKnown /\ NothingLeft

(* After the shutdown no session is connected, no poller and no port       *)
(* forward is left or comes to be, and no sample is shown, whatever the    *)
(* renderer still calls (app.go:390-393).  Only the end of a session that  *)
(* had left the table before the shutdown looked at it may still go on,    *)
(* and emit its closed event (sessions.go:446-455, 589-596).               *)
ShutdownIsFinal ==
    [][stopping = "over" =>
         /\ screen' = screen /\ table' = {} /\ active' = None
         /\ \A g \in Mon!Started : pollers[g].at = "done"
         /\ \A s \in Sessions : session[s] = "gone"]_vars

(* The end of a session and the shutdown come to their end, though they    *)
(* join goroutines and wait for locks that calls of the renderer hold, and *)
(* for each other; and the connections forwarded for the session close.    *)
Settled ==
    /\ \A s \in Sessions : ending[s] \in {"no", "over"}
    /\ stopping \in {"no", "over"}
    /\ \A k \in Tun!Conns : conns[k].at \in {"dial", "copy", "half"} =>
                              ending[forward[conns[k].of].session] = "no"

TeardownEnds == []<>Settled
=================================================================================
