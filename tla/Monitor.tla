-------------------------------- MODULE Monitor --------------------------------
(***************************************************************************)
(* The monitor service, src/internal/monitor/service.go: one poller at a   *)
(* time samples the active session and emits into a shared stream.  A      *)
(* switch, a disposal and the shutdown detach the poller, cancel it and    *)
(* join its goroutine under the transition lock; the poller checks that it *)
(* is current, under another lock, before each emit but not while it emits.*)
(***************************************************************************)
EXTENDS Naturals, FiniteSets

CONSTANTS Callers,         \* who may call at a time
          Sessions,
          MaxGenerations,  \* pollers started (bound)
          None             \* no session, no poller, nobody

VARIABLES active,     \* the current poller
          monClosed,  \* Service.closed
          trans,      \* who holds the transition lock
          pollers,    \* every poller there was, by generation
          monCall,    \* the call each caller is in
          screen      \* the last event: its generation and what it shows

vars == <<active, monClosed, trans, pollers, monCall, screen>>

Generations == 1 .. MaxGenerations

NotCalling == [op |-> "none", at |-> "idle", session |-> None, poller |-> None]

Poller(s) == [session |-> s, at |-> "gate", open |-> FALSE, cancelled |-> FALSE]

Unused == [session |-> None, at |-> "none", open |-> FALSE, cancelled |-> FALSE]

Started == {g \in Generations : pollers[g].at # "none"}

-----------------------------------------------------------------------------
(* The calls.  Each takes the transition lock and keeps it to the join.    *)

Go(c, at) == monCall' = [monCall EXCEPT ![c].at = at]

End(c) == monCall' = [monCall EXCEPT ![c] = NotCalling]

Begin(c, op, s) ==
    /\ monCall[c].op = "none"
    /\ monCall' = [monCall EXCEPT ![c] = [NotCalling EXCEPT !.op = op, !.at = "lock", !.session = s]]
    /\ UNCHANGED <<active, monClosed, trans, pollers, screen>>

(* Mutant: SetActive does not ask whether the service is closed.           *)
AppliesLate(c) ==
    \/ monCall[c].op \in {"set", "stop"}
    \/ ~monClosed /\ \E g \in {active} \ {None} : pollers[g].session = monCall[c].session

(* SetActive is refused after the shutdown, Dispose for a session that is  *)
(* not the active one.                                                     *)
Applies(c) ==
    CASE monCall[c].op = "set"     -> ~monClosed
      [] monCall[c].op = "dispose" -> ~monClosed /\ active # None
                                      /\ pollers[active].session = monCall[c].session
      [] monCall[c].op = "stop"    -> TRUE

(* beginSwitch and its like: the poller is detached and cancelled.         *)
Detach(c) ==
    /\ monCall[c].at = "lock" /\ trans = None
    /\ monClosed' = (monClosed \/ monCall[c].op = "stop")
    /\ IF Applies(c)
       THEN /\ trans' = c /\ active' = None
            /\ pollers' = IF active = None THEN pollers ELSE [pollers EXCEPT ![active].cancelled = TRUE]
            /\ monCall' = [monCall EXCEPT ![c].at = "join", ![c].poller = active]
       ELSE End(c) /\ UNCHANGED <<trans, active, pollers>>
    /\ UNCHANGED screen

(* Mutant: nobody waits for the goroutine.                                 *)
NotWaited(c) == TRUE

Joined(c) == \A g \in {monCall[c].poller} \ {None} : pollers[g].at = "done"

Fresh == Cardinality(Started) + 1

(* SetActive publishes the new poller parked on its gate, or emits the     *)
(* clear event, before it lets the next transition in.                     *)
Publish(c) ==
    /\ monCall[c].at = "join" /\ Joined(c)
    /\ monCall[c].op = "set" /\ monCall[c].session # None /\ Fresh \in Generations
    /\ active' = Fresh /\ trans' = None
    /\ pollers' = [pollers EXCEPT ![Fresh] = Poller(monCall[c].session)]
    /\ monCall' = [monCall EXCEPT ![c].at = "first", ![c].poller = Fresh]
    /\ UNCHANGED <<monClosed, screen>>

Cleared(c) ==
    /\ monCall[c].at = "join" /\ Joined(c)
    /\ monCall[c].op # "set" \/ monCall[c].session = None
    /\ trans' = None /\ End(c)
    /\ screen' = IF monCall[c].op = "set" THEN [screen EXCEPT !.shows = "nothing"] ELSE screen
    /\ UNCHANGED <<active, monClosed, pollers>>

(* The first event of a generation is an empty one, emitted with no lock   *)
(* held; then the gate opens.                                              *)
First(c) ==
    /\ monCall[c].at = "first"
    /\ screen' = [gen |-> monCall[c].poller, shows |-> "empty"]
    /\ Go(c, "open")
    /\ UNCHANGED <<active, monClosed, trans, pollers>>

OpenGate(c) ==
    /\ monCall[c].at = "open"
    /\ pollers' = [pollers EXCEPT ![monCall[c].poller].open = TRUE]
    /\ End(c)
    /\ UNCHANGED <<active, monClosed, trans, screen>>

Step(c) == Detach(c) \/ Publish(c) \/ Cleared(c) \/ First(c) \/ OpenGate(c)

-----------------------------------------------------------------------------
(* The goroutine of a poller.                                              *)

PollerGoes(g, from, to) ==
    /\ pollers[g].at = from
    /\ pollers' = [pollers EXCEPT ![g].at = to]
    /\ UNCHANGED <<active, monClosed, trans, monCall>>

Gate(g) ==
    /\ pollers[g].open
    /\ PollerGoes(g, "gate", IF pollers[g].cancelled THEN "done" ELSE "tick")
    /\ UNCHANGED screen

Tick(g) == PollerGoes(g, "tick", IF active = g THEN "exec" ELSE "pause") /\ UNCHANGED screen

(* A sample or an error: the command ends by itself, by its timeout, or    *)
(* because it is cancelled.  Either is emitted if the poller is current.   *)
Sampled(g) == PollerGoes(g, "exec", IF active = g THEN "emit" ELSE "pause") /\ UNCHANGED screen

EmitUpdate(g) ==
    /\ PollerGoes(g, "emit", "pause")
    /\ screen' = [gen |-> g, shows |-> "sample"]

(* When both are ready the select takes either.                            *)
NextTick(g) == PollerGoes(g, "pause", "tick") /\ UNCHANGED screen

Leave(g) == pollers[g].cancelled /\ PollerGoes(g, "pause", "done") /\ UNCHANGED screen

Polls(g) == Gate(g) \/ Tick(g) \/ Sampled(g) \/ EmitUpdate(g)

-----------------------------------------------------------------------------
Init ==
    /\ active = None /\ monClosed = FALSE /\ trans = None
    /\ pollers = [g \in Generations |-> Unused]
    /\ monCall = [c \in Callers |-> NotCalling]
    /\ screen = [gen |-> 0, shows |-> "nothing"]

Goes == \/ \E c \in Callers : Step(c)
           \/ \E g \in Generations : Polls(g) \/ NextTick(g) \/ Leave(g)

(* A goroutine that can take a step takes one; a select that is always     *)
(* ready on both sides does not ignore the cancellation for ever.          *)
Fairness ==
    /\ \A c \in Callers : WF_vars(Step(c))
    /\ \A g \in Generations : WF_vars(Polls(g)) /\ SF_vars(Leave(g))

-----------------------------------------------------------------------------
(* Every variable has its type.                                            *)
TypeOK ==
    /\ active \in Generations \cup {None} /\ monClosed \in BOOLEAN
    /\ trans \in Callers \cup {None}
    /\ pollers \in [Generations -> [session: Sessions \cup {None}, open: BOOLEAN, cancelled: BOOLEAN,
                                    at: {"none", "gate", "tick", "exec", "emit", "pause", "done"}]]
    /\ monCall \in [Callers -> [op: {"none", "set", "dispose", "stop"},
                                at: {"idle", "lock", "join", "first", "open"},
                                session: Sessions \cup {None}, poller: Generations \cup {None}]]
    /\ screen \in [gen: Generations \cup {0}, shows: {"nothing", "empty", "sample"}]

(* An event is never older than the one before it, a generation begins     *)
(* with its empty event, and the clear event ends one: the renderer never  *)
(* shows a sample of a session it has switched away from (service.go:83-87,*)
(* 149-158), though the check and the emit of a poller are two steps.      *)
NeverStale ==
    [][screen' # screen =>
         /\ screen'.gen >= screen.gen
         /\ screen'.shows = "sample" => screen'.gen = screen.gen /\ screen.shows # "nothing"]_vars

(* When no transition is under way, one goroutine runs: that of the active *)
(* poller; all others are joined (service.go:99-102).                      *)
OnePoller ==
    trans = None => \A g \in Started : pollers[g].at = "done" \/ g = active
================================================================================
