--------------------------------- MODULE Tunnel ---------------------------------
(***************************************************************************)
(* The local port forwards, src/internal/tunnel/service.go.  Start looks   *)
(* whether the session is there and whether it forwards that port already, *)
(* listens without a lock, and inserts the forward; meanwhile the session  *)
(* may end, another Start may do the same, and the service may be disposed.*)
(* Each accepted connection has a goroutine of its own.                    *)
(***************************************************************************)
EXTENDS Naturals, FiniteSets

CONSTANTS Callers,      \* who may call at a time
          Sessions,
          Ports,        \* remote addresses
          MaxForwards,  \* listeners opened (bound)
          MaxConns,     \* connections accepted (bound)
          None

VARIABLES session,      \* of the session manager: "up", "closed", "gone"
          table,        \* the forwards in Service.tunnels
          forward,      \* every forward there was
          listening,    \* those whose listener is open
          tunClosed,    \* Service.closed
          conns,        \* the accepted connections
          tunCall       \* the call each caller is in

vars == <<table, forward, listening, tunClosed, conns, tunCall>>

Forwards == 1 .. MaxForwards

Conns == 1 .. MaxConns

Resting == [op |-> "none", at |-> "idle", session |-> None, port |-> None, own |-> None, closing |-> {}]

(* The session manager's table has it until the session is gone, but its   *)
(* connection is closed before.                                            *)
CanDial(s) == session[s] # "gone"

DialWorks(s) == session[s] = "up"

Of(s) == {n \in table : forward[n].session = s}

Opened == {n \in Forwards : forward[n].session # None}

-----------------------------------------------------------------------------
(* The calls.                                                              *)

Go(c, at) == tunCall' = [tunCall EXCEPT ![c].at = at]

End(c) == tunCall' = [tunCall EXCEPT ![c] = Resting]

(* Start asks the session manager first; the others take the lock at once. *)
Begin(c, op, s, p) ==
    /\ tunCall[c].op = "none"
    /\ op = "start" => CanDial(s)
    /\ tunCall' = [tunCall EXCEPT ![c] = [Resting EXCEPT !.op = op, !.at = "lock", !.session = s, !.port = p]]
    /\ UNCHANGED <<table, forward, listening, tunClosed, conns>>

Equal(c) == {n \in Of(tunCall[c].session) : forward[n].port = tunCall[c].port}

(* Under the lock: a closed service refuses, an equal forward is returned. *)
Look(c) ==
    /\ tunCall[c].op = "start" /\ tunCall[c].at = "lock"
    /\ IF tunClosed \/ Equal(c) # {} THEN End(c) ELSE Go(c, "listen")
    /\ UNCHANGED <<table, forward, listening, tunClosed, conns>>

(* net.Listen on the same port or any other; both may fail.                *)
Listen(c) ==
    /\ tunCall[c].at = "listen"
    /\ \/ \E n \in Forwards \ Opened :
            /\ \A m \in Forwards \ Opened : n <= m
            /\ forward' = [forward EXCEPT ![n] = [session |-> tunCall[c].session, port |-> tunCall[c].port]]
            /\ listening' = listening \cup {n}
            /\ tunCall' = [tunCall EXCEPT ![c].at = "insert", ![c].own = n]
       \/ End(c) /\ UNCHANGED <<forward, listening>>
    /\ UNCHANGED <<table, tunClosed, conns>>

(* A service closed meanwhile has the listener closed again.               *)
Insert(c) ==
    /\ tunCall[c].at = "insert"
    /\ IF tunClosed
       THEN tunCall' = [tunCall EXCEPT ![c].at = "close", ![c].closing = {tunCall[c].own}]
            /\ UNCHANGED table
       ELSE table' = table \cup {tunCall[c].own} /\ End(c)
    /\ UNCHANGED <<forward, listening, tunClosed, conns>>

(* What Stop, Dispose and DisposeAll take out of the table: Stop takes the *)
(* forward it names, if it is there, and no other that racing calls of     *)
(* Start made for the same port.                                           *)
Taken(c, some) ==
    \/ tunCall[c].op = "stop" /\ some \subseteq Equal(c) /\ Cardinality(some) <= 1
    \/ tunCall[c].op = "dispose" /\ some = Of(tunCall[c].session)
    \/ tunCall[c].op = "all" /\ some = table

TakeOut(c) ==
    /\ tunCall[c].op \in {"stop", "dispose", "all"} /\ tunCall[c].at = "lock"
    /\ \E some \in SUBSET table :
         /\ Taken(c, some)
         /\ tunCall' = [tunCall EXCEPT ![c].at = "close", ![c].closing = some]
         /\ table' = table \ some
    /\ tunClosed' = (tunClosed \/ tunCall[c].op = "all")
    /\ UNCHANGED <<forward, listening, conns>>

(* The listeners are closed one by one, outside the lock.                  *)
CloseNext(c) ==
    /\ tunCall[c].at = "close"
    /\ IF tunCall[c].closing = {} THEN End(c) /\ UNCHANGED listening
       ELSE \E n \in tunCall[c].closing :
              /\ listening' = listening \ {n}
              /\ tunCall' = [tunCall EXCEPT ![c].closing = @ \ {n}]
    /\ UNCHANGED <<table, forward, tunClosed, conns>>

Step(c) == Look(c) \/ Listen(c) \/ Insert(c) \/ TakeOut(c) \/ CloseNext(c)

-----------------------------------------------------------------------------
(* acceptLoop and forward.                                                 *)

Accept(n) ==
    /\ n \in listening
    /\ \E k \in Conns : /\ conns[k].at = "none" /\ \A j \in Conns : conns[j].at = "none" => k <= j
                        /\ conns' = [conns EXCEPT ![k] = [at |-> "dial", of |-> n]]
    /\ UNCHANGED <<table, forward, listening, tunClosed, tunCall>>

Connects(k, from, to) ==
    /\ conns[k].at = from /\ conns' = [conns EXCEPT ![k].at = to]
    /\ UNCHANGED <<table, forward, listening, tunClosed, tunCall>>

(* The channel is opened over the session, or the local end is closed.     *)
Dial(k) == Connects(k, "dial", "copy") /\ DialWorks(forward[conns[k].of].session)

DialFails(k) == Connects(k, "dial", "over")

(* Either side ends the copy, and the session's connection ends it for     *)
(* both; the forward may be stopped meanwhile.                             *)
HangUp(k) == Connects(k, "copy", "half")

CutOff(k) == Connects(k, "copy", "half") /\ ~DialWorks(forward[conns[k].of].session)

CopyEnds(k) == Connects(k, "half", "over")

Init ==
    /\ table = {} /\ listening = {} /\ tunClosed = FALSE
    /\ forward = [n \in Forwards |-> [session |-> None, port |-> None]]
    /\ conns = [k \in Conns |-> [at |-> "none", of |-> None]]
    /\ tunCall = [c \in Callers |-> Resting]

Goes ==
    \/ \E c \in Callers : Step(c)
    \/ \E n \in Forwards : Accept(n)
    \/ \E k \in Conns : Dial(k) \/ DialFails(k) \/ HangUp(k) \/ CutOff(k) \/ CopyEnds(k)

Fairness ==
    /\ \A c \in Callers : WF_vars(Step(c))
    /\ \A k \in Conns : WF_vars(Dial(k) \/ DialFails(k) \/ CutOff(k) \/ CopyEnds(k))

-----------------------------------------------------------------------------
(* Every variable has its type.                                            *)
TypeOK ==
    /\ table \subseteq Opened /\ listening \subseteq Opened /\ tunClosed \in BOOLEAN
    /\ forward \in [Forwards -> [session: Sessions \cup {None}, port: Ports \cup {None}]]
    /\ conns \in [Conns -> [at: {"none", "dial", "copy", "half", "over"}, of: Forwards \cup {None}]]
    /\ tunCall \in [Callers -> [op: {"none", "start", "stop", "dispose", "all"},
                                at: {"idle", "lock", "listen", "insert", "close"},
                                session: Sessions \cup {None}, port: Ports \cup {None},
                                own: Forwards \cup {None}, closing: SUBSET Forwards]]

(* A listener is open exactly while a call or the table knows of it: none  *)
(* is left that Stop, Dispose and DisposeAll cannot find, none in the      *)
(* table is closed, and a service that was disposed has none in its table  *)
(* (service.go:184-192, 267-280).                                          *)
ListenersOwned ==
    /\ table \subseteq listening
    /\ \A n \in listening \ table :
         \E c \in Callers : n \in tunCall[c].closing \/ (tunCall[c].at = "insert" /\ tunCall[c].own = n)
    /\ tunClosed => table = {}
=================================================================================
