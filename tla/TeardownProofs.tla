---------------------------- MODULE TeardownProofs ----------------------------
(***************************************************************************)
(* Theorems about Teardown: every poller, listener and SFTP client has an  *)
(* owner; a session that has ended leaves nothing behind that its end      *)
(* could see, and no SFTP client at all; the renderer never sees a sample  *)
(* that is older than what it shows; the panel of a session moves by a     *)
(* Chdir only; and after the shutdown no session, poller or port forward   *)
(* is left.  They hold for any number of sessions, calls, ports, pollers,  *)
(* listeners and clients.  The invariant has a part for each service,      *)
(* which the service keeps by itself, a part for what the ends of the      *)
(* sessions and the shutdown have done so far, and, resting on these, one  *)
(* for the clients of sessions that have ended.                            *)
(***************************************************************************)
EXTENDS Teardown, FiniteSetTheorems, TLAPS

-----------------------------------------------------------------------------
(* The monitor.                                                            *)

(* The transition lock is held from the detachment to the end of the join, *)
(* and there is no current poller meanwhile.                               *)
TransHeld ==
    /\ \A c \in Callers : monCall[c].at = "join" <=> trans = c
    /\ trans # None => active = None

MonCallsSound ==
    \A c \in Callers : /\ monCall[c].op = "none" <=> monCall[c].at = "idle"
                       /\ monCall[c].at \in {"first", "open"} => monCall[c].poller \in Mon!Started

Joining(g) == \E c \in Callers : monCall[c].at = "join" /\ monCall[c].poller = g

(* A goroutine that runs is that of the current poller, or waited for.     *)
PollersKnown ==
    /\ active # None => active \in Mon!Started
    /\ \A g \in Mon!Started : pollers[g].at = "done" \/ g = active \/ Joining(g)

(* Generations are numbered without gaps.                                  *)
GenerationsInOrder ==
    \A g \in Mon!Started : \A h \in Mon!Generations : h < g => h \in Mon!Started

Starting(c) == monCall[c].at \in {"first", "open"}

(* Until its first event is out a poller stands at its gate.               *)
GateShut ==
    \A c \in Callers :
      Starting(c) => /\ pollers[monCall[c].poller].at = "gate"
                     /\ ~pollers[monCall[c].poller].open
                     /\ \A d \in Callers : Starting(d) /\ monCall[d].poller = monCall[c].poller => d = c

PastGate(g) == \/ pollers[g].at \in {"tick", "exec", "emit", "pause"}
               \/ pollers[g].at = "gate" /\ pollers[g].open

Shows(g) == screen.gen = g /\ screen.shows # "nothing"

(* What the renderer shows is of the poller that is past its gate.         *)
ScreenFollows ==
    /\ screen.gen = 0 \/ screen.gen \in Mon!Started
    /\ \A c \in Callers : /\ monCall[c].at = "first" => screen.gen <= monCall[c].poller
                          /\ monCall[c].at = "open" => Shows(monCall[c].poller)
    /\ \A g \in Mon!Generations : PastGate(g) => Shows(g)

StoppedForGood ==
    monClosed => /\ active = None
                 /\ \A c \in Callers : monCall[c].at = "join" => monCall[c].op = "stop"

MonInv == /\ Mon!TypeOK /\ TransHeld /\ MonCallsSound /\ PollersKnown /\ GenerationsInOrder
          /\ GateShut /\ ScreenFollows /\ StoppedForGood

-----------------------------------------------------------------------------
(* The port forwards.                                                      *)

Inserting(c) == tunCall[c].at = "insert"

TunCallsSound ==
    \A c \in Callers :
      /\ tunCall[c].op = "none" <=> tunCall[c].at = "idle"
      /\ tunCall[c].at \in {"listen", "insert"} => tunCall[c].op = "start"
      /\ tunCall[c].op = "start" => tunCall[c].session \in Sessions

(* Who closes a listener took it out of the table, and who is about to     *)
(* insert one is the only one to know of it.                               *)
ClosingApart ==
    \A c \in Callers : /\ tunCall[c].closing # {} => tunCall[c].at = "close"
                       /\ tunCall[c].closing \subseteq Tun!Opened \ table

OwnListener ==
    \A c \in Callers :
      Inserting(c) => /\ tunCall[c].own \in listening \ table
                      /\ forward[tunCall[c].own].session = tunCall[c].session
                      /\ \A d \in Callers : /\ tunCall[c].own \notin tunCall[d].closing
                                            /\ Inserting(d) /\ tunCall[d].own = tunCall[c].own => d = c

TunInv == Tun!TypeOK /\ TunCallsSound /\ ClosingApart /\ OwnListener /\ Tun!ListenersOwned

-----------------------------------------------------------------------------
(* The SFTP clients.                                                       *)

(* The steps at which a call uses a handle it has looked up.               *)
Works == {"lock", "open", "home", "use", "setCwd"}

SftpCallsSound ==
    \A c \in Callers :
      /\ sftpCall[c].op = "none" <=> sftpCall[c].at = "idle"
      /\ sftpCall[c].at \in Works => Sftp!Operates(c)
      /\ sftpCall[c].at = "setCwd" => sftpCall[c].op = "chdir"
      /\ sftpCall[c].op \notin {"none", "all"} => sftpCall[c].session \in Sessions
      /\ sftpCall[c].todo \subseteq Sftp!MadeHandles

(* A call works on a handle that was made for its session.                 *)
HandlesMade ==
    /\ \A s \in Sessions : handles[s] # None => /\ handles[s] \in Sftp!MadeHandles
                                                /\ handle[handles[s]].of = s
    /\ \A c \in Callers :
         /\ sftpCall[c].at \in Works \cup {"take"} => sftpCall[c].handle \in Sftp!MadeHandles
         /\ sftpCall[c].at \in Works => Sftp!Mine(c).of = sftpCall[c].session

HandlesInOrder ==
    \A g \in Sftp!MadeHandles : \A h \in Sftp!Handles : h < g => h \in Sftp!MadeHandles

(* Who opens a client holds the lock of its handle, which has none.        *)
OpeningLocks ==
    /\ \A c \in Callers : sftpCall[c].at \in {"open", "home"} => Sftp!Mine(c).busy = c
    /\ \A h \in Sftp!Handles : handle[h].busy # None => handle[h].client = None

SftpInv == /\ Sftp!TypeOK /\ SftpCallsSound /\ HandlesMade /\ HandlesInOrder /\ OpeningLocks
           /\ Sftp!ClientsOwned

-----------------------------------------------------------------------------
(* The ends of the sessions and the shutdown.                              *)

LifeOK ==
    /\ session \in [Sessions -> {"up", "closed", "gone"}]
    /\ ending \in [Sessions -> {"no", "closing", "sftp", "monitor", "tunnels", "event", "over"}]
    /\ quiet \subseteq Sessions /\ late \subseteq Sessions /\ ops \in 0 .. MaxOps
    /\ stopping \in {"no", "monitor", "tunnels", "sessions", "sweep", "sftp", "last", "over"}
    /\ sweep \subseteq Sessions

(* Each kind of caller has its own calls.                                  *)
Roles ==
    /\ \A u \in Users : /\ monCall[u].op \in {"none", "set"}
                        /\ tunCall[u].op \in {"none", "start", "stop"}
                        /\ sftpCall[u].op \in {"none", "use", "chdir", "interrupt"}
    /\ \A s \in Sessions :
         /\ monCall[s].op = "none" \/ (monCall[s].op = "dispose" /\ monCall[s].session = s)
         /\ tunCall[s].op = "none" \/ (tunCall[s].op = "dispose" /\ tunCall[s].session = s)
         /\ sftpCall[s].op = "none" \/ (sftpCall[s].op = "dispose" /\ sftpCall[s].session = s)
    /\ monCall[Shutdown].op \in {"none", "stop"}
    /\ tunCall[Shutdown].op \in {"none", "all"}
    /\ sftpCall[Shutdown].op \in {"none", "all"}

(* A session that is not up and for which nobody called late has no call   *)
(* of the renderer.                                                        *)
LateKnown == \A s \in Sessions : session[s] # "up" => s \in late \/ ~Concerns(s)

StagesInOrder ==
    \A s \in Sessions :
      /\ session[s] = "up" <=> ending[s] = "no"
      /\ ending[s] \notin {"no", "closing"} => session[s] = "gone"
      /\ ending[s] # "monitor" => sftpCall[s].op = "none"
      /\ ending[s] # "tunnels" => monCall[s].op = "none"
      /\ ending[s] # "event" => tunCall[s].op = "none"

Past(s, stages) == ending[s] \in stages \/ Over(s)

(* What an end has disposed of stays away.                                 *)
EndsDispose ==
    \A s \in Sessions \ late :
      /\ Past(s, {"monitor", "tunnels", "event"}) /\ sftpCall[s].at # "table" => handles[s] = None
      /\ Past(s, {"tunnels", "event"}) /\ monCall[s].at # "lock" => ~Polled(s)
      /\ Past(s, {"event"}) /\ tunCall[s].at # "lock" => Tun!Of(s) = {}

ShutdownStops ==
    /\ stopping \in {"tunnels", "sessions", "sweep", "sftp", "last", "over"} =>
         monClosed \/ (monCall[Shutdown].op = "stop" /\ monCall[Shutdown].at = "lock")
    /\ stopping # "tunnels" => monCall[Shutdown].op = "none"
    /\ stopping \in {"sessions", "sweep", "sftp", "last", "over"} =>
         tunClosed \/ (tunCall[Shutdown].op = "all" /\ tunCall[Shutdown].at = "lock")
    /\ stopping # "sessions" => tunCall[Shutdown].op = "none"
    /\ stopping # "last" => sftpCall[Shutdown].op = "none"

(* The shutdown knows of every session that is still in the table, and has *)
(* them out of it before it goes on.                                       *)
SweepKnown ==
    /\ stopping = "sweep" => \A s \in Sessions \ sweep : session[s] = "gone"
    /\ stopping \in {"sftp", "last", "over"} => \A s \in Sessions : session[s] = "gone"

LifeInv == /\ LifeOK /\ Roles /\ LateKnown /\ StagesInOrder /\ EndsDispose /\ ShutdownStops
           /\ SweepKnown

IInv == MonInv /\ TunInv /\ SftpInv /\ LifeInv

-----------------------------------------------------------------------------
(* Counters.                                                               *)

(* What is numbered without gaps from 1 is followed by its cardinality     *)
(* plus one.                                                               *)
LEMMA Numbering ==
    ASSUME NEW M \in Nat, NEW S \in SUBSET (1 .. M),
           \A g \in S : \A h \in 1 .. M : h < g => h \in S
    PROVE  /\ Cardinality(S) \in Nat
           /\ \A g \in S : g <= Cardinality(S)
           /\ \A h \in 1 .. M : h <= Cardinality(S) => h \in S
<1> DEFINE n == Cardinality(S)
<1>1. IsFiniteSet(1 .. M)
  BY FS_Interval
<1>2. IsFiniteSet(S) /\ n \in Nat
  BY <1>1, FS_Subset, FS_CardinalityType
<1>3. ASSUME NEW g \in S PROVE g <= n
  <2>1. g \in Nat /\ 1 .. g \in SUBSET S
    OBVIOUS
  <2>2. Cardinality(1 .. g) = g
    BY <2>1, FS_Interval
  <2>. QED BY <1>2, <2>1, <2>2, FS_Subset
<1>4. ASSUME NEW h \in 1 .. M, h <= n PROVE h \in S
  <2> SUFFICES ASSUME h \notin S PROVE FALSE
    OBVIOUS
  <2>1. S \in SUBSET (1 .. (h - 1))
    OBVIOUS
  <2>2. IsFiniteSet(1 .. (h - 1)) /\ Cardinality(1 .. (h - 1)) = h - 1
    BY FS_Interval
  <2>3. n <= h - 1
    BY <2>1, <2>2, FS_Subset
  <2>. QED BY <1>2, <1>4, <2>3
<1>. QED BY <1>2, <1>3, <1>4

-----------------------------------------------------------------------------
(* The monitor keeps its part.                                             *)

LEMMA FreshIsNew ==
    ASSUME MonInv
    PROVE  /\ Mon!Fresh \in Nat
           /\ \A g \in Mon!Started : g < Mon!Fresh
           /\ \A h \in Mon!Generations : h < Mon!Fresh => h \in Mon!Started
<1>1. MaxGenerations \in Nat /\ Mon!Started \in SUBSET (1 .. MaxGenerations)
  BY BoundsAreNat DEF Mon!Started, Mon!Generations
<1>2. \A g \in Mon!Started : \A h \in 1 .. MaxGenerations : h < g => h \in Mon!Started
  BY DEF MonInv, GenerationsInOrder, Mon!Generations
<1> HIDE DEF Mon!Started
<1>3. /\ Cardinality(Mon!Started) \in Nat
      /\ \A g \in Mon!Started : g <= Cardinality(Mon!Started)
      /\ \A h \in 1 .. MaxGenerations : h <= Cardinality(Mon!Started) => h \in Mon!Started
  BY <1>1, <1>2, Numbering
<1>4. Mon!Fresh = Cardinality(Mon!Started) + 1
  BY DEF Mon!Fresh, Mon!Cardinality, Cardinality
<1>5. Mon!Started \subseteq Int /\ Mon!Generations = 1 .. MaxGenerations
  BY <1>1 DEF Mon!Generations
<1>. QED BY <1>1, <1>3, <1>4, <1>5

(* At most one goroutine runs at a time.                                   *)
LEMMA OneRuns ==
    ASSUME MonInv, NEW g \in Mon!Started, NEW h \in Mon!Started,
           pollers[g].at # "done", pollers[h].at # "done"
    PROVE  g = h
<1>1. g # None /\ h # None
  BY NamesApart DEF Mon!Started
<1>2. (g = active \/ Joining(g)) /\ (h = active \/ Joining(h))
  BY DEF MonInv, PollersKnown
<1>3. CASE active = None
  BY <1>1, <1>2, <1>3 DEF MonInv, TransHeld, Joining
<1>4. CASE active # None
  <2>. ~Joining(g) /\ ~Joining(h)
    BY <1>4, NamesApart DEF MonInv, TransHeld, Joining
  <2>. QED BY <1>2
<1>. QED BY <1>3, <1>4

(* When a transition has joined its poller, none runs.                     *)
LEMMA NoneRuns ==
    ASSUME MonInv, NEW c \in Callers, monCall[c].at = "join", Mon!Joined(c)
    PROVE  /\ \A g \in Mon!Started : pollers[g].at = "done"
           /\ active = None /\ trans = c
           /\ \A d \in Callers : ~Starting(d)
           /\ \A g \in Mon!Generations : ~PastGate(g)
           /\ \A d \in Callers \ {c} : monCall[d].at # "join"
<1>1. active = None /\ trans = c /\ \A d \in Callers \ {c} : monCall[d].at # "join"
  BY NamesApart DEF MonInv, TransHeld
<1>2. ASSUME NEW g \in Mon!Started PROVE pollers[g].at = "done"
  <2>1. g \in Mon!Generations /\ g # None
    BY NamesApart DEF Mon!Started
  <2>. QED BY <1>1, <2>1 DEF MonInv, PollersKnown, Joining, Mon!Joined
<1>3. \A d \in Callers : ~Starting(d)
  BY <1>2 DEF MonInv, GateShut, Starting, MonCallsSound
<1>4. \A g \in Mon!Generations : ~PastGate(g)
  BY <1>2 DEF PastGate, Mon!Started
<1>. QED BY <1>1, <1>2, <1>3, <1>4

LEMMA MonBeginKeeps ==
    ASSUME MonInv, NEW c \in Callers, NEW op \in {"set", "dispose", "stop"},
           NEW s \in Sessions \cup {None}, Mon!Begin(c, op, s)
    PROVE  MonInv'
<1>1. Mon!TypeOK /\ UNCHANGED <<active, monClosed, trans, pollers, screen>> /\ monCall[c].at = "idle"
  BY DEF Mon!Begin, MonInv, MonCallsSound
<1>2. monCall' = [monCall EXCEPT ![c] = [Mon!NotCalling EXCEPT !.op = op, !.at = "lock", !.session = s]]
  BY DEF Mon!Begin
<1>3. Mon!TypeOK'
  <2>1. [Mon!NotCalling EXCEPT !.op = op, !.at = "lock", !.session = s]
          \in [op: {"none", "set", "dispose", "stop"}, at: {"idle", "lock", "join", "first", "open"},
              session: Sessions \cup {None}, poller: Mon!Generations \cup {None}]
    BY DEF Mon!NotCalling
  <2>. QED BY <1>1, <1>2, <2>1 DEF Mon!TypeOK
<1>4. /\ monCall'[c].op = op /\ monCall'[c].at = "lock"
      /\ \A d \in Callers \ {c} : monCall'[d] = monCall[d]
  BY <1>1, <1>2 DEF Mon!TypeOK, Mon!NotCalling
<1>5. TransHeld'
  BY <1>1, <1>4 DEF MonInv, TransHeld
<1>6. MonCallsSound'
  BY <1>1, <1>4 DEF MonInv, MonCallsSound, Mon!Started
<1>7. PollersKnown'
  BY <1>1, <1>4 DEF MonInv, PollersKnown, Joining, Mon!Started
<1>8. GenerationsInOrder'
  BY <1>1 DEF MonInv, GenerationsInOrder, Mon!Started
<1>9. GateShut'
  BY <1>1, <1>4 DEF MonInv, GateShut, Starting
<1>10. ScreenFollows'
  BY <1>1, <1>4 DEF MonInv, ScreenFollows, Shows, PastGate, Mon!Started
<1>11. StoppedForGood'
  BY <1>1, <1>4 DEF MonInv, StoppedForGood
<1>. QED BY <1>3, <1>5, <1>6, <1>7, <1>8, <1>9, <1>10, <1>11 DEF MonInv

(* A step that leaves the screen and the pollers alone but for the         *)
(* cancellation.                                                           *)
LEMMA DetachKeeps ==
    ASSUME MonInv, NEW c \in Callers, Mon!Detach(c)
    PROVE  MonInv'
<1>1. /\ Mon!TypeOK /\ monCall[c].at = "lock" /\ trans = None /\ screen' = screen
      /\ monClosed' = (monClosed \/ monCall[c].op = "stop")
      /\ \A d \in Callers : monCall[d].at # "join"
  BY NamesApart DEF Mon!Detach, MonInv, TransHeld
<1>2. CASE ~Mon!Applies(c)
  <2>1. /\ UNCHANGED <<trans, active, pollers>>
        /\ monCall' = [monCall EXCEPT ![c] = [op |-> "none", at |-> "idle", session |-> None, poller |-> None]]
        /\ monClosed' = monClosed
    BY <1>1, <1>2 DEF Mon!Detach, Mon!End, Mon!NotCalling, Mon!Applies, Mon!TypeOK
  <2>2. Mon!TypeOK'
    BY <1>1, <2>1 DEF Mon!TypeOK
  <2>3. TransHeld'
    BY <1>1, <2>1, <2>2 DEF MonInv, TransHeld, Mon!TypeOK
  <2>4. MonCallsSound'
    BY <1>1, <2>1, <2>2 DEF MonInv, MonCallsSound, Mon!TypeOK, Mon!Started
  <2>5. PollersKnown'
    BY <1>1, <2>1, <2>2 DEF MonInv, PollersKnown, Joining, Mon!TypeOK, Mon!Started
  <2>6. GenerationsInOrder'
    BY <2>1 DEF MonInv, GenerationsInOrder, Mon!Started
  <2>7. GateShut'
    BY <1>1, <2>1, <2>2 DEF MonInv, GateShut, Starting, Mon!TypeOK
  <2>8. ScreenFollows'
    BY <1>1, <2>1, <2>2 DEF MonInv, ScreenFollows, Shows, PastGate, Mon!TypeOK, Mon!Started
  <2>9. StoppedForGood'
    BY <1>1, <2>1, <2>2 DEF MonInv, StoppedForGood, Mon!TypeOK
  <2>. QED BY <2>2, <2>3, <2>4, <2>5, <2>6, <2>7, <2>8, <2>9 DEF MonInv
<1>3. CASE Mon!Applies(c)
  <2>1. /\ trans' = c /\ active' = None
        /\ pollers' = IF active = None THEN pollers ELSE [pollers EXCEPT ![active].cancelled = TRUE]
        /\ monCall' = [monCall EXCEPT ![c].at = "join", ![c].poller = active]
    BY <1>1, <1>3 DEF Mon!Detach
  <2>2. Mon!TypeOK'
    <3>1. pollers' \in [Mon!Generations -> [session: Sessions \cup {None}, open: BOOLEAN, cancelled: BOOLEAN,
                                 at: {"none", "gate", "tick", "exec", "emit", "pause", "done"}]]
      <4>1. /\ active \in Mon!Generations \cup {None}
            /\ pollers \in [Mon!Generations -> [session: Sessions \cup {None}, open: BOOLEAN, cancelled: BOOLEAN,
                               at: {"none", "gate", "tick", "exec", "emit", "pause", "done"}]]
        BY <1>1 DEF Mon!TypeOK
      <4>. QED BY <2>1, <4>1
    <3>2. monCall' \in [Callers -> [op: {"none", "set", "dispose", "stop"},
                                   at: {"idle", "lock", "join", "first", "open"},
                                   session: Sessions \cup {None}, poller: Mon!Generations \cup {None}]]
      <4>1. /\ active \in Mon!Generations \cup {None}
            /\ monCall \in [Callers -> [op: {"none", "set", "dispose", "stop"},
                                       at: {"idle", "lock", "join", "first", "open"},
                                       session: Sessions \cup {None}, poller: Mon!Generations \cup {None}]]
        BY <1>1 DEF Mon!TypeOK
      <4>. QED BY <2>1, <4>1
    <3>3. monClosed' \in BOOLEAN
      BY <1>1 DEF Mon!TypeOK
    <3>. QED BY <1>1, <2>1, <3>1, <3>2, <3>3 DEF Mon!TypeOK
  <2>3. /\ Mon!Started' = Mon!Started
        /\ \A g \in Mon!Generations : /\ pollers'[g].at = pollers[g].at
                                      /\ pollers'[g].open = pollers[g].open
    BY <1>1, <2>1 DEF Mon!TypeOK, Mon!Started
  <2>4. /\ monCall'[c].at = "join" /\ monCall'[c].poller = active /\ monCall'[c].op = monCall[c].op
        /\ \A d \in Callers \ {c} : monCall'[d] = monCall[d]
    BY <1>1, <2>1 DEF Mon!TypeOK
  <2>5. TransHeld'
    BY <1>1, <2>1, <2>4, NamesApart DEF MonInv, TransHeld
  <2>6. MonCallsSound'
    BY <1>1, <2>3, <2>4 DEF MonInv, MonCallsSound
  <2>7. PollersKnown'
    <3> SUFFICES ASSUME NEW g \in Mon!Started, pollers'[g].at # "done" PROVE Joining(g)'
      BY <2>1, <2>3 DEF PollersKnown
    <3>1. g = active
      BY <1>1, <2>3 DEF MonInv, PollersKnown, Joining, Mon!Started
    <3>. QED BY <2>4, <3>1 DEF Joining
  <2>8. GenerationsInOrder'
    BY <2>3 DEF MonInv, GenerationsInOrder
  <2>9. GateShut'
    BY <1>1, <2>3, <2>4 DEF MonInv, GateShut, MonCallsSound, Starting, Mon!Started
  <2>10. ScreenFollows'
    BY <1>1, <2>3, <2>4 DEF MonInv, ScreenFollows, Shows, PastGate
  <2>11. StoppedForGood'
    <3>1. monCall[c].op \in {"set", "dispose", "stop"}
      BY <1>1 DEF MonInv, MonCallsSound, Mon!TypeOK
    <3>2. monClosed' => monCall[c].op = "stop"
      BY <1>1, <1>3, <3>1 DEF Mon!Applies
    <3>. QED BY <1>1, <2>1, <2>4, <3>2 DEF StoppedForGood
  <2>. QED BY <2>2, <2>5, <2>6, <2>7, <2>8, <2>9, <2>10, <2>11 DEF MonInv
<1>. QED BY <1>2, <1>3

LEMMA PublishKeeps ==
    ASSUME MonInv, NEW c \in Callers, Mon!Publish(c)
    PROVE  MonInv'
<1>0. PICK n \in Mon!Generations : n = Mon!Fresh
  BY DEF Mon!Publish
<1>1. /\ Mon!TypeOK /\ monCall[c].at = "join" /\ monCall[c].op = "set" /\ Mon!Joined(c)
      /\ UNCHANGED <<monClosed, screen>>
      /\ active' = n /\ trans' = None
      /\ pollers' = [pollers EXCEPT ![n] = Mon!Poller(monCall[c].session)]
      /\ monCall' = [monCall EXCEPT ![c].at = "first", ![c].poller = n]
  BY <1>0 DEF Mon!Publish, MonInv
<1>2. /\ \A g \in Mon!Started : pollers[g].at = "done"
      /\ active = None /\ trans = c
      /\ \A d \in Callers : ~Starting(d)
      /\ \A g \in Mon!Generations : ~PastGate(g)
      /\ \A d \in Callers \ {c} : monCall[d].at # "join"
  BY <1>1, NoneRuns
<1>3. /\ n \in Nat /\ \A g \in Mon!Started : g < n
      /\ \A h \in Mon!Generations : h < n => h \in Mon!Started
  BY <1>0, FreshIsNew
<1>4. Mon!TypeOK'
  <2>1. pollers' \in [Mon!Generations -> [session: Sessions \cup {None}, open: BOOLEAN, cancelled: BOOLEAN,
                             at: {"none", "gate", "tick", "exec", "emit", "pause", "done"}]]
    <3>1. Mon!Poller(monCall[c].session)
            \in [session: Sessions \cup {None}, open: BOOLEAN, cancelled: BOOLEAN,
                 at: {"none", "gate", "tick", "exec", "emit", "pause", "done"}]
      BY <1>1 DEF Mon!TypeOK, Mon!Poller
    <3>. QED BY <1>1, <3>1 DEF Mon!TypeOK
  <2>2. monCall' \in [Callers -> [op: {"none", "set", "dispose", "stop"},
                                 at: {"idle", "lock", "join", "first", "open"},
                                 session: Sessions \cup {None}, poller: Mon!Generations \cup {None}]]
    <3>1. monCall \in [Callers -> [op: {"none", "set", "dispose", "stop"},
                                  at: {"idle", "lock", "join", "first", "open"},
                                  session: Sessions \cup {None}, poller: Mon!Generations \cup {None}]]
      BY <1>1 DEF Mon!TypeOK
    <3>. QED BY <1>1, <3>1
  <2>. QED BY <1>1, <2>1, <2>2 DEF Mon!TypeOK
<1>5. /\ pollers'[n].at = "gate" /\ pollers'[n].open = FALSE
      /\ \A g \in Mon!Generations \ {n} : pollers'[g] = pollers[g]
  BY <1>1 DEF Mon!TypeOK, Mon!Poller
<1>6. /\ monCall'[c].at = "first" /\ monCall'[c].poller = n /\ monCall'[c].op = "set"
      /\ \A d \in Callers \ {c} : monCall'[d] = monCall[d]
  BY <1>1 DEF Mon!TypeOK
<1>7. Mon!Started' = Mon!Started \cup {n}
  BY <1>1, <1>5 DEF Mon!Started
<1>8. TransHeld'
  <2>1. trans' = None
    BY <1>1
  <2>2. \A d \in Callers : monCall'[d].at # "join" /\ d # None
    BY <1>2, <1>6, NamesApart
  <2>. QED BY <2>1, <2>2 DEF TransHeld
<1>9. MonCallsSound'
  <2>1. MonCallsSound
    BY DEF MonInv
  <2>. QED BY <1>6, <1>7, <2>1 DEF MonCallsSound
<1>10. PollersKnown'
  BY <1>1, <1>2, <1>5, <1>7 DEF PollersKnown, Mon!Started
<1>11. GenerationsInOrder'
  BY <1>3, <1>7 DEF MonInv, GenerationsInOrder
<1>12. GateShut'
  BY <1>2, <1>5, <1>6 DEF GateShut, Starting
<1>13. ScreenFollows'
  <2>1. screen.gen = 0 \/ screen.gen \in Mon!Started
    BY DEF MonInv, ScreenFollows
  <2>2. screen.gen <= n
    BY <1>3, <2>1 DEF Mon!Started, Mon!Generations
  <2>3. \A g \in Mon!Generations : ~PastGate(g)'
    BY <1>2, <1>5 DEF PastGate
  <2>4. \A d \in Callers : monCall'[d].at # "open"
    BY <1>2, <1>6 DEF Starting
  <2>5. \A d \in Callers : monCall'[d].at = "first" => d = c
    BY <1>2, <1>6 DEF Starting
  <2>. QED BY <1>1, <1>6, <1>7, <2>1, <2>2, <2>3, <2>4, <2>5 DEF ScreenFollows
<1>14. StoppedForGood'
  BY <1>1 DEF MonInv, StoppedForGood
<1>. QED BY <1>4, <1>8, <1>9, <1>10, <1>11, <1>12, <1>13, <1>14 DEF MonInv

LEMMA ClearedKeeps ==
    ASSUME MonInv, NEW c \in Callers, Mon!Cleared(c)
    PROVE  MonInv'
<1>1. /\ Mon!TypeOK /\ monCall[c].at = "join" /\ Mon!Joined(c)
      /\ UNCHANGED <<active, monClosed, pollers>> /\ trans' = None
      /\ monCall' = [monCall EXCEPT ![c] = Mon!NotCalling]
      /\ screen' = IF monCall[c].op = "set" THEN [screen EXCEPT !.shows = "nothing"] ELSE screen
  BY DEF Mon!Cleared, Mon!End, MonInv
<1>2. /\ \A g \in Mon!Started : pollers[g].at = "done"
      /\ active = None /\ trans = c
      /\ \A d \in Callers : ~Starting(d)
      /\ \A g \in Mon!Generations : ~PastGate(g)
      /\ \A d \in Callers \ {c} : monCall[d].at # "join"
  BY <1>1, NoneRuns
<1>3. Mon!TypeOK'
  <2>1. Mon!NotCalling \in [op: {"none", "set", "dispose", "stop"},
                            at: {"idle", "lock", "join", "first", "open"},
                            session: Sessions \cup {None}, poller: Mon!Generations \cup {None}]
    BY DEF Mon!NotCalling
  <2>2. screen' \in [gen: Mon!Generations \cup {0}, shows: {"nothing", "empty", "sample"}]
    BY <1>1 DEF Mon!TypeOK
  <2>. QED BY <1>1, <2>1, <2>2 DEF Mon!TypeOK
<1>4. /\ monCall'[c].op = "none" /\ monCall'[c].at = "idle" /\ screen'.gen = screen.gen
      /\ \A d \in Callers \ {c} : monCall'[d] = monCall[d]
  BY <1>1 DEF Mon!TypeOK, Mon!NotCalling
<1>5. Mon!Started' = Mon!Started
  BY <1>1 DEF Mon!Started
<1>6. TransHeld'
  BY <1>1, <1>2, <1>4, NamesApart DEF TransHeld
<1>7. MonCallsSound'
  BY <1>4, <1>5 DEF MonInv, MonCallsSound
<1>8. PollersKnown'
  BY <1>1, <1>2, <1>5 DEF PollersKnown
<1>9. GenerationsInOrder'
  BY <1>5 DEF MonInv, GenerationsInOrder
<1>10. \A d \in Callers : ~Starting(d)'
  BY <1>2, <1>4 DEF Starting
<1>11. GateShut'
  BY <1>10 DEF GateShut
<1>12. ScreenFollows'
  BY <1>1, <1>2, <1>4, <1>5, <1>10 DEF MonInv, ScreenFollows, PastGate, Starting
<1>13. StoppedForGood'
  BY <1>1, <1>4 DEF MonInv, StoppedForGood
<1>. QED BY <1>3, <1>6, <1>7, <1>8, <1>9, <1>11, <1>12, <1>13 DEF MonInv

(* While a poller has its first event to come, nothing is past its gate.   *)
LEMMA StartingIsAlone ==
    ASSUME MonInv, NEW c \in Callers, Starting(c)
    PROVE  /\ monCall[c].poller \in Mon!Started
           /\ \A g \in Mon!Generations : ~PastGate(g)
           /\ \A d \in Callers : Starting(d) => d = c
<1>1. /\ monCall[c].poller \in Mon!Started /\ pollers[monCall[c].poller].at = "gate"
      /\ ~pollers[monCall[c].poller].open
  BY DEF MonInv, MonCallsSound, GateShut, Starting
<1>2. \A g \in Mon!Generations : PastGate(g) => g \in Mon!Started /\ pollers[g].at # "done"
  BY DEF PastGate, Mon!Started
<1>3. \A g \in Mon!Generations : ~PastGate(g)
  BY <1>1, <1>2, OneRuns DEF PastGate
<1>4. ASSUME NEW d \in Callers, Starting(d) PROVE d = c
  <2>1. monCall[d].poller \in Mon!Started /\ pollers[monCall[d].poller].at = "gate"
    BY <1>4 DEF MonInv, MonCallsSound, GateShut, Starting
  <2>2. monCall[d].poller = monCall[c].poller
    BY <1>1, <2>1, OneRuns
  <2>. QED BY <1>4, <2>2 DEF MonInv, GateShut
<1>. QED BY <1>1, <1>3, <1>4

LEMMA FirstKeeps ==
    ASSUME MonInv, NEW c \in Callers, Mon!First(c)
    PROVE  MonInv'
<1>1. /\ Mon!TypeOK /\ monCall[c].at = "first" /\ Starting(c)
      /\ UNCHANGED <<active, monClosed, trans, pollers>>
      /\ screen' = [gen |-> monCall[c].poller, shows |-> "empty"]
      /\ monCall' = [monCall EXCEPT ![c].at = "open"]
  BY DEF Mon!First, Mon!Go, MonInv, Starting
<1>2. /\ monCall[c].poller \in Mon!Started
      /\ \A g \in Mon!Generations : ~PastGate(g)
      /\ \A d \in Callers : Starting(d) => d = c
  BY <1>1, StartingIsAlone
<1>3. Mon!TypeOK'
  <2>1. screen' \in [gen: Mon!Generations \cup {0}, shows: {"nothing", "empty", "sample"}]
    BY <1>1, <1>2 DEF Mon!Started
  <2>. QED BY <1>1, <2>1 DEF Mon!TypeOK
<1>4. /\ monCall'[c].op = monCall[c].op /\ monCall'[c].at = "open" /\ monCall'[c].poller = monCall[c].poller
      /\ \A d \in Callers \ {c} : monCall'[d] = monCall[d]
  BY <1>1 DEF Mon!TypeOK
<1>5. Mon!Started' = Mon!Started
  BY <1>1 DEF Mon!Started
<1>6. TransHeld'
  BY <1>1, <1>4 DEF MonInv, TransHeld
<1>7. MonCallsSound'
  BY <1>1, <1>4, <1>5 DEF MonInv, MonCallsSound
<1>8. PollersKnown'
  BY <1>1, <1>4, <1>5 DEF MonInv, PollersKnown, Joining
<1>9. GenerationsInOrder'
  BY <1>5 DEF MonInv, GenerationsInOrder
<1>10. GateShut'
  BY <1>1, <1>4 DEF MonInv, GateShut, Starting
<1>11. ScreenFollows'
  <2>1. \A d \in Callers : monCall'[d].at \in {"first", "open"} => d = c
    BY <1>2, <1>4 DEF Starting
  <2>2. Shows(monCall[c].poller)' /\ screen'.gen \in Mon!Started
    BY <1>1, <1>2, <1>4 DEF Shows
  <2>3. \A g \in Mon!Generations : ~PastGate(g)'
    BY <1>1, <1>2 DEF PastGate
  <2>. QED BY <1>4, <1>5, <2>1, <2>2, <2>3 DEF ScreenFollows, Shows
<1>12. StoppedForGood'
  BY <1>1, <1>4 DEF MonInv, StoppedForGood
<1>. QED BY <1>3, <1>6, <1>7, <1>8, <1>9, <1>10, <1>11, <1>12 DEF MonInv

LEMMA OpenGateKeeps ==
    ASSUME MonInv, NEW c \in Callers, Mon!OpenGate(c)
    PROVE  MonInv'
<1>0. PICK p : p = monCall[c].poller
  OBVIOUS
<1>1. /\ Mon!TypeOK /\ monCall[c].at = "open" /\ Starting(c)
      /\ UNCHANGED <<active, monClosed, trans, screen>>
      /\ pollers' = [pollers EXCEPT ![p].open = TRUE]
      /\ monCall' = [monCall EXCEPT ![c] = Mon!NotCalling]
  BY <1>0 DEF Mon!OpenGate, Mon!End, MonInv, Starting
<1>2. /\ p \in Mon!Started /\ p \in Mon!Generations
      /\ \A g \in Mon!Generations : ~PastGate(g)
      /\ \A d \in Callers : Starting(d) => d = c
  BY <1>0, <1>1, StartingIsAlone DEF Mon!Started
<1>3. Shows(p)
  BY <1>0, <1>1 DEF MonInv, ScreenFollows
<1>4. Mon!TypeOK'
  <2>1. Mon!NotCalling \in [op: {"none", "set", "dispose", "stop"},
                            at: {"idle", "lock", "join", "first", "open"},
                            session: Sessions \cup {None}, poller: Mon!Generations \cup {None}]
    BY DEF Mon!NotCalling
  <2>2. pollers' \in [Mon!Generations -> [session: Sessions \cup {None}, open: BOOLEAN, cancelled: BOOLEAN,
                             at: {"none", "gate", "tick", "exec", "emit", "pause", "done"}]]
    <3>1. pollers \in [Mon!Generations -> [session: Sessions \cup {None}, open: BOOLEAN, cancelled: BOOLEAN,
                         at: {"none", "gate", "tick", "exec", "emit", "pause", "done"}]]
      BY <1>1 DEF Mon!TypeOK
    <3>. QED BY <1>1, <1>2, <3>1
  <2>. QED BY <1>1, <2>1, <2>2 DEF Mon!TypeOK
<1>5. /\ monCall'[c].op = "none" /\ monCall'[c].at = "idle"
      /\ \A d \in Callers \ {c} : monCall'[d] = monCall[d]
  BY <1>1 DEF Mon!TypeOK, Mon!NotCalling
<1>6. /\ \A g \in Mon!Generations : pollers'[g].at = pollers[g].at
      /\ \A g \in Mon!Generations \ {p} : pollers'[g] = pollers[g]
      /\ Mon!Started' = Mon!Started
  BY <1>1, <1>2 DEF Mon!TypeOK, Mon!Started
<1>7. TransHeld'
  BY <1>1, <1>5 DEF MonInv, TransHeld
<1>8. MonCallsSound'
  BY <1>5, <1>6 DEF MonInv, MonCallsSound
<1>9. PollersKnown'
  BY <1>1, <1>5, <1>6 DEF MonInv, PollersKnown, Joining, Mon!Started
<1>10. GenerationsInOrder'
  BY <1>6 DEF MonInv, GenerationsInOrder
<1>11. \A d \in Callers : ~Starting(d)'
  BY <1>2, <1>5 DEF Starting
<1>12. GateShut'
  BY <1>11 DEF GateShut
<1>13. ScreenFollows'
  <2>1. \A g \in Mon!Generations : PastGate(g)' => g = p
    BY <1>2, <1>6 DEF PastGate
  <2>2. Shows(p)'
    BY <1>1, <1>3 DEF Shows
  <2>. QED BY <1>1, <1>6, <1>11, <2>1, <2>2 DEF MonInv, ScreenFollows, Starting
<1>14. StoppedForGood'
  BY <1>1, <1>5 DEF MonInv, StoppedForGood
<1>. QED BY <1>4, <1>7, <1>8, <1>9, <1>10, <1>12, <1>13, <1>14 DEF MonInv

(* What a goroutine does, but for the emit.                                *)
LEMMA PollerGoesKeeps ==
    ASSUME MonInv, NEW g \in Mon!Generations,
           NEW from \in {"gate", "tick", "exec", "emit", "pause"},
           NEW to \in {"tick", "exec", "emit", "pause", "done"},
           Mon!PollerGoes(g, from, to), from = "gate" => pollers[g].open,
           \/ UNCHANGED screen
           \/ from = "emit" /\ screen' = [gen |-> g, shows |-> "sample"]
    PROVE  MonInv'
<1>1. /\ Mon!TypeOK /\ pollers[g].at = from /\ pollers' = [pollers EXCEPT ![g].at = to]
      /\ UNCHANGED <<active, monClosed, trans, monCall>>
  BY DEF Mon!PollerGoes, MonInv
<1>2. g \in Mon!Started /\ PastGate(g) /\ Shows(g)
  BY <1>1 DEF MonInv, ScreenFollows, PastGate, Mon!Started
<1>3. /\ pollers'[g].at = to /\ pollers'[g].open = pollers[g].open
      /\ \A h \in Mon!Generations \ {g} : pollers'[h] = pollers[h]
      /\ Mon!Started' = Mon!Started
  BY <1>1, <1>2 DEF Mon!TypeOK, Mon!Started
<1>4. \A c \in Callers : ~Starting(c)
  BY <1>2, StartingIsAlone
<1>5. Shows(g)' /\ screen'.gen = screen.gen
  BY <1>2 DEF Shows
<1>6. Mon!TypeOK'
  <2>1. pollers' \in [Mon!Generations -> [session: Sessions \cup {None}, open: BOOLEAN, cancelled: BOOLEAN,
                             at: {"none", "gate", "tick", "exec", "emit", "pause", "done"}]]
    BY <1>1 DEF Mon!TypeOK
  <2>2. screen' \in [gen: Mon!Generations \cup {0}, shows: {"nothing", "empty", "sample"}]
    BY <1>1 DEF Mon!TypeOK
  <2>. QED BY <1>1, <2>1, <2>2 DEF Mon!TypeOK
<1>7. TransHeld'
  BY <1>1 DEF MonInv, TransHeld
<1>8. MonCallsSound'
  BY <1>1, <1>3 DEF MonInv, MonCallsSound
<1>9. PollersKnown'
  <2>1. \A h \in Mon!Started : pollers'[h].at # "done" => pollers[h].at # "done"
    BY <1>1, <1>3 DEF Mon!Started
  <2>. QED BY <1>1, <1>3, <2>1 DEF MonInv, PollersKnown, Joining
<1>10. GenerationsInOrder'
  BY <1>3 DEF MonInv, GenerationsInOrder
<1>11. GateShut'
  BY <1>1, <1>4 DEF GateShut, Starting
<1>12. ScreenFollows'
  <2>1. \A h \in Mon!Generations : PastGate(h)' => PastGate(h)
    BY <1>2, <1>3 DEF PastGate
  <2>2. \A h \in Mon!Generations : PastGate(h) => h = g
    BY <1>2 DEF MonInv, ScreenFollows, Shows
  <2>. QED BY <1>1, <1>3, <1>4, <1>5, <2>1, <2>2 DEF MonInv, ScreenFollows, Starting
<1>13. StoppedForGood'
  BY <1>1 DEF MonInv, StoppedForGood
<1>. QED BY <1>6, <1>7, <1>8, <1>9, <1>10, <1>11, <1>12, <1>13 DEF MonInv

LEMMA MonGoesKeeps == MonInv /\ Mon!Goes => MonInv'
<1> SUFFICES ASSUME MonInv, Mon!Goes PROVE MonInv'
  OBVIOUS
<1>1. CASE \E c \in Callers : Mon!Step(c)
  BY <1>1, DetachKeeps, PublishKeeps, ClearedKeeps, FirstKeeps, OpenGateKeeps DEF Mon!Step
<1>2. ASSUME NEW g \in Mon!Generations, Mon!Polls(g) \/ Mon!NextTick(g) \/ Mon!Leave(g) PROVE MonInv'
  <2>1. CASE Mon!Gate(g)
    BY <2>1, PollerGoesKeeps DEF Mon!Gate
  <2>2. CASE Mon!Tick(g)
    BY <2>2, PollerGoesKeeps DEF Mon!Tick
  <2>3. CASE Mon!Sampled(g)
    BY <2>3, PollerGoesKeeps DEF Mon!Sampled
  <2>4. CASE Mon!EmitUpdate(g)
    BY <2>4, PollerGoesKeeps DEF Mon!EmitUpdate
  <2>5. CASE Mon!NextTick(g)
    BY <2>5, PollerGoesKeeps DEF Mon!NextTick
  <2>6. CASE Mon!Leave(g)
    BY <2>6, PollerGoesKeeps DEF Mon!Leave
  <2>. QED BY <1>2, <2>1, <2>2, <2>3, <2>4, <2>5, <2>6 DEF Mon!Polls
<1>. QED BY <1>1, <1>2 DEF Mon!Goes

LEMMA MonitorStays ==
    ASSUME MonInv, UNCHANGED monitor
    PROVE  MonInv'
BY DEF monitor, MonInv, Mon!TypeOK, TransHeld, MonCallsSound, PollersKnown, GenerationsInOrder,
       GateShut, ScreenFollows, StoppedForGood, Joining, Starting, PastGate, Shows, Mon!Started

LEMMA MonInitial == Mon!Init => MonInv
<1> SUFFICES ASSUME Mon!Init PROVE MonInv
  OBVIOUS
<1>1. Mon!TypeOK
  BY DEF Mon!Init, Mon!TypeOK, Mon!Unused, Mon!NotCalling
<1>2. /\ Mon!Started = {} /\ active = None /\ trans = None /\ monClosed = FALSE
      /\ \A c \in Callers : monCall[c].op = "none" /\ monCall[c].at = "idle"
      /\ \A g \in Mon!Generations : pollers[g].at = "none"
      /\ screen.gen = 0
  BY DEF Mon!Init, Mon!Unused, Mon!NotCalling, Mon!Started
<1>. QED BY <1>1, <1>2, NamesApart DEF MonInv, TransHeld, MonCallsSound, PollersKnown, GenerationsInOrder,
       GateShut, ScreenFollows, StoppedForGood, Starting, PastGate

-----------------------------------------------------------------------------
(* The port forwards keep their part.                                      *)

CallOfTunnels == [op: {"none", "start", "stop", "dispose", "all"},
                  at: {"idle", "lock", "listen", "insert", "close"},
                  session: Sessions \cup {None}, port: Ports \cup {None},
                  own: Tun!Forwards \cup {None}, closing: SUBSET Tun!Forwards]

(* What a step of a call that opens and closes no listener has to keep.    *)
LEMMA TunCallMoves ==
    ASSUME TunInv, NEW c \in Callers, NEW r \in CallOfTunnels,
           tunCall' = [tunCall EXCEPT ![c] = r],
           UNCHANGED <<forward, listening, conns, table>>, tunClosed' \in BOOLEAN,
           tunClosed' => table = {},
           r.op = "none" <=> r.at = "idle",
           r.at # "insert",
           r.at = "listen" => r.op = "start",
           r.op = "start" => r.session \in Sessions,
           r.closing = {}, ~Inserting(c), tunCall[c].closing = {}
    PROVE  TunInv'
<1>1. /\ tunCall \in [Callers -> CallOfTunnels] /\ tunCall' \in [Callers -> CallOfTunnels]
      /\ tunCall'[c] = r /\ \A d \in Callers \ {c} : tunCall'[d] = tunCall[d]
  BY DEF TunInv, Tun!TypeOK, CallOfTunnels
<1>2. Tun!Opened' = Tun!Opened
  BY DEF Tun!Opened
<1>3. Tun!TypeOK'
  BY <1>1, <1>2 DEF TunInv, Tun!TypeOK, CallOfTunnels
<1>4. TunCallsSound'
  BY <1>1 DEF TunInv, TunCallsSound
<1>5. ClosingApart'
  BY <1>1, <1>2 DEF TunInv, ClosingApart
<1>6. OwnListener'
  BY <1>1 DEF TunInv, OwnListener, Inserting
<1>7. Tun!ListenersOwned'
  <2> SUFFICES ASSUME NEW n \in listening \ table
               PROVE  \E d \in Callers : n \in tunCall'[d].closing \/ (tunCall'[d].at = "insert" /\ tunCall'[d].own = n)
    BY DEF TunInv, Tun!ListenersOwned
  <2>1. PICK d \in Callers : n \in tunCall[d].closing \/ (tunCall[d].at = "insert" /\ tunCall[d].own = n)
    BY DEF TunInv, Tun!ListenersOwned
  <2>2. d # c
    BY <2>1 DEF Inserting
  <2>. QED BY <1>1, <2>1, <2>2
<1>. QED BY <1>3, <1>4, <1>5, <1>6, <1>7 DEF TunInv

LEMMA TunTyped ==
    ASSUME TunInv, NEW c \in Callers
    PROVE  /\ tunCall \in [Callers -> CallOfTunnels] /\ tunCall[c] \in CallOfTunnels
           /\ tunCall[c].op = "none" <=> tunCall[c].at = "idle"
           /\ tunCall[c].at \in {"listen", "insert"} => tunCall[c].op = "start"
           /\ tunCall[c].op = "start" => tunCall[c].session \in Sessions
           /\ tunCall[c].at # "close" => tunCall[c].closing = {}
           /\ Tun!Resting \in CallOfTunnels
BY DEF TunInv, Tun!TypeOK, CallOfTunnels, TunCallsSound, ClosingApart, Tun!Resting

LEMMA TunBeginKeeps ==
    ASSUME TunInv, NEW c \in Callers, NEW op \in {"start", "stop", "dispose", "all"},
           NEW s \in Sessions \cup {None}, op = "start" => s \in Sessions,
           NEW p \in Ports \cup {None}, Tun!Begin(c, op, s, p)
    PROVE  TunInv'
<1> DEFINE r == [Tun!Resting EXCEPT !.op = op, !.at = "lock", !.session = s, !.port = p]
<1>1. /\ tunCall' = [tunCall EXCEPT ![c] = r] /\ tunCall[c].at = "idle" /\ tunCall[c].closing = {}
      /\ UNCHANGED <<table, forward, listening, tunClosed, conns>>
  BY TunTyped DEF Tun!Begin
<1>2. r \in CallOfTunnels /\ r.op = op /\ r.at = "lock" /\ r.session = s /\ r.closing = {}
  BY DEF CallOfTunnels, Tun!Resting
<1> HIDE DEF r
<1>3. tunClosed \in BOOLEAN /\ (tunClosed => table = {})
  BY DEF TunInv, Tun!TypeOK, Tun!ListenersOwned
<1>. QED BY <1>1, <1>2, <1>3, TunCallMoves DEF Inserting

LEMMA LookKeeps ==
    ASSUME TunInv, NEW c \in Callers, Tun!Look(c)
    PROVE  TunInv'
<1>1. /\ tunCall[c].op = "start" /\ tunCall[c].at = "lock" /\ tunCall[c].closing = {}
      /\ tunCall[c] \in CallOfTunnels /\ tunCall[c].session \in Sessions /\ Tun!Resting \in CallOfTunnels
      /\ UNCHANGED <<table, forward, listening, tunClosed, conns>>
  BY TunTyped DEF Tun!Look
<1>2. PICK r \in CallOfTunnels : /\ tunCall' = [tunCall EXCEPT ![c] = r]
                                 /\ r = Tun!Resting \/ r = [tunCall[c] EXCEPT !.at = "listen"]
  <2>1. [tunCall[c] EXCEPT !.at = "listen"] \in CallOfTunnels
    BY <1>1 DEF CallOfTunnels
  <2>. QED BY <1>1, <2>1 DEF Tun!Look, Tun!End, Tun!Go
<1>3. /\ r.closing = {} /\ r.at \in {"idle", "listen"} /\ (r.op = "none" <=> r.at = "idle")
      /\ r.op \in {"none", "start"}
      /\ r.op = "start" => r.session \in Sessions
  BY <1>1, <1>2 DEF Tun!Resting, CallOfTunnels
<1>4. tunClosed \in BOOLEAN /\ (tunClosed => table = {})
  BY DEF TunInv, Tun!TypeOK, Tun!ListenersOwned
<1>. QED BY <1>1, <1>2, <1>3, <1>4, TunCallMoves DEF Inserting

LEMMA ListenKeeps ==
    ASSUME TunInv, NEW c \in Callers, Tun!Listen(c)
    PROVE  TunInv'
<1>1. /\ tunCall[c].at = "listen" /\ tunCall[c].op = "start" /\ tunCall[c].closing = {}
      /\ tunCall \in [Callers -> CallOfTunnels] /\ tunCall[c] \in CallOfTunnels
      /\ tunCall[c].session \in Sessions /\ Tun!Resting \in CallOfTunnels
      /\ UNCHANGED <<table, tunClosed, conns>>
  BY TunTyped DEF Tun!Listen
<1>2. tunClosed \in BOOLEAN /\ (tunClosed => table = {})
  BY DEF TunInv, Tun!TypeOK, Tun!ListenersOwned
<1>3. CASE Tun!End(c) /\ UNCHANGED <<forward, listening>>
  <2>1. tunCall' = [tunCall EXCEPT ![c] = Tun!Resting]
    BY <1>3 DEF Tun!End
  <2>2. Tun!Resting.op = "none" /\ Tun!Resting.at = "idle" /\ Tun!Resting.closing = {}
    BY DEF Tun!Resting
  <2>. QED BY <1>1, <1>2, <1>3, <2>1, <2>2, TunCallMoves DEF Inserting
<1>4. CASE ~(Tun!End(c) /\ UNCHANGED <<forward, listening>>)
  <2>1. PICK n \in Tun!Forwards \ Tun!Opened :
          /\ forward' = [forward EXCEPT ![n] = [session |-> tunCall[c].session, port |-> tunCall[c].port]]
          /\ listening' = listening \cup {n}
          /\ tunCall' = [tunCall EXCEPT ![c].at = "insert", ![c].own = n]
    BY <1>4 DEF Tun!Listen
  <2>2. /\ tunCall'[c].at = "insert" /\ tunCall'[c].own = n /\ tunCall'[c].op = "start"
        /\ tunCall'[c].session = tunCall[c].session /\ tunCall'[c].closing = {}
        /\ \A d \in Callers \ {c} : tunCall'[d] = tunCall[d]
    BY <1>1, <2>1 DEF CallOfTunnels
  <2>3. tunCall' \in [Callers -> CallOfTunnels]
    BY <1>1, <2>1 DEF CallOfTunnels
  <2>4. /\ forward \in [Tun!Forwards -> [session: Sessions \cup {None}, port: Ports \cup {None}]]
        /\ forward' \in [Tun!Forwards -> [session: Sessions \cup {None}, port: Ports \cup {None}]]
    BY <1>1, <2>1 DEF TunInv, Tun!TypeOK, CallOfTunnels
  <2>5. /\ forward'[n].session = tunCall[c].session
        /\ \A m \in Tun!Forwards \ {n} : forward'[m] = forward[m]
    BY <2>1, <2>4
  <2>6. Tun!Opened' = Tun!Opened \cup {n} /\ n \notin Tun!Opened
    BY <1>1, <2>1, <2>5, NamesApart DEF Tun!Opened, Callers
  <2>7. table \subseteq Tun!Opened /\ listening \subseteq Tun!Opened
    BY DEF TunInv, Tun!TypeOK
  <2>8. Tun!TypeOK'
    BY <1>1, <2>1, <2>3, <2>4, <2>6, <2>7 DEF TunInv, Tun!TypeOK, CallOfTunnels
  <2>9. TunCallsSound'
    BY <1>1, <2>2 DEF TunInv, TunCallsSound
  <2>10. ClosingApart'
    BY <1>1, <2>2, <2>6 DEF TunInv, ClosingApart
  <2>11. OwnListener'
    <3> SUFFICES ASSUME NEW d \in Callers, Inserting(d)'
                 PROVE  /\ tunCall'[d].own \in listening' \ table'
                        /\ forward'[tunCall'[d].own].session = tunCall'[d].session
                        /\ \A e \in Callers : /\ tunCall'[d].own \notin tunCall'[e].closing
                                              /\ Inserting(e)' /\ tunCall'[e].own = tunCall'[d].own => e = d
      BY DEF OwnListener
    <3>1. \A e \in Callers : n \notin tunCall'[e].closing
      BY <2>2, <2>6 DEF TunInv, ClosingApart
    <3>2. \A e \in Callers \ {c} : Inserting(e)' => tunCall'[e].own \in Tun!Opened /\ tunCall'[e].own # n
      BY <2>2, <2>6, <2>7 DEF TunInv, OwnListener, Inserting
    <3>3. CASE d = c
      BY <1>1, <2>1, <2>2, <2>5, <2>6, <2>7, <3>1, <3>2, <3>3
    <3>4. CASE d # c
      <4>1. /\ tunCall[d].own \in listening \ table
            /\ forward[tunCall[d].own].session = tunCall[d].session
            /\ \A e \in Callers : /\ tunCall[d].own \notin tunCall[e].closing
                                  /\ Inserting(e) /\ tunCall[e].own = tunCall[d].own => e = d
        BY <2>2, <3>4 DEF TunInv, OwnListener, Inserting
      <4>2. tunCall[d].own \in Tun!Forwards \ {n}
        BY <2>6, <2>7, <4>1 DEF Tun!Opened
      <4>3. \A e \in Callers : tunCall'[d].own \notin tunCall'[e].closing
        BY <2>2, <3>4, <4>1
      <4>4. \A e \in Callers : Inserting(e)' /\ tunCall'[e].own = tunCall'[d].own => e = d
        BY <2>2, <3>4, <4>1, <4>2 DEF Inserting
      <4>. QED BY <1>1, <2>1, <2>2, <2>5, <3>4, <4>1, <4>2, <4>3, <4>4
    <3>. QED BY <3>3, <3>4
  <2>12. Tun!ListenersOwned'
    <3>1. table' \subseteq listening' /\ (tunClosed' => table' = {})
      BY <1>1, <2>1 DEF TunInv, Tun!ListenersOwned
    <3>2. ASSUME NEW m \in listening' \ table'
          PROVE  \E d \in Callers : m \in tunCall'[d].closing \/ (tunCall'[d].at = "insert" /\ tunCall'[d].own = m)
      <4>1. CASE m = n
        BY <2>2, <4>1
      <4>2. CASE m # n
        <5>1. PICK d \in Callers : m \in tunCall[d].closing \/ (tunCall[d].at = "insert" /\ tunCall[d].own = m)
          BY <1>1, <2>1, <3>2, <4>2 DEF TunInv, Tun!ListenersOwned
        <5>2. d # c
          BY <1>1, <5>1
        <5>. QED BY <2>2, <5>1, <5>2
      <4>. QED BY <4>1, <4>2
    <3>. QED BY <3>1, <3>2 DEF Tun!ListenersOwned
  <2>. QED BY <2>8, <2>9, <2>10, <2>11, <2>12 DEF TunInv
<1>. QED BY <1>3, <1>4

LEMMA InsertKeeps ==
    ASSUME TunInv, NEW c \in Callers, Tun!Insert(c)
    PROVE  TunInv'
<1>0. PICK n : n = tunCall[c].own
  OBVIOUS
<1>1. /\ tunCall[c].at = "insert" /\ tunCall[c].op = "start" /\ tunCall[c].closing = {}
      /\ tunCall \in [Callers -> CallOfTunnels] /\ tunCall[c] \in CallOfTunnels
      /\ Tun!Resting \in CallOfTunnels
      /\ UNCHANGED <<forward, listening, tunClosed, conns>>
  BY TunTyped DEF Tun!Insert
<1>2. /\ n \in listening /\ n \notin table /\ n \in Tun!Opened /\ n \in Tun!Forwards
      /\ \A d \in Callers : /\ n \notin tunCall[d].closing
                            /\ Inserting(d) /\ tunCall[d].own = n => d = c
  BY <1>0, <1>1 DEF TunInv, OwnListener, Inserting, Tun!TypeOK, Tun!Opened
<1>3. Tun!Opened' = Tun!Opened
  BY <1>1 DEF Tun!Opened
<1>4. /\ table \subseteq Tun!Opened /\ table \subseteq listening /\ listening \subseteq Tun!Opened
      /\ (tunClosed => table = {}) /\ tunClosed \in BOOLEAN
  BY DEF TunInv, Tun!TypeOK, Tun!ListenersOwned
<1>5. \/ /\ tunClosed /\ table' = table
         /\ tunCall' = [tunCall EXCEPT ![c].at = "close", ![c].closing = {n}]
      \/ /\ ~tunClosed /\ table' = table \cup {n}
         /\ tunCall' = [tunCall EXCEPT ![c] = Tun!Resting]
  BY <1>0 DEF Tun!Insert, Tun!End
<1>6. /\ tunCall' \in [Callers -> CallOfTunnels] /\ tunCall'[c].at \in {"close", "idle"}
      /\ \A d \in Callers \ {c} : tunCall'[d] = tunCall[d]
  BY <1>1, <1>2, <1>5 DEF CallOfTunnels, Tun!Resting
<1>7. /\ tunCall'[c].op = "none" <=> tunCall'[c].at = "idle"
      /\ tunCall'[c].op = "start" => tunCall'[c].session \in Sessions
      /\ tunCall'[c].closing # {} => tunCall'[c].at = "close"
      /\ tunCall'[c].closing \subseteq {n} \ table'
      /\ n \in listening \ table' => n \in tunCall'[c].closing
  <2>1. tunCall[c].session \in Sessions
    BY <1>1, TunTyped
  <2>. QED BY <1>1, <1>2, <1>5, <2>1 DEF CallOfTunnels, Tun!Resting
<1>8. Tun!TypeOK'
  BY <1>1, <1>2, <1>3, <1>4, <1>5, <1>6 DEF TunInv, Tun!TypeOK, CallOfTunnels
<1>9. TunCallsSound'
  BY <1>6, <1>7 DEF TunInv, TunCallsSound
<1>10. ClosingApart'
  <2>1. \A d \in Callers \ {c} : tunCall'[d].closing \subseteq Tun!Opened' \ table'
    BY <1>2, <1>3, <1>5, <1>6 DEF TunInv, ClosingApart
  <2>. QED BY <1>2, <1>3, <1>6, <1>7, <2>1 DEF TunInv, ClosingApart
<1>11. OwnListener'
  <2> SUFFICES ASSUME NEW d \in Callers, Inserting(d)'
               PROVE  /\ tunCall'[d].own \in listening' \ table'
                      /\ forward'[tunCall'[d].own].session = tunCall'[d].session
                      /\ \A e \in Callers : /\ tunCall'[d].own \notin tunCall'[e].closing
                                            /\ Inserting(e)' /\ tunCall'[e].own = tunCall'[d].own => e = d
    BY DEF OwnListener
  <2>1. d # c /\ tunCall'[d] = tunCall[d] /\ Inserting(d)
    BY <1>6 DEF Inserting
  <2>2. /\ tunCall[d].own \in listening \ table
        /\ forward[tunCall[d].own].session = tunCall[d].session
        /\ \A e \in Callers : /\ tunCall[d].own \notin tunCall[e].closing
                              /\ Inserting(e) /\ tunCall[e].own = tunCall[d].own => e = d
        /\ tunCall[d].own # n
    BY <1>2, <2>1 DEF TunInv, OwnListener
  <2>3. \A e \in Callers : tunCall'[d].own \notin tunCall'[e].closing
    BY <1>6, <1>7, <2>1, <2>2
  <2>4. \A e \in Callers : Inserting(e)' /\ tunCall'[e].own = tunCall'[d].own => e = d
    BY <1>6, <2>1, <2>2 DEF Inserting
  <2>. QED BY <1>1, <1>5, <2>1, <2>2, <2>3, <2>4
<1>12. Tun!ListenersOwned'
  <2>1. table' \subseteq listening' /\ (tunClosed' => table' = {})
    BY <1>1, <1>2, <1>4, <1>5
  <2>2. ASSUME NEW m \in listening' \ table'
        PROVE  \E d \in Callers : m \in tunCall'[d].closing \/ (tunCall'[d].at = "insert" /\ tunCall'[d].own = m)
    <3>1. CASE m = n
      BY <1>1, <1>7, <2>2, <3>1
    <3>2. CASE m # n
      <4>1. PICK d \in Callers : m \in tunCall[d].closing \/ (tunCall[d].at = "insert" /\ tunCall[d].own = m)
        BY <1>1, <1>5, <2>2 DEF TunInv, Tun!ListenersOwned
      <4>2. d # c
        BY <1>0, <1>1, <3>2, <4>1
      <4>. QED BY <1>6, <4>1, <4>2
    <3>. QED BY <3>1, <3>2
  <2>. QED BY <2>1, <2>2 DEF Tun!ListenersOwned
<1>. QED BY <1>8, <1>9, <1>10, <1>11, <1>12 DEF TunInv

LEMMA TakeOutKeeps ==
    ASSUME TunInv, NEW c \in Callers, Tun!TakeOut(c)
    PROVE  TunInv'
<1>0. PICK taken \in SUBSET table :
        /\ tunCall[c].op = "all" => taken = table
        /\ tunCall' = [tunCall EXCEPT ![c].at = "close", ![c].closing = taken]
        /\ table' = table \ taken
  BY DEF Tun!TakeOut, Tun!Taken
<1>1. /\ tunCall[c].at = "lock" /\ tunCall[c].op \in {"stop", "dispose", "all"}
      /\ tunCall[c].closing = {}
      /\ tunCall \in [Callers -> CallOfTunnels] /\ tunCall[c] \in CallOfTunnels
      /\ tunCall' = [tunCall EXCEPT ![c].at = "close", ![c].closing = taken]
      /\ table' = table \ taken /\ tunClosed' = (tunClosed \/ tunCall[c].op = "all")
      /\ UNCHANGED <<forward, listening, conns>>
  BY <1>0, TunTyped DEF Tun!TakeOut
<1>2. /\ table \subseteq Tun!Opened /\ table \subseteq listening /\ listening \subseteq Tun!Opened
      /\ (tunClosed => table = {}) /\ tunClosed \in BOOLEAN /\ taken \subseteq Tun!Forwards
  BY DEF TunInv, Tun!TypeOK, Tun!ListenersOwned, Tun!Opened
<1>3. Tun!Opened' = Tun!Opened
  BY <1>1 DEF Tun!Opened
<1>4. /\ tunCall' \in [Callers -> CallOfTunnels] /\ tunCall'[c].at = "close"
      /\ tunCall'[c].closing = taken /\ tunCall'[c].op = tunCall[c].op
      /\ \A d \in Callers \ {c} : tunCall'[d] = tunCall[d]
  BY <1>1, <1>2 DEF CallOfTunnels
<1>5. Tun!TypeOK'
  <2>1. tunClosed' \in BOOLEAN /\ table' \subseteq Tun!Opened
    BY <1>1, <1>2
  <2>. QED BY <1>1, <1>3, <1>4, <2>1 DEF TunInv, Tun!TypeOK, CallOfTunnels
<1>6. TunCallsSound'
  BY <1>1, <1>4 DEF TunInv, TunCallsSound
<1>7. ClosingApart'
  <2>1. \A d \in Callers \ {c} : tunCall'[d].closing \subseteq Tun!Opened' \ table'
    BY <1>1, <1>3, <1>4 DEF TunInv, ClosingApart
  <2>2. tunCall'[c].closing \subseteq Tun!Opened' \ table'
    BY <1>1, <1>2, <1>3, <1>4
  <2>. QED BY <1>4, <2>1, <2>2 DEF TunInv, ClosingApart
<1>8. OwnListener'
  <2> SUFFICES ASSUME NEW d \in Callers, Inserting(d)'
               PROVE  /\ tunCall'[d].own \in listening' \ table'
                      /\ forward'[tunCall'[d].own].session = tunCall'[d].session
                      /\ \A e \in Callers : /\ tunCall'[d].own \notin tunCall'[e].closing
                                            /\ Inserting(e)' /\ tunCall'[e].own = tunCall'[d].own => e = d
    BY DEF OwnListener
  <2>1. d # c /\ tunCall'[d] = tunCall[d] /\ Inserting(d)
    BY <1>4 DEF Inserting
  <2>2. /\ tunCall[d].own \in listening \ table
        /\ forward[tunCall[d].own].session = tunCall[d].session
        /\ \A e \in Callers : /\ tunCall[d].own \notin tunCall[e].closing
                              /\ Inserting(e) /\ tunCall[e].own = tunCall[d].own => e = d
    BY <2>1 DEF TunInv, OwnListener
  <2>3. \A e \in Callers : tunCall'[d].own \notin tunCall'[e].closing
    BY <1>4, <2>1, <2>2
  <2>4. \A e \in Callers : Inserting(e)' /\ tunCall'[e].own = tunCall'[d].own => e = d
    BY <1>4, <2>1, <2>2 DEF Inserting
  <2>. QED BY <1>1, <2>1, <2>2, <2>3, <2>4
<1>9. Tun!ListenersOwned'
  <2>1. table' \subseteq listening' /\ (tunClosed' => table' = {})
    BY <1>0, <1>1, <1>2
  <2>2. ASSUME NEW m \in listening' \ table'
        PROVE  \E d \in Callers : m \in tunCall'[d].closing \/ (tunCall'[d].at = "insert" /\ tunCall'[d].own = m)
    <3>1. CASE m \in taken
      BY <1>4, <3>1
    <3>2. CASE m \notin taken
      <4>1. PICK d \in Callers : m \in tunCall[d].closing \/ (tunCall[d].at = "insert" /\ tunCall[d].own = m)
        BY <1>1, <2>2, <3>2 DEF TunInv, Tun!ListenersOwned
      <4>2. d # c
        BY <1>1, <4>1
      <4>. QED BY <1>4, <4>1, <4>2
    <3>. QED BY <3>1, <3>2
  <2>. QED BY <2>1, <2>2 DEF Tun!ListenersOwned
<1>. QED BY <1>5, <1>6, <1>7, <1>8, <1>9 DEF TunInv

LEMMA CloseNextKeeps ==
    ASSUME TunInv, NEW c \in Callers, Tun!CloseNext(c)
    PROVE  TunInv'
<1>1. /\ tunCall[c].at = "close" /\ UNCHANGED <<table, forward, tunClosed, conns>>
      /\ tunCall \in [Callers -> CallOfTunnels] /\ tunCall[c] \in CallOfTunnels
      /\ Tun!Resting \in CallOfTunnels /\ (tunCall[c].op = "start" => tunCall[c].session \in Sessions)
      /\ tunCall[c].op # "none"
  BY TunTyped DEF Tun!CloseNext
<1>2. /\ (tunClosed => table = {}) /\ tunClosed \in BOOLEAN
      /\ table \subseteq Tun!Opened /\ table \subseteq listening /\ listening \subseteq Tun!Opened
  BY DEF TunInv, Tun!TypeOK, Tun!ListenersOwned
<1>3. CASE tunCall[c].closing = {}
  <2>1. UNCHANGED listening /\ tunCall' = [tunCall EXCEPT ![c] = Tun!Resting]
    BY <1>3 DEF Tun!CloseNext, Tun!End
  <2>2. Tun!Resting.op = "none" /\ Tun!Resting.at = "idle" /\ Tun!Resting.closing = {}
    BY DEF Tun!Resting
  <2>. QED BY <1>1, <1>2, <1>3, <2>1, <2>2, TunCallMoves DEF Inserting
<1>4. CASE tunCall[c].closing # {}
  <2>1. PICK n \in tunCall[c].closing :
          /\ listening' = listening \ {n}
          /\ tunCall' = [tunCall EXCEPT ![c].closing = tunCall[c].closing \ {n}]
    BY <1>4 DEF Tun!CloseNext
  <2>2. n \notin table /\ Tun!Opened' = Tun!Opened
    BY <1>1 DEF TunInv, ClosingApart, Tun!Opened
  <2>3. /\ tunCall' \in [Callers -> CallOfTunnels]
        /\ tunCall'[c].at = tunCall[c].at /\ tunCall'[c].op = tunCall[c].op
        /\ tunCall'[c].session = tunCall[c].session
        /\ tunCall'[c].closing = tunCall[c].closing \ {n}
        /\ \A d \in Callers \ {c} : tunCall'[d] = tunCall[d]
    BY <1>1, <2>1 DEF CallOfTunnels
  <2>4. Tun!TypeOK'
    <3>1. table' \subseteq Tun!Opened /\ listening' \subseteq Tun!Opened
      BY <1>1, <1>2, <2>1
    <3>. QED BY <1>1, <2>2, <2>3, <3>1 DEF TunInv, Tun!TypeOK, CallOfTunnels
  <2>5. TunCallsSound'
    BY <2>3 DEF TunInv, TunCallsSound
  <2>6. ClosingApart'
    BY <1>1, <2>2, <2>3 DEF TunInv, ClosingApart
  <2>7. OwnListener'
    <3> SUFFICES ASSUME NEW d \in Callers, Inserting(d)'
                 PROVE  /\ tunCall'[d].own \in listening' \ table'
                        /\ forward'[tunCall'[d].own].session = tunCall'[d].session
                        /\ \A e \in Callers : /\ tunCall'[d].own \notin tunCall'[e].closing
                                              /\ Inserting(e)' /\ tunCall'[e].own = tunCall'[d].own => e = d
      BY DEF OwnListener
    <3>1. d # c /\ tunCall'[d] = tunCall[d] /\ Inserting(d)
      BY <1>1, <2>3 DEF Inserting
    <3>2. /\ tunCall[d].own \in listening \ table
          /\ forward[tunCall[d].own].session = tunCall[d].session
          /\ \A e \in Callers : /\ tunCall[d].own \notin tunCall[e].closing
                                /\ Inserting(e) /\ tunCall[e].own = tunCall[d].own => e = d
      BY <3>1 DEF TunInv, OwnListener
    <3>3. \A e \in Callers : tunCall'[d].own \notin tunCall'[e].closing
      BY <2>3, <3>1, <3>2
    <3>4. \A e \in Callers : Inserting(e)' /\ tunCall'[e].own = tunCall'[d].own => e = d
      BY <1>1, <2>3, <3>1, <3>2 DEF Inserting
    <3>. QED BY <1>1, <2>1, <3>1, <3>2, <3>3, <3>4
  <2>8. Tun!ListenersOwned'
    <3>1. table' \subseteq listening' /\ (tunClosed' => table' = {})
      BY <1>1, <1>2, <2>1, <2>2
    <3>2. ASSUME NEW m \in listening' \ table'
          PROVE  \E d \in Callers : m \in tunCall'[d].closing \/ (tunCall'[d].at = "insert" /\ tunCall'[d].own = m)
      <4>1. PICK d \in Callers : m \in tunCall[d].closing \/ (tunCall[d].at = "insert" /\ tunCall[d].own = m)
        BY <1>1, <2>1, <3>2 DEF TunInv, Tun!ListenersOwned
      <4>2. m # n
        BY <2>1, <3>2
      <4>. QED BY <1>1, <2>3, <4>1, <4>2
    <3>. QED BY <3>1, <3>2 DEF Tun!ListenersOwned
  <2>. QED BY <2>4, <2>5, <2>6, <2>7, <2>8 DEF TunInv
<1>. QED BY <1>3, <1>4

LEMMA ConnsKeep ==
    ASSUME TunInv, UNCHANGED <<table, forward, listening, tunClosed, tunCall>>,
           conns' \in [Tun!Conns -> [at: {"none", "dial", "copy", "half", "over"}, of: Tun!Forwards \cup {None}]]
    PROVE  TunInv'
BY DEF TunInv, Tun!TypeOK, TunCallsSound, ClosingApart, OwnListener, Inserting, Tun!ListenersOwned, Tun!Opened

LEMMA TunGoesKeeps == TunInv /\ Tun!Goes => TunInv'
<1> SUFFICES ASSUME TunInv, Tun!Goes PROVE TunInv'
  OBVIOUS
<1>0. conns \in [Tun!Conns -> [at: {"none", "dial", "copy", "half", "over"}, of: Tun!Forwards \cup {None}]]
  BY DEF TunInv, Tun!TypeOK
<1>1. CASE \E c \in Callers : Tun!Step(c)
  BY <1>1, LookKeeps, ListenKeeps, InsertKeeps, TakeOutKeeps, CloseNextKeeps DEF Tun!Step
<1>2. ASSUME NEW n \in Tun!Forwards, Tun!Accept(n) PROVE TunInv'
  <2>1. PICK k \in Tun!Conns : conns' = [conns EXCEPT ![k] = [at |-> "dial", of |-> n]]
    BY <1>2 DEF Tun!Accept
  <2>2. conns' \in [Tun!Conns -> [at: {"none", "dial", "copy", "half", "over"}, of: Tun!Forwards \cup {None}]]
    BY <1>0, <2>1
  <2>3. UNCHANGED <<table, forward, listening, tunClosed, tunCall>>
    BY <1>2 DEF Tun!Accept
  <2>. QED BY <2>2, <2>3, ConnsKeep
<1>3. ASSUME NEW k \in Tun!Conns, NEW from, NEW to \in {"copy", "half", "over"}, Tun!Connects(k, from, to)
      PROVE  TunInv'
  <2>1. conns' = [conns EXCEPT ![k].at = to] /\ UNCHANGED <<table, forward, listening, tunClosed, tunCall>>
    BY <1>3 DEF Tun!Connects
  <2>2. conns' \in [Tun!Conns -> [at: {"none", "dial", "copy", "half", "over"}, of: Tun!Forwards \cup {None}]]
    BY <1>0, <2>1
  <2>. QED BY <2>1, <2>2, ConnsKeep
<1>. QED BY <1>1, <1>2, <1>3 DEF Tun!Goes, Tun!Dial, Tun!DialFails, Tun!HangUp, Tun!CutOff, Tun!CopyEnds

LEMMA TunnelsStay ==
    ASSUME TunInv, UNCHANGED tunnels
    PROVE  TunInv'
BY ConnsKeep DEF tunnels, TunInv, Tun!TypeOK

LEMMA TunInitial == Tun!Init => TunInv
<1> SUFFICES ASSUME Tun!Init PROVE TunInv
  OBVIOUS
<1>1. /\ table = {} /\ listening = {} /\ tunClosed = FALSE
      /\ tunCall = [c \in Callers |-> Tun!Resting]
      /\ forward = [n \in Tun!Forwards |-> [session |-> None, port |-> None]]
      /\ conns = [k \in Tun!Conns |-> [at |-> "none", of |-> None]]
  BY DEF Tun!Init
<1>2. /\ Tun!Resting \in CallOfTunnels /\ Tun!Resting.op = "none" /\ Tun!Resting.at = "idle"
      /\ Tun!Resting.closing = {}
  BY DEF Tun!Resting, CallOfTunnels
<1>3. Tun!TypeOK
  BY <1>1, <1>2 DEF Tun!TypeOK, CallOfTunnels
<1>. QED BY <1>1, <1>2, <1>3 DEF TunInv, TunCallsSound, ClosingApart, OwnListener, Inserting, Tun!ListenersOwned

-----------------------------------------------------------------------------
(* The SFTP clients keep their part.                                       *)

CallOfSftp == [op: {"none", "use", "chdir", "interrupt", "dispose", "all"},
               at: {"idle", "table", "lock", "open", "home", "use", "setCwd", "take", "close", "visit"},
               session: Sessions \cup {None}, handle: Sftp!Handles \cup {None},
               client: Sftp!Clients \cup {None}, dir: Dirs \cup {None},
               todo: SUBSET Sftp!Handles]

HandleOfSftp == [of: Sessions \cup {None}, client: Sftp!Clients \cup {None},
                 cwd: Dirs \cup {Home, None}, busy: Callers \cup {None}]

OnHandle == Works \cup {"take"}

LEMMA SftpTyped ==
    ASSUME SftpInv, NEW c \in Callers
    PROVE  /\ sftpCall \in [Callers -> CallOfSftp] /\ sftpCall[c] \in CallOfSftp
           /\ handle \in [Sftp!Handles -> HandleOfSftp]
           /\ handles \in [Sessions -> Sftp!Handles \cup {None}]
           /\ clientOf \in [Sftp!Clients -> Sessions \cup {None}] /\ openClients \subseteq Sftp!Clients
           /\ sftpCall[c].op = "none" <=> sftpCall[c].at = "idle"
           /\ sftpCall[c].at \in OnHandle =>
                sftpCall[c].handle \in Sftp!MadeHandles /\ sftpCall[c].handle \in Sftp!Handles
           /\ sftpCall[c].todo \subseteq Sftp!MadeHandles
           /\ Sftp!NoCall \in CallOfSftp
<1>1. Sftp!NoCall \in CallOfSftp
  BY DEF Sftp!NoCall, CallOfSftp
<1>. QED BY <1>1 DEF SftpInv, Sftp!TypeOK, CallOfSftp, HandleOfSftp, SftpCallsSound, HandlesMade, OnHandle,
            Works, Sftp!MadeHandles

NewCallSound(r) ==
    /\ r.op = "none" <=> r.at = "idle"
    /\ r.at \in Works => r.op \in {"use", "chdir"}
    /\ r.at = "setCwd" => r.op = "chdir"
    /\ r.op \notin {"none", "all"} => r.session \in Sessions
    /\ r.todo \subseteq Sftp!MadeHandles
    /\ r.at \in OnHandle => r.handle \in Sftp!MadeHandles
    /\ r.at \in Works => handle[r.handle].of = r.session

(* A step of a call that leaves the handles alone: it keeps the lock it    *)
(* holds, and a client it leaves is owned.                                 *)
LEMMA SftpCallMoves ==
    ASSUME SftpInv, NEW c \in Callers, NEW r \in CallOfSftp,
           sftpCall' = [sftpCall EXCEPT ![c] = r],
           UNCHANGED <<handle, clientOf>>, openClients' \subseteq openClients,
           handles' \in [Sessions -> Sftp!Handles \cup {None}],
           \A s \in Sessions : handles'[s] \in {handles[s], None},
           NewCallSound(r), r.at \notin {"open", "home"},
           sftpCall[c].at = "close" => openClients' = openClients \ {sftpCall[c].client},
           sftpCall[c].at # "home"
    PROVE  SftpInv'
<1>1. /\ sftpCall \in [Callers -> CallOfSftp] /\ handle \in [Sftp!Handles -> HandleOfSftp]
      /\ clientOf \in [Sftp!Clients -> Sessions \cup {None}] /\ openClients \subseteq Sftp!Clients
  BY SftpTyped
<1>2. /\ sftpCall' \in [Callers -> CallOfSftp]
      /\ sftpCall'[c] = r /\ \A d \in Callers \ {c} : sftpCall'[d] = sftpCall[d]
  BY <1>1
<1>3. Sftp!MadeHandles' = Sftp!MadeHandles
  BY DEF Sftp!MadeHandles
<1>4. Sftp!TypeOK'
  BY <1>1, <1>2 DEF Sftp!TypeOK, CallOfSftp, HandleOfSftp
<1>5. SftpCallsSound'
  <2>1. SftpCallsSound
    BY DEF SftpInv
  <2>. QED BY <1>2, <1>3, <2>1 DEF SftpCallsSound, NewCallSound, Sftp!Operates
<1>6. HandlesMade'
  <2>1. HandlesMade
    BY DEF SftpInv
  <2>2. \A s \in Sessions : handles'[s] # None => /\ handles'[s] \in Sftp!MadeHandles
                                                 /\ handle[handles'[s]].of = s
    BY <2>1 DEF HandlesMade
  <2>3. ASSUME NEW d \in Callers
        PROVE  /\ sftpCall'[d].at \in OnHandle => sftpCall'[d].handle \in Sftp!MadeHandles
               /\ sftpCall'[d].at \in Works => handle[sftpCall'[d].handle].of = sftpCall'[d].session
    BY <1>2, <2>1 DEF HandlesMade, NewCallSound, Sftp!Mine, OnHandle
  <2>. QED BY <1>3, <2>2, <2>3 DEF HandlesMade, Sftp!Mine, OnHandle
<1>7. HandlesInOrder'
  BY <1>3 DEF SftpInv, HandlesInOrder
<1>8. OpeningLocks'
  BY <1>2 DEF SftpInv, OpeningLocks, Sftp!Mine
<1>9. Sftp!ClientsOwned'
  <2> SUFFICES ASSUME NEW k \in openClients'
               PROVE  \/ \E h \in Sftp!MadeHandles : handle[h].client = k
                      \/ \E d \in Callers : sftpCall'[d].client = k /\ sftpCall'[d].at \in {"home", "close"}
    BY <1>3 DEF Sftp!ClientsOwned
  <2>1. \/ \E h \in Sftp!MadeHandles : handle[h].client = k
        \/ \E d \in Callers : sftpCall[d].client = k /\ sftpCall[d].at \in {"home", "close"}
    BY DEF SftpInv, Sftp!ClientsOwned
  <2>2. ASSUME NEW d \in Callers, sftpCall[d].client = k, sftpCall[d].at \in {"home", "close"} PROVE d # c
    BY <2>2
  <2>. QED BY <1>2, <2>1, <2>2
<1>. QED BY <1>4, <1>5, <1>6, <1>7, <1>8, <1>9 DEF SftpInv

LEMMA IdleSound == NewCallSound(Sftp!NoCall) /\ Sftp!NoCall.at = "idle"
BY DEF NewCallSound, Sftp!NoCall, OnHandle, Works

LEMMA CallIsSound ==
    ASSUME SftpInv, NEW c \in Callers
    PROVE  NewCallSound(sftpCall[c])
<1>1. SftpCallsSound /\ HandlesMade
  BY DEF SftpInv
<1>. QED BY <1>1 DEF NewCallSound, SftpCallsSound, HandlesMade, Sftp!Operates, Sftp!Mine, OnHandle

LEMMA SftpBeginKeeps ==
    ASSUME SftpInv, NEW c \in Callers, NEW op \in {"use", "chdir", "interrupt", "dispose", "all"},
           NEW s \in Sessions \cup {None}, op # "all" => s \in Sessions,
           NEW d \in Dirs \cup {None}, Sftp!Begin(c, op, s, d)
    PROVE  SftpInv'
<1>1. PICK r : r = [Sftp!NoCall EXCEPT !.op = op, !.at = "table", !.session = s, !.dir = d]
  OBVIOUS
<1>2. r \in CallOfSftp /\ r.op = op /\ r.at = "table" /\ r.session = s /\ r.todo = {}
  BY <1>1 DEF CallOfSftp, Sftp!NoCall
<1>3. /\ sftpCall' = [sftpCall EXCEPT ![c] = r] /\ sftpCall[c].at = "idle"
      /\ UNCHANGED <<handles, handle, clientOf, openClients>>
      /\ handles \in [Sessions -> Sftp!Handles \cup {None}]
  BY <1>1, SftpTyped DEF Sftp!Begin
<1>4. NewCallSound(r)
  BY <1>2 DEF NewCallSound, OnHandle, Works
<1>. QED BY <1>2, <1>3, <1>4, SftpCallMoves

(* The handle that is made next is new.                                    *)
LEMMA NextHandle ==
    ASSUME SftpInv, NEW h, h = Sftp!Cardinality(Sftp!MadeHandles) + 1
    PROVE  /\ h \notin Sftp!MadeHandles
           /\ \A g \in Sftp!Handles : g < h => g \in Sftp!MadeHandles
           /\ \A g \in Sftp!MadeHandles : g < h
<1>1. MaxHandles \in Nat /\ Sftp!MadeHandles \in SUBSET (1 .. MaxHandles)
  BY BoundsAreNat DEF Sftp!MadeHandles, Sftp!Handles
<1>2. \A g \in Sftp!MadeHandles : \A i \in 1 .. MaxHandles : i < g => i \in Sftp!MadeHandles
  BY DEF SftpInv, HandlesInOrder, Sftp!Handles
<1>3. /\ Cardinality(Sftp!MadeHandles) \in Nat
      /\ \A g \in Sftp!MadeHandles : g <= Cardinality(Sftp!MadeHandles)
      /\ \A i \in 1 .. MaxHandles : i <= Cardinality(Sftp!MadeHandles) => i \in Sftp!MadeHandles
  BY <1>1, <1>2, Numbering
<1>4. h = Cardinality(Sftp!MadeHandles) + 1
  BY DEF Sftp!Cardinality, Cardinality
<1>5. Sftp!MadeHandles \subseteq Int /\ Sftp!Handles = 1 .. MaxHandles
  BY <1>1 DEF Sftp!Handles
<1>. QED BY <1>1, <1>3, <1>4, <1>5

(* An operation makes a handle for its session.                            *)
LEMMA MakeKeeps ==
    ASSUME SftpInv, NEW c \in Callers, NEW h \in Sftp!Handles, h = Sftp!Cardinality(Sftp!MadeHandles) + 1,
           sftpCall[c].at = "table", Sftp!Operates(c),
           handle' = [handle EXCEPT ![h] = [of |-> sftpCall[c].session, client |-> None, cwd |-> None, busy |-> None]],
           handles' = [handles EXCEPT ![sftpCall[c].session] = h],
           sftpCall' = [sftpCall EXCEPT ![c].at = "lock", ![c].handle = h],
           UNCHANGED <<clientOf, openClients>>
    PROVE  SftpInv'
<1>1. /\ sftpCall \in [Callers -> CallOfSftp] /\ handle \in [Sftp!Handles -> HandleOfSftp]
      /\ sftpCall[c] \in CallOfSftp
      /\ handles \in [Sessions -> Sftp!Handles \cup {None}]
      /\ clientOf \in [Sftp!Clients -> Sessions \cup {None}] /\ openClients \subseteq Sftp!Clients
  BY SftpTyped
<1>2. sftpCall[c].session \in Sessions /\ sftpCall[c].session # None
  BY NamesApart DEF SftpInv, SftpCallsSound, Sftp!Operates, Callers
<1>3. /\ h \notin Sftp!MadeHandles
      /\ \A g \in Sftp!Handles : g < h => g \in Sftp!MadeHandles
      /\ \A g \in Sftp!MadeHandles : g < h
  BY NextHandle
<1>4. /\ sftpCall'[c].at = "lock" /\ sftpCall'[c].handle = h /\ sftpCall'[c].op = sftpCall[c].op
      /\ sftpCall'[c].session = sftpCall[c].session /\ sftpCall'[c].todo = sftpCall[c].todo
      /\ \A d \in Callers \ {c} : sftpCall'[d] = sftpCall[d]
      /\ sftpCall' \in [Callers -> CallOfSftp]
  BY <1>1 DEF CallOfSftp
<1>5. /\ handle'[h].of = sftpCall[c].session /\ handle'[h].client = None /\ handle'[h].busy = None
      /\ \A g \in Sftp!Handles \ {h} : handle'[g] = handle[g]
      /\ handle' \in [Sftp!Handles -> HandleOfSftp]
  BY <1>1, <1>2 DEF HandleOfSftp
<1>6. Sftp!MadeHandles' = Sftp!MadeHandles \cup {h}
  BY <1>2, <1>5 DEF Sftp!MadeHandles
<1>7. Sftp!TypeOK'
  <2>1. handles' \in [Sessions -> Sftp!Handles \cup {None}]
    BY <1>1
  <2>. QED BY <1>1, <1>4, <1>5, <2>1 DEF Sftp!TypeOK, CallOfSftp, HandleOfSftp
<1>8. SftpCallsSound'
  <2>1. SftpCallsSound
    BY DEF SftpInv
  <2>. QED BY <1>2, <1>4, <1>6, <2>1 DEF SftpCallsSound, Sftp!Operates
<1>9. HandlesMade'
  <2>0. HandlesMade
    BY DEF SftpInv
  <2>1. ASSUME NEW s \in Sessions, handles'[s] # None
        PROVE  handles'[s] \in Sftp!MadeHandles' /\ handle'[handles'[s]].of = s
    <3>1. CASE s = sftpCall[c].session
      BY <1>1, <1>5, <1>6, <3>1
    <3>2. CASE s # sftpCall[c].session
      <4>1. handles'[s] = handles[s]
        BY <1>1, <3>2
      <4>2. handles[s] \in Sftp!MadeHandles /\ handle[handles[s]].of = s
        BY <2>0, <2>1, <4>1 DEF HandlesMade
      <4>. QED BY <1>3, <1>5, <1>6, <4>1, <4>2 DEF Sftp!MadeHandles
    <3>. QED BY <3>1, <3>2
  <2>2. ASSUME NEW d \in Callers
        PROVE  /\ sftpCall'[d].at \in OnHandle => sftpCall'[d].handle \in Sftp!MadeHandles'
               /\ sftpCall'[d].at \in Works => handle'[sftpCall'[d].handle].of = sftpCall'[d].session
    <3>1. CASE d = c
      BY <1>4, <1>5, <1>6, <3>1
    <3>2. CASE d # c
      BY <1>3, <1>4, <1>5, <1>6, <2>0, <3>2 DEF HandlesMade, Sftp!Mine, OnHandle, Sftp!MadeHandles
    <3>. QED BY <3>1, <3>2
  <2>. QED BY <2>1, <2>2 DEF HandlesMade, Sftp!Mine, OnHandle
<1>10. HandlesInOrder'
  <2>1. h \in Int /\ Sftp!MadeHandles \subseteq Int
    BY DEF Sftp!MadeHandles, Sftp!Handles
  <2>. QED BY <1>3, <1>6, <2>1 DEF SftpInv, HandlesInOrder
<1>11. OpeningLocks'
  <2>0. OpeningLocks
    BY DEF SftpInv
  <2>1. ASSUME NEW d \in Callers, sftpCall'[d].at \in {"open", "home"}
        PROVE  handle'[sftpCall'[d].handle].busy = d
    <3>1. d # c /\ sftpCall'[d] = sftpCall[d]
      BY <1>4, <2>1
    <3>2. sftpCall[d].handle \in Sftp!MadeHandles /\ handle[sftpCall[d].handle].busy = d
      BY <2>0, <2>1, <3>1 DEF SftpInv, HandlesMade, OpeningLocks, Works, Sftp!Mine
    <3>. QED BY <1>3, <1>5, <3>1, <3>2 DEF Sftp!MadeHandles
  <2>2. \A g \in Sftp!Handles : handle'[g].busy # None => handle'[g].client = None
    BY <1>5, <2>0 DEF OpeningLocks
  <2>. QED BY <2>1, <2>2 DEF OpeningLocks, Sftp!Mine
<1>12. Sftp!ClientsOwned'
  <2> SUFFICES ASSUME NEW k \in openClients
               PROVE  \/ \E g \in Sftp!MadeHandles' : handle'[g].client = k
                      \/ \E d \in Callers : sftpCall'[d].client = k /\ sftpCall'[d].at \in {"home", "close"}
    BY DEF Sftp!ClientsOwned
  <2>1. CASE \E g \in Sftp!MadeHandles : handle[g].client = k
    BY <1>3, <1>5, <1>6, <2>1 DEF Sftp!MadeHandles
  <2>2. CASE \E d \in Callers : sftpCall[d].client = k /\ sftpCall[d].at \in {"home", "close"}
    BY <1>4, <2>2
  <2>. QED BY <2>1, <2>2 DEF SftpInv, Sftp!ClientsOwned
<1>. QED BY <1>7, <1>8, <1>9, <1>10, <1>11, <1>12 DEF SftpInv

(* A step of a call that changes the handle it works on: it is not locked  *)
(* by another call, and no client is lost.                                 *)
LEMMA HandleChanges ==
    ASSUME SftpInv, NEW c \in Callers, sftpCall[c].at \in OnHandle,
           NEW h, h = sftpCall[c].handle, handle[h].busy \in {None, c},
           NEW r \in CallOfSftp, sftpCall' = [sftpCall EXCEPT ![c] = r],
           NEW v \in HandleOfSftp, handle' = [handle EXCEPT ![h] = v], v.of = handle[h].of,
           UNCHANGED <<handles, clientOf>>, openClients' \subseteq openClients,
           NewCallSound(r),
           r.at \in {"open", "home"} => r.handle = h /\ v.busy = c,
           v.busy # None => v.client = None,
           \/ handle[h].client \in {None, v.client}
           \/ r.at = "close" /\ r.client = handle[h].client,
           sftpCall[c].at = "home" => \/ v.client = sftpCall[c].client
                                      \/ openClients' = openClients \ {sftpCall[c].client}
    PROVE  SftpInv'
<1>1. /\ sftpCall \in [Callers -> CallOfSftp] /\ handle \in [Sftp!Handles -> HandleOfSftp]
      /\ handles \in [Sessions -> Sftp!Handles \cup {None}]
      /\ clientOf \in [Sftp!Clients -> Sessions \cup {None}] /\ openClients \subseteq Sftp!Clients
      /\ h \in Sftp!MadeHandles /\ h \in Sftp!Handles
  BY SftpTyped
<1>2. /\ sftpCall' \in [Callers -> CallOfSftp]
      /\ sftpCall'[c] = r /\ \A d \in Callers \ {c} : sftpCall'[d] = sftpCall[d]
  BY <1>1
<1>3. /\ handle'[h] = v /\ \A g \in Sftp!Handles \ {h} : handle'[g] = handle[g]
      /\ handle' \in [Sftp!Handles -> HandleOfSftp]
  BY <1>1
<1>4. \A g \in Sftp!Handles : handle'[g].of = handle[g].of
  BY <1>3
<1>5. Sftp!MadeHandles' = Sftp!MadeHandles /\ Sftp!MadeHandles \subseteq Sftp!Handles
  BY <1>4 DEF Sftp!MadeHandles
<1>6. Sftp!TypeOK'
  BY <1>1, <1>2, <1>3 DEF Sftp!TypeOK, CallOfSftp, HandleOfSftp
<1>7. SftpCallsSound'
  <2>1. SftpCallsSound
    BY DEF SftpInv
  <2>. QED BY <1>2, <1>5, <2>1 DEF SftpCallsSound, NewCallSound, Sftp!Operates
<1>8. HandlesMade'
  <2>1. HandlesMade
    BY DEF SftpInv
  <2>2. \A s \in Sessions : handles[s] # None => /\ handles[s] \in Sftp!MadeHandles
                                                /\ handle'[handles[s]].of = s
    BY <1>4, <1>5, <2>1 DEF HandlesMade
  <2>3. ASSUME NEW d \in Callers
        PROVE  /\ sftpCall'[d].at \in OnHandle => sftpCall'[d].handle \in Sftp!MadeHandles
               /\ sftpCall'[d].at \in Works => handle'[sftpCall'[d].handle].of = sftpCall'[d].session
    <3>1. /\ sftpCall'[d].at \in OnHandle => sftpCall'[d].handle \in Sftp!MadeHandles
          /\ sftpCall'[d].at \in Works => handle[sftpCall'[d].handle].of = sftpCall'[d].session
      BY <1>2, <2>1 DEF HandlesMade, NewCallSound, Sftp!Mine, OnHandle
    <3>. QED BY <1>4, <1>5, <3>1 DEF OnHandle
  <2>. QED BY <1>5, <2>2, <2>3 DEF HandlesMade, Sftp!Mine, OnHandle
<1>9. HandlesInOrder'
  BY <1>5 DEF SftpInv, HandlesInOrder
<1>10. OpeningLocks'
  <2>0. OpeningLocks
    BY DEF SftpInv
  <2>1. ASSUME NEW d \in Callers, sftpCall'[d].at \in {"open", "home"}
        PROVE  handle'[sftpCall'[d].handle].busy = d
    <3>1. CASE d = c
      BY <1>2, <1>3, <2>1, <3>1
    <3>2. CASE d # c
      <4>1. sftpCall[d].handle \in Sftp!MadeHandles /\ handle[sftpCall[d].handle].busy = d
        BY <1>2, <2>0, <2>1, <3>2 DEF SftpInv, HandlesMade, OpeningLocks, Works, Sftp!Mine
      <4>2. sftpCall[d].handle # h
        BY <3>2, <4>1, NamesApart
      <4>. QED BY <1>2, <1>3, <1>5, <3>2, <4>1, <4>2
    <3>. QED BY <3>1, <3>2
  <2>2. \A g \in Sftp!Handles : handle'[g].busy # None => handle'[g].client = None
    BY <1>3, <2>0 DEF OpeningLocks
  <2>. QED BY <2>1, <2>2 DEF OpeningLocks, Sftp!Mine
<1>11. Sftp!ClientsOwned'
  <2> SUFFICES ASSUME NEW k \in openClients'
               PROVE  \/ \E g \in Sftp!MadeHandles : handle'[g].client = k
                      \/ \E d \in Callers : sftpCall'[d].client = k /\ sftpCall'[d].at \in {"home", "close"}
    BY <1>5 DEF Sftp!ClientsOwned
  <2>0. k # None
    BY <1>1, NamesApart
  <2>1. CASE \E g \in Sftp!MadeHandles : handle[g].client = k
    <3>1. PICK g \in Sftp!MadeHandles : handle[g].client = k
      BY <2>1
    <3>2. CASE g # h
      BY <1>3, <1>5, <3>1, <3>2
    <3>3. CASE g = h
      BY <1>1, <1>2, <1>3, <2>0, <3>1, <3>3
    <3>. QED BY <3>2, <3>3
  <2>2. ASSUME NEW d \in Callers, sftpCall[d].client = k, sftpCall[d].at \in {"home", "close"}
        PROVE  \/ \E g \in Sftp!MadeHandles : handle'[g].client = k
               \/ \E e \in Callers : sftpCall'[e].client = k /\ sftpCall'[e].at \in {"home", "close"}
    <3>1. CASE d # c
      BY <1>2, <2>2, <3>1
    <3>2. CASE d = c
      <4>1. sftpCall[c].at = "home"
        BY <2>2, <3>2 DEF OnHandle, Works
      <4>2. v.client = k
        BY <2>2, <3>2, <4>1
      <4>. QED BY <1>1, <1>3, <4>2
    <3>. QED BY <3>1, <3>2
  <2>. QED BY <2>1, <2>2 DEF SftpInv, Sftp!ClientsOwned
<1>. QED BY <1>6, <1>7, <1>8, <1>9, <1>10, <1>11 DEF SftpInv

LEMMA ResolveKeeps ==
    ASSUME SftpInv, NEW c \in Callers, Sftp!Resolve(c)
    PROVE  SftpInv'
<1>1. /\ sftpCall[c].at = "table" /\ sftpCall[c].op # "all" /\ sftpCall[c] \in CallOfSftp
      /\ UNCHANGED <<clientOf, openClients>> /\ NewCallSound(sftpCall[c])
      /\ handles \in [Sessions -> Sftp!Handles \cup {None}] /\ Sftp!NoCall \in CallOfSftp
      /\ sftpCall \in [Callers -> CallOfSftp]
  BY SftpTyped, CallIsSound DEF Sftp!Resolve
<1>2. PICK s : s = sftpCall[c].session
  OBVIOUS
<1>3. CASE /\ Sftp!Operates(c) /\ handles[s] = None /\ Sftp!Cardinality(Sftp!MadeHandles) + 1 \in Sftp!Handles
           /\ handle' = [handle EXCEPT ![Sftp!Cardinality(Sftp!MadeHandles) + 1] =
                           [of |-> s, client |-> None, cwd |-> None, busy |-> None]]
           /\ handles' = [handles EXCEPT ![s] = Sftp!Cardinality(Sftp!MadeHandles) + 1]
           /\ sftpCall' = [sftpCall EXCEPT ![c].at = "lock",
                                           ![c].handle = Sftp!Cardinality(Sftp!MadeHandles) + 1]
  BY <1>1, <1>2, <1>3, MakeKeeps
<1>4. CASE Sftp!End(c) /\ UNCHANGED <<handles, handle>>
  BY <1>1, <1>4, IdleSound, SftpCallMoves DEF Sftp!End
<1>5. CASE /\ handles[s] # None
           /\ handles' = IF sftpCall[c].op = "dispose" THEN [handles EXCEPT ![s] = None] ELSE handles
           /\ sftpCall' = [sftpCall EXCEPT ![c].at = IF Sftp!Operates(c) THEN "lock" ELSE "take",
                                           ![c].handle = handles[s]]
           /\ UNCHANGED handle
  <2>1. s \in Sessions
    <3>1. sftpCall[c].op # "none"
      BY <1>1 DEF NewCallSound
    <3>. QED BY <1>1, <1>2, <3>1 DEF NewCallSound
  <2>2. handles[s] \in Sftp!MadeHandles /\ handle[handles[s]].of = s /\ handles[s] \in Sftp!Handles
    BY <1>5, <2>1 DEF SftpInv, HandlesMade, Sftp!MadeHandles
  <2>3. PICK r : r = [sftpCall[c] EXCEPT !.at = IF Sftp!Operates(c) THEN "lock" ELSE "take", !.handle = handles[s]]
    OBVIOUS
  <2>4. /\ r \in CallOfSftp /\ r.op = sftpCall[c].op /\ r.session = s /\ r.handle = handles[s]
        /\ r.todo = sftpCall[c].todo /\ r.at = IF Sftp!Operates(c) THEN "lock" ELSE "take"
    BY <1>1, <1>2, <2>2, <2>3 DEF CallOfSftp
  <2>5. NewCallSound(r)
    BY <1>1, <1>2, <2>2, <2>4 DEF NewCallSound, OnHandle, Works, Sftp!Operates
  <2>6. sftpCall' = [sftpCall EXCEPT ![c] = r]
    BY <1>1, <1>5, <2>3
  <2>7. /\ handles' \in [Sessions -> Sftp!Handles \cup {None}]
        /\ \A t \in Sessions : handles'[t] \in {handles[t], None}
    BY <1>1, <1>5
  <2>8. r.at \notin {"open", "home"}
    BY <2>4
  <2>. QED BY <1>1, <1>5, <2>4, <2>5, <2>6, <2>7, <2>8, SftpCallMoves
<1>. QED BY <1>2, <1>3, <1>4, <1>5 DEF Sftp!Resolve

LEMMA ShareKeeps ==
    ASSUME SftpInv, NEW c \in Callers, Sftp!Share(c)
    PROVE  SftpInv'
<1>1. /\ sftpCall[c].at = "lock" /\ sftpCall[c] \in CallOfSftp /\ NewCallSound(sftpCall[c])
      /\ handles \in [Sessions -> Sftp!Handles \cup {None}]
      /\ UNCHANGED <<handles, handle, clientOf, openClients>>
      /\ sftpCall \in [Callers -> CallOfSftp]
      /\ handle \in [Sftp!Handles -> HandleOfSftp] /\ sftpCall[c].handle \in Sftp!Handles
  BY SftpTyped, CallIsSound DEF Sftp!Share, OnHandle, Works
<1>2. PICK r : r = [sftpCall[c] EXCEPT !.at = "use", !.client = Sftp!Mine(c).client]
  OBVIOUS
<1>3. /\ r \in CallOfSftp /\ r.op = sftpCall[c].op /\ r.session = sftpCall[c].session /\ r.at = "use"
      /\ r.handle = sftpCall[c].handle /\ r.todo = sftpCall[c].todo
  BY <1>1, <1>2 DEF CallOfSftp, HandleOfSftp, Sftp!Mine
<1>4. NewCallSound(r)
  BY <1>1, <1>3 DEF NewCallSound, OnHandle, Works
<1>5. sftpCall' = [sftpCall EXCEPT ![c] = r]
  BY <1>1, <1>2 DEF Sftp!Share
<1>. QED BY <1>1, <1>3, <1>4, <1>5, SftpCallMoves

LEMMA LockHandleKeeps ==
    ASSUME SftpInv, NEW c \in Callers, Sftp!LockHandle(c)
    PROVE  SftpInv'
<1>0. PICK h : h = sftpCall[c].handle
  OBVIOUS
<1>1. /\ sftpCall[c].at = "lock" /\ sftpCall[c] \in CallOfSftp /\ NewCallSound(sftpCall[c])
      /\ sftpCall \in [Callers -> CallOfSftp] /\ h \in Sftp!Handles
      /\ handle \in [Sftp!Handles -> HandleOfSftp] /\ handle[h].busy = None /\ handle[h].client = None
      /\ UNCHANGED <<handles, clientOf, openClients>>
  BY <1>0, SftpTyped, CallIsSound DEF Sftp!LockHandle, Sftp!Mine, OnHandle, Works
<1>2. PICK r : r = [sftpCall[c] EXCEPT !.at = "open"]
  OBVIOUS
<1>3. PICK v : v = [handle[h] EXCEPT !.busy = c]
  OBVIOUS
<1>4. sftpCall' = [sftpCall EXCEPT ![c] = r] /\ handle' = [handle EXCEPT ![h] = v]
  BY <1>0, <1>1, <1>2, <1>3 DEF Sftp!LockHandle, Sftp!Go
<1>5. /\ r \in CallOfSftp /\ r.op = sftpCall[c].op /\ r.session = sftpCall[c].session /\ r.at = "open"
      /\ r.handle = h /\ r.todo = sftpCall[c].todo
  BY <1>0, <1>1, <1>2 DEF CallOfSftp
<1>6. v \in HandleOfSftp /\ v.of = handle[h].of /\ v.client = None /\ v.busy = c
  BY <1>1, <1>3 DEF HandleOfSftp
<1>7. NewCallSound(r)
  BY <1>0, <1>1, <1>5 DEF NewCallSound, OnHandle, Works
<1>8. sftpCall[c].at \in OnHandle
  BY <1>1 DEF OnHandle, Works
<1>. QED BY <1>0, <1>1, <1>4, <1>5, <1>6, <1>7, <1>8, HandleChanges

LEMMA OpenFailsKeeps ==
    ASSUME SftpInv, NEW c \in Callers, Sftp!OpenFails(c)
    PROVE  SftpInv'
<1>0. PICK h : h = sftpCall[c].handle
  OBVIOUS
<1>1. /\ sftpCall[c].at = "open" /\ h \in Sftp!Handles /\ Sftp!NoCall \in CallOfSftp
      /\ handle \in [Sftp!Handles -> HandleOfSftp] /\ handle[h].busy = c
      /\ UNCHANGED <<handles, clientOf, openClients>>
      /\ sftpCall' = [sftpCall EXCEPT ![c] = Sftp!NoCall]
  BY <1>0, SftpTyped DEF Sftp!OpenFails, Sftp!End, Sftp!Mine, OnHandle, Works, SftpInv, OpeningLocks
<1>2. PICK v : v = [handle[h] EXCEPT !.busy = None]
  OBVIOUS
<1>3. handle' = [handle EXCEPT ![h] = v]
  BY <1>0, <1>1, <1>2 DEF Sftp!OpenFails
<1>4. v \in HandleOfSftp /\ v.of = handle[h].of /\ v.client = handle[h].client /\ v.busy = None
  BY <1>1, <1>2 DEF HandleOfSftp
<1>5. sftpCall[c].at \in OnHandle
  BY <1>1 DEF OnHandle, Works
<1>. QED BY <1>0, <1>1, <1>3, <1>4, <1>5, IdleSound, HandleChanges

LEMMA KeepClientKeeps ==
    ASSUME SftpInv, NEW c \in Callers, Sftp!KeepClient(c)
    PROVE  SftpInv'
<1>0. PICK h : h = sftpCall[c].handle
  OBVIOUS
<1>1. /\ sftpCall[c].at = "home" /\ sftpCall[c] \in CallOfSftp /\ NewCallSound(sftpCall[c])
      /\ sftpCall \in [Callers -> CallOfSftp] /\ h \in Sftp!Handles
      /\ handle \in [Sftp!Handles -> HandleOfSftp]
      /\ UNCHANGED <<handles, clientOf, openClients>>
  BY <1>0, SftpTyped, CallIsSound DEF Sftp!KeepClient, OnHandle, Works
<1>2. handle[h].busy = c /\ handle[h].client = None
  BY <1>0, <1>1, NamesApart DEF SftpInv, OpeningLocks, Sftp!Mine
<1>3. PICK r : r = [sftpCall[c] EXCEPT !.at = "use"]
  OBVIOUS
<1>4. PICK v : v = [handle[h] EXCEPT !.client = sftpCall[c].client, !.cwd = Sftp!StartsIn(c), !.busy = None]
  OBVIOUS
<1>5. sftpCall' = [sftpCall EXCEPT ![c] = r] /\ handle' = [handle EXCEPT ![h] = v]
  BY <1>0, <1>1, <1>3, <1>4 DEF Sftp!KeepClient, Sftp!Go
<1>6. /\ r \in CallOfSftp /\ r.op = sftpCall[c].op /\ r.session = sftpCall[c].session /\ r.at = "use"
      /\ r.handle = h /\ r.todo = sftpCall[c].todo
  BY <1>0, <1>1, <1>3 DEF CallOfSftp
<1>7. v \in HandleOfSftp /\ v.of = handle[h].of /\ v.client = sftpCall[c].client /\ v.busy = None
  <2>1. handle[h].cwd \in Dirs \cup {Home, None} /\ Sftp!StartsIn(c) \in Dirs \cup {Home, None}
    BY <1>0, <1>1 DEF HandleOfSftp, Sftp!StartsIn, Sftp!Mine
  <2>. QED BY <1>1, <1>4, <2>1 DEF HandleOfSftp, CallOfSftp
<1>8. NewCallSound(r)
  BY <1>0, <1>1, <1>6 DEF NewCallSound, OnHandle, Works
<1>9. sftpCall[c].at \in OnHandle
  BY <1>1 DEF OnHandle, Works
<1>. QED BY <1>0, <1>1, <1>2, <1>5, <1>6, <1>7, <1>8, <1>9, HandleChanges

LEMMA HomeFailsKeeps ==
    ASSUME SftpInv, NEW c \in Callers, Sftp!HomeFails(c)
    PROVE  SftpInv'
<1>0. PICK h : h = sftpCall[c].handle
  OBVIOUS
<1>1. /\ sftpCall[c].at = "home" /\ h \in Sftp!Handles /\ Sftp!NoCall \in CallOfSftp
      /\ handle \in [Sftp!Handles -> HandleOfSftp] /\ handle[h].busy = c
      /\ UNCHANGED <<handles, clientOf>> /\ openClients' = openClients \ {sftpCall[c].client}
      /\ sftpCall' = [sftpCall EXCEPT ![c] = Sftp!NoCall]
  BY <1>0, SftpTyped DEF Sftp!HomeFails, Sftp!End, Sftp!Mine, OnHandle, Works, SftpInv, OpeningLocks
<1>2. PICK v : v = [handle[h] EXCEPT !.busy = None]
  OBVIOUS
<1>3. handle' = [handle EXCEPT ![h] = v]
  BY <1>0, <1>1, <1>2 DEF Sftp!HomeFails
<1>4. v \in HandleOfSftp /\ v.of = handle[h].of /\ v.client = handle[h].client /\ v.busy = None
  BY <1>1, <1>2 DEF HandleOfSftp
<1>5. sftpCall[c].at \in OnHandle
  BY <1>1 DEF OnHandle, Works
<1>. QED BY <1>0, <1>1, <1>3, <1>4, <1>5, IdleSound, HandleChanges

LEMMA OperateKeeps ==
    ASSUME SftpInv, NEW c \in Callers, Sftp!Operate(c)
    PROVE  SftpInv'
<1>1. /\ sftpCall[c].at = "use" /\ sftpCall[c] \in CallOfSftp /\ NewCallSound(sftpCall[c])
      /\ handles \in [Sessions -> Sftp!Handles \cup {None}] /\ Sftp!NoCall \in CallOfSftp
      /\ UNCHANGED <<handles, handle, clientOf, openClients>>
      /\ sftpCall \in [Callers -> CallOfSftp]
  BY SftpTyped, CallIsSound DEF Sftp!Operate
<1>2. CASE Sftp!End(c)
  BY <1>1, <1>2, IdleSound, SftpCallMoves DEF Sftp!End
<1>3. CASE sftpCall[c].op = "chdir" /\ Sftp!Go(c, "setCwd")
  <2>1. PICK r : r = [sftpCall[c] EXCEPT !.at = "setCwd"]
    OBVIOUS
  <2>2. /\ r \in CallOfSftp /\ r.op = "chdir" /\ r.session = sftpCall[c].session /\ r.at = "setCwd"
        /\ r.handle = sftpCall[c].handle /\ r.todo = sftpCall[c].todo
    BY <1>1, <1>3, <2>1 DEF CallOfSftp
  <2>3. NewCallSound(r)
    BY <1>1, <1>3, <2>2 DEF NewCallSound, OnHandle, Works
  <2>4. sftpCall' = [sftpCall EXCEPT ![c] = r]
    BY <1>1, <1>3, <2>1 DEF Sftp!Go
  <2>. QED BY <1>1, <2>2, <2>3, <2>4, SftpCallMoves
<1>. QED BY <1>2, <1>3 DEF Sftp!Operate

LEMMA SetCwdKeeps ==
    ASSUME SftpInv, NEW c \in Callers, Sftp!setCwd(c)
    PROVE  SftpInv'
<1>0. PICK h : h = sftpCall[c].handle
  OBVIOUS
<1>1. /\ sftpCall[c].at = "setCwd" /\ h \in Sftp!Handles /\ Sftp!NoCall \in CallOfSftp
      /\ sftpCall[c] \in CallOfSftp
      /\ handle \in [Sftp!Handles -> HandleOfSftp] /\ handle[h].busy = None
      /\ UNCHANGED <<handles, clientOf, openClients>>
      /\ sftpCall' = [sftpCall EXCEPT ![c] = Sftp!NoCall]
  BY <1>0, SftpTyped DEF Sftp!setCwd, Sftp!End, Sftp!Mine, OnHandle, Works
<1>2. PICK v : v = [handle[h] EXCEPT !.cwd = sftpCall[c].dir]
  OBVIOUS
<1>3. handle' = [handle EXCEPT ![h] = v]
  BY <1>0, <1>1, <1>2 DEF Sftp!setCwd
<1>4. v \in HandleOfSftp /\ v.of = handle[h].of /\ v.client = handle[h].client /\ v.busy = None
  BY <1>1, <1>2 DEF HandleOfSftp, CallOfSftp
<1>5. sftpCall[c].at \in OnHandle
  BY <1>1 DEF OnHandle, Works
<1>. QED BY <1>0, <1>1, <1>3, <1>4, <1>5, IdleSound, HandleChanges

LEMMA TakeTableKeeps ==
    ASSUME SftpInv, NEW c \in Callers, Sftp!TakeTable(c)
    PROVE  SftpInv'
<1>1. /\ sftpCall[c].op = "all" /\ sftpCall[c].at = "table" /\ sftpCall[c] \in CallOfSftp
      /\ handles \in [Sessions -> Sftp!Handles \cup {None}]
      /\ UNCHANGED <<handle, clientOf, openClients>> /\ handles' = [s \in Sessions |-> None]
      /\ sftpCall \in [Callers -> CallOfSftp]
  BY SftpTyped DEF Sftp!TakeTable
<1>2. PICK todo \in SUBSET Sftp!MadeHandles : todo = {handles[s] : s \in Sessions} \ {None}
  BY DEF SftpInv, HandlesMade
<1>3. PICK r : r = [sftpCall[c] EXCEPT !.at = "visit", !.todo = todo]
  OBVIOUS
<1>4. r \in CallOfSftp /\ r.op = "all" /\ r.at = "visit" /\ r.todo = todo
  BY <1>1, <1>3 DEF CallOfSftp, Sftp!MadeHandles
<1>5. sftpCall' = [sftpCall EXCEPT ![c] = r]
  BY <1>1, <1>2, <1>3 DEF Sftp!TakeTable
<1>6. NewCallSound(r)
  BY <1>4 DEF NewCallSound, OnHandle, Works
<1>7. /\ handles' \in [Sessions -> Sftp!Handles \cup {None}]
      /\ \A t \in Sessions : handles'[t] \in {handles[t], None}
  BY <1>1
<1>. QED BY <1>1, <1>4, <1>5, <1>6, <1>7, SftpCallMoves

LEMMA VisitKeeps ==
    ASSUME SftpInv, NEW c \in Callers, Sftp!Visit(c)
    PROVE  SftpInv'
<1>1. /\ sftpCall[c].at = "visit" /\ sftpCall[c] \in CallOfSftp /\ NewCallSound(sftpCall[c])
      /\ handles \in [Sessions -> Sftp!Handles \cup {None}] /\ Sftp!NoCall \in CallOfSftp
      /\ UNCHANGED <<handles, handle, clientOf, openClients>>
      /\ sftpCall \in [Callers -> CallOfSftp]
  BY SftpTyped, CallIsSound DEF Sftp!Visit
<1>2. CASE Sftp!End(c)
  BY <1>1, <1>2, IdleSound, SftpCallMoves DEF Sftp!End
<1>3. CASE ~Sftp!End(c)
  <2>1. PICK h \in sftpCall[c].todo :
          sftpCall' = [sftpCall EXCEPT ![c].at = "take", ![c].handle = h, ![c].todo = sftpCall[c].todo \ {h}]
    BY <1>3 DEF Sftp!Visit
  <2>2. PICK r : r = [sftpCall[c] EXCEPT !.at = "take", !.handle = h, !.todo = sftpCall[c].todo \ {h}]
    OBVIOUS
  <2>3. h \in Sftp!MadeHandles /\ h \in Sftp!Handles /\ sftpCall[c].todo \subseteq Sftp!MadeHandles
    BY <1>1, <2>1 DEF NewCallSound, Sftp!MadeHandles
  <2>4. /\ r \in CallOfSftp /\ r.op = sftpCall[c].op /\ r.session = sftpCall[c].session /\ r.at = "take"
        /\ r.handle = h /\ r.todo \subseteq Sftp!MadeHandles
    BY <1>1, <2>2, <2>3 DEF CallOfSftp
  <2>5. NewCallSound(r)
    BY <1>1, <2>3, <2>4 DEF NewCallSound, OnHandle, Works
  <2>6. sftpCall' = [sftpCall EXCEPT ![c] = r]
    BY <1>1, <2>1, <2>2
  <2>. QED BY <1>1, <2>4, <2>5, <2>6, SftpCallMoves
<1>. QED BY <1>2, <1>3

LEMMA TakeClientKeeps ==
    ASSUME SftpInv, NEW c \in Callers, Sftp!TakeClient(c)
    PROVE  SftpInv'
<1>0. PICK h : h = sftpCall[c].handle
  OBVIOUS
<1>1. /\ sftpCall[c].at = "take" /\ h \in Sftp!Handles /\ NewCallSound(sftpCall[c])
      /\ sftpCall[c] \in CallOfSftp /\ sftpCall \in [Callers -> CallOfSftp]
      /\ handle \in [Sftp!Handles -> HandleOfSftp] /\ handle[h].busy = None
      /\ UNCHANGED <<handles, clientOf, openClients>>
  BY <1>0, SftpTyped, CallIsSound DEF Sftp!TakeClient, Sftp!Mine, OnHandle, Works
<1>2. PICK v : v = [handle[h] EXCEPT !.client = None]
  OBVIOUS
<1>3. PICK r : r = [sftpCall[c] EXCEPT !.at = "close", !.client = handle[h].client]
  OBVIOUS
<1>4. sftpCall' = [sftpCall EXCEPT ![c] = r] /\ handle' = [handle EXCEPT ![h] = v]
  BY <1>0, <1>1, <1>2, <1>3 DEF Sftp!TakeClient, Sftp!Mine
<1>5. v \in HandleOfSftp /\ v.of = handle[h].of /\ v.client = None /\ v.busy = None
  BY <1>1, <1>2 DEF HandleOfSftp
<1>6. /\ r \in CallOfSftp /\ r.op = sftpCall[c].op /\ r.session = sftpCall[c].session /\ r.at = "close"
      /\ r.client = handle[h].client /\ r.todo = sftpCall[c].todo
  BY <1>1, <1>3 DEF CallOfSftp, HandleOfSftp
<1>7. NewCallSound(r)
  BY <1>1, <1>6 DEF NewCallSound, OnHandle, Works
<1>8. sftpCall[c].at \in OnHandle
  BY <1>1 DEF OnHandle
<1>. QED BY <1>0, <1>1, <1>4, <1>5, <1>6, <1>7, <1>8, HandleChanges

LEMMA CloseClientKeeps ==
    ASSUME SftpInv, NEW c \in Callers, Sftp!CloseClient(c)
    PROVE  SftpInv'
<1>1. /\ sftpCall[c].at = "close" /\ sftpCall[c] \in CallOfSftp /\ NewCallSound(sftpCall[c])
      /\ handles \in [Sessions -> Sftp!Handles \cup {None}] /\ Sftp!NoCall \in CallOfSftp
      /\ UNCHANGED <<handles, handle, clientOf>> /\ openClients' = openClients \ {sftpCall[c].client}
      /\ sftpCall \in [Callers -> CallOfSftp]
  BY SftpTyped, CallIsSound DEF Sftp!CloseClient
<1>2. CASE sftpCall[c].op # "all"
  <2>1. sftpCall' = [sftpCall EXCEPT ![c] = Sftp!NoCall]
    BY <1>2 DEF Sftp!CloseClient, Sftp!End
  <2>. QED BY <1>1, <2>1, IdleSound, SftpCallMoves
<1>3. CASE sftpCall[c].op = "all"
  <2>1. PICK r : r = [sftpCall[c] EXCEPT !.at = "visit", !.client = None]
    OBVIOUS
  <2>2. /\ r \in CallOfSftp /\ r.op = "all" /\ r.at = "visit" /\ r.todo = sftpCall[c].todo
    BY <1>1, <1>3, <2>1 DEF CallOfSftp
  <2>3. NewCallSound(r)
    BY <1>1, <2>2 DEF NewCallSound, OnHandle, Works
  <2>4. sftpCall' = [sftpCall EXCEPT ![c] = r]
    BY <1>1, <1>3, <2>1 DEF Sftp!CloseClient
  <2>. QED BY <1>1, <2>2, <2>3, <2>4, SftpCallMoves
<1>. QED BY <1>2, <1>3

LEMMA OpenClientKeeps ==
    ASSUME SftpInv, NEW c \in Callers, Sftp!OpenClient(c)
    PROVE  SftpInv'
<1>1. /\ sftpCall[c].at = "open" /\ sftpCall[c] \in CallOfSftp /\ UNCHANGED <<handles, handle>>
      /\ sftpCall \in [Callers -> CallOfSftp] /\ handle \in [Sftp!Handles -> HandleOfSftp]
      /\ handles \in [Sessions -> Sftp!Handles \cup {None}]
      /\ clientOf \in [Sftp!Clients -> Sessions \cup {None}] /\ openClients \subseteq Sftp!Clients
  BY SftpTyped DEF Sftp!OpenClient
<1>2. PICK k \in Sftp!Clients :
        /\ clientOf' = [clientOf EXCEPT ![k] = sftpCall[c].session]
        /\ openClients' = openClients \cup {k}
        /\ sftpCall' = [sftpCall EXCEPT ![c].at = "home", ![c].client = k]
  BY DEF Sftp!OpenClient
<1>3. /\ sftpCall' \in [Callers -> CallOfSftp]
      /\ sftpCall'[c].at = "home" /\ sftpCall'[c].client = k /\ sftpCall'[c].op = sftpCall[c].op
      /\ sftpCall'[c].handle = sftpCall[c].handle /\ sftpCall'[c].session = sftpCall[c].session
      /\ sftpCall'[c].todo = sftpCall[c].todo
      /\ \A d \in Callers \ {c} : sftpCall'[d] = sftpCall[d]
  BY <1>1, <1>2 DEF CallOfSftp
<1>4. Sftp!MadeHandles' = Sftp!MadeHandles
  BY <1>1 DEF Sftp!MadeHandles
<1>5. clientOf' \in [Sftp!Clients -> Sessions \cup {None}] /\ openClients' \subseteq Sftp!Clients
  BY <1>1, <1>2 DEF CallOfSftp
<1>6. Sftp!TypeOK'
  BY <1>1, <1>3, <1>5 DEF Sftp!TypeOK, CallOfSftp, HandleOfSftp
<1>7. SftpCallsSound'
  <2>1. SftpCallsSound
    BY DEF SftpInv
  <2>. QED BY <1>1, <1>3, <1>4, <2>1 DEF SftpCallsSound, Sftp!Operates, Works
<1>8. HandlesMade'
  <2>1. HandlesMade
    BY DEF SftpInv
  <2>. QED BY <1>1, <1>3, <1>4, <2>1 DEF HandlesMade, Sftp!Mine, Works
<1>9. HandlesInOrder'
  BY <1>4 DEF SftpInv, HandlesInOrder
<1>10. OpeningLocks'
  <2>1. OpeningLocks
    BY DEF SftpInv
  <2>. QED BY <1>1, <1>3, <2>1 DEF OpeningLocks, Sftp!Mine
<1>11. Sftp!ClientsOwned'
  <2> SUFFICES ASSUME NEW j \in openClients'
               PROVE  \/ \E h \in Sftp!MadeHandles : handle[h].client = j
                      \/ \E d \in Callers : sftpCall'[d].client = j /\ sftpCall'[d].at \in {"home", "close"}
    BY <1>1, <1>4 DEF Sftp!ClientsOwned
  <2>1. CASE j = k
    BY <1>3, <2>1
  <2>2. CASE j # k
    <3>1. \/ \E h \in Sftp!MadeHandles : handle[h].client = j
          \/ \E d \in Callers : sftpCall[d].client = j /\ sftpCall[d].at \in {"home", "close"}
      BY <1>2, <2>2 DEF SftpInv, Sftp!ClientsOwned
    <3>. QED BY <1>1, <1>3, <3>1
  <2>. QED BY <2>1, <2>2
<1>. QED BY <1>6, <1>7, <1>8, <1>9, <1>10, <1>11 DEF SftpInv

LEMMA SftpStepKeeps ==
    ASSUME SftpInv, NEW c \in Callers, Sftp!Step(c)
    PROVE  SftpInv'
BY ResolveKeeps, ShareKeeps, LockHandleKeeps, OpenClientKeeps, OpenFailsKeeps, KeepClientKeeps,
   HomeFailsKeeps, OperateKeeps, SetCwdKeeps, TakeTableKeeps, VisitKeeps, TakeClientKeeps, CloseClientKeeps
   DEF Sftp!Step

LEMMA SftpStays ==
    ASSUME SftpInv, UNCHANGED sftp
    PROVE  SftpInv'
BY DEF sftp, SftpInv, Sftp!TypeOK, SftpCallsSound, Sftp!Operates, HandlesMade, Sftp!Mine, HandlesInOrder,
       OpeningLocks, Sftp!ClientsOwned, Sftp!MadeHandles

LEMMA SftpInitial == Sftp!Init => SftpInv
<1> SUFFICES ASSUME Sftp!Init PROVE SftpInv
  OBVIOUS
<1>1. /\ handles = [s \in Sessions |-> None] /\ clientOf = [k \in Sftp!Clients |-> None] /\ openClients = {}
      /\ handle = [h \in Sftp!Handles |-> [of |-> None, client |-> None, cwd |-> None, busy |-> None]]
      /\ sftpCall = [c \in Callers |-> Sftp!NoCall]
  BY DEF Sftp!Init
<1>2. /\ Sftp!NoCall \in CallOfSftp /\ Sftp!NoCall.op = "none" /\ Sftp!NoCall.at = "idle"
      /\ Sftp!NoCall.todo = {}
  BY DEF Sftp!NoCall, CallOfSftp
<1>3. Sftp!TypeOK
  BY <1>1, <1>2 DEF Sftp!TypeOK, CallOfSftp
<1>4. Sftp!MadeHandles = {}
  BY <1>1 DEF Sftp!MadeHandles
<1>. QED BY <1>1, <1>2, <1>3, <1>4 DEF SftpInv, SftpCallsSound, HandlesMade, HandlesInOrder, OpeningLocks,
            Sftp!ClientsOwned, Works

-----------------------------------------------------------------------------
(* What the services do to the ends and to the shutdown: a call goes on or *)
(* ends, only a call of the renderer brings something of a session back,   *)
(* and a disposal that has been applied has taken effect.                  *)

MonCallGoes(c) ==
    \/ /\ monCall'[c].op = monCall[c].op /\ monCall'[c].session = monCall[c].session
       /\ monCall'[c].at = "lock" => monCall[c].at = "lock"
    \/ monCall'[c].op = "none" /\ monCall'[c].session = None /\ monCall'[c].at # "lock"

MonitorMoves ==
    /\ \A c \in Callers : MonCallGoes(c)
    /\ \A s \in Sessions : Polled(s)' => \/ Polled(s)
                                         \/ \E c \in Callers : monCall[c].op = "set" /\ monCall[c].session = s
    /\ \A c \in Callers : monCall[c].at = "lock" /\ monCall'[c].at # "lock" =>
         /\ monCall[c].op = "dispose" => \A s \in Sessions : monCall[c].session = s => ~Polled(s)'
         /\ monCall[c].op = "stop" => monClosed'
    /\ monClosed => monClosed'

TunCallGoes(c) ==
    \/ /\ tunCall'[c].op = tunCall[c].op /\ tunCall'[c].session = tunCall[c].session
       /\ tunCall'[c].at = "lock" => tunCall[c].at = "lock"
    \/ tunCall'[c].op = "none" /\ tunCall'[c].session = None /\ tunCall'[c].at # "lock"

TunnelsMove ==
    /\ \A c \in Callers : TunCallGoes(c)
    /\ \A s \in Sessions : Tun!Of(s)' # {} => \/ Tun!Of(s) # {}
                                              \/ \E c \in Callers : tunCall[c].op = "start" /\ tunCall[c].session = s
    /\ \A c \in Callers : tunCall[c].at = "lock" /\ tunCall'[c].at # "lock" =>
         /\ tunCall[c].op = "dispose" => \A s \in Sessions : tunCall[c].session = s => Tun!Of(s)' = {}
         /\ tunCall[c].op = "all" => tunClosed'
    /\ tunClosed => tunClosed'

SftpCallGoes(c) ==
    \/ /\ sftpCall'[c].op = sftpCall[c].op /\ sftpCall'[c].session = sftpCall[c].session
       /\ sftpCall'[c].at = "table" => sftpCall[c].at = "table"
    \/ sftpCall'[c].op = "none" /\ sftpCall'[c].session = None /\ sftpCall'[c].at # "table"

SftpMoves ==
    /\ \A c \in Callers : SftpCallGoes(c)
    /\ \A s \in Sessions : handles'[s] # None => \/ handles[s] # None
                                                 \/ \E c \in Callers : Sftp!Operates(c) /\ sftpCall[c].session = s
    /\ \A c \in Callers : sftpCall[c].at = "table" /\ sftpCall'[c].at # "table" =>
         (sftpCall[c].op = "dispose" => \A s \in Sessions : sftpCall[c].session = s => handles'[s] = None)

(* A call of c goes on or ends, the others stay.                           *)
LEMMA MonOneGoes ==
    ASSUME NEW c \in Callers, MonCallGoes(c), \A d \in Callers \ {c} : monCall'[d] = monCall[d]
    PROVE  \A d \in Callers : MonCallGoes(d)
BY DEF MonCallGoes

LEMMA MonMoves == MonInv /\ Mon!Goes => MonitorMoves
<1> SUFFICES ASSUME MonInv, Mon!Goes PROVE MonitorMoves
  OBVIOUS
<1>0. Mon!TypeOK
  BY DEF MonInv
<1>1. ASSUME NEW c \in Callers, Mon!Detach(c) PROVE MonitorMoves
  <2>1. /\ monCall[c].at = "lock" /\ monClosed' = (monClosed \/ monCall[c].op = "stop")
        /\ monCall[c].op \in {"set", "dispose", "stop"}
    BY <1>0, <1>1 DEF Mon!Detach, MonInv, MonCallsSound, Mon!TypeOK
  <2>2. CASE Mon!Applies(c)
    <3>1. /\ active' = None /\ monCall' = [monCall EXCEPT ![c].at = "join", ![c].poller = active]
      BY <1>1, <2>2 DEF Mon!Detach
    <3>2. /\ monCall'[c].op = monCall[c].op /\ monCall'[c].session = monCall[c].session
          /\ monCall'[c].at = "join" /\ \A d \in Callers \ {c} : monCall'[d] = monCall[d]
      BY <1>0, <3>1 DEF Mon!TypeOK
    <3>3. \A d \in Callers : MonCallGoes(d)
      BY <3>2, MonOneGoes DEF MonCallGoes
    <3>4. \A s \in Sessions : ~Polled(s)'
      BY <3>1 DEF Polled
    <3>. QED BY <2>1, <3>2, <3>3, <3>4 DEF MonitorMoves
  <2>3. CASE ~Mon!Applies(c)
    <3>1. UNCHANGED <<active, pollers>> /\ monCall' = [monCall EXCEPT ![c] = Mon!NotCalling]
      BY <1>1, <2>3 DEF Mon!Detach, Mon!End
    <3>2. /\ monCall'[c].op = "none" /\ monCall'[c].session = None
          /\ monCall'[c].at = "idle" /\ \A d \in Callers \ {c} : monCall'[d] = monCall[d]
      BY <1>0, <3>1 DEF Mon!TypeOK, Mon!NotCalling
    <3>3. \A d \in Callers : MonCallGoes(d)
      BY <3>2, MonOneGoes DEF MonCallGoes
    <3>4. \A s \in Sessions : Polled(s)' = Polled(s)
      BY <3>1 DEF Polled
    <3>5. monCall[c].op # "stop" /\ (monCall[c].op = "dispose" => ~Polled(monCall[c].session))
      BY <2>3 DEF Mon!Applies, Polled, MonInv, StoppedForGood
    <3>. QED BY <2>1, <3>2, <3>3, <3>4, <3>5 DEF MonitorMoves
  <2>. QED BY <2>2, <2>3
<1>2. ASSUME NEW c \in Callers, Mon!Publish(c) PROVE MonitorMoves
  <2>0. PICK n \in Mon!Generations : n = Mon!Fresh
    BY <1>2 DEF Mon!Publish
  <2>1. /\ monCall[c].at = "join" /\ monCall[c].op = "set" /\ active' = n /\ monClosed' = monClosed
        /\ pollers' = [pollers EXCEPT ![n] = Mon!Poller(monCall[c].session)]
        /\ monCall' = [monCall EXCEPT ![c].at = "first", ![c].poller = n]
    BY <1>2, <2>0 DEF Mon!Publish
  <2>2. /\ monCall'[c].op = monCall[c].op /\ monCall'[c].session = monCall[c].session
        /\ monCall'[c].at = "first" /\ \A d \in Callers \ {c} : monCall'[d] = monCall[d]
    BY <1>0, <2>1 DEF Mon!TypeOK
  <2>3. \A d \in Callers : MonCallGoes(d)
    BY <2>2, MonOneGoes DEF MonCallGoes
  <2>4. pollers'[n].session = monCall[c].session
    BY <1>0, <2>1 DEF Mon!TypeOK, Mon!Poller
  <2>. QED BY <2>1, <2>2, <2>3, <2>4 DEF MonitorMoves, Polled
<1>3. ASSUME NEW c \in Callers, Mon!Cleared(c) \/ Mon!OpenGate(c) PROVE MonitorMoves
  <2>1. /\ monCall' = [monCall EXCEPT ![c] = Mon!NotCalling] /\ monCall[c].at # "lock"
        /\ UNCHANGED <<active, monClosed>>
    BY <1>3 DEF Mon!Cleared, Mon!OpenGate, Mon!End
  <2>2. /\ monCall'[c].op = "none" /\ monCall'[c].session = None
        /\ monCall'[c].at = "idle" /\ \A d \in Callers \ {c} : monCall'[d] = monCall[d]
    BY <1>0, <2>1 DEF Mon!TypeOK, Mon!NotCalling
  <2>3. \A d \in Callers : MonCallGoes(d)
    BY <2>2, MonOneGoes DEF MonCallGoes
  <2>4. active # None => pollers'[active].session = pollers[active].session
    BY <1>0, <1>3 DEF Mon!TypeOK, Mon!Cleared, Mon!OpenGate
  <2>. QED BY <2>1, <2>2, <2>3, <2>4 DEF MonitorMoves, Polled
<1>4. ASSUME NEW c \in Callers, Mon!First(c) PROVE MonitorMoves
  <2>1. /\ monCall' = [monCall EXCEPT ![c].at = "open"] /\ monCall[c].at # "lock"
        /\ UNCHANGED <<active, monClosed, pollers>>
    BY <1>4 DEF Mon!First, Mon!Go
  <2>2. /\ monCall'[c].op = monCall[c].op /\ monCall'[c].session = monCall[c].session
        /\ monCall'[c].at = "open" /\ \A d \in Callers \ {c} : monCall'[d] = monCall[d]
    BY <1>0, <2>1 DEF Mon!TypeOK
  <2>3. \A d \in Callers : MonCallGoes(d)
    BY <2>2, MonOneGoes DEF MonCallGoes
  <2>. QED BY <2>1, <2>2, <2>3 DEF MonitorMoves, Polled
<1>5. ASSUME NEW g \in Mon!Generations, Mon!Polls(g) \/ Mon!NextTick(g) \/ Mon!Leave(g) PROVE MonitorMoves
  <2>1. PICK to : pollers' = [pollers EXCEPT ![g].at = to] /\ UNCHANGED <<active, monClosed, monCall>>
    BY <1>5 DEF Mon!Polls, Mon!NextTick, Mon!Leave, Mon!PollerGoes, Mon!Gate, Mon!Tick, Mon!Sampled, Mon!EmitUpdate
  <2>2. active # None => pollers'[active].session = pollers[active].session
    BY <1>0, <2>1 DEF Mon!TypeOK
  <2>. QED BY <2>1, <2>2 DEF MonitorMoves, MonCallGoes, Polled
<1>. QED BY <1>1, <1>2, <1>3, <1>4, <1>5 DEF Mon!Goes, Mon!Step

LEMMA TunOneGoes ==
    ASSUME NEW c \in Callers, TunCallGoes(c), \A d \in Callers \ {c} : tunCall'[d] = tunCall[d]
    PROVE  \A d \in Callers : TunCallGoes(d)
BY DEF TunCallGoes

LEMMA TunMoves == TunInv /\ Tun!Goes => TunnelsMove
<1> SUFFICES ASSUME TunInv, Tun!Goes PROVE TunnelsMove
  OBVIOUS
<1>0. tunCall \in [Callers -> CallOfTunnels] /\ table \subseteq Tun!Opened /\ Tun!Opened \subseteq Tun!Forwards
      /\ forward \in [Tun!Forwards -> [session: Sessions \cup {None}, port: Ports \cup {None}]]
  BY DEF TunInv, Tun!TypeOK, CallOfTunnels, Tun!Opened
<1>1. ASSUME NEW c \in Callers, Tun!Look(c) PROVE TunnelsMove
  <2>1. /\ tunCall[c].op = "start" /\ UNCHANGED <<table, forward, tunClosed>>
        /\ tunCall' \in {[tunCall EXCEPT ![c] = Tun!Resting], [tunCall EXCEPT ![c].at = "listen"]}
    BY <1>1 DEF Tun!Look, Tun!End, Tun!Go
  <2>2. /\ \A d \in Callers \ {c} : tunCall'[d] = tunCall[d]
        /\ TunCallGoes(c)
    BY <1>0, <2>1 DEF Tun!Resting, CallOfTunnels, TunCallGoes
  <2>. QED BY <2>1, <2>2, TunOneGoes DEF TunnelsMove, Tun!Of
<1>2. ASSUME NEW c \in Callers, Tun!Listen(c) PROVE TunnelsMove
  <2>1. tunCall[c].at = "listen" /\ UNCHANGED <<table, tunClosed>>
    BY <1>2 DEF Tun!Listen
  <2>2. CASE Tun!End(c) /\ UNCHANGED <<forward, listening>>
    <3>1. /\ \A d \in Callers \ {c} : tunCall'[d] = tunCall[d]
          /\ TunCallGoes(c)
      BY <1>0, <2>2 DEF Tun!End, Tun!Resting, CallOfTunnels, TunCallGoes
    <3>. QED BY <2>1, <2>2, <3>1, TunOneGoes DEF TunnelsMove, Tun!Of
  <2>3. CASE ~(Tun!End(c) /\ UNCHANGED <<forward, listening>>)
    <3>1. PICK n \in Tun!Forwards \ Tun!Opened :
            /\ forward' = [forward EXCEPT ![n] = [session |-> tunCall[c].session, port |-> tunCall[c].port]]
            /\ tunCall' = [tunCall EXCEPT ![c].at = "insert", ![c].own = n]
      BY <1>2, <2>3 DEF Tun!Listen
    <3>2. /\ \A d \in Callers \ {c} : tunCall'[d] = tunCall[d]
          /\ TunCallGoes(c)
      BY <1>0, <3>1 DEF CallOfTunnels, TunCallGoes
    <3>3. \A m \in table : forward'[m] = forward[m]
      BY <1>0, <3>1
    <3>4. \A s \in Sessions : Tun!Of(s)' = Tun!Of(s)
      BY <2>1, <3>3 DEF Tun!Of
    <3>. QED BY <2>1, <3>2, <3>4, TunOneGoes DEF TunnelsMove
  <2>. QED BY <2>2, <2>3
<1>3. ASSUME NEW c \in Callers, Tun!Insert(c) PROVE TunnelsMove
  <2>1. /\ tunCall[c].at = "insert" /\ UNCHANGED <<forward, tunClosed>>
        /\ \/ table' = table /\ tunCall' = [tunCall EXCEPT ![c].at = "close", ![c].closing = {tunCall[c].own}]
           \/ table' = table \cup {tunCall[c].own} /\ tunCall' = [tunCall EXCEPT ![c] = Tun!Resting]
    BY <1>3 DEF Tun!Insert, Tun!End
  <2>2. tunCall[c].op = "start" /\ forward[tunCall[c].own].session = tunCall[c].session
    BY <2>1 DEF TunInv, TunCallsSound, OwnListener, Inserting
  <2>3. /\ \A d \in Callers \ {c} : tunCall'[d] = tunCall[d]
        /\ TunCallGoes(c)
    BY <1>0, <2>1 DEF Tun!Resting, CallOfTunnels, TunCallGoes
  <2>4. ASSUME NEW s \in Sessions, Tun!Of(s)' # {}, tunCall[c].session # s PROVE Tun!Of(s) # {}
    BY <2>1, <2>2, <2>4 DEF Tun!Of
  <2>. QED BY <2>1, <2>2, <2>3, <2>4, TunOneGoes DEF TunnelsMove
<1>4. ASSUME NEW c \in Callers, Tun!TakeOut(c) PROVE TunnelsMove
  <2>0. PICK some \in SUBSET table :
          /\ Tun!Taken(c, some) /\ table' = table \ some
          /\ tunCall' = [tunCall EXCEPT ![c].at = "close", ![c].closing = some]
    BY <1>4 DEF Tun!TakeOut
  <2>1. /\ tunCall[c].at = "lock" /\ UNCHANGED forward /\ table' = table \ some
        /\ tunCall[c].op \in {"stop", "dispose", "all"}
        /\ tunClosed' = (tunClosed \/ tunCall[c].op = "all")
        /\ tunCall' = [tunCall EXCEPT ![c].at = "close", ![c].closing = some]
    BY <1>4, <2>0 DEF Tun!TakeOut
  <2>2. /\ \A d \in Callers \ {c} : tunCall'[d] = tunCall[d]
        /\ TunCallGoes(c)
    BY <1>0, <2>1 DEF CallOfTunnels, TunCallGoes
  <2>3. \A s \in Sessions : Tun!Of(s)' \subseteq Tun!Of(s)
    BY <2>1 DEF Tun!Of
  <2>4. tunCall[c].op = "dispose" => some = Tun!Of(tunCall[c].session)
    BY <2>0 DEF Tun!Taken
  <2>5. tunCall[c].op = "dispose" => \A s \in Sessions : tunCall[c].session = s => Tun!Of(s)' = {}
    BY <2>1, <2>4 DEF Tun!Of
  <2>. QED BY <2>1, <2>2, <2>3, <2>5, TunOneGoes DEF TunnelsMove
<1>5. ASSUME NEW c \in Callers, Tun!CloseNext(c) PROVE TunnelsMove
  <2>1. /\ tunCall[c].at = "close" /\ UNCHANGED <<table, forward, tunClosed>>
        /\ \/ tunCall' = [tunCall EXCEPT ![c] = Tun!Resting]
           \/ \E n : tunCall' = [tunCall EXCEPT ![c].closing = tunCall[c].closing \ {n}]
    BY <1>5 DEF Tun!CloseNext, Tun!End
  <2>2. /\ \A d \in Callers \ {c} : tunCall'[d] = tunCall[d]
        /\ TunCallGoes(c)
    BY <1>0, <2>1 DEF Tun!Resting, CallOfTunnels, TunCallGoes
  <2>. QED BY <2>1, <2>2, TunOneGoes DEF TunnelsMove, Tun!Of
<1>6. CASE UNCHANGED <<table, forward, tunClosed, tunCall>>
  BY <1>6 DEF TunnelsMove, TunCallGoes, Tun!Of
<1>. QED BY <1>1, <1>2, <1>3, <1>4, <1>5, <1>6
         DEF Tun!Goes, Tun!Step, Tun!Accept, Tun!Dial, Tun!DialFails, Tun!HangUp, Tun!CutOff, Tun!CopyEnds, Tun!Connects

LEMMA SftpOneGoes ==
    ASSUME NEW c \in Callers, SftpCallGoes(c), \A d \in Callers \ {c} : sftpCall'[d] = sftpCall[d]
    PROVE  \A d \in Callers : SftpCallGoes(d)
BY DEF SftpCallGoes

LEMMA SftpDoes ==
    ASSUME SftpInv, NEW c \in Callers, Sftp!Step(c)
    PROVE  SftpMoves
<1>0. sftpCall \in [Callers -> CallOfSftp] /\ handles \in [Sessions -> Sftp!Handles \cup {None}]
  BY SftpTyped
<1>1. CASE Sftp!Resolve(c)
  <2>1. /\ sftpCall[c].at = "table"
        /\ \/ /\ Sftp!Operates(c)
              /\ \E h : /\ handles' = [handles EXCEPT ![sftpCall[c].session] = h]
                        /\ sftpCall' = [sftpCall EXCEPT ![c].at = "lock", ![c].handle = h]
           \/ /\ handles[sftpCall[c].session] = None /\ handles' = handles
              /\ sftpCall' = [sftpCall EXCEPT ![c] = Sftp!NoCall]
           \/ /\ handles' = IF sftpCall[c].op = "dispose" THEN [handles EXCEPT ![sftpCall[c].session] = None]
                            ELSE handles
              /\ \E h, at : /\ sftpCall' = [sftpCall EXCEPT ![c].at = at, ![c].handle = h]
                            /\ at \in {"lock", "take"}
    BY <1>1 DEF Sftp!Resolve, Sftp!End
  <2>2. /\ \A d \in Callers \ {c} : sftpCall'[d] = sftpCall[d]
        /\ SftpCallGoes(c)
    <3>1. CASE sftpCall' = [sftpCall EXCEPT ![c] = Sftp!NoCall]
      BY <1>0, <3>1 DEF Sftp!NoCall, SftpCallGoes
    <3>2. ASSUME NEW h, NEW at \in {"lock", "take"}, sftpCall' = [sftpCall EXCEPT ![c].at = at, ![c].handle = h]
          PROVE  (\A d \in Callers \ {c} : sftpCall'[d] = sftpCall[d]) /\ SftpCallGoes(c)
      BY <1>0, <3>2 DEF CallOfSftp, SftpCallGoes
    <3>. QED BY <2>1, <3>1, <3>2
  <2>3. ASSUME NEW s \in Sessions, handles'[s] # None, handles[s] = None
        PROVE  Sftp!Operates(c) /\ sftpCall[c].session = s
    BY <1>0, <2>1, <2>3
  <2>4. sftpCall[c].op = "dispose" => \A s \in Sessions : sftpCall[c].session = s => handles'[s] = None
    BY <1>0, <2>1 DEF Sftp!Operates
  <2>. QED BY <2>2, <2>3, <2>4, SftpOneGoes DEF SftpMoves
<1>2. CASE Sftp!TakeTable(c)
  <2>1. /\ sftpCall[c].op = "all" /\ handles' = [s \in Sessions |-> None]
        /\ \E t : sftpCall' = [sftpCall EXCEPT ![c].at = "visit", ![c].todo = t]
    BY <1>2 DEF Sftp!TakeTable
  <2>2. /\ \A d \in Callers \ {c} : sftpCall'[d] = sftpCall[d]
        /\ SftpCallGoes(c)
    BY <1>0, <2>1 DEF CallOfSftp, SftpCallGoes
  <2>. QED BY <2>1, <2>2, SftpOneGoes DEF SftpMoves
<1>3. CASE ~Sftp!Resolve(c) /\ ~Sftp!TakeTable(c)
  <2>1. UNCHANGED handles /\ sftpCall[c].at # "table"
    BY <1>3 DEF Sftp!Step, Sftp!Share, Sftp!LockHandle, Sftp!OpenClient, Sftp!OpenFails, Sftp!KeepClient,
                Sftp!HomeFails, Sftp!Operate, Sftp!setCwd, Sftp!Visit, Sftp!TakeClient, Sftp!CloseClient
  <2>2. \/ sftpCall' = [sftpCall EXCEPT ![c] = Sftp!NoCall]
        \/ \E at, k : at # "table" /\ sftpCall' = [sftpCall EXCEPT ![c].at = at, ![c].client = k]
        \/ \E at : at # "table" /\ sftpCall' = [sftpCall EXCEPT ![c].at = at]
        \/ \E h, t : sftpCall' = [sftpCall EXCEPT ![c].at = "take", ![c].handle = h, ![c].todo = t]
    <3>1. CASE Sftp!Share(c) \/ Sftp!OpenClient(c) \/ Sftp!TakeClient(c)
      BY <3>1 DEF Sftp!Share, Sftp!OpenClient, Sftp!TakeClient
    <3>2. CASE Sftp!LockHandle(c) \/ Sftp!KeepClient(c) \/ Sftp!Operate(c)
      BY <3>2 DEF Sftp!LockHandle, Sftp!KeepClient, Sftp!Operate, Sftp!Go, Sftp!End
    <3>3. CASE Sftp!OpenFails(c) \/ Sftp!HomeFails(c) \/ Sftp!setCwd(c)
      BY <3>3 DEF Sftp!OpenFails, Sftp!HomeFails, Sftp!setCwd, Sftp!End
    <3>4. CASE Sftp!Visit(c)
      BY <3>4 DEF Sftp!Visit, Sftp!End
    <3>5. CASE Sftp!CloseClient(c)
      BY <3>5 DEF Sftp!CloseClient, Sftp!End
    <3>. QED BY <1>3, <3>1, <3>2, <3>3, <3>4, <3>5 DEF Sftp!Step
  <2>3. /\ \A d \in Callers \ {c} : sftpCall'[d] = sftpCall[d]
        /\ SftpCallGoes(c)
    <3>1. CASE sftpCall' = [sftpCall EXCEPT ![c] = Sftp!NoCall]
      BY <1>0, <3>1 DEF Sftp!NoCall, SftpCallGoes
    <3>2. ASSUME NEW at, NEW k, at # "table", sftpCall' = [sftpCall EXCEPT ![c].at = at, ![c].client = k]
          PROVE  (\A d \in Callers \ {c} : sftpCall'[d] = sftpCall[d]) /\ SftpCallGoes(c)
      BY <1>0, <3>2 DEF CallOfSftp, SftpCallGoes
    <3>3. ASSUME NEW at, at # "table", sftpCall' = [sftpCall EXCEPT ![c].at = at]
          PROVE  (\A d \in Callers \ {c} : sftpCall'[d] = sftpCall[d]) /\ SftpCallGoes(c)
      BY <1>0, <3>3 DEF CallOfSftp, SftpCallGoes
    <3>4. ASSUME NEW h, NEW t, sftpCall' = [sftpCall EXCEPT ![c].at = "take", ![c].handle = h, ![c].todo = t]
          PROVE  (\A d \in Callers \ {c} : sftpCall'[d] = sftpCall[d]) /\ SftpCallGoes(c)
      BY <1>0, <3>4 DEF CallOfSftp, SftpCallGoes
    <3>. QED BY <2>2, <3>1, <3>2, <3>3, <3>4
  <2>. QED BY <2>1, <2>3, SftpOneGoes DEF SftpMoves
<1>. QED BY <1>1, <1>2, <1>3

-----------------------------------------------------------------------------
(* The ends of the sessions and the shutdown keep their part.              *)

(* What a caller is there for: a session's own calls are disposals of it.  *)
LEMMA CallersApart ==
    /\ \A u \in Users : u \in Callers /\ u \notin Sessions /\ u # Shutdown
    /\ \A s \in Sessions : s \in Callers /\ s \notin Users /\ s # Shutdown /\ s # None
    /\ Shutdown \in Callers /\ Shutdown \notin Users /\ Shutdown \notin Sessions
BY NamesApart DEF Callers

LEMMA OnlyUsersBring ==
    ASSUME LifeInv, NEW c \in Callers, NEW s \in Sessions
    PROVE  \/ monCall[c].op = "set" /\ monCall[c].session = s
           \/ tunCall[c].op = "start" /\ tunCall[c].session = s
           \/ Sftp!Operates(c) /\ sftpCall[c].session = s
           => Concerns(s)
BY CallersApart DEF LifeInv, Roles, Callers, Concerns, Sftp!Operates

(* The services go on.                                                     *)
LEMMA ServicesKeep ==
    ASSUME MonInv, TunInv, SftpInv, LifeInv, UNCHANGED life,
           MonitorMoves, TunnelsMove, SftpMoves
    PROVE  LifeInv'
<1>0. UNCHANGED <<session, ending, quiet, stopping, sweep, ops, late>>
  BY DEF life
<1>1. \A c \in Callers : MonCallGoes(c) /\ TunCallGoes(c) /\ SftpCallGoes(c)
  BY DEF MonitorMoves, TunnelsMove, SftpMoves
<1>2. LifeOK'
  BY <1>0 DEF LifeInv, LifeOK
<1>3. Roles'
  <2>1. Roles
    BY DEF LifeInv
  <2>2. ASSUME NEW u \in Users
        PROVE  /\ monCall'[u].op \in {"none", "set"}
               /\ tunCall'[u].op \in {"none", "start", "stop"}
               /\ sftpCall'[u].op \in {"none", "use", "chdir", "interrupt"}
    BY <1>1, <2>1, CallersApart DEF Roles, MonCallGoes, TunCallGoes, SftpCallGoes
  <2>3. ASSUME NEW s \in Sessions
        PROVE  /\ monCall'[s].op = "none" \/ (monCall'[s].op = "dispose" /\ monCall'[s].session = s)
               /\ tunCall'[s].op = "none" \/ (tunCall'[s].op = "dispose" /\ tunCall'[s].session = s)
               /\ sftpCall'[s].op = "none" \/ (sftpCall'[s].op = "dispose" /\ sftpCall'[s].session = s)
    BY <1>1, <2>1, CallersApart DEF Roles, MonCallGoes, TunCallGoes, SftpCallGoes
  <2>4. /\ monCall'[Shutdown].op \in {"none", "stop"}
        /\ tunCall'[Shutdown].op \in {"none", "all"}
        /\ sftpCall'[Shutdown].op \in {"none", "all"}
    BY <1>1, <2>1, CallersApart DEF Roles, MonCallGoes, TunCallGoes, SftpCallGoes
  <2>. QED BY <2>2, <2>3, <2>4 DEF Roles
<1>4. \A s \in Sessions : Concerns(s)' => Concerns(s)
  BY <1>1, CallersApart DEF Concerns, MonCallGoes, TunCallGoes, SftpCallGoes
<1>5. LateKnown'
  BY <1>0, <1>4 DEF LifeInv, LateKnown
<1>6. StagesInOrder'
  BY <1>0, <1>1, CallersApart DEF LifeInv, StagesInOrder, MonCallGoes, TunCallGoes, SftpCallGoes
<1>7. EndsDispose'
  <2> SUFFICES ASSUME NEW s \in Sessions \ late
               PROVE  /\ Past(s, {"monitor", "tunnels", "event"}) /\ sftpCall'[s].at # "table" => handles'[s] = None
                      /\ Past(s, {"tunnels", "event"}) /\ monCall'[s].at # "lock" => ~Polled(s)'
                      /\ Past(s, {"event"}) /\ tunCall'[s].at # "lock" => Tun!Of(s)' = {}
    BY <1>0 DEF EndsDispose, Past, Over
  <2>1. s \in Callers
    BY CallersApart
  <2>2. ASSUME Past(s, {"monitor", "tunnels", "event"})
        PROVE  /\ \A c \in Callers : ~(monCall[c].op = "set" /\ monCall[c].session = s)
               /\ \A c \in Callers : ~(tunCall[c].op = "start" /\ tunCall[c].session = s)
               /\ \A c \in Callers : ~(Sftp!Operates(c) /\ sftpCall[c].session = s)
    <3>1. session[s] # "up"
      BY <2>2 DEF LifeInv, StagesInOrder, Past, Over
    <3>2. ~Concerns(s)
      BY <3>1 DEF LifeInv, LateKnown
    <3>. QED BY <3>2, OnlyUsersBring
  <2>3. Past(s, {"monitor", "tunnels", "event"}) /\ sftpCall'[s].at # "table" => handles'[s] = None
    <3> SUFFICES ASSUME Past(s, {"monitor", "tunnels", "event"}), sftpCall'[s].at # "table", handles'[s] # None
                 PROVE  FALSE
      OBVIOUS
    <3>1. handles[s] # None
      BY <2>2 DEF SftpMoves
    <3>2. sftpCall[s].at = "table"
      BY <3>1 DEF LifeInv, EndsDispose
    <3>3. sftpCall[s].op = "dispose" /\ sftpCall[s].session = s
      BY <2>1, <3>2 DEF LifeInv, Roles, SftpInv, SftpCallsSound
    <3>. QED BY <2>1, <3>2, <3>3 DEF SftpMoves
  <2>4. Past(s, {"tunnels", "event"}) /\ monCall'[s].at # "lock" => ~Polled(s)'
    <3> SUFFICES ASSUME Past(s, {"tunnels", "event"}), monCall'[s].at # "lock", Polled(s)' PROVE FALSE
      OBVIOUS
    <3>1. Polled(s)
      BY <2>2 DEF MonitorMoves, Past
    <3>2. monCall[s].at = "lock"
      BY <3>1 DEF LifeInv, EndsDispose
    <3>3. monCall[s].op = "dispose" /\ monCall[s].session = s
      BY <2>1, <3>2 DEF LifeInv, Roles, MonInv, MonCallsSound
    <3>. QED BY <2>1, <3>2, <3>3 DEF MonitorMoves
  <2>5. Past(s, {"event"}) /\ tunCall'[s].at # "lock" => Tun!Of(s)' = {}
    <3> SUFFICES ASSUME Past(s, {"event"}), tunCall'[s].at # "lock", Tun!Of(s)' # {} PROVE FALSE
      OBVIOUS
    <3>1. Tun!Of(s) # {}
      BY <2>2 DEF TunnelsMove, Past
    <3>2. tunCall[s].at = "lock"
      BY <3>1 DEF LifeInv, EndsDispose
    <3>3. tunCall[s].op = "dispose" /\ tunCall[s].session = s
      BY <2>1, <3>2 DEF LifeInv, Roles, TunInv, TunCallsSound
    <3>. QED BY <2>1, <3>2, <3>3 DEF TunnelsMove
  <2>. QED BY <2>3, <2>4, <2>5
<1>8. ShutdownStops'
  <2>1. ShutdownStops
    BY DEF LifeInv
  <2>2. MonCallGoes(Shutdown) /\ TunCallGoes(Shutdown) /\ SftpCallGoes(Shutdown) /\ Shutdown \in Callers
    BY <1>1, CallersApart
  <2>3. monClosed \/ (monCall[Shutdown].op = "stop" /\ monCall[Shutdown].at = "lock") =>
          monClosed' \/ (monCall'[Shutdown].op = "stop" /\ monCall'[Shutdown].at = "lock")
    BY <2>2 DEF MonitorMoves, MonCallGoes
  <2>4. tunClosed \/ (tunCall[Shutdown].op = "all" /\ tunCall[Shutdown].at = "lock") =>
          tunClosed' \/ (tunCall'[Shutdown].op = "all" /\ tunCall'[Shutdown].at = "lock")
    BY <2>2 DEF TunnelsMove, TunCallGoes
  <2>. QED BY <1>0, <2>1, <2>2, <2>3, <2>4 DEF ShutdownStops, MonCallGoes, TunCallGoes, SftpCallGoes
<1>9. SweepKnown'
  BY <1>0 DEF LifeInv, SweepKnown
<1>. QED BY <1>2, <1>3, <1>5, <1>6, <1>7, <1>8, <1>9 DEF LifeInv

LEMMA StayingMoves ==
    /\ UNCHANGED monitor => MonitorMoves
    /\ UNCHANGED tunnels => TunnelsMove
    /\ UNCHANGED sftp => SftpMoves
<1>1. UNCHANGED monitor => MonitorMoves
  BY DEF monitor, MonitorMoves, MonCallGoes, Polled
<1>2. UNCHANGED tunnels => TunnelsMove
  BY DEF tunnels, TunnelsMove, TunCallGoes, Tun!Of
<1>3. UNCHANGED sftp => SftpMoves
  BY DEF sftp, SftpMoves, SftpCallGoes
<1>. QED BY <1>1, <1>2, <1>3

LEMMA ServiceGoesKeeps ==
    ASSUME IInv, MonitorGoes \/ TunnelGoes \/ SftpGoes
    PROVE  IInv'
<1>0. MonInv /\ TunInv /\ SftpInv /\ LifeInv
  BY DEF IInv
<1>1. CASE MonitorGoes
  <2>1. Mon!Goes /\ UNCHANGED life /\ UNCHANGED tunnels /\ UNCHANGED sftp
    BY <1>1 DEF MonitorGoes
  <2>. QED BY <1>0, <2>1, MonGoesKeeps, MonMoves, TunnelsStay, SftpStays, StayingMoves, ServicesKeep DEF IInv
<1>2. CASE TunnelGoes
  <2>1. Tun!Goes /\ UNCHANGED life /\ UNCHANGED monitor /\ UNCHANGED sftp
    BY <1>2 DEF TunnelGoes
  <2>. QED BY <1>0, <2>1, TunGoesKeeps, TunMoves, MonitorStays, SftpStays, StayingMoves, ServicesKeep DEF IInv
<1>3. CASE SftpGoes
  <2>1. PICK c \in Callers : Sftp!Step(c) /\ UNCHANGED life /\ UNCHANGED monitor /\ UNCHANGED tunnels
    BY <1>3 DEF SftpGoes
  <2>. QED BY <1>0, <2>1, SftpStepKeeps, SftpDoes, MonitorStays, TunnelsStay, StayingMoves, ServicesKeep DEF IInv
<1>. QED BY <1>1, <1>2, <1>3

(* A call that begins.                                                     *)
MonStarts(c, op, s) ==
    /\ UNCHANGED <<active, monClosed, pollers>>
    /\ monCall'[c].op = op /\ monCall'[c].session = s /\ monCall'[c].at = "lock"
    /\ \A d \in Callers \ {c} : monCall'[d] = monCall[d]

TunStarts(c, op, s) ==
    /\ UNCHANGED <<table, forward, tunClosed>>
    /\ tunCall'[c].op = op /\ tunCall'[c].session = s /\ tunCall'[c].at = "lock"
    /\ \A d \in Callers \ {c} : tunCall'[d] = tunCall[d]

SftpStarts(c, op, s) ==
    /\ UNCHANGED handles
    /\ sftpCall'[c].op = op /\ sftpCall'[c].session = s /\ sftpCall'[c].at = "table"
    /\ \A d \in Callers \ {c} : sftpCall'[d] = sftpCall[d]

LEMMA AsksMonitor ==
    ASSUME MonInv, TunInv, SftpInv, NEW c \in Callers, NEW op \in {"set", "dispose", "stop"},
           NEW s \in Sessions \cup {None}, AskMonitor(c, op, s)
    PROVE  MonInv' /\ TunInv' /\ SftpInv' /\ MonStarts(c, op, s) /\ UNCHANGED tunnels /\ UNCHANGED sftp
<1>1. Mon!Begin(c, op, s) /\ UNCHANGED tunnels /\ UNCHANGED sftp
  BY DEF AskMonitor
<1>2. MonStarts(c, op, s)
  BY <1>1 DEF MonInv, Mon!TypeOK, MonStarts, Mon!Begin, Mon!NotCalling
<1>. QED BY <1>1, <1>2, MonBeginKeeps, TunnelsStay, SftpStays

LEMMA AsksTunnels ==
    ASSUME MonInv, TunInv, SftpInv, NEW c \in Callers, NEW op \in {"start", "stop", "dispose", "all"},
           NEW s \in Sessions \cup {None}, op = "start" => s \in Sessions,
           NEW p \in Ports \cup {None}, AskTunnels(c, op, s, p)
    PROVE  MonInv' /\ TunInv' /\ SftpInv' /\ TunStarts(c, op, s) /\ UNCHANGED monitor /\ UNCHANGED sftp
<1>1. Tun!Begin(c, op, s, p) /\ UNCHANGED monitor /\ UNCHANGED sftp
  BY DEF AskTunnels
<1>2. TunStarts(c, op, s)
  BY <1>1, TunTyped DEF TunStarts, Tun!Begin, Tun!Resting
<1>. QED BY <1>1, <1>2, TunBeginKeeps, MonitorStays, SftpStays

LEMMA AsksSftp ==
    ASSUME MonInv, TunInv, SftpInv, NEW c \in Callers, NEW op \in {"use", "chdir", "interrupt", "dispose", "all"},
           NEW s \in Sessions \cup {None}, op # "all" => s \in Sessions,
           NEW d \in Dirs \cup {None}, AskSftp(c, op, s, d)
    PROVE  MonInv' /\ TunInv' /\ SftpInv' /\ SftpStarts(c, op, s) /\ UNCHANGED monitor /\ UNCHANGED tunnels
<1>1. Sftp!Begin(c, op, s, d) /\ UNCHANGED monitor /\ UNCHANGED tunnels
  BY DEF AskSftp
<1>2. SftpStarts(c, op, s)
  BY <1>1, SftpTyped DEF SftpStarts, Sftp!Begin, Sftp!NoCall
<1>. QED BY <1>1, <1>2, SftpBeginKeeps, MonitorStays, TunnelsStay

(* The renderer calls a service.                                           *)
LEMMA CallKeeps ==
    ASSUME IInv, NEW u \in Users, Call(u)
    PROVE  IInv'
<1>0. MonInv /\ TunInv /\ SftpInv /\ LifeInv /\ u \in Callers /\ u \notin Sessions /\ u # Shutdown
  BY CallersApart DEF IInv
<1>1. PICK s \in Sessions \cup {None} :
        /\ Calls(u, s)
        /\ late' = IF s # None /\ session[s] # "up" THEN late \cup {s} ELSE late
  BY DEF Call
<1>2. UNCHANGED <<session, ending, quiet, stopping, sweep>> /\ ops < MaxOps /\ ops' = ops + 1
  BY DEF Call
<1>3. s # None => s \in Sessions
  OBVIOUS
<1>4. /\ MonInv' /\ TunInv' /\ SftpInv'
      /\ \/ MonStarts(u, "set", s) /\ UNCHANGED tunnels /\ UNCHANGED sftp
         \/ (\E op \in {"start", "stop"} : TunStarts(u, op, s)) /\ UNCHANGED monitor /\ UNCHANGED sftp
         \/ (\E op \in {"use", "chdir", "interrupt"} : SftpStarts(u, op, s)) /\ UNCHANGED monitor /\ UNCHANGED tunnels
  <2>1. CASE AskMonitor(u, "set", s)
    BY <1>0, <2>1, AsksMonitor
  <2>2. ASSUME NEW p \in Ports, s # None, AskTunnels(u, "start", s, p) \/ AskTunnels(u, "stop", s, p)
        PROVE  /\ MonInv' /\ TunInv' /\ SftpInv'
               /\ (\E op \in {"start", "stop"} : TunStarts(u, op, s)) /\ UNCHANGED monitor /\ UNCHANGED sftp
    BY <1>0, <1>3, <2>2, AsksTunnels
  <2>3. ASSUME NEW d \in Dirs \cup {None}, NEW op \in {"use", "chdir", "interrupt"}, s # None, AskSftp(u, op, s, d)
        PROVE  /\ MonInv' /\ TunInv' /\ SftpInv'
               /\ SftpStarts(u, op, s) /\ UNCHANGED monitor /\ UNCHANGED tunnels
    BY <1>0, <1>3, <2>3, AsksSftp
  <2>. QED BY <1>1, <2>1, <2>2, <2>3 DEF Calls
<1>5. /\ \A c \in Callers \ {u} : monCall'[c] = monCall[c] /\ tunCall'[c] = tunCall[c] /\ sftpCall'[c] = sftpCall[c]
      /\ UNCHANGED <<active, monClosed, pollers, table, forward, tunClosed, handles>>
  BY <1>4 DEF MonStarts, TunStarts, SftpStarts, monitor, tunnels, sftp
<1>6. LifeOK'
  BY <1>0, <1>1, <1>2, BoundsAreNat DEF LifeInv, LifeOK
<1>7. Roles'
  <2>1. Roles
    BY <1>0 DEF LifeInv
  <2>2. /\ monCall'[u].op \in {"none", "set"} /\ tunCall'[u].op \in {"none", "start", "stop"}
        /\ sftpCall'[u].op \in {"none", "use", "chdir", "interrupt"}
    BY <1>4, <2>1 DEF Roles, MonStarts, TunStarts, SftpStarts, monitor, tunnels, sftp
  <2>. QED BY <1>0, <1>5, <2>1, <2>2, CallersApart DEF Roles
<1>8. LateKnown'
  <2> SUFFICES ASSUME NEW t \in Sessions, session[t] # "up", t \notin late', Concerns(t)' PROVE FALSE
    BY <1>2 DEF LateKnown
  <2>1. t # s /\ t \notin late
    BY <1>1, CallersApart
  <2>2. ~Concerns(t)
    BY <1>0, <2>1 DEF LifeInv, LateKnown
  <2>3. t \notin {monCall'[u].session, tunCall'[u].session, sftpCall'[u].session}
    BY <1>4, <2>1, <2>2 DEF Concerns, MonStarts, TunStarts, SftpStarts, monitor, tunnels, sftp
  <2>. QED BY <1>0, <1>5, <2>2, <2>3, CallersApart DEF Concerns
<1>9. StagesInOrder'
  BY <1>0, <1>2, <1>5, CallersApart DEF LifeInv, StagesInOrder
<1>10. EndsDispose'
  <2>1. late \subseteq late' /\ EndsDispose
    BY <1>0, <1>1 DEF LifeInv
  <2>2. \A t \in Sessions : monCall'[t] = monCall[t] /\ tunCall'[t] = tunCall[t] /\ sftpCall'[t] = sftpCall[t]
    BY <1>0, <1>5, CallersApart
  <2>. QED BY <1>2, <1>5, <2>1, <2>2 DEF EndsDispose, Past, Over, Polled, Tun!Of
<1>11. ShutdownStops'
  BY <1>0, <1>2, <1>5, CallersApart DEF LifeInv, ShutdownStops
<1>12. SweepKnown'
  BY <1>0, <1>2 DEF LifeInv, SweepKnown
<1>. QED BY <1>4, <1>6, <1>7, <1>8, <1>9, <1>10, <1>11, <1>12 DEF IInv, LifeInv

(* A session ends, by itself or in the shutdown.                           *)
LEMMA ClosesKeeps ==
    ASSUME IInv, NEW s \in Sessions, NEW silent \in BOOLEAN, Closes(s, silent)
    PROVE  IInv'
<1>0. MonInv /\ TunInv /\ SftpInv /\ LifeInv
  BY DEF IInv
<1>1. /\ ending[s] = "no" /\ session' = [session EXCEPT ![s] = "closed"]
      /\ ending' = [ending EXCEPT ![s] = "closing"]
      /\ quiet' \in {quiet, quiet \cup {s}}
      /\ late' = IF Concerns(s) THEN late \cup {s} ELSE late
      /\ UNCHANGED <<stopping, sweep, ops>> /\ UNCHANGED monitor /\ UNCHANGED tunnels /\ UNCHANGED sftp
  BY DEF Closes, OnlyLife
<1>2. MonInv' /\ TunInv' /\ SftpInv'
  BY <1>0, <1>1, MonitorStays, TunnelsStay, SftpStays
<1>3. LifeOK'
  BY <1>0, <1>1 DEF LifeInv, LifeOK
<1>4. /\ session'[s] = "closed" /\ ending'[s] = "closing"
      /\ \A t \in Sessions \ {s} : /\ session'[t] = session[t] /\ ending'[t] = ending[t]
                                   /\ t \in quiet' <=> t \in quiet
  BY <1>0, <1>1 DEF LifeInv, LifeOK
<1>5. UNCHANGED <<monCall, tunCall, sftpCall, active, monClosed, pollers, table, forward, tunClosed, handles>>
  BY <1>1 DEF monitor, tunnels, sftp
<1>6. Roles'
  BY <1>0, <1>5 DEF LifeInv, Roles
<1>7. LateKnown'
  <2>1. \A t \in Sessions : Concerns(t)' = Concerns(t)
    BY <1>5 DEF Concerns
  <2>. QED BY <1>0, <1>1, <1>4, <2>1 DEF LifeInv, LateKnown
<1>8. StagesInOrder'
  BY <1>0, <1>1, <1>4, <1>5 DEF LifeInv, StagesInOrder
<1>9. EndsDispose'
  <2>1. late \subseteq late' /\ EndsDispose
    BY <1>0, <1>1 DEF LifeInv
  <2>. QED BY <1>4, <1>5, <2>1 DEF EndsDispose, Past, Over, Polled, Tun!Of
<1>10. ShutdownStops'
  BY <1>0, <1>1, <1>5 DEF LifeInv, ShutdownStops
<1>11. SweepKnown'
  <2>1. session[s] # "gone"
    BY <1>0, <1>1 DEF LifeInv, StagesInOrder
  <2>. QED BY <1>0, <1>1, <1>4, <2>1 DEF LifeInv, SweepKnown
<1>. QED BY <1>2, <1>3, <1>6, <1>7, <1>8, <1>9, <1>10, <1>11 DEF IInv, LifeInv

LEMMA RemovedKeeps ==
    ASSUME IInv, NEW s \in Sessions, Removed(s)
    PROVE  IInv'
<1>0. MonInv /\ TunInv /\ SftpInv /\ LifeInv
  BY DEF IInv
<1>1. /\ ending[s] = "closing" /\ session' = [session EXCEPT ![s] = "gone"]
      /\ ending' = [ending EXCEPT ![s] = IF s \in quiet THEN "over" ELSE "sftp"]
      /\ UNCHANGED <<quiet, stopping, sweep, ops, late>>
      /\ UNCHANGED monitor /\ UNCHANGED tunnels /\ UNCHANGED sftp
  BY DEF Removed, OnlyLife
<1>2. MonInv' /\ TunInv' /\ SftpInv'
  BY <1>0, <1>1, MonitorStays, TunnelsStay, SftpStays
<1>3. LifeOK'
  BY <1>0, <1>1 DEF LifeInv, LifeOK
<1>4. /\ session'[s] = "gone" /\ ending'[s] = IF s \in quiet THEN "over" ELSE "sftp"
      /\ \A t \in Sessions \ {s} : session'[t] = session[t] /\ ending'[t] = ending[t]
  BY <1>0, <1>1 DEF LifeInv, LifeOK
<1>5. UNCHANGED <<monCall, tunCall, sftpCall, active, monClosed, pollers, table, forward, tunClosed, handles>>
  BY <1>1 DEF monitor, tunnels, sftp
<1>6. Roles'
  BY <1>0, <1>5 DEF LifeInv, Roles
<1>7. LateKnown'
  <2>1. \A t \in Sessions : Concerns(t)' = Concerns(t)
    BY <1>5 DEF Concerns
  <2>2. session[s] # "up"
    BY <1>0, <1>1 DEF LifeInv, StagesInOrder
  <2>. QED BY <1>0, <1>1, <1>4, <2>1, <2>2 DEF LifeInv, LateKnown
<1>8. StagesInOrder'
  BY <1>0, <1>1, <1>4, <1>5 DEF LifeInv, StagesInOrder
<1>9. EndsDispose'
  BY <1>0, <1>1, <1>4, <1>5 DEF LifeInv, EndsDispose, Past, Over, Polled, Tun!Of
<1>10. ShutdownStops'
  BY <1>0, <1>1, <1>5 DEF LifeInv, ShutdownStops
<1>11. SweepKnown'
  BY <1>0, <1>1, <1>4 DEF LifeInv, SweepKnown
<1>. QED BY <1>2, <1>3, <1>6, <1>7, <1>8, <1>9, <1>10, <1>11 DEF IInv, LifeInv

(* The sink disposes of the services one after the other; each call of a   *)
(* session is over when the next begins.                                   *)
LEMMA NextStageKeeps ==
    ASSUME IInv, NEW s \in Sessions, DisposeSftp(s) \/ DisposeMonitor(s) \/ DisposeTunnels(s) \/ ClosedEvent(s)
    PROVE  IInv'
<1>0. /\ MonInv /\ TunInv /\ SftpInv /\ LifeInv /\ s \in Callers /\ s # Shutdown /\ s \notin Users
      /\ None \in Ports \cup {None} /\ None \in Dirs \cup {None}
  BY CallersApart DEF IInv
<1>1. /\ UNCHANGED <<session, quiet, stopping, sweep, ops, late>> /\ Idle(s)
      /\ \/ ending[s] = "sftp" /\ ending' = [ending EXCEPT ![s] = "monitor"] /\ AskSftp(s, "dispose", s, None)
         \/ ending[s] = "monitor" /\ ending' = [ending EXCEPT ![s] = "tunnels"] /\ AskMonitor(s, "dispose", s)
         \/ ending[s] = "tunnels" /\ ending' = [ending EXCEPT ![s] = "event"] /\ AskTunnels(s, "dispose", s, None)
         \/ ending[s] = "event" /\ ending' = [ending EXCEPT ![s] = "over"]
            /\ UNCHANGED monitor /\ UNCHANGED tunnels /\ UNCHANGED sftp
  BY DEF DisposeSftp, DisposeMonitor, DisposeTunnels, ClosedEvent, NextStage, OnlyLife
<1>2. /\ MonInv' /\ TunInv' /\ SftpInv'
      /\ \/ /\ ending[s] = "sftp" /\ ending' = [ending EXCEPT ![s] = "monitor"]
            /\ SftpStarts(s, "dispose", s) /\ UNCHANGED monitor /\ UNCHANGED tunnels
         \/ /\ ending[s] = "monitor" /\ ending' = [ending EXCEPT ![s] = "tunnels"]
            /\ MonStarts(s, "dispose", s) /\ UNCHANGED tunnels /\ UNCHANGED sftp
         \/ /\ ending[s] = "tunnels" /\ ending' = [ending EXCEPT ![s] = "event"]
            /\ TunStarts(s, "dispose", s) /\ UNCHANGED monitor /\ UNCHANGED sftp
         \/ /\ ending[s] = "event" /\ ending' = [ending EXCEPT ![s] = "over"]
            /\ UNCHANGED monitor /\ UNCHANGED tunnels /\ UNCHANGED sftp
  <2>1. CASE ending[s] = "sftp"
    BY <1>0, <1>1, <2>1, AsksSftp
  <2>2. CASE ending[s] = "monitor"
    BY <1>0, <1>1, <2>2, AsksMonitor
  <2>3. CASE ending[s] = "tunnels"
    BY <1>0, <1>1, <2>3, AsksTunnels
  <2>4. CASE ending[s] = "event"
    BY <1>0, <1>1, <2>4, MonitorStays, TunnelsStay, SftpStays
  <2>. QED BY <1>1, <2>1, <2>2, <2>3, <2>4
<1>3. /\ \A c \in Callers \ {s} : monCall'[c] = monCall[c] /\ tunCall'[c] = tunCall[c] /\ sftpCall'[c] = sftpCall[c]
      /\ UNCHANGED <<active, monClosed, pollers, table, forward, tunClosed, handles>>
  BY <1>2 DEF MonStarts, TunStarts, SftpStarts, monitor, tunnels, sftp
<1>4. LifeOK'
  BY <1>0, <1>1 DEF LifeInv, LifeOK
<1>5. \A t \in Sessions \ {s} : ending'[t] = ending[t]
  BY <1>0, <1>1 DEF LifeInv, LifeOK
<1>6. /\ monCall[s].op = "none" /\ tunCall[s].op = "none" /\ sftpCall[s].op = "none"
      /\ monCall[s].at = "idle" /\ tunCall[s].at = "idle" /\ sftpCall[s].at = "idle"
  BY <1>0, <1>1 DEF Idle, MonInv, MonCallsSound, TunInv, TunCallsSound, SftpInv, SftpCallsSound
<1>7. \/ /\ ending[s] = "sftp" /\ ending'[s] = "monitor"
         /\ sftpCall'[s].op = "dispose" /\ sftpCall'[s].session = s /\ sftpCall'[s].at = "table"
         /\ monCall'[s] = monCall[s] /\ tunCall'[s] = tunCall[s]
      \/ /\ ending[s] = "monitor" /\ ending'[s] = "tunnels"
         /\ monCall'[s].op = "dispose" /\ monCall'[s].session = s /\ monCall'[s].at = "lock"
         /\ tunCall'[s] = tunCall[s] /\ sftpCall'[s] = sftpCall[s]
      \/ /\ ending[s] = "tunnels" /\ ending'[s] = "event"
         /\ tunCall'[s].op = "dispose" /\ tunCall'[s].session = s /\ tunCall'[s].at = "lock"
         /\ monCall'[s] = monCall[s] /\ sftpCall'[s] = sftpCall[s]
      \/ /\ ending[s] = "event" /\ ending'[s] = "over"
         /\ monCall'[s] = monCall[s] /\ tunCall'[s] = tunCall[s] /\ sftpCall'[s] = sftpCall[s]
  BY <1>0, <1>2 DEF MonStarts, TunStarts, SftpStarts, monitor, tunnels, sftp, LifeInv, LifeOK
<1>8. Roles'
  <2>1. Roles
    BY <1>0 DEF LifeInv
  <2>2. /\ monCall'[s].op = "none" \/ (monCall'[s].op = "dispose" /\ monCall'[s].session = s)
        /\ tunCall'[s].op = "none" \/ (tunCall'[s].op = "dispose" /\ tunCall'[s].session = s)
        /\ sftpCall'[s].op = "none" \/ (sftpCall'[s].op = "dispose" /\ sftpCall'[s].session = s)
    BY <1>6, <1>7
  <2>. QED BY <1>0, <1>3, <2>1, <2>2, CallersApart DEF Roles
<1>9. LateKnown'
  <2>1. \A u \in Users : /\ monCall'[u] = monCall[u] /\ tunCall'[u] = tunCall[u]
                         /\ sftpCall'[u] = sftpCall[u]
    BY <1>0, <1>3, CallersApart
  <2>2. \A t \in Sessions : Concerns(t)' = Concerns(t)
    BY <2>1 DEF Concerns
  <2>. QED BY <1>0, <1>1, <2>2 DEF LifeInv, LateKnown
<1>10. StagesInOrder'
  <2>1. StagesInOrder
    BY <1>0 DEF LifeInv
  <2>2. ASSUME NEW t \in Sessions
        PROVE  /\ session'[t] = "up" <=> ending'[t] = "no"
               /\ ending'[t] \notin {"no", "closing"} => session'[t] = "gone"
               /\ ending'[t] # "monitor" => sftpCall'[t].op = "none"
               /\ ending'[t] # "tunnels" => monCall'[t].op = "none"
               /\ ending'[t] # "event" => tunCall'[t].op = "none"
    <3>1. CASE t = s
      BY <1>1, <1>6, <1>7, <2>1, <3>1 DEF StagesInOrder
    <3>2. CASE t # s
      BY <1>1, <1>3, <1>5, <2>1, <3>2, CallersApart DEF StagesInOrder
    <3>. QED BY <3>1, <3>2
  <2>. QED BY <2>2 DEF StagesInOrder
<1>11. EndsDispose'
  <2>1. EndsDispose
    BY <1>0 DEF LifeInv
  <2>2. ASSUME NEW t \in Sessions \ late
        PROVE  /\ Past(t, {"monitor", "tunnels", "event"})' /\ sftpCall'[t].at # "table" => handles'[t] = None
               /\ Past(t, {"tunnels", "event"})' /\ monCall'[t].at # "lock" => ~Polled(t)'
               /\ Past(t, {"event"})' /\ tunCall'[t].at # "lock" => Tun!Of(t)' = {}
    <3>0. Polled(t)' = Polled(t) /\ Tun!Of(t)' = Tun!Of(t)
      BY <1>3 DEF Polled, Tun!Of
    <3>1. CASE t = s
      BY <1>1, <1>3, <1>6, <1>7, <2>1, <3>0, <3>1 DEF EndsDispose, Past, Over
    <3>2. CASE t # s
      BY <1>1, <1>3, <1>5, <2>1, <3>0, <3>2, CallersApart DEF EndsDispose, Past, Over
    <3>. QED BY <3>1, <3>2
  <2>. QED BY <1>1, <2>2 DEF EndsDispose
<1>12. ShutdownStops'
  BY <1>0, <1>1, <1>3, CallersApart DEF LifeInv, ShutdownStops
<1>13. SweepKnown'
  BY <1>0, <1>1 DEF LifeInv, SweepKnown
<1>. QED BY <1>2, <1>4, <1>8, <1>9, <1>10, <1>11, <1>12, <1>13 DEF IInv, LifeInv

LEMMA ShutdownKeeps ==
    ASSUME IInv,
           \/ BeginShutdown \/ StopMonitor \/ StopTunnels \/ TakeSessions \/ SessionsStopped
           \/ StopSftp \/ ShutdownDone
    PROVE  IInv'
<1>0. /\ MonInv /\ TunInv /\ SftpInv /\ LifeInv /\ Shutdown \in Callers /\ Shutdown \notin Sessions
      /\ None \in Ports \cup {None} /\ None \in Dirs \cup {None} /\ None \in Sessions \cup {None}
  BY CallersApart DEF IInv
<1>1. /\ UNCHANGED <<session, ending, quiet, ops, late>> /\ Idle(Shutdown)
      /\ \/ /\ \/ stopping = "no" /\ stopping' = "monitor"
               \/ stopping = "sessions" /\ stopping' = "sweep"
               \/ stopping = "sweep" /\ stopping' = "sftp"
               \/ stopping = "last" /\ stopping' = "over"
            /\ UNCHANGED monitor /\ UNCHANGED tunnels /\ UNCHANGED sftp
         \/ stopping = "monitor" /\ stopping' = "tunnels" /\ AskMonitor(Shutdown, "stop", None)
         \/ stopping = "tunnels" /\ stopping' = "sessions" /\ AskTunnels(Shutdown, "all", None, None)
         \/ stopping = "sftp" /\ stopping' = "last" /\ AskSftp(Shutdown, "all", None, None)
  BY DEF BeginShutdown, StopMonitor, StopTunnels, TakeSessions, SessionsStopped, StopSftp, ShutdownDone,
         ShutdownTo, OnlyLife
<1>2. /\ MonInv' /\ TunInv' /\ SftpInv'
      /\ \/ /\ \/ stopping = "no" /\ stopping' = "monitor"
               \/ stopping = "sessions" /\ stopping' = "sweep"
               \/ stopping = "sweep" /\ stopping' = "sftp"
               \/ stopping = "last" /\ stopping' = "over"
            /\ UNCHANGED monitor /\ UNCHANGED tunnels /\ UNCHANGED sftp
         \/ /\ stopping = "monitor" /\ stopping' = "tunnels"
            /\ MonStarts(Shutdown, "stop", None) /\ UNCHANGED tunnels /\ UNCHANGED sftp
         \/ /\ stopping = "tunnels" /\ stopping' = "sessions"
            /\ TunStarts(Shutdown, "all", None) /\ UNCHANGED monitor /\ UNCHANGED sftp
         \/ /\ stopping = "sftp" /\ stopping' = "last"
            /\ SftpStarts(Shutdown, "all", None) /\ UNCHANGED monitor /\ UNCHANGED tunnels
  <2>1. CASE /\ \/ stopping = "no" /\ stopping' = "monitor"
                \/ stopping = "sessions" /\ stopping' = "sweep"
                \/ stopping = "sweep" /\ stopping' = "sftp"
                \/ stopping = "last" /\ stopping' = "over"
             /\ UNCHANGED monitor /\ UNCHANGED tunnels /\ UNCHANGED sftp
    BY <1>0, <2>1, MonitorStays, TunnelsStay, SftpStays
  <2>2. CASE stopping = "monitor" /\ stopping' = "tunnels" /\ AskMonitor(Shutdown, "stop", None)
    BY <1>0, <2>2, AsksMonitor
  <2>3. CASE stopping = "tunnels" /\ stopping' = "sessions" /\ AskTunnels(Shutdown, "all", None, None)
    BY <1>0, <2>3, AsksTunnels
  <2>4. CASE stopping = "sftp" /\ stopping' = "last" /\ AskSftp(Shutdown, "all", None, None)
    BY <1>0, <2>4, AsksSftp
  <2>. QED BY <1>1, <2>1, <2>2, <2>3, <2>4
<1>3. /\ \A c \in Callers \ {Shutdown} : /\ monCall'[c] = monCall[c] /\ tunCall'[c] = tunCall[c]
                                         /\ sftpCall'[c] = sftpCall[c]
      /\ UNCHANGED <<active, monClosed, pollers, table, forward, tunClosed, handles>>
  BY <1>2 DEF MonStarts, TunStarts, SftpStarts, monitor, tunnels, sftp
<1>4. /\ monCall[Shutdown].op = "none" /\ tunCall[Shutdown].op = "none" /\ sftpCall[Shutdown].op = "none"
      /\ monCall[Shutdown].at = "idle" /\ tunCall[Shutdown].at = "idle"
  BY <1>0, <1>1 DEF Idle, MonInv, MonCallsSound, TunInv, TunCallsSound
<1>5. /\ \/ monCall'[Shutdown] = monCall[Shutdown] /\ stopping # "monitor"
         \/ /\ monCall'[Shutdown].op = "stop" /\ monCall'[Shutdown].at = "lock"
            /\ stopping = "monitor" /\ stopping' = "tunnels"
      /\ \/ tunCall'[Shutdown] = tunCall[Shutdown] /\ stopping # "tunnels"
         \/ /\ tunCall'[Shutdown].op = "all" /\ tunCall'[Shutdown].at = "lock"
            /\ stopping = "tunnels" /\ stopping' = "sessions"
      /\ sftpCall'[Shutdown].op \in {"none", "all"}
  BY <1>2, <1>4 DEF MonStarts, TunStarts, SftpStarts, monitor, tunnels, sftp
<1>6. LifeOK'
  <2>1. sweep' \subseteq Sessions
    BY <1>0 DEF LifeInv, LifeOK, BeginShutdown, StopMonitor, StopTunnels, TakeSessions, SessionsStopped,
                StopSftp, ShutdownDone
  <2>. QED BY <1>0, <1>1, <2>1 DEF LifeInv, LifeOK
<1>7. Roles'
  BY <1>0, <1>3, <1>4, <1>5, CallersApart DEF LifeInv, Roles
<1>8. \A c \in Users \cup Sessions : /\ monCall'[c] = monCall[c] /\ tunCall'[c] = tunCall[c]
                                     /\ sftpCall'[c] = sftpCall[c]
  BY <1>3, CallersApart
<1>9. LateKnown'
  <2>1. \A t \in Sessions : Concerns(t)' = Concerns(t)
    BY <1>8 DEF Concerns
  <2>. QED BY <1>0, <1>1, <2>1 DEF LifeInv, LateKnown
<1>10. StagesInOrder'
  BY <1>0, <1>1, <1>8 DEF LifeInv, StagesInOrder
<1>11. EndsDispose'
  BY <1>0, <1>1, <1>3, <1>8 DEF LifeInv, EndsDispose, Past, Over, Polled, Tun!Of
<1>12. ShutdownStops'
  <2>1. ShutdownStops
    BY <1>0 DEF LifeInv
  <2>2. stopping' \in {"tunnels", "sessions", "sweep", "sftp", "last", "over"} =>
          monClosed' \/ (monCall'[Shutdown].op = "stop" /\ monCall'[Shutdown].at = "lock")
    BY <1>2, <1>3, <1>4, <1>5, <2>1 DEF ShutdownStops
  <2>3. stopping' \in {"sessions", "sweep", "sftp", "last", "over"} =>
          tunClosed' \/ (tunCall'[Shutdown].op = "all" /\ tunCall'[Shutdown].at = "lock")
    BY <1>2, <1>3, <1>4, <1>5, <2>1 DEF ShutdownStops
  <2>4. stopping' # "last" => sftpCall'[Shutdown].op = "none"
    BY <1>2, <1>4 DEF sftp
  <2>. QED BY <1>4, <1>5, <2>2, <2>3, <2>4 DEF ShutdownStops
<1>13. SweepKnown'
  <2>1. CASE TakeSessions
    BY <1>1, <2>1 DEF TakeSessions, ShutdownTo, SweepKnown
  <2>2. CASE SessionsStopped
    <3>1. \A s \in sweep : session[s] = "gone"
      BY <1>0, <2>2 DEF SessionsStopped, LifeInv, LifeOK, StagesInOrder
    <3>. QED BY <1>0, <1>1, <2>2, <3>1 DEF SessionsStopped, ShutdownTo, LifeInv, SweepKnown
  <2>3. CASE BeginShutdown \/ StopMonitor \/ StopTunnels
    BY <2>3 DEF BeginShutdown, StopMonitor, StopTunnels, ShutdownTo, SweepKnown
  <2>4. CASE StopSftp \/ ShutdownDone
    BY <1>0, <1>1, <2>4 DEF StopSftp, ShutdownDone, ShutdownTo, LifeInv, SweepKnown
  <2>. QED BY <2>1, <2>2, <2>3, <2>4
<1>. QED BY <1>2, <1>6, <1>7, <1>9, <1>10, <1>11, <1>12, <1>13 DEF IInv, LifeInv

-----------------------------------------------------------------------------
LEMMA InitialState == Init => IInv
<1> SUFFICES ASSUME Init PROVE IInv
  OBVIOUS
<1>1. MonInv /\ TunInv /\ SftpInv
  BY MonInitial, TunInitial, SftpInitial DEF Init
<1>2. \A c \in Callers : monCall[c].op = "none" /\ tunCall[c].op = "none" /\ sftpCall[c].op = "none"
  BY DEF Init, Mon!Init, Tun!Init, Sftp!Init, Mon!NotCalling, Tun!Resting, Sftp!NoCall
<1>3. /\ session = [s \in Sessions |-> "up"] /\ ending = [s \in Sessions |-> "no"]
      /\ quiet = {} /\ stopping = "no" /\ sweep = {} /\ ops = 0 /\ late = {}
  BY DEF Init
<1>4. LifeInv
  BY <1>2, <1>3, CallersApart, BoundsAreNat
     DEF LifeInv, LifeOK, Roles, LateKnown, StagesInOrder, EndsDispose, ShutdownStops, SweepKnown, Past, Over
<1>. QED BY <1>1, <1>4 DEF IInv

LEMMA NextKeeps == IInv /\ [Next]_vars => IInv'
<1> SUFFICES ASSUME IInv, [Next]_vars PROVE IInv'
  OBVIOUS
<1>1. CASE MonitorGoes \/ TunnelGoes \/ SftpGoes
  BY <1>1, ServiceGoesKeeps
<1>2. ASSUME NEW u \in Users, Call(u) PROVE IInv'
  BY <1>2, CallKeeps
<1>3. ASSUME NEW s \in Sessions, SessionEnds(s) \/ EndGoes(s) PROVE IInv'
  BY <1>3, ClosesKeeps, RemovedKeeps, NextStageKeeps DEF SessionEnds, EndGoes
<1>4. CASE BeginShutdown \/ ShutdownGoes
  BY <1>4, ShutdownKeeps, ClosesKeeps DEF ShutdownGoes, StopSession
<1>5. CASE UNCHANGED vars
  <2>1. UNCHANGED life /\ UNCHANGED monitor /\ UNCHANGED tunnels /\ UNCHANGED sftp
    BY <1>5 DEF vars
  <2>. QED BY <2>1, MonitorStays, TunnelsStay, SftpStays, StayingMoves, ServicesKeep DEF IInv
<1>. QED BY <1>1, <1>2, <1>3, <1>4, <1>5 DEF Next

(* The inductive invariant: what each service keeps by itself, and how far *)
(* the ends and the shutdown have brought them.                            *)
THEOREM Invariant == Spec => []IInv
<1>1. Init => IInv
  BY InitialState
<1>2. IInv /\ [Next]_vars => IInv'
  BY NextKeeps
<1>. QED BY <1>1, <1>2, PTL DEF Spec

-----------------------------------------------------------------------------
(* The SFTP clients of a session that has ended.  This part rests on IInv. *)

HomeOn(c, h) == sftpCall[c].at = "home" /\ sftpCall[c].handle = h

(* A handle that has a client, or is about to get one.                     *)
Holds(h) == handle[h].client # None \/ \E c \in Callers : HomeOn(c, h)

(* Only DisposeAll has a list of handles to visit.                         *)
ListsOfAll ==
    \A c \in Callers :
      sftpCall[c].todo # {} => sftpCall[c].op = "all" /\ sftpCall[c].at \in {"visit", "take", "close"}

(* A client belongs to the session of the handle it is kept at.            *)
ClientsNamed ==
    /\ \A h \in Sftp!MadeHandles : handle[h].client # None => clientOf[handle[h].client] = handle[h].of
    /\ \A c \in Callers : sftpCall[c].at = "home" =>
         sftpCall[c].client \in Sftp!Clients /\ clientOf[sftpCall[c].client] = sftpCall[c].session

(* A session that is up has but the handle of the table, and a handle that *)
(* holds a client is in the table unless its client is being closed.       *)
HandlesFound ==
    \A h \in Sftp!MadeHandles :
      /\ session[handle[h].of] = "up" => handles[handle[h].of] = h
      /\ Holds(h) => handles[handle[h].of] = h \/ Sftp!Takes(h)

DisposedSftp(s) == Past(s, {"monitor", "tunnels", "event"}) /\ sftpCall[s].at # "table"

(* A handle made after the disposal stays empty.                           *)
EndedEmpty == \A s \in Sessions : DisposedSftp(s) => handles[s] = None \/ ~Holds(handles[s])

ClientInv == ListsOfAll /\ ClientsNamed /\ HandlesFound /\ EndedEmpty

(* The calls and the clients stay, but for a call that begins.             *)
LEMMA ClientsStay ==
    ASSUME IInv, ClientInv, UNCHANGED <<handles, handle, clientOf>>,
           \A c \in Callers : \/ sftpCall'[c] = sftpCall[c]
                              \/ /\ sftpCall[c].at = "idle" /\ sftpCall'[c].at = "table"
                                 /\ sftpCall'[c].todo = {},
           \A s \in Sessions : session'[s] = "up" => session[s] = "up",
           \A s \in Sessions : DisposedSftp(s)' => DisposedSftp(s)
    PROVE  ClientInv'
<1>1. /\ Sftp!MadeHandles' = Sftp!MadeHandles
      /\ \A h \in Sftp!MadeHandles : handle[h].of \in Sessions
  BY DEF Sftp!MadeHandles, IInv, SftpInv, Sftp!TypeOK
<1>2. ListsOfAll'
  BY DEF ClientInv, ListsOfAll
<1>3. ClientsNamed'
  BY <1>1 DEF ClientInv, ClientsNamed
<1>4. \A h : Holds(h)' <=> Holds(h)
  BY DEF Holds, HomeOn
<1>5. \A h : Sftp!Takes(h) => Sftp!Takes(h)'
  BY DEF Sftp!Takes, ClientInv, ListsOfAll
<1>6. HandlesFound'
  BY <1>1, <1>4, <1>5 DEF ClientInv, HandlesFound
<1>7. EndedEmpty'
  BY <1>4 DEF ClientInv, EndedEmpty
<1>. QED BY <1>2, <1>3, <1>6, <1>7 DEF ClientInv

(* A step of a call that leaves the table alone: it opens no client, and a *)
(* handle it was to empty is empty, or still on its list.                  *)
LEMMA ClientStepKeeps ==
    ASSUME IInv, ClientInv, UNCHANGED <<session, ending, quiet>>, NEW c \in Callers,
           \A d \in Callers \ {c} : sftpCall'[d] = sftpCall[d],
           UNCHANGED <<handles, clientOf>>, Sftp!MadeHandles' = Sftp!MadeHandles,
           \A h \in Sftp!MadeHandles :
             /\ handle'[h].of = handle[h].of
             /\ \/ handle'[h].client \in {None, handle[h].client}
                \/ HomeOn(c, h) /\ handle'[h].client = sftpCall[c].client,
           sftpCall'[c].at # "home",
           \A h \in sftpCall[c].todo :
             h \in sftpCall'[c].todo \/ (sftpCall'[c].at = "take" /\ sftpCall'[c].handle = h),
           \A h \in Sftp!MadeHandles : sftpCall[c].at = "take" /\ sftpCall[c].handle = h => ~Holds(h)',
           sftpCall'[c].todo # {} =>
             sftpCall'[c].op = "all" /\ sftpCall'[c].at \in {"visit", "take", "close"},
           sftpCall[c].at = "table" => c \notin Sessions \/ handles[c] = None
    PROVE  ClientInv'
<1>1. \A h \in Sftp!MadeHandles : handle[h].of \in Sessions
  BY DEF Sftp!MadeHandles, IInv, SftpInv, Sftp!TypeOK
<1>2. ListsOfAll'
  BY DEF ClientInv, ListsOfAll
<1>3. ClientsNamed'
  <2>1. ASSUME NEW h \in Sftp!MadeHandles, handle'[h].client # None
        PROVE  clientOf[handle'[h].client] = handle[h].of
    <3>1. CASE handle'[h].client = handle[h].client
      BY <2>1, <3>1 DEF ClientInv, ClientsNamed
    <3>2. CASE HomeOn(c, h) /\ handle'[h].client = sftpCall[c].client
      <4>1. clientOf[sftpCall[c].client] = sftpCall[c].session
        BY <3>2 DEF ClientInv, ClientsNamed, HomeOn
      <4>2. handle[h].of = sftpCall[c].session
        BY <3>2 DEF HomeOn, IInv, SftpInv, HandlesMade, Works, Sftp!Mine
      <4>. QED BY <3>2, <4>1, <4>2
    <3>. QED BY <2>1, <3>1, <3>2
  <2>2. ASSUME NEW d \in Callers, sftpCall'[d].at = "home"
        PROVE  sftpCall'[d].client \in Sftp!Clients /\ clientOf[sftpCall'[d].client] = sftpCall'[d].session
    BY <2>2 DEF ClientInv, ClientsNamed
  <2>. QED BY <2>1, <2>2 DEF ClientsNamed
<1>4. \A h \in Sftp!MadeHandles : Holds(h)' => Holds(h)
  BY DEF Holds, HomeOn
<1>5. \A h \in Sftp!MadeHandles : Holds(h)' /\ Sftp!Takes(h) => Sftp!Takes(h)'
  <2> SUFFICES ASSUME NEW h \in Sftp!MadeHandles, Holds(h)', Sftp!Takes(h) PROVE Sftp!Takes(h)'
    OBVIOUS
  <2>1. PICK d \in Callers : h \in sftpCall[d].todo \/ (sftpCall[d].at = "take" /\ sftpCall[d].handle = h)
    BY DEF Sftp!Takes
  <2>2. ~(sftpCall[c].at = "take" /\ sftpCall[c].handle = h)
    OBVIOUS
  <2>3. CASE d = c
    BY <2>1, <2>2, <2>3 DEF Sftp!Takes
  <2>4. CASE d # c
    <3>1. sftpCall'[d] = sftpCall[d]
      BY <2>4
    <3>. QED BY <2>1, <3>1 DEF Sftp!Takes
  <2>. QED BY <2>3, <2>4
<1>6. HandlesFound'
  BY <1>1, <1>4, <1>5 DEF ClientInv, HandlesFound
<1>7. EndedEmpty'
  <2> SUFFICES ASSUME NEW s \in Sessions, DisposedSftp(s)', NEW h, handles[s] = h, h # None, Holds(h)'
               PROVE  FALSE
    BY DEF EndedEmpty, Holds, HomeOn
  <2>1. h \in Sftp!MadeHandles
    BY DEF IInv, SftpInv, HandlesMade
  <2>2. Past(s, {"monitor", "tunnels", "event"})
    BY DEF DisposedSftp, Past, Over
  <2>3. sftpCall[s].at # "table"
    BY DEF DisposedSftp, Callers
  <2>. QED BY <1>4, <2>1, <2>2, <2>3 DEF ClientInv, EndedEmpty, DisposedSftp
<1>. QED BY <1>2, <1>3, <1>6, <1>7 DEF ClientInv

(* Who waits to empty a handle finds nobody opening a client for it.       *)
LEMMA FreeIsEmpty ==
    ASSUME IInv, NEW c \in Callers, Sftp!TakeClient(c), NEW h, h = sftpCall[c].handle
    PROVE  ~Holds(h)'
<1>2. /\ sftpCall[c].at = "take" /\ handle[h].busy = None /\ h \in Sftp!Handles
      /\ handle' = [handle EXCEPT ![h].client = None] /\ handle \in [Sftp!Handles -> HandleOfSftp]
      /\ sftpCall' = [sftpCall EXCEPT ![c].at = "close", ![c].client = handle[h].client]
      /\ sftpCall \in [Callers -> CallOfSftp]
  BY SftpTyped DEF Sftp!TakeClient, Sftp!Mine, OnHandle, IInv
<1>3. handle'[h].client = None
  BY <1>2 DEF HandleOfSftp
<1>4. ASSUME NEW d \in Callers, HomeOn(d, h)' PROVE FALSE
  <2>1. d # c /\ sftpCall[d].at = "home" /\ sftpCall[d].handle = h
    BY <1>2, <1>4 DEF HomeOn, CallOfSftp
  <2>2. handle[h].busy = d
    BY <2>1 DEF IInv, SftpInv, OpeningLocks, Sftp!Mine
  <2>. QED BY <1>2, <2>2, NamesApart
<1>. QED BY <1>3, <1>4 DEF Holds

LEMMA ClientGoes ==
    ASSUME IInv, ClientInv, UNCHANGED life, NEW c \in Callers,
           \/ Sftp!Share(c) \/ Sftp!LockHandle(c) \/ Sftp!OpenFails(c) \/ Sftp!KeepClient(c)
           \/ Sftp!HomeFails(c) \/ Sftp!Operate(c) \/ Sftp!setCwd(c) \/ Sftp!Visit(c)
           \/ Sftp!TakeClient(c) \/ Sftp!CloseClient(c)
    PROVE  ClientInv'
<1>0. /\ sftpCall \in [Callers -> CallOfSftp] /\ sftpCall[c] \in CallOfSftp
      /\ handle \in [Sftp!Handles -> HandleOfSftp]
      /\ sftpCall[c].at \in OnHandle => sftpCall[c].handle \in Sftp!Handles
      /\ sftpCall[c].at \in Works => Sftp!Operates(c)
      /\ UNCHANGED <<session, ending, quiet>>
  BY SftpTyped DEF IInv, SftpInv, SftpCallsSound, life
<1>1. sftpCall[c].todo # {} => sftpCall[c].op = "all" /\ sftpCall[c].at \in {"visit", "take", "close"}
  BY DEF ClientInv, ListsOfAll
<1>2. UNCHANGED <<handles, clientOf>> /\ sftpCall[c].at # "table"
  BY DEF Sftp!Share, Sftp!LockHandle, Sftp!OpenFails, Sftp!KeepClient, Sftp!HomeFails, Sftp!Operate,
         Sftp!setCwd, Sftp!Visit, Sftp!TakeClient, Sftp!CloseClient
<1>3. /\ \A d \in Callers \ {c} : sftpCall'[d] = sftpCall[d]
      /\ sftpCall'[c].at # "home"
      /\ \A h \in sftpCall[c].todo :
           h \in sftpCall'[c].todo \/ (sftpCall'[c].at = "take" /\ sftpCall'[c].handle = h)
      /\ sftpCall'[c].todo # {} =>
           sftpCall'[c].op = "all" /\ sftpCall'[c].at \in {"visit", "take", "close"}
  <2>1. CASE Sftp!Share(c) \/ Sftp!LockHandle(c) \/ Sftp!OpenFails(c) \/ Sftp!KeepClient(c) \/ Sftp!HomeFails(c)
    <3>1. sftpCall[c].todo = {}
      BY <1>1, <2>1 DEF Sftp!Share, Sftp!LockHandle, Sftp!OpenFails, Sftp!KeepClient, Sftp!HomeFails
    <3>. QED BY <1>0, <2>1, <3>1 DEF Sftp!Share, Sftp!LockHandle, Sftp!OpenFails, Sftp!KeepClient,
               Sftp!HomeFails, Sftp!Go, Sftp!End, Sftp!NoCall, CallOfSftp
  <2>2. CASE Sftp!Operate(c) \/ Sftp!setCwd(c)
    <3>1. sftpCall[c].todo = {}
      BY <1>1, <2>2 DEF Sftp!Operate, Sftp!setCwd
    <3>. QED BY <1>0, <2>2, <3>1 DEF Sftp!Operate, Sftp!setCwd, Sftp!Go, Sftp!End, Sftp!NoCall, CallOfSftp
  <2>3. CASE Sftp!Visit(c)
    <3>1. CASE sftpCall[c].todo = {}
      BY <1>0, <2>3, <3>1 DEF Sftp!Visit, Sftp!End, Sftp!NoCall, CallOfSftp
    <3>2. CASE sftpCall[c].todo # {}
      <4>1. PICK h \in sftpCall[c].todo :
              sftpCall' = [sftpCall EXCEPT ![c].at = "take", ![c].handle = h,
                                           ![c].todo = sftpCall[c].todo \ {h}]
        BY <2>3, <3>2 DEF Sftp!Visit
      <4>2. /\ sftpCall'[c].at = "take" /\ sftpCall'[c].handle = h /\ sftpCall'[c].op = sftpCall[c].op
            /\ sftpCall'[c].todo = sftpCall[c].todo \ {h}
            /\ \A d \in Callers \ {c} : sftpCall'[d] = sftpCall[d]
        BY <1>0, <4>1 DEF CallOfSftp
      <4>. QED BY <1>1, <3>2, <4>2
    <3>. QED BY <3>1, <3>2
  <2>4. CASE Sftp!TakeClient(c)
    BY <1>0, <1>1, <2>4 DEF Sftp!TakeClient, CallOfSftp
  <2>5. CASE Sftp!CloseClient(c)
    BY <1>0, <1>1, <2>5 DEF Sftp!CloseClient, Sftp!End, Sftp!NoCall, CallOfSftp
  <2>. QED BY <2>1, <2>2, <2>3, <2>4, <2>5
<1>4. \A h \in Sftp!Handles :
        /\ handle'[h].of = handle[h].of
        /\ \/ handle'[h].client \in {None, handle[h].client}
           \/ HomeOn(c, h) /\ handle'[h].client = sftpCall[c].client
  <2>1. ASSUME NEW b, handle' = [handle EXCEPT ![sftpCall[c].handle].busy = b], NEW h \in Sftp!Handles
        PROVE  handle'[h].of = handle[h].of /\ handle'[h].client = handle[h].client
    BY <1>0, <2>1 DEF HandleOfSftp
  <2>2. CASE Sftp!LockHandle(c) \/ Sftp!OpenFails(c) \/ Sftp!HomeFails(c)
    BY <2>1, <2>2 DEF Sftp!LockHandle, Sftp!OpenFails, Sftp!HomeFails
  <2>3. CASE Sftp!Share(c) \/ Sftp!Operate(c) \/ Sftp!Visit(c) \/ Sftp!CloseClient(c)
    BY <2>3 DEF Sftp!Share, Sftp!Operate, Sftp!Visit, Sftp!CloseClient
  <2>4. CASE Sftp!KeepClient(c)
    <3>1. PICK g : g = sftpCall[c].handle
      OBVIOUS
    <3>2. PICK d : d = Sftp!StartsIn(c)
      OBVIOUS
    <3>3. /\ handle' = [handle EXCEPT ![g] = [@ EXCEPT !.client = sftpCall[c].client, !.cwd = d, !.busy = None]]
          /\ HomeOn(c, g)
      BY <2>4, <3>1, <3>2 DEF Sftp!KeepClient, HomeOn
    <3>4. ASSUME NEW h \in Sftp!Handles, h # g PROVE handle'[h] = handle[h]
      BY <1>0, <3>3, <3>4
    <3>5. g \in Sftp!Handles => handle'[g].of = handle[g].of /\ handle'[g].client = sftpCall[c].client
      BY <1>0, <3>3 DEF HandleOfSftp
    <3>. QED BY <3>3, <3>4, <3>5
  <2>5. CASE Sftp!TakeClient(c)
    BY <1>0, <2>5 DEF Sftp!TakeClient, HandleOfSftp
  <2>6. CASE Sftp!setCwd(c)
    BY <1>0, <2>6 DEF Sftp!setCwd, HandleOfSftp
  <2>. QED BY <2>2, <2>3, <2>4, <2>5, <2>6
<1>5. Sftp!MadeHandles' = Sftp!MadeHandles /\ Sftp!MadeHandles \subseteq Sftp!Handles
  BY <1>4 DEF Sftp!MadeHandles
<1>6. sftpCall[c].at = "take" => Sftp!TakeClient(c)
  BY DEF Sftp!Share, Sftp!LockHandle, Sftp!OpenFails, Sftp!KeepClient, Sftp!HomeFails, Sftp!Operate,
         Sftp!setCwd, Sftp!Visit, Sftp!CloseClient
<1>7. \A h \in Sftp!MadeHandles : sftpCall[c].at = "take" /\ sftpCall[c].handle = h => ~Holds(h)'
  BY <1>6, FreeIsEmpty
<1>. QED BY <1>0, <1>2, <1>3, <1>4, <1>5, <1>7, ClientStepKeeps

(* A client is opened while the session is up: its handle is in the table. *)
LEMMA ClientOpens ==
    ASSUME IInv, ClientInv, UNCHANGED life, NEW c \in Callers, Sftp!OpenClient(c)
    PROVE  ClientInv'
<1>0. PICK s : s = sftpCall[c].session
  OBVIOUS
<1>1. PICK h : h = sftpCall[c].handle
  OBVIOUS
<1>2. /\ sftpCall[c].at = "open" /\ session[s] = "up" /\ UNCHANGED <<handles, handle>>
      /\ sftpCall \in [Callers -> CallOfSftp] /\ sftpCall[c] \in CallOfSftp
      /\ clientOf \in [Sftp!Clients -> Sessions \cup {None}]
      /\ UNCHANGED <<session, ending, quiet>>
  BY <1>0, SftpTyped DEF Sftp!OpenClient, life, IInv
<1>3. PICK k \in Sftp!Clients :
        /\ clientOf[k] = None /\ clientOf' = [clientOf EXCEPT ![k] = s]
        /\ sftpCall' = [sftpCall EXCEPT ![c].at = "home", ![c].client = k]
  BY <1>0 DEF Sftp!OpenClient
<1>4. /\ h \in Sftp!MadeHandles /\ handle[h].of = s /\ s \in Sessions /\ sftpCall[c].todo = {}
  <2>1. h \in Sftp!MadeHandles /\ handle[h].of = s
    BY <1>0, <1>1, <1>2 DEF IInv, SftpInv, HandlesMade, Works, Sftp!Mine
  <2>2. s \in Sessions
    BY <2>1 DEF Sftp!MadeHandles, IInv, SftpInv, Sftp!TypeOK
  <2>. QED BY <1>2, <2>1, <2>2 DEF ClientInv, ListsOfAll
<1>5. /\ sftpCall'[c].at = "home" /\ sftpCall'[c].client = k /\ sftpCall'[c].session = s
      /\ sftpCall'[c].handle = h /\ sftpCall'[c].todo = {}
      /\ \A d \in Callers \ {c} : sftpCall'[d] = sftpCall[d]
  BY <1>0, <1>1, <1>2, <1>3, <1>4 DEF CallOfSftp
<1>6. Sftp!MadeHandles' = Sftp!MadeHandles /\ \A g \in Sftp!MadeHandles : handle[g].of \in Sessions
  BY <1>2 DEF Sftp!MadeHandles, IInv, SftpInv, Sftp!TypeOK
<1>7. clientOf'[k] = s /\ \A j \in Sftp!Clients \ {k} : clientOf'[j] = clientOf[j]
  BY <1>2, <1>3
<1>8. None \notin Sessions
  BY NamesApart DEF Callers
<1>9. ListsOfAll'
  BY <1>5 DEF ClientInv, ListsOfAll
<1>10. ClientsNamed'
  <2>1. ASSUME NEW g \in Sftp!MadeHandles, handle[g].client # None
        PROVE  clientOf'[handle[g].client] = handle[g].of
    <3>1. clientOf[handle[g].client] = handle[g].of /\ handle[g].client \in Sftp!Clients
      BY <2>1 DEF ClientInv, ClientsNamed, IInv, SftpInv, Sftp!TypeOK, Sftp!MadeHandles
    <3>2. handle[g].client # k
      BY <1>3, <1>6, <1>8, <3>1
    <3>. QED BY <1>7, <3>1, <3>2
  <2>2. ASSUME NEW d \in Callers, sftpCall'[d].at = "home"
        PROVE  sftpCall'[d].client \in Sftp!Clients /\ clientOf'[sftpCall'[d].client] = sftpCall'[d].session
    <3>1. CASE d = c
      BY <1>5, <1>7, <3>1
    <3>2. CASE d # c
      <4>1. sftpCall[d].at = "home" /\ sftpCall'[d] = sftpCall[d]
        BY <1>5, <2>2, <3>2
      <4>2. /\ clientOf[sftpCall[d].client] = sftpCall[d].session /\ sftpCall[d].session \in Sessions
            /\ sftpCall[d].client \in Sftp!Clients
        BY <4>1 DEF ClientInv, ClientsNamed, IInv, SftpInv, SftpCallsSound, Works, Sftp!Operates
      <4>3. sftpCall[d].client # k
        BY <1>3, <1>8, <4>2
      <4>. QED BY <1>7, <4>1, <4>2, <4>3
    <3>. QED BY <3>1, <3>2
  <2>. QED BY <1>2, <1>6, <2>1, <2>2 DEF ClientsNamed
<1>11. \A g \in Sftp!MadeHandles : g # h => (Holds(g)' => Holds(g))
  BY <1>2, <1>5 DEF Holds, HomeOn
<1>12. \A g : Sftp!Takes(g) => Sftp!Takes(g)'
  BY <1>2, <1>4, <1>5 DEF Sftp!Takes
<1>13. HandlesFound'
  BY <1>2, <1>4, <1>6, <1>11, <1>12 DEF ClientInv, HandlesFound
<1>14. EndedEmpty'
  <2> SUFFICES ASSUME NEW t \in Sessions, DisposedSftp(t)', NEW g, handles[t] = g, g # None, Holds(g)'
               PROVE  FALSE
    BY <1>2 DEF EndedEmpty, Holds, HomeOn
  <2>1. g \in Sftp!MadeHandles /\ handle[g].of = t
    BY DEF IInv, SftpInv, HandlesMade
  <2>2. Past(t, {"monitor", "tunnels", "event"})
    BY <1>2 DEF DisposedSftp, Past, Over
  <2>3. session[t] # "up"
    BY <2>2 DEF IInv, LifeInv, StagesInOrder, Past, Over
  <2>4. t # s /\ g # h
    BY <1>2, <1>4, <2>1, <2>3
  <2>5. sftpCall[t].at # "table"
    BY <1>2, <1>5 DEF DisposedSftp, Callers
  <2>. QED BY <1>11, <2>1, <2>2, <2>4, <2>5 DEF ClientInv, EndedEmpty, DisposedSftp
<1>. QED BY <1>9, <1>10, <1>13, <1>14 DEF ClientInv

(* An operation makes a handle for a session that has none.                *)
LEMMA HandleIsMade ==
    ASSUME IInv, ClientInv, UNCHANGED life, NEW c \in Callers, NEW h \in Sftp!Handles,
           h = Sftp!Cardinality(Sftp!MadeHandles) + 1, NEW s \in Sessions, handles[s] = None,
           sftpCall[c].at = "table", Sftp!Operates(c),
           handle' = [handle EXCEPT ![h] = [of |-> s, client |-> None, cwd |-> None, busy |-> None]],
           handles' = [handles EXCEPT ![s] = h],
           sftpCall' = [sftpCall EXCEPT ![c].at = "lock", ![c].handle = h],
           UNCHANGED clientOf
    PROVE  ClientInv'
<1>1. /\ sftpCall \in [Callers -> CallOfSftp] /\ handle \in [Sftp!Handles -> HandleOfSftp]
      /\ handles \in [Sessions -> Sftp!Handles \cup {None}]
      /\ UNCHANGED <<session, ending, quiet>>
  BY SftpTyped DEF life, IInv
<1>2. sftpCall[c].todo = {} /\ sftpCall[c].op # "all"
  BY DEF ClientInv, ListsOfAll, Sftp!Operates
<1>3. /\ sftpCall'[c].at = "lock" /\ sftpCall'[c].todo = {}
      /\ \A d \in Callers \ {c} : sftpCall'[d] = sftpCall[d]
  BY <1>1, <1>2 DEF CallOfSftp
<1>4. h \notin Sftp!MadeHandles
  BY NextHandle DEF IInv
<1>5. /\ handle'[h].of = s /\ handle'[h].client = None
      /\ \A g \in Sftp!Handles \ {h} : handle'[g] = handle[g]
      /\ handles'[s] = h /\ \A t \in Sessions \ {s} : handles'[t] = handles[t]
  BY <1>1
<1>6. /\ Sftp!MadeHandles' = Sftp!MadeHandles \cup {h} /\ Sftp!MadeHandles \subseteq Sftp!Handles
      /\ \A g \in Sftp!MadeHandles : handle[g].of \in Sessions
  <2>1. s # None
    BY NamesApart DEF Callers
  <2>2. Sftp!MadeHandles' = Sftp!MadeHandles \cup {h}
    BY <1>5, <2>1 DEF Sftp!MadeHandles
  <2>. QED BY <1>1, <2>2 DEF Sftp!MadeHandles, HandleOfSftp
<1>7. \A d \in Callers : sftpCall'[d].at = "home" => sftpCall'[d] = sftpCall[d] /\ sftpCall[d].handle \in Sftp!MadeHandles
  BY <1>3 DEF IInv, SftpInv, HandlesMade, Works
<1>8. ListsOfAll'
  BY <1>3 DEF ClientInv, ListsOfAll
<1>9. ClientsNamed'
  BY <1>4, <1>5, <1>6, <1>7 DEF ClientInv, ClientsNamed
<1>10. ~Holds(h)' /\ \A g \in Sftp!MadeHandles : Holds(g)' => Holds(g)
  <2>1. ~Holds(h)'
    BY <1>4, <1>5, <1>7 DEF Holds, HomeOn
  <2>2. ASSUME NEW g \in Sftp!MadeHandles, Holds(g)' PROVE Holds(g)
    <3>1. handle'[g] = handle[g]
      BY <1>4, <1>5, <1>6
    <3>. QED BY <1>7, <2>2, <3>1 DEF Holds, HomeOn
  <2>. QED BY <2>1, <2>2
<1>11. \A g : Sftp!Takes(g) => Sftp!Takes(g)'
  BY <1>2, <1>3 DEF Sftp!Takes
<1>12. HandlesFound'
  <2>1. ASSUME NEW g \in Sftp!MadeHandles
        PROVE  /\ session'[handle'[g].of] = "up" => handles'[handle'[g].of] = g
               /\ Holds(g)' => handles'[handle'[g].of] = g \/ Sftp!Takes(g)'
    <3>1. /\ session[handle[g].of] = "up" => handles[handle[g].of] = g
          /\ Holds(g) => handles[handle[g].of] = g \/ Sftp!Takes(g)
      BY DEF ClientInv, HandlesFound
    <3>2. handle'[g] = handle[g] /\ handle[g].of \in Sessions /\ g # None
      BY <1>4, <1>5, <1>6, NamesApart
    <3>3. handles[handle[g].of] = g => handles'[handle[g].of] = g
      BY <1>5, <3>2
    <3>. QED BY <1>1, <1>10, <1>11, <3>1, <3>2, <3>3
  <2>. QED BY <1>5, <1>6, <1>10, <2>1 DEF HandlesFound
<1>13. EndedEmpty'
  <2> SUFFICES ASSUME NEW t \in Sessions, DisposedSftp(t)', NEW g, handles'[t] = g, g # None, Holds(g)'
               PROVE  FALSE
    BY DEF EndedEmpty, Holds, HomeOn
  <2>1. t # s
    BY <1>5, <1>10
  <2>2. handles[t] = g /\ g \in Sftp!MadeHandles
    BY <1>5, <2>1 DEF IInv, SftpInv, HandlesMade
  <2>3. Past(t, {"monitor", "tunnels", "event"})
    BY <1>1 DEF DisposedSftp, Past, Over
  <2>4. sftpCall[t].at # "table"
    <3>1. c \notin Sessions
      BY CallersApart DEF IInv, LifeInv, Roles, Sftp!Operates
    <3>. QED BY <1>3, <3>1 DEF DisposedSftp, Callers
  <2>. QED BY <1>10, <2>2, <2>3, <2>4 DEF ClientInv, EndedEmpty, DisposedSftp
<1>. QED BY <1>8, <1>9, <1>12, <1>13 DEF ClientInv

(* A handle that is taken out of the table is about to be emptied.         *)
LEMMA TableEmptied ==
    ASSUME IInv, ClientInv, UNCHANGED life, NEW c \in Callers, NEW gone \in SUBSET Sessions,
           UNCHANGED <<handle, clientOf>>, handles \in [Sessions -> Sftp!Handles \cup {None}],
           handles' = [t \in Sessions |-> IF t \in gone THEN None ELSE handles[t]],
           \A d \in Callers \ {c} : sftpCall'[d] = sftpCall[d],
           sftpCall[c].at = "table", sftpCall[c].todo = {}, sftpCall'[c].at \in {"take", "visit"},
           sftpCall'[c].todo # {} => sftpCall'[c].op = "all",
           \A t \in gone : /\ session[t] # "up"
                           /\ handles[t] # None => \/ handles[t] \in sftpCall'[c].todo
                                                   \/ sftpCall'[c].at = "take" /\ sftpCall'[c].handle = handles[t],
           c \in Sessions => c \in gone
    PROVE  ClientInv'
<1>1. /\ Sftp!MadeHandles' = Sftp!MadeHandles
      /\ \A h \in Sftp!MadeHandles : handle[h].of \in Sessions /\ h # None
      /\ UNCHANGED <<session, ending, quiet>>
  BY NamesApart DEF Sftp!MadeHandles, IInv, SftpInv, Sftp!TypeOK, life
<1>2. ListsOfAll'
  BY DEF ClientInv, ListsOfAll
<1>3. ClientsNamed'
  BY <1>1 DEF ClientInv, ClientsNamed
<1>4. \A h : Holds(h)' <=> Holds(h)
  BY DEF Holds, HomeOn
<1>5. \A h : Sftp!Takes(h) => Sftp!Takes(h)'
  <2> SUFFICES ASSUME NEW h, Sftp!Takes(h) PROVE Sftp!Takes(h)'
    OBVIOUS
  <2>1. PICK d \in Callers : h \in sftpCall[d].todo \/ (sftpCall[d].at = "take" /\ sftpCall[d].handle = h)
    BY DEF Sftp!Takes
  <2>2. d # c /\ sftpCall'[d] = sftpCall[d]
    BY <2>1
  <2>. QED BY <2>1, <2>2 DEF Sftp!Takes
<1>6. \A t \in gone : \A h : handles[t] = h /\ h # None => Sftp!Takes(h)'
  BY DEF Sftp!Takes
<1>7. HandlesFound'
  <2> SUFFICES ASSUME NEW h \in Sftp!MadeHandles
               PROVE  /\ session[handle[h].of] = "up" => handles'[handle[h].of] = h
                      /\ Holds(h) => handles'[handle[h].of] = h \/ Sftp!Takes(h)'
    BY <1>1, <1>4 DEF HandlesFound
  <2>1. /\ session[handle[h].of] = "up" => handles[handle[h].of] = h
        /\ Holds(h) => handles[handle[h].of] = h \/ Sftp!Takes(h)
    BY DEF ClientInv, HandlesFound
  <2>2. handle[h].of \in Sessions /\ h # None
    BY <1>1
  <2>3. CASE handle[h].of \in gone
    <3>1. session[handle[h].of] # "up"
      BY <2>3
    <3>2. Holds(h) => Sftp!Takes(h)'
      BY <1>5, <1>6, <2>1, <2>2, <2>3
    <3>. QED BY <3>1, <3>2
  <2>4. CASE handle[h].of \notin gone
    BY <1>5, <2>1, <2>2, <2>4
  <2>. QED BY <2>3, <2>4
<1>8. EndedEmpty'
  <2> SUFFICES ASSUME NEW t \in Sessions, DisposedSftp(t)', handles'[t] # None PROVE ~Holds(handles'[t])
    BY DEF EndedEmpty, Holds, HomeOn
  <2>1. t \notin gone /\ handles'[t] = handles[t] /\ t # c
    OBVIOUS
  <2>2. DisposedSftp(t)
    BY <1>1, <2>1 DEF DisposedSftp, Past, Over, Callers
  <2>. QED BY <2>1, <2>2 DEF ClientInv, EndedEmpty
<1>. QED BY <1>2, <1>3, <1>7, <1>8 DEF ClientInv

LEMMA ClientResolves ==
    ASSUME IInv, ClientInv, UNCHANGED life, NEW c \in Callers, Sftp!Resolve(c) \/ Sftp!TakeTable(c)
    PROVE  ClientInv'
<1>1. /\ sftpCall[c].at = "table" /\ UNCHANGED clientOf
      /\ handles \in [Sessions -> Sftp!Handles \cup {None}] /\ sftpCall \in [Callers -> CallOfSftp]
      /\ UNCHANGED <<session, ending, quiet>> /\ NewCallSound(sftpCall[c])
  BY SftpTyped, CallIsSound DEF Sftp!Resolve, Sftp!TakeTable, life, IInv
<1>2. sftpCall[c].todo = {} /\ sftpCall[c].op # "none"
  BY <1>1 DEF ClientInv, ListsOfAll, NewCallSound
<1>3. /\ c \in Sessions => sftpCall[c].op = "dispose" /\ sftpCall[c].session = c
      /\ sftpCall[c].op = "dispose" => c \in Sessions
      /\ sftpCall[c].op = "all" => c = Shutdown
  BY <1>2, CallersApart DEF IInv, LifeInv, Roles, Callers
<1>4. PICK s : s = sftpCall[c].session
  OBVIOUS
<1>5. sftpCall[c].op # "all" => s \in Sessions
  BY <1>1, <1>2, <1>4 DEF NewCallSound
<1>6. CASE Sftp!Resolve(c)
  <2>1. sftpCall[c].op # "all" /\ s \in Sessions
    BY <1>5, <1>6 DEF Sftp!Resolve
  <2>2. CASE /\ Sftp!Operates(c) /\ handles[s] = None /\ Sftp!Cardinality(Sftp!MadeHandles) + 1 \in Sftp!Handles
             /\ handle' = [handle EXCEPT ![Sftp!Cardinality(Sftp!MadeHandles) + 1] =
                             [of |-> s, client |-> None, cwd |-> None, busy |-> None]]
             /\ handles' = [handles EXCEPT ![s] = Sftp!Cardinality(Sftp!MadeHandles) + 1]
             /\ sftpCall' = [sftpCall EXCEPT ![c].at = "lock",
                                             ![c].handle = Sftp!Cardinality(Sftp!MadeHandles) + 1]
    BY <1>1, <2>1, <2>2, HandleIsMade
  <2>3. CASE ~Sftp!Operates(c) /\ handles[s] = None /\ Sftp!End(c) /\ UNCHANGED <<handles, handle>>
    <3>1. /\ \A d \in Callers \ {c} : sftpCall'[d] = sftpCall[d]
          /\ sftpCall'[c].at = "idle" /\ sftpCall'[c].todo = {}
      BY <1>1, <2>3 DEF Sftp!End, Sftp!NoCall
    <3>2. Sftp!MadeHandles' = Sftp!MadeHandles
      BY <2>3 DEF Sftp!MadeHandles
    <3>. QED BY <1>1, <1>2, <1>3, <1>4, <2>3, <3>1, <3>2, ClientStepKeeps
  <2>4. CASE /\ handles[s] # None
             /\ handles' = IF sftpCall[c].op = "dispose" THEN [handles EXCEPT ![s] = None] ELSE handles
             /\ sftpCall' = [sftpCall EXCEPT ![c].at = IF Sftp!Operates(c) THEN "lock" ELSE "take",
                                             ![c].handle = handles[s]]
             /\ UNCHANGED handle
    <3>1. /\ \A d \in Callers \ {c} : sftpCall'[d] = sftpCall[d]
          /\ sftpCall'[c].at = IF Sftp!Operates(c) THEN "lock" ELSE "take"
          /\ sftpCall'[c].todo = {} /\ sftpCall'[c].handle = handles[s]
      BY <1>1, <1>2, <2>4 DEF CallOfSftp
    <3>2. CASE sftpCall[c].op = "dispose"
      <4>1. c = s /\ sftpCall'[c].at = "take"
        BY <1>3, <1>4, <3>1, <3>2 DEF Sftp!Operates
      <4>2. session[s] # "up"
        BY <1>2, <2>1, <4>1 DEF IInv, LifeInv, StagesInOrder
      <4>3. handles' = [t \in Sessions |-> IF t \in {s} THEN None ELSE handles[t]]
        BY <1>1, <2>4, <3>2
      <4>4. {s} \in SUBSET Sessions
        BY <2>1
      <4>5. \A t \in {s} :
              /\ session[t] # "up"
              /\ handles[t] # None => \/ handles[t] \in sftpCall'[c].todo
                                      \/ sftpCall'[c].at = "take" /\ sftpCall'[c].handle = handles[t]
        BY <3>1, <4>1, <4>2
      <4>6. UNCHANGED <<handle, clientOf>> /\ (c \in Sessions => c \in {s})
        BY <1>1, <2>4, <4>1
      <4>. QED BY <1>1, <1>2, <3>1, <4>1, <4>3, <4>4, <4>5, <4>6, TableEmptied
    <3>3. CASE sftpCall[c].op # "dispose"
      <4>1. c \notin Sessions /\ handles' = handles
        BY <1>3, <2>4, <3>3
      <4>2. Sftp!MadeHandles' = Sftp!MadeHandles
        BY <2>4 DEF Sftp!MadeHandles
      <4>. QED BY <1>1, <1>2, <2>4, <3>1, <4>1, <4>2, ClientStepKeeps
    <3>. QED BY <3>2, <3>3
  <2>. QED BY <1>4, <1>6, <2>2, <2>3, <2>4 DEF Sftp!Resolve
<1>7. CASE Sftp!TakeTable(c)
  <2>1. /\ sftpCall[c].op = "all" /\ UNCHANGED handle /\ handles' = [t \in Sessions |-> None]
        /\ sftpCall' = [sftpCall EXCEPT ![c].at = "visit", ![c].todo = {handles[t] : t \in Sessions} \ {None}]
    BY <1>7 DEF Sftp!TakeTable
  <2>2. /\ \A d \in Callers \ {c} : sftpCall'[d] = sftpCall[d]
        /\ sftpCall'[c].at = "visit" /\ sftpCall'[c].op = "all"
        /\ sftpCall'[c].todo = {handles[t] : t \in Sessions} \ {None}
    BY <1>1, <2>1 DEF CallOfSftp
  <2>3. \A t \in Sessions : session[t] # "up"
    <3>1. stopping = "last"
      BY <1>3, <2>1 DEF IInv, LifeInv, ShutdownStops
    <3>. QED BY <3>1 DEF IInv, LifeInv, SweepKnown
  <2>4. handles' = [t \in Sessions |-> IF t \in Sessions THEN None ELSE handles[t]]
    BY <2>1
  <2>5. \A t \in Sessions : handles[t] # None => handles[t] \in sftpCall'[c].todo
    BY <2>2
  <2>6. \A t \in Sessions :
          /\ session[t] # "up"
          /\ handles[t] # None => \/ handles[t] \in sftpCall'[c].todo
                                  \/ sftpCall'[c].at = "take" /\ sftpCall'[c].handle = handles[t]
    BY <2>3, <2>5
  <2>7. Sessions \in SUBSET Sessions /\ UNCHANGED <<handle, clientOf>>
    BY <1>1, <2>1
  <2>. QED BY <1>1, <1>2, <2>2, <2>4, <2>6, <2>7, TableEmptied
<1>. QED BY <1>6, <1>7

(* The renderer, the ends and the shutdown.                                *)
LEMMA ClientsStayInLife ==
    ASSUME IInv, ClientInv,
           \/ \E u \in Users : Call(u)
           \/ \E s \in Sessions : SessionEnds(s) \/ EndGoes(s)
           \/ BeginShutdown \/ ShutdownGoes
    PROVE  ClientInv'
<1>0. ASSUME NEW c \in Callers PROVE sftpCall[c].op = "none" <=> sftpCall[c].at = "idle"
  BY DEF IInv, SftpInv, SftpCallsSound
<1>1. /\ \A c \in Callers : sftpCall[c].op = "none" <=> sftpCall[c].at = "idle"
      /\ sftpCall \in [Callers -> CallOfSftp]
      /\ session \in [Sessions -> {"up", "closed", "gone"}]
      /\ ending \in [Sessions -> {"no", "closing", "sftp", "monitor", "tunnels", "event", "over"}]
  <2>1. \A c \in Callers : sftpCall[c].op = "none" <=> sftpCall[c].at = "idle"
    BY <1>0
  <2>2. sftpCall \in [Callers -> CallOfSftp]
    BY DEF IInv, SftpInv, Sftp!TypeOK, CallOfSftp
  <2>. QED BY <2>1, <2>2 DEF IInv, LifeInv, LifeOK
<1>2. ASSUME NEW c \in Callers, NEW op, NEW s, NEW d, Sftp!Begin(c, op, s, d)
      PROVE  /\ UNCHANGED <<handles, handle, clientOf>>
             /\ sftpCall[c].at = "idle" /\ sftpCall'[c].at = "table" /\ sftpCall'[c].todo = {}
             /\ \A e \in Callers \ {c} : sftpCall'[e] = sftpCall[e]
  BY <1>1, <1>2 DEF Sftp!Begin, Sftp!NoCall
<1>3. ASSUME NEW u \in Users, Call(u) PROVE ClientInv'
  <2>1. UNCHANGED <<session, ending, quiet>> /\ u \in Callers /\ u \notin Sessions
    BY <1>3, CallersApart DEF Call
  <2>2. UNCHANGED sftp \/ \E op, s, d : Sftp!Begin(u, op, s, d)
    BY <1>3 DEF Call, Calls, AskMonitor, AskTunnels, AskSftp
  <2>3. /\ UNCHANGED <<handles, handle, clientOf>>
        /\ \A c \in Callers \ {u} : sftpCall'[c] = sftpCall[c]
        /\ sftpCall'[u] = sftpCall[u] \/ (sftpCall[u].at = "idle" /\ sftpCall'[u].at = "table" /\ sftpCall'[u].todo = {})
    BY <1>2, <2>1, <2>2 DEF sftp
  <2>4. \A s \in Sessions : DisposedSftp(s)' => DisposedSftp(s)
    BY <2>1, <2>3 DEF DisposedSftp, Past, Over, Callers
  <2>. QED BY <2>1, <2>3, <2>4, ClientsStay
<1>4. ASSUME NEW s \in Sessions, NEW silent, Closes(s, silent) PROVE ClientInv'
  <2>1. /\ session' = [session EXCEPT ![s] = "closed"] /\ ending' = [ending EXCEPT ![s] = "closing"]
        /\ quiet' \in {quiet, quiet \cup {s}} /\ UNCHANGED <<handles, handle, clientOf, sftpCall>>
    BY <1>4 DEF Closes, OnlyLife, sftp
  <2>2. \A t \in Sessions : session'[t] = "up" => session[t] = "up"
    BY <1>1, <2>1
  <2>3. \A t \in Sessions : DisposedSftp(t)' => DisposedSftp(t)
    BY <1>1, <2>1 DEF DisposedSftp, Past, Over
  <2>. QED BY <2>1, <2>2, <2>3, ClientsStay
<1>5. ASSUME NEW s \in Sessions, Removed(s) PROVE ClientInv'
  <2>1. /\ session' = [session EXCEPT ![s] = "gone"] /\ UNCHANGED quiet
        /\ ending' = [ending EXCEPT ![s] = IF s \in quiet THEN "over" ELSE "sftp"]
        /\ UNCHANGED <<handles, handle, clientOf, sftpCall>>
    BY <1>5 DEF Removed, OnlyLife, sftp
  <2>2. \A t \in Sessions : session'[t] = "up" => session[t] = "up"
    BY <1>1, <2>1
  <2>3. \A t \in Sessions : DisposedSftp(t)' => DisposedSftp(t)
    BY <1>1, <2>1 DEF DisposedSftp, Past, Over
  <2>. QED BY <2>1, <2>2, <2>3, ClientsStay
<1>6. ASSUME NEW s \in Sessions, DisposeSftp(s) PROVE ClientInv'
  <2>1. /\ UNCHANGED <<session, quiet>> /\ ending' = [ending EXCEPT ![s] = "monitor"]
        /\ Sftp!Begin(s, "dispose", s, None) /\ s \in Callers
    BY <1>6, CallersApart DEF DisposeSftp, NextStage, AskSftp
  <2>2. /\ UNCHANGED <<handles, handle, clientOf>>
        /\ sftpCall[s].at = "idle" /\ sftpCall'[s].at = "table" /\ sftpCall'[s].todo = {}
        /\ \A e \in Callers \ {s} : sftpCall'[e] = sftpCall[e]
    BY <1>2, <2>1
  <2>3. \A t \in Sessions : DisposedSftp(t)' => DisposedSftp(t)
    BY <1>1, <2>1, <2>2 DEF DisposedSftp, Past, Over, Callers
  <2>. QED BY <2>1, <2>2, <2>3, ClientsStay
<1>7. ASSUME NEW s \in Sessions, DisposeMonitor(s) \/ DisposeTunnels(s) \/ ClosedEvent(s) PROVE ClientInv'
  <2>1. /\ UNCHANGED <<session, quiet>> /\ ending[s] \in {"monitor", "tunnels", "event"}
        /\ \E stage \in {"tunnels", "event", "over"} : ending' = [ending EXCEPT ![s] = stage]
        /\ UNCHANGED <<handles, handle, clientOf, sftpCall>>
    BY <1>7 DEF DisposeMonitor, DisposeTunnels, ClosedEvent, NextStage, AskMonitor, AskTunnels, OnlyLife, sftp
  <2>2. \A t \in Sessions : DisposedSftp(t)' => DisposedSftp(t)
    BY <1>1, <2>1 DEF DisposedSftp, Past, Over
  <2>. QED BY <2>1, <2>2, ClientsStay
<1>8. ASSUME \/ BeginShutdown \/ StopMonitor \/ StopTunnels \/ TakeSessions \/ SessionsStopped
             \/ StopSftp \/ ShutdownDone
      PROVE  ClientInv'
  <2>1. UNCHANGED <<session, ending, quiet>> /\ Shutdown \in Callers /\ Shutdown \notin Sessions
    BY <1>8, CallersApart DEF BeginShutdown, StopMonitor, StopTunnels, TakeSessions, SessionsStopped, StopSftp,
         ShutdownDone, ShutdownTo
  <2>2. UNCHANGED sftp \/ Sftp!Begin(Shutdown, "all", None, None)
    BY <1>8 DEF BeginShutdown, StopMonitor, StopTunnels, TakeSessions, SessionsStopped, StopSftp, ShutdownDone,
         AskMonitor, AskTunnels, AskSftp, OnlyLife
  <2>3. /\ UNCHANGED <<handles, handle, clientOf>>
        /\ \A c \in Callers \ {Shutdown} : sftpCall'[c] = sftpCall[c]
        /\ \/ sftpCall'[Shutdown] = sftpCall[Shutdown]
           \/ /\ sftpCall[Shutdown].at = "idle" /\ sftpCall'[Shutdown].at = "table"
              /\ sftpCall'[Shutdown].todo = {}
    BY <1>2, <2>1, <2>2 DEF sftp
  <2>4. \A s \in Sessions : DisposedSftp(s)' => DisposedSftp(s)
    BY <2>1, <2>3 DEF DisposedSftp, Past, Over, Callers
  <2>. QED BY <2>1, <2>3, <2>4, ClientsStay
<1>. QED BY <1>3, <1>4, <1>5, <1>6, <1>7, <1>8 DEF SessionEnds, EndGoes, ShutdownGoes, StopSession

LEMMA ClientsKeep == IInv /\ ClientInv /\ [Next]_vars => ClientInv'
<1> SUFFICES ASSUME IInv, ClientInv, [Next]_vars PROVE ClientInv'
  OBVIOUS
<1>1. ASSUME UNCHANGED life, UNCHANGED sftp PROVE ClientInv'
  BY <1>1, ClientsStay DEF life, sftp, DisposedSftp, Past, Over
<1>2. CASE MonitorGoes \/ TunnelGoes \/ UNCHANGED vars
  BY <1>1, <1>2 DEF MonitorGoes, TunnelGoes, vars
<1>3. CASE SftpGoes
  <2>1. PICK c \in Callers : Sftp!Step(c) /\ UNCHANGED life
    BY <1>3 DEF SftpGoes
  <2>. QED BY <2>1, ClientGoes, ClientOpens, ClientResolves DEF Sftp!Step
<1>4. CASE \/ \E u \in Users : Call(u)
           \/ \E s \in Sessions : SessionEnds(s) \/ EndGoes(s)
           \/ BeginShutdown \/ ShutdownGoes
  BY <1>4, ClientsStayInLife
<1>. QED BY <1>2, <1>3, <1>4 DEF Next

LEMMA ClientsInitially == Init => ClientInv
<1> SUFFICES ASSUME Init PROVE ClientInv
  OBVIOUS
<1>1. Sftp!Init /\ ending = [s \in Sessions |-> "no"]
  BY DEF Init
<1>2. /\ \A c \in Callers : sftpCall[c].todo = {} /\ sftpCall[c].at = "idle"
      /\ Sftp!MadeHandles = {}
  BY <1>1 DEF Sftp!Init, Sftp!NoCall, Sftp!MadeHandles
<1>. QED BY <1>1, <1>2 DEF ClientInv, ListsOfAll, ClientsNamed, HandlesFound, EndedEmpty, DisposedSftp, Past, Over

LEMMA ClientsSound == Spec => []ClientInv
<1>1. Init => ClientInv
  BY ClientsInitially
<1>2. IInv /\ ClientInv /\ [Next]_vars => ClientInv'
  BY ClientsKeep
<1>. QED BY <1>1, <1>2, Invariant, PTL DEF Spec

(* A client of a session that has ended is being closed.                   *)
LEMMA ClientsAreClosed ==
    ASSUME IInv, ClientInv, NEW s \in Sessions, Over(s), NEW k \in openClients, clientOf[k] = s
    PROVE  Sftp!BeingClosed(k)
<1>1. sftpCall[s].at = "idle"
  <2>1. sftpCall[s].op = "none"
    BY DEF IInv, LifeInv, StagesInOrder, Over
  <2>. QED BY <2>1, CallersApart DEF IInv, SftpInv, SftpCallsSound
<1>2. handles[s] = None \/ ~Holds(handles[s])
  BY <1>1 DEF ClientInv, EndedEmpty, DisposedSftp, Past
<1>3. ASSUME NEW h \in Sftp!MadeHandles, handle[h].of = s, Holds(h) PROVE Sftp!Takes(h)
  <2>1. handles[s] = h \/ Sftp!Takes(h)
    BY <1>3 DEF ClientInv, HandlesFound
  <2>2. h # None
    BY NamesApart DEF Sftp!MadeHandles
  <2>. QED BY <1>2, <1>3, <2>1, <2>2
<1>4. ASSUME NEW h \in Sftp!MadeHandles, handle[h].client = k PROVE Sftp!BeingClosed(k)
  <2>1. k # None
    BY NamesApart DEF IInv, SftpInv, Sftp!TypeOK
  <2>2. handle[h].of = s /\ Holds(h)
    BY <1>4, <2>1 DEF ClientInv, ClientsNamed, Holds
  <2>. QED BY <1>3, <1>4, <2>2 DEF Sftp!BeingClosed
<1>5. ASSUME NEW c \in Callers, sftpCall[c].client = k, sftpCall[c].at = "home" PROVE Sftp!BeingClosed(k)
  <2>1. PICK h : h = sftpCall[c].handle
    OBVIOUS
  <2>2. sftpCall[c].session = s
    BY <1>5 DEF ClientInv, ClientsNamed
  <2>3. h \in Sftp!MadeHandles /\ handle[h].of = s
    BY <1>5, <2>1, <2>2 DEF IInv, SftpInv, HandlesMade, Works, Sftp!Mine
  <2>4. Holds(h)
    BY <1>5, <2>1 DEF Holds, HomeOn
  <2>. QED BY <1>3, <1>5, <2>1, <2>3, <2>4 DEF Sftp!BeingClosed
<1>6. ASSUME NEW c \in Callers, sftpCall[c].client = k, sftpCall[c].at = "close" PROVE Sftp!BeingClosed(k)
  BY <1>6 DEF Sftp!BeingClosed
<1>. QED BY <1>4, <1>5, <1>6 DEF IInv, SftpInv, Sftp!ClientsOwned

-----------------------------------------------------------------------------
(* For any number of sessions, calls, ports, pollers and clients: whatever *)
(* there is belongs to somebody who will close it.  When the renderer      *)
(* hears of the end of a session, no call having overlapped the end,       *)
(* nothing of it is left; if one has, a poller, a port or an empty handle  *)
(* may be, but each SFTP client is closed or about to be.                  *)
THEOREM Clean == Spec => []EndsClean
<1>1. IInv /\ ClientInv => EndsClean
  <2> SUFFICES ASSUME IInv, ClientInv PROVE EndsClean
    OBVIOUS
  <2>1. TypeOK
    BY DEF IInv, LifeInv, LifeOK, MonInv, TunInv, SftpInv, TypeOK
  <2>2. Mon!OnePoller
    BY NamesApart DEF IInv, MonInv, TransHeld, PollersKnown, Joining, Mon!OnePoller
  <2>3. OwnersKnown
    BY <2>2 DEF IInv, TunInv, SftpInv, OwnersKnown
  <2>4. ASSUME NEW s \in Sessions, Over(s)
        PROVE  /\ s \in late \/ (~Polled(s) /\ Tun!Of(s) = {} /\ handles[s] = None)
               /\ \A k \in openClients : clientOf[k] = s => Sftp!BeingClosed(k)
    <3>1. session[s] = "gone" /\ monCall[s].op = "none" /\ tunCall[s].op = "none" /\ sftpCall[s].op = "none"
      BY <2>4 DEF IInv, LifeInv, StagesInOrder, Over
    <3>2. monCall[s].at = "idle" /\ tunCall[s].at = "idle" /\ sftpCall[s].at = "idle"
      BY <3>1, CallersApart
         DEF IInv, MonInv, MonCallsSound, TunInv, TunCallsSound, SftpInv, SftpCallsSound
    <3>3. s \in late \/ (~Polled(s) /\ Tun!Of(s) = {} /\ handles[s] = None)
      BY <2>4, <3>2 DEF IInv, LifeInv, EndsDispose, Past
    <3>. QED BY <2>4, <3>3, ClientsAreClosed
  <2>. QED BY <2>1, <2>3, <2>4 DEF EndsClean, NothingLeft
<1>. QED BY <1>1, Invariant, ClientsSound, PTL

(* The renderer never shows a sample of a session it has switched away     *)
(* from, though a poller checks that it is current before it emits, and    *)
(* not while it does.                                                      *)
THEOREM NoStaleSample == Spec => NeverStale
<1> DEFINE Newer == screen' # screen =>
                      /\ screen'.gen >= screen.gen
                      /\ screen'.shows = "sample" => screen'.gen = screen.gen /\ screen.shows # "nothing"
<1>1. IInv /\ [Next]_vars => [Newer]_Mon!vars
  <2> SUFFICES ASSUME IInv, [Next]_vars, screen' # screen
               PROVE  /\ screen'.gen >= screen.gen
                      /\ screen'.shows = "sample" => screen'.gen = screen.gen /\ screen.shows # "nothing"
    OBVIOUS
  <2>1. MonInv /\ Mon!TypeOK
    BY DEF IInv, MonInv
  <2>2. Mon!Goes
    BY DEF Next, vars, MonitorGoes, TunnelGoes, SftpGoes, monitor, Call, Calls, AskMonitor, AskTunnels, AskSftp,
           Mon!Begin, SessionEnds, Closes, OnlyLife, EndGoes, Removed, DisposeSftp, DisposeMonitor,
           DisposeTunnels, ClosedEvent, BeginShutdown, ShutdownGoes, StopMonitor, StopTunnels, TakeSessions,
           StopSession, SessionsStopped, StopSftp, ShutdownDone, ShutdownTo, NextStage
  <2>3. screen.gen \in Nat
    BY <2>1 DEF Mon!TypeOK, Mon!Generations
  <2>4. ASSUME NEW c \in Callers, Mon!Step(c)
        PROVE  screen'.gen >= screen.gen /\ screen'.shows # "sample"
    <3>1. CASE Mon!First(c)
      <4>1. screen' = [gen |-> monCall[c].poller, shows |-> "empty"] /\ monCall[c].at = "first"
        BY <3>1 DEF Mon!First
      <4>2. screen.gen <= monCall[c].poller /\ monCall[c].poller \in Nat
        BY <2>1, <4>1 DEF MonInv, ScreenFollows, MonCallsSound, Mon!Started, Mon!Generations
      <4>. QED BY <2>3, <4>1, <4>2
    <3>2. CASE Mon!Cleared(c)
      <4>1. screen' = [screen EXCEPT !.shows = "nothing"]
        BY <3>2 DEF Mon!Cleared
      <4>. QED BY <2>1, <2>3, <4>1 DEF Mon!TypeOK
    <3>. QED BY <2>4, <3>1, <3>2 DEF Mon!Step, Mon!Detach, Mon!Publish, Mon!OpenGate
  <2>5. ASSUME NEW g \in Mon!Generations, Mon!Polls(g) \/ Mon!NextTick(g) \/ Mon!Leave(g)
        PROVE  screen'.gen = screen.gen /\ screen.shows # "nothing"
    <3>1. pollers[g].at = "emit" /\ screen' = [gen |-> g, shows |-> "sample"]
      BY <2>5 DEF Mon!Polls, Mon!NextTick, Mon!Leave, Mon!Gate, Mon!Tick, Mon!Sampled, Mon!EmitUpdate,
                  Mon!PollerGoes
    <3>2. Shows(g)
      BY <2>1, <3>1 DEF MonInv, ScreenFollows, PastGate
    <3>. QED BY <3>1, <3>2 DEF Shows
  <2>. QED BY <2>2, <2>3, <2>4, <2>5 DEF Mon!Goes
<1>2. [][Newer]_Mon!vars => NeverStale
  BY PTL DEF NeverStale, Mon!NeverStale
<1> HIDE DEF Newer
<1>. QED BY <1>1, <1>2, Invariant, PTL DEF Spec

(* After the shutdown no session is connected, no poller runs and no port  *)
(* is forwarded, and no sample is emitted, whatever the renderer still     *)
(* calls.  Not covered is the closed event of a session that was out of    *)
(* the table before the shutdown looked.                                   *)
THEOREM ShutdownFinal == Spec => ShutdownIsFinal
<1> DEFINE Still == stopping = "over" =>
                      /\ screen' = screen /\ table' = {} /\ active' = None
                      /\ \A g \in Mon!Started : pollers[g].at = "done"
                      /\ \A s \in Sessions : session[s] = "gone"
<1>1. IInv => (stopping = "over" =>
                 /\ tunClosed /\ table = {} /\ active = None /\ \A c \in Callers : monCall[c].at # "join"
                 /\ \A g \in Mon!Started : pollers[g].at = "done")
  <2> SUFFICES ASSUME IInv, stopping = "over"
               PROVE  /\ tunClosed /\ table = {} /\ active = None /\ \A c \in Callers : monCall[c].at # "join"
                      /\ \A g \in Mon!Started : pollers[g].at = "done"
    OBVIOUS
  <2>1. monClosed /\ tunClosed /\ monCall[Shutdown].op = "none"
    BY DEF IInv, LifeInv, ShutdownStops
  <2>2. table = {} /\ active = None /\ \A c \in Callers : monCall[c].at = "join" => monCall[c].op = "stop"
    BY <2>1 DEF IInv, TunInv, Tun!ListenersOwned, MonInv, StoppedForGood
  <2>3. \A c \in Callers : monCall[c].op = "stop" => c = Shutdown
    BY CallersApart DEF IInv, LifeInv, Roles, Callers
  <2>4. \A c \in Callers : monCall[c].at # "join"
    BY <2>1, <2>2, <2>3
  <2>5. \A g \in Mon!Started : pollers[g].at = "done"
    BY <2>2, <2>4, NamesApart DEF IInv, MonInv, PollersKnown, Joining, Mon!Started
  <2>. QED BY <2>1, <2>2, <2>4, <2>5
<1>2. IInv /\ [Next]_vars => (stopping = "over" => stopping' = "over")
  BY DEF Next, vars, life, MonitorGoes, TunnelGoes, SftpGoes, Call, SessionEnds, Closes, EndGoes,
         Removed, DisposeSftp, DisposeMonitor, DisposeTunnels, ClosedEvent, BeginShutdown, ShutdownGoes,
         StopMonitor, StopTunnels, TakeSessions, StopSession, SessionsStopped, StopSftp, ShutdownDone, NextStage
<1>3. IInv /\ [Next]_vars => (stopping = "over" => screen' = screen)
  <2> SUFFICES ASSUME IInv, [Next]_vars, stopping = "over", screen' # screen PROVE FALSE
    OBVIOUS
  <2>1. MonInv /\ active = None /\ \A g \in Mon!Started : pollers[g].at = "done"
    BY <1>1 DEF IInv
  <2>2. \A c \in Callers : monCall[c].at # "join"
    BY <1>1
  <2>3. Mon!Goes
    BY DEF Next, vars, MonitorGoes, TunnelGoes, SftpGoes, monitor, Call, Calls, AskMonitor, AskTunnels, AskSftp,
           Mon!Begin, SessionEnds, Closes, OnlyLife, EndGoes, Removed, DisposeSftp, DisposeMonitor,
           DisposeTunnels, ClosedEvent, BeginShutdown, ShutdownGoes, StopMonitor, StopTunnels, TakeSessions,
           StopSession, SessionsStopped, StopSftp, ShutdownDone, ShutdownTo, NextStage
  <2>4. ASSUME NEW c \in Callers, Mon!Step(c) PROVE FALSE
    <3>1. CASE Mon!First(c)
      <4>1. monCall[c].at = "first"
        BY <3>1 DEF Mon!First
      <4>. QED BY <2>1, <4>1 DEF MonInv, MonCallsSound, GateShut, Starting
    <3>2. CASE Mon!Cleared(c)
      BY <2>2, <3>2 DEF Mon!Cleared
    <3>. QED BY <2>4, <3>1, <3>2 DEF Mon!Step, Mon!Detach, Mon!Publish, Mon!OpenGate
  <2>5. ASSUME NEW g \in Mon!Generations, Mon!Polls(g) \/ Mon!NextTick(g) \/ Mon!Leave(g) PROVE FALSE
    <3>1. pollers[g].at = "emit"
      BY <2>5 DEF Mon!Polls, Mon!NextTick, Mon!Leave, Mon!Gate, Mon!Tick, Mon!Sampled, Mon!EmitUpdate,
                  Mon!PollerGoes
    <3>. QED BY <2>1, <3>1 DEF Mon!Started
  <2>. QED BY <2>3, <2>4, <2>5 DEF Mon!Goes
<1>4. IInv /\ IInv' /\ [Next]_vars => [Still]_vars
  <2> SUFFICES ASSUME IInv, IInv', [Next]_vars, stopping = "over"
               PROVE  /\ screen' = screen /\ table' = {} /\ active' = None
                      /\ \A g \in Mon!Started : pollers[g].at = "done"
                      /\ \A s \in Sessions : session[s] = "gone"
    OBVIOUS
  <2>1. stopping' = "over" /\ \A s \in Sessions : session[s] = "gone"
    BY <1>2 DEF IInv, LifeInv, SweepKnown
  <2>2. (stopping = "over" => table = {} /\ active = None)'
    BY <1>1, PTL
  <2>. QED BY <1>1, <1>3, <2>1, <2>2
<1>5. [][Still]_vars => ShutdownIsFinal
  BY PTL DEF ShutdownIsFinal
<1> HIDE DEF Still
<1>. QED BY <1>4, <1>5, Invariant, PTL DEF Spec

(* The directory of a session's panel moves by a Chdir of that session     *)
(* only, and every client that is open has an owner.                       *)
THEOREM PanelMoves == Spec => Sftp!PanelStays
<1>1. IInv => Sftp!TypeOK /\ Sftp!ClientsOwned
  BY DEF IInv, SftpInv
<1>2. IInv /\ [Next]_vars => [Sftp!MovesByChdir]_Sftp!vars
  <2> SUFFICES ASSUME IInv, [Next]_vars, ~UNCHANGED Sftp!vars, NEW s \in Sessions, Sftp!Moves(s)
               PROVE  Sftp!ByChdir(s)
    BY DEF Sftp!MovesByChdir
  <2>1. SftpInv
    BY DEF IInv
  <2>2. PICK h : h = handles[s]
    OBVIOUS
  <2>3. /\ h \in Sftp!MadeHandles /\ h \in Sftp!Handles /\ handle[h].of = s
        /\ handle[h].cwd # None /\ handle'[h].cwd # handle[h].cwd
    BY <2>1, <2>2 DEF Sftp!Moves, SftpInv, HandlesMade, Sftp!MadeHandles
  <2>4. PICK c \in Callers : Sftp!Step(c)
    BY <2>3 DEF Next, vars, MonitorGoes, TunnelGoes, SftpGoes, sftp, Call, Calls, AskMonitor, AskTunnels, AskSftp,
           Sftp!Begin, SessionEnds, Closes, OnlyLife, EndGoes, Removed, DisposeSftp, DisposeMonitor,
           DisposeTunnels, ClosedEvent, BeginShutdown, ShutdownGoes, StopMonitor, StopTunnels, TakeSessions,
           StopSession, SessionsStopped, StopSftp, ShutdownDone, ShutdownTo, NextStage
  <2>5. Sftp!setCwd(c) /\ sftpCall[c].handle = h
    <3>1. handle \in [Sftp!Handles -> HandleOfSftp]
      BY <2>1, SftpTyped
    <3>2. ASSUME Sftp!Resolve(c) PROVE FALSE
      <4>1. handle' # handle
        BY <2>3
      <4>2. PICK new : /\ new = Sftp!Cardinality(Sftp!MadeHandles) + 1
                       /\ \E r : handle' = [handle EXCEPT ![new] = r]
        BY <3>2, <4>1 DEF Sftp!Resolve
      <4>3. new # h
        BY <2>1, <2>3, <4>2, NextHandle
      <4>. QED BY <2>3, <3>1, <4>2, <4>3
    <3>3. ASSUME NEW g, NEW b, handle' = [handle EXCEPT ![g].busy = b] PROVE FALSE
      BY <2>3, <3>1, <3>3 DEF HandleOfSftp
    <3>4. ASSUME Sftp!TakeClient(c) PROVE FALSE
      BY <2>3, <3>1, <3>4 DEF HandleOfSftp, Sftp!TakeClient
    <3>5. ASSUME Sftp!KeepClient(c) PROVE FALSE
      <4>1. PICK g : g = sftpCall[c].handle
        OBVIOUS
      <4>2. handle' = [handle EXCEPT ![g] = [@ EXCEPT !.client = sftpCall[c].client,
                          !.cwd = IF handle[g].cwd = None THEN Home ELSE handle[g].cwd, !.busy = None]]
        BY <3>5, <4>1 DEF Sftp!KeepClient, Sftp!StartsIn, Sftp!Mine
      <4>3. CASE g # h
        BY <2>3, <3>1, <4>2, <4>3
      <4>4. CASE g = h
        BY <2>3, <3>1, <4>2, <4>4 DEF HandleOfSftp
      <4>. QED BY <4>3, <4>4
    <3>6. handle' # handle
      BY <2>3
    <3>7. Sftp!setCwd(c)
      <4>1. ~Sftp!LockHandle(c) /\ ~Sftp!OpenFails(c) /\ ~Sftp!HomeFails(c)
        BY <3>3 DEF Sftp!LockHandle, Sftp!OpenFails, Sftp!HomeFails
      <4>2. /\ ~Sftp!Share(c) /\ ~Sftp!OpenClient(c) /\ ~Sftp!Operate(c) /\ ~Sftp!TakeTable(c)
            /\ ~Sftp!Visit(c) /\ ~Sftp!CloseClient(c)
        BY <3>6 DEF Sftp!Share, Sftp!OpenClient, Sftp!Operate, Sftp!TakeTable, Sftp!Visit, Sftp!CloseClient
      <4>. QED BY <2>4, <3>2, <3>4, <3>5, <4>1, <4>2 DEF Sftp!Step
    <3>. QED BY <2>3, <3>1, <3>7 DEF Sftp!setCwd
  <2>6. sftpCall[c].op = "chdir" /\ sftpCall[c].session = s
    BY <2>1, <2>3, <2>5 DEF SftpInv, SftpCallsSound, HandlesMade, Works, Sftp!setCwd, Sftp!Mine
  <2>7. handle'[h].cwd = sftpCall[c].dir
    BY <2>1, <2>3, <2>5, SftpTyped DEF Sftp!setCwd, HandleOfSftp
  <2>. QED BY <2>2, <2>6, <2>7 DEF Sftp!ByChdir
<1>. QED BY <1>1, <1>2, Invariant, PTL DEF Spec, Sftp!PanelStays
=============================================================================
