--------------------------- MODULE SessionsProofs ---------------------------
(***************************************************************************)
(* The safety properties of Sessions, for any number of sessions and any   *)
(* amount of output.                                                       *)
(***************************************************************************)
EXTENDS Sessions, TLAPS

USE MaxOutAssumption

-----------------------------------------------------------------------------
(* Which steps touch which part of the state.                              *)

(* Only these steps change the manager's maps, gate and sweep.             *)
LEMMA ManagerTouched ==
    ASSUME Next
    PROVE  \/ UNCHANGED manager
           \/ \E s \in Sess : ConnectFails(s) \/ Dialed(s) \/ Connect(s) \/ Register(s)
                \/ RegisterRejected(s) \/ StartPumps(s) \/ Unmap(s) \/ DisposedOne(s)
           \/ DisposeAll \/ DisposeReturns
<1>1. ASSUME NEW s \in Sess, Write(s) \/ Disconnect(s) \/ UnknownSession(s)
                             \/ ShowChunk(s) \/ DisposeOne(s)
      PROVE  UNCHANGED manager
  BY <1>1 DEF manager, vars, Write, Disconnect, UnknownSession, ShowChunk, DisposeOne
<1>2. ASSUME NEW s \in Sess, EndStep(s), ~Unmap(s)
      PROVE  UNCHANGED manager
  BY <1>2 DEF manager, EndStep, MarkLocal, CloseConn, StartFlush, EndFlush,
              DiscardOutput, ReportFault, AnnounceClosed
<1>3. ASSUME NEW s \in Sess, NEW a \in Actors, ActorStep(s, a)
      PROVE  UNCHANGED manager
  BY <1>3 DEF manager, ActorStep, Read, AddChunk, ReadEOF, ReadFails, WaitReturns,
              WaitDrained, WriteReturns, Classify, RecordFault, EnterOnce, EndReturns
<1>4. ASSUME NEW s \in Sess, NEW k \in Pumps, RemoteWrites(s, k)
      PROVE  UNCHANGED manager
  BY <1>4 DEF manager, RemoteWrites
<1>5. ASSUME NEW s \in Sess, NEW how \in {"exited", "lost"}, RemoteEnds(s, how)
      PROVE  UNCHANGED manager
  BY <1>5 DEF manager, RemoteEnds
<1>6. QED
  BY <1>1, <1>2, <1>3, <1>4, <1>5 DEF Next, ConnectStep, DisposeStep

(* Only these steps change the connection.                                 *)
LEMMA LinkTouched ==
    ASSUME Next
    PROVE  \/ UNCHANGED link
           \/ \E s \in Sess :
                \/ ConnectFails(s) \/ Dialed(s) \/ RegisterRejected(s) \/ CloseConn(s)
                \/ \E k \in Pumps : RemoteWrites(s, k) \/ Read(s, k)
                \/ \E how \in {"exited", "lost"} : RemoteEnds(s, how)
<1>1. ASSUME NEW s \in Sess, Write(s) \/ Disconnect(s) \/ UnknownSession(s) \/ Connect(s)
                             \/ Register(s) \/ StartPumps(s) \/ ShowChunk(s)
      PROVE  UNCHANGED link
  BY <1>1 DEF link, vars, Write, Disconnect, UnknownSession, Connect, Register,
              StartPumps, ShowChunk
<1>2. ASSUME NEW s \in Sess, EndStep(s), ~CloseConn(s)
      PROVE  UNCHANGED link
  BY <1>2 DEF link, EndStep, MarkLocal, StartFlush, EndFlush, DiscardOutput, Unmap,
              ReportFault, AnnounceClosed
<1>3. ASSUME NEW s \in Sess, NEW a \in Actors, ActorStep(s, a), ~(a \in Pumps /\ Read(s, a))
      PROVE  UNCHANGED link
  BY <1>3 DEF link, ActorStep, AddChunk, ReadEOF, ReadFails, WaitReturns, WaitDrained,
              WriteReturns, Classify, RecordFault, EnterOnce, EndReturns
<1>4. ASSUME DisposeAll \/ DisposeStep
      PROVE  UNCHANGED link
  BY <1>4 DEF link, DisposeAll, DisposeStep, DisposeOne, DisposedOne, DisposeReturns
<1>5. QED
  BY <1>1, <1>2, <1>3, <1>4 DEF Next, ConnectStep

(* Only these steps change what the batcher holds.                         *)
LEMMA OutputTouched ==
    ASSUME Next
    PROVE  \/ UNCHANGED output
           \/ \E s \in Sess : \/ RegisterRejected(s) \/ StartFlush(s) \/ DiscardOutput(s)
                              \/ ShowChunk(s) \/ \E k \in Pumps : AddChunk(s, k)
<1>1. ASSUME NEW s \in Sess, Write(s) \/ Disconnect(s) \/ UnknownSession(s) \/ Connect(s)
      PROVE  UNCHANGED output
  BY <1>1 DEF output, vars, Write, Disconnect, UnknownSession, Connect
<1>2. ASSUME NEW s \in Sess, ConnectStep(s), ~RegisterRejected(s)
      PROVE  UNCHANGED output
  BY <1>2 DEF output, ConnectStep, ConnectFails, Dialed, Register, StartPumps
<1>3. ASSUME NEW s \in Sess, EndStep(s), ~StartFlush(s), ~DiscardOutput(s)
      PROVE  UNCHANGED output
  BY <1>3 DEF output, EndStep, MarkLocal, CloseConn, EndFlush, Unmap, ReportFault,
              AnnounceClosed
<1>4. ASSUME NEW s \in Sess, NEW a \in Actors, ActorStep(s, a),
             ~(a \in Pumps /\ AddChunk(s, a))
      PROVE  UNCHANGED output
  BY <1>4 DEF output, ActorStep, Read, ReadEOF, ReadFails, WaitReturns, WaitDrained,
              WriteReturns, Classify, RecordFault, EnterOnce, EndReturns
<1>5. ASSUME NEW s \in Sess, NEW k \in Pumps, RemoteWrites(s, k)
      PROVE  UNCHANGED output
  BY <1>5 DEF output, RemoteWrites
<1>6. ASSUME NEW s \in Sess, NEW how \in {"exited", "lost"}, RemoteEnds(s, how)
      PROVE  UNCHANGED output
  BY <1>6 DEF output, RemoteEnds
<1>7. ASSUME DisposeAll \/ DisposeStep
      PROVE  UNCHANGED output
  BY <1>7 DEF output, DisposeAll, DisposeStep, DisposeOne, DisposedOne, DisposeReturns
<1>8. QED
  BY <1>1, <1>2, <1>3, <1>4, <1>5, <1>6, <1>7 DEF Next

(* Only an actor's own step, the start of the goroutines and a new call    *)
(* move an actor.                                                          *)
LEMMA ActorsTouched ==
    ASSUME Next
    PROVE  \/ UNCHANGED pc
           \/ \E s \in Sess : \/ StartPumps(s) \/ Write(s) \/ Disconnect(s)
                              \/ \E a \in Actors : ActorStep(s, a)
<1>1. ASSUME NEW s \in Sess, UnknownSession(s) \/ Connect(s) \/ ShowChunk(s)
      PROVE  UNCHANGED pc
  BY <1>1 DEF vars, UnknownSession, Connect, ShowChunk
<1>2. ASSUME NEW s \in Sess, ConnectStep(s), ~StartPumps(s)
      PROVE  UNCHANGED pc
  BY <1>2 DEF ConnectStep, ConnectFails, Dialed, Register, RegisterRejected
<1>3. ASSUME NEW s \in Sess, EndStep(s)
      PROVE  UNCHANGED pc
  BY <1>3 DEF EndStep, MarkLocal, CloseConn, StartFlush, EndFlush, DiscardOutput,
              Unmap, ReportFault, AnnounceClosed
<1>4. ASSUME NEW s \in Sess, NEW k \in Pumps, RemoteWrites(s, k)
      PROVE  UNCHANGED pc
  BY <1>4 DEF RemoteWrites
<1>5. ASSUME NEW s \in Sess, NEW how \in {"exited", "lost"}, RemoteEnds(s, how)
      PROVE  UNCHANGED pc
  BY <1>5 DEF RemoteEnds
<1>6. ASSUME DisposeAll \/ DisposeStep
      PROVE  UNCHANGED pc
  BY <1>6 DEF DisposeAll, DisposeStep, DisposeOne, DisposedOne, DisposeReturns
<1>7. QED
  BY <1>1, <1>2, <1>3, <1>4, <1>5, <1>6 DEF Next

(* Only these steps change the end of a session.                           *)
LEMMA EndTouched ==
    ASSUME Next
    PROVE  \/ UNCHANGED ending
           \/ \E s \in Sess : \/ EndStep(s) \/ Disconnect(s) \/ DisposeOne(s)
                              \/ \E a \in Actors : RecordFault(s, a) \/ EnterOnce(s, a)
           \/ DisposeAll
<1>1. ASSUME NEW s \in Sess, Write(s) \/ UnknownSession(s) \/ Connect(s) \/ ShowChunk(s)
      PROVE  UNCHANGED ending
  BY <1>1 DEF ending, vars, Write, UnknownSession, Connect, ShowChunk
<1>2. ASSUME NEW s \in Sess, ConnectStep(s)
      PROVE  UNCHANGED ending
  BY <1>2 DEF ending, ConnectStep, ConnectFails, Dialed, Register, RegisterRejected,
              StartPumps
<1>3. ASSUME NEW s \in Sess, NEW a \in Actors, ActorStep(s, a), ~RecordFault(s, a),
             ~EnterOnce(s, a)
      PROVE  UNCHANGED ending
  BY <1>3 DEF ending, ActorStep, Read, AddChunk, ReadEOF, ReadFails, WaitReturns,
              WaitDrained, WriteReturns, Classify, EndReturns
<1>4. ASSUME NEW s \in Sess, NEW k \in Pumps, RemoteWrites(s, k)
      PROVE  UNCHANGED ending
  BY <1>4 DEF ending, RemoteWrites
<1>5. ASSUME NEW s \in Sess, NEW how \in {"exited", "lost"}, RemoteEnds(s, how)
      PROVE  UNCHANGED ending
  BY <1>5 DEF ending, RemoteEnds
<1>6. ASSUME DisposeReturns \/ \E s \in Sess : DisposedOne(s)
      PROVE  UNCHANGED ending
  BY <1>6 DEF ending, DisposedOne, DisposeReturns
<1>7. QED
  BY <1>1, <1>2, <1>3, <1>4, <1>5, <1>6 DEF Next, DisposeStep
-----------------------------------------------------------------------------
(* The inductive invariant.                                                *)

Fresh(s) == call[s] \notin {"registered", "returned"}

(* Before a session is registered nothing happens in it, and its goroutines *)
(* start when Connect returns.                                             *)
Unborn(s) ==
    Fresh(s) => /\ s \notin sessions /\ s \notin asked /\ s \notin fault
                /\ once[s] = "open" /\ log[s] = <<>>
                /\ s \notin localClose /\ batcher[s] # "closed"

Unstarted(s) ==
    /\ call[s] # "returned" => \A a \in Pumps \cup {"wait"} : pc[s][a] = "off"
    /\ Fresh(s) => \A a \in {"write", "disconnect"} : pc[s][a] = "idle"

(* What the shutdown gate and DisposeAll's sweep guarantee together.       *)
Gate ==
    /\ closing <=> disposer # "idle"
    /\ disposer = "sweeping" => sessions \subseteq sweep
    /\ disposer = "returned" => sessions = {}
    /\ sweep \subseteq asked

Opening  == {"open", "mark", "qmark"}
Quiet    == {"qmark", "discard", "qclose", "qunmap"}
Unmapped == {"report", "announce", "done"}

(* What the end of a session has done to the maps and the connection when  *)
(* it is at once[s].                                                       *)
Closing(s) ==
    /\ once[s] \in Unmapped => s \notin sessions
    /\ ~Fresh(s) /\ once[s] \notin Unmapped => s \in sessions
    /\ call[s] \in {"none", "dialing"} => conn[s] = "none"
    /\ call[s] = "dialed" => conn[s] = "open"
    /\ call[s] = "failed" => conn[s] # "open"
    /\ ~Fresh(s) => conn[s] = (IF once[s] \in Opening \cup {"close", "discard", "qclose"}
                               THEN "open" ELSE "closed")

(* What it has done to the batcher.                                        *)
Flushing(s) ==
    /\ call[s] \in {"none", "dialing", "dialed"} => batcher[s] = "open"
    /\ ~Fresh(s) =>
      /\ batcher[s] = "open" <=> once[s] \in Opening \cup {"close", "flush", "discard"}
      /\ once[s] \in {"flushing", "unmap", "report", "announce"} => batcher[s] = "closed"
      /\ once[s] \in {"unmap", "report", "announce"} => shown[s] = added[s]
      /\ once[s] \in {"qclose", "qunmap"} => batcher[s] = "discarded"
      /\ once[s] = "done" /\ batcher[s] = "closed" => shown[s] = added[s]
      /\ once[s] \in Quiet \/ batcher[s] = "discarded" => s \in asked

(* What it has told the frontend.                                          *)
Telling(s) ==
    /\ s \in localClose <=> once[s] \notin Opening
    /\ once[s] \notin {"announce", "done"} => log[s] = <<>>
    /\ once[s] = "announce" => log[s] \in {<<>>, <<"error">>}
    /\ once[s] = "done" => log[s] \in {<<>>, <<"closed">>, <<"error", "closed">>}
    /\ once[s] = "done" /\ batcher[s] = "discarded" => log[s] = <<>>

Carried(s, k) == IF pc[s][k] = "add" THEN 1 ELSE 0

OnTheWay(s) == wire[s]["out"] + wire[s]["err"] + Carried(s, "out") + Carried(s, "err")

(* Every chunk sent is on the wire, carried by a pump, or in the batcher,  *)
(* unless the batcher was torn down.                                       *)
Account(s) ==
    /\ shown[s] <= added[s]
    /\ added[s] + OnTheWay(s) <= sent[s]
    /\ batcher[s] = "open" => added[s] + OnTheWay(s) = sent[s]

(* Why a session that nobody asked to end ends.                            *)
Causes(s) ==
    s \notin asked =>
      /\ pc[s]["disconnect"] = "idle"
      /\ remote[s] = "up" =>
           /\ once[s] = "open"
           /\ \A k \in Pumps : pc[s][k] \in {"off", "read", "add"}
           /\ pc[s]["wait"] \in {"off", "wait"} /\ pc[s]["write"] \in {"idle", "writing"}
      /\ remote[s] = "exited" /\ once[s] = "open" =>
           /\ \A k \in Pumps : /\ pc[s][k] \in {"off", "read", "add", "done"}
                               /\ pc[s][k] = "done" => wire[s][k] = 0
           /\ pc[s]["wait"] \in {"off", "wait", "drain", "clean", "once"}
           /\ pc[s]["wait"] \in {"clean", "once"} => Drained(s)
           /\ pc[s]["write"] \in {"idle", "writing"}
      /\ remote[s] = "exited" /\ once[s] # "open" => added[s] = sent[s]
      /\ remote[s] = "lost" /\ once[s] = "open" =>
           /\ \A a \in Actors : pc[s][a] # "clean" /\ (pc[s][a] = "once" => s \in fault)
           /\ pc[s]["wait"] \notin {"drain", "done"}
      /\ remote[s] = "lost" /\ once[s] # "open" => s \in fault
      /\ remote[s] = "lost" /\ once[s] = "announce" => log[s] = <<"error">>
      /\ remote[s] = "lost" /\ once[s] = "done" => log[s] = <<"error", "closed">>

IInv ==
    /\ TypeOK /\ Gate
    /\ \A s \in Sess : /\ Unborn(s) /\ Unstarted(s) /\ Closing(s) /\ Flushing(s)
                       /\ Telling(s) /\ Account(s)

CInv == IInv /\ \A s \in Sess : Causes(s)

-----------------------------------------------------------------------------
(* Types.                                                                  *)

(* A step keeps the types of the manager.                                  *)
LEMMA ManagerTypes ==
    ASSUME ManagerType, Next
    PROVE  ManagerType'
<1>1. CASE UNCHANGED manager
  BY <1>1 DEF ManagerType, manager
<1>2. ASSUME NEW s \in Sess,
             \/ ConnectFails(s) \/ Dialed(s) \/ Connect(s) \/ Register(s)
             \/ RegisterRejected(s) \/ StartPumps(s) \/ Unmap(s) \/ DisposedOne(s)
      PROVE  ManagerType'
  BY <1>2 DEF ManagerType, manager, ConnectFails, Dialed, Connect, Register,
              RegisterRejected, StartPumps, Unmap, DisposedOne
<1>3. CASE DisposeAll \/ DisposeReturns
  BY <1>3 DEF ManagerType, DisposeAll, DisposeReturns
<1>4. QED
  BY <1>1, <1>2, <1>3, ManagerTouched

(* Moving an actor keeps the type of pc.                                   *)
LEMMA GotoSpot ==
    ASSUME pc \in [Sess -> [Actors -> Spots]],
           NEW s \in Sess, NEW a \in Actors, NEW at \in Spots, Goto(s, a, at)
    PROVE  pc' \in [Sess -> [Actors -> Spots]]
  BY DEF Goto

(* A goroutine only ever goes to the places of Spots.                      *)
LEMMA ActorSpots ==
    ASSUME pc \in [Sess -> [Actors -> Spots]], Next
    PROVE  pc' \in [Sess -> [Actors -> Spots]]
<1>1. ASSUME NEW s \in Sess, Write(s) \/ Disconnect(s)
      PROVE  pc' \in [Sess -> [Actors -> Spots]]
  BY <1>1, GotoSpot DEF Write, Disconnect, Spots, Actors
<1>2. ASSUME NEW s \in Sess, StartPumps(s)
      PROVE  pc' \in [Sess -> [Actors -> Spots]]
  <2>1. [a \in Actors |-> IF a \in Pumps THEN "read" ELSE IF a = "wait" THEN "wait"
                          ELSE pc[s][a]] \in [Actors -> Spots]
    BY DEF Spots
  <2>2. QED
    BY <1>2, <2>1 DEF StartPumps
<1>3. ASSUME NEW s \in Sess, NEW a \in Actors, ActorStep(s, a)
      PROVE  pc' \in [Sess -> [Actors -> Spots]]
  <2>1. CASE Read(s, a) \/ AddChunk(s, a) \/ ReadEOF(s, a) \/ ReadFails(s, a)
    BY <2>1, GotoSpot DEF Read, AddChunk, ReadEOF, ReadFails, Spots
  <2>2. CASE a = "wait" /\ (WaitReturns(s) \/ WaitDrained(s))
    BY <2>2, GotoSpot DEF WaitReturns, WaitDrained, Spots
  <2>3. CASE a = "write" /\ WriteReturns(s)
    BY <2>3, GotoSpot DEF WriteReturns, Spots
  <2>4. CASE Classify(s, a)
    BY <2>4, GotoSpot DEF Classify, Spots
  <2>5. CASE RecordFault(s, a) \/ EndReturns(s, a)
    BY <2>5, GotoSpot DEF RecordFault, EndReturns, Spots
  <2>6. CASE EnterOnce(s, a)
    BY <2>6 DEF EnterOnce
  <2>7. QED
    BY <1>3, <2>1, <2>2, <2>3, <2>4, <2>5, <2>6 DEF ActorStep
<1>4. CASE UNCHANGED pc
  BY <1>4
<1>5. QED
  BY <1>1, <1>2, <1>3, <1>4, ActorsTouched

(* A step keeps the types of what the end of a session writes.             *)
LEMMA EndTypes ==
    ASSUME EndType, ManagerType, Next
    PROVE  EndType'
<1>1. CASE UNCHANGED ending
  BY <1>1 DEF EndType, ending
<1>2. ASSUME NEW s \in Sess, EndStep(s)
      PROVE  EndType'
  <2>1. CASE ReportFault(s) \/ AnnounceClosed(s)
    <3>1. log \in [Sess -> Seq({"error", "closed"})]
      BY DEF EndType
    <3>2. ReportFault(s) => log' \in [Sess -> Seq({"error", "closed"})]
      BY <3>1 DEF ReportFault
    <3>3. AnnounceClosed(s) => log' \in [Sess -> Seq({"error", "closed"})]
      BY <3>1 DEF AnnounceClosed
    <3>4. QED
      BY <2>1, <3>2, <3>3 DEF ReportFault, AnnounceClosed, At, EndType
  <2>2. CASE MarkLocal(s) \/ CloseConn(s) \/ StartFlush(s) \/ EndFlush(s)
             \/ DiscardOutput(s) \/ Unmap(s)
    BY <2>2 DEF MarkLocal, CloseConn, StartFlush, EndFlush, DiscardOutput, Unmap, At,
                EndType
  <2>3. QED
    BY <1>2, <2>1, <2>2 DEF EndStep
<1>3. ASSUME NEW s \in Sess, Disconnect(s) \/ DisposeOne(s)
      PROVE  EndType'
  BY <1>3 DEF Disconnect, DisposeOne, At, EndType
<1>4. ASSUME NEW s \in Sess, NEW a \in Actors, RecordFault(s, a) \/ EnterOnce(s, a)
      PROVE  EndType'
  BY <1>4 DEF RecordFault, Recorded, EnterOnce, EndType
<1>5. CASE DisposeAll
  BY <1>5 DEF DisposeAll, EndType, ManagerType
<1>6. QED
  BY <1>1, <1>2, <1>3, <1>4, <1>5, EndTouched

-----------------------------------------------------------------------------
(* The account of the chunks.                                              *)

(* The counters of one session as numbers.                                 *)
LEMMA Counters ==
    ASSUME TypeOK, NEW s \in Sess
    PROVE  /\ sent[s] \in 0..MaxOut /\ added[s] \in Nat /\ shown[s] \in Nat
           /\ wire[s]["out"] \in Nat /\ wire[s]["err"] \in Nat
           /\ Carried(s, "out") \in {0, 1} /\ Carried(s, "err") \in {0, 1}
<1>1. sent[s] \in 0..MaxOut /\ added[s] \in Nat /\ shown[s] \in Nat
  BY DEF TypeOK, LinkType, OutputType
<1>2. wire[s]["out"] \in Nat /\ wire[s]["err"] \in Nat
  BY DEF TypeOK, LinkType, Pumps
<1>3. QED
  BY <1>1, <1>2 DEF Carried

(* A step keeps the types of the connection and the wire.                  *)
LEMMA LinkTypes ==
    ASSUME TypeOK, \A r \in Sess : Account(r), Next
    PROVE  LinkType'
<1> USE DEF TypeOK, LinkType
<1>1. CASE UNCHANGED link
  BY <1>1 DEF link
<1>2. ASSUME NEW s \in Sess, ConnectFails(s) \/ Dialed(s) \/ CloseConn(s)
      PROVE  LinkType'
  BY <1>2 DEF ConnectFails, Dialed, CloseConn
<1>3. ASSUME NEW s \in Sess, RegisterRejected(s)
      PROVE  LinkType'
  BY <1>3 DEF RegisterRejected, Rejected
<1>4. ASSUME NEW s \in Sess, NEW how \in {"exited", "lost"}, RemoteEnds(s, how)
      PROVE  LinkType'
  BY <1>4 DEF RemoteEnds
<1>5. ASSUME NEW s \in Sess, NEW k \in Pumps, Read(s, k)
      PROVE  LinkType'
  <2>1. wire' \in [Sess -> [Pumps -> 0..MaxOut]]
    <3>1. wire \in [Sess -> [Pumps -> 0..MaxOut]]
      OBVIOUS
    <3>2. QED
      BY <1>5, <3>1 DEF Read
  <2>2. QED
    BY <1>5, <2>1 DEF Read
<1>6. ASSUME NEW s \in Sess, NEW k \in Pumps, RemoteWrites(s, k)
      PROVE  LinkType'
  <2>1. wire[s][k] < MaxOut
    <3>1. Account(s) /\ sent[s] < MaxOut
      BY <1>6 DEF RemoteWrites
    <3>2. QED
      BY <3>1, Counters DEF Account, OnTheWay, Pumps
  <2>2. wire' \in [Sess -> [Pumps -> 0..MaxOut]]
    <3>1. wire \in [Sess -> [Pumps -> 0..MaxOut]]
      OBVIOUS
    <3>2. QED
      BY <1>6, <2>1, <3>1 DEF RemoteWrites
  <2>3. sent' \in [Sess -> 0..MaxOut]
    <3>1. sent \in [Sess -> 0..MaxOut]
      OBVIOUS
    <3>2. QED
      BY <1>6, <3>1 DEF RemoteWrites
  <2>4. QED
    BY <1>6, <2>2, <2>3 DEF RemoteWrites
<1>7. QED
  BY <1>1, <1>2, <1>3, <1>4, <1>5, <1>6, LinkTouched

(* A step keeps the types of the batcher; Counters bounds added.           *)
LEMMA OutputTypes ==
    ASSUME TypeOK, \A r \in Sess : Account(r), Next
    PROVE  OutputType'
<1>0. OutputType
  BY DEF TypeOK
<1>1. CASE UNCHANGED output
  BY <1>0, <1>1 DEF output, OutputType
<1>2. ASSUME NEW s \in Sess, RegisterRejected(s) \/ StartFlush(s) \/ DiscardOutput(s)
      PROVE  OutputType'
  BY <1>0, <1>2 DEF RegisterRejected, StartFlush, DiscardOutput, Dropped, OutputType
<1>3. ASSUME NEW s \in Sess, ShowChunk(s)
      PROVE  OutputType'
  BY <1>0, <1>3 DEF ShowChunk, Behind, OutputType
<1>4. ASSUME NEW s \in Sess, NEW k \in Pumps, AddChunk(s, k)
      PROVE  OutputType'
  <2>1. Carried(s, k) = 1
    BY <1>4 DEF AddChunk, Carried
  <2>2. added[s] < MaxOut
    BY <2>1, Counters DEF Account, OnTheWay, Pumps
  <2>3. added' \in [Sess -> 0..MaxOut]
    <3>1. added \in [Sess -> 0..MaxOut]
      BY <1>0 DEF OutputType
    <3>2. QED
      BY <1>4, <2>2, <3>1 DEF AddChunk
  <2>4. QED
    BY <1>0, <1>4, <2>3 DEF AddChunk, OutputType
<1>5. QED
  BY <1>1, <1>2, <1>3, <1>4, OutputTouched

(* One invariant for the types and the account: each bounds the other.     *)
LEMMA TypesStep ==
    ASSUME TypeOK, \A r \in Sess : Account(r), Next
    PROVE  TypeOK'
BY ManagerTypes, LinkTypes, OutputTypes, EndTypes, ActorSpots DEF TypeOK

-----------------------------------------------------------------------------
(* The gate and the life of a session around its end.                      *)

(* Nobody takes back a request to end a session.                           *)
LEMMA AskedGrows ==
    ASSUME Next
    PROVE  asked \subseteq asked'
<1>1. CASE UNCHANGED ending
  BY <1>1 DEF ending
<1>2. ASSUME NEW s \in Sess, EndStep(s)
      PROVE  asked' = asked
  BY <1>2 DEF EndStep, MarkLocal, CloseConn, StartFlush, EndFlush, DiscardOutput,
              Unmap, ReportFault, AnnounceClosed
<1>3. ASSUME NEW s \in Sess, Disconnect(s) \/ DisposeOne(s)
      PROVE  asked \subseteq asked'
  BY <1>3 DEF Disconnect, DisposeOne
<1>4. ASSUME NEW s \in Sess, NEW a \in Actors, RecordFault(s, a) \/ EnterOnce(s, a)
      PROVE  asked' = asked
  BY <1>4 DEF RecordFault, EnterOnce
<1>5. CASE DisposeAll
  BY <1>5 DEF DisposeAll
<1>6. QED
  BY <1>1, <1>2, <1>3, <1>4, <1>5, EndTouched

(* Connect and DisposeAll take the lock in some order: either the sweep    *)
(* sees the session or the connect sees the gate (Register, DisposeAll).   *)
LEMMA GateStep ==
    ASSUME ManagerType, Gate, \A r \in Sess : Closing(r), Next
    PROVE  Gate'
<1>0. asked \subseteq asked'
  BY AskedGrows
<1>1. CASE UNCHANGED manager
  BY <1>0, <1>1 DEF Gate, manager
<1>2. ASSUME NEW s \in Sess, \/ ConnectFails(s) \/ Dialed(s) \/ Connect(s)
                             \/ RegisterRejected(s) \/ StartPumps(s)
      PROVE  Gate'
  BY <1>0, <1>2 DEF Gate, ConnectFails, Dialed, Connect, RegisterRejected, StartPumps
<1>3. ASSUME NEW s \in Sess, Register(s)
      PROVE  Gate'
  BY <1>0, <1>3 DEF Gate, Register, GateOpen, ManagerType
<1>4. ASSUME NEW s \in Sess, Unmap(s)
      PROVE  Gate'
  BY <1>0, <1>4 DEF Gate, Unmap
<1>5. ASSUME NEW s \in Sess, DisposedOne(s)
      PROVE  Gate'
  BY <1>0, <1>5 DEF Gate, DisposedOne, Closing, Unmapped
<1>6. CASE DisposeAll
  BY <1>6 DEF Gate, DisposeAll
<1>7. CASE DisposeReturns
  BY <1>0, <1>7 DEF Gate, DisposeReturns
<1>8. QED
  BY <1>1, <1>2, <1>3, <1>4, <1>5, <1>6, <1>7, ManagerTouched

(* The end of a session that is not registered has not begun.              *)
LEMMA EndOfRegistered ==
    ASSUME NEW s \in Sess, Unborn(s), EndStep(s)
    PROVE  ~Fresh(s)
BY DEF Unborn, EndStep, MarkLocal, CloseConn, StartFlush, EndFlush, DiscardOutput,
       Unmap, ReportFault, AnnounceClosed, At

(* A goroutine that runs belongs to a registered session.                  *)
LEMMA ActorOfRegistered ==
    ASSUME NEW s \in Sess, NEW a \in Actors, Unstarted(s), ActorStep(s, a)
    PROVE  ~Fresh(s) /\ (a \in Pumps \cup {"wait"} => call[s] = "returned")
BY DEF Unstarted, Fresh, ActorStep, Actors, Read, AddChunk, ReadEOF, ReadFails,
       WaitReturns, WaitDrained, WriteReturns, Classify, RecordFault, EnterOnce, EndReturns

(* A step of an actor moves no other actor.                                *)
LEMMA ActorMoves ==
    ASSUME pc \in [Sess -> [Actors -> Spots]],
           NEW s \in Sess, NEW a \in Actors, ActorStep(s, a)
    PROVE  \A r \in Sess, b \in Actors : s # r \/ b # a => pc'[r][b] = pc[r][b]
<1> DEFINE Kept == \A r \in Sess, b \in Actors : s # r \/ b # a => pc'[r][b] = pc[r][b]
<1>1. ASSUME NEW at, Goto(s, a, at)
      PROVE  Kept
  BY <1>1 DEF Goto
<1>2. CASE Read(s, a) \/ AddChunk(s, a) \/ ReadEOF(s, a) \/ ReadFails(s, a)
  BY <1>1, <1>2 DEF Read, AddChunk, ReadEOF, ReadFails
<1>3. CASE a = "wait" /\ (WaitReturns(s) \/ WaitDrained(s))
  BY <1>1, <1>3 DEF WaitReturns, WaitDrained
<1>4. CASE a = "write" /\ WriteReturns(s)
  BY <1>1, <1>4 DEF WriteReturns
<1>5. CASE Classify(s, a) \/ RecordFault(s, a) \/ EndReturns(s, a)
  BY <1>1, <1>5 DEF Classify, RecordFault, EndReturns
<1>6. CASE EnterOnce(s, a)
  BY <1>6 DEF EnterOnce
<1>7. QED
  BY <1>2, <1>3, <1>4, <1>5, <1>6 DEF ActorStep

(* No goroutine moves one of another session.                              *)
LEMMA SpotsOfOthers ==
    ASSUME pc \in [Sess -> [Actors -> Spots]],
           NEW s \in Sess, NEW a \in Actors, ActorStep(s, a), NEW r \in Sess, r # s
    PROVE  pc'[r] = pc[r]
<1>1. ASSUME NEW at, Goto(s, a, at)
      PROVE  pc'[r] = pc[r]
  BY <1>1 DEF Goto
<1>2. CASE Read(s, a) \/ AddChunk(s, a) \/ ReadEOF(s, a) \/ ReadFails(s, a)
  BY <1>1, <1>2 DEF Read, AddChunk, ReadEOF, ReadFails
<1>3. CASE a = "wait" /\ (WaitReturns(s) \/ WaitDrained(s))
  BY <1>1, <1>3 DEF WaitReturns, WaitDrained
<1>4. CASE a = "write" /\ WriteReturns(s)
  BY <1>1, <1>4 DEF WriteReturns
<1>5. CASE Classify(s, a) \/ RecordFault(s, a) \/ EndReturns(s, a)
  BY <1>1, <1>5 DEF Classify, RecordFault, EndReturns
<1>6. CASE EnterOnce(s, a)
  BY <1>6 DEF EnterOnce
<1>7. QED
  BY <1>2, <1>3, <1>4, <1>5, <1>6 DEF ActorStep

(* A session is never fresh again.                                         *)
LEMMA FreshBefore ==
    ASSUME ManagerType, NEW r \in Sess, Next, Fresh(r)'
    PROVE  Fresh(r)
<1>1. CASE UNCHANGED manager
  BY <1>1 DEF Fresh, manager
<1>2. ASSUME NEW s \in Sess, \/ ConnectFails(s) \/ Dialed(s) \/ Connect(s)
                             \/ Register(s) \/ RegisterRejected(s)
      PROVE  Fresh(r)
  BY <1>2 DEF Fresh, ManagerType, ConnectFails, Dialed, Connect, Register, RegisterRejected
<1>3. ASSUME NEW s \in Sess, StartPumps(s) \/ Unmap(s) \/ DisposedOne(s)
      PROVE  Fresh(r)
  BY <1>3 DEF Fresh, ManagerType, StartPumps, Unmap, DisposedOne
<1>4. CASE DisposeAll \/ DisposeReturns
  BY <1>4 DEF Fresh, DisposeAll, DisposeReturns
<1>5. QED
  BY <1>1, <1>2, <1>3, <1>4, ManagerTouched

(* Nothing touches a session before Register.                              *)
LEMMA UnbornStep ==
    ASSUME TypeOK, Gate, \A s \in Sess : Unborn(s) /\ Unstarted(s), NEW r \in Sess, Next
    PROVE  Unborn(r)'
<1> SUFFICES ASSUME Fresh(r)'
             PROVE  Unborn(r)'
  BY DEF Unborn
<1>1. Fresh(r) /\ Unborn(r) /\ ManagerType /\ OutputType /\ EndType
  BY FreshBefore DEF TypeOK
<1>2. r \notin sessions'
  <2>1. ASSUME NEW s \in Sess, Register(s)
        PROVE  r \notin sessions'
    BY <1>1, <2>1 DEF Unborn, Register, Fresh, ManagerType
  <2>2. ASSUME NEW s \in Sess, \/ ConnectFails(s) \/ Dialed(s) \/ Connect(s) \/ Unmap(s)
                               \/ RegisterRejected(s) \/ StartPumps(s) \/ DisposedOne(s)
        PROVE  r \notin sessions'
    BY <1>1, <2>2 DEF Unborn, ConnectFails, Dialed, Connect, Unmap, RegisterRejected,
                      StartPumps, DisposedOne
  <2>3. CASE DisposeAll \/ DisposeReturns \/ UNCHANGED manager
    BY <1>1, <2>3 DEF Unborn, DisposeAll, DisposeReturns, manager
  <2>4. QED
    BY <2>1, <2>2, <2>3, ManagerTouched
<1> DEFINE EndKept == /\ r \notin asked' /\ r \notin fault' /\ r \notin localClose'
                      /\ once'[r] = once[r] /\ log'[r] = log[r]
<1>3. EndKept
  <2>1. CASE UNCHANGED ending
    BY <1>1, <2>1 DEF Unborn, ending
  <2>2. ASSUME NEW s \in Sess, EndStep(s)
        PROVE  EndKept
    <3>1. s # r
      BY <1>1, <2>2, EndOfRegistered
    <3>2. CASE MarkLocal(s) \/ CloseConn(s) \/ StartFlush(s) \/ EndFlush(s) \/ DiscardOutput(s)
      BY <1>1, <3>1, <3>2 DEF Unborn, EndType, MarkLocal, CloseConn, StartFlush, EndFlush,
                              DiscardOutput, At
    <3>3. CASE Unmap(s) \/ ReportFault(s) \/ AnnounceClosed(s)
      BY <1>1, <3>1, <3>3 DEF Unborn, EndType, Unmap, ReportFault, AnnounceClosed, At
    <3>4. QED
      BY <2>2, <3>2, <3>3 DEF EndStep
  <2>3. ASSUME NEW s \in Sess, Disconnect(s) \/ DisposeOne(s)
        PROVE  EndKept
    <3>1. s # r
      BY <1>1, <2>3 DEF Unborn, Gate, Disconnect, DisposeOne
    <3>2. QED
      BY <1>1, <2>3, <3>1 DEF Unborn, EndType, Disconnect, DisposeOne, At
  <2>4. ASSUME NEW s \in Sess, NEW a \in Actors, RecordFault(s, a) \/ EnterOnce(s, a)
        PROVE  EndKept
    <3>1. s # r
      BY <1>1, <2>4, ActorOfRegistered DEF ActorStep
    <3>2. QED
      BY <1>1, <2>4, <3>1 DEF Unborn, EndType, RecordFault, Recorded, EnterOnce
  <2>5. CASE DisposeAll
    BY <1>1, <2>5 DEF Unborn, DisposeAll
  <2>6. QED
    BY <2>1, <2>2, <2>3, <2>4, <2>5, EndTouched
<1>4. batcher'[r] # "closed"
  <2>1. ASSUME NEW s \in Sess, StartFlush(s)
        PROVE  batcher'[r] # "closed"
    <3>1. s # r
      BY <1>1, <2>1, EndOfRegistered DEF EndStep
    <3>2. QED
      BY <1>1, <2>1, <3>1 DEF Unborn, OutputType, StartFlush
  <2>2. ASSUME NEW s \in Sess, RegisterRejected(s) \/ DiscardOutput(s)
        PROVE  batcher'[r] # "closed"
    BY <1>1, <2>2 DEF Unborn, OutputType, RegisterRejected, DiscardOutput, Dropped
  <2>3. ASSUME NEW s \in Sess, ShowChunk(s) \/ \E k \in Pumps : AddChunk(s, k)
        PROVE  batcher'[r] # "closed"
    BY <1>1, <2>3 DEF Unborn, ShowChunk, AddChunk
  <2>4. CASE UNCHANGED output
    BY <1>1, <2>4 DEF Unborn, output
  <2>5. QED
    BY <2>1, <2>2, <2>3, <2>4, OutputTouched
<1>5. QED
  BY <1>1, <1>2, <1>3, <1>4 DEF Unborn

(* No goroutine of a session runs before StartPumps.                       *)
LEMMA UnstartedStep ==
    ASSUME TypeOK, \A s \in Sess : Unborn(s) /\ Unstarted(s), NEW r \in Sess, Next
    PROVE  Unstarted(r)'
<1>1. ManagerType /\ pc \in [Sess -> [Actors -> Spots]]
  BY DEF TypeOK
<1> DEFINE NotYet == call'[r] # "returned" => call[r] # "returned"
<1>2. NotYet
  <2>1. CASE UNCHANGED manager
    BY <2>1 DEF manager
  <2>2. ASSUME NEW s \in Sess, \/ ConnectFails(s) \/ Dialed(s) \/ Connect(s)
                               \/ Register(s) \/ RegisterRejected(s) \/ StartPumps(s)
        PROVE  NotYet
    BY <1>1, <2>2 DEF ManagerType, ConnectFails, Dialed, Connect, Register,
                      RegisterRejected, StartPumps
  <2>3. ASSUME NEW s \in Sess, Unmap(s) \/ DisposedOne(s)
        PROVE  NotYet
    BY <2>3 DEF Unmap, DisposedOne
  <2>4. CASE DisposeAll \/ DisposeReturns
    BY <2>4 DEF DisposeAll, DisposeReturns
  <2>5. QED
    BY <2>1, <2>2, <2>3, <2>4, ManagerTouched
<1>3. CASE UNCHANGED pc
  BY <1>1, <1>2, <1>3, FreshBefore DEF Unstarted
<1>4. ASSUME NEW s \in Sess, StartPumps(s)
      PROVE  Unstarted(r)'
  BY <1>1, <1>4 DEF Unstarted, StartPumps, Fresh, ManagerType, Pumps, Actors
<1>5. ASSUME NEW s \in Sess, Write(s) \/ Disconnect(s)
      PROVE  Unstarted(r)'
  <2>1. ~Fresh(s) /\ call' = call
    BY <1>5 DEF Write, Disconnect, Unborn, manager
  <2>2. \A b \in Pumps \cup {"wait"} : pc'[r][b] = pc[r][b]
    BY <1>1, <1>5 DEF Write, Disconnect, Goto, Pumps, Actors
  <2>3. r # s => pc'[r] = pc[r]
    BY <1>1, <1>5 DEF Write, Disconnect, Goto
  <2>4. QED
    BY <2>1, <2>2, <2>3 DEF Unstarted, Fresh
<1>6. ASSUME NEW s \in Sess, NEW a \in Actors, ActorStep(s, a)
      PROVE  Unstarted(r)'
  <2>1. ~Fresh(s) /\ (a \in Pumps \cup {"wait"} => call[s] = "returned")
    BY <1>6, ActorOfRegistered
  <2>2. call' = call
    BY <1>6 DEF ActorStep, Read, AddChunk, ReadEOF, ReadFails, WaitReturns, WaitDrained,
                WriteReturns, Classify, RecordFault, EnterOnce, EndReturns, manager
  <2>3. \A b \in Actors : s # r \/ b # a => pc'[r][b] = pc[r][b]
    BY <1>1, <1>6, ActorMoves
  <2>4. QED
    BY <2>1, <2>2, <2>3 DEF Unstarted, Fresh, Actors, Pumps
<1>7. QED
  BY <1>3, <1>4, <1>5, <1>6, ActorsTouched

(* Nothing but a connect, the end itself, and its two beginnings changes   *)
(* what Closing speaks of.                                                 *)
LEMMA ClosingTouched ==
    ASSUME Next
    PROVE  \/ UNCHANGED <<call, sessions, conn, once>>
           \/ \E s \in Sess : \/ Connect(s) \/ ConnectStep(s) \/ EndStep(s) \/ DisposeOne(s)
                              \/ \E a \in Actors : EnterOnce(s, a)
<1> DEFINE Kept == UNCHANGED <<call, sessions, conn, once>>
<1>1. ASSUME NEW s \in Sess, Write(s) \/ Disconnect(s) \/ UnknownSession(s)
                             \/ ShowChunk(s) \/ DisposedOne(s)
      PROVE  Kept
  BY <1>1 DEF manager, link, ending, vars, Write, Disconnect, UnknownSession, ShowChunk,
              DisposedOne
<1>2. ASSUME NEW s \in Sess, NEW a \in Actors, ActorStep(s, a), ~EnterOnce(s, a)
      PROVE  Kept
  <2>1. CASE Read(s, a) \/ AddChunk(s, a) \/ ReadEOF(s, a) \/ ReadFails(s, a)
    BY <2>1 DEF manager, link, ending, Read, AddChunk, ReadEOF, ReadFails
  <2>2. CASE WaitReturns(s) \/ WaitDrained(s) \/ WriteReturns(s)
    BY <2>2 DEF manager, link, ending, WaitReturns, WaitDrained, WriteReturns
  <2>3. CASE Classify(s, a) \/ RecordFault(s, a) \/ EndReturns(s, a)
    BY <2>3 DEF manager, link, ending, Classify, RecordFault, EndReturns
  <2>4. QED
    BY <1>2, <2>1, <2>2, <2>3 DEF ActorStep
<1>3. ASSUME NEW s \in Sess, NEW k \in Pumps, RemoteWrites(s, k)
      PROVE  Kept
  BY <1>3 DEF manager, ending, RemoteWrites
<1>4. ASSUME NEW s \in Sess, NEW how \in {"exited", "lost"}, RemoteEnds(s, how)
      PROVE  Kept
  BY <1>4 DEF manager, ending, RemoteEnds
<1>5. ASSUME DisposeAll \/ DisposeReturns
      PROVE  Kept
  BY <1>5 DEF link, ending, DisposeAll, DisposeReturns
<1>6. QED
  BY <1>1, <1>2, <1>3, <1>4, <1>5 DEF Next, DisposeStep

(* The end of a session keeps what Closing says of the maps and the        *)
(* connection.                                                             *)
LEMMA ClosingStep ==
    ASSUME TypeOK, Gate, \A s \in Sess : Unborn(s) /\ Closing(s), NEW r \in Sess, Next
    PROVE  Closing(r)'
<1>0. ManagerType /\ LinkType /\ EndType
  BY DEF TypeOK
<1> USE DEF Closing, Fresh, Opening, Unmapped, ManagerType, LinkType, EndType
<1>1. CASE UNCHANGED <<call, sessions, conn, once>>
  BY <1>1
<1>2. ASSUME NEW s \in Sess, Connect(s) \/ ConnectStep(s)
      PROVE  Closing(r)'
  <2>1. CASE Connect(s) \/ StartPumps(s)
    BY <1>0, <2>1 DEF Connect, StartPumps, link, ending
  <2>2. CASE ConnectFails(s) \/ Dialed(s)
    BY <1>0, <2>2 DEF ConnectFails, Dialed, ending
  <2>3. CASE Register(s)
    BY <1>0, <2>3 DEF Register, link, ending, Unborn
  <2>4. CASE RegisterRejected(s)
    BY <1>0, <2>4 DEF RegisterRejected, Rejected, ending
  <2>5. QED
    BY <1>2, <2>1, <2>2, <2>3, <2>4 DEF ConnectStep
<1>3. ASSUME NEW s \in Sess, EndStep(s)
      PROVE  Closing(r)'
  <2>1. ~Fresh(s)
    BY <1>3, EndOfRegistered
  <2>2. CASE MarkLocal(s) \/ StartFlush(s) \/ EndFlush(s) \/ DiscardOutput(s)
    BY <1>0, <2>1, <2>2 DEF MarkLocal, StartFlush, EndFlush, DiscardOutput, At, manager, link
  <2>3. CASE CloseConn(s)
    BY <1>0, <2>1, <2>3 DEF CloseConn, At, manager
  <2>4. CASE Unmap(s)
    BY <1>0, <2>1, <2>4 DEF Unmap, At, link
  <2>5. CASE ReportFault(s) \/ AnnounceClosed(s)
    BY <1>0, <2>1, <2>5 DEF ReportFault, AnnounceClosed, At, manager, link
  <2>6. QED
    BY <1>3, <2>2, <2>3, <2>4, <2>5 DEF EndStep
<1>4. ASSUME NEW s \in Sess, DisposeOne(s)
      PROVE  Closing(r)'
  BY <1>0, <1>4 DEF DisposeOne, At, manager, link
<1>5. ASSUME NEW s \in Sess, NEW a \in Actors, EnterOnce(s, a)
      PROVE  Closing(r)'
  BY <1>0, <1>5 DEF EnterOnce, OnceFree, manager, link
<1>6. QED
  BY <1>1, <1>2, <1>3, <1>4, <1>5, ClosingTouched

(* Only these steps change what Flushing reads of session r.               *)
LEMMA FlushingTouched ==
    ASSUME Next
    PROVE  \/ UNCHANGED <<call, once, output>>
           \/ \E s \in Sess :
                \/ Connect(s) \/ ConnectStep(s) \/ EndStep(s) \/ DisposeOne(s) \/ ShowChunk(s)
                \/ \E a \in Actors : EnterOnce(s, a)
                \/ \E k \in Pumps : AddChunk(s, k)
<1> DEFINE Kept == UNCHANGED <<call, once, output>>
<1>1. ASSUME NEW s \in Sess, Write(s) \/ Disconnect(s) \/ UnknownSession(s) \/ DisposedOne(s)
      PROVE  Kept
  BY <1>1 DEF manager, output, ending, vars, Write, Disconnect, UnknownSession, DisposedOne
<1>2. ASSUME NEW s \in Sess, NEW a \in Actors, ActorStep(s, a), ~EnterOnce(s, a),
             ~(a \in Pumps /\ AddChunk(s, a))
      PROVE  Kept
  <2>1. CASE Read(s, a) \/ ReadEOF(s, a) \/ ReadFails(s, a)
    BY <2>1 DEF manager, output, ending, Read, ReadEOF, ReadFails
  <2>2. CASE WaitReturns(s) \/ WaitDrained(s) \/ WriteReturns(s)
    BY <2>2 DEF manager, output, ending, WaitReturns, WaitDrained, WriteReturns
  <2>3. CASE Classify(s, a) \/ RecordFault(s, a) \/ EndReturns(s, a)
    BY <2>3 DEF manager, output, ending, Classify, RecordFault, EndReturns
  <2>4. QED
    BY <1>2, <2>1, <2>2, <2>3 DEF ActorStep
<1>3. ASSUME NEW s \in Sess, NEW k \in Pumps, RemoteWrites(s, k)
      PROVE  Kept
  BY <1>3 DEF manager, output, ending, RemoteWrites
<1>4. ASSUME NEW s \in Sess, NEW how \in {"exited", "lost"}, RemoteEnds(s, how)
      PROVE  Kept
  BY <1>4 DEF manager, output, ending, RemoteEnds
<1>5. ASSUME DisposeAll \/ DisposeReturns
      PROVE  Kept
  BY <1>5 DEF output, ending, DisposeAll, DisposeReturns
<1>6. QED
  BY <1>1, <1>2, <1>3, <1>4, <1>5 DEF Next, DisposeStep

(* The end keeps what Flushing says: closed and shown, or dropped because  *)
(* somebody asked for a quiet end.                                         *)
LEMMA FlushingStep ==
    ASSUME TypeOK, Gate, \A s \in Sess : Unborn(s) /\ Flushing(s), NEW r \in Sess, Next
    PROVE  Flushing(r)'
<1>0. /\ ManagerType /\ OutputType /\ EndType
      /\ asked \subseteq asked'
  BY AskedGrows DEF TypeOK
<1> USE DEF Flushing, Fresh, Opening, Quiet, ManagerType, OutputType, EndType
<1>1. CASE UNCHANGED <<call, once, output>>
  BY <1>0, <1>1 DEF output
<1>2. ASSUME NEW s \in Sess, Connect(s) \/ ConnectStep(s)
      PROVE  Flushing(r)'
  <2>1. CASE Connect(s) \/ ConnectFails(s) \/ Dialed(s) \/ StartPumps(s)
    BY <1>0, <2>1 DEF Connect, ConnectFails, Dialed, StartPumps, output, ending
  <2>2. CASE Register(s)
    BY <1>0, <2>2 DEF Register, output, ending, Unborn
  <2>3. CASE RegisterRejected(s)
    BY <1>0, <2>3 DEF RegisterRejected, ending
  <2>4. QED
    BY <1>2, <2>1, <2>2, <2>3 DEF ConnectStep
<1>3. ASSUME NEW s \in Sess, EndStep(s)
      PROVE  Flushing(r)'
  <2>1. ~Fresh(s)
    BY <1>3, EndOfRegistered
  <2>2. CASE MarkLocal(s) \/ CloseConn(s) \/ Unmap(s)
    BY <1>0, <2>1, <2>2 DEF MarkLocal, CloseConn, Unmap, At, manager, output
  <2>3. CASE StartFlush(s) \/ EndFlush(s)
    BY <1>0, <2>1, <2>3 DEF StartFlush, EndFlush, Flushed, At, manager, output
  <2>4. CASE DiscardOutput(s)
    BY <1>0, <2>1, <2>4 DEF DiscardOutput, Dropped, At, manager
  <2>5. CASE ReportFault(s) \/ AnnounceClosed(s)
    BY <1>0, <2>1, <2>5 DEF ReportFault, AnnounceClosed, At, manager, output
  <2>6. QED
    BY <1>3, <2>2, <2>3, <2>4, <2>5 DEF EndStep
<1>4. ASSUME NEW s \in Sess, DisposeOne(s)
      PROVE  Flushing(r)'
  <2>1. s \in asked
    BY <1>4 DEF DisposeOne, Gate
  <2>2. QED
    BY <1>0, <1>4, <2>1 DEF DisposeOne, At, manager, output
<1>5. ASSUME NEW s \in Sess, NEW a \in Actors, EnterOnce(s, a)
      PROVE  Flushing(r)'
  BY <1>0, <1>5 DEF EnterOnce, OnceFree, manager, output
<1>6. ASSUME NEW s \in Sess, ShowChunk(s)
      PROVE  Flushing(r)'
  BY <1>0, <1>6 DEF ShowChunk, Behind, manager, ending
<1>7. ASSUME NEW s \in Sess, NEW k \in Pumps, AddChunk(s, k)
      PROVE  Flushing(r)'
  BY <1>0, <1>7 DEF AddChunk, manager, ending
<1>8. QED
  BY <1>1, <1>2, <1>3, <1>4, <1>5, <1>6, <1>7, FlushingTouched

(* The first event of an empty log.                                        *)
LEMMA AppendOne ==
    ASSUME NEW x
    PROVE  Append(<<>>, x) = <<x>>
OBVIOUS

(* The closed event after an error event.                                  *)
LEMMA AppendTwo ==
    ASSUME NEW x, NEW y
    PROVE  Append(<<x>>, y) = <<x, y>>
<1> DEFINE T == {x, y}
           q == Append(<<x>>, y)
<1>1. <<x>> \in Seq(T)
  OBVIOUS
<1>2. q \in Seq(T) /\ Len(q) = 2 /\ q[1] = x /\ q[2] = y
  BY <1>1
<1>3. ASSUME NEW p \in Seq(T), Len(p) = 2, p[1] = x, p[2] = y
      PROVE  p = <<x, y>>
  BY <1>3
<1> HIDE DEF q
<1>4. q = <<x, y>>
  BY <1>2, <1>3
<1>5. QED
  BY <1>4 DEF q

(* Only these steps change what Telling reads of session r.                *)
LEMMA TellingTouched ==
    ASSUME Next
    PROVE  \/ UNCHANGED <<once, localClose, log, batcher>>
           \/ \E s \in Sess :
                \/ RegisterRejected(s) \/ EndStep(s) \/ DisposeOne(s)
                \/ \E a \in Actors : EnterOnce(s, a)
<1> DEFINE Kept == UNCHANGED <<once, localClose, log, batcher>>
<1>1. ASSUME NEW s \in Sess, Write(s) \/ Disconnect(s) \/ UnknownSession(s) \/ DisposedOne(s)
                             \/ Connect(s) \/ ShowChunk(s)
      PROVE  Kept
  BY <1>1 DEF output, ending, vars, Write, Disconnect, UnknownSession, DisposedOne,
              Connect, ShowChunk
<1>2. ASSUME NEW s \in Sess, NEW a \in Actors, ActorStep(s, a), ~EnterOnce(s, a)
      PROVE  Kept
  <2>1. CASE Read(s, a) \/ AddChunk(s, a) \/ ReadEOF(s, a) \/ ReadFails(s, a)
    BY <2>1 DEF output, ending, Read, AddChunk, ReadEOF, ReadFails
  <2>2. CASE WaitReturns(s) \/ WaitDrained(s) \/ WriteReturns(s)
    BY <2>2 DEF output, ending, WaitReturns, WaitDrained, WriteReturns
  <2>3. CASE Classify(s, a) \/ RecordFault(s, a) \/ EndReturns(s, a)
    BY <2>3 DEF output, ending, Classify, RecordFault, EndReturns
  <2>4. QED
    BY <1>2, <2>1, <2>2, <2>3 DEF ActorStep
<1>3. ASSUME NEW s \in Sess, NEW k \in Pumps, RemoteWrites(s, k)
      PROVE  Kept
  BY <1>3 DEF output, ending, RemoteWrites
<1>4. ASSUME NEW s \in Sess, NEW how \in {"exited", "lost"}, RemoteEnds(s, how)
      PROVE  Kept
  BY <1>4 DEF output, ending, RemoteEnds
<1>5. ASSUME DisposeAll \/ DisposeReturns
      PROVE  Kept
  BY <1>5 DEF output, ending, DisposeAll, DisposeReturns
<1>6. ASSUME NEW s \in Sess, ConnectStep(s), ~RegisterRejected(s)
      PROVE  Kept
  BY <1>6 DEF output, ending, ConnectStep, ConnectFails, Dialed, Register, StartPumps
<1>7. QED
  BY <1>1, <1>2, <1>3, <1>4, <1>5, <1>6 DEF Next, DisposeStep

(* The events of a session follow the steps of its end: an error at most   *)
(* once, then closed once.                                                 *)
LEMMA TellingStep ==
    ASSUME TypeOK, \A s \in Sess : Unborn(s) /\ Flushing(s) /\ Telling(s),
           NEW r \in Sess, Next
    PROVE  Telling(r)'
<1>0. OutputType /\ EndType /\ log \in [Sess -> Seq({"error", "closed"})]
  BY DEF TypeOK, EndType
<1> USE DEF Telling, Opening, OutputType, EndType
<1>1. CASE UNCHANGED <<once, localClose, log, batcher>>
  BY <1>1
<1>2. ASSUME NEW s \in Sess, RegisterRejected(s)
      PROVE  Telling(r)'
  BY <1>0, <1>2 DEF RegisterRejected, ending, Unborn, Fresh
<1>3. ASSUME NEW s \in Sess, EndStep(s)
      PROVE  Telling(r)'
  <2>1. ~Fresh(s)
    BY <1>3, EndOfRegistered
  <2>2. CASE MarkLocal(s)
    BY <1>0, <2>2 DEF MarkLocal, At, output
  <2>3. CASE CloseConn(s) \/ Unmap(s) \/ EndFlush(s)
    BY <1>0, <2>1, <2>3 DEF CloseConn, Unmap, EndFlush, At, output
  <2>4. CASE StartFlush(s) \/ DiscardOutput(s)
    BY <1>0, <2>4 DEF StartFlush, DiscardOutput, At
  <2>5. CASE ReportFault(s)
    <3>1. once[s] = "report" /\ log[s] = <<>> /\ once' = [once EXCEPT ![s] = "announce"]
      BY <1>0, <2>5 DEF ReportFault, At
    <3>2. log'[s] \in {<<>>, <<"error">>} /\ (r # s => log'[r] = log[r])
      <4>1. log' = [log EXCEPT ![s] = IF s \in fault THEN Append(log[s], "error") ELSE log[s]]
        BY <2>5 DEF ReportFault
      <4>2. Append(log[s], "error") = <<"error">>
        BY <3>1, AppendOne
      <4>3. QED
        BY <1>0, <3>1, <4>1, <4>2
    <3>3. QED
      BY <1>0, <2>5, <3>1, <3>2 DEF ReportFault, output
  <2>6. CASE AnnounceClosed(s)
    <3>1. /\ once[s] = "announce" /\ batcher[s] = "closed"
          /\ once' = [once EXCEPT ![s] = "done"]
      BY <1>0, <2>1, <2>6 DEF AnnounceClosed, At, Flushing
    <3>2. log' = [log EXCEPT ![s] = Append(log[s], "closed")]
      BY <2>6 DEF AnnounceClosed
    <3>3. Append(log[s], "closed") \in {<<"closed">>, <<"error", "closed">>}
      <4>1. log[s] = <<>> \/ log[s] = <<"error">>
        BY <3>1
      <4>2. Append(<<"error">>, "closed") = <<"error", "closed">>
        BY AppendTwo
      <4>3. QED
        BY <4>1, <4>2, AppendOne
    <3>4. log'[s] \in {<<"closed">>, <<"error", "closed">>} /\ (r # s => log'[r] = log[r])
      BY <1>0, <3>2, <3>3
    <3>5. QED
      BY <1>0, <2>6, <3>1, <3>4 DEF AnnounceClosed, output
  <2>7. QED
    BY <1>3, <2>2, <2>3, <2>4, <2>5, <2>6 DEF EndStep
<1>4. ASSUME NEW s \in Sess, DisposeOne(s)
      PROVE  Telling(r)'
  BY <1>0, <1>4 DEF DisposeOne, At, output
<1>5. ASSUME NEW s \in Sess, NEW a \in Actors, EnterOnce(s, a)
      PROVE  Telling(r)'
  BY <1>0, <1>5 DEF EnterOnce, OnceFree, output
<1>6. QED
  BY <1>1, <1>2, <1>3, <1>4, <1>5, TellingTouched

(* Only Read and AddChunk change what the pumps carry.                     *)
LEMMA CarriedKept ==
    ASSUME TypeOK, \A s \in Sess : Unstarted(s), NEW r \in Sess, NEW k \in Pumps, Next,
           \A s \in Sess, j \in Pumps : ~Read(s, j) /\ ~AddChunk(s, j)
    PROVE  Carried(r, k)' = Carried(r, k)
<1> DEFINE Kept == (pc'[r][k] = "add") = (pc[r][k] = "add")
<1>0. /\ pc \in [Sess -> [Actors -> Spots]]
      /\ k \in Actors /\ k \notin {"wait", "write", "disconnect"}
  BY DEF TypeOK, Pumps, Actors
<1>1. CASE UNCHANGED pc
  BY <1>1 DEF Carried
<1>2. ASSUME NEW s \in Sess, StartPumps(s)
      PROVE  Kept
  BY <1>0, <1>2 DEF StartPumps, Unstarted
<1>3. ASSUME NEW s \in Sess, Write(s) \/ Disconnect(s)
      PROVE  Kept
  BY <1>0, <1>3 DEF Write, Disconnect, Goto
<1>4. ASSUME NEW s \in Sess, NEW a \in Actors, ActorStep(s, a)
      PROVE  Kept
  <2>1. CASE r # s \/ k # a
    BY <1>0, <1>4, <2>1, ActorMoves
  <2>2. CASE r = s /\ k = a
    <3>1. CASE ReadEOF(s, a) \/ ReadFails(s, a)
      BY <1>0, <2>2, <3>1 DEF ReadEOF, ReadFails, Goto
    <3>2. CASE RecordFault(s, a) \/ EnterOnce(s, a)
      BY <1>0, <2>2, <3>2 DEF RecordFault, EnterOnce, Goto
    <3>3. CASE Classify(s, a) \/ EndReturns(s, a)
      BY <1>0, <2>2, <3>3 DEF Classify, EndReturns, Goto
    <3>4. QED
      BY <1>0, <1>4, <2>2, <3>1, <3>2, <3>3 DEF ActorStep
  <2>3. QED
    BY <2>1, <2>2
<1>5. QED
  BY <1>1, <1>2, <1>3, <1>4, ActorsTouched DEF Carried

(* No step loses or makes a chunk while the batcher is open.               *)
LEMMA AccountStep ==
    ASSUME TypeOK, \A s \in Sess : Unborn(s) /\ Unstarted(s) /\ Account(s),
           NEW r \in Sess, Next
    PROVE  Account(r)'
<1>0. /\ LinkType /\ OutputType /\ pc \in [Sess -> [Actors -> Spots]]
      /\ Account(r) /\ "out" \in Pumps /\ "err" \in Pumps
  BY DEF TypeOK, Pumps
<1>1. ASSUME NEW s \in Sess, NEW k \in Pumps, Read(s, k)
      PROVE  Account(r)'
  <2>1. /\ wire[s][k] > 0 /\ pc[s][k] = "read"
        /\ wire' = [wire EXCEPT ![s][k] = wire[s][k] - 1]
        /\ pc' = [pc EXCEPT ![s][k] = "add"]
        /\ UNCHANGED <<sent, added, shown, batcher>>
    BY <1>1 DEF Read, Goto, output
  <2>2. OnTheWay(r)' = OnTheWay(r)
    <3> DEFINE One(j) == IF r = s /\ j = k THEN 1 ELSE 0
    <3>1. ASSUME NEW j \in Pumps
          PROVE  wire'[r][j] = wire[r][j] - One(j) /\ Carried(r, j)' = Carried(r, j) + One(j)
      BY <1>0, <2>1 DEF Carried, LinkType, Pumps, Actors
    <3>2. wire'[r]["out"] = wire[r]["out"] - One("out") /\ Carried(r, "out")' = Carried(r, "out") + One("out")
      BY <1>0, <3>1
    <3>3. wire'[r]["err"] = wire[r]["err"] - One("err") /\ Carried(r, "err")' = Carried(r, "err") + One("err")
      BY <1>0, <3>1
    <3>4. One("out") \in Int /\ One("err") \in Int
      OBVIOUS
    <3> HIDE DEF One
    <3>5. QED
      BY <3>2, <3>3, <3>4, Counters DEF OnTheWay
  <2>3. QED
    BY <1>0, <2>1, <2>2 DEF Account
<1>2. ASSUME NEW s \in Sess, NEW k \in Pumps, AddChunk(s, k)
      PROVE  Account(r)'
  <2>1. /\ pc[s][k] = "add" /\ pc' = [pc EXCEPT ![s][k] = "read"]
        /\ added' = [added EXCEPT ![s] = IF batcher[s] = "open" THEN @ + 1 ELSE @]
        /\ UNCHANGED <<sent, wire, shown, batcher>>
    BY <1>2 DEF AddChunk, Goto, link
  <2>2. OnTheWay(r)' = OnTheWay(r) - (IF r = s THEN 1 ELSE 0)
    <3>1. ASSUME NEW j \in Pumps
          PROVE  Carried(r, j)' = Carried(r, j) - (IF r = s /\ j = k THEN 1 ELSE 0)
      BY <1>0, <2>1 DEF Carried, Pumps, Actors
    <3>2. Carried(r, "out")' = Carried(r, "out") - (IF r = s /\ "out" = k THEN 1 ELSE 0)
      BY <1>0, <3>1
    <3>3. Carried(r, "err")' = Carried(r, "err") - (IF r = s /\ "err" = k THEN 1 ELSE 0)
      BY <1>0, <3>1
    <3>4. QED
      BY <2>1, <3>2, <3>3, Counters DEF OnTheWay, Pumps
  <2>3. OnTheWay(r) \in Int
    BY Counters DEF OnTheWay
  <2>4. QED
    BY <1>0, <2>1, <2>2, <2>3 DEF Account, LinkType, OutputType
<1>3. ASSUME \A s \in Sess, j \in Pumps : ~Read(s, j) /\ ~AddChunk(s, j)
      PROVE  Account(r)'
  <2>0. Carried(r, "out")' = Carried(r, "out") /\ Carried(r, "err")' = Carried(r, "err")
    BY <1>0, <1>3, CarriedKept
  <2>1. ASSUME NEW s \in Sess, NEW k \in Pumps, RemoteWrites(s, k)
        PROVE  Account(r)'
    <3>1. /\ sent' = [sent EXCEPT ![s] = sent[s] + 1]
          /\ wire' = [wire EXCEPT ![s][k] = wire[s][k] + 1]
          /\ UNCHANGED <<added, shown, batcher>>
      BY <2>1 DEF RemoteWrites, output
    <3>2. OnTheWay(r)' = OnTheWay(r) + (IF r = s THEN 1 ELSE 0)
      <4>1. \A j \in Pumps : /\ wire[r][j] \in Int
                            /\ wire'[r][j] = wire[r][j] + (IF r = s /\ j = k THEN 1 ELSE 0)
        BY <1>0, <3>1 DEF LinkType
      <4>2. QED
        BY <1>0, <2>0, <4>1, Counters DEF OnTheWay, Pumps
    <3>3. OnTheWay(r) \in Int
      BY Counters DEF OnTheWay
    <3>4. sent'[r] = sent[r] + (IF r = s THEN 1 ELSE 0) /\ sent[r] \in Int
      BY <1>0, <3>1 DEF LinkType
    <3>5. QED
      BY <1>0, <3>1, <3>2, <3>3, <3>4, Counters DEF Account
  <2>2. ASSUME UNCHANGED <<sent, wire>>
        PROVE  Account(r)'
    <3>1. OnTheWay(r)' = OnTheWay(r)
      BY <2>0, <2>2 DEF OnTheWay
    <3>2. CASE UNCHANGED output
      BY <1>0, <2>2, <3>1, <3>2 DEF Account, output
    <3>3. ASSUME NEW s \in Sess, RegisterRejected(s) \/ StartFlush(s) \/ DiscardOutput(s)
          PROVE  Account(r)'
      BY <1>0, <2>2, <3>1, <3>3 DEF Account, OutputType, RegisterRejected, StartFlush,
                                    DiscardOutput, Dropped
    <3>4. ASSUME NEW s \in Sess, ShowChunk(s)
          PROVE  Account(r)'
      BY <1>0, <2>2, <3>1, <3>4 DEF Account, OutputType, ShowChunk, Behind
    <3>5. QED
      BY <1>3, <3>2, <3>3, <3>4, OutputTouched
  <2>3. ASSUME NEW s \in Sess, \/ ConnectFails(s) \/ Dialed(s) \/ RegisterRejected(s)
                               \/ CloseConn(s)
        PROVE  UNCHANGED <<sent, wire>>
    BY <2>3 DEF ConnectFails, Dialed, RegisterRejected, CloseConn
  <2>4. ASSUME NEW s \in Sess, NEW how \in {"exited", "lost"}, RemoteEnds(s, how)
        PROVE  UNCHANGED <<sent, wire>>
    BY <2>4 DEF RemoteEnds
  <2>5. QED
    BY <1>3, <2>1, <2>2, <2>3, <2>4, LinkTouched DEF link
<1>4. QED
  BY <1>1, <1>2, <1>3

-----------------------------------------------------------------------------
(* The theorems.                                                           *)

(* The invariant holds initially.                                          *)
LEMMA InitIInv ==
    ASSUME Init
    PROVE  IInv
<1>1. TypeOK
  <2>1. LinkType
    BY DEF Init, LinkType, Pumps
  <2>2. pc \in [Sess -> [Actors -> Spots]]
    BY DEF Init, Spots
  <2>3. ManagerType
    BY DEF Init, ManagerType
  <2>4. OutputType
    BY DEF Init, OutputType
  <2>5. EndType
    BY DEF Init, EndType
  <2>6. QED
    BY <2>1, <2>2, <2>3, <2>4, <2>5 DEF TypeOK
<1>2. Gate
  BY DEF Init, Gate
<1>3. ASSUME NEW s \in Sess
      PROVE  Unborn(s) /\ Unstarted(s) /\ Closing(s) /\ Flushing(s) /\ Telling(s)
  BY DEF Init, Unborn, Unstarted, Closing, Flushing, Telling, Fresh, Opening, Unmapped,
         Pumps, Actors
<1>4. ASSUME NEW s \in Sess
      PROVE  Account(s)
  BY DEF Init, Account, OnTheWay, Carried, Pumps, Actors
<1>5. QED
  BY <1>1, <1>2, <1>3, <1>4 DEF IInv

(* Every step keeps the invariant.                                         *)
LEMMA NextIInv ==
    ASSUME IInv, [Next]_vars
    PROVE  IInv'
<1>1. CASE Next
  <2>1. TypeOK' /\ Gate'
    BY <1>1, TypesStep, GateStep DEF IInv, TypeOK
  <2>2. ASSUME NEW r \in Sess
        PROVE  Unborn(r)' /\ Unstarted(r)' /\ Closing(r)' /\ Flushing(r)'
    BY <1>1, UnbornStep, UnstartedStep, ClosingStep, FlushingStep DEF IInv
  <2>3. ASSUME NEW r \in Sess
        PROVE  Telling(r)' /\ Account(r)'
    BY <1>1, TellingStep, AccountStep DEF IInv
  <2>4. QED
    BY <2>1, <2>2, <2>3 DEF IInv
<1>2. CASE UNCHANGED vars
  <2>1. TypeOK' /\ Gate'
    BY <1>2 DEF IInv, vars, TypeOK, ManagerType, LinkType, OutputType, EndType, Gate
  <2>2. ASSUME NEW r \in Sess
        PROVE  /\ Unborn(r)' /\ Unstarted(r)' /\ Closing(r)' /\ Flushing(r)'
               /\ Telling(r)' /\ Account(r)'
    BY <1>2 DEF IInv, vars, Unborn, Unstarted, Closing, Flushing, Telling, Account, Fresh,
                OnTheWay, Carried
  <2>3. QED
    BY <2>1, <2>2 DEF IInv
<1>3. QED
  BY <1>1, <1>2

(* The invariant of the manager and its sessions: types, the account of    *)
(* the output, what each point of an end has done, the gate and the sweep. *)
THEOREM Invariant == Spec => []IInv
BY InitIInv, NextIInv, PTL DEF Spec

(* Every field keeps its type; no counter passes the output produced.      *)
THEOREM TypeCorrect == Spec => []TypeOK
<1>1. IInv => TypeOK
  BY DEF IInv
<1>2. QED
  BY <1>1, Invariant, PTL

(* After DisposeAll returned there is no session, and none is ever added,  *)
(* whatever number of connects was under way.                              *)
THEOREM ShutdownFinal == Spec => []ShutdownIsFinal
<1>1. IInv => ShutdownIsFinal
  BY DEF IInv, Gate, ShutdownIsFinal
<1>2. QED
  BY <1>1, Invariant, PTL

(* A session is announced closed at most once, its error comes before, and *)
(* everything it showed was shown by then.                                 *)
THEOREM ClosedLast == Spec => []ClosedIsLast
<1>1. ASSUME IInv, NEW s \in Sess
      PROVE  /\ log[s] \in {<<>>, <<"error">>, <<"closed">>, <<"error", "closed">>}
             /\ Emitted(s, "closed") => /\ shown[s] = added[s] /\ batcher[s] # "open"
                                        /\ s \notin sessions /\ conn[s] = "closed"
  <2>1. Unborn(s) /\ Closing(s) /\ Flushing(s) /\ Telling(s) /\ TypeOK
    BY <1>1 DEF IInv
  <2>2. log[s] \in {<<>>, <<"error">>, <<"closed">>, <<"error", "closed">>}
    BY <2>1 DEF Telling
  <2>3. ASSUME Emitted(s, "closed")
        PROVE  once[s] = "done" /\ batcher[s] # "discarded"
    BY <2>1, <2>3 DEF Telling, Emitted
  <2>4. ASSUME once[s] = "done", batcher[s] # "discarded"
        PROVE  /\ shown[s] = added[s] /\ batcher[s] # "open"
               /\ s \notin sessions /\ conn[s] = "closed"
    BY <2>1, <2>4 DEF Unborn, Closing, Flushing, Opening, Unmapped, TypeOK, OutputType
  <2>5. QED
    BY <2>2, <2>3, <2>4
<1>2. IInv => ClosedIsLast
  BY <1>1 DEF ClosedIsLast
<1>3. QED
  BY <1>2, Invariant, PTL

(* After DisposeAll returned, a connection is open only for a connect that *)
(* has yet to meet the gate.                                               *)
THEOREM ConnectionsClose == Spec => []ConnsClose
<1>1. ASSUME IInv, disposer = "returned", NEW s \in Sess, conn[s] = "open"
      PROVE  call[s] = "dialed"
  BY <1>1 DEF IInv, Gate, Closing, Opening, Unmapped, Fresh, TypeOK, ManagerType
<1>2. IInv => ConnsClose
  BY <1>1 DEF ConnsClose
<1>3. QED
  BY <1>2, Invariant, PTL

(* Once the end of a session has returned nothing of it is shown or told,  *)
(* whatever its pumps and callers still do.                                *)
THEOREM EndFinal == Spec => EndIsFinal
<1>1. ASSUME IInv, Next, NEW s \in Sess, once[s] = "done"
      PROVE  log'[s] = log[s] /\ shown'[s] = shown[s]
  <2>0. Unborn(s) /\ Flushing(s) /\ OutputType /\ EndType
    BY <1>1 DEF IInv, TypeOK
  <2>1. log'[s] = log[s]
    <3>1. ASSUME NEW r \in Sess, EndStep(r)
          PROVE  log'[s] = log[s]
      BY <1>1, <2>0, <3>1 DEF EndType, EndStep, MarkLocal, CloseConn, StartFlush, EndFlush,
           DiscardOutput, Unmap, ReportFault, AnnounceClosed, At
    <3>2. ASSUME NEW r \in Sess, Disconnect(r) \/ DisposeOne(r)
          PROVE  log'[s] = log[s]
      BY <3>2 DEF Disconnect, DisposeOne
    <3>3. ASSUME NEW r \in Sess, NEW a \in Actors, RecordFault(r, a) \/ EnterOnce(r, a)
          PROVE  log'[s] = log[s]
      BY <3>3 DEF RecordFault, EnterOnce
    <3>4. CASE DisposeAll \/ UNCHANGED ending
      BY <3>4 DEF DisposeAll, ending
    <3>5. QED
      BY <1>1, <3>1, <3>2, <3>3, <3>4, EndTouched
  <2>2. shown'[s] = shown[s]
    <3>1. ASSUME NEW r \in Sess, ShowChunk(r)
          PROVE  shown'[s] = shown[s]
      BY <1>1, <2>0, <3>1 DEF ShowChunk, Behind, Unborn, Flushing, OutputType, Opening
    <3>2. ASSUME NEW r \in Sess, \/ RegisterRejected(r) \/ StartFlush(r) \/ DiscardOutput(r)
                                 \/ \E k \in Pumps : AddChunk(r, k)
          PROVE  shown'[s] = shown[s]
      BY <3>2 DEF RegisterRejected, StartFlush, DiscardOutput, AddChunk
    <3>3. CASE UNCHANGED output
      BY <3>3 DEF output
    <3>4. QED
      BY <1>1, <3>1, <3>2, <3>3, OutputTouched
  <2>3. QED
    BY <2>1, <2>2
<1>2. ASSUME IInv, [Next]_vars
      PROVE  [\A s \in Sess : once[s] = "done" => log'[s] = log[s] /\ shown'[s] = shown[s]]_vars
  BY <1>1, <1>2
<1>3. QED
  BY <1>2, Invariant, PTL DEF Spec, EndIsFinal

-----------------------------------------------------------------------------
(* Why sessions end.                                                       *)

(* The steps of the goroutines of s, while s has not been asked to end.    *)
LEMMA CausesOfActors ==
    ASSUME IInv, NEW s \in Sess, Causes(s), s \notin asked, NEW a \in Actors, ActorStep(s, a)
    PROVE  Causes(s)'
<1>0. /\ pc \in [Sess -> [Actors -> Spots]]
      /\ Pumps \subseteq Actors /\ "wait" \in Actors /\ "write" \in Actors
      /\ "disconnect" \in Actors /\ Pumps \cap {"wait", "write", "disconnect"} = {}
  BY DEF IInv, TypeOK, Pumps, Actors
<1>1. ~Fresh(s)
  BY ActorOfRegistered DEF IInv
<1>2. once[s] = "open" => conn[s] = "open" /\ s \notin localClose /\ batcher[s] = "open"
  BY <1>1 DEF IInv, Closing, Telling, Flushing, Opening
<1>3. once[s] = "open" /\ remote[s] # "lost" => ~Broken(s)
  BY <1>2 DEF Broken
<1>4. CASE a \in Pumps /\ Read(s, a)
  BY <1>0, <1>4 DEF Read, Goto, Causes, Drained, output, ending, IInv, TypeOK, LinkType
<1>5. CASE a \in Pumps /\ AddChunk(s, a)
  <2>1. added[s] # sent[s]
    <3>1. Carried(s, a) = 1
      BY <1>5 DEF AddChunk, Carried
    <3>2. QED
      BY <1>5, <3>1, Counters DEF IInv, Account, OnTheWay, Pumps
  <2>2. QED
    BY <1>0, <1>5, <2>1 DEF AddChunk, Goto, Causes, Drained, link, ending
<1>6. CASE a \in Pumps /\ ReadEOF(s, a)
  BY <1>0, <1>2, <1>6 DEF ReadEOF, Goto, Causes, Drained, link, output, ending
<1>7. CASE a \in Pumps /\ ReadFails(s, a)
  BY <1>0, <1>3, <1>7 DEF ReadFails, Goto, Causes, Drained, link, output, ending
<1>8. CASE a = "wait" /\ WaitReturns(s)
  <2>1. /\ \A b \in Actors : b # "wait" => pc'[s][b] = pc[s][b]
        /\ UNCHANGED <<remote, once, wire, added, sent, log, fault, asked>>
    <3>1. UNCHANGED <<remote, once, wire, added, sent, log, fault, asked>>
      BY <1>8 DEF WaitReturns, link, output, ending
    <3>2. QED
      BY <1>0, <1>8, <3>1, ActorMoves DEF ActorStep
  <2>2. \/ remote[s] = "exited" /\ pc'[s]["wait"] = "drain"
        \/ Broken(s) /\ pc'[s]["wait"] = "drain lost"
    BY <1>0, <1>8 DEF WaitReturns, Goto
  <2>3. QED
    BY <1>0, <1>3, <2>1, <2>2 DEF Causes, Drained, Broken
<1>9. CASE a = "wait" /\ WaitDrained(s)
  <2>1. /\ \A b \in Actors : b # "wait" => pc'[s][b] = pc[s][b]
        /\ Drained(s)
        /\ UNCHANGED <<remote, once, wire, added, sent, log, fault, asked>>
    BY <1>0, <1>9 DEF WaitDrained, Goto, link, output, ending
  <2>2. \/ pc[s]["wait"] = "drain" /\ pc'[s]["wait"] = "clean"
        \/ pc[s]["wait"] = "drain lost" /\ pc'[s]["wait"] = "classify"
    BY <1>0, <1>9 DEF WaitDrained, Goto
  <2>3. QED
    BY <1>0, <2>1, <2>2 DEF Causes, Drained
<1>10. CASE a = "write" /\ WriteReturns(s)
  BY <1>0, <1>3, <1>10 DEF WriteReturns, Goto, Causes, Drained, link, output, ending
<1>11. CASE Classify(s, a)
  BY <1>0, <1>2, <1>11 DEF Classify, Goto, Causes, Drained, link, output, ending
<1>12. CASE RecordFault(s, a)
  BY <1>0, <1>12 DEF RecordFault, Recorded, Goto, Causes, Drained, link, output, Actors, Pumps
<1>13. CASE EnterOnce(s, a)
  <2>1. /\ pc[s][a] = "once" /\ once[s] = "open" /\ once'[s] = "mark"
        /\ UNCHANGED <<pc, remote, wire, added, sent, log, fault, asked>>
    BY <1>13 DEF EnterOnce, OnceFree, link, output, IInv, TypeOK, EndType
  <2>2. remote[s] # "up"
    BY <2>1 DEF Causes, Actors
  <2>3. remote[s] = "exited" => added[s] = sent[s]
    <3>1. ASSUME remote[s] = "exited"
          PROVE  \A k \in Pumps : pc[s][k] = "done" /\ wire[s][k] = 0
      BY <2>1, <3>1 DEF Causes, Drained, Actors
    <3>2. ASSUME remote[s] = "exited"
          PROVE  OnTheWay(s) = 0
      BY <3>1, <3>2 DEF OnTheWay, Carried, Pumps
    <3>3. QED
      BY <1>2, <2>1, <3>2, Counters DEF IInv, Account
  <2>4. remote[s] = "lost" => s \in fault
    BY <2>1 DEF Causes
  <2>5. remote[s] \in {"up", "exited", "lost"}
    BY DEF IInv, TypeOK, LinkType
  <2>6. QED
    BY <2>1, <2>2, <2>3, <2>4, <2>5 DEF Causes
<1>14. CASE EndReturns(s, a)
  BY <1>0, <1>14 DEF EndReturns, Goto, Causes, Drained, link, output, ending
<1>15. QED
  BY <1>4, <1>5, <1>6, <1>7, <1>8, <1>9, <1>10, <1>11, <1>12, <1>13, <1>14 DEF ActorStep

(* The steps of the end of s.                                              *)
LEMMA CausesOfEnd ==
    ASSUME IInv, NEW s \in Sess, Causes(s), s \notin asked, EndStep(s)
    PROVE  Causes(s)'
<1>0. /\ ~Fresh(s) /\ Telling(s) /\ Flushing(s) /\ EndType /\ once[s] # "open"
  BY EndOfRegistered DEF IInv, TypeOK, EndStep, MarkLocal, CloseConn, StartFlush, EndFlush,
       DiscardOutput, Unmap, ReportFault, AnnounceClosed, At
<1>1. /\ remote[s] # "up" /\ once[s] \notin Quiet
      /\ remote[s] = "exited" => added[s] = sent[s]
      /\ remote[s] = "lost" => s \in fault
      /\ remote[s] = "lost" /\ once[s] = "announce" => log[s] = <<"error">>
      /\ pc[s]["disconnect"] = "idle"
  BY <1>0 DEF Causes, Flushing
<1>2. /\ UNCHANGED <<pc, sent, added, fault, asked, remote>>
      /\ once'[s] # "open"
  <2>1. CASE MarkLocal(s) \/ CloseConn(s) \/ StartFlush(s) \/ EndFlush(s)
    BY <1>0, <2>1 DEF MarkLocal, CloseConn, StartFlush, EndFlush, At, link, output, EndType
  <2>2. CASE DiscardOutput(s) \/ Unmap(s) \/ ReportFault(s) \/ AnnounceClosed(s)
    BY <1>0, <2>2 DEF DiscardOutput, Unmap, ReportFault, AnnounceClosed, At, link, output, EndType
  <2>3. QED
    BY <2>1, <2>2 DEF EndStep
<1>3. remote[s] = "lost" /\ once'[s] = "announce" => log'[s] = <<"error">>
  <2>1. CASE ReportFault(s)
    <3>1. log[s] = <<>> /\ log' = [log EXCEPT ![s] = IF s \in fault THEN Append(log[s], "error")
                                                     ELSE log[s]]
      BY <1>0, <2>1 DEF ReportFault, Telling, At
    <3>2. Append(<<>>, "error") = <<"error">>
      BY AppendOne
    <3>3. QED
      BY <1>0, <1>1, <3>1, <3>2 DEF EndType
  <2>2. CASE ~ReportFault(s)
    BY <1>0, <2>2 DEF EndStep, MarkLocal, CloseConn, StartFlush, EndFlush, DiscardOutput,
         Unmap, AnnounceClosed, At, EndType
  <2>3. QED
    BY <2>1, <2>2
<1>4. remote[s] = "lost" /\ once'[s] = "done" => log'[s] = <<"error", "closed">>
  <2>1. CASE AnnounceClosed(s)
    <3>1. once[s] = "announce" /\ log' = [log EXCEPT ![s] = Append(log[s], "closed")]
      BY <2>1 DEF AnnounceClosed, At
    <3>2. Append(<<"error">>, "closed") = <<"error", "closed">>
      BY AppendTwo
    <3>3. QED
      BY <1>0, <1>1, <3>1, <3>2 DEF EndType
  <2>2. CASE ~AnnounceClosed(s)
    BY <1>0, <1>1, <2>2 DEF EndStep, MarkLocal, CloseConn, StartFlush, EndFlush, DiscardOutput,
         Unmap, ReportFault, At, EndType, Quiet
  <2>3. QED
    BY <2>1, <2>2
<1>5. QED
  BY <1>1, <1>2, <1>3, <1>4 DEF Causes

(* Every step of any session keeps the causes of r.                        *)
LEMMA CausesStep ==
    ASSUME IInv, \A s \in Sess : Causes(s), NEW r \in Sess, Next
    PROVE  Causes(r)'
<1> SUFFICES ASSUME r \notin asked'
             PROVE  Causes(r)'
  BY DEF Causes
<1>0. /\ r \notin asked /\ Causes(r) /\ EndType /\ LinkType /\ OutputType
      /\ pc \in [Sess -> [Actors -> Spots]]
  BY AskedGrows DEF IInv, TypeOK
<1> DEFINE Same == /\ pc'[r] = pc[r] /\ remote'[r] = remote[r] /\ once'[r] = once[r]
                   /\ wire'[r] = wire[r] /\ added'[r] = added[r] /\ sent'[r] = sent[r]
                   /\ log'[r] = log[r] /\ (r \in fault) = (r \in fault')
<1>1. ASSUME Same
      PROVE  Causes(r)'
  BY <1>0, <1>1 DEF Causes, Drained
<1>2. ASSUME NEW s \in Sess, NEW a \in Actors, ActorStep(s, a)
      PROVE  Causes(r)'
  <2>1. CASE s = r
    BY <1>0, <1>2, <2>1, CausesOfActors
  <2>2. CASE s # r
    <3>1. pc'[r] = pc[r]
      BY <1>0, <1>2, <2>2, SpotsOfOthers
    <3>2. CASE Read(s, a) \/ AddChunk(s, a) \/ ReadEOF(s, a) \/ ReadFails(s, a)
      <4>1. remote' = remote /\ once' = once /\ sent' = sent /\ log' = log /\ fault' = fault
        BY <3>2 DEF Read, AddChunk, ReadEOF, ReadFails, link, ending
      <4>2. wire'[r] = wire[r] /\ added'[r] = added[r]
        BY <1>0, <2>2, <3>2 DEF Read, AddChunk, ReadEOF, ReadFails, link, output, LinkType,
                                OutputType
      <4>3. QED
        BY <1>1, <3>1, <4>1, <4>2
    <3>3. CASE WaitReturns(s) \/ WaitDrained(s) \/ WriteReturns(s) \/ Classify(s, a)
               \/ EndReturns(s, a)
      BY <1>1, <3>1, <3>3 DEF WaitReturns, WaitDrained, WriteReturns, Classify, EndReturns,
                              link, output, ending
    <3>4. CASE RecordFault(s, a) \/ EnterOnce(s, a)
      BY <1>0, <1>1, <2>2, <3>1, <3>4 DEF RecordFault, Recorded, EnterOnce, link, output, EndType
    <3>5. QED
      BY <1>2, <3>2, <3>3, <3>4 DEF ActorStep
  <2>3. QED
    BY <2>1, <2>2
<1>3. ASSUME NEW s \in Sess, EndStep(s)
      PROVE  Causes(r)'
  <2>1. CASE s = r
    BY <1>0, <1>3, <2>1, CausesOfEnd
  <2>2. CASE s # r
    <3>1. CASE MarkLocal(s) \/ CloseConn(s) \/ StartFlush(s) \/ EndFlush(s)
      BY <1>0, <1>1, <2>2, <3>1 DEF MarkLocal, CloseConn, StartFlush, EndFlush, At, link,
                                    output, EndType
    <3>2. CASE DiscardOutput(s) \/ Unmap(s) \/ ReportFault(s) \/ AnnounceClosed(s)
      BY <1>0, <1>1, <2>2, <3>2 DEF DiscardOutput, Unmap, ReportFault, AnnounceClosed, At,
                                    link, output, EndType
    <3>3. QED
      BY <1>3, <3>1, <3>2 DEF EndStep
  <2>3. QED
    BY <2>1, <2>2
<1>4. ASSUME NEW s \in Sess, ConnectStep(s) \/ Connect(s)
      PROVE  Causes(r)'
  <2>1. CASE StartPumps(s)
    <3>1. UNCHANGED <<remote, once, wire, added, sent, log, fault>>
      BY <2>1 DEF StartPumps, link, output, ending
    <3>2. \A b \in Actors :
            \/ pc'[r][b] = pc[r][b]
            \/ pc[r][b] = "off" /\ b \in Pumps /\ pc'[r][b] = "read"
            \/ pc[r][b] = "off" /\ b = "wait" /\ pc'[r][b] = "wait"
      BY <1>0, <2>1 DEF StartPumps, IInv, Unstarted
    <3>3. QED
      BY <1>0, <3>1, <3>2 DEF Causes, Drained, Pumps, Actors
  <2>2. CASE Connect(s) \/ ConnectFails(s) \/ Dialed(s) \/ Register(s) \/ RegisterRejected(s)
    BY <1>1, <2>2 DEF Connect, ConnectFails, Dialed, Register, RegisterRejected, link, output,
                      ending
  <2>3. QED
    BY <1>4, <2>1, <2>2 DEF ConnectStep
<1>5. ASSUME NEW s \in Sess, Write(s)
      PROVE  Causes(r)'
  <2>1. UNCHANGED <<remote, once, wire, added, sent, log, fault>>
    BY <1>5 DEF Write, link, output, ending
  <2>2. \A b \in Actors : pc'[r][b] = pc[r][b] \/
             (pc[r][b] = "idle" /\ b = "write" /\ pc'[r][b] = "writing")
    BY <1>0, <1>5 DEF Write, Goto
  <2>3. QED
    BY <1>0, <2>1, <2>2 DEF Causes, Drained, Pumps, Actors
<1>6. ASSUME NEW s \in Sess, Disconnect(s)
      PROVE  Causes(r)'
  <2>1. s # r
    BY <1>6 DEF Disconnect
  <2>2. QED
    BY <1>0, <1>1, <1>6, <2>1 DEF Disconnect, Goto, link, output
<1>7. ASSUME NEW s \in Sess, UnknownSession(s) \/ ShowChunk(s) \/ DisposedOne(s)
      PROVE  Causes(r)'
  BY <1>1, <1>7 DEF UnknownSession, ShowChunk, DisposedOne, vars, link, output, ending
<1>8. ASSUME NEW s \in Sess, DisposeOne(s)
      PROVE  Causes(r)'
  <2>1. s # r
    BY <1>0, <1>8 DEF DisposeOne, IInv, Gate
  <2>2. QED
    BY <1>0, <1>1, <1>8, <2>1 DEF DisposeOne, At, link, output, EndType
<1>9. CASE DisposeAll \/ DisposeReturns
  BY <1>1, <1>9 DEF DisposeAll, DisposeReturns, link, output, ending
<1>10. ASSUME NEW s \in Sess, NEW k \in Pumps, RemoteWrites(s, k)
       PROVE  Causes(r)'
  <2>1. CASE s = r
    BY <1>0, <1>10, <2>1 DEF RemoteWrites, output, ending, Causes
  <2>2. CASE s # r
    BY <1>0, <1>1, <1>10, <2>2 DEF RemoteWrites, output, ending, LinkType
  <2>3. QED
    BY <2>1, <2>2
<1>11. ASSUME NEW s \in Sess, NEW how \in {"exited", "lost"}, RemoteEnds(s, how)
       PROVE  Causes(r)'
  <2>1. CASE s = r
    BY <1>0, <1>11, <2>1 DEF RemoteEnds, output, ending, Causes, LinkType, Pumps, Actors, Drained
  <2>2. CASE s # r
    BY <1>0, <1>1, <1>11, <2>2 DEF RemoteEnds, output, ending, LinkType
  <2>3. QED
    BY <2>1, <2>2
<1>12. QED
  BY <1>2, <1>3, <1>4, <1>5, <1>6, <1>7, <1>8, <1>9, <1>10, <1>11 DEF Next, DisposeStep

(* No session has ended initially.                                         *)
LEMMA InitCInv == Init => CInv
<1>1. Init => \A s \in Sess : Causes(s)
  BY DEF Init, Causes, Actors, Pumps, Drained
<1>2. QED
  BY <1>1, InitIInv DEF CInv

(* Every step keeps the invariant with the causes.                         *)
LEMMA NextCInv == CInv /\ [Next]_vars => CInv'
<1> SUFFICES ASSUME CInv, [Next]_vars
             PROVE  CInv'
  OBVIOUS
<1>1. IInv'
  BY NextIInv DEF CInv
<1>2. ASSUME NEW s \in Sess
      PROVE  Causes(s)'
  <2>1. CASE Next
    BY <1>2, <2>1, CausesStep DEF CInv
  <2>2. CASE UNCHANGED vars
    BY <1>2, <2>2 DEF CInv, Causes, Drained, vars
  <2>3. QED
    BY <2>1, <2>2
<1>3. QED
  BY <1>1, <1>2 DEF CInv

(* The invariant with the reason each session ends for.                    *)
THEOREM InvariantWithCauses == Spec => []CInv
<1>1. QED
  BY InitCInv, NextCInv, PTL DEF Spec

(* Telling: the end of s is announced only when it is done.                *)
LEMMA EmittedOnlyAtEnd ==
    ASSUME CInv, NEW s \in Sess, s \notin asked, Emitted(s, "closed")
    PROVE  once[s] = "done"
<1>1. Telling(s)
  BY DEF CInv, IInv
<1>2. CASE log[s] = <<>>
  BY <1>2 DEF Emitted
<1>3. CASE log[s] = <<"error">>
  BY <1>3 DEF Emitted
<1>4. QED
  BY <1>1, <1>2, <1>3 DEF Telling

(* For any number of sessions and any amount of output: a session that     *)
(* ended because its remote side exited, and that nobody ended locally,    *)
(* showed every chunk of it before it was announced closed (pumps.Wait in  *)
(* the wait goroutine of Connect, then Close in finish).                   *)
THEOREM CleanEnd == Spec => []CleanEndShowsAll
<1>1. CInv => CleanEndShowsAll
  <2> SUFFICES ASSUME CInv, NEW s \in Sess, s \notin asked,
                      Emitted(s, "closed"), remote[s] = "exited"
               PROVE  shown[s] = sent[s]
    BY DEF CleanEndShowsAll
  <2>1. once[s] = "done"
    BY EmittedOnlyAtEnd
  <2>2. added[s] = sent[s]
    BY <2>1 DEF CInv, Causes
  <2>3. Flushing(s) /\ Unborn(s) /\ OutputType
    BY DEF CInv, IInv, TypeOK
  <2>4. ~Fresh(s)
    BY <2>1, <2>3 DEF Unborn
  <2>5. batcher[s] = "closed"
    BY <2>1, <2>3, <2>4 DEF Flushing, OutputType, Opening
  <2>6. QED
    BY <2>1, <2>2, <2>3, <2>4, <2>5 DEF Flushing
<1>2. QED
  BY <1>1, InvariantWithCauses, PTL

(* A lost connection that nobody ended locally is announced with an error, *)
(* whoever wins endOnce: recordFault comes before endOnce.Do.              *)
THEOREM LossReported == Spec => []LossIsReported
<1>1. CInv => LossIsReported
  <2> SUFFICES ASSUME CInv, NEW s \in Sess, s \notin asked,
                      Emitted(s, "closed"), remote[s] = "lost"
               PROVE  Emitted(s, "error")
    BY DEF LossIsReported
  <2>1. log[s] = <<"error", "closed">>
    BY EmittedOnlyAtEnd DEF CInv, Causes
  <2>2. QED
    BY <2>1 DEF Emitted
<1>2. QED
  BY <1>1, InvariantWithCauses, PTL
=============================================================================
