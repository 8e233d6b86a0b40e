------------------------------- MODULE McpProofs -------------------------------
(***************************************************************************)
(* Proofs about the --mcp process.  Of McpRuntime: for any number of       *)
(* connects, sessions and tool operations, the slots are counted exactly,  *)
(* the table and the manager agree on the sessions there are, and the      *)
(* reaper spares every session with an operation in flight.  Of McpServer: *)
(* for any number of lines, every request is answered once, in order.      *)
(***************************************************************************)
EXTENDS MCMcp, FiniteSetTheorems, SequenceTheorems, TLAPS

-----------------------------------------------------------------------------
(* The session table.  A session goes from its connect over the table to   *)
(* its teardown and never back: what is recorded has connected, has not    *)
(* begun its teardown, and counts its operations; a slot is held while the *)
(* connect is under way; a session that closed before it was recorded left *)
(* a tombstone.                                                            *)

Slots == {i \in Ids : pc[i] \in {"connecting", "discarding"}}

Recorded ==
    \A i \in Ids :
      /\ i \in meta => pc[i] = "over" /\ life[i] # "none" /\ down[i] = "no" /\ busy[i] = ops[i]
      /\ i \notin meta => busy[i] = 0
      /\ pc[i] = "idle" => life[i] = "none"
      /\ pc[i] \in {"idle", "connecting"} => down[i] = "no" /\ ops[i] = 0
      /\ pc[i] = "discarding" \/ down[i] # "no" => life[i] # "none"

Endings ==
    \A i \in Ids :
      /\ down[i] \in {"hanging", "unmark", "done"} => life[i] \in {"ending", "unmapped", "gone"}
      /\ i \in localClosing => down[i] \in {"marked", "hanging", "unmark"}
      /\ pc[i] = "connecting" /\ life[i] = "gone" => i \in tombstones \/ mgrClosing

TableInv == TypeOK /\ SlotsExact /\ Recorded /\ Endings /\ TableIsLive /\ ReaperSpares

LEMMA Finite ==
    /\ IsFiniteSet(Ids)
    /\ \A T : T \subseteq Ids => IsFiniteSet(T) /\ Cardinality(T) \in Nat
<1>1. IsFiniteSet(Ids)
  BY LimitsAssumption, FS_Interval DEF Ids
<1>2. ASSUME NEW T, T \subseteq Ids PROVE IsFiniteSet(T) /\ Cardinality(T) \in Nat
  BY <1>1, <1>2, FS_Subset, FS_CardinalityType
<1>. QED BY <1>1, <1>2

(* A step that takes no slot and records nothing more.                     *)
LEMMA SlotsStay ==
    ASSUME TypeOK, SlotsExact, meta' \subseteq meta, UNCHANGED <<pc, pending>>
    PROVE  SlotsExact'
<1>1. /\ meta' \subseteq meta /\ meta \subseteq Ids /\ pending \in Nat
      /\ pending = Cardinality(Slots) /\ Cardinality(meta) + pending <= MaxSess
  BY LimitsAssumption DEF TypeOK, SlotsExact, Slots, Booked
<1>2. Cardinality(meta') <= Cardinality(meta) /\ Cardinality(meta') \in Nat /\ Cardinality(meta) \in Nat
  BY <1>1, Finite, FS_Subset
<1>. QED BY <1>1, <1>2, LimitsAssumption DEF SlotsExact, Slots, Booked

LEMMA ReserveKeeps ==
    ASSUME TableInv, NEW i \in Ids, Reserve(i)
    PROVE  TableInv'
<1>0. /\ pc[i] = "idle" /\ pc' = [pc EXCEPT ![i] = "connecting"] /\ pending' = pending + 1
      /\ Cardinality(meta) + pending < MaxSess /\ pending \in Nat
      /\ UNCHANGED <<closed, meta, busy, reaping, idle, tombstones, localClosing, down, ops, mgr, loop, final>>
  BY LimitsAssumption DEF Reserve, Booked, TableInv, TypeOK
<1>1. meta \subseteq Ids /\ Cardinality(meta) \in Nat /\ pc \in [Ids -> {"idle", "connecting", "discarding", "over"}]
  BY Finite DEF TableInv, TypeOK
<1>2. TypeOK'
  BY <1>0, <1>1, LimitsAssumption DEF TableInv, TypeOK, mgr, loop, final
<1>3. SlotsExact'
  <2>1. Slots' = Slots \cup {i} /\ i \notin Slots
    BY <1>0, <1>1 DEF Slots
  <2>2. Cardinality(Slots') = Cardinality(Slots) + 1
    BY <2>1, Finite, FS_AddElement DEF Slots
  <2>3. pending = Cardinality(Slots)
    BY DEF TableInv, SlotsExact, Slots
  <2>. QED BY <1>0, <1>1, <2>2, <2>3, LimitsAssumption DEF SlotsExact, Slots, Booked
<1>4. Recorded'
  BY <1>0, <1>1 DEF TableInv, Recorded, mgr
<1>5. Endings' /\ TableIsLive' /\ ReaperSpares'
  BY <1>0, <1>1 DEF TableInv, Recorded, Endings, TableIsLive, ReaperSpares, mgr
<1>. QED BY <1>2, <1>3, <1>4, <1>5 DEF TableInv

(* The slot of a connect that is over is given back.                       *)
LEMMA SlotReturns ==
    ASSUME TableInv, NEW i \in Ids, pc[i] \in {"connecting", "discarding"},
           pc' = [pc EXCEPT ![i] = "over"]
    PROVE  /\ pending \in Nat \ {0} /\ pending - 1 = Cardinality(Slots') /\ pending - 1 \in 0 .. MaxSess
           /\ Cardinality(meta) + pending <= MaxSess /\ Cardinality(meta) \in Nat
<1>1. meta \subseteq Ids /\ pc \in [Ids -> {"idle", "connecting", "discarding", "over"}]
  BY DEF TableInv, TypeOK
<1>2. Slots' = Slots \ {i} /\ i \in Slots
  BY <1>1 DEF Slots
<1>3. Cardinality(Slots') = Cardinality(Slots) - 1 /\ Cardinality(Slots') \in Nat /\ Cardinality(Slots) \in Nat
  <2>1. IsFiniteSet(Slots) /\ Cardinality(Slots) \in Nat
    BY Finite DEF Slots
  <2>2. IsFiniteSet(Slots') /\ Cardinality(Slots') = Cardinality(Slots) - 1
    BY <1>2, <2>1, FS_RemoveElement
  <2>. QED BY <2>1, <2>2, FS_CardinalityType
<1>4. /\ pending = Cardinality(Slots) /\ Cardinality(meta) + pending <= MaxSess
      /\ Cardinality(meta) \in Nat /\ MaxSess \in Nat
  BY <1>1, Finite, LimitsAssumption DEF TableInv, SlotsExact, Slots, Booked
<1>. QED BY <1>3, <1>4

LEMMA ConnectFailsKeeps ==
    ASSUME TableInv, NEW i \in Ids, ConnectFails(i)
    PROVE  TableInv'
<1>0. /\ pc[i] = "connecting" /\ pc' = [pc EXCEPT ![i] = "over"] /\ life[i] = "none"
      /\ pending' = IF pending > 0 THEN pending - 1 ELSE pending
      /\ UNCHANGED <<closed, meta, busy, reaping, idle, tombstones, localClosing, down, ops, mgr, loop, final>>
      /\ pc \in [Ids -> {"idle", "connecting", "discarding", "over"}]
  BY DEF ConnectFails, Release, TableInv, TypeOK
<1>1. /\ pending' = Cardinality(Slots') /\ pending' \in 0 .. MaxSess /\ pending' < pending /\ pending \in Nat
      /\ Cardinality(meta) + pending <= MaxSess /\ Cardinality(meta) \in Nat /\ MaxSess \in Nat
  <2>1. /\ pending \in Nat \ {0} /\ pending - 1 = Cardinality(Slots') /\ pending - 1 \in 0 .. MaxSess
        /\ Cardinality(meta) + pending <= MaxSess /\ Cardinality(meta) \in Nat
    BY <1>0, SlotReturns
  <2>2. pending' = pending - 1
    BY <1>0, <2>1
  <2>. QED BY <2>1, <2>2, LimitsAssumption
<1>2. TypeOK'
  BY <1>0, <1>1 DEF TableInv, TypeOK, mgr, loop, final
<1>3. SlotsExact'
  <2>1. Booked' <= MaxSess
    BY <1>0, <1>1 DEF Booked
  <2>. QED BY <1>1, <2>1 DEF SlotsExact, Slots
<1>4. Recorded' /\ Endings' /\ TableIsLive' /\ ReaperSpares'
  BY <1>0 DEF TableInv, Recorded, Endings, TableIsLive, ReaperSpares, mgr
<1>. QED BY <1>2, <1>3, <1>4 DEF TableInv

LEMMA DiscardedKeeps ==
    ASSUME TableInv, NEW i \in Ids, Discarded(i)
    PROVE  TableInv'
<1>0. /\ pc[i] = "discarding" /\ pc' = [pc EXCEPT ![i] = "over"] /\ down[i] = "done"
      /\ pending' = IF pending > 0 THEN pending - 1 ELSE pending
      /\ UNCHANGED <<closed, meta, busy, reaping, idle, tombstones, localClosing, down, ops, mgr, loop, final>>
      /\ pc \in [Ids -> {"idle", "connecting", "discarding", "over"}]
  BY DEF Discarded, Release, TableInv, TypeOK
<1>1. /\ pending' = Cardinality(Slots') /\ pending' \in 0 .. MaxSess /\ pending' < pending /\ pending \in Nat
      /\ Cardinality(meta) + pending <= MaxSess /\ Cardinality(meta) \in Nat /\ MaxSess \in Nat
  <2>1. /\ pending \in Nat \ {0} /\ pending - 1 = Cardinality(Slots') /\ pending - 1 \in 0 .. MaxSess
        /\ Cardinality(meta) + pending <= MaxSess /\ Cardinality(meta) \in Nat
    BY <1>0, SlotReturns
  <2>2. pending' = pending - 1
    BY <1>0, <2>1
  <2>. QED BY <2>1, <2>2, LimitsAssumption
<1>2. TypeOK'
  BY <1>0, <1>1 DEF TableInv, TypeOK, mgr, loop, final
<1>3. SlotsExact'
  <2>1. Booked' <= MaxSess
    BY <1>0, <1>1 DEF Booked
  <2>. QED BY <1>1, <2>1 DEF SlotsExact, Slots
<1>4. Recorded' /\ Endings' /\ TableIsLive' /\ ReaperSpares'
  BY <1>0 DEF TableInv, Recorded, Endings, TableIsLive, ReaperSpares, mgr
<1>. QED BY <1>2, <1>3, <1>4 DEF TableInv

LEMMA InsertKeeps ==
    ASSUME TableInv, NEW i \in Ids, Insert(i)
    PROVE  TableInv'
<1>0. /\ pc[i] = "connecting" /\ pc' = [pc EXCEPT ![i] = "over"] /\ life[i] # "none"
      /\ ~closed /\ i \notin tombstones /\ meta' = meta \cup {i}
      /\ pending' = pending - 1
      /\ UNCHANGED <<closed, busy, reaping, idle, tombstones, localClosing, down, ops, mgr, loop, final>>
      /\ pc \in [Ids -> {"idle", "connecting", "discarding", "over"}] /\ meta \subseteq Ids
  BY DEF Insert, TooLate, TableInv, TypeOK
<1>1. /\ pending' = Cardinality(Slots') /\ pending' \in 0 .. MaxSess /\ pending \in Nat
      /\ Cardinality(meta) + pending <= MaxSess /\ Cardinality(meta) \in Nat /\ MaxSess \in Nat
  BY <1>0, SlotReturns, LimitsAssumption
<1>2. TypeOK'
  BY <1>0, <1>1 DEF TableInv, TypeOK, mgr, loop, final
<1>3. SlotsExact'
  <2>1. i \notin meta
    BY <1>0 DEF TableInv, Recorded
  <2>2. Cardinality(meta') = Cardinality(meta) + 1
    BY <1>0, <2>1, Finite, FS_AddElement
  <2>. QED BY <1>0, <1>1, <2>2 DEF SlotsExact, Slots, Booked
<1>4. Recorded' /\ Endings' /\ TableIsLive' /\ ReaperSpares'
  BY <1>0 DEF TableInv, TypeOK, Recorded, Endings, TableIsLive, ReaperSpares, mgr
<1>. QED BY <1>2, <1>3, <1>4 DEF TableInv

LEMMA DiscardKeeps ==
    ASSUME TableInv, NEW i \in Ids, Discard(i)
    PROVE  TableInv'
<1>0. /\ pc[i] = "connecting" /\ pc' = [pc EXCEPT ![i] = "discarding"] /\ life[i] # "none"
      /\ tombstones' \subseteq tombstones /\ tombstones \ {i} \subseteq tombstones'
      /\ UNCHANGED <<closed, meta, busy, reaping, idle, pending, localClosing, down, ops, mgr, loop, final>>
      /\ pc \in [Ids -> {"idle", "connecting", "discarding", "over"}] /\ meta \subseteq Ids
  BY DEF Discard, TableInv, TypeOK
<1>1. TypeOK'
  BY <1>0 DEF TableInv, TypeOK, mgr, loop, final
<1>2. SlotsExact'
  <2>1. Slots' = Slots
    BY <1>0 DEF Slots
  <2>2. pending = Cardinality(Slots) /\ Booked <= MaxSess
    BY DEF TableInv, SlotsExact, Slots
  <2>3. Booked' = Booked
    BY <1>0 DEF Booked
  <2>. QED BY <1>0, <2>1, <2>2, <2>3 DEF SlotsExact, Slots
<1>3. Recorded' /\ Endings' /\ TableIsLive' /\ ReaperSpares'
  BY <1>0 DEF TableInv, Recorded, Endings, TableIsLive, ReaperSpares, mgr
<1>. QED BY <1>1, <1>2, <1>3 DEF TableInv

LEMMA MarkLateKeeps ==
    ASSUME TableInv, NEW i \in Ids, MarkLate(i)
    PROVE  TableInv'
<1>0. /\ pc[i] = "discarding" /\ down[i] = "no" /\ localClosing' = localClosing \cup {i}
      /\ down' = [down EXCEPT ![i] = "marked"]
      /\ UNCHANGED <<closed, meta, busy, reaping, idle, pending, tombstones, pc, ops, mgr, loop, final>>
      /\ down \in [Ids -> {"no", "marked", "hanging", "unmark", "done"}]
  BY DEF MarkLate, TableInv, TypeOK
<1>1. TypeOK'
  BY <1>0 DEF TableInv, TypeOK, mgr, loop, final
<1>2. SlotsExact'
  BY <1>0, SlotsStay DEF TableInv
<1>3. Recorded' /\ Endings' /\ TableIsLive' /\ ReaperSpares'
  BY <1>0 DEF TableInv, Recorded, Endings, TableIsLive, ReaperSpares, mgr
<1>. QED BY <1>1, <1>2, <1>3 DEF TableInv

(* A disconnect, whoever asks for it: a client, the reaper or DisposeAll.  *)
LEMMA StartDownKeeps ==
    ASSUME TableInv, NEW i \in Ids, StartDown(i),
           toReap' \subseteq Ids, reapAt' \in Ids \cup {0}, UNCHANGED reaper,
           toEnd' \subseteq Ids, endAt' \in Ids \cup {0}, UNCHANGED quit
    PROVE  TableInv'
<1>0. /\ i \in meta /\ meta' = meta \ {i} /\ idle' = idle \ {i} /\ reaping' = reaping \ {i}
      /\ busy' = [busy EXCEPT ![i] = 0] /\ localClosing' = localClosing \cup {i}
      /\ down' = [down EXCEPT ![i] = "marked"]
      /\ UNCHANGED <<closed, pending, tombstones, pc, ops, life, mgrClosing>>
      /\ down \in [Ids -> {"no", "marked", "hanging", "unmark", "done"}]
      /\ busy \in [Ids -> 0 .. MaxOps] /\ MaxOps \in Nat
  BY LimitsAssumption DEF StartDown, Drop, TableInv, TypeOK, mgr
<1>1. TypeOK'
  BY <1>0 DEF TableInv, TypeOK
<1>2. SlotsExact'
  BY <1>0, SlotsStay DEF TableInv
<1>3. Recorded' /\ Endings' /\ TableIsLive' /\ ReaperSpares'
  BY <1>0 DEF TableInv, Recorded, Endings, TableIsLive, ReaperSpares
<1>. QED BY <1>1, <1>2, <1>3 DEF TableInv

LEMMA DownStepKeeps ==
    ASSUME TableInv, NEW i \in Ids, DownStep(i)
    PROVE  TableInv'
<1>0. /\ down \in [Ids -> {"no", "marked", "hanging", "unmark", "done"}]
      /\ life \in [Ids -> {"none", "up", "ending", "unmapped", "gone"}]
  BY DEF TableInv, TypeOK
<1>1. CASE HangUp(i)
  <2>0. /\ down[i] = "marked" /\ UNCHANGED <<table, pc, ops, mgrClosing, loop, final>>
        /\ \/ /\ life[i] \in {"up", "ending"} /\ down' = [down EXCEPT ![i] = "hanging"]
              /\ life' = [life EXCEPT ![i] = "ending"]
           \/ life[i] \notin {"up", "ending"} /\ down' = [down EXCEPT ![i] = "unmark"] /\ life' = life
    BY <1>1 DEF HangUp
  <2>1. TypeOK'
    BY <1>0, <2>0 DEF TableInv, TypeOK, table, loop, final
  <2>2. SlotsExact'
    BY <2>0, SlotsStay DEF TableInv, table
  <2>3. Recorded' /\ Endings' /\ TableIsLive' /\ ReaperSpares'
    BY <1>0, <2>0 DEF TableInv, Recorded, Endings, TableIsLive, ReaperSpares, table
  <2>. QED BY <2>1, <2>2, <2>3 DEF TableInv
<1>2. CASE HungUp(i)
  <2>0. /\ down[i] = "hanging" /\ life[i] = "gone" /\ down' = [down EXCEPT ![i] = "unmark"]
        /\ UNCHANGED <<table, pc, ops, mgr, loop, final>>
    BY <1>2 DEF HungUp
  <2>1. TypeOK'
    BY <1>0, <2>0 DEF TableInv, TypeOK, table, mgr, loop, final
  <2>2. SlotsExact'
    BY <2>0, SlotsStay DEF TableInv, table
  <2>3. Recorded' /\ Endings' /\ TableIsLive' /\ ReaperSpares'
    BY <1>0, <2>0 DEF TableInv, Recorded, Endings, TableIsLive, ReaperSpares, table, mgr
  <2>. QED BY <2>1, <2>2, <2>3 DEF TableInv
<1>3. CASE Unmark(i)
  <2>0. /\ down[i] = "unmark" /\ localClosing' = localClosing \ {i} /\ down' = [down EXCEPT ![i] = "done"]
        /\ UNCHANGED <<closed, meta, busy, reaping, idle, pending, tombstones, pc, ops, mgr, loop, final>>
    BY <1>3 DEF Unmark
  <2>1. TypeOK'
    BY <1>0, <2>0 DEF TableInv, TypeOK, mgr, loop, final
  <2>2. SlotsExact'
    BY <2>0, SlotsStay DEF TableInv
  <2>3. Recorded' /\ Endings' /\ TableIsLive' /\ ReaperSpares'
    BY <1>0, <2>0 DEF TableInv, Recorded, Endings, TableIsLive, ReaperSpares, mgr
  <2>. QED BY <2>1, <2>2, <2>3 DEF TableInv
<1>. QED BY <1>1, <1>2, <1>3 DEF DownStep

LEMMA LifeKeeps ==
    ASSUME TableInv, NEW i \in Ids, Registers(i) \/ RemoteEnds(i) \/ Unmaps(i)
    PROVE  TableInv'
<1>0. /\ UNCHANGED <<table, pc, down, ops, mgrClosing, loop, final>>
      /\ \/ pc[i] = "connecting" /\ life[i] = "none" /\ life' = [life EXCEPT ![i] = "up"]
         \/ life[i] = "up" /\ life' = [life EXCEPT ![i] = "ending"]
         \/ life[i] = "ending" /\ life' = [life EXCEPT ![i] = "unmapped"]
      /\ life \in [Ids -> {"none", "up", "ending", "unmapped", "gone"}]
  BY DEF Registers, RemoteEnds, Unmaps, TableInv, TypeOK
<1>1. TypeOK'
  BY <1>0 DEF TableInv, TypeOK, table, loop, final
<1>2. SlotsExact'
  BY <1>0, SlotsStay DEF TableInv, table
<1>3. Recorded' /\ Endings' /\ TableIsLive' /\ ReaperSpares'
  BY <1>0 DEF TableInv, Recorded, Endings, TableIsLive, ReaperSpares, table
<1>. QED BY <1>1, <1>2, <1>3 DEF TableInv

LEMMA ClosedKeeps ==
    ASSUME TableInv, NEW i \in Ids, Closed(i)
    PROVE  TableInv'
<1>0. /\ life[i] = "unmapped" /\ life' = [life EXCEPT ![i] = "gone"]
      /\ localClosing' = localClosing \ {i} /\ meta' = meta \ {i} /\ idle' = idle \ {i}
      /\ reaping' = reaping \ {i} /\ busy' = [busy EXCEPT ![i] = 0]
      /\ tombstones' = IF i \in meta \cup localClosing THEN tombstones ELSE tombstones \cup {i}
      /\ UNCHANGED <<closed, pending, pc, down, ops, mgrClosing, loop, final>>
      /\ life \in [Ids -> {"none", "up", "ending", "unmapped", "gone"}]
      /\ busy \in [Ids -> 0 .. MaxOps] /\ MaxOps \in Nat
  BY LimitsAssumption DEF Closed, Drop, TableInv, TypeOK
<1>1. TypeOK'
  BY <1>0 DEF TableInv, TypeOK, loop, final
<1>2. SlotsExact'
  BY <1>0, SlotsStay DEF TableInv
<1>3. Recorded'
  BY <1>0 DEF TableInv, Recorded
<1>4. Endings' /\ TableIsLive' /\ ReaperSpares'
  BY <1>0 DEF TableInv, Recorded, Endings, TableIsLive, ReaperSpares
<1>. QED BY <1>1, <1>2, <1>3, <1>4 DEF TableInv

LEMMA ManagerDisposeAllKeeps ==
    ASSUME TableInv, ManagerDisposeAll
    PROVE  TableInv'
<1>0. /\ mgrClosing' = TRUE /\ life' = [i \in Ids |-> IF life[i] = "up" THEN "gone" ELSE life[i]]
      /\ UNCHANGED <<table, pc, down, ops, loop, final>>
      /\ life \in [Ids -> {"none", "up", "ending", "unmapped", "gone"}]
  BY DEF ManagerDisposeAll, TableInv, TypeOK
<1>1. TypeOK'
  BY <1>0 DEF TableInv, TypeOK, table, loop, final
<1>2. SlotsExact'
  BY <1>0, SlotsStay DEF TableInv, table
<1>3. Recorded' /\ Endings' /\ TableIsLive' /\ ReaperSpares'
  BY <1>0 DEF TableInv, Recorded, Endings, TableIsLive, ReaperSpares, table
<1>. QED BY <1>1, <1>2, <1>3 DEF TableInv

(* Tool operations: only a session the reaper has not chosen takes one.    *)
LEMMA OperationKeeps ==
    ASSUME TableInv, NEW i \in Ids, begin(i) \/ done(i) \/ GoesIdle(i)
    PROVE  TableInv'
<1>0. /\ busy \in [Ids -> 0 .. MaxOps] /\ ops \in [Ids -> 0 .. MaxOps] /\ MaxOps \in Nat
      /\ idle \subseteq meta /\ meta \subseteq Ids
  BY LimitsAssumption DEF TableInv, TypeOK
<1>1. /\ UNCHANGED <<closed, meta, reaping, pending, tombstones, localClosing, pc, down, mgr, loop, final>>
      /\ \/ /\ i \in meta \ reaping /\ ops[i] < MaxOps /\ busy' = [busy EXCEPT ![i] = busy[i] + 1]
            /\ ops' = [ops EXCEPT ![i] = ops[i] + 1] /\ idle' \subseteq idle
         \/ /\ ops[i] > 0 /\ ops' = [ops EXCEPT ![i] = ops[i] - 1] /\ idle' \subseteq idle
            /\ busy' = IF i \in meta THEN [busy EXCEPT ![i] = busy[i] - 1] ELSE busy
         \/ /\ i \in meta /\ idle' = idle \cup {i} /\ UNCHANGED <<ops, busy>>
  BY DEF begin, Open, done, EndOp, GoesIdle
<1>2. i \in meta => busy[i] = ops[i]
  BY DEF TableInv, Recorded
<1>3. TypeOK'
  <2>1. busy' \in [Ids -> 0 .. MaxOps] /\ ops' \in [Ids -> 0 .. MaxOps] /\ idle' \subseteq meta
    BY <1>0, <1>1, <1>2
  <2>. QED BY <1>1, <2>1 DEF TableInv, TypeOK, mgr, loop, final
<1>4. SlotsExact'
  BY <1>1, SlotsStay DEF TableInv
<1>5. Recorded'
  BY <1>0, <1>1, <1>2 DEF TableInv, Recorded, mgr
<1>6. Endings' /\ TableIsLive'
  BY <1>1 DEF TableInv, Endings, TableIsLive, mgr
<1>7. ReaperSpares'
  BY <1>0, <1>1, <1>2 DEF TableInv, TypeOK, ReaperSpares
<1>. QED BY <1>3, <1>4, <1>5, <1>6, <1>7 DEF TableInv

LEMMA ReapKeeps ==
    ASSUME TableInv, Reap
    PROVE  TableInv'
<1>0. /\ reaping' = reaping \cup Idlers /\ reaper' = "reaping" /\ toReap' = Idlers
      /\ UNCHANGED <<closed, meta, busy, idle, pending, tombstones, localClosing, pc, down, ops, mgr, reapAt, final>>
      /\ Idlers \subseteq meta /\ \A i \in Idlers : busy[i] = 0
      /\ meta \subseteq Ids
  BY DEF Reap, Idlers, TableInv, TypeOK
<1>1. TypeOK'
  BY <1>0 DEF TableInv, TypeOK, mgr, final
<1>2. SlotsExact'
  BY <1>0, SlotsStay DEF TableInv
<1>3. Recorded' /\ Endings' /\ TableIsLive'
  BY <1>0 DEF TableInv, Recorded, Endings, TableIsLive, mgr
<1>4. ReaperSpares'
  BY <1>0 DEF TableInv, Recorded, ReaperSpares
<1>. QED BY <1>1, <1>2, <1>3, <1>4 DEF TableInv

(* Whatever leaves the sessions alone.                                     *)
LEMMA LoopsKeep ==
    ASSUME TableInv, UNCHANGED <<meta, busy, reaping, idle, pending, tombstones, localClosing, pc, down, ops, mgr>>,
           closed' \in BOOLEAN, reaper' \in {"none", "waiting", "reaping", "stopped"},
           toReap' \subseteq Ids, reapAt' \in Ids \cup {0},
           quit' \in {"no", "joining", "ending", "returned"}, toEnd' \subseteq Ids, endAt' \in Ids \cup {0}
    PROVE  TableInv'
<1>1. TypeOK'
  BY DEF TableInv, TypeOK, mgr
<1>2. SlotsExact'
  BY SlotsStay DEF TableInv
<1>3. Recorded' /\ Endings' /\ TableIsLive' /\ ReaperSpares'
  BY DEF TableInv, Recorded, Endings, TableIsLive, ReaperSpares, mgr
<1>. QED BY <1>1, <1>2, <1>3 DEF TableInv

LEMMA ReaperKeeps ==
    ASSUME TableInv, StartReaper \/ ReaperStep
    PROVE  TableInv'
<1>0. /\ closed \in BOOLEAN /\ reaper \in {"none", "waiting", "reaping", "stopped"}
      /\ toReap \subseteq Ids /\ reapAt \in Ids \cup {0}
      /\ quit \in {"no", "joining", "ending", "returned"} /\ toEnd \subseteq Ids /\ endAt \in Ids \cup {0}
  BY DEF TableInv, TypeOK
<1>1. CASE Reap
  BY <1>1, ReapKeeps
<1>2. CASE StartReaper \/ Reaped \/ ReapEnds \/ ReaperStops
  BY <1>0, <1>2, LoopsKeep DEF StartReaper, Reaped, ReapEnds, ReaperStops, table, final
<1>3. ASSUME NEW i \in Ids, ReapNext(i) PROVE TableInv'
  <2>1. CASE i \in meta
    BY <1>0, <1>3, <2>1, StartDownKeeps DEF ReapNext, final
  <2>2. CASE i \notin meta
    BY <1>0, <1>3, <2>2, LoopsKeep DEF ReapNext, table, final
  <2>. QED BY <2>1, <2>2
<1>. QED BY <1>1, <1>2, <1>3 DEF ReaperStep

LEMMA QuitKeeps ==
    ASSUME TableInv, DisposeAll \/ QuitStep
    PROVE  TableInv'
<1>0. /\ closed \in BOOLEAN /\ reaper \in {"none", "waiting", "reaping", "stopped"}
      /\ toReap \subseteq Ids /\ reapAt \in Ids \cup {0} /\ meta \subseteq Ids
      /\ quit \in {"no", "joining", "ending", "returned"} /\ toEnd \subseteq Ids /\ endAt \in Ids \cup {0}
  BY DEF TableInv, TypeOK
<1>1. CASE DisposeAll \/ ReaperJoined \/ Ended \/ Returns
  BY <1>0, <1>1, LoopsKeep DEF DisposeAll, Gate, ReaperJoined, Ended, Returns, table, loop
<1>2. ASSUME NEW i \in Ids, EndNext(i) PROVE TableInv'
  <2>1. CASE i \in meta
    BY <1>0, <1>2, <2>1, StartDownKeeps DEF EndNext, loop
  <2>2. CASE i \notin meta
    BY <1>0, <1>2, <2>2, LoopsKeep DEF EndNext, table, loop
  <2>. QED BY <2>1, <2>2
<1>. QED BY <1>1, <1>2 DEF QuitStep

LEMMA TableInitial == Init => TableInv
<1> SUFFICES ASSUME Init PROVE TableInv
  OBVIOUS
<1>1. TypeOK
  <2>1. 0 \in 0 .. MaxOps /\ 0 \in 0 .. MaxSess
    BY LimitsAssumption
  <2>. QED BY <2>1 DEF Init, TypeOK
<1>2. SlotsExact
  <2>1. Slots = {}
    BY DEF Init, Slots
  <2>. QED BY <2>1, FS_EmptySet, LimitsAssumption DEF Init, SlotsExact, Slots, Booked
<1>3. Recorded /\ Endings /\ TableIsLive /\ ReaperSpares
  BY DEF Init, Recorded, Endings, TableIsLive, ReaperSpares
<1>. QED BY <1>1, <1>2, <1>3 DEF TableInv

LEMMA TableNext == TableInv /\ [Next]_vars => TableInv'
<1> SUFFICES ASSUME TableInv, [Next]_vars PROVE TableInv'
  OBVIOUS
<1>0. closed \in BOOLEAN /\ reaper \in {"none", "waiting", "reaping", "stopped"}
      /\ toReap \subseteq Ids /\ reapAt \in Ids \cup {0}
      /\ quit \in {"no", "joining", "ending", "returned"} /\ toEnd \subseteq Ids /\ endAt \in Ids \cup {0}
  BY DEF TableInv, TypeOK
<1>1. ASSUME NEW i \in Ids, Reserve(i) \/ ConnectFails(i) \/ ConnectStep(i) PROVE TableInv'
  BY <1>1, ReserveKeeps, ConnectFailsKeeps, InsertKeeps, DiscardKeeps, MarkLateKeeps, DiscardedKeeps
     DEF ConnectStep
<1>2. ASSUME NEW i \in Ids, DisconnectSession(i) PROVE TableInv'
  BY <1>0, <1>2, StartDownKeeps DEF DisconnectSession, loop, final
<1>3. ASSUME NEW i \in Ids, DownStep(i) \/ Registers(i) \/ RemoteEnds(i) \/ ManagerStep(i) PROVE TableInv'
  BY <1>3, DownStepKeeps, LifeKeeps, ClosedKeeps DEF ManagerStep
<1>4. ASSUME NEW i \in Ids, begin(i) \/ done(i) \/ GoesIdle(i) PROVE TableInv'
  BY <1>4, OperationKeeps
<1>5. CASE ManagerDisposeAll \/ StartReaper \/ ReaperStep \/ DisposeAll \/ QuitStep
  BY <1>5, ManagerDisposeAllKeeps, ReaperKeeps, QuitKeeps
<1>6. CASE UNCHANGED vars
  BY <1>0, <1>6, LoopsKeep DEF vars, table, loop, final, mgr
<1>. QED BY <1>1, <1>2, <1>3, <1>4, <1>5, <1>6 DEF Next

(* The inductive invariant of the session table.                           *)
THEOREM TableInvariant == Spec => []TableInv
<1>. QED BY TableInitial, TableNext, PTL DEF Spec

(* For any limit of sessions and any number of connects: the slots are     *)
(* counted exactly and never exceed the limit, and the table and the       *)
(* manager agree on which sessions there are.                              *)
THEOREM TableIsSound == Spec => []TableSound
<1>1. TableInv => TableSound
  BY DEF TableInv, TableSound
<1>. QED BY <1>1, TableInvariant, PTL

(* The reaper never disconnects a session while a tool works on it.        *)
THEOREM ReaperSparesWorkers == Spec => []ReaperSpares
<1>1. TableInv => ReaperSpares
  BY DEF TableInv
<1>. QED BY <1>1, TableInvariant, PTL

-----------------------------------------------------------------------------
(* The server.  The loop is at a line or waits for the one ahead, which    *)
(* the reader offers or has yet to read; the lines in between are          *)
(* cancellations the reader kept to itself, or a last line it was left     *)
(* with.  Once the input has ended under a call, at most its last line is  *)
(* still to come.                                                          *)

Ahead == IF reader.line # 0 THEN reader.line ELSE heard + 1

ReaderPlace ==
    /\ reader.line \in {0, heard}
    /\ reader.at # "offer" => reader.line = 0 /\ ~reader.eof /\ ~reader.bad
    /\ reader.at = "offer" /\ reader.line = 0 => reader.eof \/ reader.bad
    /\ reader.bad => reader.line = 0

MainPlace ==
    /\ main.line # 0 <=> main.at \in {"handle", "run", "write"}
    /\ main.line < Ahead
    /\ main.eof \/ (main.at = "over" /\ ~aborted) => reader.at = "done"

Let(i) == S!Expects(i) => S!Excused(i)

Skipped == main.line # 0 => \A i \in main.line + 1 .. Ahead - 1 : Let(i)

CutOff ==
    cut # 0 => /\ aborted /\ end # "open" /\ heard = Len(sent) /\ reader.at # "read"
               /\ reader.at = "offer" => reader.eof \/ reader.bad
               /\ reader.line # 0 => end = "partial"
               /\ main.line # 0 => main.line = cut \/ S!LastLine(main.line)

OneCall ==
    /\ inflight # 0 <=> main.at \in {"run", "write"}
    /\ inflight # 0 => inflight = main.line /\ S!Is(inflight, "call")
    /\ cancelled => inflight # 0 /\ S!Heard(inflight)

Behind ==
    /\ \A k \in 1 .. Len(answers) : /\ answers[k] \in 1 .. heard /\ answers[k] < S!Turn
                                    /\ S!Expects(answers[k])
    /\ \A k \in 1 .. Len(answers) - 1 : answers[k] < answers[k + 1]

Done(i) == S!Expects(i) => S!Contains(answers, i) \/ S!Excused(i)

AllDone == main.at # "error" => \A i \in 1 .. S!Turn - 1 : Done(i)

ServerInv ==
    /\ S!TypeOK /\ Len(sent) <= MaxLines
    /\ ReaderPlace /\ MainPlace /\ Skipped /\ CutOff /\ OneCall /\ Behind /\ AllDone

Placed(ats) == [at : ats, line : S!Lines \cup {0}, eof : BOOLEAN, bad : BOOLEAN]

LEMMA ServerTyped ==
    ASSUME ServerInv
    PROVE  /\ MaxLines \in Nat /\ sent \in Seq(S!Kinds) /\ Len(sent) \in Nat /\ Len(sent) <= MaxLines
           /\ heard \in Nat /\ heard <= Len(sent)
           /\ end \in {"open", "eof", "partial", "broken"}
           /\ reader \in Placed({"read", "offer", "done"})
           /\ main \in Placed({"wait", "handle", "run", "write", "over", "error"})
           /\ inflight \in S!Lines \cup {0} /\ cancelled \in BOOLEAN /\ aborted \in BOOLEAN
           /\ cut \in S!Lines \cup {0}
           /\ answers \in Seq(S!Lines) /\ Len(answers) \in Nat
           /\ main.line \in Nat /\ reader.line \in Nat /\ Ahead \in Nat \ {0} /\ S!Turn \in Nat \ {0}
           /\ Ahead <= heard + 1 /\ S!Turn <= heard + 1 /\ main.line <= heard
           /\ S!Lines = 1 .. MaxLines
<1>1. MaxLines \in Nat /\ S!Lines = 1 .. MaxLines
  BY LinesAssumption DEF S!Lines
<1>2. /\ sent \in Seq(S!Kinds) /\ Len(sent) \in Nat /\ Len(sent) <= MaxLines
      /\ heard \in Nat /\ heard <= Len(sent)
      /\ end \in {"open", "eof", "partial", "broken"}
      /\ reader \in Placed({"read", "offer", "done"})
      /\ main \in Placed({"wait", "handle", "run", "write", "over", "error"})
      /\ inflight \in S!Lines \cup {0} /\ cancelled \in BOOLEAN /\ aborted \in BOOLEAN
      /\ cut \in S!Lines \cup {0} /\ answers \in Seq(S!Lines) /\ Len(answers) \in Nat
  BY <1>1, LenProperties DEF ServerInv, S!TypeOK, Placed
<1>3. main.line \in Nat /\ reader.line \in Nat
  BY <1>1, <1>2 DEF Placed
<1>4. Ahead \in Nat \ {0} /\ Ahead <= heard + 1
  BY <1>2, <1>3 DEF ServerInv, ReaderPlace, Ahead
<1>5. main.line <= heard /\ S!Turn \in Nat \ {0} /\ S!Turn <= heard + 1
  BY <1>2, <1>3, <1>4 DEF ServerInv, MainPlace, S!Turn, Ahead
<1>. QED BY <1>1, <1>2, <1>3, <1>4, <1>5

LEMMA ServerTypedThen ==
    ASSUME sent' \in Seq(S!Kinds), heard' \in 0 .. Len(sent'), end' \in {"open", "eof", "partial", "broken"},
           reader' \in Placed({"read", "offer", "done"}),
           main' \in Placed({"wait", "handle", "run", "write", "over", "error"}),
           inflight' \in S!Lines \cup {0}, cancelled' \in BOOLEAN, aborted' \in BOOLEAN, cut' \in S!Lines \cup {0},
           answers' \in Seq(S!Lines)
    PROVE  S!TypeOK'
BY DEF S!TypeOK, Placed, S!Lines

(* What the lines that were heard are does not change, and what was heard  *)
(* stays heard.                                                            *)
LEMMA LinesStay ==
    ASSUME ServerInv, heard' \in Nat, heard <= heard', \A i \in 1 .. heard : sent'[i] = sent[i]
    PROVE  /\ \A i \in 1 .. heard : /\ S!Expects(i)' = S!Expects(i) /\ \A k : S!Is(i, k)' = S!Is(i, k)
           /\ \A i : S!Heard(i) => S!Heard(i)'
<1>1. heard \in Nat
  BY ServerTyped
<1>2. \A i \in 1 .. heard : /\ S!Expects(i)' = S!Expects(i) /\ \A k : S!Is(i, k)' = S!Is(i, k)
  BY DEF S!Expects, S!Is
<1>3. ASSUME NEW i, S!Heard(i) PROVE S!Heard(i)'
  BY <1>1, <1>3 DEF S!Heard, S!Is
<1>. QED BY <1>2, <1>3

(* A step that gives no answer.                                            *)
LEMMA BehindStays ==
    ASSUME ServerInv, heard' \in Nat, heard <= heard', \A i \in 1 .. heard : sent'[i] = sent[i],
           UNCHANGED answers, S!Turn' \in Nat, S!Turn <= S!Turn'
    PROVE  Behind'
<1>1. /\ S!Turn \in Nat /\ heard \in Nat /\ \A i \in 1 .. heard : S!Expects(i)' = S!Expects(i)
      /\ answers \in Seq(S!Lines)
  BY ServerTyped, LinesStay
<1>2. \A k \in 1 .. Len(answers) : /\ answers[k] \in 1 .. heard /\ answers[k] < S!Turn
                                   /\ S!Expects(answers[k])
  BY DEF ServerInv, Behind
<1>3. \A k \in 1 .. Len(answers) : /\ answers[k] \in 1 .. heard' /\ answers[k] < S!Turn'
                                   /\ S!Expects(answers[k])'
  BY <1>1, <1>2
<1>. QED BY <1>3 DEF ServerInv, Behind

(* The server goes on: the end of the input and an interrupt are for good, *)
(* and so is a reader that is done.                                        *)
Onward ==
    /\ heard' \in Nat /\ heard <= heard' /\ \A i \in 1 .. heard : sent'[i] = sent[i]
    /\ aborted => aborted' /\ cut' = cut
    /\ cut # 0 => UNCHANGED <<sent, end>>
    /\ reader.at = "done" => reader'.at = "done" /\ heard' = heard

LEMMA ExcusedStays ==
    ASSUME ServerInv, Onward, NEW i \in 1 .. heard, S!Excused(i)
    PROVE  S!Excused(i)'
<1>1. /\ \A k : S!Is(i, k)' = S!Is(i, k)
      /\ S!Heard(i) => S!Heard(i)'
  BY LinesStay DEF Onward
<1>2. CASE S!Is(i, "call") /\ S!Heard(i)
  BY <1>1, <1>2 DEF S!Excused
<1>3. CASE cut # 0 /\ (i = cut \/ S!LastLine(i))
  BY <1>3 DEF Onward, S!Excused, S!LastLine, ServerInv, CutOff
<1>4. CASE S!AfterInterrupt /\ (S!Is(i, "call") \/ (reader.at = "done" /\ i = heard))
  BY <1>1, <1>4 DEF Onward, S!Excused, S!AfterInterrupt
<1>. QED BY <1>2, <1>3, <1>4 DEF S!Excused

LEMMA LetStays ==
    ASSUME ServerInv, Onward, NEW i \in 1 .. heard, Let(i)
    PROVE  Let(i)'
<1>1. S!Expects(i)' = S!Expects(i)
  BY LinesStay DEF Onward
<1>. QED BY <1>1, ExcusedStays DEF Let

(* What is done stays done.                                                *)
LEMMA DoneStays ==
    ASSUME ServerInv, Onward, \A i : S!Contains(answers, i) => S!Contains(answers, i)',
           NEW i \in 1 .. heard, Done(i)
    PROVE  Done(i)'
<1>1. S!Expects(i)' = S!Expects(i)
  BY LinesStay DEF Onward
<1>. QED BY <1>1, ExcusedStays DEF Done

LEMMA SendKeeps ==
    ASSUME ServerInv, S!Send
    PROVE  ServerInv'
<1>0. /\ Len(sent) < MaxLines /\ end = "open" /\ cut = 0
      /\ UNCHANGED <<end, heard, reader, main, inflight, cancelled, aborted, cut, answers>>
  BY DEF S!Send, ServerInv, CutOff
<1>1. PICK k \in S!Kinds : sent' = Append(sent, k)
  BY DEF S!Send
<1>2. /\ sent' \in Seq(S!Kinds) /\ Len(sent') = Len(sent) + 1 /\ \A i \in 1 .. Len(sent) : sent'[i] = sent[i]
  BY <1>1, ServerTyped, AppendProperties
<1>3. /\ Ahead' = Ahead /\ S!Turn' = S!Turn /\ heard' = heard /\ heard \in Nat /\ heard <= Len(sent)
      /\ \A i \in 1 .. heard : sent'[i] = sent[i]
  BY <1>0, <1>2, ServerTyped DEF Ahead, S!Turn
<1>o. Onward
  BY <1>0, <1>3 DEF Onward
<1>4. S!TypeOK' /\ Len(sent') <= MaxLines
  BY <1>0, <1>2, ServerTyped DEF ServerInv, S!TypeOK
<1>5. ReaderPlace' /\ MainPlace' /\ CutOff'
  BY <1>0, <1>3 DEF ServerInv, ReaderPlace, MainPlace, CutOff
<1>6. /\ \A i \in 1 .. heard : \A kind : S!Is(i, kind)' = S!Is(i, kind)
      /\ \A i : S!Heard(i) => S!Heard(i)'
  BY <1>3, LinesStay
<1>7. Skipped'
  <2>1. \A i \in main.line + 1 .. Ahead - 1 : i \in 1 .. heard
    BY ServerTyped
  <2>. QED BY <1>0, <1>3, <1>o, <2>1, LetStays DEF ServerInv, Skipped
<1>8. OneCall'
  <2>1. inflight # 0 => inflight \in 1 .. heard
    BY ServerTyped DEF ServerInv, OneCall
  <2>. QED BY <1>0, <1>6, <2>1 DEF ServerInv, OneCall
<1>9. Behind'
  BY <1>0, <1>3, ServerTyped, BehindStays
<1>10. AllDone'
  <2>1. \A i \in 1 .. S!Turn - 1 : i \in 1 .. heard
    BY ServerTyped
  <2>2. \A i : S!Contains(answers, i) => S!Contains(answers, i)'
    BY <1>0 DEF S!Contains
  <2>. QED BY <1>0, <1>3, <1>o, <2>1, <2>2, DoneStays DEF ServerInv, AllDone
<1>. QED BY <1>4, <1>5, <1>7, <1>8, <1>9, <1>10 DEF ServerInv

(* The end of the input, and an interrupt.                                 *)
LEMMA OutsideKeeps ==
    ASSUME ServerInv, S!EndInput \/ S!Interrupted
    PROVE  ServerInv'
<1>0. /\ UNCHANGED <<sent, heard, reader, main, inflight, cancelled, cut, answers>> /\ cut = 0
      /\ (aborted => aborted') /\ aborted' \in BOOLEAN /\ end' \in {"open", "eof", "partial", "broken"}
  <2>1. CASE S!EndInput
    BY <2>1, ServerTyped DEF S!EndInput, ServerInv, CutOff
  <2>2. CASE S!Interrupted
    BY <2>2, ServerTyped DEF S!Interrupted, ServerInv, CutOff
  <2>. QED BY <2>1, <2>2
<1>1. S!TypeOK' /\ Len(sent') <= MaxLines
  <2>1. /\ sent' \in Seq(S!Kinds) /\ heard' \in 0 .. Len(sent') /\ Len(sent') <= MaxLines
        /\ reader' \in Placed({"read", "offer", "done"})
        /\ main' \in Placed({"wait", "handle", "run", "write", "over", "error"})
        /\ inflight' \in S!Lines \cup {0} /\ cancelled' \in BOOLEAN /\ cut' \in S!Lines \cup {0}
        /\ answers' \in Seq(S!Lines)
    BY <1>0, ServerTyped
  <2>. QED BY <1>0, <2>1, ServerTypedThen
<1>2. ReaderPlace' /\ MainPlace' /\ CutOff' /\ OneCall' /\ Behind'
  BY <1>0 DEF ServerInv, ReaderPlace, MainPlace, CutOff, OneCall, Behind, Ahead, S!Turn, S!Is, S!Heard,
              S!Expects
<1>3. /\ Onward /\ Ahead' = Ahead /\ S!Turn' = S!Turn /\ main' = main
      /\ \A i : S!Contains(answers, i) => S!Contains(answers, i)'
  BY <1>0, ServerTyped DEF Onward, Ahead, S!Turn, S!Contains
<1>4. \A i \in main.line + 1 .. Ahead - 1 : i \in 1 .. heard
  BY ServerTyped
<1>5. \A i \in 1 .. S!Turn - 1 : i \in 1 .. heard
  BY ServerTyped
<1>6. Skipped' /\ AllDone'
  <2>1. Skipped'
    BY <1>3, <1>4, LetStays DEF ServerInv, Skipped
  <2>2. AllDone'
    BY <1>3, <1>5, DoneStays DEF ServerInv, AllDone
  <2>. QED BY <2>1, <2>2
<1>. QED BY <1>1, <1>2, <1>6 DEF ServerInv

LEMMA ReadLineKeeps ==
    ASSUME ServerInv, S!ReadLine
    PROVE  ServerInv'
<1>0. /\ reader.at = "read" /\ heard < Len(sent) /\ heard' = heard + 1
      /\ UNCHANGED <<sent, end, main, inflight, aborted, cut, answers>> /\ cut = 0
      /\ reader.line = 0 /\ ~reader.eof /\ ~reader.bad /\ Ahead = heard + 1
      /\ heard \in Nat /\ heard' \in 0 .. Len(sent) /\ heard + 1 \in S!Lines
  BY ServerTyped DEF S!ReadLine, ServerInv, ReaderPlace, CutOff, Ahead
<1>n. PICK n \in Nat : n = heard + 1
  BY <1>0
<1>o. Onward
  BY <1>0 DEF Onward
<1>1. /\ \A i \in 1 .. heard : \A kind : S!Is(i, kind)' = S!Is(i, kind)
      /\ \A i : S!Heard(i) => S!Heard(i)'
      /\ \A i \in 1 .. heard : (Done(i) => Done(i)') /\ (Let(i) => Let(i)')
      /\ S!Is(n, "cancel") => S!Is(n, "cancel")' /\ ~S!Expects(n)'
      /\ S!Is(n, "cancel") => \A i : i = sent[n].of => S!Heard(i)'
  <2>1. \A i : S!Contains(answers, i) => S!Contains(answers, i)'
    BY <1>0 DEF S!Contains
  <2>2. /\ \A i \in 1 .. heard : \A kind : S!Is(i, kind)' = S!Is(i, kind)
        /\ \A i : S!Heard(i) => S!Heard(i)'
        /\ \A i \in 1 .. heard : (Done(i) => Done(i)') /\ (Let(i) => Let(i)')
    BY <1>0, <1>o, <2>1, LinesStay, DoneStays, LetStays
  <2>3. S!Is(n, "cancel") => S!Is(n, "cancel")' /\ ~S!Expects(n)'
    BY <1>0, <1>n DEF S!Is, S!Expects
  <2>4. S!Is(n, "cancel") => \A i : i = sent[n].of => S!Heard(i)'
    BY <1>0, <1>n, ServerTyped DEF S!Is, S!Heard
  <2>. QED BY <2>2, <2>3, <2>4
<1>2. CASE S!Is(n, "cancel")
  <2>1. /\ reader' = reader /\ Ahead' = heard + 2 /\ cancelled' \in BOOLEAN
        /\ cancelled' => cancelled \/ (inflight # 0 /\ inflight = sent[n].of)
        /\ S!Turn' = IF main.line # 0 THEN S!Turn ELSE S!Turn + 1
        /\ S!Turn = IF main.line # 0 THEN main.line ELSE n
    BY <1>0, <1>n, <1>2, ServerTyped DEF S!ReadLine, S!Busy, Ahead, S!Turn
  <2>2. S!TypeOK' /\ Len(sent') <= MaxLines
    BY <1>0, <1>n, <2>1, ServerTyped, ServerTypedThen
  <2>3. ReaderPlace' /\ MainPlace' /\ CutOff'
    BY <1>0, <1>n, <2>1, ServerTyped DEF ServerInv, ReaderPlace, MainPlace, CutOff
  <2>4. Skipped'
    <3>1. ASSUME main.line # 0, NEW i \in main.line + 1 .. n PROVE Let(i)'
      <4>1. CASE i = n
        BY <1>1, <1>2, <4>1 DEF Let
      <4>2. CASE i # n
        <5>1. i \in main.line + 1 .. Ahead - 1 /\ i \in 1 .. heard
          BY <1>0, <1>n, <3>1, <4>2, ServerTyped
        <5>. QED BY <1>1, <3>1, <5>1 DEF ServerInv, Skipped
      <4>. QED BY <4>1, <4>2
    <3>. QED BY <1>0, <1>n, <2>1, <3>1 DEF Skipped
  <2>5. OneCall'
    <3>1. inflight # 0 => inflight \in 1 .. heard
      BY ServerTyped DEF ServerInv, OneCall
    <3>. QED BY <1>0, <1>n, <1>1, <1>2, <2>1, <3>1 DEF ServerInv, OneCall
  <2>6. Behind'
    BY <1>0, <1>n, <2>1, ServerTyped, BehindStays
  <2>7. AllDone'
    <3>1. ASSUME main.at # "error", NEW i \in 1 .. S!Turn' - 1 PROVE Done(i)'
      <4>1. CASE i \in 1 .. S!Turn - 1
        BY <1>0, <1>n, <1>1, <3>1, <4>1, ServerTyped DEF ServerInv, AllDone
      <4>2. CASE i \notin 1 .. S!Turn - 1
        <5>1. i = n
          BY <1>0, <1>n, <2>1, <4>2, ServerTyped
        <5>. QED BY <1>1, <1>2, <5>1 DEF Done
      <4>. QED BY <4>1, <4>2
    <3>. QED BY <1>0, <1>n, <3>1 DEF AllDone
  <2>. QED BY <2>2, <2>3, <2>4, <2>5, <2>6, <2>7 DEF ServerInv
<1>3. CASE ~S!Is(n, "cancel")
  <2>1. /\ reader' \in Placed({"read", "offer", "done"}) /\ cancelled' = cancelled
        /\ reader'.at = "offer" /\ reader'.line = n /\ ~reader'.eof /\ ~reader'.bad
    BY <1>0, <1>n, <1>3 DEF S!ReadLine, S!Waiting, Placed
  <2>2. Ahead' = Ahead /\ S!Turn' = S!Turn
    BY <1>0, <1>n, <2>1 DEF Ahead, S!Turn
  <2>3. S!TypeOK' /\ Len(sent') <= MaxLines
    BY <1>0, <1>n, <2>1, ServerTyped, ServerTypedThen
  <2>4. ReaderPlace' /\ MainPlace' /\ CutOff'
    BY <1>0, <1>n, <2>1, <2>2, ServerTyped DEF ServerInv, ReaderPlace, MainPlace, CutOff
  <2>5. Skipped'
    <3>1. \A i \in main.line + 1 .. Ahead - 1 : i \in 1 .. heard
      BY <1>0, <1>n, ServerTyped
    <3>. QED BY <1>0, <1>n, <1>1, <2>2, <3>1 DEF ServerInv, Skipped
  <2>6. OneCall'
    <3>1. inflight # 0 => inflight \in 1 .. heard
      BY ServerTyped DEF ServerInv, OneCall
    <3>. QED BY <1>0, <1>n, <1>1, <2>1, <3>1 DEF ServerInv, OneCall
  <2>7. Behind'
    BY <1>0, <1>n, <2>2, ServerTyped, BehindStays
  <2>8. AllDone'
    <3>1. \A i \in 1 .. S!Turn - 1 : i \in 1 .. heard
      BY ServerTyped
    <3>. QED BY <1>0, <1>n, <1>1, <2>2, <3>1 DEF ServerInv, AllDone
  <2>. QED BY <2>3, <2>4, <2>5, <2>6, <2>7, <2>8 DEF ServerInv
<1>. QED BY <1>2, <1>3

(* What lies between the line of the loop and the one ahead of it.         *)
LEMMA SkippedStays ==
    ASSUME ServerInv, Onward, main'.line = main.line, Ahead' = Ahead
    PROVE  Skipped'
<1>1. \A i \in main.line + 1 .. Ahead - 1 : i \in 1 .. heard
  BY ServerTyped
<1>. QED BY <1>1, LetStays DEF ServerInv, Skipped

(* A step of the reader or of the loop that hears no cancellation, answers *)
(* nothing and does not move the turn back.                                *)
LEMMA QuietKeeps ==
    ASSUME ServerInv, Onward, heard' \in heard .. Len(sent),
           UNCHANGED <<sent, end, answers>>,
           reader' \in Placed({"read", "offer", "done"}),
           main' \in Placed({"wait", "handle", "run", "write", "over", "error"}),
           inflight' \in S!Lines \cup {0}, cancelled' \in BOOLEAN, aborted' \in BOOLEAN,
           cut' \in S!Lines \cup {0}, S!Turn' \in Nat, S!Turn <= S!Turn',
           main'.at # "error" =>
             main.at # "error" /\ \A i \in 1 .. S!Turn' - 1 : i < S!Turn \/ Done(i)',
           ReaderPlace', MainPlace', Skipped', CutOff', OneCall'
    PROVE  ServerInv'
<1>1. /\ heard \in Nat /\ heard' \in Nat /\ heard <= heard' /\ \A i \in 1 .. heard : sent'[i] = sent[i]
      /\ \A i : S!Contains(answers, i) => S!Contains(answers, i)'
      /\ S!Turn \in Nat /\ S!Turn' \in Nat
  <2>1. S!Turn \in Nat
    BY ServerTyped
  <2>2. heard \in Nat /\ heard' \in Nat /\ heard <= heard'
    BY ServerTyped
  <2>3. \A i \in 1 .. heard : sent'[i] = sent[i]
    OBVIOUS
  <2>4. \A i : S!Contains(answers, i) => S!Contains(answers, i)'
    BY DEF S!Contains
  <2>. QED BY <2>1, <2>2, <2>3, <2>4
<1>2. S!TypeOK' /\ Len(sent') <= MaxLines
  BY ServerTyped, ServerTypedThen
<1>3. Behind'
  BY <1>1, ServerTyped, BehindStays
<1>4. AllDone'
  <2>1. ASSUME main'.at # "error", NEW i \in 1 .. S!Turn' - 1, i < S!Turn PROVE Done(i)'
    <3>1. i \in 1 .. S!Turn - 1 /\ i \in 1 .. heard
      BY <1>1, <2>1, ServerTyped
    <3>2. Done(i)
      BY <2>1, <3>1 DEF ServerInv, AllDone
    <3>. QED BY <1>1, <3>1, <3>2, DoneStays
  <2>. QED BY <2>1 DEF AllDone
<1>. QED BY <1>2, <1>3, <1>4 DEF ServerInv

LEMMA ReadEndKeeps ==
    ASSUME ServerInv, S!ReadEnd
    PROVE  ServerInv'
<1>0. /\ reader.at = "read" /\ end \in {"eof", "partial", "broken"} /\ heard' = Len(sent)
      /\ Len(sent) - heard = IF end = "partial" THEN 1 ELSE 0
      /\ UNCHANGED <<sent, end, main, inflight, cancelled, answers>>
      /\ aborted' \in BOOLEAN /\ (aborted => aborted')
      /\ reader.line = 0 /\ heard \in Nat /\ Len(sent) \in Nat /\ Len(sent) <= MaxLines
      /\ S!Lines = 1 .. MaxLines /\ MaxLines \in Nat
  BY ServerTyped DEF S!ReadEnd, S!AtTheEnd, S!StopsAtEnd, S!Busy, ServerInv, ReaderPlace
<1>1. /\ reader'.at = "offer" /\ reader'.eof = (end # "broken") /\ reader'.bad = (end = "broken")
      /\ reader'.line = IF end = "partial" THEN Len(sent) ELSE 0
      /\ reader' \in Placed({"read", "offer", "done"})
  BY <1>0 DEF S!ReadEnd, Placed
<1>2. /\ heard' \in heard .. Len(sent) /\ cut = 0 /\ cut' \in S!Lines \cup {0}
      /\ cut' # 0 => aborted' /\ cut' = inflight
      /\ aborted => cut' = cut
  <2>1. cut' = (IF aborted THEN cut ELSE inflight) /\ aborted' = (aborted \/ inflight # 0)
    BY DEF S!ReadEnd, S!StopsAtEnd, S!Busy
  <2>2. heard' \in heard .. Len(sent) /\ cut = 0
    BY <1>0 DEF ServerInv, CutOff
  <2>3. inflight \in S!Lines \cup {0} /\ aborted \in BOOLEAN
    BY ServerTyped
  <2>. QED BY <2>1, <2>2, <2>3
<1>3. Ahead' = Ahead /\ S!Turn' = S!Turn
  BY <1>0, <1>1 DEF Ahead, S!Turn
<1>4. ReaderPlace' /\ MainPlace'
  BY <1>0, <1>1, <1>3, ServerTyped DEF ServerInv, ReaderPlace, MainPlace
<1>5. OneCall'
  <2>1. inflight # 0 => inflight \in 1 .. heard
    BY ServerTyped DEF ServerInv, OneCall
  <2>2. \A i : S!Heard(i) => S!Heard(i)'
    BY <1>0, <1>2, LinesStay
  <2>. QED BY <1>0, <2>1, <2>2 DEF ServerInv, OneCall, S!Is
<1>6. Onward
  <2>1. heard' \in Nat /\ heard <= heard'
    BY <1>0
  <2>. QED BY <1>0, <1>2, <2>1 DEF Onward
<1>7. CutOff'
  <2>1. cut' # 0 => main'.line = cut'
    BY <1>0, <1>2 DEF ServerInv, OneCall
  <2>. QED BY <1>0, <1>1, <1>2, <2>1 DEF CutOff
<1>8. Skipped'
  BY <1>0, <1>3, <1>6, SkippedStays
<1>9. /\ main'.at # "error" => main.at # "error"
      /\ \A i \in 1 .. S!Turn' - 1 : i < S!Turn
  BY <1>0, <1>3, ServerTyped
<1>10. /\ inflight' \in S!Lines \cup {0} /\ cancelled' \in BOOLEAN
       /\ S!Turn' \in Nat /\ S!Turn <= S!Turn'
       /\ main' \in Placed({"wait", "handle", "run", "write", "over", "error"})
  BY <1>0, <1>3, ServerTyped
<1>. QED BY <1>0, <1>1, <1>2, <1>4, <1>5, <1>6, <1>7, <1>8, <1>9, <1>10, QuietKeeps

LEMMA GivesUpKeeps ==
    ASSUME ServerInv, S!ReaderGivesUp
    PROVE  ServerInv'
<1>0. /\ reader.at = "offer" /\ (aborted \/ main.at \in {"over", "error"})
      /\ UNCHANGED <<sent, end, heard, main, inflight, cancelled, aborted, cut, answers>>
      /\ reader' \in Placed({"read", "offer", "done"})
      /\ reader'.at = "done" /\ reader'.line = 0 /\ ~reader'.eof /\ ~reader'.bad
  BY DEF S!ReaderGivesUp, S!Stopped, S!Waiting, Placed
<1>1. aborted \/ main.at = "error"
  BY <1>0 DEF ServerInv, MainPlace
<1>2. Ahead' = heard + 1 /\ S!Turn' \in Nat /\ S!Turn <= S!Turn' /\ Ahead <= Ahead'
  BY <1>0, ServerTyped DEF Ahead, S!Turn
<1>3. ReaderPlace' /\ MainPlace' /\ CutOff'
  BY <1>0, <1>2, ServerTyped DEF ServerInv, ReaderPlace, MainPlace, CutOff, S!LastLine
<1>4. OneCall'
  BY <1>0 DEF ServerInv, OneCall, S!Is, S!Heard
<1>5. main.at = "error" => main.line = 0
  BY DEF ServerInv, MainPlace
<1>6. Onward
  BY <1>0, ServerTyped DEF Onward
<1>7. ASSUME main.at # "error", NEW i, i = heard, i \in Nat, Ahead <= i PROVE S!Excused(i)'
  <2>1. aborted /\ reader.line = i
    BY <1>0, <1>1, <1>7 DEF ServerInv, ReaderPlace, Ahead
  <2>2. CASE cut = 0
    BY <1>0, <1>7, <2>1, <2>2 DEF S!Excused, S!AfterInterrupt
  <2>3. CASE cut # 0
    BY <1>0, <1>7, <2>1, <2>3, ServerTyped DEF ServerInv, CutOff, ReaderPlace, Ahead, S!Excused, S!LastLine
  <2>. QED BY <2>2, <2>3
<1>8. Skipped'
  <2>1. ASSUME main.line # 0, NEW i \in main.line + 1 .. heard PROVE Let(i)'
    <3>1. i \in 1 .. heard /\ i \in Nat /\ heard \in Nat /\ Ahead \in Nat
      BY <2>1, ServerTyped
    <3>2. CASE i < Ahead
      <4>1. i \in main.line + 1 .. Ahead - 1
        BY <2>1, <3>1, <3>2, ServerTyped
      <4>. QED BY <1>6, <2>1, <3>1, <4>1, LetStays DEF ServerInv, Skipped
    <3>3. CASE ~(i < Ahead)
      <4>1. i = heard /\ Ahead <= i
        BY <3>1, <3>3 DEF ServerInv, ReaderPlace, Ahead
      <4>. QED BY <1>5, <1>7, <2>1, <3>1, <4>1 DEF Let
    <3>. QED BY <3>2, <3>3
  <2>2. main.line + 1 .. Ahead' - 1 = main.line + 1 .. heard
    BY <1>2, ServerTyped
  <2>. QED BY <1>0, <2>1, <2>2 DEF Skipped
<1>9. ASSUME main.at # "error", NEW i \in 1 .. S!Turn' - 1 PROVE i < S!Turn \/ Done(i)'
  <2>1. CASE main.line # 0
    <3>1. S!Turn' = S!Turn /\ S!Turn \in Nat
      BY <1>0, <2>1, ServerTyped DEF S!Turn
    <3>. QED BY <1>9, <3>1
  <2>2. CASE main.line = 0
    <3>1. S!Turn' = heard + 1 /\ S!Turn = Ahead /\ heard \in Nat /\ Ahead \in Nat
      BY <1>0, <2>2, ServerTyped DEF S!Turn, Ahead
    <3>2. i \in Nat /\ i <= heard
      BY <1>9, <3>1
    <3>3. CASE ~(i < S!Turn)
      <4>1. i = heard /\ Ahead <= i
        BY <3>1, <3>2, <3>3 DEF ServerInv, ReaderPlace, Ahead
      <4>. QED BY <1>7, <1>9, <3>2, <4>1 DEF Done
    <3>. QED BY <3>3
  <2>. QED BY <2>1, <2>2
<1>10. /\ heard' \in heard .. Len(sent) /\ aborted' \in BOOLEAN /\ cut' \in S!Lines \cup {0}
       /\ inflight' \in S!Lines \cup {0} /\ cancelled' \in BOOLEAN
       /\ main' \in Placed({"wait", "handle", "run", "write", "over", "error"})
  BY <1>0, ServerTyped
<1>. QED BY <1>0, <1>2, <1>3, <1>4, <1>6, <1>8, <1>9, <1>10, QuietKeeps

LEMMA ReceiveKeeps ==
    ASSUME ServerInv, S!Receive
    PROVE  ServerInv'
<1>0. /\ main.at = "wait" /\ main.line = 0 /\ ~main.eof /\ reader.at = "offer"
      /\ UNCHANGED <<sent, end, heard, inflight, cancelled, aborted, cut, answers>>
      /\ inflight = 0 /\ reader.line \in {0, heard} /\ Ahead \in Nat /\ S!Turn = Ahead /\ heard \in Nat
  BY ServerTyped DEF S!Receive, ServerInv, MainPlace, OneCall, ReaderPlace, Ahead, S!Turn
<1>1. /\ reader' \in Placed({"read", "offer", "done"})
      /\ reader'.line = 0 /\ ~reader'.eof /\ ~reader'.bad
      /\ reader'.at = IF reader.eof \/ reader.bad THEN "done" ELSE "read"
  BY DEF S!Receive, S!Waiting, Placed
<1>2. Ahead' = heard + 1
  BY <1>0, <1>1 DEF Ahead
<1>3. ReaderPlace'
  BY <1>0, <1>1 DEF ReaderPlace
<1>4. /\ main' \in Placed({"wait", "handle", "run", "write", "over", "error"})
      /\ \/ main'.at = "error" /\ main'.line = 0 /\ ~main'.eof /\ reader.line = 0
         \/ main'.at = "handle" /\ main'.line = heard /\ main'.eof = reader.eof /\ reader.line # 0
         \/ main'.at = "over" /\ main'.line = 0 /\ ~main'.eof /\ reader.eof /\ reader.line = 0
  <2>1. reader \in Placed({"read", "offer", "done"})
    BY ServerTyped
  <2>2. CASE reader.bad
    BY <1>0, <2>2 DEF S!Receive, S!Take, S!Waiting, Placed, ServerInv, ReaderPlace
  <2>3. CASE ~reader.bad /\ reader.line # 0
    BY <1>0, <2>1, <2>3 DEF S!Receive, S!Take, Placed
  <2>4. CASE ~reader.bad /\ reader.line = 0
    BY <1>0, <2>4 DEF S!Receive, S!Take, S!Waiting, Placed, ServerInv, ReaderPlace
  <2>. QED BY <2>2, <2>3, <2>4
<1>5. S!Turn' = S!Turn
  BY <1>0, <1>1, <1>2, <1>4 DEF S!Turn, Ahead
<1>6. MainPlace'
  <2>1. heard \in Nat /\ (reader.eof \/ reader.bad => reader'.at = "done")
    BY <1>0, <1>1
  <2>2. main'.line # 0 <=> main'.at \in {"handle", "run", "write"}
    BY <1>0, <1>4, <2>1
  <2>3. main'.line < Ahead'
    BY <1>0, <1>2, <1>4, <2>1
  <2>4. main'.eof \/ (main'.at = "over" /\ ~aborted') => reader'.at = "done"
    BY <1>4, <2>1
  <2>. QED BY <2>2, <2>3, <2>4 DEF MainPlace
<1>7. OneCall'
  BY <1>0, <1>4 DEF ServerInv, OneCall
<1>8. /\ heard' \in heard .. Len(sent) /\ S!Turn' \in Nat /\ S!Turn <= S!Turn'
      /\ inflight' \in S!Lines \cup {0} /\ cancelled' \in BOOLEAN /\ aborted' \in BOOLEAN
      /\ cut' \in S!Lines \cup {0}
  BY <1>0, <1>2, <1>5, ServerTyped
<1>9. Onward
  BY <1>0 DEF Onward
<1>10. Skipped'
  <2>1. main'.line # 0 => main'.line + 1 .. Ahead' - 1 = {}
    BY <1>0, <1>2, <1>4
  <2>. QED BY <2>1 DEF Skipped
<1>11. CutOff'
  <2>1. ASSUME cut # 0
        PROVE  reader'.at # "read" /\ (main'.line # 0 => end = "partial" /\ main'.line = Len(sent))
    BY <1>0, <1>1, <1>4, <2>1 DEF ServerInv, CutOff, ReaderPlace
  <2>. QED BY <1>0, <1>1, <2>1 DEF ServerInv, CutOff, S!LastLine
<1>12. main.at # "error" /\ \A i \in 1 .. S!Turn' - 1 : i < S!Turn
  BY <1>0, <1>5
<1>. QED BY <1>0, <1>1, <1>3, <1>4, <1>6, <1>7, <1>8, <1>9, <1>10, <1>11, <1>12, QuietKeeps

LEMMA StopKeeps ==
    ASSUME ServerInv, S!Stop
    PROVE  ServerInv'
<1>0. /\ main.at = "wait" /\ main.line = 0 /\ aborted /\ inflight = 0
      /\ main' \in Placed({"wait", "handle", "run", "write", "over", "error"})
      /\ main'.at = "over" /\ main'.line = 0 /\ ~main'.eof
      /\ UNCHANGED <<sent, end, heard, reader, inflight, cancelled, aborted, cut, answers>>
  BY DEF S!Stop, S!Waiting, Placed, ServerInv, MainPlace, OneCall
<1>1. Ahead' = Ahead /\ S!Turn' = S!Turn
  BY <1>0 DEF Ahead, S!Turn
<1>2. ReaderPlace' /\ MainPlace' /\ CutOff' /\ OneCall'
  BY <1>0, <1>1, ServerTyped DEF ServerInv, ReaderPlace, MainPlace, CutOff, OneCall
<1>3. /\ Onward /\ main.at # "error" /\ \A i \in 1 .. S!Turn' - 1 : i < S!Turn
      /\ heard' \in heard .. Len(sent) /\ S!Turn' \in Nat /\ S!Turn <= S!Turn'
  BY <1>0, <1>1, ServerTyped DEF Onward
<1>4. Skipped'
  BY <1>0, <1>1, <1>3, SkippedStays
<1>. QED BY <1>0, <1>2, <1>3, <1>4, ServerTyped, QuietKeeps

(* The loop goes on with the line it is at.                                *)
LEMMA OnWithIt ==
    ASSUME ServerInv, S!Register \/ (S!CallReturns /\ ~S!Silenced)
    PROVE  ServerInv'
<1>0. /\ main.line # 0 /\ main.at \in {"handle", "run"} /\ main' = [main EXCEPT !.at = main'.at]
      /\ main'.at \in {"run", "write"} /\ inflight' = main.line /\ S!Is(main.line, "call")
      /\ cancelled' = FALSE
      /\ UNCHANGED <<sent, end, heard, reader, aborted, cut, answers>>
  <2>1. main \in Placed({"wait", "handle", "run", "write", "over", "error"}) /\ cancelled \in BOOLEAN
    BY ServerTyped
  <2>2. CASE S!Register
    BY <2>1, <2>2 DEF S!Register, Placed, ServerInv, MainPlace
  <2>3. CASE S!CallReturns /\ ~S!Silenced
    BY <2>1, <2>3 DEF S!CallReturns, S!Silenced, Placed, ServerInv, MainPlace, OneCall
  <2>. QED BY <2>2, <2>3
<1>1. /\ main' \in Placed({"wait", "handle", "run", "write", "over", "error"})
      /\ main'.line = main.line /\ main'.eof = main.eof /\ main.line \in S!Lines
  BY <1>0, ServerTyped DEF Placed
<1>2. Ahead' = Ahead /\ S!Turn' = S!Turn
  BY <1>0, <1>1 DEF Ahead, S!Turn
<1>3. ReaderPlace' /\ MainPlace' /\ CutOff'
  BY <1>0, <1>1, <1>2 DEF ServerInv, ReaderPlace, MainPlace, CutOff, S!LastLine
<1>4. OneCall'
  BY <1>0, <1>1 DEF OneCall, S!Is
<1>5. /\ heard' \in heard .. Len(sent) /\ S!Turn' \in Nat /\ S!Turn <= S!Turn'
      /\ main.at # "error" /\ \A i \in 1 .. S!Turn' - 1 : i < S!Turn
  <2>1. /\ heard \in Nat /\ Len(sent) \in Nat /\ heard <= Len(sent) /\ Ahead \in Nat /\ S!Turn \in Nat
    BY ServerTyped
  <2>. QED BY <1>0, <1>2, <2>1
<1>6. /\ inflight' \in S!Lines \cup {0} /\ cancelled' \in BOOLEAN /\ aborted' \in BOOLEAN
      /\ cut' \in S!Lines \cup {0} /\ reader' \in Placed({"read", "offer", "done"})
  <2>1. /\ aborted \in BOOLEAN /\ cut \in S!Lines \cup {0}
        /\ reader \in Placed({"read", "offer", "done"})
    BY ServerTyped
  <2>. QED BY <1>0, <1>1, <2>1
<1>7. Onward
  BY <1>0, ServerTyped DEF Onward
<1>8. Skipped'
  BY <1>1, <1>2, <1>7, SkippedStays
<1>. QED BY <1>0, <1>1, <1>3, <1>4, <1>5, <1>6, <1>7, <1>8, QuietKeeps

(* The loop is done with the line it is at, and goes back to wait, unless  *)
(* Serve returns.                                                          *)
LEMMA LineIsOver ==
    ASSUME ServerInv, main.line # 0,
           UNCHANGED <<sent, end, heard, reader, aborted, cut>>,
           inflight' = 0, cancelled' = FALSE,
           main' \in Placed({"wait", "over", "error"}), main'.line = 0, ~main'.eof,
           main'.at = "over" => main.eof,
           \/ UNCHANGED answers
           \/ answers' = Append(answers, main.line) /\ S!Expects(main.line),
           \A i : i = main.line /\ main'.at # "error" => Done(i)'
    PROVE  ServerInv'
<1>1. /\ main.line \in 1 .. heard /\ main.line < Ahead /\ Ahead \in Nat /\ Ahead <= heard + 1 /\ heard \in Nat
      /\ main.at # "error" /\ S!Turn = main.line /\ Ahead' = Ahead /\ S!Turn' = Ahead
      /\ \A i \in 1 .. heard : sent'[i] = sent[i]
      /\ Onward
  <2>1. main.line \in Nat /\ main.line <= heard /\ Ahead \in Nat /\ Ahead <= heard + 1 /\ heard \in Nat
    BY ServerTyped
  <2>2. main.line < Ahead /\ main.at # "error"
    BY DEF ServerInv, MainPlace
  <2>3. S!Turn = main.line /\ Ahead' = Ahead /\ S!Turn' = Ahead
    BY DEF S!Turn, Ahead
  <2>4. Onward
    BY <2>1 DEF Onward
  <2>. QED BY <2>1, <2>2, <2>3, <2>4
<1>2. /\ answers' \in Seq(S!Lines) /\ Len(answers) \in Nat
      /\ Len(answers') \in {Len(answers), Len(answers) + 1}
      /\ \A k \in 1 .. Len(answers) : answers'[k] = answers[k]
      /\ Len(answers') = Len(answers) + 1 =>
           answers'[Len(answers) + 1] = main.line /\ S!Expects(main.line)
  <2>1. /\ answers \in Seq(S!Lines) /\ Len(answers) \in Nat /\ main.line \in S!Lines
    BY <1>1, ServerTyped
  <2>2. CASE UNCHANGED answers
    BY <2>1, <2>2
  <2>3. CASE answers' = Append(answers, main.line) /\ S!Expects(main.line)
    BY <2>1, <2>3, AppendProperties
  <2>. QED BY <2>2, <2>3
<1>3. S!TypeOK' /\ Len(sent') <= MaxLines
  <2>1. main' \in Placed({"wait", "handle", "run", "write", "over", "error"})
    BY DEF Placed
  <2>2. /\ sent' \in Seq(S!Kinds) /\ heard' \in 0 .. Len(sent') /\ Len(sent') <= MaxLines
        /\ end' \in {"open", "eof", "partial", "broken"} /\ reader' \in Placed({"read", "offer", "done"})
        /\ inflight' \in S!Lines \cup {0} /\ cancelled' \in BOOLEAN /\ aborted' \in BOOLEAN
        /\ cut' \in S!Lines \cup {0}
    <3>1. /\ sent \in Seq(S!Kinds) /\ heard \in 0 .. Len(sent) /\ Len(sent) <= MaxLines
          /\ end \in {"open", "eof", "partial", "broken"} /\ reader \in Placed({"read", "offer", "done"})
          /\ aborted \in BOOLEAN /\ cut \in S!Lines \cup {0}
      BY ServerTyped
    <3>. QED BY <3>1
  <2>. QED BY <1>2, <2>1, <2>2, ServerTypedThen
<1>4. ReaderPlace' /\ Skipped' /\ CutOff' /\ OneCall'
  BY <1>1 DEF ServerInv, ReaderPlace, Skipped, CutOff, OneCall, Placed
<1>5. MainPlace'
  <2>1. main'.at \in {"wait", "over", "error"}
    BY DEF Placed
  <2>2. main'.line # 0 <=> main'.at \in {"handle", "run", "write"}
    BY <2>1
  <2>3. main'.line < Ahead'
    BY <1>1
  <2>4. main.eof => reader.at = "done"
    BY DEF ServerInv, MainPlace
  <2>. QED BY <2>2, <2>3, <2>4 DEF MainPlace
<1>6. \A i \in 1 .. heard : S!Expects(i)' = S!Expects(i)
  BY <1>1, LinesStay
<1>7. \A k \in 1 .. Len(answers) : /\ answers[k] \in 1 .. heard /\ answers[k] < main.line
                                   /\ S!Expects(answers[k])
  BY <1>1 DEF ServerInv, Behind
<1>8. Behind'
  <2>1. ASSUME NEW k \in 1 .. Len(answers')
        PROVE  /\ answers'[k] \in 1 .. heard /\ answers'[k] < Ahead
               /\ S!Expects(answers'[k]) /\ answers'[k] <= main.line
               /\ k # Len(answers') => k \in 1 .. Len(answers)
               /\ k \in 1 .. Len(answers) => answers'[k] < main.line
    <3>1. CASE k \in 1 .. Len(answers)
      BY <1>1, <1>2, <1>6, <1>7, <3>1
    <3>2. CASE k \notin 1 .. Len(answers)
      <4>1. k = Len(answers) + 1 /\ Len(answers') = Len(answers) + 1
        BY <1>2, <3>2
      <4>. QED BY <1>1, <1>2, <1>6, <4>1
    <3>. QED BY <3>1, <3>2
  <2>2. ASSUME NEW k \in 1 .. Len(answers') - 1 PROVE answers'[k] < answers'[k + 1]
    <3>1. k \in 1 .. Len(answers) /\ k + 1 \in 1 .. Len(answers')
      BY <1>2
    <3>2. CASE k + 1 \in 1 .. Len(answers)
      BY <1>2, <3>1, <3>2 DEF ServerInv, Behind
    <3>3. CASE k + 1 \notin 1 .. Len(answers)
      <4>1. k + 1 = Len(answers) + 1 /\ Len(answers') = Len(answers) + 1
        BY <1>2, <3>1, <3>3
      <4>2. answers'[k + 1] = main.line /\ answers'[k] = answers[k]
        BY <1>2, <3>1, <4>1
      <4>. QED BY <1>7, <3>1, <4>2
    <3>. QED BY <3>2, <3>3
  <2>3. ASSUME NEW k \in 1 .. Len(answers')
        PROVE  /\ answers'[k] \in 1 .. heard' /\ answers'[k] < S!Turn' /\ S!Expects(answers[k])'
    <3>1. PICK a : a = answers'[k]
      OBVIOUS
    <3>2. a \in 1 .. heard /\ a < Ahead /\ S!Expects(a)
      BY <2>1, <3>1
    <3>3. S!Expects(a)'
      BY <1>6, <3>2
    <3>. QED BY <1>1, <3>1, <3>2, <3>3 DEF S!Expects, S!Is
  <2>. QED BY <2>2, <2>3 DEF Behind
<1>9. AllDone'
  <2>0. \A i : S!Contains(answers, i) => S!Contains(answers, i)'
    BY <1>2 DEF S!Contains
  <2>1. ASSUME main'.at # "error", NEW i \in 1 .. Ahead - 1 PROVE Done(i)'
    <3>1. CASE i < main.line
      <4>1. i \in 1 .. S!Turn - 1 /\ i \in 1 .. heard
        BY <1>1, <3>1
      <4>2. Done(i)
        BY <1>1, <2>1, <4>1 DEF ServerInv, AllDone
      <4>. QED BY <1>1, <2>0, <4>1, <4>2, DoneStays
    <3>2. CASE i = main.line
      BY <2>1, <3>2
    <3>3. CASE i > main.line
      <4>1. i \in main.line + 1 .. Ahead - 1 /\ i \in 1 .. heard
        BY <1>1, <3>3
      <4>2. Let(i)
        BY <2>1, <4>1 DEF ServerInv, Skipped
      <4>3. Let(i)'
        BY <1>1, <4>1, <4>2, LetStays
      <4>. QED BY <4>3 DEF Let, Done
    <3>. QED BY <1>1, <3>1, <3>2, <3>3
  <2>. QED BY <1>1, <2>1 DEF AllDone
<1>. QED BY <1>3, <1>4, <1>5, <1>8, <1>9 DEF ServerInv

LEMMA NextPlace ==
    ASSUME S!NextLine
    PROVE  /\ main' \in Placed({"wait", "over", "error"}) /\ main'.line = 0 /\ ~main'.eof
           /\ main'.at = "over" => main.eof
<1>1. CASE main.eof
  BY <1>1 DEF S!NextLine, S!Waiting, Placed
<1>2. CASE ~main.eof
  BY <1>2 DEF S!NextLine, S!Waiting, Placed
<1>. QED BY <1>1, <1>2

LEMMA IgnoreKeeps ==
    ASSUME ServerInv, S!Ignore
    PROVE  ServerInv'
<1>0. /\ main.at = "handle" /\ main.line # 0
      /\ UNCHANGED <<sent, end, heard, reader, aborted, cut, answers>>
      /\ inflight' = 0 /\ cancelled' = FALSE
  BY ServerTyped DEF S!Ignore, ServerInv, MainPlace, OneCall
<1>1. ~S!Expects(main.line)
  BY DEF S!Ignore, S!Expects, S!Is
<1>2. \A i : i = main.line => Done(i)'
  BY <1>0, <1>1 DEF Done, S!Expects, S!Is
<1>3. /\ main' \in Placed({"wait", "over", "error"}) /\ main'.line = 0 /\ ~main'.eof
      /\ main'.at = "over" => main.eof
  BY NextPlace DEF S!Ignore
<1>. QED BY <1>0, <1>2, <1>3, LineIsOver

(* The answer is written, or the loop gives up.                            *)
LEMMA WrittenKeeps ==
    ASSUME ServerInv, main.line # 0, S!Expects(main.line),
           UNCHANGED <<sent, end, heard, reader, aborted, cut>>,
           inflight' = 0, cancelled' = FALSE,
           (S!Written /\ S!NextLine) \/ (main' = S!Waiting("error") /\ UNCHANGED answers)
    PROVE  ServerInv'
<1>1. /\ main' \in Placed({"wait", "over", "error"}) /\ main'.line = 0 /\ ~main'.eof
      /\ main'.at = "over" => main.eof
  <2>1. CASE S!NextLine
    BY <2>1, NextPlace
  <2>2. CASE main' = S!Waiting("error")
    BY <2>2 DEF S!Waiting, Placed
  <2>. QED BY <2>1, <2>2
<1>2. /\ (UNCHANGED answers) \/ answers' = Append(answers, main.line)
      /\ main'.at # "error" => answers' = Append(answers, main.line)
  BY DEF S!Written, S!Waiting
<1>3. ASSUME main'.at # "error", NEW i, i = main.line PROVE Done(i)'
  <2>1. answers \in Seq(S!Lines) /\ Len(answers) \in Nat /\ i \in S!Lines
    <3>1. main \in Placed({"wait", "handle", "run", "write", "over", "error"})
      BY ServerTyped
    <3>. QED BY <1>3, <3>1, ServerTyped DEF Placed
  <2>2. Len(answers') = Len(answers) + 1 /\ answers'[Len(answers) + 1] = i
    BY <1>2, <1>3, <2>1, AppendProperties
  <2>3. PICK m \in Nat : m = Len(answers) + 1
    BY <2>1
  <2>4. m \in 1 .. Len(answers') /\ answers'[m] = i
    BY <2>1, <2>2, <2>3
  <2>. QED BY <2>4 DEF Done, S!Contains
<1>. QED BY <1>1, <1>2, <1>3, LineIsOver

LEMMA AnswerKeeps ==
    ASSUME ServerInv, S!Answer
    PROVE  ServerInv'
<1>0. /\ main.line # 0 /\ S!Expects(main.line)
      /\ UNCHANGED <<sent, end, heard, reader, aborted, cut>>
      /\ inflight' = 0 /\ cancelled' = FALSE
  BY ServerTyped DEF S!Answer, ServerInv, MainPlace, OneCall, S!Expects
<1>1. (S!Written /\ S!NextLine) \/ (main' = S!Waiting("error") /\ UNCHANGED answers)
  BY DEF S!Answer
<1>. QED BY <1>0, <1>1, WrittenKeeps

LEMMA RespondKeeps ==
    ASSUME ServerInv, S!Respond
    PROVE  ServerInv'
<1>0. /\ main.line # 0 /\ S!Expects(main.line)
      /\ UNCHANGED <<sent, end, heard, reader, aborted, cut>>
      /\ inflight' = 0 /\ cancelled' = FALSE
  BY DEF S!Respond, S!Unregister, ServerInv, MainPlace, OneCall, S!Expects
<1>1. (S!Written /\ S!NextLine) \/ (main' = S!Waiting("error") /\ UNCHANGED answers)
  BY DEF S!Respond
<1>. QED BY <1>0, <1>1, WrittenKeeps

(* The call was cancelled: its client asked for it, or Serve ends.         *)
LEMMA SilencedKeeps ==
    ASSUME ServerInv, S!CallReturns, S!Silenced
    PROVE  ServerInv'
<1>0. /\ main.line # 0 /\ inflight = main.line /\ S!Is(main.line, "call")
      /\ UNCHANGED <<sent, end, heard, reader, aborted, cut, answers>>
      /\ inflight' = 0 /\ cancelled' = FALSE
  BY DEF S!CallReturns, S!Unregister, ServerInv, MainPlace, OneCall
<1>1. aborted \/ S!Heard(main.line)
  BY <1>0 DEF S!Silenced, ServerInv, OneCall
<1>2. S!Excused(main.line)
  <2>1. CASE S!Heard(main.line)
    BY <1>0, <2>1 DEF S!Excused
  <2>2. CASE aborted /\ cut = 0
    BY <1>0, <2>2 DEF S!Excused, S!AfterInterrupt
  <2>3. CASE cut # 0
    BY <1>0, <2>3 DEF S!Excused, ServerInv, CutOff
  <2>. QED BY <1>1, <2>1, <2>2, <2>3
<1>4. \A i : i = main.line => Done(i)'
  BY <1>0, <1>2 DEF Done, S!Excused, S!AfterInterrupt, S!LastLine, S!Is, S!Heard
<1>3. /\ main' \in Placed({"wait", "over", "error"}) /\ main'.line = 0 /\ ~main'.eof
      /\ main'.at = "over" => main.eof
  BY NextPlace DEF S!CallReturns
<1>. QED BY <1>0, <1>3, <1>4, LineIsOver

LEMMA ServerStarts ==
    ASSUME S!Init
    PROVE  ServerInv
<1>1. /\ sent = <<>> /\ end = "open" /\ heard = 0 /\ inflight = 0 /\ cancelled = FALSE /\ aborted = FALSE /\ cut = 0
      /\ answers = <<>> /\ Len(sent) = 0 /\ Len(answers) = 0
      /\ reader.at = "read" /\ reader.line = 0 /\ ~reader.eof /\ ~reader.bad
      /\ main.at = "wait" /\ main.line = 0 /\ ~main.eof
      /\ reader \in Placed({"read", "offer", "done"})
      /\ main \in Placed({"wait", "handle", "run", "write", "over", "error"})
  BY DEF S!Init, S!Waiting, Placed
<1>2. S!TypeOK
  <2>1. sent \in Seq(S!Kinds) /\ answers \in Seq(S!Lines) /\ heard \in 0 .. Len(sent)
    BY <1>1
  <2>. QED BY <1>1, <2>1 DEF S!TypeOK, Placed
<1>3. Ahead = 1 /\ S!Turn = 1
  BY <1>1 DEF Ahead, S!Turn
<1>4. ReaderPlace /\ MainPlace /\ Skipped /\ CutOff /\ OneCall /\ Behind /\ AllDone
  BY <1>1, <1>3 DEF ReaderPlace, MainPlace, Skipped, CutOff, OneCall, Behind, AllDone
<1>. QED BY <1>1, <1>2, <1>4, LinesAssumption DEF ServerInv

LEMMA ServerStays ==
    ASSUME ServerInv, S!Next
    PROVE  ServerInv'
<1>1. CASE S!Send \/ S!EndInput \/ S!Interrupted
  BY <1>1, SendKeeps, OutsideKeeps
<1>2. CASE S!Reads
  BY <1>2, ReadLineKeeps, ReadEndKeeps, GivesUpKeeps DEF S!Reads
<1>3. CASE S!Loops
  BY <1>3, ReceiveKeeps, StopKeeps, IgnoreKeeps, AnswerKeeps, OnWithIt, RespondKeeps DEF S!Loops
<1>4. CASE S!CallReturns
  BY <1>4, SilencedKeeps, OnWithIt
<1>. QED BY <1>1, <1>2, <1>3, <1>4 DEF S!Next

LEMMA ServerStutters ==
    ASSUME ServerInv, UNCHANGED S!vars
    PROVE  ServerInv'
<1>1. UNCHANGED <<sent, end, heard, reader, main, inflight, cancelled, aborted, cut, answers>>
  BY DEF S!vars
<1>. QED
  BY <1>1 DEF ServerInv, S!TypeOK, ReaderPlace, MainPlace, Skipped, CutOff, OneCall, Behind, AllDone, Done,
              Let, Ahead, S!Turn, S!Is, S!Heard, S!Expects, S!Excused, S!AfterInterrupt, S!LastLine,
              S!Contains

LEMMA ServerAnswers ==
    ASSUME ServerInv
    PROVE  S!EachAnsweredOnce
BY DEF ServerInv, Behind, AllDone, Done, S!EachAnsweredOnce

(* The server on its own: whatever the client sends, however its input     *)
(* ends and whenever the process is interrupted, Serve answers every       *)
(* request once and in order, as long as it can write, but for those that  *)
(* Excused names: a call the client cancelled; the call that ran when the  *)
(* input ended and a last line without a newline that came with that end   *)
(* (server.go:119-134, against 179-180); after an interrupt the calls and  *)
(* the one line the reader was left with.                                  *)
THEOREM ServerAlone == S!Spec => []S!EachAnsweredOnce
<1>1. S!Init => ServerInv
  BY ServerStarts
<1>2. ServerInv /\ [S!Next]_S!vars => ServerInv'
  BY ServerStays, ServerStutters
<1>3. ServerInv => S!EachAnsweredOnce
  BY ServerAnswers
<1>. QED BY <1>1, <1>2, <1>3, PTL DEF S!Spec

(* The same as a property of the specification that the MCMcp run checks,  *)
(* whose behaviours exercise either the server or the session table        *)
(* (server.go:105-151, 373-383).                                           *)
THEOREM AnswersOnce == McpSpec => []EachAnsweredOnce
<1>1. McpInit => ServerInv
  BY ServerStarts DEF McpInit
<1>2. ServerInv /\ [Table \/ Server]_allVars => ServerInv'
  <2>1. ASSUME ServerInv, Table PROVE ServerInv'
    BY <2>1, ServerStutters DEF Table, serverVars, S!vars
  <2>2. ASSUME ServerInv, Server PROVE ServerInv'
    BY <2>2, ServerStays DEF Server
  <2>3. ASSUME ServerInv, UNCHANGED allVars PROVE ServerInv'
    BY <2>3, ServerStutters DEF allVars, serverVars, S!vars
  <2>. QED BY <2>1, <2>2, <2>3
<1>3. ServerInv => EachAnsweredOnce
  BY ServerAnswers DEF EachAnsweredOnce
<1>. QED BY <1>1, <1>2, <1>3, PTL DEF McpSpec

================================================================================
