----------------------------- MODULE StoresProofs -----------------------------
(***************************************************************************)
(* Proofs about the stores of Stores that are written piece by piece, or   *)
(* one after the other: a host in the host file and its secret in the      *)
(* keyring, the providers of the assistant in the settings file and their  *)
(* keys, and a large secret in chunks in the keyring, which implements     *)
(* SecretCell.  For any number of calls at a time, any secrets, ids and    *)
(* keys, any number of saves, chunks and pending generations.              *)
(***************************************************************************)
EXTENDS Stores, SequenceTheorems, FiniteSetTheorems, TLAPS

-----------------------------------------------------------------------------
(* A host and its secret: what a call k on it may be up to.                *)

HostCalls == [op: Hosts!Ops \cup {"none"},
              at: {"idle", "get", "keyring", "flag", "rollback", "failed", "stuck"},
              prev: Secrets \cup {None, Corrupt}, new: Secrets \cup {None},
              before: Secrets \cup {None, Corrupt}, alone: BOOLEAN]

Shape(k) ==
    /\ k.op = "none" <=> k.at \in {"idle", "failed", "stuck"}
    /\ k.at = "keyring" => k.op \in {"save", "remove", "clear"}
    /\ k.at = "rollback" => k.op \in {"save", "remove", "clear"}
    /\ k.op = "save" => k.new \in Secrets

(* While no other call has overlapped it: where the secret s that a call   *)
(* found is while it is on its way.                                        *)
Remembers(k, s) ==
    /\ k.at \in {"get", "keyring"} => s = k.before
    /\ k.op = "mark" => s = k.before
    /\ k.at = "flag" /\ k.op \in {"remove", "clear"} => s = None
    /\ k.op \in {"save", "remove", "clear"} /\ k.at # "get" /\ k.prev # Corrupt => k.prev = k.before

(* While no remove crossed a save or a clear, and the host file could      *)
(* always be written: a call that has a secret in its hands has a host h,  *)
(* a remove gets to the host when the secret s has gone, and there is      *)
(* nothing to roll back.                                                   *)
Grounded(k, s, h) ==
    /\ k.op = "save" => h # "absent"
    /\ k.op = "clear" /\ k.prev \in Secrets => h # "absent"
    /\ k.op = "remove" /\ k.at = "flag" => s = None
    /\ k.at # "rollback"

HostTyped ==
    /\ cache \in Hosts!HostStates /\ disk \in Hosts!HostStates
    /\ secret \in Secrets \cup {None, Corrupt}
    /\ created \in BOOLEAN /\ crossed \in BOOLEAN /\ unwritten \in BOOLEAN
    /\ hostCall \in [Callers -> HostCalls]

Unborn == cache = "absent" /\ disk = "absent" /\ secret = None /\ \A c \in Callers : hostCall[c].op = "none"

Solo(c) ==
    hostCall[c].alone => Remembers(hostCall[c], secret) /\ \A d \in Callers \ {c} : hostCall[d].op = "none"

Apart == \A c, d \in Callers : hostCall[c].op = "remove" => hostCall[d].op \notin {"save", "clear"}

HostInv ==
    /\ HostTyped /\ \A c \in Callers : Shape(hostCall[c]) /\ Solo(c)
    /\ ~created => Unborn
    /\ ~unwritten => cache = disk
    /\ ~crossed => Apart
    /\ ~crossed /\ ~unwritten => /\ secret # None => cache # "absent"
                                 /\ \A c \in Callers : Grounded(hostCall[c], secret, cache)

LEMMA HostIdle ==
    ASSUME NEW place \in {"idle", "failed", "stuck"}, NEW k, k = [Hosts!Idle EXCEPT !.at = place]
    PROVE  /\ k \in HostCalls /\ k.op = "none" /\ k.at = place /\ ~k.alone /\ Shape(k)
           /\ \A s, h : Remembers(k, s) /\ Grounded(k, s, h)
<1>1. /\ k \in HostCalls /\ k.op = "none" /\ k.at = place /\ ~k.alone
  BY DEF Hosts!Idle, HostCalls
<1>. QED BY <1>1 DEF Shape, Remembers, Grounded

LEMMA NoCall ==
    /\ Hosts!Idle \in HostCalls /\ Hosts!Idle.op = "none" /\ Hosts!Idle.at = "idle"
    /\ ~Hosts!Idle.alone /\ Shape(Hosts!Idle)
    /\ \A s, h : Remembers(Hosts!Idle, s) /\ Grounded(Hosts!Idle, s, h)
BY DEF Hosts!Idle, HostCalls, Shape, Remembers, Grounded

(* A call that goes on to k, and does what it does to the stores.          *)
LEMMA CallGoesOn ==
    ASSUME HostInv, NEW c \in Callers, hostCall[c].op # "none",
           NEW k \in HostCalls, hostCall' = [hostCall EXCEPT ![c] = k], Shape(k),
           k.op \in {hostCall[c].op, "none"}, k.alone => hostCall[c].alone,
           UNCHANGED <<created, crossed>>,
           cache' \in Hosts!HostStates, disk' \in Hosts!HostStates, secret' \in Secrets \cup {None, Corrupt},
           unwritten' \in BOOLEAN, unwritten => unwritten',
           k.alone => Remembers(k, secret'),
           ~unwritten' => cache' = disk',
           ~crossed /\ ~unwritten' => /\ secret' # None => cache' # "absent"
                                      /\ Grounded(k, secret', cache')
                                      /\ cache' = "absent" => cache = "absent" \/ hostCall[c].op = "remove"
                                      /\ secret' = None \/ secret # None \/ hostCall[c].op = "save"
    PROVE  HostInv'
<1>1. /\ hostCall' \in [Callers -> HostCalls] /\ hostCall'[c] = k /\ \A d \in Callers \ {c} : hostCall'[d] = hostCall[d]
      /\ created
  BY DEF HostInv, HostTyped, Unborn
<1>2. HostTyped' /\ \A d \in Callers : Shape(hostCall'[d])
  BY <1>1 DEF HostInv, HostTyped
<1>3. ASSUME NEW d \in Callers PROVE Solo(d)'
  <2>1. CASE d = c
    BY <1>1, <2>1 DEF HostInv, Solo
  <2>2. CASE d # c
    <3>1. ~hostCall'[d].alone
      BY <1>1, <2>2 DEF HostInv, Solo
    <3>. QED BY <3>1 DEF Solo
  <2>. QED BY <2>1, <2>2
<1>4. ~crossed => Apart'
  BY <1>1 DEF HostInv, Apart
<1>5. ASSUME ~crossed, ~unwritten', NEW d \in Callers PROVE Grounded(hostCall'[d], secret', cache')
  <2>1. CASE d = c
    BY <1>1, <1>5, <2>1
  <2>2. CASE d # c
    <3>1. hostCall'[d] = hostCall[d] /\ Grounded(hostCall[d], secret, cache)
      BY <1>1, <1>5, <2>2 DEF HostInv
    <3>2. /\ hostCall[c].op = "remove" => hostCall[d].op \notin {"save", "clear"}
          /\ hostCall[d].op = "remove" => hostCall[c].op \notin {"save", "clear"}
      BY <1>5 DEF HostInv, Apart
    <3>. QED BY <1>5, <3>1, <3>2 DEF Grounded
  <2>. QED BY <2>1, <2>2
<1>6. (\A d \in Callers : Shape(hostCall[d]) /\ Solo(d))'
  BY <1>2, <1>3
<1>. QED BY <1>1, <1>2, <1>4, <1>5, <1>6 DEF HostInv

(* Reading the facts of a call that is under way.                          *)
LEMMA CallFacts ==
    ASSUME HostInv, NEW c \in Callers
    PROVE  /\ hostCall[c] \in HostCalls /\ Shape(hostCall[c])
           /\ hostCall[c].alone \in BOOLEAN /\ (hostCall[c].alone => Remembers(hostCall[c], secret))
           /\ ~crossed /\ ~unwritten => /\ secret # None => cache # "absent"
                                        /\ Grounded(hostCall[c], secret, cache)
           /\ ~unwritten => cache = disk
           /\ cache \in Hosts!HostStates /\ disk \in Hosts!HostStates /\ secret \in Secrets \cup {None, Corrupt}
           /\ crossed \in BOOLEAN /\ unwritten \in BOOLEAN
BY DEF HostInv, HostTyped, HostCalls, Solo

(* A call that fails leaves the secret it found.                           *)
Fruit == \A c \in Callers : Hosts!Fruitless(c) => secret' = hostCall[c].before

LEMMA FailsWell ==
    ASSUME HostInv, NEW c \in Callers, NEW k \in HostCalls, hostCall' = [hostCall EXCEPT ![c] = k],
           k.at = "failed" /\ hostCall[c].at # "failed" /\ hostCall[c].alone /\ hostCall[c].prev # Corrupt
             /\ secret' # Corrupt => secret' = hostCall[c].before
    PROVE  Fruit
<1>1. hostCall \in [Callers -> HostCalls]
  BY DEF HostInv, HostTyped
<1>2. ASSUME NEW d \in Callers, Hosts!Fruitless(d) PROVE secret' = hostCall[d].before
  <2>1. /\ hostCall[d].at # "failed" /\ hostCall'[d].at = "failed"
        /\ hostCall[d].alone /\ hostCall[d].prev # Corrupt /\ secret' # Corrupt
    BY <1>2 DEF Hosts!Fruitless
  <2>2. d = c
    BY <1>1, <2>1
  <2>. QED BY <1>1, <2>1, <2>2
<1>. QED BY <1>2 DEF Fruit

LEMMA GetKeeps ==
    ASSUME HostInv, NEW c \in Callers, Hosts!Get(c)
    PROVE  HostInv' /\ Fruit
<1>1. /\ hostCall[c].at = "get" /\ UNCHANGED <<cache, disk, secret, created, crossed, unwritten>>
  BY DEF Hosts!Get, Hosts!stores, Hosts!past
<1>2. hostCall[c] \in HostCalls /\ hostCall[c].op # "none" /\ hostCall[c].op \in Hosts!Ops
  BY <1>1, CallFacts DEF HostCalls, Shape
<1>3. PICK k \in HostCalls : /\ hostCall' = [hostCall EXCEPT ![c] = k]
                             /\ Shape(k) /\ k.op \in {hostCall[c].op, "none"}
                             /\ (k.alone => hostCall[c].alone /\ Remembers(k, secret))
                             /\ (~crossed /\ ~unwritten => Grounded(k, secret, cache))
                             /\ (k.at = "failed" /\ hostCall[c].alone => secret = hostCall[c].before)
  <2>1. CASE secret # Corrupt /\ hostCall' = [hostCall EXCEPT ![c].prev = secret,
                                               ![c].at = IF hostCall[c].op = "mark" THEN "flag" ELSE "keyring"]
    <3>1. PICK k : k = [hostCall[c] EXCEPT !.prev = secret, !.at = IF hostCall[c].op = "mark" THEN "flag" ELSE "keyring"]
      OBVIOUS
    <3>2. /\ k \in HostCalls /\ k.op = hostCall[c].op /\ k.new = hostCall[c].new /\ k.before = hostCall[c].before
          /\ k.alone = hostCall[c].alone
          /\ k.prev = secret /\ k.at = IF hostCall[c].op = "mark" THEN "flag" ELSE "keyring"
      BY <1>2, <3>1, CallFacts DEF HostCalls
    <3>3. hostCall' = [hostCall EXCEPT ![c] = k]
      BY <2>1, <3>1 DEF HostInv, HostTyped
    <3>4. Shape(k) /\ (k.alone => Remembers(k, secret)) /\ (~crossed /\ ~unwritten => Grounded(k, secret, cache))
      BY <1>1, <1>2, <3>2, CallFacts, HostsAssumption DEF Hosts!Ops, Shape, Remembers, Grounded
    <3>. QED BY <3>2, <3>3, <3>4
  <2>2. CASE hostCall[c].op \in {"remove", "clear"} /\ hostCall' = [hostCall EXCEPT ![c].prev = Corrupt, ![c].at = "keyring"]
    <3>1. PICK k : k = [hostCall[c] EXCEPT !.prev = Corrupt, !.at = "keyring"]
      OBVIOUS
    <3>2. /\ k \in HostCalls /\ k.op = hostCall[c].op /\ k.new = hostCall[c].new /\ k.before = hostCall[c].before
          /\ k.alone = hostCall[c].alone
          /\ k.prev = Corrupt /\ k.at = "keyring"
      BY <1>2, <3>1 DEF HostCalls
    <3>3. hostCall' = [hostCall EXCEPT ![c] = k]
      BY <2>2, <3>1 DEF HostInv, HostTyped
    <3>4. Shape(k) /\ (k.alone => Remembers(k, secret)) /\ (~crossed /\ ~unwritten => Grounded(k, secret, cache))
      BY <1>1, <1>2, <2>2, <3>2, CallFacts, HostsAssumption DEF Hosts!Ops, Shape, Remembers, Grounded
    <3>. QED BY <3>2, <3>3, <3>4
  <2>3. CASE Hosts!Fail(c)
    BY <1>1, <2>3, HostIdle, CallFacts DEF Hosts!Fail, Hosts!EndsAt, Remembers
  <2>4. CASE hostCall[c].op = "mark" /\ Hosts!Go(c, "flag")
    <3>1. PICK k : k = [hostCall[c] EXCEPT !.at = "flag"]
      OBVIOUS
    <3>2. /\ k \in HostCalls /\ k.op = hostCall[c].op /\ k.new = hostCall[c].new /\ k.before = hostCall[c].before
          /\ k.alone = hostCall[c].alone
          /\ k.prev = hostCall[c].prev /\ k.at = "flag"
      BY <1>2, <3>1 DEF HostCalls
    <3>3. hostCall' = [hostCall EXCEPT ![c] = k]
      BY <2>4, <3>1 DEF Hosts!Go, HostInv, HostTyped
    <3>4. Shape(k) /\ (k.alone => Remembers(k, secret)) /\ (~crossed /\ ~unwritten => Grounded(k, secret, cache))
      BY <1>1, <1>2, <2>4, <3>2, CallFacts DEF Shape, Remembers, Grounded
    <3>. QED BY <3>2, <3>3, <3>4
  <2>. QED BY <2>1, <2>2, <2>3, <2>4 DEF Hosts!Get, Hosts!Readable
<1>4. HostInv'
  BY <1>1, <1>2, <1>3, CallFacts, CallGoesOn
<1>5. Fruit
  BY <1>1, <1>3, FailsWell
<1>. QED BY <1>4, <1>5

LEMMA Onward ==
    ASSUME HostInv, NEW c \in Callers, NEW to \in {"flag", "rollback", "keyring"}, Hosts!Go(c, to)
    PROVE  \E k \in HostCalls : /\ hostCall' = [hostCall EXCEPT ![c] = k] /\ k.at = to
                                /\ k.op = hostCall[c].op /\ k.new = hostCall[c].new
                                /\ k.before = hostCall[c].before /\ k.prev = hostCall[c].prev
                                /\ k.alone = hostCall[c].alone
<1>1. PICK k : k = [hostCall[c] EXCEPT !.at = to]
  OBVIOUS
<1>2. /\ k \in HostCalls /\ k.op = hostCall[c].op /\ k.new = hostCall[c].new /\ k.before = hostCall[c].before
          /\ k.alone = hostCall[c].alone
      /\ k.prev = hostCall[c].prev /\ k.at = to
  BY <1>1, CallFacts DEF HostCalls
<1>3. hostCall' = [hostCall EXCEPT ![c] = k]
  BY <1>1 DEF Hosts!Go, HostInv, HostTyped
<1>. QED BY <1>2, <1>3

LEMMA Failing ==
    ASSUME HostInv, NEW c \in Callers, Hosts!Fail(c) \/ Hosts!End(c) \/ Hosts!EndsAt(c, "stuck")
    PROVE  \E k \in HostCalls : /\ hostCall' = [hostCall EXCEPT ![c] = k] /\ Shape(k)
                                /\ k.op = "none" /\ ~k.alone
                                /\ hostCall'[c] = k /\ k.at \in {"idle", "failed", "stuck"}
                                /\ Hosts!End(c) => k.at = "idle"
                                /\ Hosts!EndsAt(c, "stuck") => k.at = "stuck"
                                /\ \A s, h : Remembers(k, s) /\ Grounded(k, s, h)
<1>0. hostCall \in [Callers -> HostCalls]
  BY DEF HostInv, HostTyped
<1>1. Hosts!End(c) => hostCall' = [hostCall EXCEPT ![c] = [Hosts!Idle EXCEPT !.at = "idle"]]
  BY DEF Hosts!End, Hosts!Idle
<1>2. PICK place \in {"idle", "failed", "stuck"} :
        /\ hostCall' = [hostCall EXCEPT ![c] = [Hosts!Idle EXCEPT !.at = place]]
        /\ Hosts!End(c) \/ Hosts!EndsAt(c, "stuck") =>
             place = IF Hosts!End(c) THEN "idle" ELSE "stuck"
  <2>1. CASE Hosts!End(c)
    BY <1>1, <2>1
  <2>2. CASE ~Hosts!End(c) /\ Hosts!EndsAt(c, "stuck")
    BY <2>2 DEF Hosts!EndsAt
  <2>3. CASE ~Hosts!End(c) /\ ~Hosts!EndsAt(c, "stuck")
    BY <2>3 DEF Hosts!Fail, Hosts!EndsAt
  <2>. QED BY <2>1, <2>2, <2>3
<1>3. PICK k : k = [Hosts!Idle EXCEPT !.at = place]
  OBVIOUS
<1>4. k \in HostCalls /\ k.at = place
  BY <1>3, HostIdle
<1>5. Hosts!End(c) /\ Hosts!EndsAt(c, "stuck") => FALSE
  <2>1. [Hosts!Idle EXCEPT !.at = "stuck"].at = "stuck" /\ [Hosts!Idle EXCEPT !.at = "idle"].at = "idle"
    BY HostIdle
  <2>. QED BY <1>0, <1>1, <2>1 DEF Hosts!EndsAt
<1>. QED BY <1>0, <1>2, <1>3, <1>4, <1>5, HostIdle

LEMMA KeyringSaveKeeps ==
    ASSUME HostInv, NEW c \in Callers, Hosts!KeyringSave(c)
    PROVE  HostInv' /\ Fruit
<1>1. /\ hostCall[c].at = "keyring" /\ hostCall[c].op = "save" /\ UNCHANGED <<cache, disk, created, crossed, unwritten>>
  BY DEF Hosts!KeyringSave, Hosts!past
<1>2. hostCall[c].new \in Secrets /\ (hostCall[c].alone => secret = hostCall[c].before)
  BY <1>1, CallFacts DEF Shape, Remembers
<1>3. CASE secret # Corrupt /\ secret' = hostCall[c].new /\ Hosts!Go(c, "flag")
  <2>1. PICK k \in HostCalls : /\ hostCall' = [hostCall EXCEPT ![c] = k] /\ k.at = "flag"
                               /\ k.op = hostCall[c].op /\ k.new = hostCall[c].new
                               /\ k.before = hostCall[c].before /\ k.prev = hostCall[c].prev /\ k.alone = hostCall[c].alone
    BY <1>3, Onward
  <2>2. Shape(k) /\ (k.alone => Remembers(k, secret')) /\ (~crossed /\ ~unwritten => Grounded(k, secret', cache) /\ cache # "absent")
    BY <1>1, <1>2, <2>1, CallFacts DEF Shape, Remembers, Grounded
  <2>3. HostInv'
    BY <1>1, <1>2, <1>3, <2>1, <2>2, CallFacts, CallGoesOn
  <2>4. Fruit
    BY <2>1, FailsWell
  <2>. QED BY <2>3, <2>4
<1>4. CASE UNCHANGED secret /\ Hosts!Fail(c)
  <2>1. PICK k \in HostCalls : /\ hostCall' = [hostCall EXCEPT ![c] = k] /\ Shape(k)
                               /\ k.op = "none" /\ ~k.alone
                               /\ \A s, h : Remembers(k, s) /\ Grounded(k, s, h)
    BY <1>4, Failing
  <2>2. HostInv'
    BY <1>1, <1>4, <2>1, CallFacts, CallGoesOn
  <2>3. Fruit
    BY <1>2, <1>4, <2>1, FailsWell
  <2>. QED BY <2>2, <2>3
<1>. QED BY <1>3, <1>4 DEF Hosts!KeyringSave, Hosts!Readable

LEMMA KeyringClearKeeps ==
    ASSUME HostInv, NEW c \in Callers, Hosts!KeyringClear(c)
    PROVE  HostInv' /\ Fruit
<1>1. /\ hostCall[c].at = "keyring" /\ hostCall[c].op \in {"remove", "clear"}
      /\ UNCHANGED <<cache, disk, created, crossed, unwritten>>
  BY DEF Hosts!KeyringClear, Hosts!past
<1>2. hostCall[c].alone => secret = hostCall[c].before
  BY <1>1, CallFacts DEF Remembers
<1>3. CASE secret' = None /\ Hosts!Go(c, "flag")
  <2>1. PICK k \in HostCalls : /\ hostCall' = [hostCall EXCEPT ![c] = k] /\ k.at = "flag"
                               /\ k.op = hostCall[c].op /\ k.new = hostCall[c].new
                               /\ k.before = hostCall[c].before /\ k.prev = hostCall[c].prev /\ k.alone = hostCall[c].alone
    BY <1>3, Onward
  <2>2. Shape(k) /\ (k.alone => Remembers(k, secret')) /\ (~crossed /\ ~unwritten => Grounded(k, secret', cache))
    BY <1>1, <1>3, <2>1, CallFacts DEF Shape, Remembers, Grounded
  <2>3. HostInv'
    BY <1>1, <1>3, <2>1, <2>2, CallFacts, CallGoesOn
  <2>4. Fruit
    BY <2>1, FailsWell
  <2>. QED BY <2>3, <2>4
<1>4. CASE secret' \in {secret, IF secret = None THEN None ELSE Corrupt} /\ Hosts!Fail(c)
  <2>1. PICK k \in HostCalls : /\ hostCall' = [hostCall EXCEPT ![c] = k] /\ Shape(k)
                               /\ k.op = "none" /\ ~k.alone
                               /\ \A s, h : Remembers(k, s) /\ Grounded(k, s, h)
    BY <1>4, Failing
  <2>2. secret' \in Secrets \cup {None, Corrupt} /\ (secret' # None => secret # None) /\ (secret' # Corrupt => secret' = secret)
    BY <1>4, CallFacts
  <2>3. HostInv'
    BY <1>1, <2>1, <2>2, CallFacts, CallGoesOn
  <2>4. Fruit
    BY <1>2, <2>1, <2>2, FailsWell
  <2>. QED BY <2>3, <2>4
<1>. QED BY <1>3, <1>4 DEF Hosts!KeyringClear

LEMMA HostFileKeeps ==
    ASSUME HostInv, NEW c \in Callers, Hosts!HostFile(c)
    PROVE  HostInv' /\ Fruit
<1>1. hostCall[c].at = "flag" /\ UNCHANGED <<secret, created, crossed>>
  BY DEF Hosts!HostFile
<1>2. PICK h : h = Hosts!Flagged(c)
  OBVIOUS
<1>3. /\ hostCall[c].op \in Hosts!Ops /\ hostCall[c].op # "none"
      /\ h \in {"absent", "plain", "saved"} /\ (h = "absent" <=> hostCall[c].op = "remove")
  <2>1. hostCall[c].op \in Hosts!Ops /\ hostCall[c].op # "none"
    BY <1>1, CallFacts DEF HostCalls, Shape
  <2>. QED BY <1>2, <2>1 DEF Hosts!Flagged, Hosts!Ops
<1>4. CASE Hosts!Found(c) /\ Hosts!WriteOk(h) /\ Hosts!End(c)
  <2>1. cache' = h /\ disk' = h /\ unwritten' = unwritten
    BY <1>4 DEF Hosts!WriteOk
  <2>2. PICK k \in HostCalls : /\ hostCall' = [hostCall EXCEPT ![c] = k] /\ Shape(k) /\ k.at \in {"idle", "failed"}
                               /\ k.op = "none" /\ ~k.alone
                               /\ \A s, g : Remembers(k, s) /\ Grounded(k, s, g)
    BY <1>4, Failing
  <2>3. ~crossed /\ ~unwritten => (secret # None => h # "absent")
    BY <1>1, <1>3, CallFacts DEF Grounded
  <2>4. HostInv'
    BY <1>1, <1>3, <2>1, <2>2, <2>3, CallFacts, CallGoesOn DEF Hosts!HostStates
  <2>5. hostCall'[c].at = "idle"
    BY <1>4, NoCall DEF Hosts!End, HostInv, HostTyped
  <2>6. Fruit
    <3>1. k.at = "idle"
      BY <2>2, <2>5 DEF HostInv, HostTyped
    <3>. QED BY <2>2, <3>1, FailsWell
  <2>. QED BY <2>4, <2>6
<1>5. CASE /\ \/ Hosts!Found(c) /\ Hosts!WriteFails(h)
              \/ ~Hosts!Found(c) /\ UNCHANGED <<cache, disk, unwritten>>
           /\ IF Hosts!RollsBack(c) THEN Hosts!Go(c, "rollback") ELSE Hosts!Fail(c)
  <2>1. /\ cache' \in Hosts!HostStates /\ disk' = disk /\ unwritten' \in BOOLEAN /\ (unwritten => unwritten')
        /\ ~unwritten' => ~unwritten /\ cache' = cache /\ ~Hosts!Found(c)
    <3>1. CASE Hosts!WriteFails(h)
      BY <1>3, <3>1 DEF Hosts!WriteFails, Hosts!HostStates
    <3>2. CASE ~Hosts!Found(c) /\ UNCHANGED <<cache, disk, unwritten>>
      BY <3>2, CallFacts
    <3>. QED BY <1>5, <3>1, <3>2
  <2>2. ~unwritten' => cache = disk
    BY <2>1, CallFacts
  <2>3. CASE Hosts!RollsBack(c)
    <3>1. PICK k \in HostCalls : /\ hostCall' = [hostCall EXCEPT ![c] = k] /\ k.at = "rollback"
                                 /\ k.op = hostCall[c].op /\ k.new = hostCall[c].new
                                 /\ k.before = hostCall[c].before /\ k.prev = hostCall[c].prev /\ k.alone = hostCall[c].alone
      BY <1>5, <2>3, Onward
    <3>2. Shape(k) /\ (k.alone => Remembers(k, secret))
      BY <1>1, <1>3, <2>3, <3>1, CallFacts DEF Shape, Remembers, Hosts!RollsBack
    <3>3. crossed \/ unwritten'
      BY <2>1, <2>3, CallFacts DEF Hosts!Found, Hosts!RollsBack, Grounded
    <3>4. HostInv'
      BY <1>1, <1>3, <2>1, <2>2, <3>1, <3>2, <3>3, CallFacts, CallGoesOn
    <3>5. Fruit
      BY <3>1, FailsWell
    <3>. QED BY <3>4, <3>5
  <2>4. CASE ~Hosts!RollsBack(c)
    <3>1. PICK k \in HostCalls : /\ hostCall' = [hostCall EXCEPT ![c] = k] /\ Shape(k)
                                 /\ k.op = "none" /\ ~k.alone
                               /\ \A s, g : Remembers(k, s) /\ Grounded(k, s, g)
      BY <1>5, <2>4, Failing
    <3>2. ~crossed /\ ~unwritten' => (secret # None => cache' # "absent")
      BY <2>1, CallFacts
    <3>3. HostInv'
      BY <1>1, <1>3, <2>1, <2>2, <3>1, <3>2, CallFacts, CallGoesOn
    <3>4. hostCall[c].alone /\ hostCall[c].prev # Corrupt => secret = hostCall[c].before
      <4>1. hostCall[c].prev \in Secrets \cup {None, Corrupt}
        BY CallFacts DEF HostCalls
      <4>. QED BY <1>1, <1>3, <2>4, <4>1, CallFacts DEF Hosts!RollsBack, Hosts!Ops, Remembers
    <3>5. Fruit
      BY <1>1, <3>1, <3>4, FailsWell
    <3>. QED BY <3>3, <3>5
  <2>. QED BY <2>3, <2>4
<1>. QED BY <1>2, <1>4, <1>5 DEF Hosts!HostFile

LEMMA RollbackKeeps ==
    ASSUME HostInv, NEW c \in Callers, Hosts!Rollback(c)
    PROVE  HostInv' /\ Fruit
<1>1. /\ hostCall[c].at = "rollback"
      /\ UNCHANGED <<cache, disk, created, crossed, unwritten>>
      /\ \/ secret' = hostCall[c].prev /\ Hosts!Fail(c)
         \/ secret' \in {secret, Corrupt} /\ Hosts!EndsAt(c, "stuck")
  BY DEF Hosts!Rollback, Hosts!Restored, Hosts!past
<1>2. hostCall[c].op # "none" /\ hostCall[c].op \in Hosts!Ops /\ hostCall[c].prev \in Secrets \cup {None, Corrupt}
  BY <1>1, CallFacts DEF Shape, HostCalls
<1>3. PICK k \in HostCalls : /\ hostCall' = [hostCall EXCEPT ![c] = k] /\ Shape(k)
                             /\ k.op = "none" /\ ~k.alone
                             /\ Hosts!EndsAt(c, "stuck") => k.at = "stuck"
                             /\ \A s, g : Remembers(k, s) /\ Grounded(k, s, g)
  BY <1>1, Failing
<1>4. crossed \/ unwritten
  BY <1>1, CallFacts DEF Grounded
<1>5. HostInv'
  BY <1>1, <1>2, <1>3, <1>4, CallFacts, CallGoesOn
<1>6. k.at = "failed" /\ hostCall[c].alone /\ hostCall[c].prev # Corrupt => secret' = hostCall[c].before
  BY <1>1, <1>2, <1>3, CallFacts DEF Remembers, Shape
<1>7. Fruit
  BY <1>3, <1>6, FailsWell
<1>. QED BY <1>5, <1>7

LEMMA StartKeeps ==
    ASSUME HostInv, NEW c \in Callers, NEW op \in Hosts!Ops, Hosts!Start(c, op)
    PROVE  HostInv' /\ Fruit
<1>1. /\ hostCall[c].op = "none" /\ created /\ (op = "save" => cache # "absent")
      /\ crossed' = (crossed \/ \E d \in Hosts!UnderWay(c) : Hosts!Crosses({op, hostCall[d].op}))
      /\ UNCHANGED <<cache, disk, secret, created, unwritten>>
  BY DEF Hosts!Start, Hosts!Known, Hosts!stores
<1>2. PICK v \in Secrets \cup {None} :
        /\ (op = "save" => v \in Secrets)
        /\ hostCall' = [d \in Callers |->
                          IF d = c THEN [op |-> op, at |-> "get", prev |-> None, new |-> v,
                                         before |-> secret, alone |-> Hosts!UnderWay(c) = {}]
                          ELSE [hostCall[d] EXCEPT !.alone = FALSE]]
  BY DEF Hosts!Start
<1>3. PICK k : k = hostCall'[c]
  OBVIOUS
<1>4. /\ k \in HostCalls /\ k.op = op /\ k.at = "get" /\ k.prev = None /\ k.new = v /\ k.before = secret /\ op # "none"
      /\ k.alone => Hosts!UnderWay(c) = {}
  <2>1. k = [op |-> op, at |-> "get", prev |-> None, new |-> v, before |-> secret, alone |-> Hosts!UnderWay(c) = {}]
    BY <1>2, <1>3
  <2>2. (Hosts!UnderWay(c) = {}) \in BOOLEAN
    OBVIOUS
  <2>. QED BY <1>2, <2>1, <2>2, CallFacts DEF HostCalls, Hosts!Ops
<1>5. ASSUME NEW d \in Callers, d # c
      PROVE  /\ hostCall'[d] \in HostCalls /\ ~hostCall'[d].alone
             /\ hostCall'[d].op = hostCall[d].op /\ hostCall'[d].at = hostCall[d].at
             /\ hostCall'[d].prev = hostCall[d].prev /\ hostCall'[d].new = hostCall[d].new
  <2>1. hostCall'[d] = [hostCall[d] EXCEPT !.alone = FALSE]
    BY <1>2, <1>5
  <2>. QED BY <2>1, CallFacts DEF HostCalls
<1>6. Shape(k) /\ Remembers(k, secret) /\ (op = "save" => cache # "absent")
  BY <1>1, <1>2, <1>4 DEF Shape, Remembers
<1>7. Grounded(k, secret, cache)
  BY <1>4, <1>6, HostsAssumption DEF Grounded
<1>8. HostTyped' /\ \A d \in Callers : Shape(hostCall'[d])
  <2>1. hostCall' \in [Callers -> HostCalls]
    BY <1>2, <1>3, <1>4, <1>5
  <2>2. \A d \in Callers : Shape(hostCall'[d])
    BY <1>3, <1>5, <1>6 DEF HostInv, Shape
  <2>3. crossed' \in BOOLEAN
    BY <1>1 DEF HostInv, HostTyped
  <2>. QED BY <1>1, <2>1, <2>2, <2>3 DEF HostInv, HostTyped
<1>9. ASSUME NEW d \in Callers PROVE Solo(d)'
  <2>1. CASE d # c
    BY <1>5, <2>1 DEF Solo
  <2>2. CASE d = c
    <3>1. k.alone => \A e \in Callers \ {c} : hostCall'[e].op = "none"
      BY <1>4, <1>5 DEF Hosts!UnderWay
    <3>. QED BY <1>1, <1>3, <1>6, <2>2, <3>1 DEF Solo
  <2>. QED BY <2>1, <2>2
<1>10. ~crossed' => Apart'
  <2>1. ASSUME ~crossed', NEW d \in Callers, NEW e \in Callers, hostCall'[d].op = "remove",
               hostCall'[e].op \in {"save", "clear"}
        PROVE  FALSE
    <3>1. ~crossed /\ \A f \in Hosts!UnderWay(c) : ~Hosts!Crosses({op, hostCall[f].op})
      BY <1>1, <2>1
    <3>2. CASE d = c
      <4>1. e # c /\ op = "remove" /\ hostCall[e].op \in {"save", "clear"}
        BY <1>3, <1>4, <1>5, <2>1, <3>2
      <4>. QED BY <3>1, <4>1 DEF Hosts!UnderWay, Hosts!Crosses
    <3>3. CASE d # c /\ e = c
      <4>1. op \in {"save", "clear"} /\ hostCall[d].op = "remove"
        BY <1>3, <1>4, <1>5, <2>1, <3>3
      <4>. QED BY <3>1, <3>3, <4>1 DEF Hosts!UnderWay, Hosts!Crosses
    <3>4. CASE d # c /\ e # c
      BY <1>5, <2>1, <3>1, <3>4 DEF HostInv, Apart
    <3>. QED BY <3>2, <3>3, <3>4
  <2>. QED BY <2>1 DEF Apart
<1>11. ASSUME ~crossed', ~unwritten, NEW d \in Callers PROVE Grounded(hostCall'[d], secret, cache)
  <2>0. ~crossed
    BY <1>1, <1>11
  <2>1. CASE d = c
    BY <1>3, <1>7, <2>1
  <2>2. CASE d # c
    BY <1>5, <1>11, <2>0, <2>2 DEF HostInv, Grounded
  <2>. QED BY <2>1, <2>2
<1>12. HostInv'
  <2>1. (\A d \in Callers : Shape(hostCall[d]) /\ Solo(d))'
    BY <1>8, <1>9
  <2>2. ~crossed' => ~crossed
    BY <1>1
  <2>. QED BY <1>1, <1>8, <1>10, <1>11, <2>1, <2>2 DEF HostInv
<1>13. \A d \in Callers : ~Hosts!Fruitless(d)
  <2>1. ASSUME NEW d \in Callers PROVE hostCall'[d].at = "get" \/ hostCall'[d].at = hostCall[d].at
    BY <1>3, <1>4, <1>5
  <2>. QED BY <2>1 DEF Hosts!Fruitless
<1>. QED BY <1>12, <1>13 DEF Fruit

LEMMA CreateKeeps ==
    ASSUME HostInv, Hosts!HostsCreate
    PROVE  HostInv' /\ Fruit
<1>1. /\ ~created /\ created' = TRUE /\ UNCHANGED <<secret, hostCall, crossed>> /\ cache' = "plain"
      /\ \/ disk' = "plain" /\ unwritten' = unwritten
         \/ disk' = disk /\ unwritten' = TRUE
  BY DEF Hosts!HostsCreate, Hosts!WriteOk, Hosts!WriteFails
<1>2. Unborn /\ cache' \in Hosts!HostStates /\ disk' \in Hosts!HostStates
  BY <1>1 DEF HostInv, HostTyped, Hosts!HostStates
<1>3. \A c \in Callers : Grounded(hostCall[c], secret, "plain")
  BY <1>2 DEF HostInv, Shape, Unborn, Grounded
<1>4. HostInv'
  BY <1>1, <1>2, <1>3 DEF HostInv, HostTyped, Unborn, Solo, Apart, Shape, Remembers, Grounded
<1>. QED BY <1>1, <1>4 DEF Fruit, Hosts!Fruitless

LEMMA OtherKeeps ==
    ASSUME HostInv, Hosts!OtherWrites
    PROVE  HostInv' /\ Fruit
<1>1. /\ cache # disk /\ cache' = cache /\ disk' = cache /\ UNCHANGED <<secret, created, hostCall, crossed, unwritten>>
  BY DEF Hosts!OtherWrites, Hosts!WriteOk
<1>2. HostInv'
  BY <1>1 DEF HostInv, HostTyped, Unborn, Solo, Apart, Shape, Remembers, Grounded
<1>. QED BY <1>1, <1>2 DEF Fruit, Hosts!Fruitless

LEMMA RestartKeeps ==
    ASSUME HostInv, Hosts!Restart
    PROVE  HostInv' /\ Fruit
<1>1. /\ cache' = disk /\ hostCall' = [c \in Callers |-> Hosts!Idle]
      /\ UNCHANGED <<disk, secret, created, crossed, unwritten>>
  BY DEF Hosts!Restart, Hosts!past
<1>2. hostCall' \in [Callers -> HostCalls] /\ \A c \in Callers : hostCall'[c] = Hosts!Idle
  BY <1>1, NoCall
<1>3. /\ \A c \in Callers : Shape(hostCall'[c]) /\ hostCall'[c].op = "none" /\ hostCall'[c].at = "idle" /\ ~hostCall'[c].alone
      /\ \A c \in Callers : \A s, h : Remembers(hostCall'[c], s) /\ Grounded(hostCall'[c], s, h)
  BY <1>2, NoCall
<1>4. HostInv'
  BY <1>1, <1>2, <1>3 DEF HostInv, HostTyped, Unborn, Solo, Apart, Shape, Remembers, Grounded
<1>. QED BY <1>3, <1>4 DEF Fruit, Hosts!Fruitless

LEMMA HostBegins == Hosts!Init => HostInv
<1>. SUFFICES ASSUME Hosts!Init PROVE HostInv
  OBVIOUS
<1>1. /\ cache = "absent" /\ disk = "absent" /\ secret = None /\ created = FALSE
      /\ hostCall = [c \in Callers |-> Hosts!Idle] /\ crossed = FALSE /\ unwritten = FALSE
  BY DEF Hosts!Init
<1>2. hostCall \in [Callers -> HostCalls] /\ \A c \in Callers : hostCall[c] = Hosts!Idle
  BY <1>1, NoCall
<1>3. /\ \A c \in Callers : Shape(hostCall[c]) /\ hostCall[c].op = "none" /\ hostCall[c].at = "idle" /\ ~hostCall[c].alone
      /\ \A c \in Callers : \A s, h : Remembers(hostCall[c], s) /\ Grounded(hostCall[c], s, h)
  BY <1>2, NoCall
<1>. QED BY <1>1, <1>2, <1>3 DEF HostInv, HostTyped, Unborn, Solo, Apart, Hosts!HostStates

LEMMA HostSteps == HostInv /\ Hosts!Next => HostInv' /\ Fruit
BY GetKeeps, KeyringSaveKeeps, KeyringClearKeeps, HostFileKeeps, RollbackKeeps, StartKeeps, CreateKeeps,
   OtherKeeps, RestartKeeps DEF Hosts!Next, Hosts!Step

-----------------------------------------------------------------------------
FocusInv == focus = "hosts" => HostInv

LEMMA FocusKept ==
    FocusInv /\ [Keyring \/ HostFile \/ ProviderList \/ SettingsFile \/ Transcript]_allVars
      => FocusInv' /\ [focus = "hosts" => Fruit]_allVars
<1>. SUFFICES ASSUME FocusInv, [Keyring \/ HostFile \/ ProviderList \/ SettingsFile \/ Transcript]_allVars
              PROVE  FocusInv' /\ [focus = "hosts" => Fruit]_allVars
  OBVIOUS
<1>1. CASE HostFile
  BY <1>1, HostSteps DEF HostFile, FocusInv
<1>2. CASE Keyring \/ ProviderList \/ SettingsFile \/ Transcript
  BY <1>2 DEF Keyring, ProviderList, SettingsFile, Transcript, FocusInv
<1>3. CASE UNCHANGED allVars
  BY <1>3 DEF allVars, hostVars, FocusInv, HostInv, HostTyped, Unborn, Solo, Apart, Shape, Remembers, Grounded
<1>. QED BY <1>1, <1>2, <1>3

(* The inductive invariant of a host and its secret.                       *)
THEOREM HostInvariant == StoresSpec => []FocusInv
<1>1. StoresInit => FocusInv
  BY HostBegins DEF StoresInit, HostInit, FocusInv
<1>. QED BY <1>1, FocusKept, PTL DEF StoresSpec

(* No secret is left without a host, but where a remove overlapped a save  *)
(* or a clear or hosts.json could not be written: whatever else overlaps,  *)
(* whatever fails in the keyring, and wherever the process ends.           *)
THEOREM NoOrphans == StoresSpec => []OrphansExplained
<1>1. FocusInv => OrphansExplained
  <2>. SUFFICES ASSUME focus = "hosts", HostInv PROVE Hosts!OrphansExplained
    BY DEF FocusInv, OrphansExplained
  <2>1. Hosts!TypeOK
    BY DEF HostInv, HostTyped, HostCalls, Hosts!TypeOK
  <2>2. crossed \/ unwritten \/ (secret # None => disk # "absent")
    BY DEF HostInv
  <2>. QED BY <2>1, <2>2 DEF Hosts!OrphansExplained
<1>. QED BY <1>1, HostInvariant, PTL

(* A call that no other overlaps, and that fails, has left or put back the *)
(* secret it found, unless its rollback failed too, or a clear broke the   *)
(* entry, or the first read failed and there was nothing to roll back to.  *)
THEOREM FailuresRestore == StoresSpec => FailureRestores
<1>1. StoresSpec => [][focus = "hosts" => Fruit]_allVars
  BY FocusKept, HostInvariant, PTL DEF StoresSpec
<1>. QED BY <1>1 DEF FailureRestores, Fruit, Hosts!Restores

-----------------------------------------------------------------------------
(* The providers and their keys: what a call k may be up to.               *)

Ids == Others \cup {Legacy}

ProvCalls == [op: Providers!Ops \cup {"none"},
              at: {"idle", "old", "dest", "copy", "drop", "present", "migrate", "read", "write", "forget", "keep"},
              id: Ids \cup {None}, key: Keys \cup {None}, seen: Keys \cup {None}, list: Seq(Ids),
              default: Ids \cup {None}]

Has(list, id) == Providers!Contains(list, id)

Once(list) == Providers!IsInjective(list)

Fits(k) ==
    /\ k.op = "none" <=> k.at = "idle"
    /\ k.op # "none" => k.id \in Ids
    /\ k.at \in {"dest", "copy", "drop"} => k.seen # None
    /\ k.at \in {"read", "write", "forget", "keep"} => k.op # "none"
    /\ k.at = "write" => k.op \in {"upsert", "delete", "default"}
    /\ k.at = "forget" => k.op = "delete"
    /\ k.at = "keep" => k.op = "key"
    /\ k.op = "none" => k.list = <<>>

(* The key an older version left is in one of two places, unless the user  *)
(* disposed of it.                                                         *)
LegacySafe(k) ==
    /\ k.at = "drop" => keys[Legacy] # None \/ touched
    /\ k.op \in {"key", "delete"} /\ k.id = Legacy => touched

(* The ids whose key is, for the moment, not in the list.                  *)
Owed(k) ==
    {id \in Ids : \/ id = Legacy /\ k.at = "drop"
                  \/ id = Legacy /\ k.at \in {"present", "migrate"} /\ k.seen # None
                  \/ id = k.id /\ k.at = "forget"}

(* While calls have neither overlapped nor been cut off: what a call knows *)
(* of the old key, which is there or not, and of the list, which the file  *)
(* has or not.                                                             *)
Tidy(k, old, has, list) ==
    /\ k.at \in {"dest", "copy"} => old # None
    /\ k.at \in {"present", "migrate", "read", "write", "forget", "keep"} => old = None
    /\ k.at = "drop" \/ (k.at = "present" /\ k.seen # None) => ~has \/ Has(list, Legacy)
    /\ k.at = "migrate" => /\ \A id \in Ids : Has(list, id) => Has(k.list, id)
                           /\ k.seen # None => Has(k.list, Legacy)
    /\ k.at = "write" /\ k.op = "upsert" => \A id \in Ids : Has(list, id) => Has(k.list, id)
    /\ k.at = "write" /\ k.op = "delete" => \A id \in Ids \ {k.id} : Has(list, id) => Has(k.list, id)
    /\ k.at = "keep" => Has(list, k.id)

ProvTyped ==
    /\ present \in BOOLEAN /\ providers \in Seq(Ids) /\ default \in Ids \cup {None}
    /\ keys \in [Ids \cup {Old} -> Keys \cup {None}]
    /\ provRaced \in BOOLEAN /\ broken \in BOOLEAN /\ touched \in BOOLEAN
    /\ provCall \in [Callers -> ProvCalls]
    /\ Once(providers) /\ \A c \in Callers : Once(provCall[c].list)
    /\ ~present => providers \in {<<>>, <<Legacy>>}

OneCall == \A c, d \in Callers : provCall[c].op # "none" /\ provCall[d].op # "none" => c = d

Reachable(id) == keys[id] # None => Has(providers, id) \/ \E c \in Callers : id \in Owed(provCall[c])

ProvInv ==
    /\ ProvTyped
    /\ \A c \in Callers : Fits(provCall[c]) /\ LegacySafe(provCall[c])
    /\ ~provRaced => OneCall
    /\ ~provRaced /\ ~broken => /\ keys[Old] # None => ~present \/ Has(providers, Legacy)
                                /\ \A c \in Callers : Tidy(provCall[c], keys[Old], present, providers)
                                /\ \A id \in Ids : Reachable(id)

(* Lists.                                                                  *)
LEMMA EmptyList ==
    /\ <<>> \in Seq(Ids) /\ Once(<<>>) /\ \A id : ~Has(<<>>, id)
    /\ <<Legacy>> \in Seq(Ids) /\ Once(<<Legacy>>) /\ Has(<<Legacy>>, Legacy)
<1>1. <<>> \in Seq(Ids) /\ Len(<<>>) = 0 /\ DOMAIN <<>> = {} /\ 1 .. 0 = {}
  OBVIOUS
<1>2. <<Legacy>> \in Seq(Ids) /\ Len(<<Legacy>>) = 1 /\ DOMAIN <<Legacy>> = {1} /\ <<Legacy>>[1] = Legacy
  BY DEF Ids
<1>3. Once(<<>>) /\ \A id : ~Has(<<>>, id)
  BY <1>1 DEF Once, Has, Providers!IsInjective, Providers!Contains
<1>4. Once(<<Legacy>>) /\ Has(<<Legacy>>, Legacy)
  BY <1>2 DEF Once, Has, Providers!IsInjective, Providers!Contains
<1>. QED BY <1>1, <1>2, <1>3, <1>4

LEMMA Longer ==
    ASSUME NEW list \in Seq(Ids), Once(list), NEW id \in Ids, ~Has(list, id)
    PROVE  /\ Append(list, id) \in Seq(Ids) /\ Once(Append(list, id)) /\ Has(Append(list, id), id)
           /\ \A e : Has(list, e) => Has(Append(list, id), e)
<1>1. Len(list) \in Nat /\ DOMAIN list = 1 .. Len(list)
  BY LenProperties
<1>2. PICK longer : longer = Append(list, id)
  OBVIOUS
<1>3. /\ longer \in Seq(Ids) /\ Len(longer) = Len(list) + 1 /\ longer[Len(list) + 1] = id
      /\ \A i \in 1 .. Len(list) : longer[i] = list[i]
      /\ DOMAIN longer = 1 .. Len(list) + 1
  BY <1>1, <1>2, AppendProperties, LenProperties
<1>4. ASSUME NEW i \in 1 .. Len(list) + 1, NEW j \in 1 .. Len(list) + 1, longer[i] = longer[j] PROVE i = j
  <2>1. \A n \in 1 .. Len(list) : list[n] # id
    BY DEF Has, Providers!Contains
  <2>2. \A n, m \in 1 .. Len(list) : list[n] = list[m] => n = m
    BY <1>1 DEF Once, Providers!IsInjective
  <2>. QED BY <1>1, <1>3, <1>4, <2>1, <2>2
<1>5. Once(longer)
  BY <1>3, <1>4 DEF Once, Providers!IsInjective
<1>6. Has(longer, id) /\ \A e : Has(list, e) => Has(longer, e)
  BY <1>1, <1>3 DEF Has, Providers!Contains
<1>. QED BY <1>2, <1>3, <1>5, <1>6

LEMMA Shorter ==
    ASSUME NEW list \in Seq(Ids), Once(list), NEW id \in Ids, Has(list, id),
           NEW i, i = CHOOSE j \in DOMAIN list : list[j] = id
    PROVE  /\ Providers!RemoveAt(list, i) \in Seq(Ids) /\ Once(Providers!RemoveAt(list, i))
           /\ \A e : Has(list, e) /\ e # id => Has(Providers!RemoveAt(list, i), e)
<1>1. Len(list) \in Nat /\ DOMAIN list = 1 .. Len(list)
  BY LenProperties
<1>2. i \in 1 .. Len(list) /\ list[i] = id
  BY <1>1 DEF Has, Providers!Contains
<1>3. PICK front : front = SubSeq(list, 1, i - 1)
  OBVIOUS
<1>4. PICK back : back = SubSeq(list, i + 1, Len(list))
  OBVIOUS
<1>5. front \in Seq(Ids) /\ Len(front) = i - 1 /\ \A n \in 1 .. i - 1 : front[n] = list[n]
  <2>1. 1 \in 1 .. Len(list) + 1 /\ i - 1 \in 0 .. Len(list) /\ 1 <= (i - 1) + 1
    BY <1>1, <1>2
  <2>. QED BY <1>1, <1>2, <1>3, <2>1, SubSeqProperties
<1>6. back \in Seq(Ids) /\ Len(back) = Len(list) - i /\ \A n \in 1 .. Len(list) - i : back[n] = list[n + i]
  <2>1. i + 1 \in 1 .. Len(list) + 1 /\ Len(list) \in 0 .. Len(list) /\ i + 1 <= Len(list) + 1
    BY <1>1, <1>2
  <2>. QED BY <1>1, <1>2, <1>4, <2>1, SubSeqProperties
<1>7. PICK rest : rest = front \o back
  OBVIOUS
<1>8. /\ rest \in Seq(Ids) /\ Len(rest) = Len(list) - 1
      /\ \A n \in 1 .. i - 1 : rest[n] = list[n]
      /\ \A n \in i .. Len(list) - 1 : rest[n] = list[n + 1]
  <2>1. front \in Seq(Ids) /\ back \in Seq(Ids)
    BY <1>5, <1>6
  <2>2. /\ front \o back \in Seq(Ids) /\ Len(front \o back) = Len(front) + Len(back)
        /\ \A n \in 1 .. Len(front) + Len(back) :
             (front \o back)[n] = IF n <= Len(front) THEN front[n] ELSE back[n - Len(front)]
    BY <2>1, ConcatProperties
  <2>3. Len(front) + Len(back) = Len(list) - 1
    BY <1>1, <1>2, <1>5, <1>6
  <2>4. /\ rest \in Seq(Ids) /\ Len(rest) = Len(list) - 1
        /\ \A n \in 1 .. Len(list) - 1 : rest[n] = IF n <= i - 1 THEN front[n] ELSE back[n - (i - 1)]
    BY <1>5, <1>7, <2>2, <2>3
  <2>5. ASSUME NEW n \in 1 .. i - 1 PROVE rest[n] = list[n]
    <3>1. n \in 1 .. Len(list) - 1 /\ n <= i - 1
      BY <1>1, <1>2
    <3>. QED BY <1>5, <2>4, <3>1
  <2>6. ASSUME NEW n \in i .. Len(list) - 1 PROVE rest[n] = list[n + 1]
    <3>1. n - (i - 1) \in 1 .. Len(list) - i /\ n - (i - 1) + i = n + 1 /\ n \in 1 .. Len(list) - 1 /\ ~(n <= i - 1)
      BY <1>1, <1>2
    <3>. QED BY <1>6, <2>4, <3>1
  <2>. QED BY <2>4, <2>5, <2>6
<1>9. DOMAIN rest = 1 .. Len(list) - 1
  BY <1>8, LenProperties
<1>10. Once(rest)
  <2>1. \A n, m \in 1 .. Len(list) : list[n] = list[m] => n = m
    BY <1>1 DEF Once, Providers!IsInjective
  <2>2. ASSUME NEW n \in 1 .. Len(list) - 1
        PROVE  \E a \in 1 .. Len(list) : rest[n] = list[a] /\ a = IF n < i THEN n ELSE n + 1
    <3>1. CASE n < i
      <4>1. n \in 1 .. i - 1 /\ n \in 1 .. Len(list)
        BY <1>1, <1>2, <3>1
      <4>. QED BY <1>8, <3>1, <4>1
    <3>2. CASE ~(n < i)
      <4>1. n \in i .. Len(list) - 1 /\ n + 1 \in 1 .. Len(list)
        BY <1>1, <1>2, <3>2
      <4>. QED BY <1>8, <3>2, <4>1
    <3>. QED BY <3>1, <3>2
  <2>3. ASSUME NEW n \in 1 .. Len(list) - 1, NEW m \in 1 .. Len(list) - 1, rest[n] = rest[m] PROVE n = m
    <3>1. PICK a \in 1 .. Len(list) : rest[n] = list[a] /\ a = IF n < i THEN n ELSE n + 1
      BY <2>2
    <3>2. PICK b \in 1 .. Len(list) : rest[m] = list[b] /\ b = IF m < i THEN m ELSE m + 1
      BY <2>2
    <3>3. a = b
      BY <2>1, <2>3, <3>1, <3>2
    <3>. QED BY <1>1, <1>2, <3>1, <3>2, <3>3
  <2>. QED BY <1>9, <2>3 DEF Once, Providers!IsInjective
<1>11. ASSUME NEW e, Has(list, e), e # id PROVE Has(rest, e)
  <2>1. PICK n \in 1 .. Len(list) : list[n] = e
    BY <1>11 DEF Has, Providers!Contains
  <2>2. \E m \in 1 .. Len(rest) : rest[m] = e
    <3>1. CASE n < i
      <4>1. n \in 1 .. i - 1 /\ n \in 1 .. Len(rest)
        BY <1>1, <1>2, <1>8, <3>1
      <4>. QED BY <1>8, <2>1, <4>1
    <3>2. CASE n > i
      <4>1. n - 1 \in i .. Len(list) - 1 /\ n - 1 + 1 = n /\ n - 1 \in 1 .. Len(rest)
        BY <1>1, <1>2, <1>8, <3>2
      <4>. QED BY <1>8, <2>1, <4>1
    <3>. QED BY <1>2, <1>11, <2>1, <3>1, <3>2
  <2>. QED BY <2>2 DEF Has, Providers!Contains
<1>. QED BY <1>3, <1>4, <1>7, <1>8, <1>10, <1>11 DEF Providers!RemoveAt

-----------------------------------------------------------------------------
(* The calls about providers.                                              *)

LEMMA ProvIdle ==
    /\ Providers!Idle \in ProvCalls /\ Providers!Idle.op = "none" /\ Providers!Idle.at = "idle"
    /\ Fits(Providers!Idle) /\ Once(Providers!Idle.list) /\ Owed(Providers!Idle) = {}
    /\ \A old, has, list : Tidy(Providers!Idle, old, has, list)
    /\ LegacySafe(Providers!Idle) /\ LegacySafe(Providers!Idle)'
BY EmptyList DEF Providers!Idle, ProvCalls, Fits, Owed, Tidy, LegacySafe

(* Two calls are under way only if they raced.                             *)
LEMMA OthersIdle ==
    ASSUME ProvInv, ~provRaced, NEW c \in Callers, provCall[c].op # "none"
    PROVE  \A d \in Callers : d # c => provCall[d].op = "none"
BY DEF ProvInv, OneCall

LEMMA OwesNothing ==
    ASSUME NEW k, Fits(k), k.op = "none"
    PROVE  Owed(k) = {} /\ \A old, has, list : Tidy(k, old, has, list)
BY DEF Fits, Owed, Tidy

LEMMA ProvFacts ==
    ASSUME ProvInv, NEW c \in Callers
    PROVE  /\ present \in BOOLEAN /\ providers \in Seq(Ids) /\ default \in Ids \cup {None}
           /\ keys \in [Ids \cup {Old} -> Keys \cup {None}]
           /\ provRaced \in BOOLEAN /\ broken \in BOOLEAN /\ touched \in BOOLEAN
           /\ provCall \in [Callers -> ProvCalls] /\ provCall[c] \in ProvCalls
           /\ Once(providers) /\ Once(provCall[c].list)
           /\ ~present => providers \in {<<>>, <<Legacy>>}
           /\ Fits(provCall[c]) /\ LegacySafe(provCall[c])
BY DEF ProvInv, ProvTyped

LEMMA CalmFacts ==
    ASSUME ProvInv, ~provRaced, ~broken, NEW c \in Callers
    PROVE  /\ keys[Old] # None => ~present \/ Has(providers, Legacy)
           /\ Tidy(provCall[c], keys[Old], present, providers)
           /\ provCall[c].op # "none" =>
                \A id \in Ids : keys[id] # None => Has(providers, id) \/ id \in Owed(provCall[c])
<1>1. /\ keys[Old] # None => ~present \/ Has(providers, Legacy)
      /\ Tidy(provCall[c], keys[Old], present, providers)
  BY DEF ProvInv
<1>2. ASSUME provCall[c].op # "none", NEW id \in Ids, keys[id] # None, ~Has(providers, id)
      PROVE  id \in Owed(provCall[c])
  <2>1. PICK d \in Callers : id \in Owed(provCall[d])
    BY <1>2 DEF ProvInv, Reachable
  <2>2. d # c => Owed(provCall[d]) = {}
    BY <1>2, OthersIdle, OwesNothing DEF ProvInv
  <2>. QED BY <2>1, <2>2
<1>. QED BY <1>1, <1>2

(* A call that goes on to k, and does what it does to the two stores.      *)
LEMMA ProvGoesOn ==
    ASSUME ProvInv, NEW c \in Callers, provCall[c].op # "none",
           NEW k \in ProvCalls, provCall' = [provCall EXCEPT ![c] = k], Fits(k), Once(k.list),
           UNCHANGED <<provRaced, touched>>, broken' \in BOOLEAN, broken => broken',
           present' \in BOOLEAN, providers' \in Seq(Ids), default' \in Ids \cup {None}, Once(providers'),
           ~present' => providers' \in {<<>>, <<Legacy>>},
           keys' \in [Ids \cup {Old} -> Keys \cup {None}],
           LegacySafe(k)', keys[Legacy] # None \/ touched => keys'[Legacy] # None \/ touched,
           ~provRaced /\ ~broken' =>
             /\ keys'[Old] # None => ~present' \/ Has(providers', Legacy)
             /\ Tidy(k, keys'[Old], present', providers')
             /\ \A id \in Ids : keys'[id] # None => Has(providers', id) \/ id \in Owed(k)
    PROVE  ProvInv'
<1>1. /\ provCall' \in [Callers -> ProvCalls] /\ provCall'[c] = k
      /\ \A d \in Callers \ {c} : provCall'[d] = provCall[d]
  BY ProvFacts
<1>2. \A d \in Callers : Once(provCall'[d].list) /\ Fits(provCall'[d])
  BY <1>1, ProvFacts
<1>3. ProvTyped'
  BY <1>1, <1>2, ProvFacts DEF ProvTyped, Once
<1>4. ASSUME NEW d \in Callers PROVE LegacySafe(provCall[d])' /\ Fits(provCall[d])'
  <2>1. CASE d = c
    BY <1>1, <2>1 DEF LegacySafe, Fits
  <2>2. CASE d # c
    BY <1>1, <1>2, <2>2, ProvFacts DEF LegacySafe, Fits
  <2>. QED BY <2>1, <2>2
<1>5. (~provRaced => OneCall)'
  BY <1>1, OthersIdle DEF OneCall
<1>6. ASSUME ~provRaced, ~broken', NEW d \in Callers
      PROVE  Tidy(provCall[d], keys[Old], present, providers)'
  <2>1. Tidy(provCall'[d], keys'[Old], present', providers')
    <3>1. CASE d = c
      BY <1>1, <1>6, <3>1
    <3>2. CASE d # c
      BY <1>1, <1>2, <1>6, <3>2, OthersIdle, OwesNothing
    <3>. QED BY <3>1, <3>2
  <2>. QED BY <2>1 DEF Tidy, Has
<1>7. ASSUME ~provRaced, ~broken', NEW id \in Ids PROVE Reachable(id)'
  BY <1>1, <1>7 DEF Reachable, Owed, Has
<1>. QED BY <1>3, <1>4, <1>5, <1>6, <1>7 DEF ProvInv, Has

KeyStays == Providers!KeyStays

(* A step that touches neither file nor keys.                              *)
LEMMA ProvLooks ==
    ASSUME ProvInv, NEW c \in Callers, provCall[c].op # "none",
           NEW k \in ProvCalls, provCall' = [provCall EXCEPT ![c] = k], Fits(k), Once(k.list),
           UNCHANGED <<present, providers, default, keys, provRaced, touched>>,
           broken' \in BOOLEAN, broken => broken', LegacySafe(k),
           ~provRaced /\ ~broken' => /\ Tidy(k, keys[Old], present, providers)
                                     /\ \A id \in Owed(provCall[c]) : id \in Owed(k) \/ Has(providers, id)
    PROVE  ProvInv' /\ KeyStays
<1>1. LegacySafe(k)'
  BY DEF LegacySafe
<1>2. ProvInv'
  BY <1>1, ProvFacts, CalmFacts, ProvGoesOn
<1>. QED BY <1>2 DEF KeyStays, Providers!KeyStays, Providers!HasKey

(* Where a call goes from where it is.                                     *)
LEMMA ProvGo ==
    ASSUME ProvInv, NEW c \in Callers,
           NEW place \in {"copy", "drop", "present"}, Providers!Go(c, place)
    PROVE  \E k \in ProvCalls : /\ provCall' = [provCall EXCEPT ![c] = k] /\ k.at = place
                                /\ k.op = provCall[c].op /\ k.id = provCall[c].id /\ k.seen = provCall[c].seen
                                /\ k.list = provCall[c].list
<1>1. PICK k : k = [provCall[c] EXCEPT !.at = place]
  OBVIOUS
<1>2. /\ k \in ProvCalls /\ k.at = place /\ k.op = provCall[c].op /\ k.id = provCall[c].id
      /\ k.seen = provCall[c].seen /\ k.list = provCall[c].list
  BY <1>1, ProvFacts DEF ProvCalls
<1>3. provCall' = [provCall EXCEPT ![c] = k]
  BY <1>1, ProvFacts DEF Providers!Go
<1>. QED BY <1>2, <1>3

LEMMA ReadOldKeeps ==
    ASSUME ProvInv, NEW c \in Callers, Providers!ReadOld(c)
    PROVE  ProvInv' /\ KeyStays
<1>1. /\ provCall[c].at = "old" /\ UNCHANGED <<present, providers, default, keys, provRaced, broken, touched>>
  BY DEF Providers!ReadOld, Providers!file, Providers!past
<1>2. provCall[c].op # "none" /\ keys[Old] \in Keys \cup {None}
  BY <1>1, ProvFacts DEF Fits
<1>3. PICK k : k = [provCall[c] EXCEPT !.seen = keys[Old], !.at = IF keys[Old] = None THEN "present" ELSE "dest"]
  OBVIOUS
<1>4. /\ k \in ProvCalls /\ k.op = provCall[c].op /\ k.id = provCall[c].id /\ k.list = provCall[c].list
      /\ k.seen = keys[Old] /\ k.at = IF keys[Old] = None THEN "present" ELSE "dest"
  BY <1>2, <1>3, ProvFacts DEF ProvCalls
<1>5. provCall' = [provCall EXCEPT ![c] = k]
  BY <1>3, ProvFacts DEF Providers!ReadOld
<1>6. Fits(k) /\ Once(k.list) /\ LegacySafe(k) /\ Tidy(k, keys[Old], present, providers)
  BY <1>1, <1>2, <1>4, ProvFacts DEF Fits, LegacySafe, Tidy
<1>7. Owed(provCall[c]) = {}
  BY <1>1 DEF Owed
<1>. QED BY <1>1, <1>2, <1>4, <1>5, <1>6, <1>7, ProvFacts, ProvLooks

LEMMA ReadDestKeeps ==
    ASSUME ProvInv, NEW c \in Callers, Providers!ReadDest(c)
    PROVE  ProvInv' /\ KeyStays
<1>1. /\ provCall[c].at = "dest" /\ UNCHANGED <<present, providers, default, keys, provRaced, broken, touched>>
      /\ Providers!Go(c, IF keys[Legacy] = None THEN "copy" ELSE "drop")
  BY DEF Providers!ReadDest, Providers!file, Providers!past
<1>2. provCall[c].op # "none"
  BY <1>1, ProvFacts DEF Fits
<1>3. PICK k \in ProvCalls : /\ provCall' = [provCall EXCEPT ![c] = k]
                             /\ k.at = (IF keys[Legacy] = None THEN "copy" ELSE "drop")
                             /\ k.op = provCall[c].op /\ k.id = provCall[c].id
                             /\ k.seen = provCall[c].seen /\ k.list = provCall[c].list
  BY <1>1, ProvGo
<1>4. Fits(k) /\ Once(k.list) /\ LegacySafe(k)
  BY <1>1, <1>2, <1>3, ProvFacts DEF Fits, LegacySafe
<1>5. ~provRaced /\ ~broken => Tidy(k, keys[Old], present, providers)
  BY <1>1, <1>3, CalmFacts DEF Tidy
<1>6. Owed(provCall[c]) = {}
  BY <1>1 DEF Owed
<1>. QED BY <1>1, <1>2, <1>3, <1>4, <1>5, <1>6, ProvFacts, ProvLooks

LEMMA CopyKeyKeeps ==
    ASSUME ProvInv, NEW c \in Callers, Providers!CopyKey(c)
    PROVE  ProvInv' /\ KeyStays
<1>1. /\ provCall[c].at = "copy" /\ UNCHANGED <<present, providers, default, provRaced, broken, touched>>
      /\ Providers!Go(c, "drop") /\ keys' = [keys EXCEPT ![Legacy] = provCall[c].seen]
  BY DEF Providers!CopyKey, Providers!file, Providers!past
<1>2. provCall[c].op # "none" /\ provCall[c].seen \in Keys
  BY <1>1, ProvFacts DEF Fits, ProvCalls
<1>3. PICK k \in ProvCalls : /\ provCall' = [provCall EXCEPT ![c] = k] /\ k.at = "drop"
                             /\ k.op = provCall[c].op /\ k.id = provCall[c].id
                             /\ k.seen = provCall[c].seen /\ k.list = provCall[c].list
  BY <1>1, ProvGo
<1>4. /\ keys' \in [Ids \cup {Old} -> Keys \cup {None}] /\ keys'[Legacy] # None /\ keys'[Old] = keys[Old]
      /\ \A id \in Ids \ {Legacy} : keys'[id] = keys[id]
  BY <1>1, <1>2, ProvFacts, ProvidersAssumption DEF Ids
<1>5. Fits(k) /\ Once(k.list) /\ LegacySafe(k)'
  BY <1>1, <1>2, <1>3, <1>4, ProvFacts DEF Fits, LegacySafe
<1>6. ASSUME ~provRaced, ~broken
      PROVE  /\ keys'[Old] # None => ~present \/ Has(providers, Legacy)
             /\ Tidy(k, keys'[Old], present, providers)
             /\ \A id \in Ids : keys'[id] # None => Has(providers, id) \/ id \in Owed(k)
  <2>1. Tidy(k, keys'[Old], present, providers)
    BY <1>1, <1>3, <1>4, <1>6, CalmFacts DEF Tidy
  <2>2. Legacy \in Owed(k) /\ Owed(provCall[c]) = {}
    BY <1>1, <1>3 DEF Owed, Ids
  <2>. QED BY <1>2, <1>4, <1>6, <2>1, <2>2, CalmFacts
<1>7. ProvInv'
  BY <1>1, <1>2, <1>3, <1>4, <1>5, <1>6, ProvFacts, ProvGoesOn
<1>. QED BY <1>4, <1>7 DEF KeyStays, Providers!KeyStays, Providers!HasKey

LEMMA DropOldKeeps ==
    ASSUME ProvInv, NEW c \in Callers, Providers!DropOld(c)
    PROVE  ProvInv' /\ KeyStays
<1>1. /\ provCall[c].at = "drop" /\ UNCHANGED <<present, providers, default, provRaced, broken, touched>>
      /\ Providers!Go(c, "present") /\ keys' = [keys EXCEPT ![Old] = None]
  BY DEF Providers!DropOld, Providers!file, Providers!past
<1>2. provCall[c].op # "none" /\ provCall[c].seen # None
  BY <1>1, ProvFacts DEF Fits
<1>3. PICK k \in ProvCalls : /\ provCall' = [provCall EXCEPT ![c] = k] /\ k.at = "present"
                             /\ k.op = provCall[c].op /\ k.id = provCall[c].id
                             /\ k.seen = provCall[c].seen /\ k.list = provCall[c].list
  BY <1>1, ProvGo
<1>4. /\ keys' \in [Ids \cup {Old} -> Keys \cup {None}] /\ keys'[Old] = None
      /\ \A id \in Ids : keys'[id] = keys[id]
      /\ Legacy \in Ids
  BY <1>1, <1>2, ProvFacts, ProvidersAssumption DEF Ids
<1>5. Fits(k) /\ Once(k.list) /\ LegacySafe(k)'
  BY <1>1, <1>2, <1>3, <1>4, ProvFacts DEF Fits, LegacySafe
<1>6. ASSUME ~provRaced, ~broken
      PROVE  /\ keys'[Old] # None => ~present \/ Has(providers, Legacy)
             /\ Tidy(k, keys'[Old], present, providers)
             /\ \A id \in Ids : keys'[id] # None => Has(providers, id) \/ id \in Owed(k)
  <2>1. Tidy(k, keys'[Old], present, providers)
    BY <1>1, <1>3, <1>4, <1>6, CalmFacts DEF Tidy
  <2>2. Owed(provCall[c]) = Owed(k)
    BY <1>1, <1>2, <1>3 DEF Owed
  <2>. QED BY <1>2, <1>4, <1>6, <2>1, <2>2, CalmFacts
<1>7. ProvInv'
  BY <1>1, <1>2, <1>3, <1>4, <1>5, <1>6, ProvFacts, ProvGoesOn
<1>8. keys[Legacy] # None \/ touched
  BY <1>1, ProvFacts DEF LegacySafe
<1>. QED BY <1>4, <1>7, <1>8 DEF KeyStays, Providers!KeyStays, Providers!HasKey

LEMMA ReadListKeeps ==
    ASSUME ProvInv, NEW c \in Callers, Providers!ReadList(c)
    PROVE  ProvInv' /\ KeyStays
<1>1. /\ provCall[c].at = "present" /\ UNCHANGED <<present, providers, default, keys, provRaced, broken, touched>>
  BY DEF Providers!ReadList, Providers!file, Providers!past
<1>2. provCall[c].op # "none"
  BY <1>1, ProvFacts DEF Fits
<1>3. CASE Providers!NothingToMigrate(c)
  <2>1. PICK k : k = [provCall[c] EXCEPT !.list = <<>>, !.default = None, !.at = "read"]
    OBVIOUS
  <2>2. /\ k \in ProvCalls /\ k.op = provCall[c].op /\ k.id = provCall[c].id /\ k.seen = provCall[c].seen
        /\ k.list = <<>> /\ k.at = "read"
    BY <2>1, ProvFacts, EmptyList DEF ProvCalls
  <2>3. provCall' = [provCall EXCEPT ![c] = k]
    BY <1>3, <2>1, ProvFacts DEF Providers!ReadList
  <2>4. Fits(k) /\ Once(k.list) /\ LegacySafe(k)
    BY <1>2, <2>2, ProvFacts, EmptyList DEF Fits, LegacySafe
  <2>5. ~provRaced /\ ~broken => /\ Tidy(k, keys[Old], present, providers)
                                 /\ \A id \in Owed(provCall[c]) : Has(providers, id)
    <3>1. ASSUME ~provRaced, ~broken PROVE Tidy(k, keys[Old], present, providers)
      BY <1>1, <2>2, <3>1, CalmFacts DEF Tidy
    <3>2. ASSUME ~provRaced, ~broken, NEW id \in Owed(provCall[c]) PROVE Has(providers, id)
      <4>1. id = Legacy /\ provCall[c].seen # None
        BY <1>1, <3>2 DEF Owed
      <4>2. present
        BY <1>3, <4>1 DEF Providers!NothingToMigrate
      <4>. QED BY <1>1, <3>2, <4>1, <4>2, CalmFacts DEF Tidy
    <3>. QED BY <3>1, <3>2
  <2>. QED BY <1>1, <1>2, <2>2, <2>3, <2>4, <2>5, ProvFacts, ProvLooks
<1>4. CASE ~Providers!NothingToMigrate(c)
  <2>1. PICK k : k = [provCall[c] EXCEPT !.list = Providers!Synthesised, !.default = default, !.at = "migrate"]
    OBVIOUS
  <2>2. /\ Providers!Synthesised \in Seq(Ids) /\ Once(Providers!Synthesised) /\ Has(Providers!Synthesised, Legacy)
        /\ \A id : Has(providers, id) => Has(Providers!Synthesised, id)
    BY <1>4, ProvFacts, EmptyList DEF Providers!NothingToMigrate, Providers!Synthesised
  <2>3. /\ k \in ProvCalls /\ k.op = provCall[c].op /\ k.id = provCall[c].id /\ k.seen = provCall[c].seen
        /\ k.list = Providers!Synthesised /\ k.at = "migrate"
    BY <2>1, <2>2, ProvFacts DEF ProvCalls
  <2>4. provCall' = [provCall EXCEPT ![c] = k]
    BY <1>4, <2>1, ProvFacts DEF Providers!ReadList
  <2>5. Fits(k) /\ Once(k.list) /\ LegacySafe(k)
    BY <1>2, <2>2, <2>3, ProvFacts DEF Fits, LegacySafe
  <2>6. ~provRaced /\ ~broken => Tidy(k, keys[Old], present, providers)
    <3>1. ~provRaced /\ ~broken => keys[Old] = None
      BY <1>1, CalmFacts DEF Tidy
    <3>. QED BY <2>2, <2>3, <3>1 DEF Tidy
  <2>7. Owed(provCall[c]) = Owed(k)
    BY <1>1, <2>3 DEF Owed
  <2>. QED BY <1>1, <1>2, <2>3, <2>4, <2>5, <2>6, <2>7, ProvFacts, ProvLooks
<1>. QED BY <1>3, <1>4

(* settings.Store.Set.                                                     *)
LEMMA SetTyped ==
    ASSUME NEW list \in Seq(Ids), NEW id \in Ids \cup {None}, Providers!Set(list, id)
    PROVE  present' = TRUE /\ providers' = list /\ default' \in Ids \cup {None}
<1>1. list # <<>> => Head(list) \in Ids
  BY HeadTailProperties
<1>2. Providers!normalizeAgentDefault(id, list) \in Ids \cup {None}
  <2>1. Providers!Contains(list, id) => id \in Ids
    <3>1. \A n \in 1 .. Len(list) : list[n] \in Ids
      BY LenProperties, ElementOfSeq
    <3>. QED BY <3>1 DEF Providers!Contains
  <2>. QED BY <1>1, <2>1 DEF Providers!normalizeAgentDefault
<1>. QED BY <1>2 DEF Providers!Set

LEMMA WriteListKeeps ==
    ASSUME ProvInv, NEW c \in Callers, Providers!WriteList(c)
    PROVE  ProvInv' /\ KeyStays
<1>1. /\ provCall[c].at = "migrate" /\ UNCHANGED <<keys, provRaced, broken, touched>>
      /\ Providers!Set(provCall[c].list, provCall[c].default)
  BY DEF Providers!WriteList, Providers!past
<1>2. /\ provCall[c].op # "none" /\ provCall[c].list \in Seq(Ids) /\ provCall[c].default \in Ids \cup {None}
  BY <1>1, ProvFacts DEF Fits, ProvCalls
<1>3. present' = TRUE /\ providers' = provCall[c].list /\ default' \in Ids \cup {None}
  BY <1>1, <1>2, SetTyped
<1>4. PICK k : k = [provCall[c] EXCEPT !.list = <<>>, !.default = None, !.at = "read"]
  OBVIOUS
<1>5. /\ k \in ProvCalls /\ k.op = provCall[c].op /\ k.id = provCall[c].id /\ k.seen = provCall[c].seen
      /\ k.list = <<>> /\ k.at = "read"
  BY <1>4, ProvFacts, EmptyList DEF ProvCalls
<1>6. provCall' = [provCall EXCEPT ![c] = k]
  BY <1>4, ProvFacts DEF Providers!WriteList
<1>7. Fits(k) /\ Once(k.list) /\ LegacySafe(k)'
  BY <1>1, <1>2, <1>5, ProvFacts, EmptyList DEF Fits, LegacySafe
<1>8. ASSUME ~provRaced, ~broken
      PROVE  /\ keys'[Old] # None => ~present' \/ Has(providers', Legacy)
             /\ Tidy(k, keys'[Old], present', providers')
             /\ \A id \in Ids : keys'[id] # None => Has(providers', id) \/ id \in Owed(k)
  <2>1. /\ keys[Old] = None /\ \A id \in Ids : Has(providers, id) => Has(provCall[c].list, id)
        /\ provCall[c].seen # None => Has(provCall[c].list, Legacy)
    BY <1>1, <1>8, CalmFacts DEF Tidy
  <2>2. Tidy(k, keys'[Old], present', providers')
    BY <1>1, <1>5, <2>1 DEF Tidy
  <2>3. \A id \in Owed(provCall[c]) : id = Legacy /\ provCall[c].seen # None
    BY <1>1 DEF Owed
  <2>4. \A id \in Ids : keys[id] # None => Has(provCall[c].list, id)
    BY <1>2, <1>8, <2>1, <2>3, CalmFacts
  <2>. QED BY <1>1, <1>3, <2>1, <2>2, <2>4
<1>9. ProvInv'
  BY <1>1, <1>2, <1>3, <1>5, <1>6, <1>7, <1>8, ProvFacts, ProvGoesOn
<1>. QED BY <1>1, <1>9 DEF KeyStays, Providers!KeyStays, Providers!HasKey

LEMMA ReadKeeps ==
    ASSUME ProvInv, NEW c \in Callers, Providers!Read(c)
    PROVE  ProvInv' /\ KeyStays
<1>1. /\ provCall[c].at = "read" /\ UNCHANGED <<present, providers, default, keys, provRaced, broken, touched>>
  BY DEF Providers!Read, Providers!file, Providers!past
<1>2. provCall[c].op \in Providers!Ops /\ provCall[c].op # "none" /\ provCall[c].id \in Ids /\ Owed(provCall[c]) = {}
  BY <1>1, ProvFacts DEF Fits, ProvCalls, Owed
<1>3. Providers!Listed(c) <=> Has(providers, provCall[c].id)
  BY DEF Providers!Listed, Has
<1>4. CASE provCall[c].op = "prompt" \/ (provCall[c].op # "upsert" /\ ~Providers!Listed(c))
  <2>1. provCall' = [provCall EXCEPT ![c] = Providers!Idle]
    BY <1>4 DEF Providers!Read, Providers!End
  <2>. QED BY <1>1, <1>2, <2>1, ProvIdle, ProvFacts, ProvLooks
<1>5. CASE ~(provCall[c].op = "prompt" \/ (provCall[c].op # "upsert" /\ ~Providers!Listed(c)))
  <2>1. PICK list : list = CASE provCall[c].op = "upsert" -> Providers!Upserted(c)
                             [] provCall[c].op = "delete" -> Providers!Deleted(c)
                             [] OTHER -> <<>>
    OBVIOUS
  <2>2. PICK to : to = IF provCall[c].op = "upsert" THEN default ELSE None
    OBVIOUS
  <2>3. PICK place : place = IF provCall[c].op = "key" THEN "keep" ELSE "write"
    OBVIOUS
  <2>4. /\ list \in Seq(Ids) /\ Once(list)
        /\ provCall[c].op = "upsert" => \A id \in Ids : Has(providers, id) => Has(list, id)
        /\ provCall[c].op = "delete" => \A id \in Ids \ {provCall[c].id} : Has(providers, id) => Has(list, id)
    <3>1. CASE provCall[c].op = "upsert"
      BY <1>2, <1>3, <2>1, <3>1, ProvFacts, Longer DEF Providers!Upserted
    <3>2. CASE provCall[c].op = "delete"
      <4>1. Has(providers, provCall[c].id)
        BY <1>3, <1>5, <3>2
      <4>2. PICK i : i = CHOOSE j \in DOMAIN providers : providers[j] = provCall[c].id
        OBVIOUS
      <4>3. list = Providers!RemoveAt(providers, i)
        BY <2>1, <3>2, <4>2 DEF Providers!Deleted
      <4>. QED BY <1>2, <3>2, <4>1, <4>2, <4>3, ProvFacts, Shorter
    <3>3. CASE provCall[c].op \notin {"upsert", "delete"}
      BY <2>1, <3>3, EmptyList
    <3>. QED BY <3>1, <3>2, <3>3
  <2>5. PICK k : k = [provCall[c] EXCEPT !.list = list, !.default = to, !.at = place]
    OBVIOUS
  <2>6. /\ k \in ProvCalls /\ k.op = provCall[c].op /\ k.id = provCall[c].id /\ k.seen = provCall[c].seen
        /\ k.list = list /\ k.at = IF provCall[c].op = "key" THEN "keep" ELSE "write"
    BY <2>2, <2>3, <2>4, <2>5, ProvFacts DEF ProvCalls
  <2>7. provCall' = [provCall EXCEPT ![c] = k]
    BY <1>5, <2>1, <2>2, <2>3, <2>5, ProvFacts DEF Providers!Read
  <2>8. Fits(k) /\ Once(k.list) /\ LegacySafe(k)
    BY <1>2, <1>5, <2>4, <2>6, ProvFacts DEF Fits, LegacySafe, Providers!Ops
  <2>9. ~provRaced /\ ~broken => Tidy(k, keys[Old], present, providers)
    <3>1. ~provRaced /\ ~broken => keys[Old] = None
      BY <1>1, CalmFacts DEF Tidy
    <3>2. k.at = "keep" => Has(providers, k.id)
      BY <1>3, <1>5, <2>6
    <3>. QED BY <2>4, <2>6, <3>1, <3>2 DEF Tidy
  <2>. QED BY <1>1, <1>2, <2>6, <2>7, <2>8, <2>9, ProvFacts, ProvLooks
<1>. QED BY <1>4, <1>5

LEMMA WriteKeeps ==
    ASSUME ProvInv, NEW c \in Callers, Providers!Write(c)
    PROVE  ProvInv' /\ KeyStays
<1>1. /\ provCall[c].at = "write" /\ UNCHANGED <<keys, provRaced, broken, touched>>
  BY DEF Providers!Write, Providers!past
<1>2. /\ provCall[c].op \in {"upsert", "delete", "default"} /\ provCall[c].id \in Ids /\ Owed(provCall[c]) = {}
      /\ provCall[c].list \in Seq(Ids) /\ provCall[c].default \in Ids \cup {None}
  BY <1>1, ProvFacts DEF Fits, ProvCalls, Owed
<1>3. PICK list : list = IF provCall[c].op = "default" THEN providers ELSE provCall[c].list
  OBVIOUS
<1>4. list \in Seq(Ids) /\ Once(list)
  BY <1>2, <1>3, ProvFacts
<1>5. \E id \in Ids \cup {None} : Providers!Set(list, id)
  BY <1>2, <1>3, ProvFacts DEF Providers!Write
<1>6. present' = TRUE /\ providers' = list /\ default' \in Ids \cup {None}
  BY <1>4, <1>5, SetTyped
<1>7. PICK k : k = IF provCall[c].op = "delete" THEN [provCall[c] EXCEPT !.list = <<>>, !.at = "forget"] ELSE Providers!Idle
  OBVIOUS
<1>8. /\ k \in ProvCalls /\ provCall' = [provCall EXCEPT ![c] = k] /\ Fits(k) /\ Once(k.list) /\ LegacySafe(k)'
      /\ \A id \in Ids : provCall[c].op = "delete" /\ id = provCall[c].id => id \in Owed(k)
      /\ \A has, l : Tidy(k, None, has, l)
  <2>1. CASE provCall[c].op = "delete"
    <3>1. /\ k \in ProvCalls /\ k.op = "delete" /\ k.id = provCall[c].id /\ k.list = <<>> /\ k.at = "forget"
      BY <1>7, <2>1, ProvFacts, EmptyList DEF ProvCalls
    <3>2. provCall' = [provCall EXCEPT ![c] = k]
      BY <1>7, <2>1, ProvFacts DEF Providers!Write
    <3>3. Fits(k) /\ Once(k.list) /\ LegacySafe(k)'
      BY <1>1, <1>2, <2>1, <3>1, ProvFacts, EmptyList DEF Fits, LegacySafe
    <3>4. \A id \in Ids : id = provCall[c].id => id \in Owed(k)
      BY <3>1 DEF Owed
    <3>5. \A has, l : Tidy(k, None, has, l)
      BY <3>1 DEF Tidy
    <3>. QED BY <3>1, <3>2, <3>3, <3>4, <3>5
  <2>2. CASE provCall[c].op # "delete"
    BY <1>7, <2>2, ProvIdle DEF Providers!Write, Providers!End
  <2>. QED BY <2>1, <2>2
<1>9. ASSUME ~provRaced, ~broken
      PROVE  /\ keys'[Old] # None => ~present' \/ Has(providers', Legacy)
             /\ Tidy(k, keys'[Old], present', providers')
             /\ \A id \in Ids : keys'[id] # None => Has(providers', id) \/ id \in Owed(k)
  <2>1. /\ keys[Old] = None
        /\ provCall[c].op = "upsert" => \A id \in Ids : Has(providers, id) => Has(provCall[c].list, id)
        /\ provCall[c].op = "delete" =>
             \A id \in Ids \ {provCall[c].id} : Has(providers, id) => Has(provCall[c].list, id)
    BY <1>1, <1>9, CalmFacts DEF Tidy
  <2>2. \A id \in Ids : keys[id] # None => Has(providers, id)
    BY <1>2, <1>9, CalmFacts
  <2>3. \A id \in Ids : Has(providers, id) => Has(list, id) \/ (provCall[c].op = "delete" /\ id = provCall[c].id)
    BY <1>2, <1>3, <2>1
  <2>. QED BY <1>1, <1>6, <1>8, <2>1, <2>2, <2>3
<1>10. keys' \in [Ids \cup {Old} -> Keys \cup {None}] /\ provCall[c].op # "none"
  BY <1>1, <1>2, ProvFacts
<1>11. ProvInv'
  BY <1>1, <1>4, <1>6, <1>8, <1>9, <1>10, ProvFacts, ProvGoesOn
<1>. QED BY <1>1, <1>11 DEF KeyStays, Providers!KeyStays, Providers!HasKey

(* Deleting or setting the key of the call's provider, the last step.      *)
LEMMA PutKey ==
    ASSUME ProvInv, NEW c \in Callers, provCall[c].op \in {"key", "delete"}, NEW key \in Keys \cup {None},
           keys' = [keys EXCEPT ![provCall[c].id] = key], provCall' = [provCall EXCEPT ![c] = Providers!Idle],
           UNCHANGED <<present, providers, default, provRaced, broken, touched>>,
           ~provRaced /\ ~broken => /\ \A id \in Owed(provCall[c]) : id = provCall[c].id /\ key = None
                                    /\ key # None => Has(providers, provCall[c].id)
    PROVE  ProvInv' /\ KeyStays
<1>1. /\ provCall[c].op # "none" /\ provCall[c].id \in Ids /\ provCall[c].id # Old
      /\ provCall[c].id = Legacy => touched
  BY ProvFacts, ProvidersAssumption DEF Fits, LegacySafe, Ids
<1>2. /\ keys' \in [Ids \cup {Old} -> Keys \cup {None}] /\ keys'[Old] = keys[Old] /\ keys'[provCall[c].id] = key
      /\ \A id \in Ids \ {provCall[c].id} : keys'[id] = keys[id]
      /\ keys'[Legacy] = keys[Legacy] \/ touched
  BY <1>1, ProvFacts DEF Ids
<1>3. ASSUME ~provRaced, ~broken
      PROVE  /\ keys'[Old] # None => ~present \/ Has(providers, Legacy)
             /\ \A id \in Ids : keys'[id] # None => Has(providers, id)
  BY <1>1, <1>2, <1>3, CalmFacts
<1>4. ProvInv'
  BY <1>1, <1>2, <1>3, ProvIdle, ProvFacts, ProvGoesOn
<1>. QED BY <1>2, <1>4 DEF KeyStays, Providers!KeyStays, Providers!HasKey

LEMMA ForgetKeeps ==
    ASSUME ProvInv, NEW c \in Callers, Providers!Forget(c)
    PROVE  ProvInv' /\ KeyStays
<1>1. /\ provCall[c].at = "forget" /\ UNCHANGED <<present, providers, default, provRaced, broken, touched>>
      /\ keys' = [keys EXCEPT ![provCall[c].id] = None] /\ provCall' = [provCall EXCEPT ![c] = Providers!Idle]
  BY DEF Providers!Forget, Providers!End, Providers!file, Providers!past
<1>2. provCall[c].op = "delete" /\ \A id \in Owed(provCall[c]) : id = provCall[c].id
  BY <1>1, ProvFacts DEF Fits, Owed
<1>. QED BY <1>1, <1>2, PutKey

LEMMA SetKeyKeeps ==
    ASSUME ProvInv, NEW c \in Callers, Providers!SetKey(c)
    PROVE  ProvInv' /\ KeyStays
<1>1. /\ provCall[c].at = "keep" /\ UNCHANGED <<present, providers, default, provRaced, broken, touched>>
      /\ keys' = [keys EXCEPT ![provCall[c].id] = provCall[c].key]
      /\ provCall' = [provCall EXCEPT ![c] = Providers!Idle]
  BY DEF Providers!SetKey, Providers!End, Providers!file, Providers!past
<1>2. provCall[c].op = "key" /\ provCall[c].key \in Keys \cup {None} /\ Owed(provCall[c]) = {}
  BY <1>1, ProvFacts DEF Fits, ProvCalls, Owed
<1>3. ~provRaced /\ ~broken => Has(providers, provCall[c].id)
  BY <1>1, CalmFacts DEF Tidy
<1>. QED BY <1>1, <1>2, <1>3, PutKey

(* A call that ends where it leaves nothing half done owes no key.         *)
LEMMA NothingHalfDone ==
    ASSUME ProvInv, NEW c \in Callers, ~Providers!Halfway(c)
    PROVE  Owed(provCall[c]) = {}
BY ProvFacts DEF Providers!Halfway, Owed, Fits

LEMMA FailsKeeps ==
    ASSUME ProvInv, NEW c \in Callers, Providers!Fails(c)
    PROVE  ProvInv' /\ KeyStays
<1>1. /\ provCall[c].op # "none" /\ UNCHANGED <<present, providers, default, keys, provRaced, touched>>
      /\ provCall' = [provCall EXCEPT ![c] = Providers!Idle] /\ broken' = (broken \/ Providers!Halfway(c))
  BY DEF Providers!Fails, Providers!Fail, Providers!End, Providers!file
<1>2. broken' \in BOOLEAN
  BY <1>1, ProvFacts
<1>3. ~broken' => Owed(provCall[c]) = {}
  BY <1>1, NothingHalfDone
<1>. QED BY <1>1, <1>2, <1>3, ProvIdle, ProvFacts, ProvLooks

LEMMA ProvStartKeeps ==
    ASSUME ProvInv, NEW c \in Callers, NEW op \in Providers!Ops, Providers!Start(c, op)
    PROVE  ProvInv' /\ KeyStays
<1>1. /\ provCall[c].op = "none" /\ UNCHANGED <<present, providers, default, keys, broken>>
      /\ provRaced' = (provRaced \/ \E d \in Callers \ {c} : provCall[d].op # "none")
  BY DEF Providers!Start, Providers!file
<1>2. PICK id \in Ids, key \in Keys \cup {None} :
        /\ provCall' = [provCall EXCEPT ![c] = [Providers!Idle EXCEPT !.op = op, !.at = "old", !.id = id, !.key = key]]
        /\ touched' = (touched \/ (id = Legacy /\ op \in {"key", "delete"}))
  BY DEF Providers!Start, Providers!Ids, Ids
<1>3. PICK k : k = [Providers!Idle EXCEPT !.op = op, !.at = "old", !.id = id, !.key = key]
  OBVIOUS
<1>4. k \in ProvCalls /\ k.op = op /\ k.at = "old" /\ k.id = id /\ k.list = <<>> /\ op # "none"
  BY <1>3, EmptyList DEF ProvCalls, Providers!Idle, Providers!Ops
<1>5. /\ provCall' \in [Callers -> ProvCalls] /\ provCall'[c] = k
      /\ \A d \in Callers \ {c} : provCall'[d] = provCall[d]
  BY <1>2, <1>3, <1>4, ProvFacts
<1>6. Fits(k) /\ Once(k.list) /\ LegacySafe(k)' /\ Owed(k) = {} /\ \A old, has, l : Tidy(k, old, has, l)
  BY <1>2, <1>4, EmptyList DEF Fits, LegacySafe, Owed, Tidy
<1>7. touched => touched'
  BY <1>2
<1>8. \A d \in Callers : Once(provCall'[d].list) /\ Fits(provCall'[d])
  BY <1>5, <1>6, ProvFacts
<1>9. provRaced' \in BOOLEAN /\ touched' \in BOOLEAN
  BY <1>1, <1>2, ProvFacts
<1>10. ProvTyped'
  BY <1>1, <1>5, <1>8, <1>9, ProvFacts DEF ProvTyped, Once
<1>11. ASSUME NEW d \in Callers PROVE Fits(provCall[d])' /\ LegacySafe(provCall[d])'
  <2>1. CASE d = c
    BY <1>5, <1>6, <2>1 DEF Fits, LegacySafe
  <2>2. CASE d # c
    BY <1>1, <1>5, <1>7, <1>8, <2>2, ProvFacts DEF Fits, LegacySafe
  <2>. QED BY <2>1, <2>2
<1>12. ASSUME ~provRaced', NEW d \in Callers, d # c PROVE provCall'[d].op = "none"
  BY <1>1, <1>5, <1>12
<1>13. (~provRaced => OneCall)'
  BY <1>12 DEF OneCall
<1>14. ASSUME ~provRaced', ~broken'
       PROVE  /\ (keys[Old] # None => ~present \/ Has(providers, Legacy))'
              /\ \A d \in Callers : Tidy(provCall[d], keys[Old], present, providers)'
              /\ \A i \in Ids : Reachable(i)'
  <2>1. ASSUME NEW d \in Callers PROVE Tidy(provCall'[d], keys'[Old], present', providers')
    BY <1>5, <1>6, <1>8, <1>12, <1>14, OwesNothing
  <2>2. keys[Old] # None => ~present \/ Has(providers, Legacy)
    BY <1>1, <1>14 DEF ProvInv
  <2>3. \A d \in Callers : provCall[d].op = "none"
    BY <1>1, <1>14
  <2>4. ASSUME NEW i \in Ids, keys[i] # None PROVE Has(providers, i)
    <3>1. \A d \in Callers : Owed(provCall[d]) = {}
      BY <2>3, ProvFacts, OwesNothing
    <3>. QED BY <1>1, <1>14, <2>4, <3>1 DEF ProvInv, Reachable
  <2>. QED BY <1>1, <2>1, <2>2, <2>4 DEF Tidy, Has, Reachable
<1>15. ProvInv'
  BY <1>10, <1>11, <1>13, <1>14 DEF ProvInv
<1>. QED BY <1>1, <1>15 DEF KeyStays, Providers!KeyStays, Providers!HasKey

LEMMA ProvRestartKeeps ==
    ASSUME ProvInv, Providers!Restart
    PROVE  ProvInv' /\ KeyStays
<1>1. /\ provCall' = [c \in Callers |-> Providers!Idle] /\ UNCHANGED <<present, providers, default, keys, provRaced, touched>>
      /\ broken' = (broken \/ \E c \in Callers : Providers!Halfway(c))
  BY DEF Providers!Restart, Providers!file
<1>2. provCall' \in [Callers -> ProvCalls] /\ \A c \in Callers : provCall'[c] = Providers!Idle
  BY <1>1, ProvIdle
<1>3. broken' \in BOOLEAN /\ \A c \in Callers : Once(provCall'[c].list)
  BY <1>1, <1>2, ProvIdle DEF ProvInv, ProvTyped
<1>4. ProvTyped'
  BY <1>1, <1>2, <1>3 DEF ProvInv, ProvTyped, Once
<1>5. \A c \in Callers : Fits(provCall[c])' /\ LegacySafe(provCall[c])'
  BY <1>2, ProvIdle DEF Fits, LegacySafe
<1>6. OneCall'
  BY <1>2, ProvIdle DEF OneCall
<1>7. ASSUME ~provRaced, ~broken'
      PROVE  /\ (keys[Old] # None => ~present \/ Has(providers, Legacy))'
             /\ \A c \in Callers : Tidy(provCall[c], keys[Old], present, providers)'
             /\ \A id \in Ids : Reachable(id)'
  <2>1. \A c \in Callers : Tidy(provCall'[c], keys'[Old], present', providers')
    BY <1>2, ProvIdle
  <2>2. keys[Old] # None => ~present \/ Has(providers, Legacy)
    BY <1>1, <1>7 DEF ProvInv
  <2>3. \A c \in Callers : Owed(provCall[c]) = {}
    BY <1>1, <1>7, NothingHalfDone
  <2>4. \A id \in Ids : keys[id] # None => Has(providers, id)
    BY <1>1, <1>7, <2>3 DEF ProvInv, Reachable
  <2>. QED BY <1>1, <2>1, <2>2, <2>4 DEF Tidy, Has, Reachable
<1>8. ProvInv'
  BY <1>1, <1>4, <1>5, <1>6, <1>7 DEF ProvInv
<1>. QED BY <1>1, <1>8 DEF KeyStays, Providers!KeyStays, Providers!HasKey

LEMMA ProvBegins == Providers!Init => ProvInv
<1>. SUFFICES ASSUME Providers!Init PROVE ProvInv
  OBVIOUS
<1>1. /\ provCall = [c \in Callers |-> Providers!Idle] /\ provRaced = FALSE /\ broken = FALSE /\ touched = FALSE
      /\ \/ present = FALSE /\ providers = <<>> /\ default = None
         \/ present \in BOOLEAN /\ providers = <<Legacy>> /\ default = Legacy
  BY DEF Providers!Init
<1>2. PICK o \in Keys \cup {None}, key \in Keys \cup {None} :
        /\ keys = [i \in Ids \cup {Old} |-> CASE i = Old -> o [] i = Legacy -> key [] OTHER -> None]
        /\ key # None => providers # <<>>
  BY DEF Providers!Init, Providers!Ids, Ids
<1>3. /\ keys \in [Ids \cup {Old} -> Keys \cup {None}] /\ keys[Legacy] = key /\ keys[Old] = o
      /\ \A i \in Ids \ {Legacy} : keys[i] = None
  BY <1>2, ProvidersAssumption DEF Ids
<1>4. /\ present \in BOOLEAN /\ providers \in {<<>>, <<Legacy>>} /\ (present => Has(providers, Legacy))
      /\ (providers # <<>> => Has(providers, Legacy))
      /\ providers \in Seq(Ids) /\ Once(providers) /\ default \in Ids \cup {None}
  BY <1>1, EmptyList DEF Ids
<1>5. provCall \in [Callers -> ProvCalls] /\ \A c \in Callers : provCall[c] = Providers!Idle
  BY <1>1, ProvIdle
<1>6. \A c \in Callers : Once(provCall[c].list)
  BY <1>5, ProvIdle
<1>7. ProvTyped
  BY <1>1, <1>3, <1>4, <1>5, <1>6 DEF ProvTyped
<1>8. OneCall
  BY <1>5, ProvIdle DEF OneCall
<1>9. \A i \in Ids : Reachable(i)
  BY <1>2, <1>3, <1>4 DEF Reachable
<1>. QED BY <1>4, <1>5, <1>7, <1>8, <1>9, ProvIdle DEF ProvInv

LEMMA ProvSteps == ProvInv /\ Providers!Next => ProvInv' /\ KeyStays
BY ReadOldKeeps, ReadDestKeeps, CopyKeyKeeps, DropOldKeeps, ReadListKeeps, WriteListKeeps, ReadKeeps, WriteKeeps,
   ForgetKeeps, SetKeyKeeps, FailsKeeps, ProvStartKeeps, ProvRestartKeeps
   DEF Providers!Next, Providers!Step, Providers!Migrates

LEMMA ProvStutters ==
    ASSUME ProvInv, UNCHANGED provVars
    PROVE  ProvInv' /\ KeyStays
<1>1. UNCHANGED <<present, providers, default, keys, provCall, provRaced, broken, touched>>
  BY DEF provVars
<1>2. ProvTyped'
  BY <1>1 DEF ProvInv, ProvTyped, Once
<1>3. \A c \in Callers : Fits(provCall[c])' /\ LegacySafe(provCall[c])'
  BY <1>1 DEF ProvInv, Fits, LegacySafe
<1>4. (~provRaced => OneCall)'
  BY <1>1 DEF ProvInv, OneCall
<1>5. (~provRaced /\ ~broken => /\ keys[Old] # None => ~present \/ Has(providers, Legacy)
                                /\ \A c \in Callers : Tidy(provCall[c], keys[Old], present, providers)
                                /\ \A id \in Ids : Reachable(id))'
  BY <1>1 DEF ProvInv, Tidy, Has, Reachable, Owed
<1>6. ProvInv'
  BY <1>2, <1>3, <1>4, <1>5 DEF ProvInv
<1>. QED BY <1>1, <1>6 DEF KeyStays, Providers!KeyStays, Providers!HasKey

-----------------------------------------------------------------------------
ProvFocusInv == focus = "providers" => ProvInv

LEMMA ProvFocusKept ==
    ProvFocusInv /\ [Keyring \/ HostFile \/ ProviderList \/ SettingsFile \/ Transcript]_allVars
      => ProvFocusInv' /\ [focus = "providers" => KeyStays]_allVars
<1>. SUFFICES ASSUME ProvFocusInv, [Keyring \/ HostFile \/ ProviderList \/ SettingsFile \/ Transcript]_allVars
              PROVE  ProvFocusInv' /\ [focus = "providers" => KeyStays]_allVars
  OBVIOUS
<1>1. CASE ProviderList
  BY <1>1, ProvSteps DEF ProviderList, ProvFocusInv
<1>2. CASE Keyring \/ HostFile \/ SettingsFile \/ Transcript
  BY <1>2 DEF Keyring, HostFile, SettingsFile, Transcript, ProvFocusInv
<1>3. CASE UNCHANGED allVars
  <2>1. focus' = focus /\ UNCHANGED provVars
    BY <1>3 DEF allVars
  <2>. QED BY <1>3, <2>1, ProvStutters DEF ProvFocusInv
<1>. QED BY <1>1, <1>2, <1>3

(* The inductive invariant of the providers and their keys.                *)
THEOREM ProvidersInvariant == StoresSpec => []ProvFocusInv
<1>1. StoresInit => ProvFocusInv
  BY ProvBegins DEF StoresInit, ProvInit, ProvFocusInv
<1>. QED BY <1>1, ProvFocusKept, PTL DEF StoresSpec

(* The key of an older version is never lost, whatever calls overlap, fail *)
(* or die, and where none has, every key has a provider in the list once   *)
(* no call is under way.                                                   *)
THEOREM KeysSafe == StoresSpec => KeysKept
<1>1. ProvFocusInv => (focus = "providers" => Providers!TypeOK /\ Providers!KeysHaveProviders)
  <2>. SUFFICES ASSUME ProvInv PROVE Providers!TypeOK /\ Providers!KeysHaveProviders
    BY DEF ProvFocusInv
  <2>1. Providers!TypeOK
    BY DEF ProvInv, ProvTyped, ProvCalls, Once, Ids, Providers!TypeOK, Providers!Ids
  <2>2. ASSUME \A c \in Callers : provCall[c].op = "none", ~provRaced, ~broken, NEW id \in Ids, keys[id] # None
        PROVE  Has(providers, id)
    <3>1. \A c \in Callers : Owed(provCall[c]) = {}
      BY <2>2, ProvFacts, OwesNothing
    <3>. QED BY <2>2, <3>1 DEF ProvInv, Reachable
  <2>3. Providers!KeysHaveProviders
    BY <2>2 DEF Has, Ids, Providers!KeysHaveProviders, Providers!Ids
  <2>. QED BY <2>1, <2>3
<1>2. StoresSpec => [](focus = "providers" => Providers!TypeOK /\ Providers!KeysHaveProviders)
  BY <1>1, ProvidersInvariant, PTL
<1>3. StoresSpec => [][focus = "providers" => KeyStays]_allVars
  BY ProvFocusKept, ProvidersInvariant, PTL DEF StoresSpec
<1>. QED BY <1>2, <1>3 DEF KeysKept, KeyStays

-----------------------------------------------------------------------------
(* A secret and its chunks in the keyring.                                 *)

USE LimitsAssumption, CorruptAssumption

Saving   == {"inline", "drain", "write", "undo", "sweep", "rewrite"}
Clearing == {"previous", "current"}

AllThere(g) == \A i \in 0..(size[g] - 1) : <<g, i>> \in chunks

(* The primary entry is well formed, and names a generation in use.        *)
Entry ==
    /\ kind = "none" => cur = 0 /\ prev = {}
    /\ kind = "inline" => cur # 0 /\ size[cur] = 0 /\ prev = {}
    /\ kind = "chunked" => cur \in committed

(* Generations are fresh: none is ahead of the saves, and the pending ones *)
(* are older than the current one.                                         *)
Numbers ==
    /\ cur <= saves /\ \A g \in prev : g < cur
    /\ \A g \in committed : g <= saves /\ size[g] > 0
    /\ \A g \in 0..MaxSaves : g > saves => size[g] = 0
    /\ \A c \in chunks : c[1] <= saves /\ c[2] < size[c[1]]

(* What is known of the entry where the call stands.                       *)
Place ==
    /\ status = "saving" <=> pc \in Saving
    /\ status = "clearing" <=> pc \in Clearing
    /\ pc \in {"inline", "drain", "write", "undo"} => cur < saves /\ saves \notin committed
    /\ pc = "inline" => kind # "chunked" /\ size[saves] = 0
    /\ pc \in {"drain", "write", "undo"} => size[saves] > 0
    /\ pc \in {"sweep", "rewrite"} => kind = "chunked" /\ cur = saves
    /\ pc = "previous" => kind = "chunked"
    /\ pc = "current" => kind # "none"
    /\ pc \in {"idle", "inline"} => left = {} /\ ref = 0 /\ at = 0 /\ kept = {}

(* While a save is under way, the entry can be read.                       *)
Readable == pc \in Saving /\ kind = "chunked" => AllThere(cur)

(* The chunks written so far are there, and the new manifest will name     *)
(* every generation that still has chunks.                                 *)
Written ==
    /\ pc = "write" =>
         /\ ref = 0 /\ kept = {} /\ at <= size[saves]
         /\ \A i \in 0..(at - 1) : <<saves, i>> \in chunks
         /\ Cardinality(carry) <= MaxPrevious /\ \A g \in carry : g < saves
         /\ \A c \in chunks : c[1] \in committed => c[1] \in carry
    /\ pc = "undo" => at <= ref /\ ref <= size[saves]

(* A drain works on pending generations only, and knows where what is left *)
(* of them is.                                                             *)
Refs ==
    /\ Draining =>
         /\ left \subseteq prev /\ kept \subseteq prev /\ (ref # 0 => ref \in prev)
         /\ \A c \in chunks : c[1] \in prev =>
              c[1] \in left \cup kept \/ (c[1] = ref /\ c[2] >= at)
    /\ pc = "previous" => kept = {}
    /\ pc \in {"sweep", "rewrite"} => carry = prev
    /\ pc = "rewrite" =>
         kept \subseteq prev /\ \A c \in chunks : c[1] \in prev => c[1] \in kept
    /\ pc = "current" =>
         /\ at <= size[cur]
         /\ \A c \in chunks : c[1] \notin prev /\ (c[1] = cur => c[2] >= at)

(* An undisturbed reader reads the current generation, and it is all there.*)
Reading ==
    /\ reader = "reading" => rcur \in 1..saves /\ rat < size[rcur]
    /\ reader = "reading" /\ ~disturbed => kind = "chunked" /\ rcur = cur /\ AllThere(cur)
    /\ ReadersUndisturbed

IInv == /\ TypeOK /\ Entry /\ Numbers /\ Place /\ Readable /\ Written /\ Refs
        /\ Reading /\ NothingLost

-----------------------------------------------------------------------------
(* A Get returns the current secret, unless one of its chunks is missing.  *)
LEMMA ReadIs ==
    ASSUME TypeOK, Entry
    PROVE  Read = IF kind = "chunked" /\ ~AllThere(cur) THEN Corrupt ELSE cur
  BY DEF TypeOK, PrimaryType, KeyringType, Entry, Read, Whole, AllThere

(* The same after a step.                                                  *)
LEMMA ReadIsNext ==
    ASSUME TypeOK', Entry'
    PROVE  Read' = IF kind' = "chunked" /\ ~AllThere(cur)' THEN Corrupt ELSE cur'
  BY DEF TypeOK, PrimaryType, KeyringType, Entry, Read, Whole, AllThere

(* Sets of generations are finite, and have a size.                        *)
LEMMA FinitePart ==
    ASSUME NEW S, S \subseteq Saves
    PROVE  IsFiniteSet(S) /\ Cardinality(S) \in Nat
<1>1. IsFiniteSet(Saves)
  BY FS_Interval DEF Saves
<1>. QED
  BY <1>1, FS_Subset, FS_CardinalityType

(* The smallest values are within the bounds.                              *)
LEMMA Zero == 0 \in 0..MaxChunks /\ 0 \in 0..MaxSaves /\ 0 \in 0..Attempts /\ 1 \in 0..Attempts
  OBVIOUS

(* A call that is over leaves its local state well typed.                  *)
LEMMA ReturnType ==
    ASSUME NEW outcome \in {"saved", "cleared", "failed", "crashed"}, Return(outcome)
    PROVE  CallType'
  BY Zero DEF Return, Goto, CallType

(* A refused call only changes how the last call ended.                    *)
LEMMA RefusedKeeps ==
    ASSUME IInv, Refused
    PROVE  IInv'
<1>1. PrimaryType' /\ KeyringType' /\ GetType' /\ Entry' /\ Numbers' /\ Readable' /\
      Written' /\ Refs' /\ Reading' /\ NothingLost'
  BY DEF IInv, TypeOK, PrimaryType, KeyringType, GetType, Entry, Numbers, Readable,
     AllThere, Written, Refs, Draining, Reading, ReadersUndisturbed, NothingLost,
     Refused, primary, work, get
<1>2. CallType'
  BY DEF IInv, TypeOK, CallType, Refused, work
<1>3. Place'
  BY DEF IInv, Place, Saving, Clearing, Refused, work
<1>. QED
  BY <1>1, <1>2, <1>3 DEF IInv, TypeOK

(* A save begins: its generation is ahead of all others, and of unused     *)
(* size.                                                                   *)
LEMMA SaveKeeps ==
    ASSUME IInv, NEW n \in 0..MaxChunks, Save(n)
    PROVE  IInv'
<1>0. /\ saves' = saves + 1 /\ saves' \in Saves /\ size' \in [0..MaxSaves -> 0..MaxChunks]
      /\ \A g \in 0..MaxSaves : g # saves + 1 => size'[g] = size[g]
      /\ IF pc' = "inline" THEN size'[saves + 1] = size[saves + 1] ELSE size'[saves + 1] > 0
  <2>1. saves + 1 \in Saves
    BY DEF IInv, TypeOK, KeyringType, Saves, Index, Save
  <2>2. saves' = saves + 1 /\ size \in [0..MaxSaves -> 0..MaxChunks]
    BY DEF IInv, TypeOK, KeyringType, Save
  <2>3. CASE n = 0 /\ kind # "chunked"
    BY <2>1, <2>2, <2>3 DEF Save
  <2>4. CASE ~(n = 0 /\ kind # "chunked")
    <3>1. PICK k \in 1..MaxChunks : size' = [size EXCEPT ![saves + 1] = k]
      <4>1. (IF n = 0 THEN 1 ELSE n) \in 1..MaxChunks
        OBVIOUS
      <4>. QED
        BY <2>4, <4>1 DEF Save
    <3>2. pc' = "drain"
      BY <2>4 DEF Save
    <3>. QED
      BY <2>1, <2>2, <3>1, <3>2 DEF Saves
  <2>. QED
    BY <2>3, <2>4
<1>1. PrimaryType' /\ GetType' /\ NothingLost'
  BY DEF IInv, TypeOK, PrimaryType, GetType, NothingLost, Save, primary, get
<1>2. KeyringType'
  BY <1>0 DEF IInv, TypeOK, KeyringType, Saves, Index, Save, primary
<1>3. CallType'
  BY DEF IInv, TypeOK, CallType, PrimaryType, Save, Backlog, work
<1>4. Entry'
  BY DEF IInv, TypeOK, Entry, PrimaryType, KeyringType, Numbers, Save, primary
<1>5. Numbers'
  <2>1. saves \in Nat /\ saves' = saves + 1
    BY <1>0 DEF IInv, TypeOK, KeyringType
  <2>2. (cur <= saves /\ \A g \in prev : g < cur)'
    BY <2>1 DEF IInv, TypeOK, PrimaryType, Saves, Numbers, Save, primary
  <2>3. (\A g \in committed : g <= saves /\ size[g] > 0)'
    BY <1>0, <2>1 DEF IInv, TypeOK, KeyringType, Saves, Index, Numbers, Save
  <2>4. (\A g \in 0..MaxSaves : g > saves => size[g] = 0)'
    BY <1>0, <2>1 DEF IInv, TypeOK, KeyringType, Saves, Index, Numbers, Save
  <2>5. (\A c \in chunks : c[1] <= saves /\ c[2] < size[c[1]])'
    <3>1. \A c \in chunks : c[1] \in 0..MaxSaves /\ c[1] <= saves /\ c[2] < size[c[1]]
      BY DEF IInv, TypeOK, KeyringType, Saves, Index, Numbers
    <3>2. UNCHANGED chunks
      BY DEF Save
    <3>. QED
      BY <1>0, <2>1, <3>1, <3>2
  <2>. QED
    BY <2>2, <2>3, <2>4, <2>5 DEF Numbers
<1>6. Place'
  <2>1. cur < saves' /\ saves' \notin committed
    BY <1>0 DEF IInv, TypeOK, PrimaryType, Saves, KeyringType, Index, Numbers
  <2>2. pc' = "inline" => size[saves]' = 0
    BY <1>0 DEF IInv, TypeOK, KeyringType, Saves, Index, Numbers
  <2>3. pc' \in {"inline", "drain"} /\ (pc' = "inline" => kind # "chunked" /\ UNCHANGED work)
    BY DEF Save
  <2>. QED
    BY <1>0, <2>1, <2>2 DEF IInv, Place, Saving, Clearing, Save, primary, work
<1>7. Readable'
  <2>1. kind = "chunked" => AllThere(cur) /\ size'[cur] = size[cur]
    BY ReadIs DEF IInv, TypeOK, PrimaryType, Saves, KeyringType, Numbers, Save
  <2>. QED
    BY <2>1 DEF Readable, AllThere, Save, primary
<1>8. Written'
  BY DEF Save, Written
<1>9. Refs'
  <2>1. pc' = "drain" => left' = prev /\ ref' = 0 /\ kept' = {}
    BY DEF IInv, TypeOK, PrimaryType, Entry, Place, Save, Backlog
  <2>. QED
    BY <2>1 DEF Save, Refs, Draining, primary
<1>10. Reading'
  BY <1>0 DEF IInv, TypeOK, PrimaryType, KeyringType, Save, primary, get, Reading,
     AllThere, ReadersUndisturbed, GetType
<1>. QED
  BY <1>1, <1>2, <1>3, <1>4, <1>5, <1>6, <1>7, <1>8, <1>9, <1>10 DEF IInv, TypeOK

(* The commit of a small secret: no manifest is left to speak of.          *)
LEMMA SetInlineKeeps ==
    ASSUME IInv, SetInline
    PROVE  IInv'
<1>1. KeyringType'
  BY DEF IInv, TypeOK, KeyringType, SetInline
<1>2. PrimaryType'
  BY DEF IInv, TypeOK, PrimaryType, KeyringType, Entry, Place, SetInline
<1>3. CallType'
  BY Zero DEF CallType, SetInline, Return, Goto
<1>4. GetType'
  BY DEF IInv, TypeOK, GetType, SetInline, get
<1>5. Entry'
  BY DEF IInv, TypeOK, Entry, PrimaryType, Place, SetInline
<1>6. Numbers'
  BY DEF IInv, TypeOK, Numbers, PrimaryType, Saves, KeyringType, SetInline
<1>7. Place'
  BY DEF Place, Saving, Clearing, SetInline, Return, Goto
<1>8. Readable'
  BY DEF Readable, SetInline
<1>9. Written'
  BY DEF Written, SetInline, Return, Goto
<1>10. Refs'
  BY DEF Refs, Draining, SetInline, Return, Goto
<1>11. Reading'
  BY DEF IInv, Reading, ReadersUndisturbed, SetInline, get
<1>12. NothingLost'
  BY DEF IInv, NothingLost, Place, SetInline
<1>. QED
  BY <1>1, <1>2, <1>3, <1>4, <1>5, <1>6, <1>7, <1>8, <1>9, <1>10, <1>11, <1>12 DEF IInv,
     TypeOK

(* A small secret that cannot be set changes nothing but the call.         *)
LEMMA SetInlineFailsKeeps ==
    ASSUME IInv, SetInlineFails
    PROVE  IInv'
<1>1. PrimaryType' /\ KeyringType' /\ GetType' /\ Entry' /\ Numbers' /\ Reading' /\
      NothingLost'
  BY DEF IInv, TypeOK, PrimaryType, KeyringType, GetType, Entry, Numbers, Reading,
     AllThere, ReadersUndisturbed, NothingLost, SetInlineFails, primary, get
<1>2. CallType'
  BY Zero DEF CallType, SetInlineFails, Return, Goto
<1>3. Place'
  BY DEF Place, Saving, Clearing, SetInlineFails, Return, Goto
<1>4. Readable'
  BY DEF IInv, Readable, Saving, AllThere, SetInlineFails, primary
<1>5. Written'
  BY DEF Written, SetInlineFails, Return, Goto
<1>6. Refs'
  BY DEF Refs, Draining, SetInlineFails, Return, Goto
<1>. QED
  BY <1>1, <1>2, <1>3, <1>4, <1>5, <1>6 DEF IInv, TypeOK

(* After the drain, Previous of the new manifest names every generation    *)
(* that still has chunks, and is short enough or the save gives up.        *)
LEMMA StartChunksKeeps ==
    ASSUME IInv, StartChunks
    PROVE  IInv'
<1>1. PrimaryType' /\ KeyringType' /\ GetType' /\ Entry' /\ Numbers' /\ Reading' /\
      NothingLost'
  BY DEF IInv, TypeOK, PrimaryType, KeyringType, GetType, Entry, Numbers, Reading,
     AllThere, ReadersUndisturbed, NothingLost, StartChunks, primary, get
<1>2. CallType'
  BY Zero DEF IInv, TypeOK, CallType, KeyringType, Entry, StartChunks, Drained,
     buildPrevious, Return, Goto
<1>3. Place'
  BY DEF IInv, Place, Saving, Clearing, StartChunks, Return, Goto, primary
<1>4. Readable'
  BY DEF IInv, Readable, Saving, AllThere, StartChunks, primary
<1>5. Written'
  <2>1. CASE TooLong
    BY <2>1 DEF StartChunks, Return, Goto, Written
  <2>2. CASE ~TooLong
    <3>1. buildPrevious \subseteq Saves
      BY DEF IInv, TypeOK, KeyringType, CallType, Entry, buildPrevious
    <3>2. Cardinality(buildPrevious) <= MaxPrevious
      BY <2>2, <3>1, FinitePart DEF TooLong
    <3>3. \A g \in buildPrevious : g < saves
      BY DEF IInv, TypeOK, PrimaryType, Saves, KeyringType, CallType, Numbers, Place,
         Refs, Draining, buildPrevious, StartChunks
    <3>4. \A c \in chunks : c[1] \in committed => c[1] \in buildPrevious
      BY DEF IInv, TypeOK, Saves, KeyringType, NothingLost, Refs, Draining, Drained,
         buildPrevious, StartChunks
    <3>. QED
      BY <2>2, <3>2, <3>3, <3>4 DEF IInv, TypeOK, KeyringType, StartChunks, Drained,
         Written
  <2>. QED
    BY <2>1, <2>2
<1>6. Refs'
  BY DEF Refs, Draining, StartChunks, Return, Goto
<1>. QED
  BY <1>1, <1>2, <1>3, <1>4, <1>5, <1>6 DEF IInv, TypeOK

(* A chunk of the new generation, which nothing points at yet.             *)
LEMMA WriteChunkKeeps ==
    ASSUME IInv, WriteChunk
    PROVE  IInv'
<1>1. PrimaryType' /\ GetType' /\ Entry'
  BY DEF IInv, TypeOK, PrimaryType, GetType, Entry, WriteChunk, primary, get
<1>2. KeyringType'
  BY Zero DEF IInv, TypeOK, KeyringType, Saves, Index, PrimaryType, CallType, Place,
     Saving, Clearing, WriteChunk
<1>3. CallType'
  BY DEF IInv, TypeOK, CallType, KeyringType, WriteChunk
<1>4. Numbers'
  BY DEF IInv, TypeOK, Numbers, KeyringType, WriteChunk, primary
<1>5. Place'
  BY DEF IInv, Place, WriteChunk, primary
<1>6. Readable'
  BY DEF IInv, Readable, AllThere, WriteChunk, primary
<1>7. Written'
  BY DEF IInv, TypeOK, Written, KeyringType, CallType, Place, WriteChunk
<1>8. Refs'
  BY DEF Refs, Draining, WriteChunk
<1>9. Reading'
  BY DEF IInv, Reading, AllThere, ReadersUndisturbed, WriteChunk, primary, get
<1>10. NothingLost'
  BY DEF IInv, NothingLost, Place, WriteChunk, primary
<1>. QED
  BY <1>1, <1>2, <1>3, <1>4, <1>5, <1>6, <1>7, <1>8, <1>9, <1>10 DEF IInv, TypeOK

(* A write fails and the undo begins.                                      *)
LEMMA WriteFailsKeeps ==
    ASSUME IInv, WriteFails
    PROVE  IInv'
<1>1. PrimaryType' /\ KeyringType' /\ GetType' /\ Entry' /\ Numbers' /\ Reading' /\
      NothingLost'
  BY DEF IInv, TypeOK, PrimaryType, KeyringType, GetType, Entry, Numbers, Reading,
     AllThere, ReadersUndisturbed, NothingLost, WriteFails, primary, get
<1>2. CallType'
  BY DEF IInv, TypeOK, CallType, WriteFails
<1>3. Place'
  BY DEF IInv, Place, Saving, Clearing, WriteFails, primary
<1>4. Readable'
  BY DEF IInv, Readable, Saving, AllThere, WriteFails, primary
<1>5. Written'
  BY DEF IInv, TypeOK, Written, CallType, WriteFails
<1>6. Refs'
  BY DEF Refs, Draining, WriteFails
<1>. QED
  BY <1>1, <1>2, <1>3, <1>4, <1>5, <1>6 DEF IInv, TypeOK

(* The manifest is written when all chunks are there; what it names as     *)
(* Previous is what the sweep then works on.                               *)
LEMMA CommitKeeps ==
    ASSUME IInv, Commit
    PROVE  IInv'
<1>1. PrimaryType'
  BY DEF IInv, TypeOK, PrimaryType, KeyringType, CallType, Written, Commit
<1>2. KeyringType'
  BY DEF IInv, TypeOK, KeyringType, Saves, PrimaryType, Place, Commit
<1>3. CallType'
  <2>1. CASE carry = {}
    BY <2>1, ReturnType DEF Commit
  <2>2. CASE carry # {}
    BY <2>2, Zero DEF IInv, TypeOK, CallType, Saves, Commit
  <2>. QED
    BY <2>1, <2>2
<1>4. GetType'
  BY DEF IInv, TypeOK, GetType, Commit, get
<1>5. Entry'
  BY DEF Entry, Commit
<1>6. Numbers'
  BY DEF IInv, TypeOK, Numbers, KeyringType, Place, Written, Commit
<1>7. Place'
  BY DEF IInv, Place, Saving, Clearing, Commit, Return, Goto
<1>8. Readable'
  BY DEF IInv, Readable, AllThere, Written, Commit, AllWritten
<1>9. Written'
  BY DEF Written, Commit, Return, Goto
<1>10. Refs'
  <2>1. CASE carry = {}
    BY <2>1 DEF IInv, TypeOK, Refs, Draining, Commit, Return, Goto
  <2>2. CASE carry # {}
    <3>1. pc' = "sweep" /\ prev' = carry /\ left' = carry /\ kept' = {} /\ ref' = 0 /\ carry' = carry
      BY <2>2 DEF IInv, TypeOK, Written, Commit
    <3>. QED
      BY <3>1 DEF Refs, Draining
  <2>. QED
    BY <2>1, <2>2
<1>11. Reading'
  BY DEF IInv, Reading, ReadersUndisturbed, Commit, get
<1>12. NothingLost'
  BY DEF IInv, NothingLost, Written, Commit
<1>. QED
  BY <1>1, <1>2, <1>3, <1>4, <1>5, <1>6, <1>7, <1>8, <1>9, <1>10, <1>11, <1>12 DEF IInv,
     TypeOK

(* The undo deletes chunks of the new generation only.                     *)
LEMMA UndoChunkKeeps ==
    ASSUME IInv, UndoChunk
    PROVE  IInv'
<1>1. PrimaryType' /\ GetType' /\ Entry'
  BY DEF IInv, TypeOK, PrimaryType, GetType, Entry, UndoChunk, primary, get
<1>2. KeyringType'
  BY DEF IInv, TypeOK, KeyringType, UndoChunk
<1>3. CallType'
  <2>1. (at \in 0..MaxChunks)'
    BY DEF IInv, TypeOK, KeyringType, CallType, Written, UndoChunk
  <2>2. (missed \in BOOLEAN)'
    BY DEF IInv, TypeOK, CallType, Saves, UndoChunk
  <2>. QED
    BY <2>1, <2>2 DEF IInv, TypeOK, CallType, Saves, UndoChunk
<1>4. Numbers'
  BY DEF IInv, Numbers, UndoChunk, primary
<1>5. Place'
  BY DEF IInv, Place, UndoChunk, primary
<1>6. Readable'
  BY DEF IInv, Readable, AllThere, Place, Entry, UndoChunk, primary
<1>7. Written'
  BY DEF IInv, TypeOK, Written, CallType, UndoChunk
<1>8. Refs'
  BY DEF Refs, Draining, UndoChunk
<1>9. Reading'
  BY DEF IInv, Reading, AllThere, ReadersUndisturbed, Place, UndoChunk, primary, get
<1>10. NothingLost'
  BY DEF IInv, NothingLost, UndoChunk, primary
<1>. QED
  BY <1>1, <1>2, <1>3, <1>4, <1>5, <1>6, <1>7, <1>8, <1>9, <1>10 DEF IInv, TypeOK

(* A round of the undo ends.                                               *)
LEMMA UndoEndsKeeps ==
    ASSUME IInv, UndoEnds
    PROVE  IInv'
<1>1. PrimaryType' /\ KeyringType' /\ GetType' /\ Entry' /\ Numbers' /\ Reading' /\
      NothingLost'
  BY DEF IInv, TypeOK, PrimaryType, KeyringType, GetType, Entry, Numbers, Reading,
     AllThere, ReadersUndisturbed, NothingLost, UndoEnds, primary, get
<1>2. CallType'
  <2>1. CASE missed /\ round < Attempts
    <3>1. (at \in 0..MaxChunks /\ round \in 0..Attempts)'
      BY <2>1, Zero DEF IInv, TypeOK, CallType, Saves, UndoEnds
    <3>. QED
      BY <2>1, <3>1 DEF IInv, TypeOK, CallType, Saves, UndoEnds
  <2>2. CASE ~(missed /\ round < Attempts)
    BY <2>2, ReturnType DEF UndoEnds
  <2>. QED
    BY <2>1, <2>2
<1>3. Place'
  BY DEF IInv, Place, Saving, Clearing, UndoEnds, Return, Goto, primary
<1>4. Readable'
  BY DEF IInv, Readable, Saving, AllThere, UndoEnds, primary
<1>5. Written'
  BY DEF IInv, TypeOK, Written, CallType, UndoEnds, Return, Goto
<1>6. Refs'
  BY DEF Refs, Draining, UndoEnds, Return, Goto
<1>. QED
  BY <1>1, <1>2, <1>3, <1>4, <1>5, <1>6 DEF IInv, TypeOK

(* A drain takes the next pending generation in hand.                      *)
LEMMA TakeKeeps ==
    ASSUME IInv, NEW g \in Saves, Take(g)
    PROVE  IInv'
<1>1. PrimaryType' /\ KeyringType' /\ GetType' /\ Entry' /\ Numbers' /\ Readable' /\
      Reading' /\ NothingLost'
  BY DEF IInv, TypeOK, PrimaryType, KeyringType, GetType, Entry, Numbers, Readable,
     AllThere, Reading, ReadersUndisturbed, NothingLost, Take, primary, get
<1>2. CallType'
  BY DEF IInv, TypeOK, CallType, Saves, Take
<1>3. Place'
  BY DEF IInv, Place, Take, primary
<1>4. Written'
  BY DEF Written, Take, Draining
<1>5. Refs'
  <2>1. at' = 0 /\ ref' = g /\ left = left' \cup {g} /\ ref = 0 /\ Draining
    BY DEF Take
  <2>2. \A c \in chunks : c[2] >= 0
    BY DEF IInv, TypeOK, KeyringType, Index
  <2>3. UNCHANGED <<pc, prev, kept, carry, size, cur, chunks>>
    BY DEF Take, primary
  <2>. QED
    BY <2>1, <2>2, <2>3 DEF IInv, TypeOK, PrimaryType, KeyringType, Saves, Refs,
       Draining
<1>. QED
  BY <1>1, <1>2, <1>3, <1>4, <1>5 DEF IInv, TypeOK

(* A drain deletes chunks of a pending generation, never of the current    *)
(* one, and moves on when none is left.                                    *)
LEMMA DeleteChunkKeeps ==
    ASSUME IInv, DeleteChunk
    PROVE  IInv'
<1>1. PrimaryType' /\ GetType' /\ Entry'
  BY DEF IInv, TypeOK, PrimaryType, GetType, Entry, DeleteChunk, primary, get
<1>2. KeyringType'
  BY DEF IInv, TypeOK, KeyringType, DeleteChunk
<1>3. CallType'
  BY Zero DEF IInv, TypeOK, CallType, Saves, PrimaryType, KeyringType, Index, Refs,
     Draining, DeleteChunk, primary, work, get
<1>4. Numbers'
  BY DEF IInv, Numbers, DeleteChunk, primary
<1>5. Place'
  BY DEF IInv, Place, DeleteChunk, primary
<1>6. Readable'
  BY DEF IInv, TypeOK, Readable, AllThere, CallType, Numbers, Refs, DeleteChunk, primary
<1>7. Written'
  BY DEF Written, DeleteChunk, Draining
<1>8. Refs'
  <2>1. ref \in prev
    BY DEF IInv, Refs, DeleteChunk
  <2>2. ref # cur /\ size[ref] \in Nat /\ at \in Nat
    BY <2>1 DEF IInv, TypeOK, PrimaryType, Saves, KeyringType, CallType
  <2>3. \A c \in chunks : c = <<c[1], c[2]>> /\ c[2] \in Nat /\ c[2] < size[c[1]]
    BY DEF IInv, TypeOK, KeyringType, Index, Numbers
  <2>4. chunks' = chunks \ {<<ref, at>>} /\ UNCHANGED <<pc, prev, cur, size, left, kept, carry>>
    BY DEF DeleteChunk, primary
  <2>5. CASE at + 1 < size[ref]
    BY <2>1, <2>2, <2>3, <2>4, <2>5 DEF IInv, Refs, Draining, DeleteChunk
  <2>6. CASE ~(at + 1 < size[ref])
    <3>1. ref' = 0 /\ at' = 0
      BY <2>6 DEF DeleteChunk
    <3>2. \A c \in chunks : c[1] = ref /\ c[2] >= at => c = <<ref, at>>
      BY <2>2, <2>3, <2>6
    <3>. QED
      BY <2>4, <3>1, <3>2 DEF IInv, Refs, Draining, DeleteChunk
  <2>. QED
    BY <2>5, <2>6
<1>9. Reading'
  BY DEF IInv, Reading, AllThere, ReadersUndisturbed, Numbers, Refs, DeleteChunk,
     primary, get
<1>10. NothingLost'
  BY DEF IInv, NothingLost, DeleteChunk, primary
<1>. QED
  BY <1>1, <1>2, <1>3, <1>4, <1>5, <1>6, <1>7, <1>8, <1>9, <1>10 DEF IInv, TypeOK

(* A pending generation that cannot be deleted stays pending.              *)
LEMMA DeleteFailsKeeps ==
    ASSUME IInv, DeleteFails
    PROVE  IInv'
<1>1. PrimaryType' /\ KeyringType' /\ GetType' /\ Entry' /\ Numbers' /\ Readable' /\
      Reading' /\ NothingLost'
  BY DEF IInv, TypeOK, PrimaryType, KeyringType, GetType, Entry, Numbers, Readable,
     AllThere, Reading, ReadersUndisturbed, NothingLost, DeleteFails, primary, get
<1>2. CallType'
  BY DEF IInv, TypeOK, CallType, PrimaryType, Refs, Draining, DeleteFails, StillPending
<1>3. Place'
  BY DEF IInv, Place, DeleteFails, primary
<1>4. Written'
  BY DEF Written, DeleteFails
<1>5. Refs'
  BY DEF IInv, Refs, Draining, DeleteFails, StillPending, primary
<1>. QED
  BY <1>1, <1>2, <1>3, <1>4, <1>5 DEF IInv, TypeOK

(* The sweep ends: what was drained has no chunks left.                    *)
LEMMA SweepEndsKeeps ==
    ASSUME IInv, SweepEnds
    PROVE  IInv'
<1>1. PrimaryType' /\ KeyringType' /\ GetType' /\ Entry' /\ Numbers' /\ Reading' /\
      NothingLost'
  BY DEF IInv, TypeOK, PrimaryType, KeyringType, GetType, Entry, Numbers, Reading,
     AllThere, ReadersUndisturbed, NothingLost, SweepEnds, primary, get
<1>2. CallType'
  BY Zero DEF IInv, TypeOK, CallType, SweepEnds, Drained, Return, Goto, work
<1>3. Place'
  BY DEF IInv, Place, Saving, Clearing, SweepEnds, Return, Goto, primary
<1>4. Readable'
  BY DEF IInv, Readable, Saving, AllThere, SweepEnds, primary
<1>5. Written'
  BY DEF Written, SweepEnds, Return, Goto
<1>6. Refs'
  <2>1. CASE kept = carry
    BY <2>1 DEF IInv, TypeOK, Refs, Draining, SweepEnds, Return, Goto
  <2>2. CASE kept # carry
    <3>1. \A c \in chunks : c[1] \in prev => c[1] \in kept
      BY DEF IInv, TypeOK, PrimaryType, Saves, Refs, Draining, SweepEnds, Drained
    <3>. QED
      BY <2>2, <3>1 DEF IInv, TypeOK, Refs, Draining, SweepEnds, primary, work
  <2>. QED
    BY <2>1, <2>2
<1>. QED
  BY <1>1, <1>2, <1>3, <1>4, <1>5, <1>6 DEF IInv, TypeOK

(* The manifest drops the generations that were drained.                   *)
LEMMA rewritePreviousKeeps ==
    ASSUME IInv, rewritePrevious
    PROVE  IInv'
<1>1. KeyringType' /\ GetType' /\ Reading'
  BY DEF IInv, TypeOK, KeyringType, GetType, Reading, AllThere, ReadersUndisturbed,
     rewritePrevious, primary, get
<1>2. PrimaryType'
  <2>1. kept \subseteq prev
    BY DEF IInv, TypeOK, Refs, Draining, rewritePrevious
  <2>2. Cardinality(kept) <= Cardinality(prev)
    BY <2>1, FinitePart, FS_Subset DEF IInv, TypeOK, PrimaryType, Saves
  <2>3. Cardinality(kept) <= MaxPrevious
    <3>1. Cardinality(kept) \in Nat /\ Cardinality(prev) \in Nat
      BY FinitePart DEF IInv, TypeOK, PrimaryType, Saves, CallType
    <3>. QED
      BY <2>2, <3>1 DEF IInv, TypeOK, PrimaryType, Saves
  <2>. QED
    BY <2>1, <2>3 DEF IInv, TypeOK, PrimaryType, Saves, rewritePrevious
<1>3. CallType'
  BY Zero DEF CallType, rewritePrevious, Return, Goto
<1>4. Entry'
  BY DEF IInv, Entry, Place, rewritePrevious
<1>5. Numbers'
  BY DEF IInv, Numbers, Refs, rewritePrevious
<1>6. Place'
  BY DEF Place, Saving, Clearing, rewritePrevious, Return, Goto
<1>7. Readable'
  BY DEF IInv, Readable, Saving, AllThere, rewritePrevious
<1>8. Written'
  BY DEF Written, rewritePrevious, Return, Goto
<1>9. Refs'
  BY DEF Refs, Draining, rewritePrevious, Return, Goto
<1>10. NothingLost'
  BY DEF IInv, NothingLost, Refs, rewritePrevious
<1>. QED
  BY <1>1, <1>2, <1>3, <1>4, <1>5, <1>6, <1>7, <1>8, <1>9, <1>10 DEF IInv, TypeOK

(* A clear begins, with the pending generations.                           *)
LEMMA ClearKeeps ==
    ASSUME IInv, Clear
    PROVE  IInv'
<1>1. PrimaryType' /\ KeyringType' /\ GetType' /\ Entry' /\ Numbers' /\ Reading' /\
      NothingLost'
  BY DEF IInv, TypeOK, PrimaryType, KeyringType, GetType, Entry, Numbers, Reading,
     AllThere, ReadersUndisturbed, NothingLost, Clear, primary, get
<1>2. CallType'
  BY DEF IInv, TypeOK, CallType, PrimaryType, Clear
<1>3. Place'
  BY DEF IInv, Place, Saving, Clearing, Clear, primary
<1>4. Readable'
  BY DEF Readable, Saving, Clear
<1>5. Written'
  BY DEF Written, Clear
<1>6. Refs'
  BY DEF IInv, TypeOK, Refs, PrimaryType, Saves, KeyringType, Index, Entry, Numbers,
     Place, Clear, primary
<1>. QED
  BY <1>1, <1>2, <1>3, <1>4, <1>5, <1>6 DEF IInv, TypeOK

(* A clear goes on to the current generation when no pending one is left.  *)
LEMMA ClearCurrentKeeps ==
    ASSUME IInv, ClearCurrent
    PROVE  IInv'
<1>1. PrimaryType' /\ KeyringType' /\ GetType' /\ Entry' /\ Numbers' /\ Reading' /\
      NothingLost'
  BY DEF IInv, TypeOK, PrimaryType, KeyringType, GetType, Entry, Numbers, Reading,
     AllThere, ReadersUndisturbed, NothingLost, ClearCurrent, primary, get
<1>2. CallType'
  BY Zero DEF IInv, TypeOK, CallType, ClearCurrent, Goto
<1>3. Place'
  BY DEF IInv, Place, Saving, Clearing, ClearCurrent, Goto, primary
<1>4. Readable'
  BY DEF Readable, Saving, ClearCurrent, Goto
<1>5. Written'
  BY DEF Written, ClearCurrent, Goto
<1>6. Refs'
  BY DEF IInv, TypeOK, Refs, Draining, PrimaryType, Saves, KeyringType, Index, CallType,
     ClearCurrent, Drained, Goto, primary
<1>. QED
  BY <1>1, <1>2, <1>3, <1>4, <1>5, <1>6 DEF IInv, TypeOK

(* A clear deletes chunks of the current generation in order; a reader is  *)
(* disturbed.                                                              *)
LEMMA ClearChunkKeeps ==
    ASSUME IInv, ClearChunk
    PROVE  IInv'
<1>1. PrimaryType' /\ Entry'
  BY DEF IInv, TypeOK, PrimaryType, Entry, ClearChunk, primary
<1>2. KeyringType'
  BY DEF IInv, TypeOK, KeyringType, ClearChunk
<1>3. CallType'
  BY DEF IInv, TypeOK, CallType, PrimaryType, KeyringType, ClearChunk
<1>4. GetType'
  BY DEF IInv, TypeOK, GetType, ClearChunk, get
<1>5. Numbers'
  BY DEF IInv, Numbers, ClearChunk, primary
<1>6. Place'
  BY DEF IInv, Place, ClearChunk, primary
<1>7. Readable'
  BY DEF Readable, Saving, ClearChunk
<1>8. Written'
  BY DEF Written, ClearChunk
<1>9. Refs'
  <2>1. at \in Nat /\ size[cur] \in Nat /\ at' = at + 1 /\ at < size[cur] /\ pc = "current"
    BY DEF IInv, TypeOK, PrimaryType, KeyringType, CallType, ClearChunk
  <2>2. chunks' = chunks \ {<<cur, at>>} /\ UNCHANGED <<pc, prev, cur, size, carry>>
    BY DEF ClearChunk, primary
  <2>3. \A c \in chunks : c = <<c[1], c[2]>> /\ c[2] \in Nat
    BY DEF IInv, TypeOK, KeyringType, Index
  <2>. QED
    BY <2>1, <2>2, <2>3 DEF IInv, Refs, Draining
<1>10. Reading'
  BY DEF IInv, Reading, ReadersUndisturbed, ClearChunk, get
<1>11. NothingLost'
  BY DEF IInv, NothingLost, ClearChunk, primary
<1>. QED
  BY <1>1, <1>2, <1>3, <1>4, <1>5, <1>6, <1>7, <1>8, <1>9, <1>10, <1>11 DEF IInv, TypeOK

(* A clear removes the primary when nothing in use is left to find by it.  *)
LEMMA ClearPrimaryKeeps ==
    ASSUME IInv, ClearPrimary
    PROVE  IInv'
<1>1. KeyringType'
  BY DEF IInv, TypeOK, KeyringType, ClearPrimary
<1>2. PrimaryType'
  BY FS_EmptySet DEF PrimaryType, ClearPrimary
<1>3. CallType'
  BY Zero DEF CallType, ClearPrimary, Return, Goto
<1>4. GetType'
  BY DEF IInv, TypeOK, GetType, ClearPrimary, get
<1>5. Entry'
  BY DEF Entry, ClearPrimary
<1>6. Numbers'
  BY DEF IInv, TypeOK, Numbers, KeyringType, ClearPrimary
<1>7. Place'
  BY DEF Place, Saving, Clearing, ClearPrimary, Return, Goto
<1>8. Readable'
  BY DEF Readable, ClearPrimary
<1>9. Written'
  BY DEF Written, ClearPrimary, Return, Goto
<1>10. Refs'
  BY DEF Refs, ClearPrimary, Return, Goto
<1>11. Reading'
  BY DEF IInv, Reading, ReadersUndisturbed, ClearPrimary, get
<1>12. NothingLost'
  <2>1. \A c \in chunks : c[2] < size[c[1]] /\ c[2] \in Nat
    BY DEF IInv, TypeOK, KeyringType, Index, Numbers
  <2>2. size[cur] \in Nat /\ at = size[cur]
    BY DEF IInv, TypeOK, PrimaryType, KeyringType, ClearPrimary, CurrentGone
  <2>3. \A c \in chunks : c[1] \notin prev \cup {cur}
    BY <2>1, <2>2 DEF IInv, Refs, ClearPrimary
  <2>. QED
    BY <2>3 DEF IInv, NothingLost, ClearPrimary
<1>. QED
  BY <1>1, <1>2, <1>3, <1>4, <1>5, <1>6, <1>7, <1>8, <1>9, <1>10, <1>11, <1>12 DEF IInv,
     TypeOK

(* A clear that fails leaves the entry as it is.                           *)
LEMMA ClearFailsKeeps ==
    ASSUME IInv, ClearFails
    PROVE  IInv'
<1>1. PrimaryType' /\ KeyringType' /\ GetType' /\ Entry' /\ Numbers' /\ Reading' /\
      NothingLost'
  BY DEF IInv, TypeOK, PrimaryType, KeyringType, GetType, Entry, Numbers, Reading,
     AllThere, ReadersUndisturbed, NothingLost, ClearFails, primary, get
<1>2. CallType'
  BY Zero DEF CallType, ClearFails, Return, Goto
<1>3. Place'
  BY DEF Place, Saving, Clearing, ClearFails, Return, Goto
<1>4. Readable'
  BY DEF Readable, Saving, ClearFails, Return, Goto
<1>5. Written'
  BY DEF Written, ClearFails, Return, Goto
<1>6. Refs'
  BY DEF Refs, Draining, ClearFails, Return, Goto
<1>. QED
  BY <1>1, <1>2, <1>3, <1>4, <1>5, <1>6 DEF IInv, TypeOK

(* A crash only loses the call's local state.                              *)
LEMMA CrashKeeps ==
    ASSUME IInv, Crash
    PROVE  IInv'
<1>1. PrimaryType' /\ KeyringType' /\ GetType' /\ Entry' /\ Numbers' /\ Reading' /\
      NothingLost'
  BY DEF IInv, TypeOK, PrimaryType, KeyringType, GetType, Entry, Numbers, Reading,
     AllThere, ReadersUndisturbed, NothingLost, Crash, primary, get
<1>2. CallType'
  BY Zero DEF CallType, Crash, Return, Goto
<1>3. Place'
  BY DEF Place, Saving, Clearing, Crash, Return, Goto
<1>4. Readable'
  BY DEF Readable, Saving, Crash, Return, Goto
<1>5. Written'
  BY DEF Written, Crash, Return, Goto
<1>6. Refs'
  BY DEF Refs, Draining, Crash, Return, Goto
<1>. QED
  BY <1>1, <1>2, <1>3, <1>4, <1>5, <1>6 DEF IInv, TypeOK

(* A Get starts from the entry there is; it is disturbed from the start if *)
(* the entry cannot be read.                                               *)
LEMMA GetManifestKeeps ==
    ASSUME IInv, GetManifest
    PROVE  IInv'
<1>1. PrimaryType' /\ KeyringType' /\ CallType' /\ Entry' /\ Numbers' /\ Place' /\
      Readable' /\ Written' /\ Refs' /\ NothingLost'
  BY DEF IInv, TypeOK, PrimaryType, KeyringType, CallType, Entry, Numbers, Place,
     Readable, AllThere, Written, Refs, Draining, NothingLost, GetManifest, primary,
     work
<1>2. GetType'
  BY Zero DEF IInv, TypeOK, PrimaryType, Saves, GetType, GetManifest
<1>3. Reading'
  <2>1. cur \in 1..saves /\ size[cur] > 0
    BY DEF IInv, TypeOK, PrimaryType, Saves, KeyringType, Entry, Numbers, GetManifest
  <2>2. ~disturbed' => AllThere(cur)
    BY ReadIs DEF IInv, TypeOK, GetManifest
  <2>. QED
    BY <2>1, <2>2 DEF IInv, TypeOK, Reading, AllThere, ReadersUndisturbed, GetManifest,
       primary
<1>. QED
  BY <1>1, <1>2, <1>3 DEF IInv, TypeOK

(* A Get fails only on a chunk that is missing from the current            *)
(* generation.                                                             *)
LEMMA GetChunkKeeps ==
    ASSUME IInv, GetChunk
    PROVE  IInv'
<1>1. PrimaryType' /\ KeyringType' /\ CallType' /\ Entry' /\ Numbers'
  BY DEF IInv, TypeOK, PrimaryType, KeyringType, CallType, Entry, Numbers, GetChunk,
     primary, work
<1>2. Place' /\ Readable' /\ Written' /\ Refs' /\ NothingLost'
  BY DEF IInv, Place, Readable, AllThere, Written, Refs, Draining, NothingLost,
     GetChunk, primary, work
<1>3. GetType'
  <2>1. reader' \in {"reading", "read", "corrupt"} /\ UNCHANGED <<rcur, disturbed>>
    BY DEF GetChunk
  <2>2. rat' \in 0..MaxChunks
    BY DEF IInv, TypeOK, KeyringType, GetType, Reading, GetChunk
  <2>. QED
    BY <2>1, <2>2 DEF IInv, TypeOK, GetType
<1>4. Reading'
  <2>1. UNCHANGED <<kind, cur, chunks, size, saves, rcur, disturbed>>
    BY DEF GetChunk, primary
  <2>2. CASE <<rcur, rat>> \in chunks
    <3>1. reader' = "reading" => rat' < size[rcur]
      BY <2>2 DEF IInv, TypeOK, KeyringType, GetType, Reading, GetChunk
    <3>2. reader' \in {"reading", "read"}
      BY <2>2 DEF GetChunk
    <3>. QED
      BY <2>1, <3>1, <3>2 DEF IInv, Reading, AllThere, ReadersUndisturbed, GetChunk
  <2>3. CASE <<rcur, rat>> \notin chunks
    <3>1. disturbed
      <4>1. rat \in 0..(size[rcur] - 1)
        BY DEF IInv, TypeOK, KeyringType, GetType, Reading, GetChunk
      <4>. QED
        BY <2>3, <4>1 DEF IInv, TypeOK, GetType, Reading, AllThere, GetChunk
    <3>. QED
      BY <2>1, <2>3, <3>1 DEF Reading, ReadersUndisturbed, GetChunk
  <2>. QED
    BY <2>2, <2>3
<1>. QED
  BY <1>1, <1>2, <1>3, <1>4 DEF IInv, TypeOK

(* The invariant holds of an empty keyring.                                *)
LEMMA InitIInv == Init => IInv
<1>1. IsFiniteSet({}) /\ Cardinality({}) = 0
  BY FS_EmptySet
<1>2. Init => TypeOK
  <2>1. Init => PrimaryType
    BY <1>1 DEF Init, PrimaryType
  <2>2. Init => KeyringType
    BY Zero DEF Init, KeyringType
  <2>3. Init => CallType
    <3>1. Init => left \subseteq Saves /\ kept \subseteq Saves /\ carry \subseteq Saves
      BY DEF Init
    <3>2. Init => ref \in Nat /\ at \in 0..MaxChunks /\ round \in 0..Attempts
      BY Zero DEF Init
    <3>3. Init => missed \in BOOLEAN
      BY DEF Init
    <3>. QED
      BY <3>1, <3>2, <3>3 DEF Init, CallType
  <2>4. Init => GetType
    BY Zero DEF Init, GetType
  <2>. QED
    BY <2>1, <2>2, <2>3, <2>4 DEF TypeOK
<1>3. Init => Entry /\ Numbers /\ Place /\ Readable /\ Written
  BY DEF Init, Entry, Numbers, Place, Saving, Clearing, Readable, Written
<1>4. Init => Refs /\ Reading /\ NothingLost
  BY DEF Init, Refs, Draining, Reading, ReadersUndisturbed, NothingLost
<1>. QED
  BY <1>2, <1>3, <1>4 DEF IInv

(* Every step keeps the invariant.                                         *)
LEMMA StepIInv == IInv /\ [Next]_vars => IInv'
<1>. SUFFICES ASSUME IInv, [Next]_vars PROVE IInv'
  OBVIOUS
<1>1. ASSUME NEW n \in 0..MaxChunks, Save(n) PROVE IInv'
  BY <1>1, SaveKeeps
<1>2. CASE Refused
  BY <1>2, RefusedKeeps
<1>3. CASE SaveStep
  BY <1>3, SetInlineKeeps, SetInlineFailsKeeps, StartChunksKeeps, WriteChunkKeeps,
     WriteFailsKeeps, CommitKeeps, UndoChunkKeeps, UndoEndsKeeps, SweepEndsKeeps,
     rewritePreviousKeeps DEF SaveStep
<1>4. CASE DrainStep
  BY <1>4, DeleteChunkKeeps, DeleteFailsKeeps, TakeKeeps DEF DrainStep
<1>5. CASE Clear
  BY <1>5, ClearKeeps
<1>6. CASE ClearStep
  BY <1>6, ClearCurrentKeeps, ClearChunkKeeps, ClearPrimaryKeeps, ClearFailsKeeps DEF
     ClearStep
<1>7. CASE Crash
  BY <1>7, CrashKeeps
<1>8. CASE GetManifest \/ GetChunk
  BY <1>8, GetManifestKeeps, GetChunkKeeps
<1>9. CASE UNCHANGED vars
  <2>1. TypeOK' /\ Entry' /\ Numbers'
    BY <1>9 DEF vars, primary, work, get, IInv, TypeOK, PrimaryType, KeyringType,
       CallType, GetType, Entry, Numbers
  <2>2. Place' /\ Readable' /\ Written'
    BY <1>9 DEF vars, primary, work, get, IInv, Place, Readable, AllThere, Written
  <2>3. Refs' /\ Reading' /\ NothingLost'
    BY <1>9 DEF vars, primary, work, get, IInv, Refs, Draining, Reading, AllThere,
       ReadersUndisturbed, NothingLost
  <2>. QED
    BY <2>1, <2>2, <2>3 DEF IInv
<1>. QED
  BY <1>1, <1>2, <1>3, <1>4, <1>5, <1>6, <1>7, <1>8, <1>9 DEF Next

(* The invariant holds always.                                             *)
LEMMA AlwaysIInv == Spec => []IInv
  BY InitIInv, StepIInv, PTL DEF Spec

(* Every variable keeps its type, and the list of pending generations      *)
(* never gets longer than a Get accepts: saveChunked refuses in time.      *)
THEOREM TypeCorrect == Spec => []TypeOK
<1>1. IInv => TypeOK
  BY DEF IInv
<1>. QED
  BY <1>1, AlwaysIInv, PTL

(* Every chunk of a secret that was ever in use is named by the primary,   *)
(* whatever keyring call of Save or Clear failed and wherever the process  *)
(* crashed.                                                                *)
THEOREM NothingIsLost == Spec => []NothingLost
<1>1. IInv => NothingLost
  BY DEF IInv
<1>. QED
  BY <1>1, AlwaysIInv, PTL

(* A Get of the other process fails only if a save was committed or a      *)
(* clear was under way since it read the primary.                          *)
THEOREM Undisturbed == Spec => []ReadersUndisturbed
<1>1. IInv => ReadersUndisturbed
  BY DEF IInv, Reading
<1>. QED
  BY <1>1, AlwaysIInv, PTL

-----------------------------------------------------------------------------
(* What a Get returns in terms of the invariant: the current secret while  *)
(* a save is under way.                                                    *)
LEMMA Settled ==
    ASSUME IInv
    PROVE  /\ Read = IF kind = "chunked" /\ ~AllThere(cur) THEN Corrupt ELSE cur
           /\ pc \in Saving => Read = cur
           /\ cur \in Nat /\ saves \in Nat /\ cur <= saves
  BY ReadIs DEF IInv, TypeOK, PrimaryType, KeyringType, Numbers, Readable

(* The same after a step.                                                  *)
LEMMA SettledNext ==
    ASSUME IInv'
    PROVE  /\ Read' = IF kind' = "chunked" /\ ~AllThere(cur)' THEN Corrupt ELSE cur'
           /\ pc' \in Saving => Read' = cur'
           /\ cur' \in Nat /\ saves' \in Nat /\ cur' <= saves'
  BY ReadIsNext DEF IInv, TypeOK, PrimaryType, KeyringType, Numbers, Readable

(* What a Get returns depends on the keyring alone.                        *)
LEMMA SameRead ==
    ASSUME UNCHANGED <<primary, chunks, size>>
    PROVE  Read' = Read
  BY DEF primary, Read, Whole

(* The start of a save is a Save of the cell.                              *)
LEMMA SaveSimulates ==
    ASSUME IInv, IInv', NEW n \in 0..MaxChunks, Save(n)
    PROVE  Cell!Save
<1>1. Read # Corrupt /\ Read = cur
  BY Settled DEF Save
<1>2. Read' = cur /\ status' = "saving"
  BY SettledNext DEF Save, primary, Saving
<1>3. status \notin Cell!Busy
  BY DEF Save, IInv, Place, Saving, Clearing, Cell!Busy
<1>4. saves' \in Nat \ {0, Read}
  BY <1>1, Settled DEF Save
<1>. QED
  BY <1>1, <1>2, <1>3, <1>4 DEF Cell!Save

(* A step of a save is the commit, the end or the failure of the cell's    *)
(* save, or none of its steps.                                             *)
LEMMA SaveStepSimulates ==
    ASSUME IInv, IInv', SaveStep
    PROVE  Cell!Next \/ UNCHANGED Cell!cell
<1>. USE DEF IInv, Cell!Next, Cell!cell
<1>1. pc \in Saving /\ status = "saving" /\ Read = cur
  BY Settled DEF SaveStep, SetInline, SetInlineFails, StartChunks, WriteChunk,
     WriteFails, Commit, UndoChunk, UndoEnds, SweepEnds, rewritePrevious, Place, Saving
<1>2. CASE SetInline \/ Commit
  <2>1. Read' = saves
    <3>1. CASE SetInline
      BY <3>1, SettledNext DEF SetInline
    <3>2. CASE Commit
      <4>1. AllThere(cur)'
        BY <3>2 DEF Commit, AllWritten, Written, AllThere
      <4>. QED
        BY <3>2, <4>1, SettledNext DEF Commit
    <3>. QED
      BY <1>2, <3>1, <3>2
  <2>2. Read # saves
    BY <1>1, <1>2, Settled DEF SetInline, Commit, Place
  <2>3. saves' = saves /\ status' \in {"saving", "saved"}
    BY <1>1, <1>2 DEF SetInline, Commit, Return
  <2>. QED
    BY <1>1, <2>1, <2>2, <2>3 DEF Cell!Commit
<1>3. CASE SetInlineFails \/ StartChunks \/ UndoEnds
  <2>1. Read' = Read /\ saves' = saves
    BY <1>3, SameRead DEF SetInlineFails, StartChunks, UndoEnds
  <2>2. Read # saves
    BY <1>1, <1>3, Settled DEF SetInlineFails, StartChunks, UndoEnds, Place
  <2>3. status' = status \/ status' = "failed"
    BY <1>3 DEF SetInlineFails, StartChunks, UndoEnds, Return
  <2>. QED
    BY <1>1, <2>1, <2>2, <2>3 DEF Cell!SaveFails
<1>4. CASE WriteChunk \/ WriteFails \/ UndoChunk
  <2>1. cur' = cur /\ pc' \in Saving /\ UNCHANGED <<saves, status>>
    BY <1>4 DEF WriteChunk, WriteFails, UndoChunk, primary, Saving
  <2>. QED
    BY <1>1, <2>1, SettledNext
<1>5. CASE SweepEnds \/ rewritePrevious
  <2>1. Read = saves
    BY <1>1, <1>5 DEF SweepEnds, rewritePrevious, Place
  <2>2. Read' = Read /\ saves' = saves
    BY <1>1, <1>5, SettledNext, SameRead, Settled DEF SweepEnds, rewritePrevious,
       Readable, AllThere
  <2>3. status' = status \/ status' = "saved"
    BY <1>5 DEF SweepEnds, rewritePrevious, Return
  <2>. QED
    BY <1>1, <2>1, <2>2, <2>3 DEF Cell!Saved
<1>. QED
  BY <1>2, <1>3, <1>4, <1>5 DEF SaveStep

(* Draining pending generations is no step of the cell.                    *)
LEMMA DrainStepSimulates ==
    ASSUME IInv, IInv', DrainStep
    PROVE  UNCHANGED Cell!cell
<1>1. UNCHANGED <<saves, status>>
  BY DEF DrainStep, DeleteChunk, DeleteFails, Take
<1>2. CASE DeleteFails \/ \E g \in Saves : Take(g)
  BY <1>1, <1>2, SameRead DEF DeleteFails, Take, Cell!cell
<1>3. CASE DeleteChunk
  <2>1. ref # cur
    BY <1>3 DEF DeleteChunk, Draining, IInv, Refs, TypeOK, PrimaryType
  <2>2. UNCHANGED <<kind, cur>> /\ AllThere(cur)' = AllThere(cur)
    BY <1>3, <2>1 DEF DeleteChunk, primary, AllThere
  <2>. QED
    BY <1>1, <2>2, Settled, SettledNext DEF Cell!cell
<1>. QED
  BY <1>2, <1>3 DEF DrainStep

(* The start of a clear is a Clear of the cell.                            *)
LEMMA ClearSimulates ==
    ASSUME IInv, IInv', Clear
    PROVE  Cell!Clear
<1>1. Read' = Read /\ saves' = saves
  BY SameRead DEF Clear
<1>2. status \notin Cell!Busy
  BY DEF Clear, IInv, Place, Saving, Clearing, Cell!Busy
<1>3. Read = 0 <=> kind = "none"
  <2>1. cur = 0 <=> kind = "none"
    BY DEF IInv, TypeOK, PrimaryType, KeyringType, Saves, Entry
  <2>2. Corrupt # 0
    OBVIOUS
  <2>. QED
    BY <2>1, <2>2, Settled
<1>. QED
  BY <1>1, <1>2, <1>3 DEF Clear, Cell!Clear

(* A step of a clear breaks or empties the cell, or ends.                  *)
LEMMA ClearStepSimulates ==
    ASSUME IInv, IInv', ClearStep
    PROVE  Cell!Next \/ UNCHANGED Cell!cell
<1>. USE DEF IInv, Cell!Next, Cell!cell
<1>1. status = "clearing"
  BY DEF ClearStep, ClearCurrent, ClearChunk, ClearPrimary, ClearFails, Place, Clearing
<1>2. CASE ClearCurrent \/ ClearFails
  <2>1. Read' = Read /\ saves' = saves
    BY <1>2, SameRead DEF ClearCurrent, ClearFails
  <2>2. status' = status \/ status' = "failed"
    BY <1>2 DEF ClearCurrent, ClearFails, Return
  <2>. QED
    BY <1>1, <2>1, <2>2 DEF Cell!ClearFails
<1>3. CASE ClearChunk
  <2>1. kind = "chunked" /\ Read # 0
    <3>1. /\ at \in Nat /\ at < size[cur] /\ kind \in {"none", "inline", "chunked"} /\ kind # "none"
      BY <1>3 DEF ClearChunk, TypeOK, PrimaryType, KeyringType, CallType, Place
    <3>2. kind = "chunked"
      BY <3>1 DEF Entry
    <3>3. cur \in committed /\ committed \subseteq Saves
      BY <3>2 DEF Entry, TypeOK, KeyringType, CallType
    <3>. QED BY <3>2, <3>3, Settled DEF Saves
  <2>2. Read' = Corrupt
    <3>1. at \in 0..(size[cur] - 1)
      BY <1>3 DEF ClearChunk, TypeOK, PrimaryType, KeyringType, CallType
    <3>2. ~AllThere(cur)'
      BY <1>3, <3>1 DEF ClearChunk, primary, AllThere
    <3>. QED
      BY <1>3, <2>1, <3>2, SettledNext DEF ClearChunk, primary
  <2>. QED
    BY <1>1, <1>3, <2>1, <2>2 DEF ClearChunk, Cell!Breaks
<1>4. CASE ClearPrimary
  BY <1>1, <1>4, SettledNext DEF ClearPrimary, Return, Cell!Cleared
<1>. QED
  BY <1>2, <1>3, <1>4 DEF ClearStep

(* Every step of the store is a step of the cell or leaves it alone.       *)
LEMMA StepSimulates ==
    IInv /\ IInv' /\ [Next]_vars => [Cell!Next]_(Cell!cell)
<1>. SUFFICES ASSUME IInv, IInv', [Next]_vars PROVE Cell!Next \/ UNCHANGED Cell!cell
  OBVIOUS
<1>1. ASSUME NEW n \in 0..MaxChunks, Save(n) PROVE Cell!Next
  BY <1>1, SaveSimulates DEF Cell!Next
<1>2. CASE Refused
  <2>1. status \notin Cell!Busy
    BY <1>2 DEF Refused, IInv, Place, Saving, Clearing, Cell!Busy
  <2>. QED
    BY <1>2, <2>1, SameRead DEF Refused, Cell!Next, Cell!Refused
<1>3. CASE Crash
  <2>1. status \in Cell!Busy
    BY <1>3 DEF Crash, IInv, TypeOK, CallType, Place, Saving, Clearing, Cell!Busy
  <2>. QED
    BY <1>3, <2>1, SameRead DEF Crash, Return, Cell!Next, Cell!Crashes
<1>4. CASE GetManifest \/ GetChunk \/ UNCHANGED vars
  BY <1>4, SameRead DEF GetManifest, GetChunk, vars, Cell!cell
<1>. QED
  BY <1>1, <1>2, <1>3, <1>4, SaveStepSimulates, DrainStepSimulates, ClearSimulates,
     ClearStepSimulates DEF Next, Cell!Next

(* The store implements SecretCell: a save is atomic for every Get that    *)
(* follows, in spite of failures and crashes, and only a clear breaks an   *)
(* entry.                                                                  *)
THEOREM Implements == Spec => ImplementsCell
<1>1. Init => Cell!Init
  BY DEF Init, Cell!Init, Read
<1>. QED
  BY <1>1, AlwaysIInv, StepSimulates, PTL DEF Spec, ImplementsCell, Cell!Spec
================================================================================
