---------------------------- MODULE CredentialStore ----------------------------
(***************************************************************************)
(* The credential store of src/internal/credentials/credentials.go for one *)
(* host: a secret too large for one keyring entry is cut into chunks under *)
(* a fresh generation, which a manifest in the primary entry points at.    *)
(* Every keyring call may fail, and the process may crash before any of    *)
(* them.  Save and Clear hold the store's mutex; a second process, the MCP *)
(* server, reads the same keyring without it.  A generation is the number  *)
(* of the save that made it, and stands for its secret as well.            *)
(***************************************************************************)
EXTENDS Naturals, FiniteSets

CONSTANTS MaxSaves,     \* calls of Save (bound)
          MaxChunks,    \* chunks of one secret, maxChunks
          MaxPrevious,  \* generations a manifest may list for cleanup
          Attempts,     \* rounds of cleanupNewChunks
          Corrupt

ASSUME LimitsAssumption ==
    /\ MaxSaves \in Nat /\ MaxChunks \in Nat \ {0}
    /\ MaxPrevious \in Nat /\ Attempts \in Nat \ {0}

ASSUME CorruptAssumption == Corrupt \notin Nat

Saves == 1..MaxSaves
Index == 0..(MaxChunks - 1)

VARIABLES
    kind, cur, prev,    \* the primary entry: its format, its secret, Previous
    chunks,             \* the chunk entries of the keyring
    size,               \* the number of chunks of each generation
    saves,              \* the saves so far; the last one is the current one
    status,             \* the call under way, or how the last one ended
    pc,                 \* where the call is
    left, ref, at,      \* refs still to drain, the one in hand, its next chunk
    kept, carry,        \* refs not drained; Previous of the new manifest
    missed, round,      \* cleanupNewChunks: a delete failed; the attempt
    committed,          \* generations a manifest has pointed at (history)
    reader, rcur, rat,  \* the Get of the other process
    disturbed           \* the entry was saved or cleared meanwhile (history)

primary == <<kind, cur, prev>>
work    == <<left, ref, at, kept, carry, missed, round>>
get     == <<reader, rcur, rat>>
vars    == <<primary, chunks, size, saves, status, pc, work, committed, get, disturbed>>

-----------------------------------------------------------------------------
(* readLocked: decodeChunks wants every chunk, and not too long a list.    *)
Whole ==
    /\ Cardinality(prev) <= MaxPrevious
    /\ \A i \in 0..(size[cur] - 1) : <<cur, i>> \in chunks

Read == CASE kind = "none" -> 0
          [] kind = "inline" -> cur
          [] OTHER -> IF Whole THEN cur ELSE Corrupt

(* The call goes on at the given place with nothing in hand ...            *)
Goto(place) ==
    /\ pc' = place /\ left' = {} /\ ref' = 0 /\ at' = 0
    /\ kept' = {} /\ carry' = {} /\ missed' = FALSE /\ round' = 0

(* ... or is over.                                                         *)
Return(outcome) == Goto("idle") /\ status' = outcome

-----------------------------------------------------------------------------
(* Save.                                                                   *)

(* A call that fails before its first write: nothing to save, no keyring,  *)
(* an error of the first Get, an entry that cannot be read, or a secret    *)
(* that is too large.                                                      *)
Refused ==
    /\ pc = "idle" /\ status' = "failed"
    /\ UNCHANGED <<primary, chunks, size, saves, pc, work, committed, get, disturbed>>

(* Mutant: the live generation is drained along with the backlog.          *)
LiveToo == IF kind = "chunked" THEN prev \cup {cur} ELSE {}

(* What is drained before the commit: old.Previous.                        *)
Backlog == IF kind = "chunked" THEN prev ELSE {}

(* A secret of n chunks, or a small one when n is 0; once there are chunks *)
(* a small one is chunked as well.                                         *)
Save(n) ==
    /\ pc = "idle" /\ saves < MaxSaves /\ Read # Corrupt
    /\ saves' = saves + 1 /\ status' = "saving"
    /\ IF n = 0 /\ kind # "chunked"
         THEN /\ pc' = "inline"
              /\ UNCHANGED <<size, work>>
         ELSE /\ pc' = "drain" /\ left' = Backlog
              /\ size' = [size EXCEPT ![saves + 1] = IF n = 0 THEN 1 ELSE n]
              /\ UNCHANGED <<ref, at, kept, carry, missed, round>>
    /\ UNCHANGED <<primary, chunks, committed, get, disturbed>>

SetInline ==
    /\ pc = "inline"
    /\ kind' = "inline" /\ cur' = saves /\ disturbed' = TRUE
    /\ Return("saved")
    /\ UNCHANGED <<prev, chunks, size, saves, committed, get>>

(* The set fails, and there is nothing to undo.                            *)
SetInlineFails ==
    /\ pc = "inline" /\ Return("failed")
    /\ UNCHANGED <<primary, chunks, size, saves, committed, get, disturbed>>

(* buildPrevious: the refs that could not be drained, and the generation   *)
(* that is about to be superseded.                                         *)
buildPrevious == kept \cup (IF kind = "chunked" THEN {cur} ELSE {})

(* Mutant: the list of pending refs grows without bound.                   *)
NeverTooLong == FALSE

TooLong == Cardinality(buildPrevious) > MaxPrevious

Drained == left = {} /\ ref = 0

StartChunks ==
    /\ pc = "drain" /\ Drained
    /\ IF TooLong
         THEN Return("failed")
         ELSE /\ pc' = "write" /\ carry' = buildPrevious
              /\ kept' = {} /\ at' = 0
              /\ UNCHANGED <<left, ref, missed, round, status>>
    /\ UNCHANGED <<primary, chunks, size, saves, committed, get, disturbed>>

WriteChunk ==
    /\ pc = "write" /\ at < size[saves]
    /\ chunks' = chunks \cup {<<saves, at>>} /\ at' = at + 1
    /\ UNCHANGED <<primary, size, saves, status, pc, left, ref, kept, carry,
                   missed, round, committed, get, disturbed>>

(* A set fails, be it of a chunk or of the manifest: the chunks written so *)
(* far, which ref now counts, are deleted again.                           *)
WriteFails ==
    /\ pc = "write"
    /\ pc' = "undo" /\ ref' = at /\ at' = 0 /\ round' = 1 /\ carry' = {}
    /\ UNCHANGED <<primary, chunks, size, saves, status, left, kept, missed,
                   committed, get, disturbed>>

(* Mutant: the manifest is written before the last chunk.                  *)
AllButOne == at + 1 >= size[saves]

AllWritten == at = size[saves]

(* The manifest is the commit point.                                       *)
Commit ==
    /\ pc = "write" /\ AllWritten
    /\ kind' = "chunked" /\ cur' = saves /\ prev' = carry
    /\ committed' = committed \cup {saves} /\ disturbed' = TRUE
    /\ IF carry = {}
         THEN Return("saved")
         ELSE /\ pc' = "sweep" /\ left' = carry /\ at' = 0
              /\ UNCHANGED <<ref, kept, carry, missed, round, status>>
    /\ UNCHANGED <<chunks, size, saves, get>>

(* cleanupNewChunks.                                                       *)
UndoChunk ==
    /\ pc = "undo" /\ at < ref
    /\ \/ chunks' = chunks \ {<<saves, at>>} /\ missed' = missed
       \/ chunks' = chunks /\ missed' = TRUE
    /\ at' = at + 1
    /\ UNCHANGED <<primary, size, saves, status, pc, left, ref, kept, carry,
                   round, committed, get, disturbed>>

UndoEnds ==
    /\ pc = "undo" /\ at = ref
    /\ IF missed /\ round < Attempts
         THEN /\ at' = 0 /\ missed' = FALSE /\ round' = round + 1
              /\ UNCHANGED <<status, pc, left, ref, kept, carry>>
         ELSE Return("failed")
    /\ UNCHANGED <<primary, chunks, size, saves, committed, get, disturbed>>

-----------------------------------------------------------------------------
(* drainPrevious, before and after the commit; Clear goes through Previous *)
(* in the same way, but stops at the first failure.                        *)

Draining == pc \in {"drain", "sweep", "previous"}

Take(g) ==
    /\ Draining /\ ref = 0 /\ g \in left
    /\ ref' = g /\ at' = 0 /\ left' = left \ {g}
    /\ UNCHANGED <<primary, chunks, size, saves, status, pc, kept, carry, missed,
                   round, committed, get, disturbed>>

(* A chunk that is missing counts as deleted.                              *)
DeleteChunk ==
    /\ Draining /\ ref # 0
    /\ chunks' = chunks \ {<<ref, at>>}
    /\ IF at + 1 < size[ref] THEN at' = at + 1 /\ ref' = ref
                             ELSE at' = 0 /\ ref' = 0
    /\ UNCHANGED <<primary, size, saves, status, pc, left, kept, carry, missed,
                   round, committed, get, disturbed>>

(* Mutant: a ref counts as drained although a delete failed.               *)
Forgotten == kept

StillPending == kept \cup {ref}

DeleteFails ==
    /\ pc \in {"drain", "sweep"} /\ ref # 0
    /\ kept' = StillPending /\ ref' = 0 /\ at' = 0
    /\ UNCHANGED <<primary, chunks, size, saves, status, pc, left, carry, missed,
                   round, committed, get, disturbed>>

(* The sweep after the commit; its failure is not the save's.              *)
SweepEnds ==
    /\ pc = "sweep" /\ Drained
    /\ IF kept # carry
         THEN pc' = "rewrite" /\ UNCHANGED <<status, work>>
         ELSE Return("saved")
    /\ UNCHANGED <<primary, chunks, size, saves, committed, get, disturbed>>

rewritePrevious ==
    /\ pc = "rewrite"
    /\ prev' = kept \/ prev' = prev
    /\ Return("saved")
    /\ UNCHANGED <<kind, cur, chunks, size, saves, committed, get, disturbed>>

-----------------------------------------------------------------------------
(* Clear: the pending generations, the current chunks, and the primary.    *)

Clear ==
    /\ pc = "idle"
    /\ IF kind = "none"
         THEN status' = "cleared" /\ UNCHANGED <<pc, left>>
         ELSE /\ status' = "clearing"
              /\ pc' = IF kind = "chunked" THEN "previous" ELSE "current"
              /\ left' = prev
    /\ UNCHANGED <<primary, chunks, size, saves, ref, at, kept, carry, missed, round,
                   committed, get, disturbed>>

ClearCurrent ==
    /\ pc = "previous" /\ Drained
    /\ Goto("current")
    /\ UNCHANGED <<primary, chunks, size, saves, status, committed, get, disturbed>>

ClearChunk ==
    /\ pc = "current" /\ at < size[cur]
    /\ chunks' = chunks \ {<<cur, at>>} /\ at' = at + 1 /\ disturbed' = TRUE
    /\ UNCHANGED <<primary, size, saves, status, pc, left, ref, kept, carry, missed,
                   round, committed, get>>

CurrentGone == at = size[cur]

ClearPrimary ==
    /\ pc = "current" /\ CurrentGone
    /\ kind' = "none" /\ cur' = 0 /\ prev' = {} /\ disturbed' = TRUE
    /\ Return("cleared")
    /\ UNCHANGED <<chunks, size, saves, committed, get>>

ClearFails ==
    /\ pc = "current" \/ (pc = "previous" /\ ref # 0)
    /\ Return("failed")
    /\ UNCHANGED <<primary, chunks, size, saves, committed, get, disturbed>>

-----------------------------------------------------------------------------
(* The process is gone, and starts again; the keyring stays.               *)
Crash ==
    /\ pc # "idle" /\ Return("crashed")
    /\ UNCHANGED <<primary, chunks, size, saves, committed, get, disturbed>>

(* The other process: Get reads the primary, then one chunk after another. *)
(* An entry without chunks is read in one call and left out.               *)
GetManifest ==
    /\ reader # "reading" /\ kind = "chunked"
    /\ reader' = "reading" /\ rcur' = cur /\ rat' = 0
    /\ disturbed' = (Read = Corrupt)
    /\ UNCHANGED <<primary, chunks, size, saves, status, pc, work, committed>>

GetChunk ==
    /\ reader = "reading"
    /\ IF <<rcur, rat>> \in chunks
         THEN /\ reader' = IF rat + 1 = size[rcur] THEN "read" ELSE "reading"
              /\ rat' = rat + 1
         ELSE reader' = "corrupt" /\ rat' = rat
    /\ UNCHANGED <<primary, chunks, size, saves, status, pc, work, committed,
                   rcur, disturbed>>

-----------------------------------------------------------------------------
Init ==
    /\ kind = "none" /\ cur = 0 /\ prev = {} /\ chunks = {}
    /\ size = [g \in 0..MaxSaves |-> 0] /\ saves = 0
    /\ status = "rest" /\ pc = "idle"
    /\ left = {} /\ ref = 0 /\ at = 0 /\ kept = {} /\ carry = {}
    /\ missed = FALSE /\ round = 0 /\ committed = {}
    /\ reader = "idle" /\ rcur = 0 /\ rat = 0 /\ disturbed = FALSE

SaveStep == \/ SetInline \/ SetInlineFails \/ StartChunks \/ WriteChunk \/ WriteFails
            \/ Commit \/ UndoChunk \/ UndoEnds \/ SweepEnds \/ rewritePrevious

DrainStep == DeleteChunk \/ DeleteFails \/ \E g \in Saves : Take(g)

ClearStep == ClearCurrent \/ ClearChunk \/ ClearPrimary \/ ClearFails

Next == \/ \E n \in 0..MaxChunks : Save(n)
        \/ Refused \/ SaveStep \/ DrainStep \/ Clear \/ ClearStep \/ Crash
        \/ GetManifest \/ GetChunk

Spec == Init /\ [][Next]_vars

-----------------------------------------------------------------------------
PrimaryType ==
    /\ kind \in {"none", "inline", "chunked"} /\ cur \in 0..MaxSaves
    /\ prev \subseteq Saves \ {cur} /\ Cardinality(prev) <= MaxPrevious

KeyringType ==
    /\ chunks \subseteq Saves \X Index /\ committed \subseteq Saves
    /\ size \in [0..MaxSaves -> 0..MaxChunks] /\ saves \in 0..MaxSaves

CallType ==
    /\ status \in {"rest", "saving", "clearing", "saved", "cleared", "failed", "crashed"}
    /\ pc \in {"idle", "inline", "drain", "write", "undo", "sweep", "rewrite",
               "previous", "current"}
    /\ left \subseteq Saves /\ ref \in Nat /\ at \in 0..MaxChunks
    /\ kept \subseteq Saves /\ carry \subseteq Saves
    /\ missed \in BOOLEAN /\ round \in 0..Attempts

GetType ==
    /\ reader \in {"idle", "reading", "read", "corrupt"} /\ disturbed \in BOOLEAN
    /\ rcur \in 0..MaxSaves /\ rat \in 0..MaxChunks

(* The types of the entries and of the calls' local state; the list of     *)
(* pending generations never gets longer than a Get accepts.               *)
TypeOK == PrimaryType /\ KeyringType /\ CallType /\ GetType

(* Save is atomic and survives every failure and crash: before the commit  *)
(* point the old secret is readable as it was, after it the new one; only  *)
(* a Clear can leave an entry that cannot be read.                         *)
Cell == INSTANCE SecretCell WITH value <- Read, target <- saves

ImplementsCell == Cell!Spec

(* No chunk of a secret that was ever in use gets lost: as long as it is   *)
(* in the keyring the primary names its generation, so that a later Save   *)
(* or Clear deletes it, and a Clear that succeeds leaves none behind.      *)
NothingLost ==
    \A c \in chunks :
      c[1] \in committed => kind = "chunked" /\ c[1] \in prev \cup {cur}

(* A Get of the other process fails on a readable entry only when a Save   *)
(* is committed or a Clear is under way meanwhile: a Save that fails, or   *)
(* has not reached its commit point, never disturbs a reader.              *)
ReadersUndisturbed == reader = "corrupt" => disturbed

(* What the comment in Clear says: a Clear that fails retains the primary  *)
(* so that the secret stays recoverable.                                   *)
ClearRetains ==
    [][status = "clearing" /\ status' = "failed" => Read' # Corrupt]_vars
===============================================================================
