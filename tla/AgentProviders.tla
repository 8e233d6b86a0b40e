---------------------------- MODULE AgentProviders ----------------------------
(***************************************************************************)
(* The assistant's providers, src/internal/app/app.go: their list is in    *)
(* settings.json, the API key of each in the keyring.  Every call first    *)
(* migrates what an older version left: one key in an account of its own,  *)
(* and a file without a list.  Reads and writes of either store are steps; *)
(* settings.Store.Set replaces the file under a lock, the calls of the App *)
(* that read the list, change it and set it again hold none.               *)
(***************************************************************************)
EXTENDS Naturals, Sequences, SequencesExt

CONSTANTS Callers,   \* calls of the frontend at a time (bound)
          Legacy,    \* settings.LegacyProviderID
          Others,    \* ids of further providers
          Old,       \* the account of the single key of older versions
          Keys,      \* API keys
          None       \* no key, no provider

Ids == Others \cup {Legacy}

VARIABLES present,     \* settings.json has a list: AgentProvidersPresent
          providers,   \* the ids of the list Get returns, in order
          default,     \* AgentDefaultProviderID
          keys,        \* the keyring
          call,        \* the call each caller is in
          raced,       \* history: two calls were under way at once
          broken,      \* history: a call failed or died between two writes
          touched      \* history: the user disposed of the legacy key himself

file == <<present, providers, default>>
past == <<raced, broken, touched>>
vars == <<file, keys, call, past>>

Idle == [op |-> "none", at |-> "idle", id |-> None, key |-> None,
         seen |-> None, list |-> <<>>, default |-> None]

Ops == {"upsert", "delete", "key", "default", "prompt"}

-----------------------------------------------------------------------------
(* settings.Store.                                                         *)

(* The default names a listed provider, else the first one.  Every         *)
(* provider here has a model.                                              *)
normalizeAgentDefault(id, list) ==
    IF Contains(list, id) THEN id ELSE IF list = <<>> THEN None ELSE Head(list)

Set(list, id) ==
    /\ present' = TRUE /\ providers' = list
    /\ default' = normalizeAgentDefault(id, list)

-----------------------------------------------------------------------------
(* The calls.                                                              *)

Go(c, at) == call' = [call EXCEPT ![c].at = at]

End(c) == call' = [call EXCEPT ![c] = Idle]

(* An error ends the call where it is.  From the copy of an old key to the *)
(* list that names it, and from a deleted provider to its deleted key, it  *)
(* leaves half a change behind.                                            *)
Halfway(c) == \/ call[c].at \in {"drop", "present", "migrate"} /\ call[c].seen # None
              \/ call[c].at = "forget"

Fail(c) == End(c) /\ broken' = (broken \/ Halfway(c)) /\ UNCHANGED <<file, keys, raced, touched>>

Start(c, op) ==
    /\ call[c].op = "none"
    /\ \E id \in Ids, k \in (IF op = "key" THEN Keys \cup {None} ELSE {None}) :
         /\ call' = [call EXCEPT ![c] = [Idle EXCEPT !.op = op, !.at = "old", !.id = id, !.key = k]]
         /\ touched' = (touched \/ (id = Legacy /\ op \in {"key", "delete"}))
    /\ raced' = (raced \/ \E d \in Callers \ {c} : call[d].op # "none")
    /\ UNCHANGED <<file, keys, broken>>

-----------------------------------------------------------------------------
(* migrateAgentProviders.                                                  *)

ReadOld(c) ==
    /\ call[c].at = "old"
    /\ call' = [call EXCEPT ![c].seen = keys[Old],
                            ![c].at = IF keys[Old] = None THEN "present" ELSE "dest"]
    /\ UNCHANGED <<file, keys, past>>

(* Mutant: the old key goes whether or not there is a new one.             *)
DropsFirst(c) ==
    /\ call[c].at = "dest"
    /\ keys' = [keys EXCEPT ![Old] = None]
    /\ Go(c, IF keys[Legacy] = None THEN "copy" ELSE "drop")
    /\ UNCHANGED <<file, past>>

ReadDest(c) ==
    /\ call[c].at = "dest"
    /\ Go(c, IF keys[Legacy] = None THEN "copy" ELSE "drop")
    /\ UNCHANGED <<file, keys, past>>

CopyKey(c) ==
    /\ call[c].at = "copy"
    /\ keys' = [keys EXCEPT ![Legacy] = call[c].seen]
    /\ Go(c, "drop")
    /\ UNCHANGED <<file, past>>

DropOld(c) ==
    /\ call[c].at = "drop"
    /\ keys' = [keys EXCEPT ![Old] = None]
    /\ Go(c, "present")
    /\ UNCHANGED <<file, past>>

(* A missing file has no list; one without a list shows the old endpoint.  *)
Synthesised == IF providers = <<>> THEN <<Legacy>> ELSE providers

NothingToMigrate(c) == present \/ (providers = <<>> /\ call[c].seen = None)

ReadList(c) ==
    /\ call[c].at = "present"
    /\ call' = [call EXCEPT
                  ![c].list = IF NothingToMigrate(c) THEN <<>> ELSE Synthesised,
                  ![c].default = IF NothingToMigrate(c) THEN None ELSE default,
                  ![c].at = IF NothingToMigrate(c) THEN "read" ELSE "migrate"]
    /\ UNCHANGED <<file, keys, past>>

WriteList(c) ==
    /\ call[c].at = "migrate"
    /\ Set(call[c].list, call[c].default)
    /\ call' = [call EXCEPT ![c].list = <<>>, ![c].default = None, ![c].at = "read"]
    /\ UNCHANGED <<keys, past>>

Migrates(c) == ReadOld(c) \/ ReadDest(c) \/ CopyKey(c) \/ DropOld(c) \/ ReadList(c) \/ WriteList(c)

-----------------------------------------------------------------------------
(* What the call is for.  AgentPrompt only reads, as AgentStatus does.     *)

Listed(c) == Contains(providers, call[c].id)

Upserted(c) == IF Listed(c) THEN providers ELSE Append(providers, call[c].id)

(* normalizeProviderList keeps one of each id: the loop leaves out one.    *)
Deleted(c) == RemoveAt(providers, CHOOSE i \in DOMAIN providers : providers[i] = call[c].id)

Read(c) ==
    /\ call[c].at = "read"
    /\ IF call[c].op = "prompt" \/ (call[c].op # "upsert" /\ ~Listed(c))
       THEN End(c)
       ELSE call' = [call EXCEPT
              ![c].list = CASE call[c].op = "upsert" -> Upserted(c)
                            [] call[c].op = "delete" -> Deleted(c)
                            [] OTHER -> <<>>,
              ![c].default = IF call[c].op = "upsert" THEN default ELSE None,
              ![c].at = IF call[c].op = "key" THEN "keep" ELSE "write"]
    /\ UNCHANGED <<file, keys, past>>

Write(c) ==
    /\ call[c].at = "write"
    /\ CASE call[c].op = "default" -> Set(providers, call[c].id)
         [] call[c].op = "upsert"  -> Set(call[c].list, call[c].default)
         [] call[c].op = "delete"  -> Set(call[c].list, default)
    /\ IF call[c].op = "delete"
       THEN call' = [call EXCEPT ![c].list = <<>>, ![c].at = "forget"]
       ELSE End(c)
    /\ UNCHANGED <<keys, past>>

(* Mutant: the key stays.                                                  *)
KeepsKey(c) == call[c].at = "forget" /\ End(c) /\ UNCHANGED <<file, keys, past>>

Forget(c) ==
    /\ call[c].at = "forget"
    /\ keys' = [keys EXCEPT ![call[c].id] = None]
    /\ End(c)
    /\ UNCHANGED <<file, past>>

SetKey(c) ==
    /\ call[c].at = "keep"
    /\ keys' = [keys EXCEPT ![call[c].id] = call[c].key]
    /\ End(c)
    /\ UNCHANGED <<file, past>>

Fails(c) == call[c].op # "none" /\ Fail(c)

Step(c) == Migrates(c) \/ Read(c) \/ Write(c) \/ Forget(c) \/ SetKey(c) \/ Fails(c)

Restart ==
    /\ call' = [c \in Callers |-> Idle]
    /\ broken' = (broken \/ \E c \in Callers : Halfway(c))
    /\ UNCHANGED <<file, keys, raced, touched>>

(* A new installation, an old file, or one that is up to date, with or     *)
(* without keys.                                                           *)
Init ==
    /\ \/ present = FALSE /\ providers = <<>> /\ default = None
       \/ present \in BOOLEAN /\ providers = <<Legacy>> /\ default = Legacy
    /\ \E o \in Keys \cup {None}, k \in Keys \cup {None} :
         /\ keys = [i \in Ids \cup {Old} |->
                      CASE i = Old -> o [] i = Legacy -> k [] OTHER -> None]
         /\ k # None => providers # <<>>
    /\ call = [c \in Callers |-> Idle]
    /\ raced = FALSE /\ broken = FALSE /\ touched = FALSE

Next == Restart \/ \E c \in Callers : Step(c) \/ \E op \in Ops : Start(c, op)

Spec == Init /\ [][Next]_vars

-----------------------------------------------------------------------------
(* Every variable has its type, and no list has an id twice.               *)
TypeOK ==
    /\ present \in BOOLEAN /\ providers \in Seq(Ids) /\ default \in Ids \cup {None}
    /\ IsInjective(providers) /\ \A c \in Callers : IsInjective(call[c].list)
    /\ keys \in [Ids \cup {Old} -> Keys \cup {None}]
    /\ call \in [Callers -> [op: Ops \cup {"none"},
                             at: {"idle", "old", "dest", "copy", "drop", "present",
                                  "migrate", "read", "write", "forget", "keep"},
                             id: Ids \cup {None}, key: Keys \cup {None},
                             seen: Keys \cup {None}, list: Seq(Ids),
                             default: Ids \cup {None}]]
    /\ raced \in BOOLEAN /\ broken \in BOOLEAN /\ touched \in BOOLEAN

(* A migration never loses the key of an older version, however many run   *)
(* at once and wherever one fails or dies: until the user sets or deletes  *)
(* it, it is in the old account or in the new one (app.go:1091-1110).      *)
HasKey == keys[Old] # None \/ keys[Legacy] # None

KeyStays == HasKey /\ ~touched => HasKey'

LegacyKeyKept == [][KeyStays]_vars

(* Between calls every key belongs to a provider in the list.  Only calls  *)
(* that overlap, whose lists overwrite each other, and a delete or a       *)
(* migration cut off between its two stores leave keys nobody can reach    *)
(* any more (app.go:1131-1137, 1349-1359).                                 *)
KeysHaveProviders ==
    (\A c \in Callers : call[c].op = "none") =>
       raced \/ broken \/ \A id \in Ids : keys[id] # None => Contains(providers, id)

(* Both: no key is lost, and none is left over.                            *)
KeysKept == []TypeOK /\ []KeysHaveProviders /\ LegacyKeyKept
=============================================================================
