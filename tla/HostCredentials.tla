--------------------------- MODULE HostCredentials ---------------------------
(***************************************************************************)
(* One host between two stores: the host file of internal/hosts/hosts.go,  *)
(* which is served from a cache, and the keyring behind the credential     *)
(* store.  The calls of src/internal/app/app.go that touch both run        *)
(* concurrently and write one store after the other; each of their reads   *)
(* and writes is a step, since both stores have a lock of their own.  A    *)
(* keyring call behaves as SecretCell says: a save takes effect or fails,  *)
(* a clear may also fail after it broke the entry.                         *)
(***************************************************************************)
EXTENDS Naturals, FiniteSets

CONSTANTS Callers,   \* calls of the frontend at a time (bound)
          Secrets,   \* what a user may save
          None,      \* no entry in the keyring
          Corrupt    \* an entry that cannot be decoded

VARIABLES cache,     \* hosts.Store.cache: the host, as this process sees it
          disk,      \* the host in hosts.json
          secret,    \* the keyring entry of the host
          created,   \* ids are never reused: the host is created once
          call,      \* the call each caller is in
          crossed,   \* history: a remove overlapped a save or a clear
          unwritten  \* history: a write of hosts.json failed

stores == <<cache, disk, secret, created>>
past   == <<crossed, unwritten>>
vars   == <<stores, call, past>>

(* A host is absent, or there with credentialsSaved false or true.         *)
HostStates == {"absent", "plain", "saved"}

(* Of a call, "before" and "alone" are history: the secret it found, and   *)
(* that no other call on the host has been under way meanwhile.            *)
Idle == [op |-> "none", at |-> "idle", prev |-> None, new |-> None,
         before |-> None, alone |-> FALSE]

Ops == {"save", "remove", "clear", "mark"}

Readable == secret # Corrupt

-----------------------------------------------------------------------------
(* hosts.Store: the cache keeps a change whose write failed.               *)

WriteOk(h) == cache' = h /\ disk' = h /\ UNCHANGED unwritten

WriteFails(h) == cache' = h /\ unwritten' = TRUE /\ UNCHANGED disk

HostsCreate ==
    /\ ~created /\ created' = TRUE
    /\ WriteOk("plain") \/ WriteFails("plain")
    /\ UNCHANGED <<secret, call, crossed>>

(* A change of any other host, or of another field, writes the whole cache. *)
OtherWrites ==
    /\ cache # disk
    /\ WriteOk(cache)
    /\ UNCHANGED <<secret, created, call, crossed>>

-----------------------------------------------------------------------------
(* The calls.                                                              *)

Go(c, at) == call' = [call EXCEPT ![c].at = at]

End(c) == call' = [call EXCEPT ![c] = Idle]

EndsAt(c, at) == call' = [call EXCEPT ![c] = [Idle EXCEPT !.at = at]]

Fail(c) == EndsAt(c, "failed")

(* Mutant: a save does not ask for the host.                               *)
KnownAlways(op) == TRUE

(* GetByID for a save: an unknown host is refused before the keyring is    *)
(* touched.  The other calls do not look.                                  *)
Known(op) == op = "save" => cache # "absent"

UnderWay(c) == {d \in Callers \ {c} : call[d].op # "none"}

Crosses(ops) == "remove" \in ops /\ ops \cap {"save", "clear"} # {}

Start(c, op) ==
    /\ call[c].op = "none" /\ created /\ Known(op)
    /\ \E v \in (IF op = "save" THEN Secrets ELSE {None}) :
         call' = [d \in Callers |->
                    IF d = c THEN [op |-> op, at |-> "get", prev |-> None, new |-> v,
                                   before |-> secret, alone |-> UnderWay(c) = {}]
                    ELSE [call[d] EXCEPT !.alone = FALSE]]
    /\ crossed' = (crossed \/ \E d \in UnderWay(c) : Crosses({op, call[d].op}))
    /\ UNCHANGED <<stores, unwritten>>

(* creds.Get.  An error ends a save and a mark, not a remove or a clear,   *)
(* which then have nothing to roll back to.  A mark that does not ask for  *)
(* the saved flag reads nothing.                                           *)
Get(c) ==
    /\ call[c].at = "get"
    /\ \/ /\ Readable
          /\ call' = [call EXCEPT ![c].prev = secret,
                        ![c].at = IF call[c].op = "mark" THEN "flag" ELSE "keyring"]
       \/ /\ call[c].op \in {"remove", "clear"}
          /\ call' = [call EXCEPT ![c].prev = Corrupt, ![c].at = "keyring"]
       \/ /\ call[c].op \in {"save", "mark"}
          /\ Fail(c)
       \/ /\ call[c].op = "mark"
          /\ Go(c, "flag")
    /\ UNCHANGED <<stores, past>>

(* creds.Save, which reads the old entry first and refuses a corrupt one.  *)
KeyringSave(c) ==
    /\ call[c].at = "keyring" /\ call[c].op = "save"
    /\ \/ Readable /\ secret' = call[c].new /\ Go(c, "flag")
       \/ UNCHANGED secret /\ Fail(c)
    /\ UNCHANGED <<cache, disk, created, past>>

KeyringClear(c) ==
    /\ call[c].at = "keyring" /\ call[c].op \in {"remove", "clear"}
    /\ \/ secret' = None /\ Go(c, "flag")
       \/ secret' \in {secret, IF secret = None THEN None ELSE Corrupt} /\ Fail(c)
    /\ UNCHANGED <<cache, disk, created, past>>

(* The host as the call leaves it: Update keeps an unknown host unknown.   *)
Flagged(c) ==
    CASE call[c].op = "remove" -> "absent"
      [] call[c].op = "save"   -> "saved"
      [] call[c].op = "clear"  -> "plain"
      [] call[c].op = "mark"   -> IF call[c].prev = None THEN "plain" ELSE "saved"

Found(c) == call[c].op = "remove" \/ cache # "absent"

(* What there is to roll back: a save without a previous secret clears.    *)
RollsBack(c) == \/ call[c].op = "save"
                \/ call[c].op \in {"remove", "clear"} /\ call[c].prev \in Secrets

HostFile(c) ==
    /\ call[c].at = "flag"
    /\ \/ Found(c) /\ WriteOk(Flagged(c)) /\ End(c)
       \/ /\ \/ Found(c) /\ WriteFails(Flagged(c))
             \/ ~Found(c) /\ UNCHANGED <<cache, disk, unwritten>>
          /\ IF RollsBack(c) THEN Go(c, "rollback") ELSE Fail(c)
    /\ UNCHANGED <<secret, created, crossed>>

(* Mutant: the rollback stores what was to be saved.                       *)
SavesNew(c) == call[c].new

Restored(c) == call[c].prev

(* A failed rollback is only logged.                                       *)
Rollback(c) ==
    /\ call[c].at = "rollback"
    /\ \/ /\ Restored(c) # None => Readable
          /\ secret' = Restored(c) /\ Fail(c)
       \/ /\ secret' \in {secret} \cup (IF Restored(c) = None /\ secret # None
                                        THEN {Corrupt} ELSE {})
          /\ EndsAt(c, "stuck")
    /\ UNCHANGED <<cache, disk, created, past>>

Step(c) == Get(c) \/ KeyringSave(c) \/ KeyringClear(c) \/ HostFile(c) \/ Rollback(c)

(* The process ends anywhere; the next one reads the file.                 *)
Restart ==
    /\ cache' = disk
    /\ call' = [c \in Callers |-> Idle]
    /\ UNCHANGED <<disk, secret, created, past>>

Init ==
    /\ cache = "absent" /\ disk = "absent"
    /\ secret = None /\ created = FALSE
    /\ call = [c \in Callers |-> Idle]
    /\ crossed = FALSE /\ unwritten = FALSE

Next ==
    \/ HostsCreate \/ OtherWrites \/ Restart
    \/ \E c \in Callers : Step(c) \/ \E op \in Ops : Start(c, op)

Spec == Init /\ [][Next]_vars

-----------------------------------------------------------------------------
(* Every variable has its type.                                            *)
TypeOK ==
    /\ cache \in HostStates /\ disk \in HostStates
    /\ secret \in Secrets \cup {None, Corrupt}
    /\ \A b \in {created, crossed, unwritten} : b \in BOOLEAN
    /\ call \in [Callers -> [op: Ops \cup {"none"},
                             at: {"idle", "get", "keyring", "flag", "rollback", "failed", "stuck"},
                             prev: Secrets \cup {None, Corrupt}, new: Secrets \cup {None},
                             before: Secrets \cup {None, Corrupt}, alone: BOOLEAN]]

(* The keyring holds nothing for a host that hosts.json does not have      *)
(* (app.go:583-584, 493-502), but when hosts.json could not be written     *)
(* once, or a remove overlapped a save, or a clear, whose rollback puts    *)
(* back what the remove has deleted (640-655).  Nothing else breaks it:    *)
(* neither other overlaps, nor a keyring that fails, even in a rollback,   *)
(* nor a crash between any two steps of a call.                            *)
OrphansExplained ==
    /\ TypeOK
    /\ crossed \/ unwritten \/ (secret # None => disk # "absent")

(* A call that no other overlaps, and that fails, leaves the secret it     *)
(* found (app.go:517-526, 613-624, 650-657), unless its rollback failed as *)
(* well, a clear broke the entry on its way to fail, or the first read     *)
(* failed, which HostsRemove and CredentialsClear take for a corrupt entry *)
(* with nothing to roll back to (512-514, 642-644).                        *)
Fruitless(c) ==
    /\ call[c].at # "failed" /\ call'[c].at = "failed"
    /\ call[c].alone /\ call[c].prev # Corrupt /\ secret' # Corrupt

Restores == \A c \in Callers : Fruitless(c) => secret' = call[c].before

FailureRestores == [][Restores]_vars
=============================================================================
