------------------------------ MODULE SecretCell ------------------------------
(***************************************************************************)
(* What the credential store of src/internal/credentials/credentials.go    *)
(* promises for one host: a cell that holds a secret or nothing.  A save   *)
(* replaces the secret in one step or, when it fails, leaves it alone;     *)
(* only a clear may break it.  Secrets are numbered; 0 is none.            *)
(***************************************************************************)
EXTENDS Naturals

CONSTANT Corrupt     \* an entry that is there and cannot be read

VARIABLES value,     \* what a Get returns
          target,    \* the secret of the latest save
          status     \* the call under way, or how the last one ended

cell == <<value, target, status>>

Busy == {"saving", "clearing"}

Init == value = 0 /\ target = 0 /\ status = "rest"

(* A save never starts from a value that cannot be read.                   *)
Save ==
    /\ status \notin Busy /\ value # Corrupt
    /\ target' \in Nat \ {0, value}
    /\ status' = "saving" /\ UNCHANGED value

(* The commit point; the call may have some cleaning up left to do.        *)
Commit ==
    /\ status = "saving" /\ value # target
    /\ value' = target
    /\ status' \in {"saving", "saved"} /\ UNCHANGED target

Saved ==
    /\ status = "saving" /\ value = target
    /\ status' = "saved" /\ UNCHANGED <<value, target>>

(* Once it is committed a save does not fail any more.                     *)
SaveFails ==
    /\ status = "saving" /\ value # target
    /\ status' = "failed" /\ UNCHANGED <<value, target>>

Clear ==
    /\ status \notin Busy
    /\ status' = IF value = 0 THEN "cleared" ELSE "clearing"
    /\ UNCHANGED <<value, target>>

Breaks ==
    /\ status = "clearing" /\ value # 0
    /\ value' = Corrupt /\ UNCHANGED <<target, status>>

Cleared ==
    /\ status = "clearing"
    /\ value' = 0 /\ status' = "cleared" /\ UNCHANGED target

ClearFails ==
    /\ status = "clearing"
    /\ status' = "failed" /\ UNCHANGED <<value, target>>

(* A call that fails at once changes nothing; nor does a crash of its own. *)
Refused == status \notin Busy /\ status' = "failed" /\ UNCHANGED <<value, target>>

Crashes == status \in Busy /\ status' = "crashed" /\ UNCHANGED <<value, target>>

Next == \/ Save \/ Commit \/ Saved \/ SaveFails \/ Clear \/ Breaks \/ Cleared
        \/ ClearFails \/ Refused \/ Crashes

Spec == Init /\ [][Next]_cell
===============================================================================
