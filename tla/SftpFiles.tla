------------------------------ MODULE SftpFiles ------------------------------
(***************************************************************************)
(* How src/internal/sftpservice/sftpservice.go replaces a file: an upload  *)
(* or a text write puts a temporary file beside the remote target and      *)
(* commits it, a download does so beside a local one.  Several writers aim *)
(* at the same file.  Every request to the server may be refused, or lose  *)
(* the connection before or after it took effect (Interrupt, Dispose and   *)
(* the end of the session close the client in the same way), and the       *)
(* process may end anywhere.  Rename refuses an existing name, as the SFTP *)
(* protocol has it; the posix-rename extension replaces it.                *)
(***************************************************************************)
EXTENDS Naturals

CONSTANTS Uploads,     \* writers of the remote file
          Downloads,   \* writers of the local file
          Previous,    \* who wrote the files that were there before
          NoFile

Writers == Uploads \cup Downloads

VARIABLES target,    \* the remote and the local file
          tmp,       \* each writer's temporary file
          backup,    \* where an upload moved the target to
          at,        \* the step each writer is at
          mode,      \* the permissions it read from the target
          link,      \* its connection is up
          unsure,    \* history: a request took effect and was answered by an error
          posix,     \* the server has posix-rename@openssh.com
          existed    \* history: the files were there at first

files == <<target, tmp, backup>>
vars  == <<files, at, mode, link, unsure, posix, existed>>

(* A file is known by its writer, by being complete, and by whether its    *)
(* permissions are those of the previous one or the default of a new one.  *)
Content == [by: Writers \cup {Previous}, whole: BOOLEAN, mode: {"kept", "default"}]

Place(w) == IF w \in Uploads THEN "remote" ELSE "local"

Target(w) == target[Place(w)]

-----------------------------------------------------------------------------
(* Requests.                                                               *)

Go(w, next) == at' = [at EXCEPT ![w] = next]

(* Answered, and the writer goes on.                                       *)
Ok(w, next) == link[w] /\ Go(w, next) /\ UNCHANGED <<link, unsure>>

(* It took effect, but the answer was lost with the connection.            *)
Lost(w, next) ==
    /\ link[w] /\ link' = [link EXCEPT ![w] = FALSE]
    /\ unsure' = [unsure EXCEPT ![w] = TRUE] /\ Go(w, next)

Does(w, ok, failed) == Ok(w, ok) \/ Lost(w, failed)

(* Refused, or the connection was gone.                                    *)
Error(w, failed) ==
    /\ \E up \in {link[w], FALSE} : link' = [link EXCEPT ![w] = up]
    /\ Go(w, failed) /\ UNCHANGED <<files, mode, unsure>>

(* A step of the local file system works or fails and changes no link.     *)
Locally(w, next) == Go(w, next) /\ UNCHANGED <<link, unsure>>

SetTarget(w, f) == target' = [target EXCEPT ![Place(w)] = f]

Fresh(w) == [by |-> w, whole |-> FALSE, mode |-> "default"]

-----------------------------------------------------------------------------
(* uploadFile, writeTempAndCommit and UploadWithContext.                   *)

Create(w) ==
    /\ at[w] = "create" /\ w \in Uploads
    /\ \/ /\ tmp' = [tmp EXCEPT ![w] = Fresh(w)]
          /\ Does(w, "copy", "failed")
          /\ UNCHANGED <<target, backup, mode>>
       \/ Error(w, "failed")
    /\ UNCHANGED <<posix, existed>>

(* Mutant: a copy that ends early is committed.                            *)
EndsEarly(w) == at[w] = "copy" /\ w \in Uploads /\ UNCHANGED tmp /\ Ok(w, "close")

CopyAll(w) ==
    /\ at[w] = "copy" /\ w \in Uploads
    /\ tmp' = [tmp EXCEPT ![w].whole = TRUE]
    /\ Does(w, "close", "cleanup")

(* The whole file is copied and closed, or the copy fails, is cancelled or *)
(* cannot be closed.                                                       *)
Copy(w) ==
    /\ \/ CopyAll(w) /\ UNCHANGED <<target, backup, mode>>
       \/ at[w] \in {"copy", "close"} /\ w \in Uploads /\ Error(w, "cleanup")
       \/ at[w] = "close" /\ w \in Uploads /\ Ok(w, "inspect") /\ UNCHANGED <<files, mode>>
    /\ UNCHANGED <<posix, existed>>

(* The deferred cleanup: whatever becomes of it, the call has failed.      *)
Cleanup(w) ==
    /\ at[w] = "cleanup"
    /\ \/ /\ tmp' = [tmp EXCEPT ![w] = NoFile]
          /\ IF w \in Uploads THEN Does(w, "failed", "failed") ELSE Locally(w, "failed")
          /\ UNCHANGED <<target, backup, mode>>
       \/ Error(w, "failed")
    /\ UNCHANGED <<posix, existed>>

-----------------------------------------------------------------------------
(* commitUpload.                                                           *)

Inspect(w) ==
    /\ at[w] = "inspect" /\ w \in Uploads
    /\ \/ /\ Ok(w, IF Target(w) = NoFile THEN "rename" ELSE "chmod")
          /\ mode' = [mode EXCEPT ![w] = IF Target(w) = NoFile THEN "none" ELSE Target(w).mode]
          /\ UNCHANGED files
       \/ Error(w, "cleanup")
    /\ UNCHANGED <<posix, existed>>

Chmod(w) ==
    /\ at[w] = "chmod" /\ w \in Uploads
    /\ \/ /\ tmp' = [tmp EXCEPT ![w].mode = mode[w]]
          /\ Does(w, IF posix THEN "replace" ELSE "aside", "cleanup")
          /\ UNCHANGED <<target, backup, mode>>
       \/ Error(w, "cleanup")
    /\ UNCHANGED <<posix, existed>>

MoveTmp(w) == SetTarget(w, tmp[w]) /\ tmp' = [tmp EXCEPT ![w] = NoFile] /\ UNCHANGED <<backup, mode>>

(* The plain Rename of a target that was not there.                        *)
Rename(w) ==
    /\ at[w] = "rename"
    /\ \/ Target(w) = NoFile /\ MoveTmp(w) /\ Does(w, "ok", "cleanup")
       \/ Error(w, "cleanup")
    /\ UNCHANGED <<posix, existed>>

PosixRename(w) ==
    /\ at[w] = "replace" /\ w \in Uploads
    /\ \/ MoveTmp(w) /\ Does(w, "ok", "cleanup")
       \/ Error(w, "cleanup")
    /\ UNCHANGED <<posix, existed>>

(* Mutant: the target is removed to make room for the new file.            *)
RemoveTarget(w) == SetTarget(w, NoFile) /\ UNCHANGED <<tmp, backup, mode>>

MoveTarget(w) ==
    /\ backup' = [backup EXCEPT ![w] = Target(w)]
    /\ SetTarget(w, NoFile) /\ UNCHANGED <<tmp, mode>>

MoveAside(w) ==
    /\ at[w] = "aside"
    /\ \/ Target(w) # NoFile /\ MoveTarget(w) /\ Does(w, "place", "cleanup")
       \/ Error(w, "cleanup")
    /\ UNCHANGED <<posix, existed>>

TakePlace(w) ==
    /\ at[w] = "place"
    /\ \/ Target(w) = NoFile /\ MoveTmp(w) /\ Does(w, "unback", "restore")
       \/ Error(w, "restore")
    /\ UNCHANGED <<posix, existed>>

(* The restore and the removal of the backup are best effort.              *)
Restore(w) ==
    /\ at[w] = "restore"
    /\ \/ /\ Target(w) = NoFile /\ SetTarget(w, backup[w])
          /\ backup' = [backup EXCEPT ![w] = NoFile] /\ UNCHANGED <<tmp, mode>>
          /\ Does(w, "cleanup", "cleanup")
       \/ Error(w, "cleanup")
    /\ UNCHANGED <<posix, existed>>

RemoveBackup(w) ==
    /\ at[w] = "unback"
    /\ \/ /\ backup' = [backup EXCEPT ![w] = NoFile]
          /\ Does(w, "ok", "ok") /\ UNCHANGED <<target, tmp, mode>>
       \/ Error(w, "ok")
    /\ UNCHANGED <<posix, existed>>

Upload(w) == \/ Create(w) \/ Copy(w) \/ Cleanup(w) \/ Inspect(w) \/ Chmod(w) \/ Rename(w)
             \/ PosixRename(w) \/ MoveAside(w) \/ TakePlace(w) \/ Restore(w) \/ RemoveBackup(w)

-----------------------------------------------------------------------------
(* Download, downloadFile and DownloadWithContext: the target is inspected *)
(* before the copy, and os.Rename replaces it.                             *)

DInspect(w) ==
    /\ at[w] = "create" /\ w \in Downloads
    /\ mode' = [mode EXCEPT ![w] = IF Target(w) = NoFile THEN "default" ELSE Target(w).mode]
    /\ Locally(w, "temp") /\ UNCHANGED files
    /\ UNCHANGED <<posix, existed>>

DTemp(w) ==
    /\ at[w] = "temp"
    /\ \/ tmp' = [tmp EXCEPT ![w] = Fresh(w)] /\ Locally(w, "fetch")
       \/ Locally(w, "failed") /\ UNCHANGED tmp
    /\ UNCHANGED <<target, backup, mode, posix, existed>>

(* A copy that is shorter or longer than announced is refused, and so is   *)
(* one that cannot be flushed.                                             *)
DCopy(w) ==
    /\ at[w] = "fetch"
    /\ \/ Ok(w, "keep") /\ tmp' = [tmp EXCEPT ![w].whole = TRUE] /\ UNCHANGED <<target, backup, mode>>
       \/ Error(w, "cleanup")
    /\ UNCHANGED <<posix, existed>>

DReplace(w) ==
    /\ at[w] = "keep"
    /\ \/ /\ SetTarget(w, [tmp[w] EXCEPT !.mode = mode[w]])
          /\ tmp' = [tmp EXCEPT ![w] = NoFile] /\ Locally(w, "ok")
       \/ Locally(w, "cleanup") /\ UNCHANGED <<target, tmp>>
    /\ UNCHANGED <<backup, mode, posix, existed>>

Download(w) == DInspect(w) \/ DTemp(w) \/ DCopy(w) \/ DReplace(w)

(* The process ends: what each writer had begun stays as it is.            *)
Dies ==
    /\ \E w \in Writers : at[w] \notin {"ok", "failed", "dead"}
    /\ at' = [w \in Writers |-> IF at[w] \in {"ok", "failed"} THEN at[w] ELSE "dead"]
    /\ UNCHANGED <<files, mode, link, unsure, posix, existed>>

Init ==
    /\ existed \in BOOLEAN /\ posix \in BOOLEAN
    /\ target = [p \in {"remote", "local"} |->
                   IF existed THEN [by |-> Previous, whole |-> TRUE, mode |-> "kept"] ELSE NoFile]
    /\ tmp = [w \in Writers |-> NoFile] /\ backup = [w \in Writers |-> NoFile]
    /\ at = [w \in Writers |-> "create"] /\ mode = [w \in Writers |-> "none"]
    /\ link = [w \in Writers |-> TRUE] /\ unsure = [w \in Writers |-> FALSE]

Next == Dies \/ \E w \in Writers : Upload(w) \/ Download(w)

Spec == Init /\ [][Next]_vars

-----------------------------------------------------------------------------
(* Every variable has its type.                                            *)
TypeOK ==
    /\ target \in [{"remote", "local"} -> Content \cup {NoFile}]
    /\ tmp \in [Writers -> Content \cup {NoFile}] /\ backup \in [Writers -> Content \cup {NoFile}]
    /\ mode \in [Writers -> {"none", "kept", "default"}]
    /\ link \in [Writers -> BOOLEAN] /\ unsure \in [Writers -> BOOLEAN]
    /\ posix \in BOOLEAN /\ existed \in BOOLEAN

Copies(p) == {f \in {target[p]} \cup {backup[w] : w \in {v \in Writers : Place(v) = p}} : f # NoFile}

(* An upload that finds no target makes a new file, also when another one  *)
(* has only moved the target aside.                                        *)
FoundNone(w) == mode[w] = "none" /\ (at[w] = "ok" \/ unsure[w])

(* Whatever fails, is cut off or gets in the way: a file that existed is   *)
(* still there, or a complete copy of it or of what replaced it is in a    *)
(* backup, nothing incomplete is under its name, and its permissions are   *)
(* not lost: with posix-rename, and locally, the target itself keeps them, *)
(* otherwise every copy does until an upload finds no target               *)
(* (sftpservice.go:609-624 and 882-890).                                   *)
PreviousSurvives ==
    \A p \in {"remote", "local"} :
      /\ \A f \in Copies(p) : f.whole
      /\ existed => Copies(p) # {}
      /\ existed /\ (p = "local" \/ posix) => target[p] # NoFile /\ target[p].mode = "kept"
      /\ existed /\ (\A w \in Uploads : ~FoundNone(w)) => \A f \in Copies(p) : f.mode = "kept"

(* A transfer that reports a failure has not replaced the target, unless   *)
(* the connection died after the server had acted; one that reports        *)
(* success has (sftpservice.go:524-526, 718-726).                          *)
OutcomeIsTrue ==
    \A w \in Writers :
      /\ at[w] = "failed" /\ ~unsure[w] => \A f \in Copies(Place(w)) : f.by # w
      /\ at[w] = "ok" => tmp[w] = NoFile

(* Both hold at every moment of every transfer.                            *)
ReplacesSafely == TypeOK /\ PreviousSurvives /\ OutcomeIsTrue
=============================================================================
