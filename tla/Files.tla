--------------------------------- MODULE Files ---------------------------------
(***************************************************************************)
(* The parts of sftpservice that share nothing but the server: the queue   *)
(* of the transfers, the files they replace, the clients of the sessions   *)
(* with the directories of their panels, and the remote tree.  A behaviour *)
(* exercises one of them, the focus; the variables of the others are None, *)
(* or as they were at first.                                               *)
(***************************************************************************)
EXTENDS TransferManager

CONSTANTS Uploads, Downloads, Previous, NoFile,                       \* of the files
          PanelSessions, Dirs, MaxOps, MaxHandles, MaxClients, Home, None,   \* of the clients
          MaxCalls, Wishes, FirstTree, FirstCwd, Names, MaxLinks, NoPath     \* of the tree

VARIABLES focus, target, tmp, backup, at, mode, link, unsure, posix, existed,
          session, handles, handle, clientOf, openClients, sftpCall, ops,
          tree, cwd, calls, made

fileVars   == <<target, tmp, backup, at, mode, link, unsure, posix, existed>>
handleVars == <<session, handles, handle, clientOf, openClients, sftpCall, ops>>
treeVars   == <<tree, cwd, calls, made>>
allVars    == <<focus, vars, fileVars, handleVars, treeVars>>

F == INSTANCE SftpFiles

H == INSTANCE SftpHandles WITH Sessions <- PanelSessions

R == INSTANCE RemoteTree

ASSUME WritersAssumption ==
    Uploads \cap Downloads = {} /\ Previous \notin Uploads \cup Downloads /\ NoFile \notin F!Content

(* The tree as it is at first: what is above an entry is a directory.      *)
ASSUME TreeAssumption ==
    /\ MaxLinks \in Nat /\ MaxCalls \in Nat /\ FirstCwd \in Seq(Names)
    /\ \A w \in Wishes : /\ w.op \in {"chdir", "mkdir", "rename", "remove"}
                         /\ {w.name.parts, w.to.parts} \subseteq Seq(Names \cup {".", ".."})
    /\ <<>> \in DOMAIN FirstTree /\ FirstTree[<<>>].is = "dir"
    /\ \A p \in DOMAIN FirstTree :
         /\ p \in Seq(Names) /\ FirstTree[p] \in [is : {"dir", "file", "link"}, to : Seq(Names)]
         /\ \A k \in 0 .. Len(p) - 1 :
              SubSeq(p, 1, k) \in DOMAIN FirstTree /\ FirstTree[SubSeq(p, 1, k)].is = "dir"

-----------------------------------------------------------------------------
(* Operations, interrupts and disposals of sessions that may end.          *)
SessionEnds(s) == /\ session[s] = "up" /\ session' = [session EXCEPT ![s] = "gone"]
                  /\ UNCHANGED <<handles, handle, clientOf, openClients, sftpCall, ops>>

Operation(c, s) ==
    /\ ops < MaxOps /\ ops' = ops + 1 /\ UNCHANGED session
    /\ \/ \E op \in {"use", "interrupt", "dispose", "all"} : H!Begin(c, op, s, None)
       \/ \E d \in Dirs : H!Begin(c, "chdir", s, d)

Handles == \/ \E s \in PanelSessions : SessionEnds(s) \/ \E c \in Callers : Operation(c, s)
           \/ \E c \in Callers : H!Step(c) /\ UNCHANGED <<session, ops>>

-----------------------------------------------------------------------------
FileInit == IF focus = "files" THEN F!Init
            ELSE /\ target = None /\ tmp = None /\ backup = None /\ at = None
                 /\ mode = None /\ link = None /\ unsure = None
                 /\ posix = None /\ existed = None

HandleInit == IF focus = "handles" THEN H!Init /\ session = [s \in PanelSessions |-> "up"] /\ ops = 0
              ELSE /\ session = None /\ handles = None /\ handle = None /\ clientOf = None
                   /\ openClients = None /\ sftpCall = None /\ ops = None

TreeInit == IF focus = "tree" THEN R!Init
            ELSE tree = None /\ cwd = None /\ calls = None /\ made = None

FilesInit == /\ focus \in {"queue", "files", "handles", "tree"}
             /\ Init /\ FileInit /\ HandleInit /\ TreeInit

Queue == focus = "queue" /\ Next /\ UNCHANGED <<focus, fileVars, handleVars, treeVars>>

Replacing == focus = "files" /\ F!Next /\ UNCHANGED <<focus, vars, handleVars, treeVars>>

Clients == focus = "handles" /\ Handles /\ UNCHANGED <<focus, vars, fileVars, treeVars>>

Tree == focus = "tree" /\ R!Next /\ UNCHANGED <<focus, vars, fileVars, handleVars>>

(* The queue always has a next step; the others come to an end.            *)
Rest == focus # "queue" /\ UNCHANGED allVars

FilesSpec == FilesInit /\ [][Queue \/ Replacing \/ Clients \/ Tree \/ Rest]_allVars

-----------------------------------------------------------------------------
(* Of SftpFiles: a file that was there survives, an outcome is true.       *)
ReplacesSafely == focus = "files" => F!ReplacesSafely

(* Of SftpHandles: every client has an owner, only Chdir moves the panel.  *)
PanelStays ==
    /\ [](focus = "handles" => H!TypeOK /\ H!ClientsOwned)
    /\ [][focus = "handles" => H!MovesByChdir]_allVars

(* Of RemoteTree: Remove takes away only what is below its target.         *)
OnlyBelow ==
    /\ [](focus = "tree" => R!TypeOK)
    /\ [][focus = "tree" => R!RemovesBelow]_allVars
================================================================================
