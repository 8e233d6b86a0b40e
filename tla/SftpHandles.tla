------------------------------ MODULE SftpHandles ------------------------------
(***************************************************************************)
(* The SFTP client a session shares among its operations, ensure, Dispose, *)
(* Interrupt and DisposeAll of src/internal/sftpservice/sftpservice.go.    *)
(* The table of handles has a lock, each handle has one of its own, which  *)
(* ensure keeps while it opens a client and asks for the home directory.   *)
(***************************************************************************)
EXTENDS Naturals, FiniteSets

CONSTANTS Callers,      \* who may call at a time
          Sessions,
          MaxHandles,   \* handles made (bound)
          MaxClients,   \* clients opened (bound)
          Dirs,         \* remote directories
          Home,         \* the one a client begins with
          None

VARIABLES session,      \* of the session manager: "up", "closed", "gone"
          handles,      \* Service.sessions: the handle of each session
          handle,       \* every handle there was, with its client and its directory
          clientOf,     \* the session of every client there was
          openClients,  \* those not closed
          sftpCall      \* the call each caller is in

vars == <<handles, handle, clientOf, openClients, sftpCall>>

Handles == 1 .. MaxHandles

Clients == 1 .. MaxClients

NoCall == [op |-> "none", at |-> "idle", session |-> None, handle |-> None, client |-> None,
           dir |-> None, todo |-> {}]

(* A client whose connection is closed is closed with it.                  *)
Alive(k) == k \in openClients /\ session[clientOf[k]] = "up"

MadeHandles == {h \in Handles : handle[h].of # None}

-----------------------------------------------------------------------------
Go(c, at) == sftpCall' = [sftpCall EXCEPT ![c].at = at]

End(c) == sftpCall' = [sftpCall EXCEPT ![c] = NoCall]

Begin(c, op, s, d) ==
    /\ sftpCall[c].op = "none"
    /\ sftpCall' = [sftpCall EXCEPT ![c] = [NoCall EXCEPT !.op = op, !.at = "table", !.session = s, !.dir = d]]
    /\ UNCHANGED <<handles, handle, clientOf, openClients>>

Operates(c) == sftpCall[c].op \in {"use", "chdir"}

(* The handle of the session: an operation makes one, a disposal takes it  *)
(* out of the table, an interrupt leaves it there.                         *)
Resolve(c) ==
    /\ sftpCall[c].at = "table" /\ sftpCall[c].op # "all"
    /\ LET s == sftpCall[c].session
           old == handles[s]
           new == Cardinality(MadeHandles) + 1
       IN  \/ /\ Operates(c) /\ old = None /\ new \in Handles
              /\ handle' = [handle EXCEPT ![new] = [of |-> s, client |-> None, cwd |-> None, busy |-> None]]
              /\ handles' = [handles EXCEPT ![s] = new]
              /\ sftpCall' = [sftpCall EXCEPT ![c].at = "lock", ![c].handle = new]
           \/ /\ ~Operates(c) /\ old = None
              /\ End(c) /\ UNCHANGED <<handles, handle>>
           \/ /\ old # None
              /\ handles' = IF sftpCall[c].op = "dispose" THEN [handles EXCEPT ![s] = None] ELSE handles
              /\ sftpCall' = [sftpCall EXCEPT ![c].at = IF Operates(c) THEN "lock" ELSE "take",
                                              ![c].handle = old]
              /\ UNCHANGED handle
    /\ UNCHANGED <<clientOf, openClients>>

Mine(c) == handle[sftpCall[c].handle]

(* ensure: a client that is there is shared.                               *)
Share(c) ==
    /\ sftpCall[c].at = "lock" /\ Mine(c).busy = None /\ Mine(c).client # None
    /\ sftpCall' = [sftpCall EXCEPT ![c].at = "use", ![c].client = Mine(c).client]
    /\ UNCHANGED <<handles, handle, clientOf, openClients>>

(* The lock is kept while a client is opened.                              *)
LockHandle(c) ==
    /\ sftpCall[c].at = "lock" /\ Mine(c).busy = None /\ Mine(c).client = None
    /\ handle' = [handle EXCEPT ![sftpCall[c].handle].busy = c]
    /\ Go(c, "open")
    /\ UNCHANGED <<handles, clientOf, openClients>>

OpenClient(c) ==
    /\ sftpCall[c].at = "open" /\ session[sftpCall[c].session] = "up"
    /\ \E k \in Clients :
         /\ clientOf[k] = None /\ \A j \in Clients : clientOf[j] = None => k <= j
         /\ clientOf' = [clientOf EXCEPT ![k] = sftpCall[c].session]
         /\ openClients' = openClients \cup {k}
         /\ sftpCall' = [sftpCall EXCEPT ![c].at = "home", ![c].client = k]
    /\ UNCHANGED <<handles, handle>>

OpenFails(c) ==
    /\ sftpCall[c].at = "open"
    /\ handle' = [handle EXCEPT ![sftpCall[c].handle].busy = None]
    /\ End(c)
    /\ UNCHANGED <<handles, clientOf, openClients>>

(* Mutant: a client that is opened again starts at home.                   *)
AlwaysHome(c) == Home

StartsIn(c) == IF Mine(c).cwd = None THEN Home ELSE Mine(c).cwd

(* Only the first client asks for the home directory, and may fail to.     *)
KeepClient(c) ==
    /\ sftpCall[c].at = "home"
    /\ Mine(c).cwd = None => Alive(sftpCall[c].client)
    /\ handle' = [handle EXCEPT ![sftpCall[c].handle] =
                    [@ EXCEPT !.client = sftpCall[c].client, !.cwd = StartsIn(c), !.busy = None]]
    /\ Go(c, "use")
    /\ UNCHANGED <<handles, clientOf, openClients>>

(* Mutant: the handle stays locked.                                        *)
KeepsLock(c) ==
    /\ sftpCall[c].at = "home" /\ Mine(c).cwd = None
    /\ openClients' = openClients \ {sftpCall[c].client}
    /\ End(c)
    /\ UNCHANGED <<handles, handle, clientOf>>

HomeFails(c) ==
    /\ sftpCall[c].at = "home" /\ Mine(c).cwd = None
    /\ openClients' = openClients \ {sftpCall[c].client}
    /\ handle' = [handle EXCEPT ![sftpCall[c].handle].busy = None]
    /\ End(c)
    /\ UNCHANGED <<handles, clientOf>>

(* The operation works on its client or fails; Chdir then moves the handle.*)
Operate(c) ==
    /\ sftpCall[c].at = "use"
    /\ \/ sftpCall[c].op = "chdir" /\ Alive(sftpCall[c].client) /\ Go(c, "setCwd")
       \/ End(c)
    /\ UNCHANGED <<handles, handle, clientOf, openClients>>

setCwd(c) ==
    /\ sftpCall[c].at = "setCwd" /\ Mine(c).busy = None
    /\ handle' = [handle EXCEPT ![sftpCall[c].handle].cwd = sftpCall[c].dir]
    /\ End(c)
    /\ UNCHANGED <<handles, clientOf, openClients>>

(* DisposeAll empties the table, then visits the handles one by one.       *)
TakeTable(c) ==
    /\ sftpCall[c].op = "all" /\ sftpCall[c].at = "table"
    /\ sftpCall' = [sftpCall EXCEPT ![c].at = "visit", ![c].todo = {handles[s] : s \in Sessions} \ {None}]
    /\ handles' = [s \in Sessions |-> None]
    /\ UNCHANGED <<handle, clientOf, openClients>>

Visit(c) ==
    /\ sftpCall[c].at = "visit"
    /\ IF sftpCall[c].todo = {} THEN End(c)
       ELSE \E h \in sftpCall[c].todo :
              sftpCall' = [sftpCall EXCEPT ![c].at = "take", ![c].handle = h, ![c].todo = @ \ {h}]
    /\ UNCHANGED <<handles, handle, clientOf, openClients>>

(* Mutant: they do not wait.                                               *)
TakeAtOnce(c) ==
    /\ sftpCall[c].at = "take"
    /\ handle' = [handle EXCEPT ![sftpCall[c].handle].client = None]
    /\ sftpCall' = [sftpCall EXCEPT ![c].at = "close", ![c].client = Mine(c).client]
    /\ UNCHANGED <<handles, clientOf, openClients>>

(* Disposals and interrupts wait for ensure, take the client and close it. *)
TakeClient(c) ==
    /\ sftpCall[c].at = "take" /\ Mine(c).busy = None
    /\ handle' = [handle EXCEPT ![sftpCall[c].handle].client = None]
    /\ sftpCall' = [sftpCall EXCEPT ![c].at = "close", ![c].client = Mine(c).client]
    /\ UNCHANGED <<handles, clientOf, openClients>>

CloseClient(c) ==
    /\ sftpCall[c].at = "close"
    /\ openClients' = openClients \ {sftpCall[c].client}
    /\ IF sftpCall[c].op = "all"
       THEN sftpCall' = [sftpCall EXCEPT ![c].at = "visit", ![c].client = None]
       ELSE End(c)
    /\ UNCHANGED <<handles, handle, clientOf>>

Step(c) ==
    \/ Resolve(c) \/ Share(c) \/ LockHandle(c) \/ OpenClient(c) \/ OpenFails(c) \/ KeepClient(c)
    \/ HomeFails(c) \/ Operate(c) \/ setCwd(c) \/ TakeTable(c) \/ Visit(c)
    \/ TakeClient(c) \/ CloseClient(c)

Init ==
    /\ handles = [s \in Sessions |-> None]
    /\ handle = [h \in Handles |-> [of |-> None, client |-> None, cwd |-> None, busy |-> None]]
    /\ clientOf = [k \in Clients |-> None] /\ openClients = {}
    /\ sftpCall = [c \in Callers |-> NoCall]

(* A request to a server whose connection is up may take for ever; every   *)
(* other step is taken.                                                    *)
AtServer(c) == sftpCall[c].at \in {"open", "home", "use"} /\ session[sftpCall[c].session] = "up"

Fairness == \A c \in Callers : WF_vars(~AtServer(c) /\ Step(c))

-----------------------------------------------------------------------------
(* Every variable has its type.                                            *)
TypeOK ==
    /\ handles \in [Sessions -> Handles \cup {None}]
    /\ handle \in [Handles -> [of: Sessions \cup {None}, client: Clients \cup {None},
                               cwd: Dirs \cup {Home, None}, busy: Callers \cup {None}]]
    /\ clientOf \in [Clients -> Sessions \cup {None}] /\ openClients \subseteq Clients
    /\ sftpCall \in [Callers -> [op: {"none", "use", "chdir", "interrupt", "dispose", "all"},
                                 at: {"idle", "table", "lock", "open", "home", "use", "setCwd",
                                      "take", "close", "visit"},
                                 session: Sessions \cup {None}, handle: Handles \cup {None},
                                 client: Clients \cup {None}, dir: Dirs \cup {None},
                                 todo: SUBSET Handles]]

(* Operations that begin together share one client: an open client is that *)
(* of a handle, or a call is about to keep it there or to close it, so     *)
(* that a disposal can find it (sftpservice.go:145-178, 208-215).          *)
ClientsOwned ==
    \A k \in openClients :
      \/ \E h \in MadeHandles : handle[h].client = k
      \/ \E c \in Callers : sftpCall[c].client = k /\ sftpCall[c].at \in {"home", "close"}

(* A client that a disposal or an interrupt closes: it has it, or waits    *)
(* for the lock of its handle.                                             *)
Takes(h) == \E c \in Callers : h \in sftpCall[c].todo \/ (sftpCall[c].at = "take" /\ sftpCall[c].handle = h)

BeingClosed(k) ==
    \/ \E h \in MadeHandles : handle[h].client = k /\ Takes(h)
    \/ \E c \in Callers :
         /\ sftpCall[c].client = k
         /\ sftpCall[c].at = "close" \/ (sftpCall[c].at = "home" /\ Takes(sftpCall[c].handle))

(* The directory of a session's panel moves by a Chdir only: an interrupt  *)
(* and the client that is opened after it leave it where it is             *)
(* (sftpservice.go:145-150, 217-222).                                      *)
Moves(s) == LET h == handles[s]
            IN  /\ h # None /\ handles'[s] = h
                /\ handle[h].cwd # None /\ handle'[h].cwd # handle[h].cwd

ByChdir(s) == \E c \in Callers : /\ sftpCall[c].op = "chdir" /\ sftpCall[c].session = s
                                 /\ handle'[handles[s]].cwd = sftpCall[c].dir

MovesByChdir == \A s \in Sessions : Moves(s) => ByChdir(s)

PanelStays == []TypeOK /\ []ClientsOwned /\ [][MovesByChdir]_vars
================================================================================
