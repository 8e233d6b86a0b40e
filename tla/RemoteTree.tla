------------------------------ MODULE RemoteTree ------------------------------
(***************************************************************************)
(* The operations of src/internal/sftpservice/sftpservice.go that change   *)
(* the remote tree and the current directory of a session: Chdir, Mkdir,   *)
(* Rename and the recursive Remove, with the paths they join and resolve.  *)
(* Each request to the server is a step of its own and may fail (the two   *)
(* look-ups of resolveMutable are one), and the calls of the panel and of  *)
(* the assistant's tools interleave.  The server resolves links, those in  *)
(* the middle of a path too; Rename refuses an existing name.              *)
(***************************************************************************)
EXTENDS Naturals, Sequences, SequencesExt

CONSTANTS Callers,    \* who may call at a time
          MaxCalls,   \* calls (bound)
          Wishes,     \* what they ask for: an operation and its names
          FirstTree, FirstCwd,
          Names,      \* of entries
          MaxLinks,   \* links the server follows before it gives up
          NoPath

VARIABLES tree,       \* path -> its entry; the root is there always
          cwd,        \* Session.cwd
          calls,      \* what each caller is in
          made        \* calls so far

vars == <<tree, cwd, calls, made>>

Dir == [is |-> "dir", to |-> <<>>]

Idle == [op |-> "none", at |-> "idle", path |-> <<>>, to |-> <<>>, root |-> <<>>,
         here |-> <<>>, stack |-> <<>>, moved |-> FALSE]

-----------------------------------------------------------------------------
(* Paths are sequences of names.                                           *)

JoinRemote(base, name) ==
    LET after[n \in 0 .. Len(name.parts)] ==
          IF n = 0 THEN IF name.abs THEN <<>> ELSE base
          ELSE CASE name.parts[n] = "."  -> after[n - 1]
                 [] name.parts[n] = ".." -> IF after[n - 1] = <<>> THEN <<>> ELSE Front(after[n - 1])
                 [] OTHER                -> Append(after[n - 1], name.parts[n])
    IN  after[Len(name.parts)]

withinRoot(p, root) == IsPrefix(root, p)

IsDir(p) == p \in DOMAIN tree /\ tree[p].is = "dir"

(* The links a path goes through, of which there is one at most: a link    *)
(* has no entries below it.                                                *)
LinksOn(p) == {q \in DOMAIN tree : withinRoot(p, q) /\ tree[q].is = "link"}

Substituted(p) ==
    LET q == CHOOSE q \in LinksOn(p) : TRUE
    IN  IF LinksOn(p) = {} THEN p ELSE tree[q].to \o SubSeq(p, Len(q) + 1, Len(p))

(* What the server finds when it follows a path and the links in it.       *)
RealPath(p) ==
    LET after[n \in 0 .. MaxLinks] == IF n = 0 THEN p ELSE Substituted(after[n - 1])
        real == after[MaxLinks]
    IN  IF real \in DOMAIN tree /\ LinksOn(real) = {} THEN real ELSE NoPath

(* The entry a path names, without following the last of its names.        *)
Entry(p) ==
    LET parent == RealPath(Front(p))
    IN  IF p = <<>> THEN p
        ELSE IF parent = NoPath THEN NoPath
        ELSE IF Append(parent, Last(p)) \in DOMAIN tree THEN Append(parent, Last(p)) ELSE NoPath

Lstat(p) == tree[Entry(p)].is

(* A path that need not exist yet: its parent does.                        *)
resolveMutable(p) ==
    IF RealPath(p) # NoPath THEN RealPath(p)
    ELSE IF p = <<>> THEN NoPath
    ELSE LET parent == RealPath(Front(p))
         IN  IF parent = NoPath THEN NoPath ELSE Append(parent, Last(p))

Children(d) == {n \in Names : Append(d, n) \in DOMAIN tree}

-----------------------------------------------------------------------------
Set(c, call) == calls' = [calls EXCEPT ![c] = call]

End(c) == Set(c, Idle)

Go(c, at) == Set(c, [calls[c] EXCEPT !.at = at])

(* A call reads the directory, joins its names and refuses what leaves the *)
(* current directory, before it asks the server anything.                  *)
Refused(op, path) == op = "remove" /\ (path = cwd \/ path = <<>> \/ ~withinRoot(path, cwd))

Begin(c) ==
    /\ calls[c].at = "idle" /\ made < MaxCalls /\ made' = made + 1
    /\ \E w \in Wishes :
         LET path == JoinRemote(cwd, w.name)
         IN  /\ ~Refused(w.op, path)
             /\ Set(c, [Idle EXCEPT !.op = w.op, !.at = "find", !.path = path, !.root = cwd,
                                    !.to = JoinRemote(cwd, w.to)])
    /\ UNCHANGED <<tree, cwd>>

At(c, op, at) == calls[c].op = op /\ calls[c].at = at

(* The request is refused or the connection is lost: the call has failed.  *)
Fails(c) ==
    /\ calls[c].at # "idle" /\ End(c) /\ UNCHANGED <<tree, cwd, made>>

-----------------------------------------------------------------------------
(* Chdir, Mkdir and Rename.                                                *)

FindDir(c) ==
    /\ At(c, "chdir", "find") /\ RealPath(calls[c].path) # NoPath
    /\ Set(c, [calls[c] EXCEPT !.at = "stat", !.path = RealPath(@)])
    /\ UNCHANGED <<tree, cwd, made>>

StatDir(c) ==
    /\ At(c, "chdir", "stat")
    /\ RealPath(calls[c].path) # NoPath /\ IsDir(RealPath(calls[c].path))
    /\ Go(c, "set")
    /\ UNCHANGED <<tree, cwd, made>>

setCwd(c) ==
    /\ At(c, "chdir", "set")
    /\ cwd' = calls[c].path /\ End(c) /\ UNCHANGED <<tree, made>>

FindParent(c) ==
    /\ At(c, "mkdir", "find") /\ resolveMutable(calls[c].path) # NoPath
    /\ Set(c, [calls[c] EXCEPT !.at = "make", !.path = resolveMutable(@)])
    /\ UNCHANGED <<tree, cwd, made>>

(* History: a removal has found its target, when something else may have   *)
(* come in its place.                                                      *)
EndMoving(c, places) ==
    calls' = [d \in Callers |-> IF d = c THEN Idle
                               ELSE [calls[d] EXCEPT !.moved = @ \/ calls[d].at \in places]]

(* Where the server makes an entry: it follows the path again when the     *)
(* request runs, though the call had resolved it.                          *)
Place(p) == Append(RealPath(Front(p)), Last(p))

Vacant(p) == p # <<>> /\ IsDir(RealPath(Front(p))) /\ Place(p) \notin DOMAIN tree

Mkdir(c) ==
    /\ At(c, "mkdir", "make") /\ Vacant(calls[c].path)
    /\ LET new == Place(calls[c].path)
       IN  tree' = [p \in DOMAIN tree \cup {new} |-> IF p = new THEN Dir ELSE tree[p]]
    /\ EndMoving(c, {"drop"}) /\ UNCHANGED <<cwd, made>>

FindFrom(c) ==
    /\ At(c, "rename", "find") /\ RealPath(calls[c].path) # NoPath
    /\ Set(c, [calls[c] EXCEPT !.at = "findTo", !.path = RealPath(@)])
    /\ UNCHANGED <<tree, cwd, made>>

FindTo(c) ==
    /\ At(c, "rename", "findTo") /\ resolveMutable(calls[c].to) # NoPath
    /\ Set(c, [calls[c] EXCEPT !.at = "move", !.to = resolveMutable(@)])
    /\ UNCHANGED <<tree, cwd, made>>

(* The server moves an entry with all that is below it.                    *)
Moved(from, to) ==
    LET below == {p \in DOMAIN tree : withinRoot(p, from)}
        Past(p) == SubSeq(p, Len(from) + 1, Len(p))
        new   == {to \o Past(p) : p \in below}
        Old(p) == from \o SubSeq(p, Len(to) + 1, Len(p))
    IN  [p \in (DOMAIN tree \ below) \cup new |-> IF p \in new THEN tree[Old(p)] ELSE tree[p]]

Rename(c) ==
    /\ At(c, "rename", "move")
    /\ Vacant(calls[c].to)
    /\ LET from == Entry(calls[c].path)
           to   == Place(calls[c].to)
       IN  /\ from \in DOMAIN tree /\ ~withinRoot(to, from)
           /\ tree' = Moved(from, to)
    /\ EndMoving(c, {"drop", "visit", "list", "next", "unlink"}) /\ UNCHANGED <<cwd, made>>

-----------------------------------------------------------------------------
(* Remove, and removePath with its frames on a stack.                      *)

Exists(p) == Entry(p) # NoPath

LstatTarget(c) ==
    /\ At(c, "remove", "find") /\ Exists(calls[c].path)
    /\ Go(c, IF Lstat(calls[c].path) = "link" THEN "drop" ELSE "root")
    /\ UNCHANGED <<tree, cwd, made>>

(* The server removes a file, a link or an empty directory.                *)
Gone(q) == tree' = [p \in DOMAIN tree \ {q} |-> tree[p]]

Takes(p) == /\ Exists(p)
            /\ ~IsDir(Entry(p)) \/ Children(Entry(p)) = {}
            /\ Gone(Entry(p))

DropLink(c) ==
    /\ At(c, "remove", "drop") /\ Takes(calls[c].path)
    /\ End(c) /\ UNCHANGED <<cwd, made>>

ResolveRoot(c) ==
    /\ At(c, "remove", "root") /\ RealPath(calls[c].root) # NoPath
    /\ Set(c, [calls[c] EXCEPT !.at = "resolve", !.root = RealPath(@)])
    /\ UNCHANGED <<tree, cwd, made>>

(* Mutant: what the target resolves to is not looked at again.             *)
AllowsAll(resolved, root) == TRUE

Allows(resolved, root) == resolved # root /\ resolved # <<>> /\ withinRoot(resolved, root)

Resolve(c) ==
    /\ At(c, "remove", "resolve")
    /\ LET resolved == RealPath(calls[c].path)
       IN  /\ resolved # NoPath /\ Allows(resolved, calls[c].root)
           /\ Set(c, [calls[c] EXCEPT !.at = "visit", !.path = resolved, !.here = resolved])
    /\ UNCHANGED <<tree, cwd, made>>

(* Mutant: a link to a directory is taken for one.                         *)
Follows(p) == RealPath(p) # NoPath /\ IsDir(RealPath(p))

Recurses(p) == Lstat(p) = "dir"

Visit(c) ==
    /\ At(c, "remove", "visit") /\ Exists(calls[c].here)
    /\ Go(c, IF Recurses(calls[c].here) THEN "list" ELSE "unlink")
    /\ UNCHANGED <<tree, cwd, made>>

ReadDir(c) ==
    /\ At(c, "remove", "list")
    /\ LET d == RealPath(calls[c].here)
       IN  /\ d # NoPath /\ IsDir(d)
           /\ Set(c, [calls[c] EXCEPT !.at = "next",
                                      !.stack = Append(@, [dir |-> calls[c].here, left |-> Children(d)])])
    /\ UNCHANGED <<tree, cwd, made>>

(* removePath returns to the frame below, or Remove ends.                  *)
Return(c, stack) ==
    Set(c, IF stack = <<>> THEN Idle ELSE [calls[c] EXCEPT !.at = "next", !.stack = stack])

Unlink(c) ==
    /\ At(c, "remove", "unlink") /\ Takes(calls[c].here)
    /\ Return(c, calls[c].stack) /\ UNCHANGED <<cwd, made>>

NextChild(c) ==
    /\ At(c, "remove", "next")
    /\ LET top == Last(calls[c].stack)
       IN  \E n \in top.left :
             /\ withinRoot(Append(top.dir, n), calls[c].root)
             /\ Set(c, [calls[c] EXCEPT !.at = "visit", !.here = Append(top.dir, n),
                          !.stack = Append(Front(@), [top EXCEPT !.left = @ \ {n}])])
    /\ UNCHANGED <<tree, cwd, made>>

RemoveDirectory(c) ==
    /\ At(c, "remove", "next") /\ Last(calls[c].stack).left = {}
    /\ LET d == Entry(Last(calls[c].stack).dir)
       IN  /\ d # NoPath /\ IsDir(d) /\ Children(d) = {}
           /\ Gone(d)
    /\ Return(c, Front(calls[c].stack))
    /\ UNCHANGED <<cwd, made>>

Removal(c) == \/ LstatTarget(c) \/ DropLink(c) \/ ResolveRoot(c) \/ Resolve(c) \/ Visit(c) \/ ReadDir(c)
              \/ Unlink(c) \/ NextChild(c) \/ RemoveDirectory(c)

-----------------------------------------------------------------------------
Init == /\ tree = FirstTree /\ cwd = FirstCwd
        /\ calls = [c \in Callers |-> Idle] /\ made = 0

Step(c) == \/ Begin(c) \/ Fails(c) \/ FindDir(c) \/ StatDir(c) \/ setCwd(c) \/ FindParent(c) \/ Mkdir(c)
           \/ FindFrom(c) \/ FindTo(c) \/ Rename(c) \/ Removal(c)

Next == \E c \in Callers : Step(c)

Spec == Init /\ [][Next]_vars

-----------------------------------------------------------------------------
(* Every variable has its type, and the tree has no entry without a parent.*)
TypeOK ==
    /\ <<>> \in DOMAIN tree
    /\ \A p \in DOMAIN tree : p # <<>> => IsDir(Front(p))
    /\ \A c \in Callers :
         calls[c].at \in {"idle", "find", "stat", "set", "make", "findTo", "move", "root", "resolve",
                          "drop", "visit", "list", "next", "unlink"}
    /\ made \in 0 .. MaxCalls

(* A Remove walks below the directory that was current when it was called, *)
(* and in what its target resolved to; of a link it takes the link.        *)
Below(c, q) == withinRoot(q, calls[c].path) /\ withinRoot(q, calls[c].root) /\ q # calls[c].root

Named(c, q) == q = Entry(calls[c].path) /\ (tree[q].is = "link" \/ calls[c].moved)

TakenByMove(q) ==
    \E c \in Callers : /\ At(c, "rename", "move") /\ Entry(calls[c].path) \in DOMAIN tree
                       /\ withinRoot(q, Entry(calls[c].path))

(* Whatever a name goes through, and whatever others make or remove        *)
(* meanwhile, what a link in the subtree points to stays, and so does the  *)
(* directory itself, unless something was renamed while the removal walked *)
(* or has come in the place of the link it was to take                     *)
(* (sftpservice.go:432-437, 461-462, 485-487).                             *)
RemovesBelow ==
    \A q \in DOMAIN tree \ DOMAIN tree' :
      \/ TakenByMove(q)
      \/ \E c \in Callers : \/ At(c, "remove", "drop") /\ Named(c, q)
                            \/ /\ At(c, "remove", "unlink") \/ At(c, "remove", "next")
                               /\ Below(c, q) \/ calls[c].moved

OnlyBelow == []TypeOK /\ [][RemovesBelow]_vars
=============================================================================
