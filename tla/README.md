# NodeShell in TLA+

NodeShell is a desktop SSH client (Go backend, React renderer, Wails in
between) with a terminal, an SFTP panel with a transfer queue, a resource
monitor, port forwards, an AI assistant whose tool calls need the user's
consent, and a second mode of the same binary, `--mcp`, that serves the saved
hosts to other programs over stdin and stdout. This directory holds TLA+
models of its concurrent and failure-prone parts, the TLC configurations that
check them, and TLAPS proofs of what matters most.

Paths below are relative to `src/`; `I/` stands for `internal/`.
`PROJECT.json` lists, for every definition that models code, the lines it
stands for; the comments in the modules say the rest.

## 1. Inventory

### How the parts hang together

    renderer (React)
       |  calls: Connect, Write, Prompt, Enqueue...     ^  events
       v                                                |
    app (I/app/app.go) --- disposeSink: session:closed -+- wailsSink
       |        \__________ agent ---- permission gate (asks the user)
       |                      |  tools: bash, sftp_read, sftp_write...
       v                      v
    sessions.Manager <--- sftpservice, monitor, tunnel   (per session handle)
       |  one batcher per session
       v
    sshclient.Conn ---- the remote host

    mcpcli.Server --- mcpcli.Runtime --- sessions.Manager   (the --mcp process)
       \__________ hosts, credentials, settings: files and the keyring,
                   shared with the desktop process

Calls go down and return; events go up through an `EventSink`. The one
upward call with an effect is `session:closed`: `disposeSink` (app.go:273-302)
disposes, in the goroutine that ended the session, everything that hangs on
it. Locks are per component and are not held across calls into other
components, with the exceptions the modules name.

### Components

| component | state | operations | hard behaviour | what makes it correct |
|---|---|---|---|---|
| output batcher `I/sessions/batcher.go` | pending bytes, queue of batches, timer, `closed`, `discarded`, one mutex and one condition variable | Add, onTimer, the worker `run`, Close, Discard | producers and the worker share a condition variable of which only one waiter is signalled; a timer callback may be running when it is stopped; Close waits for room while the worker may leave; batches must not cut a rune | output in order, none lost, bounded memory, no lost wakeup, every call returns |
| sessions `I/sessions/sessions.go` | maps of sessions and of connects under way, `closing`; per session `endOnce`, `localClose`, `firstFault` | Connect, Write, Disconnect, CancelConnect, DisposeAll, two pumps and a wait goroutine | five goroutines race to end a session; `Wait` returns before the tail of the output; a connect races with shutdown | one `closed`, last; the tail shown; a loss reported; nothing open after shutdown |
| SSH client `I/sshclient` | a connection and its channels | Dial, Exec, OpenShell, OpenSFTP | deadlines, keepalive | a dial ends by its deadline |
| transfer manager `I/sftpservice/transfer_manager.go`, and the list in `useTransferTasks.ts` | tasks, queue, running counters, `closed`; the renderer's map | EnqueueUpload, EnqueueDownload, Retry, Cancel, Clear, ClearCompleted, Dispose, `runTask` | events are emitted after the lock is released; cancel races with commit; launches happen outside the lock | counters exact, no idle slot, renderer settles, a cancelled copy is not committed, quiet after Dispose |
| SFTP service `I/sftpservice/sftpservice.go` | per session a handle with one shared client and the panel's directory; the files on both sides | list, read, Chdir, Mkdir, Rename, Remove, upload, WriteText, download, commitUpload, Interrupt, Dispose | a client is opened while its handle is disposed; a reconnect; the backup dance without posix-rename; links in the middle of a path | no client without an owner; the panel moves by Chdir only; the target or its backup always exists; Remove stays below its target |
| agent `I/agent/agent.go` | conversations with their run's cancel and `done`, and their transcript; `closed` | Prompt, Abort, Clear, Dispose, DisposeAll, `run`; `trimHistory`, `reconcile` | the run goroutine outlives the lock; Clear detaches a running conversation | one loop per conversation, joins wait, cancelled runs end |
| agent context `I/agent/context.go` | none: it works on the transcript of a conversation | `prepareContext`: `compress`, `splitForCompression`, `toolRounds`, `dropOldToolResults` | several cuts, each with its own idea of where a round of tool calls ends | every request has whole pairs of calls and results |
| permission `I/permission` | pending asks, grants of sessions | Authorize, Ask, Decide, CancelSession, ForgetSession | asks block a run; an answer races with a cancellation | no dangling prompt; no grant of a run that the end of its session has joined |
| app wiring `I/app/app.go` | references to all of them; providers of the assistant and their keys | bindings, disposeSession, shutdown; saving hosts with credentials and rollback; the provider list with keys and their migration | the order of disposal while the renderer goes on calling; two stores changed by one call; calls that overlap | disposal neither deadlocks nor leaks; a failed call restores; keys and secrets have owners |
| MCP runtime `I/mcpcli/runtime.go` | `meta`, `pending`, `tombstones`, `localClosing`, the reaper | ConnectHost, DisconnectSession, begin/done, onClosed, Reap, DisposeAll | ids may close before they are recorded; the reaper and operations choose the same session; shutdown meets all of it | the limit holds, busy sessions are spared, table and manager agree, nothing survives |
| MCP server `I/mcpcli/server.go` | the call in flight, the context of Serve | reader goroutine, Serve loop, tools/call, cancellation, end of input | an unbuffered channel between the reader and the loop, which a call blocks; cancellations are heard by the reader, out of turn | each request answered once, in order; a cancellation or the end of the input ends the call |
| credential store `I/credentials` | keyring entries: primary, chunks | Save, Clear, Get | a save is several keyring writes; any may fail; crash between them; another process reads | atomic saves, no orphaned secret, readers undisturbed |
| settings store `I/settings` | settings.json, one lock per process | Get, Set | files of older versions or edited by hand; two processes; a default that depends on another list | what is shown is valid; a change leaves the other settings alone |
| host store `I/hosts`, with `I/atomicfile` | hosts.json and its cache | Create, Update, Remove | a change whose write failed stays in the cache; the keyring is changed by the same calls | no secret without a host |
| known hosts `I/knownhosts` | a file of fingerprints | Add, lookup | | |
| monitor `I/monitor/service.go` | the active poller | SetActive, Dispose, poll | switch, dispose and poll race | one poller, none after the end |
| tunnel `I/tunnel/service.go` | forwards per session | Start, Stop, Dispose, accept loops | the lock is released while listening | no forward without a session |
| renderer `src/renderer/src` | views of all this | event handlers | a snapshot that is older than events | views settle |
| the rest | | parsers, fonts, dialogs, path guard, registration in other programs | sequential, text or operating system | outside of these models |

The hazards found while reading are in `PROJECT.json`, each at the line where
it bites, with the properties that cover it. Two have none: the renderer's first
snapshot of the transfers (useTransferTasks.ts:76), and the tombstone of
runtime.go:482, see the known divergences of section 3.

## 2. Modules

| module | models | checked by | proved in |
|---|---|---|---|
| `OutputChannel` | abstract: the ordered channel the batcher is to its users | | |
| `OutputBatcher` | the batcher, statement by statement where the lock is released, shown to implement `OutputChannel` | `MCOutputBatcher` (2 cfgs) | `OutputBatcherProofs` |
| `Sessions` | the session manager over what the batcher promises | `MCSessions` | `SessionsProofs` |
| `TransferManager` | the queue, the runs and the renderer's list | `MCTransferLive`, `MCFiles` | `FilesProofs` |
| `SftpFiles` | uploads, WriteText and downloads that replace a file | `MCFiles` | `FilesProofs` |
| `SftpHandles` | the client a session shares and the panel's directory | `MCFiles`, `MCTeardown` | `TeardownProofs` |
| `RemoteTree` | Chdir, Mkdir, Rename and Remove on a tree with links | `MCFiles` | `FilesProofs` |
| `Files` | what sftpservice keeps, composed of TransferManager, SftpFiles, SftpHandles and RemoteTree | `MCFiles` | `FilesProofs` |
| `Agent` | agent, consent gate and the disposal path of app.go | `MCAgent` (2 cfgs) | `AgentProofs` |
| `AgentTranscript` | the transcript: cap, reconciliation, compaction | `MCStores` | `NormalizationProofs` |
| `McpRuntime` | the session table of the `--mcp` process over the manager | `MCMcp` | `McpProofs` |
| `McpServer` | the stdio transport of the `--mcp` process | `MCMcp` | `McpProofs` |
| `SecretCell` | abstract: a cell whose saves are atomic | | |
| `CredentialStore` | the chunked keyring store, shown to implement `SecretCell` | `MCStores` (2 cfgs) | `StoresProofs` |
| `HostCredentials` | the calls that change hosts.json and the keyring | `MCStores` | `StoresProofs` |
| `AgentProviders` | the providers of the assistant, their keys, the migration | `MCStores` | `StoresProofs` |
| `Settings` | Get and Set of settings.json | `MCStores` (2 cfgs) | `NormalizationProofs` |
| `Ordered` | the elements of a set of indices in their order, without recursion | | `NormalizationProofs` |
| `Monitor` | transitions between pollers, and the poller | `MCTeardown` | `TeardownProofs` |
| `Tunnel` | port forwards, accept loops, forwarded connections | `MCTeardown` | `TeardownProofs` |
| `Teardown` | the end of a session and the shutdown, composed of Monitor, Tunnel and SftpHandles | `MCTeardown` | `TeardownProofs` |
| `Stores` | what is kept, composed of CredentialStore, HostCredentials, AgentProviders, Settings and AgentTranscript | `MCStores` (2 cfgs) | `StoresProofs`, `NormalizationProofs` |

`McpRuntime` and `Agent` contain the side of the session manager they depend
on; `HostCredentials` takes the keyring to be what `SecretCell` says, with the
one weakness of finding 3; `Teardown` instantiates the three services over one
variable `session`, which it owns.

Common conventions. A goroutine is a `pc` entry or a record with a field `at`. A
block of code under a lock is one action; code between an unlock and the next
lock is a step of its own, because another goroutine may come in between. Sets of
ids are constants or initial intervals of the naturals, 0 or `None` is nil. A
definition whose comment begins with "Mutant" is a plausible bug of the
definition after it; it is used by nothing, and most of them are listed in
`PROJECT.json` with the property that finds them. Variables called history say
what happened and are read by properties only.

### OutputBatcher

Bytes are positions in a fixed `stream` of UTF-8 classes: `recv` were accepted
by Add, `taken` have left `pending`, the queue holds intervals, `sunk` is where
the sink got to. `mu` is the owner of `b.mu`; `Park`, `SignalWakes` and
`Broadcast` are `cond.Wait`, `Signal` and `Broadcast`, a woken goroutine
competes for the mutex again. `Add`, `FlushReady`/`FlushTake` and `GiveUp` are
Add with its backpressure; `TimerFires`, `OnTimer`, `OnTimerTake` the timer,
whose callback may run although it was stopped; `Close`, `CloseLoop`,
`CloseTake`, `Join` and `Discard` teardown; `WorkerRuns` to `WorkerEmits` the
goroutine. `IsTake` is takeLocked with its rune boundaries. Time is left out:
an armed timer may fire at any moment.

`OutputChannel` says what the users of the batcher count on: what was accepted
is delivered in order, in pieces that are bounded and end where a character
ends; a Discard lets at most the piece in the worker's hands through; no Close
or Discard returns before the last delivery. The mapping is `accepted <- recv`,
`delivered <- sunk`, `ended <- Ended` (the worker has quit), `phase <- Phase` and
`returned <- Returned` (the teardown calls that have come back), and
`limit <- Limit`, the end of the batch the worker holds when it learns of a
Discard. The channel may also end with output left over, because the batcher
does (finding 1); when that can happen is what `WorkerQuitsLast` says.

### Sessions

A session is named by the Connect call that makes it. Its `Actors` are the two
pumps, the wait goroutine, a Write and a Disconnect. `once` is the progress of
the body of `endOnce` (`finish`, or `disposeQuiet` with the `q` stages), one
step per statement; `RecordFault` before `EnterOnce` is `end`. Output is
counted in chunks from the remote side (`sent`), over the channel (`wire`) and
the batcher (`added`) to the sink (`shown`). The batcher is what its type
comment promises: Close returns after everything added was shown. That promise
can be broken (finding 1); Sessions shows that the manager is right when it is
kept. `asked` is a history variable of the sessions somebody ended locally.

### TransferManager

`state`, `queue`, `runningGlobal`, `runningSession` and `cancelled` are the
fields under `m.mu`. Callers and running tasks are goroutines that first
change state under the lock, then emit what is in `todo` event by event, and
call `schedule`, whose picks (`Pick`, `PickNoMore`) hold the lock and whose
launches do not. A run copies (`Starts`, `CopyEnds`), closes, passes the commit
gate (`Finalizing`) and commits (`Succeeds`) or ends otherwise (`Fails`).
`view` is the renderer's map, and `Shown` its rule that a lower rank never
replaces a higher one.

### SftpFiles

The uploads aim at one remote file, the downloads at one local file. A file is
its writer, whether it is complete, and whether its permissions are the old
ones. Every
request to the server takes effect and is answered (`Ok`), takes effect and is
answered by an error since the connection died (`Lost`), or does not take effect
(`Error`); `Dies` is the end of the process. `Create` to `Cleanup` are
uploadFile and writeTempAndCommit, `Inspect` to `RemoveBackup` are commitUpload
with and without posix-rename, `DInspect` to `DReplace` the download. When the
transfers run is TransferManager's affair; here they run at any time.

### SftpHandles

`handles` is the service's table, `handle` every handle with its client, its
directory and the call that holds its lock, `openClients` the clients somebody
still has to close. `Resolve` looks up, makes or takes the handle out, `Share`
to `HomeFails` are ensure, `Operate`/`setCwd` an operation, `TakeTable` to
`CloseClient` Interrupt, Dispose and DisposeAll. A client dies with its session
(`Alive`). Which operation runs is left out, but for Chdir.

### RemoteTree

`tree` maps paths, as sequences of names, to directories, files and links;
`RealPath` is how the server resolves a path, one link after the other and no
more than `MaxLinks`, `Entry` how it finds an entry without following it, `Place`
where it makes one: whatever path a call sends, resolved before or not, the server
resolves it again when the request runs. `Begin`
joins the names a call was given with the current
directory, as it is then, and refuses what leaves it; the steps after it are the
requests of the call. A removal whose target is a link takes the link
(`DropLink`); any other walks with a stack of directories and what is left of
them to visit (`Visit`, `ReadDir`, `NextChild`, `Unlink`, `RemoveDirectory`), one
request a step. `moved` is a history: something was renamed while the removal
walked, or renamed or made while it was about to take the link.

### Agent

A run is the goroutine of one prompt and belongs to a conversation object;
`convs` maps sessions to conversations, which Clear and Dispose detach. Its
places are the loop of `run`: model request, Authorize, Ask, show, wait,
remember, tool; and its end: `Release` (running = false), `Leave` (the deferred
function re-reads `c.done`), `Return` (it closes what it read). `SessionEnds`
is disposeSession of app.go: detach and join the run, forget its grants, forget
its asks. `Patient` bounds the environment, see finding 2. The captured cancel
function of an Abort is merged with its lookup; of the events only consent
prompts are kept; the policy is read afresh, and may be any, at each Authorize.
A grant is for a session and a tool; that `allowed` also holds the run that
recorded it is history. A run is `settled`, a history too, when it had returned
before its session's grants were forgotten; one that had not `Outlives` its
session, because the end joins only the run of the conversation that is the
session's at that moment (see the known divergences).

### AgentTranscript

Messages have a role, a size and the number of tool calls, or the call they
answer. `Prompt`, `prepareContext`, `ModelAnswers`, `ToolAnswers`, `Stops` and
`Folds` are the life of a run as far as it writes messages; `trimHistory`,
`splitForCompression`, `toolRounds`, `dropOldToolResults`, `compress` and
`reconcile` are the functions of those names. The estimate of tokens is a sum of
sizes, the text of a summary a message of size `Summary`, the stub that
`dropToolRound` leaves for a round one of size `NoteSize`; either may be longer
than what it replaces, and `CompactionKeeps` says by how much a compaction may
enlarge a transcript. `View` is what
modelInput and trimStateMessages make of the transcript for a request.

### McpRuntime

The i-th ConnectHost opens session i. `Reserve`, `Insert`, `TooLate`, `Discard`
are ConnectHost around the dial; `DisconnectSession`, `HangUp`, `Unmark` the
local teardown; `Closed` is onClosed; `begin`/`done` bracket a tool operation;
`Reap` chooses under the lock and `ReapNext` tears down outside of it;
`DisposeAll` closes the gate, waits for the reaper and ends what is left.
`life` is the manager's side of a session: up, ending, unmapped, gone; the end
is announced (`Closed`) after it is unmapped, as `finish` does. A Disconnect
waits for a `finish` under way, as sync.Once makes it, and returns at once for
an unmapped session. `ManagerDisposeAll` is the quiet end that shutdown begins
with. `lastUsed` is reduced to `idle`, the order in which sessions are torn
down to any order.

### McpServer

`sent` are the lines of the client by kind; `reader` and `main` are the places
of the reader goroutine and of the loop of Serve. The channel between them has
no buffer, so that `Receive` moves both. `ReadLine` handles a cancellation
itself and offers everything else; `ReadEnd` is the end of the input, which
aborts Serve when a call is in flight. `Register`, `CallReturns`, `Respond` are
tools/call. A `partial` end is a last line without a newline. `cut` is history:
the call that ran when the end of the input aborted Serve. `Excused` lists the
requests that may go unanswered, and a reason for each.

### CredentialStore and SecretCell

One host. The secret of the i-th save is generation i. `kind`, `cur` and `prev`
are the primary entry (none, an inline secret, or a manifest with the list
Previous), `chunks` the chunk entries. Every keyring call is a step and may
fail, and `Crash` may come before any of them. Save drains the backlog, writes
chunks, commits the manifest, sweeps and rewrites; a failed write is undone in
`Attempts` rounds. Clear goes through the pending generations, the current
chunks and the primary, and stops at the first failure. The reader is a Get in
the `--mcp` process, which does not share the mutex. A keyring call that fails
has no effect; encodings, byte sizes and malformed entries are left out, so is
the order of Previous. Chunks of a generation that was never committed may be
orphaned by a crash, as the code's comments admit; `NothingLost` speaks of
secrets that were in use.

`SecretCell` says what a user may rely on: a save replaces the secret in one
step or leaves it alone, once it is committed it does not fail, only a clear
breaks the entry. The refinement mapping is `value <- Read`, what a Get of this
process would return, and `target <- saves`.

### HostCredentials

One host, in the cache, in hosts.json and in the keyring. `save`, `remove`,
`clear` and `mark` are CredentialsSave, HostsRemove, CredentialsClear and
CredentialsMarkPrompted of app.go: read the old secret, change the keyring,
change the host file, and roll the keyring back when that failed. Each may fail
at each step, two run at a time, and `Restart` is a crash anywhere. `crossed` (a
remove overlapped a save or a clear), `unwritten`, and in a call what it found
and whether it was alone (`before`, `alone`) are history.

### AgentProviders

`ReadOld` to `WriteList` are migrateAgentProviders, which every call begins
with: the key of an older version moves to the account of the legacy provider,
and a file without a list gets one. Then comes the call: AgentUpsertProvider,
AgentDeleteProvider, AgentSetProviderKey, AgentSetDefaultModel, or AgentPrompt,
which only reads. The list is read, changed and set again without a lock.

### Settings

`normalizeSettings` and what it consists of, for one setting of each sort; a URL
is a sequence of parts, spaces and slashes, a number has the JSON type it was
found as. `SetReads` and `SetWrites` bracket Set, which holds the lock of its
process between them; the other process may replace the file there. The file is
replaced as a whole (atomicfile).

### Monitor, Tunnel and Teardown

Monitor: a call detaches and cancels the poller (`Detach`) and joins it under the
transition lock, then publishes a new one (`Publish`) or clears the screen
(`Cleared`). The poller of generation g waits for its gate, ticks, samples,
checks that it is current (`Sampled`) and then emits (`EmitUpdate`), in two
steps. `screen` is the last event the renderer got.

Tunnel: `Look`, `Listen` and `Insert` are Start, with the lock released to
listen; `TakeOut` and `CloseNext` are Stop, Dispose and DisposeAll. A connection
is dialled through the session, copied both ways, and ends with the local side,
the remote side or the session.

Teardown: `ending[s]` follows Session.finish and disposeSink, from the closed
connection over SFTP, monitor and tunnels to the event; `stopping` follows
shutdown: the services, the sessions that are still in the table when
sessions.DisposeAll looks (`TakeSessions`, `StopSession`, `SessionsStopped`), which
it ends and waits for, and the SFTP clients. It does not wait for a session that
its own end has already taken out of the table. The ending sessions and the shutdown are callers of the services like
the renderer's calls (`Call`), which do not ask whether a session is still there.
What the same path does for the agent and the transfers is in Agent and
TransferManager.

### Modules with several parts

`Files` (with its instance `MCFiles`), `Stores` (`MCStores`) and `MCMcp` compose several
modules that share no state. A
behaviour exercises one of them, the `focus`; the variables of the others are
`None`, or stay as in the initial state. Since the parts have no variable in
common, a property of one holds in the product of all iff it holds when only
that one moves; the run is the sum of their state spaces instead of the product.

## 3. What the runs show

| run | bounds | distinct states | shows |
|---|---|---|---|
| OutputBatcher | 2 pumps, 2 timer callbacks, 2 teardown calls, queue of 2, batches of 3 bytes, a 7-byte stream with runes of 1-3 bytes | 13 468 | `BatchesFit`: order, bounded memory, whole runes; `OutputPromise`: it is the channel, and the one way to lose output; `Progress`: no lost wakeup, calls return, output is delivered |
| OutputBatcherClose | the same, batches of 4 | to the violation | finding 1 |
| TransferLive | 2 tasks of one session, 1 slot | 23 163 | `TasksEnd`, `CancelledNeverCommits` |
| Files | queue: 3 tasks of 2 sessions, 2 slots, 1 per session, 2 callers; files: 2 uploads and a download; handles: 4 operations, 2 handles, 2 clients; tree: 3 calls, 2 links followed, 5 directories with 2 links | 1 033 584 | slots exact and used, the renderer settles, quiet after Dispose; `ReplacesSafely`, `PanelStays`, `OnlyBelow` |
| Sessions | 1 session, 1 chunk of output, everybody who can end it, shutdown | 266 396 | 5 safety, 1 action and 2 liveness properties of the end |
| Agent | 1 session, 2 prompts, 2 conversations, 3 policies, 1 tool | 110 400 | joins, prompts, grants, ends |
| AgentDone | the same, 1 conversation, without `Patient` | to the violation | finding 2 |
| Mcp | table: 2 connects, limit 1, 1 operation at a time; server: 3 lines | 143 680 | limit, reaper, table, shutdown; each request answered once, in order, or excused; cancellation and end of input |
| Stores | keyring: 4 saves, 2 chunks, 2 pending generations, 2 undo rounds; hosts: 2 calls, 2 secrets; providers: 2 calls, 1 provider besides the legacy one, 1 key; settings: 2 processes of 2 threads, 12 files, 5 patches; transcript: cap 9, 8 messages and 2 rounds kept, a note of 8 units, 4 prompts of 2 turns of 2 calls | 2 779 447 | refinement of SecretCell, no lost chunks, undisturbed reader; orphans explained, failures restore; keys kept; settings kept; requests accepted, compaction |
| CredentialClear | 1 save | to the violation | finding 3 |
| SettingsNil | as Stores | to the violation | finding 4 |
| Teardown | 1 session, 2 calls of the renderer, 1 port, 2 forwards, 1 connection, 2 pollers, 2 handles, 2 clients | 447 819 | `EndsClean`, `NeverStale`, `ShutdownIsFinal`, `TeardownEnds` |

Several properties are conjunctions: `BatchesFit` is `InOrder`, `Backpressure`
and `RunesWhole`; `OutputPromise` is `ImplementsChannel` and `WorkerQuitsLast`; `Progress` is `NoLostWakeup` always, `CallsReturn` and
`Delivered`; `SlotsUsed` is `SlotsExact` and `WorkConserving`; `EndsAreTold` is
`SessionsEnd` and `FaultSurfaces`; `ConsentSound` is `NoDanglingAsk` and
`GrantsForgotten`; `WaitsEnd` is `CancelEnds` and `DisposalEnds`; `TableSound`
is `SlotsExact` and `TableIsLive`; `EndsClean` is `OwnersKnown` and
`NothingLeft`. Each includes the type invariant of its module, unless that is
proved.

Why the bounds are enough. Two pumps, two timers and two teardown calls are all
the code has at a time, except that timer callbacks could be more. The run never
has two callbacks at work at once; that no wakeup is lost whatever their number
is proved (`WakeupsArrive`). The queue limit of two is reached with batches left over.
In Files two slots with one per session make the session limit bind, in
TransferLive one slot makes the global limit bind; three tasks are one more than
there are slots. Two uploads to one name are what makes commitUpload's rename
meet another writer's, and the download shares nothing with them but the
process. A second client of a handle is the one opened after an interrupt, a
second handle the one made after a disposal. In the tree, the link out of the
panel's directory and the link through which that directory has a second name
are the two ways in which a path does not say where an entry is, and the
directory whose name is the link's in another one is what a walk may list in its
place after two renames. In Sessions
nothing but the sweep of DisposeAll relates sessions to each other, and the
proofs cover any number; so it is in Teardown, where a second session would only
add more callers of the services. In Agent the second prompt
may meet the first run on the same conversation, or on a detached one. In
Mcp the second connect meets a full table, and the first session in every
stage of its end; three lines are a call, what is pipelined behind it, and its
cancellation. In Stores four saves suffice to fill Previous (2), to be refused
because it is full, and to recover; the code's third undo round and its limits of
chunks are covered by the proofs. Two calls on one host or on the provider list
are enough for every pair of kinds of call to overlap. The cap of the transcript
leaves room for a summary and the two rounds a compaction keeps, so that each cut
happens after the others, and the note is longer than the smallest round it may
replace; the 5 patches and 12 files have each sort of field
valid and damaged or absent.

Deadlock is checked, except in Mcp, Stores, SettingsNil and Teardown, where
the process may stop for good or has used up what a bound allows. (In Files only
the queue is checked for it; the other three parts come to an end.)

### Fairness

* Every goroutine that can take a step takes one (weak fairness per goroutine):
  the Go scheduler. Calls of the user, the remote side and answers to a consent
  prompt are not obliged to happen, and neither is the end of a session or a
  shutdown; one that has begun goes on (Teardown).
* OutputBatcher and TransferManager use strong fairness for steps that need the
  mutex: sync.Mutex hands the lock to a waiter that starved for 1 ms, so a
  goroutine that could get the lock again and again does.
* A sink call returns (emitting a Wails event does not wait for the renderer).
* A dial ends by its deadline (sshclient), file operations, model requests and
  tools end by theirs. The user need not answer a consent prompt: `CancelEnds`
  and `DisposalEnds` hold nonetheless.
* McpRuntime: a tool operation need not end. McpServer: a call returns when its
  context is cancelled; otherwise it may take for ever, and the client need not
  say anything.
* Monitor: a sample ends by its timeout or its cancellation; a `select` that is
  always ready on both sides takes the cancelled one some time (strong fairness
  of `Leave`): Go chooses among ready cases at random.
* Tunnel: a forwarded connection need not end by itself. SftpHandles: a request
  to a server whose connection is up may take for ever, one whose connection was
  closed returns.
* The modules of MCStores, SftpFiles and RemoteTree have no fairness, all their
  properties are safety.

### Findings

1. *batcher.go:182, Close may lose output* (`CloseDelivers`). A Close that
   waits for room releases the mutex; the worker drains the queue, sees it empty
   and `closed` set, and quits before Close gets the mutex back. What Close
   still queues is never delivered, although the type comment (38-39) says it
   is. `WorkerQuitsLast` shows that this is the only way to lose output.
2. *agent.go:387, a run may close the next run's channel*
   (`JoinedHaveReturned` without `Patient`). The deferred function re-reads
   `c.done` after the conversation was released; a prompt in between has
   replaced it. Joins then return early, and the second close panics.
3. *credentials.go:467, Clear may break the secret it retains*
   (`ClearRetains`). When a chunk delete fails after another one succeeded, the
   primary stays but cannot be decoded; the comment at 471-472 says the secret
   stays recoverable. A retry of Clear does finish the removal.
4. *settings.go:307, a default nobody touched changes* (`NilFieldsUnchanged`).
   A stored default whose provider has no models is shown as none; when any other
   setting is saved, "none" is normalised once more and becomes the first
   provider's first model. The comment at 142-143 says that nil fields are left
   unchanged.

The passing runs hold in spite of these: `WorkerQuitsLast` names the case of
finding 1, Agent's run is `Patient`, SecretCell lets a clear break the cell, and
`KeepsOthers` excepts a default shown as none.

### Known divergences

The properties are stated so that they allow the following; each is the place
where a property stops short of what a comment promises or a user may expect.

* *batcher.go:481-482.* When pending is longer than one batch and the bytes
  around the cap are all continuation bytes, no take makes progress and pending
  grows; the comment calls that impossible. The stream of the OutputBatcher run
  is text.
* *runtime.go:481-483.* A disconnect of a session that is ending by itself
  removes its mark before session:closed arrives, so that onClosed records a
  tombstone no ConnectHost will delete, against the comment at 297-299.
  `TableSound` does not speak of such tombstones.
* *permission.go:231-246, 271-273, channel.go:83-84.* A run that a Clear (or the
  shutdown) has detached, or whose prompt came after the end of its session had
  looked, is joined by no end: it may show a prompt, and record a grant, after
  ForgetSession and CancelSession, since the answer is remembered (240) without a
  look at the context. The comments say that the grants go with the session and no
  ask outlives it (`Outlives` in `NoDanglingAsk`, `settled` in `GrantsForgotten`).
  Session ids are not reused, so that nobody meets the grant.
* *server.go:119-134.* The end of the input cancels Serve when a call is in flight,
  and the reader gives up what it holds. A last request without a newline that
  comes with that end is read but never processed, against the comment at 179-180
  (`LastLine` in `Excused`; TLC finds it when that is taken away).
* *sessions.go:446-455.* DisposeAll joins only the sessions that are in the table
  when it looks. `finish` takes a session out (589-592) before it reports error and
  closed (593-596), so that the closed event and the disposal it triggers may come
  after the shutdown has returned, against app.go:390-393 and sessions.go:441-443
  (`ShutdownIsFinal` speaks of sessions, pollers, forwards and samples only).
* *app.go:243-249.* What belongs to a session is gone when session:closed is
  emitted, unless the renderer calls a service for the session while it ends or
  after: then a poller, a port that leads nowhere or an empty handle may stay
  (`late` in `NothingLeft`) until the shutdown.
* *app.go:501-502, 583-584.* A secret without a host remains when hosts.json
  could not be written once, or when a remove overlaps a save or a clear
  (`unwritten`, `crossed` in `OrphansExplained`): a clear whose own change fails
  saves the old secret back (640-655) for a host that is gone by then, against
  493-498.
* *app.go:511-514, 641-644.* A remove or a clear that cannot read the old secret
  takes the entry for a corrupt one, and when it fails later it has nothing to roll
  back to (`prev # Corrupt` in `Fruitless`).
* *context.go:269, 372, 431-435.* A compaction may make a transcript larger: a
  summary replaces a prefix, and a note a round, that may be shorter
  (`KeepsLast`).
* *app.go:1131-1137, 1349-1359.* Two overlapping changes of the provider list
  overwrite each other, and a call cut off between file and keyring leaves a key
  without a provider (`raced`, `broken` in `KeysHaveProviders`).
* *settings.go:239-247.* The lock is of one process: a Set of another one between
  read and write is overwritten (`late` in `KeepsOthers`). A URL that ends in a
  space and a slash needs two rounds to settle (`Unstable`).
* *sftpservice.go:609-659.* Without posix-rename, an upload that inspects the
  target while another one has moved it aside takes it for missing and makes a
  new file with default permissions. If further uploads come in between, that
  file can be the one that stays, and the old permissions are lost; it takes
  four at a time (`FoundNone` in `PreviousSurvives`).
* *sftpservice.go:725-726.* A write that reports an error may have replaced the
  file, when the connection died after the server had acted (`unsure` in
  `OutcomeIsTrue`).
* *sftpservice.go:432-433.* Remove of a link reached through another link removes
  that one link, which may be outside of the panel's directory; what it points to
  stays (`Named`). If another call has removed the link before, and a third has
  made a directory of that name, the second request of Remove (464) takes that
  one, as long as it is empty (`moved` in `Named`; TLC finds it when that is taken
  away). Rename of a link renames its target.
* *sftpservice.go:489-496.* removePath looks at an entry by Lstat and lists it by
  path in a later request, which follows links. If two renames of other calls put
  a directory in the place of the one that is being removed, and it has a link
  where that one had a directory, the walk goes on in what the link points to,
  against the comment at 436-437 (`moved` in `RemovesBelow`; TLC finds it when
  that disjunct is taken away). While nothing is renamed, nothing leads out of
  the target.
* *context.go:332-333.* The summary of a compaction is the first message, which
  the cap may cut later. Where nothing can be compacted, compress returns (360-363)
  before it tries to drop old results (368-371).
* *server.go:105-127.* A cancellation behind a pipelined request is not heard
  until the call has returned; `CancelEndsCall` speaks of one that is next in the
  input.

## 4. What is proved

TLAPS (1.4.5, backends Z3, Zenon, LS4) checks the proofs for every value of the
constants.

### SessionsProofs

For any set of sessions and any amount of output; the only assumption is that
`MaxOut`, the bound of the output, is a natural number.

| theorem | says |
|---|---|
| `TypeCorrect` | `Spec => []TypeOK` |
| `Invariant` | the inductive invariant `IInv` |
| `ShutdownFinal`, `ConnectionsClose` | after DisposeAll there is no session and no open connection that a connect will not bring to the gate |
| `ClosedLast`, `EndFinal` | closed is told once and last; nothing of a session follows its end |
| `InvariantWithCauses` | `IInv` and what caused an end |
| `CleanEnd`, `LossReported` | an end that nobody asked for shows all output, and reports a loss |

The argument. `IInv` is the conjunction of the type and, per session, of

* `Unborn`, `Unstarted`: nothing has happened yet to a session that is not
  registered, or whose pumps have not started;
* `Gate`: once `closing` is set no session enters the map, and DisposeAll's
  sweep contains what was in it; this is what `ShutdownIsFinal` lacks to be
  inductive, since it says nothing before DisposeAll returns;
* `Closing` and `Flushing`: at each stage of `once` the connection is closed,
  the batcher torn down and the map updated as far as the stage says; a single
  goroutine executes the body, since `once` only leaves `open` by one step;
* `Telling`: the log at each stage;
* `Account`: chunks are conserved from the remote side to the sink until the
  batcher is torn down.

`CleanEndShowsAll` and `LossIsReported` also depend on why the body of endOnce
was entered. `Causes` says, for each place of each goroutine, what must have
happened: a clean reason comes from an exit with both pumps drained, or from
somebody who asked; a fault is recorded before endOnce is entered. `CInv` adds
it to `IInv`.

### FilesProofs

For any number of tasks, sessions and callers and any limits that are positive
(`GoroutinesAssumption`, `SessionsAssumption`, `CapsAssumption`: the caller
goroutines are not task goroutines, and each task has a session). For the
files, any number of uploads and downloads (`WritersAssumption`: an upload is no
download, and no file is `NoFile`). For the remote tree, any tree in which what
is above an entry is a directory, with any links, dangling and circular ones too,
and calls with any names (`TreeAssumption`).

| theorem | says |
|---|---|
| `Invariant` | the inductive invariant `IInv` of the queue |
| `SlotsAreUsed` | the counters are exact, and no slot is idle while a task that may run is queued |
| `TheViewSettles` | once nothing is under way, the renderer shows what the tasks became |
| `DisposeQuiets` | after Dispose nothing is queued and no file is touched |
| `CancelledNeverCommit` | a task that was cancelled before its data was copied never replaces its target; of a later cancel it says nothing |
| `QueueAsAlone` | `FilesSpec => Spec`: the above holds in the composition too |
| `FilesInvariant` | the inductive invariant `FileInv` of the replaced files, under the focus |
| `FilesAreReplacedSafely` | whatever fails, the file that was there or a complete replacement is, with its permissions; outcomes are true |
| `TreeInvariant` | the inductive invariant `TreeInv` of the tree and its calls, under the focus |
| `RemovesOnlyBelow` | Remove takes only what is below the current directory and its resolved target, or the link its target is, unless something was renamed meanwhile or came in the link's place |

The properties speak of the quiet moments; the invariant says what is owed until
then. `QueueInv` and `PlaceInv` tie the task's state to the queue and to the place
of its goroutine; `LaunchInv` says that a task picked under the lock and not yet
launched is in the to-do list of one goroutine, once; `SlotsInv` counts the
goroutines and those launches. `ViewInv` carries the renderer: no event under way
is ahead of the state, and what the state has become is shown or still to be
told. Since ranks only grow, the order in which the events arrive does not
matter. For `CancelledNeverCommit` a task is `Doomed` once cancelled, and no
step leads out of that.

For the files, `Known` says what a writer knows where it stands: when its
temporary file is there, complete, and has the permissions it is going to have,
and which of the places of commitUpload need a server without posix-rename.
`InPlace` says where the previous file is: under its name, or in the backup of
an upload that is not about to remove it. A file is `Settled` if it is complete
and its writer has reported success, is about to, or cannot know; since a writer
that has failed is none of these, a failed transfer has replaced nothing. The
lemma `Own` says that a step of one writer disturbs nothing of the others; after
it there is one lemma for each thing a step does to the files (`Looks`, `Lands`,
`MovesAside`, `MovesBack`, `DropsBackup`) and one for each action. That
permissions are kept without posix-rename is conditional on `NoneFound`: no
upload has found the target missing. Without that condition the induction fails
where an upload moves another one's new file aside, and TLC finds the
counterexample with four uploads (see the known divergences).

For the tree, `Grown` says that what is above an entry is a directory, so that a
path goes through one link at most (`LinksAlone`), and `Plain` that all a path goes
through are directories. Where the server gets to is the end of a chain of
substitutions (`Chains`, from `Iterates`: what is computed step by step from a
first value exists). A path that is plain leads to itself or nowhere
(`Straight`), and while entries only go, any path leads where it led or nowhere
(`ShrinksReal`): at the first link that is gone its chain stands still. `TreeInv`
adds what a removal knows: all directories on its stack are plain and below its
target, its next entry is below one of them, and the target it found to be a link
still is one or is gone. Removals and Mkdir keep `Grown` and make no path less
plain (`GoneKeeps`, `MadeKeeps`), Rename keeps `Grown` only (`MovedKeeps`), which
is why the property excepts it. The attempt to prove `OnlyBelow` found what
it said of links too strong, by the case of three calls that the known divergences
describe; it was restated, and the run now contains the case.

### TeardownProofs

For any number of sessions and calls, ports, pollers, forwards, connections and
clients; the bounds are natural numbers (`BoundsAreNat`) and the names differ
(`NamesApart`). The proofs are about the composition, in which the ends of the
sessions and the shutdown call the services at any moment.

| theorem | says |
|---|---|
| `Invariant` | the inductive invariant `IInv` |
| `Clean` | what there is has an owner who will close it; when the renderer hears of the end of a session no client of it is open that nobody is about to close, and, unless a call came late, there is no poller, port or handle of it |
| `NoStaleSample` | the screen never shows a sample of a session the renderer has left |
| `ShutdownFinal` | after the shutdown no session is connected, there is no poller or forward, and no sample is shown |
| `PanelMoves` | the panel moves by a Chdir of its session; every open client has an owner |

`IInv` is `MonInv`, `TunInv` and `SftpInv`, which hold of each service whoever
calls it, and `LifeInv`, which ties them to `ending` and `stopping`: a stage
that was passed has left nothing behind in its service, unless a call came
late. That a late call leaves no client rests on `ClientInv`, which is proved on top
of `IInv`: a client is of the session of the handle it is kept at (`ClientsNamed`), a handle
that holds one is in the table, unless a call is taking the client out
(`HandlesFound`), and a handle made after the disposal stays empty
(`EndedEmpty`). For `NoStaleSample`: a goroutine that runs is the current poller's or is
being joined (`PollersKnown`), one that has passed its gate is what the screen
shows (`ScreenFollows`), and the next poller stands at its gate until its first
event is out (`GateShut`).

### McpProofs

For any number of connects, any positive limit of sessions and any number of
operations (`LimitsAssumption`); for the server, any number of lines
(`LinesAssumption`).

| theorem | says |
|---|---|
| `TableInvariant` | the inductive invariant `TableInv` |
| `TableIsSound` | slots are exact and within the limit; table and manager agree |
| `ReaperSparesWorkers` | no session with an operation is taken |
| `ServerAlone`, `AnswersOnce` | each request is answered once, in order, or is one of `Excused`; of the server alone, and of the specification MCMcp checks |

A session goes from its connect over the table to its teardown and never back.
`Recorded` says what is known of it in each place (only what has connected is in
the table; its count is the number of operations under way), `Endings` relates
the local teardown, its marks and tombstones to the manager's side. In the server
the reader is at most one line ahead but for cancellations: `Skipped` says that
whatever lies between the line in hand and the reader's is a cancellation,
`Behind` and `AllDone` that the answers are those of the lines before, in order.

### AgentProofs

For any number of sessions, prompts, conversations and any policies
(`BoundsAssumption`, `PoliciesAssumption`).

| theorem | says |
|---|---|
| `Invariant` | the inductive invariant `Inv` |
| `LoopsAreAlone` | two loops never work on one conversation, `Patient` or not |
| `JoinsAreComplete` | when a conversation was joined, its runs have returned |
| `ConsentEnds` | a prompt on screen has its run behind it, and no grant of a run that the end of its session has joined is left; the runs that outlive their session are excepted |

`JoinsAreComplete`, and of `ConsentEnds` the part `JoinedFirst`, are proved of
`Patient`: a prompt comes only after the run before it has returned. They do not
hold otherwise, which is finding 2. `Core` says which
conversation belongs to whom (`Owned`), that a loop's conversation is marked
running (`Marked`), and, if `Patient`, that the done channel of a conversation is
that of its last run (`LastOnly`). `Asks` says which prompts may be shown: one
whose run waits for it, or one of a run that outlives its session (`Outlives`).
`Begun` and what is known of the runs an end waits for give `JoinedFirst`: the
grants of a session go when the runs of its conversation are over.

### OutputBatcherProofs

For any number of pumps (finitely many), timer callbacks and teardown calls, any
remote output, any sizes that are positive (`ActorsAssumption`,
`SizesAssumption`).

| theorem | says |
|---|---|
| `Invariant` | the inductive invariant `Inv` |
| `OutputInOrder` | output is not lost, doubled or reordered between Add and the sink |
| `QueueFits` | `AllUtf8 => BatchesFit`: no batch ends in a rune, queue and pending are bounded |
| `WakeupsArrive` | no wakeup is lost on the one condition variable |
| `WorkerQuits` | the one way in which the worker leaves output behind (finding 1) |
| `Implements` | `AllUtf8`: every step of the batcher is one of `OutputChannel`, or is not seen by its users |
| `Promise` | `OutputPromise`: the two of them together |

`AllUtf8` says that the output is UTF-8, as far as it goes, with no rune longer
than a batch; the text of batcher.go:480-481 says the same, and the known
divergences show what happens otherwise. `Locked` says who has the mutex;
`Waits` that whoever sleeps has a reason; `Drains` that, once closed, what is
pending or asleep is seen to by a Close that still drains, which is what makes
one signal enough. `Bounded` counts the pumps that are inside an Add: each may
have put one read on top of a full batch.

For the refinement each action is shown to be one of the channel or to leave it
alone. Whatever moves bytes between `pending`, the queue and the worker's hands,
arms timers or wakes somebody leaves it alone (`Hidden`); Add is `Accept`
(`AddMaps`), the emission of a batch `Deliver` (`EmitMaps`), the worker's exit
`End` (`ExitMaps`); the first Close is `Close`, a Discard `Drop` (`CloseMaps`,
`DiscardMaps`), and whoever joins the worker returns after it (`JoinMaps`). That
a piece ends at a character, or after a close at the end of all there is, comes
from `Whole`; that after a Discard nothing but the batch in hand is delivered,
from `Delivering`.

### StoresProofs

CredentialStore. For any number of saves, chunks, pending generations and undo rounds, where the
limits are natural numbers, there is at least one chunk and one round
(`LimitsAssumption`), and the sentinel `Corrupt` is no number.

| theorem | says |
|---|---|
| `TypeCorrect` | the types; Previous never gets longer than a Get accepts |
| `NothingIsLost` | every chunk of a secret that was in use is named by the primary |
| `Undisturbed` | a Get of the other process fails only if a commit or a clear came in between |
| `Implements` | `Spec => Cell!Spec`: saves are atomic whatever fails and wherever the process crashes |

The inductive invariant `IInv` adds to the type and the two safety properties:
`Entry` and `Numbers` (the primary is well formed; generations are fresh and
pending ones older than the current one), `Place` (what is known of the entry
where a call stands), `Readable` (while a save is under way all chunks of the
current generation are there, which is why a save may fail or crash anywhere),
`Written` (the chunks written so far are there, and Previous of the new
manifest names every generation that still has chunks), `Refs` (a drain only
works on pending generations, and knows where what is left of them is) and
`Reading` (an undisturbed reader reads the current generation, and all of it is
there). There is one lemma per action with one step per part. The refinement
rests on two facts: `Read` is the current secret unless one of its chunks is
missing, and it is the current secret while a save is under way. Each step of
the store then is a step of the cell or leaves it alone.

HostCredentials and AgentProviders. For any number of calls at a time, any secrets, ids and keys. `None` and
`Corrupt` are no secrets (`HostsAssumption`); `None` is no key and no id, and the
account of the old key is no provider's (`ProvidersAssumption`).

| theorem | says |
|---|---|
| `HostInvariant`, `ProvidersInvariant` | the inductive invariants, under the focus |
| `NoOrphans` | no secret without a host, unless a remove overlapped a save or a clear, or hosts.json could not be written |
| `FailuresRestore` | a call that fails alone leaves the secret it found, but for the exceptions of `Fruitless` |
| `KeysSafe` | `KeysKept`: the old key is never lost; every key has a provider between calls |

Both invariants have the same form: what a call holds in its hands agrees with the stores
as long as no other call has come in between. `Remembers` says where the secret
is that a call found, `Grounded` that a call with a secret has a host to put it
to. For the providers `Owed` names the ids whose key is for the moment not in
the list, because a migration or a deletion is between its two stores; `Reachable`
says that a key is listed or owed, `Tidy` what the call knows of list and old
key. `LegacySafe` holds however calls overlap: who is about to drop the old key
has seen it in the new account, or the user has disposed of it since.
The lemmas `Longer` and `Shorter` are about lists without duplicates.

### NormalizationProofs

The other two parts of Stores. For any settings files of the shape JSON can
have, any patches, any number of processes and callers and positive limits of
the list of providers (`SettingsAssumption`); for any cap of the history, any
number of calls of an answer, prompts and sizes (`TranscriptAssumption`). What a
compaction keeps is at least two messages and one round: with a single message
kept, the second of its cuts, which keeps half as many, would keep none.

| theorem | says |
|---|---|
| `SettingsInvariant` | the inductive invariant `SetInv`, under the focus |
| `SettingsSafe` | `SettingsKept`: what Get shows and Set writes is valid; Set changes no other setting |
| `TranscriptInvariant` | the inductive invariant `TalkInv`, under the focus |
| `EveryRequestAccepted` | `RequestsAccepted`: no request has a result without its call, or a call without all its results |
| `CompactionsKeep` | `CompactionKeeps`: a compaction keeps the prompt and the last round, and adds one summary and the notes at most |

Settings. A caller that is about to write holds the lock of its process and,
unless the other process came in between, carries `Merged(Get(file), patch)`
(`Carries`). The rest is about the normalisers: for each sort of setting there is
a lemma that says which values it yields, and one that it leaves those alone, so
that a setting which Get has shown and a Set writes back is the same when Get
shows it again. One exception is a URL that ends in a space once its slashes are
cut off, which the next normalisation trims further (`Steady`); `SettingsKept`
names it, and a default that is shown as none, which may be filled in once it is
stored so. The lists of providers and models keep the first row of each name:
`Ordered` defines what such a loop keeps by counting, and `Ranks` and the lemmas
on `Ascending` give its length and its order without induction.

The transcript. `TalkInv` says of the stored messages and of those the run has
produced that every result follows the call it answers, with nothing but results
of the same answer in between (`Owned`, `InPlace`); that in what is stored no
result is missing (`Complete`), and in what is produced only the last answer of
a run waits for results (`Waits`), which reconcile completes; and that a summary
stands in front or nowhere (`SummaryFirst`). A cut is harmless exactly if it does
not begin with a result; `Split` says so of splitForCompression, `Leading` of
the cap, whose leading results are dropped, `Reconciles` that reconcile supplies
just what is missing. `RequestFits` then adds what is done to a request.

What a compaction keeps is told from the end of the transcript: `Back` is how far
the last answer with calls lies from the end, and `SameEnd` that two transcripts
agree that far. Each cut lies before that answer (`SplitKeeps`), the cut of the
shortened transcript too, since a summary in front moves no round (`RoundsStay`,
`CompactKeeps`); results are dropped from older rounds only (`DropKeeps`,
`LastRoundIsLast`); and the cap at the end never binds, because the transcript
was within it before and each step made it no longer (`TrimFits`). For the size
`Total` counts pairs of a message and a unit, so that a sum is compared by an
injection: what is left of a transcript injects into it (`Lighter`), and a
summary and each note add their own units (`SummaryAdds`, `NoteCount`).

### Only model-checked

* Liveness (`EndsAreTold`, `Progress`, `TasksEnd`, `WaitsEnd`, `NothingSurvives`,
  `CallsEnd`, `TeardownEnds`): fairness and ENABLED are beyond the installed
  provers. `Progress` contains `NoLostWakeup`, which is proved.
* `PanelStays` of Files; the same two properties are proved of SftpHandles in the
  composition of Teardown (`PanelMoves`), where more calls meet it.
* The findings, which are counterexamples.

## 5. What is not modelled, and why

* Text and data: the output parsers of the monitor and of the tunnel, fonts,
  the catalogue of MCP tools with the checks of their arguments, the conversion
  of transcripts to a provider's format, configuration files of other programs
  (MCP registration), error codes.
* The operating system: dialogs, the guard of local paths, reading key files.
* Known hosts: a set of fingerprints that only grows, behind one lock.
* The SSH protocol: handshake, host keys, algorithms. Sessions has an abstract
  connection with output, an exit and a loss. The SSH server of the tests.
* Time: deadlines and timers may expire at any moment, or are assumed to do so
  (fairness).
* Resize, Exec and the credential dialogue of Connect, which keep no state of
  the session; StopReaper, which production never calls, and guest mode in the
  MCP runtime.
* The renderer's first snapshot of the transfers: it differs from the events only
  after a reload, which the models do not have.
* hosts.json as the `--mcp` process sees it, through a cache of its own.

## 6. Plan

What could still be proved:

1. Sessions over `OutputChannel` instead of its own account of the batcher, so
   that the two refinements compose.
2. SftpHandles and Monitor under the composition with Sessions.

What could still be modelled: the snapshot in TransferManager with a reload of
the renderer, two caches of hosts.json, and what a host's removal does to the
sessions that are open to it.
