# Verification of vscode-supervisor

TLA+ models of the parts of this extension that are hard to test: what happens
when several asynchronous calls, kernel messages, timers, failures and restarts
overlap. TLC checks each model on small instances; TLAPS proves the main
invariants for every value of the constants. Paths below are relative to the
extension's sources, `src/src/` in the repository's tree.

Contents: 1 the system, 2 the modules, 3 the runs, 4 fairness, 5 what is
proved, 6 disagreements found, 7 what is not modelled, 8 plan.

## 1. The system

The extension host runs everything below in one JavaScript thread: code between
two `await`s is atomic, and anything may happen at an `await`, a timer or a
callback that re-enters the caller. Outside are the supervisor (Kallichore, an
HTTP and websocket server that owns the kernel processes), the kernels, the
file system, the language extensions that register runtimes and LSPs, and the
web views.

| Component | State it keeps | Operations | What is hard | Correct when |
|---|---|---|---|---|
| Runtime event queue: `runtime/session.ts`, `extHostLanguageRuntimeSessionAdapter.ts` | events by `event_clock`, the clock, a gap timer | stamp, pre-handle, emit, process the queue, timer | re-entrance, throwing handlers, gaps, nested queue runs | each event is settled once and in order, and no gap blocks the queue for good |
| Kernel session: `supervisor/KallichoreSession.ts`, `runtime/runtimeSession.ts` | runtime state, socket, barrier, the attempt to connect, flags of a restart and of startup validation, the calls under way | start, restart, shutdown and delete, reconnect, handle messages | late and lost messages, timeouts, an attempt to connect that several calls share and that outlives them, a restart under a deletion | no signs of an exit that is not this process's; removal only after the exit; no socket on a removed session; no call waits but for what has no limit |
| Session starts: `runtime/runtimeSession.ts` | sessions, starts under way, reservations of consoles and notebooks, the notebook map | start, restore, restart, delete, rename, late observers | concurrent callers, deletion and rename during a start | joined starts end, reservations are released, a notebook maps to its session |
| LSP of a session: `runtime/session.ts`, `runtimeSession.ts` | factory registrations, the bound generation, the LSP, its activation and comm | register, dispose of a registration, bind, activate, deactivate, end, dispose | replacement and removal while activations and stops wait | newest binding wins, only a wanted server runs, no comm leaks |
| Plot render queue: `runtime/positronPlotRenderQueue.ts` | queue, active operation, lock, close listeners | queue, run, cancel, answer, comm close, runtime state | late answers, closes and exits at any time | one at a time per session, the latest render wins, every request is answered |
| Console persistence: `services/console/consoleStateStore.ts`, `consoleRecoveryFileStore.ts` | versions and hashes of each console, the storage queue, checkpoints and manifest | change, flush, write, delete, select, reload | changes during a flush, failed and half-done writes, crashes, unreadable files | what counts as flushed is stored, files always resolve, deleted stays deleted |
| Runtime clients and RPCs: `runtime/RuntimeClientInstance.ts`, `runtimeClientManager.ts` | clients by id, the known one of each type, the initialization under way and its generation, pending RPCs and their timers | list, create, open, close, call, answer, time out, exit | an exit or a restart between the awaits of an initialization; late replies and deadlines | the clients are those of the kernel that runs; no caller waits on a client that is gone |
| Supervisor server: `supervisor/KallichoreAdapterApi.ts`, `SupervisorManagerService.ts` | server state, the start under way and its promise, process and lease | start, adopt, recover, stop, dispose | crashes, stops and failures at any await of a start; two who notice one crash | one server, in use or gone; a stop is final; who waits is answered |
| Language capability registry: `languageRegistry/` | generations of registrations, states of capabilities, their resources | commit, activate, retry, wait, release, dispose | replacement while activate functions are awaited | results are kept by the current registration or disposed of; observers are told; capabilities settle |
| Data connections: `services/connections/` | profiles, entries, pending connects | connect, edit, remove, disconnect, change drivers, dispose | edits and removals at any await of a connect | what is open is owned; what is listed is current |
| Console input: `services/console/consoleInstance.ts` | the queue of input, four flags of what is under way, the cancel handler | submit, enqueue, execute, process the queue, cancel, clear, attach | input that comes while other input is checked | each input is handed over once and in order, or comes to a known end; none waits for nothing |
| Rest of the console: `services/console/` | transcript, prompts, history | runtime messages, scrollback | projection of messages | the transcript shows what ran |
| Plot clients: `PlotClientInstance.ts`, `positronPlotsService.ts` | of each client the last and the current render; the clients of each comm | render, update, show, open an editor, unregister, close | updates that cross renders; clients that share a comm | what is shown is the plot as it is, at the size last asked for |
| Rich output router: `richOutputRouter.ts` | routing operations, clears that wait | route, clear, delete session, dispose | renderer results after a clear | late results are discarded and released |
| LSP tunnel: `lspTunnel/lspTunnelService.ts` | tunnels, requests both ways, queue bytes | open, relay, close | the LSP behind a tunnel is replaced | a tunnel speaks to one LSP; every request is answered |
| Runtime discovery and startup: `runtime/manager.ts`, `runtimeStartup.ts` | startup phase, runtimes, affiliations, saved sessions | discover, recommend, restore | phases against late registration | startup completes; saved sessions are restored once |
| Application: `application.ts` | services and their disposal | activate, shut down | one step of several failing | every step runs, once |
| Data explorer, variables, help, preview, viewers, packages, memory, surfaces, web views, DuckDB, binary manager, generated client | see `PROJECT.json` | | mostly I/O and projection | |

How they interact: the services call `RuntimeSession` (await), which calls its
`KallichoreSession` (await, HTTP) and listens to its events (callbacks); kernel
messages come over a websocket, are handled in `KallichoreSession`, stamped and
pre-handled in the adapter and client manager, and delivered through the event
queue of `RuntimeSession` to the services (console, plots, output router).
Plots, variables, data explorer and LSP hold comms, which are clients of a
session. Before a session is created or used, the adapter sees to it that the
supervisor's server runs. Console instances check input with the session, hand
it over, and wait for the busy and idle messages it causes. The console service
marks its states dirty and the state store flushes them. Languages register
factories and runtimes at any time.

`PROJECT.json` lists every component with its status and, under `hazards`, what
can go wrong in each at its line of code.

## 2. The modules

Actions are named after the functions they model; a comment above each says
where the code stops (the next `await`). `PROJECT.json` maps every definition
to its lines. Definitions commented `Fault:` are plausible bugs: no action uses
them, and each property is shown to fail when one replaces the definition that
follows it.

**EventQueue**, **OrderedDelivery**, **MCEventQueue**. `EventQueue` models
`session.ts:565-672` and the adapter. A tick is taken *before* a message is
pre-handled by client code (`extHostLanguageRuntimeSessionAdapter.ts`); that
code may emit further events (a frame on `stack`) or throw, which loses the
tick. `LoopTake`, `LoopEnd` and `FireReturns` are the loop of
`processEventQueue` and the listeners it calls, which may emit as well.
`TimerFires` runs only on an empty stack. A nested run overwrites
`_eventQueueTimer`, so timers may be orphaned: `OrphanFires`. The emitter of
this repository always emits `event_clock` 0, so clocks are given by
`nextEventClock` only. `OrderedDelivery` is the promise without clocks, queue,
timers and stack; `MCEventQueue` holds the refinement mapping.

**SessionLifecycle**, **MCSessionLifecycle**. One session from
`runtimeSession.ts` down to `KallichoreSession`. `startPc`, `restartPc` and
`deletePc` are where the three calls are; `inbox` and `link` are the websocket;
`proc`, `srv` and `asked` are the kernel and the supervisor, which are external
and may exit, fail a request after having carried it out, or stay silent.
`connecting` is the attempt to connect that a start, a restart, the disconnect
handler and `reconnectSession` share: eligibility, the address of the socket
(`"uri"`) and its opening are steps of their own, each of which looks at the
removal for itself, and the attempt outlives a caller that timed out. `retry` and
`spawned` are `tryStart`'s parameter and its `startProcess`: a start that finds
no server has it started and begins again, once. Requests fail and time out as
often as they like.
`RuntimeSession.state` and `_runtimeState` are one variable: the delay that the
event queue puts between them is left to `EventQueue`. `settled` is a history
variable: the last start or restart succeeded and no other has been called
since. `ready` stands for Ready and Idle; Exiting is left out.

**SessionStarts**, **MCSessionStarts**. The maps of `RuntimeSessionService`:
`inflight` (starts that can be joined), `reserved`, `mapped` (notebook to
session), `closing`. A call is a record in `calls` and moves through its
awaits; the session's state is only what it reports. A start that times out
becomes an observer (`late`) that releases its reservation when the session is
ready or ends. `stray` is a history variable for reservations whose observer
or URI the code has lost (see section 6).

**RuntimeClients**, **MCRuntimeClients**. One session's `RuntimeClientManager`
with its clients and their RPCs. `calls[k]` is an `initializeClients`: it lists
what the kernel has, restores it, and creates what is missing, one type after
the other. `generation` and `initializing` decide whether it is still current
after each await (`_isCurrent`). The kernel is external: `life` counts its
processes, `wire` is its connection, `queue` what waits in the session's event
queue, of which only the promise is used (in order, some time later).
`Handled` types are pre-handled on arrival. Two history variables name what the
properties excuse: `late`, clients whose opening was delivered after their
kernel's exit, and `displaced`, clients that another took the place of.

**SupervisorServer**, **MCSupervisorServer**. `KallichoreAdapterApi` of one
window: `run[i]` is the i-th call of `start`, and gives its name to the server
it launches; `started`, `starting` and `promise` are the barriers and
promises of `ensureStarted`; `task` are the creations of sessions, those who
notice that a socket dropped (`testServerExited`), and a stop on purpose.
Servers are external: they crash, and another may take the address of a saved
one (`impostor`). Of two awaits in a row whose order no other step can tell
apart (the removal of the record, and the storing of the server state) one is
modelled. `lease` is what this window renews: a server of an earlier window may
have none, and is then used without. A stop that failed (`"failed"`) fails the
calls of `ensureStarted` that awaited it. One order is assumed: a server
that takes the request to shut down has not refused a status request sent before
(`Verified`).

**LanguageRegistry**, **MCLanguageRegistry**. One language and owner of
`languageCapabilityRegistry.ts`. A generation is a registration; a revision is
what it offers. `passes` are the microtasks that activate capabilities,
`running` the activate functions that are awaited, `held` what they returned.
The state of a capability is kept without a generation in its key, so that
successive registrations write to one place; this is what the guards of the
code are about.

**DataConnections**. One profile of `positronConnectionsService.ts`. `connect[c]`
is a `_connectProfile` with its awaits: secrets, driver, the note of its use,
the disposal of what it replaces or of itself. Parameters are a version, so
that a connection can be told from one with other parameters. `early` is a
history variable for connections that may have parameters other than the
profile's: read while an edit stored the secrets, which it does before the
profile, or kept because storing failed. The several secrets of a profile are one
read or write; one that fails has stored some of them.

**ConsoleInput**, **MCConsoleInput**. One console with `_alignConsoleSubmission` (that of a console
session). `con` holds the fields that decide whether an input runs now, waits
or is refused; `call[i]` is where the call that brought an input stands, `pass`
where `processPendingInput` does. `canceller` is `_cancelActiveSubmission`: the
call or pass that a cancellation reaches. What follows a cancelled await runs
before any other event (`Calm`), as a microtask does. An input is a number in
the order of acceptance, the remainder of a split input a new one; `kind` tells
inputs of background requests and blank ones, which are not shown as pending and
so do not hold up what is executed at once. `stalled` is a history variable: a
pass that ended with an incomplete fragment of the user's, a failed check or a
check out of date left input in the queue, and nothing has gone on with the queue
since. After an ordinary hand-over it is false.

**LspBinding**. One session of a language whose factory is registered,
replaced and removed. Registrations queue microtasks (`jobs`), and between
microtasks nothing else runs (`Calm`). `act[c]` is an `_activateLsp` with the
comm `c`; `binds` and `stops` are the calls that wait for an LSP to stop. LSP
objects are external: they stop when asked to, late or after the 5 s that the
code waits, and may stop by themselves.

**PlotRenderQueue**, **MCPlotRenderQueue**. The whole queue of one session:
queueing with cancellation of what is superseded, the lock, answers that come
late, comm closes and close listeners, the runtime's states, disposal. An
answer settles the promise and finishes the operation in one step.

**PlotClients**, **MCPlotClients**. One plot with its client in the view and the
one in an editor, composed with that queue: a client's render is an operation of
it, and `Hear` is what clients do about operations that a step of the queue
settles, in the same task. An image is its size and whether it is of the plot
as it is (`fresh`). While the listeners of an update are called (`telling`)
nothing else runs. Answers and events of the kernel are comm messages of one
connection and come in order. Two history variables: `wanted`, the size each
surface is to show, and `unserved`, clients whose last request for an image
ended without one (it failed, was cancelled, or was superseded by that of the
other client).

**ConsoleRecovery**. `DoFlush`, `Drain` and `Resume` are the flush loop of
`consoleStateStore.ts`; `queue` is its chain of storage operations, each of
which is several file operations (`stage`) that may fail, or be cut by `Crash`,
which keeps only `disk`, and of that what can then be read. A revision stands
for the content of a console. A flush also fails when a console cannot be
serialized (`FlushBreaks`), and pauses now and then when it finds no end
(`"pause"`). `unread` is a history variable: sessions of which the file names a
checkpoint that could not be read or restored at the last start. The in-memory
`manifest` and the one on `disk` are two variables, since the code changes the
first before it writes the second.

The modules meet at promises: `EventQueue` keeps `OrderedDelivery`, which
`RuntimeClients` assumes of its `queue`. `SessionLifecycle` brings a start or a
restart to its end, or to an await without a limit; `SessionStarts` and
`ConsoleInput` assume of a session no more than that a call may return.
`SupervisorServer` answers whoever asks for a server, unless it stays silent; a
start that awaits it in `SessionLifecycle` (`"server"`) may wait for ever.

## 3. The runs

| Run | Instance | States | Shows |
|---|---|---|---|
| `event_queue` | 5 ticks, stack of 5 | 93 461 | exactly-once, order, no early give-up, a queue behind a gap is watched and drains; refines `OrderedDelivery` |
| `session_lifecycle` | a restored session and 1 more start or restart, or a new one's first start; 1 message before a report | 415 272 | true exit signs, removal only after exit, no socket of a removed session; deletions end, starts and restarts end or wait for what has no limit |
| `session_starts` | 2 sessions, 2 calls, 1 runtime, 2 notebooks, symmetric | 1 588 084 | joined starts run, notebook entries are current, reservations have owners |
| `runtime_clients` | 2 kernel processes, 2 initializations, 4 comms of ours and 1 of the kernel's, 1 message under way, 1 RPC | 342 684 | clients and comms match, one initialization at a time, RPCs end with their clients and not before, a kernel that stays has its clients initialized |
| `supervisor_server` | 1 caller, 1 watcher, 1 stop, 4 starts, 1 crash | 694 989 | servers are owned, a stop is final, callers are answered unless a server is silent for ever |
| `recoveries_overlap` | 1 caller, 1 watcher, 3 starts, 1 crash | | the disagreement of section 6.1 |
| `lsp_binding` | 2 registrations, 3 activations, 1 self-stop | 1 542 814 | newest binding wins, only a wanted server is left running, no comm leaks, a failed activation can be retried |
| `language_registry` | 2 generations of 3 revisions, 3 capabilities, 2 leases, 2 retries | 15 150 | results have owners, observers are told, capabilities settle |
| `plot_clients` | view and editor, 3 operations, 2 comms, 2 sizes | 391 197 | the queue runs one operation at a time, strands none and lets the latest render win; what is shown is what is wanted; operations settle |
| `console_input` | 3 inputs, and 1 of the background or blank or 1 loss of the session | 570 842 | no input is lost, sent twice or out of order, none waits beside an idle kernel, all settle |
| `console_recovery` | 2 sessions, 1 change each, 1 failure or crash, flush queue of 1 | 407 826 | files resolve, flushed is stored, deletions last, changes are stored in the end |
| `data_connections` | 3 connects, 1 edit, 1 removal | 282 884 | no connection is left open, what is listed is current, connects end |

The bounds and why they suffice:

- `MaxTick`, `MaxDepth`: an overtaking needs a held message, a later event and
  the first event taken; an orphaned timer needs two nested runs. Five ticks
  give all of these with one to spare. The environment stops at `MaxTick`, so
  this run (and those below that bound the user's calls) does not check
  deadlock.
- `MaxCalls`, `MaxInbox`: one call after the first makes a restart that fails or a
  start that follows an exit, and calls of a kind do not overlap; one undelivered
  message before each kernel report makes every stale notice that the code
  distinguishes. Failures, lost connections and attempts to connect have no bound.
  The start of a restored session has the awaits of a new one's and the lookup
  before them; so of a new one only the first start and the deletion are followed. The safety properties also hold with two more calls
  of either session (3 443 727 states) and with two undelivered messages
  (1 595 892 states), and the proofs have none of these bounds.
- Two calls and two sessions of one runtime make every pair of overlapping
  calls; two notebooks make a rename. Sessions, calls and notebooks are
  interchangeable and the run has no liveness, so symmetry is sound.
- Two kernel processes and two initializations make one that is overtaken and
  the one that overtakes it. Ids of a type are taken in order. Behaviours with
  an RPC have one kernel process and no clients of ours: an RPC looks at its
  client, the kernel's state and the connection only. The proofs have none of
  these bounds.
- One caller and one watcher, with a stop, make every pair that meets in
  `ensureStarted`. A behaviour ends when two recoveries overlap (section 6.1),
  since nothing holds after that. With two callers, no watcher and three
  starts the safety properties also hold (4 981 586 states).
- Two registrations suffice to overtake a binding and to restore the
  registration that was replaced; three activations suffice for one that is
  obsolete, one that is current and one that follows.
- Two generations make a replacement under way; the revisions are a list in
  dependency order, one that drops what it depends on, and one that lists a
  dependent first.
- Three operations: one active, one queued, one that replaces it, for the view
  or for the editor. Operations are numbered as they are requested, which is
  sound for liveness where TLC's symmetry is not. Of other plots one operation
  is requested; the queue with any three operations of two plots also passes
  (`PlotRenderQueue.cfg`, MCPlotRenderQueue, 517 576 states), and the proofs
  have no bound.
- Three inputs: one with the kernel, one being checked, one queued, or one split
  in two and another. Background or blank input and the loss of the session are
  followed in different behaviours (`MCConsoleInput`); in the same ones all three
  properties also hold (1 136 424 states).
- One failure, crash or failure to read can fall between any two file operations.
  One console with two changes and two failures also passes (23 562 states).
- Three connects: one that is retired, one that is joined, one that follows.
  Two connects with two edits and two removals also pass (1 327 134 states).

## 4. Fairness

Only what the code's own scheduling gives, and of the outside what is named
here.

- `EventQueue`: synchronous code runs to its end and an armed timer fires.
- `SessionLifecycle`: the awaits of a start, a restart and a shutdown that have a
  timer end; nothing is assumed of the user, the supervisor, the kernel or the
  network, nor of the awaits without a limit. These are the creation of the
  kernel, `_ensureServerRunning` (`KallichoreSession.ts:1659`), `attachOnStartup`
  (1680), `buildEnvVarActions` (2257), the stopping of LSP and DAP before a
  restart (`session.ts:1320`; the clean-up beside it has 5 s), the request to
  interrupt (`KallichoreSession.ts:2195`) and the user's answers. `CallsSettle`
  lets a call wait there and nowhere else. An attempt to connect has no limit
  either, but those who wait for it do.
- `SupervisorServer`: the handshake (10 s) and the request to shut down (5 s) have
  timers, a request to a server that has gone fails, and files are written. Axios
  has a timeout only where one is configured (`httpClient.ts:327`), and none is
  for `session.create` (`KallichoreSession.ts:540`) and the requests for a status
  in `reconnect` (`KallichoreAdapterApi.ts:1082`), `testServerExited` (1502) and
  `pollServerStatusUntilReady` (181): nothing is assumed of these while the server
  runs, and `CallersAreAnswered` excuses a behaviour in which from some moment on
  there is always one of them pending (`Silence`).
- `RuntimeClients`: a session that becomes ready initializes its clients, and a
  kernel that runs answers the listing of its comms.
- `PlotRenderQueue`, `PlotClients`: every comm call is answered or times out (30 s,
  5 s for metadata), and the listeners of an event are called. The answers of
  `PlotClients` need strong fairness, since the listeners of one event are steps of
  their own there: a kernel that sends updates for ever does not keep an answer
  from coming between two of them.
- `ConsoleRecovery`: the 5 s interval flushes, pauses end, and storage operations
  do. Crashes and failures are bounded; a console that can never be serialized,
  which keeps those after it from being stored as well, is left out.
- `ConsoleInput`: checks are answered, executions resolve, and a kernel that is busy
  becomes idle: nothing in the code limits the time of any of them, so that a
  console whose kernel never answers waits for ever, as it is meant to.
- `LanguageRegistry`: microtasks run; that activate functions end is assumed of the
  extensions.
- `DataConnections`: drivers and storage answer, which is assumed of them as well.
- `LspBinding` and `SessionStarts` are checked for safety only.

## 5. What is proved

TLAPS checks these for every value of the constants, bounds included.
`PROJECT.json` lists the theorems.

*EventQueueProofs.* `TypeOK`, `SettledOnceInOrder`, `GapsAreWatched`. None is
inductive alone. The invariant adds that an event is held by at most one frame
(`HeldOnce`) or queue entry (`QueueOnce`), that the queue is ahead of the clock
and only an event held from before the first delivery can be behind it
(`Clocks`), that only messages are held (`OnlyMessages`), and that a queue no
loop is working on has its timer (`Watched`). The argument: an event behind the
clock must have been held when the clock passed it, and re-entrance is properly
nested, so what runs inside a frame ends before the frame goes on.

Also `ImplementsPromise`: under the mapping of
`MCEventQueue` the initial states of `EventQueue` are initial states of
`OrderedDelivery`, and by the invariant above each step is one of its steps or
leaves its variables alone. What the queue or the adapter gives up is no longer
open because no other event has its tick; what is delivered late by a nested
emission was the first that was left.

*SupervisorProofs.* Of a session: `TypeOK`, `ExitsAreReal`,
`RemovedStaysDisconnected`. The invariant adds that a start and a restart do not
overlap (`OneCall`), that a session without a kernel has nothing else (`Bare`),
that a restart request the supervisor still holds is awaited or was abandoned
(`RequestKnown`), that nothing under way can run a process while the session is
settled (`Quiet`), and that an exit notice on the connection of the current
process is its own (`OwnNotices`): the connection is replaced before a new
process is reported ready. `RemovedStaysDisconnected` is inductive as it stands:
the removal closes what is open or opening, and an attempt that still awaits its
address looks at the removal before it makes a socket, as one that is opening
does before it is taken into use. `ExitsAreReal` says something only while
`settled`; section 6 shows what happens otherwise.

Of the server: `SupervisorTypeOK`, `ServersAreOwned`, `NoRecoveryAfterStop`, the
last two until two recoveries overlap (`overlapped`, section 6). The invariant
has two parts. What always holds (`BaseInv`) is that a server belongs to a start
that has launched it (`ServersKnown`), that only the lease which is held is
renewed (`OneLease`), and that a record is removed only of a server that has
gone (`ProcsKnown`). Until two recoveries overlap (`SafeInv`) there is also one
start at a time, and none beside a server that is online (`OneStart`,
`StartKnown`); the online server is saved or launched, leased in the second case,
and no other's lease is held (`OnlineKnown`);
and the server that a stop has asked to end is not one that anybody is about to
recover (`StopKnown`, `StoppedKnown`). The argument for the first: a record that
is removed means that no start is under way and that its server has gone, so
that the next start leaves no server behind (`NoneLeft`). For the second: a
process that waits to recover the server when the stop comes to its request finds
that server gone, so that the one the stop asks and records is nobody's to
recover.

*RegistryProofs.* Of the session maps: `TypeOK`, `EntriesAreCurrent`,
`ReservationsAreOwned`. The invariant adds what is known of sessions and calls
(`SessionsKnown`, `CallsKnown`), that a joinable entry belongs to a call that
awaits (`EntriesAwaited`), and that a waiting start has not missed its session's
readiness (`ReadyNotMissed`). For the reservations it adds that a notebook which
has a session and is reserved is so for another session or for a restart
(`HeldByOthers`, `MappedRuns`): a call that observes the notebook's session late
then releases nothing that another call needs.

Of the registry of capabilities: `RegistryTypeOK`, `RegistrationsAreKept`. The
invariant (`Kept`) adds that the states of other than the registered generation
are over, that what the registered one offers is its own, and that an activate
function awaited for it is that of a capability being activated. The argument: a
registration ends all its states before the next one publishes under the same
keys, and a result that comes later finds its generation no longer current. That
the loop of a pass ends with the right capabilities is a recursive definition and
model-checked only; the proof uses that it moves registered capabilities on offer.

*LspBindingProofs.* `TypeOK`, `HeldIsCurrent`, `RestIsClean`. For the first two
the invariant adds that a registration replaced an earlier one (`PreviousKnown`)
and that an object which was given a port knows whose it is (`ServedKnown`).
`RestIsClean` speaks of the moments at which nothing is under way; its invariant
says for every other moment who will do what is still to be done. Generations are
bound in order and each once, and the registered one is bound or has a microtask
or a binding that waits (`QueueInv`). Each server that starts, stops or runs and
each comm that is open has an activation, a binding or a stop that will end or
release it, or is in use, and an LSP is activated by one activation at a time
(`WorkInv`).

*PlotRenderQueueProofs.* `TypeOK`, `OpenIsWorkedOff`, the second of which is
nearly inductive: its five parts hold each other up, and each action is shown to
keep them through what it does to the operations held. Of `PlotClients`:
`TypesOK`, `ShownIsWanted`, and `OpenIsWorkedOff` again, since each of its steps
is a step of the queue or leaves it alone (`StepIsQueues`). The invariant of the
clients says what `ShownIsWanted` says also of those that wait (`ClientsFit`):
they wait for the size that is wanted, and one that is still to be told of an
update has that size, if not that plot.

*RuntimeClientsProofs.* `TypeOK`, `ClientsMatchKernel`, `RpcsEndInTime`. The
invariant adds that no call is of a generation to come (`Generations`), that
comms open in the kernel were born in it and a closed one is not opened again
(`KernelOpen`, `ClosedForGood`), that what a current initialization was told or
has created is of the kernel that runs (`CurrentKnows`) and only one that awaits
a list is told one (`RepliesAwaited`), that comms are made once (`MadeOnce`),
that a client is the known one of its type or was displaced
(`KnownOrDisplaced`), and whose completion timers run (`Graces`). The argument:
each exit moves the generation on, so that whatever returns from before it is
not current, and removes what it has created.

*ServicesProofs.* Of the data connections: `TypeOK`, `ConnectionsAreKept`. The
invariant adds, of the connections, whose each is until it is closed
(`HandleInv`), and, of their parameters, that a connect which goes on is the
pending one, and that the pending one has read the present parameters or is in
`early` (`VersionInv`). The argument: a step takes a connection off the list
only together with its disposal, and an edit takes the pending connect away, so
that what is listed later has been read after it.

Of what is stored of consoles: `RecoveryTypeOK`, `StoredIsTrue`, and the action
property `StorageKeepsUp`. Each needs that an operation in the queue fits the
consoles and the store as they are when it comes to its turn: what it writes is
no older than what is stored and no newer than the console, and is the console if
that has not changed since (`OpFits`). That outlives the operations in between
because the later writes of a console are no older and its deletion comes last
(`InOrder`, `DeletedLast`), which is what the code gets from one chain of
storage operations. The invariant adds that what is recorded as written is
stored, and is the console if that is clean (`StoreFits`), that the operation at
the head knows how far it has come (`HeadFits`), that a flush waits for what is
still to come (`FlushFits`), and that of a console which was deleted, and whose
deletion is no longer queued, nothing is left in memory that is not on disk
(`DeletedFits`). A crash leaves these true because it empties the queue and reads
the manifest back, or takes it for empty, and a file is removed only when the
manifest on disk no longer names it. What could not be read (`unread`) is no
longer recorded as written, so that the next flush writes the console as it is,
and takes back what is stored: `StorageKeepsUp` excuses those consoles, by name
and until then (section 6.11).

*ConsoleInputProofs.* `TypeOK`, `InputsAreKept`. The invariant has three parts.
A call that the user sees is the one that can be cancelled, or has been, and
there is none while the queue is worked on (`CallsFit`): so at most one call may
still send, and it is none that the queue could overtake. An input is where its
life says (`LivesFit`), and what waits is in order, after what the user has sent,
with the input being checked before it (`OrderFits`). And whatever ends lets the
queue go on, so that an idle console with input has something to hear of
(`Served`): a pass under way, a call that will end, an input that the kernel has
and that will be idle again. Where a pass has left input behind that is `stalled`
(section 6.9), and no longer once anything has gone on with the queue.

Assumptions: the bounds are natural numbers (a registration has at least one
handle), the sets of `SessionStarts` are disjoint, the sessions of
`ConsoleRecovery` are finitely many (the final flush puts them in some order),
and `None` and `Nothing` are none of the values they stand beside. Every
invariant and action property that a run checks is stated by a theorem. Only
model-checked: liveness, which is out of the prover's reach, and the values of
recursive definitions; the disagreements of section 6 are counterexamples of TLC.

## 6. Disagreements found

1. *A start that others wait for is never settled* (run `recoveries_overlap`;
   `KallichoreAdapterApi.ts:1564`). Two calls notice one crash; both have passed
   the test for a start under way before their awaits; the second resets the
   barrier of the start that the first has begun. The comment at line 434
   promises that whoever waits is told.

The following contradict a comment, a test, the code's own rule or what a user
would expect of it as well. Each
has a configuration to run by hand (`tlc -config <cfg> <module>`), named in
brackets:

2. A session deleted during its restart is removed while its kernel runs
   [`SessionRemovalAfterRestart.cfg`, MCSessionLifecycle;
   `runtimeSession.ts:1262`]: the old process's exit makes the state `exited` for
   a moment, and the deletion takes it for the end. So is one whose start failed
   on this side only [`SessionRemovalAfterFailedStart.cfg`;
   `KallichoreSession.ts:1432`].
3. A runtime stays reserved after the session whose start timed out has been
   deleted [`StaleReservation.cfg`, MCSessionStarts; `runtimeSession.ts:1679`,
   `2780`]: every new start is refused as already starting.
4. A notebook gets a second session [`NotebookStartedTwice.cfg`,
   MCSessionStarts; `runtimeSession.ts:2920`]: the removal of an exited session
   withdraws the entry of the one that replaced it.
5. A selection is not stored after a deletion that could not be written
   [`SelectionIsStored.cfg`, ConsoleRecovery; `consoleRecoveryFileStore.ts:263`].
6. The factory that was removed is bound [`RemovedFactory.cfg`, LspBinding;
   `session.ts:1608`]: a binding that waits for the LSP it replaces is not told.
7. A profile that was removed is listed again [`RemovedIsUnlisted.cfg`,
   DataConnections; `positronConnectionsService.ts:560`]: by an edit that was
   being stored.
8. The remainder of an input that is split runs after what was queued during its
   check [`RemainderFollows.cfg`, ConsoleInput; `consoleInstance.ts:1103`].
9. Input waits beside an idle kernel until its next idle event
   [`NothingStranded.cfg`, ConsoleInput; `consoleInstance.ts:1870`, `1893`,
   `1907`]: after a pass that ended with a failed check or an incomplete fragment,
   or that found its queue cleared while its head was checked and so leaves what
   was queued since. `InputsAreKept` excuses these three ends of a pass
   (`stalled`) and no other.
10. What a plot shows after an update of its kernel is taken for the plot as it
   is although it is not [`CacheIsInvalidated.cfg`, MCPlotClients;
   `PlotClientInstance.ts:499`], against the comment at line 611: an update
   marks nothing, it asks for a render, and where that is cancelled, fails or
   is superseded by that of the other client the cache still matches. An editor
   opened later begins with the image of the comm's opening (line 225), however
   old.
11. What is stored of a console is lost when it cannot be read once
   [`UnreadIsKept.cfg`, ConsoleRecovery; `consoleRecoveryFileStore.ts:105`, `150`,
   `consoleStateStore.ts:145`]: a manifest that cannot be read is taken for empty,
   a checkpoint or a state that cannot be is skipped, and the flush that follows
   (`bind` makes every console dirty, line 190) writes the empty console over it.

Seen while modelling and not stated as properties, since nothing in the
repository says otherwise: a restart skipped without a word while another
session of the runtime starts (`runtimeSession.ts:2303`), an interrupt that
marks an exited session as interrupting (`KallichoreSession.ts:2205`), an
activation request lost while the LSP stops (`session.ts:1705`), checkpoint
files left over by a crash (`consoleRecoveryFileStore.ts:227`), unhandled
rejections of `void` calls (`consoleService.ts:316`), RPC timers that outlive
their RPC (`RuntimeClientInstance.ts:204`), a foreground session that has been
removed (`runtimeSession.ts:2697`), a start that goes on after its session's
disposal (`KallichoreSession.ts:1610`, `session.ts:849`), a connection made with
the secrets of an edit before its profile, or with some of them, and one kept
because storing the edit failed (`positronConnectionsService.ts:447`), requests
without a timeout (section 4), a reconnection to a server without a lease, which
is only logged (`KallichoreAdapterApi.ts:1109`), a capability that stays
registered for ever (one it depends on is listed after it and degrades in the
same pass, or they depend on each other, or only a superseded registration
offered it: `languageCapabilityRegistry.ts:420`), and a queued input that is
dropped because its session is attached over itself during its check
(`consoleInstance.ts:1893`).

## 7. What is not modelled, and why

Inside the modelled components: execution, comms and profiling of a
`KallichoreSession`, its transfer to another window, the force-quit watchdog
(its effect is that of an exit) and the late readiness of a reconnected busy
kernel; the notebook shutdown path below its map; external adoption of kernels;
the choice of the foreground session; working directories; the DAP; the
intrinsic size cache of plot comms; the list of plots, its selection and
storage, static and HTML plots, sizing policies and the freezing of slow plots;
the Memento fallback of console recovery, migration of older formats and of
journals, checksums (an invalid checkpoint is one that cannot be read) and
truncation; the typed comms above a client; the restoring of
sessions and the settings of a supervisor's server, and several windows that
share one; the catalog of passive language assets; connections that belong to
sessions; the transcript, prompts, history and scrollback of a console.

Whole components not modelled: the output router, the LSP tunnel,
runtime discovery and startup, the shutdown of the application, and the data
explorer have state worth modelling (section 8). The DuckDB backend (SQL text),
HTTP proxies and web views (I/O and layout), memory polling, generated API
code, the binary manager and logging are input, output and projection.

## 8. What is left

In the order of what a user would lose:

1. The foreground session and the adoption of kernels in `SessionStarts`; the
   creation of kernels in steps, in `SessionLifecycle`.
2. The LSP tunnel composed with `LspBinding`, the output router, startup,
   shutdown, the data explorer's client.
3. The composition of `EventQueue` and `SessionLifecycle`: state changes that
   reach the service late.
