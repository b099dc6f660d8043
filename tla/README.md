# A TLA+ verification of ja's desktop runtime

ja is a desktop coding agent: a Tauri (Rust) shell with a React user interface
and a Java agent that runs as a child process ("sidecar") and speaks JSON-RPC
over stdin and stdout. This directory holds TLA+ models of the Rust side: the
part that starts, talks to, stops and cleans up after the sidecar, the desktop
services beside it, and the clean-up of the macOS sandbox spike; with TLC
configurations and TLAPS proofs. Paths below are relative to the repository.

## 1. Inventory

### Components, state and operations

| Component | Source | State it keeps | Operations |
|---|---|---|---|
| Request registry | `src-tauri/src/agent_process/{session,pending}.rs` | id ledger, active waiters, tombstones, admission gate, closed flag | `request*`, `resolve`, `expire`, `cancel`, `close` |
| Supervisor, lifecycle | `agent_process/{supervisor,lifecycle,process}.rs` | lifecycle machine, owned process, session, event pump, terminal signals, stopping flag | `start`, `restart`, `request`, `schedule_restart`, `shutdown`, `Drop`, terminal callback, exit monitor |
| Outbound writer | `agent_process/wire.rs` | two bounded lanes, byte counters, wake sequence | `send`, `close`, `writer_loop`, write watchdog |
| Inbound events | `agent_process/{events,wire,session}.rs` | three queues, byte counters, fatal and overflow flags, ledger of server requests | `push`, `pop`, `pop_server_request`, `close`, `respond` |
| Session handle | `agent_process/session.rs` | clones, the writer's `JoinHandle`, its completion flag | `clone`, `close_until`, `drop`, `mark_done` |
| Handshake, codec | `agent_process/{handshake,session,codec*}.rs` | initialized barrier, ready gate, one ready claim | initialize, initialized, ready, promotion |
| Process tree | `agent_process/{process_tree,process,config}.rs` | group or job, the claim to end it | spawn, assign, terminate, reap |
| Runtime bridge, life | `app_runtime/bridge.rs` | runtime and pending clean-up, generation, terminal slot, clean-up debt, detached marker, exit attempts, quarantine | start, stop, `shutdown*`, `exit_ready`, `Drop` |
| Runtime bridge, work | `app_runtime/bridge.rs` | pending and retired approvals, internal lane, replay | event drain worker, nested requests, approval decisions, secrets |
| Runtime host, shell | `app_runtime/{host,config}.rs`, `lib.rs` | the current bridge, the workspace binding, the recovery record | `configure`, command forwarding, exit, launch, acknowledgement |
| Projections | `app_runtime/{history,projection,settings_query}.rs` | none | payload to view object |
| Terminal | `terminal/` | PTY session, event and input queues, four workers | open, write, resize, poll, close |
| Workspace | `workspace_read/` | registered root, listing cursor, change baseline | file read, paged listing, search, poll, rescan |
| Git | `git_read/` | none between calls | `git` with limits and a deadline |
| Settings, credentials | `settings/` | primary and backup document, keyring | load, compare and save, set and delete credential |
| Preview | `preview/` | registry of windows and their events | open, navigate, drain, close |
| Marker clean-up | `spikes/sandbox/macos/src/marker_cleanup/`, `bin/probe_diagnostics/` | marker files, tombstones, backups, aliases | write, scan, retire, kill a captured group |
| Java agent | `agent/src/main/java` | turns, approvals, event sequence, SQLite, MCP clients | the sidecar's side of the protocol |
| User interface | `src/` | timeline, connection and view stores | reducers over ordered events |

`PROJECT.json` lists each with its status and, where it is not modelled, the reason.

### How they interact

The user interface calls Tauri commands; the host forwards them to the bridge's
actor over bounded channels. The actor owns one `SidecarSupervisor`. The
supervisor owns the child process and a `Session`. The session runs four
threads: a stdout reader, a stdin writer, a stderr reader and an exit monitor.
A request registers in the pending registry, queues a frame with the writer and
waits on a one-shot channel that the reader fills. Everything else the reader
sees goes into the event queue, which a drain worker of the bridge empties: it
publishes events and hands approval requests to the actor, which it waits for.
All threads end a session through one idempotent operation, `fail_closed`, which
raises a flag, closes the writer and the registry, closes the event queue and
calls back the supervisor, whose signals are applied at the supervisor's next
call. Exit is driven from outside the actor: a caller numbers an exit attempt,
invokes a hook that closes the session an in-flight handshake waits on, sends a
request over a lane of capacity one and waits for an answer or the actor's end.
An exit that cannot be confirmed leaves a recovery record, and the next launch
creates no bridge until the user acknowledges it. Terminals, previews, reads of
the workspace and settings do not pass through the bridge; settings meet it where a
configuration freezes the references of the credentials the sidecar may ask for.

### What is hard

* Interleaving: `fail_closed` may start in any of six threads, between any two
  locks of a request, a push, a write or another close; three threads may end one
  process tree; five threads end one terminal.
* Check then act: flags read before a lock and used after it (`send`,
  `push_event`, `attach_session`, `Drop for Session`, `EventDrain::finish`); a
  process identity looked at before a signal; a file looked at before a read.
* Failing clean-up: killing the tree, joining the writer and ending the drain
  worker may each fail; the owner must then be kept and retried, also after the
  actor that owned it has ended.
* Crashes: the settings, the recovery record and the marker files are replaced in
  several file operations, any of which may be the last one.
* Time: every wait has a deadline, and the answer may arrive just after it.
* Staleness: signals, workers, approvals and clean-up debts of earlier
  generations, cursors of earlier listings, numbers of earlier processes.
* Bounds: ids, in-flight requests, tombstones, lanes, byte budgets, bursts.

The `hazards` of `PROJECT.json` give the source line of each and the properties
aimed at it. Two have no property and say why: what the code does there is in the
model, and it is less than a comment promises. Section 5 lists these and every other
place where the code does less than one would wish and the properties are stated
accordingly.

### What makes each component correct

Requests: one outcome each, none lost when the session closes, no capacity
leaked, no admission after shutdown began. Supervisor: at most one live sidecar
process, `Exited` only when it is reaped and nothing is owned, descendants left behind
only where somebody has undertaken to end them, a crash loop that ends. Writer: no
frame sits behind a sleeping actor, budgets are exact, data is not starved, a
close ends the actor. Events: exact accounting, no silent drop, one answer per
server request, a completed turn delivered once. Session handle: the writer stays
joinable and closing is bounded. Handshake: ready only over an open session that
earned it, and an end whatever the sidecar does. Process tree: a survivor is
reported. Bridge: permission to exit means no owner is left; an unconfirmed owner
stays reachable; the actor ends; an approval is answered once and settled. Host:
no bridge is let go of that nobody else could clean up; a forced exit that reached
the disk gates the next launch. Services: a terminal ends completely and announces its
end last, an answer describes one state of the workspace, a saved document survives a
crash, a secret goes to its owner, events are accounted for. Clean-up: a report of success
is true, and only captured processes are signalled.

## 2. Modules

| Module | Role |
|---|---|
| `PendingRequests` | requests, registry, reader, close |
| `Lifecycle` | `LifecycleMachine` as operators on a record |
| `Supervisor` | `SidecarSupervisor` over `Lifecycle` (EXTENDS) |
| `SingleOwner` | the abstract promise `Supervisor` implements |
| `WriterQueue` | `WriterHandle::send` and the writer actor |
| `EventQueue` | the event queue, its producers and consumers |
| `SessionHandle` | clones, close, drop and the writer join |
| `Handshake` | one start: initialize, initialized, ready, promotion, and the codec's refusals |
| `ProcessTree` | spawn of the sidecar and the three threads that end its tree |
| `Bridge` | the actor's life, drain workers and shutdown callers |
| `Commands` | the actor's work: approvals, nested requests, replay, lanes |
| `Secrets` | keyring, settings references, the frozen snapshot, `secret/get` |
| `Desktop` | runtime host, exit, recovery record, launch |
| `Settings` | the store's documents and their replacement |
| `Terminal` | one terminal session and its threads |
| `Preview` | preview windows and their events |
| `WorkspaceRead`, `TextSearch`, `ChangeDetector` | the three readers of a workspace |
| `GitRead` | one Git call |
| `Markers`, `GroupKill` | the marker files, and the end of a captured group |
| `*Proofs` | theorems; section 4 says which module proves about which |
| `MC*` | instances for TLC |

Each module takes from its neighbours only what they can do to it: in
`Supervisor` a session is a generation that closes and signals; in `Bridge` a
supervisor's shutdown releases its owner with the leader reaped, or fails; in
`Desktop` a bridge is what its host can see of it; in `Commands` a stop succeeds.
These are assumptions of the modules that make them and no refinement connects them.
The second rests on `Supervisor`'s clean-up, which lets go of an owner only after the
leader was reaped (`Cleaned`), and knows the exceptions that `Supervisor` shows:
descendants may outlive the owner (`StragglersAreClaimed`), and the child of a spawn
that failed halfway has no owner at all (`SpawnFails`; `torn` in `Bridge`). The third is
what `ExitIsAccounted` says of a sidecar that has an owner; a sidecar without one is
outside `Desktop`.

### Correspondence with the code

A lock region, an atomic access, a channel operation or a system call is one
step. A state variable carries the source's name; where it does not, the comment
at its declaration names the field. `PROJECT.json` maps each definition to its lines.

`PendingRequests`. `pc[c]` is the position of a call in `request_inner`:
*admitted*, *allocate*, *register*, *send* (the closed test of
`WriterHandle::send`), *enqueue*, *wait*, and the failure positions. The
admission mutex is `gate`: a gated call holds it from admission until its frame
is queued. `closePhase = "closing"` is the stretch of `fail_closed_with_reason`
between the swap of the flag and `pending.close`. An entry's deadline is the fact
`id \in due`. The channel of an id keeps its first outcome. The writer's
refusals are a choice at *enqueue*; their exact condition is `WriterQueue`'s
subject. The sidecar may answer any queued id, repeat itself, or answer an id
nobody used.

`Lifecycle` and `Supervisor`. The supervisor's methods take `&mut self`, so
`op` names the one call in progress, and a call is cut where it blocks (start:
clean-up, spawn, initialize, ready). `sync_terminal_signals` (`Synced`) is part
of every action whose code calls it. `Cleanup(try)` has the join, the signal to the
group and the reap of the leader each succeed or fail, retaining the owners on failure as
the code does. `guard` is the tree guard: whoever swaps its `alive` flag signals, and
everyone after him is told Ok. The clean-up and the close callback swap and signal in
one step, since both run under the session's gate; the exit monitor does not, so its
swap (`MonitorClaims`) and its signals (`MonitorSignals`) are two steps, and a clean-up
between them lets the owner go. Reports of a generation reach the machine through
`closing` (the callback has not yet run) and `signals`. `alive` (leaders) and
`offspring` (their descendants) are the truth, which the code cannot see.

`WriterQueue`. Each sender is one call of `send`: test, reserve, second test,
push, notify. `next_frame` is three `try_recv` steps since a frame may arrive
between them. Parking compares the wake sequence under its lock. A write
succeeds, fails, or hangs until the watchdog closes the session.

`EventQueue`. Every producer runs `push_event` as entry test, push under the
lock, fatal test, `fail_closed`. Two consumers pop: the pump and a nested
handler. Events are their kind, with an id for server requests. The control
reserve is one byte budget shared by two queues, as in the code.

`SessionHandle`. A member of `Holders` owns at most one clone. `Drop` decides
by the strong count it reads, and the count falls when `drop` returns. The
writer thread keeps only the inner state and never a clone.

`Handshake`. `starter`, `pen`, `dog`, `ears` and the monitor are the threads;
`barrier` is the initialized barrier and `gate` the promotion gate. A frame is a
record of what the codec and the handshake look at, one deviation at a time; the
sidecar may write any of them at any time.

`ProcessTree`. `top` is the sidecar, `kin` its descendants, `ender[t]` the
position of each thread that ends them, `treeGuard` the guard's fields on the
platform chosen initially.

`Bridge`. A sidecar is known by the serial number of its spawn, and `gen` gives
the number the ledgers use: every fresh supervisor calls its first generation 1
until `start_runtime` publishes the actor's own number. `Guarded` are the spawns
whose leader a supervisor answers for: all but those that failed halfway (`torn`) and
those whose shutdown succeeded (`released`). A deadline is the fact
that it passed (`expired`). `stop_runtime` is cut into its refusal when late, the
pending owner, the supervisor half, the worker half and the ledger update, each
of which may fail. `shutdown_with_retry_until` is followed from the decision to
retry through attempt, hook, lane, reply, quarantine, promotion and verdict.

`Commands`. The sidecar announces an approval and then sends its private request;
`pump` holds both queues as the worker sees them, `lane` the internal channel,
`ack` the worker's one-shot channel, `pending` and `retired` the actor's ledger,
`replies[n]` what the sidecar was answered. The actor is idle, in a request during
which it serves nested handlers, replaying a configuration, or stopping.

`Secrets`. An account of the keyring is a purpose and a reference;
`draft` is the settings document, a member of `Documents`: a profile's reference, the
servers in order, each with its revision and one of the two ways to refer to a
credential, and what the active profile selects. Two servers may share a revision, as
`validate` allows. `frozen` is the snapshot that a configuration takes, `told` what the
replay told the sidecar, `handed` the last answer.

`Desktop`. `slot` is the host's bridge and `bridges` what is true of each;
`command` is the position of the one call on the main thread; `disk` holds the
recovery marker, the acknowledgement and what an interrupted write of either
leaves; `owed` is the truth about forced exits that have reached the disk and whose
process is unaccounted for. The decision, the temporary file and the rename are three
steps (`ExitUnready`, `ExitWrites`, `ExitRecorded`), with an error or a kill between them.

`Settings`. A transaction is a list of file replacements, each taken apart as
`atomic.rs` does it on each platform. A document is its revision and the shapes of
its fields that one of the two filters looks at.

`Terminal`. Failing, exiting and closing are lists of steps a thread has left to
do (`todo`); `request_stop` is one step, and so is the push of an exit with the close
that follows it; the drop of the master is a step of its own. `kids` are the
descendants by process group: the shell's own, or one of their own as an interactive
shell gives its background jobs, which a Unix `terminate` does not reach. Reader and
writer hold descriptors of their own, so on Unix they return when nobody holds the
slave side, whatever becomes of the master; a write may block. The grace after a shell's
exit is the step `TimePasses`.

`WorkspaceRead`. An entry is an identity, a version and the metadata that a stat
shows; the editor may rewrite, replace and remove between any two calls. A
revision's digest names a content. `TextSearch` walks every tree of at most two
directories and two files. `ChangeDetector` scans path by path while files change
and cuts its batches at the limit.

`GitRead`. The leader, one helper that inherits its pipes, two pumps and the
supervising thread; `repo` is the class of the repository on disk, with whether the
workspace lies inside another one, and `saw` what Git read. `Discovers` is Git's own
search for a repository, which goes upwards.

`Preview`. `preview[i]` is the registry's record and `window[i]` the web view,
which exists before its callbacks are installed.

`Markers`. A transaction is a sequence of file operations; each may fail before its
effect or after it, a write also halfway. Spawn, kill and reap are not file operations:
they do their work or fail. `dir` is the directory as the kernel shows it and `markerDisk`
the set of directories a stop of the machine may leave. One marker stands for the
primary, fallback and emergency files, which are handled alike.

`GroupKill`. `pidSlot[p]` says who holds a number: the captured process, its
zombie, nobody or a stranger; `recent` are the numbers reused since the killer
last looked.

## 3. Runs

| Run | Instance | Shows |
|---|---|---|
| `pending_requests` | 2 gated calls and the shutdown call, 2 in flight, 2 ids, 1 tombstone | no stranded waiter, leaked entry, second outcome or late admission |
| `pending_liveness` | 1 gated call and the shutdown call | a close wakes every waiting call |
| `writer_queue` | 2 control, 2 data frames, capacity 1, burst 1 | no lost wake-up, exact budgets, bounded overtaking; frames drain; a close ends the actor |
| `event_queue` | 3 ids, a ledger of 2, control 2, data 1, 3 control bytes, 4 pushes | exact counters, nothing silent, one answer, one delivery |
| `commands` | 2 requests about one approval by two turns, lane, map and tombstones of 1, 2 generations | one answer, nothing forgotten, nothing stale, every request settled |
| `bridge_exit` | 2 shutdown threads and Drop, 1 spawn, 3 attempts | success and `exit_ready` mean that no owned sidecar and no worker is left; debts stay payable and their owners reachable |
| `bridge_restart` | 1 shutdown thread and Drop, 2 spawns, 1 attempt | one sidecar; no worker's end is missed; a dead runtime is taken down; the actor ends |
| `sidecar_parts` | the nine parts below | see below |
| `desktop_services` | the six parts below | see below |

Three further runs end in a counterexample; see section 5.

Several small modules share no state and differ in what they ask, not in how
they are run. `MCSidecar` and `MCServices` are their disjoint sums: a variable
`part`, chosen initially, names the module that takes steps, and the others stand
in an initial state. Each behaviour of the sum is a behaviour of one module, so an
invariant of the sum is the conjunction of the parts' invariants.

| Part of `sidecar_parts` | Instance | Property |
|---|---|---|
| supervisor | 3 generations, 1 crash allowed, clock to 2 | `OwnershipIsSafe`, `CrashLoopEnds`, `ImplementsSingleOwner` |
| handle | 3 holders | `HandleIsKept`, `CloseReturns` |
| handshake | 2 frames of any shape | `ReadyIsGenuine`, `HandshakeEnds` |
| tree | 3 platforms, 2 failing calls, 2 clean-ups | `SurvivorIsReported` |
| secrets | two references shared by models and servers, two profiles, two servers with one revision or two | `SecretsGoToTheirOwners` |
| changes | 2 paths, batches of 1, 3 edits, 1 bad scan | `ClientCatchesUp` |
| git | 2 platforms, any first repository, output beyond the limit of 1, 1 change of the repository; see `Terse` | `GitAnswerIsSound` |
| reader | 2 entries, pages of 1, 2 edits | `AnswersAreSnapshots` |
| search | all small trees, depth 1, 2 entries, 2 results | `SearchIsHonest` |

| Part of `desktop_services` | Instance | Property |
|---|---|---|
| terminal | 1 chunk, event queue of 1, 1 input or resize, 2 closers, 1 fault; see `Calm` | `SessionIsSound`, `SessionEnds` |
| markers | 4 faults, kills or machine stops | `CleanupIsHonest` |
| groupkill | target, one named and one unnamed member | `GroupEndIsSafe` |
| preview | 2 windows for 1 place, queue of 2 | `PreviewAccounts` |
| desktop | 2 workspaces, 2 bridges, 2 forced exits, 3 launches | `HostOwnsItsBridge`, `ForcedExitGatesLaunch` |
| settings | 2 windows, 3 revisions, 1 damage, 2 faults | `SavedSurvives` |

A property whose name speaks of agreement or soundness (`RegistryAgrees`,
`OwnershipIsSafe`, `QueuesAgree`, ...) is a conjunction of named parts, each with
a comment of its own, and includes its module's type invariant where there is one.

### Why the bounds are enough to be interesting

Two gated calls and the shutdown call make every pair of a request with a
request and of a request with a shutdown happen, with more calls than ids, so
the ledger runs out. One tombstone lets a classification be forgotten. Three
generations with one allowed crash reach `Faulted`, and a clock of 2 with a
stable window of 1 lets a crash count be reset and grow again; two of them are enough
for a monitor of one generation to signal when the next one runs. In the writer one
control frame has size 2 of a budget of 3, so capacity and byte budget refuse at
different moments. In the event queue a request is twice as large as other
events for the same reason. Two spawns let a debt or a worker of the first meet
the start of the second, and three attempts let two callers retry a failed one.
Two requests about one approval meet each other's entry and tombstone, and with
room for one the map, the lane and the tombstones are all full at times; two
generations let a late request meet the next sidecar. Four marker faults are enough
for a failed removal, a failed restoration of it and a crash in the pass that
follows. Three launches are a forced exit, an interrupted acknowledgement and a
relaunch; two settings faults are a failed save and a crash in the next one. Two paths with
batches of one are always cut. Two windows for one place make an opening meet a
place that is not yet given back. Two references and two profiles let each purpose
meet the other's reference and a snapshot an edited document. A terminal with
two closers, input, output, faults and background jobs all at once is beyond the time of a
run, so `Calm` keeps some of them apart: the second closer comes to sessions without input
and faults, input to those with one kind of descendants, and input and faults meet in
sessions without output and background jobs. `Terse` does the same for Git: a repository
that changes is, before or after, the plain one or one that encloses the workspace, and
only calls on the plain one reach the limit of their output. The proofs of
`SessionIsSound` and `GitAnswerIsSound` have no such restriction.

`MaxAnswers`, `MaxTime`, `MaxGeneration`, `MaxPushes`, `MaxSpawns`,
`MaxRequests`, `MaxGen`, `MaxHsFrames`, `MaxTreeFaults`, `MaxCleanups`,
`MaxPathEdits`, `MaxBadScans`, `MaxGitBytes`, `MaxSwaps`, `MaxFileEdits`,
`MaxOutput`, `MaxCalls`, `MaxTermFaults`, `MaxFaults`, `MaxNavigations`,
`MaxTitled`, `MaxBridges`, `MaxForced`, `MaxLaunches`, `MaxRevision`,
`MaxDamage`, `MaxSettingsFaults`, the bridge's `MaxAttempts` and the set `Documents` are
bounds of the models; the other constants are limits of the code at small values. The symmetric
threads are interchangeable and only safety is checked under symmetry. Deadlock is
not checked: a session that is closed, a dropped supervisor, an ended actor and a
closed terminal rightly stop.

### Fairness

* `PendingRequests`: an admitted call keeps running and a begun close is
  finished: both are threads without unbounded waits. Nothing is assumed of the
  sidecar, and no deadline is assumed to pass.
* `WriterQueue`: threads run, the watchdog's timer fires, and a hung write fails
  once the close has killed the child. The condition variable has no spurious
  wake-up to rely on.
* `SessionHandle`: a thread inside close or drop runs on and its deadline
  passes; the writer may hang for ever.
* `Handshake`: threads run and their deadlines pass; the sidecar owes nothing.
* `Bridge`: actor, workers and callers run, and attempt deadlines pass. Every
  wait in those threads has a timeout. A stop may fail every time.
* `Commands`: worker and actor run and every `expiresAt` passes; the user need
  never decide.
* `Terminal`: the session's threads run and the grace passes; the user, the shell,
  its descendants and the faults owe nothing, and a write that blocks returns only when
  the terminal has come to its end.
* `ChangeDetector`: the client keeps polling; edits and failing scans, of which
  there are finitely many, owe nothing.

## 4. Proofs

TLAPS proves the results below for every value of the constants that satisfies the
named assumptions of the modules: any number of calls, clones, callers, spawns,
windows or entries, and any limit. The assumptions say that limits and bounds are
natural numbers (positive where the code's are), that the restart policy is what
`RestartPolicy::validate` accepts, that a sentinel is not a member of the set it is
told apart from (`NoCall`, the places of a join handle, the unset workspace), that
some profile exists to be active, that every event has a size of at least one byte and
every frame a size, that each approval request has an id, and that the bridge's callers
are finitely many and one of them is `Drop`. Each argument is an inductive invariant in the proof module,
stated part by part with a comment; TLC checked each on the instance of its run before
it was proved. Every theorem about a property has the same shape: the invariant holds
initially, every action keeps it, and it implies the property.

| Proof module | Proves about | Theorems that state a checked property |
|---|---|---|
| `PendingRequestsProofs` | `PendingRequests` | `CloseStrandsNobody`, `ShutdownShutsTheGate`, `RegistryIsConsistent` |
| `SupervisorProofs` | `Supervisor`, `Lifecycle`, `SingleOwner` | `OwnershipStaysSafe`, `CrashesAreBounded`, `SupervisorImplementsSingleOwner` |
| `WriterQueueProofs` | `WriterQueue` | `NoSleepOverWork`, `DataIsNotStarved`, `LanesAlwaysAgree` |
| `EventQueueProofs` | `EventQueue`, `Commands` | `AnswersAreUnique`, `QueuesAlwaysAgree`, `NothingIsLostSilently`, `ApprovalsNeverDisagree` |
| `SessionProofs` | `SessionHandle`, `Handshake`, `ProcessTree`, `Secrets` | `HandleStaysKept`, `ReadyStaysGenuine`, `SurvivorsAreReported`, `SecretsStayWithOwners` |
| `BridgeProofs` | `Bridge` | `ExitsAreAccounted`, `OwnersAreRecoverable`, `RuntimeStaysTracked` |
| `ServicesProofs` | `Desktop`, `GroupKill`, `Preview`, `Settings`, `Terminal`, `Markers` | `HostKeepsItsBridge`, `ForcedExitStaysGated`, `GroupEndStaysSafe`, `PreviewsAccount`, `SavesSurvive`, `TerminalStaysSound`, `CleanupStaysHonest` |
| `WorkspaceProofs` | `GitRead`, `WorkspaceRead`, `TextSearch` | `GitAnswersAreSound`, `AnswersStaySnapshots`, `SearchesAreHonest` |

### The arguments

Requests. `NoStrandedWaiter` is not inductive: a call between registering and
queueing is not yet a waiter. `WaiterServed` adds that a call from *send* on has its
entry active or its channel written, and that once the registry was drained a call
past the closed test has been told, because it registered before the flag rose.
Lemma `FinishServes` carries the argument that whoever removes an entry writes its
channel. `RegistryAgrees` needs more: ids are handed out once, the registry knows
nothing of an id before it is registered, an entry leaves exactly when its channel is
written, and a tombstone records what was written. `NoAdmissionAfterStop` follows
from `GateInv`: a gated call on its way to the queue holds the gate, and the stopping
flag is raised under it.

Supervisor. `IInv`: process and session move together and belong to the latest
generation, a live leader is owned or the machine is final, descendants of an owned
generation whose guard is spent are the monitor's, `Starting` is exactly a
handshake in progress, and a running machine has counted fewer crashes than
generations. From it follow one live leader (`NeverTwoSidecars`), descendants that
somebody answers for (`StragglersStayClaimed`), an honest `Exited` (`ExitedIsHonest`), backed requests and closed stale sessions
(`RequestsReachCurrent`), these together as the run checks them, the crash budget,
`FinalStatesAreFinal`, and the refinement: each step is a `Launch`, a `Settle` or a
stutter of `SingleOwner`, whose live sidecars are the leaders that run and the trees that are owned, and
whose leftovers are the descendants of the other generations.

Writer. `WInv` says that from the moment the actor found a lane empty, a frame in it
means that the wake sequence has moved or its sender still owes a notification, and
that a used-up burst reaches the control lane only when no data waits. `LanesAgree`
needs `ChargeInv`: a frame is charged in exactly one place, with its sender before the
push, in its lane once, or in the actor's hand before the release; without it a frame
could be counted once and given back twice. The counter is then the sum over a finite
set of frames to which a step adds one or from which it takes one.

Events. An id that is active, or not yet seen, has no answer; so the ledger's
removal is the one chance to answer. `CountInv` adds the counters: each byte counter is
the sum of its queue, so the saturating subtraction never saturates, and the completed
turns that were queued are those that were delivered or are still in the control lane,
because a close retains them. `NothingIsLostSilently` needs both parts; `OpenSessionLosesNothing`
states what already follows from the first.

Sums. The library's induction theorems cannot be instantiated here, so the facts on
sums (`Bytes`, `Retained`, and the library's `MapThenSumSet` on finite sets) are proved
by a least counterexample: a set of naturals that is not empty has a least element
(`LeastNatural`, from the well-foundedness of the order), and the least length, or the
least cardinality, at which the claim fails contradicts the one before it. `EventQueue`
writes both of its folds as recursive functions over positions for this reason.

Commands. `ApprovalsAgree` holds because an unanswered request is in one place: in the
pump's queue, in the worker's hand, signalled in the actor's lane, or in the map of
pending approvals under its own id, and it moves only forward. `CommandsInv` says this
place by place (`QueueHolds`, `HandHolds`, `LaneHolds`, `MapHolds`), that none is in
no place while its generation runs (`NoneForgotten`), and how the worker's life, the
current generation and the actor's state go together (`LifeAgrees`): a signal of an
earlier generation is refused and changes neither map nor answers.

Session. The handle: a thread that waits for the writer is the one that took the
handle, and it owns a clone. Ready: the promotion holds the gate from its first
check to its mark, no fault closes the session under the gate, and a confirmed
barrier is final, since the writer puts the watchdog away before it confirms. The
tree: the claim to end it is won once, the winner's signal worked or the guard has
failed, and a failed guard has told one thread and tells everyone who asks again.
Secrets: an account holds its own secret or none, and what was told is a reading of
the frozen snapshot, server by server; the first server of a revision is the one that
both readings find.

Bridge. One owner at most exists that has not confirmed its leader reaped, in one place: the actor's starting, pending or
running slot until the actor leaves, the quarantine or the hand of one retrying
caller after that. A guarded sidecar or a worker that runs belongs to it; a debt names it; once
the actor has left, an owner means a debt. An attempt counter bounds what retries add,
for which the callers must be finitely many.

Host. A bridge in the slot excludes recovery files; what is owed is the last
identity, unconfirmed, with its record or the remains of its write on disk from the
moment it is owed; an acknowledgement begins only when nothing is owed to a process that may live.

Group kill. A stranger under a number about to be signalled took it after the last
look; a success is returned only on an answer of the kernel that leaves no member
alive. Preview: what is drained, queued and dropped counts up to the
next sequence number, which only `push_event` moves. Settings: while the backup is
replaced the primary is unchanged and readable, while the primary is replaced the
backup covers it; `SavesSurvive` assumes that no key has the dashed spelling, which
saving admits and loading refuses: with it the statement is false, and the run
`settings_reread` shows how. The run of `SavedSurvives` makes the same choice.

Terminal. A session stops only when its end is marked or the shell's exit known; a
terminal event is last, and the queue remembers it; an exit is announced only by a
thread that knows the reader has finished, which on Unix it does only when nobody can
write any more and the tail is taken, and elsewhere also when the grace is over; the
handles are joined only when every worker has ended, and a session without its job has no
process that `terminate` could reach.

Clean-up. `MarkersInv` reads the plan of file operations ahead. `LeavesNothing`: while a
pass has met no trouble, the plan is bound to fail or clears every name that is present
and not listed and every name it brings itself, later than it brings it. `ImageStays`:
at each place whose failure would only be reported, some whole image is there and
outlives the operation; where a handler will look for a last copy, it is whole or gone.
`HelperNamed`: the marker is dropped only behind a kill or a reap, and a helper is
started only behind the marker. A transaction that goes into one of its parts replaces
its first operation by others, and a completed operation replaces it by none; both are
`Splice`, so each of these facts needs one lemma on splicing, and each part of a
transaction one lemma on what it clears, brings, takes and makes (`ClosePart`,
`BackupPart`, ...). Handlers and fresh transactions replace the whole plan. The number
of failures is bounded only by `MaxFaults`, which may be any natural number.

Git. A pump that has ended found nobody holding its pipe, so it has read what was
written; with one change of the repository at most, Git saw the first one or the
present one, and the second look rejects what is not admissible; what is admissible and
is Git's own discovery inside the workspace passed every check. Files: what a read
knows of the file's identity and revision at each stage bounds where the edit fell.
Listings: the order of names is a ranking of a finite set, so a page continues where
the last one stopped as long as the token agrees. Search: the hits are exactly what
the files passed so far owe, and what is still owed is in the queue or the rest of
the directory.

### Only model-checked

All liveness (`CloseWakesCallers`, `FramesDrain`, `CloseEndsWriter`, `CloseReturns`,
`HandshakeEnds`, `RequestIsSettled`, `ActorEnds`, `DeadRuntimeIsStopped`, `SessionEnds`,
`ClientCatchesUp`): fairness and `ENABLED` are outside the prover. Every other property
of a passing run is stated by a theorem.

Where a choice was written as a `CASE` with overlapping guards, which TLC reads from
the top and a proof may read in any order, the models use `IF` in the order in which
the code tests.

## 5. Where code and comments disagree

Each is a run whose single property is what a comment says and which TLC refutes
on the model of the code.

| Run | Observation |
|---|---|
| `session_close` | a close that finds the `JoinHandle` with another thread reports success while the writer runs |
| `bridge_detached` | a stop that gives up between the worker's two last steps leaves a marker nobody clears; exit is then refused for good |
| `settings_reread` | saving and loading test a key with two filters, so a key spelled with a dash is saved and then refused by every load |

The first two leave the safety properties of the passing runs intact: the first costs
time or a detached thread, the second a forced exit. The third would break
`SavedSurvives`, which is therefore checked and proved for documents without such a key
(section 4): with one, a settings file has to be mended by hand.

### Gaps the properties are stated around

The models hold these windows, and the properties named say no more than what is left
of them.

* A clean-up that finds the tree's `alive` flag already swapped is told Ok
  (`process_tree.rs:240`), although the exit monitor that swapped it may not have signalled
  yet or may be refused. The owner is let go and the next generation starts beside
  descendants of the last one. The leader itself is reaped through its own handle, so
  `OneLiveLeader` holds; of the descendants only `StragglersAreClaimed` does, and
  `SingleOwner` lets them be.
* A spawn that fails after its child exists ends the child and drops or returns the error
  of that (`process.rs:161`, `process.rs:222`); either way nobody owns the child. A
  later shutdown finds nothing owned and answers Ok (`supervisor.rs:530`),
  `retain_failed_supervisor` clears the fault, and the bridge may report a clean exit or
  start another sidecar. `ExitIsClean`, `OneSidecar` and `OwnerReachable` speak of the
  guarded spawns, and `OneLiveLeader` relies on the supervisor's being final by then.
  `SurvivorIsReported` is about the threads that end a tree whose spawn succeeded.
* `Drop` only logs a forced-exit record it cannot write (`bridge.rs:1001`):
  `UncleanDropIsRecorded` allows for `unwritten`. In the shell the same write may fail, or
  the process may die, before the temporary file exists (`config.rs:700`); the
  next launch is then not gated. `ForcedExitGatesLaunch` begins with the first trace on disk.
* On Unix, `terminate` of a terminal signals the shell's own group
  (`terminal/process.rs:60`). A background job in a group of its own survives the close,
  holds the slave side open and with it the reader, so the close fails at its deadline
  and the session stays in the map for as long as the job runs. `OwnedUntilGone` and
  `SessionEnds` leave such jobs out.
* Of several MCP servers with one revision only the first is found, so the others are
  told of a credential and refused it; `ToldIsGranted` speaks of the first.
* A workspace without `.git`, or with one that has no `HEAD`, passes `validate_worktree`
  (`command.rs:486`), and no ceiling is set for Git's search: the answer then comes from an
  enclosing repository that nothing validated, whatever the comment at `command.rs:479`
  says. `OwnRepositoryIsValidated` is about the workspace's own repository. A helper
  of Git that the group's signal does not reach may stay (`process.rs:203` of
  `git_read` drops the error).
* `HelperIsTraceable` counts prepared and torn marker files, which name no process; and
  `FailureIsVisible` does not look at the last part of a transaction that began with an active
  marker, whose cleaned record it covers in the pass that follows.

The models hold further windows that no property has to avoid. They have no run of
their own.

* Sidecar. Two threads dropping the last two clones of a session at once each see
  a count of two, so neither closes it (`Drop for Session`). `mark_done` notifies
  without the lock, so a waiter between its test and its wait sleeps to its
  deadline. A producer past the closed test queues a delta or a stderr line after
  the close. The pump may take the fatal flag between a producer's push and its
  test, so a session that lost a control event stays open (`events.rs:93`). A
  process tree whose guard once failed is reported as failed for good, also when
  a later signal ended it.
* Bridge. An actor that completed cleanly before taking the shutdown request makes
  the caller report failure. An exit attempt between the flag's read and the hook's
  installation leaves the handshake waiting for its own deadline. An announcement
  may be shown before its request is registered (`bridge.rs:434`; `protocol.md:203`
  has the announcement sent first), so a quick decision finds nothing; the flag that
  suppresses an announcement may swallow another approval's. A nested handler
  answers an approval request that arrives during `mcp/test` with method not found.
  An actor busy for more than two seconds costs a healthy generation.
* Host. What a crash inside the acknowledgement's temporary write leaves keeps the
  gate shut and names no record to acknowledge: safe, but only a removal by hand
  opens it.
* Terminal. On Unix a session whose shell has gone by itself may be reported as a
  failed clean-up, since the group is not there to be killed. A terminal event
  that meets a full queue may never be polled.
* Preview. A window destroyed between its construction and the installation of its
  callbacks keeps its place among the open sessions.
* Settings. A primary that cannot be read for a moment is replaced by the backup. A
  failed sync of the directory reports an error although the new revision is
  visible. `.bak.tmp` is never removed.
* Reads. Two edits that undo each other within the granularity of a timestamp are
  not noticed. `parse_log` leaves a leading line feed on object ids after the first.
* Clean-up. A torn `.pending` file is never removed, and a helper that died by
  itself leaves an active marker that no pass retires. A number reused between
  the last look and the signal is hit; start times have a granularity of a second.

## 6. Not modelled

Text (framing, schemas, projections, parsers of Git's output, the spelling of
paths, addresses and keys) is stateless and is represented by the classes its
readers distinguish. Memory is sequentially consistent in the models: the code
uses acquire and release on flags that are followed by locks. Thread creation
failing inside a session is folded into failing spawns and writes. The business
payloads of the bridge's commands, the registry over several terminals (they share
only a limit), the resolution of the sidecar's paths, and logging are left out.

The Java agent and the user interface are programs of their own on the other side
of a protocol: the models take the first as an environment that sends anything in
any order or nothing, and the second as callers that call at any time. Of the spikes, the marker
clean-up is modelled because it is the only one with a protocol over crashes; its
test fixtures, the scan of the process table and the sandbox's set-up are
not, nor are the other spikes, schemas, scripts and release tooling.

## 7. Plan

The modelling is as complete as intended, and every safety invariant of the passing
runs is proved. What is left is out of the provers' reach (liveness) or belongs to the
parts of section 6: the Java agent, if its protocol runtime is ever to be verified on
this side of the pipe too, and the scan of the process table behind the clean-up.
