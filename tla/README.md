# Pizza Bot: a verification project

TLA+ models of the protocols inside Pizza Bot, an assistant made of an API
server (`apps/api-server`), a desktop shell that supervises it
(`apps/desktop-shell`), a web interface (`apps/web`) and a dozen packages. The
models are checked with TLC on small instances; some also carry proofs for
TLAPS that hold for every value of the constants.

What the models are about is what tests of this code hardly reach: the order in
which callbacks, promises and timers of one event loop take their turns, and
what is left on disk when the process dies between two of them.

- [The system](#the-system): its parts, their state, how they interact
- [The modules](#the-modules): which module models which part, and how
- [The runs](#the-runs): what each checks, with its bounds
- [Fairness](#fairness)
- [The proofs](#the-proofs)
- [What was seen on the way](#what-was-seen-on-the-way): where the code falls
  short of its documents
- [What is not modelled](#what-is-not-modelled)
- [The plan](#the-plan)

## The system

JavaScript runs a handler without interruption up to its next `await`. An
action of a model is one such segment of one handler, or one transaction where
the process may die between two transactions of a segment.

| Part | State it keeps | Operations | What makes it hard | What makes it correct |
| --- | --- | --- | --- | --- |
| Run registry, `protocol-run-manager.ts` | current run per thread, active runs, replay buffers, one sequence counter, deletion fences | `start`, the pump, `cancel`, `cancelAndWait`, `discardThread`, `beginThreadDeletion`, `shutdown`, `observe` | a start supersedes a run that still drains; deletion, shutdown and timers meet it half way | one run of a thread at the graph at a time; every active run can be named or was aborted; stops, deletions and shutdown leave nothing behind |
| Event streams, `observe` and `routes-protocol.ts` | per observer: run, cursor, `since` | connect, yield, park, disconnect, reconnect | ring buffer under the cursor, replacement runs, wakeups | each frame once, in order, none that is still buffered passed over |
| Trigger service, `trigger-service.ts` | cron jobs, the active flag, the subscription | `start`, `reload`, `stop`, tick, `invokeWebhook`, `runNow`, sleep and wake | crash between transactions; recovery that must not replay live runs | budgets, settled means settled, nothing starts for what is off |
| Trigger store, `storage/triggers.ts` | triggers and `trigger_occurrences` | create, begin, attach, complete, fail, kill | it is the only memory across crashes | a row for every run, at most one per slot |
| Thread lifecycle, `agent-host.ts` | maintenance queue per thread, pending deletions, fences | run-end maintenance, `clearThreadAwaitingAction`, `deleteThread` | maintenance is late (a title model is asked); deletion fails half way | deleted stays deleted, the Action filter tells the truth |
| Activity feed, `thread-activity.ts`, `routes-threads.ts`, `thread-activity-watcher.ts` | numbered events, cursor of the consumer | append, prune, stream, reconnect | reconnection, pruning, a wait that begins beside an append | every event reaches the shell, in order, none twice |
| MCP host, `agent-host.ts`, `mcp-health-monitor.ts` | client pool, tool table, lifecycle per server, recovery timers, queue of capabilities | connect, swap, crash, recover, reload, retire | state read before an await and written after it | nothing leaks, what is in use is watched, a run keeps its tools |
| Graph manager, `graph-manager.ts` | agents per model, capabilities, settings, update queue | `agentFor`, `replaceCapabilities`, `setDefaultModel` | builds that end after a newer one began | no turn uses capabilities or settings that were replaced |
| Plugins, `agent-host.ts`, `routes-plugins.ts`, `plugin-sdk` | directories of plugins, snapshots of materializers | import, remove, reload, synchronize | partial failure and crashes on the file system | an answer stays true; the last good snapshot stays |
| Skills, `routes-skills.ts`, `plugin-sdk/skill-catalog.ts` | inventory, switches, readiness | switch, reload, import | readiness follows servers that come and go | the graph has the skills whose servers are ready |
| Model providers, `inference-providers`, `core/model-provider.ts` | provider configurations, catalogs | select, remember, pin | incomplete catalogs | a thread keeps its model |
| Agent runtime, `runtime-langgraph` | the graph (LangGraph library), its middlewares, the evaluation worker | stream a turn | it is the environment of the registry | budgets per turn |
| Sidecar supervisor, `desktop-shell/sidecar.ts` | child process, restart budget, health counters | spawn, probe, restart, stop, resume | a stop during a restart, late probes | one child, none after stop, a breaker |
| Desktop shell, `desktop-shell/main.ts`, `connection-store.ts` | the embedded server, the active connection, what is saved of it, windows | change of server, sleep, quit | a change awaits probes, boots and stops, while the server restarts elsewhere or the app quits | one server per data root, the window shows the server that is active and saved |
| Web stream store, `protocol-stream-store.ts` | a controller per thread, slots for streaming runs, queues of messages | send, steer, stop, decide, attach, leave | promises of many threads that share a budget; failures on every path | a message ends up in one place, slots come back, queues drain |
| Stores, logging, CLI, user interface | tables, files, views | single statements, formatting, rendering | little | |

How they interact: routes call the registry and the host; the registry calls
`onEnd` listeners (the host's maintenance and the trigger service); the trigger
service starts runs through `protocol-run-launcher.ts`; the host's deletion
fences the registry before it touches the stores; a turn asks the graph manager
for its agent, whose tools the MCP host publishes; plugins bring servers and
skills and are loaded on the MCP host's chain of reloads; the shell suspends,
resumes and restarts the server over HTTP and signals; the web client and the
shell's watcher follow the server through event streams they may lose at any
time.

## The modules

| Module | Models | Built on |
| --- | --- | --- |
| `SerialRuns` | what the registry promises about the runs of a thread: they reach the graph one at a time, in the order of their starts | |
| `RunManager` | `ProtocolRunManager` without `observe` | refines `SerialRuns` |
| `RunStream` | `observe`, the SSE route, a client that reconnects | extends `RunManager` |
| `Triggers` | `TriggerService`, `TriggerStore`, the process around them | |
| `ThreadLife` | run-end maintenance, the Action flag, the deletion of a thread | uses what `SerialRuns` promises |
| `Sidecar` | `startSidecar` with its health policy, the children it forks | |
| `GraphManager` | `GraphManager`, the requests that change it, the turns that use it | |
| `McpHost` | the MCP servers of `AgentHost`: jobs, publications, crashes, retirement | |
| `Plugins` | a plugin's directory and snapshots: import, removal, reload, materializer | |
| `StreamStore` | `ProtocolStreamStore` over the controllers of the SDK and a server | |
| `ActivityLog` | what notifications promise: a log of which a follower is told a growing part | |
| `ActivityFeed` | the activity store, its stream and the shell's watcher, composed | refines `ActivityLog` |
| `RunProofs` | the theorems about `RunManager` and `RunStream` | `RunManager`, `RunStream`, `SerialRuns` |
| `TriggersProofs` | the theorems about `Triggers` | `Triggers` |
| `ThreadLifeProofs` | the theorems about `ThreadLife` | `ThreadLife` |
| `SidecarProofs` | the theorems about `Sidecar` | `Sidecar` |
| `HostProofs` | the theorems about `GraphManager` and `Plugins` | `GraphManager`, `Plugins` |
| `McpHostProofs` | the theorems about `McpHost` | `McpHost` |
| `Shell` | the main process of the desktop app: which server it owns, shows and has saved | |
| `ShellProofs` | the theorems about `Shell` | `Shell` |
| `ClientProofs` | the theorems about `ActivityFeed` and `StreamStore` | `ActivityFeed`, `ActivityLog`, `StreamStore` |
| `MC*` | the instances TLC checks | |

**RunManager.** A `RunState` is named by the order of its creation: `runs[t]`
is the map entry of thread `t`, `phase[r]` how far the pump of run `r` has come
(`queued` behind `prior[r]`, `streaming`, `draining` after it left its loop on
an abort, `done`). `start` installs the run, aborts the one it supersedes and
queues behind it; `PriorSettled` is the continuation after that run's `settled`
promise; `StreamFrame`, `StreamBreak`, `StreamEnd` and `StreamThrow` are the
ways through the pump's loop, each of the last three with the whole tail of the pump
(`decideTerminal`, the synthesized frame, `finish` with its listeners, the
eviction timer, the wakeups). `stop[r]` is the state of `cancelAndWait`;
`deletion[t]` and `shutdown` are the calls that drain runs. Frames carry their
sequence number and whether they are terminal; their content does not matter
to the registry and is left out. `MaxRuns`, `MaxFrames` and `Stoppable` bound
how often `start` is called, how many frames the graph sends and on which runs
`cancelAndWait` is called; `BufferCap` is the capacity of the ring buffer.

**RunStream** adds the generators: `place[o]` says where observer `o` is
suspended (handing a frame to the route, waiting for progress of a run, waiting
for a run), `cursor[o]` is its index with the evicted frames counted in, as in
the code's `dropped` arithmetic. `sent` is the wire and `got` the client, which
reconnects with the last number it received.

**Triggers.** The rows of `trigger_occurrences` are a sequence; the launch of
an occurrence is three actions (`beginOccurrence`, `attachRun`, `startRun`),
for `Crash` may come between them, while everything else in the process waits
until the handler is `idle`. Time is counted in slots of the cron schedules.
`Events` says what else happens in a run: crashes, graceful stops, system sleep,
edits, toggles, deleted threads, and requests that arrive before the automations
have started (`early`) or after the server began to close (`late`). A deleted
trigger behaves like a disabled one.

**Sidecar.** `children` are the processes forked so far, `child` the variable of
that name, `attached` whether `onExit` listens to it. `loop` is the promise
`restartInFlight` and how far it has come (`sleeping` in the backoff, `spawning`
until the handshake, `stopping` when a stop arrived meanwhile). `timer` and
`resume` hold what a request that was sent will come back with: the answer is
fixed when the request is sent and used when it arrives, for whatever child
there is by then. The clock is abstracted to two facts, whether the startup
grace is over (`grace`) and whether a healthy streak has been long
(`health.healthy`); `earned` remembers how many children there were when the
budget was last earned back and is not in the code.

**ThreadLife.** One thread. `line` holds its runs that are not over, of which
only the first is at the graph; `queue` is the chain of promises in
`maintenanceByThread`; a task is suspended at the awaits of the `onEnd`
listener (`ids`, `paused`, `messages`, `state`, `update`). `behind` counts the
tasks that `waitForThreadMaintenance` still waits for. `gone` and `stale` are
not in the code: the first says that a deletion was carried out and nobody has
used the thread since, the second that a crash, a failed statement or a
client's edit of the history cost the row an update.

**Shell.** `main.ts` with `connection-store.ts`. A call of `startSidecar` is an
entry of `sidecars`, and of what `Sidecar` models only the phases remain that
its caller can tell apart. `change` is the one handler of a change of connection
that may be in flight, at one of its awaits, or between its answer and the
`setTimeout` that carries it out; `saved` is on disk and survives the process.
Whether closing the last window quits depends on the platform and is a choice.
A process that is gone leaves its sidecars `orphaned`: they notice that their
parent has gone and close, outside of the shell's reach. A connection managed
by `PIZZA_API_BASE`, tokens and the activity watcher are left out.

**GraphManager.** Capabilities and settings are version numbers; an agent is
the pair it was compiled from and its model. `updates` is the chain of promises
`updateQueue`, whose head is at work and may be compiling; `builds` are the
entries of the cache of agents for other models, at work or done, so that a
build that fails can find a newer one under its key. `turn[u]` is a call of
`agentFor` at one of its awaits. `hostModel` is what `AgentHost` shows and
stores; `setBack` remembers that a change of the default was undone while it
was queued, a case in which the code keeps the abandoned model.

**McpHost.** A connection is a number, and the tools of a server are the
connection they call. `jobs` and `job` are the chain `mcpReloads` (first load,
reload, reconnect, switch); `pending`, `drain` and `broken` are the queue that
the progress of a reload puts its tools into, `updates` the replacements of the
graph's capabilities that a drain, a crash and a switched skill wait for; what
they are made of is read before that wait and written after it, as in the code.
`pool` is what `pluginsImpl.client` holds, `retiring` the connections that wait
for the runs that still use them. Every server has one skill. `plugins` says
whether `pluginsImpl` is there at all, `loaded` whether it was from the start. When
the plugins could not be loaded there is no pool: a reload of the servers publishes tools
whose connections nobody owns, a reconnect closes what it has made and reports
an error (`Refused`), crashes are not heeded; a reload of the plugins has the
shape of a reload of the servers, finds plugins and from then on there is a pool,
or finds none and does nothing (`BeginNothing`). A drain that fails rejects the reload
that waits to flush. The ghosts name what the properties except: `orphans`, the
connections made by a reload while there were no plugins; `discarded`, those
closed because the job that made them failed; `left`, servers whose status a
failed job put back to crashed while no other job or timer was on its way;
`unoffered`, the servers that a failed reload did not watch again.

**Plugins.** One name. `dir` is the plugin's directory, of which the manifest
and the rest are told apart, for the manifest decides whether the plugin is
found and an import writes it first; `cache` is its directory of
materializations, `state` what `state.json` names. A reload is the head of
`reloads` and advances through `at`: looked up with everything stale pruned,
synchronized (the rename of the staging directory), recorded (`state.json`),
connected. Requests are suspended at the awaits of `installPlugin` and
`deletePlugin`. `Sync` are the reasons for which the plugin's materializer
runs. Two ghosts bound what is promised: `crossed`, two imports or removals
have overlapped, and `unmended`, a step failed that the code does not make up
for (a file that cannot be removed, a reload that fails after `state.json` was
written, a reload that was itself the repair).

**StreamStore.** `store` is what the class owns (entries with their queues and
pending submissions, `slots`, the order in which threads wait), `sdk[t]` what
the controller of the SDK shows of a thread, `runs` the server. A `send` or a
steer is submitted, its run created (`RunCreated`) and its answer delivered
(`Submitted`) in separate steps; the run may end between them, and the request
may fail before or after the run was created (`SubmitFails`). In the second case
the answer is lost: the store cannot tell it from a request that was never
taken, puts a queued message back and sends it again. `answer` says of each run
whether its answer is due, given or lost (`"none"`). The SDK is external:
`submit()` reports the run that was created or throws, `stop()` ends the loading at once, the end
of a run is reported once unless it was superseded, and `respond()` reports no
run.

**ActivityFeed.** The three parts are composed: `db[s]` is the table of a
server and the outcomes of all it ever had (rows are pruned, outcomes are not),
`handler` the server's side of the one connection (`scanning`, `writing`,
`parked`, with the batch it has read), `wire` the frames under way, `line` and
`cursor` the watcher. A connection that the watcher has aborted has no further
effect, so one is enough. `ActivityLog` is its abstract specification: `told`
grows by the next event of the log that is worth it.

## The runs

| Run | Instance | What it shows |
| --- | --- | --- |
| `runs` | one thread, three runs, a replay buffer of one frame, ordinary frames and interrupts | the registry's safety and action properties, and that it refines `SerialRuns` (`TakesTurns`). `StopsReachAll`: no supersession, stop, deletion or shutdown overlooks a run; `SilentOnceOver`: nothing of a replaced or deleted run is told |
| `stream` | one observer, two runs with two frames between them beside their terminal frames, a buffer of two | `FramesArriveWhole`: once, in order, none still buffered passed over; `WaitsAreSound`: no wakeup is lost; `StreamsCatchUp`. `NothingHangs`: aborted runs end, queued runs start, deletions drain, shutdown resolves |
| `triggers_safety` | a cron and a webhook trigger, two attempts, two upsets of every kind, requests during boot and close | `BudgetPerSlot`; `LaunchesAreAllowed`: settled occurrences stay settled, what is disabled starts nothing |
| `triggers_recovery` | one cron trigger, two slots, crashes, stops and sleeps | `RunsAreTracked` between any two transactions, `OccurrencesSettle` |
| `thread` | three runs, three upsets: crashes, failing statements, unreadable checkpoints, client writes, deletions | `DeletedStaysDeleted`; `MaintenanceKeepsUp`: the Action flag says what the history says and the activity follows the runs; `DeletionEnds` |
| `sidecar` | three children, one restart before the breaker, two failing probes before a kill, a crash, a wake-up, a change of a secret | `ServersAreSupervised`: one child, none after a stop, told of its secrets; `BreakerTrips`; `SupervisionGoesOn` |
| `graphs` | two models, two turns, two changes in all | `DefaultsAgree` of host and manager; `AgentsAreUpToDate`: no turn that asks after the answer of a change is served by an older agent; `FailuresHaveACause`; `TurnsAreAnswered` |
| `mcp` | with plugins and without, two servers, a run, a request, two upsets | `ConnectionsAreKept`: every open connection has one owner that will close it, but for those a reload made while there were no plugins, and those in the pool are watched, unless a failed reload did not put their tools back; `RunsKeepTheirTools`, unless they were replaced before the run got them or their own job failed; `CrashIsFollowedUp`, until the host closes or a failed job leaves the server crashed |
| `plugins` | three requests, two crashes or failures, a materializer that does not run at the start | `FilesStay`: the files in use and those to fall back on are never pruned; `AnswersHold`: what an import or a removal answered stays true across reloads and restarts |
| `store` | two threads, one slot, one inactive controller, three messages, a stop, decision or attachment, one failure | `EachInputOnce`: a message is queued, under way, answered for by the server or returned, and never two of them, and none is submitted again once it was answered for (one whose answer is lost is); `SlotsAddUp`: no more threads stream than may, and no slot is held for what is over; `QueuesDrain` |
| `feed` | two servers, three events of two threads, two retained, batches of two, a lost connection, two choices of a server | `Consistent`: the stream sleeps only when there is nothing to send; `ToldOfTheLog`: the refinement of `ActivityLog`; `CatchesUp` |
| `shell` | two remote servers, three sidecars, one restart each, two upsets: crashes, quits, closed windows, sleeps | `OneServer` on the data root; `BackendsAgree`: window, main process and disk name the same server, at the port it has now; `QuitStopsSidecar`; `ShellMovesOn`: changes and quits end, a server put to sleep is woken up |

Why the bounds are enough. Three runs of a thread give a run at the graph, one
queued behind it and one that supersedes a queued run; a fourth repeats the
third. Threads do not interact in the registry but through the sequence
counter, so one thread with all operations is checked; the theorems hold for
any set of threads. A buffer that is smaller than the number of frames makes the
ring evict under a cursor. Two attempts and two upsets reach the exhausted
budget, the replay of a replay and an end that arrives for a settled
occurrence. Three tasks of a thread are one at work, one that a deletion waits
for and one between. Three children of the supervisor are the first, the one
restart the budget allows, and one that only a budget earned back allows: a
fork too many is a fourth state of the same kind. Two models are a default and
another, which change their places; two turns are one that waits for a build
and one that comes later. Two servers let the progress of one overtake the
crash of the other; the first load, a request and the recovery of a crash are
three jobs in the queue; without plugins, the first load makes connections for
nobody, and the request is a reload that does so again, one that brings the
plugins, or a reconnect that is refused. Three
requests for a plugin are an import, a removal
and a reload between them, or an import again. Two threads with one slot make
one wait for the other, and a third message makes a queue behind a queued
message. Three events with two retained prune an event that was not sent. Three
sidecars are the one the app starts with, one of a change back to it, and one
of the next start or of a change during a quit.

Larger instances have been checked by hand without an error: `ActivityFeed` with one server and four events, `Plugins` with each of `{"install", "manual"}`,
`{"install", "startup"}` and all three reasons.

`CHECK_DEADLOCK FALSE` is set where the bounded system stops of itself: when its
runs, slots, requests and upsets are used up and nothing is left to do.

Every property of a passing run has a mutant, a property with several parts one
for each part that matters: a definition of the model, changed the way a bug
would change the code (`Mut...`, beside the definition it changes), under which
TLC finds the property violated.

## Fairness

Fairness is stated where the code's scheduling gives it, and nowhere else.

- `RunManager`: microtasks run, so a promise that settled resumes those who
  wait for it. No timer is needed. The graph's stream ends once its signal is aborted:
  the LangGraph stream honours the `AbortSignal` it is given. Nothing is assumed of a
  run that is not aborted, nor that anyone ever starts, stops or deletes.
- `RunStream`: as `RunManager`, and the transport takes the frame it is given and delivers it.
- `Triggers`: a handler goes on to its end, the process is started again and
  starts its automations, a stop is carried out, a run ends some day. Ticks, requests and upsets are
  free not to happen.
- `Sidecar`: timers fire, a request is answered or times out, a child that has
  been forked sends its handshake or runs into the timeout, a child exits after
  SIGKILL. Nobody has to crash, to wake up or to stop.
- `ThreadLife`: runs end, the checkpoint and the title model answer (with an
  error at worst), the next segment of a task or of a deletion runs.
- `GraphManager`: a compilation ends, with an agent or an error; the queue of
  updates and the callers resume when what they wait for is settled. Nobody has
  to change anything.
- `McpHost`: a connection is made or fails, a publication is applied or fails,
  timers fire, a refused connection is closed. Runs need not end, and nothing has
  to crash.
- `ActivityFeed`: the stream scans and writes, frames arrive, the watcher
  connects again after its delay. Heartbeats are given no fairness, so that
  nothing may depend on them; connections that are never lost again are not
  assumed but bounded (`MaxDrops`).
- `Shell`: a probe is answered or times out, a sidecar that boots is up or
  fails, what is told to stop stops, timers fire, and the system wakes up.
- `StreamStore` and `Plugins` are checked for safety; `QueuesDrain` is
  an invariant of the states in which no request is under way.

## The proofs

`RunProofs` proves of `RunManager`, for all sets of threads, observers and kinds of
frame and for all bounds, the type invariant, seven safety properties, three
action properties and the refinement of `SerialRuns`. The assumptions are
those `RunManager` declares: `NoThread` is no thread, `MaxRuns` is a natural
number, `BufferCap` a positive one.

`SerialExecution` is not inductive: nothing in it says why a queued run may
enter the graph. The invariant that is, `CoreInv`, adds

- `QueueInv`: what `prior` means. A started run has a thread (`Started`); a run
  at the graph has no predecessor left (`InTurn`); a queued run waits for the
  run started before it on its thread, and the active runs of a thread form a
  chain in which every run is over before its successor enters
  (`QueueOrder`); the registered run is the last of the chain (`Registered`);
- `OrphansAreAborted`: only the registered run of a thread may be unaborted;
- `TimersAfterEnd`: an eviction timer is armed for ended runs only;
- `DrainAwaitsAll`, `ShutdownAwaitsAll`, `StopSettled`: a deletion, a shutdown
  and a `cancelAndWait` wait for every active run they are responsible for, also
  those queued or superseded.

From `CoreInv` follow serial execution and what the drains leave behind. The
numbering of the frames (`SequenceFollowsRuns`) needs `FrameInv`, that a
buffered frame is numbered below the counter and that a queued run has none
yet; the silence of deletions needs `DiscardInv`, that every active run of a
fenced thread is marked discarded; and that a settled run was announced
(`SettledRunAnnounced`) needs `AnnouncedInv`, that a run which ended in the graph
without a terminal frame has been replaced, which is for good. Each invariant has one lemma per action; the
theorems combine them. `RunManagerImplementsSerialRuns` maps a step of the
registry to a step of `SerialRuns` or to a stutter, with `CoreInv` at hand.

Of `RunStream` it proves `FramesArriveWhole` and `WaitsAreSound` for every set of
threads and observers, every filter, every size of the replay buffer and any
number of runs and frames, from the assumptions of `RunManager`; the invariants
of the registry serve here too. What a step of the registry
can do to a stream is said once, in `RegistryStep`: a buffer keeps its frames
but the first and gets new ones at its end, whoever waits for them is then awake
(`BuffersGrow`), and the registered run changes only to none or to one without
frames (`RunsChange`). Neither property is inductive. `AheadInv` says that what
an observer has still to read is numbered above everything its client has seen,
for the run it reads from its cursor on, for the run that replaced it from
the start, and for a closed stream above what is still on the wire; `WholeInv`
says that whatever lies before the cursor was sent if it was wanted, and that a
client has no gap in what the run it reads or the registered run still keeps.
A reconnect rests on the number it sends, the last frame received: what was on
the wire behind that frame is lost with the connection, and is asked for again.

`TriggersProofs` proves, for every set of triggers and for every number of
slots, attempts, crashes, stops, toggles and edits, that `LaunchesAreAllowed` and
`BudgetPerSlot`. The assumptions are those of `Triggers`: `Events` is a set of
the upsets it has actions for, `MaxAttempts` is a positive number. `CoreInv` is
the type invariant with what a launch knows at each of its awaits: the row it
holds exists, is running between `beginOccurrence` and the start, and names a
run of its own. `StepsOnRows` then says what any step of the system can do to
the rows: nothing, write one of them under the guards of the store, add one
for a slot that has none, begin one within its budget, or give one its run. Both
theorems follow from it without looking at the scheduler again. A settled row
stays settled, for no write has a settled row to write; and the budget follows
from `SlotInv`, that a slot has one scheduled row, and `BudgetInv`, that the runs
launched for a row are at most its attempts and strictly fewer while a launch
has been counted and not yet made. `BudgetPerSlot` alone is not inductive: it
does not know of the launch that is about to be made.

`RunsAreTracked` is proved under `Calm`, that no request reaches the server before
its automations start and that nobody edits a trigger or flips the setting: with
them it does not hold, as "What was seen on the way" tells. Crashes, stops,
sleeps, discards and late requests are allowed. The hard part is that no recovery pass
launches the row of a run that is still at work. `SlotsPass`
says why not: a row with a run is of a slot its trigger has recorded, so it is
never a missed one, and the slot a timer fires for has no row until it does.
`LiveInv` adds that the rows left to recover are those of no run at work,
since they are collected only while the automations start, when none is.

`ThreadLifeProofs` proves `DeletedStaysDeleted` and `MaintenanceKeepsUp` for any
number of runs, tasks and upsets, from the assumptions of `ThreadLife`, that
`MaxRuns` is a natural number and `Events` names upsets it knows. `EraseInv`
says why a deletion is thorough: once the runs are drained the fence keeps new
ones out, so the tasks it waits for are all there are, also when a retry
takes over the fence of a deletion that failed. `GoneInv` follows: nobody is left who could
write. `OrderInv` puts the ends that were told, those queued and
those to come in one order. `FlagInv` is what makes a delayed reading of the
checkpoint harmless: when a thread is at rest except for its tasks, the last
of them is the end of its last run, and what that task has read is what the
history still says.

`SidecarProofs` proves `ServersAreSupervised` and `BreakerTrips` for every
restart budget, failure threshold and number of children and secrets. The
assumptions are those of `Sidecar`, that these are natural numbers and the
threshold and the number of children positive. `ServersAreSupervised` says
little of the restart loop; the invariant does. `LoopInv` says which children
may still be free to work at each point of the loop and of a stop: none while
the loop sleeps, at most the one it has just forked while it waits for its
handshake, at most the current one otherwise. `BudgetInv` bounds the forks since the
budget was last earned by the attempts counted, one less while a loop sleeps before the
fork it has counted. `SecretInv` says that the current child has the latest
secret or has a message with it under way.

`ShellProofs` proves `OneServer`, `BackendsAgree` and `QuitStopsSidecar` for
every set of remotes and any number of sidecars, restarts and upsets. It
assumes what `Shell` declares: no remote is called `local`, `MaxRestarts` is a
natural number. Each property is about what a handler of a change relies on
after an `await`, so the invariant records it: `ChangeInv` and `BackendInv` say,
for each `await` of the two handlers, who owns the sidecar that may be at work,
which connection is active and what the window may show; `SavedInv` relates
the disk to the active connection, `AppInv` what is left of a former life of
the app. `QuitStopsSidecar` is about steps and needs one invariant more,
`QuitInv`, which holds from the beginning of a quit to its end.

`HostProofs` proves `DefaultsAgree`, `AgentsAreUpToDate` and
`FailuresHaveACause` for all sets of models and turns and any number of
changes, from the one assumption that `NoTurn` is no turn. The invariant says what the
properties leave out. `QueueInv`: replacements are queued in the order
of their announcement, and what the update at work compiles is no older than
what is applied. `WaiterInv` and `BuildInv`: a turn waits for one update or one
build, the cache holds nothing older than what is applied, and a build that
compiles is new enough for every turn that joined it, even when it has left the
cache. `TurnInv`: what a turn asked for has been applied, and the models that
cannot be built now are among those that could not be built while it waited.
`DefaultInv`: the host's default is the one queued last or, when none is
queued, the manager's. Why a build cleared from the cache serves nobody who asks later,
and serves those who waited rightly, is the step `ApplyStep`.

Of `Plugins`, `HostProofs` proves `FilesStay` and `AnswersHold` for every set of requests,
every choice of the reasons for which the materializer runs and any number of
snapshots, crashes and failures. It assumes that `None` is no request and that the
two bounds are natural numbers. The invariant has a part that always holds:
a request that waits has one entry in the queue (`QueueInv`), `state.json`
names a snapshot that is there, and what a synchronization will fall back on is
that one unless the cache has been removed meanwhile (`CacheInv`). The rest
holds unless requests crossed or a step failed that nothing makes up for.
Then only the latest import or removal is under way (`LatestInv`), and its stage
says what the directory has (`DirInv`), that the server has forgotten a plugin
without a manifest except while the reload that makes it forget is still to
come (`GoneInv`), that the snapshot in use is the one `state.json` names or is
about to be replaced by it (`UseInv`), and that a reload which answers an import
has found the plugin whole, as every later one does (`LiveInv`). Neither property
is inductive without these: an answer is given by the end of a reload that
looked at the directory long before.

`McpHostProofs` proves `ConnectionsAreKept` and `RunsKeepTheirTools` for every set
of servers and of runs and any number of connections, requests, crashes and
failures, on a host with plugins and on one without. It assumes that `MaxConns`
is a natural number. `OwnInv` says that the
connections in the pool and those a job has made are of the server they stand for,
`LeakInv` that an open connection is in exactly one of three hands: the pool
and the job count as one, since a reconnect puts its connection into the pool
before it is published; a retirement, which must not share a connection with
them, is the second; the third are the `orphans`, which are nobody's and of which
there are none on a host that had its plugins from the start. What a job holds depends on where it is (`JobInv`,
`ReconnectInv`): the connection that a reconnect displaced is still its own while the
publication waits, and has to come back into the pool or be retired. `WatchInv`
says what is watched at the awaits inside a reconnect: until its publication is
done, the connection that it displaced, no longer the one in the pool. `KeepInv` is the
reason a run keeps its tools: what a run was given is not closed, is in the pool,
at the job, retired or an orphan, and whoever retires it waits for every run that
has it, but for what was replaced before the run was given it or was closed
because its own job failed. No failure elsewhere weakens this. `UpdateInv`, that a
job waits for at most one publication, which it asked for itself, ties the
answer of the graph to the job that goes on.

`ClientProofs` proves `Consistent` of `ActivityFeed` and the refinement of
`ActivityLog` for all sets of servers and threads and any number of events, lost
connections and changes, whatever a store retains. It assumes that batches are
not empty and that the two constants for "no server" and "no cursor" are none.
Only a batch that is a sorted prefix of what is stored keeps the promise
(`ListFacts`). The invariant looks from the
watcher ahead: `base` is the event it will have come to once it has read how the
stream starts. `LineInv` relates the first message on the wire to the cursor;
`StreamInv` says that what is on the wire, in the batch and in the store follow
one another without a gap, also while rows are pruned, and that a stream that starts
without a cursor starts behind every event that was there when it was asked for;
`ToldInv` says that an event that was told of is behind the base or gone from
the store, the batch and the wire, so that no reconnection brings it back.

Of `StreamStore`, `ClientProofs` proves `EachInputOnce`, `SlotsAddUp` and
`QueuesDrain` for every set of threads and any number of messages, slots,
controllers, asides and upsets, requests whose answers are lost included. It assumes that there is a slot and that
`MaxInputs` is a natural number. A handler of the store is a chain of its
functions: the end of a run drains a queue, which takes a slot, which another
thread then waits for. So the invariant is stated of a store `s` whose
controllers show `k`, and holds at every link of the chain (`Mid`, `Late`,
`Waiting`). What a pump, a drain or the disposal of controllers does to any
store is proved once (`PumpedOut`, `Drained`, `Disposed`), and the actions are
put together from these.

None of the properties is inductive. `EntryInv` says that what has no entry has
nothing and that a slot is held for an engaged thread only; `SteeringInv` and
`EpochInv`, that a thread being steered has a steer that waits; `HeldInv`,
`RunsInv` and `ApartInv`, that an input is queued once, on its way once, or in one
of the places it may end in, where a run counts when its answer was given:
`RunsInv` says that an answer is due or given for the last run of an input only. `DrainInv` is the reason why queues drain: a
thread that could go on waits for its run, for a steer, or in the line for a
slot while all are taken; it holds while nothing has failed. The rest holds until
a steer comes back late: no input is lost (`LossInv`), a turn on its way is its
thread's only one and has its slot (`TurnInv`), a run of an input is shown by
its thread, which knows its id and keeps its slot while it loads (`ShownInv`),
an answer that is due will come to a turn on its way and is of a newer run than
all its thread knows of (`AwaitedInv`),
and a steer that comes back finds its run halted or a newer one (`HaltInv`).

Only model-checked: liveness (`StreamsCatchUp`, `NothingHangs`,
`OccurrencesSettle`, `DeletionEnds`, `SupervisionGoesOn`, `TurnsAreAnswered`,
`CrashIsFollowedUp`, `CatchesUp`, `ShellMovesOn`), since TLAPS has no rule for
`ENABLED` that its provers here can use. Every invariant, action property and
refinement that a run checks is also proved, `RunsAreTracked` under `Calm`, which
the constants of its run satisfy.

## What was seen on the way

Each was met while translating the code, and most have been shown by a run of
TLC while the module was written. The properties of the runs hold in spite of
them: the actions that do this are part of every run, and where a property has
to except a case, the comment of the property says which.

Runs and threads. A run cancelled while it is queued ends without a terminal
frame (`protocol-run-manager.ts:188`). An observer that is writing to a slow
client when its thread is deleted parks afterwards and is not ended
(`protocol-run-manager.ts:321`). An interrupt answered before its run has ended
puts the thread back into the Action filter while the answer is at work
(`agent-host.ts:448`). A fork checks that the source is not running and then
awaits (`routes-threads.ts:278`).

Automations. A slot missed while the server was down is dropped when an older
occurrence of the trigger is replayed first (`trigger-service.ts:154`, against
`docs/ARCHITECTURE.md:463`). Switching automations off and on replays
occurrences whose runs are at work (`trigger-service.ts:150`). Scheduled runs
aborted by a graceful stop are not recorded and are replayed, for the service
stops listening before the runs drain (`agent-host.ts:1882`). Saving a trigger
while the server boots or resumes from sleep takes the recovery path at once
(`routes-triggers.ts:119`). A launch that throws ends the recovery loop
(`trigger-service.ts:240`).

Agents. A default model set back to its former value while the change is still
queued is dropped, and the abandoned model stays (`graph-manager.ts:203`, for
`modelId` changes at 205 only). A turn that asks for the model whose switch is
compiling is served by the old agent. The model that `setDefaultModel` builds
in advance may be older than a change of its provider.

MCP servers. A host whose plugins could not be loaded
(`agent-host.ts:1762`) has no pool, and a reload of its servers stores its new client
nowhere (`agent-host.ts:1670`): the connections work, but they are not watched, a
later reload connects the same servers again beside them, and `close()` reaches
neither, although `connectAndSwap` says that the old client is retired
(`agent-host.ts:1455`). `ConnectionsAreKept` excepts these (`orphans`), and only these. A reconnect of a crashed server that fails after its
connection was made puts the status back to crashed, and nothing tries again.
A server that crashed and was reconnected at once is reconnected
again by the recovery timer, and the graph keeps the closed tools, since the
fingerprint of the tools is the same (`agent-host.ts:974`, `1297`). A switch of
a skill while servers load overwrites the tool table. A crash compares the
readiness of skills with what was applied, not with what is queued. A rejected
publication can fail a later reload's flush. A connection that dies
before it is armed is not noticed. A reload whose publication fails watches again
only the servers of the tools it could put back (`agent-host.ts:1502`): when these
cannot be restored, or a server was out of the tool table when the reload began
and a reload of skills that was still queued offers its tools again, a connection in
use is left unwatched. `PoolIsWatched` had excepted less at first; the
counterexample takes one server and seventeen steps, with one failure.

Plugins. Two removals of one plugin with an import between them: the second
removal deletes the new plugin, whose import was answered with 201. A crash, or
a file that cannot be deleted, leaves a directory without manifest, for which
an import is answered 409 and a removal 404 from then on. A crash during a
synchronization leaves a `.staging-*` directory that nothing prunes. A reload
that fails after `state.json` was written leaves the host on a snapshot that the
next synchronization prunes. A write that fails during an import removes the
directory without a reload, and a plugin that another reload had found
meanwhile stays loaded.

The web store. A message whose submission fails is put back and sent again
(`protocol-stream-store.ts:599`), also when it was only the answer that was
lost: the server then has two runs of it, and the browser is told of the
second. The second of two steers of one thread gives up the slot of the
newer turn (`protocol-stream-store.ts:665`): the budget is exceeded, and the
message is lost if its submission then fails. A run that completes while a
steer's cancellation is under way that then fails leaves the steered message in
the queue. A queued message whose submission failed waits for the next event
of its thread. Runs resumed by a decision are not counted in the budget. The
status "error" hides a run that is still streaming.

The shell. A restarted server has the secrets of the start of the shell, and
nothing sends it those that were set since (`sidecar.ts:288`, `main.ts:411`;
`ServersAreSupervised` says how far updates reach). `resume()` kills the child there is
when its ping fails, be it a fresh replacement or one that is being stopped
(`sidecar.ts:646`). A quit waits for
its sidecar "until the sidecar drains" (`main.ts:810`) in the plain case only:
the app leaves at once when the sidecar boots for a change of server, when a
change to a remote server is already stopping it, and on a second quit; and a
change that ends while the app shuts down, or a restart, leaves a second server on the data
root. After a crash the orphan may close while the next start's server already
runs. If the data of a server are reset under the same source, the
watcher's cursor is ahead of its log; if its first connection is dropped before
the first event, it asks again without a cursor and misses what came between.

## What is not modelled

Presentation (React, styling, menus, notifications), formatting and redaction of logs, the
adapters of model providers and the LangGraph library itself, which appears as the
environment of the registry: a stream that sends frames, ends, fails, and stops
when its signal is aborted. SQLite is trusted to make a transaction atomic and
durable; a `rename` and the write of one small file count as atomic, too. The
tool-call budget of a turn and the evaluation worker are single counters and one
process that is killed on a timeout. The stores that are not named above are
single statements, the command line client is a loop over `RunStream`.

In the modelled parts: prompts, titles, previews and attachments; validation of
requests, archives, manifests and secrets; conversions of states and messages
in `protocol-commands.ts`; the arithmetic of cron expressions and time zones;
search, rename and fork of threads; the catalog of skills and the files of user
skills; the snapshot the web store renders; plugins that are disabled or
incompatible, which are installed and not loaded; retries of one connection,
which are folded into one attempt; requests to the MCP host once its close has
begun.

## The plan

Done: the registry with its abstract specification and proofs, its streams, the
automations, the life of a thread, the supervisor, the graph manager, the MCP
host, plugins, the web store, the desktop shell, and the activity feed with its
abstract specification; proofs about the registry, its streams, the
automations, the life of a thread, the supervisor, the graph manager, the MCP
host, plugins, the shell, the activity feed and the web store: every safety
property of the runs is proved.

Left, in order:

1. The web store on top of `RunStream`, with a restart of the server, whose
   sequence counter begins at 0 again.
2. Selection and pinning of models, readiness of skills with several servers,
   fork slicing: functions checked against their definitions over bounded
   inputs.
3. `Shell` on top of `Sidecar` in place of its phases, with the secrets.
