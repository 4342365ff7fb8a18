# xtils: a verification project

xtils is a C++ application framework for Linux: task runners and worker pools, timers, events, state
machines, a behaviour tree, networking (HTTP, WebSocket, TCP, UDP, a JSON-RPC channel), logging and
configuration. This directory models its concurrent core, its protocols and the pure functions they stand on in
TLA+, checks the models with TLC and proves the most important safety properties of the executors, the timers, futures, the IPC
channel, the TCP and HTTP clients, the logger and the state machine with TLAPS.

`PROJECT.json` holds the details: the lines of source each definition stands for (`map`), the runs, a
mutant of the code for every checked property, the hazards that guided the properties, and the findings.

## 1. Inventory

| Component | State it keeps | Operations | Talks to | Hard because |
|---|---|---|---|---|
| UnixTaskRunner | task queue, delayed multimap, watch table, poll set, `quit_` | `Run`, `Quit`, `PostTask`, `PostDelayedTask`, `CancelDelayedTask`, `Add/RemoveFileDescriptorWatch` | eventfd, every networking class | wake-ups are sent outside the lock; the poll set is a cache of the watch table |
| ThreadTaskRunner | a thread and its runner | construction, destruction, forwarding | UnixTaskRunner | hand-over at start, self-join |
| TaskGroup / ThreadSafe | queue, busy count, two quit flags, threads | `PostAsyncTask` (now, delayed), `RunUntilCompleted`, `IsBusy`, `Stop`, `StopWaitAll` | main runner, Timer, IpcServer, App | stop against post, pop and count |
| BaseTimer | `active_timers_`, TimerInfo | `Set*Timer`, `CancelTimer`, `CancelAllTimers`, destructor | TaskGroup | callbacks run unlocked on several workers |
| CronScheduler | tasks, heap, thread | `addTask`, `cancel`, `start`, `stop`, `runOnce` | user tasks | the heap is rebuilt while a task runs |
| EventManager, Signal | slot lists | `Connect`, `Emit`, `Disconnect`, `Stop` | TaskGroup, every emitter | a snapshot outlives a disconnect |
| Future / Promise | value, error, one continuation | `SetValue`, `SetError`, `Then`, `OnError`, `Get` | user threads | continuations run under the mutex |
| FSM | current, previous, history | `Start`, `Reset`, `ProcessEvent`, `SetMaxHistorySize`, `ClearHistory` | user callbacks | the mutex is recursive: callbacks re-enter |
| Behaviour tree | node states, blackboard, event queue | `tick`, `reset`, `pause`, `resume`, `sendEvent`, `clearEvents` | user nodes | running children that nobody resets; events between ticks |
| HttpClient | state, current request, generations, transport | `Send`, `SendAsync`, `Cancel`, destructor | task runner, transport, listener | caller threads against callbacks on the runner |
| HttpClientPool | idle clients, waiters | `Acquire`, `Release`, destructor | HttpClient | handles that outlive requests or the pool |
| WebSocket client | connection state, fragments, close flags | `Connect`, `Send*`, `Disconnect`, reconnect, ping | task runner, transport | state that survives a reconnect |
| HTTP server, router | connections, routes, middleware | request loop, dispatch | sockets | pipelined and partial input |
| TCP and UDP servers, UDP client | connections or addresses seen, two sockets | `Start`, `StartDualStack`, `Stop`, `Broadcast`, `SendTo`, `CleanupInactiveClients` | UnixSocket, listener | listeners that call back; ends seen in four places |
| IpcClient | pending calls, socket, read thread | `Connect`, `Disconnect`, `Call`, `CallAsync`, `Notify` | IpcServer, TaskGroup | four parties complete one call |
| IpcServer | connection list, accept and read threads | `Start`, `Stop`, `Register`, `Notify` | IpcClient, TaskGroup | threads that start while Stop joins |
| Sockets, transports | connection state | connect, send, receive, shut down | task runner | call-backs that destroy their caller |
| Logger, sinks | queue, worker, files | log, `Flush`, `Shutdown`, rotation | every component | two queues' worth of hand-overs, a flag without a lock |
| Watchdog | fatal timers, windows | `CreateFatalTimer`, sampling | UnixTaskRunner | kills the process by design |
| App, services, signal handler | services, state | init, run, stop in dependency order | everything above | shutdown while starting |
| Config and its watcher | options, settings, the inotify descriptor | define, load, set, watch | JSON, files, task runner | four sources with an order; files that change while they are read |
| Metrics | registry, families, cells | count, observe, `Render` | every component, HTTP server | a rendering takes many steps |
| Tracing | a ring of events, an index, stacks per thread | record, scope, dump | every component | a lock-free ring without a commit |
| Inspect | handlers | register, serve | HTTP server | |
| Files | the file system | read, write, copy, list, make, remove, parts of paths | Config, FileSink, BtFactory | links, short copies, partial writes |
| Text and data (JSON, HTTP text, strings, Base64, readers and writers, serialization) | none of their own | pure functions | everything above | boundaries of types, pieces in any cut |
| SHA-1, scripting | none of their own, a third-party interpreter's | | | long inputs |

How they interact: everything asynchronous ends in one of two executors. UnixTaskRunner runs tasks, delayed
tasks and descriptor callbacks on one thread; TaskGroup runs tasks on many. Timer and IpcServer post to
a group, HttpClient and the sockets live on a runner, a group's delayed tasks wait on a runner. Shared state
is under small mutexes; callbacks are run outside them, except where noted in the hazards.

What makes each component correct is what its module's properties say (section 3).

## 2. Modules

| Module | Models | Composes |
|---|---|---|
| `Executor` | what both executors promise: a task is accepted once, started at most once, never after a cancellation, and dropped only when stopping | |
| `TaskRunner` | UnixTaskRunner | implements `Executor` (property `ImplementsExecutor`, refinement mapping `PhaseOf`) |
| `TaskRunner_proofs` | theorems about it, the refinement included | extends `TaskRunner` |
| `TaskGroup` | TaskGroup and ThreadSafe | implements `Executor` |
| `Timer` | BaseTimer (SteadyTimer, SystemTimer) on a group | the group is reduced to "popped no earlier than due, not after stop", which `TaskGroup` checks |
| `Timer_proofs` | theorems about it | extends `Timer` |
| `CronScheduler` | the scheduler thread, its heap as libstdc++ keeps it, user tasks that run unlocked, and `calcNextRunTime` on a calendar of parameters with leap years, its limit of jumps and its fallback, as a function | |
| `IpcClient` | IpcClient against any server that answers at most once | `IpcServer` checks that promise (`AnswersOnce`) |
| `IpcServer` | IpcServer against any client; its sends may time out or take a part of a line | |
| `Ipc_proofs` | theorems about both, about Udp and SocketStream, and of each as a part of `MCIpc` | extends `MCIpc` |
| `Fsm` | fsm::FSM with re-entrant and throwing callbacks | |
| `Fsm_proofs` | theorems about it | extends `Fsm` |
| `BehaviorTree` | BtTree and its nodes; a tick is a recursive operator from a state to the states it may leave | |
| `HttpClient` | HttpClient, callers, listener and runner | the runner is a FIFO with delayed tasks, as `TaskRunner` is |
| `HttpClient_proofs` | theorems about it | extends `HttpClient` |
| `Logger` | Logger, its worker and a rotating FileSink | |
| `Logger_proofs` | theorems about it | extends `Logger` |
| `Transport` | what a connection promises its listener: one answer, data, one end, nothing after a close | |
| `TcpClient` | TcpClient on a UnixSocket, and the tasks the socket posts; the proof of its refinement | implements `Transport` (refinement mapping `PhaseOf`) |
| `WebSocketClient` | handshake, frames and fragments, closing, errors, reconnects, a listener that calls back | `phase` behaves as `Transport` says |
| `Future` | Promise, Future and their shared state: settling on one thread, attaching on another | the group is a queue and its workers, as in `TaskGroup` |
| `Tasks_proofs` | theorems about TaskGroup, its refinement included, about Future and WebSocketClient, and of TcpClient as a part of `MCTasks` | extends `MCTasks` |
| `App` | App, the order of its services, RunDaemon and Shutdown, the shutdown signal, the heartbeat | the group is up, stopped or gone |
| `Events` | Signal and EventManager: slots, snapshots, callbacks that connect, disconnect and emit | the group is a queue and its workers |
| `SocketStream` | UnixSocketRaw's (and UnixSocket's) stream: Connect, sends in parts with files and a timeout, Receive | the kernel takes what it likes |
| `HttpClientPool` | the pool, its handles, threads that wait with a timeout, requests that outlast their handle | clients are busy or not, as `HttpClient` is |
| `HttpServer` | the server's connections: requests, upgrades, frames, limits, streamed files | |
| `TcpServer`, `Udp` | the servers with one or two sockets and listeners that call back; UdpClient; a network that loses, repeats and reorders | |
| `HttpRouter` | patterns with parameters, routes, middlewares, static servers, the handlers that fail; pure | |
| `HttpText` | URLs, forms, multipart bodies and the headers HttpClient writes; how it reads a response that comes in pieces | the response is a small state machine of its own |
| `Watchdog` | fatal timers, the one descriptor for the earliest, the thread, the windows of memory and CPU | |
| `Config` | options, arguments, environment, files, calls and the watcher | `Json` for the values, saved and read again |
| `Json` | values, `dump` and `parse`; a document built by calls, and what of it and of any text is promised | |
| `BtFactory` | trees as documents: building, registered and inline subtrees, taking over nodes, dumping; pure | its trees are those `BehaviorTree` ticks |
| `Metrics` | registry, cells, and `Render` in its steps with the program's threads between | |
| `Tracer` | the ring of trace events: claim, write, dump; the naming of threads | |
| `Files` | `file_utils` over a file system of directories, files and links; `copy` as a state machine of its system calls | |
| `Strings` | splitting, replacing, numbers, UTF-8, socket addresses; readers, writers, Base64, serialize.h; pure | |

Each `MC*` module gives the constants of a component small values; its `.cfg` files are the runs. Six of them
hold a family each, grouped by what a run can do in its time rather than by theme: `MCTasks` (TaskGroup, Future, WebSocketClient,
TcpClient), `MCScheduling` (Timer, CronScheduler with its calendar, Watchdog), `MCIpc` (IpcClient, IpcServer, Udp, SocketStream),
`MCStateMachines` (Fsm, BehaviorTree, Events), `MCHttp` (HttpClient, HttpClientPool, HttpServer, TcpServer, the router and the texts)
and `MCApplication` (Logger, App, Config, Json, Metrics, Tracer, Files, Strings, BtFactory). The initial state chooses one
component (`used`), which the behaviour exercises while the others rest, so a property of the one that rests holds as it does in
its initial state and says nothing there; a pure function has a behaviour of one state for each input. A property of a run is
then a conjunction over the family (`Servers`, `Delivery`, `Documents` and the like). Fairness of a family is paired for the same
reason: of `A \/ B` only one can ever be enabled; liveness is stated once as `Owed[i] ~> Paid[i]`, where `Owed` and `Paid` are those of the component
that is used. In `MCIpc` it is `Owed ~> ~Owed`, where `Owed` says that somebody waits for something: as nothing there is owed more than
finitely often, this is the same for each wait, and one leads-to is checked in a third of the time.

### Conventions

A section under one mutex is one action; what a call does after it unlocks (a wake-up, a notification, a
post) is an action of its own. A variable named like a member of the class stands for that member;
variables called *history* or *ghost* are never read by an action. A set of at most one element
stands for an optional value. An operator `X_Name` before `X` is a mutant of `X` used only to show that a
property can fail.

### How state and actions correspond

* **TaskRunner.** `loop` is where `Run()` stands: `top` (lock, `UpdateWatchTasksLocked`, timeout), `poll`,
  `post` (PostFileDescriptorWatches, one descriptor a step), `pop` (one immediate and one delayed task in one
  section), `imm`/`immRun`, `dly`/`dlyRun`. `call[c] = "wake"` is a thread between its unlock and `WakeUp()`.
  `pollFds` keeps the sign of each entry ("masked" is a negated fd).
* **TaskGroup.** `worker` is `runLoop`: the quit check, `PopWait`, the task, the count-down; `pending` is the
  atomic count that `IsBusy` reads; `owner` is the thread in `Stop` or `StopWaitAll`; `future` is a client in
  `RunUntilCompleted`. `ThreadSafe` notifies under its mutex, so a wait is an action enabled by its predicate.
* **Timer.** `unposted` is a `Set*Timer` between insertion and post; `posted` the executions in the group;
  `worker` is ExecuteTimer: entered (weak pointer tested), callback (looked up under the lock), again (about to
  post a repeating timer). `StopFirst` is App::deinit's order: stop the group, then destroy the timers.
* **CronScheduler.** `heap` is the priority queue as the vector `std::push_heap` and `std::pop_heap` keep, so that a key changed in
  place leaves it out of order as in the code; `thread` is schedulerThread (top, running, waiting, joined), `checked` the
  time the wait was computed for. The calendar has no state of its own in the code: a run asks it for one time at a time. `Tm` and
  `Seconds` are gmtime_r and timegm for years of `MonthDays`, one day longer every `LeapEvery` years.
* **IpcClient.** `pc[c]` is `Call` or `CallAsync`; `reader` is ReadLoop and the FailPendingCalls after it;
  `owner` is Disconnect; `taken` holds calls that were removed from `pending_calls_` and are being completed.
* **IpcServer.** `acceptor`, `reader[c]` and `owner` are the accept loop, a connection's read loop and Stop;
  `clients` is `clients_`. A message is a model value with a kind (request, unknown method, notification). `SendToConn` writes a line,
  or nothing, or a part of it, after which the connection is `torn`: the next line is read together with that part, as no message.
  `cuts` counts such sends, of which a client meets `MaxCuts`.
* **Fsm.** `stack` holds the calls in progress: a frame is the point of Start, Reset or ProcessEvent whose
  callback is running, with what the C++ locals hold. A callback may begin another call, return or throw.
* **BehaviorTree.** `node[n]` is what changes of a Node; `Tick(n, s)` is `Node::tick`: `Begin` (OnStart), `OnTick`, `Finish`
  (OnStop). The loops of composites, Retry and Repeater are the recursions `Walk` and `Again`. `age` is
  the time since OnStart and `lost` what Delay's int loses of its start; a tree's `Trees` record gives kinds, children and
  ports. An inner tree hangs under its SubTree, whose `reset` does not reach it.
* **HttpClient.** `pc[t]` is a caller in Send, SendAsync, Cancel or the destructor; `runner`, `queue` and
  `timers` are the task runner; `transport` the connection; `active` and `generation` the two counters that
  decide whether a timer or a cancel still concerns the request. A response is a kind (part, open-ended, whole,
  redirect, error) and the request it belongs to.
* **Logger.** `worker` is WorkerThread with the three points between `queue_mutex_`'s lock and its wait;
  `pc`/`hand` a caller and what it has to write; `file` what the file system holds at each path; `opened` whether the sink's file opened
  when it was made. `Crash` is a write whose rotation could not open the file again: the program ends in fwrite.
* **TcpClient.** `socket` is `UnixSocket::state_`, `posted` the runner's tasks that hold a weak pointer to the present socket:
  they do nothing once it is replaced or reset, so they vanish with it. `Event` is a posted `OnEvent` or the watch. The calls that
  `TcpClient::OnConnect(false)` makes one after the other are two steps, as the listener may call between them.
* **WebSocketClient.** `todo` is what the runner's current task still does after the callback it is in: `failed` and `lost` are the
  ends of HandleError and OnDisconnected, `refused` the OnConnected(false) after OnError, `handshake` and `frames` the two loops
  over `receive_buffer_`. A server's bytes are the items of a script (a response, a frame), each in two halves, of
  which any number arrive together. `Talks` are the applications and servers, for which `WebAssumption` says what a script is: the
  answer to the upgrade comes first and nothing after a close frame; a legal server sends fragments in their places. (A message
  that did follow a close frame would be delivered: the code goes on with the frames it has.) `Heard(n)` says that the listener has
  exactly the messages in the first n items.

* **Future.** State 0 is the promise's; attachment i that is a Then makes state i. `task[t]` is what a thread does: `settle` before
  the section of SetValue or SetError, `taken` after it (the continuation in hand, `executor` not yet read), `run` in the
  continuation. `held` are the states whose mutex SetContinuation keeps while it runs a continuation itself. `tries` are the Thens whose
  `try` the thread is in, the innermost last: a value is handed on within it, an error from its `catch` or from no try. What is thrown
  is a std::exception; anything else would leave every `try` of the header.
* **Events.** `stack[t]` holds the calls a thread is in, the innermost first: an emission before (`emit`) and after (`send`) its
  snapshot, a callback, Stop. A slot is a subscriber and its id. `mode` is the object: a Signal, or a manager whose group is its own
  or borrowed. `emissions` and `heard` are history.

* **App.** `stage` is where `App::Run` stands: `enter` (the thread exists, `running_` is not set), `sort` (pre_run up to TopoSortServices),
  `init k`, `loop`, `deinit k`, `join` (in `async_tg_->Stop`), `reset` (`async_tg_.reset`, which waits for the main runner), `flush` (the logger's Shutdown), `stuck` in it, `over`.
  `caller` is the user's thread in RunDaemon or Run, Shutdown and the destructor; `job` RunDaemon's task in the pool; `beat` the
  heartbeat on a worker, in the main runner's queue or running.

* **HttpServer, TcpServer, Udp.** Everything but the peers runs on one thread, so a step is a callback of the task runner with all it
  calls; `front` and `busy` are where `OnDataAvailable` stands between two messages, when the handler may have closed the connection.
  `told` and `report` are what listeners heard. `habit`, `use` are the applications: what they do in callbacks and how often they start.
  `telling` is the connection whose OnClientDisconnected is under way in TcpServer, between the look-up and the erase through the same
  iterator; what the listener calls there are steps of their own.
* **SocketStream.** `step` is a system call: `connect`, `sendmsg` (which takes any part), `poll` until the timeout, `shutdown`;
  `wire` are the kernel's bytes, files riding on the first byte they were sent with.
* **HttpClientPool.** `at[t]` is the thread in Acquire; `holds` and `moved` the client of its Handle and of the temporary one it assigns from.
* **Watchdog.** `thread` is ThreadMain between its poll, its read of the descriptor and its look at the timers; `armed` the descriptor.
* **Config.** A call is a step; the watcher is `event` (inotify), `loading` (between its read and its load), `told` (the callback).
* **Metrics, Tracer.** `FormatDouble` keeps `Precision` digits, six in the code, one in the run, whose bounds 11 and 12 then have one
  label and whose sums are rounded. `render` is what is left to list and to read; `seen` the history of each cell. `thread[t].push` is a push between its
  `fetch_add` and the last byte of the slot; `reader` a call of `data`.
* **Json, HttpText, HttpRouter, Strings, Files, BtFactory.** Operators with the functions' names. Texts are sequences of codes or of the
  pieces that matter ("CR", "://"); numbers have as many digits and decimals as the bounds give them.

## 3. Runs

Every run is exhaustive for its bounds; "pass" runs check deadlock unless the component may simply stop. The properties
a cfg names are mostly conjunctions, defined at the end of each module, of the parts the table speaks of
(`PollSet`, `Accounting`, `CallAccounting`, `Progress` and so on).

| Run | What it asks | Bounds, and why they suffice |
|---|---|---|
| `task_runner` | no wake-up is lost (`NoLostWakeup`), `poll_fds_` follows the watches (`PollSetMatchesWatches`), a masked descriptor has its callback coming (`MaskedOnlyWhilePending`), every accepted task runs, watches are served, Quit returns, and the runner is an Executor | two threads and the loop's own tasks; three loads: two immediate tasks, one of each kind with a descriptor, two delayed tasks. Two pushes meet one wake-up, a cancel meets a second delayed task, a rebuild meets a pending callback |
| `tasks` | TaskGroup: `BusyCount` is exact, nothing is lost or run twice, `StopWaitAll` drains, tasks finish, Stop and RunUntilCompleted return; the group is an Executor. Future: a state holds what its chain comes to, or the error of a handler that threw further on (`ResultsFollow`), each function is called once, in its turn and where it was asked to be (`CalledInTurn`), and all is settled (`Settled`). WebSocket: messages are whole, once and in order however they are cut (`MessagesDelivered`), a connection is announced once and ends once (`LifeOfConnection`), at most one close frame is sent (`ClosesOnce`), a client that lost its connection has one again (`Reconnects`). TCP: the listener hears what `Transport` allows, and an ended socket is reported (`Reported`) | group: two workers, two clients, three tasks: one running, one queued, one delayed, while both flags change. Future: chains of two functions and a handler, with every choice of executor and of functions and handlers that throw. WebSocket: scripts of up to six items: two messages, one in three fragments with a ping inside; servers that end within an item or break the rules; three waiting reconnects. TCP: three connects, two chunks |
| `future_example` | *violation*: "use Then() for value continuations, OnError() for error handling", as the example does on one future | one thread attaches, one settles |
| `scheduling` | Timer: one execution per active timer, cancellations are exact and final, nothing early, nothing after destruction, timers fire and keep firing. Cron: a task that is not cancelled is queued or running (`NothingLost`), it begins no sooner than an interval after it began before, a cancelled one not at all, and Stop returns. Calendar: `calcNextRunTime` returns the earliest matching time, or nothing matches for a year and it returns that time a year on (`EarliestMatch`). Watchdog: while a timer is held its descriptor is armed for the earliest deadline, or the thread is about to arm it; only a timer that is overdue, or a full window above its limit, kills, and one that is overdue kills | two timers, two workers, instants 0..2, two callbacks each: a repeating timer overlaps its cancellation, its next period and the other timer. Three tasks with runs of different lengths, two starts: a heap of three is needed for a wrong order. Calendar: minutes, hours and days of two units, three months of three, one (or two, in a leap year) and two days, so that days 2 and 3 are not in every month; years of six and seven days and weeks of four, so that weekdays drift against dates; 11 jumps, which a day and a weekday that do not meet use up; 1,512 schedules of at most one second, minute and month, two days and two weekdays, from five origins in both kinds of year. Watchdog: two users with two timers of one or two time units, one limit set once, five instants |
| `ipc` | client: a call completes once, in one pair of hands, leaves no entry, is woken at the end of its connection; Call, Disconnect and callbacks come back. Server: Stop finds and joins every thread, a broadcast reaches every lasting connection and a request has one answer, where each send that was cut costs its client two messages at most (`Delivery`), silence after Stop; Stop returns, and a request that was read is answered unless a send to its client was cut (`Returns`). UDP (`Delivery`): data is heard only between a ready and a closed, or a new and a timeout, and is what somebody sent, cut to the buffer; `clients_` holds who was not silent for too long; what arrives is read (`Returns`). Socket stream (`Delivery`): what is read is what was sent, in order and without a gap but for what a failed read took; a result tells what the kernel took; a file is handed over or closed, once, and never without a byte of its message; a call leaves the socket's mode as it was; a send or a connect with a timeout returns (`Returns`) | client: one waiting and one callback call, two connections, faulty transports. Server: two connections (one sends a request, the other an unknown method), two starts, one broadcast, a failing accept. One send to c1 may be cut, so that an answer and a broadcast meet a torn line; c2 never stalls, so that what it is due does not depend on c1. UDP: one client, opened twice, or once with a server that is started again and stopped by its listener; two datagrams, empty, whole or too long, lost, repeated or out of order; two time units. Stream: one or two messages of up to three bytes and two files, a kernel that takes any part of two bytes |
| `ipc_client_late` | *violation*: "Wake all pending calls on disconnect" | one callback call |
| `state_machines` | FSM: enters and exits balance, an event moves the machine out of the state it is in, the history is the last moves and within its limit. Tree: a status is what the children's statuses give (`Agreement`), what is started is a line from the root and everything else begins anew (`OneLine`), an event on the line is at most one tick old (`EventsHeard`), a ticked tree ends. Events: an emission reaches each slot of its snapshot once (`ReachesSnapshot`), none that was disconnected before it (`GoneIsSilent`), one thread's emissions in order (`InOrder`), a subscription lasts until its own Disconnect (`OwnSlotOnly`), Stop leaves no callback running (`QuietAfterStop`), and everything returns (`Dispatched`) | FSM: three states, two events, four calls nested three deep, history of one or three. Tree: five trees of six to nine nodes with every kind of node under or above one that resets, interrupts or abandons it; two events, a port of two time units. Events: two subscribers with three connects, two emissions, two users and a worker: a slot is replaced between two snapshots |
| `http` | Client: on the task runner each request is answered once (`Exclusive`) and by its own answer, Cancel silences it and bodies are whole (`OwnAnswer`); on any thread the destructor outlasts the runner's use of it, every request ends (`Heard`). Pool: a client is free or lent to one thread, nobody sleeps while one is free, and one that is lent is idle (`Servers`). Server (`Servers`): a request has one response, none goes to a WebSocket, and the handler hears once, and last, that a connection closed. TCP server (`Servers`): the listener hears of each connection and of its end once, whoever ends it. No end and no request is missed (`Heard`). Router (`Routing`): a pattern matches what it means and gives its parameters; a request has one handler, the first that fits. Texts (`Texts`): a response is the same however it is cut; URLs, forms, multipart bodies and headers read back as what was written | client: three requests from the runner's own thread, or two from two threads; one redirect. Pool: three threads, two clients, four acquires: one waits while two return. Server: two requests, or an upgrade and two frames, of every kind and in any pieces. TCP: two clients, two starts, a listener that closes, broadcasts and stops inside callbacks, also while it is told of an end, families that cannot be had. Router: patterns of two segments, two routes behind one middleware or a static directory. Responses of two parts that look like ends, with framing that is true or not |
| `application` | App: services come up once, after what they need, and down before it, all of them while the group still works, only a cycle or an unknown dependency ends the process (`Lifecycle`), a shutdown at any moment ends Run, and the user's Shutdown returns, unless the logger's Shutdown is stuck (`Ends`). Log: every entry is in one place, order without Flush, Shutdown drains (`EntryAccounting`), what is queued is written (`Ends`). Configuration (`Settings`): a setting is what the last of flag, file, environment and default says it is, a watcher's settings are those of a whole file and finally of the last one. Documents (`Documents`): JSON reads back what it writes and accepts what the grammar does, copies are whole or false, paths, numbers, UTF-8, addresses, Base64, readers and writers and trees of the behaviour tree agree with a definition of what they mean. Metrics and traces (`Measured`): what is rendered was so at one moment of the rendering, with its digits for bounds and sums, nothing counted is lost; a dump of a quiet ring has the last events, whole and in order | App: every graph of three services, cycles included, with a signal; a chain with RunDaemon and each way to shut down. Log: three entries, two threads, a queue of two, one Flush; a file that is full after one entry. Configuration: two options with every pair of eleven kinds of arguments, four contents, two calls, two writes. JSON: documents of three edits, texts of up to five characters of numbers or pieces, with the greatest and the least integer at their edge. Metrics: two of any kind, four operations against each step of Render, numbers of one digit. Trace: a ring of two slots, four records of one thread or two. Trees of the file system with every kind of node below two levels |
| `daemon_early` | *violation*: "Block until the daemon thread has finished bringing services up" | a chain of three services |
| `logger_rotation`, `logger_shutdown` | *violations*: "Rotating file (path, max_bytes, max_items)" (`RotationBounds`); "After Shutdown, the worker thread is joined" (`ShutdownReturns`) | one thread and three entries, or one |

The smallest interesting case of every hazard needs two actors and at most two items; the bounds let that happen
with one more of one kind.

### Fairness

Weak fairness is given to what a thread does inside a call, to the loops of the worker and reader threads, and to
the clock: threads are scheduled, callbacks return, time passes. Nobody has to call anything, a peer
has to do nothing, `accept` and `send` may fail. `TaskRunner` needs strong fairness of the end of a task
because a task may go on calling into the runner, which leaves and re-enters the point where it can return.
A condition variable's spurious wake-up has no fairness: a liveness property must not rely on it.
`Reconnects` asks more of the network: retries meet a server that speaks, takes the connection and responds again and again
(strong fairness of `Retries`, `Serves` and `Responds`), and one that has accepted finishes its response or hangs up, because nothing in the client bounds the
handshake.

### Where a property is restricted, and what happens without the restriction

A run's properties hold for the uses below. Outside them the code behaves differently, and TLC shows how
when the constant is widened:

* `TaskRunner`, `MaxRuns = 1`. With a second `Run()` after `Quit()`, `MaskedOnlyWhilePending` fails:
  PostFileDescriptorWatches negates the descriptor although PostTask dropped the callback (lines 147-150, 190), and
  nothing makes it positive again until a watch changes.
* `TaskRunner`: `CancelDelayedTask` returns false for a task that has not started (task_runner.h:34 says it has): the loop took it
  from the map together with an immediate task, which runs first. `DeniedHasStarted` states the comment; it fails with
  one thread and one load of an immediate and a delayed task.
* `Timer`, `StopFirst = TRUE` and `MaxDelay` beyond the horizon. With `StopFirst = FALSE`, `NotUsedDestroyed` fails: a
  weak pointer is tested on a worker while the owner destroys the timer. With a smaller `MaxDelay`, `NotEarly`
  fails: a delay is clamped to 2^32-1 ms and the time is not looked at again.
* `IpcClient`, `Faults = {"late", "partial"}`; the faults of a behaviour are a subset. `AllWoken` excludes `late`
  (its negation is the run `ipc_client_late`) and `SentIsInFlight` excludes `partial`: a torn line stays in the
  stream and swallows the next message. With `reconnect` the owner calls Connect after the peer hung up without
  Disconnect, and the assignment to a joinable `read_thread_` terminates the program (`reader = "terminated"`).
* `IpcServer`, `MaxCuts`: the result of a send with its timeout of 5000 ms is ignored (ipc_channel.cc:301-302), so a client that stalls and stays
  connected loses or tears an answer or a broadcast, which nobody sends again: `BroadcastsDelivered` and `RequestAnswered` make
  an exception for a connection with cuts, and only for as many messages as these can cost. The client's waiting Call then ends with its
  timeout; a callback call whose answer was lost (`ReplyLost`) has its entry until the connection ends, which is why `CallbackComes` is about transports without faults.
* `IpcServer`: after one failing `accept` the accept loop ends while the server runs; the properties hold, but
  nobody connects any more.
* `Fsm`, `Apps`: `onEnter` and `onUpdate` may call the machine, guards and updates may throw. `HistoryTracksMoves`
  excludes machines whose `onEnter` raises events: the inner move is then recorded twice and the outer not at all
  (`TracksMoves` fails). A call from `onExit` or an action breaks `MovesFromCurrent`, an exception in an action
  breaks `Balanced`.
* `BehaviorTree`, `Losses = {0}`: clocks below 2^31 ms (25 days of uptime). Above, a Delay does not delay: `DelayHolds` fails with `Losses = {0, 4}`.
  Time does not pass within a tick, a user's function says Running `Patience` times in a row at most, and nodes whose
  required ports are missing, which throw, are left out. `OneLine` states the two ways in which a child
  keeps running under a parent that does not: a Timeout that expired and a SubTree that was reset from outside.
* `CronScheduler`: a wait ends when the task that was the earliest is due, even if an earlier one is added: `addTask` notifies, but the
  predicate looks only for the stop (cron_scheduler.cc:150). `WakesForEarliest` fails with two tasks.
* `CronScheduler`, the calendar: 400 jumps reach a little more than a year. A day and a weekday that meet later (the 31st on a Monday, from
  1 August 2023) give the fallback, which does not match: `RunMatches` ("one set per field", "an empty set means wildcard", api-reference.md:887) fails for them, on the
  calendar of the run too, and `EarliestMatch` says when: nothing matches for a year. The
  centuries without a leap year are not modelled.
* `App`: Run ends with the logger's Shutdown (app.cc:258), whose join may not return (`logger_shutdown`): then `running_` stays set and who waits for it
  waits for ever. `Ends` leaves out a Run that is `Stuck` there, with all its services down.
  Shutdown from a task of the main runner waits for Run, and Run for the runner (`Ends` excludes it). A heartbeat that waits
  on the main runner while Run ends reads `async_tg_` when it is null, and so may RunDaemon (`NoUseOfGone` fails); with a shutdown
  before RunDaemon has posted its task, RunDaemon does not return. `ReleasedWhenBack` ("wait until resource released", service.h:85) fails as
  `UpWhenBack` does. Two services of one name bring the first up twice and the other never; names are distinct in the model.
* `HttpClient`, `Uses`: with callers on other threads than the runner's, SendAsync resets the request before it stores the
  new generation, and an old timer may complete the new request and leave the client busy (`TakesAnother`
  fails); Send reads `current_` after its wait, when another thread's request may have replaced it; and late bytes of
  an old request may become a part of the new one's answer, or an answer to one that was cancelled (`NotTruncated` and `CancelSilences`
  fail with three requests from two threads). `OwnAnswer` is therefore about calls on the task runner. With
  `follow = FALSE` a redirect calls CompleteRequest and HandleRedirect in turn without end. With a server
  that closes early, a part of a body is delivered as a success (`WholeBodies` fails).
* `TcpClient`: an owner that is told of an error does not connect again before OnConnected(false) has come. `ConnectedMeansUp`
  ("Not connected yet, just a spurious FD watch wakeup", unix_socket.cc:750) fails: SO_ERROR is zero, not EINPROGRESS, while a connect
  goes on, so the OnEvent that DoConnect posts reports success before there is a connection; a later refusal then is an end.
  After an error the client takes no Connect until somebody calls Disconnect.
* `WebSocketClient`: a new connection keeps `receive_buffer_`, `receiving_fragmented_` and `close_sent_` of the last one. `ClosesOnce`
  excludes a stale `close_sent_`, with which a server's close frame is not echoed (`EchoesClose` fails); `Lasting` has servers that do
  not fragment, since a connection lost within a message refuses every data message of the next and leftovers spoil its handshake. A
  refused connect schedules two reconnects (OnError, then OnConnected(false)), Disconnect cancels none of them, and a message that
  follows an error, or a Disconnect within a callback, is still delivered. `MessagesDelivered` therefore stops at the first error.
* `Events`: `Modes` have one thread that connects to a Signal. With `races = TRUE`, two threads that connect at once may get the same id
  (`next_id_` is no atomic and is read outside the mutex, signal.h:116), and one's Disconnect removes both (`OwnSlotOnly` fails).
  A callback may begin after its own Disconnect has returned, when the snapshot was taken before. A manager with a borrowed
  group does not "prevent further dispatch" (event.h:130): what is queued is called after Stop (`NoDispatchAfterStop` fails), and a Connect
  after Stop keeps a slot nobody will call.
* `Future`: a program attaches one continuation to a state (`OneEach`); the second would replace the first (`future_example`). An OnError
  handler that throws, run inline within the Then before it, makes that Then's `catch` set an error on a state that has a value already
  and has told it (future.h:229): `Overwritten` says of which states a value may turn into whose error. On a group it is caught and dropped. A
  continuation attached inline to a state that is ready runs under its mutex: a function that attaches to the same future waits
  for itself. Attachments to a group that is stopped are dropped, and what follows is never settled.
* `TcpServer`: StartDualStack listens on one family only ("Start listening on IPv4 and IPv6", `DualStack` fails): its second Start finds
  `running_` set; and when the first fails and the second does not, the server listens with `running_` false. Broadcast erases a
  connection that has just ended without a word (`LeaveIsTold` fails), hence the habit `broadcast`; a connection closed by its own
  Close stays in the list, hence `closeItself`. A listener that drops the connection it is being told of (CloseConnection, Stop, or a
  Broadcast that finds it ended, in OnClientDisconnected) erases it under the iterator that is erased next (tcp_server.cc:202, 233):
  `ErasesListed` fails with the habit `dropsTold`, and as what follows is undefined, the behaviour ends there (`broken`).
* `HttpServer`: a request that comes with one that closes the connection is handled, and its response goes nowhere. A file that shrinks while
  it is streamed ends the program (`FilesShrink`, `ChecksHold`). Stop within a handler would free the connection that is in use.
* `HttpRouter`: a '.' in a pattern stands for any character; a user's group moves the names of the parameters after it; a static
  server looks for the whole URI, so that a query gives 403, as does a file that is not there; an OPTIONS with CORS never reaches
  the routes.
* `HttpText`: the size of a chunk is an int and what stands after it must be a line's end; the two bytes after a chunk are not looked at;
  bytes after Content-Length are delivered; HEAD, 204 and 304 wait for the end of the connection; an interim 1xx is taken for the response.
* `HttpClientPool`: a handle released while its request is in flight passes a busy client on (`LentIdle` asks for `keeps`); the
  destructor does not wait for the threads it wakes; `h = pool.Acquire()`, with the last client in `h`, waits for its own timeout.
* `Udp`: Send, Receive and a reply before Open dereference null; StartDualStack on a running server leaves a listener that Stop does not stop;
  data are reported after a Stop within OnNewClient; an empty datagram closes a UdpClient; OnClosed is told of a socket that never opened.
* `SocketStream`: a read that gets files without a place for them has taken its bytes when it fails with EMSGSIZE (unix_socket.cc:493); a UnixSocket
  shuts itself then, a UnixSocketRaw goes on with what comes next, so that the order (`InOrder`) has a gap of just these bytes (`refused`).
  For files received without a vector for them the header promises that they are closed, and the code returns EMSGSIZE, loses
  the bytes and shuts the socket. A Send without timeout may wait for ever, where the header promises false for a full buffer.
  The files of a message without bytes are never sent, though Send returns true. An odd limit of files lets one more through, closed.
* `Watchdog`: Reset leaves `filled_` alone: after a second limit is set, a window that is not full is judged (`WholeWindow` fails), hence `FirstWindow`.
* `Config`: calls come while nothing watches, as the settings have no lock. `Tracer`: `Traced` is about dumps during which nobody records;
  others read slots that are unset or half written. A thread's name is lost by nested scopes or by other threads' pushes, and an
  index of 0 names a thread twice; `end` does not look at which event it ends.
* `Metrics`: numbers have six digits in the text: bounds that are nearer give two lines with one `le`, and a sum of 1234567.5 is read as 1.23457e+06;
  `Near` is what a reader may rely on. The sum itself is added exactly in the model. One name in two kinds is rendered twice, and label values of the wrong number collide (`Regular` excludes both); a NaN
  is counted in every bucket; help texts are not escaped.
* `BtFactory`: a registered tree that refers to itself, at any distance, is built until the stack is full, which ends the program (here: an error). A dump omits
  inline subtrees and the children of an empty composite, so that it does not build the same tree again; files and trees share one table of names; the ids of a
  subtree's nodes repeat those of the tree around it; a `tree_name` that refers to the blackboard is not looked up.
* `Files`: a copy onto itself empties the file; of a source that says it has no bytes nothing is copied and the result is true; mkdir is true at a
  dangling link; `remove_all` follows links; dirname of "/a" is empty.
* `Strings`: F5 to F7 lead valid UTF-8 sequences; "+-5" is an int; a float, or a number too large for its type, is cast; TrimWhitespace leaves a
  carriage return; ":80" is undefined. CanRead and CanWrite wrap for counts near the end of `size_t`; '=' anywhere in Base64 is six zero bits.
* `Logger`: a file that did not open when the sink was made swallows every entry (`lost`); one that does not open again after its rotation makes the
  write crash (sink.cc:161), and the behaviour ends there. Flush returns while the worker holds an entry it took before ("After flush, all messages should be delivered",
  `FlushDelivers` fails).

### Findings

Five disagreements between the code and what its docs, comments or tests say are kept as runs: RunDaemon returns before the services
are up; the example of Then and OnError on one future keeps only the second; a late CallAsync stays pending after "wake all pending
calls"; a rotating file never rotates, because `Rotate` looks for its backups beneath the log file itself; `Shutdown` of the logger
can miss its own wake-up and block in `join`.
More are described above, among them the cron task whose day and weekday do not meet within a year and the crash of a write after a rotation.

## 4. Proofs

The proofs are for every value of the constants: any number of threads, workers, tasks, descriptors, timers, calls,
connections, messages, bytes, states and events. They use the named assumptions on the constants (`RunnerAssumption`: the loop is none of
the other threads, the eventfd is no watched descriptor; `GroupAssumption`: some workers, finitely many, none of them a client;
and the like, mostly that bounds are naturals) and, where a theorem says so, a hypothesis on how the component is used, which
section 3 explains and the runs satisfy. Each proof has the shape of the module: an invariant `IInv`, strong enough to be
inductive, whose parts are named for what they say; `InitInv`; a lemma for each action, or for actions that change the same
state; `StepInv`; and the theorems.

**Task runner** (`TaskRunner_proofs`). `NoLostWakeup` says: where the loop may block in poll, there is no work it has not seen,
or the eventfd is raised, or a thread is about to raise it. It is not inductive: a step into `poll` depends on the eventfd being in the
poll set and never masked, on `revents` being consumed, and on the promised wake-up being another thread's
than the loop's. `IInv` adds these and `PollSetMatchesWatches`. `FirstIsEarliest` shows that the timeout computed from
the first entry of `delayed_tasks_` is early enough for all, by the well-foundedness of the naturals. Theorems:
`TypeCorrect`, `PollSetCorrect`, `NeverSleepsPastWork`. `PollSetServed` adds that a masked descriptor has its callback coming
(`PollSet`), for a runner whose Run is called once (`MaxRuns <= 1`): a second Run finds what PostTask dropped after Quit still
masked. Its invariant `OneRun` follows the callback of a masked descriptor from `revents` through the queue into the loop's
hands. `Implements` is the refinement of `Executor`, for any number of runs. It rests on `Queuing`: an accepted task that has not
started, nor been cancelled or refused, is in one place, once (`OnePlace`): the queue, the map, or what the loop has popped.
`PhaseOf`, which asks where a task is, then equals a `SimplePhase` that asks only the histories, and a step moves at most
one task (`OneMove`, `NoMove`).

**Task group** (`Tasks_proofs`). `BusyCount` alone is not inductive either: that a count-down never passes zero, and that a task in
the queue is a task not started, depend on what the queue holds and on who is busy. `IInv` adds `Queuing`
(the queue is exactly the accepted tasks that have not started, each once) and `Stopping` (what
StopWaitAll is to drain was accepted before; Stop returns after the last worker). The cardinality of the busy workers
moves by one with a pop or a count-down (`BusyGrows`, `BusyShrinks`). Theorems: `BooksBalance` (`Accounting`), `Drains`
(`StopWaitAllDrains`, by `IdleMeansDone`: a zero count leaves nothing accepted unfinished), `StopIsFinal` (`QuietAfterStop`)
and `Implements`, the refinement of `Executor`.

**Future** (`Tasks_proofs`). `ChainsFollow` (`Chained`) has the hypothesis `Linear`: a program is any sequence of attachments, each to a
state that exists, and no two to one state, because a SharedState keeps one continuation (without it the code does not keep the
property, as `future_example` shows). `ChainInv` says where a continuation is: stored at a state that is not ready (`Waiting`), posted
to the group (`PostedOnes`), or taken or run by one thread (`InHand`), in one of these places at most; a state is
settled after its function has been called, by one thread (`Deciding`), with what its chain comes to (`Decided`), or it was overwritten by a
handler that throws, of whose `try` the thread's `tries` tell. What the chain comes to, `Result`, is a
recursive function; `ResultStep` proves that it exists and what its equation says, by the least state for which it would not.

**WebSocket client** (`Tasks_proofs`). `Converses` is for any servers and applications that keep to `WebAssumption`: scripts of any length, cut
anywhere, any calls from callbacks, any number of reconnects. That messages are whole needs to know where in the script the client is:
`Buffered` says that the buffer holds the halves that arrived after the `Spent` ones, which are whole items, perhaps behind junk of an
earlier connection; `Conversing` that the listener has heard the messages of the spent items and that `fragmented_message_` is
the open one, or else that a stale `receiving_fragmented_` has let nothing through yet. `Tasking` says what the task still to do
implies, `Ending` that nothing can come once the end was told (the transport is gone, or the close frame was the last item and is used),
`Closings` how `close_sent_`, the state and the frames sent go together. The lemmas on scripts (`OpenNext`, `SinceNext`, `EndsNext`) go from
n items to n + 1, so that no induction over the script is needed; `Shifting` does the arithmetic of halves for the handshake and for every
frame.

**Timer** (`Timer_proofs`). An execution of a timer is about to be posted, posted, or in one worker's hands (`Places`); the map, the
flags and what CancelTimer answered fit each other (`Books`). From these come `OneExecutionEach` and `CancelIsFinal`
(`CancelFinal`). `SchedulingCorrect` (`Scheduling`: cancellations exact, nothing early, nothing used after its destruction) has the
hypotheses `StopFirst`, App::deinit's order, and `NoClamp`, no delay of more than 2^32-1 ms: without either the code does not keep it.
`Timing` is its strengthening: `next_execution` is the time of the callback to come until that begins, of the last one until it is
advanced, and nothing is posted for an earlier time.

**IPC client** (`Ipc_proofs`). `Holding` (a call is with the map, the reader or Disconnect, never with two), `Wires` (what the
reader's place says of the socket, the peer and the owner) and `Waking` (a call that enters the map after FailPendingCalls took
it cannot be sent and takes itself out again) make `CallAccounting` inductive. Theorem: `CallsAccounted`.

**IPC server** (`Ipc_proofs`). `Stages` (how far Start and Stop are) and `Held` (where each connection is, and that its socket is
shut before its thread has ended) give `StopFindsThreads` (`ThreadAccounting`) and `NothingAfterStop` (`SilentAfterStop`); with
`Unmet`, `Met` and `Once`, what has been written to whom, they give `DeliveredOnce`: broadcasts reach every lasting connection, and each
request has one answer at most. `Met` counts what a connection is still due against its cuts: a cut loses its own line, and one more if it is torn
by it. The hypothesis `Sound` says that clients send messages and that each has a kind.

**UDP** (`Ipc_proofs`). `DatagramsHeard` is Udp's `Safe`, for any clients and lengths. It is inductive with `Posted` (sockets, and
datagrams that go to the server or come from it), `Heard` (the histories keep two entries at most) and `Arrived`: what the kernel
holds for a socket was sent to the address it has now, which a client that opens again does not have any more. `UdpAssumption` says
that the server is no client.

**Streams** (`Ipc_proofs`). `StreamSafe` is SocketStream's `Safe`, for messages of any number and length, any room in the kernel and any
reads. `Followed` is the order: what was read, what failed reads took (`CutAt`) and what is on the wire make `Sent`; `FlattenStep` says that `FlattenSeq` of
one sequence more ends with it, by the least index for which it would not. `Remaining` says what `rest` is, in which
the calls of ShiftMsgHdrPosix meet the count of bytes taken; `WholeOnes` that a UnixSocket goes on only after a whole message. For the files:
`OnWire` (each byte is on the wire once), hence a file is, and `Placed` (a file is with the reader, closed or on the wire exactly if the first
byte of its message was taken or the message was given up). `Dialling` ties the blocking mode and the connection to the call. `StreamAssumption`
says that messages have lengths, and that a UnixSocket is not in blocking mode, as unix_socket.cc sets it when it is made.

**Families.** `Ipc_proofs` and `Tasks_proofs` extend the modules the runs check, so that what is proved of a part is also proved of
the property the run names: a step of the family is a step of one part and leaves the variables of the others alone
(`PartsAlone`), so a behaviour of the family is one of each part. Theorems: `ThreadsAccounted` (`ThreadAccounting`), `Silence`
(`SilentAfterStop`), `AllDelivered` (`Delivery`: `DeliveredOnce`, `DatagramsHeard` and `StreamSafe` together), `Transports`
(`ImplementsTransport`), `ChainsFollow` (`Chained`), `ConnectionsHold` (`Connections`: `Converses` and TcpClient's types, for which `TcpInv`
adds that a chunk that waits was sent).

**Logger** (`Logger_proofs`). `AccountingHolds` is `EntryAccounting`, whole. `Handed` says that what callers have in hand, in WriteLogSync and in
Flush, is disjoint; `Queueing` that what was queued is not counted as dropped. `Conserved` counts each entry in
the queue, with the worker, in hands, in the file, among the dropped and among the lost: `CopiesPlaced` moves one copy from
one place to another, and a crash leaves each where it is. `Ordered` puts the numbers of what was queued in order from the file by the worker's hand to the end of the queue, where
Flush has not come between; `Ending` is what Shutdown leaves. `OneFile` is the finding `logger_rotation` as an invariant:
a rename to a name beneath the log file fails, by a fold over sequences of any length (`RenamesNothing`), so there is one file, and nothing is
ever taken from it.

**TCP client** (`TcpClient`). `Attached` lists what each state of the socket leaves in `state_` and in the runner's queue: seven cases,
which are all that the tasks posted by Shutdown and DoConnect can find. `ImplementsTheTransport` is the refinement of `Transport`.

**State machine** (`Fsm_proofs`). The calls in progress are a stack of any depth. `Innermost`: only the innermost call is in the middle of
a move, and it moves out of the current state, into a state. `Entered`: a state is entered as often as it is exited, the current one
once more unless a move is in progress, and after a second Start still no less often. Theorems: `LifecycleBalanced` (`Consistent`) and
`LeavesTheCurrentState` (`MovesFromCurrent`), for applications whose guards, onExit and actions leave the machine alone (`Unmoved`)
and whose onExit and actions do not throw (`Whole`); section 3 says what happens otherwise.

**HTTP client** (`HttpClient_proofs`). What holds of every application is `Base`: `Locking` (request_mutex_ from SendAsync's
compare_exchange to its end), `Counting` (a request that is not completed has the generation its timer and its posted tasks know),
`Unstarted` and `Ending`. What needs calls made on the task runner is `OnRunner`: `OneCall`, `Stages` (what each step of the call and
of the runner leaves in `current_`), `OwnTimer` (the timer of the current generation is the current request's), `Closing` (a Cancel
inside a callback leaves the client busy exactly until its task has run) and `Answering`: the answer to a request is with the
runner, in its queue or given, in one of these at most, and fits the request. The callbacks of the transport are of a few kinds, each a lemma:
the request goes on (`GoesOn`), is stored (`IsStored`), cancelled (`IsCancelled`, `IsCancelledInside`), or the callback is ignored
(`IsIgnored`). Theorems: `OneAnswerEach` (`Exclusive`) and `AnswersAreOwn` (`OwnAnswer`).

Only model-checked: all liveness (TLAPS has no ENABLED); the modules with RECURSIVE operators (`BehaviorTree`, `CronScheduler`,
`Json`, `BtFactory` and other texts), which the provers do not take, and with them the families they belong to, whose `MC*`
modules reach them: `OnSchedule`, `Coherent`, `Emissions`, `Servers`, `Routing`, `Texts`, `Lifecycle`, `Settings`, `Documents` and `Measured`, but for
the parts proved above. Of FSM, `HistoryTracksMoves` would need induction over the history's length.

## 5. Not modelled, and the plan

The components without a module are listed in `PROJECT.json` with the reason: ThreadTaskRunner's hand-over, transports over TLS,
SHA-1, the inspector, scripting (a third-party interpreter), the behaviour tree's loggers, the logger's context and builder. In the
modelled ones these are left out: UnixTaskRunner's watchdog guard and its test clock; SystemTimer's conversion of wall-clock times;
notifications from server to client (a signal on the read thread); cookies but for what the client stores of them; the lifetime of
transport objects; the WebSocket ping timer, the bytes of frames and the checks of handshake fields; `OnReadable` listeners, which read
for themselves; SIGPIPE, ancillary credentials and vsock; console output and stdio's buffer; dates; the digits a double has beyond those a bound names.

Order of work, the most important first:

1. Task runner, worker pool, timer (done), with proofs (done).
2. IPC client and server, FSM, behaviour tree, HTTP client, logger (done).
3. CronScheduler (done); ThreadTaskRunner's hand-over as an extension of `TaskRunner`.
4. EventManager, Signal, Future (done).
5. WebSocketClient, UnixSocket and TcpClient, HttpClientPool, the HTTP server, the TCP and UDP servers (done).
6. App start-up and shut-down with its services and the signal handler, the watchdog, the configuration and its watcher, metrics, traces (done).
7. Pure algorithms, each checked against a definition over bounded inputs: JSON, Base64, readers and writers, routes,
   multipart bodies, strings, paths, trees as documents (done); SHA-1.
8. Theorems: the executors, the timers, futures, the IPC channel, datagrams and streams, the TCP and HTTP clients, the logger and the state machine (done);
   `LentOnce` and `NoneForgotten` of HttpClientPool; `Lifecycle` of App, and `Measured`, in families of their own without recursion.

Components of a family share one run, as in `MCTasks`, so that the number of runs stays small.
