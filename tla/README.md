# TLA+ models of the fiello backend servers

This directory holds TLA+ models of the C++ servers under `src/linux/`. TLC
checks them. `PROJECT.json` lists every component, run, mutant, finding and
hazard. Its `map` gives, for each definition, the source lines it models.

## The system

`src/linux` holds four programs.

* **chat_server** is a multi-threaded chat server with its own `ThreadPool`.
  * `NetworkManager` runs one listener thread. The thread calls
    `ConnectionManager::ProcessConnections` in a loop.
  * `ProcessConnections` waits in `epoll_wait`. The listening socket is level
    triggered and client sockets are edge triggered. It then handles the
    returned events one by one. At the end of the batch it applies the deferred
    delete list (`ApplyDeleteList`).
  * An event on the listening socket accepts one client. The client gets a
    `SocketWrapper`, a `ConnectionHolder`, a `ConnectionCarrier` (the epoll user
    pointer, holding a weak pointer to the holder) and a registry entry keyed by
    descriptor. Two notices go to the slow pool: "joined" and `\intro`.
  * An event on a client socket posts a `ReceiveDataTask` to the *fast* pool.
    The task reads until `EAGAIN` under the holder's data lock and takes every
    complete line. It then posts a `ProcessMessageTask` to the *slow* pool. On
    end-of-file it calls `ConnectionHolder::Close`.
  * `ConnectionHolder::Close` marks the holder closed, pushes the descriptor to
    the delete list and closes the socket.
  * `ProcessMessageTask` splits the data into lines and handles service
    commands (`\quit` closes the sender). It collects chat lines into a
    `WriteAnswerTask` on the fast pool. That task sends each line to every
    registered connection except the one whose descriptor equals the sender's.
  * The holder's destructor posts a "has left" notice. Both pools are
    `ThreadPool`s: a task list under a mutex, a condition variable, and N
    worker threads.
  * `main` reads the command line and the settings file
    (`ConfigurationManager`), then runs `ServerEngine::Start`. `Start` applies
    the settings (`daemon`, log level), blocks every signal, builds the
    `ConnectionManager` (both pools) and `NetworkManager` (bind, listen, the
    listener thread), and waits in `sigtimedwait`. `SIGHUP` reloads the file
    and applies it again; `SIGTERM` stops the pools and joins the listener.
* **chat_server_legacy** is an older chat server.
  * The listener thread (`CIPCModule::StartListener`) blocks in `accept`. It
    wraps each client in a `CReceiveTask` and passes it to
    `CThreadPoolModule::AddTask`. That stores the task by descriptor in
    `m_mapReceiveTasks`, appends the descriptor to `m_listActiveSockets` and
    schedules a first `ReceiveData` on a boost pool of ten threads.
  * `ReceiveData` marks the task not completed and does one blocking `recv`.
    It copies the active list and writes what it read to every socket of the
    copy but its own. Then it marks the task completed. Its first run calls
    `NotifySelector`, which pushes the descriptor to `m_listPendingSock` and
    writes 8 bytes to a self-pipe.
  * The selector thread (`StartSelector`) waits in an edge-triggered
    `epoll_wait`:
    * an error or hang-up calls `RemoveTaskBySocket`;
    * a pipe edge adds every pending socket to epoll;
    * a read edge renews the task if `FindTaskBySocket` finds it completed.
  * A task, and with it its socket, lives while the map, the pool queue or a
    running `ReceiveData` holds it.
  * `main` runs `ProcessServerOptions` (the file must exist; `--help` and
    `--version` end the process; the file is read and the log level set),
    daemonises if `daemon` is 1, reads `tcp_if` and `tcp_port`, and starts
    the listener thread and then the selector thread.
* **user_register_server** is a registration service. It answers
  `REGISTER` and `GET` requests against a record file of `user;email` lines.
  * The listener thread (`CIPCModule::StartTCPListener`) accepts a client,
    wraps it in a `CTCPReceiveTask`, stores it in
    `CThreadPoolModule::m_mapReceiveTasks` by descriptor and schedules its
    `ReceiveData` on a boost thread pool (`AddTask`, `RenewTask`).
  * `ReceiveData` does one blocking `recv`. Data goes to `m_strMsgBuffer` and
    `ProcessData` answers every terminated line. End-of-file marks the task
    pending delete and queues its descriptor on `m_listPendingRemoveSockets`.
    At the end the task is marked completed and `NotifySelector` is called.
  * `NotifySelector` queues a positive descriptor on `m_listPendingSockets`
    and writes the value to a self-pipe.
  * The selector thread (`StartTCPSelector`) waits in a level-triggered
    `epoll_wait` over the pipe and the idle client sockets. Each wake-up first
    erases one completed pending-remove task (`RemovePendingTasks`). Then an
    error or hang-up removes the socket and erases its task if completed; a
    pipe value re-adds every pending socket; data on a socket removes it from
    epoll and schedules the task again, if the task is completed.
  * `ProcessData` parses a line into `CProcessData::m_Data`, looks for a
    `REGISTER` section, then a `GET` section, reads the file under a shared
    lock, and appends a new record under an exclusive lock. In maintenance mode
    (set by a second server process through `SetMaintenance`) it first waits on
    a condition variable.
  * A task object, and with it its socket, is destroyed when the map, the pool
    queue and the running functor all let go of it.
  * UDP requests take a separate path (`StartUDPListener`, `ProcessUDPData`).
  * A second launch of the program passes its command-line options to the
    running server. `IsFirstInstance` opens `SERVER_MSG_QUEUE`, sends a probe
    message and waits up to 5 s on a named condition. If the message count has
    not grown, a server is running. `ApplyServerOptionsRemotely` then writes
    each option into the shared segment `SERVER_SHARED_MEMORY` under the named
    mutex `SERVER_MSG_QUEUE_MUTEX` and sends its id; `--kill` sends a KILL
    message instead. The server's `SharedQueueReader` thread takes the mutex,
    reads and destroys the object, and calls `SetProgramOption`, which runs
    `CheckServerParameters` and sets the pool's maintenance mode or data
    file. KILL notifies `SERVER_CLOSE_COND`, on which `main` waits; `main`
    returns and the deleters remove the queue and the segment.
* **user_register_server_#2** is a second registration service.
  * A TCP thread (`TestServer::_tcpServer`) runs a `select` loop over the
    listening socket and the accepted `TcpConnection`s. It cuts requests at
    `"\r\n"` and hands them to `TestQueue::addRequest`. When `recv` returns
    0 it calls `TestQueue::connectionClosed`, which clears the connection
    pointer of every request of that connection, pending or running. Then it
    deletes the connection and closes the socket.
  * A UDP thread turns each datagram into a request with a disposable
    `UdpConnection`.
  * `QUEUE_WORKERS_NUMBER` worker threads wait on one condition variable.
    They wait while the queue is empty or `_maintenance` is set, and leave on
    `_stopping`. Each runs `Request::execute`: `DataFile::registerUser` or
    `getEmail`, each under the file's mutex for the whole operation, then the
    delay, then a send if the connection pointer is still set.
  * The main thread watches the configuration file with inotify and applies
    maintenance mode. `SIGUSR1` stops the queue and joins the workers.

## What is modelled

### `ChatServer.tla`: the chat_server connection path

This module models the listener thread, the registry, the holders and sockets,
the two pools and the three tasks of `chat_server`. It also models the parts of
the kernel the code relies on:

* `accept` returns the lowest free descriptor, and a closed number is free
  again at once;
* `close` drops the epoll registration;
* `EPOLL_CTL_ADD` of a socket with pending input reports that input;
* an edge-triggered socket reports one event per arrival.

| state | code |
|---|---|
| `fdTable`, `interest`, `edge` | the kernel descriptor table and the epoll interest list, with unreported edges |
| `registry` | `ConnectionManager::m_activeConnections` |
| `pending` | `m_pendingConnectionsToDelete` |
| `ep`, `batch`, `held` | `ProcessConnections`: waiting or dispatching, the events not yet handled, `triggeredConnection` |
| `conns`, `destroyed` | holders created and destroyed. A holder is alive while `Referenced` is true: registry, `held`, queued tasks, running tasks |
| `sock`, `sclosed` | `SocketWrapper::m_socket`, `m_isClosed` |
| `closed`, `buffer`, `rlock` | `m_isConnectionClosed`, `m_socketData`, `m_socketDataAccessGuard` |
| `uname` | `m_username`. The generated name `user_<time>_<n>` is the client itself; `Nick` is the one nickname clients may ask for |
| `fastQ`, `slowQ`, `worker` | the two pools' task lists, and each worker's task and program counter |
| `delivered` | the chat and private lines each client was sent |
| `cst`, `backlog`, `wire`, `sent` | the remote peers: connected, hung up, lines on the wire |

Data is abstracted to whole lines of equal length. A line is a record: its
kind, its writer and its number.

The actions follow the code's steps:

* `EpollWait`. An empty wait goes straight to `ApplyDeleteList`.
* `DispatchListen` and `Accept`, with `AddConnection`.
* `DispatchConn`, including `holder.lock()` on a carrier whose holder is gone.
* `ApplyDeleteList`.
* `TakeTask`.
* `LockAndRead` and `ReadCall`: one `read()` each, using `m_socket` as it is at
  that moment.
* `PostProcess`. It copies the sender's current `m_username` into the task as
  `senderName`, as `receive_data_task.cc:65` does.
* `CloseSocket` (`m_isClosed`, then `::close`) and `InvalidateSocket` (only
  then `m_socket = INVALID`). These are separate steps, as in
  `SocketWrapper::Close`.
* `Process`: the line-split loop, with its index bug, as the recursive
  operators `Pieces` and `Run`. `Run` is also `AssembleServiceMessage` for
  `\quit`, `\intro`, `\nickname Nick` and `\private Nick`:
  * `\nickname`. `SetClientUsername` refuses the name when any registered
    holder already has it. Otherwise it renames the holder the registry
    stores under the task's `senderSocket`. If none is stored there, the
    error makes the piece a chat line. On success, later pieces of the same
    task carry the new name.
  * `\private`. It is refused when `senderName` is `Nick` or when nobody is
    called `Nick`. Otherwise it goes, as a single message, to the first
    holder called `Nick`.
  * `Reply` is `PostServerMessage`, a notice to the sender alone.
  * `\help` and `\listall` only answer the sender and are left out.
* `Write`.
* `Destroy`: the holder's destructor.

Undefined behaviour in the `SocketWrapper(int)` constructor is a
nondeterministic branch of `Accept`. The constructor tests the uninitialised
`m_socket`; if the test throws, the accepted descriptor leaks.

`MCChatServer.tla` instantiates the chat module: clients `c1, c2`, fast worker
`f1`, slow worker `s1`, descriptors `{4, 5}` or `{4}`.

### `ThreadPool.tla`: the thread pool

`ThreadPool` models `tools/thread_pool/thread_pool.cc` with three kinds of
actor: the owner thread (`Initialize`, `Shutdown`), one submitter (`AddTask`),
and `NWorkers` worker threads (`ProcessTasks`, `TryGetNewTask`).

| state | code |
|---|---|
| `initialized`, `shutdownReq` | `m_isPoolInitialized`, `m_shutdownRequested` |
| `taskList`, `mutex` | `m_taskList`, `m_taskAccessGuard` (owner or `None`) |
| `bar` | each worker's two-party `m_startBarrier`: who has arrived |
| `wpc`, `wshut`, `wtask` | each worker's program counter, its `m_shutdownRequested`, its current task |
| `mpc`, `mi` | the owner's program counter and loop index over the workers |
| `spc`, `next` | the submitter's program counter and the next task number |
| `takenLog` | the tasks popped from the list, in order |

The owner's loop in `Initialize` spawns a worker and then waits at that
worker's barrier (`Spawn`, `MainArrive`, `MainPass`). `Shutdown` sets the
flag, then per worker sends `notify_all` without the lock (`ShutNotify`), sets
the worker's flag (`ShutFlag`) and does `timed_join`, detaching on timeout
(`Join`, which may take either outcome). A worker's `TryGetNewTask` is `Lock`
then `Test`, the body of the `while` loop. `Test` either pops the front task
(`TakeFront`), calls `NotifyWorkerStarted` while the pool is not initialised
(`WorkerArrive`), or waits (`StartWait`). A waiting worker is woken by
`notify_all` (`NotifyAll`), or spuriously (`SpuriousWake`). It then re-takes
the lock and tests the shutdown flag (`Relock`). `AddTask` has three steps:
the unlocked tests (`AddTaskCheck`, which drops the task if the pool is not
initialised or shutting down), the locked push (`AddTaskPush`), and the
unlocked `notify_all` (`AddTaskNotify`).

The constant `Spurious` says when a condition-variable wait may return
without a notify: `"never"`, `"running"` (only once the pool is initialised)
or `"always"`. Boost allows all of these.

### `RegisterServer.tla`: the user_register_server TCP path

The listener, the selector, the pool threads, the record file and the peers
are actors of one module. Requests are records (kind, user, e-mail, and
whether the fields pass the length and `@` tests). A user name is a short
sequence of letters, so that `find(user + ";")` can be modelled as a suffix
test (`IsSuffix`). One request is one line with its terminator; `Frag` stands
for bytes without a terminator, which a peer may send last.

| state | code |
|---|---|
| `sock`, `interest`, `pipe` | the accepted descriptor of each peer (lowest free number), the epoll set, the ints in the self-pipe |
| `ep`, `batch` | the selector: in `epoll_wait` or handling the returned events |
| `tasks` | `m_mapReceiveTasks` |
| `pendingSockets`, `pendingRemove` | `m_listPendingSockets`, `m_listPendingRemoveSockets` |
| `maint`, `toggles` | `m_iMaintenance`, and the number of switches so far |
| `completed`, `pendingDelete`, `buffer`, `parsed` | each task's `m_bIsTaskCompleted`, `m_bPendingDelete`, `m_strMsgBuffer` (as lines) and `m_Data` (parsed sections) |
| `destroyed` | tasks whose destructor closed the socket |
| `sched`, `wk` | the boost pool's queue of functors, and each pool thread's step, task and section |
| `file` | the record file |
| `cst`, `wire`, `sent`, `answers` | the peers: off, up, FIN sent, reset; unread lines; lines sent; answers received |
| `pipeOpen` | `m_iSelectorPipe[1] != 0`: the selector thread has run `pipe()` |
| `early` | (history) tasks whose `NotifySelector` ran before the pipe existed and that no pipe value has drained since |

Actions:

* `Init` is the state after `main` has started both threads: the constructor
  left `m_iSelectorPipe` at `{0, 0}`, and the listener already accepts.
  `main` starts the listener thread before the selector thread
  (`main.cpp:122-123`), so the listener and the pool threads may run before
  `SelectorInit`, which is `StartTCPSelector` up to its loop (`epoll_create1`,
  `pipe`, the pipe's read end added to epoll).
* `Accept` is one turn of the listener loop, with `AddTask` and `RenewTask`.
* `SelectorWait` is `epoll_wait` plus `RemovePendingTasks`. `DispatchErr`,
  `DispatchPipe` and `DispatchData` are the three cases of the dispatch loop.
* `Take` is a pool thread taking the next functor. `ReceiveData` is split at
  the points where other threads can act: `RStart` (the pending-delete test),
  `RRecv` (`recv`: data, `-1` after a reset, or `0`), `MCheck` and `MWait`
  (the unlocked maintenance test and the wait), `Parse` (one turn of the
  `ProcessData` loop), `AppendRecord` (the locked append), `EofBad` (the
  "400" answer to an unterminated rest at end-of-file), `Finish`
  (`m_bIsTaskCompleted = true` and `NotifySelector`, which pushes the
  descriptor and returns without writing while `m_iSelectorPipe[1]` is 0) and `Release` (the
  assignment after the catch, and the functor letting go).
* `SetMaintenance` sets the flag, and turning it off wakes the waiting threads.
* `Destroy` is the task's destructor, enabled once nothing refers to it.
* The peers `Connect`, `Send`, `Hangup` (FIN) and `Reset` (RST, which drops the
  unread lines).

`FairPeersSpec` adds weak fairness of a peer's first move, which the first
blocking `recv` needs in order to return.

`MCRegisterServer.tla` instantiates it with peers `c1, c2`, pool threads
`w1, w2`, descriptors `{5, 6}` (or `{5}`), pipe descriptor 3, and user names
`<<"a">>` and `<<"b">>`.

### `SelectRegisterServer.tla`: the user_register_server_#2 server

The TCP thread, the UDP thread, the queue's workers, the main thread and the
peers are actors of one module. A request line is a record: verb, user,
e-mail, and whether the fields pass `validateUsername` and `validateEmail`.
A user name is a model value compared by equality, as `strncasecmp` compares
names of equal length. One recv reads one wire item: a line, or `Frag`
(bytes without `"\r\n"`). Over UDP, `Frag` becomes the request
`"No trailing CRLF"` (`NoCRLF`), which is answered 400.

| state | code |
|---|---|
| `cst`, `wire`, `sent`, `answers` | the peers: TCP peer off, up or FIN sent; unread items; items sent; responses received |
| `conn` | each client's `TcpConnection`: none yet, open (in `clients`), or deleted |
| `pending` | `_pendingRequests`: requests with their peer, line, and whether `_connection` is still set |
| `maint`, `stopping`, `toggles` | `_maintenance`, `_stopping`, and the configuration changes so far |
| `cfgMaint`, `mainPc` | `TestConfig::_maint`; the main thread between `setFilename` and `setMaintenance` |
| `df` | `DataFile::_filename`, which is always `TestConfig::_datafile` |
| `wk` | each worker's step, its `Request` (which is on `_runningRequests` while it runs), and the response it computed |
| `files` | each data file's records; `file` is the one `df` names |

Actions:

* `TcpAccept`, `TcpRecv` and `TcpClose` are the three branches of the select
  loop. `TcpClose` is `connectionClosed` (`ConnectionClosed`), erase, delete
  and close.
* `UdpRecv` is one turn of the UDP thread.
* The worker loop is split where other threads can act:
  * `Top`: the locked part, which leaves, waits, or moves the first request
    to the running list.
  * `Exec`: the file operation and the first look at `_connection`.
  * `Respond`: the send after the delay.
  * `RemoveRunning`: the locked removal and `delete`.
  * `Spurious`: a wake-up without a notify.
* `ConfigChanged` is one turn of `_trackConfigChanges`, and it runs
  `_configChanged` in two steps:
  * `ReadConfig(m, f)`: the file now holds the maint value `m` and the
    datafile value `f` (`None` for no line). `readConfigFile` passes each line
    to `_setValue` and keeps the old value of a name no line gives. Then come
    `setLevel`, `setDelay` (the model has no time) and `setFilename`.
    `Numeral` is `strtol` with the end-pointer test. An empty value converts
    to 0 and is accepted. `"x"` and `"-1"` are refused. A bool takes
    `number # 0`, so `maint=2` means on.
  * `ApplyMaintenance`: `setMaintenance`, whose `false` wakes every worker.
    Workers can run between the two steps, so a request can reach the new
    data file before a `maint=1` of the same edit applies.
* A data file that does not exist fails `registerUser`'s and `getEmail`'s
  open, which gives `E_UNAVAILABLE` (503). `registerUser` validates before
  it opens, so an invalid line still gets 406.
* The constructor does not initialise `_maint`. If the starting file has no
  valid maint line, `Init` lets the queue start with either value.
* `Stop` is `TestQueue::stop`. `Exited` holds once every join has returned.

`MCSelectRegisterServer.tla` gives names to the constants. Its one file
record is `ua`. The requests are a GET of `ua` and REGISTERs of `ub` and `uc`.

### `ChatEngine.tla`: the chat_server process

`ChatEngine` models `main`, `ConfigurationManager`, `ServerEngine`,
`SignalManager`, `NetworkManager::Initialize`, `Start` and `Shutdown`, and
`ConnectionManager`'s start-up and shutdown. The fast pool is `ThreadPool`
itself, composed with `Pool == INSTANCE ThreadPool`: the main thread is its
owner and the listener thread its submitter. The slow pool is built and
stopped by the same lines right after the fast one and is left out.

| state | code |
|---|---|
| `files`, `edits` | the settings file on disk; edits by an administrator so far |
| `sent`, `pending`, `hupSince` | signals sent; signals blocked and pending (a set, as standard signals coalesce); a `SIGHUP` sent since the last edit (history) |
| `cfgName`, `cfgData` | `m_configFileName`, `m_configData` (name to value token) |
| `logLevel`, `gone` | the level last set; the process forked after its threads started |
| `mainPc`, `stopReq`, `lpc`, `result` | the main (and signal) thread; `m_shutdownRequested`; the listener thread; how `Start` ended |

A file is a sequence of `[name, value]` lines. The constants `WordNames`,
`ValueTokens` and `IntOf` say what the regular expression accepts and what
`stream >> int` makes of a token. `Parse` is the recursive loop of
`LoadSettingsFromFile`: the 512-line cap, comment lines, an unknown name
that throws, the first value of a name kept. `LoadSettings` swaps the data
in only on success and keeps the stored name when called with none.

Actions of the main thread: `ReadArgs` (help, version, gen-config,
a missing `--config`), `StartEngine` (`ApplyConfigSettigns`),
`CreateConnectionManager`, `PoolInit` (the pool's `Initialize` steps),
`NetInit` (interface, port, addresses and bind), `Unwind` (the exception
from `Start` and `~ServerEngine`'s `Shutdown`), `SigWait`, `Reload`,
`Terminate`, `StopPool` (the pool's `Shutdown` steps) and `JoinListener`.
The listener thread takes the pool's submitter steps (`Listen`) and leaves
its loop once shutdown is requested (`ListenerExit`); `Work` is a pool
worker. The environment edits the file (`Edit`) and sends `SIGHUP` or
`SIGTERM` (`Kill`); a signal sent before the mask is set ends the process.

### `LegacyChatServer.tla`: the legacy chat server

The listener, the selector, the pool threads and the peers are actors of
one module.
* A connection is named by its peer; descriptors are not reused.
* A message is a pair `<<sender, n>>`.
* One `recv` returns everything buffered, because messages are far below
  the 512-byte chunk.
* The server's descriptor is open while the map, the queue or a running
  thread holds the task (`ServerOpen`). epoll forgets a closed descriptor
  (`Watched`).

| state | code |
|---|---|
| `peer`, `inbuf`, `nsent`, `got` | each peer: off, up, FIN sent, reset; bytes not yet read by the server; messages sent; messages written to it |
| `accepted`, `map`, `active` | connections accepted, `m_mapReceiveTasks`, `m_listActiveSockets` |
| `completed`, `notified` | each task's `m_bIsTaskCompleted` and `m_bIsNotified` |
| `queue`, `wk` | the pool's FIFO of scheduled calls; each pool thread's step, task, data read and remaining copy of the active list |
| `pending`, `pipeEdge` | `m_listPendingSock`; an edge of the self-pipe not yet returned |
| `interest`, `ready` | the epoll set; descriptors with an edge not yet returned |
| `alive` | the process has not been killed by `SIGPIPE` |
| `mainPc`, `cfg`, `logLevel` | `main`'s step; `m_treeConfig`; the logger's level |
| `netIf`, `port` | `m_strNetworkInterface`, `m_iPort` |
| `lst`, `sel` | the listener thread (not started, starting, in `accept`, returned) and the selector thread (not started, starting, in `epoll_wait`) |
| `early` | (history) sockets whose `NotifySelector` ran before the selector's pipe existed |

Actions:

* `Accept` is one turn of the listener loop with `AddTask` and `RenewTask`.
* `ReceiveData` is split where other threads can act:
  * `StartTask`: a pool thread takes the next call;
  * `Recv`: the `recv` and the copy of the active list;
  * `Write`: one write per socket of the copy;
  * `Finish`: completion;
  * `NotifyPush` and `NotifyPipe`: the two halves of `NotifySelector`.
* `Write` skips the sender, gets `EBADF` on a closed descriptor, and draws a
  reset from a peer that has closed. A write to a reset peer raises
  `SIGPIPE`, which ends the process: no handler is installed.
* `SelectPipe` and `SelectSocket` are the pipe and socket cases of the
  selector loop. `SelectSocket` uses `FindTaskBySocket` and
  `RemoveTaskBySocket`.
* The peers `Connect`, `Send` and `Hangup` (FIN). A peer can connect only
  once the listener is in `accept` on a port it can dial.
* `MainStep` is `main`: `ProcessServerOptions` (over the command lines
  `Launches` and the files `Files`, with `GetSetting`'s curable defaults and
  `SetLogLevel`'s healing), `Daemonize`, `SetIPSettings`,
  `StartListenerThread` and `StartSelectorThread`, in that order.
  `ListenerInit` is `StartListener` up to `accept`: `inet_addr` of a device
  name fails, and the thread returns. `SelectorInit` is `StartSelector` up to
  `epoll_wait`, with the `pipe()` call.
* `NotifyPipe` run before `SelectorInit` writes to the uninitialised
  `m_iPipeFDs[1]`: no edge reaches the selector.

`MCLegacyChatServer.tla` gives peers `c1, c2` and pool threads `w1, w2`,
four command lines (none, `--help`, `--version`, an unknown option) and four
files (one that serves on `127.0.0.1`, one whose `tcp_if` is `eth0`, a
missing one and one `read_ini` refuses).

### `OptionsChannel.tla`: the option channel of user_register_server

The running server (its `main` thread and `SharedQueueReader`) and the
second launches `Admins` are the actors. Each launch has fixed options
`Launch[a]`: a `--maint` value, a `--datafile` path, `--kill`. Only maint
and datafile are kept among the options the reader applies: the others set
a value no property tells apart.

| state | code |
|---|---|
| `mq` | `SERVER_MSG_QUEUE`; a message is the option id and, for the probe's wake-up only, its sender |
| `shm` | the named objects of `SERVER_SHARED_MEMORY` |
| `mtxName`, `mtxCount`, `locks` | the object bound to the name `SERVER_MSG_QUEUE_MUTEX` (0 after `remove`), the objects created, and who holds which |
| `mainPc` | `main`: starting, waiting on `SERVER_CLOSE_COND`, woken, exited |
| `rd` | the reader's step, the message it handles and the mutex object it opened |
| `ad` | each launch's step, mutex object, `sizeOld` and option index |
| `optMaint`, `maint`, `dataPath` | the server's `m_poOptionsMap["maint"]`, `m_iMaintenance`, `m_strDataRegisterFile` |
| `taken`, `lastMaint` | history: launches whose probe the reader took; the last maint value sent |

A named mutex has unlink semantics. `remove` unbinds the name, a holder keeps
its object, and the next `open_or_create` makes a new object. The reader and
the probe remove the name after every use; `ApplyServerOptionsRemotely` does
not.

Actions:

* `MainWait`, `MainExit` and `NotifyClose`. `main` waits only after the
  reader has started, and a notify that comes earlier is lost.
* `RdRecv` is the `receive` and the switch. A probe is answered with the
  notify, data ids go on to `RdOpen`, `RdLock` and `RdApply`, and KILL
  leaves the loop. `RdApply` is `find`, then `SetProgramOption` with
  `ApplyMaint` or `ApplyDataFile`, then `destroy_ptr`, unlock and `remove`.
* `ApplyDataFile` reads `iMaintenanceMode` as the code does. It is
  uninitialised (0 or not) when the server has no maint option; otherwise it
  is the raw option, not the clamped setting.
* For a launch:
  * `AdStart`: `open_only` on the queue.
  * `AdProbeOpen`, `AdProbe` and `AdWake`: `IsFirstInstance`.
  * `AdOptions`: `--kill`, or the start of `ApplyServerOptionsRemotely`.
  * `AdOpen`, `AdLock` and `AdWrite`: one option each.
* `AdWake` returns on the notify or on the 5 s timeout (`ProbeTimeout`). The
  timeout fires once the reader has stopped and `main` has finished exiting,
  or, with `SlowReader`, at any time.
* `Serial` makes the operator issue launches one at a time, after start-up.

`MCOptionsChannel.tla` gives four launches. The server starts with no
`--maint`, ini maint 0 and file `f1`.
* `a1` passes `--maint 1 --datafile f2`.
* `a2` passes `--maint 2`.
* `a3` passes `--datafile f1`.
* `a4` passes `--kill`.

## Runs

| run | cfg | expect | what it shows |
|---|---|---|---|
| chat_live | `MCChatServer_live.cfg` | pass | Two clients chat, send `\quit` or hang up, under every interleaving of the listener and one fast and one slow worker. There is one descriptor, so it is reused and `accept` also fails with EMFILE. `DestroyedOnlyWhenClosed`: a holder is destroyed only after `Close`, even when a pending descriptor was reused (the closed check in `ApplyDeleteList`). `ClosedConnectionsLeaveRegistry`: every closed connection leaves the registry, whichever side closed it. About 640k states, about 3 minutes. |
| chat_fd_reuse | `MCChatServer_fdreuse.cfg` | violation | `OpenConnectionsRegistered` fails. Close pushes D; accept reuses D in the same batch; `ApplyDeleteList` runs `EPOLL_CTL_DEL D`. The new connection is never heard again. |
| chat_cross_read | `MCChatServer_crossread.cfg` | violation | `DataStaysWithConnection` fails. A read loop between `::close` and `m_socket = INVALID` reads the data of a client that got the same number. |
| engine_run | `MCChatEngine.cfg` | pass | The chat_server process from its command line to `main`'s return, with the fast pool of two workers fed two tasks by the listener, one edit of the file and two signals. `ReloadTakesEffect`: after an edit and a `SIGHUP`, the loaded settings become the file's, unless the file does not load, is edited again or shutdown is requested. `PoolsStoppedOnReturn`: `main` never returns while the pool it initialised runs, on every error path of `Start`. `TasksTaken`: the pool, driven by the engine and fed by the listener thread, takes every task it stored unless shutdown is requested (the `notify_all` after the push reaches a worker that found the list empty). About 113k states, 1 min 15 s. |
| engine_redaemon | `MCChatEngine_daemon.cfg` | violation | `ServingWhileStarted` fails. The file is edited to `daemon = 1` and `SIGHUP` sent: `ApplyConfigSettigns` calls `::daemon`, the parent exits and the child has no listener or pool thread (18 states). |
| reg_safe | `MCRegisterServer_safe.cfg` | pass | Two peers send a GET, a REGISTER or an unterminated rest, then close or reset; two pool threads; maintenance switched once. `SingleReader`: a task's `ReceiveData` never runs on two threads and is never scheduled while it runs (`m_strMsgBuffer` and `m_Data` have no lock). `ConnectionWatched`: a connection the server still serves is in the epoll set, on its way back through the pending list and the pipe, or scheduled or running, unless its `NotifySelector` ran before the selector had created the pipe and the descriptor waits in the pending list with no value to drain it (`early`). Without that exception the invariant fails in 8 states (see the defects). About 700k states, 20 s. |
| reg_live | `MCRegisterServer_live.cfg` | pass | Under `FairPeersSpec`, without maintenance switches. `ClosedConnectionsReleased`: a connection the peer closed or reset is erased and its socket closed, unless the start-up race strands it or loses the `-1` wake-up of another closed task. `RequestsAnswered`: every terminated line is answered unless the peer resets. About 240k states, 100 s. |
| reg_dup | `MCRegisterServer_dup.cfg` | violation | `NoDuplicateUsers` fails. Two threads register the same user: both read the file, both find the user absent, both append. |
| srs_serve | `MCSelectRegisterServer.cfg` | pass | One TCP peer and one UDP peer, two workers, two configuration rereads (with a switch to a missing data file) and `SIGUSR1`. `NoDanglingConnection`: no pending or running request keeps a pointer to a deleted `TcpConnection`. `AtMostMaxRecords`: no data file exceeds `MAX_RECORDS_ALLOWED`, though the test counts `getline` calls. `RequestsServed`: once maintenance stays off and no stop is requested, every request is answered unless its connection closes first. `StopReturns`: after `SIGUSR1` every worker leaves its loop, so the joins return. About 500k states, 2 min 20 s. |
| legacy_relay | `MCLegacyChatServer.cfg` | pass | From the launch (four command lines, four files) to two peers that send two messages each and may hang up; two pool threads. `AcceptedSocketsWatched`: a connection whose peer has sent reaches epoll through the pending list and the pipe, unless it is closed, the process died or its notification came before the selector's pipe existed (the next row). `ResetConnectionsReleased`: a reset peer's task is removed and its socket closed. About 380k states, 2 minutes. |
| legacy_startup | `MCLegacyChatServer_launch.cfg` | violation | `AcceptedSocketsWatchedFromLaunch` fails. The listener thread starts before the selector thread; a first peer is accepted and read, and its `NotifySelector` writes to `m_iPipeFDs` before `pipe()` set it. The socket stays in the pending list and never reaches epoll (about 27 states). |
| opt_channel | `MCOptionsChannel.cfg` | pass | Four launches, one after another, in any order, against a server that may still be starting. `OptionSectionsExclusive`: the shared-memory sections stay exclusive although the reader and the probe remove the mutex's name after use. `LastMaintApplied`: once the channel is quiet, the maintenance mode is the last `--maint` passed, with 2 falling back to 0. `KillStopsServer`: a queued KILL stops the server. About 7.5k states, 1 s. |

`MCChatServer_loopback.cfg` and `ThreadPool_hang.cfg`
belong to retired runs and still reproduce them (see the defects below).

Each passing property has a mutant in `PROJECT.json` that TLC finds violated.
Each mutant is a plausible bug in the code:

* `ApplyDeleteList` without the closed check;
* the destructor running twice;
* `Close` without `RemoveConnection`;
* `Initialize`'s loop running one worker past the end;
* `AddTask` without its `notify_all`;
* `NotifySelector` queueing the descriptor without its `> 0` test;
* the selector's data case rescheduling without `EPOLL_CTL_DEL`;
* the pipe case adding only the first pending socket;
* `RemovePendingTasks` trying only the head of the list;
* the listener storing the task without scheduling it;
* `connectionClosed` walking only `_pendingRequests`;
* `registerUser` comparing the number of records, not of lines read, with the
  bound;
* `readConfigFile` resetting the data file name when no line names it;
* `setMaintenance` without its `notify_all`;
* `stop` without its `notify_all`;
* `ReceiveData` releasing its task before `NotifySelector`;
* the legacy selector adding only the first pending socket;
* `RemoveTaskBySocket` erasing the active entry but not the task;
* the maint range test letting 2 through;
* the reader touching the segment without waiting for the mutex;
* a remote `--maint` stored as an option without `SetMaintenanceMode`;
* the KILL case leaving the loop without notifying `SERVER_CLOSE_COND`;
* `LoadSettingsFromFile` storing an empty name argument as the file name;
* `Start`'s exception leaving `main` without `~ServerEngine`'s `Shutdown`.

## Bounds

The bounds are 2 clients, 2 descriptors and 1 line per client. They are enough
for a descriptor to be closed and handed to the other client, and for the two
clients' tasks to interleave on both pools.

The chat runs use one fast worker, because a second one multiplies the state
space without a new behaviour for those properties.

The chat liveness run has one descriptor. With two, the descriptor-reuse
defect of `chat_fd_reuse` also breaks the liveness property, and the state space
takes several minutes more. One descriptor still lets the second client get
the number the first released, which `DestroyedOnlyWhenClosed` needs.

Symmetry over the clients is used only in safety runs. There it is sound:
nothing in the model names a client.

The engine run gives the fast pool 2 workers and 2 tasks, which is enough
for two workers to race for a task and for a task to be stored while a
worker waits; spurious wake-ups are allowed once the pool runs. The file
may start as a serving one, one that sets the fast pool to 0 workers, one
with no `daemon` line, or missing, and may be edited once to a level-3
file, a file with an unknown name, or removed. Four command lines cover
`--config`, `--help`, `--gen-config` and a parse error. One interface token
`eth0` is a device and no token is an IPv4 address, so the interface lookup
takes its device path. Two signals are enough for a `SIGHUP` after an edit
followed by a `SIGTERM`, or for two coalescing `SIGHUP`s. The run says
`CHECK_DEADLOCK FALSE`: `main` returns, and an idle server waits for
signals. The re-daemon run starts from the serving file with one task and
one edit to `daemon = 1`.

The register runs use 2 peers, 2 pool threads and 2 descriptors, and one line
per peer (a request or `Frag`). That is enough for both peers to be served
at once, for the pending list and the pipe to hold two entries, for a task to
be erased while another is pending, and for `EofBad` and the reset path to
run. Two lines per peer with maintenance switches take more than ten minutes.
`MaxRecords` is 2, above the records a run can store, so the overload answer is
not reached; the duplicate run starts from an empty file. The register runs
say `CHECK_DEADLOCK FALSE`: the real server blocks in `epoll_wait` and
`accept` once the peers are quiet.

The second register server's run has one TCP peer, one UDP peer, two
workers, and one item per peer. With two TCP peers, or two items per peer,
the liveness check does not finish in 15 minutes.
* The instance is big enough for a request to be running when its
  connection closes.
* It lets the two peers' requests wait in the queue at once.
* It allows maintenance to be switched on and off again (two changes).
  One change can also switch to `d2`, a data file that does not exist.
  The maint values are none, `""`, `0`, `1`, `2`, `-1` and `x`: each branch
  of `_setValue`'s number check. The starting file has no maint line, so
  both start-up values of `_maint` are explored.
* With one record in the file and `MaxRecords` = 2, one REGISTER is stored
  and the other meets the bound.

The run says `CHECK_DEADLOCK FALSE`, because the server blocks in `select`
and `recvfrom` once the peers are quiet.

The legacy run has two peers, two pool threads and two messages per peer,
launched with each of four command lines and four files. Only the file that
names `127.0.0.1` reaches `accept`; the others end in `main` or leave the
listener thread returned, which is enough for each branch of the launch.
* Both peers can be served at once.
* Two first runs can notify the selector before it wakes.
* A task can be renewed twice before it starts.
* A FIN can draw a reset and then `SIGPIPE`.
The pool has as many threads as peers, as the code's ten threads have for
fewer than ten peers. With fewer threads than silent peers, the pool runs
dry (a hazard in `PROJECT.json`). A third message per peer
exposes the lost-edge defect below, and so do longer runs. The run says
`CHECK_DEADLOCK FALSE`, because the server blocks in `accept`, `recv` and
`epoll_wait` once the peers stop, and a killed process takes no step.
The start-up run uses the serving file and the plain command line with one
message per peer and no hang-ups.

The option-channel run has four launches, one per kind of option, plus
the out-of-range value 2. With them, every order is checked:
* a KILL before, between or after option messages;
* a launch after the server has exited (it finds no queue and becomes
  first);
* a `--datafile` applied with the maint option absent, 1 or 2;
* a probe queued behind a previous launch's messages.
Launches do not overlap and start only once `main` waits (`Serial`), and
the reader answers a probe within 5 s (`SlowReader = FALSE`). These are
assumptions about the operator and the timing, not guarantees of the code.
The defects below show what happens without them. The run says
`CHECK_DEADLOCK FALSE`, because an idle server waits in `receive` for good.

## Fairness

* The listener thread loops forever (`while (!m_shutdownRequested)`) with a
  100 ms timeout, so `ListenerStep` is weakly fair.
* Each pool worker loops on `TryGetNewTask` and runs every task it takes, so
  `WorkerStep(w)` is weakly fair.
* A destructor runs as soon as the last pointer goes, so `Destroy(c)` is weakly
  fair.
* In the chat_server process, the main thread (`MainStep`: argument
  parsing, `Start`, the signal loop, the pool's `Initialize` and `Shutdown`),
  the listener's exit test, the rest of a started `AddTask` and each pool
  worker are weakly fair, while the process has not forked them away: each is
  a running thread. Starting an `AddTask` is not (no client needs to connect),
  nor are edits and signals, which come from outside.
* Clients get no fairness: a peer may stay idle forever.
* In the register server, the selector thread (from its start-up,
  `SelectorInit`, on), the listener (`Accept`), each
  pool thread and each destructor are weakly fair. The remote process that
  switches maintenance gets no fairness. `RequestsAnswered` and
  `ClosedConnectionsReleased` are checked under `FairPeersSpec`: each
  connected peer eventually sends a first line or closes. Without that, a
  silent peer keeps a pool thread in its first blocking `recv` forever, which
  is a hazard of the code (see `PROJECT.json`), not a property of the selector.
* In the second register server, each worker thread, the TCP thread for each
  connection and the UDP thread are weakly fair until the process exits: each
  is a thread that loops forever. Peers, configuration changes, `SIGUSR1` and
  spurious wake-ups get no fairness. `RequestsServed` is an implication from
  `<>[](~maint /\ ~stopping)`, because a configuration may keep the server
  in maintenance for good.

* In the legacy server, the listener, the selector (`SelectPipe`, and
  `SelectSocket` for each descriptor) and each pool thread are weakly fair:
  each is a thread that loops forever. `main`, the listener's and the
  selector's start-up are weakly fair too. Peers get no fairness. A killed
  process enables none of them.

* In the option channel, the reader, `main` and each launch that has
  started are weakly fair: they are threads and processes that run to their
  end. The operator starting a launch gets no fairness.

## Defects seen while modelling

These were found by TLC with properties that are not among the runs.

* chat_server, private loop-back. One client sends `\nickname Nick` and
  `\private Nick` in two reads. Both tasks carry its old name as
  `senderName`. The first renames it, and the second passes the loop-back
  test that compares `Nick` with the stale name, so the client is written its
  own private line. `NoPrivateLoopBack` failed in 39 states with one client,
  one descriptor and those two lines; the run was retired for the process
  model.
* chat_server thread pool, `AddTask` hangs after shutdown. A worker reaches
  its wait after `Shutdown`'s `notify_all`, sleeps past the 5 s timed join
  and is detached. It then finds the pool uninitialised, waits at its
  barrier holding the lock, and an `AddTask` that passed its tests blocks
  forever (`AddTaskReturns`, `ThreadPool_hang.cfg`). The run was retired
  for the legacy start-up run.
* Legacy chat server, configured device name. `tcp_if` must be an address:
  `inet_addr("eth0")` fails, `bind` fails and `StartListener` returns while
  `main` keeps sleeping, so the process runs and serves nobody. The model
  reaches this state (`lst = "gone"`).
* Legacy chat server, port clamp. `SetIPSettings` tests `iPort <= 0 &&
  iPort > 65000`, which never holds, so an out-of-range port is used as is.

* user_register_server keeps `m_Data` across segments. `Clean()` runs only
  when another terminated line follows in the buffer. A peer that sends
  `REGISTER a` and later, in a new segment, `REGISTER b` is told 409 Conflict
  for b, which is not stored. A run of `AnswersMatchStore` showed this. The
  same property also catches the suffix match of `find(user + ";")`. One
  peer's two requests in sequence reach it, so a unit test reproduces it.
* Legacy chat server, lost edge. With three messages per peer, a message that
  arrives while its task runs raises an edge that `FindTaskBySocket` skips.
  The run has already done its single `recv`. The message stays unread, and
  the property "buffered data is eventually read" fails after 22 steps.
* Legacy chat server, `SIGPIPE`. A peer hangs up, and a broadcast's write to
  it draws a reset. The next write to it ends the process. The invariant
  `alive` fails after 20 steps.
* Legacy chat server, order. With four messages, two edges renew a task
  twice before it starts. The second run blocks in `recv` and reads a later
  message, and it can write that message before the first run has written
  the earlier ones. A per-sender order invariant on `got` fails after
  25 steps. spec.md asks for frames in the order of the bytes received.

* chat_server, freed carrier. epoll returns a hang-up of c1 with the
  listening socket. c1 is closed, accept reuses its descriptor and
  `AddConnection`'s erase drops the last reference, so a later event of the
  same batch dereferences a freed carrier. An invariant `CarriersLive` on
  `ChatServer` fails after 26 steps. Its run was retired, because
  `chat_fd_reuse` shows the same reuse-in-one-batch mechanism.
* Register server option channel, data file outside maintenance. The help
  text says `--datafile` "is ignored in non-maintenance mode". But
  `CheckServerParameters` tests an uninitialised `iMaintenanceMode` when the
  server has no maint option, and the raw option otherwise. With the server
  started with `--maint 0`, `--maint 2` (mode 0) followed by `--datafile`
  switches the record file. The action property "the data path changes only
  in maintenance mode" fails after 48 steps.
* Option channel, overlapping launches (`Serial = FALSE`). Two launches probe
  at once. One counts the other's probe and starts a second server: the
  invariant "no launch concludes it is the first while the server runs"
  fails after 9 steps. With two launches sending options, one
  holds the removed mutex object and the other a new one:
  `OptionSectionsExclusive` fails after 18 steps. `SlowReader = TRUE`, a probe
  that times out before the reader takes it, also starts a second server.
* chat_server, renaming another client. `\nickname` renames whichever
  holder the registry stores under the descriptor its task captured. A client
  sends `\nickname Nick` and hangs up. Its connection is closed and removed,
  and accept gives its descriptor to a second client. Then the slow pool runs
  the task, and the second client is renamed `Nick`. The action property "a
  name changes only for the client whose task is running" fails after 27 steps
  (two clients, one descriptor, `LineKinds = {"nick"}`).
* user_register_server, selector start-up. `main` starts the listener thread
  before the selector thread, and `NotifySelector` returns without writing
  while `m_iSelectorPipe[1]` is still 0. A peer connects and resets before
  `StartTCPSelector` has run `pipe()`; its task reads `-1`, finishes, and its
  descriptor is pushed to `m_listPendingSockets` with no value written. The
  selector starts and waits, and the socket is in neither epoll nor a task
  run: `ConnectionWatched` without its `early` exception fails in 8 states.
  A closed task whose `-1` was dropped is never erased, and it also costs
  another task its wake-up: `RemovePendingTasks` erases one completed task
  per wake-up, so a second closed connection's `-1` can erase the first and
  leave itself. `ClosedConnectionsReleased` without the exception fails in
  21 states. `reg_safe` and `reg_live` check both properties with the
  exception, so that every other path is still checked.
* Option channel, lost `--kill`. A KILL read before `main` waits on
  `SERVER_CLOSE_COND` wakes nobody. The reader leaves its loop and `main`
  waits for good. `KillStopsServer` fails after 13 steps. The server then
  cannot be stopped except by a signal, and later launches see their probes
  unread and start a second server.

## Not modelled yet, and the plan

* The chat commands `\listall` and `\help`: each reads the registry and
  answers the sender alone. The other commands are modelled for one nickname.
* The data race between `ReceiveDataTask`'s unlocked `GetUsername` and a slow
  worker's `SetUsername`. In the model the read sees the old or the new name.
* `ChatServer.tla` models each pool as a FIFO list that a worker takes from
  in one step, and does not compose the detailed `ThreadPool`. The code
  justifies that: `TryGetNewTask` pops the front of `m_taskList` under
  `m_taskAccessGuard` and `AddTask` pushes the back under the same lock
  (`TakeFront`, `AddTaskPush` in `ThreadPool.tla`).
* In the chat_server process: `SIGINT` and `SIGKILL` (they take the
  `SIGTERM` path or end the process), the slow pool (built and stopped by
  the same lines as the fast one), `signal_translator.h` (a crash of the
  code itself), the address helpers' string handling, and the logger.
* Framing with byte counts: the `>=` overflow test, the skip-empty rule, and
  the split loop against a reference split.
* In the legacy chat server, these are left out:
  * `IsFirstInstance`, `CreateMessageQueue` and `SharedQueueReader`: a probe
    of a previous process over a message queue with a 5 s sleep, which only
    decides whether to daemonise;
  * `WatchSignals` and `g_bExitProcess`: the handler only sets the flag the
    main loop polls every 10 s, and nothing joins the threads;
  * the logger's formatting and files;
  * the 8-chunk overflow reply and the byte-level buffer handling;
  * descriptor reuse.
* In user_register_server_#2, these are left out:
  * the delay itself (the delay is one step);
  * `readConfigFile`'s other values: ports, interfaces, daemon, log level;
  * a peer's RST;
  * daemon start-up and the inotify loop's parsing;
  * which thread a signal interrupts. The handlers lock and join from the
    interrupted thread, which is a hazard listed in `PROJECT.json`.
* `Initialize` never returning after a spurious wake-up during start-up was
  shown by an earlier violation run. That run was dropped to make room for
  the second register server. The retired `AddTaskReturns` run showed the
  same re-entry of the barrier with the lock held.
* In user_register_server: the UDP path (`StartUDPListener`,
  `ProcessUDPData`); in the option channel the options `--sleep`,
  `--loglevel` and `--threadpool` (a remote thread-pool size is stored and
  never applied), the `SIGINT` handler of a second launch (which notifies
  the server's `SERVER_CLOSE_COND` and so stops the server), a crash that
  leaves the queue and the segment behind, and the pool threads' unlocked
  reads of the data path; and the lost wake-up of
  the maintenance wait, which needs a fair remote process to be told apart
  from maintenance that is never switched off.
* The chat server's per-sender order and the pool's "no work after shutdown"
  were shown violated by earlier runs; they are listed as hazards and not
  checked by the current runs.
* Logging, address formatting and signal translation are pure I/O or
  formatting, and stay out. The configuration code of each server is modelled
  where it decides what the process does (`ChatEngine`, `LegacyChatServer`,
  `SelectRegisterServer`, `OptionsChannel`).
