-------------------------- MODULE LegacyChatServer --------------------------
(***************************************************************************)
(* The first chat server, src/linux/chat_server_legacy.                    *)
(*                                                                         *)
(* Three kinds of thread share the connections:                            *)
(*  - the listener (CIPCModule::StartListener) blocks in accept and hands  *)
(*    every new socket to the pool with CThreadPoolModule::AddTask, which  *)
(*    registers the task by descriptor and schedules a first ReceiveData;  *)
(*  - the pool threads run CReceiveTask::ReceiveData: one blocking recv,  *)
(*    then one write of what was read to every other active socket; the    *)
(*    first run of a task hands its socket to the selector through         *)
(*    NotifySelector (a pending list and a self-pipe);                     *)
(*  - the selector (CIPCModule::StartSelector) waits in an edge-triggered  *)
(*    epoll: a pipe edge adds the pending sockets, an error or hang-up     *)
(*    removes the task, a read edge reschedules a completed task.          *)
(*                                                                         *)
(* A connection is named by its client: a descriptor is not handed out     *)
(* again in this model, so the sockets a broadcast snapshot names are the  *)
(* clients' own.  A message is a pair <<sender, n>>; one recv returns all  *)
(* that is buffered (messages are far below the 512-byte chunk).  The      *)
(* server's descriptor stays open while the task map, the pool queue or a  *)
(* running ReceiveData holds the task (CBaseSocket is owned through        *)
(* shared_ptr), and epoll forgets a descriptor once it is closed.          *)
(*                                                                         *)
(* The process starts in main (server/main.cpp): CConfigurationModule      *)
(* reads the command line and the ini file and sets the log level, the     *)
(* daemon decision is taken, the signal handlers, the message queue and    *)
(* the address are set up, and the listener thread is started before the   *)
(* selector thread.  Each thread then runs its own set-up: the listener    *)
(* creates the pool and binds, the selector creates its epoll set and      *)
(* self-pipe.  A file is a function from names to value tokens; what       *)
(* ptree::get<int> makes of a token is the constant IntOf.                 *)
(***************************************************************************)
EXTENDS Naturals, Sequences, SequencesExt, Functions

CONSTANTS
    Clients,    \* peers, one connection each
    Workers,    \* pool threads (the code starts ten: StartListener(10))
    MaxMsgs,    \* messages a peer sends
    Hangups,    \* whether peers may close their end
    None,
    Launches,   \* command lines: [opts, bad]
    Files,      \* contents of chat-server.conf next to the executable
    Missing,    \* the file does not exist
    Malformed,  \* a file read_ini refuses
    IntOf,      \* ptree::get<int> of a value token, or NotInt when it throws
    NotInt,
    IPv4Tokens  \* tokens inet_addr accepts

VARIABLES
    peer,       \* client side of each connection: "off", "up", "closed" (FIN sent), "reset"
    accepted,   \* connections the listener has accepted
    inbuf,      \* bytes received by the server's socket and not yet read
    nsent,      \* messages each peer has sent
    got,        \* messages each peer has been written
    map,        \* m_mapReceiveTasks: connections with a registered task
    active,     \* m_listActiveSockets
    completed,  \* CReceiveTask::m_bIsTaskCompleted
    notified,   \* CReceiveTask::m_bIsNotified
    queue,      \* the pool's FIFO of scheduled ReceiveData calls
    wk,         \* pool threads
    pending,    \* CIPCModule::m_listPendingSock
    pipeEdge,   \* an edge of the self-pipe not yet returned by epoll_wait
    interest,   \* descriptors added to the epoll set
    ready,      \* descriptors with an edge not yet returned by epoll_wait
    alive,      \* the process has not been killed
    mainPc,     \* the main thread
    cfg,        \* CConfigurationModule::m_treeConfig: name -> value token
    logLevel,   \* CLogger::m_eLogLevel
    netIf,      \* CIPCModule::m_strNetworkInterface
    port,       \* CIPCModule::m_iPort
    lst,        \* the listener thread: "none", "init", "accept", "gone"
    sel,        \* the selector thread: "none", "init", "on"
    early       \* (history) sockets whose NotifySelector found no self-pipe

vars == << peer, accepted, inbuf, nsent, got, map, active, completed, notified,
           queue, wk, pending, pipeEdge, interest, ready, alive,
           mainPc, cfg, logLevel, netIf, port, lst, sel, early >>

startVars == << mainPc, cfg, logLevel, netIf, port, lst, sel >>

Msgs == Clients \X (1..MaxMsgs)

Idle == [pc |-> "idle", task |-> None, data |-> << >>, targets |-> << >>]

\* The server's descriptor of c is open while some owner of the task remains.
ServerOpen(c) ==
    \/ c \in map
    \/ c \in ToSet(queue)
    \/ \E w \in Workers : wk[w].task = c

\* epoll reports c: it was added and is still open.
Watched(c) == c \in interest /\ ServerOpen(c)

\* The readiness epoll sees at EPOLL_CTL_ADD: buffered data, a FIN or a reset.
Readable(c) == inbuf[c] # << >> \/ peer[c] \in {"closed", "reset"}

\* A state change of c's socket is an edge only for a watched descriptor.
EdgeOf(c) == IF Watched(c) THEN ready \cup {c} ELSE ready

-----------------------------------------------------------------------------
(* CConfigurationModule *)

\* CErrorLevel::etLogLevel
Debug == 0
Warn == 1
Fatal == 3

\* m_mapDefaultSettings (InitParamMap): the curable parameters
Defaults == ("daemon" :> 0) @@ ("loglevel" :> 1)

\* ReadSettingsFromFile: read_ini into the tree; a refused file leaves it
\* empty (the exception is logged)
ReadSettings(f) == IF f = Malformed THEN << >> ELSE f

\* GetSetting<int>: from the tree (get<int> throws on a token that is no
\* number), else the default of a curable parameter, else false.  The value
\* found is cached in m_SettingsStore and a cured default is written to the
\* tree; in one process nothing sets a setting, so a later GetSetting finds
\* the same value and the model keeps neither write.
GetSetting(t, n) ==
    IF n \in DOMAIN t
      THEN IF IntOf[t[n]] = NotInt THEN [ok |-> FALSE, val |-> 0]
           ELSE [ok |-> TRUE, val |-> IntOf[t[n]]]
    ELSE IF n \in DOMAIN Defaults THEN [ok |-> TRUE, val |-> Defaults[n]]
    ELSE [ok |-> FALSE, val |-> 0]

\* SetLogLevel: a level outside Debug..Fatal becomes Warn; an unreadable one
\* leaves the level the constructor set
SetLogLevel(t, old) ==
    LET g == GetSetting(t, "loglevel") IN
    IF ~g.ok THEN old
    ELSE IF g.val > Fatal \/ g.val < Debug THEN Warn ELSE g.val

Init ==
    /\ peer = [c \in Clients |-> "off"]
    /\ accepted = {}
    /\ inbuf = [c \in Clients |-> << >>]
    /\ nsent = [c \in Clients |-> 0]
    /\ got = [c \in Clients |-> << >>]
    /\ map = {}
    /\ active = << >>
    /\ completed = [c \in Clients |-> FALSE]
    /\ notified = [c \in Clients |-> FALSE]
    /\ queue = << >>
    /\ wk = [w \in Workers |-> Idle]
    /\ pending = << >>
    /\ pipeEdge = FALSE
    /\ interest = {}
    /\ ready = {}
    /\ alive = TRUE
    /\ mainPc = "options"
    /\ cfg = << >>
    /\ logLevel = Warn
    /\ netIf = "" /\ port = 0
    /\ lst = "none" /\ sel = "none"
    /\ early = {}

-----------------------------------------------------------------------------
(* The main thread: main() *)

\* ProcessServerOptions: a missing file, a parse error, --help and --version
\* make main return 0; otherwise the file is read and the log level set.
ProcessServerOptions(l, f) ==
    /\ mainPc = "options"
    /\ IF f = Missing \/ l.bad \/ "help" \in l.opts \/ "version" \in l.opts
         THEN mainPc' = "exited" /\ UNCHANGED << cfg, logLevel >>
         ELSE /\ cfg' = ReadSettings(f)
              /\ logLevel' = SetLogLevel(cfg', logLevel)
              /\ mainPc' = "daemon"
    /\ UNCHANGED << netIf, port, lst, sel >>

\* daemon = 1 and IsFirstInstance (no queue of an earlier server exists):
\* daemon(0,0), whose failure is only logged.  No thread runs yet, so the
\* fork loses nothing; an unreadable daemon value means 0.
Daemonize ==
    /\ mainPc = "daemon"
    /\ mainPc' = "setup"
    /\ UNCHANGED << cfg, logLevel, netIf, port, lst, sel >>

\* WatchSignals, CreateMessageQueue (its reader thread only drains the
\* queue), then SetIPSettings with tcp_if and tcp_port, whose failures leave
\* "" and 0.  SetIPSettings' clamp "iPort <= 0 && iPort > 65000" never holds.
SetIPSettings ==
    LET i == IF "tcp_if" \in DOMAIN cfg THEN cfg["tcp_if"] ELSE ""
        p == GetSetting(cfg, "tcp_port")
    IN
    /\ mainPc = "setup"
    /\ netIf' = i
    /\ port' = p.val
    /\ mainPc' = "listener"
    /\ UNCHANGED << cfg, logLevel, lst, sel >>

\* boost::thread threadListener(StartListener)
StartListenerThread ==
    /\ mainPc = "listener"
    /\ mainPc' = "selector" /\ lst' = "init"
    /\ UNCHANGED << cfg, logLevel, netIf, port, sel >>

\* boost::thread threadSelector(StartSelector); main then sleeps in its loop
StartSelectorThread ==
    /\ mainPc = "selector"
    /\ mainPc' = "loop" /\ sel' = "init"
    /\ UNCHANGED << cfg, logLevel, netIf, port, lst >>

MainStep ==
    /\ alive
    /\ \/ \E l \in Launches, f \in Files : ProcessServerOptions(l, f)
       \/ Daemonize \/ SetIPSettings \/ StartListenerThread \/ StartSelectorThread
    /\ UNCHANGED << peer, accepted, inbuf, nsent, got, map, active, completed, notified,
                    queue, wk, pending, pipeEdge, interest, ready, alive, early >>

\* StartListener up to accept: the pool, socket, bind to inet_addr(tcp_if)
\* and htons(port), listen.  A bind error returns from the thread.
ListenerInit ==
    /\ alive /\ lst = "init"
    /\ lst' = IF netIf \in IPv4Tokens THEN "accept" ELSE "gone"
    /\ UNCHANGED << peer, accepted, inbuf, nsent, got, map, active, completed, notified,
                    queue, wk, pending, pipeEdge, interest, ready, alive, early,
                    mainPc, cfg, logLevel, netIf, port, sel >>

\* StartSelector up to epoll_wait: epoll_create1, pipe(m_iPipeFDs) and the
\* read end added with EPOLLET (bytes written before the add are reported
\* by the first epoll_wait).
SelectorInit ==
    /\ alive /\ sel = "init"
    /\ sel' = "on"
    /\ UNCHANGED << peer, accepted, inbuf, nsent, got, map, active, completed, notified,
                    queue, wk, pending, pipeEdge, interest, ready, alive, early,
                    mainPc, cfg, logLevel, netIf, port, lst >>

\* A peer dials the configured port: the server is reachable only when
\* htons(m_iPort) is that port.
Dialable == port \in 1..65535

-----------------------------------------------------------------------------
(* Peers *)

Connect(c) ==
    /\ lst = "accept" /\ Dialable
    /\ peer[c] = "off"
    /\ peer' = [peer EXCEPT ![c] = "up"]
    /\ UNCHANGED << accepted, inbuf, nsent, got, map, active, completed, notified,
                    queue, wk, pending, pipeEdge, interest, ready, alive >>
    /\ UNCHANGED << startVars, early >>

Send(c) ==
    /\ peer[c] = "up"
    /\ nsent[c] < MaxMsgs
    /\ inbuf' = [inbuf EXCEPT ![c] = Append(@, << c, nsent[c] + 1 >>)]
    /\ nsent' = [nsent EXCEPT ![c] = @ + 1]
    /\ ready' = EdgeOf(c)
    /\ UNCHANGED << peer, accepted, got, map, active, completed, notified,
                    queue, wk, pending, pipeEdge, interest, alive >>
    /\ UNCHANGED << startVars, early >>

Hangup(c) ==
    /\ Hangups
    /\ peer[c] = "up"
    /\ peer' = [peer EXCEPT ![c] = "closed"]
    /\ ready' = EdgeOf(c)
    /\ UNCHANGED << accepted, inbuf, nsent, got, map, active, completed, notified,
                    queue, wk, pending, pipeEdge, interest, alive >>
    /\ UNCHANGED << startVars, early >>


-----------------------------------------------------------------------------
(* Listener thread *)

\* CThreadPoolModule::AddTask, under the task lock: register the task by
\* descriptor, append the socket to the active list and schedule a first
\* ReceiveData (RenewTask).
AddTask(c) ==
    /\ map' = map \cup {c}
    /\ active' = Append(active, c)
    /\ queue' = Append(queue, c)

\* accept returns the connection and a new CReceiveTask goes to AddTask.
Accept(c) ==
    /\ lst = "accept"
    /\ alive
    /\ peer[c] # "off"
    /\ c \notin accepted
    /\ accepted' = accepted \cup {c}
    /\ AddTask(c)
    /\ UNCHANGED << peer, inbuf, nsent, got, completed, notified, wk, pending,
                    pipeEdge, interest, ready, alive >>
    /\ UNCHANGED << startVars, early >>

-----------------------------------------------------------------------------
(* Pool threads: CReceiveTask::ReceiveData *)

\* A free thread takes the oldest scheduled call; the task is marked not
\* completed before the first recv.
StartTask(w) ==
    /\ alive
    /\ wk[w].pc = "idle"
    /\ queue # << >>
    /\ wk' = [wk EXCEPT ![w] = [Idle EXCEPT !.pc = "recv", !.task = Head(queue)]]
    /\ queue' = Tail(queue)
    /\ completed' = [completed EXCEPT ![Head(queue)] = FALSE]
    /\ UNCHANGED << peer, accepted, inbuf, nsent, got, map, active, notified,
                    pending, pipeEdge, interest, ready, alive >>
    /\ UNCHANGED << startVars, early >>

\* The blocking recv: it waits while the peer is up and nothing is
\* buffered, returns 0 after a FIN and -1 after a reset.  Data read is split
\* into messages and the active list is copied (GetConnectionList) for the
\* writes; nothing read means nothing to write.
Recv(w) ==
    LET c == wk[w].task IN
    /\ alive
    /\ wk[w].pc = "recv"
    /\ \/ /\ peer[c] # "reset"
          /\ inbuf[c] # << >>
          /\ wk' = [wk EXCEPT ![w].pc = "write", ![w].data = inbuf[c],
                               ![w].targets = active]
          /\ inbuf' = [inbuf EXCEPT ![c] = << >>]
       \/ /\ peer[c] = "reset" \/ (peer[c] = "closed" /\ inbuf[c] = << >>)
          /\ wk' = [wk EXCEPT ![w].pc = "finish"]
          /\ UNCHANGED inbuf
    /\ UNCHANGED << peer, accepted, nsent, got, map, active, completed, notified,
                    queue, pending, pipeEdge, interest, ready, alive >>
    /\ UNCHANGED << startVars, early >>

\* The write to the next socket of the copy.  The sender's own socket is
\* skipped; a closed descriptor gives EBADF; a peer that has closed its end
\* answers the write with a reset; a write to a reset socket raises SIGPIPE,
\* whose default action ends the process (no handler is installed).
Write(w) ==
    LET c == wk[w].task
        t == Head(wk[w].targets)
    IN
    /\ wk[w].pc = "write"
    /\ alive
    /\ wk[w].targets # << >>
    /\ wk' = [wk EXCEPT ![w].targets = Tail(@)]
    /\ \/ /\ t = c \/ ~ServerOpen(t)
          /\ UNCHANGED << peer, got, ready, alive >>
       \/ /\ t # c /\ ServerOpen(t) /\ peer[t] = "up"
          /\ got' = [got EXCEPT ![t] = @ \o wk[w].data]
          /\ UNCHANGED << peer, ready, alive >>
       \/ /\ t # c /\ ServerOpen(t) /\ peer[t] = "closed"
          /\ peer' = [peer EXCEPT ![t] = "reset"]
          /\ ready' = EdgeOf(t)
          /\ UNCHANGED << got, alive >>
       \/ /\ t # c /\ ServerOpen(t) /\ peer[t] = "reset"
          /\ alive' = FALSE
          /\ UNCHANGED << peer, got, ready >>
    /\ UNCHANGED << accepted, inbuf, nsent, map, active, completed, notified,
                    queue, pending, pipeEdge, interest >>
    /\ UNCHANGED << startVars, early >>

\* Mutant: the first run drops its task before it notifies the selector.
FinishReleasingFirst(w) ==
    LET c == wk[w].task IN
    /\ alive
    /\ \/ wk[w].pc = "finish"
       \/ wk[w].pc = "write" /\ wk[w].targets = << >>
    /\ completed' = [completed EXCEPT ![c] = TRUE]
    /\ wk' = [wk EXCEPT ![w] = IF notified[c] THEN Idle ELSE [Idle EXCEPT !.pc = "notify"]]
    /\ notified' = [notified EXCEPT ![c] = TRUE]
    /\ UNCHANGED << peer, accepted, inbuf, nsent, got, map, active, queue,
                    pending, pipeEdge, interest, ready, alive >>
    /\ UNCHANGED << startVars, early >>

\* The copy is exhausted (or nothing was read): the task is completed, and
\* its first run goes on to notify the selector.  A later run releases the
\* task.
Finish(w) ==
    LET c == wk[w].task IN
    /\ alive
    /\ \/ wk[w].pc = "finish"
       \/ wk[w].pc = "write" /\ wk[w].targets = << >>
    /\ completed' = [completed EXCEPT ![c] = TRUE]
    /\ IF notified[c]
          THEN wk' = [wk EXCEPT ![w] = Idle]
          ELSE wk' = [wk EXCEPT ![w].pc = "notify"]
    /\ notified' = [notified EXCEPT ![c] = TRUE]
    /\ UNCHANGED << peer, accepted, inbuf, nsent, got, map, active, queue,
                    pending, pipeEdge, interest, ready, alive >>
    /\ UNCHANGED << startVars, early >>

\* NotifySelector, first half: the socket joins the pending list under
\* m_ipcAccess.
NotifyPush(w) ==
    /\ alive
    /\ wk[w].pc = "notify"
    /\ pending' = Append(pending, wk[w].task)
    /\ wk' = [wk EXCEPT ![w].pc = "pipe"]
    /\ UNCHANGED << peer, accepted, inbuf, nsent, got, map, active, completed,
                    notified, queue, pipeEdge, interest, ready, alive >>
    /\ UNCHANGED << startVars, early >>

\* NotifySelector, second half: eight bytes to the write end of the pipe,
\* an edge for the selector.  The run ends and releases the task.  Before
\* the selector thread has run pipe(), m_iPipeFDs is uninitialised (the
\* constructor leaves it): 0 makes it return, another value makes the
\* write fail or land on some other descriptor; no edge reaches the
\* selector either way.
NotifyPipe(w) ==
    /\ alive
    /\ wk[w].pc = "pipe"
    /\ IF sel = "on"
         THEN pipeEdge' = TRUE /\ UNCHANGED early
         ELSE early' = early \cup {wk[w].task} /\ UNCHANGED pipeEdge
    /\ wk' = [wk EXCEPT ![w] = Idle]
    /\ UNCHANGED << peer, accepted, inbuf, nsent, got, map, active, completed,
                    notified, queue, pending, interest, ready, alive, startVars >>

-----------------------------------------------------------------------------
(* Selector thread *)

\* Mutant: only the first pending socket is added, the list is still cleared.
SelectPipeHeadOnly ==
    LET first == IF pending = << >> THEN {} ELSE {Head(pending)} IN
    /\ sel = "on"
    /\ alive
    /\ pipeEdge
    /\ pipeEdge' = FALSE
    /\ interest' = interest \cup {s \in first : ServerOpen(s)}
    /\ ready' = ready \cup {s \in first : ServerOpen(s) /\ Readable(s)}
    /\ pending' = << >>
    /\ UNCHANGED << peer, accepted, inbuf, nsent, got, map, active, completed,
                    notified, queue, wk, alive >>
    /\ UNCHANGED << startVars, early >>

\* A pipe edge: read one notification, then under m_ipcAccess add every
\* pending socket to the epoll set and clear the list.  EPOLL_CTL_ADD fails
\* for a descriptor already closed; a socket readable when it is added is
\* reported by the next epoll_wait.
SelectPipe ==
    LET added == {s \in ToSet(pending) : ServerOpen(s)} IN
    /\ sel = "on"
    /\ alive
    /\ pipeEdge
    /\ pipeEdge' = FALSE
    /\ interest' = interest \cup added
    /\ ready' = ready \cup {s \in added : Readable(s)}
    /\ pending' = << >>
    /\ UNCHANGED << peer, accepted, inbuf, nsent, got, map, active, completed,
                    notified, queue, wk, alive >>
    /\ UNCHANGED << startVars, early >>

\* FindTaskBySocket: the task is registered and its last run has completed.
FindTaskBySocket(c) == c \in map /\ completed[c]

\* Mutant: the active entry is erased but the task stays in the map.
RemoveTaskBySocketKeepTask(c) ==
    /\ active' = RemoveFirst(active, c)
    /\ UNCHANGED map

\* RemoveTaskBySocket: erase the task and the active entry.
RemoveTaskBySocket(c) ==
    /\ map' = map \ {c}
    /\ active' = RemoveFirst(active, c)

\* An event of a connection.  A reset peer reports EPOLLERR/EPOLLHUP and
\* the task is removed; otherwise the event is EPOLLIN, and a task found
\* completed is renewed (a second edge before the run starts renews it
\* again).
SelectSocket(c) ==
    /\ sel = "on"
    /\ alive
    /\ c \in ready
    /\ Watched(c)
    /\ ready' = ready \ {c}
    /\ \/ /\ peer[c] = "reset"
          /\ RemoveTaskBySocket(c)
          /\ UNCHANGED queue
       \/ /\ peer[c] # "reset"
          /\ queue' = IF FindTaskBySocket(c) THEN Append(queue, c) ELSE queue
          /\ UNCHANGED << map, active >>
    /\ UNCHANGED << peer, accepted, inbuf, nsent, got, completed, notified, wk,
                    pending, pipeEdge, interest, alive >>
    /\ UNCHANGED << startVars, early >>

-----------------------------------------------------------------------------

\* The peers act on their own; the process's threads only while it lives.
Next ==
    \/ MainStep \/ ListenerInit \/ SelectorInit
    \/ \E c \in Clients : Connect(c) \/ Send(c) \/ Hangup(c)
    \/ \E c \in Clients : Accept(c) \/ SelectSocket(c)
    \/ SelectPipe
    \/ \E w \in Workers :
          \/ StartTask(w) \/ Recv(w) \/ Write(w) \/ Finish(w)
          \/ NotifyPush(w) \/ NotifyPipe(w)

WorkerStep(w) ==
    StartTask(w) \/ Recv(w) \/ Write(w) \/ Finish(w) \/ NotifyPush(w) \/ NotifyPipe(w)

\* Every thread runs when it can: the listener, the selector and each pool
\* thread block only in accept, epoll_wait, recv or on an empty queue.
Fairness ==
    /\ WF_vars(MainStep) /\ WF_vars(ListenerInit) /\ WF_vars(SelectorInit)
    /\ \A c \in Clients : WF_vars(Accept(c)) /\ WF_vars(SelectSocket(c))
    /\ WF_vars(SelectPipe)
    /\ \A w \in Workers : WF_vars(WorkerStep(w))

Spec == Init /\ [][Next]_vars /\ Fairness


-----------------------------------------------------------------------------
(* Properties *)

WorkerStates ==
    [pc : {"idle"}, task : {None}, data : {<< >>}, targets : {<< >>}]
    \cup [pc : {"recv", "write", "finish", "notify", "pipe"}, task : Clients,
          data : Seq(Msgs), targets : Seq(Clients)]

TypeOK ==
    /\ peer \in [Clients -> {"off", "up", "closed", "reset"}]
    /\ accepted \subseteq Clients /\ map \subseteq accepted
    /\ inbuf \in [Clients -> Seq(Msgs)] /\ got \in [Clients -> Seq(Msgs)]
    /\ nsent \in [Clients -> 0..MaxMsgs]
    /\ active \in Seq(Clients) /\ queue \in Seq(Clients) /\ pending \in Seq(Clients)
    /\ completed \in [Clients -> BOOLEAN] /\ notified \in [Clients -> BOOLEAN]
    /\ wk \in [Workers -> WorkerStates]
    /\ pipeEdge \in BOOLEAN /\ alive \in BOOLEAN
    /\ interest \subseteq Clients /\ ready \subseteq Clients
    /\ mainPc \in {"options", "exited", "daemon", "setup", "listener", "selector", "loop"}
    /\ logLevel \in Debug..Fatal
    /\ lst \in {"none", "init", "accept", "gone"} /\ sel \in {"none", "init", "on"}
    /\ early \subseteq Clients

\* A connection whose peer has sent something is handed to the selector:
\* its first ReceiveData pushes it to m_listPendingSock and then writes the
\* self-pipe, and the selector, woken by that edge, adds every pending socket
\* to epoll.  Unless the server has closed it, the process has died, or its
\* NotifySelector ran before the selector thread had created the pipe (the
\* start-up race AcceptedSocketsWatchedFromLaunch is about).
AcceptedSocketsWatched ==
    \A c \in Clients :
        (c \in accepted /\ nsent[c] > 0) ~> (Watched(c) \/ ~ServerOpen(c) \/ ~alive \/ c \in early)

\* The same from the launch of the process: NotifySelector "is used to
\* notify Selector thread about new incoming connections", also for the
\* first connections, served while main starts the selector thread after
\* the listener.
AcceptedSocketsWatchedFromLaunch ==
    \A c \in Clients :
        (c \in accepted /\ nsent[c] > 0) ~> (Watched(c) \/ ~ServerOpen(c) \/ ~alive)

\* A peer that answered a write with a reset is released: its EPOLLERR/HUP
\* event makes RemoveTaskBySocket erase the task, and the descriptor is
\* closed once the last scheduled ReceiveData that holds the task ends.
\* (A socket whose NotifySelector found no self-pipe is never in epoll and
\* gets no such event: see AcceptedSocketsWatchedFromLaunch.)
ResetConnectionsReleased ==
    \A c \in Clients : peer[c] = "reset" ~> (~ServerOpen(c) \/ ~alive \/ c \in early)

=============================================================================
