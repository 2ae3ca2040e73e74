----------------------------- MODULE ChatServer -----------------------------
(***************************************************************************)
(* The connection side of src/linux/chat_server: the readiness loop of     *)
(* ConnectionManager (epoll, edge triggered for clients, level triggered   *)
(* for the listening socket), the registry of open connections keyed by    *)
(* descriptor, the deferred delete list, the ConnectionHolder and its      *)
(* SocketWrapper, and the three tasks that run on the fast and the slow    *)
(* thread pools (ReceiveDataTask, ProcessMessageTask, WriteAnswerTask).    *)
(*                                                                         *)
(* The kernel is part of the model because the code relies on it: accept   *)
(* hands out the lowest free descriptor, close() frees the number and      *)
(* drops the epoll registration, EPOLL_CTL_ADD reports input that is       *)
(* already pending, and an edge-triggered registration reports one event   *)
(* per arrival.  The pools are abstract FIFO queues served by a set of     *)
(* workers; ThreadPool.tla models the pool itself.                         *)
(*                                                                         *)
(* Data is abstracted to whole lines of equal length.  A line is a record  *)
(* saying who wrote it and which of its lines it is, so that the           *)
(* properties can tell where a delivered message came from.                *)
(***************************************************************************)
EXTENDS Naturals, Sequences, FiniteSets, SequencesExt, FiniteSetsExt

CONSTANTS
    Clients,      \* remote peers; each connects at most once
    FDs,          \* descriptor numbers accept() can return
    FastWorkers,  \* threads of the fast pool (receive and write tasks)
    SlowWorkers,  \* threads of the slow pool (message processing tasks)
    MaxLines,     \* lines a client writes at most
    LineKinds,    \* what a client line may be: a chat line, \quit,
                  \* \nickname Nick or \private Nick
    Nick,         \* the one nickname clients may ask for
    Hangups,      \* whether a client may close its end
    None,         \* no connection / no carrier
    Invalid,      \* INVALID_DESCRIPTOR
    Server,       \* ServerSenderName
    Listen        \* the carrier of the listening socket

ASSUME /\ FDs \subseteq Nat /\ FDs # {}
       /\ FastWorkers \cap SlowWorkers = {}
       /\ MaxLines \in Nat
       /\ LineKinds \subseteq {"chat", "quit", "nick", "private"} /\ Hangups \in BOOLEAN

VARIABLES
    cst,        \* client side: "idle", "open" or "hungup"
    backlog,    \* connections completed by the kernel, not yet accepted
    wire,       \* per client: lines written and not yet read by the server
    sent,       \* per client: lines written so far
    fdTable,    \* kernel descriptor table: descriptor -> client socket or None
    interest,   \* epoll interest list: descriptor -> carrier or None
    edge,       \* descriptors whose registration has an unreported event
    conns,      \* ConnectionHolder objects created (one per accepted client)
    destroyed,  \* ConnectionHolder objects whose destructor has run
    sock,       \* SocketWrapper::m_socket of each holder
    sclosed,    \* holders whose SocketWrapper::m_isClosed is set
    closed,     \* ConnectionHolder::m_isConnectionClosed
    buffer,     \* ConnectionHolder::m_socketData
    rlock,      \* owner of ConnectionHolder::m_socketDataAccessGuard
    uname,      \* ConnectionHolder::m_username; the generated name is the client
    registry,   \* ConnectionManager::m_activeConnections: descriptor -> holder
    pending,    \* ConnectionManager::m_pendingConnectionsToDelete
    ep,         \* listener thread: "wait" in epoll_wait, or "dispatch"
    batch,      \* carriers of the events epoll_wait returned, not yet handled
    held,       \* the holder kept alive by the local triggeredConnection
    fastQ,      \* task list of the fast pool
    slowQ,      \* task list of the slow pool
    worker,     \* per worker thread: the task it runs and where it is
    delivered   \* per client: chat lines the server wrote to its socket

vars == <<cst, backlog, wire, sent, fdTable, interest, edge, conns, destroyed,
          sock, sclosed, closed, buffer, rlock, uname, registry, pending, ep, batch, held,
          fastQ, slowQ, worker, delivered>>

kernelVars == <<cst, backlog, wire, sent, fdTable, interest, edge>>
holderVars == <<conns, destroyed, sock, sclosed, closed, buffer, rlock, uname>>
loopVars   == <<registry, pending, ep, batch, held>>

Workers == FastWorkers \cup SlowWorkers

\* "reply" is a server message to the sender alone; "renamed" the notice
\* that a user is now known by another name.
Line == [k : {"chat", "quit", "nick", "private", "join", "left", "intro", "reply", "renamed"},
         src : Clients, n : 0..MaxLines]

\* One record shape for every task; fields a task does not use are None/<<>>.
Task == [type : {"recv", "proc", "bcast", "single"},
         conn : Clients \cup {None},      \* m_connection / sender / receiver
         rcv : Clients \cup {None},       \* MessageDescription::receiver
         sock : FDs \cup {Invalid},       \* MessageDescription::senderSocket
         name : Clients \cup {Server, Nick}, \* MessageDescription::senderName
         data : Seq(Line),
         targets : SUBSET Clients]        \* WriteAnswerTask::m_activeConnections

MkTask(ty, c, r, s, nm, d, tg) ==
    [type |-> ty, conn |-> c, rcv |-> r, sock |-> s, name |-> nm,
     data |-> d, targets |-> tg]

NoTask == MkTask("recv", None, None, Invalid, Server, <<>>, {})

Idle == [pc |-> "idle", task |-> NoTask, tmp |-> <<>>, cur |-> Invalid]

-----------------------------------------------------------------------------
(* Kernel helpers *)

FreeFDs == {d \in FDs : fdTable[d] = None}

\* the socket of client c is still open on the server side or waits in the backlog
Reachable(c) == c \in ToSet(backlog) \/ \E d \in FDs : fdTable[d] = c

\* data or a hang-up arriving on c's socket fires its registration once
EdgesOf(c) == {d \in FDs : fdTable[d] = c /\ interest[d] # None}

\* close(d): the number is free again and epoll forgets the registration
CloseFD(d) ==
    /\ fdTable' = [fdTable EXCEPT ![d] = None]
    /\ interest' = [interest EXCEPT ![d] = None]
    /\ edge' = edge \ {d}

Registered == {registry[d] : d \in FDs} \ {None}

\* holders a task keeps alive through a ConnectionHolderPtr
TaskRefs(t) == ({t.conn, t.rcv} \cup t.targets) \ {None}

\* a holder is alive while a shared pointer to it exists
Referenced(c) ==
    \/ c \in Registered
    \/ held = c
    \/ \E i \in 1..Len(fastQ) : c \in TaskRefs(fastQ[i])
    \/ \E i \in 1..Len(slowQ) : c \in TaskRefs(slowQ[i])
    \/ \E w \in Workers : worker[w].pc # "idle" /\ c \in TaskRefs(worker[w].task)

SocketValid(c) == c \notin sclosed /\ sock[c] # Invalid

-----------------------------------------------------------------------------
(* The remote clients *)

Connect(c) ==
    /\ cst[c] = "idle"
    /\ cst' = [cst EXCEPT ![c] = "open"]
    /\ backlog' = Append(backlog, c)
    /\ UNCHANGED <<wire, sent, fdTable, interest, edge>>
    /\ UNCHANGED <<holderVars, loopVars, fastQ, slowQ, worker, delivered>>

Send(c, k) ==
    /\ cst[c] = "open" /\ Reachable(c) /\ sent[c] < MaxLines
    /\ sent' = [sent EXCEPT ![c] = @ + 1]
    /\ wire' = [wire EXCEPT ![c] = Append(@, [k |-> k, src |-> c, n |-> sent[c] + 1])]
    /\ edge' = edge \cup EdgesOf(c)
    /\ UNCHANGED <<cst, backlog, fdTable, interest>>
    /\ UNCHANGED <<holderVars, loopVars, fastQ, slowQ, worker, delivered>>

Hangup(c) ==
    /\ Hangups
    /\ cst[c] = "open" /\ Reachable(c)
    /\ cst' = [cst EXCEPT ![c] = "hungup"]
    /\ edge' = edge \cup EdgesOf(c)
    /\ UNCHANGED <<backlog, wire, sent, fdTable, interest>>
    /\ UNCHANGED <<holderVars, loopVars, fastQ, slowQ, worker, delivered>>

-----------------------------------------------------------------------------
(* ConnectionManager::ProcessConnections, run in a loop by the listener     *)
(* thread.  epoll_wait returns every ready event; the events are then       *)
(* handled one at a time, in the order the kernel put them, and the delete  *)
(* list is applied at the end of the batch.                                 *)

\* the listening socket is level triggered: ready while the backlog is not empty
ReadyCarriers ==
    {interest[d] : d \in edge} \cup (IF backlog # <<>> THEN {Listen} ELSE {})

PendingFDs == pending \cap FDs

\* (mutant) the registry entry is erased without asking the holder found
\* there whether it is closed
DeleteListUnchecked ==
    /\ interest' = [d \in FDs |-> IF d \in PendingFDs THEN None ELSE interest[d]]
    /\ edge' = edge \ PendingFDs
    /\ registry' = [d \in FDs |-> IF d \in PendingFDs THEN None ELSE registry[d]]
    /\ pending' = {}

DeleteList ==
    /\ interest' = [d \in FDs |-> IF d \in PendingFDs THEN None ELSE interest[d]]
    /\ edge' = edge \ PendingFDs
    /\ registry' = [d \in FDs |->
                      IF d \in PendingFDs /\ registry[d] # None /\ closed[registry[d]]
                        THEN None ELSE registry[d]]
    /\ pending' = {}

\* epoll_wait; when it times out with no event the (empty) loop is skipped
\* and ApplyDeleteList runs at once
EpollWait ==
    /\ ep = "wait"
    /\ IF ReadyCarriers = {}
         THEN /\ DeleteList
              /\ UNCHANGED <<ep, batch, held>>
         ELSE /\ ep' = "dispatch"
              /\ batch' = ReadyCarriers
              /\ edge' = {}
              /\ UNCHANGED <<interest, registry, pending, held>>
    /\ UNCHANGED <<cst, backlog, wire, sent, fdTable>>
    /\ UNCHANGED <<holderVars, fastQ, slowQ, worker, delivered>>

\* OnConnectionEvent for the listening socket: one accept() per event.  A
\* descriptor that is already registered under the same number is replaced
\* (AddConnection erases the old entry before it inserts the new one).
JoinTask(b, d) ==
    MkTask("proc", None, b, d, Server, <<[k |-> "join", src |-> b, n |-> 0]>>, {})
IntroTask(b, d) ==
    MkTask("proc", None, b, d, Server, <<[k |-> "intro", src |-> b, n |-> 0]>>, {})

\* ConnectionManager::AddConnection: a new holder and its carrier, the
\* registry entry replacing whatever was stored under d, EPOLL_CTL_ADD (which
\* reports input already pending), and the join and intro notices
AddConnection(b, d) ==
    /\ conns' = conns \cup {b}
    /\ sock' = [sock EXCEPT ![b] = d]
    /\ buffer' = [buffer EXCEPT ![b] = <<>>]
    /\ interest' = [interest EXCEPT ![d] = b]
    /\ edge' = IF wire[b] # <<>> \/ cst[b] = "hungup" THEN edge \cup {d} ELSE edge
    /\ registry' = [registry EXCEPT ![d] = b]
    /\ slowQ' = slowQ \o <<JoinTask(b, d), IntroTask(b, d)>>
    /\ UNCHANGED <<destroyed, sclosed, closed, rlock, uname>>

Accept ==
    LET b == Head(backlog)
        d == Min(FreeFDs)
    IN
    /\ FreeFDs # {}
    /\ backlog' = Tail(backlog)
    /\ fdTable' = [fdTable EXCEPT ![d] = b]
    /\ \/ \* SocketWrapper(int) tests its own uninitialised m_socket against
          \* INVALID_DESCRIPTOR; when the garbage equals it, the constructor
          \* throws and the accepted descriptor is never used or closed.
          /\ UNCHANGED <<interest, edge, holderVars, registry, slowQ>>
       \/ AddConnection(b, d)

DispatchListen ==
    /\ ep = "dispatch" /\ Listen \in batch
    /\ batch' = batch \ {Listen}
    /\ held' = None
    /\ \/ Accept
       \/ /\ FreeFDs = {}     \* accept() fails with EMFILE; the exception is caught
          /\ UNCHANGED <<backlog, fdTable, interest, edge, holderVars, registry, slowQ>>
    /\ UNCHANGED <<cst, wire, sent, pending, ep, fastQ, worker, delivered>>

\* OnConnectionEvent for a client: carrier->holder.lock() and, when the socket
\* is still valid, a ReceiveDataTask on the fast pool.  A carrier whose holder
\* is gone is freed memory; the model lets lock() come back empty.
DispatchConn(c) ==
    /\ ep = "dispatch" /\ c \in batch /\ c # Listen
    /\ batch' = batch \ {c}
    /\ IF Referenced(c)
         THEN /\ held' = c
              /\ fastQ' = IF SocketValid(c)
                            THEN Append(fastQ, MkTask("recv", c, None, Invalid, c, <<>>, {}))
                            ELSE fastQ
         ELSE UNCHANGED <<held, fastQ>>
    /\ UNCHANGED <<kernelVars, holderVars, registry, pending, ep, slowQ, worker, delivered>>

\* ConnectionManager::ApplyDeleteList: EPOLL_CTL_DEL every pending descriptor
\* and erase it from the registry if the holder found there is closed
ApplyDeleteList ==
    /\ ep = "dispatch" /\ batch = {}
    /\ ep' = "wait"
    /\ held' = None
    /\ DeleteList
    /\ UNCHANGED <<cst, backlog, wire, sent, fdTable, holderVars, batch,
                   fastQ, slowQ, worker, delivered>>

-----------------------------------------------------------------------------
(* ReceiveDataTask::Execute on a fast worker.  The holder's lock is held for *)
(* the whole read loop of ReadAndAppendSocketData, but every read() goes to  *)
(* the descriptor m_socket holds at that moment, and ConnectionHolder::Close *)
(* does not take that lock.                                                  *)

SetWorker(w, r) == worker' = [worker EXCEPT ![w] = r]

\* Close() up to the socket: m_isConnectionClosed and RemoveConnection
\* (mutant) Close() forgets to push the descriptor to the delete list
MarkClosedNoPush(c) ==
    /\ closed' = [closed EXCEPT ![c] = TRUE]
    /\ pending' = pending

MarkClosed(c) ==
    /\ closed' = [closed EXCEPT ![c] = TRUE]
    /\ pending' = pending \cup {sock[c]}

\* one read() call of the loop in ReadAndAppendSocketData, on behalf of the
\* receive task t that has read tmp so far
ReadStep(w, t, tmp, cur) ==
    LET c == t.conn
        d == sock[c]
        o == IF d \in FDs THEN fdTable[d] ELSE None
        at(pc, data) == [pc |-> pc, task |-> t, tmp |-> data, cur |-> cur]
        unlock == rlock' = [rlock EXCEPT ![c] = None]
    IN
    /\ CASE o = None ->
              \* read(-1) or read() of a closed descriptor: the exception is
              \* dispatched, the data read so far is dropped, the task ends
              /\ SetWorker(w, Idle)
              /\ unlock
              /\ UNCHANGED <<wire, conns, destroyed, sock, sclosed, closed, buffer, pending, slowQ, uname>>
         [] wire[o] # <<>> ->
              /\ wire' = [wire EXCEPT ![o] = <<>>]
              /\ SetWorker(w, at("read", tmp \o wire[o]))
              /\ rlock' = [rlock EXCEPT ![c] = w]
              /\ UNCHANGED <<conns, destroyed, sock, sclosed, closed, buffer, pending, slowQ, uname>>
         [] cst[o] = "hungup" ->
              \* read() returned 0: eConnectionClosed, then Close()
              /\ buffer' = [buffer EXCEPT ![c] = @ \o tmp]
              /\ unlock
              /\ MarkClosed(c)
              /\ SetWorker(w, at("close2", <<>>))
              /\ UNCHANGED <<wire, conns, destroyed, sock, sclosed, slowQ, uname>>
         [] OTHER ->
              \* EAGAIN: sOk; GetNextSocketData then takes every complete line
              LET taken == buffer[c] \o tmp IN
              /\ buffer' = [buffer EXCEPT ![c] = <<>>]
              /\ unlock
              /\ SetWorker(w, IF taken = <<>> THEN Idle ELSE at("post", taken))
              /\ UNCHANGED <<wire, conns, destroyed, sock, sclosed, closed, pending, slowQ, uname>>
    /\ UNCHANGED <<cst, backlog, sent, fdTable, interest, edge>>
    /\ UNCHANGED <<registry, ep, batch, held, delivered>>

\* A worker takes the task at the head of its pool's list (TryGetNewTask).
TakeTask(w) ==
    /\ worker[w].pc = "idle"
    /\ IF w \in FastWorkers
         THEN /\ fastQ # <<>>
              /\ SetWorker(w, [Idle EXCEPT !.pc = "run", !.task = Head(fastQ)])
              /\ fastQ' = Tail(fastQ)
              /\ UNCHANGED slowQ
         ELSE /\ slowQ # <<>>
              /\ SetWorker(w, [Idle EXCEPT !.pc = "run", !.task = Head(slowQ)])
              /\ slowQ' = Tail(slowQ)
              /\ UNCHANGED fastQ
    /\ UNCHANGED <<kernelVars, holderVars, loopVars, delivered>>

\* ReceiveDataTask::Execute reads currentSocket, takes the holder's lock and
\* makes the first read() call
LockAndRead(w) ==
    LET t == worker[w].task IN
    /\ worker[w].pc = "run" /\ t.type = "recv"
    /\ rlock[t.conn] = None
    /\ ReadStep(w, t, <<>>, sock[t.conn])
    /\ UNCHANGED fastQ

ReadCall(w) ==
    /\ worker[w].pc = "read"
    /\ ReadStep(w, worker[w].task, worker[w].tmp, worker[w].cur)
    /\ UNCHANGED fastQ

\* the ProcessMessageTask is posted after both locks are released
PostProcess(w) ==
    LET t == worker[w].task IN
    /\ worker[w].pc = "post"
    /\ slowQ' = Append(slowQ, MkTask("proc", t.conn, None, worker[w].cur,
                                     uname[t.conn], worker[w].tmp, {}))
    /\ SetWorker(w, Idle)
    /\ UNCHANGED <<kernelVars, holderVars, loopVars, fastQ, delivered>>

\* SocketWrapper::Close: m_isClosed, then close(m_socket) ...
CloseSocket(w) ==
    LET c == worker[w].task.conn IN
    /\ worker[w].pc = "close2"
    /\ IF c \in sclosed
         THEN /\ SetWorker(w, Idle)
              /\ UNCHANGED <<fdTable, interest, edge, sclosed>>
         ELSE /\ sclosed' = sclosed \cup {c}
              /\ CloseFD(sock[c])
              /\ SetWorker(w, [worker[w] EXCEPT !.pc = "close3"])
    /\ UNCHANGED <<cst, backlog, wire, sent, conns, destroyed, sock, closed, buffer, rlock, uname>>
    /\ UNCHANGED <<loopVars, fastQ, slowQ, delivered>>

\* ... and only then m_socket = INVALID_DESCRIPTOR
InvalidateSocket(w) ==
    LET c == worker[w].task.conn IN
    /\ worker[w].pc = "close3"
    /\ sock' = [sock EXCEPT ![c] = Invalid]
    /\ SetWorker(w, Idle)
    /\ UNCHANGED <<kernelVars, conns, destroyed, sclosed, closed, buffer, rlock, uname>>
    /\ UNCHANGED <<loopVars, fastQ, slowQ, delivered>>

-----------------------------------------------------------------------------
(* ProcessMessageTask::Execute on a slow worker.  The loop over the data     *)
(* splits it at line ends, but increments its index by an absolute position  *)
(* (terminationPosition = find('\n', i) + 1) and uses the same value as the  *)
(* length of the next piece.  With lines of equal length, measured in lines, *)
(* the piece at index i has length tp and the next index is i + (i + 1).     *)

RECURSIVE Pieces(_, _, _)
Pieces(data, i, tp) ==
    IF i >= Len(data) THEN <<>>
    ELSE <<SubSeq(data, i + 1, Min({i + tp, Len(data)}))>>
         \o Pieces(data, i + (i + 1), i + 1)

\* ProcessChatMessages: the stored messages go to a WriteAnswerTask that
\* captures the registry when it is created
Flush(t, list) ==
    IF list = <<>> THEN <<>>
    ELSE <<MkTask("bcast", None, None, t.sock, t.name, list, Registered)>>

\* The holder ConnectionManager::m_activeConnections stores under a
\* descriptor (SetClientUsername's sourceConnection).
RegistryAt(d) == IF d \in FDs THEN registry[d] ELSE None

\* m_username of a holder while the task runs; rn is the holder this task
\* has renamed to Nick so far.
NameOf(h, rn) == IF h = rn THEN Nick ELSE uname[h]

\* SetClientUsername's and FindConnectionByUsername's walk of the registry:
\* the descriptors whose holder is called Nick, in the map's order.
NickHolders(rn) == {d \in FDs : registry[d] # None /\ NameOf(registry[d], rn) = Nick}

\* PostServerMessage: a line to the sender alone.
Reply(t) ==
    MkTask("single", t.conn, None, t.sock, Server, <<[k |-> "reply", src |-> t.conn, n |-> 0]>>, {})

(***************************************************************************)
(* The loop body per piece.  A service piece flushes the stored messages   *)
(* first.  \quit closes the sender and leaves the loop; \intro from the   *)
(* server answers the receiver alone.  \nickname Nick is refused when a    *)
(* registered holder is called Nick; otherwise SetClientUsername renames   *)
(* the holder the registry stores under senderSocket, the sender is told  *)
(* "ok.", the notice is stored and later pieces carry the new name; when  *)
(* no holder is stored there the error makes the piece a chat message.     *)
(* \private Nick is refused when senderName is Nick or nobody is called   *)
(* Nick, and is otherwise posted to the first holder called Nick.  Any     *)
(* other piece is stored as a chat message.                                *)
(***************************************************************************)
RECURSIVE Run(_, _, _, _, _)
Run(t, ps, i, list, rn) ==
    IF i > Len(ps) THEN [out |-> Flush(t, list), quit |-> FALSE, rn |-> rn]
    ELSE LET p == ps[i]
             k == p[1].k
             next(t2, l2, rn2, posted) ==
                LET r == Run(t2, ps, i + 1, l2, rn2) IN
                [out |-> Flush(t, list) \o posted \o r.out, quit |-> r.quit, rn |-> r.rn]
         IN
         CASE k = "quit" ->
                [out |-> Flush(t, list), quit |-> TRUE, rn |-> rn]
           [] k = "intro" /\ t.name = Server ->
                next(t, <<>>, rn, <<MkTask("single", t.rcv, None, t.sock, Server, p, {})>>)
           [] k = "nick" /\ NickHolders(rn) # {} ->
                next(t, <<>>, rn, <<Reply(t)>>)
           [] k = "nick" /\ RegistryAt(t.sock) = None ->
                next(t, p, rn, <<>>)
           [] k = "nick" ->
                next([t EXCEPT !.name = Nick],
                     <<[k |-> "renamed", src |-> p[1].src, n |-> 0]>>,
                     RegistryAt(t.sock), <<Reply(t)>>)
           [] k = "private" /\ (t.name = Nick \/ NickHolders(rn) = {}) ->
                next(t, <<>>, rn, <<Reply(t)>>)
           [] k = "private" ->
                next(t, <<>>, rn,
                     <<MkTask("single", registry[Min(NickHolders(rn))], None, t.sock, t.name, p, {})>>)
           [] OTHER -> Run(t, ps, i + 1, list \o p, rn)

Process(w) ==
    LET t == worker[w].task
        r == Run(t, Pieces(t.data, 0, 1), 1, <<>>, None)
    IN
    /\ worker[w].pc = "run" /\ t.type = "proc"
    /\ fastQ' = fastQ \o r.out
    /\ uname' = IF r.rn = None THEN uname ELSE [uname EXCEPT ![r.rn] = Nick]
    /\ IF r.quit
         THEN /\ MarkClosed(t.conn)
              /\ SetWorker(w, [Idle EXCEPT !.pc = "close2", !.task = t])
         ELSE /\ SetWorker(w, Idle)
              /\ UNCHANGED <<closed, pending>>
    /\ UNCHANGED <<kernelVars, conns, destroyed, sock, sclosed, buffer, rlock>>
    /\ UNCHANGED <<registry, ep, batch, held, slowQ, delivered>>

-----------------------------------------------------------------------------
(* WriteAnswerTask::Execute on a fast worker: send() to whatever descriptor  *)
(* each target's m_socket holds, skipping the one equal to senderSocket.     *)

\* the history records the chat and private lines a client is sent; server
\* notices are written like any other message but not recorded
Recorded(l) == l.k \in {"chat", "private"}

Owner(c) == IF sock[c] \in FDs THEN fdTable[sock[c]] ELSE None

Receivers(t) ==
    IF t.type = "bcast"
      THEN {Owner(g) : g \in {g \in t.targets : sock[g] # t.sock}} \ {None}
      ELSE {Owner(t.conn)} \ {None}

Write(w) ==
    LET t == worker[w].task IN
    /\ worker[w].pc = "run" /\ t.type \in {"bcast", "single"}
    /\ SetWorker(w, Idle)
    /\ delivered' = [o \in Clients |->
                       IF o \in Receivers(t)
                         THEN delivered[o] \o SelectSeq(t.data, Recorded)
                         ELSE delivered[o]]
    /\ UNCHANGED <<kernelVars, holderVars, loopVars, fastQ, slowQ>>

-----------------------------------------------------------------------------
(* ~ConnectionHolder runs when the last shared pointer goes: it posts the    *)
(* "has left" message with the descriptor its socket holds then, and the     *)
(* SocketWrapper destructor closes the socket if nobody did.                 *)

\* (mutant) the destructor may run for a holder that was never created or
\* was already destroyed
DestroyUnguarded(c) ==
    /\ ~Referenced(c)
    /\ destroyed' = destroyed \cup {c}
    /\ slowQ' = Append(slowQ, MkTask("proc", None, None, sock[c], Server,
                                     <<[k |-> "left", src |-> c, n |-> 0]>>, {}))
    /\ UNCHANGED <<kernelVars, conns, sclosed, sock, closed, buffer, rlock, uname>>
    /\ UNCHANGED <<loopVars, fastQ, worker, delivered>>

Destroy(c) ==
    /\ c \in conns \ destroyed /\ ~Referenced(c)
    /\ destroyed' = destroyed \cup {c}
    /\ slowQ' = Append(slowQ, MkTask("proc", None, None, sock[c], Server,
                                     <<[k |-> "left", src |-> c, n |-> 0]>>, {}))
    /\ IF c \in sclosed
         THEN UNCHANGED <<fdTable, interest, edge, sclosed, sock>>
         ELSE /\ sclosed' = sclosed \cup {c}
              /\ CloseFD(sock[c])
              /\ sock' = [sock EXCEPT ![c] = Invalid]
    /\ UNCHANGED <<cst, backlog, wire, sent, conns, closed, buffer, rlock, uname>>
    /\ UNCHANGED <<loopVars, fastQ, worker, delivered>>

-----------------------------------------------------------------------------

Init ==
    /\ cst = [c \in Clients |-> "idle"]
    /\ backlog = <<>>
    /\ wire = [c \in Clients |-> <<>>]
    /\ sent = [c \in Clients |-> 0]
    /\ fdTable = [d \in FDs |-> None]
    /\ interest = [d \in FDs |-> None]
    /\ edge = {}
    /\ conns = {}
    /\ destroyed = {}
    /\ sock = [c \in Clients |-> Invalid]
    /\ sclosed = {}
    /\ closed = [c \in Clients |-> FALSE]
    /\ buffer = [c \in Clients |-> <<>>]
    /\ rlock = [c \in Clients |-> None]
    /\ uname = [c \in Clients |-> c]
    /\ registry = [d \in FDs |-> None]
    /\ pending = {}
    /\ ep = "wait"
    /\ batch = {}
    /\ held = None
    /\ fastQ = <<>>
    /\ slowQ = <<>>
    /\ worker = [w \in Workers |-> Idle]
    /\ delivered = [c \in Clients |-> <<>>]

ClientStep(c) ==
    \/ Connect(c)
    \/ \E k \in LineKinds : Send(c, k)
    \/ Hangup(c)

ListenerStep ==
    \/ EpollWait
    \/ DispatchListen
    \/ \E c \in Clients : DispatchConn(c)
    \/ ApplyDeleteList

WorkerStep(w) ==
    \/ TakeTask(w)
    \/ LockAndRead(w) \/ ReadCall(w) \/ PostProcess(w)
    \/ CloseSocket(w) \/ InvalidateSocket(w)
    \/ Process(w) \/ Write(w)

Next ==
    \/ \E c \in Clients : ClientStep(c) \/ Destroy(c)
    \/ ListenerStep
    \/ \E w \in Workers : WorkerStep(w)

\* The listener thread and every pool thread keep running; a destructor runs
\* to its end.  The clients act when they like.
Fairness ==
    /\ WF_vars(ListenerStep)
    /\ \A w \in Workers : WF_vars(WorkerStep(w))
    /\ \A c \in Clients : WF_vars(Destroy(c))

Spec == Init /\ [][Next]_vars /\ Fairness

-----------------------------------------------------------------------------
(* Properties *)

TypeOK ==
    /\ cst \in [Clients -> {"idle", "open", "hungup"}]
    /\ backlog \in Seq(Clients)
    /\ wire \in [Clients -> Seq(Line)]
    /\ sent \in [Clients -> 0..MaxLines]
    /\ fdTable \in [FDs -> Clients \cup {None}]
    /\ interest \in [FDs -> Clients \cup {None}]
    /\ edge \subseteq FDs
    /\ conns \subseteq Clients /\ destroyed \subseteq conns
    /\ sock \in [Clients -> FDs \cup {Invalid}]
    /\ sclosed \subseteq conns
    /\ closed \in [Clients -> BOOLEAN]
    /\ buffer \in [Clients -> Seq(Line)]
    /\ rlock \in [Clients -> Workers \cup {None}]
    /\ uname \in [Clients -> Clients \cup {Nick}]
    /\ registry \in [FDs -> Clients \cup {None}]
    /\ pending \subseteq FDs \cup {Invalid}
    /\ ep \in {"wait", "dispatch"}
    /\ batch \subseteq Clients \cup {Listen}
    /\ held \in Clients \cup {None}
    /\ fastQ \in Seq(Task) /\ slowQ \in Seq(Task)
    /\ \A w \in Workers :
         /\ worker[w].pc \in {"idle", "run", "read", "post", "close2", "close3"}
         /\ worker[w].task \in Task
         /\ worker[w].tmp \in Seq(Line)
         /\ worker[w].cur \in FDs \cup {Invalid}
    /\ delivered \in [Clients -> Seq(Line)]

\* Every connection the registry holds and that is not closed is registered
\* with epoll under its descriptor, so its input is noticed (the registry is
\* "the set of descriptors registered with the multiplexer").  At risk when
\* ApplyDeleteList removes a descriptor that accept() has handed out again.
OpenConnectionsRegistered ==
    \A d \in FDs :
        registry[d] # None /\ ~closed[registry[d]] => interest[d] = registry[d]

\* No event still to be handled in the current batch carries a holder that has
\* already been freed (ProcessConnections dereferences carrier->holder).
CarriersLive ==
    ep = "dispatch" => \A c \in batch \ {Listen} : Referenced(c)

\* Data read on behalf of a connection was written by that connection's peer:
\* in its buffer, in a running read loop and in the ProcessMessageTask it posts.
DataStaysWithConnection ==
    /\ \A c \in conns : \A i \in 1..Len(buffer[c]) : buffer[c][i].src = c
    /\ \A w \in Workers :
         worker[w].pc \in {"read", "post"} =>
            \A i \in 1..Len(worker[w].tmp) : worker[w].tmp[i].src = worker[w].task.conn

\* A client is never written its own \private line: ProcessMessageTask
\* refuses a \private whose nickname is senderName ("Private loop-back
\* messages are not allowed").
NoPrivateLoopBack ==
    \A c \in Clients : \A i \in 1..Len(delivered[c]) :
        delivered[c][i].k = "private" => delivered[c][i].src # c

\* A connection that has been closed eventually leaves the registry
\* (Close pushes its descriptor, ApplyDeleteList erases it).
ClosedConnectionsLeaveRegistry ==
    \A c \in Clients : closed[c] ~> c \notin Registered

\* A connection object is destroyed only after it was closed: the registry
\* drops a holder only when it is closed, even when a pending descriptor has
\* meanwhile been handed to a new connection (the check of
\* IsConnectionClosed in ApplyDeleteList).
DestroyedOnlyWhenClosed ==
    \A c \in destroyed : closed[c]

=============================================================================
