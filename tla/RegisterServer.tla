--------------------------- MODULE RegisterServer ---------------------------
(***************************************************************************)
(* The TCP path of src/linux/user_register_server: the listener thread     *)
(* (CIPCModule::StartTCPListener), the selector thread (StartTCPSelector:  *)
(* a level-triggered epoll set with a self-pipe), the boost pool threads   *)
(* running CTCPReceiveTask::ReceiveData and CBaseTask::ProcessData, the    *)
(* two hand-over lists m_listPendingSockets and m_listPendingRemoveSockets *)
(* and the record file that REGISTER and GET requests read and append to.  *)
(* Maintenance mode (CThreadPoolModule::SetMaintenance) is set by the     *)
(* thread that reads options sent by a second server process.             *)
(*                                                                         *)
(* Data are abstracted: a request is a record (its kind, user name, e-mail *)
(* and whether its fields pass the length and '@' checks), a user name is *)
(* a short sequence of letters so that the suffix match of               *)
(* std::string::find(user + ";") can be modelled, and one request is one  *)
(* line with its "\r\n" terminator.                                        *)
(***************************************************************************)
EXTENDS Naturals, Sequences, SequencesExt, FiniteSets

CONSTANTS
    Clients,        \* TCP peers; each connects at most once
    FDs,            \* descriptor numbers accept() may return (all > 0)
    PipeFD,         \* the read end of m_iSelectorPipe
    Workers,        \* threads of the boost pool
    Requests,       \* requests a client may send
    Frag,           \* bytes without a terminator, sent last if at all
    MaxSends,       \* bound on the lines one client sends
    MaxRecords,     \* g_iMaxRecords
    InitialRecords, \* the record file when the server starts
    MaxToggles,     \* bound on maintenance-mode switches
    None

VARIABLES
    \* kernel
    sock,           \* sock[c]: descriptor of c's accepted socket, or None
    interest,       \* descriptors in the epoll set
    pipe,           \* values written to the self-pipe and not yet read
    \* selector thread
    ep,             \* "wait" in epoll_wait, or "dispatch"
    batch,          \* events returned by epoll_wait and not yet handled
    \* CIPCModule / CThreadPoolModule
    tasks,          \* m_mapReceiveTasks: descriptor -> client, or None
    pendingSockets, \* m_listPendingSockets
    pendingRemove,  \* m_listPendingRemoveSockets
    maint,          \* m_iMaintenance
    toggles,        \* maintenance switches so far
    pipeOpen,       \* m_iSelectorPipe[1] # 0: the selector thread has run pipe()
    early,          \* (history) tasks whose NotifySelector found the pipe not yet
                    \* created and whose descriptor no pipe value has drained since
    \* CTCPReceiveTask objects, one per accepted client
    completed,      \* m_bIsTaskCompleted
    pendingDelete,  \* m_bPendingDelete
    buffer,         \* m_strMsgBuffer, as lines
    parsed,         \* CProcessData::m_Data: the sections parsed so far
    destroyed,      \* tasks whose destructor ran (socket closed)
    \* boost pool
    sched,          \* functors scheduled and not yet taken, in order
    wk,             \* per worker: program counter, task, section
    \* record file
    file,           \* lines "user;email" as records
    \* peers
    cst,            \* "off", "up", "hup" (FIN sent), "reset", "dead"
    wire,           \* lines sent and not yet read by the server
    sent,           \* lines sent, in order
    answers         \* answers received, in order

kernelVars == <<sock, interest, pipe>>
serverVars == <<ep, batch, tasks, pendingSockets, pendingRemove, maint, toggles>>
taskVars == <<completed, pendingDelete, buffer, parsed, destroyed>>
peerVars == <<cst, wire, sent, answers>>
startVars == <<pipeOpen, early>>
vars == <<kernelVars, serverVars, taskVars, sched, wk, file, peerVars, startVars>>

Codes == {200, 400, 404, 405, 406, 409}
Sections == {r \in Requests : r.kind # "BAD"}
Lines == Requests \cup {Frag}
Users == {r.user : r \in Requests} \cup {rec.user : rec \in ToSet(InitialRecords)}
Emails == {r.email : r \in Requests} \cup {rec.email : rec \in ToSet(InitialRecords)}
Answer == [req : Lines, code : Codes, email : Emails \cup {"none", "garbled"}]
Record == [user : Users, email : Emails]
Pcs == {"idle", "start", "recv", "mcheck", "mwait", "mblocked", "parse",
        "append", "eofbad", "finish", "release"}
IdleWorker == [pc |-> "idle", task |-> None, sec |-> None, next |-> "parse"]

(***************************************************************************)
(* ReadFile: the loop reads while not eof and iLinesRead <= g_iMaxRecords, *)
(* and the final getline that hits eof counts one more line.  It returns   *)
(* min(lines, g_iMaxRecords) and the first min(lines, g_iMaxRecords + 1)  *)
(* lines.                                                                  *)
(***************************************************************************)
ReadCount == Min({Len(file), MaxRecords})
ReadLines == SubSeq(file, 1, Min({Len(file), MaxRecords + 1}))

\* strTemp.find(strUsername + ";") != npos: the name matches every record
\* whose user name ends with it.
Matches(u, rec) == IsSuffix(u, rec.user)
Present(u) == \E i \in 1..Len(ReadLines) : Matches(u, ReadLines[i])

\* GET copies strTemp.substr(strUsername.length()) of the first match: the
\* e-mail when the names are equal, a piece of the other record otherwise.
FoundEmail(u) ==
    LET i == SelectInSeq(ReadLines, LAMBDA rec : Matches(u, rec))
    IN IF ReadLines[i].user = u THEN ReadLines[i].email ELSE "garbled"

\* find_value: the first parsed section of the given request type.
FirstOf(p, kind) ==
    LET i == SelectInSeq(p, LAMBDA s : s.kind = kind)
    IN IF i = 0 THEN None ELSE p[i]

Accepted == {c \in Clients : sock[c] # None}
Ready(fd) ==
    \/ fd = PipeFD /\ pipe # <<>>
    \/ \E c \in Accepted : sock[c] = fd /\ (wire[c] # <<>> \/ cst[c] \in {"hup", "reset", "dead"})
ErrorOn(fd) == \E c \in Accepted : sock[c] = fd /\ cst[c] \in {"reset", "dead"}

Init ==
    /\ sock = [c \in Clients |-> None]
    /\ interest = {}
    /\ pipe = <<>>
    /\ ep = "wait"
    /\ batch = {}
    /\ tasks = [fd \in FDs |-> None]
    /\ pendingSockets = <<>>
    /\ pendingRemove = <<>>
    /\ maint = 0
    /\ toggles = 0
    /\ completed = [c \in Clients |-> FALSE]
    /\ pendingDelete = [c \in Clients |-> FALSE]
    /\ buffer = [c \in Clients |-> <<>>]
    /\ parsed = [c \in Clients |-> <<>>]
    /\ destroyed = {}
    /\ sched = <<>>
    /\ wk = [w \in Workers |-> IdleWorker]
    /\ file = InitialRecords
    /\ cst = [c \in Clients |-> "off"]
    /\ wire = [c \in Clients |-> <<>>]
    /\ sent = [c \in Clients |-> <<>>]
    /\ answers = [c \in Clients |-> <<>>]
    /\ pipeOpen = FALSE
    /\ early = {}

-----------------------------------------------------------------------------
(* Peers.  A client connects once, sends up to MaxSends lines (a line      *)
(* without terminator only as its last bytes), and may close its end      *)
(* (FIN) or reset the connection (RST, which discards what was not read).  *)

Connect(c) ==
    /\ cst[c] = "off"
    /\ cst' = [cst EXCEPT ![c] = "up"]
    /\ UNCHANGED <<kernelVars, serverVars, taskVars, sched, wk, file, wire, sent, answers>>
    /\ UNCHANGED startVars

Send(c, line) ==
    /\ cst[c] = "up" /\ c \notin destroyed
    /\ Len(sent[c]) < MaxSends
    /\ Frag \notin ToSet(sent[c])
    /\ wire' = [wire EXCEPT ![c] = Append(@, line)]
    /\ sent' = [sent EXCEPT ![c] = Append(@, line)]
    /\ UNCHANGED <<kernelVars, serverVars, taskVars, sched, wk, file, cst, answers>>
    /\ UNCHANGED startVars

Hangup(c) ==
    /\ cst[c] = "up"
    /\ cst' = [cst EXCEPT ![c] = "hup"]
    /\ UNCHANGED <<kernelVars, serverVars, taskVars, sched, wk, file, wire, sent, answers>>
    /\ UNCHANGED startVars

Reset(c) ==
    /\ cst[c] = "up"
    /\ cst' = [cst EXCEPT ![c] = "reset"]
    /\ wire' = [wire EXCEPT ![c] = <<>>]
    /\ UNCHANGED <<kernelVars, serverVars, taskVars, sched, wk, file, sent, answers>>
    /\ UNCHANGED startVars

-----------------------------------------------------------------------------
(* Listener thread, StartTCPListener: accept() returns the lowest free     *)
(* descriptor; the new CTCPReceiveTask is stored in m_mapReceiveTasks and  *)
(* its ReceiveData scheduled at once (CThreadPoolModule::AddTask and       *)
(* RenewTask).  An accept() failing with EMFILE only loops again.          *)

AcceptNoRenew(c) ==
    /\ cst[c] # "off" /\ sock[c] = None /\ c \notin destroyed
    /\ LET free == FDs \ {sock[d] : d \in Accepted}
       IN /\ free # {}
          /\ sock' = [sock EXCEPT ![c] = Min(free)]
          /\ tasks' = [tasks EXCEPT ![Min(free)] = c]
    /\ UNCHANGED <<interest, pipe, ep, batch, pendingSockets, pendingRemove, maint, toggles,
                   taskVars, sched, wk, file, peerVars>>
    /\ UNCHANGED startVars

Accept(c) ==
    /\ cst[c] # "off" /\ sock[c] = None /\ c \notin destroyed
    /\ LET free == FDs \ {sock[d] : d \in Accepted}
       IN /\ free # {}
          /\ LET fd == Min(free)
             IN /\ sock' = [sock EXCEPT ![c] = fd]
                /\ tasks' = [tasks EXCEPT ![fd] = c]
    /\ sched' = Append(sched, c)
    /\ UNCHANGED <<interest, pipe, ep, batch, pendingSockets, pendingRemove, maint, toggles,
                   taskVars, wk, file, peerVars>>
    /\ UNCHANGED startVars

-----------------------------------------------------------------------------
(* Selector thread, StartTCPSelector.  epoll_wait is level triggered: it   *)
(* returns every descriptor of the set that is readable, hung up or in     *)
(* error.  Each wake-up first calls RemovePendingTasks, which erases the   *)
(* first task of m_listPendingRemoveSockets that RemoveTaskBySocket finds  *)
(* completed, and only that one.                                           *)

Erasable(fd) == tasks[fd] # None /\ completed[tasks[fd]]

RemovePendingHead ==
    IF pendingRemove # <<>> /\ Erasable(Head(pendingRemove))
    THEN /\ tasks' = [tasks EXCEPT ![Head(pendingRemove)] = None]
         /\ pendingRemove' = Remove(pendingRemove, Head(pendingRemove))
    ELSE UNCHANGED <<tasks, pendingRemove>>

RemovePendingTasks ==
    LET i == SelectInSeq(pendingRemove, Erasable)
    IN IF i = 0
       THEN UNCHANGED <<tasks, pendingRemove>>
       ELSE /\ tasks' = [tasks EXCEPT ![pendingRemove[i]] = None]
            /\ pendingRemove' = Remove(pendingRemove, pendingRemove[i])

\* StartTCPSelector up to its loop: epoll_create1, pipe(m_iSelectorPipe)
\* and the read end added to the set.  main starts this thread after the
\* listener thread, which accepts and schedules tasks meanwhile.
SelectorInit ==
    /\ ~pipeOpen
    /\ pipeOpen' = TRUE
    /\ interest' = {PipeFD}
    /\ UNCHANGED <<sock, pipe, serverVars, taskVars, sched, wk, file, peerVars, early>>

SelectorWait ==
    /\ pipeOpen /\ ep = "wait"
    /\ \E fd \in interest : Ready(fd)
    /\ batch' = {[fd |-> fd, err |-> ErrorOn(fd)] : fd \in {d \in interest : Ready(d)}}
    /\ ep' = "dispatch"
    /\ RemovePendingTasks
    /\ UNCHANGED <<kernelVars, pendingSockets, maint, toggles, taskVars, sched, wk, file, peerVars>>
    /\ UNCHANGED startVars

\* the last event of the batch sends the selector back to epoll_wait
Handled(e) ==
    /\ batch' = batch \ {e}
    /\ ep' = IF batch' = {} THEN "wait" ELSE "dispatch"

\* Case a: EPOLLERR or EPOLLHUP.  EPOLL_CTL_DEL, then RemoveTaskBySocket,
\* which erases the task only if it is completed.
DispatchErr(e) ==
    /\ ep = "dispatch" /\ e.err
    /\ Handled(e)
    /\ interest' = interest \ {e.fd}
    /\ tasks' = IF Erasable(e.fd) THEN [tasks EXCEPT ![e.fd] = None] ELSE tasks
    /\ UNCHANGED <<sock, pipe, pendingSockets, pendingRemove, maint, toggles, taskVars, sched, wk,
                   file, peerVars>>
    /\ UNCHANGED startVars

\* (history) the early tasks whose descriptor a drain of the pending list
\* does not reach: those that queued none (pending delete)
Undrained == {c \in early : sock[c] \notin ToSet(pendingSockets)}

DispatchPipeHead(e) ==
    /\ ep = "dispatch" /\ e.fd = PipeFD /\ ~e.err
    /\ Handled(e)
    /\ pipe' = Tail(pipe)
    /\ IF Head(pipe) < 0 \/ pendingSockets = <<>>
       THEN UNCHANGED <<interest, pendingSockets, early>>
       ELSE /\ interest' = interest \cup {Head(pendingSockets)}
            /\ pendingSockets' = <<>>
            /\ early' = Undrained
    /\ UNCHANGED <<sock, tasks, pendingRemove, maint, toggles, taskVars, sched, wk, file, peerVars,
                   pipeOpen>>

\* Case b: the self-pipe.  One int is read; a negative one is skipped,
\* otherwise every descriptor of m_listPendingSockets is added to the set
\* (EPOLL_CTL_ADD fails on a closed one) and the list is cleared.
DispatchPipe(e) ==
    /\ ep = "dispatch" /\ e.fd = PipeFD /\ ~e.err
    /\ Handled(e)
    /\ pipe' = Tail(pipe)
    /\ IF Head(pipe) < 0
       THEN UNCHANGED <<interest, pendingSockets, early>>
       ELSE /\ interest' = interest \cup {fd \in ToSet(pendingSockets) : \E c \in Accepted : sock[c] = fd}
            /\ pendingSockets' = <<>>
            /\ early' = Undrained
    /\ UNCHANGED <<sock, tasks, pendingRemove, maint, toggles, taskVars, sched, wk, file, peerVars,
                   pipeOpen>>

DispatchDataKeep(e) ==
    /\ ep = "dispatch" /\ e.fd # PipeFD /\ ~e.err
    /\ Handled(e)
    /\ IF Erasable(e.fd) THEN sched' = Append(sched, tasks[e.fd]) ELSE UNCHANGED sched
    /\ UNCHANGED <<sock, interest, pipe, tasks, pendingSockets, pendingRemove, maint, toggles,
                   taskVars, wk, file, peerVars>>
    /\ UNCHANGED startVars

\* Case c: data on a client socket.  FindTaskBySocket returns the task only
\* if it is completed; then the descriptor leaves the set and the task is
\* rescheduled.  Otherwise nothing happens and epoll reports it again.
DispatchData(e) ==
    /\ ep = "dispatch" /\ e.fd # PipeFD /\ ~e.err
    /\ Handled(e)
    /\ IF Erasable(e.fd)
       THEN /\ interest' = interest \ {e.fd}
            /\ sched' = Append(sched, tasks[e.fd])
       ELSE UNCHANGED <<interest, sched>>
    /\ UNCHANGED <<sock, pipe, tasks, pendingSockets, pendingRemove, maint, toggles, taskVars, wk,
                   file, peerVars>>
    /\ UNCHANGED startVars

-----------------------------------------------------------------------------
(* Pool threads.  A thread takes the oldest scheduled functor and runs     *)
(* CTCPReceiveTask::ReceiveData of its task.                               *)

Wk(w, pc) == wk' = [wk EXCEPT ![w].pc = pc]

Take(w) ==
    /\ wk[w].pc = "idle" /\ sched # <<>>
    /\ wk' = [wk EXCEPT ![w] = [IdleWorker EXCEPT !.pc = "start", !.task = Head(sched)]]
    /\ sched' = Tail(sched)
    /\ UNCHANGED <<kernelVars, serverVars, taskVars, file, peerVars>>
    /\ UNCHANGED startVars

\* m_bIsTaskCompleted = false; a task pending delete returns at once, and
\* the "m_bIsTaskCompleted = true" after the catch is skipped.
RStart(w) ==
    LET c == wk[w].task IN
    /\ wk[w].pc = "start"
    /\ completed' = [completed EXCEPT ![c] = FALSE]
    /\ IF pendingDelete[c] THEN wk' = [wk EXCEPT ![w] = IdleWorker] ELSE Wk(w, "recv")
    /\ UNCHANGED <<kernelVars, serverVars, pendingDelete, buffer, parsed, destroyed, sched, file,
                   peerVars>>
    /\ UNCHANGED startVars

\* recv() on the blocking socket: it waits for data, FIN or RST.  Data
\* (any number of whole lines) is appended to m_strMsgBuffer and
\* ProcessData runs; -1 (ECONNRESET) is only logged; 0 marks the task
\* pending delete, answers "400 Bad request" to an unterminated rest and
\* queues the descriptor on m_listPendingRemoveSockets.
RRecv(w) ==
    LET c == wk[w].task IN
    /\ wk[w].pc = "recv"
    /\ \/ /\ wire[c] # <<>>
          /\ \E n \in 1..Len(wire[c]) :
                /\ buffer' = [buffer EXCEPT ![c] = @ \o SubSeq(wire[c], 1, n)]
                /\ wire' = [wire EXCEPT ![c] = SubSeq(@, n + 1, Len(@))]
          /\ wk' = [wk EXCEPT ![w].pc = "mcheck", ![w].next = "parse"]
          /\ UNCHANGED <<pendingDelete, pendingRemove, cst>>
       \/ /\ cst[c] = "reset"
          /\ cst' = [cst EXCEPT ![c] = "dead"]
          /\ Wk(w, "finish")
          /\ UNCHANGED <<pendingDelete, pendingRemove, buffer, wire>>
       \/ /\ wire[c] = <<>> /\ cst[c] \in {"hup", "dead"}
          /\ pendingDelete' = [pendingDelete EXCEPT ![c] = TRUE]
          /\ IF buffer[c] # <<>>
             THEN /\ wk' = [wk EXCEPT ![w].pc = "mcheck", ![w].next = "eofbad"]
                  /\ UNCHANGED pendingRemove
             ELSE /\ pendingRemove' = Append(pendingRemove, sock[c])
                  /\ Wk(w, "finish")
          /\ UNCHANGED <<buffer, wire, cst>>
    /\ UNCHANGED <<kernelVars, ep, batch, tasks, pendingSockets, maint, toggles, completed, parsed,
                   destroyed, sched, file, sent, answers>>
    /\ UNCHANGED startVars

\* "if (m_ptrThreadPool->GetMaintenance())" then m_condMaintenance.wait:
\* the flag is read without m_mutexMaintenance, and the wait is not in a
\* loop that tests it again.
MCheck(w) ==
    /\ wk[w].pc = "mcheck"
    /\ Wk(w, IF maint = 1 THEN "mwait" ELSE wk[w].next)
    /\ UNCHANGED <<kernelVars, serverVars, taskVars, sched, file, peerVars>>
    /\ UNCHANGED startVars

MWait(w) ==
    /\ wk[w].pc = "mwait"
    /\ Wk(w, "mblocked")
    /\ UNCHANGED <<kernelVars, serverVars, taskVars, sched, file, peerVars>>
    /\ UNCHANGED startVars

\* The answer to the first line of the buffer is written; the line is
\* erased; m_spProcessData->Clean() runs only if another terminated line
\* follows in the buffer.
Respond(w, c, line, p, code, email) ==
    LET rest == Tail(buffer[c]) IN
    /\ answers' = [answers EXCEPT ![c] = Append(@, [req |-> line, code |-> code, email |-> email])]
    /\ buffer' = [buffer EXCEPT ![c] = rest]
    /\ parsed' = [parsed EXCEPT ![c] = IF rest # <<>> /\ Head(rest) # Frag THEN <<>> ELSE p]
    /\ wk' = [wk EXCEPT ![w].pc = "parse", ![w].sec = None]

\* One turn of the while loop of ProcessData: parse the first line into
\* m_Data, look up a REGISTER section with user name and e-mail, else a GET
\* section, and answer from ReadFile.  A REGISTER that passes every test
\* goes on to append its record.  With no terminated line left, the loop
\* ends.
Parse(w) ==
    LET c == wk[w].task IN
    /\ wk[w].pc = "parse"
    /\ IF buffer[c] = <<>> \/ Head(buffer[c]) = Frag
       THEN /\ Wk(w, "finish")
            /\ UNCHANGED <<buffer, parsed, answers>>
       ELSE LET line == Head(buffer[c])
                p == IF line.kind = "BAD" THEN parsed[c] ELSE Append(parsed[c], line)
                reg == FirstOf(p, "REGISTER")
                get == FirstOf(p, "GET")
            IN IF reg # None /\ reg.valid /\ ReadCount # MaxRecords /\ ~Present(reg.user)
               THEN /\ wk' = [wk EXCEPT ![w].pc = "append", ![w].sec = reg]
                    /\ parsed' = [parsed EXCEPT ![c] = p]
                    /\ UNCHANGED <<buffer, answers>>
               ELSE Respond(w, c, line, p,
                      CASE reg # None /\ ~reg.valid -> 406
                        [] reg # None /\ ReadCount = MaxRecords -> 405
                        [] reg # None -> 409
                        [] get # None /\ ~get.valid -> 406
                        [] get # None /\ Present(get.user) -> 200
                        [] get # None -> 404
                        [] OTHER -> 406,
                      IF reg = None /\ get # None /\ get.valid /\ Present(get.user)
                      THEN FoundEmail(get.user) ELSE "none")
    /\ UNCHANGED <<kernelVars, serverVars, completed, pendingDelete, destroyed, sched, file, cst,
                   wire, sent>>
    /\ UNCHANGED startVars

\* The record is appended under the exclusive file lock, "200 OK".
AppendRecord(w) ==
    LET c == wk[w].task IN
    /\ wk[w].pc = "append"
    /\ file' = Append(file, [user |-> wk[w].sec.user, email |-> wk[w].sec.email])
    /\ Respond(w, c, Head(buffer[c]), parsed[c], 200, "none")
    /\ UNCHANGED <<kernelVars, serverVars, completed, pendingDelete, destroyed, sched, cst, wire,
                   sent>>
    /\ UNCHANGED startVars

\* recv() returned 0 with an unterminated rest in the buffer.
EofBad(w) ==
    LET c == wk[w].task IN
    /\ wk[w].pc = "eofbad"
    /\ answers' = [answers EXCEPT ![c] = Append(@, [req |-> Frag, code |-> 400, email |-> "none"])]
    /\ buffer' = [buffer EXCEPT ![c] = <<>>]
    /\ pendingRemove' = Append(pendingRemove, sock[c])
    /\ Wk(w, "finish")
    /\ UNCHANGED <<kernelVars, ep, batch, tasks, pendingSockets, maint, toggles, completed,
                   pendingDelete, parsed, destroyed, sched, file, cst, wire, sent>>
    /\ UNCHANGED startVars

\* NotifySelector: a positive descriptor is queued on m_listPendingSockets,
\* and the value is written to the self-pipe.  While m_iSelectorPipe[1] is
\* still 0 (the constructor's value, before the selector's pipe()) the
\* write is skipped with a LOGFATAL.
NotifySelectorUnchecked(v) ==
    /\ pendingSockets' = Append(pendingSockets, v)
    /\ pipe' = IF pipeOpen THEN Append(pipe, v) ELSE pipe

NotifySelector(v) ==
    /\ pendingSockets' = IF v > 0 THEN Append(pendingSockets, v) ELSE pendingSockets
    /\ pipe' = IF pipeOpen THEN Append(pipe, v) ELSE pipe

\* m_bIsTaskCompleted = true, then m_funcHandler, which is NotifySelector
\* with -1 for a task pending delete and its descriptor otherwise.
Finish(w) ==
    LET c == wk[w].task IN
    /\ wk[w].pc = "finish"
    /\ completed' = [completed EXCEPT ![c] = TRUE]
    /\ NotifySelector(IF pendingDelete[c] THEN -1 ELSE sock[c])
    /\ early' = IF pipeOpen THEN early ELSE early \cup {c}
    /\ Wk(w, "release")
    /\ UNCHANGED <<sock, interest, ep, batch, tasks, pendingRemove, maint, toggles, pendingDelete,
                   buffer, parsed, destroyed, sched, file, peerVars, pipeOpen>>

\* "m_bIsTaskCompleted = true" after the catch, and the functor (which
\* holds a reference to the task) is destroyed.
Release(w) ==
    /\ wk[w].pc = "release"
    /\ completed' = [completed EXCEPT ![wk[w].task] = TRUE]
    /\ wk' = [wk EXCEPT ![w] = IdleWorker]
    /\ UNCHANGED <<kernelVars, serverVars, pendingDelete, buffer, parsed, destroyed, sched, file,
                   peerVars>>
    /\ UNCHANGED startVars

-----------------------------------------------------------------------------
(* SetMaintenance, called by the thread that reads options sent by a      *)
(* second server process: the flag is set, and turning it off wakes every *)
(* thread waiting on m_condMaintenance.                                     *)

SetMaintenance(v) ==
    /\ toggles < MaxToggles
    /\ maint' = v
    /\ toggles' = toggles + 1
    /\ wk' = [w \in Workers |-> IF v = 0 /\ wk[w].pc = "mblocked"
                                THEN [wk[w] EXCEPT !.pc = wk[w].next] ELSE wk[w]]
    /\ UNCHANGED <<kernelVars, ep, batch, tasks, pendingSockets, pendingRemove, taskVars, sched,
                   file, peerVars>>
    /\ UNCHANGED startVars

(* The task object lives while m_mapReceiveTasks, a scheduled functor or  *)
(* a running one refers to it; ~CBaseSocket then shuts down and closes the *)
(* socket, which also drops it from the epoll set.                         *)
Referenced(c) ==
    \/ \E fd \in FDs : tasks[fd] = c
    \/ c \in ToSet(sched)
    \/ \E w \in Workers : wk[w].task = c

Destroy(c) ==
    /\ sock[c] # None /\ ~Referenced(c)
    /\ sock' = [sock EXCEPT ![c] = None]
    /\ interest' = interest \ {sock[c]}
    /\ destroyed' = destroyed \cup {c}
    /\ UNCHANGED <<pipe, serverVars, completed, pendingDelete, buffer, parsed, sched, wk, file,
                   peerVars>>
    /\ UNCHANGED startVars

-----------------------------------------------------------------------------

ClientStep(c) ==
    Connect(c) \/ Hangup(c) \/ Reset(c) \/ \E line \in Lines : Send(c, line)

SelectorStep ==
    SelectorInit \/ SelectorWait \/ \E e \in batch : DispatchErr(e) \/ DispatchPipe(e) \/ DispatchData(e)

WorkerStep(w) ==
    \/ Take(w) \/ RStart(w) \/ RRecv(w) \/ MCheck(w) \/ MWait(w) \/ Parse(w)
    \/ AppendRecord(w) \/ EofBad(w) \/ Finish(w) \/ Release(w)

Next ==
    \/ \E c \in Clients : ClientStep(c) \/ Accept(c) \/ Destroy(c)
    \/ SelectorStep
    \/ \E w \in Workers : WorkerStep(w)
    \/ \E v \in {0, 1} : SetMaintenance(v)

\* The listener, the selector and the pool threads loop forever, the
\* backlog is served in order, and a destructor runs when the last
\* reference goes.  Peers and the remote process get no fairness.
Fairness ==
    /\ WF_vars(SelectorStep)
    /\ \A c \in Clients : WF_vars(Accept(c)) /\ WF_vars(Destroy(c))
    /\ \A w \in Workers : WF_vars(WorkerStep(w))

Spec == Init /\ [][Next]_vars /\ Fairness

\* The same server with peers that, once connected, eventually send a
\* first line or close: the precondition under which a blocking first
\* recv() returns.
FirstMove(c) ==
    /\ sent[c] = <<>>
    /\ Hangup(c) \/ \E line \in Lines : Send(c, line)

FairPeersSpec == Spec /\ \A c \in Clients : WF_vars(FirstMove(c))

-----------------------------------------------------------------------------
(* Properties *)

TypeOK ==
    /\ sock \in [Clients -> FDs \cup {None}]
    /\ interest \subseteq FDs \cup {PipeFD}
    /\ pipe \in Seq(FDs \cup {-1})
    /\ ep \in {"wait", "dispatch"}
    /\ batch \subseteq [fd : FDs \cup {PipeFD}, err : BOOLEAN]
    /\ tasks \in [FDs -> Clients \cup {None}]
    /\ pendingSockets \in Seq(FDs)
    /\ pendingRemove \in Seq(FDs)
    /\ maint \in {0, 1} /\ toggles \in 0..MaxToggles
    /\ pipeOpen \in BOOLEAN /\ early \subseteq Clients
    /\ completed \in [Clients -> BOOLEAN] /\ pendingDelete \in [Clients -> BOOLEAN]
    /\ buffer \in [Clients -> Seq(Lines)] /\ parsed \in [Clients -> Seq(Sections)]
    /\ destroyed \subseteq Clients
    /\ sched \in Seq(Clients)
    /\ wk \in [Workers -> [pc : Pcs, task : Clients \cup {None}, sec : Sections \cup {None},
                           next : {"parse", "eofbad"}]]
    /\ file \in Seq(Record)
    /\ cst \in [Clients -> {"off", "up", "hup", "reset", "dead"}]
    /\ wire \in [Clients -> Seq(Lines)] /\ sent \in [Clients -> Seq(Lines)]
    /\ answers \in [Clients -> Seq(Answer)]

\* ReceiveData of one task never runs on two pool threads at once, nor is
\* it scheduled while it runs: the selector takes the descriptor out of the
\* epoll set before RenewTask, FindTaskBySocket refuses a task that is not
\* completed, and the descriptor returns to the set only through
\* NotifySelector after the task is done.  m_strMsgBuffer and m_Data are
\* used without a lock and rely on this.
Running(c) == {w \in Workers : wk[w].task = c /\ wk[w].pc # "release"}
SingleReader ==
    \A c \in Clients :
        Cardinality(Running(c)) + Len(SelectSeq(sched, LAMBDA t : t = c)) <= 1

\* Every connection the server still serves is watched: its descriptor is
\* in the epoll set, or queued on m_listPendingSockets with a positive
\* value still in the self-pipe to make the selector add it, or its task is
\* scheduled or running.  A connection outside all of these is never read
\* again: its requests go unanswered and its socket is never closed.  The
\* one exception is the start-up race: a task whose NotifySelector ran
\* before the selector's pipe() is queued with no pipe value, and waits for
\* another connection's notification to drain the list.
Busy(c) == c \in ToSet(sched) \/ Running(c) # {}
ConnectionWatched ==
    \A c \in Accepted :
        (\E fd \in FDs : tasks[fd] = c) /\ ~pendingDelete[c] /\ ~Busy(c) =>
            \/ sock[c] \in interest
            \/ sock[c] \in ToSet(pendingSockets) /\ \E i \in 1..Len(pipe) : pipe[i] > 0
            \/ sock[c] \in ToSet(pendingSockets) /\ c \in early

\* A connection the peer closed or reset is eventually erased from
\* m_mapReceiveTasks and its socket closed (through the pending-remove
\* list, one entry per selector wake-up, or through the EPOLLERR case),
\* or else is stranded by the start-up race (its NotifySelector ran before
\* the selector's pipe()); a stranded connection is bound to this again
\* once another notification drains it.  A -1 dropped by that race is a
\* wake-up the selector never gets, and RemovePendingTasks erases one entry
\* per wake-up, so after it any closed connection may stay.
LostWakeUp == \E d \in early : pendingDelete[d]
ClosedConnectionsReleased ==
    \A c \in Clients :
        (cst[c] \in {"hup", "reset"} /\ c \notin early)
            ~> (c \in destroyed \/ c \in early \/ LostWakeUp)

\* Every terminated line a peer sends is answered, unless the peer resets
\* the connection.
RequestsAnswered ==
    \A c \in Clients : \A i \in 1..MaxSends :
        (Len(sent[c]) >= i /\ sent[c][i] # Frag /\ cst[c] \in {"up", "hup"})
            ~> (Len(answers[c]) >= i \/ cst[c] \in {"reset", "dead"})

\* The record file never holds two records of one user: REGISTER answers
\* 409 Conflict for a user that is present.
NoDuplicateUsers ==
    \A i, j \in 1..Len(file) : i # j => file[i].user # file[j].user

=============================================================================
