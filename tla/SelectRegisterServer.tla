------------------------ MODULE SelectRegisterServer ------------------------
(***************************************************************************)
(* src/linux/user_register_server_#2: the second register server.  A TCP  *)
(* thread (TestServer::_tcpServer) multiplexes the listening socket and    *)
(* the accepted TcpConnections with select(); a UDP thread                 *)
(* (TestServer::_udpServer) turns each datagram into a request with a      *)
(* disposable UdpConnection.  Both hand requests to TestQueue::addRequest; *)
(* the queue's worker threads (_processRequests) run Request::execute,     *)
(* which calls DataFile::registerUser or getEmail under the file's mutex   *)
(* and sends the response unless the connection was invalidated.  The     *)
(* main thread (MegaManager::_trackConfigChanges) applies the data file   *)
(* and maintenance mode of a changed configuration file, and SIGUSR1 stops *)
(* the queue.                                                              *)
(*                                                                         *)
(* Data are abstracted: a request line is a record (verb, user, e-mail and *)
(* whether the fields validate); a user name is a model value, compared   *)
(* as strncasecmp compares it; bytes are read one wire item per recv, a    *)
(* terminated line or the unterminated rest a peer may send last.  The     *)
(* response delay (DELAY_EXECUTION) is a separate step of the worker.     *)
(***************************************************************************)
EXTENDS Integers, Sequences, SequencesExt, FiniteSets, TLC

CONSTANTS
    Clients,        \* TCP peers; each connects at most once
    UdpPeers,       \* UDP peers
    Workers,        \* QUEUE_WORKERS_NUMBER threads
    Requests,       \* request lines a peer may send
    Frag,           \* bytes without "\r\n"
    MaxSends,       \* bound on the items one peer sends
    MaxRecords,     \* MAX_RECORDS_ALLOWED
    InitialRecords, \* the data file when the server starts
    MaxToggles,     \* bound on configuration changes
    DataFiles,      \* data file names a configuration may give
    Existing,       \* the data files that exist on disk
    StartFile,      \* datafile of the configuration at start
    StartMaint,     \* the maint value at start, None when the file has no line
    MaintValues,    \* maint values a changed file may hold, None for no line
    None

VARIABLES
    \* peers
    cst,            \* TCP peer: "off", "up" (connected) or "hup" (FIN sent)
    wire,           \* items sent and not yet read by the server
    sent,           \* items sent, in order
    answers,        \* responses received, in order
    \* TCP thread
    conn,           \* TcpConnection of a client: "none", "open" or "deleted"
    \* TestQueue
    pending,        \* _pendingRequests
    maint,          \* _maintenance
    stopping,       \* _stopping
    toggles,        \* configuration changes so far
    \* TestConfig and the main thread
    cfgMaint,       \* TestConfig::_maint
    mainPc,         \* "idle" or "maint": between setFilename and setMaintenance
    \* worker threads, each with its Request (also on _runningRequests)
    wk,
    \* DataFile
    df,             \* DataFile::_filename, always TestConfig::_datafile
    files           \* per data file, its records "user;email", in order

peerVars == <<cst, wire, sent, answers>>
queueVars == <<pending, maint, stopping, toggles>>
mainVars == <<cfgMaint, mainPc>>
vars == <<peerVars, conn, queueVars, mainVars, wk, df, files>>

Peers == Clients \cup UdpPeers
Items == Requests \cup {Frag}
Users == {r.user : r \in Requests} \cup {rec.user : rec \in ToSet(InitialRecords)}
Emails == {r.email : r \in Requests} \cup {rec.email : rec \in ToSet(InitialRecords)}
\* The records of the data file DataFile::_filename names.
file == files[df]
Record == [user : Users, email : Emails]
\* "No trailing CRLF": the request the UDP thread makes of a datagram
\* without the terminator; it matches neither regular expression.
NoCRLF == [verb |-> "BAD", user |-> None, email |-> None, valid |-> FALSE]
Lines == Requests \cup {NoCRLF}
Codes == {200, 400, 404, 405, 406, 409, 503}
\* A Request: the peer, its line, and whether _connection is still set.
Req == [src : Peers, line : Lines, live : BOOLEAN]
Answer == [line : Lines, code : Codes, email : Emails \cup {None}]
Pcs == {"top", "wait", "exec", "sleep", "remove", "done"}
IdleWorker == [pc |-> "top", req |-> None, code |-> None, email |-> None]

(***************************************************************************)
(* TestConfig::readConfigFile hands every "name = value" line to          *)
(* _setValue and leaves a value no line names as it was.  _setValue takes  *)
(* the datafile value as it is and a numeric value only when strtol stops  *)
(* at the terminator and the number is not negative; bool _maint = number  *)
(* is number # 0.  Numeral is strtol on the values the model uses: ""     *)
(* converts to 0 with the end pointer at the terminator; a value outside   *)
(* its domain ("x", "1x") leaves the end pointer on a character.           *)
(***************************************************************************)
Numeral == ("" :> 0) @@ ("0" :> 0) @@ ("1" :> 1) @@ ("2" :> 2) @@ ("-1" :> -1)

MaintAccepted(raw) == raw \in DOMAIN Numeral /\ Numeral[raw] >= 0

SetMaintValue(old, raw) == IF MaintAccepted(raw) THEN Numeral[raw] # 0 ELSE old

\* A reread that resets a value no line of the file names.
SetDataFileValueReset(old, raw) == raw

SetDataFileValue(old, raw) ==
    IF raw = None THEN old ELSE raw

Init ==
    /\ cst = [c \in Clients |-> "off"]
    /\ wire = [p \in Peers |-> <<>>]
    /\ sent = [p \in Peers |-> <<>>]
    /\ answers = [p \in Peers |-> <<>>]
    /\ conn = [c \in Clients |-> "none"]
    /\ pending = <<>>
    \* TestQueue gets TestConfig::maintenance(); the constructor leaves
    \* _maint uninitialised, so a file without a maint line gives any bool.
    /\ maint \in IF MaintAccepted(StartMaint) THEN {Numeral[StartMaint] # 0} ELSE BOOLEAN
    /\ stopping = FALSE
    /\ toggles = 0
    /\ wk = [w \in Workers |-> IdleWorker]
    /\ cfgMaint = maint
    /\ mainPc = "idle"
    /\ df = StartFile
    /\ files = [f \in DataFiles |-> IF f \in Existing THEN InitialRecords ELSE <<>>]

-----------------------------------------------------------------------------
(* Peers *)

Connect(c) ==
    /\ cst[c] = "off"
    /\ cst' = [cst EXCEPT ![c] = "up"]
    /\ UNCHANGED <<wire, sent, answers, conn, queueVars, wk, mainVars, df, files>>

\* A peer sends a line or bytes without "\r\n"; a TCP peer sends nothing
\* after such a rest.
Send(p, item) ==
    /\ Len(sent[p]) < MaxSends
    /\ p \in Clients => cst[p] = "up" /\ Frag \notin ToSet(sent[p])
    /\ wire' = [wire EXCEPT ![p] = Append(@, item)]
    /\ sent' = [sent EXCEPT ![p] = Append(@, item)]
    /\ UNCHANGED <<cst, answers, conn, queueVars, wk, mainVars, df, files>>

Hangup(c) ==
    /\ cst[c] = "up"
    /\ cst' = [cst EXCEPT ![c] = "hup"]
    /\ UNCHANGED <<wire, sent, answers, conn, queueVars, wk, mainVars, df, files>>

-----------------------------------------------------------------------------
(* TestQueue::addRequest: the request goes to the back of _pendingRequests *)
(* and notify_one wakes one waiting worker, if any.                        *)

WakeOne(ws) ==
    IF \E w \in Workers : ws[w].pc = "wait"
    THEN \E w \in {v \in Workers : ws[v].pc = "wait"} :
            wk' = [ws EXCEPT ![w].pc = "top"]
    ELSE wk' = ws

WakeAll(ws) ==
    wk' = [w \in Workers |-> IF ws[w].pc = "wait" THEN [ws[w] EXCEPT !.pc = "top"] ELSE ws[w]]

AddRequests(p, lines) ==
    /\ pending' = pending \o [i \in 1..Len(lines) |-> [src |-> p, line |-> lines[i], live |-> TRUE]]
    /\ IF lines = <<>> THEN wk' = wk ELSE WakeOne(wk)

(***************************************************************************)
(* The TCP thread.  accept() stores a new TcpConnection.  A recv() that   *)
(* returns data appends it to the connection's buffer and adds every line *)
(* getNextRequest cuts off at "\r\n"; here one wire item is read per recv, *)
(* and the unterminated rest stays in the buffer.  A recv() that returns  *)
(* 0 makes the thread invalidate the connection's requests               *)
(* (TestQueue::connectionClosed), erase and delete the TcpConnection, and *)
(* close the descriptor.                                                   *)
(***************************************************************************)
TcpAccept(c) ==
    /\ cst[c] # "off" /\ conn[c] = "none"
    /\ conn' = [conn EXCEPT ![c] = "open"]
    /\ UNCHANGED <<peerVars, queueVars, wk, mainVars, df, files>>

TcpRecv(c) ==
    /\ conn[c] = "open" /\ wire[c] # <<>>
    /\ wire' = [wire EXCEPT ![c] = Tail(@)]
    /\ AddRequests(c, IF Head(wire[c]) = Frag THEN <<>> ELSE <<Head(wire[c])>>)
    /\ UNCHANGED <<cst, sent, answers, conn, maint, stopping, toggles, mainVars, df, files>>

\* InvalidatorFO over both lists: a request of c, pending or running,
\* forgets its connection.
Invalidate(r, c) == IF r # None /\ r.src = c THEN [r EXCEPT !.live = FALSE] ELSE r

\* connectionClosed walking _pendingRequests only.
ConnectionClosedPendingOnly(c) ==
    /\ pending' = [i \in 1..Len(pending) |-> Invalidate(pending[i], c)]
    /\ wk' = wk

ConnectionClosed(c) ==
    /\ pending' = [i \in 1..Len(pending) |-> Invalidate(pending[i], c)]
    /\ wk' = [w \in Workers |-> IF wk[w].pc \in {"exec", "sleep", "remove"}
                                THEN [wk[w] EXCEPT !.req = Invalidate(wk[w].req, c)]
                                ELSE wk[w]]

TcpClose(c) ==
    /\ conn[c] = "open" /\ cst[c] = "hup" /\ wire[c] = <<>>
    /\ ConnectionClosed(c)
    /\ conn' = [conn EXCEPT ![c] = "deleted"]
    /\ UNCHANGED <<peerVars, maint, stopping, toggles, mainVars, df, files>>

\* The UDP thread: recvfrom, then a request with a new UdpConnection; a
\* datagram that does not end in "\r\n" becomes "No trailing CRLF".
UdpRecv(u) ==
    /\ wire[u] # <<>>
    /\ wire' = [wire EXCEPT ![u] = Tail(@)]
    /\ AddRequests(u, <<IF Head(wire[u]) = Frag THEN NoCRLF ELSE Head(wire[u])>>)
    /\ UNCHANGED <<cst, sent, answers, conn, maint, stopping, toggles, mainVars, df, files>>
-----------------------------------------------------------------------------
(* DataFile, every operation under _mutex for its whole length.           *)

\* registerUser: E_INVALID for a name or e-mail that fails its regular
\* expression, E_CONFLICT for a user checkUser finds, E_OVERLOADED when
\* linesRead > MAX_RECORDS_ALLOWED (findUser counts every getline up to the
\* one that meets eof, so a file of n records reads n + 1 lines), E_OK
\* after appending the record.
Found(u) == \E i \in 1..Len(file) : file[i].user = u
\* The bound compared with the number of records instead of getline calls.
RegisterCodeByRecords(l) ==
    CASE ~l.valid -> 406
      [] df \notin Existing -> 503
      [] Found(l.user) -> 409
      [] Len(file) > MaxRecords -> 405
      [] OTHER -> 200

RegisterCode(l) ==
    CASE ~l.valid -> 406
      [] df \notin Existing -> 503
      [] Found(l.user) -> 409
      [] Len(file) + 1 > MaxRecords -> 405
      [] OTHER -> 200

\* getEmail: the e-mail of the first record of the user, or E_NOT_FOUND.
EmailOf(u) == file[SelectInSeq(file, LAMBDA rec : rec.user = u)].email

\* Request::execute up to the response text: REGISTER_EXP, GET_EXP or
\* "400 Bad request".
Execute(l) ==
    CASE l.verb = "REGISTER" -> [code |-> RegisterCode(l), email |-> None]
      [] l.verb = "GET" /\ df \notin Existing -> [code |-> 503, email |-> None]
      [] l.verb = "GET" /\ Found(l.user) -> [code |-> 200, email |-> EmailOf(l.user)]
      [] l.verb = "GET" -> [code |-> 404, email |-> None]
      [] OTHER -> [code |-> 400, email |-> None]

StoreRecord(l) ==
    files' = IF l.verb = "REGISTER" /\ RegisterCode(l) = 200
             THEN [files EXCEPT ![df] = Append(@, [user |-> l.user, email |-> l.email])]
             ELSE files

-----------------------------------------------------------------------------
(***************************************************************************)
(* A worker of TestQueue::_processRequests.  Under _mutex it leaves on     *)
(* _stopping, waits while _maintenance is set or the list is empty, or     *)
(* moves the first pending request to _runningRequests.  It then runs      *)
(* Request::execute: the file operation, a first look at _connection (no   *)
(* connection: return), the delay, and the send if _connection is still    *)
(* set, both looks under the request's mutex that invalidateConnection     *)
(* takes.  Last, under _mutex, it removes and deletes the request.         *)
(***************************************************************************)
Top(w) ==
    /\ wk[w].pc = "top"
    /\ \/ stopping /\ wk' = [wk EXCEPT ![w].pc = "done"] /\ UNCHANGED pending
       \/ ~stopping /\ (maint \/ pending = <<>>)
          /\ wk' = [wk EXCEPT ![w].pc = "wait"] /\ UNCHANGED pending
       \/ ~stopping /\ ~maint /\ pending # <<>>
          /\ wk' = [wk EXCEPT ![w] = [IdleWorker EXCEPT !.pc = "exec", !.req = Head(pending)]]
          /\ pending' = Tail(pending)
    /\ UNCHANGED <<peerVars, conn, maint, stopping, toggles, mainVars, df, files>>

\* boost::condition_variable::wait may return without a notify.
Spurious(w) ==
    /\ wk[w].pc = "wait"
    /\ wk' = [wk EXCEPT ![w].pc = "top"]
    /\ UNCHANGED <<peerVars, conn, queueVars, mainVars, df, files>>

Exec(w) == LET r == wk[w].req IN
    /\ wk[w].pc = "exec"
    /\ StoreRecord(r.line)
    /\ wk' = [wk EXCEPT ![w].pc = IF r.live THEN "sleep" ELSE "remove",
                        ![w].code = Execute(r.line).code,
                        ![w].email = Execute(r.line).email]
    /\ UNCHANGED <<peerVars, conn, queueVars, mainVars, df>>

\* After the delay: TcpConnection::send, or UdpConnection::send, which
\* sends and deletes itself.
Respond(w) == LET r == wk[w].req IN
    /\ wk[w].pc = "sleep"
    /\ answers' = IF r.live
                  THEN [answers EXCEPT ![r.src] =
                          Append(@, [line |-> r.line, code |-> wk[w].code, email |-> wk[w].email])]
                  ELSE answers
    /\ wk' = [wk EXCEPT ![w].pc = "remove"]
    /\ UNCHANGED <<cst, wire, sent, conn, queueVars, mainVars, df, files>>

RemoveRunning(w) ==
    /\ wk[w].pc = "remove"
    /\ wk' = [wk EXCEPT ![w] = IdleWorker]
    /\ UNCHANGED <<peerVars, conn, queueVars, mainVars, df, files>>

-----------------------------------------------------------------------------
(* The main thread: _trackConfigChanges reads inotify events on the       *)
(* configuration file's directory and runs _configChanged for each that   *)
(* names the file.  _configChanged rereads the file, then sets the log    *)
(* level, the delay (TestQueue::setDelay; the model has no time) and the  *)
(* data file name (DataFile::setFilename, under the file's mutex), and,   *)
(* after releasing that mutex, the maintenance flag (setMaintenance wakes *)
(* every worker when it clears the flag).  SIGUSR1 runs                   *)
(* MegaManager::exit: TestQueue::stop sets _stopping, wakes every worker   *)
(* and joins them, then the process exits.                                 *)

\* setMaintenance without the notify_all.
SetMaintenanceNoWake(v) ==
    /\ maint' = v
    /\ wk' = wk

SetMaintenance(v) ==
    /\ maint' = v
    /\ IF ~v THEN WakeAll(wk) ELSE wk' = wk

\* The file changes to one whose maint and datafile lines hold m and f.
ReadConfig(m, f) ==
    /\ mainPc = "idle" /\ toggles < MaxToggles
    /\ cfgMaint' = SetMaintValue(cfgMaint, m)
    /\ df' = SetDataFileValue(df, f)
    /\ mainPc' = "maint"
    /\ toggles' = toggles + 1
    /\ UNCHANGED <<peerVars, conn, pending, maint, stopping, wk, files>>

ApplyMaintenance ==
    /\ mainPc = "maint"
    /\ SetMaintenance(cfgMaint)
    /\ mainPc' = "idle"
    /\ UNCHANGED <<peerVars, conn, pending, stopping, toggles, cfgMaint, df, files>>

ConfigChanged ==
    \/ \E m \in MaintValues, f \in DataFiles \cup {None} : ReadConfig(m, f)
    \/ ApplyMaintenance

\* stop() setting _stopping without the notify_all.
StopNoWake ==
    /\ ~stopping
    /\ stopping' = TRUE
    /\ wk' = wk
    /\ UNCHANGED <<peerVars, conn, pending, maint, toggles, mainVars, df, files>>

Stop ==
    /\ ~stopping
    /\ stopping' = TRUE
    /\ WakeAll(wk)
    /\ UNCHANGED <<peerVars, conn, pending, maint, toggles, mainVars, df, files>>

\* Every join returned: exit() ends the process and all its threads.
Exited == stopping /\ \A w \in Workers : wk[w].pc = "done"

-----------------------------------------------------------------------------

TcpStep(c) == TcpAccept(c) \/ TcpRecv(c) \/ TcpClose(c)

WorkerStep(w) == Top(w) \/ Exec(w) \/ Respond(w) \/ RemoveRunning(w)

Next ==
    \/ \E c \in Clients : Connect(c) \/ Hangup(c)
    \/ \E p \in Peers, item \in Items : Send(p, item)
    \/ ~Exited /\ \E c \in Clients : TcpStep(c)
    \/ ~Exited /\ \E u \in UdpPeers : UdpRecv(u)
    \/ \E w \in Workers : WorkerStep(w) \/ Spurious(w)
    \/ ~Exited /\ ConfigChanged
    \/ Stop

\* The TCP, UDP and worker threads loop forever; peers, the configuration
\* file, the signal and spurious wake-ups get no fairness.
Fairness ==
    /\ \A c \in Clients : WF_vars(~Exited /\ TcpStep(c))
    /\ \A u \in UdpPeers : WF_vars(~Exited /\ UdpRecv(u))
    /\ \A w \in Workers : WF_vars(WorkerStep(w))

Spec == Init /\ [][Next]_vars /\ Fairness

-----------------------------------------------------------------------------
(* Properties *)

Held == ToSet(pending) \cup {wk[w].req : w \in {v \in Workers : wk[v].req # None}}

TypeOK ==
    /\ cst \in [Clients -> {"off", "up", "hup"}]
    /\ wire \in [Peers -> Seq(Items)] /\ sent \in [Peers -> Seq(Items)]
    /\ answers \in [Peers -> Seq(Answer)]
    /\ conn \in [Clients -> {"none", "open", "deleted"}]
    /\ pending \in Seq(Req)
    /\ maint \in BOOLEAN /\ stopping \in BOOLEAN /\ toggles \in 0..MaxToggles
    /\ cfgMaint \in BOOLEAN /\ mainPc \in {"idle", "maint"} /\ df \in DataFiles
    /\ wk \in [Workers -> [pc : Pcs, req : Req \cup {None}, code : Codes \cup {None},
                           email : Emails \cup {None}]]
    /\ files \in [DataFiles -> Seq(Record)]

\* Every request that still holds a connection pointer, pending or being
\* executed, points to a TcpConnection the TCP thread has not deleted:
\* connectionClosed must reach the request on either list before the
\* thread deletes the connection, or a worker sends through freed memory.
NoDanglingConnection ==
    \A r \in Held : r.live /\ r.src \in Clients => conn[r.src] = "open"

\* The data file never holds more than MAX_RECORDS_ALLOWED records, though
\* registerUser compares a count of getline calls, not of records.
AtMostMaxRecords == \A f \in DataFiles : Len(files[f]) <= MaxRecords

\* Once maintenance stays off and no stop is requested, every request a
\* peer sends is answered, unless its TCP connection is closed first: no
\* worker stays waiting on _condition while requests are pending
\* (addRequest's notify_one, setMaintenance's notify_all).
Expected(p) == IF p \in Clients THEN Len(SelectSeq(sent[p], LAMBDA i : i # Frag)) ELSE Len(sent[p])
RequestsServed ==
    <>[](~maint /\ ~stopping) =>
        \A p \in Peers : \A n \in 1..MaxSends :
            Expected(p) >= n ~> (Len(answers[p]) >= n \/ (p \in Clients /\ conn[p] = "deleted"))

\* After SIGUSR1 every worker leaves its loop, so TestQueue::stop's joins
\* return and the process exits, whatever the workers were doing.
StopReturns == stopping ~> Exited

=============================================================================
