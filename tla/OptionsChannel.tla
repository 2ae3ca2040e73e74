--------------------------- MODULE OptionsChannel ---------------------------
(***************************************************************************)
(* The option channel of user_register_server #1 (src/linux/              *)
(* user_register_server): a second launch of the program finds the running *)
(* server with IsFirstInstance, then passes its command-line options to it *)
(* through the named message queue SERVER_MSG_QUEUE and the shared memory  *)
(* segment SERVER_SHARED_MEMORY, serialised by the named mutex             *)
(* SERVER_MSG_QUEUE_MUTEX.  The server's SharedQueueReader thread applies  *)
(* them with SetProgramOption / CheckServerParameters, and a KILL message  *)
(* wakes the main thread waiting on SERVER_CLOSE_COND, which exits.        *)
(*                                                                         *)
(* Options are abstracted to the two the reader applies with a visible     *)
(* effect on the thread pool: maint (m_iMaintenance) and datafile          *)
(* (m_strDataRegisterFile).  A named mutex is modelled with its unlink     *)
(* semantics: remove() unbinds the name, a holder keeps its object, and    *)
(* the next open_or_create creates a fresh object.                         *)
(***************************************************************************)
EXTENDS Naturals, Sequences, FiniteSets

CONSTANTS
    Admins,         \* second launches of the program
    Launch,         \* Launch[a]: [maint, datafile, kill] options of launch a
    Vals,           \* integers given to --maint
    Files,          \* paths given to --datafile (absolute)
    None,           \* an option absent from the command line
    IniMaint,       \* maint setting read from the ini file at start-up
    ServerMaintOpt, \* --maint given to the running server, or None
    IniFile,        \* data file the server started with
    Serial,         \* TRUE: launches do not overlap and wait for start-up
    SlowReader      \* TRUE: the 5 s probe timeout may expire unanswered

Reader == "reader"
Params == <<"maint", "datafile">>   \* eCONFIG_MAINT < eCONFIG_DATA_FILE

VARIABLES
    mq,        \* SERVER_MSG_QUEUE: sequence of [id, from]
    shm,       \* named objects of SERVER_SHARED_MEMORY: param -> value
    mtxName,   \* object bound to SERVER_MSG_QUEUE_MUTEX, 0 when unlinked
    mtxCount,  \* mutex objects created so far
    locks,     \* set of <<object, holder>>
    mainPc,    \* main thread of the server
    rd,        \* SharedQueueReader thread
    ad,        \* second launches
    taken,     \* launches whose probe message the reader has received
    optMaint,  \* m_poOptionsMap["maint"] of the server, None if absent
    maint,     \* CThreadPool::m_iMaintenance
    dataPath,  \* CThreadPool::m_strDataRegisterFile
    lastMaint  \* history: last maint value sent by a launch, None if none

vars == <<mq, shm, mtxName, mtxCount, locks, mainPc, rd, ad, taken,
          optMaint, maint, dataPath, lastMaint>>

Msgs == [id : {"probe", "maint", "datafile", "kill"}, from : Admins]
AdPcs == {"idle", "probe", "plock", "probing", "options", "open", "lock", "write",
          "exit", "first"}

\* The message queue and shared memory exist until the server exits
ServerUp == mainPc # "exited"

\* (mutant) the range test lets 2 through
ClampOffByOne(v) ==
    IF v > 2 \/ v < 0 THEN 0 ELSE v

\* CheckServerParameters, eCONFIG_MAINT: out of 0..1 falls back to 0
Clamp(v) ==
    IF v > 1 \/ v < 0 THEN 0 ELSE v

\* CureParameter: the program option first, then the ini setting
Cure(opt, setting) == IF opt # None THEN opt ELSE setting

\* Options launch a passes remotely, in parameter order
Present(a) == SelectSeq(Params, LAMBDA p : Launch[a][p] # None)

\* named_mutex(open_or_create, SERVER_MSG_QUEUE_MUTEX)
OpenMutex == IF mtxName = 0 THEN mtxCount + 1 ELSE mtxName
Opened(o) == /\ mtxName' = o
             /\ mtxCount' = IF o > mtxCount THEN o ELSE mtxCount
Free(o) == \A l \in locks : l[1] # o

Init ==
    /\ mq = <<>>
    /\ shm = [p \in {"maint", "datafile"} |-> None]
    /\ mtxName = 0 /\ mtxCount = 0 /\ locks = {}
    /\ mainPc = "starting"
    /\ rd = [pc |-> "recv", msg |-> "maint", obj |-> 0]
    /\ ad = [a \in Admins |-> [pc |-> "idle", obj |-> 0, sizeOld |-> 0, k |-> 1]]
    /\ taken = {}
    /\ optMaint = ServerMaintOpt
    /\ maint = Clamp(Cure(ServerMaintOpt, IniMaint))
    /\ dataPath = IniFile
    /\ lastMaint = None

(***************************************************************************)
(* Server main thread                                                      *)
(***************************************************************************)
\* main: after CreateMessageQueue and the thread start-up, create the close
\* mutex and condition and wait (no predicate)
MainWait ==
    /\ mainPc = "starting"
    /\ mainPc' = "waiting"
    /\ UNCHANGED <<mq, shm, mtxName, mtxCount, locks, rd, ad, taken,
                   optMaint, maint, dataPath, lastMaint>>

\* main returns: the deleters remove SERVER_MSG_QUEUE and the segment
MainExit ==
    /\ mainPc = "woken"
    /\ mainPc' = "exited"
    /\ UNCHANGED <<mq, shm, mtxName, mtxCount, locks, rd, ad, taken,
                   optMaint, maint, dataPath, lastMaint>>

\* (mutant) the KILL case leaves the loop without notifying SERVER_CLOSE_COND
NotifyCloseMissing == UNCHANGED mainPc

\* notify_all on SERVER_CLOSE_COND wakes main only if it waits already
NotifyClose ==
    mainPc' = IF mainPc = "waiting" THEN "woken" ELSE mainPc

(***************************************************************************)
(* SharedQueueReader                                                       *)
(***************************************************************************)
RdRecv ==
    /\ rd.pc = "recv"
    /\ mq # <<>>
    /\ LET m == Head(mq) IN
       /\ mq' = Tail(mq)
       /\ \/ /\ m.id = "probe"   \* sleep 100 ms, notify MSG_QUEUE_COND
             /\ taken' = taken \cup {m.from}
             /\ UNCHANGED <<rd, mainPc>>
          \/ /\ m.id \in {"maint", "datafile"}
             /\ rd' = [rd EXCEPT !.pc = "open", !.msg = m.id]
             /\ UNCHANGED <<taken, mainPc>>
          \/ /\ m.id = "kill"    \* bNeedExit, notify SERVER_CLOSE_COND
             /\ rd' = [rd EXCEPT !.pc = "done"]
             /\ NotifyClose
             /\ UNCHANGED taken
    /\ UNCHANGED <<shm, mtxName, mtxCount, locks, ad, optMaint, maint,
                   dataPath, lastMaint>>

RdOpen ==
    /\ rd.pc = "open"
    /\ Opened(OpenMutex)
    /\ rd' = [rd EXCEPT !.pc = "lock", !.obj = OpenMutex]
    /\ UNCHANGED <<mq, shm, locks, mainPc, ad, taken, optMaint, maint,
                   dataPath, lastMaint>>

\* (mutant) the reader touches the segment without taking the mutex
RdLockNoWait ==
    /\ rd.pc = "lock"
    /\ locks' = locks \cup {<<rd.obj, Reader>>}
    /\ rd' = [rd EXCEPT !.pc = "apply"]
    /\ UNCHANGED <<mq, shm, mtxName, mtxCount, mainPc, ad, taken, optMaint,
                   maint, dataPath, lastMaint>>

RdLock ==
    /\ rd.pc = "lock"
    /\ Free(rd.obj)
    /\ locks' = locks \cup {<<rd.obj, Reader>>}
    /\ rd' = [rd EXCEPT !.pc = "apply"]
    /\ UNCHANGED <<mq, shm, mtxName, mtxCount, mainPc, ad, taken, optMaint,
                   maint, dataPath, lastMaint>>

\* CThreadPool::SetMaintenance (the notify_all it sends reaches the pool
\* threads, which RegisterServer models) and the unlocked SetDataPath
SetMaintenance(v) == maint' = v
SetDataPath(f) == dataPath' = f

\* (mutant) SetMaintenanceMode is called on the first launch only, so a
\* remote --maint changes the option but not the pool
ApplyMaintOptionOnly(v) ==
    /\ optMaint' = v
    /\ UNCHANGED <<maint, dataPath>>

\* SetProgramOption(maint, v) then CheckServerParameters(eCONFIG_MAINT)
ApplyMaint(v) ==
    /\ optMaint' = v
    /\ SetMaintenance(Clamp(Cure(v, IniMaint)))
    /\ UNCHANGED dataPath

\* SetProgramOption(datafile, f) then CheckServerParameters(eCONFIG_DATA_FILE):
\* GetProgramOption(eCONFIG_MAINT, iMaintenanceMode) leaves the int
\* uninitialised when the server has no maint option, and otherwise yields
\* the raw option value, not the clamped setting
ApplyDataFile(f) ==
    /\ \E iMaintenanceMode \in IF optMaint = None THEN {0, 1} ELSE {optMaint} :
          IF iMaintenanceMode # 0 THEN SetDataPath(f) ELSE UNCHANGED dataPath
    /\ UNCHANGED <<optMaint, maint>>

\* find the object; if present apply and destroy it; unlock, remove the name
RdApply ==
    /\ rd.pc = "apply"
    /\ LET v == shm[rd.msg] IN
       IF v = None
       THEN UNCHANGED <<shm, optMaint, maint, dataPath>>
       ELSE /\ shm' = [shm EXCEPT ![rd.msg] = None]
            /\ IF rd.msg = "maint" THEN ApplyMaint(v) ELSE ApplyDataFile(v)
    /\ locks' = locks \ {<<rd.obj, Reader>>}
    /\ mtxName' = 0
    /\ rd' = [rd EXCEPT !.pc = "recv", !.obj = 0]
    /\ UNCHANGED <<mq, mtxCount, mainPc, ad, taken, lastMaint>>

(***************************************************************************)
(* A second launch: IsFirstInstance, ProcessServerOptions,                 *)
(* ApplyServerOptionsRemotely                                              *)
(***************************************************************************)
Busy(b) == ad[b].pc \notin {"idle", "exit", "first"}

\* IsFirstInstance: open_only the queue; none means first launch
AdStart(a) ==
    /\ ad[a].pc = "idle"
    /\ Serial => /\ \A b \in Admins \ {a} : ~Busy(b)
                 /\ mainPc \in {"waiting", "exited"}
    /\ ad' = [ad EXCEPT ![a].pc = IF ServerUp THEN "probe" ELSE "first"]
    /\ UNCHANGED <<mq, shm, mtxName, mtxCount, locks, mainPc, rd, taken,
                   optMaint, maint, dataPath, lastMaint>>

\* sizeOld = get_num_msg, then open_or_create the mutex (remove deleter)
AdProbeOpen(a) ==
    /\ ad[a].pc = "probe"
    /\ Opened(OpenMutex)
    /\ ad' = [ad EXCEPT ![a].pc = "plock", ![a].obj = OpenMutex,
                        ![a].sizeOld = Len(mq)]
    /\ UNCHANGED <<mq, shm, locks, mainPc, rd, taken, optMaint, maint,
                   dataPath, lastMaint>>

\* lock, send UNDEFINED, timed_wait (which releases the lock)
AdProbe(a) ==
    /\ ad[a].pc = "plock"
    /\ Free(ad[a].obj)
    /\ mq' = Append(mq, [id |-> "probe", from |-> a])
    /\ ad' = [ad EXCEPT ![a].pc = "probing"]
    /\ UNCHANGED <<shm, mtxName, mtxCount, locks, mainPc, rd, taken,
                   optMaint, maint, dataPath, lastMaint>>

\* The 5 s timed_wait expires with the probe unanswered: the reader has
\* stopped reading (and main, if woken, has finished exiting), or, with
\* SlowReader, at any time
ProbeTimeout == \/ SlowReader
                \/ rd.pc = "done" /\ mainPc # "woken"

\* timed_wait returns on the notify or the timeout, relocks; leaving the
\* scope unlocks and removes the name; sizeNew > sizeOld means first launch
AdWake(a) ==
    /\ ad[a].pc = "probing"
    /\ a \in taken \/ ProbeTimeout
    /\ Free(ad[a].obj)
    /\ mtxName' = 0
    /\ ad' = [ad EXCEPT ![a].pc = IF Len(mq) <= ad[a].sizeOld
                                  THEN "options" ELSE "first",
                        ![a].obj = 0]
    /\ UNCHANGED <<mq, shm, mtxCount, locks, mainPc, rd, taken, optMaint,
                   maint, dataPath, lastMaint>>

\* ProcessServerOptions: --kill sends KILL if the queue exists and returns;
\* otherwise ApplyServerOptionsRemotely opens the segment open_only
AdOptions(a) ==
    /\ ad[a].pc = "options"
    /\ IF Launch[a].kill
       THEN /\ mq' = IF ServerUp THEN Append(mq, [id |-> "kill", from |-> a])
                     ELSE mq
            /\ ad' = [ad EXCEPT ![a].pc = "exit"]
       ELSE /\ ad' = [ad EXCEPT ![a].pc =
                        IF ServerUp /\ Present(a) # <<>> THEN "open"
                        ELSE "exit", ![a].k = 1]
            /\ UNCHANGED mq
    /\ UNCHANGED <<shm, mtxName, mtxCount, locks, mainPc, rd, taken,
                   optMaint, maint, dataPath, lastMaint>>

\* open_or_create the mutex, without a remove deleter
AdOpen(a) ==
    /\ ad[a].pc = "open"
    /\ Opened(OpenMutex)
    /\ ad' = [ad EXCEPT ![a].pc = "lock", ![a].obj = OpenMutex]
    /\ UNCHANGED <<mq, shm, locks, mainPc, rd, taken, optMaint, maint,
                   dataPath, lastMaint>>

AdLock(a) ==
    /\ ad[a].pc = "lock"
    /\ Free(ad[a].obj)
    /\ locks' = locks \cup {<<ad[a].obj, a>>}
    /\ ad' = [ad EXCEPT ![a].pc = "write"]
    /\ UNCHANGED <<mq, shm, mtxName, mtxCount, mainPc, rd, taken, optMaint,
                   maint, dataPath, lastMaint>>

\* destroy and construct the object, open_only the queue and send the id,
\* unlock; a queue already removed throws out of the whole loop
AdWrite(a) ==
    /\ ad[a].pc = "write"
    /\ LET p == Present(a)[ad[a].k] IN
       /\ shm' = [shm EXCEPT ![p] = Launch[a][p]]
       /\ mq' = IF ServerUp THEN Append(mq, [id |-> p, from |-> a]) ELSE mq
       /\ lastMaint' = IF ServerUp /\ p = "maint" THEN Launch[a][p]
                       ELSE lastMaint
       /\ ad' = [ad EXCEPT ![a].pc =
                   IF ServerUp /\ ad[a].k < Len(Present(a)) THEN "open"
                   ELSE "exit",
                 ![a].k = ad[a].k + 1, ![a].obj = 0]
    /\ locks' = locks \ {<<ad[a].obj, a>>}
    /\ UNCHANGED <<mtxName, mtxCount, mainPc, rd, taken, optMaint, maint,
                   dataPath>>

ReaderNext == RdRecv \/ RdOpen \/ RdLock \/ RdApply
MainNext == MainWait \/ MainExit
AdminNext(a) == AdProbeOpen(a) \/ AdProbe(a) \/ AdWake(a) \/ AdOptions(a) \/ AdOpen(a)
                \/ AdLock(a) \/ AdWrite(a)

Next == \/ ReaderNext \/ MainNext
        \/ \E a \in Admins : AdStart(a) \/ AdminNext(a)

\* The reader and main threads, and each launched process, keep running;
\* when the operator starts a launch is not constrained
Fairness == /\ WF_vars(ReaderNext) /\ WF_vars(MainNext)
            /\ \A a \in Admins : WF_vars(AdminNext(a))

Spec == Init /\ [][Next]_vars /\ Fairness

-----------------------------------------------------------------------------
TypeOK ==
    /\ mq \in Seq(Msgs)
    /\ shm \in [{"maint", "datafile"} -> Vals \cup Files \cup {None}]
    /\ mtxName \in 0..mtxCount /\ mtxCount \in Nat
    /\ locks \subseteq (1..mtxCount) \X (Admins \cup {Reader})
    /\ mainPc \in {"starting", "waiting", "woken", "exited"}
    /\ rd.pc \in {"recv", "open", "lock", "apply", "done"}
    /\ \A a \in Admins : ad[a].pc \in AdPcs /\ ad[a].obj \in 0..mtxCount
    /\ taken \subseteq Admins
    /\ optMaint \in Vals \cup {None} /\ maint \in {0, 1}
    /\ dataPath \in Files \cup {IniFile}

\* The shared-memory objects are read and written only under
\* SERVER_MSG_QUEUE_MUTEX: although the reader and the probe remove the
\* mutex's name after use, no two processes or threads hold a lock at once.
OptionSectionsExclusive ==
    Cardinality({l[2] : l \in locks}) <= 1

\* Whenever the channel is quiet (no message queued, no launch under way,
\* the reader waiting in receive), the server's maintenance mode is the
\* last --maint value a second launch passed, 1 only if that value was 1.
Quiet == /\ mq = <<>> /\ rd.pc = "recv" /\ ServerUp
         /\ \A a \in Admins : ~Busy(a)
LastMaintApplied ==
    Quiet /\ lastMaint # None => maint = IF lastMaint = 1 THEN 1 ELSE 0

\* A KILL message put in the queue by --kill eventually makes the server's
\* main thread return and remove the queue.
KillQueued == \E i \in 1..Len(mq) : mq[i].id = "kill"
KillStopsServer == KillQueued ~> ~ServerUp

=============================================================================
