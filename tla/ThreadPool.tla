----------------------------- MODULE ThreadPool -----------------------------
(***************************************************************************)
(* ThreadPool of src/linux/chat_server/tools/thread_pool: one task list     *)
(* under m_taskAccessGuard, the condition variable m_queueEvent, and one   *)
(* WorkerQueue per thread with its start-up barrier of two parties.        *)
(*                                                                         *)
(* Three threads use the pool: the owner, which calls Initialize and later *)
(* Shutdown (ConnectionManager::Initialize and ::Shutdown, the latter from *)
(* the signal thread); a submitter calling AddTask (the listener thread);  *)
(* and the workers.  Flags are read without the lock where the code reads  *)
(* them without it.  A wait on the condition variable may return without  *)
(* a notification (boost documents spurious wake-ups); Spurious says when  *)
(* the model lets that happen.                                             *)
(***************************************************************************)
EXTENDS Naturals, Sequences

CONSTANTS
    NWorkers,   \* m_maxThreadCount
    NTasks,     \* tasks the submitter passes to AddTask, in order
    Spurious,   \* "never", "running" (only once Initialize returned) or "always"
    None

ASSUME NWorkers \in Nat \ {0} /\ NTasks \in Nat
ASSUME Spurious \in {"never", "running", "always"}

Workers == 1..NWorkers
Tasks == 1..NTasks

VARIABLES
    initialized,  \* m_isPoolInitialized
    shutdownReq,  \* ThreadPool::m_shutdownRequested
    taskList,     \* m_taskList
    mutex,        \* the thread holding m_taskAccessGuard
    bar,          \* per WorkerQueue: parties waiting at m_threadBarrierSync
    wpc,          \* per worker thread: where it is
    wshut,        \* WorkerQueue::m_shutdownRequested
    wtask,        \* the task a worker executes
    mpc,          \* owner thread: where it is in Initialize / Shutdown
    mi,           \* the WorkerQueue the owner's loop is at
    spc,          \* submitter: where it is in AddTask
    next,         \* the task the submitter passes next
    takenLog      \* tasks popped from m_taskList, in order (history)

vars == <<initialized, shutdownReq, taskList, mutex, bar, wpc, wshut, wtask,
          mpc, mi, spc, next, takenLog>>

InitPcs == {"spawn", "arrive", "barrier"}

-----------------------------------------------------------------------------
(* The worker thread: WorkerQueue::ProcessTasks and ThreadPool::TryGetNewTask *)

\* notify_all: every thread waiting on m_queueEvent goes on to take the lock
NotifyAll ==
    wpc' = [w \in Workers |-> IF wpc[w] = "wait" THEN "relock" ELSE wpc[w]]

\* while (!m_shutdownRequested) at the top of ProcessTasks
Top(w) ==
    /\ wpc[w] = "top"
    /\ wpc' = [wpc EXCEPT ![w] = IF wshut[w] THEN "exit" ELSE "lock"]
    /\ UNCHANGED <<initialized, shutdownReq, taskList, mutex, bar, wshut, wtask>>
    /\ UNCHANGED <<mpc, mi, spc, next, takenLog>>

\* The list is not empty: pop the front and return it, releasing the lock.
TakeFront(w) ==
    /\ taskList # <<>>
    /\ wtask' = [wtask EXCEPT ![w] = Head(taskList)]
    /\ takenLog' = Append(takenLog, Head(taskList))
    /\ taskList' = Tail(taskList)
    /\ mutex' = None
    /\ wpc' = [wpc EXCEPT ![w] = "exec"]
    /\ UNCHANGED bar

\* The list is empty and the pool not yet initialised: NotifyWorkerStarted,
\* the worker's side of its barrier, still holding the lock.
WorkerArrive(w) ==
    /\ taskList = <<>> /\ ~initialized
    /\ IF "main" \in bar[w]
         THEN /\ bar' = [bar EXCEPT ![w] = {}]
              /\ mutex' = None
              /\ wpc' = [wpc EXCEPT ![w] = "wait"]
         ELSE /\ bar' = [bar EXCEPT ![w] = {"worker"}]
              /\ mutex' = w
              /\ wpc' = [wpc EXCEPT ![w] = "barrier"]
    /\ UNCHANGED <<taskList, wtask, takenLog>>

\* The list is empty: m_queueEvent.wait(lock) releases the lock.
StartWait(w) ==
    /\ taskList = <<>> /\ initialized
    /\ mutex' = None
    /\ wpc' = [wpc EXCEPT ![w] = "wait"]
    /\ UNCHANGED <<taskList, bar, wtask, takenLog>>

\* the body of the while loop in TryGetNewTask, with the lock held
Test(w) == TakeFront(w) \/ WorkerArrive(w) \/ StartWait(w)

Lock(w) ==
    /\ wpc[w] = "lock" /\ mutex = None
    /\ Test(w)
    /\ UNCHANGED <<initialized, shutdownReq, wshut, mpc, mi, spc, next>>

\* the barrier opened: the worker goes on to wait on m_queueEvent
BarrierPass(w) ==
    /\ wpc[w] = "barrier" /\ "worker" \notin bar[w]
    /\ wpc' = [wpc EXCEPT ![w] = "wait"]
    /\ mutex' = None
    /\ UNCHANGED <<initialized, shutdownReq, taskList, bar, wshut, wtask>>
    /\ UNCHANGED <<mpc, mi, spc, next, takenLog>>

SpuriousWake(w) ==
    /\ wpc[w] = "wait"
    /\ Spurious = "always" \/ (Spurious = "running" /\ initialized)
    /\ wpc' = [wpc EXCEPT ![w] = "relock"]
    /\ UNCHANGED <<initialized, shutdownReq, taskList, mutex, bar, wshut, wtask>>
    /\ UNCHANGED <<mpc, mi, spc, next, takenLog>>

\* back from wait with the lock: return eNotFound on shutdown, else loop
Relock(w) ==
    /\ wpc[w] = "relock" /\ mutex = None
    /\ IF shutdownReq
         THEN /\ wpc' = [wpc EXCEPT ![w] = "exit"]
              /\ UNCHANGED <<taskList, mutex, bar, wtask, takenLog>>
         ELSE Test(w)
    /\ UNCHANGED <<initialized, shutdownReq, wshut, mpc, mi, spc, next>>

\* task(); task.clear()
Exec(w) ==
    /\ wpc[w] = "exec"
    /\ wpc' = [wpc EXCEPT ![w] = "top"]
    /\ wtask' = [wtask EXCEPT ![w] = None]
    /\ UNCHANGED <<initialized, shutdownReq, taskList, mutex, bar, wshut>>
    /\ UNCHANGED <<mpc, mi, spc, next, takenLog>>

-----------------------------------------------------------------------------
(* The owner thread: ThreadPool::Initialize and ThreadPool::Shutdown *)

\* (mutant) the start-up loop runs once too often
NextWorkerPastEnd ==
    IF mi <= NWorkers
      THEN /\ mi' = mi + 1 /\ mpc' = "spawn"
           /\ UNCHANGED initialized
      ELSE /\ mpc' = "running" /\ initialized' = TRUE
           /\ UNCHANGED mi

\* after WorkerQueue::Initialize of worker mi returned
NextWorker ==
    IF mi < NWorkers
      THEN /\ mi' = mi + 1 /\ mpc' = "spawn"
           /\ UNCHANGED initialized
      ELSE /\ mpc' = "running" /\ initialized' = TRUE
           /\ UNCHANGED mi

\* WorkerQueue::Initialize: start the thread ...
Spawn ==
    /\ mpc = "spawn"
    /\ wpc' = [wpc EXCEPT ![mi] = "top"]
    /\ mpc' = "arrive"
    /\ UNCHANGED <<initialized, shutdownReq, taskList, mutex, bar, wshut, wtask>>
    /\ UNCHANGED <<mi, spc, next, takenLog>>

\* ... and wait at its barrier until the worker reports it has started
MainArrive ==
    /\ mpc = "arrive"
    /\ IF "worker" \in bar[mi]
         THEN /\ bar' = [bar EXCEPT ![mi] = {}]
              /\ NextWorker
         ELSE /\ bar' = [bar EXCEPT ![mi] = {"main"}]
              /\ mpc' = "barrier"
              /\ UNCHANGED <<initialized, mi>>
    /\ UNCHANGED <<shutdownReq, taskList, mutex, wpc, wshut, wtask, spc, next, takenLog>>

MainPass ==
    /\ mpc = "barrier" /\ "main" \notin bar[mi]
    /\ NextWorker
    /\ UNCHANGED <<shutdownReq, taskList, mutex, bar, wpc, wshut, wtask, spc, next, takenLog>>

\* Shutdown: m_shutdownRequested = true, then per worker notify_all and
\* WorkerQueue::Shutdown
StartShutdown ==
    /\ mpc = "running" /\ ~shutdownReq /\ initialized
    /\ shutdownReq' = TRUE
    /\ mi' = 1
    /\ mpc' = "notify"
    /\ UNCHANGED <<initialized, taskList, mutex, bar, wpc, wshut, wtask, spc, next, takenLog>>

ShutNotify ==
    /\ mpc = "notify"
    /\ NotifyAll
    /\ mpc' = "flag"
    /\ UNCHANGED <<initialized, shutdownReq, taskList, mutex, bar, wshut, wtask>>
    /\ UNCHANGED <<mi, spc, next, takenLog>>

\* WorkerQueue::Shutdown sets its flag and joins with a 5 s timeout
ShutFlag ==
    /\ mpc = "flag"
    /\ wshut' = [wshut EXCEPT ![mi] = TRUE]
    /\ mpc' = "join"
    /\ UNCHANGED <<initialized, shutdownReq, taskList, mutex, bar, wpc, wtask>>
    /\ UNCHANGED <<mi, spc, next, takenLog>>

\* the next worker, or m_isPoolInitialized = false at the end of the loop
NextShutdown ==
    IF mi < NWorkers
      THEN /\ mi' = mi + 1 /\ mpc' = "notify"
           /\ UNCHANGED initialized
      ELSE /\ mpc' = "done" /\ initialized' = FALSE
           /\ UNCHANGED mi

\* timed_join succeeds once the thread has ended; otherwise, after the
\* timeout, the thread is detached
Join ==
    /\ mpc = "join"
    /\ \/ wpc[mi] = "exit"
       \/ wpc[mi] # "exit"     \* timed_join returned false: detach
    /\ NextShutdown
    /\ UNCHANGED <<shutdownReq, taskList, mutex, bar, wpc, wshut, wtask, spc, next, takenLog>>

-----------------------------------------------------------------------------
(* The submitter: ThreadPool::AddTask *)

\* the two unlocked flag tests; a rejected or dropped task is lost
AddTaskCheck ==
    /\ spc = "idle" /\ next <= NTasks /\ mpc \notin InitPcs
    /\ IF ~initialized \/ shutdownReq
         THEN /\ next' = next + 1
              /\ UNCHANGED spc
         ELSE /\ spc' = "push"
              /\ UNCHANGED next
    /\ UNCHANGED <<initialized, shutdownReq, taskList, mutex, bar, wpc, wshut, wtask>>
    /\ UNCHANGED <<mpc, mi, takenLog>>

\* lock, push_back, unlock
AddTaskPush ==
    /\ spc = "push" /\ mutex = None
    /\ taskList' = Append(taskList, next)
    /\ spc' = "notify"
    /\ UNCHANGED <<initialized, shutdownReq, mutex, bar, wpc, wshut, wtask>>
    /\ UNCHANGED <<mpc, mi, next, takenLog>>

\* (mutant) AddTask without the notify_all
AddTaskNotifyNone ==
    /\ spc = "notify"
    /\ spc' = "idle"
    /\ next' = next + 1
    /\ UNCHANGED <<initialized, shutdownReq, taskList, mutex, bar, wpc, wshut, wtask>>
    /\ UNCHANGED <<mpc, mi, takenLog>>

AddTaskNotify ==
    /\ spc = "notify"
    /\ NotifyAll
    /\ spc' = "idle"
    /\ next' = next + 1
    /\ UNCHANGED <<initialized, shutdownReq, taskList, mutex, bar, wshut, wtask>>
    /\ UNCHANGED <<mpc, mi, takenLog>>

-----------------------------------------------------------------------------

Init ==
    /\ initialized = FALSE
    /\ shutdownReq = FALSE
    /\ taskList = <<>>
    /\ mutex = None
    /\ bar = [w \in Workers |-> {}]
    /\ wpc = [w \in Workers |-> "new"]
    /\ wshut = [w \in Workers |-> FALSE]
    /\ wtask = [w \in Workers |-> None]
    /\ mpc = "spawn"
    /\ mi = 1
    /\ spc = "idle"
    /\ next = 1
    /\ takenLog = <<>>

WorkerStep(w) ==
    Top(w) \/ Lock(w) \/ BarrierPass(w) \/ Relock(w) \/ Exec(w)

OwnerStep == Spawn \/ MainArrive \/ MainPass \/ ShutNotify \/ ShutFlag \/ Join

SubmitterStep == AddTaskCheck \/ AddTaskPush \/ AddTaskNotify

\* the owner has returned from Shutdown and the submitter has no more tasks;
\* the process then exits
Finished ==
    /\ mpc = "done" /\ spc = "idle" /\ next > NTasks
    /\ UNCHANGED vars

Next ==
    \/ \E w \in Workers : WorkerStep(w) \/ SpuriousWake(w)
    \/ OwnerStep \/ StartShutdown
    \/ SubmitterStep
    \/ Finished

\* Every thread that can go on eventually does.  A signal (StartShutdown)
\* and a new call of AddTask come when they come, and a spurious wake-up
\* need never happen.
Fairness ==
    /\ \A w \in Workers : WF_vars(WorkerStep(w))
    /\ WF_vars(OwnerStep)
    /\ WF_vars(AddTaskPush \/ AddTaskNotify)

Spec == Init /\ [][Next]_vars /\ Fairness

-----------------------------------------------------------------------------
(* Properties *)

TypeOK ==
    /\ initialized \in BOOLEAN /\ shutdownReq \in BOOLEAN
    /\ taskList \in Seq(Tasks) /\ takenLog \in Seq(Tasks)
    /\ mutex \in Workers \cup {None}
    /\ bar \in [Workers -> SUBSET {"main", "worker"}]
    /\ wpc \in [Workers -> {"new", "top", "lock", "barrier", "wait", "relock", "exec", "exit"}]
    /\ wshut \in [Workers -> BOOLEAN]
    /\ wtask \in [Workers -> Tasks \cup {None}]
    /\ mpc \in InitPcs \cup {"running", "notify", "flag", "join", "done"}
    /\ mi \in Workers
    /\ spc \in {"idle", "push", "notify"} /\ next \in 1..NTasks + 1

InList(t) == \E i \in 1..Len(taskList) : taskList[i] = t
Taken(t) == \E i \in 1..Len(takenLog) : takenLog[i] = t

\* A task AddTask stored is eventually taken by a worker unless shutdown is
\* requested: the notify_all after the push is never lost on a worker that
\* found the list empty (AddTask and TryGetNewTask).
TasksTaken ==
    \A t \in Tasks : InList(t) ~> (Taken(t) \/ shutdownReq)


\* A call of AddTask that has passed its two tests stores its task and
\* returns: the lock it needs is not held forever.
AddTaskReturns == spc = "push" ~> spc = "idle"

=============================================================================
