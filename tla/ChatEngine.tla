----------------------------- MODULE ChatEngine -----------------------------
(***************************************************************************)
(* The process of src/linux/chat_server around its connection path:       *)
(* main, ConfigurationManager (config/configuration_manager.cc),           *)
(* ServerEngine (core/server_engine.cc), SignalManager                     *)
(* (signal/signal_manager.cc), NetworkManager (network/network_manager.cc) *)
(* and the start-up and shutdown of ConnectionManager.                      *)
(*                                                                         *)
(* The main thread parses the command line, loads the settings, starts the *)
(* engine and then waits for signals with sigtimedwait: SIGHUP reloads the *)
(* file and applies the daemon and log level settings again, SIGTERM shuts *)
(* the server down.  The fast pool is the ThreadPool module, composed      *)
(* here: the main thread is its owner (Initialize, Shutdown) and the       *)
(* listener thread its submitter (AddTask).  The slow pool is built and    *)
(* stopped by the same code right after the fast one and is left out.     *)
(*                                                                         *)
(* Data: a config file is a sequence of lines; a line is a record of a     *)
(* name token and a value token.  What the regular expression accepts and  *)
(* what "stream >> int" makes of a token are given by the constants        *)
(* WordNames, ValueTokens and IntOf.                                       *)
(***************************************************************************)
EXTENDS Naturals, Sequences, FiniteSets, FiniteSetsExt, TLC

CONSTANTS
    NWorkers, NTasks, Spurious, None,   \* the fast pool, as in ThreadPool
    ConfigFile,      \* the file --config names
    StartContents,   \* contents it may have when the process is launched
    Contents,        \* contents an administrator may write to it later
    Missing,         \* the content of a file that does not exist
    Failed,          \* LoadSettingsFromFile threw
    Args,            \* command lines: [opts, bad, file]
    WordNames,       \* name tokens matched by (\w*?)
    ValueTokens,     \* value tokens matched by ([A-Za-z0-9\\.]*?)
    IntOf,           \* what "stream >> value" stores for a value token
    IPv4Tokens,      \* tokens matched by IsIpV4Address
    Devices,         \* interface names with an IPv4 address
    MaxConfigLines,  \* ConfigFileMaximumLines (512)
    MaxEdits, MaxSignals

VARIABLES
    \* ThreadPool, the fast pool
    initialized, shutdownReq, taskList, mutex, bar, wpc, wshut, wtask,
    mpc, mi, spc, next, takenLog,
    \* the file system and the administrator
    files,       \* content of each file
    edits,       \* edits made so far
    sent,        \* signals sent so far
    hupSince,    \* (history) a SIGHUP was sent after the last edit
    \* the process
    pending,     \* signals blocked and pending (a set: standard signals coalesce)
    cfgName,     \* ConfigurationManager::m_configFileName
    cfgData,     \* ConfigurationManager::m_configData: name -> value token
    logLevel,    \* the level SET_LOG_LEVEL last set
    gone,        \* the process forked after its threads started: only the main thread is left
    mainPc,      \* the main thread, which is also the signal thread
    stopReq,     \* ServerEngine's and NetworkManager's m_shutdownRequested
    lpc,         \* the listener thread: "none", "loop", "done"
    result       \* what Start ended with: None, or "error"

Pool == INSTANCE ThreadPool

poolVars == <<initialized, shutdownReq, taskList, mutex, bar, wpc, wshut, wtask,
              mpc, mi, spc, next, takenLog>>
engineVars == <<files, edits, sent, hupSince, pending, cfgName, cfgData, logLevel, gone,
                mainPc, stopReq, lpc, result>>
vars == <<poolVars, engineVars>>

-----------------------------------------------------------------------------
(* ConfigurationManager *)

\* ParameterName[]: the names GetParameterIdByName accepts
ParamNames == {"daemon", "tcp_if", "tcp_port", "loglevel", "fast_pool_size", "slow_pool_size"}

\* the trimmed line is not empty, not a comment, and matches
\* ConfigFileRegExpression as a whole
Assignment(l) == l.name \in WordNames /\ l.value \in ValueTokens

\* The loop of LoadSettingsFromFile over the lines: an unknown name throws
\* from GetParameterIdByName; insert keeps the first value of a name.
RECURSIVE ParseLines(_, _)
ParseLines(ls, acc) ==
    IF ls = <<>> THEN acc
    ELSE LET l == Head(ls) IN
         IF ~Assignment(l) THEN ParseLines(Tail(ls), acc)
         ELSE IF l.name \notin ParamNames THEN Failed
         ELSE ParseLines(Tail(ls), IF l.name \in DOMAIN acc THEN acc
                                   ELSE acc @@ (l.name :> l.value))

\* the settings read from a content: at most ConfigFileMaximumLines lines,
\* and an error for a file that cannot be opened
Parse(c) ==
    IF c = Missing THEN Failed
    ELSE ParseLines(SubSeq(c, 1, Min({Len(c), MaxConfigLines})), <<>>)

\* (mutant) the argument replaces the stored name even when it is empty
ConfigNameAfterAlways(name, arg) == arg

\* "if (!configFile.empty()) m_configFileName = configFile;"
ConfigNameAfter(name, arg) ==
    IF arg = None THEN name ELSE arg

\* LoadSettingsFromFile(arg): the settings are swapped in only when the whole
\* file was read
LoadSettings(arg) ==
    LET n == ConfigNameAfter(cfgName, arg)
        r == IF n = None THEN Failed ELSE Parse(files[n])
    IN /\ cfgName' = n
       /\ cfgData' = IF r = Failed THEN cfgData ELSE r

\* CheckSettingValue: only the pool sizes are bounded
CheckSettingValue(n, v) == n \in {"fast_pool_size", "slow_pool_size"} => v \in 1..50

\* GetSetting(id, int&): eNotFound, or the converted value and the result
\* of CheckSettingValue
GetInt(d, n) ==
    IF n \notin DOMAIN d THEN [code |-> "eNotFound", val |-> 0]
    ELSE [code |-> IF CheckSettingValue(n, IntOf[d[n]]) THEN "sOk" ELSE "eInvalidArgument",
          val |-> IntOf[d[n]]]

\* GenerateConfigFile: one line per parameter with its default value
DefaultContent ==
    << [name |-> "daemon", value |-> "0"], [name |-> "tcp_if", value |-> "eth0"],
       [name |-> "tcp_port", value |-> "6667"], [name |-> "loglevel", value |-> "1"],
       [name |-> "fast_pool_size", value |-> "10"], [name |-> "slow_pool_size", value |-> "5"] >>

-----------------------------------------------------------------------------
(* ServerEngine *)

\* ApplyConfigSettigns: the daemon setting (::daemon when not 0), then the
\* log level; the first error returns at once
ApplyConfig(d) ==
    LET dm == GetInt(d, "daemon")
        lv == GetInt(d, "loglevel")
    IN [fork  |-> dm.code = "sOk" /\ dm.val # 0,
        code  |-> IF dm.code # "sOk" THEN dm.code ELSE lv.code,
        level |-> IF dm.code = "sOk" /\ lv.code = "sOk" THEN lv.val ELSE logLevel]

\* the pool threads or the listener thread exist
Threads == mpc \notin Pool!InitPcs \/ lpc = "loop"

\* main: ReadComandLineArguments, which ends the process for --help,
\* --version, --gen-config and a parse error, and otherwise loads the file
ReadArgs(a) ==
    /\ mainPc = "args"
    /\ IF a.bad \/ "help" \in a.opts \/ a.opts = {} \/ "version" \in a.opts
            \/ "gen-config" \in a.opts \/ "config" \notin a.opts
         THEN /\ mainPc' = "exited" /\ result' = "error"
              /\ files' = IF ~a.bad /\ "gen-config" \in a.opts /\ "help" \notin a.opts
                             /\ "version" \notin a.opts
                          THEN [files EXCEPT ![a.file] = DefaultContent] ELSE files
              /\ UNCHANGED <<cfgName, cfgData>>
         ELSE /\ LoadSettings(a.file)
              /\ LET r == Parse(files[a.file]) IN
                   /\ mainPc' = IF r = Failed THEN "exited" ELSE "start"
                   /\ result' = IF r = Failed THEN "error" ELSE None
              /\ UNCHANGED files
    /\ UNCHANGED <<edits, sent, hupSince, pending, logLevel, gone, stopReq, lpc, poolVars>>

\* ServerEngine::Start up to NetworkManager::Initialize: ApplyConfigSettigns
\* (an error throws before m_engineStarted is set, so ~ServerEngine does
\* nothing), then SignalManager::Initialize blocks every signal
StartEngine ==
    LET a == ApplyConfig(cfgData) IN
    /\ mainPc = "start"
    /\ IF a.code # "sOk"
         THEN mainPc' = "exited" /\ result' = "error" /\ UNCHANGED logLevel
         ELSE mainPc' = "cminit" /\ logLevel' = a.level /\ UNCHANGED result
    /\ UNCHANGED <<files, edits, sent, hupSince, pending, cfgName, cfgData, gone, stopReq, lpc, poolVars>>

\* ConnectionManager::GetInstance: the constructor reads both pool sizes and
\* throws on an error; NetworkManager::Initialize then calls Initialize
CreateConnectionManager ==
    LET ok == \A n \in {"fast_pool_size", "slow_pool_size"} : GetInt(cfgData, n).code = "sOk" IN
    /\ mainPc = "cminit"
    /\ mainPc' = IF ok THEN "poolinit" ELSE "unwind"
    /\ result' = IF ok THEN result ELSE "error"
    /\ UNCHANGED <<files, edits, sent, hupSince, pending, cfgName, cfgData, logLevel, gone,
                   stopReq, lpc, poolVars>>

\* ThreadPool::Initialize of the fast pool, run by the main thread
PoolInit ==
    /\ mainPc = "poolinit"
    /\ Pool!Spawn \/ Pool!MainArrive \/ Pool!MainPass
    /\ UNCHANGED engineVars

\* the address regular expression ^((\d{1,3}\.){3}\d{1,3})$
IsIpV4Address(t) == t \in IPv4Tokens

\* getifaddrs: the device has at least one IPv4 address, or eNotFound
GetIpListFromDeviceName(t) == t \in Devices

\* The rest of NetworkManager::Initialize: the interface and the port, the
\* addresses of the interface, then socket, bind and listen for each; any
\* error throws.  On success NetworkManager::Start starts the listener and
\* SignalManager::ProcessSignals begins.
NetInit(bindOk) ==
    LET ifc == IF "tcp_if" \in DOMAIN cfgData THEN cfgData["tcp_if"] ELSE None
        ok == /\ ifc # None
              /\ GetInt(cfgData, "tcp_port").code = "sOk"
              /\ IsIpV4Address(ifc) \/ GetIpListFromDeviceName(ifc)
              /\ bindOk
    IN
    /\ mainPc = "poolinit" /\ mpc = "running"
    /\ mainPc' = IF ok THEN "signals" ELSE "unwind"
    /\ lpc' = IF ok THEN "loop" ELSE lpc
    /\ result' = IF ok THEN result ELSE "error"
    /\ UNCHANGED <<files, edits, sent, hupSince, pending, cfgName, cfgData, logLevel, gone,
                   stopReq, poolVars>>

\* (mutant) the exception leaves Start without ~ServerEngine's Shutdown
UnwindNoShutdown ==
    /\ mainPc = "unwind"
    /\ mainPc' = "exited"
    /\ UNCHANGED <<files, edits, sent, hupSince, pending, cfgName, cfgData, logLevel, gone,
                   stopReq, lpc, result, poolVars>>

\* The exception from Start reaches main; ~ServerEngine calls Shutdown, which
\* stops the connection manager if it was initialised (a constructor that
\* threw throws again from GetInstance and the destructor swallows it).
Unwind ==
    /\ mainPc = "unwind"
    /\ stopReq' = TRUE
    /\ mainPc' = IF mpc \in Pool!InitPcs THEN "exited" ELSE "stoppool"
    /\ UNCHANGED <<files, edits, sent, hupSince, pending, cfgName, cfgData, logLevel, gone,
                   lpc, result, poolVars>>

-----------------------------------------------------------------------------
(* SignalManager::ProcessSignals and ServerEngine::OnSystemSignal *)

\* sigtimedwait returns one pending signal
SigWait(s) ==
    /\ mainPc = "signals" /\ s \in pending
    /\ pending' = pending \ {s}
    /\ mainPc' = s
    /\ UNCHANGED <<files, edits, sent, hupSince, cfgName, cfgData, logLevel, gone, stopReq,
                   lpc, result, poolVars>>

\* SIGHUP: LoadSettingsFromFile() with the stored name, then
\* ApplyConfigSettigns; ::daemon forks, and the child the process goes on
\* in has only the calling thread
Reload ==
    /\ mainPc = "SIGHUP"
    /\ LoadSettings(None)
    /\ LET a == ApplyConfig(cfgData') IN
         /\ logLevel' = a.level
         /\ gone' = (gone \/ (a.fork /\ Threads))
    /\ mainPc' = "signals"
    /\ UNCHANGED <<files, edits, sent, hupSince, pending, stopReq, lpc, result, poolVars>>

\* SIGTERM: ServerEngine::Shutdown sets its flag and NetworkManager's, then
\* ConnectionManager::Shutdown stops the pools
Terminate ==
    /\ mainPc = "SIGTERM"
    /\ mainPc' = "stoppool"
    /\ stopReq' = TRUE
    /\ UNCHANGED <<files, edits, sent, hupSince, pending, cfgName, cfgData, logLevel, gone,
                   lpc, result, poolVars>>

\* ThreadPool::Shutdown of the fast pool, run by the main thread
StopPool ==
    /\ mainPc = "stoppool"
    /\ Pool!StartShutdown \/ Pool!ShutNotify \/ Pool!ShutFlag \/ Pool!Join
    /\ UNCHANGED engineVars

\* The pools are stopped and the registry cleared; NetworkManager joins the
\* listener thread (when it was started), SignalManager::Shutdown ends the
\* signal loop, Start returns and main returns.
JoinListener ==
    /\ mainPc = "stoppool" /\ mpc = "done"
    /\ lpc # "loop"
    /\ mainPc' = "exited"
    /\ UNCHANGED <<files, edits, sent, hupSince, pending, cfgName, cfgData, logLevel, gone,
                   stopReq, lpc, result, poolVars>>

-----------------------------------------------------------------------------
(* The listener thread: NetworkManager::ListeningThreadRoutine *)

\* ProcessConnections hands tasks to the fast pool
Listen ==
    /\ lpc = "loop" /\ ~gone
    /\ Pool!SubmitterStep
    /\ UNCHANGED engineVars

\* while (!m_shutdownRequested), tested between two ProcessConnections
ListenerExit ==
    /\ lpc = "loop" /\ ~gone /\ stopReq /\ spc = "idle"
    /\ lpc' = "done"
    /\ UNCHANGED <<files, edits, sent, hupSince, pending, cfgName, cfgData, logLevel, gone,
                   mainPc, stopReq, result, poolVars>>

\* a worker of the fast pool
Work(w) ==
    /\ ~gone
    /\ Pool!WorkerStep(w) \/ Pool!SpuriousWake(w)
    /\ UNCHANGED engineVars

-----------------------------------------------------------------------------
(* The environment *)

\* An administrator rewrites the config file.
Edit(c) ==
    /\ edits < MaxEdits /\ mainPc # "exited"
    /\ files' = [files EXCEPT ![ConfigFile] = c]
    /\ edits' = edits + 1
    /\ hupSince' = FALSE
    /\ UNCHANGED <<sent, pending, cfgName, cfgData, logLevel, gone, mainPc, stopReq, lpc,
                   result, poolVars>>

\* A signal is sent.  Before SignalManager::Initialize blocks them, SIGHUP
\* and SIGTERM have their default action and end the process.
Kill(s) ==
    /\ sent < MaxSignals /\ mainPc # "exited"
    /\ sent' = sent + 1
    /\ IF mainPc \in {"args", "start"}
         THEN /\ mainPc' = "exited" /\ result' = "killed"
              /\ UNCHANGED <<pending, hupSince>>
         ELSE /\ pending' = pending \cup {s}
              /\ hupSince' = (hupSince \/ s = "SIGHUP")
              /\ UNCHANGED <<mainPc, result>>
    /\ UNCHANGED <<files, edits, cfgName, cfgData, logLevel, gone, stopReq, lpc, poolVars>>

-----------------------------------------------------------------------------

Init ==
    /\ Pool!Init
    /\ files \in [{ConfigFile} -> StartContents]
    /\ edits = 0 /\ sent = 0 /\ hupSince = FALSE
    /\ pending = {}
    /\ cfgName = None /\ cfgData = <<>>
    /\ logLevel = None
    /\ gone = FALSE
    /\ mainPc = "args"
    /\ stopReq = FALSE
    /\ lpc = "none"
    /\ result = None

MainStep ==
    \/ \E a \in Args : ReadArgs(a)
    \/ StartEngine \/ CreateConnectionManager \/ PoolInit \/ \E b \in BOOLEAN : NetInit(b)
    \/ Unwind \/ \E s \in {"SIGHUP", "SIGTERM"} : SigWait(s)
    \/ Reload \/ Terminate \/ StopPool \/ JoinListener

Next ==
    \/ MainStep
    \/ Listen \/ ListenerExit
    \/ \E w \in Pool!Workers : Work(w)
    \/ \E c \in Contents : Edit(c)
    \/ \E s \in {"SIGHUP", "SIGTERM"} : Kill(s)

\* The main thread loops in sigtimedwait with a 300 ms timeout, so a pending
\* signal is taken; the listener loops with a 100 ms epoll timeout; workers
\* run as in ThreadPool.  Nobody is obliged to edit the file or send signals.
Fairness ==
    /\ WF_vars(MainStep)
    /\ WF_vars(ListenerExit)
    /\ WF_vars(lpc = "loop" /\ ~gone /\ (Pool!AddTaskPush \/ Pool!AddTaskNotify)
               /\ UNCHANGED engineVars)
    /\ \A w \in Pool!Workers : WF_vars(~gone /\ Pool!WorkerStep(w) /\ UNCHANGED engineVars)

Spec == Init /\ [][Next]_vars /\ Fairness

-----------------------------------------------------------------------------
(* Properties *)

TypeOK ==
    /\ Pool!TypeOK
    /\ files \in [{ConfigFile} -> Contents \cup StartContents \cup {DefaultContent}]
    /\ edits \in 0..MaxEdits /\ sent \in 0..MaxSignals /\ hupSince \in BOOLEAN
    /\ pending \subseteq {"SIGHUP", "SIGTERM"}
    /\ cfgName \in {None, ConfigFile}
    /\ DOMAIN cfgData \subseteq ParamNames /\ \A n \in DOMAIN cfgData : cfgData[n] \in ValueTokens
    /\ logLevel \in {None} \cup {IntOf[v] : v \in ValueTokens}
    /\ gone \in BOOLEAN /\ stopReq \in BOOLEAN
    /\ mainPc \in {"args", "start", "cminit", "poolinit", "unwind", "signals", "SIGHUP",
                   "SIGTERM", "stoppool", "exited"}
    /\ lpc \in {"none", "loop", "done"}
    /\ result \in {None, "error", "killed"}

\* A SIGHUP sent after the config file was edited makes the running server
\* hold the settings of the file as edited, unless that file does not load, is
\* edited again or a shutdown is requested: SIGHUPs coalesce while pending, the
\* signal loop takes them one at a time, and LoadSettingsFromFile() rereads
\* the file under the name stored when --config was read.
ReloadTakesEffect ==
    LET Loadable == Parse(files[ConfigFile]) # Failed
        Current  == cfgData = Parse(files[ConfigFile])
    IN (hupSince /\ Loadable) ~> (Current \/ ~hupSince \/ stopReq \/ mainPc = "exited")

\* main never returns while the fast pool it initialised still runs: every
\* error thrown by Start after ConnectionManager::Initialize reaches
\* ~ServerEngine's Shutdown, and SIGTERM goes through ServerEngine::Shutdown.
PoolsStoppedOnReturn ==
    mainPc = "exited" /\ result # "killed" => mpc \in {"spawn", "done"}

\* While the engine serves (its signal loop runs and no shutdown was
\* requested), the listener thread and the pool workers still run in the
\* process: a SIGHUP's ApplyConfigSettigns must not lose them.
ServingWhileStarted ==
    mainPc \in {"signals", "SIGHUP", "SIGTERM"} /\ ~stopReq => ~gone

\* A task AddTask stored is taken unless shutdown is requested, in the pool
\* as the listener thread feeds it (ThreadPool's TasksTaken).
TasksTaken == Pool!TasksTaken

=============================================================================
