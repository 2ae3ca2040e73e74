\* The chat server's process: command lines that stop at once or load the
\* file; a file that later gets a new log level, an unknown name, a bad pool
\* size, no daemon line, or is deleted (two edits); a SIGHUP and a SIGTERM at
\* any time; the fast pool with two workers and two tasks from the listener,
\* spurious wake-ups once running.  daemon stays 0 (see MCChatEngine_daemon.cfg).
\* The process exits, so a state with no successor is not an error.
CONSTANTS
    NWorkers = 2
    NTasks = 2
    Spurious = "running"
    None = None
    Missing = Missing
    Failed = Failed
    F = F
    ConfigFile = F
    StartContents <- MCStarts
    Contents <- MCContents
    Args <- MCArgs
    WordNames <- MCWordNames
    ValueTokens <- MCValueTokens
    IntOf <- MCIntOf
    IPv4Tokens = {}
    Devices = {"eth0"}
    MaxConfigLines = 8
    MaxEdits = 1
    MaxSignals = 2
SPECIFICATION Spec
CHECK_DEADLOCK FALSE
INVARIANT TypeOK
INVARIANT PoolsStoppedOnReturn
PROPERTY ReloadTakesEffect
PROPERTY TasksTaken
