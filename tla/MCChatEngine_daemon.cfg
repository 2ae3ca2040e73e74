\* The chat server started in the foreground (daemon = 0); the administrator
\* then sets daemon = 1 in its config file and sends SIGHUP.
CONSTANTS
    NWorkers = 2
    NTasks = 1
    Spurious = "never"
    None = None
    Missing = Missing
    Failed = Failed
    F = F
    ConfigFile = F
    StartContents <- MCStartOnly
    Contents <- MCDaemonContents
    Args <- MCConfigArgs
    WordNames <- MCWordNames
    ValueTokens <- MCValueTokens
    IntOf <- MCIntOf
    IPv4Tokens = {}
    Devices = {"eth0"}
    MaxConfigLines = 8
    MaxEdits = 1
    MaxSignals = 2
SPECIFICATION Spec
CHECK_DEADLOCK FALSE
INVARIANT ServingWhileStarted
