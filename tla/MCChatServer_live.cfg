\* Clients that chat, send \quit or hang up, one descriptor (accept may fail with EMFILE), one fast and one slow worker: holder lifetime, sender skip, and closed connections leave the registry.
CONSTANTS
    c1 = c1
    c2 = c2
    f1 = f1
    s1 = s1
    None = None
    Invalid = Invalid
    Server = Server
    Nick = Nick
    Listen = Listen
    Clients <- MCClients
    FDs <- MCOneFD
    FastWorkers <- MCOneFast
    SlowWorkers <- MCSlowWorkers
    MaxLines = 1
    LineKinds = {"chat", "quit"}
    Hangups = TRUE
SPECIFICATION Spec
INVARIANT TypeOK
INVARIANT DestroyedOnlyWhenClosed
PROPERTY ClosedConnectionsLeaveRegistry
