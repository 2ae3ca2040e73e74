\* A closed descriptor handed out again within the same epoll batch: open connections stay registered with epoll.
CONSTANTS
    c1 = c1
    c2 = c2
    f1 = f1
    s1 = s1
    None = None
    Invalid = Invalid
    Server = Server
    Nick = Nick
    Listen = Listen
    Clients <- MCClients
    FDs <- MCFDs
    FastWorkers <- MCOneFast
    SlowWorkers <- MCSlowWorkers
    MaxLines = 1
    LineKinds = {"chat", "quit"}
    Hangups = TRUE
SPECIFICATION Spec
SYMMETRY MCClientSymmetry
INVARIANT OpenConnectionsRegistered
