\* Two peers register the same user on two pool threads, starting from an
\* empty record file: both REGISTERs read the file before either appends.
\* The server stops in epoll_wait and accept when no peer acts.
CONSTANTS
    c1 = c1
    c2 = c2
    w1 = w1
    w2 = w2
    None = None
    Frag = Frag
    Clients <- MCClients
    FDs <- MCFDs
    PipeFD <- MCPipeFD
    Workers <- MCWorkers
    Requests <- MCOneRegister
    InitialRecords <- MCNoRecords
    MaxSends = 1
    MaxRecords = 2
    MaxToggles = 0
SPECIFICATION Spec
CHECK_DEADLOCK FALSE
INVARIANT NoDuplicateUsers
