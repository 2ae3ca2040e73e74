\* Two peers, two descriptors, two pool threads, maintenance switched on and off.
\* The server stops in epoll_wait and accept when no peer acts, so a state with
\* no successor is not an error.
CONSTANTS
    c1 = c1
    c2 = c2
    w1 = w1
    w2 = w2
    None = None
    Frag = Frag
    Clients <- MCClients
    FDs <- MCFDs
    PipeFD <- MCPipeFD
    Workers <- MCWorkers
    Requests <- MCSafeRequests
    InitialRecords <- MCRecordsA
    MaxSends = 1
    MaxRecords = 2
    MaxToggles = 1
SPECIFICATION Spec
CHECK_DEADLOCK FALSE
SYMMETRY MCClientSymmetry
INVARIANT TypeOK
INVARIANT SingleReader
INVARIANT ConnectionWatched
