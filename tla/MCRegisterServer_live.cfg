\* Two peers that make a first move, two pool threads, no maintenance
\* switches: every closed connection is released and every line answered.
\* The server stops in epoll_wait and accept when no peer acts.
CONSTANTS
    c1 = c1
    c2 = c2
    w1 = w1
    w2 = w2
    None = None
    Frag = Frag
    Clients <- MCClients
    FDs <- MCFDs
    PipeFD <- MCPipeFD
    Workers <- MCWorkers
    Requests <- MCLiveRequests
    InitialRecords <- MCRecordsA
    MaxSends = 1
    MaxRecords = 2
    MaxToggles = 0
SPECIFICATION FairPeersSpec
CHECK_DEADLOCK FALSE
PROPERTY ClosedConnectionsReleased
PROPERTY RequestsAnswered
