\* One TCP peer, one UDP peer, two workers, two configuration changes (data file d2 does not exist; the
\* starting file has no maint line) and SIGUSR1.
\* The server waits in select() and recvfrom() when no peer acts.
CONSTANTS
    c1 = c1
    u1 = u1
    w1 = w1
    w2 = w2
    ua = ua
    ub = ub
    uc = uc
    d1 = d1
    d2 = d2
    None = None
    Frag = Frag
    Clients = {c1}
    UdpPeers = {u1}
    Workers = {w1, w2}
    Requests <- MCRequests
    InitialRecords <- MCRecords
    MaxSends = 1
    MaxRecords = 2
    MaxToggles = 2
    DataFiles = {d1, d2}
    Existing = {d1}
    StartFile = d1
    StartMaint = None
    MaintValues <- MCMaintValues
SPECIFICATION Spec
CHECK_DEADLOCK FALSE
INVARIANT TypeOK
INVARIANT NoDanglingConnection
INVARIANT AtMostMaxRecords
PROPERTY RequestsServed
PROPERTY StopReturns
