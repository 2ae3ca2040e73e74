\* The legacy chat server launched with a file it can serve; two peers that
\* send one message each and stay connected, two pool threads.
CONSTANTS
    c1 = c1
    c2 = c2
    w1 = w1
    w2 = w2
    None = None
    Missing = Missing
    Malformed = Malformed
    NotInt = NotInt
    Clients <- MCClients
    Workers <- MCWorkers
    Launches <- MCConfigOnly
    Files <- MCServeOnly
    IntOf <- MCIntOf
    IPv4Tokens = {"127.0.0.1"}
    MaxMsgs = 1
    Hangups = FALSE
SPECIFICATION Spec
CHECK_DEADLOCK FALSE
PROPERTY AcceptedSocketsWatchedFromLaunch
