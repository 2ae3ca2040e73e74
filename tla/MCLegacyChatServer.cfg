\* Two peers that send two messages each and may hang up, two pool threads,
\* launched with any of four command lines and four config files (one that
\* serves, one whose tcp_if is a device name, a missing and a refused one).
\* The server blocks in accept, recv and epoll_wait once the peers stop, a
\* launch may end in main, and a killed process takes no step, so a state
\* with no successor is expected.
CONSTANTS
    c1 = c1
    c2 = c2
    w1 = w1
    w2 = w2
    None = None
    Missing = Missing
    Malformed = Malformed
    NotInt = NotInt
    Clients <- MCClients
    Workers <- MCWorkers
    Launches <- MCLaunches
    Files <- MCFiles
    IntOf <- MCIntOf
    IPv4Tokens = {"127.0.0.1"}
    MaxMsgs = 2
    Hangups = TRUE
SPECIFICATION Spec
CHECK_DEADLOCK FALSE
INVARIANT TypeOK
PROPERTY AcceptedSocketsWatched
PROPERTY ResetConnectionsReleased
