\* Three clients; three descriptors for connections.  The server may stop.
CONSTANTS
    c1 = c1
    c2 = c2
    c3 = c3
    Clients <- ThreeClients
    ListenFd = 1
    FdLimit = 5
    MaxSends <- Sends
    Listener = Listener
    Free = Free
SPECIFICATION FairSpec
INVARIANTS
    TypeOK
    Watching
    NoStaleReady
PROPERTIES
    PassComplete
    ClientServed
CHECK_DEADLOCK FALSE
