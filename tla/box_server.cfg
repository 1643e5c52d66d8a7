\* Two tasks and an unknown one; five kinds of storing request.  The server
\* takes no more than MaxRequests.
CONSTANTS
    t1 = t1
    t2 = t2
    u = u
    Tasks <- TwoTasks
    Unknown <- NoTask
    Heartbeats <- Lists
    Stores <- Asks
    MaxTime = 2
    MaxRequests = 4
    MaxInterrupts = 1
SPECIFICATION Spec
INVARIANTS
    TypeOK
    JudgedRight
    StoredInOrder
CHECK_DEADLOCK FALSE
