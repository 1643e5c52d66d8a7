\* One sender and two receivers; all of them end.
CONSTANTS
    s1 = s1
    r1 = r1
    r2 = r2
    Senders <- OneSender
    Receivers <- TwoReceivers
    QueueLimits <- Limits
SPECIFICATION Spec
INVARIANTS
    TypeOK
    MessagesAccounted
    SettledReceiverServed
PROPERTIES
    IsTypedQueue
CHECK_DEADLOCK FALSE
