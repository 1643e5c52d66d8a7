\* Two consumers, one of which tests while the other reads.
CONSTANTS
    p1 = p1
    p2 = p2
    c1 = c1
    c2 = c2
    Producers <- TwoProducers
    Consumers <- TwoConsumers
    Pieces = 2
    MaxKills = 1
SPECIFICATION Spec
CHECK_DEADLOCK FALSE
PROPERTY
    RefusedByWriteLock
