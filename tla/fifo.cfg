\* Two writers and two readers.  An open may wait forever for the other end.
CONSTANTS
    w1 = w1
    w2 = w2
    r1 = r1
    r2 = r2
    Writers <- TwoWriters
    Readers <- TwoReaders
    MaxLoops = 2
    IntsPerChunk = 1
    Capacity = 1
    MaxKills = 1
SPECIFICATION FairSpec
INVARIANTS
    TypeOK
    OrderKept
    EndMeansAll
PROPERTY
    Finishes
CHECK_DEADLOCK FALSE
