\* One writer since boot, three readers, one process killed anywhere.
CONSTANTS
    w1 = w1
    w2 = w2
    r1 = r1
    r2 = r2
    r3 = r3
    Writers <- OneWriter
    Readers <- ThreeReaders
    Chunks = 2
    MaxKills = 1
SPECIFICATION FairSpec
INVARIANTS
    TypeOK
    MutualExclusion
    ReadsText
PROPERTY
    ReaderReleased
CHECK_DEADLOCK FALSE
