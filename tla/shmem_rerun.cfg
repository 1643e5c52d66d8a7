\* The writer is run twice on the same machine.
CONSTANTS
    w1 = w1
    w2 = w2
    r1 = r1
    r2 = r2
    r3 = r3
    Writers <- TwoWriters
    Readers <- TwoReaders
    Chunks = 2
    MaxKills = 0
SPECIFICATION FairSpec
INVARIANT
    ReadsText
CHECK_DEADLOCK FALSE
