\* Two clients, one of which may be killed; the server ends up waiting.
CONSTANTS
    c1 = c1
    c2 = c2
    Clients <- TwoClients
    Pieces <- Cut
    BuffSize = 6
    MaxShorts = 2
    MaxKills = 1
SPECIFICATION FairSpec
INVARIANTS
    TypeOK
    OwnEchoes
    EchoConfirms
PROPERTY
    ClientEnds
CHECK_DEADLOCK FALSE
