CONSTANTS
    s1 = s1
    s2 = s2
    c1 = c1
    c2 = c2
    None = None
    Servers <- TwoServers
    Callers <- TwoClients
    MaxRequests = 2
    MaxKills = 1
SPECIFICATION PairsSpec
\* Processes end, and a server without clients waits.
CHECK_DEADLOCK FALSE
INVARIANTS
    PairsTypeOK
    AnsweredInStep
PROPERTY
    ClientsEnd
