SPECIFICATION FairSpec
CONSTANTS
    c1 = c1
    c2 = c2
    c3 = c3
    Clients = {c1, c2, c3}
    maxClients = 2
    NumUsers = 2
    Datagrams <- ThreeDatagrams
    NoSocket = NoSocket
    Own = Own
    MaxCalls = 4
INVARIANTS DatagramsWhole
PROPERTIES RefusedWhenFull Answered
CHECK_DEADLOCK FALSE
