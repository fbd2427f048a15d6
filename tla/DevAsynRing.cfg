SPECIFICATION Spec
CONSTANTS
    RingSize = 2
    Values = {1, 2}
    Configs <- Records
    MaxEvents = 5
    MaxClients = 2
INVARIANTS NoneStranded Settled PutKept
CHECK_DEADLOCK FALSE
