SPECIFICATION FairSpec
CONSTANTS
    c1 = c1
    Clients = {c1}
    PortThread = portThread
    Timer = timer
    Registrar = registrar
    MaxCalls = 3
    MaxOutages = 1
INVARIANTS RetryPending WaitTrue
PROPERTIES Reconnects
CHECK_DEADLOCK FALSE
