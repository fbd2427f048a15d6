SPECIFICATION Spec
CONSTANTS
    u1 = u1
    u2 = u2
    u3 = u3
    d1 = d1
    port = port
    c1 = c1
    c2 = c2
    Port = port
    PortThread = portThread
    TimerThread = timerThread
    Null = null
    InitDev <- MCInitDev
    Users = {u1, u3}
    Devices = {d1}
    Clients = {c1}
    HasTimeout = {}
    AutoConnect = {port, d1}
    InitConnected = {port, d1}
    Priorities = {2, 3}
    MaxBlock = 1
    Togglable = {}
    Linkable = {d1, port}
    Lockers = {}
    Cancellers = {c1}
    Rebindable = {}
    EvenIf = {u1}
    FreeUse = FALSE
    FreeRebind = FALSE
    CancelUnderLock = FALSE
INVARIANTS ScanFresh BlockExcludes NoLostWakeup
CHECK_DEADLOCK FALSE
