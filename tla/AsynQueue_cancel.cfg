SPECIFICATION Spec
CONSTANTS
    u1 = u1
    u2 = u2
    u3 = u3
    d1 = d1
    port = port
    c1 = c1
    c2 = c2
    Port = port
    PortThread = portThread
    TimerThread = timerThread
    Null = null
    InitDev <- MCInitDev
    Users = {u1, u2}
    Devices = {d1}
    Clients = {c1, c2}
    HasTimeout = {u1}
    AutoConnect = {port, d1}
    InitConnected = {port, d1}
    Priorities = {2, 3}
    MaxBlock = 0
    Togglable = {port}
    Linkable = {}
    Lockers = {c2}
    Cancellers = {c1, c2}
    Rebindable = {u1}
    EvenIf = {}
    FreeUse = FALSE
    FreeRebind = FALSE
    CancelUnderLock = FALSE
INVARIANTS CallbackState CancelHandshake
CHECK_DEADLOCK FALSE
