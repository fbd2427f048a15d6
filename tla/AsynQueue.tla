----------------------------- MODULE AsynQueue -----------------------------
(***************************************************************************)
(* The request queue of one asynManager port registered with               *)
(* ASYN_CANBLOCK (asyn/asynDriver/asynManager.c): queueRequest,            *)
(* cancelRequest, the queue timeouts, blockProcessCallback, lockPort, the  *)
(* connect / enable state of the port and its devices, and the port thread *)
(* that serves the queues.                                                 *)
(*                                                                         *)
(* Every section of the code between taking and releasing asynManagerLock  *)
(* is one atomic action, except in the port thread: it holds the lock over *)
(* several actions (variable mgr), so that the flags other threads write   *)
(* WITHOUT the lock (dpCommon.connected) can change under its feet.        *)
(*                                                                         *)
(* An actor is a client thread, the port thread while it is inside a       *)
(* callback, or the epicsTimer thread while it is inside a timeoutUser     *)
(* callback: callbacks may call asynManager again.                         *)
(***************************************************************************)
EXTENDS Integers, Sequences, SequencesExt

CONSTANTS
    Users,          \* the asynUsers
    Devices,        \* the addresses of the port that have a device structure
    Port,           \* the port's own dpCommon
    Clients,        \* threads that call asynManager from outside a callback
    PortThread,
    TimerThread,    \* the thread of pasynBase->timerQueue
    Null,           \* the null pointer
    InitDev,        \* the device or port each asynUser is connected to
    InitConnected,  \* what is connected when the clients start
    HasTimeout,     \* asynUsers created with a timeoutUser callback
    AutoConnect     \* devices and port whose dpCommon.autoConnect is set

(***************************************************************************)
(* The environment: which operations the actors may issue.                 *)
(***************************************************************************)
CONSTANTS
    Priorities,     \* the priorities requests are queued with
    MaxBlock,       \* bound on blockPortCount and blockDeviceCount
    Togglable,      \* devices and port that enable() is called on
    Linkable,       \* devices and port whose driver (dis)connects by itself
    Lockers,        \* clients that call lockPort / unlockPort
    Cancellers,     \* clients that call cancelRequest
    Rebindable,     \* asynUsers that are disconnected and connected again
    EvenIf,         \* asynUsers whose reason is
                    \* ASYN_REASON_QUEUE_EVEN_IF_NOT_CONNECTED
    FreeUse,        \* TRUE: an asynUser may be queued and canceled by anyone
                    \* while an earlier request, callback or cancelRequest
                    \* of it is in progress
    FreeRebind,     \* TRUE: disconnect is called while a callback is active
    CancelUnderLock \* TRUE: cancelRequest is called between lockPort and
                    \* unlockPort

DPs == Devices \union {Port}
Actors == Clients \union {PortThread, TimerThread}

(***************************************************************************)
(* asynQueuePriority                                                       *)
(***************************************************************************)
Low == 0
High == 2
Connect == 3
AllPriorities == Low..Connect

ASSUME NamesAssumption ==
    /\ Port \notin Devices
    /\ Null \notin DPs
    /\ Null \notin Users
    /\ Null \notin Actors
    /\ PortThread \notin Clients
    /\ TimerThread \notin Clients
    /\ PortThread # TimerThread

ASSUME EnvironmentAssumption ==
    /\ InitDev \in [Users -> DPs]
    /\ InitConnected \subseteq DPs
    /\ HasTimeout \subseteq Users
    /\ AutoConnect \subseteq DPs
    /\ Priorities \subseteq AllPriorities
    /\ MaxBlock \in Nat
    /\ Togglable \subseteq DPs
    /\ Linkable \subseteq DPs
    /\ Lockers \subseteq Clients
    /\ Cancellers \subseteq Clients
    /\ Rebindable \subseteq Users
    /\ EvenIf \subseteq Users
    /\ FreeUse \in BOOLEAN
    /\ FreeRebind \in BOOLEAN
    /\ CancelUnderLock \in BOOLEAN

VARIABLES
    \* struct port
    queueList,          \* one list of asynUsers per priority
    queueStateChange,
    notifyPortThread,   \* the event: TRUE when signalled and not yet taken
    portHolder,         \* pport->pblockProcessHolder
    \* struct dpCommon of the port and of each device
    enabled,
    connected,
    devHolder,          \* pdpCommon->pblockProcessHolder
    \* struct userPvt
    isQueued,
    state,              \* callbackIdle, callbackActive, callbackCanceled
    timed,              \* puserPvt->timeout > 0.0
    timer,              \* the timer is pending
    callbackDone,       \* the event
    blockPortCount,
    blockDeviceCount,
    dev,                \* pport/pdevice of the asynUser
    \* locks
    mgr,                \* the port thread holds asynManagerLock
    syncLock,           \* holder of synchronousLock (Null when free)
    \* the port thread
    pc,
    puserPvt,           \* the asynUser it looks at or serves
    pdpCommon,          \* the dpCommon of that asynUser
    fromConnect,        \* puserPvt came from the Connect queue
    callTimeoutUser,
    target,             \* what connectAttempt is connecting
    \* the timer thread
    tt,
    ttUser,
    \* the operation each actor is in the middle of
    step,
    arg

queueVars  == <<queueList, isQueued>>
eventVars  == <<queueStateChange, notifyPortThread>>
dpVars     == <<enabled, connected>>
portVars   == <<queueVars, eventVars, dpVars>>
blockVars  == <<portHolder, devHolder, blockPortCount, blockDeviceCount>>
timerVars  == <<timed, timer>>
cancelVars == <<state, callbackDone>>
userVars   == <<blockVars, timerVars, cancelVars, dev>>
lockVars   == <<mgr, syncLock>>
ptRegs     == <<puserPvt, pdpCommon, fromConnect, callTimeoutUser, target>>
ptVars     == <<pc, ptRegs>>
ttVars     == <<tt, ttUser>>
threadVars == <<ptVars, ttVars>>
opVars     == <<step, arg>>
vars == <<portVars, userVars, lockVars, threadVars, opVars>>

-----------------------------------------------------------------------------
(***************************************************************************)
(* The lists (ellLib).                                                     *)
(***************************************************************************)
Position(q, u) == CHOOSE i \in DOMAIN q : q[i] = u
Holds(q, u) == \E i \in DOMAIN q : q[i] = u
ellDelete(q, u) == RemoveAt(q, Position(q, u))

Dequeue(p, u) ==
    /\ queueList' = [queueList EXCEPT ![p] = ellDelete(@, u)]
    /\ isQueued' = [isQueued EXCEPT ![u] = FALSE]

\* the search over all priorities in cancelRequest and queueTimeoutCallback
Unqueue(u) == \E p \in AllPriorities : Holds(queueList[p], u) /\ Dequeue(p, u)

\* the first asynUser of the first non-empty list at or below priority p
FirstFrom(p) ==
    LET nonEmpty == {k \in Low..p : queueList[k] # <<>>}
    IN  IF nonEmpty = {} THEN Null
        ELSE Head(queueList[CHOOSE k \in nonEmpty : \A j \in nonEmpty : j <= k])

\* the asynUser the scan of the queues visits after u
Successor(u) ==
    LET p == CHOOSE k \in AllPriorities : Holds(queueList[k], u)
        i == Position(queueList[p], u)
    IN  IF i < Len(queueList[p]) THEN queueList[p][i + 1] ELSE FirstFrom(p - 1)

NotBlockedOnDevice(u, d) == devHolder[d] \in {Null, u}    \* mutant
NotBlocked(u, d) ==
    /\ portHolder \in {Null, u}
    /\ devHolder[d] \in {Null, u}

-----------------------------------------------------------------------------
(***************************************************************************)
(* Operations of the asynManager interface.                                *)
(***************************************************************************)
\* the actor is between two calls: outside any, or inside a callback
Ready(a) ==
    /\ step[a] = "none"
    /\ \/ a \in Clients
       \/ a = PortThread /\ pc = "call"
       \/ a = TimerThread /\ tt = "call"

Begin(a, k, u) ==
    /\ step' = [step EXCEPT ![a] = k]
    /\ arg' = [arg EXCEPT ![a] = u]

InOwnCallback(a, u) == a = PortThread /\ pc = "call" /\ puserPvt = u

\* what callers do to have at most one request and callback of an asynUser
MayQueue(a, u, timeout) ==
    \/ FreeUse
    \/ state[u] = "idle" /\ \A b \in Actors : arg[b] = u => step[b] = "signal"
    \/ InOwnCallback(a, u) /\ ~timeout

CheckPortConnect(u, p) == ~(p = Connect /\ (dev[u] = Port \/ u \in EvenIf))

Accepted(u, p, timeout) ==
    /\ enabled[Port]
    /\ CheckPortConnect(u, p) => connected[Port]
    /\ ~isQueued[u]
    /\ timeout => u \in HasTimeout

\* a blocking asynUser goes before the others
AddToFrontAlways(u) == TRUE     \* mutant
AddToFront(u) == /\ blockPortCount[u] > 0 \/ blockDeviceCount[u] > 0
                 /\ portHolder = u \/ devHolder[dev[u]] = u

SetTimeout(u, timeout) ==
    /\ timed' = [timed EXCEPT ![u] = timeout]
    /\ timer' = [timer EXCEPT ![u] = @ \/ timeout]

queueRequest(a, u, p, timeout) ==
    /\ Ready(a)
    /\ MayQueue(a, u, timeout)
    /\ dev[u] # Null
    /\ ~mgr
    /\ Accepted(u, p, timeout)
    /\ queueList' = [queueList EXCEPT ![p] =
                        IF AddToFront(u) THEN <<u>> \o @ ELSE Append(@, u)]
    /\ queueStateChange' = TRUE
    /\ isQueued' = [isQueued EXCEPT ![u] = TRUE]
    /\ SetTimeout(u, timeout)
    /\ Begin(a, "signal", u)
    /\ UNCHANGED <<notifyPortThread, dpVars, blockVars, cancelVars, dev,
                   lockVars, threadVars>>

MayCancel(a, u) ==
    /\ a \in Cancellers
    /\ CancelUnderLock \/ syncLock # a
    /\ FreeUse \/ \A b \in Actors : arg[b] = u => step[b] # "waitDone"

\* cancelRequest of a queued asynUser: off the queue, timer stopped later
cancelQueued(a, u) ==
    /\ Ready(a)
    /\ MayCancel(a, u)
    /\ dev[u] # Null
    /\ ~mgr
    /\ isQueued[u]
    /\ Unqueue(u)
    /\ queueStateChange' = TRUE
    /\ Begin(a, IF timed[u] THEN "stopTimer" ELSE "signal", u)
    /\ UNCHANGED <<notifyPortThread, dpVars, userVars, lockVars, threadVars>>

\* cancelRequest while the callback is active: wait for callbackDone
cancelActive(a, u) ==
    /\ Ready(a)
    /\ MayCancel(a, u)
    /\ dev[u] # Null
    /\ ~mgr
    /\ ~isQueued[u]
    /\ state[u] = "active"
    /\ state' = [state EXCEPT ![u] = "canceled"]
    /\ Begin(a, "waitDone", u)
    /\ UNCHANGED <<portVars, blockVars, timerVars, callbackDone, dev,
                   lockVars, threadVars>>

blockProcessCallback(a, u, allDevices) ==
    /\ Ready(a)
    /\ dev[u] # Null
    /\ ~mgr
    /\ ~isQueued[u]
    /\ IF allDevices
       THEN /\ blockPortCount[u] < MaxBlock
            /\ blockPortCount' = [blockPortCount EXCEPT ![u] = @ + 1]
            /\ UNCHANGED blockDeviceCount
       ELSE /\ blockDeviceCount[u] < MaxBlock
            /\ blockDeviceCount' = [blockDeviceCount EXCEPT ![u] = @ + 1]
            /\ UNCHANGED blockPortCount
    /\ UNCHANGED <<portVars, portHolder, devHolder, timerVars, cancelVars,
                   dev, lockVars, threadVars, opVars>>

MayUnblock(count) == count > 0

\* at the last unblockProcessCallback of the asynUser that blocks the port;
\* the mutant does not signal the port thread
DropPortHolderSilently(a, u) ==
    /\ portHolder' = IF blockPortCount[u] = 1 /\ portHolder = u
                     THEN Null ELSE portHolder
    /\ UNCHANGED opVars
DropPortHolder(a, u) ==
    IF blockPortCount[u] = 1 /\ portHolder = u
    THEN portHolder' = Null /\ Begin(a, "signal", u)
    ELSE UNCHANGED <<portHolder, opVars>>

unblockPort(a, u) ==
    /\ Ready(a)
    /\ dev[u] # Null
    /\ ~mgr
    /\ ~isQueued[u]
    /\ MayUnblock(blockPortCount[u])
    /\ blockPortCount' = [blockPortCount EXCEPT ![u] = @ - 1]
    /\ DropPortHolder(a, u)
    /\ UNCHANGED <<portVars, devHolder, blockDeviceCount, timerVars,
                   cancelVars, dev, lockVars, threadVars>>

unblockDevice(a, u) ==
    /\ Ready(a)
    /\ dev[u] # Null
    /\ ~mgr
    /\ ~isQueued[u]
    /\ MayUnblock(blockDeviceCount[u])
    /\ blockDeviceCount' = [blockDeviceCount EXCEPT ![u] = @ - 1]
    /\ IF blockDeviceCount[u] = 1 /\ devHolder[dev[u]] = u
       THEN /\ devHolder' = [devHolder EXCEPT ![dev[u]] = Null]
            /\ Begin(a, "signal", u)
       ELSE UNCHANGED <<devHolder, opVars>>
    /\ UNCHANGED <<portVars, portHolder, blockPortCount, timerVars,
                   cancelVars, dev, lockVars, threadVars>>

lockPort(a) ==
    /\ Ready(a)
    /\ a \in Lockers
    /\ syncLock = Null
    /\ syncLock' = a
    /\ UNCHANGED <<portVars, userVars, mgr, threadVars, opVars>>

unlockPort(a) ==
    /\ Ready(a)
    /\ syncLock = a
    /\ a \in Lockers
    /\ syncLock' = Null
    /\ UNCHANGED <<portVars, userVars, mgr, threadVars, opVars>>

\* written without asynManagerLock, then announceExceptionOccurred
exceptionConnect(a, d) ==
    /\ Ready(a)
    /\ d \in Linkable
    /\ ~connected[d]
    /\ connected' = [connected EXCEPT ![d] = TRUE]
    /\ Begin(a, "announce", Null)
    /\ UNCHANGED <<queueVars, eventVars, enabled, userVars, lockVars,
                   threadVars>>

exceptionDisconnect(a, d) ==
    /\ Ready(a)
    /\ d \in Linkable
    /\ connected[d]
    /\ connected' = [connected EXCEPT ![d] = FALSE]
    /\ Begin(a, "announce", Null)
    /\ UNCHANGED <<queueVars, eventVars, enabled, userVars, lockVars,
                   threadVars>>

enable(a, d, yesNo) ==
    /\ Ready(a)
    /\ d \in Togglable
    /\ ~mgr
    /\ enabled' = [enabled EXCEPT ![d] = yesNo]
    /\ Begin(a, "announce", Null)
    /\ UNCHANGED <<queueVars, eventVars, connected, userVars, lockVars,
                   threadVars>>

connectDevice(a, u, d) ==
    /\ Ready(a)
    /\ u \in Rebindable
    /\ ~mgr
    /\ dev[u] = Null
    /\ dev' = [dev EXCEPT ![u] = d]
    /\ UNCHANGED <<portVars, blockVars, timerVars, cancelVars, lockVars,
                   threadVars, opVars>>

disconnect(a, u) ==
    /\ Ready(a)
    /\ u \in Rebindable
    /\ FreeRebind \/ (state[u] = "idle" /\ \A b \in Actors : arg[b] # u)
    /\ ~mgr
    /\ dev[u] # Null
    /\ ~isQueued[u]
    /\ blockPortCount[u] = 0 /\ blockDeviceCount[u] = 0
    /\ dev' = [dev EXCEPT ![u] = Null]
    /\ UNCHANGED <<portVars, blockVars, timerVars, cancelVars, lockVars,
                   threadVars, opVars>>

-----------------------------------------------------------------------------
(***************************************************************************)
(* The rest of an operation, after the lock is released.                   *)
(***************************************************************************)
\* the section of announceExceptionOccurred after the callbacks
Announce(a) ==
    /\ step[a] = "announce"
    /\ ~mgr
    /\ queueStateChange' = TRUE
    /\ step' = [step EXCEPT ![a] = "signal"]
    /\ UNCHANGED <<queueVars, notifyPortThread, dpVars, userVars, lockVars,
                   threadVars, arg>>

\* epicsEventSignal(pport->notifyPortThread)
Signal(a) ==
    /\ step[a] = "signal"
    /\ notifyPortThread' = TRUE
    /\ Begin(a, "none", Null)
    /\ UNCHANGED <<queueVars, queueStateChange, dpVars, userVars, lockVars,
                   threadVars>>

\* epicsTimerCancel waits for a running expire callback of a timer that is
\* not pending again, unless it is called by the timer thread
MayStopTimer(a, u) ==
    a = TimerThread \/ timer[u] \/ ~(tt # "idle" /\ ttUser = u)

StopTimer(a) ==
    /\ step[a] = "stopTimer"
    /\ MayStopTimer(a, arg[a])
    /\ timer' = [timer EXCEPT ![arg[a]] = FALSE]
    /\ step' = [step EXCEPT ![a] = "signal"]
    /\ UNCHANGED <<portVars, blockVars, timed, cancelVars, dev, lockVars,
                   threadVars, arg>>

\* epicsEventMustWait(puserPvt->callbackDone)
WaitDone(a) ==
    /\ step[a] = "waitDone"
    /\ callbackDone[arg[a]]
    /\ callbackDone' = [callbackDone EXCEPT ![arg[a]] = FALSE]
    /\ Begin(a, "none", Null)
    /\ UNCHANGED <<portVars, blockVars, timerVars, state, dev, lockVars,
                   threadVars>>

-----------------------------------------------------------------------------
(***************************************************************************)
(* The timer thread: queueTimeoutCallback.                                 *)
(***************************************************************************)
Expire(u) ==
    /\ tt = "idle" /\ step[TimerThread] = "none"
    /\ timer[u]
    /\ timer' = [timer EXCEPT ![u] = FALSE]
    /\ tt' = "fired"
    /\ ttUser' = u
    /\ UNCHANGED <<portVars, blockVars, timed, cancelVars, dev, lockVars,
                   ptVars, opVars>>

\* the request was taken off its queue before the timer thread got the lock
TimeoutTooLate ==
    /\ tt = "fired"
    /\ ~mgr
    /\ ~isQueued[ttUser]
    /\ tt' = "idle"
    /\ ttUser' = Null
    /\ UNCHANGED <<portVars, userVars, lockVars, ptVars, opVars>>

Timeout ==
    /\ tt = "fired"
    /\ ~mgr
    /\ isQueued[ttUser]
    /\ Unqueue(ttUser)
    /\ queueStateChange' = TRUE
    /\ state' = [state EXCEPT ![ttUser] = "active"]
    /\ tt' = "call"
    /\ UNCHANGED <<notifyPortThread, dpVars, blockVars, timerVars,
                   callbackDone, dev, lockVars, ptVars, ttUser, opVars>>

\* the end of a callback of u, under asynManagerLock
CallbackDoneAlways(u) ==    \* mutant: signals whether or not canceled
    /\ callbackDone' = [callbackDone EXCEPT ![u] = TRUE]
    /\ state' = [state EXCEPT ![u] = "idle"]
CallbackDoneSilently(u) ==  \* mutant: does not signal
    /\ state' = [state EXCEPT ![u] = "idle"]
    /\ UNCHANGED callbackDone
CallbackDone(u) ==
    /\ callbackDone' = [callbackDone EXCEPT ![u] = @ \/ state[u] = "canceled"]
    /\ state' = [state EXCEPT ![u] = "idle"]

TimeoutReturn ==
    /\ tt = "call" /\ step[TimerThread] = "none"
    /\ ~mgr
    /\ CallbackDone(ttUser)
    /\ tt' = "idle"
    /\ ttUser' = Null
    /\ Begin(TimerThread, "signal", Null)
    /\ UNCHANGED <<portVars, blockVars, timerVars, dev, lockVars, ptVars>>

-----------------------------------------------------------------------------
(***************************************************************************)
(* The port thread.  pc names the place where it stands:                   *)
(*   wait       in epicsEventMustWait(notifyPortThread)                    *)
(*   lock       about to take asynManagerLock and to test port enabled     *)
(*   drain      lock held: the loop over the Connect queue                 *)
(*   portAuto,  lock held: autoConnectDevice, its part for the port and    *)
(*   devAuto      its part for the device                                  *)
(*   attempt,   lock released: connectAttempt, before and after the call   *)
(*   attempted    of asynCommon->connect                                   *)
(*   scanStart  lock held: the top of the inner while(1)                   *)
(*   visit,     lock held: the scan at puserPvt, before and after the      *)
(*   recheck,     connect attempt, and at the test for blocking            *)
(*   test                                                                  *)
(*   release    lock held: about to release it and to wait                 *)
(*   stopTimer, lock released: puserPvt is off its queue and is served     *)
(*   lockSync,                                                             *)
(*   call, done                                                            *)
(***************************************************************************)
\* one step of the thread that changes nothing else
Goto(place) ==
    /\ pc' = place
    /\ UNCHANGED <<portVars, userVars, lockVars, ptRegs, ttVars, opVars>>

Wake ==
    /\ pc = "wait"
    /\ notifyPortThread
    /\ notifyPortThread' = FALSE
    /\ pc' = "lock"
    /\ UNCHANGED <<queueVars, queueStateChange, dpVars, userVars, lockVars,
                   ptRegs, ttVars, opVars>>

Lock ==
    /\ pc = "lock"
    /\ mgr' = enabled[Port]
    /\ pc' = IF enabled[Port] THEN "drain" ELSE "wait"
    /\ UNCHANGED <<portVars, userVars, syncLock, ptRegs, ttVars, opVars>>

\* puserPvt leaves its queue and its callback becomes active
Serve(p, u) ==
    /\ Dequeue(p, u)
    /\ puserPvt' = u
    /\ state' = [state EXCEPT ![u] = "active"]
    /\ mgr' = FALSE
    /\ pc' = "stopTimer"

DrainOne ==
    /\ pc = "drain"
    /\ queueList[Connect] # <<>>
    /\ Serve(Connect, Head(queueList[Connect]))
    /\ fromConnect' = TRUE
    /\ UNCHANGED <<eventVars, dpVars, blockVars, timerVars, callbackDone,
                   dev, syncLock, pdpCommon, callTimeoutUser, target, ttVars,
                   opVars>>

DrainDone ==
    /\ pc = "drain"
    /\ queueList[Connect] = <<>>
    /\ Goto(IF connected[Port] THEN "scanStart" ELSE "portAuto")

-----------------------------------------------------------------------------
Scanning == puserPvt # Null

\* where the port thread goes on when autoConnectDevice returns
AfterAuto(ok) ==
    IF Scanning THEN "recheck" ELSE IF ok THEN "scanStart" ELSE "release"

\* where it goes on once the part of autoConnectDevice for the port is over
AfterPortAuto(ok) ==
    IF ok /\ Scanning /\ pdpCommon # Port THEN "devAuto" ELSE AfterAuto(ok)

\* the port needs no attempt, may not be tried, or was tried less than two
\* seconds ago
PortAutoSkip ==
    /\ pc = "portAuto"
    /\ Goto(AfterPortAuto(connected[Port]))

DevAutoSkip ==
    /\ pc = "devAuto"
    /\ Goto(AfterAuto(connected[pdpCommon]))

AutoConnectDevice ==
    /\ \/ pc = "portAuto" /\ target' = Port
       \/ pc = "devAuto" /\ target' = pdpCommon
    /\ ~connected[target']
    /\ target' \in AutoConnect
    /\ mgr' = FALSE
    /\ pc' = "attempt"
    /\ UNCHANGED <<portVars, userVars, syncLock, puserPvt, pdpCommon,
                   fromConnect, callTimeoutUser, ttVars, opVars>>

\* asynCommon->connect under synchronousLock; a driver that succeeds calls
\* exceptionConnect from within
ConnectAttempt(success) ==
    /\ pc = "attempt"
    /\ ~connected[target]
    /\ syncLock = Null
    /\ syncLock' = PortThread
    /\ pc' = "attempted"
    /\ connected' = [connected EXCEPT ![target] = success]
    /\ IF success THEN Begin(PortThread, "announce", Null) ELSE UNCHANGED opVars
    /\ UNCHANGED <<queueVars, eventVars, enabled, userVars, mgr, ptRegs,
                   ttVars>>

AlreadyConnected ==
    /\ pc = "attempt"
    /\ connected[target]
    /\ Goto("attempted")

Attempted ==
    /\ pc = "attempted" /\ step[PortThread] = "none"
    /\ syncLock' = IF syncLock = PortThread THEN Null ELSE syncLock
    /\ mgr' = TRUE
    /\ pc' = IF target = Port THEN AfterPortAuto(connected[Port])
                              ELSE AfterAuto(connected[target])
    /\ UNCHANGED <<portVars, userVars, ptRegs, ttVars, opVars>>

-----------------------------------------------------------------------------
\* go to asynUser u of the scan, or leave the scan when there is none
Visit(u) ==
    /\ puserPvt' = u
    /\ pdpCommon' = IF u = Null THEN Null ELSE dev[u]
    /\ pc' = IF u = Null THEN "release" ELSE "visit"

ScanStart ==
    /\ pc = "scanStart"
    /\ callTimeoutUser' = FALSE
    /\ queueStateChange' = FALSE
    /\ Visit(FirstFrom(High))
    /\ UNCHANGED <<queueVars, notifyPortThread, dpVars, userVars, lockVars,
                   fromConnect, target, ttVars, opVars>>

VisitDisabled ==
    /\ pc = "visit"
    /\ ~enabled[pdpCommon]
    /\ Visit(Successor(puserPvt))
    /\ UNCHANGED <<portVars, userVars, lockVars, fromConnect,
                   callTimeoutUser, target, ttVars, opVars>>

VisitEnabled ==
    /\ pc = "visit"
    /\ enabled[pdpCommon]
    /\ Goto(IF connected[pdpCommon] THEN "test" ELSE "portAuto")

\* the lists may have changed while the lock was released
RecheckNothing ==   \* mutant
    /\ pc = "recheck"
    /\ Goto("test")
Recheck ==
    /\ pc = "recheck"
    /\ IF queueStateChange
       THEN puserPvt' = Null /\ pc' = "release"
       ELSE pc' = "test" /\ UNCHANGED puserPvt
    /\ UNCHANGED <<portVars, userVars, lockVars, pdpCommon, fromConnect,
                   callTimeoutUser, target, ttVars, opVars>>

WantsTimeoutUser == ~connected[pdpCommon] /\ puserPvt \in HasTimeout

TestBlocked ==
    /\ pc = "test"
    /\ ~NotBlocked(puserPvt, pdpCommon)
    /\ callTimeoutUser' = (callTimeoutUser \/ WantsTimeoutUser)
    /\ Visit(Successor(puserPvt))
    /\ UNCHANGED <<portVars, userVars, lockVars, fromConnect, target, ttVars,
                   opVars>>

TestServe ==
    /\ pc = "test"
    /\ NotBlocked(puserPvt, pdpCommon)
    /\ callTimeoutUser' = (callTimeoutUser \/ WantsTimeoutUser)
    /\ \E p \in Low..High :
          Holds(queueList[p], puserPvt) /\ Serve(p, puserPvt)
    /\ fromConnect' = FALSE
    /\ UNCHANGED <<eventVars, dpVars, blockVars, timerVars, callbackDone,
                   dev, syncLock, pdpCommon, target, ttVars, opVars>>

Release ==
    /\ pc = "release"
    /\ mgr' = FALSE
    /\ pc' = "wait"
    /\ UNCHANGED <<portVars, userVars, syncLock, ptRegs, ttVars, opVars>>

-----------------------------------------------------------------------------
StopsNoTimer(u) == UNCHANGED timer   \* mutant
StopsTimer(u) ==
    /\ timed[u] => MayStopTimer(PortThread, u)
    /\ timer' = [timer EXCEPT ![u] = @ /\ ~timed[u]]

ServeStopTimer ==
    /\ pc = "stopTimer"
    /\ StopsTimer(puserPvt)
    /\ pc' = "lockSync"
    /\ UNCHANGED <<portVars, blockVars, timed, cancelVars, dev, lockVars,
                   ptRegs, ttVars, opVars>>

ServeLockSync ==
    /\ pc = "lockSync"
    /\ syncLock = Null
    /\ syncLock' = PortThread
    /\ pc' = "call"
    /\ UNCHANGED <<portVars, userVars, mgr, ptRegs, ttVars, opVars>>

\* processUser or timeoutUser returns
CallReturn ==
    /\ pc = "call" /\ step[PortThread] = "none"
    /\ syncLock' = Null
    /\ pc' = "done"
    /\ UNCHANGED <<portVars, userVars, mgr, ptRegs, ttVars, opVars>>

DoneConnect ==
    /\ pc = "done" /\ fromConnect
    /\ mgr' = TRUE
    /\ CallbackDone(puserPvt)
    /\ puserPvt' = Null
    /\ pc' = "drain"
    /\ UNCHANGED <<portVars, blockVars, timerVars, dev, syncLock, pdpCommon,
                   fromConnect, callTimeoutUser, target, ttVars, opVars>>

\* a change of the queues ends the scan, and Connect requests come first
AfterDone == IF queueStateChange THEN "release" ELSE "scanStart"

Done ==
    /\ pc = "done" /\ ~fromConnect
    /\ mgr' = TRUE
    /\ portHolder' = IF blockPortCount[puserPvt] > 0 THEN puserPvt ELSE portHolder
    /\ devHolder' = [devHolder EXCEPT ![pdpCommon] =
                        IF blockDeviceCount[puserPvt] > 0 THEN puserPvt ELSE @]
    /\ CallbackDone(puserPvt)
    /\ puserPvt' = Null
    /\ pc' = AfterDone
    /\ UNCHANGED <<portVars, blockPortCount, blockDeviceCount, timerVars,
                   dev, syncLock, pdpCommon, fromConnect, callTimeoutUser,
                   target, ttVars, opVars>>

-----------------------------------------------------------------------------
Init ==
    /\ queueList = [p \in AllPriorities |-> <<>>]
    /\ queueStateChange = FALSE
    /\ notifyPortThread = FALSE
    /\ portHolder = Null
    /\ enabled = [d \in DPs |-> TRUE]
    /\ connected = [d \in DPs |-> d \in InitConnected]
    /\ devHolder = [d \in DPs |-> Null]
    /\ isQueued = [u \in Users |-> FALSE]
    /\ state = [u \in Users |-> "idle"]
    /\ timed = [u \in Users |-> FALSE]
    /\ timer = [u \in Users |-> FALSE]
    /\ callbackDone = [u \in Users |-> FALSE]
    /\ blockPortCount = [u \in Users |-> 0]
    /\ blockDeviceCount = [u \in Users |-> 0]
    /\ dev = InitDev
    /\ mgr = FALSE
    /\ syncLock = Null
    /\ pc = "wait"
    /\ puserPvt = Null
    /\ pdpCommon = Null
    /\ fromConnect = FALSE
    /\ callTimeoutUser = FALSE
    /\ target = Port
    /\ tt = "idle"
    /\ ttUser = Null
    /\ step = [a \in Actors |-> "none"]
    /\ arg = [a \in Actors |-> Null]

\* an operation of the interface begins
Operation(a) ==
    \/ \E u \in Users :
          \/ \E p \in Priorities, t \in BOOLEAN : queueRequest(a, u, p, t)
          \/ cancelQueued(a, u)
          \/ cancelActive(a, u)
          \/ \E all \in BOOLEAN : blockProcessCallback(a, u, all)
          \/ unblockPort(a, u)
          \/ unblockDevice(a, u)
          \/ \E d \in DPs : connectDevice(a, u, d)
          \/ disconnect(a, u)
    \/ lockPort(a)
    \/ unlockPort(a)
    \/ \E d \in DPs : \/ exceptionConnect(a, d)
                      \/ exceptionDisconnect(a, d)
                      \/ \E yesNo \in BOOLEAN : enable(a, d, yesNo)

\* an operation that has begun goes on
Proceed(a) == Announce(a) \/ Signal(a) \/ StopTimer(a) \/ WaitDone(a)

TimerStep == (\E u \in Users : Expire(u)) \/ TimeoutTooLate \/ Timeout
             \/ TimeoutReturn

PortStep ==
    \/ Wake \/ Lock \/ DrainOne \/ DrainDone
    \/ PortAutoSkip \/ DevAutoSkip \/ AutoConnectDevice
    \/ (\E success \in BOOLEAN : ConnectAttempt(success))
    \/ AlreadyConnected \/ Attempted
    \/ ScanStart \/ VisitDisabled \/ VisitEnabled \/ Recheck
    \/ TestBlocked \/ TestServe \/ Release
    \/ ServeStopTimer \/ ServeLockSync \/ CallReturn \/ DoneConnect \/ Done

Next ==
    \/ \E a \in Actors : Operation(a) \/ Proceed(a)
    \/ TimerStep
    \/ PortStep

Spec == Init /\ [][Next]_vars

(***************************************************************************)
(* Fairness: threads run, a mutex that is free again and again is granted  *)
(* in the end, callbacks return, a thread that called lockPort calls       *)
(* unlockPort, and a pending timer expires (the timer queue is sorted by   *)
(* time).  Nothing forces a client to issue an operation.                  *)
(***************************************************************************)
Fairness ==
    /\ WF_vars(PortStep) /\ SF_vars(ServeLockSync)
    /\ SF_vars(\E success \in BOOLEAN : ConnectAttempt(success))
    /\ SF_vars(CallReturn) /\ SF_vars(TimeoutReturn)
    /\ SF_vars(TimeoutTooLate \/ Timeout)
    /\ \A u \in Users : SF_vars(Expire(u))
    /\ \A a \in Actors : SF_vars(Proceed(a)) /\ WF_vars(unlockPort(a))

FairSpec == Spec /\ Fairness

-----------------------------------------------------------------------------
(***************************************************************************)
(* Properties.                                                             *)
(***************************************************************************)
PtPlaces == {"wait", "lock", "drain", "portAuto", "devAuto", "attempt",
             "attempted", "scanStart", "visit", "recheck", "test", "release",
             "stopTimer", "lockSync", "call", "done"}
Serving == pc \in {"stopTimer", "lockSync", "call", "done"}

\* Every variable of the port, its users and its threads has its type.
TypeOK ==
    /\ queueList \in [AllPriorities -> Seq(Users)]
    /\ queueStateChange \in BOOLEAN
    /\ notifyPortThread \in BOOLEAN
    /\ portHolder \in Users \union {Null}
    /\ enabled \in [DPs -> BOOLEAN]
    /\ connected \in [DPs -> BOOLEAN]
    /\ devHolder \in [DPs -> Users \union {Null}]
    /\ isQueued \in [Users -> BOOLEAN]
    /\ state \in [Users -> {"idle", "active", "canceled"}]
    /\ timed \in [Users -> BOOLEAN]
    /\ timer \in [Users -> BOOLEAN]
    /\ callbackDone \in [Users -> BOOLEAN]
    /\ blockPortCount \in [Users -> 0..MaxBlock]
    /\ blockDeviceCount \in [Users -> 0..MaxBlock]
    /\ dev \in [Users -> DPs \union {Null}]
    /\ mgr \in BOOLEAN
    /\ syncLock \in Actors \union {Null}
    /\ pc \in PtPlaces
    /\ puserPvt \in Users \union {Null}
    /\ pdpCommon \in DPs \union {Null}
    /\ fromConnect \in BOOLEAN
    /\ callTimeoutUser \in BOOLEAN
    /\ target \in DPs
    /\ tt \in {"idle", "fired", "call"}
    /\ ttUser \in Users \union {Null}
    /\ step \in [Actors -> {"none", "announce", "signal", "stopTimer", "waitDone"}]
    /\ arg \in [Actors -> Users \union {Null}]

\* isQueued says exactly whether the asynUser is on a list, and it is on at
\* most one list, once (queueRequest, cancelRequest, queueTimeoutCallback and
\* the port thread all keep both).
QueueOK ==
    /\ \A u \in Users :
          isQueued[u] <=> \E p \in AllPriorities : Holds(queueList[p], u)
    /\ \A p, q \in AllPriorities :
          \A i \in DOMAIN queueList[p], j \in DOMAIN queueList[q] :
             queueList[p][i] = queueList[q][j] => p = q /\ i = j

\* The pointers the scan of the port thread holds are never stale when it uses
\* them, although it drops asynManagerLock in autoConnectDevice:
\* assert(puserPvt->isQueued), and pdpCommon is still that asynUser's.
ScanFresh ==
    pc \in {"visit", "test"} =>
       /\ isQueued[puserPvt]
       /\ ~Holds(queueList[Connect], puserPvt)
       /\ pdpCommon = dev[puserPvt]

PtServes(u) == Serving /\ puserPvt = u
TtServes(u) == tt = "call" /\ ttUser = u

\* puserPvt->state tells whether a callback of the asynUser is pending or
\* active, and its process and timeout callbacks never overlap.
CallbackState ==
    \A u \in Users : /\ state[u] # "idle" <=> PtServes(u) \/ TtServes(u)
                     /\ ~(PtServes(u) /\ TtServes(u))

\* Every thread that waits in cancelRequest will be woken by the callback it
\* waits for, and no callbackDone event is left over for a later
\* cancelRequest, which would then return before its callback has completed.
CancelHandshake ==
    \A u \in Users :
       LET waiting == {a \in Actors : step[a] = "waitDone" /\ arg[a] = u}
       IN  /\ \A a, b \in waiting : a = b
           /\ waiting # {} <=> (state[u] = "canceled") \/ callbackDone[u]

\* Between blockProcessCallback and unblockProcessCallback no other asynUser
\* of the port (of the device) is served, Connect requests excepted.
BlockExcludes ==
    Serving /\ ~fromConnect =>
       /\ portHolder # Null => portHolder = puserPvt
       /\ devHolder[pdpCommon] # Null => devHolder[pdpCommon] = puserPvt

Runnable(u) ==
    \/ Holds(queueList[Connect], u)
    \/ /\ isQueued[u] /\ connected[Port] /\ enabled[dev[u]]
       /\ NotBlocked(u, dev[u])

\* The port thread never sleeps on work: when it waits, unsignalled, and
\* nobody is about to signal it, then no request of an enabled port can be
\* served.  (The timer thread sets queueStateChange before it calls
\* timeoutUser and signals after it: until then a scan it has cut short is
\* not resumed.)
NoLostWakeup ==
    /\ pc = "wait" /\ ~notifyPortThread /\ enabled[Port] /\ tt # "call"
    /\ \A a \in Actors : step[a] \in {"none", "waitDone"}
    => \A u \in Users : ~Runnable(u)

\* A cancelRequest that waits for a callback returns.
CancelReturns ==
    \A a \in Clients : step[a] = "waitDone" ~> step[a] # "waitDone"

\* A Connect request of an enabled port is served however many other requests
\* are made.  So is another request of an enabled and connected port that
\* nobody blocks, although requests of its priority keep coming, unless the
\* port thread serves one Connect request after the other for ever: it empties
\* their list before it looks at the others.  A port thread that sleeps over
\* the request is no such excuse.
ServesOnlyConnect ==
    <>[](pc # "scanStart") /\ []<>(pc = "call" /\ fromConnect)

RequestServed ==
    \A u \in Users :
        /\ Holds(queueList[Connect], u) ~> ~Holds(queueList[Connect], u)
        /\ (isQueued[u] ~> ~isQueued[u]) \/ ServesOnlyConnect
=============================================================================
