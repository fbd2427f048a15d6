----------------------------- MODULE AsynConnect -----------------------------
(***************************************************************************)
(* How asynManager keeps a port connected (asyn/asynDriver/asynManager.c): *)
(* the connect timer and its request, autoConnectDevice in the port        *)
(* thread, the first connection when asynCommon is registered, waitConnect *)
(* and the functions that change autoConnect and enable.  The driver is    *)
(* called by whoever has synchronousLock; connected, enabled and           *)
(* autoConnect are read and written without it.                            *)
(*                                                                         *)
(* The port has one address.  Requests of lower priority than Connect are  *)
(* those of module AsynQueue; a client that talks to the device holds the  *)
(* port here.  An exception is announced in one step: AsynNotify has the   *)
(* list of its handlers.                                                   *)
(***************************************************************************)
EXTENDS Integers, Sequences, SequencesExt

CONSTANTS
    Clients,        \* threads
    PortThread, Timer, Registrar,
    MaxCalls,       \* bound: calls of the clients
    MaxOutages      \* bound: how often the device goes or comes back

Threads == Clients \cup {PortThread, Timer, Registrar}

ASSUME ConnectAssumption ==
    /\ Clients \cap {PortThread, Timer, Registrar} = {}
    /\ PortThread # Timer /\ PortThread # Registrar /\ Timer # Registrar

VARIABLES
    canBlock,       \* ASYN_CANBLOCK
    connected, enabled, autoConnect,
    connectTimer,   \* started, and not yet expired
    queue,          \* queueList[asynQueuePriorityConnect]
    notifyPortThread,
    synchronousLock,\* the threads that have it: none or one
    at, job,        \* where each thread is, and what it does there
    listed, event,  \* waitConnect: on exceptionUserList, connectEvent
    result,         \* of waitConnect
    up,             \* the device can be connected to
    seen,           \* history: connected, or not yet announced to be lost, at some
                    \* time since waitConnect was called
    refused,        \* history: the last request of the connect timer was refused
    calls, outages

portVars == <<canBlock, connected, enabled, autoConnect, connectTimer>>
threadVars == <<at, job>>
queueVars == <<queue, notifyPortThread, synchronousLock>>
waitVars == <<listed, event, result, seen>>
boundVars == <<up, calls, outages>>
vars == <<portVars, queueVars, threadVars, waitVars, boundVars, refused>>

-----------------------------------------------------------------------------
\* the requests: of the connect timer, of a client, and those that are no requests
connectUser == <<"connectUser", Timer>>

Requests == {connectUser} \cup {"connect", "disconnect"} \X Clients

Jobs == Requests \cup {"io", "enable", "autoConnect"} \X Clients \cup {<<"attempt", PortThread>>, <<"none", Timer>>}

Go(t, place) == at' = [at EXCEPT ![t] = place]

Begin(t, place, j) == Go(t, place) /\ job' = [job EXCEPT ![t] = j]

Kind(t) == job[t][1]

\* where a thread goes on that has given the port back
Back(t) ==
    CASE t = PortThread -> IF Kind(t) = "attempt" THEN "wait" ELSE "drain"
      [] t = Registrar -> "registered"
      [] OTHER -> "idle"

StartTimer == connectTimer' = TRUE /\ refused' = FALSE

KeepTimer == UNCHANGED <<connectTimer, refused>>

-----------------------------------------------------------------------------
(***************************************************************************)
(* A thread has the port and calls the driver.                             *)
(***************************************************************************)
\* portConnectProcessCallback looks whether the port is connected by now; a
\* client connects or disconnects, or finds that the device is gone
LockPort(t) ==
    /\ at[t] = "call"
    /\ synchronousLock = {}
    /\ synchronousLock' = {t}
    /\ Go(t, CASE Kind(t) = "connectUser" -> IF connected THEN "return" ELSE "connect"
               [] Kind(t) \in {"attempt", "connect"} -> "connect"
               [] Kind(t) = "disconnect" -> IF connected THEN "disconnect" ELSE "return"
               [] Kind(t) = "io" -> IF connected /\ ~up THEN "disconnect" ELSE "return")
    /\ UNCHANGED <<portVars, queue, notifyPortThread, job, waitVars, boundVars, refused>>

\* asynCommon->connect calls exceptionConnect; without a device it fails, and
\* the connect timer is started again if this was its request
exceptionConnect(t) ==
    /\ at[t] = "connect"
    /\ up
    /\ ~connected
    /\ connected' = TRUE
    /\ seen' = (seen \/ at[Registrar] \in {"looks", "adds", "waits"})
    /\ Go(t, "announce")
    /\ UNCHANGED <<canBlock, enabled, autoConnect, connectTimer, queueVars, job,
                   listed, event, result, boundVars, refused>>

\* mutant: the request of the timer was the last
ConnectFails_once(t) ==
    /\ at[t] = "connect"
    /\ ~up \/ connected
    /\ Go(t, "return")
    /\ KeepTimer
    /\ UNCHANGED <<canBlock, connected, enabled, autoConnect, queueVars, job, waitVars, boundVars>>

ConnectFails(t) ==
    /\ at[t] = "connect"
    /\ ~up \/ connected
    /\ Go(t, "return")
    /\ IF Kind(t) = "connectUser" THEN StartTimer ELSE KeepTimer
    /\ UNCHANGED <<canBlock, connected, enabled, autoConnect, queueVars, job, waitVars, boundVars>>

\* exceptionDisconnect: first connected is cleared, then autoConnect is read
exceptionDisconnect(t) ==
    /\ at[t] = "disconnect"
    /\ connected' = FALSE
    /\ Go(t, "lost")
    /\ UNCHANGED <<canBlock, enabled, autoConnect, connectTimer, queueVars, job, waitVars, boundVars, refused>>

StartAfterLoss(t) ==
    /\ at[t] = "lost"
    /\ IF ~connected /\ autoConnect THEN StartTimer ELSE KeepTimer
    /\ Go(t, "announce")
    /\ UNCHANGED <<canBlock, connected, enabled, autoConnect, queueVars, job, waitVars, boundVars>>

\* mutant: any exception is taken for a connection
Handlers_any(t) == event' = (event \/ listed)

\* waitConnectExceptionHandler; a disconnection is asynExceptionConnect too
Handlers(t) ==
    event' = (event \/ (listed /\ Kind(t) \notin {"enable", "autoConnect"}))

Release(t) ==
    /\ synchronousLock' = synchronousLock \ {t}
    /\ Begin(t, Back(t), <<"none", Timer>>)

\* announceExceptionOccurred
exceptionOccurred(t) ==
    /\ at[t] = "announce"
    /\ Handlers(t)
    /\ notifyPortThread' = canBlock
    /\ Release(t)
    /\ UNCHANGED <<portVars, queue, listed, result, seen, boundVars, refused>>

Return(t) ==
    /\ at[t] = "return"
    /\ Release(t)
    /\ UNCHANGED <<portVars, queue, notifyPortThread, waitVars, boundVars, refused>>

HasPort(t) ==
    \/ LockPort(t) \/ exceptionConnect(t) \/ ConnectFails(t) \/ exceptionDisconnect(t)
    \/ StartAfterLoss(t) \/ exceptionOccurred(t) \/ Return(t)

-----------------------------------------------------------------------------
(***************************************************************************)
(* queueRequest with priority Connect, address -1: the port need not be    *)
(* connected.  A port that cannot block calls the driver from here.        *)
(***************************************************************************)
queueRequest(t, u, place) ==
    /\ enabled
    /\ \/ /\ ~canBlock
          /\ Begin(t, "call", u)
          /\ UNCHANGED <<queue, notifyPortThread>>
       \/ /\ canBlock /\ u \notin ToSet(queue)
          /\ queue' = Append(queue, u)
          /\ notifyPortThread' = TRUE
          /\ Go(t, place) /\ UNCHANGED job
       \/ /\ canBlock /\ u \in ToSet(queue)     \* already queued
          /\ Go(t, place) /\ UNCHANGED <<queue, notifyPortThread, job>>

TimerExpires ==
    /\ at[Timer] = "idle"
    /\ connectTimer
    /\ connectTimer' = FALSE
    /\ Go(Timer, "test")
    /\ UNCHANGED <<canBlock, connected, enabled, autoConnect, queueVars, job, waitVars, boundVars, refused>>

\* portConnectTimerCallback, called by the timer's thread and by registerInterface
TestConnected(t) ==
    /\ at[t] = "test"
    /\ Go(t, IF ~connected /\ autoConnect THEN "queue" ELSE Back(t))
    /\ UNCHANGED <<portVars, queueVars, job, waitVars, boundVars, refused>>

QueueConnect(t) ==
    /\ at[t] = "queue"
    /\ \/ queueRequest(t, connectUser, Back(t)) /\ UNCHANGED refused
       \/ /\ ~enabled
          /\ refused' = TRUE
          /\ Go(t, Back(t))
          /\ UNCHANGED <<queue, notifyPortThread, job>>
    /\ UNCHANGED <<portVars, synchronousLock, waitVars, boundVars>>

portConnectTimerCallback(t) == TestConnected(t) \/ QueueConnect(t)

-----------------------------------------------------------------------------
(***************************************************************************)
(* The port thread.                                                        *)
(***************************************************************************)
Wake ==
    /\ at[PortThread] = "wait"
    /\ notifyPortThread
    /\ notifyPortThread' = FALSE
    /\ Go(PortThread, IF enabled THEN "drain" ELSE "wait")
    /\ UNCHANGED <<portVars, queue, synchronousLock, job, waitVars, boundVars, refused>>

\* all requests to connect or disconnect come first
Serve ==
    /\ at[PortThread] = "drain"
    /\ queue # <<>>
    /\ queue' = Tail(queue)
    /\ Begin(PortThread, "call", Head(queue))
    /\ UNCHANGED <<portVars, notifyPortThread, synchronousLock, waitVars, boundVars, refused>>

\* connectAttempt looks at connected before it has the port; there is no
\* attempt within 2 seconds of the last one or of a disconnection
autoConnectDevice ==
    /\ at[PortThread] = "drain"
    /\ queue = <<>>
    /\ \/ Go(PortThread, "wait") /\ UNCHANGED job
       \/ /\ ~connected /\ autoConnect
          /\ Begin(PortThread, "call", <<"attempt", PortThread>>)
    /\ UNCHANGED <<portVars, queueVars, waitVars, boundVars, refused>>

portThread == Wake \/ Serve \/ autoConnectDevice

-----------------------------------------------------------------------------
(***************************************************************************)
(* waitConnect, as registerInterface calls it: connected is looked at      *)
(* before the handler is there.                                            *)
(***************************************************************************)
\* the end of the connection is not announced yet
Losing(t) == at[t] = "lost" \/ (at[t] = "announce" /\ Kind(t) \in {"disconnect", "io"})

\* registerInterface waits for the first connection
WaitFirst ==
    /\ at[Registrar] = "registered"
    /\ IF autoConnect THEN Go(Registrar, "looks") /\ seen' = (connected \/ \E w \in Threads : Losing(w))
                      ELSE Go(Registrar, "idle") /\ UNCHANGED seen
    /\ UNCHANGED <<portVars, queueVars, job, listed, event, result, boundVars, refused>>

Look ==
    /\ at[Registrar] = "looks"
    /\ IF connected THEN Go(Registrar, "idle") /\ result' = "success"
                    ELSE Go(Registrar, "adds") /\ UNCHANGED result
    /\ UNCHANGED <<portVars, queueVars, job, listed, event, seen, boundVars, refused>>

exceptionCallbackAdd ==
    /\ at[Registrar] = "adds"
    /\ listed' = TRUE
    /\ Go(Registrar, "waits")
    /\ UNCHANGED <<portVars, queueVars, job, event, result, seen, boundVars, refused>>

\* the event, or the timeout
WaitEnds ==
    /\ at[Registrar] = "waits"
    /\ result' = IF event THEN "success" ELSE "error"
    /\ listed' = FALSE
    /\ event' = FALSE
    /\ Go(Registrar, "idle")
    /\ UNCHANGED <<portVars, queueVars, job, seen, boundVars, refused>>

waitConnect == WaitFirst \/ Look \/ exceptionCallbackAdd \/ WaitEnds

-----------------------------------------------------------------------------
(***************************************************************************)
(* The calls of a client.                                                  *)
(***************************************************************************)
Calls(c) ==
    /\ at[c] = "idle"
    /\ calls < MaxCalls
    /\ calls' = calls + 1
    /\ UNCHANGED <<up, outages>>

Request(c, kind) ==
    /\ Calls(c)
    /\ queueRequest(c, <<kind, c>>, "idle")
    /\ UNCHANGED <<portVars, synchronousLock, waitVars, refused>>

\* with lockPort or queueLockPort
Hold(c, kind) ==
    /\ Calls(c)
    /\ Begin(c, "call", <<kind, c>>)
    /\ UNCHANGED <<portVars, queueVars, waitVars, refused>>

enable(c, yesNo) ==
    /\ Calls(c)
    /\ enabled' = yesNo
    /\ Begin(c, "announce", <<"enable", c>>)
    /\ UNCHANGED <<canBlock, connected, autoConnect, connectTimer, queueVars, waitVars, refused>>

\* autoConnectAsyn: first autoConnect is set, then connected is read
autoConnectAsyn(c, yesNo) ==
    /\ Calls(c)
    /\ autoConnect' = yesNo
    /\ Begin(c, "changed", <<"autoConnect", c>>)
    /\ UNCHANGED <<canBlock, connected, enabled, connectTimer, queueVars, waitVars, refused>>

\* mutant: the request of the timer is left to the next disconnection
StartAfterChange_never(c) ==
    /\ at[c] = "changed"
    /\ KeepTimer
    /\ Go(c, "announce")
    /\ UNCHANGED <<canBlock, connected, enabled, autoConnect, queueVars, job, waitVars, boundVars>>

StartAfterChange(c) ==
    /\ at[c] = "changed"
    /\ IF ~connected /\ autoConnect THEN StartTimer ELSE KeepTimer
    /\ Go(c, "announce")
    /\ UNCHANGED <<canBlock, connected, enabled, autoConnect, queueVars, job, waitVars, boundVars>>

DeviceGoes ==
    /\ outages < MaxOutages
    /\ outages' = outages + 1
    /\ up' = ~up
    /\ UNCHANGED <<portVars, queueVars, threadVars, waitVars, calls, refused>>

-----------------------------------------------------------------------------
\* registerPort and initPortConnect are over, registerInterface goes on
Init ==
    /\ canBlock \in BOOLEAN
    /\ autoConnect \in BOOLEAN
    /\ up \in BOOLEAN
    /\ connected = FALSE /\ enabled = TRUE
    /\ connectTimer = FALSE /\ refused = FALSE
    /\ queue = <<>> /\ notifyPortThread = FALSE /\ synchronousLock = {}
    /\ at = [t \in Threads |-> IF t = PortThread THEN "wait" ELSE IF t = Registrar THEN "test" ELSE "idle"]
    /\ job = [t \in Threads |-> <<"none", Timer>>]
    /\ listed = FALSE /\ event = FALSE /\ result = "none" /\ seen = FALSE
    /\ calls = 0 /\ outages = 0

\* what a thread does once it has begun
Step(t) ==
    \/ HasPort(t)
    \/ t \in {Timer, Registrar} /\ portConnectTimerCallback(t)
    \/ t \in Clients /\ StartAfterChange(t)
    \/ t = Timer /\ TimerExpires
    \/ t = Registrar /\ waitConnect
    \/ t = PortThread /\ portThread

Call(c) ==
    \/ \E kind \in {"connect", "disconnect"} : Request(c, kind)
    \/ \E kind \in {"connect", "disconnect", "io"} : Hold(c, kind)
    \/ \E yesNo \in BOOLEAN : enable(c, yesNo)
    \/ \E yesNo \in BOOLEAN : autoConnectAsyn(c, yesNo)

Next ==
    \/ \E t \in Threads : Step(t)
    \/ \E c \in Clients : Call(c)
    \/ DeviceGoes

Spec == Init /\ [][Next]_vars

\* a thread that has begun goes on, the timer expires; no client need call
FairSpec == Spec /\ \A t \in Threads : WF_vars(Step(t))

-----------------------------------------------------------------------------
ConnectTypeOK ==
    /\ canBlock \in BOOLEAN /\ connected \in BOOLEAN /\ enabled \in BOOLEAN /\ autoConnect \in BOOLEAN
    /\ connectTimer \in BOOLEAN /\ notifyPortThread \in BOOLEAN
    /\ queue \in Seq(Requests)
    /\ synchronousLock \subseteq Threads
    /\ at \in [Threads -> {"idle", "call", "connect", "disconnect", "lost", "announce", "return", "test",
                           "queue", "wait", "drain", "looks", "adds", "waits", "registered", "changed"}]
    /\ job \in [Threads -> Jobs]
    /\ listed \in BOOLEAN /\ event \in BOOLEAN /\ seen \in BOOLEAN
    /\ result \in {"none", "success", "error"}
    /\ up \in BOOLEAN /\ refused \in BOOLEAN

\* a thread will try to connect, or start the timer that will
Trying ==
    \/ connectTimer
    \/ \E t \in {Timer, Registrar} : at[t] \in {"test", "queue"}
    \/ connectUser \in ToSet(queue)
    \/ \E t \in Threads : Kind(t) = "connectUser" /\ at[t] \in {"call", "connect"}
    \/ \E t \in Threads : at[t] \in {"lost", "changed"}

\* asynManager.c:2183, 2324, 3289, 3311: as long as a port with autoConnect is
\* not connected somebody is going to try it, however autoConnect is changed
\* while the connection is lost, except after a request of the timer that was
\* refused because the port was disabled
RetryPending == ~connected /\ autoConnect /\ ~refused => Trying

\* asynManager.c:3357: waitConnect returns success only if the port was
\* connected at some time since it was called, or the end of an earlier
\* connection was being announced at that time
WaitTrue == result = "success" => seen

\* asynManager.c:3283, 3299: a device that has come back for good is connected
\* to, if autoConnect is on and stays on and no request was refused
Reconnects == <>[](up /\ autoConnect /\ enabled /\ ~refused) => []<>connected
=============================================================================
