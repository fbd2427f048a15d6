---------------------------- MODULE AsynLockPort ----------------------------
(***************************************************************************)
(* Exclusive access to a port (asyn/asynDriver/asynManager.c):             *)
(* queueLockPort / queueUnlockPort, lockPort / unlockPort, the request a   *)
(* queueLockPort makes and the port thread that grants it, queueRequest on *)
(* a port without ASYN_CANBLOCK, and the asynLockPortNotify of a port that *)
(* is itself an asynUser of a lower port.                                  *)
(*                                                                         *)
(* A thread that calls queueLockPort on a port with ASYN_CANBLOCK queues a *)
(* request with a callback that hands the port over: it signals the        *)
(* thread's event and then blocks the port thread on the thread's mutex    *)
(* until queueUnlockPort releases it.                                      *)
(***************************************************************************)
EXTENDS Integers, Sequences, SequencesExt

CONSTANTS
    Threads,        \* threads that lock the port
    Others,         \* asynUsers that other code queues
    PortThread,
    Lower,          \* a thread that locks the lower port directly
    Null,           \* the null pointer, and no owner
    Kinds,          \* the ports: <<ASYN_CANBLOCK, has asynLockPortNotify>>
    QueueLockKinds, \* those with ASYN_CANBLOCK that queueLockPort is called on
    MaxDepth        \* bound on nested locks of one thread

ASSUME LockNamesAssumption ==
    /\ Threads \intersect Others = {}
    /\ PortThread \notin Threads
    /\ Lower \notin Threads \union {PortThread}
    /\ Null \notin Threads \union Others \union {PortThread, Lower}
    /\ Kinds \subseteq BOOLEAN \X BOOLEAN
    /\ QueueLockKinds \subseteq Kinds
    /\ MaxDepth \in Nat \ {0}

VARIABLES
    kind,           \* pport->attributes and pport->pasynLockPortNotify
    available,      \* the port is enabled and connected
    queue,          \* the Low queue of the port
    \* queueLockPortPvt of each thread and its asynUser copy
    count,          \* queueLockPortCount
    mutex,          \* holder of queueLockPortMutex
    event,          \* queueLockPortEvent
    timedOut,       \* pasynUserCopy->auxStatus # asynSuccess
    lc,             \* where the thread is inside an operation
    \* epicsMutexes with recursion: holder and depth
    syncOwner, syncDepth,       \* synchronousLock of the port
    lowerOwner, lowerDepth,     \* synchronousLock of the lower port
    \* the port thread
    pt,
    serving

ownVars == <<count, mutex, event, timedOut>>
syncVars == <<syncOwner, syncDepth>>
lowerVars == <<lowerOwner, lowerDepth>>
portVars == <<kind, available>>
ptVars == <<pt, serving>>
vars == <<portVars, queue, ownVars, lc, syncVars, lowerVars, ptVars>>

CanBlock == kind[1]
HasNotify == kind[2]

-----------------------------------------------------------------------------
TakeSync(x) ==
    /\ syncOwner \in {Null, x}
    /\ syncOwner' = x
    /\ syncDepth' = syncDepth + 1

DropSync ==
    /\ syncDepth' = syncDepth - 1
    /\ syncOwner' = IF syncDepth = 1 THEN Null ELSE syncOwner

\* pasynLockPortNotify->lock: the driver calls lockPort for the lower port
TakeLower(x) ==
    /\ lowerOwner \in {Null, x}
    /\ lowerOwner' = x
    /\ lowerDepth' = lowerDepth + 1

DropLower ==
    IF HasNotify
    THEN /\ lowerDepth' = lowerDepth - 1
         /\ lowerOwner' = IF lowerDepth = 1 THEN Null ELSE lowerOwner
    ELSE UNCHANGED lowerVars

At(t, place) == lc' = [lc EXCEPT ![t] = place]

-----------------------------------------------------------------------------
(***************************************************************************)
(* queueLockPort on a port with ASYN_CANBLOCK.                             *)
(***************************************************************************)
\* called recursively: the thread already has the port (queueLockPort refuses
\* a disabled port first, but a disconnected one is no obstacle here)
LockAgain(t) ==
    /\ CanBlock
    /\ lc[t] = "idle"
    /\ count[t] \in 1..MaxDepth - 1
    /\ count' = [count EXCEPT ![t] = @ + 1]
    /\ UNCHANGED <<portVars, queue, mutex, event, timedOut, lc, syncVars,
                   lowerVars, ptVars>>

\* take the thread's mutex and queue the copy of the asynUser; a disabled or
\* disconnected port refuses
QueueLock(t) ==
    /\ CanBlock /\ kind \in QueueLockKinds
    /\ available
    /\ lc[t] = "idle" /\ count[t] = 0 /\ syncOwner # t
    /\ mutex[t] = Null
    /\ mutex' = [mutex EXCEPT ![t] = t]
    /\ timedOut' = [timedOut EXCEPT ![t] = FALSE]
    /\ queue' = Append(queue, t)
    /\ At(t, "waitBegin")
    /\ UNCHANGED <<portVars, count, event, syncVars, lowerVars, ptVars>>

\* the event: the port is handed over, or the request timed out
Begin(t) ==
    /\ lc[t] = "waitBegin"
    /\ event[t]
    /\ event' = [event EXCEPT ![t] = FALSE]
    /\ IF timedOut[t]
       THEN /\ mutex' = [mutex EXCEPT ![t] = Null]
            /\ At(t, "idle")
            /\ UNCHANGED count
       ELSE /\ count' = [count EXCEPT ![t] = 1]
            /\ At(t, IF HasNotify THEN "notify" ELSE "idle")
            /\ UNCHANGED mutex
    /\ UNCHANGED <<portVars, queue, timedOut, syncVars, lowerVars, ptVars>>

\* the last statement of queueLockPort and lockPort
Notify(t) ==
    /\ lc[t] = "notify"
    /\ TakeLower(t)
    /\ At(t, "idle")
    /\ UNCHANGED <<portVars, queue, ownVars, syncVars, ptVars>>

UnlockInner(t) ==
    /\ CanBlock
    /\ lc[t] = "idle"
    /\ count[t] > 1
    /\ DropLower
    /\ count' = [count EXCEPT ![t] = @ - 1]
    /\ UNCHANGED <<portVars, queue, mutex, event, timedOut, lc, syncVars,
                   ptVars>>

Unlock(t) ==
    /\ CanBlock
    /\ lc[t] = "idle"
    /\ count[t] = 1
    /\ DropLower
    /\ mutex' = [mutex EXCEPT ![t] = Null]
    /\ At(t, "waitEnd")
    /\ UNCHANGED <<portVars, queue, count, event, timedOut, syncVars, ptVars>>

\* the event: the port thread has got the mutex and given it back
End(t) ==
    /\ lc[t] = "waitEnd"
    /\ event[t]
    /\ event' = [event EXCEPT ![t] = FALSE]
    /\ count' = [count EXCEPT ![t] = 0]
    /\ At(t, "idle")
    /\ UNCHANGED <<portVars, queue, mutex, timedOut, syncVars, lowerVars,
                   ptVars>>

-----------------------------------------------------------------------------
(***************************************************************************)
(* lockPort, and queueLockPort and queueRequest on a port that does not    *)
(* block: the caller takes synchronousLock itself.  A thread uses one of   *)
(* the two ways to lock a port with ASYN_CANBLOCK, not both at once.       *)
(***************************************************************************)
LockSync(t) ==
    /\ lc[t] = "idle" /\ count[t] = 0
    /\ syncOwner = t => syncDepth < MaxDepth
    /\ TakeSync(t)
    /\ At(t, IF HasNotify THEN "notify" ELSE "idle")
    /\ UNCHANGED <<portVars, queue, ownVars, lowerVars, ptVars>>

UnlockSync(t) ==
    /\ lc[t] = "idle"
    /\ syncOwner = t
    /\ DropLower
    /\ DropSync
    /\ UNCHANGED <<portVars, queue, ownVars, lc, ptVars>>

\* somebody uses the lower port
LowerLock ==
    /\ HasNotify
    /\ lowerOwner = Null
    /\ TakeLower(Lower)
    /\ UNCHANGED <<portVars, queue, ownVars, lc, syncVars, ptVars>>

LowerUnlock ==
    /\ lowerOwner = Lower
    /\ DropLower
    /\ UNCHANGED <<portVars, queue, ownVars, lc, syncVars, ptVars>>

-----------------------------------------------------------------------------
(***************************************************************************)
(* Other requests, the state of the port and the timers.                   *)
(***************************************************************************)
Request(u) ==
    /\ CanBlock
    /\ available
    /\ serving # u /\ u \notin ToSet(queue)
    /\ queue' = Append(queue, u)
    /\ UNCHANGED <<portVars, ownVars, lc, syncVars, lowerVars, ptVars>>

\* enable, exceptionConnect and exceptionDisconnect
Change ==
    /\ CanBlock
    /\ available' = ~available
    /\ UNCHANGED <<kind, queue, ownVars, lc, syncVars, lowerVars, ptVars>>

TimeoutNever(t) ==      \* mutant: no timer was started
    /\ FALSE
    /\ UNCHANGED vars
Timeout(t) ==
    /\ \E i \in DOMAIN queue : /\ queue[i] = t
                              /\ queue' = RemoveAt(queue, i)
    /\ timedOut' = [timedOut EXCEPT ![t] = TRUE]
    /\ event' = [event EXCEPT ![t] = TRUE]
    /\ UNCHANGED <<portVars, count, mutex, lc, syncVars, lowerVars, ptVars>>

-----------------------------------------------------------------------------
(***************************************************************************)
(* The port thread: idle, lockSync, notify, call, inside (in the callback  *)
(* of some other asynUser), waitMutex (in queueLockPortCallback), return.  *)
(***************************************************************************)
Dequeue ==
    /\ pt = "idle"
    /\ available
    /\ queue # <<>>
    /\ serving' = Head(queue)
    /\ queue' = Tail(queue)
    /\ pt' = "lockSync"
    /\ UNCHANGED <<portVars, ownVars, lc, syncVars, lowerVars>>

ServeLock ==
    /\ pt = "lockSync"
    /\ TakeSync(PortThread)
    /\ pt' = IF HasNotify THEN "notify" ELSE "call"
    /\ UNCHANGED <<portVars, queue, ownVars, lc, lowerVars, serving>>

ServeNotify ==
    /\ pt = "notify"
    /\ TakeLower(PortThread)
    /\ pt' = "call"
    /\ UNCHANGED <<portVars, queue, ownVars, lc, syncVars, serving>>

CallOther ==
    /\ pt = "call"
    /\ serving \in Others
    /\ pt' = "inside"
    /\ UNCHANGED <<portVars, queue, ownVars, lc, syncVars, lowerVars, serving>>

\* queueLockPortCallback hands the port over
CallLock ==
    /\ pt = "call"
    /\ serving \in Threads
    /\ event' = [event EXCEPT ![serving] = TRUE]
    /\ pt' = "waitMutex"
    /\ UNCHANGED <<portVars, queue, count, mutex, timedOut, lc, syncVars,
                   lowerVars, serving>>

\* the device is not connected: queueLockPortTimeoutCallback instead
CallTimeout ==
    /\ pt = "call"
    /\ serving \in Threads
    /\ event' = [event EXCEPT ![serving] = TRUE]
    /\ timedOut' = [timedOut EXCEPT ![serving] = TRUE]
    /\ pt' = "return"
    /\ UNCHANGED <<portVars, queue, count, mutex, lc, syncVars, lowerVars,
                   serving>>

\* queueLockPortCallback gets the port back
TakeBackAtOnce ==   \* mutant: does not wait for the mutex
    /\ pt = "waitMutex"
    /\ event' = [event EXCEPT ![serving] = TRUE]
    /\ pt' = "return"
    /\ UNCHANGED <<portVars, queue, count, mutex, timedOut, lc, syncVars,
                   lowerVars, serving>>
TakeBack ==
    /\ pt = "waitMutex"
    /\ mutex[serving] = Null
    /\ event' = [event EXCEPT ![serving] = TRUE]
    /\ pt' = "return"
    /\ UNCHANGED <<portVars, queue, count, mutex, timedOut, lc, syncVars,
                   lowerVars, serving>>

Return ==
    /\ pt \in {"inside", "return"}
    /\ DropLower
    /\ DropSync
    /\ pt' = "idle"
    /\ serving' = Null
    /\ UNCHANGED <<portVars, queue, ownVars, lc>>

-----------------------------------------------------------------------------
Init ==
    /\ kind \in Kinds
    /\ available = TRUE
    /\ queue = <<>>
    /\ count = [t \in Threads |-> 0]
    /\ mutex = [t \in Threads |-> Null]
    /\ event = [t \in Threads |-> FALSE]
    /\ timedOut = [t \in Threads |-> FALSE]
    /\ lc = [t \in Threads |-> "idle"]
    /\ syncOwner = Null /\ syncDepth = 0
    /\ lowerOwner = Null /\ lowerDepth = 0
    /\ pt = "idle" /\ serving = Null

ThreadStep(t) ==
    \/ LockAgain(t) \/ QueueLock(t) \/ Begin(t) \/ Notify(t)
    \/ UnlockInner(t) \/ Unlock(t) \/ End(t)
    \/ LockSync(t) \/ UnlockSync(t)

PortThreadStep ==
    Dequeue \/ ServeLock \/ ServeNotify \/ CallOther \/ CallLock
    \/ CallTimeout \/ TakeBack \/ Return

Next ==
    \/ \E t \in Threads : ThreadStep(t) \/ Timeout(t)
    \/ \E u \in Others : Request(u)
    \/ Change \/ LowerLock \/ LowerUnlock
    \/ PortThreadStep

Spec == Init /\ [][Next]_vars

(***************************************************************************)
(* Fairness: the port thread runs, callbacks return, timers expire, a      *)
(* mutex that is free again and again is granted in the end, and a thread  *)
(* releases what it has locked.  The port may stay unavailable for good.   *)
(***************************************************************************)
Fairness ==
    /\ WF_vars(PortThreadStep) /\ SF_vars(ServeLock) /\ SF_vars(ServeNotify)
    /\ WF_vars(LowerUnlock)
    /\ \A t \in Threads :
          /\ WF_vars(Begin(t)) /\ WF_vars(End(t)) /\ SF_vars(Notify(t))
          /\ WF_vars(UnlockInner(t) \/ Unlock(t) \/ UnlockSync(t))
          /\ SF_vars(Unlock(t)) /\ SF_vars(syncDepth = 1 /\ UnlockSync(t))
          /\ WF_vars(Timeout(t))

FairSpec == Spec /\ Fairness

-----------------------------------------------------------------------------
(***************************************************************************)
(* Properties.                                                             *)
(***************************************************************************)
\* Every variable has its type; nested locks stay within their bound.
LockTypeOK ==
    /\ kind \in Kinds
    /\ available \in BOOLEAN
    /\ queue \in Seq(Threads \union Others)
    /\ count \in [Threads -> 0..MaxDepth]
    /\ mutex \in [Threads -> Threads \union {Null}]
    /\ event \in [Threads -> BOOLEAN]
    /\ timedOut \in [Threads -> BOOLEAN]
    /\ lc \in [Threads -> {"idle", "waitBegin", "notify", "waitEnd"}]
    /\ syncOwner \in Threads \union {PortThread, Null}
    /\ syncDepth \in 0..MaxDepth
    /\ lowerOwner \in Threads \union {PortThread, Lower, Null}
    /\ lowerDepth \in 0..MaxDepth
    /\ pt \in {"idle", "lockSync", "notify", "call", "inside", "waitMutex",
               "return"}
    /\ serving \in Threads \union Others \union {Null}

\* who may call the driver
Locked(t) == lc[t] = "idle" /\ (count[t] > 0 \/ syncOwner = t)
InPort == {t \in Threads : Locked(t)}
          \union (IF pt = "inside" THEN {PortThread} ELSE {})

\* Nobody calls the driver while another thread has the port locked by
\* queueLockPort or lockPort or is served.
PortExclusive == \A x, y \in InPort : x = y

\* The implementation hands the port from owner to owner.
TheOwner == IF InPort = {} THEN Null ELSE CHOOSE x \in InPort : TRUE
Abstract == INSTANCE PortLock WITH Owners <- Threads \union {PortThread},
                                   owner <- TheOwner
HandsOver == Abstract!Spec

\* No signal of an earlier callback is left in queueLockPortEvent when a
\* thread starts to wait on it: queueLockPort would return without the port,
\* or queueUnlockPort before the port thread is done with the mutex.
EventFresh ==
    \A t \in Threads :
       /\ lc[t] = "idle" => ~event[t]
       /\ lc[t] = "waitBegin" /\ event[t] =>
             timedOut[t] \/ (serving = t /\ pt = "waitMutex")
       /\ lc[t] = "waitEnd" /\ event[t] => mutex[t] = Null

\* While a port that is an asynUser of another one is locked, the lower port
\* is locked, by the same thread.
LowerLocked == HasNotify => \A x \in InPort : lowerOwner = x

\* queueLockPort returns, at the latest when its request times out.
QueueLockReturns ==
    \A t \in Threads :
       lc[t] # "idle" /\ count[t] <= 1 ~> lc[t] = "idle"
=============================================================================
