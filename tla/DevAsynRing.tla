---------------------------- MODULE DevAsynRing ----------------------------
(***************************************************************************)
(* The device support of one record that gets its values from driver       *)
(* callbacks (asyn/devEpics/devAsynInt32.c): an input record with          *)
(* SCAN="I/O Intr", or an output record with asyn:READBACK=1.              *)
(*                                                                         *)
(* The driver pushes values into the ring buffer and asks a callback       *)
(* thread of EPICS to process the record; clients process the record or    *)
(* put a value into it; a record of a port that can block is finished by   *)
(* a second callback once the port thread has done the I/O.  An action is  *)
(* what a thread does between taking and releasing devPvtLock; pc tells    *)
(* where the thread is that holds the scan lock of the record meanwhile.   *)
(*                                                                         *)
(* A client puts a value only into a record that is not active, and SCAN   *)
(* changes only while no scan is pending.  The callback queues of EPICS    *)
(* are never full.                                                         *)
(***************************************************************************)
EXTENDS Integers

CONSTANTS
    RingSize,       \* asyn:FIFO
    Values,
    Configs,        \* the records and ports to look at
    MaxEvents,      \* bound: driver callbacks
    MaxClients      \* bound: what clients do

ConfigType == [output : BOOLEAN, canBlock : BOOLEAN, calm : BOOLEAN]

ASSUME RingAssumption ==
    /\ RingSize \in Nat \ {0}
    /\ MaxEvents \in Nat
    /\ MaxClients \in Nat
    /\ Configs \subseteq ConfigType

VARIABLES
    config,
    interruptAccept,
    registered,     \* registerInterruptUser was called
    ringBuffer, ringHead, ringTail,
    result,         \* value, time and status of the last I/O or callback
    asyncProcessingActive,
    numDeferredOutputCallbacks,
    record,         \* val, alarm, pact
    pc,             \* idle; driver: in queueRequest; end: back from it
    callbacks,      \* scans or outputCallbacks in the callback queue
    queued,         \* pasynUser is on the queue of the port
    done,           \* processCallback is in the callback queue
    device,         \* the value the driver has
    clock,          \* counts its changes
    clients,        \* counts what clients did
    put,            \* history: val of the output record as it began
    seen,           \* history: time of the last element taken
    informed        \* history: the driver's last change was told

ringVars == <<ringBuffer, ringHead, ringTail, seen>>
deferVars == <<asyncProcessingActive, numDeferredOutputCallbacks>>
deviceVars == <<device, clock, informed>>
vars == <<config, interruptAccept, registered, ringVars, result, deferVars,
          record, pc, callbacks, queued, done, deviceVars, clients, put>>

-----------------------------------------------------------------------------
(***************************************************************************)
(* The ring buffer: RingSize+1 slots, empty when ringHead = ringTail.      *)
(***************************************************************************)
Slots == 0 .. RingSize

After(i) == IF i = RingSize THEN 0 ELSE i + 1

Used(head, tail) == IF tail <= head THEN head - tail ELSE head - tail + RingSize + 1
Elements == Used(ringHead, ringTail)
Empty == ringTail = ringHead

\* the new value is thrown away when there is no room
PushKeepsOldest(element) ==
    /\ IF After(ringHead) = ringTail
       THEN UNCHANGED <<ringBuffer, ringHead, callbacks, numDeferredOutputCallbacks>>
       ELSE /\ ringBuffer' = [ringBuffer EXCEPT ![ringHead] = element]
            /\ ringHead' = After(ringHead)
            /\ IF config.output /\ asyncProcessingActive
               THEN /\ numDeferredOutputCallbacks' = numDeferredOutputCallbacks + 1
                    /\ UNCHANGED callbacks
               ELSE /\ callbacks' = callbacks + 1
                    /\ UNCHANGED numDeferredOutputCallbacks
    /\ UNCHANGED <<ringTail, seen>>

\* callbacks are not deferred
PushNeverDefers(element) ==
    /\ ringBuffer' = [ringBuffer EXCEPT ![ringHead] = element]
    /\ ringHead' = After(ringHead)
    /\ IF After(ringHead) = ringTail
       THEN ringTail' = After(ringTail) /\ UNCHANGED callbacks
       ELSE callbacks' = callbacks + 1 /\ UNCHANGED ringTail
    /\ UNCHANGED <<seen, numDeferredOutputCallbacks>>

\* the end of interruptCallbackInput and interruptCallbackOutput: a full
\* buffer loses its oldest element, and no further processing is asked for
Push(element) ==
    /\ ringBuffer' = [ringBuffer EXCEPT ![ringHead] = element]
    /\ ringHead' = After(ringHead)
    /\ IF After(ringHead) = ringTail
       THEN /\ ringTail' = After(ringTail)
            /\ UNCHANGED <<callbacks, numDeferredOutputCallbacks>>
       ELSE /\ UNCHANGED ringTail
            /\ IF config.output /\ asyncProcessingActive
               THEN /\ numDeferredOutputCallbacks' = numDeferredOutputCallbacks + 1
                    /\ UNCHANGED callbacks
               ELSE /\ callbacks' = callbacks + 1
                    /\ UNCHANGED numDeferredOutputCallbacks
    /\ UNCHANGED seen

\* getCallbackValue of a buffer that is not empty
Take ==
    /\ ringTail' = After(ringTail)
    /\ seen' = ringBuffer[ringTail].time
    /\ UNCHANGED <<ringBuffer, ringHead>>

\* the driver's value changes: its callback, if it has one registered
Tell(value, status) ==
    /\ device' = value
    /\ clock' = clock + 1
    /\ IF registered /\ interruptAccept
       THEN /\ Push([value |-> value, time |-> clock + 1, status |-> status])
            /\ informed' = TRUE
       ELSE /\ informed' = FALSE
            /\ UNCHANGED <<ringVars, callbacks, numDeferredOutputCallbacks>>

-----------------------------------------------------------------------------
(***************************************************************************)
(* Record processing.  dbProcess leaves a record with PACT alone.          *)
(***************************************************************************)
Free == pc = "idle" /\ interruptAccept

\* what the record shows of a result
ShownIn(r) == [val |-> IF r.status = "ok" THEN r.value ELSE record.val,
               alarm |-> r.status, pact |-> FALSE]
ShownOut(r, taken) == [val |-> IF taken /\ r.status = "ok" THEN r.value ELSE record.val,
                       alarm |-> r.status, pact |-> FALSE]
Cleared(r) == [r EXCEPT !.status = "ok"]

\* processLi has neither an element nor a finished read
StartRead ==
    /\ \/ /\ config.canBlock
          /\ record' = [record EXCEPT !.pact = TRUE]
          /\ queued' = TRUE
          /\ UNCHANGED <<pc, result>>
       \/ /\ ~config.canBlock
          /\ pc' = "driver"
          /\ UNCHANGED <<queued, record, result>>
       \/ /\ pc' = "end"        \* queueRequest fails
          /\ result' = [result EXCEPT !.status = "error"]
          /\ UNCHANGED <<queued, record>>
    /\ UNCHANGED <<asyncProcessingActive, put>>

\* processLo writes val; the callbacks that come meanwhile are deferred
StartWrite(val) ==
    /\ put' = val
    /\ asyncProcessingActive' = config.canBlock
    /\ \/ /\ config.canBlock
          /\ record' = [record EXCEPT !.pact = TRUE, !.val = val]
          /\ queued' = TRUE
          /\ result' = [result EXCEPT !.value = val]
          /\ UNCHANGED pc
       \/ /\ ~config.canBlock
          /\ pc' = "driver"
          /\ result' = [result EXCEPT !.value = val]
          /\ record' = [record EXCEPT !.val = val]
          /\ UNCHANGED queued
       \/ /\ pc' = "end"        \* queueRequest fails
          /\ result' = [result EXCEPT !.value = val, !.status = "error"]
          /\ record' = [record EXCEPT !.val = val]
          /\ UNCHANGED queued

\* one callback is asked for, and all the deferred ones are forgotten
EndWriteForgets(r, taken, pending) ==
    /\ record' = ShownOut(r, taken)
    /\ result' = Cleared(r)
    /\ asyncProcessingActive' = FALSE
    /\ callbacks' = IF numDeferredOutputCallbacks > 0 THEN pending + 1 ELSE pending
    /\ numDeferredOutputCallbacks' = 0

\* the end of processLo: one deferred callback is asked for
EndWrite(r, taken, pending) ==
    /\ record' = ShownOut(r, taken)
    /\ result' = Cleared(r)
    /\ asyncProcessingActive' = FALSE
    /\ IF numDeferredOutputCallbacks > 0
       THEN /\ callbacks' = pending + 1
            /\ numDeferredOutputCallbacks' = numDeferredOutputCallbacks - 1
       ELSE /\ callbacks' = pending
            /\ UNCHANGED numDeferredOutputCallbacks

\* processLi of a record that is not active
processLi ==
    IF Empty
    THEN /\ StartRead
         /\ UNCHANGED ringVars
    ELSE /\ Take
         /\ record' = ShownIn(ringBuffer[ringTail])
         /\ result' = Cleared(ringBuffer[ringTail])
         /\ UNCHANGED <<pc, queued, asyncProcessingActive, put>>

-----------------------------------------------------------------------------
(***************************************************************************)
(* Threads of EPICS.                                                       *)
(***************************************************************************)
\* a callback thread processes the input record for scanIoRequest
scanIoRequest ==
    /\ Free /\ ~config.output /\ callbacks > 0
    /\ callbacks' = callbacks - 1
    /\ IF record.pact
       THEN UNCHANGED <<ringVars, result, asyncProcessingActive, record, pc, queued, put>>
       ELSE processLi
    /\ UNCHANGED <<config, interruptAccept, registered, numDeferredOutputCallbacks,
                   done, deviceVars, clients>>

\* a callback thread processes the output record with newOutputCallbackValue
outputCallbackCallback ==
    /\ Free /\ config.output /\ callbacks > 0
    /\ IF record.pact
       THEN /\ callbacks' = callbacks - 1
            /\ IF Empty
               THEN UNCHANGED <<ringVars, result>>
               ELSE Take /\ result' = ringBuffer[ringTail]
            /\ UNCHANGED <<deferVars, record, pc, queued, put>>
       ELSE IF Empty
       THEN /\ callbacks' = callbacks - 1
            /\ StartWrite(record.val)
            /\ UNCHANGED <<ringVars, numDeferredOutputCallbacks>>
       ELSE /\ Take
            /\ EndWrite(ringBuffer[ringTail], TRUE, callbacks - 1)
            /\ UNCHANGED <<pc, queued, put>>
    /\ UNCHANGED <<config, interruptAccept, registered, done, deviceVars, clients>>

\* a client processes the input record: passive, periodic, PINI
clientProcess ==
    /\ Free /\ ~config.output /\ ~record.pact /\ clients < MaxClients
    /\ config.calm => ~registered
    /\ clients' = clients + 1
    /\ processLi
    /\ UNCHANGED <<config, interruptAccept, registered, numDeferredOutputCallbacks,
                   callbacks, done, deviceVars>>

\* a client puts a value into the output record, which processes it
clientPut(val) ==
    /\ Free /\ config.output /\ ~record.pact /\ clients < MaxClients
    /\ config.calm => callbacks = 0
    /\ clients' = clients + 1
    /\ StartWrite(val)
    /\ UNCHANGED <<config, interruptAccept, registered, ringVars,
                   numDeferredOutputCallbacks, callbacks, done, deviceVars>>

\* the client's or callback thread goes on after queueRequest
processEnd ==
    /\ pc = "end"
    /\ pc' = "idle"
    /\ IF config.output
       THEN EndWrite(result, FALSE, callbacks)
       ELSE /\ record' = ShownIn(result)
            /\ result' = Cleared(result)
            /\ UNCHANGED <<deferVars, callbacks>>
    /\ UNCHANGED <<config, interruptAccept, registered, ringVars, queued, done,
                   deviceVars, clients, put>>

\* a callback thread finishes the record that was active
processCallback ==
    /\ Free /\ done
    /\ done' = FALSE
    /\ \/ /\ config.output
          /\ EndWrite(result, FALSE, callbacks)
          /\ UNCHANGED ringVars
       \/ /\ ~config.output
          /\ LET r == IF Empty THEN result ELSE ringBuffer[ringTail]
             IN  record' = ShownIn(r) /\ result' = Cleared(r)
          /\ IF Empty THEN UNCHANGED ringVars ELSE Take
          /\ UNCHANGED <<deferVars, callbacks>>
    /\ UNCHANGED <<config, interruptAccept, registered, pc, queued, deviceVars, clients, put>>

\* SCAN of the input record changes to or from I/O Intr
getIoIntInfo ==
    /\ Free /\ ~config.output /\ ~record.pact /\ callbacks = 0
    /\ clients < MaxClients
    /\ clients' = clients + 1
    /\ registered' = ~registered
    /\ UNCHANGED <<config, interruptAccept, ringVars, result, deferVars, record, pc,
                   callbacks, queued, done, deviceVars, put>>

\* the end of iocInit
iocRun ==
    /\ ~interruptAccept
    /\ interruptAccept' = TRUE
    /\ UNCHANGED <<config, registered, ringVars, result, deferVars, record, pc,
                   callbacks, queued, done, deviceVars, clients, put>>

-----------------------------------------------------------------------------
(***************************************************************************)
(* The driver.                                                             *)
(***************************************************************************)
processCallbackInput ==
    /\ \E r \in {[value |-> device, time |-> clock, status |-> "ok"],
                 [value |-> result.value, time |-> clock, status |-> "error"]} :
          result' = r
    /\ UNCHANGED <<ringVars, callbacks, numDeferredOutputCallbacks, deviceVars>>

\* write: fails, or sets the value and makes the callbacks if it is new
processCallbackOutput ==
    \/ /\ result' = [value |-> result.value, time |-> clock, status |-> "error"]
       /\ UNCHANGED <<ringVars, callbacks, numDeferredOutputCallbacks, deviceVars>>
    \/ /\ result.value = device
       /\ result' = [value |-> result.value, time |-> clock, status |-> "ok"]
       /\ UNCHANGED <<ringVars, callbacks, numDeferredOutputCallbacks, deviceVars>>
    \/ /\ result.value # device
       /\ result' = [value |-> result.value, time |-> clock + 1, status |-> "ok"]
       /\ Tell(result.value, "ok")

\* queueRequest of a port that cannot block calls the driver at once
synchronousIO ==
    /\ pc = "driver"
    /\ pc' = "end"
    /\ IF config.output THEN processCallbackOutput ELSE processCallbackInput
    /\ UNCHANGED <<config, interruptAccept, registered, asyncProcessingActive, record,
                   queued, done, clients, put>>

portThread ==
    /\ queued
    /\ queued' = FALSE
    /\ done' = TRUE
    /\ IF config.output THEN processCallbackOutput ELSE processCallbackInput
    /\ UNCHANGED <<config, interruptAccept, registered, asyncProcessingActive, record,
                   pc, clients, put>>

\* another thread of the driver
interruptCallback(value, status) ==
    /\ clock < MaxEvents
    /\ value # device
    /\ Tell(value, status)
    /\ UNCHANGED <<config, interruptAccept, registered, result, asyncProcessingActive,
                   record, pc, queued, done, clients, put>>

-----------------------------------------------------------------------------
\* initLo reads the value of the device
Init ==
    /\ config \in Configs
    /\ interruptAccept = FALSE
    /\ registered \in BOOLEAN
    /\ config.output => registered
    /\ device \in Values
    /\ ringBuffer = [i \in Slots |-> [value |-> device, time |-> 0, status |-> "ok"]]
    /\ ringHead = 0 /\ ringTail = 0
    /\ result = [value |-> device, time |-> 0, status |-> "ok"]
    /\ asyncProcessingActive = FALSE
    /\ numDeferredOutputCallbacks = 0
    /\ record = [val |-> device, alarm |-> "udf", pact |-> FALSE]
    /\ pc = "idle"
    /\ callbacks = 0
    /\ queued = FALSE /\ done = FALSE
    /\ clock = 0 /\ clients = 0
    /\ put = device /\ seen = 0 /\ informed = FALSE

Next ==
    \/ scanIoRequest \/ outputCallbackCallback \/ clientProcess
    \/ \E val \in Values : clientPut(val)
    \/ processEnd \/ processCallback \/ getIoIntInfo \/ iocRun
    \/ synchronousIO \/ portThread
    \/ \E value \in Values, status \in {"ok", "error"} : interruptCallback(value, status)

Spec == Init /\ [][Next]_vars

-----------------------------------------------------------------------------
ElementType == [value : Values, time : Nat, status : {"ok", "error"}]

DevTypeOK ==
    /\ config \in Configs
    /\ interruptAccept \in BOOLEAN
    /\ registered \in BOOLEAN
    /\ ringBuffer \in [Slots -> ElementType]
    /\ ringHead \in Slots /\ ringTail \in Slots
    /\ result \in ElementType
    /\ asyncProcessingActive \in BOOLEAN
    /\ numDeferredOutputCallbacks \in Nat
    /\ record \in [val : Values, alarm : {"udf", "ok", "error"}, pact : BOOLEAN]
    /\ pc \in {"idle", "driver", "end"}
    /\ callbacks \in Nat
    /\ queued \in BOOLEAN /\ done \in BOOLEAN
    /\ device \in Values
    /\ clock \in Nat /\ clients \in Nat
    /\ put \in Values /\ seen \in Nat /\ informed \in BOOLEAN

\* nothing is under way
Quiet ==
    /\ interruptAccept /\ pc = "idle" /\ callbacks = 0
    /\ ~record.pact /\ ~queued /\ ~done

\* Every element of the ring buffer will be taken: there is a scan, an
\* outputCallback or a deferred one for it (interruptCallbackInput,
\* interruptCallbackOutput, getCallbackValue, the end of processLo).
NoneStranded == Elements <= callbacks + numDeferredOutputCallbacks

\* A driver callback is never answered by a write: outputCallbackCallback
\* finds an element for which it was asked (the else branch of processLo,
\* interruptCallbackOutput, outputCallbackCallback).
NoEcho == config.output /\ callbacks > 0 => ~Empty

\* The record has the value of the most recent callback, which is the one the
\* driver has, once nothing is under way (the comment at the overflow in
\* interruptCallbackInput).
MostRecent == Quiet /\ informed /\ record.alarm = "ok" => record.val = device

\* The port thread writes the value that the output record had as it began to
\* process (result.value in processLo and processCallbackOutput).
PutWritten == config.output /\ (queued \/ pc = "driver") => result.value = put

\* no client starts a record of a port that can block while a driver
\* callback is pending
Undisturbed == config.calm \/ ~config.canBlock

\* MostRecent, if clients do not disturb the callbacks (interruptCallbackInput,
\* interruptCallbackOutput, getCallbackValue, processLi, processLo).
Settled == Undisturbed => MostRecent

\* PutWritten, if clients do not disturb the callbacks (processLo,
\* interruptCallbackOutput, outputCallbackCallback).
PutKept == Undisturbed => PutWritten

\* Values are taken in the order of the callbacks (interruptCallbackInput, getCallbackValue).
InOrder == [][seen' # seen => seen' > seen]_vars

=============================================================================
