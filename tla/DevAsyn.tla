------------------------------- MODULE DevAsyn -------------------------------
(***************************************************************************)
(* What the device supports of asyn/devEpics have in common: one record,   *)
(* the private structure of its device support, the thread of EPICS that   *)
(* processes it, the thread of the port and a thread of the driver.        *)
(*                                                                         *)
(* Three locks matter.  The scan lock of the record is held by the EPICS   *)
(* thread while thread.pc is not "idle"; the lock of the driver by         *)
(* driver.by; and the list of interrupt users is in use while driver.stage *)
(* is "callback".  devPvtLock is held within a step.  Time stamps are in     *)
(* module DevAsynRing.                                                     *)
(*                                                                         *)
(* A function of the device support is an operator on the state of the     *)
(* record, state == [pvt, record, thread], with the set of the states it   *)
(* may leave behind.  phase is "start" when the record support calls it,   *)
(* "callback" when outputCallbackCallback made it do so, and "end" when    *)
(* its call of queueRequest has returned.                                  *)
(***************************************************************************)
EXTENDS Integers, Sequences

CONSTANTS
    Supports,       \* the records to look at
    MaxEvents,      \* bound: changes the driver makes
    MaxClients      \* bound: what clients do

VARIABLES
    support,            \* the record: its type, its link, its info tags
    interruptAccept,
    device,             \* value, status, enums: what the driver has
    driver,             \* by: who holds its lock; stage; told: the callback under way
    pvt,                \* devPvt
    record,
    thread,             \* pc; scans, queued, done: callbacks and requests pending;
                        \* failed: how the last request did
    history             \* what the bounds and the properties refer to

vars == <<support, interruptAccept, device, driver, pvt, record, thread, history>>

State == [pvt |-> pvt, record |-> record, thread |-> thread]

Become(state) ==
    /\ pvt' = state.pvt
    /\ record' = state.record
    /\ thread' = state.thread

-----------------------------------------------------------------------------
(***************************************************************************)
(* asynEpicsUtils                                                          *)
(***************************************************************************)
AlarmNotSet(result) == result

\* the driver's alarm comes before the one that stands for the status
asynStatusToEpicsAlarm(result) ==
    IF result.status # "success" /\ result.alarm = "none"
    THEN [result EXCEPT !.alarm = result.status]
    ELSE result

\* the two forms of a link: the second one has a mask and needs an address
parseLink == support.link = "asyn"

parseLinkMask == support.link = "asynMask"

-----------------------------------------------------------------------------
(***************************************************************************)
(* The ring buffer of scalar and string records, as a sequence; its        *)
(* indices are in module DevAsynRing.                                      *)
(***************************************************************************)
\* scanIoRequest, for a record with SCAN = I/O Intr, or callbackRequest,
\* unless a write is under way
Ask(state) ==
    IF ~support.output
    THEN [state EXCEPT !.thread.scans = IF state.pvt.isIOIntrScan /\ interruptAccept THEN @ + 1 ELSE @]
    ELSE IF state.pvt.asyncProcessingActive
    THEN [state EXCEPT !.pvt.numDeferredOutputCallbacks = @ + 1]
    ELSE [state EXCEPT !.thread.scans = @ + 1]

\* a full buffer loses its oldest element, and nothing is asked for
Push(state, element) ==
    IF Len(state.pvt.ringBuffer) = state.pvt.ringSize
    THEN [state EXCEPT !.pvt.ringBuffer = Tail(Append(@, element))]
    ELSE Ask([state EXCEPT !.pvt.ringBuffer = Append(@, element)])

\* nothing is kept before interruptAccept
PushAccepted(state, element) == IF interruptAccept THEN Push(state, element) ELSE state

HasValue(state) == state.pvt.ringBuffer # <<>>

Pop(state) ==
    [state EXCEPT !.pvt.result = Head(state.pvt.ringBuffer), !.pvt.ringBuffer = Tail(@)]

\* getCallbackValue
GetCallbackValue(state) == IF HasValue(state) THEN Pop(state) ELSE state

-----------------------------------------------------------------------------
(***************************************************************************)
(* queueRequest, which the port may refuse: it is not connected.  A port   *)
(* that can block does the I/O in its thread, another one in this call.    *)
(***************************************************************************)
Request(state, refused) ==
    {[refused EXCEPT !.thread.pc = "end", !.thread.failed = "refused"],
     IF support.canBlock
     THEN [state EXCEPT !.record.pact = TRUE, !.thread.queued = TRUE]
     ELSE [state EXCEPT !.thread.pc = "driver"]}

\* reportQueueRequestStatus of scalar records
Refused(state) == [state EXCEPT !.pvt.result.status = "disconnected"]

\* The end of processXX: the alarm, the value if there is no error, and
\* result.status set back to asynSuccess.
Show(state, Value(_, _), resets) ==
    LET r == asynStatusToEpicsAlarm(state.pvt.result)
    IN  [state EXCEPT
           !.pvt.result = IF resets THEN [r EXCEPT !.status = "success"] ELSE r,
           !.record = [(IF r.status = "success" THEN [Value(@, r.value) EXCEPT !.udf = FALSE] ELSE @)
                         EXCEPT !.alarm = r.alarm, !.pact = FALSE],
           !.thread.pc = "idle"]

\* processAi, processLi, processBi, processMbbi ...
InputProcess(state, phase, Value(_, _), resets) ==
    IF phase = "start" /\ ~HasValue(state) /\ ~state.record.pact
    THEN Request(state, Refused(state))
    ELSE LET taken == IF phase = "start" THEN GetCallbackValue(state) ELSE state
         IN  {Show(taken, Value, resets)}

\* one deferred callback is asked for as the record has been processed
AskDeferred(state) ==
    [state EXCEPT !.pvt.asyncProcessingActive = FALSE,
                  !.pvt.numDeferredOutputCallbacks = IF @ > 0 THEN @ - 1 ELSE 0,
                  !.thread.scans = IF state.pvt.numDeferredOutputCallbacks > 0 THEN @ + 1 ELSE @]

\* processAo, processLo, processBo, processMbbo ...: a value the driver told,
\* if outputCallbackCallback is the caller, or the write of raw
OutputProcess(state, phase, raw, Value(_, _), resets) ==
    IF phase = "callback" /\ HasValue(state)
    THEN {AskDeferred(Show(Pop(state), Value, resets))}
    ELSE IF phase # "end" /\ ~state.record.pact
    THEN LET started == [state EXCEPT !.pvt.result.value = raw,
                                      !.pvt.asyncProcessingActive = support.canBlock]
         IN  Request(started, Refused(started))
    ELSE {AskDeferred(Show(state, LAMBDA rec, value : rec, resets))}

-----------------------------------------------------------------------------
(***************************************************************************)
(* processCallbackInput and processCallbackOutput: the driver's method,    *)
(* with the status it returns.  Who waits for the end is told.             *)
(***************************************************************************)
Finish(state) ==
    IF state.record.pact THEN [state EXCEPT !.thread.done = TRUE] ELSE state

Read(state, status, Raw(_)) ==
    Finish([state EXCEPT !.pvt.result =
              [value |-> IF status = "success" THEN Raw(device.value) ELSE @.value,
               status |-> status, alarm |-> "none"]])

Written(state, status) ==
    Finish([state EXCEPT !.pvt.result =
              [@ EXCEPT !.status = status, !.alarm = "none"]])

-----------------------------------------------------------------------------
(***************************************************************************)
(* init_record.  It fails for a bad link and for a driver without the      *)
(* interface or the parameter, and leaves a record that never processes.   *)
(***************************************************************************)
\* the record, as the database has it
Fresh ==
    [pvt |-> [ringBuffer |-> <<>>, ringSize |-> 0,
              result |-> [value |-> support.initial, status |-> "success", alarm |-> "none"],
              numDeferredOutputCallbacks |-> 0, asyncProcessingActive |-> FALSE,
              registered |-> FALSE, isIOIntrScan |-> FALSE, numAverage |-> 0, sum |-> 0,
              average |-> support.initial, gotValue |-> 0, busy |-> FALSE,
              nord |-> 0, slots |-> <<>>, ringHead |-> 0, ringTail |-> 0],
     record |-> [val |-> support.initial, rval |-> support.initial, bits |-> {}, mask |-> 0,
                 shft |-> 0, eslo |-> 1, eoff |-> 0, enums |-> <<>>, nord |-> 0, busy |-> FALSE,
                 alarm |-> "udf", nsta |-> "none", udf |-> TRUE, pact |-> FALSE],
     thread |-> [pc |-> "idle", scans |-> 0, queued |-> FALSE, done |-> FALSE, failed |-> "no"]]

\* asyn:FIFO is its size, 10 without that tag
CreateRingBuffer(state) ==
    [state EXCEPT !.pvt.ringSize =
       IF @ # 0 THEN @ ELSE IF support.fifo = -1 THEN 10 ELSE support.fifo]

bad(state) == [state EXCEPT !.record.pact = TRUE, !.record.alarm = "link"]

\* initCommon: connect, find the interface, create the parameter, register for
\* callbacks if asyn:READBACK is set
InitCommon(parsed) ==
    IF ~parsed \/ support.driver # "complete" THEN {bad(Fresh)}
    ELSE IF support.output /\ support.readback
    THEN {[CreateRingBuffer(Fresh) EXCEPT !.pvt.registered = TRUE]}
    ELSE {Fresh}

\* an output record takes the value of the device, if that can be read
InitialRead(states, Value(_, _)) ==
    UNION {IF state.record.pact THEN {state}
           ELSE {state, [state EXCEPT !.record = [Value(@, device.value) EXCEPT !.udf = FALSE]]} :
             state \in states}

\* getIoIntInfo: SCAN becomes I/O Intr
Registered(state) ==
    [CreateRingBuffer(state) EXCEPT !.pvt.registered = TRUE, !.pvt.isIOIntrScan = TRUE]

\* SCAN was I/O Intr
Cancelled(state) == [state EXCEPT !.pvt.registered = FALSE, !.pvt.isIOIntrScan = FALSE]

GetIoIntInfo(state) == IF state.pvt.isIOIntrScan THEN Cancelled(state) ELSE Registered(state)

\* outputCallbackCallback: dbProcess does nothing while the record is active,
\* and the value is dropped
OutputCallbackCallback(state, Process(_, _)) ==
    LET called == [state EXCEPT !.record.udf = FALSE]
    IN  IF state.record.pact THEN {GetCallbackValue(called)} ELSE Process(called, "callback")
=============================================================================
