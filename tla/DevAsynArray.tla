---------------------------- MODULE DevAsynArray ----------------------------
(***************************************************************************)
(* devAsynXXXArray.cpp, waveform and aai or aao records with an array, and *)
(* devAsynXXXTimeSeries.h, waveform records with the history of a scalar.  *)
(* The array has support.nelm elements, the first nord of them are valid.  *)
(***************************************************************************)
EXTENDS DevAsyn

Overwritten(array, values) ==
    [i \in DOMAIN array |-> IF i <= Len(values) THEN values[i] ELSE array[i]]

Fitting(values) == SubSeq(values, 1, IF Len(values) < support.nelm THEN Len(values) ELSE support.nelm)

Zeros == [i \in 1 .. support.nelm |-> 0]

-----------------------------------------------------------------------------
(***************************************************************************)
(* The ring buffer has ringSize slots, each with its own array.  result is *)
(* a copy of a slot, but for the array: result.value is the slot's index.  *)
(***************************************************************************)
createRingBuffer(state) ==
    LET size == IF support.fifo = -1 THEN 0 ELSE support.fifo
    IN  IF state.pvt.ringSize # 0 THEN state
        ELSE [state EXCEPT !.pvt.ringSize = size,
                           !.pvt.slots = [i \in 0 .. size - 1 |->
                              [value |-> Zeros, len |-> 0, status |-> "success", alarm |-> "none"]]]

\* the constructor of devAsynXXXArray
devAsynXXXArray ==
    IF ~parseLink \/ support.driver # "complete" THEN {bad(Fresh)}
    ELSE IF support.output /\ support.readback
    THEN {[createRingBuffer(Fresh) EXCEPT !.pvt.registered = TRUE]}
    ELSE {Fresh}

Array_getIoIntInfo(state) ==
    IF state.pvt.isIOIntrScan THEN Cancelled(state)
    ELSE [createRingBuffer(state) EXCEPT !.pvt.registered = TRUE, !.pvt.isIOIntrScan = TRUE]

After(state, i) == IF i = state.pvt.ringSize - 1 THEN 0 ELSE i + 1

Array_getRingBufferValue(state) ==
    LET tail == state.pvt.ringTail
        slot == state.pvt.slots[tail]
    IN  [state EXCEPT !.pvt.result = [value |-> tail, len |-> slot.len,
                                      status |-> slot.status, alarm |-> slot.alarm],
                      !.pvt.ringTail = After(state, tail), !.thread.pc = "copy"]

\* scanOnce or scanIoRequest
Array_ask(state) ==
    [state EXCEPT !.thread.scans = IF support.output \/ state.pvt.isIOIntrScan THEN @ + 1 ELSE @]

\* Without a ring buffer the record is changed, with the scan lock held.
Array_interruptNeedsScanLock(state) == interruptAccept /\ state.pvt.ringSize = 0

Array_interruptCallback(state, told) ==
    LET values == Fitting(told.value)
        head == After(state, state.pvt.ringHead)
        stored == [state EXCEPT
            !.pvt.slots[state.pvt.ringHead] =
               [value |-> Overwritten(@.value, values), len |-> Len(values),
                status |-> told.status, alarm |-> told.alarm],
            !.pvt.ringHead = head]
    IN  IF ~interruptAccept THEN state
        ELSE IF state.pvt.ringSize = 0
        THEN Array_ask([state EXCEPT
               !.record = IF told.status # "success" THEN @
                          ELSE [@ EXCEPT !.val = Overwritten(@, values), !.nord = Len(values)],
               !.pvt.result = [@ EXCEPT !.status = told.status, !.alarm = told.alarm],
               !.pvt.gotValue = @ + 1])
        ELSE IF head = state.pvt.ringTail
        THEN [stored EXCEPT !.pvt.ringTail = After(state, head)]
        ELSE Array_ask(stored)

\* the I/O of the port thread: a read goes to the record, with what arrived of
\* it if it fails
queueRequestCallback(state, status) ==
    LET values == Fitting(device.value)
        done == [state EXCEPT !.pvt.result = [@ EXCEPT !.status = status, !.alarm = "none"]]
    IN  IF support.output THEN {Finish(done)}
        ELSE IF status = "success"
        THEN {Finish([done EXCEPT !.record = [@ EXCEPT !.val = Overwritten(@, values), !.nord = Len(values),
                                                       !.udf = FALSE]])}
        ELSE {Finish([done EXCEPT !.record.val = Overwritten(@, SubSeq(values, 1, n))]) : n \in 0 .. Len(values)}

Array_show(state) ==
    LET r == asynStatusToEpicsAlarm(state.pvt.result)
    IN  [state EXCEPT !.pvt.result = [r EXCEPT !.status = "success"],
                      !.record = [@ EXCEPT !.alarm = r.alarm, !.pact = FALSE,
                                           !.udf = IF r.status = "success" THEN FALSE ELSE @],
                      !.thread.pc = "idle"]

\* Input or output, a value of the driver comes first.  A request that is
\* refused leaves result alone.  The array is copied from its slot later.
Array_process(state, phase) ==
    LET r == state.pvt.result
    IN  IF phase = "copy"
        THEN {Array_show([state EXCEPT
                !.record = IF r.status # "success" THEN @
                           ELSE [@ EXCEPT !.val = Overwritten(@, SubSeq(state.pvt.slots[r.value].value, 1, r.len)),
                                          !.nord = r.len]])}
        ELSE IF phase = "end" THEN {Array_show(state)}
        ELSE IF state.pvt.ringSize # 0 /\ state.pvt.ringTail # state.pvt.ringHead
        THEN {Array_getRingBufferValue(state)}
        ELSE IF state.pvt.ringSize = 0 /\ state.pvt.gotValue > 0
        THEN {Array_show([state EXCEPT !.pvt.gotValue = @ - 1])}
        ELSE IF state.record.pact THEN {Array_show(state)}
        ELSE Request(state, state)

-----------------------------------------------------------------------------
(***************************************************************************)
(* Time series.  Writing rarm starts (1), stops (2) or resumes (3) it; it  *)
(* stops by itself with the value after the last that fits.  lock is held  *)
(* while process waits to register or cancel the callback.                 *)
(***************************************************************************)
TimeSeries_initRecord ==
    IF parseLink /\ support.driver = "complete" THEN {Fresh} ELSE {[Fresh EXCEPT !.record.pact = TRUE]}

TimeSeriesKeepsOld(state, rarm) ==
    LET busy == IF rarm \in {1, 3} THEN TRUE ELSE IF rarm = 2 THEN FALSE ELSE state.pvt.busy
    IN  {[state EXCEPT !.record.nord = state.pvt.nord, !.record.busy = busy,
                       !.thread.pc = IF busy = state.record.busy THEN "end" ELSE "list"]}

TimeSeries_start(state, rarm) ==
    LET busy == IF rarm \in {1, 3} THEN TRUE ELSE IF rarm = 2 THEN FALSE ELSE state.pvt.busy
        nord == IF rarm = 1 THEN 0 ELSE state.pvt.nord
    IN  {[state EXCEPT !.record = [@ EXCEPT !.val = IF rarm = 1 THEN Zeros ELSE @,
                                            !.nord = nord, !.busy = busy],
                       !.pvt.nord = nord,
                       !.thread.pc = IF busy = state.record.busy THEN "end" ELSE "list"]}

\* registered, or cancelled
TimeSeries_list(state) == [state EXCEPT !.pvt.registered = state.record.busy, !.thread.pc = "end"]

TimeSeries_end(state) ==
    [state EXCEPT !.pvt.busy = state.record.busy,
                  !.record = [@ EXCEPT !.udf = FALSE, !.alarm = IF state.pvt.result.status = "success" THEN "none"
                                                                ELSE state.pvt.result.status],
                  !.thread.pc = "reset"]

\* the status is reset after the lock is free
TimeSeries_process(state, phase, rarm) ==
    IF phase = "end" THEN {TimeSeries_end(state)}
    ELSE IF phase = "reset" THEN {[state EXCEPT !.pvt.result.status = "success", !.thread.pc = "idle"]}
    ELSE TimeSeries_start(state, rarm)

\* the status of the first failure is kept
TimeSeries_interruptCallback(state, told) ==
    LET noted == [state EXCEPT !.pvt.result.status = IF @ = "success" THEN told.status ELSE @]
    IN  IF ~state.pvt.busy THEN noted
        ELSE IF state.pvt.nord < support.nelm
        THEN [noted EXCEPT !.record.val[state.pvt.nord + 1] = told.value, !.pvt.nord = @ + 1]
        ELSE [noted EXCEPT !.pvt.busy = FALSE, !.thread.done = TRUE]
=============================================================================
