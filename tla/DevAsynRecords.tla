--------------------------- MODULE DevAsynRecords ---------------------------
(***************************************************************************)
(* Records with the device supports of asyn/devEpics, in an IOC: clients   *)
(* and scan tasks process the record, the port thread does its I/O, and a  *)
(* thread of the driver changes the device and calls back.                 *)
(***************************************************************************)
EXTENDS DevAsynScalars, DevAsynOctet, DevAsynArray

IsOctet == support.interface = "Octet"
IsArray == support.interface = "Array"
IsSeries == support.interface = "TimeSeries"
IsScalar == ~IsOctet /\ ~IsArray /\ ~IsSeries

-----------------------------------------------------------------------------
(***************************************************************************)
(* The device support entry tables.                                        *)
(***************************************************************************)
init_record ==
    CASE support.dset = "asynAiInt32" -> Int32_initAi
      [] support.dset = "asynAiInt32Average" -> Int32_initAiAverage
      [] support.dset = "asynAoInt32" -> Int32_initAo
      [] support.dset = "asynLiInt32" -> Int32_initLi
      [] support.dset = "asynLoInt32" -> Int32_initLo
      [] support.dset = "asynBiInt32" -> Int32_initBi
      [] support.dset = "asynBoInt32" -> Int32_initBo
      [] support.dset = "asynMbbiInt32" -> Int32_initMbbi
      [] support.dset = "asynMbboInt32" -> Int32_initMbbo
      [] support.dset = "asynInt64In" -> Int64_initLLi
      [] support.dset = "asynInt64Out" -> Int64_initLLo
      [] support.dset = "asynAiInt64" -> Int64_initAi
      [] support.dset = "asynAoInt64" -> Int64_initAo
      [] support.dset = "asynLiInt64" -> Int64_initLi
      [] support.dset = "asynLoInt64" -> Int64_initLo
      [] support.dset = "asynAiFloat64" -> Float64_initAi
      [] support.dset = "asynAoFloat64" -> Float64_initAo
      [] support.dset = "asynAiFloat64Average" -> Float64_initAiAverage
      [] support.dset = "asynBiUInt32Digital" -> UInt32_initBi
      [] support.dset = "asynBoUInt32Digital" -> UInt32_initBo
      [] support.dset = "asynLiUInt32Digital" -> UInt32_initLi
      [] support.dset = "asynLoUInt32Digital" -> UInt32_initLo
      [] support.dset = "asynMbbiUInt32Digital" -> UInt32_initMbbi
      [] support.dset = "asynMbboUInt32Digital" -> UInt32_initMbbo
      [] support.dset = "asynMbbiDirectUInt32Digital" -> UInt32_initMbbiDirect
      [] support.dset = "asynMbboDirectUInt32Digital" -> UInt32_initMbboDirect
      [] support.dset = "asynSiOctetCmdResponse" -> initSiCmdResponse
      [] support.dset = "asynSiOctetWriteRead" -> initSiWriteRead
      [] support.dset = "asynSiOctetRead" -> initSiRead
      [] support.dset = "asynSoOctetWrite" -> initSoWrite
      [] support.dset = "asynWfOctetCmdResponse" -> initWfCmdResponse
      [] support.dset = "asynWfOctetWriteRead" -> initWfWriteRead
      [] support.dset = "asynWfOctetRead" -> initWfRead
      [] support.dset = "asynWfOctetWrite" -> initWfWrite
      [] support.dset = "asynWfOctetWriteBinary" -> initWfWriteBinary
      [] support.dset = "asynLsiOctetCmdResponse" -> initLsiCmdResponse
      [] support.dset = "asynLsiOctetWriteRead" -> initLsiWriteRead
      [] support.dset = "asynLsiOctetRead" -> initLsiRead
      [] support.dset = "asynLsoOctetWrite" -> initLsoWrite
      [] support.dset = "asynPfOctetWrite" -> initPfWrite
      [] support.dset = "asynScalcoutOctetWrite" -> initScalcoutWrite
      [] IsArray -> devAsynXXXArray
      [] IsSeries -> TimeSeries_initRecord

read_or_write(state, phase) ==
    CASE support.dset = "asynAiInt32" -> Int32_processAi(state, phase)
      [] support.dset = "asynAiInt32Average" -> Int32_processAiAverage(state, phase)
      [] support.dset = "asynAoInt32" -> Int32_processAo(state, phase)
      [] support.dset = "asynLiInt32" -> Int32_processLi(state, phase)
      [] support.dset = "asynLoInt32" -> Int32_processLo(state, phase)
      [] support.dset = "asynBiInt32" -> Int32_processBi(state, phase)
      [] support.dset = "asynBoInt32" -> Int32_processBo(state, phase)
      [] support.dset = "asynMbbiInt32" -> Int32_processMbbi(state, phase)
      [] support.dset = "asynMbboInt32" -> Int32_processMbbo(state, phase)
      [] support.dset = "asynInt64In" -> Int64_processLLi(state, phase)
      [] support.dset = "asynInt64Out" -> Int64_processLLo(state, phase)
      [] support.dset = "asynAiInt64" -> Int64_processAi(state, phase)
      [] support.dset = "asynAoInt64" -> Int64_processAo(state, phase)
      [] support.dset = "asynLiInt64" -> Int64_processLi(state, phase)
      [] support.dset = "asynLoInt64" -> Int64_processLo(state, phase)
      [] support.dset = "asynAiFloat64" -> Float64_processAi(state, phase)
      [] support.dset = "asynAoFloat64" -> Float64_processAo(state, phase)
      [] support.dset = "asynAiFloat64Average" -> Float64_processAiAverage(state, phase)
      [] support.dset = "asynBiUInt32Digital" -> UInt32_processBi(state, phase)
      [] support.dset = "asynBoUInt32Digital" -> UInt32_processBo(state, phase)
      [] support.dset = "asynLiUInt32Digital" -> UInt32_processLi(state, phase)
      [] support.dset = "asynLoUInt32Digital" -> UInt32_processLo(state, phase)
      [] support.dset = "asynMbbiUInt32Digital" -> UInt32_processMbbi(state, phase)
      [] support.dset = "asynMbboUInt32Digital" -> UInt32_processMbbo(state, phase)
      [] support.dset = "asynMbbiDirectUInt32Digital" -> UInt32_processMbbiDirect(state, phase)
      [] support.dset = "asynMbboDirectUInt32Digital" -> UInt32_processMbboDirect(state, phase)
      [] IsOctet -> processCommon(state, phase)
      [] IsArray -> Array_process(state, phase)
      [] IsSeries -> TimeSeries_process(state, phase, 0)

get_ioint_info(state) ==
    CASE support.interface = "Int32" -> Int32_getIoIntInfo(state)
      [] support.interface = "Int64" -> Int64_getIoIntInfo(state)
      [] support.interface = "Float64" -> Float64_getIoIntInfo(state)
      [] support.interface = "UInt32Digital" -> UInt32_getIoIntInfo(state)
      [] IsOctet -> Octet_getIoIntInfo(state)
      [] IsArray -> Array_getIoIntInfo(state)

\* the callback of queueRequest for an input record
read(state, status) ==
    CASE support.interface = "Int32" -> {Int32_processCallbackInput(state, status)}
      [] support.interface = "Int64" -> {Int64_processCallbackInput(state, status)}
      [] support.interface = "Float64" -> {Float64_processCallbackInput(state, status)}
      [] support.interface = "UInt32Digital" -> {UInt32_processCallbackInput(state, status)}
      [] support.octet = "SiCmdResponse" -> callbackSiCmdResponse(state, status)
      [] support.octet = "SiWriteRead" -> callbackSiWriteRead(state, status)
      [] support.octet = "SiRead" -> callbackSiRead(state, status)
      [] support.octet = "WfCmdResponse" -> callbackWfCmdResponse(state, status)
      [] support.octet = "WfWriteRead" -> callbackWfWriteRead(state, status)
      [] support.octet = "WfRead" -> callbackWfRead(state, status)
      [] support.octet = "LsiCmdResponse" -> callbackLsiCmdResponse(state, status)
      [] support.octet = "LsiWriteRead" -> callbackLsiWriteRead(state, status)
      [] support.octet = "LsiRead" -> callbackLsiRead(state, status)
      [] IsArray -> queueRequestCallback(state, status)

\* what the callback of an output record sends
message ==
    CASE support.octet = "SoWrite" -> callbackSoWrite(record)
      [] support.octet = "WfWrite" -> callbackWfWrite(record)
      [] support.octet = "WfWriteBinary" -> callbackWfWriteBinary(record)
      [] support.octet = "LsoWrite" -> callbackLsoWrite(record)
      [] support.octet = "PfWrite" -> callbackPfWrite(record)
      [] support.octet = "ScalcoutWrite" -> callbackScalcoutWrite(record)
      [] IsArray -> SubSeq(record.val, 1, record.nord)
      [] IsScalar -> pvt.result.value

\* and what it does when the driver has returned
written(state, status) ==
    CASE support.interface = "Int32" -> {Int32_processCallbackOutput(state, status)}
      [] support.interface = "Int64" -> {Int64_processCallbackOutput(state, status)}
      [] support.interface = "Float64" -> {Float64_processCallbackOutput(state, status)}
      [] support.interface = "UInt32Digital" -> {UInt32_processCallbackOutput(state, status)}
      [] IsOctet -> finish({writeIt(state, status)})
      [] IsArray -> queueRequestCallback(state, status)

interrupt_callback(state, told) ==
    CASE support.dset = "asynAiInt32Average" -> Int32_interruptCallbackAverage(state, told)
      [] support.dset = "asynAiFloat64Average" -> Float64_interruptCallbackAverage(state, told)
      [] support.interface = "Int32" /\ ~support.average ->
           IF support.output THEN Int32_interruptCallbackOutput(state, told)
           ELSE Int32_interruptCallbackInput(state, told)
      [] support.interface = "Int64" ->
           IF support.output THEN Int64_interruptCallbackOutput(state, told)
           ELSE Int64_interruptCallbackInput(state, told)
      [] support.interface = "Float64" /\ ~support.average ->
           IF support.output THEN Float64_interruptCallbackOutput(state, told)
           ELSE Float64_interruptCallbackInput(state, told)
      [] support.interface = "UInt32Digital" ->
           IF support.output THEN UInt32_interruptCallbackOutput(state, told)
           ELSE UInt32_interruptCallbackInput(state, told)
      [] IsOctet -> Octet_interruptCallback(state, told)
      [] IsArray -> Array_interruptCallback(state, told)
      [] IsSeries -> TimeSeries_interruptCallback(state, told)

enum_callback(rec, values) ==
    CASE support.dset = "asynMbbiInt32" -> Int32_interruptCallbackEnumMbbi(rec, values)
      [] support.dset = "asynMbboInt32" -> Int32_interruptCallbackEnumMbbo(rec, values)
      [] support.dset = "asynBiInt32" -> Int32_interruptCallbackEnumBi(rec, values)
      [] support.dset = "asynBoInt32" -> Int32_interruptCallbackEnumBo(rec, values)
      [] support.dset = "asynMbbiUInt32Digital" -> UInt32_interruptCallbackEnumMbbi(rec, values)
      [] support.dset = "asynMbboUInt32Digital" -> UInt32_interruptCallbackEnumMbbo(rec, values)
      [] support.dset = "asynBiUInt32Digital" -> UInt32_interruptCallbackEnumBi(rec, values)
      [] support.dset = "asynBoUInt32Digital" -> UInt32_interruptCallbackEnumBo(rec, values)

output_callback(state) ==
    CASE support.interface = "Int32" -> Int32_outputCallbackCallback(state, read_or_write)
      [] support.interface = "Int64" -> Int64_outputCallbackCallback(state, read_or_write)
      [] support.interface = "Float64" -> Float64_outputCallbackCallback(state, read_or_write)
      [] support.interface = "UInt32Digital" -> UInt32_outputCallbackCallback(state, read_or_write)
      [] IsOctet -> Octet_outputCallbackCallback(state, read_or_write)

-----------------------------------------------------------------------------
(***************************************************************************)
(* The thread that has the scan lock of the record.                        *)
(***************************************************************************)
Free == thread.pc = "idle"

\* dbProcess: nothing for a record that is active
Process(state) ==
    IF state.record.pact THEN {state}
    ELSE read_or_write([state EXCEPT !.thread.failed = "no"], "start")

Leave(states) == \E state \in states : Become(state)

others == <<support, interruptAccept, device, driver>>

\* a callback that the driver's callback asked for; an output record that is
\* active drops the value
scan ==
    /\ Free /\ thread.scans > 0
    /\ LET called == [State EXCEPT !.thread.scans = @ - 1]
       IN  Leave(IF support.output /\ ~IsArray
                 THEN output_callback([called EXCEPT !.thread.failed = IF record.pact THEN @ ELSE "no"])
                 ELSE IF support.output \/ pvt.isIOIntrScan THEN Process(called) ELSE {called})
    /\ history' = [history EXCEPT !.informed = @ /\ ~(support.output /\ record.pact)]
    /\ UNCHANGED others

Client(informed) ==
    /\ Free /\ interruptAccept /\ history.clients < MaxClients
    /\ history' = [history EXCEPT !.clients = @ + 1, !.informed = informed]
    /\ UNCHANGED others

clientProcess == Client(history.informed) /\ ~record.pact /\ Leave(Process(State))

\* a put to VAL, which then is processed
Put(rec, v) ==
    IF IsOctet
    THEN SetLen([rec EXCEPT !.val = Terminated(CopyIn(@, v), Len(v)), !.udf = FALSE], Len(v))
    ELSE IF IsArray
    THEN [rec EXCEPT !.val = Overwritten(@, v), !.nord = Len(v), !.udf = FALSE]
    ELSE [rec EXCEPT !.val = v, !.bits = IF support.record = "direct" THEN BitsOf(v) ELSE @, !.udf = FALSE]

clientPut ==
    /\ Client(FALSE) /\ support.output /\ ~record.pact
    /\ \E v \in support.puts : Leave(Process([State EXCEPT !.record = Put(@, v)]))

\* a put to RARM of a time series
clientArm ==
    /\ Free /\ interruptAccept /\ history.clients < MaxClients
    /\ IsSeries /\ ~record.pact
    /\ \E rarm \in 1 .. 3 :
         /\ Leave(TimeSeries_process(State, "start", rarm))
         /\ history' = [history EXCEPT !.clients = @ + 1, !.series = IF rarm = 1 THEN <<>> ELSE @]
    /\ UNCHANGED others

\* queueRequest has returned, or the thread goes on after an unlock
processEnd ==
    /\ thread.pc \in {"end", "copy", "reset"}
    /\ Leave(read_or_write(State, thread.pc))
    /\ history' = IF support.counts
                  THEN [history EXCEPT !.averaged = <<@[1] + pvt.average[1], @[2] + pvt.average[2]>>]
                  ELSE history
    /\ UNCHANGED others

HasCallback == pvt.ringBuffer # <<>> \/ pvt.gotValue > 0 \/ pvt.ringHead # pvt.ringTail

\* the callback that ends asynchronous processing; an input record that has
\* been told a value since takes that
processCallback ==
    /\ Free /\ thread.done
    /\ Leave(read_or_write(
         [State EXCEPT !.thread.done = FALSE,
                       !.thread.failed = IF ~support.output /\ HasCallback THEN "no" ELSE @], "start"))
    /\ UNCHANGED <<others, history>>

\* SCAN is changed; the thread waits for the list of interrupt users
getIoIntInfo ==
    /\ Client(history.informed) /\ ~support.output /\ support.iointr /\ record.alarm # "link"
    /\ thread' = [thread EXCEPT !.pc = "iointr"]
    /\ UNCHANGED <<pvt, record>>

ListFree == driver.stage \notin {"callback", "copied"}

listChanged ==
    /\ ListFree
    /\ \/ /\ thread.pc = "iointr"
          /\ Become([get_ioint_info(State) EXCEPT !.thread.pc = "idle"])
       \/ /\ thread.pc = "list"
          /\ Become(TimeSeries_list(State))
    /\ UNCHANGED <<others, history>>

iocRun ==
    /\ ~interruptAccept
    /\ interruptAccept' = TRUE
    /\ UNCHANGED <<support, device, driver, pvt, record, thread, history>>

-----------------------------------------------------------------------------
(***************************************************************************)
(* I/O, by the thread of the port or, if it cannot block, by the thread    *)
(* that processes the record.  External: the driver, which tells every     *)
(* write that succeeds.                                                    *)
(***************************************************************************)
Actor == IF support.canBlock THEN "port" ELSE "record"

Started == IF support.canBlock THEN thread.queued ELSE thread.pc = "driver"

Returned(states, status) ==
    {[state EXCEPT !.thread = IF support.canBlock THEN [@ EXCEPT !.queued = FALSE] ELSE [@ EXCEPT !.pc = "end"],
                   !.thread.failed = IF status = "success" THEN "no" ELSE "io"] : state \in states}

Outcomes == IF IsOctet THEN Octet_outcomes ELSE {"success", "timeout"}

Told(value, status) == [value |-> value, status |-> status, alarm |-> "none"]

readDevice ==
    /\ Started /\ ~support.output /\ driver.by = "none"
    /\ \E status \in IF device.status = "success" THEN Outcomes ELSE {"error"} :
         /\ Leave(Returned(read(State, status), status))
         /\ history' = [history EXCEPT !.informed = status = "success" \/ @]
    /\ UNCHANGED others

Masked(old, new) ==
    IF support.interface = "UInt32Digital" THEN old - (old & support.mask) + (new & support.mask) ELSE new

writeDevice ==
    /\ Started /\ support.output /\ driver.by = "none"
    /\ \E status \in Outcomes :
         IF status = "timeout"
         THEN /\ Leave(Returned(written(State, status), status))
              /\ history' = [history EXCEPT !.informed = FALSE]
              /\ UNCHANGED <<device, driver>>
         ELSE LET sent == IF status = "short" THEN SubSeq(message, 1, Len(message) - 1) ELSE message
                  value == Masked(device.value, sent)
              IN  /\ status = "short" => message # <<>>
                  /\ device' = [device EXCEPT !.value = value, !.status = "success"]
                  /\ driver' = [by |-> Actor, stage |-> "callback", returns |-> status,
                                told |-> Told(value, "success")]
                  /\ history' = [history EXCEPT !.informed = ~pvt.registered]
                  /\ UNCHANGED <<pvt, record, thread>>
    /\ UNCHANGED <<support, interruptAccept>>

\* the driver's method returns, or its thread is done with the callback
driverReturns ==
    /\ driver.stage = "done"
    /\ IF driver.by = "driver" THEN UNCHANGED <<pvt, record, thread>>
       ELSE Leave(Returned(written(State, driver.returns), driver.returns))
    /\ driver' = [driver EXCEPT !.by = "none", !.stage = "none"]
    /\ UNCHANGED <<support, interruptAccept, device, history>>

-----------------------------------------------------------------------------
(***************************************************************************)
(* The thread of the driver, which calls back with its lock held.          *)
(***************************************************************************)
Change ==
    /\ driver.by = "none" /\ history.events < MaxEvents
    /\ UNCHANGED <<support, interruptAccept, pvt, record, thread>>

deviceChanges ==
    /\ Change
    /\ \E v \in support.values, status \in support.statuses :
         LET value == IF support.counts THEN 2 ^ history.events ELSE v
         IN  /\ device' = [device EXCEPT !.value = value, !.status = status]
             /\ driver' = [by |-> "driver", stage |-> "callback", returns |-> "success",
                           told |-> Told(value, status)]
    /\ history' = [history EXCEPT !.events = @ + 1, !.informed = FALSE]

enumsChange ==
    /\ Change /\ support.enums
    /\ \E values \in {<<0, 1, 2>>, <<2, 0>>} \ {device.enums} :
         device' = [device EXCEPT !.enums = values]
    /\ driver' = [by |-> "driver", stage |-> "enum", returns |-> "success",
                  told |-> Told(device.value, "success")]
    /\ history' = [history EXCEPT !.events = @ + 1]

\* dbScanLock, which a thread that has the lock may take again
ScanLockFree == Free \/ driver.by = "record"

\* the first part of a callback without a ring buffer
interruptCopy ==
    /\ driver.stage = "callback" /\ pvt.registered /\ IsOctet
    /\ Octet_interruptCopies(State, driver.told)
    /\ ScanLockFree
    /\ Become(Octet_interruptCopy(State, driver.told))
    /\ driver' = [driver EXCEPT !.stage = "copied"]
    /\ history' = [history EXCEPT !.informed = TRUE]
    /\ UNCHANGED <<support, interruptAccept, device>>

CallbackReady ==
    \/ driver.stage = "copied"
    \/ /\ driver.stage = "callback"
       /\ IsOctet /\ pvt.registered => ~Octet_interruptCopies(State, driver.told)
       /\ IsArray /\ pvt.registered /\ Array_interruptNeedsScanLock(State) => ScanLockFree
       /\ IsSeries /\ pvt.registered => thread.pc \notin {"list", "end"}

\* the ghosts: what the record has been told
Noted(told) ==
    LET heard == pvt.registered /\ (interruptAccept \/ IsSeries)
    IN  [history EXCEPT
           !.informed = IF driver.stage = "copied" THEN @ ELSE heard \/ (driver.by # "driver" /\ @),
           !.told = IF heard /\ support.counts THEN <<@[1] + told.value, @[2] + 1>> ELSE @,
           !.series = IF heard /\ IsSeries /\ pvt.busy THEN Append(@, told.value) ELSE @]

interruptCallback ==
    LET told == IF support.interface = "UInt32Digital"
                THEN [driver.told EXCEPT !.value = @ & support.mask] ELSE driver.told
    IN  /\ CallbackReady
        /\ IF pvt.registered THEN Become(interrupt_callback(State, told)) ELSE UNCHANGED <<pvt, record, thread>>
        /\ driver' = [driver EXCEPT !.stage = "done"]
        /\ history' = Noted(told)
        /\ UNCHANGED <<support, interruptAccept, device>>

\* an enum callback takes the scan lock too
enumCallback ==
    /\ driver.stage = "enum"
    /\ interruptAccept => ScanLockFree
    /\ record' = IF interruptAccept /\ record.alarm # "link" THEN enum_callback(record, device.enums) ELSE record
    /\ driver' = [driver EXCEPT !.stage = "done"]
    /\ UNCHANGED <<support, interruptAccept, device, pvt, thread, history>>

-----------------------------------------------------------------------------
Init ==
    /\ support \in Supports
    /\ interruptAccept = FALSE
    /\ device \in [value : IF support.counts THEN {0} ELSE support.values, status : {"success"},
                    enums : IF support.enums THEN {<<0, 1, 2>>} ELSE {<<>>}]
    /\ driver = [by |-> "none", stage |-> "none", returns |-> "success", told |-> Told(device.value, "success")]
    /\ \E state \in init_record :
         pvt = state.pvt /\ record = state.record /\ thread = state.thread
    /\ history = [clients |-> 0, events |-> 0,
                  informed |-> support.output /\ ~record.udf,
                  averaged |-> <<0, 0>>, told |-> <<0, 0>>, series |-> <<>>]

RecordStep ==
    scan \/ clientProcess \/ clientPut \/ clientArm \/ processEnd \/ processCallback
      \/ getIoIntInfo \/ listChanged \/ iocRun

DriverStep ==
    readDevice \/ writeDevice \/ driverReturns \/ deviceChanges \/ enumsChange
      \/ interruptCopy \/ interruptCallback \/ enumCallback

Next == RecordStep \/ DriverStep

Spec == Init /\ [][Next]_vars

-----------------------------------------------------------------------------
(***************************************************************************)
(* Properties                                                              *)
(***************************************************************************)
\* nothing is under way
Quiet ==
    /\ Free /\ ~record.pact /\ driver.by = "none"
    /\ thread.scans = 0 /\ ~thread.queued /\ ~thread.done
    /\ ~HasCallback

\* the number in the range of the bits that is the value modulo that range
InBits(value) ==
    LET n == Int32_nbits
    IN  IF n = 0 THEN value
        ELSE CHOOSE x \in IF support.nbits < 0 THEN -(2 ^ (n - 1)) .. 2 ^ (n - 1) - 1 ELSE 0 .. 2 ^ n - 1 :
               (x - value) % 2 ^ n = 0

\* the value of the lowest bit the record is about
Unit ==
    IF support.interface = "UInt32Digital" THEN support.mask - (support.mask & (support.mask - 1))
    ELSE 2 ^ support.shft

\* the engineering value that LINEAR makes of the range of the device
OnLine(raw) ==
    \E bounds \in Int32_getBounds :
       IF bounds[1] = bounds[2] THEN record.val = raw
       ELSE (record.val - support.egul) * (bounds[2] - bounds[1]) = (support.eguf - support.egul) * (raw - bounds[1])

Shows(value) ==
    CASE support.record \in {"ai", "ao"} /\ support.interface = "Int32" /\ ~support.counts ->
           IF support.linr = "linear" THEN OnLine(InBits(value))
           ELSE record.val = Scaled(InBits(value) + support.roff)
      [] support.record \in {"ai", "ao"} /\ support.interface = "Int64" -> record.val = value
      [] support.record \in {"ai", "ao"} /\ support.interface = "Float64" -> record.val = Scaled(value)
      [] support.record = "long" ->
           record.val = IF support.mask # 0 THEN value & support.mask
                        ELSE IF support.interface = "Int32" THEN InBits(value) ELSE value
      [] support.record = "int32" -> (value - record.val) % WordSize = 0
      [] support.record \in {"bi", "bo"} ->
           record.val = IF (IF support.mask = 0 THEN value ELSE value & support.mask) = 0 THEN 0 ELSE 1
      [] support.record = "mbb" ->
           ~support.enums => record.val = mbb_state(record, (value & record.mask) \div Unit)
      [] support.record = "direct" ->
           /\ record.val * Unit = value & support.mask
           /\ record.bits \cap 0 .. 7 = BitsOf(record.val) \cap 0 .. 7
      [] IsOctet -> StringIn(record.val, support.valSize - 1) = Clipped(StringIn(value, Len(value)), support.valSize - 1)
      [] IsArray -> SubSeq(record.val, 1, record.nord) = Fitting(value)

\* When nothing is under way, and the record has been told of the last change
\* of the device, read it or made it, then it shows the value that the device
\* has, in the form its record type gives it; and if that last change came
\* with an error it shows an alarm.  (processAi to processMbboDirect,
\* processCommon and devAsynXXXArray::process, with their callbacks.)
ShowsDevice ==
    Quiet /\ history.informed /\ ~IsSeries /\ ~support.counts =>
      IF device.status = "success"
      THEN ~record.udf /\ record.alarm \in {"none", "udf"} => Shows(device.value)
      ELSE support.average \/ record.alarm # "none"

\* A request that the port refuses, or that fails, ends with an alarm in the
\* record (reportQueueRequestStatus, processCallbackInput and Output).
FailureShown == Free /\ ~record.pact /\ thread.failed # "no" => record.alarm # "none"

\* The same where it holds: not of requests refused to devAsynOctet.c and
\* devAsynXXXArray.cpp, nor of writes in the port thread of a record that is
\* called back, whose result a callback may replace.
MostFailuresShown ==
    (IsScalar \/ thread.failed = "io") /\ ~(support.canBlock /\ support.output /\ pvt.registered) => FailureShown

SumOf(elements) ==
    LET sum[i \in 0 .. Len(elements)] ==
          IF i = 0 THEN <<0, 0>>
          ELSE <<sum[i - 1][1] + elements[i].value[1], sum[i - 1][2] + elements[i].value[2]>>
    IN  sum[Len(elements)]

\* Every reading an average record is told goes into exactly one average,
\* also when SCAN changes in between: the readings of the averages it has
\* shown, of those in the ring buffer and of the sum it is at are the ones it
\* was told.  (interruptCallbackAverage and processAiAverage.)
AverageExact ==
    support.counts =>
      LET buffered == SumOf(pvt.ringBuffer)
          taken == IF thread.pc = "end" THEN pvt.average ELSE <<0, 0>>
      IN  /\ history.told[1] = history.averaged[1] + buffered[1] + taken[1] + pvt.sum
          /\ history.told[2] = history.averaged[2] + buffered[2] + taken[2] + pvt.numAverage

\* what a time series keeps is what it was told since it was started, in that
\* order, until it is full
SeriesExact ==
    IsSeries =>
      /\ pvt.nord = (IF Len(history.series) < support.nelm THEN Len(history.series) ELSE support.nelm)
      /\ SubSeq(record.val, 1, pvt.nord) = SubSeq(history.series, 1, pvt.nord)

\* the driver's callback waits for the scan lock of the record, or for the
\* lock of a time series
DriverWaits ==
    \/ driver.stage = "callback" /\ ~ENABLED interruptCopy /\ ~ENABLED interruptCallback
    \/ driver.stage = "enum" /\ ~ENABLED enumCallback

\* the thread that processes the record waits for the driver, or for the end
\* of its callbacks
RecordWaits ==
    \/ thread.pc = "driver" /\ driver.by \notin {"none", "record"}
    \/ thread.pc \in {"iointr", "list"} /\ ~ListFree

\* A callback of the driver never waits for a thread that waits for the
\* driver: it always returns.
NoDeadlock == ~(DriverWaits /\ RecordWaits)

\* The same of all but time series, which cancel their callback with the lock
\* held that it takes.
CallbacksReturn == ~IsSeries => NoDeadlock

=============================================================================
