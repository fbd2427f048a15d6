--------------------------- MODULE DevAsynScalars ---------------------------
(***************************************************************************)
(* The device supports of scalar records: devAsynInt32.c, devAsynInt64.c,  *)
(* devAsynFloat64.c and devAsynUInt32Digital.c.  The functions of a file   *)
(* have its interface's name as prefix.  A read that fails, or is refused, *)
(* leaves the value of the record alone.                                   *)
(***************************************************************************)
EXTENDS DevAsyn, Bitwise

CONSTANTS WordSize     \* number of values of an epicsInt32

-----------------------------------------------------------------------------
(***************************************************************************)
(* External: the record supports, which convert between VAL and RVAL.      *)
(***************************************************************************)
Scaled(value) == (IF support.aslo = 0 THEN value ELSE value * support.aslo) + support.aoff

Unscaled(value) == IF support.aslo = 0 THEN value - support.aoff ELSE (value - support.aoff) \div support.aslo

Linear(rec, value) == IF support.linr = "linear" THEN value * rec.eslo + rec.eoff ELSE value

ai_convert(rec, raw) ==
    [rec EXCEPT !.rval = raw, !.val = Linear(rec, Scaled(raw + support.roff))]

ao_raw(rec) ==
    Unscaled(IF support.linr = "linear" THEN (rec.val - rec.eoff) \div rec.eslo ELSE rec.val) - support.roff

\* the state of a raw value, 65535 if there is none; the values of the states
\* are those of the enums, once the driver has given some
States(rec) == IF rec.enums # <<>> THEN rec.enums ELSE support.states

mbb_state(rec, raw) ==
    IF States(rec) = <<>> THEN raw
    ELSE IF \E i \in DOMAIN States(rec) : States(rec)[i] = raw
    THEN (CHOOSE i \in DOMAIN States(rec) :
             States(rec)[i] = raw /\ \A j \in 1 .. i - 1 : States(rec)[j] # raw) - 1
    ELSE 65535

mbbi_convert(rec, raw) ==
    [rec EXCEPT !.rval = raw, !.val = mbb_state(rec, raw \div 2 ^ rec.shft)]

mbbo_raw(rec) ==
    (IF rec.val + 1 \in DOMAIN States(rec) THEN States(rec)[rec.val + 1] ELSE rec.val) * 2 ^ rec.shft

bi_convert(rec, raw) == [rec EXCEPT !.rval = raw, !.val = IF raw = 0 THEN 0 ELSE 1]

bo_raw(rec) == IF rec.mask # 0 /\ rec.val # 0 THEN rec.mask ELSE rec.val

\* init_record of mbbi and mbbo: the mask that NOBT gives
nobt_mask == 2 ^ support.nobt - 1

SetVal(rec, value) == [rec EXCEPT !.val = value]

BitsOf(val) == {i \in 0 .. 15 : (val \div 2 ^ i) % 2 = 1}

-----------------------------------------------------------------------------
(***************************************************************************)
(* Interface asynEnum, for Int32 and UInt32Digital: the states of bi, bo,  *)
(* mbbi and mbbo records.  bi and bo take the names only.                  *)
(***************************************************************************)
MaxEnums == IF support.record \in {"bi", "bo"} THEN 2 ELSE 16

\* the states the driver does not give are cleared
setEnums(rec, values) ==
    [rec EXCEPT !.enums = [i \in 1 .. MaxEnums |-> IF i \in DOMAIN values THEN values[i] ELSE 0]]

\* read at the start, if that succeeds; the callback comes with the changes
InitEnums(states) ==
    IF support.enums
    THEN states \cup {[state EXCEPT !.record = IF @.pact THEN @ ELSE setEnums(@, device.enums)] :
                         state \in states}
    ELSE states

-----------------------------------------------------------------------------
(***************************************************************************)
(* devAsynInt32.c.  nbits, the mask of the link, is negative if bipolar.   *)
(***************************************************************************)
Int32_nbits == IF support.nbits < 0 THEN -support.nbits ELSE support.nbits

Int32_Unsigned(value) == IF support.nbits = 0 THEN value ELSE value % 2 ^ Int32_nbits

\* the bits of the device, with the sign extended
Int32_Masked(value) ==
    LET bits == value % 2 ^ Int32_nbits
    IN  IF support.nbits = 0 THEN value
        ELSE IF support.nbits < 0 /\ bits >= 2 ^ (Int32_nbits - 1) THEN bits - 2 ^ Int32_nbits
        ELSE bits

Int32_initCommon == InitEnums(InitCommon(parseLink \/ parseLinkMask))

\* the range of the device, which the mask or else the driver gives, if it can
Int32_getBounds ==
    IF support.nbits > 0 THEN {<<0, 2 ^ Int32_nbits - 1>>}
    ELSE IF support.nbits < 0
    THEN LET high == (2 ^ Int32_nbits - 1) \div 2 IN {<<-high, high>>}
    ELSE {<<0, 0>>, support.bounds}

Converted(rec, bounds) ==
    LET low == bounds[1]
        high == bounds[2]
    IN  IF low = high THEN rec
        ELSE [rec EXCEPT !.eslo = (support.eguf - support.egul) \div (high - low),
                         !.eoff = (high * support.egul - low * support.eguf) \div (high - low)]

Int32_convertAi(states) ==
    {[state EXCEPT !.record = Converted(@, bounds)] : state \in states, bounds \in Int32_getBounds}

Int32_convertAo(states) ==
    {[state EXCEPT !.record = Converted(@, bounds)] : state \in states, bounds \in Int32_getBounds}

\* averages stay registered
Int32_getIoIntInfo(state) ==
    IF support.average
    THEN [CreateRingBuffer(state) EXCEPT !.pvt.isIOIntrScan = ~@]
    ELSE GetIoIntInfo(state)

Int32_processCallbackInput(state, status) == Read(state, status, Int32_Masked)

Int32_processCallbackOutput(state, status) == Written(state, status)

Int32_interruptCallbackInput(state, told) ==
    PushAccepted(state, [told EXCEPT !.value = Int32_Masked(@)])

Int32_interruptCallbackOutput(state, told) ==
    PushAccepted(state, [told EXCEPT !.value = Int32_Masked(@)])

\* The sum of the readings.  With SCAN = I/O Intr the record is processed for
\* every SVAL of them; otherwise a reading that failed is remembered.
Average(state, told, Mean(_, _)) ==
    LET numAverage == state.pvt.numAverage + 1
        sum == state.pvt.sum + told.value
    IN  IF ~interruptAccept THEN state
        ELSE IF ~state.pvt.isIOIntrScan
        THEN [state EXCEPT !.pvt.numAverage = numAverage, !.pvt.sum = sum,
                           !.pvt.result.alarm = told.alarm,
                           !.pvt.result.status = IF told.status = "success" THEN @ ELSE told.status]
        ELSE IF numAverage < support.sval
        THEN [state EXCEPT !.pvt.numAverage = numAverage, !.pvt.sum = sum]
        ELSE Push([state EXCEPT !.pvt.numAverage = 0, !.pvt.sum = 0],
                  [told EXCEPT !.value = Mean(sum, numAverage)])

\* rounded to the nearest, away from zero
Int32_Mean(sum, numAverage) ==
    IF sum > 0 THEN (2 * sum + numAverage) \div (2 * numAverage)
    ELSE -((numAverage - 2 * sum) \div (2 * numAverage))

Int32_interruptCallbackAverage(state, told) ==
    Average(state, [told EXCEPT !.value = Int32_Masked(@)], Int32_Mean)

Int32_interruptCallbackEnumMbbi(rec, values) == setEnums(rec, values)

Int32_interruptCallbackEnumMbbo(rec, values) == setEnums(rec, values)

Int32_interruptCallbackEnumBi(rec, values) == setEnums(rec, values)

Int32_interruptCallbackEnumBo(rec, values) == setEnums(rec, values)

Int32_initAi == Int32_convertAi(Int32_initCommon)

Int32_processAi(state, phase) == InputProcess(state, phase, ai_convert, FALSE)

Int32_initAiAverage ==
    {[state EXCEPT !.pvt.registered = ~state.record.pact] : state \in Int32_convertAi(Int32_initCommon)}

\* The average is taken with devPvtLock held, its status is looked at later.
TakeAverage(state, Mean(_, _)) ==
    IF HasValue(state)
    THEN LET taken == Pop(state)
         IN  {[taken EXCEPT !.pvt.average = taken.pvt.result.value, !.thread.pc = "end"]}
    ELSE IF state.pvt.numAverage = 0
    THEN {[state EXCEPT !.record.alarm = "udf", !.record.udf = TRUE]}
    ELSE {[state EXCEPT !.pvt.average = Mean(state.pvt.sum, state.pvt.numAverage),
                        !.pvt.numAverage = 0, !.pvt.sum = 0, !.thread.pc = "end"]}

Int32_processAiAverage(state, phase) ==
    IF phase = "end"
    THEN {Show(state, LAMBDA rec, value : ai_convert(rec, state.pvt.average), TRUE)}
    ELSE TakeAverage(state, Int32_Mean)

Int32_initAo ==
    InitialRead(Int32_convertAo(Int32_initCommon), LAMBDA rec, value : ai_convert(rec, Int32_Masked(value)))

Int32_processAo(state, phase) == OutputProcess(state, phase, ao_raw(state.record), ai_convert, TRUE)

Int32_initLi == Int32_initCommon

Int32_processLi(state, phase) == InputProcess(state, phase, SetVal, TRUE)

Int32_initLo == InitialRead(Int32_initCommon, SetVal)

Int32_processLo(state, phase) == OutputProcess(state, phase, state.record.val, SetVal, TRUE)

Int32_initBi == Int32_initCommon

Int32_processBi(state, phase) == InputProcess(state, phase, bi_convert, TRUE)

Int32_initBo == InitialRead(Int32_initCommon, bi_convert)

Int32_processBo(state, phase) == OutputProcess(state, phase, bo_raw(state.record), bi_convert, TRUE)

\* the mask of NOBT bits, all of them if NOBT is 0, shifted by SHFT
Shifted(states) ==
    {[state EXCEPT !.record.shft = support.shft,
                   !.record.mask = (IF support.nobt = 0 THEN 65535 ELSE nobt_mask) * 2 ^ support.shft] :
        state \in states}

mbbi_masked(rec, value) == mbbi_convert(rec, value & rec.mask)

Int32_initMbbi == Shifted(Int32_initCommon)

Int32_processMbbi(state, phase) == InputProcess(state, phase, mbbi_masked, TRUE)

Int32_initMbbo == InitialRead(Shifted(Int32_initCommon), mbbi_masked)

Int32_processMbbo(state, phase) == OutputProcess(state, phase, mbbo_raw(state.record), mbbi_masked, TRUE)

Int32_outputCallbackCallback(state, Process(_, _)) == OutputCallbackCallback(state, Process)

-----------------------------------------------------------------------------
(***************************************************************************)
(* devAsynInt64.c.  Its link has no mask; ai and ao set VAL themselves, so *)
(* that the record does not convert.                                       *)
(***************************************************************************)
Int64_initCommon == InitCommon(parseLink)

Int64_convertAi(states) ==
    {[state EXCEPT !.record = Converted(@, bounds)] : state \in states, bounds \in {<<0, 0>>, support.bounds}}

Int64_convertAo(states) ==
    {[state EXCEPT !.record = Converted(@, bounds)] : state \in states, bounds \in {<<0, 0>>, support.bounds}}

Int64_getIoIntInfo(state) == GetIoIntInfo(state)

Int64_processCallbackInput(state, status) == Read(state, status, LAMBDA value : value)

Int64_processCallbackOutput(state, status) == Written(state, status)

Int64_interruptCallbackInput(state, told) == PushAccepted(state, told)

Int64_interruptCallbackOutput(state, told) == PushAccepted(state, told)

Int64_initLLi == Int64_initCommon

Int64_processLLi(state, phase) == InputProcess(state, phase, SetVal, TRUE)

Int64_initLLo == InitialRead(Int64_initCommon, SetVal)

Int64_processLLo(state, phase) == OutputProcess(state, phase, state.record.val, SetVal, TRUE)

Int64_initAi == Int64_convertAi(Int64_initCommon)

Int64_processAi(state, phase) == InputProcess(state, phase, SetVal, FALSE)

Int64_initAo == InitialRead(Int64_convertAo(Int64_initCommon), SetVal)

\* VAL is written as it is, and what the driver tells is converted
Int64_processAo(state, phase) ==
    OutputProcess(state, phase, state.record.val,
                  LAMBDA rec, value : [rec EXCEPT !.val = Linear(rec, value)], TRUE)

\* (epicsInt32): the low word of the value
Int64_Low(rec, value) == [rec EXCEPT !.val = ((value + WordSize \div 2) % WordSize) - WordSize \div 2]

Int64_initLi == Int64_initCommon

Int64_processLi(state, phase) == InputProcess(state, phase, Int64_Low, TRUE)

Int64_initLo == InitialRead(Int64_initCommon, Int64_Low)

Int64_processLo(state, phase) == OutputProcess(state, phase, state.record.val, Int64_Low, TRUE)

Int64_outputCallbackCallback(state, Process(_, _)) == OutputCallbackCallback(state, Process)

-----------------------------------------------------------------------------
(***************************************************************************)
(* devAsynFloat64.c.  Values are integers, averages <<sum, number>>; SMOO  *)
(* is 0.                                                                   *)
(***************************************************************************)
Float64_initCommon == InitCommon(parseLink)

Float64_getIoIntInfo(state) ==
    IF support.average
    THEN [CreateRingBuffer(state) EXCEPT !.pvt.isIOIntrScan = ~@]
    ELSE GetIoIntInfo(state)

Float64_processCallbackInput(state, status) == Read(state, status, LAMBDA value : value)

Float64_processCallbackOutput(state, status) == Written(state, status)

Float64_interruptCallbackInput(state, told) == PushAccepted(state, told)

Float64_interruptCallbackOutput(state, told) == PushAccepted(state, told)

Float64_Mean(sum, numAverage) == <<sum, numAverage>>

SumNotReset(state, told) ==
    [Average(state, told, Float64_Mean) EXCEPT !.pvt.sum = IF interruptAccept THEN state.pvt.sum + told.value ELSE @]

Float64_interruptCallbackAverage(state, told) == Average(state, told, Float64_Mean)

Float64_scale(rec, value) == [rec EXCEPT !.val = Scaled(value)]

Float64_initAi == Float64_initCommon

Float64_processAi(state, phase) == InputProcess(state, phase, Float64_scale, FALSE)

Float64_initAo == InitialRead(Float64_initCommon, Float64_scale)

Float64_processAo(state, phase) ==
    OutputProcess(state, phase, Unscaled(state.record.val), Float64_scale, TRUE)

Float64_initAiAverage ==
    {[state EXCEPT !.pvt.registered = ~state.record.pact] : state \in Float64_initCommon}

\* an average times ASLO plus AOFF is again a sum and a number
Float64_processAiAverage(state, phase) ==
    IF phase = "end"
    THEN {Show(state, LAMBDA rec, value :
                 LET mean == state.pvt.average
                 IN  [rec EXCEPT !.val = <<(IF support.aslo = 0 THEN mean[1] ELSE mean[1] * support.aslo)
                                             + support.aoff * mean[2], mean[2]>>], TRUE)}
    ELSE TakeAverage(state, Float64_Mean)

Float64_outputCallbackCallback(state, Process(_, _)) == OutputCallbackCallback(state, Process)

-----------------------------------------------------------------------------
(***************************************************************************)
(* devAsynUInt32Digital.c.  The link has the mask of the bits the record   *)
(* is about; reads, writes and callbacks are of these bits only.           *)
(***************************************************************************)
UInt32_initCommon == InitEnums(InitCommon(parseLinkMask))

UInt32_getIoIntInfo(state) == GetIoIntInfo(state)

UInt32_processCallbackInput(state, status) == Read(state, status, LAMBDA value : value & support.mask)

UInt32_processCallbackOutput(state, status) == Written(state, status)

UInt32_interruptCallbackInput(state, told) == PushAccepted(state, told)

UInt32_interruptCallbackOutput(state, told) == PushAccepted(state, told)

UInt32_interruptCallbackEnumMbbi(rec, values) == setEnums(rec, values)

UInt32_interruptCallbackEnumMbbo(rec, values) == setEnums(rec, values)

UInt32_interruptCallbackEnumBi(rec, values) == setEnums(rec, values)

UInt32_interruptCallbackEnumBo(rec, values) == setEnums(rec, values)

\* the number of the lowest bit of the mask, 32 if it has none
computeShift(mask) ==
    IF mask = 0 THEN 32 ELSE CHOOSE i \in 0 .. 31 : mask % 2 ^ (i + 1) = 2 ^ i

UInt32_Masks(states, shft) ==
    {[state EXCEPT !.record.mask = support.mask, !.record.shft = shft] : state \in states}

bi_masked(rec, value) == bi_convert(rec, value & rec.mask)

UInt32_initBi == UInt32_Masks(UInt32_initCommon, 0)

UInt32_processBi(state, phase) == InputProcess(state, phase, bi_masked, TRUE)

UInt32_initBo ==
    InitialRead(UInt32_Masks(UInt32_initCommon, 0), LAMBDA rec, value : bi_convert(rec, value & support.mask))

UInt32_processBo(state, phase) == OutputProcess(state, phase, bo_raw(state.record), bi_masked, TRUE)

UInt32_SetVal(rec, value) == [rec EXCEPT !.val = value & support.mask]

UInt32_initLi == UInt32_initCommon

UInt32_processLi(state, phase) == InputProcess(state, phase, UInt32_SetVal, TRUE)

UInt32_initLo == InitialRead(UInt32_initCommon, UInt32_SetVal)

UInt32_processLo(state, phase) ==
    OutputProcess(state, phase, state.record.val & support.mask, UInt32_SetVal, FALSE)

UInt32_initMbbi == UInt32_Masks(UInt32_initCommon, computeShift(support.mask))

UInt32_processMbbi(state, phase) == InputProcess(state, phase, mbbi_masked, TRUE)

UInt32_initMbbo == InitialRead(UInt32_Masks(UInt32_initCommon, computeShift(support.mask)), mbbi_masked)

UInt32_processMbbo(state, phase) == OutputProcess(state, phase, mbbo_raw(state.record), mbbi_masked, TRUE)

\* no states, but the bits B0 to BF
direct_masked(rec, value, seen) ==
    LET raw == value & rec.mask
        val == raw \div 2 ^ rec.shft
    IN  [rec EXCEPT !.rval = raw, !.val = val, !.bits = BitsOf(val) \cap seen]

UInt32_initMbbiDirect == UInt32_Masks(UInt32_initCommon, computeShift(support.mask))

UInt32_processMbbiDirect(state, phase) ==
    InputProcess(state, phase, LAMBDA rec, value : direct_masked(rec, value, 0 .. 15), TRUE)

UInt32_initMbboDirect ==
    InitialRead(UInt32_Masks(UInt32_initCommon, computeShift(support.mask)),
                LAMBDA rec, value : [direct_masked(rec, value, 0 .. 15) EXCEPT !.rval = rec.rval])

\* a bit is an unsigned char that is given val & 2^i: none is set above B7
UInt32_processMbboDirect(state, phase) ==
    OutputProcess(state, phase, state.record.val * 2 ^ state.record.shft,
                  LAMBDA rec, value : direct_masked(rec, value, 0 .. 7), TRUE)

UInt32_outputCallbackCallback(state, Process(_, _)) == OutputCallbackCallback(state, Process)
=============================================================================
