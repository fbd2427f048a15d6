---------------------------- MODULE DevAsynOctet ----------------------------
(***************************************************************************)
(* devAsynOctet.c: stringin, stringout, waveform, lsi, lso, printf and     *)
(* scalcout records.  VAL is a buffer of support.valSize characters, "0"   *)
(* is the one that ends a string.  A read puts the characters into VAL in  *)
(* the thread of the port.                                                 *)
(***************************************************************************)
EXTENDS DevAsyn

\* the first characters of a buffer, the rest stays
CopyIn(buffer, chars) == [i \in DOMAIN buffer |-> IF i <= Len(chars) THEN chars[i] ELSE buffer[i]]

\* the character after the first n becomes the end of the string
Terminated(buffer, n) == [buffer EXCEPT ![n + 1] = "0"]

Clipped(chars, n) == SubSeq(chars, 1, IF Len(chars) < n THEN Len(chars) ELSE n)

my_strnlen(str, max_size) ==
    LET ends == {i \in 1 .. max_size : str[i] = "0"}
    IN  IF ends = {} THEN max_size ELSE (CHOOSE i \in ends : \A j \in ends : i <= j) - 1

\* the string in a buffer, of at most n characters
StringIn(buffer, n) == SubSeq(buffer, 1, my_strnlen(buffer, n))

\* NORD of a waveform, or LEN of lsi, lso and printf, which counts the "0"
SetLen(rec, n) ==
    [rec EXCEPT !.nord = IF ~support.hasLen THEN @ ELSE IF support.isWaveform THEN n ELSE n + 1]

-----------------------------------------------------------------------------
(***************************************************************************)
(* init_record                                                             *)
(***************************************************************************)
NoMinimumSize(state, minRingSize) ==
    [state EXCEPT !.pvt.ringSize = IF @ # 0 \/ support.fifo = -1 THEN @ ELSE support.fifo]

\* at least one element for an output record with asyn:READBACK; none for an
\* input record that has no asyn:FIFO
Octet_createRingBuffer(state, minRingSize) ==
    [state EXCEPT !.pvt.ringSize =
       IF @ # 0 THEN @ ELSE IF support.fifo = -1 THEN minRingSize ELSE support.fifo]

initDrvUser == support.driver = "complete"

\* asyn:INITIAL_READBACK
Octet_initialRead(state) ==
    LET chars == Clipped(device.value, support.valSize - 1)
    IN  [state EXCEPT !.record = SetLen([@ EXCEPT !.val = Terminated(CopyIn(@, chars), Len(chars)),
                                                  !.udf = FALSE], Len(chars))]

Octet_initCommon(useDrvUser) ==
    IF ~parseLink \/ (useDrvUser /\ ~initDrvUser) \/ support.driver = "other" THEN {bad(Fresh)}
    ELSE LET made == IF support.output /\ support.readback
                     THEN [Octet_createRingBuffer(Fresh, 1) EXCEPT !.pvt.registered = TRUE]
                     ELSE Fresh
         IN  IF support.output /\ support.initialReadback
             THEN {made, Octet_initialRead(made)}
             ELSE {made}

\* a command, or the name of a record, in the place of the parameter's name
initCmdBuffer(states) == IF support.argument # "" THEN states ELSE {bad(state) : state \in states}

initDbAddr(states) == IF support.argument # "" THEN states ELSE {bad(state) : state \in states}

initSiCmdResponse == initCmdBuffer(Octet_initCommon(FALSE))

initSiWriteRead == initDbAddr(Octet_initCommon(FALSE))

initSiRead == Octet_initCommon(TRUE)

initSoWrite == Octet_initCommon(TRUE)

initWfCmdResponse == initCmdBuffer(Octet_initCommon(FALSE))

initWfWriteRead == initDbAddr(Octet_initCommon(FALSE))

initWfRead == Octet_initCommon(TRUE)

initWfWrite == Octet_initCommon(TRUE)

initWfWriteBinary == Octet_initCommon(TRUE)

initLsiCmdResponse == initCmdBuffer(Octet_initCommon(FALSE))

initLsiWriteRead == initDbAddr(Octet_initCommon(FALSE))

initLsiRead == Octet_initCommon(TRUE)

initLsoWrite == Octet_initCommon(TRUE)

initPfWrite == Octet_initCommon(TRUE)

initScalcoutWrite == Octet_initCommon(TRUE)

-----------------------------------------------------------------------------
(***************************************************************************)
(* The callbacks of the port thread.  outcome is "success", or what went   *)
(* wrong: "timeout" of the last read or write, "write" of the write before *)
(* a read, "short" if not all was sent, "dbGet".  NSTA holds an alarm for  *)
(* the end of the processing.                                              *)
(***************************************************************************)
Octet_outcomes ==
    {"success", "timeout"}
      \cup (IF support.octet \in {"SiWriteRead", "WfWriteRead", "LsiWriteRead"} THEN {"dbGet"} ELSE {})
      \cup (IF support.output \/ support.argument # "" THEN {"short"} ELSE {})
      \cup (IF support.argument # "" THEN {"write"} ELSE {})

\* the status and alarm of an I/O
IoResult(state, status) ==
    [state EXCEPT !.pvt.result.status = status, !.pvt.result.alarm = "none"]

\* not all sent: an alarm, but the status is that of the driver
writeIt(state, outcome) ==
    IF outcome = "short"
    THEN [IoResult(state, "success") EXCEPT !.record.nsta = "write"]
    ELSE IoResult(state, IF outcome = "success" THEN "success" ELSE "timeout")

\* what arrives goes to VAL, also when the read fails
readIt(state, outcome) ==
    LET chars == Clipped(device.value, support.valSize)
    IN  IF outcome = "success"
        THEN {[IoResult(state, "success") EXCEPT !.record.val = CopyIn(@, chars)]}
        ELSE {[IoResult(state, "timeout") EXCEPT !.record.val = CopyIn(@, SubSeq(chars, 1, n))] :
                 n \in 0 .. Len(chars)}

finish(states) == {Finish(state) : state \in states}

\* a read, and the end of the string
ReadString(state, outcome) ==
    LET n == Len(Clipped(device.value, support.valSize - 1))
    IN  {IF outcome = "success"
         THEN [read EXCEPT !.record = SetLen([@ EXCEPT !.val = Terminated(@, n), !.udf = FALSE], n)]
         ELSE read : read \in readIt(state, outcome)}

\* a command first, nothing is read if it fails
WriteRead(state, outcome) ==
    IF outcome \in {"write", "short"}
    THEN {writeIt(state, outcome)}
    ELSE ReadString(state, outcome)

\* the command is the value of another record
DbWriteRead(state, outcome) ==
    IF outcome = "dbGet"
    THEN {[state EXCEPT !.record.nsta = "read"]}
    ELSE WriteRead(state, outcome)

callbackSiCmdResponse(state, outcome) == finish(WriteRead(state, outcome))

callbackSiWriteRead(state, outcome) == finish(DbWriteRead(state, outcome))

callbackSiRead(state, outcome) == finish(ReadString(state, outcome))

callbackWfCmdResponse(state, outcome) == finish(WriteRead(state, outcome))

callbackWfWriteRead(state, outcome) == finish(DbWriteRead(state, outcome))

callbackWfRead(state, outcome) == finish(ReadString(state, outcome))

callbackLsiCmdResponse(state, outcome) == finish(WriteRead(state, outcome))

callbackLsiWriteRead(state, outcome) == finish(DbWriteRead(state, outcome))

callbackLsiRead(state, outcome) == finish(ReadString(state, outcome))

\* the messages of the output records
callbackSoWrite(rec) == StringIn(rec.val, support.valSize)

callbackWfWrite(rec) == StringIn(rec.val, rec.nord)

callbackWfWriteBinary(rec) == SubSeq(rec.val, 1, rec.nord)

callbackLsoWrite(rec) == StringIn(rec.val, rec.nord)

callbackPfWrite(rec) == StringIn(rec.val, rec.nord)

callbackScalcoutWrite(rec) == StringIn(rec.val, support.valSize)

-----------------------------------------------------------------------------
(***************************************************************************)
(* Callbacks of the driver.  told.value is what the driver passes, with    *)
(* the "0" at its end if support.withNul.                                  *)
(***************************************************************************)
Octet_getIoIntInfo(state) ==
    IF state.pvt.isIOIntrScan THEN Cancelled(state)
    ELSE [Octet_createRingBuffer(state, 0) EXCEPT !.pvt.registered = TRUE, !.pvt.isIOIntrScan = TRUE]

Octet_told(value) ==
    Clipped(IF support.withNul THEN Append(value, "0") ELSE value, support.valSize - 1)

\* Without a ring buffer the value is copied with the scan lock held ...
Octet_interruptCopies(state, told) == state.pvt.ringSize = 0 /\ told.status = "success"

Octet_interruptCopy(state, told) ==
    [state EXCEPT !.record.val = CopyIn(@, Octet_told(told.value))]

\* ... and the rest is done after that.
Octet_interruptCallback(state, told) ==
    LET chars == Octet_told(told.value)
    IN  IF state.pvt.ringSize = 0
        THEN Ask([state EXCEPT !.record.val = IF told.status = "success" THEN Terminated(@, Len(chars)) ELSE @,
                               !.pvt.nord = Len(chars), !.pvt.gotValue = @ + 1,
                               !.pvt.result = [told EXCEPT !.value = <<>>]])
        ELSE PushAccepted(state, [told EXCEPT !.value = chars])

Octet_outputCallbackCallback(state, Process(_, _)) ==
    LET called == [state EXCEPT !.record.udf = FALSE]
    IN  IF state.record.pact THEN {GetCallbackValue(called)} ELSE Process(called, "callback")

-----------------------------------------------------------------------------
(***************************************************************************)
(* processCommon.  A request that is refused leaves result alone.          *)
(***************************************************************************)
gotCallbackData(state, phase) ==
    IF support.output
    THEN phase = "callback" /\ (state.pvt.ringSize = 0 \/ HasValue(state))
    ELSE phase = "start" /\ IF state.pvt.ringSize = 0 THEN state.pvt.gotValue > 0 ELSE HasValue(state)

\* an element of the ring buffer: its characters are copied, not their end
Taken(state) ==
    LET taken == Pop(state)
        r == taken.pvt.result
    IN  IF r.status = "success"
        THEN [taken EXCEPT !.record = SetLen([@ EXCEPT !.val = CopyIn(@, r.value)], Len(r.value))]
        ELSE taken

\* the value is in VAL already
TakenUnbuffered(state) ==
    [state EXCEPT !.pvt.gotValue = @ - 1,
                  !.record = IF state.pvt.result.status = "success" THEN SetLen(@, state.pvt.nord) ELSE @]

\* the alarm of the result, and NSTA
ShowAlarm(state) ==
    LET r == asynStatusToEpicsAlarm(state.pvt.result)
    IN  [state EXCEPT !.pvt.result = [r EXCEPT !.status = "success"],
                      !.record = [@ EXCEPT !.alarm = IF r.alarm = "none" THEN state.record.nsta ELSE r.alarm,
                                           !.nsta = "none", !.pact = FALSE,
                                           !.udf = IF r.status = "success" THEN FALSE ELSE @],
                      !.thread.pc = "idle"]

processCommon(state, phase) ==
    IF ~gotCallbackData(state, phase) /\ phase # "end" /\ ~state.record.pact
    THEN LET started == [state EXCEPT !.pvt.asyncProcessingActive = support.canBlock]
         IN  Request(started, started)
    ELSE {AskDeferred(ShowAlarm(
            IF ~gotCallbackData(state, phase) THEN state
            ELSE IF state.pvt.ringSize = 0 THEN TakenUnbuffered(state)
            ELSE Taken(state)))}
=============================================================================
