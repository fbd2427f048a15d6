----------------------------- MODULE AsynSyncIO -----------------------------
(***************************************************************************)
(* The synchronous clients of a port: pasynInt32SyncIO, pasynOctetSyncIO   *)
(* and their siblings, here as clients of an asynPortDriver, with the      *)
(* registration of interrupt clients by the Base modules.                  *)
(*                                                                         *)
(* A function of a SyncIO module is the sequence of the calls it makes; a  *)
(* thread runs one at a time, a call per step.  A failed call goes on with *)
(* the cleanup the function has left: the unlock of the port, the          *)
(* disconnect of a ...Once function.                                       *)
(***************************************************************************)
EXTENDS AsynPortDriver

CONSTANTS Requests     \* [addr, name, val, bits, mask] they call them with

\* What a thread calls of asynManager, and of the driver's methods.
Calls == {"connect", "disconnect", "queueLockPort", "lockPort", "queueUnlockPort",
          "connectDevice", "disconnectDevice"}

Methods ==
  {"readInt32", "writeInt32", "getBounds", "readInt64", "writeInt64", "getBounds64",
   "readUInt32Digital", "writeUInt32Digital", "setInterruptUInt32Digital",
   "clearInterruptUInt32Digital", "getInterruptUInt32Digital", "readFloat64",
   "writeFloat64", "readOctet", "writeOctet", "getInputEosOctet", "getOutputEosOctet",
   "setInputEosOctet", "setOutputEosOctet", "readInt8Array", "writeInt8Array",
   "readInt16Array", "writeInt16Array", "readInt32Array", "writeInt32Array",
   "readInt64Array", "writeInt64Array", "readFloat32Array", "writeFloat32Array",
   "readFloat64Array", "writeFloat64Array", "readGenericPointer",
   "writeGenericPointer", "readOption", "writeOption", "readEnum", "writeEnum"}

\* A function begins with connect, with disconnect or with taking the port; it
\* gives the port back, and one that begins with connect and goes on ends with
\* disconnect.
IsFunction(f) ==
  /\ f \in [iface : STRING, steps : Seq(Calls \cup Methods \cup {"flushOctet"})]
  /\ f.iface \notin {"none", "failed"}
  /\ LET n == Len(f.steps) IN
       /\ n > 0 /\ f.steps[1] \in {"connect", "disconnect", "queueLockPort", "lockPort"}
       /\ f.steps[1] = "disconnect" => n = 1
       /\ f.steps[1] = "connect" /\ n > 1 => f.steps[n] = "disconnect"
       /\ \A k \in 1 .. n : f.steps[k] \in {"queueLockPort", "lockPort"} =>
                              \E j \in 1 .. n : f.steps[j] = "queueUnlockPort"

ASSUME RequestsAssumption ==
  /\ Requests \subseteq [addr : Int, name : {Names[n] : n \in DOMAIN Names} \cup {Null},
                         val : Values, bits : SUBSET Bits, mask : SUBSET Bits]
  /\ \A s \in Scenarios : \A f \in s.programs : IsFunction(f)

VARIABLES
  io,        \* [IoThreads -> the thread's asynUser and where it is]
  portLock,  \* the thread that owns the port
  connected  \* the port is connected

ioVars == <<io, portLock, connected>>
vars == <<pdVars, ioVars>>

-----------------------------------------------------------------------------
(* The functions *)

Connect(i) == [iface |-> i, steps |-> <<"connect">>]

Disconnect(i) == [iface |-> i, steps |-> <<"disconnect">>]

Locked(i, calls) ==
  [iface |-> i, steps |-> <<"queueLockPort">> \o calls \o <<"queueUnlockPort">>]

\* The eos functions take the port without queueing: the port need not be
\* connected.
LockedPort(i, calls) ==
  [iface |-> i, steps |-> <<"lockPort">> \o calls \o <<"queueUnlockPort">>]

Once(f) == [f EXCEPT !.steps = <<"connect">> \o @ \o <<"disconnect">>]

Int32SyncIO_connect == Connect("Int32")

Int32SyncIO_disconnect == Disconnect("Int32")

Int32SyncIO_writeOp == Locked("Int32", <<"writeInt32">>)

Int32SyncIO_writeOpOnce == Once(Int32SyncIO_writeOp)

Int32SyncIO_readOp == Locked("Int32", <<"readInt32">>)

Int32SyncIO_readOpOnce == Once(Int32SyncIO_readOp)

Int32SyncIO_getBounds == Locked("Int32", <<"getBounds">>)

Int32SyncIO_getBoundsOnce == Once(Int32SyncIO_getBounds)

Int64SyncIO_connect == Connect("Int64")

Int64SyncIO_disconnect == Disconnect("Int64")

Int64SyncIO_writeOp == Locked("Int64", <<"writeInt64">>)

Int64SyncIO_writeOpOnce == Once(Int64SyncIO_writeOp)

Int64SyncIO_readOp == Locked("Int64", <<"readInt64">>)

Int64SyncIO_readOpOnce == Once(Int64SyncIO_readOp)

Int64SyncIO_getBounds == Locked("Int64", <<"getBounds64">>)

Int64SyncIO_getBoundsOnce == Once(Int64SyncIO_getBounds)

UInt32DigitalSyncIO_connect == Connect("UInt32Digital")

UInt32DigitalSyncIO_disconnect == Disconnect("UInt32Digital")

UInt32DigitalSyncIO_writeOp == Locked("UInt32Digital", <<"writeUInt32Digital">>)

UInt32DigitalSyncIO_writeOpOnce == Once(UInt32DigitalSyncIO_writeOp)

UInt32DigitalSyncIO_readOp == Locked("UInt32Digital", <<"readUInt32Digital">>)

UInt32DigitalSyncIO_readOpOnce == Once(UInt32DigitalSyncIO_readOp)

UInt32DigitalSyncIO_setInterrupt == Locked("UInt32Digital", <<"setInterruptUInt32Digital">>)

UInt32DigitalSyncIO_setInterruptOnce == Once(UInt32DigitalSyncIO_setInterrupt)

UInt32DigitalSyncIO_clearInterrupt == Locked("UInt32Digital", <<"clearInterruptUInt32Digital">>)

UInt32DigitalSyncIO_clearInterruptOnce == Once(UInt32DigitalSyncIO_clearInterrupt)

UInt32DigitalSyncIO_getInterrupt == Locked("UInt32Digital", <<"getInterruptUInt32Digital">>)

UInt32DigitalSyncIO_getInterruptOnce == Once(UInt32DigitalSyncIO_getInterrupt)

Float64SyncIO_connect == Connect("Float64")

Float64SyncIO_disconnect == Disconnect("Float64")

Float64SyncIO_writeOp == Locked("Float64", <<"writeFloat64">>)

Float64SyncIO_writeOpOnce == Once(Float64SyncIO_writeOp)

Float64SyncIO_readOp == Locked("Float64", <<"readFloat64">>)

Float64SyncIO_readOpOnce == Once(Float64SyncIO_readOp)

OctetSyncIO_connect == Connect("Octet")

OctetSyncIO_disconnect == Disconnect("Octet")

OctetSyncIO_writeIt == Locked("Octet", <<"writeOctet">>)

OctetSyncIO_writeOnce == Once(OctetSyncIO_writeIt)

OctetSyncIO_readIt == Locked("Octet", <<"readOctet">>)

OctetSyncIO_readOnce == Once(OctetSyncIO_readIt)

OctetSyncIO_writeRead == Locked("Octet", <<"flushOctet", "writeOctet", "readOctet">>)

OctetSyncIO_writeReadOnce == Once(OctetSyncIO_writeRead)

OctetSyncIO_flushIt == Locked("Octet", <<"flushOctet">>)

OctetSyncIO_flushOnce == Once(OctetSyncIO_flushIt)

OctetSyncIO_setInputEos == LockedPort("Octet", <<"setInputEosOctet">>)

OctetSyncIO_setInputEosOnce == Once(OctetSyncIO_setInputEos)

OctetSyncIO_getInputEos == LockedPort("Octet", <<"getInputEosOctet">>)

OctetSyncIO_getInputEosOnce == Once(OctetSyncIO_getInputEos)

OctetSyncIO_setOutputEos == LockedPort("Octet", <<"setOutputEosOctet">>)

OctetSyncIO_setOutputEosOnce == Once(OctetSyncIO_setOutputEos)

OctetSyncIO_getOutputEos == LockedPort("Octet", <<"getOutputEosOctet">>)

OctetSyncIO_getOutputEosOnce == Once(OctetSyncIO_getOutputEos)

GenericPointerSyncIO_connect == Connect("GenericPointer")

GenericPointerSyncIO_disconnect == Disconnect("GenericPointer")

GenericPointerSyncIO_writeOp == Locked("GenericPointer", <<"writeGenericPointer">>)

GenericPointerSyncIO_writeOpOnce == Once(GenericPointerSyncIO_writeOp)

GenericPointerSyncIO_readOp == Locked("GenericPointer", <<"readGenericPointer">>)

GenericPointerSyncIO_readOpOnce == Once(GenericPointerSyncIO_readOp)

GenericPointerSyncIO_writeReadOp == Locked("GenericPointer", <<"writeGenericPointer", "readGenericPointer">>)

GenericPointerSyncIO_writeReadOpOnce == Once(GenericPointerSyncIO_writeReadOp)

EnumSyncIO_connect == Connect("Enum")

EnumSyncIO_disconnect == Disconnect("Enum")

EnumSyncIO_writeOp == Locked("Enum", <<"writeEnum">>)

EnumSyncIO_writeOpOnce == Once(EnumSyncIO_writeOp)

EnumSyncIO_readOp == Locked("Enum", <<"readEnum">>)

EnumSyncIO_readOpOnce == Once(EnumSyncIO_readOp)

OptionSyncIO_connect == Connect("Option")

OptionSyncIO_disconnect == Disconnect("Option")

OptionSyncIO_setOption == Locked("Option", <<"writeOption">>)

OptionSyncIO_setOptionOnce == Once(OptionSyncIO_setOption)

OptionSyncIO_getOption == Locked("Option", <<"readOption">>)

OptionSyncIO_getOptionOnce == Once(OptionSyncIO_getOption)

Int8ArraySyncIO_connect == Connect("Int8Array")

Int8ArraySyncIO_disconnect == Disconnect("Int8Array")

Int8ArraySyncIO_writeOp == Locked("Int8Array", <<"writeInt8Array">>)

Int8ArraySyncIO_writeOpOnce == Once(Int8ArraySyncIO_writeOp)

Int8ArraySyncIO_readOp == Locked("Int8Array", <<"readInt8Array">>)

Int8ArraySyncIO_readOpOnce == Once(Int8ArraySyncIO_readOp)

Int16ArraySyncIO_connect == Connect("Int16Array")

Int16ArraySyncIO_disconnect == Disconnect("Int16Array")

Int16ArraySyncIO_writeOp == Locked("Int16Array", <<"writeInt16Array">>)

Int16ArraySyncIO_writeOpOnce == Once(Int16ArraySyncIO_writeOp)

Int16ArraySyncIO_readOp == Locked("Int16Array", <<"readInt16Array">>)

Int16ArraySyncIO_readOpOnce == Once(Int16ArraySyncIO_readOp)

Int32ArraySyncIO_connect == Connect("Int32Array")

Int32ArraySyncIO_disconnect == Disconnect("Int32Array")

Int32ArraySyncIO_writeOp == Locked("Int32Array", <<"writeInt32Array">>)

Int32ArraySyncIO_writeOpOnce == Once(Int32ArraySyncIO_writeOp)

Int32ArraySyncIO_readOp == Locked("Int32Array", <<"readInt32Array">>)

Int32ArraySyncIO_readOpOnce == Once(Int32ArraySyncIO_readOp)

Int64ArraySyncIO_connect == Connect("Int64Array")

Int64ArraySyncIO_disconnect == Disconnect("Int64Array")

Int64ArraySyncIO_writeOp == Locked("Int64Array", <<"writeInt64Array">>)

Int64ArraySyncIO_writeOpOnce == Once(Int64ArraySyncIO_writeOp)

Int64ArraySyncIO_readOp == Locked("Int64Array", <<"readInt64Array">>)

Int64ArraySyncIO_readOpOnce == Once(Int64ArraySyncIO_readOp)

Float32ArraySyncIO_connect == Connect("Float32Array")

Float32ArraySyncIO_disconnect == Disconnect("Float32Array")

Float32ArraySyncIO_writeOp == Locked("Float32Array", <<"writeFloat32Array">>)

Float32ArraySyncIO_writeOpOnce == Once(Float32ArraySyncIO_writeOp)

Float32ArraySyncIO_readOp == Locked("Float32Array", <<"readFloat32Array">>)

Float32ArraySyncIO_readOpOnce == Once(Float32ArraySyncIO_readOp)

Float64ArraySyncIO_connect == Connect("Float64Array")

Float64ArraySyncIO_disconnect == Disconnect("Float64Array")

Float64ArraySyncIO_writeOp == Locked("Float64Array", <<"writeFloat64Array">>)

Float64ArraySyncIO_writeOpOnce == Once(Float64ArraySyncIO_writeOp)

Float64ArraySyncIO_readOp == Locked("Float64Array", <<"readFloat64Array">>)

Float64ArraySyncIO_readOpOnce == Once(Float64ArraySyncIO_readOp)

CommonSyncIO_connect == Connect("Common")

CommonSyncIO_disconnect == Disconnect("Common")

\* connectDevice and disconnectDevice queue a request of connect priority and
\* wait until its callback has called the driver: the port thread holds the
\* port meanwhile.
CommonSyncIO_connectDevice == LockedPort("Common", <<"connectDevice">>)

CommonSyncIO_disconnectDevice == LockedPort("Common", <<"disconnectDevice">>)

-----------------------------------------------------------------------------
(* The calls *)

\* An asynUser starts with reason 0, the first parameter.
NewUser == [addr |-> 0, reason |-> 1, name |-> Null, val |-> NoVal, bits |-> {}, mask |-> {}, reads |-> 0]

Idle == [prog |-> Null, pc |-> 0, user |-> "none", drvUser |-> FALSE, once |-> FALSE,
         status |-> "success", rq |-> NewUser]

AtStep(t, s) ==
  /\ io[t].prog # Null
  /\ io[t].prog.steps[io[t].pc] = s

\* The step after the current one, or the one a failure leads to.
StepAt(prog, s) == CHOOSE k \in DOMAIN prog.steps : prog.steps[k] = s

Has(prog, s) == \E k \in DOMAIN prog.steps : prog.steps[k] = s

AfterFailure(prog, pc) ==
  CASE prog.steps[pc] = "connect" -> IF Len(prog.steps) = 1 THEN 2 ELSE Len(prog.steps)
    [] prog.steps[pc] \in {"queueLockPort", "lockPort"} -> StepAt(prog, "queueUnlockPort") + 1
    [] prog.steps[pc] \notin {"connect", "queueLockPort", "lockPort"}
         /\ Has(prog, "queueUnlockPort") /\ pc < StepAt(prog, "queueUnlockPort")
         -> StepAt(prog, "queueUnlockPort")
    [] OTHER -> Len(prog.steps) + 1

\* The function goes on with step k, or returns.
GoTo(r, k, st) ==
  IF k <= Len(r.prog.steps) THEN [r EXCEPT !.pc = k, !.status = st]
  ELSE [r EXCEPT !.pc = 0, !.prog = Null, !.status = st,
                 !.once = r.prog.steps[1] = "connect" /\ Len(r.prog.steps) > 1]

Continue(r, st) ==
  GoTo(r, IF st = "success" THEN r.pc + 1 ELSE AfterFailure(r.prog, r.pc), st)

\* A thread calls a function: with an asynUser it connected before, or one
\* that makes its own.
start(t) ==
  /\ io[t].prog = Null /\ t \in scenario.threads
  /\ \E f \in scenario.programs, rq \in Requests :
       /\ rq.addr \in scenario.addrs
       /\ CASE f.steps[1] = "connect" -> io[t].user = "none"
            [] f.steps = <<"disconnect">> -> io[t].user \in {"failed", f.iface}
            [] OTHER -> io[t].user = f.iface
       /\ io' = [io EXCEPT ![t].prog = f, ![t].pc = 1,
                  ![t].status = "success", ![t].once = FALSE,
                  ![t].rq = IF f.steps[1] = "connect"
                            THEN [NewUser EXCEPT !.addr = rq.addr, !.name = rq.name,
                                                 !.val = rq.val, !.bits = rq.bits, !.mask = rq.mask]
                            ELSE [@ EXCEPT !.val = rq.val, !.bits = rq.bits, !.mask = rq.mask]]
  /\ UNCHANGED <<pdVars, portLock, connected>>

\* connect(): createAsynUser, connectDevice, findInterface and, if the caller
\* names a parameter and the port has a drvUser, its create(), which takes the
\* mutex of the driver.
Found(r) == port # "defunct" /\ port # "deleted" /\ r.prog.iface \in Interfaces

HasDrvUser(r) == r.rq.name # Null /\ "DrvUser" \in Interfaces

connectStatus(r, created) ==
  CASE ~Found(r) -> "error"
    [] Found(r) /\ ~HasDrvUser(r) -> "success"
    [] OTHER -> created.status

Connected(r, created) ==
  LET done == connectStatus(r, created) = "success"
  IN  [r EXCEPT !.user = IF done THEN r.prog.iface ELSE "failed",
                !.drvUser = done /\ HasDrvUser(r),
                !.rq.reason = IF done /\ HasDrvUser(r) THEN created.val ELSE @]

connect(t) ==
  LET r == io[t]  created == drvUserCreate(r.rq, r.rq.name)
  IN  /\ AtStep(t, "connect")
      /\ Found(r) /\ HasDrvUser(r) => mutex = Null
      /\ io' = [io EXCEPT ![t] = Continue(Connected(r, created), connectStatus(r, created))]
      /\ UNCHANGED <<pdVars, portLock, connected>>

\* disconnect(): the drvUser's destroy() takes the mutex; freeAsynUser.
disconnect(t) ==
  /\ AtStep(t, "disconnect")
  /\ io[t].drvUser => mutex = Null
  /\ io' = [io EXCEPT ![t] = GoTo([@ EXCEPT !.user = "none", !.drvUser = FALSE],
                                  @.pc + 1, @.status)]
  /\ UNCHANGED <<pdVars, portLock, connected>>

queueLockPort(t) ==
  /\ AtStep(t, "queueLockPort")
  /\ IF connected /\ port = "up"
     THEN portLock = Null /\ portLock' = t /\ io' = [io EXCEPT ![t] = Continue(@, "success")]
     ELSE UNCHANGED portLock /\ io' = [io EXCEPT ![t] = Continue(@, "error")]
  /\ UNCHANGED <<pdVars, connected>>

lockPort(t) ==
  /\ AtStep(t, "lockPort")
  /\ IF port = "up"
     THEN portLock = Null /\ portLock' = t /\ io' = [io EXCEPT ![t] = Continue(@, "success")]
     ELSE UNCHANGED portLock /\ io' = [io EXCEPT ![t] = Continue(@, "error")]
  /\ UNCHANGED <<pdVars, connected>>

queueUnlockPort(t) ==
  /\ AtStep(t, "queueUnlockPort")
  /\ portLock' = Null
  /\ io' = [io EXCEPT ![t] = GoTo(@, @.pc + 1, @.status)]
  /\ UNCHANGED <<pdVars, connected>>

\* asynPortDriver::connect and disconnect report the exception to asynManager.
connectDevice(t) ==
  /\ AtStep(t, "connectDevice") /\ mutex = Null
  /\ connected' = TRUE
  /\ io' = [io EXCEPT ![t] = Continue(@, "success")]
  /\ UNCHANGED <<pdVars, portLock>>

disconnectDevice(t) ==
  /\ AtStep(t, "disconnectDevice") /\ mutex = Null
  /\ connected' = FALSE
  /\ io' = [io EXCEPT ![t] = Continue(@, "success")]
  /\ UNCHANGED <<pdVars, portLock>>

\* The method of the driver a call reaches.
Method(m, u) ==
  CASE m = "readInt32" -> readInt32(u)
    [] m = "writeInt32" -> writeInt32(u)
    [] m = "getBounds" -> getBounds(u)
    [] m = "readInt64" -> readInt64(u)
    [] m = "writeInt64" -> writeInt64(u)
    [] m = "getBounds64" -> getBounds64(u)
    [] m = "readUInt32Digital" -> readUInt32Digital(u)
    [] m = "writeUInt32Digital" -> writeUInt32Digital(u)
    [] m = "setInterruptUInt32Digital" -> setInterruptUInt32Digital(u, "both")
    [] m = "clearInterruptUInt32Digital" -> clearInterruptUInt32Digital(u)
    [] m = "getInterruptUInt32Digital" -> getInterruptUInt32Digital(u, "both")
    [] m = "readFloat64" -> readFloat64(u)
    [] m = "writeFloat64" -> writeFloat64(u)
    [] m = "readOctet" -> readOctet(u)
    [] m = "writeOctet" -> writeOctet(u)
    [] m = "getInputEosOctet" -> getInputEosOctet(u)
    [] m = "getOutputEosOctet" -> getOutputEosOctet(u)
    [] m \in {"setInputEosOctet", "setOutputEosOctet"} -> Reply(params, "success", NoVal, FALSE)
    [] m = "readInt8Array" -> readInt8Array
    [] m = "writeInt8Array" -> writeInt8Array
    [] m = "readInt16Array" -> readInt16Array
    [] m = "writeInt16Array" -> writeInt16Array
    [] m = "readInt32Array" -> readInt32Array
    [] m = "writeInt32Array" -> writeInt32Array
    [] m = "readInt64Array" -> readInt64Array
    [] m = "writeInt64Array" -> writeInt64Array
    [] m = "readFloat32Array" -> readFloat32Array
    [] m = "writeFloat32Array" -> writeFloat32Array
    [] m = "readFloat64Array" -> readFloat64Array
    [] m = "writeFloat64Array" -> writeFloat64Array
    [] m = "readGenericPointer" -> readGenericPointer
    [] m = "writeGenericPointer" -> writeGenericPointer
    [] m = "readOption" -> readOption
    [] m = "writeOption" -> writeOption
    [] m = "readEnum" -> readEnum
    [] m = "writeEnum" -> writeEnum

Current(t) == io[t].prog.steps[io[t].pc]

InMethod(t) == io[t].prog # Null /\ Current(t) \notin Calls

\* The C wrapper: lock(), the method, and unlock() unless callbacks follow.
callMethod(t) ==
  LET u == io[t].rq  r == Method(Current(t), u)
      w == IF r.callbacks THEN callParamCallbacks(getAddress(u), getAddress(u)) ELSE Null
  IN  /\ InMethod(t) /\ Current(t) # "flushOctet"
      /\ mutex = Null
      /\ params' = r.params
      /\ eos' = CASE Current(t) = "setInputEosOctet" -> setInputEosOctet(u)
                  [] Current(t) = "setOutputEosOctet" -> setOutputEosOctet(u)
                  [] OTHER -> eos
      /\ work' = w
      /\ mutex' = IF w = Null THEN Null ELSE t
      /\ io' = [io EXCEPT ![t] = IF w = Null THEN Continue(@, r.status)
                                 ELSE [@ EXCEPT !.status = r.status]]
      /\ UNCHANGED <<scenario, interruptAccept, registered, got, port, shutdownNeeded,
                     cb, cbDone, cbShutdown, deletes, shutter, portLock, connected>>

returnMethod_locked(t) ==
  /\ mutex = t /\ work = Null /\ InMethod(t)
  /\ io' = [io EXCEPT ![t] = Continue(@, io[t].status)]
  /\ UNCHANGED <<scenario, params, mutex, work, interruptAccept, registered, got, eos, port,
                 shutdownNeeded, cb, cbDone, cbShutdown, deletes, shutter, portLock, connected>>

\* unlock() after the callbacks.
returnMethod(t) ==
  /\ mutex = t /\ work = Null /\ InMethod(t) /\ Current(t) # "flushOctet"
  /\ mutex' = Null
  /\ io' = [io EXCEPT ![t] = Continue(@, io[t].status)]
  /\ UNCHANGED <<scenario, params, work, interruptAccept, registered, got, eos, port,
                 shutdownNeeded, cb, cbDone, cbShutdown, deletes, shutter, portLock, connected>>

\* flushOctet reads, under the mutex, until a read transfers no byte.
flushOctetLock(t) ==
  /\ InMethod(t) /\ Current(t) = "flushOctet" /\ lock(t)
  /\ work' = Null
  /\ UNCHANGED <<scenario, params, interruptAccept, registered, got, eos, port,
                 shutdownNeeded, cb, cbDone, cbShutdown, deletes, shutter, ioVars>>

flushOctetRead(t) ==
  /\ InMethod(t) /\ Current(t) = "flushOctet" /\ mutex = t
  /\ IF nActual(io[t].rq) = 0
     THEN mutex' = Null /\ io' = [io EXCEPT ![t] = Continue(@, "success")]
     ELSE UNCHANGED mutex /\ io' = [io EXCEPT ![t].rq.reads = 1 - @]
  /\ UNCHANGED <<scenario, params, work, interruptAccept, registered, got, eos, port,
                 shutdownNeeded, cb, cbDone, cbShutdown, deletes, shutter, portLock, connected>>

-----------------------------------------------------------------------------
(* registerInterruptUser and cancelInterruptUser of the Base modules.  The   *)
(* interrupt list of a type exists if the driver asked for it; a client that *)
(* registers holds no value yet.                                             *)

Register(c, type) ==
  /\ c \in DOMAIN ClientOf \ registered /\ ClientOf[c].type = type /\ port = "up"
  /\ type \in CanInterrupt
  /\ registered' = registered \cup {c}
  /\ got' = [got EXCEPT ![c] = Null]
  /\ UNCHANGED <<scenario, params, mutex, work, interruptAccept, eos, port, shutdownNeeded,
                 cb, cbDone, cbShutdown, deletes, shutter, ioVars>>

Cancel(c, type) ==
  /\ c \in registered /\ ClientOf[c].type = type /\ port = "up"
  /\ registered' = registered \ {c}
  /\ UNCHANGED <<scenario, params, mutex, work, interruptAccept, got, eos, port,
                 shutdownNeeded, cb, cbDone, cbShutdown, deletes, shutter, ioVars>>

Int32Base_registerInterruptUser(c) == Register(c, "Int32")

Int32Base_cancelInterruptUser(c) == Cancel(c, "Int32")

Int64Base_registerInterruptUser(c) == Register(c, "Int64")

Int64Base_cancelInterruptUser(c) == Cancel(c, "Int64")

UInt32DigitalBase_registerInterruptUser(c) == Register(c, "UInt32Digital")

UInt32DigitalBase_cancelInterruptUser(c) == Cancel(c, "UInt32Digital")

Float64Base_registerInterruptUser(c) == Register(c, "Float64")

Float64Base_cancelInterruptUser(c) == Cancel(c, "Float64")

OctetBase_registerInterruptUser(c) == Register(c, "Octet")

OctetBase_cancelInterruptUser(c) == Cancel(c, "Octet")

GenericPointerBase_registerInterruptUser(c) == Register(c, "GenericPointer")

GenericPointerBase_cancelInterruptUser(c) == Cancel(c, "GenericPointer")

EnumBase_registerInterruptUser(c) == Register(c, "Enum")

EnumBase_cancelInterruptUser(c) == Cancel(c, "Enum")

ArrayBase_registerInterruptUser(c) ==
  \E type \in {"Int8Array", "Int16Array", "Int32Array", "Int64Array",
              "Float32Array", "Float64Array"} : Register(c, type)

ArrayBase_cancelInterruptUser(c) ==
  \E type \in {"Int8Array", "Int16Array", "Int32Array", "Int64Array",
              "Float32Array", "Float64Array"} : Cancel(c, type)

registerInterruptUser(c) ==
  \/ Int32Base_registerInterruptUser(c)
  \/ Int64Base_registerInterruptUser(c)
  \/ UInt32DigitalBase_registerInterruptUser(c)
  \/ Float64Base_registerInterruptUser(c)
  \/ OctetBase_registerInterruptUser(c)
  \/ GenericPointerBase_registerInterruptUser(c)
  \/ EnumBase_registerInterruptUser(c)
  \/ ArrayBase_registerInterruptUser(c)

cancelInterruptUser(c) ==
  \/ Int32Base_cancelInterruptUser(c)
  \/ Int64Base_cancelInterruptUser(c)
  \/ UInt32DigitalBase_cancelInterruptUser(c)
  \/ Float64Base_cancelInterruptUser(c)
  \/ OctetBase_cancelInterruptUser(c)
  \/ GenericPointerBase_cancelInterruptUser(c)
  \/ EnumBase_cancelInterruptUser(c)
  \/ ArrayBase_cancelInterruptUser(c)

-----------------------------------------------------------------------------
(* The specification *)

\* Environment: the users of a port have disconnected when it is shut down.
\* The asynUsers of the SyncIO modules keep the driver's address.
ClientsGone == \A t \in IoThreads : io[t].prog = Null /\ io[t].user = "none"

\* Nor does anybody start to use a driver that its user is deleting; once
\* asynManager knows that the port is gone it refuses them.
Undeleted == port = "up" => deletes = 0

IoInit ==
  /\ Init
  /\ io = [t \in IoThreads |-> Idle]
  /\ portLock = Null /\ connected = TRUE

ioStep(t) ==
  \/ connect(t) \/ disconnect(t)
  \/ queueLockPort(t) \/ lockPort(t) \/ queueUnlockPort(t)
  \/ connectDevice(t) \/ disconnectDevice(t)
  \/ callMethod(t) \/ returnMethod(t) \/ flushOctetLock(t) \/ flushOctetRead(t)

callbackStep(t) == (callCallbacksTurn(t) \/ callCallbacksEnd(t)) /\ UNCHANGED ioVars

driverStep ==
  /\ createParams \/ driverLock \/ driverUnlock \/ driverAssign \/ driverCallbacks \/ driverArray
  /\ UNCHANGED ioVars

cbStep == (cbWake \/ cbLock \/ cbCallbacks \/ cbEnd) /\ UNCHANGED ioVars

shutStep(s) ==
  /\ \/ ClientsGone /\ (shutdownPort(s) \/ deleteDirect(s))
     \/ shutdownPortNested(s) \/ exceptionHandler(s) \/ destructor(s) \/ freeDriver(s)
  /\ UNCHANGED ioVars

IoNext ==
  \/ \E t \in IoThreads : (Undeleted /\ start(t)) \/ ioStep(t)
  \/ \E t \in Threads : callbackStep(t)
  \/ \E c \in Clients : registerInterruptUser(c) \/ cancelInterruptUser(c)
  \/ driverStep \/ cbStep \/ (iocInit /\ UNCHANGED ioVars)
  \/ \E s \in Shutters : shutStep(s)

\* Every thread that can go on does, and a driver that makes callbacks again
\* and again unlocks in between; a mutex that is free again and again is
\* granted to a thread that waits for it; iocInit ends.  Nothing makes a
\* client start a call, a driver update a parameter or anybody shut down.
Fairness ==
  /\ WF_vars(iocInit /\ UNCHANGED ioVars) /\ WF_vars(createParams /\ UNCHANGED ioVars)
  /\ SF_vars(driverUnlock /\ UNCHANGED ioVars)
  /\ \A t \in Threads : WF_vars(callbackStep(t))
  /\ SF_vars(cbStep)
  /\ \A t \in IoThreads : SF_vars(ioStep(t))
  /\ \A s \in Shutters : SF_vars(shutStep(s) /\ shutter[s] # "idle")

IoSpec == IoInit /\ [][IoNext]_vars /\ Fairness

-----------------------------------------------------------------------------
(* Properties *)

\* A client that was called back and has no change pending for its parameter
\* holds the parameter's present value, its own bits of it for a digital one,
\* with the present status and alarm.
ClientsCurrent ==
  \A c \in registered :
    LET a == ClientAddr(c)  i == ClientOf[c].reason  L == params[a]
    IN  (/\ got[c] # Null /\ i \in PL!Index(L) /\ L.vals[i].type = ClientOf[c].type
         /\ ClientOf[c].type \notin PVal!ArrayTypes
         /\ \A k \in DOMAIN L.flags : L.flags[k] # i)
        => /\ got[c].alarm = PL!Alarm(L, i)
           /\ got[c].val = IF ClientOf[c].type = "UInt32Digital"
                           THEN L.vals[i].val \cap ClientOf[c].mask ELSE L.vals[i].val

\* The destructor runs once, and ends when the callback thread has ended and
\* nobody is in the driver.
DestroyedOnce ==
  /\ deletes <= 1
  /\ port = "deleted" => cbDone /\ mutex = Null /\ work = Null

\* Every call of a SyncIO function returns.
CallsReturn == \A t \in IoThreads : io[t].prog # Null ~> io[t].prog = Null

\* A client registered before iocInit hears of the parameters defined before
\* it, unless it cancels or the port goes away.
FirstTold ==
  \A c \in Clients :
    (/\ c \in registered /\ ~interruptAccept /\ ClientOf[c].type \in PVal!ScalarTypes
     /\ ClientOf[c].reason \in PL!Index(params[ClientAddr(c)])
     /\ LET p == params[ClientAddr(c)].vals[ClientOf[c].reason]
        IN  p.defined /\ p.type = ClientOf[c].type)
    ~> (got[c] # Null \/ c \notin registered \/ port # "up")
=============================================================================
