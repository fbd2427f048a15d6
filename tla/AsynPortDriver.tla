--------------------------- MODULE AsynPortDriver ---------------------------
(***************************************************************************)
(* The C++ base class of port drivers: parameter lists, one per address,   *)
(* the driver mutex, the methods of the asyn interfaces, the callbacks to  *)
(* the clients registered for a parameter, the thread that makes the first *)
(* callbacks when iocInit is done, and the destruction of the port.        *)
(*                                                                         *)
(* A call that only reads or writes the parameter lists runs under the     *)
(* mutex and is one step.  callCallbacks is a loop under the mutex, one    *)
(* step per changed parameter: clients register and cancel, and iocInit    *)
(* and shutdownPort run, without the mutex and so between these steps.     *)
(***************************************************************************)
EXTENDS Integers, Sequences, FiniteSets

CONSTANTS
  Values, Bits, NoVal, Null,
  Names,          \* the parameters, in the order the constructor creates them
  MaxAddr,        \* the driver's maxAddr: lists and addresses 0 .. MaxAddr-1
  Clients,        \* interrupt clients
  interfaceMask, interruptMask, \* the interfaces the constructor is asked for, and
                  \* the ones of them with interrupt clients
  Scenarios,      \* [types : names -> types; ops, programs, threads, addrs : what the
                  \* driver does, the io threads call, who takes part, where;
                  \* clients : who registers, for which [type, reason, addr, mask];
                  \* end : "none", "shutdown" of the port, "delete" of the driver]
  IoThreads,      \* threads that call the driver's interface methods
  Shutters,       \* threads that shut the port down
  Driver, CbThread \* the driver's own thread and the callback thread

PL == INSTANCE ParamList
PVal == INSTANCE ParamVal

Addrs == 0 .. MaxAddr - 1
Threads == IoThreads \cup {Driver, CbThread}

ASSUME PortDriverAssumption ==
  /\ MaxAddr \in Nat \ {0}
  /\ Driver # CbThread /\ {Driver, CbThread} \cap IoThreads = {}
  /\ Null \notin Threads

ParamTypes == PVal!ScalarTypes \cup PVal!ArrayTypes \cup {"UInt32Digital"}

ASSUME ParameterAssumption ==
  /\ Names \in Seq(STRING)
  /\ \A s \in Scenarios : \A n \in DOMAIN Names : s.types[Names[n]] \in ParamTypes

VARIABLES
  scenario,        \* fixed by Init
  params,          \* [Addrs -> list]
  mutex,           \* holder of mutexId
  work,            \* the callbacks the holder of the mutex is making, or Null
  interruptAccept, \* set by iocInit
  registered,      \* clients in the interrupt lists
  got,             \* what a client's callback was last given
  eos,             \* inputEosOctet and outputEosOctet
  port,            \* "constructing", "up", "defunct", "deleted"
  shutdownNeeded,  \* ASYN_DESTRUCTIBLE and not shut down yet
  cb,              \* callbackThread::run: -2 asleep, -1 at the mutex, else an address
  cbDone,          \* its doneEvent
  cbShutdown,      \* its shutdown event is signalled
  deletes,         \* times the destructor was entered
  shutter          \* [Shutters -> where shutdownPort or the destructor is]

pdVars == <<scenario, params, mutex, work, interruptAccept, registered, got, eos,
            port, shutdownNeeded, cb, cbDone, cbShutdown, deletes, shutter>>

-----------------------------------------------------------------------------
(* The interfaces of the port *)

\* asynCommon is always there.
initialize(mask) == mask \cup {"Common"}

\* Every interface asked for is registered with its defaults filled in by its
\* Base module, and gets an interrupt list if it has interrupt clients.
standardInterfaces(mask, interrupts) ==
  [registered |-> mask, canInterrupt |-> mask \cap interrupts]

Interfaces == standardInterfaces(initialize(interfaceMask), interruptMask).registered

CanInterrupt == standardInterfaces(initialize(interfaceMask), interruptMask).canInterrupt

-----------------------------------------------------------------------------
(* The parameter library as the driver and the methods see it *)

getParamList(l) == l \in Addrs

\* The result of a method: new lists, status, value, and whether the method
\* ends with callParamCallbacks(addr, addr).
Reply(lists, st, v, callbacks) ==
  [params |-> lists, status |-> st, val |-> v, callbacks |-> callbacks]

Failed(st) == Reply(params, st, NoVal, FALSE)

InList(l, R(_)) ==
  IF ~getParamList(l) THEN Failed("invalidList")
  ELSE LET r == R(params[l])
       IN  Reply([params EXCEPT ![l] = r.list], r.status, NoVal, FALSE)

setParamStatus(l, i, s) == InList(l, LAMBDA L : PL!setStatus(L, i, s))

setParamAlarmStatus(l, i, s) == InList(l, LAMBDA L : PL!setAlarmStatus(L, i, s))

setParamAlarmSeverity(l, i, s) == InList(l, LAMBDA L : PL!setAlarmSeverity(L, i, s))

setIntegerParam(l, i, v) == InList(l, LAMBDA L : PL!setInteger(L, i, v))

setInteger64Param(l, i, v) == InList(l, LAMBDA L : PL!setInteger64(L, i, v))

setUIntDigitalParam(l, i, v, mask, intMask) ==
  InList(l, LAMBDA L : PL!setUInt32(L, i, v, mask, intMask))

setDoubleParam(l, i, v) == InList(l, LAMBDA L : PL!setDouble(L, i, v))

setStringParam(l, i, v) == InList(l, LAMBDA L : PL!setString(L, i, v))

setUInt32DigitalInterrupt(l, i, mask, reason) ==
  InList(l, LAMBDA L : PL!setUInt32Interrupt(L, i, mask, reason))

clearUInt32DigitalInterrupt(l, i, mask) ==
  InList(l, LAMBDA L : PL!clearUInt32Interrupt(L, i, mask))

FromList(l, R(_)) ==
  IF ~getParamList(l) THEN Failed("invalidList")
  ELSE LET r == R(params[l]) IN Reply(params, r.status, r.val, FALSE)

getUInt32DigitalInterrupt(l, i, reason) ==
  FromList(l, LAMBDA L : PL!getUInt32Interrupt(L, i, reason))

getIntegerParam(l, i) == FromList(l, LAMBDA L : PL!getInteger(L, i))

getInteger64Param(l, i) == FromList(l, LAMBDA L : PL!getInteger64(L, i))

getUIntDigitalParam(l, i, mask) == FromList(l, LAMBDA L : PL!getUInt32(L, i, mask))

getDoubleParam(l, i) == FromList(l, LAMBDA L : PL!getDouble(L, i))

getStringParam(l, i) == FromList(l, LAMBDA L : PL!getString(L, i))

-----------------------------------------------------------------------------
(* The interface methods.  u is the asynUser and the arguments of the call:  *)
(* [reason, addr, val, bits, mask].  The C wrapper takes the mutex and refuses a   *)
(* null drvPvt; that is done by the step that makes the call.               *)

getAddress(u) == IF u.addr = -1 THEN 0 ELSE u.addr

\* The name is looked up in list 0 whatever the address is.
parseAsynUser(u) ==
  CASE getAddress(u) \notin Addrs -> "error"
    [] getAddress(u) \in Addrs /\ u.reason \notin PL!Index(params[0]) -> "badIndex"
    [] OTHER -> "success"

Parsed(u, R) == IF parseAsynUser(u) = "success" THEN R ELSE Failed(parseAsynUser(u))

ThenCallbacks(R) == [R EXCEPT !.callbacks = TRUE, !.status = "success"]

readInt32(u) == Parsed(u, getIntegerParam(getAddress(u), u.reason))

\* The status of the callbacks replaces the one of the assignment.
writeInt32(u) ==
  Parsed(u, ThenCallbacks(setIntegerParam(getAddress(u), u.reason, u.val)))

getBounds(u) == Reply(params, "success", 0, FALSE)

readInt64(u) == Parsed(u, getInteger64Param(getAddress(u), u.reason))

writeInt64(u) ==
  Parsed(u, ThenCallbacks(setInteger64Param(getAddress(u), u.reason, u.val)))

getBounds64(u) == Reply(params, "success", 0, FALSE)

readUInt32Digital(u) ==
  Parsed(u, getUIntDigitalParam(getAddress(u), u.reason, u.mask))

writeUInt32Digital(u) ==
  Parsed(u, ThenCallbacks(
              setUIntDigitalParam(getAddress(u), u.reason, u.bits, u.mask, {})))

setInterruptUInt32Digital(u, reason) ==
  Parsed(u, setUInt32DigitalInterrupt(getAddress(u), u.reason, u.mask, reason))

clearInterruptUInt32Digital(u) ==
  Parsed(u, clearUInt32DigitalInterrupt(getAddress(u), u.reason, u.mask))

getInterruptUInt32Digital(u, reason) ==
  Parsed(u, getUInt32DigitalInterrupt(getAddress(u), u.reason, reason))

readFloat64(u) == Parsed(u, getDoubleParam(getAddress(u), u.reason))

\* The only writer that returns the status of its assignment.
writeFloat64(u) ==
  Parsed(u, [setDoubleParam(getAddress(u), u.reason, u.val) EXCEPT !.callbacks = TRUE])

readOctet(u) == Parsed(u, getStringParam(getAddress(u), u.reason))

\* nActual is strlen(value)+1 after any read that got past parseAsynUser.
nActual(u) == IF parseAsynUser(u) = "success" THEN 1 ELSE 0

writeOctet(u) ==
  Parsed(u, ThenCallbacks(setStringParam(getAddress(u), u.reason, u.val)))

\* The eos methods only store the string for a derived class.
setInputEosOctet(u) == [eos EXCEPT !.input = u.val]

getInputEosOctet(u) == Reply(params, "success", eos.input, FALSE)

setOutputEosOctet(u) == [eos EXCEPT !.output = u.val]

getOutputEosOctet(u) == Reply(params, "success", eos.output, FALSE)

\* readArray<> and writeArray<>, and the generic pointer, option and enum
\* methods of the base class, which a derived class has to override.
NotImplemented == Failed("error")

readInt8Array == NotImplemented

writeInt8Array == NotImplemented

readInt16Array == NotImplemented

writeInt16Array == NotImplemented

readInt32Array == NotImplemented

writeInt32Array == NotImplemented

readInt64Array == NotImplemented

writeInt64Array == NotImplemented

readFloat32Array == NotImplemented

writeFloat32Array == NotImplemented

readFloat64Array == NotImplemented

writeFloat64Array == NotImplemented

readGenericPointer == NotImplemented

writeGenericPointer == NotImplemented

readOption == NotImplemented

writeOption == NotImplemented

readEnum == NotImplemented

writeEnum == NotImplemented

\* The index becomes the asynUser's reason.
drvUserCreate(u, name) ==
  CASE getAddress(u) \notin Addrs -> Failed("error")
    [] getAddress(u) \in Addrs /\ PL!findParam(params[getAddress(u)], name) = 0
         -> Failed("notFound")
    [] OTHER -> Reply(params, "success", PL!findParam(params[getAddress(u)], name), FALSE)

-----------------------------------------------------------------------------
(* Callbacks to the interrupt clients *)

ClientOf == scenario.clients

ClientAddr(c) == IF ClientOf[c].addr = -1 THEN 0 ELSE ClientOf[c].addr

\* What the clients of a list hold once the ones in S were called with v.
Deliver(S, v, alarm) ==
  [c \in Clients |-> IF c \in S THEN [val |-> v, alarm |-> alarm] ELSE got[c]]

Called(type, i, addr) ==
  {c \in registered : /\ ClientOf[c].type = type /\ type \in CanInterrupt
                      /\ ClientOf[c].reason = i /\ ClientAddr(c) = addr}

ScalarCallback(type, L, i, addr) ==
  Deliver(Called(type, i, addr), L.vals[i].val, PL!Alarm(L, i))

int32Callback(L, i, addr) == ScalarCallback("Int32", L, i, addr)

int64Callback(L, i, addr) == ScalarCallback("Int64", L, i, addr)

float64Callback(L, i, addr) == ScalarCallback("Float64", L, i, addr)

octetCallback(L, i, addr) == ScalarCallback("Octet", L, i, addr)

\* A digital client is called if one of its bits is in the callback mask, and
\* gets its own bits of the value.
uint32Callback(L, i, addr) ==
  [c \in Clients |->
     IF c \in Called("UInt32Digital", i, addr) /\ ClientOf[c].mask \cap L.vals[i].callbackMask # {}
     THEN [val |-> ClientOf[c].mask \cap L.vals[i].val, alarm |-> PL!Alarm(L, i)]
     ELSE got[c]]

TypedCallback(L, i, addr) ==
  CASE L.vals[i].type = "Int32" -> int32Callback(L, i, addr)
    [] L.vals[i].type = "Int64" -> int64Callback(L, i, addr)
    [] L.vals[i].type = "UInt32Digital" -> uint32Callback(L, i, addr)
    [] L.vals[i].type = "Float64" -> float64Callback(L, i, addr)
    [] L.vals[i].type = "Octet" -> octetCallback(L, i, addr)
    [] OTHER -> got

\* One turn of the loop of paramList::callCallbacks.
callCallbacksTurn(t) ==
  LET l == work.list  k == work.next  i == params[l].flags[k]
  IN  /\ mutex = t /\ work # Null
      /\ k <= Len(params[l].flags)
      /\ got' = IF params[l].vals[i].defined THEN TypedCallback(params[l], i, work.addr) ELSE got
      /\ params' = IF params[l].vals[i].defined /\ params[l].vals[i].type = "UInt32Digital"
                   THEN [params EXCEPT ![l].vals[i].callbackMask = {}] ELSE params
      /\ work' = [work EXCEPT !.next = @ + 1]
      /\ UNCHANGED <<scenario, mutex, interruptAccept, registered, eos, port,
                     shutdownNeeded, cb, cbDone, cbShutdown, deletes, shutter>>

\* flags.clear()
callCallbacksEnd(t) ==
  /\ mutex = t /\ work # Null
  /\ work.next > Len(params[work.list].flags)
  /\ params' = [params EXCEPT ![work.list].flags = << >>]
  /\ work' = Null
  /\ UNCHANGED <<scenario, mutex, interruptAccept, registered, got, eos, port,
                 shutdownNeeded, cb, cbDone, cbShutdown, deletes, shutter>>

\* callParamCallbacks(list, addr): before iocInit is done nothing is called
\* and the flags stay.
callParamCallbacks(l, addr) ==
  IF interruptAccept /\ getParamList(l) THEN [list |-> l, addr |-> addr, next |-> 1] ELSE Null

\* doCallbacksArray<> and its relatives call the clients at once, before
\* iocInit is done as well as after.
doCallbacksArray(type, v, i, addr) ==
  got' = Deliver(Called(type, i, addr), v, PL!Alarm(params[addr], i))

doCallbacksInt8Array(v, i, addr) == doCallbacksArray("Int8Array", v, i, addr)

doCallbacksInt16Array(v, i, addr) == doCallbacksArray("Int16Array", v, i, addr)

doCallbacksInt32Array(v, i, addr) == doCallbacksArray("Int32Array", v, i, addr)

doCallbacksInt64Array(v, i, addr) == doCallbacksArray("Int64Array", v, i, addr)

doCallbacksFloat32Array(v, i, addr) == doCallbacksArray("Float32Array", v, i, addr)

doCallbacksFloat64Array(v, i, addr) == doCallbacksArray("Float64Array", v, i, addr)

doCallbacksGenericPointer(v, i, addr) == doCallbacksArray("GenericPointer", v, i, addr)

\* The clients of an enum get no status.
doCallbacksEnum(v, i, addr) ==
  got' = Deliver(Called("Enum", i, addr), v, Null)

-----------------------------------------------------------------------------
(* The driver: its constructor, its own thread, iocInit *)

\* The constructor, before iocInit: the base class has set up the lists, the
\* interfaces and the callback thread, the derived class creates the
\* parameters, each in every list.
Init ==
  /\ scenario \in Scenarios
  /\ params = [a \in Addrs |-> PL!EmptyList]
  /\ mutex = Null /\ work = Null
  /\ interruptAccept = FALSE
  /\ registered = {} /\ got = [c \in Clients |-> Null]
  /\ eos = [input |-> NoVal, output |-> NoVal]
  /\ port = "constructing" /\ shutdownNeeded = TRUE
  /\ cb = -2 /\ cbDone = FALSE /\ cbShutdown = FALSE
  /\ deletes = 0 /\ shutter = [s \in Shutters |-> "idle"]

\* What the uninitialised masks hold: nothing or every bit.
Garbage(type) == IF type = "UInt32Digital" THEN {{}, Bits} ELSE {{}}

\* A list is extended unless it or an earlier one has the name already.  The
\* lists get the same mask: no scenario uses the masks of two of them.
createParam(name, mask) ==
  params' = [a \in Addrs |->
    IF \A b \in 0 .. a : PL!findParam(params[b], name) = 0
    THEN PL!createParam(params[a], name, scenario.types[name], mask).list
    ELSE params[a]]

createParams ==
  /\ port = "constructing"
  /\ LET n == Len(params[0].names) + 1
     IN  IF n > Len(Names) THEN port' = "up" /\ UNCHANGED params
         ELSE /\ \E mask \in Garbage(scenario.types[Names[n]]) : createParam(Names[n], mask)
              /\ UNCHANGED port
  /\ UNCHANGED <<scenario, mutex, work, interruptAccept, registered, got, eos,
                 shutdownNeeded, cb, cbDone, cbShutdown, deletes, shutter>>

iocInit ==
  /\ port = "up" /\ ~interruptAccept
  /\ interruptAccept' = TRUE
  /\ UNCHANGED <<scenario, params, mutex, work, registered, got, eos, port,
                 shutdownNeeded, cb, cbDone, cbShutdown, deletes, shutter>>

lock(t) ==
  /\ mutex = Null /\ mutex' = t

\* A thread of the derived class updates parameters, then calls the callbacks
\* of the address, all under one lock() or under several.  It may do so on a
\* port that is defunct: it is the destructor of the derived class that ends it.
driverLock ==
  /\ port \in {"up", "defunct"} /\ deletes = 0 /\ lock(Driver)
  /\ UNCHANGED <<scenario, params, work, interruptAccept, registered, got, eos, port,
                 shutdownNeeded, cb, cbDone, cbShutdown, deletes, shutter>>

driverUnlock ==
  /\ mutex = Driver /\ work = Null /\ mutex' = Null
  /\ UNCHANGED <<scenario, params, work, interruptAccept, registered, got, eos, port,
                 shutdownNeeded, cb, cbDone, cbShutdown, deletes, shutter>>

\* One assignment of the driver to parameter i of list l.
Assign(op, l, i) ==
  CASE op = "status" -> {setParamStatus(l, i, s).params : s \in {"success", "error"}}
    [] op = "alarmStatus" -> {setParamAlarmStatus(l, i, s).params : s \in {0, 1}}
    [] op = "alarmSeverity" -> {setParamAlarmSeverity(l, i, s).params : s \in {0, 1}}
    [] op = "integer" -> {setIntegerParam(l, i, v).params : v \in Values}
    [] op = "integer64" -> {setInteger64Param(l, i, v).params : v \in Values}
    [] op = "double" -> {setDoubleParam(l, i, v).params : v \in Values}
    [] op = "string" -> {setStringParam(l, i, v).params : v \in Values}
    [] op = "digital" -> {setUIntDigitalParam(l, i, v, m, {}).params :
                             v \in SUBSET Bits, m \in SUBSET Bits}
    [] op = "digitalInterrupt" -> {setUIntDigitalParam(l, i, {}, {}, m).params :
                             m \in SUBSET Bits}
    [] OTHER -> {}

driverAssign ==
  /\ mutex = Driver /\ work = Null
  /\ \E op \in scenario.ops, l \in scenario.addrs, i \in PL!Index(params[0]) :
       \E new \in Assign(op, l, i) : params' = new
  /\ UNCHANGED <<scenario, mutex, work, interruptAccept, registered, got, eos, port,
                 shutdownNeeded, cb, cbDone, cbShutdown, deletes, shutter>>

\* callParamCallbacks() and callParamCallbacks(addr).
driverCallbacks ==
  /\ mutex = Driver /\ work = Null
  /\ \E a \in scenario.addrs : work' = callParamCallbacks(a, a)
  /\ UNCHANGED <<scenario, params, mutex, interruptAccept, registered, got, eos, port,
                 shutdownNeeded, cb, cbDone, cbShutdown, deletes, shutter>>

driverArray ==
  /\ mutex = Driver /\ work = Null /\ "array" \in scenario.ops
  /\ \E v \in Values, a \in scenario.addrs, i \in PL!Index(params[0]) :
       \/ doCallbacksInt8Array(v, i, a)    \/ doCallbacksInt16Array(v, i, a)
       \/ doCallbacksInt32Array(v, i, a)   \/ doCallbacksInt64Array(v, i, a)
       \/ doCallbacksFloat32Array(v, i, a) \/ doCallbacksFloat64Array(v, i, a)
       \/ doCallbacksGenericPointer(v, i, a) \/ doCallbacksEnum(v, i, a)
  /\ UNCHANGED <<scenario, params, mutex, work, interruptAccept, registered, eos, port,
                 shutdownNeeded, cb, cbDone, cbShutdown, deletes, shutter>>

-----------------------------------------------------------------------------
(* callbackThread *)

\* tryWait takes the shutdown event: a thread that it wakes does not see it
\* again in the loop.
cbWake ==
  /\ cb = -2 /\ (interruptAccept \/ cbShutdown)
  /\ cb' = -1
  /\ cbShutdown' = (cbShutdown /\ interruptAccept)
  /\ UNCHANGED <<scenario, params, mutex, work, interruptAccept, registered, got, eos,
                 port, shutdownNeeded, cbDone, deletes, shutter>>

cbLock ==
  /\ cb = -1 /\ lock(CbThread)
  /\ cb' = 0
  /\ UNCHANGED <<scenario, params, work, interruptAccept, registered, got, eos, port,
                 shutdownNeeded, cbDone, cbShutdown, deletes, shutter>>

runTurn_first(a) == MaxAddr

\* The address the loop goes on with after address a.
runTurn(a) == a + 1

cbCallbacks ==
  /\ mutex = CbThread /\ work = Null /\ cb \in Addrs
  /\ IF cbShutdown
     THEN cbShutdown' = FALSE /\ cb' = MaxAddr /\ UNCHANGED work
     ELSE work' = callParamCallbacks(cb, cb) /\ cb' = runTurn(cb) /\ UNCHANGED cbShutdown
  /\ UNCHANGED <<scenario, params, mutex, interruptAccept, registered, got, eos, port,
                 shutdownNeeded, cbDone, deletes, shutter>>

cbEnd ==
  /\ mutex = CbThread /\ work = Null /\ cb = MaxAddr
  /\ mutex' = Null /\ cbDone' = TRUE
  /\ UNCHANGED <<scenario, params, work, interruptAccept, registered, got, eos, port,
                 shutdownNeeded, cb, cbShutdown, deletes, shutter>>

-----------------------------------------------------------------------------
(* Shutdown and destruction *)

\* pasynManager->shutdownPort by thread s: only the first call emits
\* asynExceptionShutdown.
shutdownPort(s) ==
  /\ shutter[s] = "idle" /\ port \in {"up", "defunct"} /\ scenario.end = "shutdown"
  /\ port' = "defunct"
  /\ shutter' = [shutter EXCEPT ![s] = IF port = "up" THEN "exception" ELSE "end"]
  /\ UNCHANGED <<scenario, params, mutex, work, interruptAccept, registered, got, eos,
                 shutdownNeeded, cb, cbDone, cbShutdown, deletes>>

\* The driver deleted by its user, not through asynManager: the destructor
\* finds the port in use and shuts it down itself.
deleteDirect(s) ==
  /\ shutter[s] = "idle" /\ port = "up" /\ scenario.end = "delete" /\ deletes = 0 /\ mutex = Null
  /\ deletes' = deletes + 1
  /\ shutter' = [shutter EXCEPT ![s] = IF shutdownNeeded THEN "shutdown" ELSE "destructor"]
  /\ UNCHANGED <<scenario, params, mutex, work, interruptAccept, registered, got, eos, port,
                 shutdownNeeded, cb, cbDone, cbShutdown>>

shutdownPortDriver_armed(needed) == needed

\* shutdownPortDriver disarms the exception handler before it shuts the port
\* down: the value of shutdownNeeded it leaves.
shutdownPortDriver(needed) == FALSE

\* shutdownPort called by shutdownPortDriver: a port that is not defunct yet
\* emits the exception, inside the destructor.
shutdownPortNested(s) ==
  /\ shutter[s] = "shutdown"
  /\ shutdownNeeded' = shutdownPortDriver(shutdownNeeded)
  /\ port' = "defunct"
  /\ shutter' = [shutter EXCEPT ![s] = IF port = "up" THEN "exception" ELSE "destructor"]
  /\ UNCHANGED <<scenario, params, mutex, work, interruptAccept, registered, got, eos,
                 cb, cbDone, cbShutdown, deletes>>

\* needsShutdown() reads the flag under the mutex.  A driver that still needs
\* it is shut down and deleted; otherwise the destructor runs already.
exceptionHandler(s) ==
  /\ shutter[s] = "exception" /\ mutex = Null
  /\ shutter' = [shutter EXCEPT ![s] = IF shutdownNeeded THEN "shutdown" ELSE "destructor"]
  /\ deletes' = IF shutdownNeeded THEN deletes + 1 ELSE deletes
  /\ UNCHANGED <<scenario, params, mutex, work, interruptAccept, registered, got, eos, port,
                 shutdownNeeded, cb, cbDone, cbShutdown>>

\* needsShutdown() once more, then delete cbThread signals the thread ...
destructor(s) ==
  /\ shutter[s] = "destructor" /\ mutex = Null
  /\ cbShutdown' = TRUE
  /\ shutter' = [shutter EXCEPT ![s] = "doneEvent"]
  /\ UNCHANGED <<scenario, params, mutex, work, interruptAccept, registered, got, eos,
                 port, shutdownNeeded, cb, cbDone, deletes>>

\* ... and waits for it to end.
deleteCbThread(s) ==
  shutter[s] = "doneEvent" /\ cbDone

\* The mutex, the lists and the object are gone.
freeDriver(s) ==
  /\ deleteCbThread(s)
  /\ port' = "deleted"
  /\ shutter' = [shutter EXCEPT ![s] = "end"]
  /\ UNCHANGED <<scenario, params, mutex, work, interruptAccept, registered, got, eos,
                 shutdownNeeded, cb, cbDone, cbShutdown, deletes>>
=============================================================================
