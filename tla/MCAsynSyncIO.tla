---------------------------- MODULE MCAsynSyncIO ----------------------------
(***************************************************************************)
(* Instances of AsynPortClient for TLC: a driver with two parameters, its  *)
(* callback thread, two callback clients and two threads that call functions.*)
(***************************************************************************)
EXTENDS AsynPortClient

CONSTANTS t1, t2, drv, cbt, s1, s2

MCNames == <<"P", "Q">>

Cl(type, reason, addr, mask) == [type |-> type, reason |-> reason, addr |-> addr, mask |-> mask]

ClientOn(type) == [c \in {"c1"} |-> Cl(type, 1, 0, {1})]

NoClient == [c \in {} |-> Cl("Int32", 1, 0, {})]

ArrayClients == {"Int8Array", "Int16Array", "Int32Array", "Int64Array", "Float32Array",
                 "Float64Array", "GenericPointer", "Enum"}

MCInterfaces == {"DrvUser", "Int32", "Int64", "UInt32Digital", "Float64", "Octet", "Option",
                 "GenericPointer", "Enum", "Int8Array", "Int16Array", "Int32Array",
                 "Int64Array", "Float32Array", "Float64Array"}

MCCanInterrupt == MCInterfaces \ {"DrvUser", "Option"}

Scenario(p, q, ops, programs, threads, clients, addrs, end) ==
  [types |-> [n \in {"P", "Q"} |-> IF n = "P" THEN p ELSE q], ops |-> ops,
   programs |-> programs, threads |-> threads, clients |-> clients, addrs |-> addrs,
   end |-> end]

\* An Int32 parameter updated by the driver at two addresses, and by the
\* driver and a client at one.
Int32Scenarios ==
  {Scenario("Int32", "Octet", {"integer"}, {}, {}, 
            [c1 |-> Cl("Int32", 1, -1, {}), c2 |-> Cl("Int32", 1, 1, {})], {0, 1}, "none"),
   Scenario("Int32", "Octet", {"integer"}, {Int32SyncIO_writeOpOnce}, {t1}, ClientOn("Int32"), {0}, "none")}

\* Two parameters of one list.
TwoParams ==
  Scenario("Octet", "Float64", {"string", "double"}, {}, {}, 
           [c1 |-> Cl("Octet", 1, 1, {}), c2 |-> Cl("Float64", 2, 1, {})], {1}, "none")

\* Status and alarms of an Int64 parameter.
AlarmScenarios ==
  {Scenario("Int64", "Int32", {"integer64", op}, {}, {}, ClientOn("Int64"), {0}, "none") :
     op \in {"status", "alarmStatus", "alarmSeverity"}}

\* A digital parameter with two bits, clients with masks.
DigitalScenarios ==
  {Scenario("UInt32Digital", "Octet", {"digital"}, {}, {}, ClientOn("UInt32Digital"), {0}, "none"),
   Scenario("UInt32Digital", "Octet", {"digitalInterrupt", "status"}, {}, {}, ClientOn("UInt32Digital"), {0}, "none")}

\* The end of the port, with the first callbacks still to be made.
EndScenarios ==
  {Scenario("Int32", "Octet", {"integer"}, {}, {}, ClientOn("Int32"), {0}, end) : end \in {"shutdown", "delete"}}
    \cup {Scenario("Int32", "Octet", {}, {Int32SyncIO_readOpOnce}, {t1}, NoClient, {0}, end) :
            end \in {"shutdown", "delete"}}

\* Two threads compete for the port, and one may disconnect it.
PortScenario ==
  Scenario("Int32", "Octet", {}, {Int32SyncIO_readOpOnce, CommonSyncIO_connect,
             CommonSyncIO_disconnect, CommonSyncIO_connectDevice,
             CommonSyncIO_disconnectDevice},
           {t1, t2}, NoClient, {0}, "none")

\* connect and disconnect of the modules the client classes have none of.
ConnectScenarios ==
  {Scenario(type, "Octet", {}, class, {t1}, NoClient, {0}, "none") :
     type \in {"Int64Array"}, class \in {{Int64SyncIO_connect, Int64SyncIO_disconnect},
                                        {Int64ArraySyncIO_connect, Int64ArraySyncIO_disconnect}}}

\* The other callbacks and functions, one at a time.
ArrayScenarios ==
  {Scenario(type, "Octet", IF type = "GenericPointer" THEN {"array", "status"} ELSE {"array"}, {}, {},
            ClientOn(type), {0}, "none") : type \in ArrayClients}

Tried(type, once) == {Scenario(type, "Octet", {}, {f}, {t1}, NoClient, {0}, "none") : f \in once}

FunctionScenarios ==
       Tried("Int32", {Int32SyncIO_writeOpOnce, Int32SyncIO_getBoundsOnce})
  \cup Tried("Int64", {Int64SyncIO_writeOpOnce, Int64SyncIO_readOpOnce, Int64SyncIO_getBoundsOnce})
  \cup Tried("UInt32Digital",
         {UInt32DigitalSyncIO_writeOpOnce, UInt32DigitalSyncIO_readOpOnce,
          UInt32DigitalSyncIO_setInterruptOnce, UInt32DigitalSyncIO_clearInterruptOnce,
          UInt32DigitalSyncIO_getInterruptOnce})
  \cup Tried("Float64", {Float64SyncIO_writeOpOnce, Float64SyncIO_readOpOnce})
  \cup Tried("Octet", {OctetSyncIO_writeOnce, OctetSyncIO_readOnce, OctetSyncIO_setInputEosOnce,
                       OctetSyncIO_getInputEosOnce, OctetSyncIO_setOutputEosOnce,
                       OctetSyncIO_getOutputEosOnce})
  \cup Tried("GenericPointer", {GenericPointerSyncIO_writeOpOnce, GenericPointerSyncIO_readOpOnce,
                                GenericPointerSyncIO_writeReadOpOnce})
  \cup Tried("Enum", {EnumSyncIO_writeOpOnce, EnumSyncIO_readOpOnce})
  \cup Tried("Int32", {OptionSyncIO_setOptionOnce, OptionSyncIO_getOptionOnce})
  \cup Tried("Int8Array", {Int8ArraySyncIO_writeOpOnce, Int8ArraySyncIO_readOpOnce})
  \cup Tried("Int16Array", {Int16ArraySyncIO_writeOpOnce, Int16ArraySyncIO_readOpOnce})
  \cup Tried("Int32Array", {Int32ArraySyncIO_writeOpOnce, Int32ArraySyncIO_readOpOnce})
  \cup Tried("Int64Array", {Int64ArraySyncIO_writeOpOnce, Int64ArraySyncIO_readOpOnce})
  \cup Tried("Float32Array", {Float32ArraySyncIO_writeOpOnce, Float32ArraySyncIO_readOpOnce})
  \cup Tried("Float64Array", {Float64ArraySyncIO_writeOpOnce, Float64ArraySyncIO_readOpOnce})

\* A client class with all its methods; flush of a base class driver does not
\* return and is left out.
ClientScenarios ==
  {Scenario(type, "Octet", {}, asynPortClient(type) \ {OctetSyncIO_writeRead, OctetSyncIO_flushIt},
            {t1}, NoClient, {0}, "none") :
     type \in {"Int32", "UInt32Digital", "Float64", "Octet", "Int8Array", "Int16Array",
               "Int32Array", "Float32Array", "Float64Array", "GenericPointer"}}
  \cup {Scenario("Int32", "Octet", {}, class, {t1}, NoClient, {0}, "none") :
     class \in {asynOptionClient, asynEnumClient, asynCommonClient}}

\* An address the driver does not have.
BadAddressScenarios ==
  {Scenario("Octet", "Int32", {}, {f}, {t1}, NoClient, {2}, "none") :
     f \in {OctetSyncIO_flushOnce, OctetSyncIO_writeReadOnce}}

MCScenarios ==
  {TwoParams, PortScenario} \cup Int32Scenarios \cup AlarmScenarios \cup DigitalScenarios
    \cup EndScenarios \cup ArrayScenarios \cup ConnectScenarios \cup FunctionScenarios \cup ClientScenarios \cup BadAddressScenarios

MCRequests ==
  {[addr |-> a, name |-> IF a = 2 THEN Null ELSE "P", val |-> 1, bits |-> {1}, mask |-> {1, 2}] :
     a \in 0 .. 2}
=============================================================================
