---------------------------- MODULE AsynPortClient ---------------------------
(***************************************************************************)
(* The C++ client classes of a port.  Each holds an asynUser of a SyncIO   *)
(* module from its constructor (connect) to its destructor (disconnect),   *)
(* and every method is the SyncIO function of the same name: a class is    *)
(* the set of functions a thread calls with one asynUser.                  *)
(***************************************************************************)
EXTENDS AsynSyncIO

asynInt32Client ==
  {Int32SyncIO_connect, Int32SyncIO_disconnect, Int32SyncIO_readOp,
   Int32SyncIO_writeOp, Int32SyncIO_getBounds}

asynUInt32DigitalClient ==
  {UInt32DigitalSyncIO_connect, UInt32DigitalSyncIO_disconnect, UInt32DigitalSyncIO_readOp,
   UInt32DigitalSyncIO_writeOp, UInt32DigitalSyncIO_setInterrupt,
   UInt32DigitalSyncIO_clearInterrupt, UInt32DigitalSyncIO_getInterrupt}

asynFloat64Client ==
  {Float64SyncIO_connect, Float64SyncIO_disconnect, Float64SyncIO_readOp, Float64SyncIO_writeOp}

asynOctetClient ==
  {OctetSyncIO_connect, OctetSyncIO_disconnect, OctetSyncIO_writeIt, OctetSyncIO_readIt,
   OctetSyncIO_writeRead, OctetSyncIO_flushIt, OctetSyncIO_setInputEos, OctetSyncIO_getInputEos,
   OctetSyncIO_setOutputEos, OctetSyncIO_getOutputEos}

asynInt8ArrayClient ==
  {Int8ArraySyncIO_connect, Int8ArraySyncIO_disconnect, Int8ArraySyncIO_readOp,
   Int8ArraySyncIO_writeOp}

asynInt16ArrayClient ==
  {Int16ArraySyncIO_connect, Int16ArraySyncIO_disconnect, Int16ArraySyncIO_readOp,
   Int16ArraySyncIO_writeOp}

asynInt32ArrayClient ==
  {Int32ArraySyncIO_connect, Int32ArraySyncIO_disconnect, Int32ArraySyncIO_readOp,
   Int32ArraySyncIO_writeOp}

asynFloat32ArrayClient ==
  {Float32ArraySyncIO_connect, Float32ArraySyncIO_disconnect, Float32ArraySyncIO_readOp,
   Float32ArraySyncIO_writeOp}

asynFloat64ArrayClient ==
  {Float64ArraySyncIO_connect, Float64ArraySyncIO_disconnect, Float64ArraySyncIO_readOp,
   Float64ArraySyncIO_writeOp}

asynGenericPointerClient ==
  {GenericPointerSyncIO_connect, GenericPointerSyncIO_disconnect, GenericPointerSyncIO_readOp,
   GenericPointerSyncIO_writeOp}

asynOptionClient ==
  {OptionSyncIO_connect, OptionSyncIO_disconnect, OptionSyncIO_getOption, OptionSyncIO_setOption}

asynEnumClient ==
  {EnumSyncIO_connect, EnumSyncIO_disconnect, EnumSyncIO_readOp, EnumSyncIO_writeOp}

asynCommonClient ==
  {CommonSyncIO_connect, CommonSyncIO_disconnect, CommonSyncIO_connectDevice,
   CommonSyncIO_disconnectDevice}

\* The client asynPortClient makes for a parameter of a type; its constructor
\* throws for a driver that has a parameter of another type, Int64 among them.
asynPortClient(type) ==
  CASE type = "Int32" -> asynInt32Client
    [] type = "UInt32Digital" -> asynUInt32DigitalClient
    [] type = "Float64" -> asynFloat64Client
    [] type = "Octet" -> asynOctetClient
    [] type = "Int8Array" -> asynInt8ArrayClient
    [] type = "Int16Array" -> asynInt16ArrayClient
    [] type = "Int32Array" -> asynInt32ArrayClient
    [] type = "Float32Array" -> asynFloat32ArrayClient
    [] type = "Float64Array" -> asynFloat64ArrayClient
    [] type = "GenericPointer" -> asynGenericPointerClient
    [] OTHER -> {}
=============================================================================
