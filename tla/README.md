# asyn: a TLA+ model of the asynchronous driver framework

asyn sits between EPICS device support and the drivers of hardware ports. Its
heart is `asyn/asynDriver/asynManager.c`: one thread per blocking port that
serves requests from four priority queues, and the locks, timers, events and
lists by which clients, drivers and that thread get along. This directory
models that heart, the layers above it (asynPortDriver, the SyncIO clients, device support
and the asynRecord) and below it (the octet drivers and their interpose layers)
in TLA+, checks them with TLC on small instances and proves the main invariants,
and that the lock of a port implements an abstract one, with TLAPS.

Paths below are relative to `src/`; "AM" is `asyn/asynDriver/asynManager.c`,
"rst" is `docs/source/asynDriver.rst`.

## 1. Inventory

| component | state it keeps | operations | hard behaviour | what makes it correct |
|---|---|---|---|---|
| asynManager: queues and port thread | four lists per port, `isQueued`, `state`, timer and `callbackDone` of each asynUser, block holders, enabled / connected flags, `queueStateChange`, event `notifyPortThread` | queueRequest, cancelRequest, blockProcessCallback, unblockProcessCallback, lockPort, enable, exceptionConnect / Disconnect, connectDevice / disconnect, the timer callback, portThread | the port thread drops `asynManagerLock` in the middle of a scan; three parties race for one asynUser; events without counts | lists and flags agree; scan pointers are fresh; a block excludes; a canceller is woken; no lost wake-up |
| asynManager: exclusive access | `synchronousLock`, per-thread event, mutex and count of queueLockPort, `asynLockPortNotify` | queueLockPort, queueUnlockPort, lockPort, unlockPort | hand-over between the port thread and the caller, time-out racing the grant, a port stacked on another port | one owner; no stale event; the lower port is locked with the upper; the call returns |
| asynManager: exceptions and interrupts | exceptionUserList / exceptionNotifyList per device, callbackList / addRemoveList per interface, a flag each | exceptionCallbackAdd / Remove, announceExceptionOccurred, add / removeInterruptUser, interruptStart / End, node free list | lists walked without a lock; deferred changes; node reuse | nobody is called after removal; nobody on the list is skipped; waiters return |
| asynManager: port connect timer, waitConnect | connectTimer, an event | portConnectTimerCallback, portConnectProcessCallback, waitConnect | timer not restarted when queueRequest fails (AM:3290); connection made between test and exceptionCallbackAdd (AM:3342) | the port is eventually tried again; waitConnect sees a connection made before its time-out |
| asynManager: asynUser life | free list, `freeAfterCallback` | create / duplicate / freeAsynUser, memMalloc / memFree | `state` tested under another lock than it is written under (AM:1249) | an asynUser is on the free list once, and not in use |
| asynManager: shutdownPort | `defunct` | shutdownPort | refused operations leave references behind | no call into a driver that is gone |
| asynPortDriver, paramVal | parameter values, status, list of changed parameters | setParam, getParam, callCallbacks, callbackThread, shutdown | flags cleared after the first address; undefined parameters; start before interruptAccept | every change reaches the clients of its address |
| devEpics | ring buffer, result, counters of deferred callbacks | process, callbacks of drivers, outputCallback | overflow; callbacks during asynchronous processing; PACT | the last value wins; none is lost or duplicated |
| asynRecord | state, gotValue, asynUser | process, special, cancel, connect, interrupt callbacks | cancel racing the callback | the record always becomes idle |
| interpose layers (Eos, Com, Delay, Echo, Flush) | input buffer, match position | read, write, flush, setEos | terminator split over reads, reconnect between | messages are cut exactly at terminators |
| drvAsynIPPort, drvAsynIPServerPort, serial, USBTMC, FTDI, Prologix | socket or fd, connected flag, UDP buffer | connect, read, write, listener thread | listener and reader share a buffer | a client gets one port; no datagram is lost or mixed |
| asynGpib, drvVxi11, GPIB boards, devGpib | polled addresses, SRQ flags, work queue | srqHappened, poll, queueReadRequest... | SRQ racing a time-out | an SRQ is delivered to one waiter |
| SyncIO, Base methods, asynPortClient | none beyond an asynUser | wrappers | as for the functions they call | |
| trace, time stamps, report, shell commands | masks, file | output | none that the port depends on | |

Interactions: clients call asynManager; asynManager calls drivers through
asynCommon (`connect`) and clients through `processUser` / `timeoutUser`;
drivers call back through interrupt lists and exceptions. One lock per port
(`asynManagerLock`) guards the tables, a second (`synchronousLock`) is held
while a driver is called, and no callback is made with the first one held.
Events carry everything else.

## 2. Modules

| modules | model | proofs |
|---|---|---|
| `AsynQueue` | the queues and the port thread of one port with ASYN_CANBLOCK | `AsynQueueProofs` |
| `PortLock`, `AsynLockPort` | one owner, released before the next; queueLockPort and lockPort, which implement it | `AsynLockPortProofs` |
| `AsynNotify` | exception and interrupt lists | `AsynNotifyProofs` |
| `AsynConnect` | connectTimer, autoConnectDevice, waitConnect | `AsynConnectProofs` |
| `ParamVal`, `ParamList`, `AsynPortDriver` | one parameter; the parameters of an address; the base class of drivers with its callback thread and its end | with the next |
| `AsynSyncIO`, `AsynPortClient` | the functions of the SyncIO modules and the client classes, on top of `AsynPortDriver` | `AsynSyncIOProofs` |
| `DevAsynRing` | the device support of one record in detail: ring buffer, I/O Intr scans, output callbacks, time stamps | `DevAsynRingProofs` |
| `DevAsyn`, `DevAsynScalars`, `DevAsynOctet`, `DevAsynArray`, `DevAsynRecords` | what the supports share; those of each family; an IOC with any one of them | |
| `OctetPeer`, `DrvAsynIPPort`, `DrvAsynSerialPort`, `AsynOctetBase`, `AsynInterposeEos`, `AsynInterposeCom`, `AsynInterpose`, `OctetStack` | what is at the other end; the drivers; the layers; a port with all of them | |
| `DrvAsynIPServerPort` | the listener thread, its client ports and the UDP buffer | `DrvAsynIPServerPortProofs` |
| `AsynRecord` | one asynRecord between the database and its ports | `AsynRecordProofs` |

`MC`*name* instantiates module *name* (`MCAsynSyncIO` instantiates
`AsynPortClient`) for TLC.

### AsynQueue

State corresponds field by field to `struct port`, `struct dpCommon` and
`struct userPvt` (AM:135-237); the comments at the VARIABLES name the fields.
A section of code between taking and releasing `asynManagerLock` is one action.
The port thread is finer: it holds the lock (`mgr`) over several actions,
because `connected` is written without that lock by exceptionConnect and
exceptionDisconnect, and may change between any two of its tests. Actors are
client threads, the port thread inside a callback and the timer thread inside a
timeoutUser; each may call any operation from there, since the documentation
allows callbacks to call asynManager (rst:1230). An operation that signals an
event or waits after it released the lock goes on in a second action
(`Announce`, `Signal`, `StopTimer`, `WaitDone`), so that a crowd of half-done
operations is part of the state space.

What is abstracted: time (a pending timer may expire at any moment), the work a
callback does, several timers per queue, the 2-second minimum between connect
attempts (`autoConnectDevice` may try at once; leaving out a delay only adds
behaviours). `epicsTimerCancel` waits for a callback of the same timer that is
running (`MayStopTimer`); the timer queue and `ellDelete` are modelled
from their use and marked external.

Environment constants say what callers do. Three of them switch on uses the
documentation does not rule out but under which some property fails, so
that the passing runs say under which discipline the code is right:
`FreeUse` (an asynUser is queued or cancelled while an earlier request,
callback or cancelRequest of it is in progress), `FreeRebind` (disconnect
during an active callback), `CancelUnderLock`. The theorems hold for every value
of all three, except two that need `FreeUse` to be FALSE (section 5).

### AsynLockPort and PortLock

A thread that calls queueLockPort on a blocking port queues a copy of its
asynUser; the callback signals the thread's event and then blocks the port
thread on the thread's mutex until queueUnlockPort. The model has the event, the
mutex, the nesting count, the two recursive mutexes (`synchronousLock` of the
port and of the port below), and the port thread reduced to what this protocol
sees: `AsynQueue` checks the queues, here one list is enough since all lock
requests have priority Low. `kind` ranges over the four sorts of port: with
and without ASYN_CANBLOCK, with and without `asynLockPortNotify`, whose only
implementation in the repository is `testApp/src/addrChangeDriver.c`.
The refinement mapping sends a state to the one actor that may call the driver
(`TheOwner`); `HandsOver` is the specification of `PortLock` under it.

### AsynNotify

Exception lists and interrupt lists use the same protocol with different
fields, so one module has both (`kind`): a flag says that somebody walks the
list, and a client that is added or removed meanwhile puts itself on a second
list and sleeps. The differences are modelled: exceptionUsers are freed at once
and interruptNodes go to a free list and are used again with the event they
had; interruptEnd wakes only if `listModified`; shutdownPort makes the interrupt
functions refuse. Reading the successor of a freed node yields any pointer.
`Overlap` says whether two threads may walk one list at a time.

### DevAsynRing

One record with the device support of `asyn/devEpics/devAsynInt32.c` ("DI"): a
longin record, whose SCAN may change to and from I/O Intr, or a longout record
with asyn:READBACK=1, on a port with or without ASYN_CANBLOCK (`config`). Its
variables are the fields of `devPvt` (DI:70-118), the fields of the record that
device support touches, and what is under way outside: `callbacks` counts the
scans (input) or outputCallbacks (output) in the callback queue of EPICS,
`queued` is the asynUser on the queue of the port, `done` the callback that
finishes an active record. `put`, `seen` and `informed` are history variables
that no guard reads.

| action | code |
|---|---|
| `interruptCallback`, `Tell`, `Push` | interruptCallbackInput, interruptCallbackOutput: an element is added, or replaces the oldest one; processing is asked for or deferred |
| `scanIoRequest`, `clientProcess`, `processLi` | a callback thread or a client processes the input record |
| `outputCallbackCallback` | a callback thread processes the output record for a driver callback, PACT included |
| `clientPut`, `StartWrite` | a client puts a value; processLo up to queueRequest |
| `synchronousIO`, `portThread` | the driver is called, at once or by the port thread; a write that changes the value makes a callback, as asynPortDriver::writeInt32 does |
| `processEnd`, `processCallback`, `EndWrite` | the end of processLi and processLo, with the deferred callback |
| `getIoIntInfo`, `iocRun` | registration; the end of iocInit, before which callbacks are ignored |

A step is what a thread does between taking and releasing `devPvtLock`; the
thread that is inside queueRequest keeps the scan lock of the record (`pc`). The
element of the ring buffer has a value, a status and the number of the driver's
change (the time stamp). Masks, alarm severities and conversions are left out.

Assumed of the environment: the callback queues of EPICS are not full; a client
puts only into a record that is not active (no RPRO); SCAN changes only while no
scan is pending; asyn:FIFO is at least 1. `calm` says that clients start a record
of a port that can block only while no callback is pending, the discipline
without which a put or the last value is lost (section 4): `Settled` and `PutKept` are `MostRecent`
and `PutWritten` under it, or for a port that cannot block, where they hold
without it.

### AsynConnect

Who brings a port up: the connect timer with its request
(`initPortConnect`, `portConnectTimerCallback`, `portConnectProcessCallback`),
`autoConnectDevice` with `connectAttempt` in the port thread, the first connection
when asynCommon is registered, and `waitConnect` with its exception handler. The
threads are the clients, the port thread, the timer and the registrar; a step is
what one does between two locks, since `connected`, `enabled` and
`autoConnect` are read and written under different ones. The device goes away and
comes back (`MaxOutages`); clients connect, disconnect, enable, change autoConnect
and call waitConnect (`MaxCalls`). The port may or may not have ASYN_CANBLOCK.

### ParamVal, ParamList, AsynPortDriver

A parameter is a record and each method of `paramVal` an operator on it; a list
is the parameters of one address with the indexes of those changed since the last
callbacks, in the order of their first change. A method of the driver that only
reads or writes the lists runs under `mutexId` and is one step.
`callCallbacks` is a loop under that mutex, one step per changed parameter: clients
register and cancel, and iocInit and shutdownPort run, without the mutex, and
so between two steps. The derived class's own thread takes the mutex until the driver
is deleted (its destructor ends it), of a port that is defunct too. `callbackThread` makes the first callbacks after iocInit.
`shutdownPortDriver`, the shutdown exception and the destructor are steps of the
`Shutters`. A digital value is a set of bits, so that the masks are sets too; the
values of the other types are only compared by the code and come from a small set.

### AsynSyncIO, AsynPortClient

A SyncIO function is the sequence of the calls it makes (connect, queueLockPort,
the method, queueUnlockPort, disconnect ...); a thread runs one function at a
time, a call per step, and a failed call goes on with the cleanup the
function has left. A client class is the set of functions a thread calls with one
asynUser. queueLockPort is its result: the port has one user (`AsynLockPort` says
how).

### DevAsyn, DevAsynScalars, DevAsynOctet, DevAsynArray, DevAsynRecords

A function of device support is an operator on `[pvt, record, thread]` that
returns the states it may leave behind; a constant names the support (dset, links
and what the driver has), and `DevAsynRecords` puts any of them into an IOC with
clients, I/O Intr scans, a port thread, and a driver that calls back. The dsets of the Int32, Int64, Float64, UInt32Digital, Octet, array and time series
files are all there, with reads, puts, readbacks, averages, enums and alarms. Three
locks are kept: the scan lock of the record, the driver's, and the list of
interrupt users in use. Words have `WordSize` bits. Time stamps and the details of
the ring buffer are in `DevAsynRing`; the link parser is left out.

### The octet stack

The state of a port and all its layers is one record `s`, and a method of a
layer an operator that returns the outcomes (state, status, characters, end-of-message reason);
a layer calls the one below it by name, as the interfaces are stacked. `OctetStack`
makes one call per step (the caller has the port) and, in between, lets the
network cut, delay and close, and the device send, go away and come back. `OctetPeer` is
external: a device, one that echoes, or a terminal server (RFC 2217) as far as
`asynInterposeCom` expects something of it. Messages carry their own
terminators as characters, so that the Eos layer has something to find; other
characters are members of a small alphabet. `history` is read by properties only.

### DrvAsynIPServerPort

The listener thread of a TCP server accepts and hands the socket to the first
client port that is not connected, in the steps of `connectionListener`; users of
client ports close, reopen and disable them meanwhile. For UDP the listener fills a
buffer that readers and interrupt users take from without a lock.

### AsynRecord

One asynRecord between the database, which processes it and writes its fields
under the scan lock, and the ports it is connected to one after another. `special`
is a program: PORT and PCNCT run the steps of `connectDevice` (`remove`, `connect`, `add`,
`read`, `show`, ...), the others a few of them; each is one action, because callbacks of the
old and the new port, exception callbacks and time-outs go on meanwhile. Requests are queued on
a blocking port and served by its thread, or called within queueRequest, and
each callback is an action per access to the record. asynManager is reduced to
what one record sees of it. `ghost` (read by the properties only) says
what the last processing did (`done`, `undone`, or `unwritten` when an octet write or flush
failed), and whose requests were refused or timed out.
Of asynOption and asynOctet the port's answer is what it has: getOption and getInputEos
do not fail (asynRecord.c:1864-1927 ignores their status and shows what is in the buffer),
and nobody but this record changes the options of a port.

`Careful` is the discipline of clients under which the properties hold: PORT and PCNCT
are written only while nothing is under way, and not to leave an interface on I/O Intr that
the new port does not have; AQR is not written while the callback's driver may
announce an exception; nobody announces one just while special takes the record off
the list. Section 4 says what happens otherwise.

## 3. Runs

| run | instance | states | asks |
|---|---|---|---|
| `queue_block` | 2 asynUsers of one device, 1 client thread that also cancels, blocks nested up to 1, port and device connect and disconnect by themselves, autoConnect on | 3.3 million | scan pointers fresh; blocks exclude; no lost wake-up |
| `queue_cancel` | 2 asynUsers (device, port), 2 client threads, time-outs, enable, lockPort, rebinding | 1.5 million | callback states; cancel handshake |
| `queue_live` | 2 asynUsers, 1 client thread, fair | 4 thousand | cancelRequest returns; Connect requests are always served |
| `lock_port` | 2 threads, 2 other asynUsers, 4 kinds of port, nesting 2, fair | 4 thousand | refinement of PortLock; queueLockPort returns |
| `notify` | 2 clients, 2 walkers that take turns, 2 nodes, both kinds, fair | 4 thousand | no call after removal; nobody skipped; waiters return |
| `connect` | 1 client with 3 calls, 1 outage, both kinds of port, fair | 1.1 million | a port that should connect is going to be tried; waitConnect tells the truth; the port connects |
| `params` | 2 parameters, 2 addresses, 2 callback clients, 2 threads with functions, 2 that end the port; a scenario per type, function and class, fair | 103 thousand | clients are told every change; one destruction; calls return |
| `dev_callbacks` | 5 kinds of record and port, a ring buffer of 2, 2 values, 5 changes by the driver, 2 operations by clients | 230 thousand | no value stranded; the last value wins; a put is written |
| `dev_records` | every dset, words of 4 bits, 2 events of the driver, 2 operations by clients | 1.4 million | the record shows the device; failures shown; averages and series exact; callbacks return |
| `octet` | TCP, UDP, http, Unix and serial ports, each layer, terminal servers; 1 fault, an Eos buffer of 2, size_t of 4 bits | 311 thousand | streams cut at terminators only, counts right; writes whole; connections and settings agree |
| `ip_server` | 3 clients, 2 client ports, or 3 datagrams, 2 interrupt users; 4 calls, fair | 441 thousand | datagrams whole; refused only when full; answered |
| `record` | a blocking port whose driver may lose its line, one that does not block; an option and an end-of-string field; 8 scenarios of puts, processing and troubles, fair | 449 thousand | one completion; alarms; fields show the port; one registration; everything ends |

Why the bounds are enough to be interesting. Two asynUsers let every race of a
request with another one happen (overtaking, blocking, requeueing, a holder and
a victim); two client threads let a canceller race a queuer, with the port
and timer threads as third and fourth party; one device and the port are two
distinct dpCommons. `MaxBlock` 1 reaches every difference between no block
and a block of port or device; nesting is bounded by guards. Two clients and
two nodes let a node be freed by one client and taken by the other between two
steps of a walk (three clients with one walker were also run: no change). A ring buffer of two
values with five changes overflows, wraps around and still has changes
left; two operations of clients put a write inside another one's callbacks. Two
addresses and two parameters have a list with a flag that stays set while another
one is called. An Eos buffer of two characters is refilled within a message and
holds the end of one with the start of the next; a size_t of 16 wraps. Three
clients of a server with two client ports compete for the last. The scenarios of
`record` pair the puts that race each other and the port; `troubles` bounds the lines
that change and the ports disabled by others.
Deadlock is not checked: with no client obliged to call anything a quiet port is
a legal end; that nobody hangs is stated as liveness instead.

Fairness. Threads keep running, epicsMutex grants a lock that is free again and
again (strong fairness of the steps that take one), callbacks return, a thread that
locked the port unlocks it, and timers expire. Nothing forces a client to start an
operation, a driver to connect, or the port to become enabled.

* `queue_live`: the port thread and whoever is inside a call. autoConnect is off:
  with a device that keeps failing to connect, each attempt sets `queueStateChange`
  and restarts the scan, and only the 2-second pause (not modelled) keeps later
  requests from starving. `RequestServed` states what else may keep a request of lower
  priority waiting: the port thread never comes back to scan while it is handed
  requests of priority Connect again and again. A thread that sleeps over a queued
  request is no excuse.
* `lock_port`: the port thread and threads inside a call.
* `notify`: walkers, and threads inside a call; the lock is granted, but that a thread
  finds no walk under way when it gets it (AM:2574, 2616) is not assumed. `NotifyReturns`
  has the case as an excuse: a caller that wakes again and again to another walk
  may wait for ever, if walks follow each other for ever.
* `connect`: every thread takes its next step (WF); calls and outages are bounded, so
  in the end the device is there for good. The port thread's `autoConnectDevice` is
  the retry of a blocking port, the connect timer of the other.
* `params`: the threads of the driver and of iocInit (WF), the callback loop and the
  steps of a function (SF, they take the mutex or the port), a shutdown once it began.
* `ip_server`: the listener, the connect requests it queued and the
  disconnections its ports announce.
* `record`: special, the scan task, callback tasks, the timer and the threads of ports.

`dev_callbacks`, `dev_records` and `octet` check safety only and use the plain
specification.

## 4. Where code and documentation disagree

Each of these was met while modelling. The passing runs state the discipline under
which the code is right; none is a run of its own.

asynManager:

* `callTimeoutUser` is reset once per scan, so the flag set for one asynUser is used
  for the next, and a null `timeoutUser` is called (AM:869, 886).
* The state of an asynUser that was queued again from its callback is overwritten
  (AM:687, 905), and a thread in cancelRequest waits for ever (`FreeUse`). cancelRequest of such an
  asynUser removes the new request and does not wait for the active callback
  (AM:1647), which rst:1243-1245 promises.
* AM:829, 908 and 1689 cancel the timer after `asynManagerLock` was released, and so
  may stop the timer of a request queued since (with `FreeUse`), against rst:1227-1228.
* A callback that blocks, disconnects and connects elsewhere leaves a holder behind
  (AM:933, with `FreeRebind`), against rst:1251-1252.
* Requests for a device that is not connected are served all the same, by
  timeoutUser if there is one (AM:886), where rst:643 says they wait;
  ASYN_REASON_QUEUE_EVEN_IF_NOT_CONNECTED matters for Connect priority only
  (AM:1538), where rst:1240-1241 names no priority.
* queueLockPort on a blocking port with asynLockPortNotify takes the lower lock in
  the calling thread while the port thread has it (AM:1924): a deadlock.
  `QueueLockKinds` leaves this kind to lockPort in the liveness run; safety is
  proved for it too.
* `exceptionActive` is a flag, so the first of two overlapping announcements lets an
  exceptionUser be freed that the second uses (AM:634; `Overlap`).
* portConnectTimerCallback gives up after one failed queueRequest (AM:3290, refused
  while the port is disabled, AM:1546), where rst:469-474 describes repeated attempts.
* waitConnect takes the announcement of a disconnection for a connection
  (AM:2182-2187, 3315-3321; rst:1356-1357), misses a connection made between its test and
  exceptionCallbackAdd (3340-3347), and of a device tests the port but waits for
  the device. `connectAttempt` tests `connected` before it has `synchronousLock`
  (775). autoConnectAsyn of a port without asynCommon starts a timer that is not there.

asynPortDriver, SyncIO and clients:

* Only asynInt32Client's destructor cancels its interrupt; asynPortClient throws for
  Int64 parameters. A digital parameter first set to 0 with an empty callback mask is
  told to nobody. write methods overwrite a status that was set by that of the
  callbacks. `initialize` of asynStandardInterfacesBase.c:66-67 passes
  octetProcessEosIn twice.
* pasynOctetSyncIO->flush on the base class loops for ever (asynPortDriver.cpp:2629, 2709-2725).
* A SyncIO asynUser keeps drvPvt after shutdownPort; runs and theorems assume that users
  have gone by then (`ClientsGone`), and that a driver is either shut down through
  asynManager or deleted by its owner, not both at once (`scenario.end`): nothing in the code keeps the
  two apart.

devEpics ("DI" is devAsynInt32.c):

* An output callback that was asked for before a put finds the record active, and
  removes its element by getCallbackValue, which overwrites the value that the queued
  write is going to send (DI:639). An I/O Intr record that a client also processes
  stays one or more values behind, since a completion takes one element only (DI:1045).
* An array output record with READBACK writes on every callback (devAsynXXXArray.cpp:293);
  an array record with asyn:FIFO=1 never updates (442-448; rst:672-677); its ring
  element is copied after the lock was released (318).
* Refused octet and array requests show no alarm, and a callback dropped by an active
  READBACK output overwrites the status of its failed write (RELEASE.md:731-739):
  `MostFailuresShown` leaves these out. asynStatusToEpicsAlarm keeps a stale
  alarm status (RELEASE.md:190-194).
* The time series process holds its lock over cancelInterruptUser
  (devAsynXXXTimeSeries.h:133, 169), and enum callbacks take the scan lock on the driver's
  thread (DI:719), which deadlocks on a port that cannot block: `CallbacksReturn`
  leaves the time series out, and enums are checked on ports that can block.
* asyn:FIFO="0" with READBACK=1 overrides the minimum size (rst:3393-3396); bits 8-15
  of mbboDirect readbacks are lost; Int64 readbacks convert where writes do not; callbacks before
  interruptAccept are dropped, so a READBACK record may start stale; an average on I/O
  Intr keeps the last status only.

Octet ports:

* The count of a read wraps when the terminator was split over two of them, as Eos
  takes all of it off the count of the last (asynInterposeEos.c:203, against
  rst:1862-1867): `StreamKept` asks for the right count except there, and says so. A
  read of 0 characters returns one; Flush above Eos stops at an
  empty message (rst:3162-3167), and Delay and Echo above Eos append the terminator
  after every character (rst:3187-3230).
* The terminal server: flow control is never restored after reconnecting
  (asynInterposeCom.c:764-771), answers of a failed conversation are accepted later,
  setOption discards data, a partial write is over-reported (`WritesWhole` leaves its count
  out).
* drvAsynIPPort: hostInfo from http to tcp leaves a port connected without a socket;
  cleanup shuts down only if the socket is open (256-258; RELEASE.md:1267-1271); a UDP flush
  stops at an empty datagram; a write to a closed connection may succeed once.
* Serial: the timer of a write discards the output (drvAsynSerialPort.c:641-650), and
  writeIt looks at `nleft` before `timeoutFlag` (818-842): a write may return asynSuccess, or
  count characters, that were dropped, against rst:1858-1860. `WritesWhole` excepts exactly the writes
  whose output was dropped. A read whose timer expires after characters came returns asynTimeout with
  data (drvAsynSerialPort.c:930-972; RELEASE.md:1710-1713), which Eos drops; connectIt
  ignores the failure of applyOptions (725); RS-485 settings are not put back when
  refused (602-606); break "off" does nothing (rst:4305-4309).
* drvAsynIPServerPort: a failed connectDevice leaks the accepted socket (371-378); a
  disabled client port with a queued request blocks the listener for all; after the
  listener port was disconnected and connected nobody listens (319); a UDP error gives
  size -1 to interrupt users.

asynRecord:

* A put to AQR waits, with the scan lock, for a callback whose driver announces an
  exception and so waits for the scan lock; PORT and PCNCT do the same in
  exceptionCallbackRemove (asynRecord.rst:866-871).
* A put to PORT while a request is queued is refused half way; while a callback is
  active it leaves PACT set for ever; requests of the old port use the interfaces of
  the new one.
* PCNCT=0 and a failed PORT put disconnect before cancelIOInterruptScan, so that
  cancelInterruptUser fails and the record stays registered (asynRecord.rst:916-921).
* Two puts of options while the port is busy: the first read-back overwrites the
  second field before its request is served. A refused or timed-out put leaves the field
  showing what was put.
* An octet write that fails is reported in ERRS but raises no alarm, and a failed flush is
  not noticed at all (asynRecord.c:1519-1522, 1551-1555), where asynRecord.rst:878-882 gives STAT and
  SEVR to I/O errors. `UndoneShown` and `UndoneSeen` except these two, and no other failure.

## 5. Proofs

The proofs are for every value of the constants under the
named assumptions of each module, which only say that names are distinct and constants
have their types, and under the premises given here.

`AsynQueueProofs`, for every set of asynUsers, devices and clients:

* `TypeCorrect`, `QueuesConsistent`, `ScanNeverStale`, `BlockingExcludes`, `NoWakeupLost`:
  `TypeOK`, `QueueOK`, `ScanFresh`, `BlockExcludes` and `NoLostWakeup`, in every
  environment (FreeUse, FreeRebind and CancelUnderLock included).

  TypeOK is not inductive: the scan of the port thread goes from an asynUser to its
  successor, which exists only if the asynUser is on a list when the lock is back in
  hand. `FreshInv` follows it through the unlocked stretch of autoConnectDevice:
  either nothing was taken off a list or `queueStateChange` is set and the scan is
  given up. That in turn needs the lists to agree with `isQueued` (`QueueOK`), the
  port thread to hold the lock where it believes so (`LockInv`), its registers to
  point to something (`UserInv`, `BoundInv`), and for the next scan step that blocks
  exclude (`BlockExcludes`). `IInv` is the conjunction. `WakeInv` adds what the
  thread has seen of each list when it decides to sleep: a request that may be served is still ahead of
  the scan, or `queueStateChange` is set, or the event is, or somebody is about to
  signal it.
* `CallbacksExclusive`, `CancelsMeetCallbacks`: `CallbackState`, `CancelHandshake`,
  with FreeUse = FALSE: an asynUser is handed to one call of asynManager at a time,
  without which the requeueing of section 4 breaks both. `HandshakeInv` says which
  thread a state of an asynUser belongs to (port thread, timer or canceller), and
  that `callbackDone` is awaited or signalled at most once.

`AsynLockPortProofs`, for every number of threads and asynUsers, every nesting and
all kinds of port, queueLockPort on a port with a lower one included:

* `LockTypeCorrect`, `OneOwnerAtATime`, `EventsFresh`, `LowerPortLocked`:
  `LockTypeOK`, `PortExclusive`, `EventFresh`, `LowerLocked`;
* `ImplementsPortLock`: every behaviour is one of `PortLock` under `TheOwner`
  (`HandsOver`).

  The invariant (`LockIInv`) says that `synchronousLock` decides who may call the
  driver, that a thread between queueLockPort and queueUnlockPort has the port on
  loan from the port thread, which is parked on the thread's mutex, and for each
  place of a thread who has its request, its event and its mutex (`HandOver`). For
  the refinement, `NoDirectHandOver` shows for each action that the owner changes to
  or from nobody only.

`AsynNotifyProofs`, for every number of clients, nodes and walkers, if walkers take
turns (`~Overlap`; section 4 says what overlapping announcements do):

* `NotifyTypeCorrect`, `RemovedNotCalled`, `NobodyForgotten`: `NotifyTypeOK`,
  `NoCallAfterRemove`, `EveryoneCalled`.

  The invariant (`NotifyIInv`) adds that the flag is set exactly while somebody walks,
  so that the list stands still under the walker; that the list holds exactly the
  nodes of clients that are on it; how far the walker has come; and that who waits
  will be signalled.

`AsynConnectProofs`, for every number of clients, calls and outages:

* `ConnectTypeCorrect`, `RetriesPending`, `WaitReportsTruly`: the types,
  `RetryPending`, `WaitTrue`.

  `ConnectIInv` follows the retry as it changes hands: timer, request, the port
  thread's attempt, the thread that has just seen the port disconnected and not yet
  started the timer. `RetryPending` has the exception the code makes, a request
  refused while the port was disabled; `WaitTrue` the one of section 4, an
  announcement of a disconnection.

`AsynSyncIOProofs`, for any parameters, addresses, clients, functions and threads:

* `ClientsUpToDate`, `DriverDestroyedOnce`, `DriverTypeCorrect`: `ClientsCurrent`,
  `DestroyedOnce` and the types.

  `DriverInv` is the conjunction of `TypeInv`; `MutexInv` (who holds `mutexId` is in a
  method, only the holder makes callbacks); `ClientInv` (a client that was called is
  of a type that can be told, its parameter is defined, and it is either pending - its
  flag is not yet reached by the callbacks under way - or agrees with what the client
  holds; of a digital parameter the bits that differ are in its callback
  mask); `CbInv` (the callback thread has ended when `doneEvent` is set); and
  `ShutInv` (one thread at most ends the port; who meets the gone port only leaves).
  Assumed: `RequestsAssumption`, that the functions begin with connect, disconnect or
  taking the port, give it back and end with disconnect, as every SyncIO function does;
  and `ClientsGone`, that nobody starts to use a driver its user is deleting.

`DevAsynRingProofs`, for every size of the ring buffer, every set of values and
records and any number of callbacks and operations of clients:

* `DevTypeCorrect`, `CallbacksNeverWrite`, `PutsReachTheDriver`: `DevTypeOK`,
  `NoEcho`, `PutKept`;
* `NoValueStranded`: `NoneStranded`, if the record is an output record, or the port
  cannot block, or clients are calm (`Sheltered`; elsewhere DI:1045 breaks it);
* `TakenInOrder`: `InOrder`, with no premise;
* `MostRecentShown`: `Settled`.

  The invariant (`RingInv`) counts: as many elements as scans and outputCallbacks,
  pending and deferred (`Counted`), and says when the record is active, that
  callbacks are deferred then and that calm clients leave no other pending
  (`Activity`). For the order, `Sorted` says that the slots from ringTail to ringHead
  are in the order of the callbacks and later than the last one taken; `Place` is the
  distance of a slot from the tail. For `Settled`, `Awaited` says where the most recent
  value is: the last slot of the buffer, the value being written, or already
  in the record (`Shown`).

`AsynRecordProofs`, for any ports, interfaces, fields and scenarios, with Careful = TRUE:

* `RecordTypeCorrect`, `EndsOnce`, `UndoneSeen`, `RegisteredOnce`, `FieldsTrue`:
  `RecordTypeOK`, `OneCompletion`, `UndoneShown`, `Registered`, `FieldsShown`;
  `HolderNeverStuck`: `HolderGoesOn`.

  `RecordIInv` has who holds the scan lock and where a program of special ends
  (`LockInv`), the one registration of a record on I/O Intr and the interfaces of the
  port it goes to (`IntrInv`), the one place of the request to process - queue, thread,
  timer or completion - (`OneInv`), and in each of them the alarm that is to come
  (`UndoneInv`).

  For `FieldsShown`, `FieldsInv` follows a change to where it will be shown. `Ordered`
  says which steps of special follow which; `PlaceInv` that nothing of the record is
  under way while it is off the list of its port, and that requests and exception
  callbacks are those of the port it is on. `StatusInv`: who is about to show the
  connection has read it as it is now, or an exception callback is still to take the scan
  lock, which is why a stale value cannot stay; and if CNCT shows something else, a read,
  a show or a request of connect is to come. `OptionsInv`: a field that differs from the
  port has a request that has not yet read it, on a queue, with the timer, in a callback or
  still in the program of special, or is counted as unserved. The place of each
  request matters, not only that there is one: a callback that has read the options no
  longer counts when another changes them.

  `HolderGoesOn` is the safety part of `RecordEnds`: whoever has the scan lock can take its
  next step, or waits for a thread that can and does not need the lock for it. The prover
  cannot reason about ENABLED, so `Goes` and `SpecialGoes` write out when `Callback` and
  `Special` are enabled. Each wait of a holder has a part of `HolderInv`:
  exceptionCallbackRemove finds no announcement (`Announced`, `Removing`; kept by careful
  environments), exceptionCallbackAdd only one that has nobody left to call
  (with `PlaceInv`), and cancelRequest waits for the callback of a driver that announces
  nothing in an operation (`AbortInv`; kept by careful clients). `HeldInv` says that the
  lock is never left behind: the last step of special gives it back.

`DrvAsynIPServerPortProofs`, for any number of clients, client ports, interrupt users and
calls, and any sequence of datagrams of any length:

* `DatagramsReadWhole`, `RefusedOnlyWhenFull`, `ConnectionsOwned`, `ServerTypeCorrect`:
  `DatagramsWhole`, `RefusedWhenFull`, who has a connection, and the types.

  For the connections, `ListenerInv` and `SocketInv` say that the thread has the connection
  alone until the port at `i` has taken it, so that nobody else can close it, and
  `SearchInv` that every port that was free since accept is still ahead of the search: at
  its end there is none. For the datagrams, `BufferInv` says that the thread receives only
  into an empty buffer (it reads the size and position without a lock, but only it
  fills the buffer) and that the buffer holds the last datagram as long as
  the size is not 0; `ReadInv` that what was read is all datagrams before and the buffer up to the position;
  and `ToldInv` what the last interrupt user was given.

  These are statements about the concatenation of all datagrams (`FlattenSeq`, a
  recursive function). The library's induction theorems take an operator and cannot be used;
  `SetInduction` states induction with a set of numbers instead and follows from the
  well-foundedness of < on Nat (`WFMin`). From it `FlattenType` and `FlattenAppend`
  follow: what FlattenSeq makes of one more datagram.

Left to TLC. Liveness (`CancelReturns`, `RequestServed`, `QueueLockReturns`,
`NotifyReturns`, `Reconnects`, `CallsReturn`, `FirstTold`, `Answered`, `RecordEnds`) needs
fairness and ENABLED. `DevAsynRecords` uses Bitwise, which keeps the prover out of
the module (`ShowsDevice`, `MostFailuresShown`, `AverageExact`, `SeriesExact`), and
`CallbacksReturn` is about ENABLED besides. The layers of
`OctetStack` are RECURSIVE operators, which do the same: `StreamKept`, `OneTerminator`,
`WritesWhole`, `OpenWhenConnected`, `SettingsAgree`.

## 6. Plan

Modelled, checked and proved in part: everything section 2 lists. Left, in order of
worth:

1. more proofs: `ShowsDevice` with the masks of digital records as sets of bits in
   place of Bitwise; the layers of `OctetStack` as recursive functions, about which
   `SetInduction` can be used;
2. `DevGpib` and `GpibSrq`: the work queue of devSupportGpib, SRQ polling of asynGpib
   and the link and interrupt threads of drvVxi11;
3. `AsynUserLife`: the free lists and `freeAfterCallback`; the rest of shutdownPort;
4. the interrupt thread of drvAsynUSBTMC; the connect state of drvAsynFTDI, whose
   closeConnection never calls exceptionDisconnect.

## 7. Not modelled

PROJECT.json lists each component with its status. Left out for good: trace,
report and time stamps (no state of the port depends on them), shell commands
(they call modelled functions), generated RPC stubs and reboot tools, register
level code of the GPIB boards and transfers of the USB drivers (pure I/O), the
Windows and VxWorks serial drivers, and the tests and IOC directories.

Left out of modelled parts: of asynRecord the data of its I/O, GPIB commands, trace
fields, AUCT, and ADDR, DRVINFO, REASON and UI32MASK (as PORT and IFACE); of device
support breakpoint tables, smoothing, puts to active records (RPRO) and output records
with SCAN I/O Intr; of asynPortDriver report and the constructors' exceptions; of the octet stack
calls in parallel (the caller has the port) and answers that come after the next
request; of the IP server its exit handler.
