----------------------------- MODULE AsynRecord -----------------------------
(***************************************************************************)
(* One asynRecord (asynRecord/asynRecord.c) between the database, which    *)
(* processes it and writes its fields under the record's scan lock, and    *)
(* the ports it is connected to one after the other.  Its callbacks run on *)
(* the thread of a blocking port without the scan lock, on the timer       *)
(* thread when a request waits too long, and within the call of            *)
(* queueRequest for a port that does not block; its exception callback     *)
(* takes the scan lock on the thread that announces; its interrupt         *)
(* callbacks ask for a scan.                                               *)
(*                                                                         *)
(* asynManager is modelled as far as one record sees it: the requests of   *)
(* the record on each port, whom a port's announcement finds on its list,  *)
(* and what queueRequest refuses.  Every port is a single device.  Not     *)
(* modelled: what an I/O operation transfers (its outcome is), error       *)
(* strings, trace masks, AUCT, ADDR and DRVINFO (as PORT), UI32MASK and    *)
(* REASON (as IFACE) and the reports.  EPICS base (dbProcess, dbPutField,  *)
(* scanIoRequest, callbackRequestProcessCallback) is modelled by what the  *)
(* record sees of it.                                                      *)
(***************************************************************************)
EXTENDS Integers, Sequences, FiniteSets, SequencesExt

CONSTANTS
    Ports,          \* ports the record may be connected to
    Blocking,       \* those registered with ASYN_CANBLOCK
    Supports,       \* [Ports -> set of interfaces]
    Ifaces,         \* interfaces IFACE may name
    Fields,         \* fields that are options or end-of-string characters
    HostInfo,       \* the option that is set although not connected
    EosFields,      \* those of Fields that are end-of-string characters
    Values,         \* their values
    Careful,        \* clients keep to the rules below
    Scenarios,      \* what clients and the environment may do, a bound on how often, and
                    \* announceInIO: the blocking ports whose driver may disconnect in an I/O operation
    Db, Shell, Null

\* What a call of special does, step by step; an option or end-of-string field
\* stands for the step that queues its request.
Steps == {"remove", "disconnect", "connect", "add", "read", "show", "getOption", "getEos",
          "pcnct", "passive", "state", "request", "canceled", "unlock"}

\* Requests of the record: to process it, or one of special.
Request(kind, f) == [kind |-> kind, field |-> f]
Process == Request("process", Null)
Requests == {Request(kind, Null) : kind \in {"process", "getOption", "getEos", "connect"}}
                \cup {Request("set", f) : f \in Fields}

\* What a scenario says: the fields clients put, and how often what may happen.
Budget == [fields : SUBSET STRING, announceInIO : SUBSET Blocking, puts : Nat,
           processes : Nat, interrupts : Nat, troubles : Nat]

ASSUME RecordAssumption ==
    /\ Blocking \subseteq Ports
    /\ Db \notin Ports /\ Shell \notin Ports \cup {Db}
    /\ Null \notin Ports \cup {Db, Shell}
    /\ Null \notin Requests
    /\ "octet" \in Ifaces
    \* "cnct" stands for CNCT in ghost.unserved.
    /\ EosFields \subseteq Fields /\ Fields \cap (Steps \cup {"cnct", Null}) = {}
    /\ Values # {}
    /\ Scenarios \subseteq Budget

VARIABLES
    rec,            \* fields of the record
    pvt,            \* asynRecPvt
    user,           \* asynManager's part of the record's asynUser
    queue,          \* requests of the record waiting on each blocking port
    thread,         \* the callback a port's thread, or the database's, is in
    timer,          \* a request taken off its queue, its timeout callback not yet called
    dev,            \* the ports
    ann,            \* announcements of an exception under way
    exceptionActive,
    scanLock,       \* who has dbScanLock of the record
    program,        \* what the call of special has still to do
    seen,           \* what monitorStatus of that call has read
    completions,    \* process callbacks requested
    scanIo,         \* an I/O Intr scan has been requested
    regs,           \* registrations for interrupts: [Ports \X Ifaces -> Nat]
    ghost,          \* io: what the last processing did; unserved: fields whose
                    \* request was refused or timed out
    budget          \* what is left of the scenario

vars == <<rec, pvt, user, queue, thread, timer, dev, ann, exceptionActive, scanLock,
          program, seen, completions, scanIo, regs, ghost, budget>>
manager == <<user, queue, thread, timer, dev, ann, exceptionActive>>

Threads == Blocking \cup {Db}
Announcers == Blocking \cup {Shell}
States == {"stateNoDevice", "stateIdle", "stateIO"}
\* What a processing has done: its I/O, nothing, or a write through asynOctet
\* that failed.
Outcomes == {"done", "undone", "unwritten"}
IfaceOf(f) == IF f \in EosFields THEN "octet" ELSE "option"
Has(i) == pvt.bound # Null /\ i \in Supports[pvt.bound]

\* Requests of asynQueuePriorityConnect: of a single device they need no connection.
Connects(r) == r.kind \in {"connect", "getOption"} \/ (r.kind = "set" /\ r.field = HostInfo)
\* The fields that show what a request is for.
FieldsOf(r) ==
    CASE r.kind = "set" -> {r.field}
      [] r.kind = "getOption" -> Fields \ EosFields
      [] r.kind = "getEos" -> EosFields
      [] r.kind = "connect" -> {"cnct"}
      [] r.kind = "process" -> {}

Idle == [step |-> "wait", req |-> Process, ok |-> TRUE, seen |-> FALSE]
Silent == [step |-> "none", port |-> Null, seen |-> FALSE]

\* Requests of the record that somebody still has to answer.
Outstanding ==
    (UNION {ToSet(queue[p]) : p \in Blocking})
        \cup {thread[a].req : a \in {b \in Threads : thread[b].step # "wait"}}
        \cup (IF timer = Null THEN {} ELSE {timer})

\* A thread is in the callback of process, or its request is on a queue.
Active(a) == thread[a].step # "wait" /\ thread[a].req = Process
Waiting(p) == {i \in DOMAIN queue[p] : queue[p][i] = Process}

FirstValue == CHOOSE v \in Values : TRUE

\* init_record has connected the record to a port that is connected and enabled,
\* and has asked for the options and end-of-string characters; a port that does
\* not block has answered.
init_record(p) ==
    /\ rec = [port |-> p, iface |-> "octet", intr |-> FALSE, pact |-> FALSE, nsev |-> 0,
              sevr |-> 0, pcnct |-> TRUE, cnct |-> TRUE,
              opt |-> [f \in Fields |-> IF p \notin Blocking /\ IfaceOf(f) \in Supports[p]
                                        THEN FirstValue ELSE Null]]
    /\ pvt = [state |-> "stateIdle", gotValue |-> FALSE, bound |-> p, node |-> Null]
    /\ user = [port |-> p, onList |-> TRUE, canceled |-> FALSE]
    /\ queue = [q \in Blocking |->
                  IF p # q THEN <<>>
                  ELSE (IF "option" \in Supports[p] THEN <<Request("getOption", Null)>> ELSE <<>>)
                       \o (IF "octet" \in Supports[p] THEN <<Request("getEos", Null)>> ELSE <<>>)]

Init ==
    /\ \E p \in Ports : init_record(p)
    /\ thread = [a \in Threads |-> Idle]
    /\ timer = Null
    /\ dev = [p \in Ports |-> [connected |-> TRUE, enabled |-> TRUE,
                               opt |-> [f \in Fields |-> FirstValue]]]
    /\ ann = [a \in Announcers |-> Silent]
    /\ exceptionActive = [p \in Ports |-> FALSE]
    /\ scanLock = Null
    /\ program = <<>>
    /\ seen = FALSE
    /\ completions = 0
    /\ scanIo = FALSE
    /\ regs = [x \in Ports \X Ifaces |-> 0]
    /\ ghost = [io |-> "done", unserved |-> {}]
    /\ budget \in Scenarios

-----------------------------------------------------------------------------
(***************************************************************************)
(* asynManager, as the record sees it.                                     *)
(***************************************************************************)

\* What queueRequest accepts from an asynUser of port p.
Accepts(p, r) ==
    p # Null /\ dev[p].enabled /\ (dev[p].connected \/ Connects(r))

\* isConnected of the record's asynUser; monitorStatus shows 0 if it fails.
Connected == user.port # Null /\ dev[user.port].connected

\* announceExceptionOccurred of port p on thread a, up to the exception
\* callback of the record.
Announce(a, p) ==
    /\ ann[a].step = "none"
    /\ exceptionActive' = [exceptionActive EXCEPT ![p] = TRUE]
    /\ ann' = [ann EXCEPT ![a] =
                 [step |-> IF user.port = p /\ user.onList THEN "lock" ELSE "end",
                  port |-> p, seen |-> FALSE]]

ExceptCallback_unlocked(a) ==
    /\ ann[a].step = "lock"
    /\ ann' = [ann EXCEPT ![a].step = "show", ![a].seen = Connected]
    /\ UNCHANGED <<rec, pvt, user, queue, thread, timer, dev, exceptionActive, scanLock,
                   program, seen, completions, scanIo, regs, ghost, budget>>

\* exceptCallback takes the scan lock and monitorStatus reads the state ...
ExceptCallback(a) ==
    /\ ann[a].step = "lock" /\ scanLock = Null
    /\ scanLock' = a
    /\ ann' = [ann EXCEPT ![a].step = "show", ![a].seen = Connected]
    /\ UNCHANGED <<rec, pvt, user, queue, thread, timer, dev, exceptionActive, program,
                   seen, completions, scanIo, regs, ghost, budget>>

\* ... and shows it.
ExceptShown(a) ==
    /\ ann[a].step = "show"
    /\ rec' = [rec EXCEPT !.cnct = ann[a].seen]
    /\ scanLock' = Null
    /\ ann' = [ann EXCEPT ![a].step = "end"]
    /\ UNCHANGED <<pvt, user, queue, thread, timer, dev, exceptionActive, program,
                   seen, completions, scanIo, regs, ghost, budget>>

\* The announcement ends and wakes who waits to be added or removed.
Woken_not(p) == exceptionActive
Woken(p) == [exceptionActive EXCEPT ![p] = FALSE]
AnnounceEnd(a) ==
    /\ ann[a].step = "end"
    /\ exceptionActive' = Woken(ann[a].port)
    /\ ann' = [ann EXCEPT ![a] = Silent]
    /\ UNCHANGED <<rec, pvt, user, queue, thread, timer, dev, scanLock, program, seen,
                   completions, scanIo, regs, ghost, budget>>

\* A careful environment announces nothing just when special is about to take
\* the record off the list: exceptionCallbackRemove would wait for an exception
\* callback that waits for the scan lock.
Disturbs == Careful /\ program # <<>> /\ Head(program) = "remove"

\* A port is enabled or disabled by somebody else.
EnableByOther(p, yesNo) ==
    /\ budget.troubles > 0 /\ ~Disturbs
    /\ dev' = [dev EXCEPT ![p].enabled = yesNo]
    /\ Announce(Shell, p)
    /\ budget' = [budget EXCEPT !.troubles = @ - 1]
    /\ UNCHANGED <<rec, pvt, user, queue, thread, timer, scanLock, program, seen,
                   completions, scanIo, regs, ghost>>

\* A connection is lost or made between two requests: by the port's thread,
\* or by a thread of the driver if the port does not block.
LineChanges(p) ==
    LET a == IF p \in Blocking THEN p ELSE Shell IN
    /\ budget.troubles > 0 /\ ~Disturbs
    /\ p \in Blocking => thread[p].step = "wait"
    /\ dev' = [dev EXCEPT ![p].connected = ~@]
    /\ Announce(a, p)
    /\ budget' = [budget EXCEPT !.troubles = @ - 1]
    /\ UNCHANGED <<rec, pvt, user, queue, thread, timer, scanLock, program, seen,
                   completions, scanIo, regs, ghost>>

\* The port's thread takes the next request: those of priority Connect first,
\* the others only while the port is connected.
Serve(p) ==
    /\ thread[p].step = "wait" /\ ann[p].step = "none"
    /\ dev[p].enabled
    /\ \E i \in DOMAIN queue[p] :
         /\ \/ Connects(queue[p][i])
            \/ dev[p].connected /\ \A j \in DOMAIN queue[p] : ~Connects(queue[p][j])
         /\ \A j \in 1..(i - 1) : Connects(queue[p][j]) # Connects(queue[p][i])
         /\ thread' = [thread EXCEPT ![p] = [Idle EXCEPT !.step = "act", !.req = queue[p][i]]]
         /\ queue' = [queue EXCEPT ![p] = RemoveAt(@, i)]
    /\ UNCHANGED <<rec, pvt, user, timer, dev, ann, exceptionActive, scanLock, program,
                   seen, completions, scanIo, regs, ghost, budget>>

\* The timer takes a request off its queue: of a thread that is busy, or may not
\* serve it; one that waits is faster than QUEUE_TIMEOUT ...
Timeout(p) ==
    /\ timer = Null
    /\ thread[p].step # "wait" \/ ann[p].step # "none" \/ ~dev[p].enabled \/ ~dev[p].connected
    /\ \E i \in DOMAIN queue[p] :
         /\ timer' = queue[p][i]
         /\ queue' = [queue EXCEPT ![p] = RemoveAt(@, i)]
    /\ UNCHANGED <<rec, pvt, user, thread, dev, ann, exceptionActive, scanLock, program,
                   seen, completions, scanIo, regs, ghost, budget>>

\* ... and calls its timeout callback: the processing ends with an alarm.
TimedOut_quietly == rec
TimedOut == [rec EXCEPT !.nsev = 2]
queueTimeoutCallbackProcess ==
    /\ timer = Process
    /\ rec' = TimedOut
    /\ completions' = completions + 1
    /\ timer' = Null
    /\ UNCHANGED <<pvt, user, queue, thread, dev, ann, exceptionActive, scanLock, program,
                   seen, scanIo, regs, ghost, budget>>

queueTimeoutCallbackSpecial ==
    /\ timer # Null /\ timer # Process
    /\ pvt' = [pvt EXCEPT !.state = "stateIdle"]
    /\ ghost' = [ghost EXCEPT !.unserved = @ \cup FieldsOf(timer)]
    /\ timer' = Null
    /\ UNCHANGED <<rec, user, queue, thread, dev, ann, exceptionActive, scanLock, program,
                   seen, completions, scanIo, regs, budget>>

-----------------------------------------------------------------------------
(***************************************************************************)
(* The callbacks of the record's requests, by a thread a: the port's, or   *)
(* the database's within queueRequest of a port that does not block.       *)
(***************************************************************************)
InCallback(a, step, kinds) ==
    thread[a].step = step /\ thread[a].req.kind \in kinds
Next_(a, step) == thread' = [thread EXCEPT ![a].step = step]
Others(a) == UNCHANGED <<user, queue, timer, program, seen, scanIo, regs, budget>>

\* monitor and the end of process: alarms are shown, the record is free.
Finish(r) == [r EXCEPT !.sevr = r.nsev, !.nsev = 0, !.pact = FALSE]

\* An operation through the interfaces in asynRecPvt is done, or fails with an
\* alarm.
Performed ==
    /\ ghost' = [ghost EXCEPT !.io = "done"]
    /\ UNCHANGED <<rec, dev, ann, exceptionActive>>
PerformFails ==
    /\ rec' = [rec EXCEPT !.nsev = 2]
    /\ UNCHANGED <<dev, ann, exceptionActive, ghost>>

\* A write that fails is reported in ERRS, a flush that fails is not noticed:
\* neither raises an alarm.
performOctetIO ==
    /\ Has("octet") /\ rec.iface = "octet"
    /\ ghost' = [ghost EXCEPT !.io = "unwritten"]
    /\ UNCHANGED <<rec, dev, ann, exceptionActive>>

\* The operation fails, and the driver tells that the port is disconnected.
DriverDisconnects(p) ==
    /\ Has(rec.iface) /\ p \in budget.announceInIO /\ pvt.bound = p /\ dev[p].connected
    /\ budget.troubles > 0
    /\ rec' = [rec EXCEPT !.nsev = 2]
    /\ dev' = [dev EXCEPT ![p].connected = FALSE]
    /\ Announce(p, p)
    /\ UNCHANGED ghost

performIO(a) ==
    /\ InCallback(a, "act", {"process"})
    /\ \/ Has(rec.iface) /\ dev[pvt.bound].connected /\ Performed
       \/ PerformFails
       \/ performOctetIO
       \/ DriverDisconnects(a)
    /\ Next_(a, "done")
    /\ UNCHANGED <<pvt, scanLock, completions>>
    /\ Others(a)

CallsBack_always == TRUE
CallsBack == user.port \in Blocking

\* asynCallbackProcess ends: a port that can block has the process callback
\* called, by the port the asynUser is connected to now, and whoever waits in
\* cancelRequest goes on.  Otherwise process itself goes on.
asynCallbackProcess(a) ==
    /\ InCallback(a, "done", {"process"})
    /\ a \in Blocking => ann[a].step = "none"
    /\ thread' = [thread EXCEPT ![a] = Idle]
    /\ completions' = IF CallsBack THEN completions + 1 ELSE completions
    /\ IF a = Db
       THEN /\ rec' = Finish(rec)
            /\ pvt' = [pvt EXCEPT !.gotValue = FALSE]
            /\ scanLock' = Null
            /\ UNCHANGED user
       ELSE /\ user' = [user EXCEPT !.canceled = FALSE]
            /\ UNCHANGED <<rec, pvt, scanLock>>
    /\ UNCHANGED <<queue, timer, dev, ann, exceptionActive, program, seen, scanIo, regs,
                   ghost, budget>>

\* setOption and setEos pass on what the field says now; a driver may refuse.
\* There is no break after them: what the port has is read back.
setOption(a) ==
    /\ InCallback(a, "act", {"set"})
    /\ LET f == thread[a].req.field IN
       IF Has(IfaceOf(f))
       THEN /\ \E v \in {rec.opt[f], dev[pvt.bound].opt[f]} :
                 dev' = [dev EXCEPT ![pvt.bound].opt[f] = v]
            /\ UNCHANGED rec
       ELSE /\ rec' = [rec EXCEPT !.nsev = 2]
            /\ UNCHANGED dev
    /\ Next_(a, "get")
    /\ UNCHANGED <<pvt, ann, exceptionActive, scanLock, completions, ghost>>
    /\ Others(a)

\* getOptions and getEos: the fields show what the port has.
getOptions(a) ==
    /\ \/ InCallback(a, "act", {"getOption", "getEos"})
       \/ InCallback(a, "get", {"set"})
    /\ LET r == thread[a].req
           shown == IF r.kind = "getEos" \/ r.field \in EosFields
                    THEN EosFields ELSE Fields \ EosFields
       IN /\ rec' = [rec EXCEPT !.opt = [f \in Fields |->
                        IF f \notin shown THEN @[f]
                        ELSE IF Has(IfaceOf(f)) THEN dev[pvt.bound].opt[f]
                        ELSE IF f \in EosFields THEN Null ELSE @[f]]]
          /\ ghost' = [ghost EXCEPT !.unserved = @ \ shown]
    /\ Next_(a, "status")
    /\ UNCHANGED <<pvt, dev, ann, exceptionActive, scanLock, completions>>
    /\ Others(a)

\* callbackConnect: the port is asked to connect or to disconnect if CNCT says
\* so.  The announcement is this thread's; the database's has the scan lock.
callbackConnect(a) ==
    LET isConnected == dev[IF a = Db THEN user.port ELSE a].connected
        p == pvt.bound
    IN
    /\ InCallback(a, "act", {"connect"})
    /\ \/ /\ isConnected = rec.cnct
          /\ Next_(a, "status")
          /\ UNCHANGED <<dev, ann, exceptionActive>>
       \/ /\ isConnected # rec.cnct
          /\ thread' = [thread EXCEPT ![a].step = "status", ![a].ok = FALSE]
          /\ UNCHANGED <<dev, ann, exceptionActive>>
       \/ /\ isConnected # rec.cnct /\ dev[p].connected # rec.cnct
          /\ dev' = [dev EXCEPT ![p].connected = rec.cnct]
          /\ IF a = Db
             THEN /\ exceptionActive' = [exceptionActive EXCEPT ![p] = FALSE]
                  /\ UNCHANGED ann
             ELSE Announce(a, p)
          /\ Next_(a, "status")
    /\ UNCHANGED <<rec, pvt, scanLock, completions, ghost>>
    /\ Others(a)

\* monitorStatus at the end of asynCallbackSpecial reads, without the scan lock
\* if the port can block ...
SpecialStatus(a) ==
    /\ thread[a].step = "status"
    /\ a \in Blocking => ann[a].step = "none"
    /\ thread' = [thread EXCEPT ![a].step = "show", ![a].seen = Connected]
    /\ UNCHANGED <<rec, pvt, dev, ann, exceptionActive, scanLock, completions, ghost>>
    /\ Others(a)

\* ... and shows; then the request is freed.
SpecialDone(a) ==
    /\ thread[a].step = "show"
    /\ rec' = [rec EXCEPT !.cnct = thread[a].seen]
    /\ pvt' = IF thread[a].ok THEN [pvt EXCEPT !.state = "stateIdle"] ELSE pvt
    /\ ghost' = [ghost EXCEPT !.unserved = @ \ {"cnct"}]
    /\ thread' = [thread EXCEPT ![a] = Idle]
    /\ UNCHANGED <<dev, ann, exceptionActive, scanLock, completions>>
    /\ Others(a)

\* callbackInterrupt... of one registration: a value that comes before the last
\* one was processed is dropped.
callbackInterrupt(p, i) ==
    /\ regs[<<p, i>>] > 0 /\ ~pvt.gotValue
    /\ budget.interrupts > 0
    /\ pvt' = [pvt EXCEPT !.gotValue = TRUE]
    /\ scanIo' = TRUE
    /\ budget' = [budget EXCEPT !.interrupts = @ - 1]
    /\ UNCHANGED <<rec, manager, scanLock, program, seen, completions, regs, ghost>>

-----------------------------------------------------------------------------
(***************************************************************************)
(* Processing.                                                             *)
(***************************************************************************)
DbFree == scanLock = Null /\ program = <<>>

\* process of a record whose I/O has been done, or cancelled.
ProcessEnd ==
    /\ rec.pact
    /\ rec' = Finish(rec)
    /\ pvt' = [pvt EXCEPT !.state = "stateIdle", !.gotValue = FALSE]
    /\ UNCHANGED <<manager, scanLock, ghost>>

\* process of a record that has an interrupt's value.
ProcessValue ==
    /\ ~rec.pact /\ pvt.state = "stateIdle" /\ pvt.gotValue
    /\ rec' = Finish(rec)
    /\ pvt' = [pvt EXCEPT !.gotValue = FALSE]
    /\ ghost' = [ghost EXCEPT !.io = "done"]
    /\ UNCHANGED <<manager, scanLock>>

\* process asks a port for I/O: a blocking port's thread will call back, the
\* others have called back when queueRequest returns.
ProcessQueue ==
    /\ ~rec.pact /\ pvt.state = "stateIdle" /\ ~pvt.gotValue
    /\ Accepts(user.port, Process)
    /\ ghost' = [ghost EXCEPT !.io = "undone"]
    /\ IF user.port \in Blocking
       THEN /\ Waiting(user.port) = {}
            /\ queue' = [queue EXCEPT ![user.port] = Append(@, Process)]
            /\ pvt' = [pvt EXCEPT !.state = "stateIO"]
            /\ rec' = [rec EXCEPT !.pact = TRUE]
            /\ UNCHANGED <<thread, scanLock>>
       ELSE /\ thread' = [thread EXCEPT ![Db] = [Idle EXCEPT !.step = "act", !.req = Process]]
            /\ scanLock' = Db
            /\ UNCHANGED <<rec, pvt, queue>>
    /\ UNCHANGED <<user, timer, dev, ann, exceptionActive>>

\* process of a record without a port, or whose request is refused.
ProcessRefused ==
    /\ ~rec.pact
    /\ pvt.state = "stateIdle" =>
          /\ ~pvt.gotValue
          /\ \/ ~Accepts(user.port, Process)
             \/ user.port \in Blocking /\ Waiting(user.port) # {}
    /\ rec' = Finish([rec EXCEPT !.nsev = IF @ > 1 THEN @ ELSE 1])
    /\ pvt' = [pvt EXCEPT !.gotValue = FALSE]
    /\ ghost' = [ghost EXCEPT !.io = "undone"]
    /\ UNCHANGED <<manager, scanLock>>

process == ProcessEnd \/ ProcessValue \/ ProcessQueue \/ ProcessRefused

\* dbProcess by a scan, a link or a put to a process passive field.
Scan ==
    /\ DbFree /\ ~rec.pact /\ budget.processes > 0
    /\ process
    /\ budget' = [budget EXCEPT !.processes = @ - 1]
    /\ UNCHANGED <<program, seen, completions, scanIo, regs>>

\* The I/O Intr scan a callback has asked for, if the record is still on that
\* list.  dbProcess leaves an active record alone.
ScanIoIntr ==
    /\ DbFree /\ scanIo
    /\ scanIo' = FALSE
    /\ IF rec.intr /\ ~rec.pact THEN process
       ELSE UNCHANGED <<rec, pvt, manager, scanLock, ghost>>
    /\ UNCHANGED <<program, seen, completions, regs, budget>>

\* callbackRequestProcessCallback: process is called whether PACT or not.
ProcessCallback ==
    /\ DbFree /\ completions > 0
    /\ completions' = completions - 1
    /\ process
    /\ UNCHANGED <<program, seen, scanIo, regs, budget>>

-----------------------------------------------------------------------------
(***************************************************************************)
(* special: what a put to a field does, under the scan lock.               *)
(***************************************************************************)
connectDevice_scanning == <<"remove", "connect", "add", "read", "show", "getOption",
                            "getEos", "pcnct", "read", "show">>
connectDevice == <<"remove", "connect", "add", "read", "show", "getOption", "getEos",
                   "pcnct", "passive", "read", "show">>
\* A careful client leaves a port on I/O Intr only for one with the same interface.
Leaves(p) == rec.intr => p # Null /\ rec.iface \in Supports[p]
Quiet == /\ ~rec.pact /\ Outstanding = {} /\ completions = 0
         /\ \A a \in Announcers : ann[a].step = "none"

\* A put to a field that special has something to do for.
Put(field, fields, steps) ==
    /\ DbFree /\ budget.puts > 0 /\ field \in budget.fields
    /\ rec' = fields
    /\ program' = steps
    /\ scanLock' = Db
    /\ budget' = [budget EXCEPT !.puts = @ - 1]

\* PORT (and ADDR and DRVINFO): the record changes its port.  Careful clients
\* wait until nothing is under way.
PutPort(p) ==
    /\ Careful => Quiet /\ Leaves(p)
    /\ Put("PORT", [rec EXCEPT !.port = p], connectDevice \o <<"state", "unlock">>)
    /\ UNCHANGED <<pvt, manager, seen, completions, scanIo, regs, ghost>>

\* PCNCT: the record leaves its port or connects to it again.
PutPcnct(yesNo) ==
    /\ Careful => Quiet /\ Leaves(IF yesNo THEN rec.port ELSE Null)
    /\ Put("PCNCT", [rec EXCEPT !.pcnct = yesNo],
           IF yesNo THEN connectDevice \o <<"unlock">>
           ELSE <<"remove", "disconnect", "passive", "unlock">>)
    /\ UNCHANGED <<pvt, manager, seen, completions, scanIo, regs, ghost>>

\* IFACE (and UI32MASK and REASON): the record leaves the I/O Intr scan, and
\* cancels by the interface the field names now.  Careful clients choose one
\* the port has.
PutIface(i) ==
    /\ Careful => Has(i)
    /\ Put("IFACE", [rec EXCEPT !.iface = i], <<"passive", "unlock">>)
    /\ UNCHANGED <<pvt, manager, seen, completions, scanIo, regs, ghost>>

\* CNCT, an option or an end-of-string field: a request does what the field says.
PutCnct(yesNo) ==
    /\ Put("CNCT", [rec EXCEPT !.cnct = yesNo], <<"request", "unlock">>)
    /\ UNCHANGED <<pvt, manager, seen, completions, scanIo, regs, ghost>>
PutField(f, v) ==
    /\ Put("option", [rec EXCEPT !.opt[f] = v], <<f, "unlock">>)
    /\ UNCHANGED <<pvt, manager, seen, completions, scanIo, regs, ghost>>

\* ENBL: enable announces within this call, the exception callback takes the
\* scan lock once more.
PutEnbl(yesNo) ==
    LET p == user.port IN
    /\ Put("ENBL", IF p # Null /\ user.onList THEN [rec EXCEPT !.cnct = Connected] ELSE rec,
           <<"unlock">>)
    /\ IF p = Null THEN UNCHANGED <<dev, exceptionActive>>
       ELSE /\ dev' = [dev EXCEPT ![p].enabled = yesNo]
            /\ exceptionActive' = [exceptionActive EXCEPT ![p] = FALSE]
    /\ UNCHANGED <<pvt, user, queue, thread, timer, ann, seen, completions, scanIo, regs,
                   ghost>>

\* AQR: cancelRequest takes the request off its queue, and the record is
\* processed; or it waits for the callback.  Careful clients do not abort an
\* operation whose driver may announce that it has disconnected: cancelRequest
\* would wait for a callback that waits for the scan lock.
PutAqr ==
    LET p == user.port
        queued == p \in Blocking /\ Waiting(p) # {}
        active == p \in Blocking /\ ~queued /\ Active(p)
    IN
    /\ Careful => ~(active /\ p \in budget.announceInIO)
    /\ Put("AQR", IF queued THEN [rec EXCEPT !.nsev = 2] ELSE rec, <<"canceled">>)
    /\ queue' = IF queued
                THEN [queue EXCEPT ![p] = RemoveAt(@, CHOOSE i \in Waiting(p) : TRUE)]
                ELSE queue
    /\ completions' = IF queued THEN completions + 1 ELSE completions
    /\ user' = [user EXCEPT !.canceled = active]
    /\ UNCHANGED <<pvt, thread, timer, dev, ann, exceptionActive, seen, scanIo, regs, ghost>>

\* SCAN becomes I/O Intr: getIoIntInfo and registerInterrupts, which asks for
\* the list of the port the record is connected to now; if that fails the
\* database sets SCAN back to Passive.
PutScanIoIntr ==
    LET x == <<user.port, rec.iface>>
        ok == Has(rec.iface) /\ user.port # Null
    IN
    /\ ~rec.intr
    /\ Put("SCAN", [rec EXCEPT !.intr = ok], <<"unlock">>)
    /\ regs' = IF ok THEN [regs EXCEPT ![x] = @ + 1] ELSE regs
    /\ pvt' = [pvt EXCEPT !.gotValue = FALSE, !.node = IF ok THEN x ELSE @]
    /\ UNCHANGED <<manager, seen, completions, scanIo, ghost>>
PutScanPassive ==
    /\ rec.intr
    /\ Put("SCAN", rec, <<"passive", "unlock">>)
    /\ UNCHANGED <<pvt, manager, seen, completions, scanIo, regs, ghost>>

-----------------------------------------------------------------------------
(***************************************************************************)
(* The steps of special.                                                   *)
(***************************************************************************)
Step(s) == /\ program # <<>> /\ Head(program) = s
           /\ thread[Db].step = "wait"
           /\ program' = Tail(program)

\* exceptionCallbackRemove waits for an announcement of the port.
exceptionCallbackRemove ==
    /\ Step("remove")
    /\ user.onList => ~exceptionActive[user.port]
    /\ user' = [user EXCEPT !.onList = FALSE]
    /\ UNCHANGED <<rec, pvt, queue, thread, timer, dev, ann, exceptionActive, scanLock,
                   seen, completions, scanIo, regs, ghost, budget>>

\* disconnect refuses while the record's request is queued.
IsQueued == user.port \in Blocking /\ Waiting(user.port) # {}
Disconnect ==
    /\ Step("disconnect")
    /\ user' = [user EXCEPT !.port = IF IsQueued THEN @ ELSE Null]
    /\ UNCHANGED <<rec, pvt, queue, thread, timer, dev, ann, exceptionActive, scanLock,
                   seen, completions, scanIo, regs, ghost, budget>>

\* disconnect, connectDevice and findInterface.  If the record stays connected,
\* or there is no such port, it is given up.
ConnectPort ==
    LET ok == ~IsQueued /\ rec.port # Null IN
    /\ program # <<>> /\ Head(program) = "connect"
    /\ program' = IF ok THEN Tail(program)
                  ELSE IF Contains(program, "state")
                  THEN <<"passive", "read", "show", "state", "unlock">>
                  ELSE <<"passive", "read", "show", "unlock">>
    /\ user' = [user EXCEPT !.port = IF ok THEN rec.port ELSE IF IsQueued THEN @ ELSE Null]
    /\ pvt' = IF ok THEN [pvt EXCEPT !.bound = rec.port] ELSE pvt
    /\ rec' = IF ok THEN rec ELSE [rec EXCEPT !.pcnct = FALSE]
    /\ UNCHANGED <<queue, thread, timer, dev, ann, exceptionActive, scanLock, seen,
                   completions, scanIo, regs, ghost, budget>>

\* exceptionCallbackAdd waits for an announcement of the new port.
exceptionCallbackAdd ==
    /\ Step("add")
    /\ ~exceptionActive[user.port]
    /\ user' = [user EXCEPT !.onList = TRUE]
    /\ UNCHANGED <<rec, pvt, queue, thread, timer, dev, ann, exceptionActive, scanLock,
                   seen, completions, scanIo, regs, ghost, budget>>

\* monitorStatus.
ReadStatus ==
    /\ Step("read")
    /\ seen' = Connected
    /\ UNCHANGED <<rec, pvt, manager, scanLock, completions, scanIo, regs, ghost, budget>>
ShowStatus ==
    /\ Step("show")
    /\ rec' = [rec EXCEPT !.cnct = seen]
    /\ UNCHANGED <<pvt, manager, scanLock, seen, completions, scanIo, regs, ghost, budget>>

\* queueRequest of a special request, by a duplicate of the record's asynUser:
\* refused, called now, or queued.
QueueSpecial(s, r) ==
    LET p == user.port IN
    /\ Step(s)
    /\ IF ~Accepts(p, r)
       THEN /\ ghost' = [ghost EXCEPT !.unserved = @ \cup FieldsOf(r)]
            /\ UNCHANGED <<queue, thread>>
       ELSE /\ UNCHANGED ghost
            /\ IF p \in Blocking
               THEN /\ queue' = [queue EXCEPT ![p] = Append(@, r)]
                    /\ UNCHANGED thread
               ELSE /\ thread' = [thread EXCEPT ![Db] = [Idle EXCEPT !.step = "act", !.req = r]]
                    /\ UNCHANGED queue
    /\ UNCHANGED <<rec, pvt, user, timer, dev, ann, exceptionActive, scanLock, seen,
                   completions, scanIo, regs, budget>>

\* connectDevice asks for the options and the end-of-string characters.
Skip(s) ==
    /\ Step(s)
    /\ UNCHANGED <<rec, pvt, manager, scanLock, seen, completions, scanIo, regs, ghost, budget>>
AskOption == IF Has("option") THEN QueueSpecial("getOption", Request("getOption", Null))
             ELSE Skip("getOption")
AskEos == IF Has("octet") THEN QueueSpecial("getEos", Request("getEos", Null))
          ELSE Skip("getEos")
AskConnect == QueueSpecial("request", Request("connect", Null))
AskField(f) == QueueSpecial(f, Request("set", f))

ShowPcnct ==
    /\ Step("pcnct")
    /\ rec' = [rec EXCEPT !.pcnct = TRUE]
    /\ UNCHANGED <<pvt, manager, scanLock, seen, completions, scanIo, regs, ghost, budget>>

\* cancelIOInterruptScan: SCAN becomes Passive, and the database calls
\* cancelInterrupts, which uses the interfaces and IFACE as they are now; an
\* asynUser without a port cannot cancel.
cancelIOInterruptScan ==
    /\ Step("passive")
    /\ rec' = [rec EXCEPT !.intr = FALSE]
    /\ regs' = IF rec.intr /\ Has(rec.iface) /\ user.port # Null
               THEN [regs EXCEPT ![pvt.node] = @ - 1] ELSE regs
    /\ UNCHANGED <<pvt, manager, scanLock, seen, completions, scanIo, ghost, budget>>

\* PORT: the state says whether connectDevice succeeded.
SetState ==
    /\ Step("state")
    /\ pvt' = [pvt EXCEPT !.state = IF rec.pcnct THEN "stateIdle" ELSE "stateNoDevice"]
    /\ UNCHANGED <<rec, manager, scanLock, seen, completions, scanIo, regs, ghost, budget>>

\* AQR: the request is gone, or its callback has returned.
Canceled ==
    /\ Step("canceled") /\ ~user.canceled
    /\ pvt' = [pvt EXCEPT !.state = "stateIdle"]
    /\ scanLock' = Null
    /\ UNCHANGED <<rec, manager, seen, completions, scanIo, regs, ghost, budget>>

Unlock ==
    /\ Step("unlock")
    /\ scanLock' = Null
    /\ UNCHANGED <<rec, pvt, manager, seen, completions, scanIo, regs, ghost, budget>>

-----------------------------------------------------------------------------
Special ==
    \/ exceptionCallbackRemove \/ Disconnect \/ ConnectPort \/ exceptionCallbackAdd
    \/ ReadStatus \/ ShowStatus \/ AskOption \/ AskEos \/ AskConnect
    \/ \E f \in Fields : AskField(f)
    \/ ShowPcnct \/ cancelIOInterruptScan \/ SetState \/ Canceled \/ Unlock
asynCallbackSpecial(a) ==
    setOption(a) \/ getOptions(a) \/ callbackConnect(a) \/ SpecialStatus(a) \/ SpecialDone(a)
Callback(a) == performIO(a) \/ asynCallbackProcess(a) \/ asynCallbackSpecial(a)
exceptCallback(a) == ExceptCallback(a) \/ ExceptShown(a) \/ AnnounceEnd(a)

Client ==
    \/ \E p \in Ports \cup {Null} : PutPort(p)
    \/ \E b \in BOOLEAN : PutPcnct(b) \/ PutCnct(b) \/ PutEnbl(b)
    \/ \E i \in Ifaces : PutIface(i)
    \/ \E f \in Fields, v \in Values : PutField(f, v)
    \/ PutAqr \/ PutScanIoIntr \/ PutScanPassive
    \/ Scan

Environment ==
    \/ \E p \in Ports : LineChanges(p)
    \/ \E p \in Ports, b \in BOOLEAN : EnableByOther(p, b)
    \/ \E p \in Ports, i \in Ifaces : callbackInterrupt(p, i)
    \/ \E p \in Blocking : Timeout(p)

Next ==
    \/ Client \/ Environment
    \/ Special \/ ScanIoIntr \/ ProcessCallback
    \/ queueTimeoutCallbackProcess \/ queueTimeoutCallbackSpecial
    \/ \E p \in Blocking : Serve(p)
    \/ \E a \in Threads : Callback(a)
    \/ \E a \in Announcers : exceptCallback(a)

\* Every thread goes on, and the timer of a request that waits expires.
Fairness ==
    /\ WF_vars(Special) /\ WF_vars(ScanIoIntr) /\ WF_vars(ProcessCallback)
    /\ WF_vars(queueTimeoutCallbackProcess) /\ WF_vars(queueTimeoutCallbackSpecial)
    /\ \A p \in Blocking : WF_vars(Timeout(p)) /\ WF_vars(Serve(p))
    /\ \A a \in Threads : WF_vars(Callback(a))
    /\ \A a \in Announcers : WF_vars(exceptCallback(a))

Spec == Init /\ [][Next]_vars /\ Fairness

-----------------------------------------------------------------------------
(***************************************************************************)
(* Properties.                                                             *)
(***************************************************************************)
RecFields == [port : Ports \cup {Null}, iface : Ifaces, intr : BOOLEAN, pact : BOOLEAN,
              nsev : 0..2, sevr : 0..2, pcnct : BOOLEAN, cnct : BOOLEAN,
              opt : [Fields -> Values \cup {Null}]]
asynRecPvt == [state : States, gotValue : BOOLEAN, bound : Ports,
               node : (Ports \X Ifaces) \cup {Null}]
asynUser == [port : Ports \cup {Null}, onList : BOOLEAN, canceled : BOOLEAN]
Call == [step : {"wait", "act", "get", "status", "show", "done"}, req : Requests,
         ok : BOOLEAN, seen : BOOLEAN]
Port == [connected : BOOLEAN, enabled : BOOLEAN, opt : [Fields -> Values \cup {Null}]]
Announcement == [step : {"none", "lock", "show", "end"}, port : Ports \cup {Null},
                 seen : BOOLEAN]

RecordTypeOK ==
    /\ rec \in RecFields /\ pvt \in asynRecPvt /\ user \in asynUser
    /\ queue \in [Blocking -> Seq(Requests)]
    /\ thread \in [Threads -> Call]
    /\ timer \in Requests \cup {Null}
    /\ dev \in [Ports -> Port]
    /\ ann \in [Announcers -> Announcement]
    /\ exceptionActive \in [Ports -> BOOLEAN]
    /\ scanLock \in Threads \cup Announcers \cup {Null}
    /\ program \in Seq(Steps \cup Fields)
    /\ seen \in BOOLEAN /\ scanIo \in BOOLEAN
    /\ completions \in Nat
    /\ regs \in [Ports \X Ifaces -> Nat]
    /\ ghost.io \in Outcomes

\* What will end the processing of the record.
Endings ==
    (UNION {{<<"queue", p, i>> : i \in Waiting(p)} : p \in Blocking})
        \cup {<<"thread", p, 1>> : p \in {q \in Blocking : Active(q)}}
        \cup {<<"timer", Db, 1>> : t \in {timer} \cap {Process}}
        \cup {<<"completion", Db, n>> : n \in 1..completions}

\* A record that is active (PACT) is waiting for exactly one thing that ends
\* its processing, whoever cancels, times out or answers its request first;
\* an idle record for none, or it would be processed by a call nobody made.
OneCompletion ==
    /\ rec.pact <=> Endings # {}
    /\ \A d, e \in Endings : d = e

\* A processing that did not do its I/O because the request was refused,
\* cancelled or timed out, or because the operation failed, is shown with an
\* alarm: whoever ended it, nobody forgets the alarm or takes it back before
\* the record is processed again.  One failure is excepted, for which the code
\* raises no alarm: a write or a flush through asynOctet (performOctetIO).
UndoneShown == DbFree /\ ~rec.pact /\ ghost.io = "undone" => rec.sevr > 0

\* An option or end-of-string field shows what the port has, unless a request
\* that will look is under way, or was refused or timed out.
OptionsShown ==
    DbFree /\ user.port # Null /\ rec.pcnct =>
        \A f \in Fields :
            \/ IfaceOf(f) \notin Supports[user.port]
            \/ f \in ghost.unserved \/ \E r \in Outstanding : f \in FieldsOf(r)
            \/ rec.opt[f] = dev[user.port].opt[f]

\* CNCT shows whether the port is connected, unless an announcement or a
\* request to connect is under way, or such a request was refused or timed out.
ConnectShown ==
    DbFree /\ user.onList =>
        \/ \E a \in Announcers : ann[a].step # "none" /\ ann[a].port = user.port
        \/ \E a \in Threads : thread[a].step = "show" \/ thread[a].req.kind = "connect"
        \/ Request("connect", Null) \in Outstanding \/ "cnct" \in ghost.unserved
        \/ rec.cnct = dev[user.port].connected

\* The fields of the record show what its port has.
FieldsShown == OptionsShown /\ ConnectShown

\* The record is registered for interrupts once, with its port and the interface
\* IFACE names, exactly while its SCAN is I/O Intr.
Registered ==
    DbFree => \A p \in Ports, i \in Ifaces :
        regs[<<p, i>>] = IF rec.intr /\ p = user.port /\ i = rec.iface THEN 1 ELSE 0

\* Every processing and every put ends: no thread waits for the scan lock while
\* its holder waits for that thread.
RecordEnds == /\ rec.pact ~> ~rec.pact
              /\ scanLock # Null ~> scanLock = Null
=============================================================================
