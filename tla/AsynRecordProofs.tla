-------------------------- MODULE AsynRecordProofs --------------------------
(***************************************************************************)
(* The processing of an asynRecord ends exactly once, with an alarm if it  *)
(* did nothing, the record is registered for interrupts where it should    *)
(* be, its fields show what the port has or will be made to, and who has   *)
(* its scan lock never waits for somebody who waits for the lock, for any  *)
(* ports, interfaces and fields and any number of puts, of clients that    *)
(* keep to the rules of AsynRecord.                                        *)
(***************************************************************************)
EXTENDS AsynRecord, SequenceTheorems, TLAPS

\* What ellDelete leaves: one element less, the others in their order.
LEMMA RemoveAtProperties ==
    ASSUME NEW S, NEW q \in Seq(S), NEW k \in 1..Len(q)
    PROVE  /\ RemoveAt(q, k) \in Seq(S)
           /\ Len(RemoveAt(q, k)) = Len(q) - 1
           /\ \A j \in 1..Len(q) - 1 :
                 RemoveAt(q, k)[j] = IF j < k THEN q[j] ELSE q[j + 1]
<1> DEFINE a == SubSeq(q, 1, k - 1)
           b == SubSeq(q, k + 1, Len(q))
<1>1. a \in Seq(S) /\ b \in Seq(S) /\ Len(a) = k - 1 /\ Len(b) = Len(q) - k
  OBVIOUS
<1>2. \A j \in 1..k - 1 : a[j] = q[j]
  OBVIOUS
<1>3. \A j \in 1..Len(q) - k : b[j] = q[j + k]
  OBVIOUS
<1> HIDE DEF a, b
<1>4. a \o b \in Seq(S) /\ Len(a \o b) = Len(q) - 1
  BY <1>1
<1>5. ASSUME NEW j \in 1..Len(q) - 1 PROVE (a \o b)[j] = IF j < k THEN q[j] ELSE q[j + 1]
  <2>1. (a \o b)[j] = IF j <= Len(a) THEN a[j] ELSE b[j - Len(a)]
    BY <1>1
  <2> QED  BY <1>1, <1>2, <1>3, <2>1
<1> QED  BY <1>4, <1>5 DEF RemoveAt, a, b

InProgram(s) == \E i \in DOMAIN program : program[i] = s

\* special has the scan lock as long as it has something left to do, an
\* exception callback until it has shown the status, the database while a
\* port that does not block does its I/O.
LockInv ==
    /\ program # <<>> => scanLock = Db
    /\ \A i \in DOMAIN program : program[i] \in {"canceled", "unlock"} => i = Len(program)
    /\ \A a \in Announcers : ann[a].step = "show" => scanLock = a
    /\ Active(Db) => /\ scanLock = Db /\ program = <<>>
                     /\ user.port \notin Blocking /\ ~rec.pact

\* A record on I/O Intr has one registration, with its port unless
\* cancelIOInterruptScan is still to come; and it comes to a port where
\* cancelInterrupts finds the interface.
IntrInv ==
    /\ user.port # Null => pvt.bound = user.port
    /\ rec.intr => /\ user.port # Null /\ rec.iface \in Supports[user.port]
                   /\ pvt.node \in Ports \X Ifaces
                   /\ InProgram("passive") \/ pvt.node = <<user.port, rec.iface>>
    /\ InProgram("connect") =>
         /\ ~rec.pact
         /\ rec.intr => /\ InProgram("passive")
                        /\ rec.port # Null /\ rec.iface \in Supports[rec.port]
    /\ InProgram("disconnect") => ~rec.intr /\ ~rec.pact
    /\ \A x \in Ports \X Ifaces : regs[x] = IF rec.intr /\ x = pvt.node THEN 1 ELSE 0

\* The request to process is on the queue or the thread of the port the record
\* is connected to, with the timer, or answered: in one of these places.
Procs(q) == {i \in DOMAIN q : q[i] = Process}
Lone(q) == \A i, j \in Procs(q) : i = j
Queued(p) == Procs(queue[p]) # {}
OneInv ==
    /\ \A p \in Blocking : Lone(queue[p])
    /\ \A p \in Blocking : Queued(p) \/ Active(p) => user.port = p /\ rec.pact
    /\ \A a \in Threads : Active(a) => thread[a].step \in {"act", "done"}
    /\ \A p \in Blocking :
         /\ Queued(p) => ~Active(p) /\ timer # Process /\ completions = 0
         /\ Active(p) => timer # Process /\ completions = 0
    /\ timer = Process => completions = 0 /\ rec.pact
    /\ completions > 0 => completions = 1 /\ rec.pact
    /\ rec.pact => \/ timer = Process \/ completions > 0
                   \/ user.port \in Blocking /\ (Queued(user.port) \/ Active(user.port))

\* Who has not done its I/O has an alarm: already shown, still to be shown, or
\* raised by the callback that is to come.
UndoneInv ==
    ghost.io = "undone" =>
        /\ ~rec.pact /\ ~Active(Db) => rec.sevr > 0
        /\ completions > 0 => rec.nsev > 0
        /\ \A a \in Threads : Active(a) /\ thread[a].step = "done" => rec.nsev > 0

RecordIInv == RecordTypeOK /\ LockInv /\ IntrInv /\ OneInv /\ UndoneInv

-----------------------------------------------------------------------------
\* The request to process is no request of special, and no model value.
LEMMA RequestFacts ==
    /\ Process \in Requests /\ Null # Process
    /\ Request("getOption", Null) \in Requests \ {Process}
    /\ Request("getEos", Null) \in Requests \ {Process}
    /\ Request("connect", Null) \in Requests \ {Process}
    /\ \A f \in Fields : Request("set", f) \in Requests \ {Process}
    /\ \A r \in Requests : r.kind = "process" <=> r = Process
    /\ \A r \in Requests : r.kind = "set" => r.field \in Fields
<1>1. /\ Request("process", Null).kind = "process"
      /\ Request("getOption", Null).kind = "getOption"
      /\ Request("getEos", Null).kind = "getEos"
      /\ Request("connect", Null).kind = "connect"
      /\ \A f : Request("set", f).kind = "set" /\ Request("set", f).field = f
  BY DEF Request
<1>2. /\ Request("process", Null) \in Requests /\ Request("getOption", Null) \in Requests
      /\ Request("getEos", Null) \in Requests /\ Request("connect", Null) \in Requests
      /\ \A f \in Fields : Request("set", f) \in Requests
      /\ \A r \in Requests : \/ r = Request("process", Null) \/ r = Request("getOption", Null)
                             \/ r = Request("getEos", Null) \/ r = Request("connect", Null)
                             \/ \E f \in Fields : r = Request("set", f)
  BY DEF Requests
<1>3. Null \notin Requests
  BY RecordAssumption DEF RecordAssumption
<1> QED  BY <1>1, <1>2, <1>3 DEF Process

\* A request leaves a list of requests ...
LEMMA QueueRemoved ==
    ASSUME NEW q \in Seq(Requests), Lone(q), NEW k \in DOMAIN q
    PROVE  /\ RemoveAt(q, k) \in Seq(Requests) /\ Lone(RemoveAt(q, k))
           /\ q[k] = Process => Procs(RemoveAt(q, k)) = {}
           /\ q[k] # Process => (Procs(RemoveAt(q, k)) = {} <=> Procs(q) = {})
<1> DEFINE r == RemoveAt(q, k)
<1>1. /\ k \in 1..Len(q) /\ r \in Seq(Requests) /\ Len(r) = Len(q) - 1
      /\ \A j \in 1..Len(q) - 1 : r[j] = IF j < k THEN q[j] ELSE q[j + 1]
  <2>1. k \in 1..Len(q)
    BY LenProperties
  <2> HIDE DEF r
  <2> QED  BY <2>1, RemoveAtProperties DEF r
<1> HIDE DEF r
<1>2. ASSUME NEW i \in Procs(r), NEW j \in Procs(r) PROVE i = j
  <2> DEFINE old(n) == IF n < k THEN n ELSE n + 1
  <2>1. i \in 1..Len(q) - 1 /\ j \in 1..Len(q) - 1 /\ Len(q) \in Nat
    BY <1>1 DEF Procs
  <2>2. old(i) \in Procs(q) /\ old(j) \in Procs(q)
    BY <1>1, <2>1 DEF Procs
  <2>3. old(i) = old(j)
    BY <2>2 DEF Lone
  <2> QED  BY <2>1, <2>3, <1>1
<1>3. q[k] = Process => Procs(r) = {}
  BY <1>1 DEF Lone, Procs
<1>4. q[k] # Process => (Procs(r) = {} <=> Procs(q) = {})
  <2> HAVE q[k] # Process
  <2>1. Procs(r) # {} => Procs(q) # {}
    BY <1>1 DEF Procs
  <2>2. ASSUME NEW i \in Procs(q) PROVE Procs(r) # {}
    <3>1. i \in 1..Len(q) /\ i # k /\ q[i] = Process
      BY <2>2 DEF Procs
    <3>2. CASE i < k
      BY <3>1, <3>2, <1>1 DEF Procs
    <3>3. CASE i > k
      <4>1. i - 1 \in 1..Len(q) - 1 /\ ~(i - 1 < k) /\ (i - 1) + 1 = i
        BY <3>1, <3>3, <1>1
      <4> QED  BY <4>1, <3>1, <1>1 DEF Procs
    <3> QED  BY <3>1, <3>2, <3>3, <1>1
  <2> QED  BY <2>1, <2>2
<1> QED  BY <1>1, <1>2, <1>3, <1>4 DEF r, Lone

\* ... or joins it.
LEMMA QueueAppended ==
    ASSUME NEW q \in Seq(Requests), Lone(q), NEW x \in Requests
    PROVE  /\ Append(q, x) \in Seq(Requests)
           /\ x # Process => Lone(Append(q, x))
           /\ x # Process => (Procs(Append(q, x)) = {} <=> Procs(q) = {})
           /\ x = Process /\ Procs(q) = {} => Lone(Append(q, x)) /\ Procs(Append(q, x)) # {}
<1> DEFINE r == Append(q, x)
<1>1. /\ r \in Seq(Requests) /\ Len(r) = Len(q) + 1 /\ Len(q) \in Nat
      /\ \A j \in 1..Len(q) : r[j] = q[j]
      /\ r[Len(q) + 1] = x
  OBVIOUS
<1> HIDE DEF r
<1>2. x # Process => Lone(r) /\ (Procs(r) = {} <=> Procs(q) = {})
  BY <1>1 DEF Lone, Procs
<1>3. x = Process /\ Procs(q) = {} => Lone(r) /\ Procs(r) # {}
  BY <1>1 DEF Lone, Procs
<1> QED  BY <1>1, <1>2, <1>3 DEF r

\* A step of special leaves the rest of its program.
LEMMA ProgramTail ==
    ASSUME program \in Seq(Steps \cup Fields), program # <<>>, program' = Tail(program)
    PROVE  /\ program' \in Seq(Steps \cup Fields)
           /\ Head(program) = program[1] /\ 1 \in DOMAIN program
           /\ DOMAIN program' = 1..Len(program')
           /\ Len(program') \in Nat /\ Len(program) = Len(program') + 1
           /\ \A i \in DOMAIN program' : i + 1 \in DOMAIN program /\ program'[i] = program[i + 1]
           /\ \A s : InProgram(s)' => InProgram(s)
           /\ \A s : InProgram(s) /\ s # Head(program) => InProgram(s)'
<1>1. /\ program' \in Seq(Steps \cup Fields)
      /\ Head(program) = program[1] /\ 1 \in DOMAIN program
      /\ DOMAIN program' = 1..Len(program')
      /\ DOMAIN program = 1..Len(program)
      /\ Len(program') \in Nat /\ Len(program) = Len(program') + 1
  OBVIOUS
<1>2. \A i \in DOMAIN program' : i + 1 \in DOMAIN program /\ program'[i] = program[i + 1]
  BY <1>1
<1>3. \A s : InProgram(s)' => InProgram(s)
  BY <1>2 DEF InProgram
<1>4. ASSUME NEW s, InProgram(s), s # Head(program) PROVE InProgram(s)'
  <2>1. PICK i \in DOMAIN program : program[i] = s
    BY <1>4 DEF InProgram
  <2>2. i # 1
    BY <2>1, <1>1, <1>4
  <2>3. i - 1 \in DOMAIN program' /\ (i - 1) + 1 = i
    BY <2>1, <2>2, <1>1
  <2> QED  BY <2>1, <2>3, <1>2 DEF InProgram
<1> QED  BY <1>1, <1>2, <1>3, <1>4

\* What is written into the parts of the state has their type, and leaves what
\* the invariant looks at alone.
SameRec(q, r) ==
    /\ q \in RecFields /\ q.sevr = r.sevr /\ (r.nsev > 0 => q.nsev > 0)
    /\ q.pact = r.pact /\ q.intr = r.intr /\ q.iface = r.iface /\ q.port = r.port
LEMMA RecUpdates ==
    ASSUME NEW r \in RecFields
    PROVE  /\ SameRec([r EXCEPT !.nsev = 2], r) /\ [r EXCEPT !.nsev = 2].nsev = 2
           /\ \A b \in BOOLEAN : SameRec([r EXCEPT !.cnct = b], r)
           /\ \A b \in BOOLEAN : SameRec([r EXCEPT !.pcnct = b], r)
           /\ \A o \in [Fields -> Values \cup {Null}] : SameRec([r EXCEPT !.opt = o], r)
           /\ r.opt \in [Fields -> Values \cup {Null}] /\ r.cnct \in BOOLEAN
<1>1. SameRec([r EXCEPT !.nsev = 2], r) /\ [r EXCEPT !.nsev = 2].nsev = 2
  BY DEF RecFields, SameRec
<1>2. \A b \in BOOLEAN : SameRec([r EXCEPT !.cnct = b], r)
  BY DEF RecFields, SameRec
<1>3. \A b \in BOOLEAN : SameRec([r EXCEPT !.pcnct = b], r)
  BY DEF RecFields, SameRec
<1>4. \A o \in [Fields -> Values \cup {Null}] : SameRec([r EXCEPT !.opt = o], r)
  BY DEF RecFields, SameRec
<1>5. r.opt \in [Fields -> Values \cup {Null}] /\ r.cnct \in BOOLEAN
  BY DEF RecFields
<1> QED  BY <1>1, <1>2, <1>3, <1>4, <1>5

\* The end of process; a field that a client puts.
LEMMA FinishRec ==
    ASSUME NEW r \in RecFields
    PROVE  /\ Finish(r) \in RecFields
           /\ Finish(r).sevr = r.nsev /\ Finish(r).pact = FALSE
           /\ Finish(r).intr = r.intr /\ Finish(r).iface = r.iface /\ Finish(r).port = r.port
<1>1. r.nsev \in 0..2 /\ 0 \in 0..2
  BY DEF RecFields
<1>2. [r EXCEPT !.sevr = r.nsev, !.nsev = 0] \in RecFields
  BY <1>1 DEF RecFields
<1>3. \A q \in RecFields : [q EXCEPT !.pact = FALSE] \in RecFields
  BY DEF RecFields
<1>4. Finish(r) = [[r EXCEPT !.sevr = r.nsev, !.nsev = 0] EXCEPT !.pact = FALSE]
  BY DEF Finish
<1>5. Finish(r) \in RecFields
  BY <1>2, <1>3, <1>4
<1>6. /\ Finish(r).sevr = r.nsev /\ Finish(r).pact = FALSE
      /\ Finish(r).intr = r.intr /\ Finish(r).iface = r.iface /\ Finish(r).port = r.port
  BY DEF Finish, RecFields
<1> QED  BY <1>5, <1>6

SamePvt(q, r) == q \in asynRecPvt /\ q.node = r.node /\ q.bound = r.bound
LEMMA PvtUpdates ==
    ASSUME NEW r \in asynRecPvt
    PROVE  /\ \A s \in States : SamePvt([r EXCEPT !.state = s], r)
           /\ \A b \in BOOLEAN : SamePvt([r EXCEPT !.gotValue = b], r)
           /\ \A s \in States, b \in BOOLEAN :
                SamePvt([r EXCEPT !.state = s, !.gotValue = b], r)
           /\ r.bound \in Ports
BY DEF asynRecPvt, SamePvt

LEMMA UserUpdates ==
    ASSUME NEW r \in asynUser
    PROVE  /\ \A b \in BOOLEAN : [r EXCEPT !.onList = b] \in asynUser
                                 /\ [r EXCEPT !.onList = b].port = r.port
           /\ \A b \in BOOLEAN : [r EXCEPT !.canceled = b] \in asynUser
                                 /\ [r EXCEPT !.canceled = b].port = r.port
           /\ \A p \in Ports \cup {Null} : [r EXCEPT !.port = p] \in asynUser
                                           /\ [r EXCEPT !.port = p].port = p
           /\ r.port \in Ports \cup {Null}
BY DEF asynUser

\* A step of an announcer that does not bring it into the exception callback.
Beside(g, f, a) ==
    /\ g \in [Announcers -> Announcement] /\ g[a].step # "show"
    /\ \A b \in Announcers \ {a} : g[b] = f[b]
LEMMA AnnUpdates ==
    ASSUME NEW f \in [Announcers -> Announcement], NEW a \in Announcers
    PROVE  /\ \A b \in BOOLEAN : [f EXCEPT ![a].step = "show", ![a].seen = b]
                                     \in [Announcers -> Announcement]
           /\ Beside([f EXCEPT ![a].step = "end"], f, a)
           /\ Beside([f EXCEPT ![a] = Silent], f, a)
           /\ \A p \in Ports, s \in {"lock", "end"} :
                Beside([f EXCEPT ![a] = [step |-> s, port |-> p, seen |-> FALSE]], f, a)
           /\ f[a].seen \in BOOLEAN
<1>1. \A b \in BOOLEAN : [f EXCEPT ![a].step = "show", ![a].seen = b]
                             \in [Announcers -> Announcement]
  BY DEF Announcement
<1>2. Beside([f EXCEPT ![a].step = "end"], f, a)
  BY DEF Announcement, Beside
<1>3. Beside([f EXCEPT ![a] = Silent], f, a)
  BY DEF Announcement, Beside, Silent
<1>4. \A p \in Ports, s \in {"lock", "end"} :
        Beside([f EXCEPT ![a] = [step |-> s, port |-> p, seen |-> FALSE]], f, a)
  BY DEF Announcement, Beside
<1>5. f[a].seen \in BOOLEAN
  BY DEF Announcement
<1> QED  BY <1>1, <1>2, <1>3, <1>4, <1>5

\* A thread goes on with its callback, ends it, or begins one.
Moved(g, f, a) ==
    /\ g \in [Threads -> Call] /\ g[a].req = f[a].req
    /\ \A b \in Threads \ {a} : g[b] = f[b]
LEMMA ThreadUpdates ==
    ASSUME NEW f \in [Threads -> Call], NEW a \in Threads
    PROVE  /\ \A s \in {"get", "status", "done"} :
                Moved([f EXCEPT ![a].step = s], f, a) /\ [f EXCEPT ![a].step = s][a].step = s
           /\ Moved([f EXCEPT ![a].step = "status", ![a].ok = FALSE], f, a)
           /\ \A b \in BOOLEAN : Moved([f EXCEPT ![a].step = "show", ![a].seen = b], f, a)
           /\ [f EXCEPT ![a] = Idle] \in [Threads -> Call]
           /\ \A r \in Requests : [f EXCEPT ![a] = [Idle EXCEPT !.step = "act", !.req = r]]
                                      \in [Threads -> Call]
           /\ f[a].seen \in BOOLEAN /\ f[a].req \in Requests
<1>1. \A s \in {"get", "status", "done"} :
        Moved([f EXCEPT ![a].step = s], f, a) /\ [f EXCEPT ![a].step = s][a].step = s
  BY DEF Call, Moved
<1>2. Moved([f EXCEPT ![a].step = "status", ![a].ok = FALSE], f, a)
  BY DEF Call, Moved
<1>3. \A b \in BOOLEAN : Moved([f EXCEPT ![a].step = "show", ![a].seen = b], f, a)
  BY DEF Call, Moved
<1>4. [f EXCEPT ![a] = Idle] \in [Threads -> Call]
  BY RequestFacts DEF Call, Idle
<1>5. \A r \in Requests : [f EXCEPT ![a] = [Idle EXCEPT !.step = "act", !.req = r]]
                              \in [Threads -> Call]
  BY DEF Call, Idle
<1>6. f[a].seen \in BOOLEAN /\ f[a].req \in Requests
  BY DEF Call
<1> QED  BY <1>1, <1>2, <1>3, <1>4, <1>5, <1>6

LEMMA PortUpdates ==
    ASSUME NEW f \in [Ports -> Port], NEW p \in Ports
    PROVE  /\ \A b \in BOOLEAN : [f EXCEPT ![p].connected = b] \in [Ports -> Port]
           /\ \A b \in BOOLEAN : [f EXCEPT ![p].enabled = b] \in [Ports -> Port]
           /\ \A x \in Fields, v \in Values \cup {Null} :
                [f EXCEPT ![p].opt[x] = v] \in [Ports -> Port]
           /\ f[p].connected \in BOOLEAN /\ f[p].opt \in [Fields -> Values \cup {Null}]
BY DEF Port

-----------------------------------------------------------------------------
LEMMA RecordInit == Init => RecordIInv
<1> SUFFICES ASSUME Init PROVE RecordIInv
  OBVIOUS
<1> USE RecordAssumption, RequestFacts DEF RecordAssumption
<1>0. PICK p \in Ports : init_record(p)
  BY DEF Init
<1>1. FirstValue \in Values
  BY DEF FirstValue
<1>2. ASSUME NEW q \in Blocking PROVE queue[q] \in Seq(Requests) /\ Procs(queue[q]) = {}
  <2> DEFINE first == IF "option" \in Supports[p] THEN <<Request("getOption", Null)>> ELSE <<>>
             second == IF "octet" \in Supports[p] THEN <<Request("getEos", Null)>> ELSE <<>>
  <2>1. queue[q] = IF p # q THEN <<>> ELSE first \o second
    BY <1>0 DEF init_record
  <2>2. /\ first \in Seq(Requests) /\ second \in Seq(Requests)
        /\ \A i \in DOMAIN first : first[i] # Process
        /\ \A i \in DOMAIN second : second[i] # Process
    OBVIOUS
  <2> HIDE DEF first, second
  <2>3. first \o second \in Seq(Requests)
        /\ \A i \in DOMAIN (first \o second) : (first \o second)[i] # Process
    BY <2>2
  <2> QED  BY <2>1, <2>3 DEF Procs
<1>3. /\ \A a \in Threads : thread[a] = Idle /\ ~Active(a)
      /\ Idle \in Call
      /\ Silent \in Announcement
  BY DEF Init, Active, Idle, Silent, Call, Announcement
<1>4. RecordTypeOK
  <2>1. queue \in [Blocking -> Seq(Requests)]
    BY <1>0, <1>2 DEF init_record
  <2>2. /\ rec \in RecFields
        /\ pvt \in asynRecPvt
        /\ user \in asynUser
    BY <1>0, <1>1 DEF init_record, States, RecFields, asynRecPvt, asynUser
  <2>3. /\ thread \in [Threads -> Call]
        /\ ann \in [Announcers -> Announcement]
    BY <1>3 DEF Init
  <2>4. dev \in [Ports -> Port]
    BY <1>1 DEF Init, Port
  <2>5. timer \in Requests \cup {Null} /\ scanLock \in Threads \cup Announcers \cup {Null}
    BY DEF Init
  <2>6. exceptionActive \in [Ports -> BOOLEAN] /\ seen \in BOOLEAN /\ scanIo \in BOOLEAN
    BY DEF Init
  <2>7. program \in Seq(Steps \cup Fields) /\ completions \in Nat
    BY DEF Init
  <2>8. regs \in [Ports \X Ifaces -> Nat]
    BY DEF Init
  <2>9. ghost.io \in Outcomes
    BY DEF Init, Outcomes
  <2> QED  BY <2>1, <2>2, <2>3, <2>4, <2>5, <2>6, <2>7, <2>8, <2>9 DEF RecordTypeOK
<1>5. LockInv
  BY <1>0, <1>3 DEF LockInv, Init, init_record, Silent, Threads
<1>6. IntrInv
  BY <1>0 DEF IntrInv, Init, init_record, InProgram
<1>7. OneInv
  <2>1. /\ \A q \in Blocking : Procs(queue[q]) = {} /\ ~Active(q) /\ ~Active(Db)
        /\ timer # Process /\ completions = 0 /\ rec.pact = FALSE
    BY <1>0, <1>2, <1>3 DEF Init, init_record, Threads
  <2> QED  BY <2>1, <1>3 DEF OneInv, Lone, Queued
<1>8. UndoneInv
  BY DEF UndoneInv, Init
<1> QED  BY <1>4, <1>5, <1>6, <1>7, <1>8 DEF RecordIInv

-----------------------------------------------------------------------------
\* What a part of the invariant looks at, and a step that leaves it alone.
lockView == <<program, scanLock, user.port, rec.pact>>
intrView == <<program, regs, pvt.node, pvt.bound, user.port,
              rec.intr, rec.iface, rec.port, rec.pact>>
oneView == <<queue, timer, completions, user.port, rec.pact>>
SameCalls == \A a \in Threads : /\ Active(a)' <=> Active(a)
                                /\ Active(a) => thread'[a].step = thread[a].step
SameShows == \A a \in Announcers : ann'[a].step = "show" => ann[a].step = "show"

LEMMA LockFrame ==
    ASSUME LockInv, UNCHANGED lockView, Active(Db)' => Active(Db), SameShows
    PROVE  LockInv'
BY DEF LockInv, lockView, SameShows

LEMMA IntrFrame == ASSUME IntrInv, UNCHANGED intrView PROVE IntrInv'
BY DEF IntrInv, intrView, InProgram

LEMMA OneFrame ==
    ASSUME OneInv, UNCHANGED oneView,
           \A a \in Threads : /\ Active(a)' <=> Active(a)
                              /\ Active(a)' => thread'[a].step \in {"act", "done"}
    PROVE  OneInv'
BY DEF OneInv, oneView, Queued, Threads

LEMMA UndoneFrame ==
    ASSUME UndoneInv, SameCalls, ghost'.io = "undone" => ghost.io = "undone",
           rec'.pact = rec.pact, rec'.sevr = rec.sevr, rec.nsev > 0 => rec'.nsev > 0,
           completions' = completions
    PROVE  UndoneInv'
BY DEF UndoneInv, SameCalls, Threads

LEMMA AllFrames ==
    ASSUME RecordIInv, RecordTypeOK', UNCHANGED <<lockView, intrView, oneView>>,
           SameCalls, SameShows, ghost'.io = "undone" => ghost.io = "undone",
           rec'.sevr = rec.sevr, rec.nsev > 0 => rec'.nsev > 0
    PROVE  RecordIInv'
<1>0. UNCHANGED lockView /\ UNCHANGED intrView /\ UNCHANGED oneView
  OBVIOUS
<1>1. /\ \A a \in Threads : /\ Active(a)' <=> Active(a)
                            /\ Active(a)' => thread'[a].step \in {"act", "done"}
      /\ Active(Db)' => Active(Db)
      /\ rec'.pact = rec.pact /\ completions' = completions
  BY <1>0 DEF RecordIInv, OneInv, SameCalls, Threads, lockView, oneView
<1>2. LockInv'
  BY <1>0, <1>1, LockFrame DEF RecordIInv
<1>3. IntrInv'
  BY <1>0, IntrFrame DEF RecordIInv
<1>4. OneInv'
  BY <1>0, <1>1, OneFrame DEF RecordIInv
<1>5. UndoneInv'
  BY <1>1, UndoneFrame DEF RecordIInv
<1> QED  BY <1>2, <1>3, <1>4, <1>5 DEF RecordIInv

\* The same, of the state.
LEMMA StateUpdates ==
    ASSUME RecordTypeOK
    PROVE  /\ SameRec(rec, rec) /\ SamePvt(pvt, pvt)
           /\ SameRec([rec EXCEPT !.nsev = 2], rec) /\ [rec EXCEPT !.nsev = 2].nsev = 2
           /\ \A b \in BOOLEAN : SameRec([rec EXCEPT !.cnct = b], rec)
           /\ \A b \in BOOLEAN : SameRec([rec EXCEPT !.pcnct = b], rec)
           /\ \A o \in [Fields -> Values \cup {Null}] : SameRec([rec EXCEPT !.opt = o], rec)
           /\ \A s \in States : SamePvt([pvt EXCEPT !.state = s], pvt)
           /\ \A b \in BOOLEAN : SamePvt([pvt EXCEPT !.gotValue = b], pvt)
           /\ rec.opt \in [Fields -> Values \cup {Null}] /\ rec.cnct \in BOOLEAN
           /\ pvt.bound \in Ports /\ user.port \in Ports \cup {Null} /\ Connected \in BOOLEAN
           /\ \A p \in Ports : dev[p].connected \in BOOLEAN
           /\ \A p \in Ports : dev[p].opt \in [Fields -> Values \cup {Null}]
<1>1. /\ rec \in RecFields /\ pvt \in asynRecPvt /\ user \in asynUser
      /\ dev \in [Ports -> Port]
  BY DEF RecordTypeOK
<1>2. SameRec(rec, rec) /\ SamePvt(pvt, pvt)
  BY <1>1 DEF SameRec, SamePvt
<1>3. /\ user.port \in Ports \cup {Null}
      /\ \A p \in Ports : dev[p].connected \in BOOLEAN
      /\ \A p \in Ports : dev[p].opt \in [Fields -> Values \cup {Null}]
  BY <1>1, UserUpdates, PortUpdates
<1>4. Connected \in BOOLEAN
  BY <1>3 DEF Connected
<1> QED  BY <1>1, <1>2, <1>3, <1>4, RecUpdates, PvtUpdates

\* A step in which nothing happens that the invariant speaks of.
LEMMA QuietStep ==
    ASSUME RecordIInv, RecordTypeOK', SameRec(rec', rec), SamePvt(pvt', pvt),
           user'.port = user.port,
           UNCHANGED <<queue, timer, completions, scanLock, program, regs>>,
           SameCalls, SameShows, ghost'.io = "undone" => ghost.io = "undone"
    PROVE  RecordIInv'
<1>1. UNCHANGED lockView /\ UNCHANGED intrView /\ UNCHANGED oneView
  BY DEF SameRec, SamePvt, lockView, intrView, oneView
<1>2. rec'.sevr = rec.sevr /\ (rec.nsev > 0 => rec'.nsev > 0)
  BY DEF SameRec
<1> QED  BY <1>1, <1>2, AllFrames

LEMMA OtherCall ==
    ASSUME OneInv, NEW a \in Threads, Moved(thread', thread, a), thread[a].req # Process
    PROVE  SameCalls
BY DEF Moved, SameCalls, Active

LEMMA OtherShow ==
    ASSUME NEW a \in Announcers, Beside(ann', ann, a)
    PROVE  SameShows
BY DEF Beside, SameShows

-----------------------------------------------------------------------------
\* The environment of the record: announcements, the ports, interrupts.
LEMMA EnvironmentKeeps ==
    ASSUME RecordIInv,
           \/ \E a \in Announcers : exceptCallback(a)
           \/ \E p \in Ports : LineChanges(p)
           \/ \E p \in Ports, b \in BOOLEAN : EnableByOther(p, b)
           \/ \E p \in Ports, i \in Ifaces : callbackInterrupt(p, i)
    PROVE  RecordIInv'
<1> USE RecordAssumption, RequestFacts DEF manager, RecordIInv, RecordAssumption, Threads, Announcers
<1>0. Connected \in BOOLEAN
  BY DEF Connected, RecordTypeOK, asynUser, Port
<1>1. ASSUME NEW a \in Announcers, ExceptCallback(a) PROVE RecordIInv'
  <2>0. ann' \in [Announcers -> Announcement]
    BY <1>0, <1>1, AnnUpdates DEF ExceptCallback, RecordTypeOK
  <2>1. RecordTypeOK'
    BY <2>0, <1>1 DEF ExceptCallback, RecordTypeOK
  <2>2. /\ scanLock = Null /\ scanLock' = a
        /\ UNCHANGED <<program, user, rec, thread>>
        /\ \A b \in Announcers : ann'[b].step = "show" => b = a \/ ann[b].step = "show"
    BY <1>1 DEF ExceptCallback, RecordTypeOK, Announcement
  <2>3. LockInv'
    BY <2>2 DEF LockInv, Active
  <2>4. UNCHANGED intrView /\ UNCHANGED oneView /\ SameCalls
        /\ UNCHANGED <<rec, ghost, completions, thread>>
    BY <1>1 DEF ExceptCallback, intrView, oneView, SameCalls, Active
  <2>5. IntrInv' /\ UndoneInv'
    BY <2>4, IntrFrame, UndoneFrame
  <2>6. OneInv'
    BY <2>4, OneFrame DEF OneInv, Active
  <2> QED  BY <2>1, <2>3, <2>5, <2>6
<1>2. ASSUME NEW a \in Announcers, ExceptShown(a) PROVE RecordIInv'
  <2>0. ann' \in [Announcers -> Announcement] /\ ann[a].seen \in BOOLEAN
    BY <1>2, AnnUpdates DEF ExceptShown, RecordTypeOK, Beside
  <2>01. rec' \in RecFields
    BY <1>2, <2>0, RecUpdates DEF ExceptShown, RecordTypeOK, SameRec
  <2>1. RecordTypeOK'
    BY <2>0, <2>01, <1>2 DEF ExceptShown, RecordTypeOK
  <2>2. /\ scanLock = a /\ scanLock' = Null /\ program = <<>> /\ ~Active(Db)
        /\ UNCHANGED <<program, user, thread>>
        /\ \A b \in Announcers : ann'[b].step = "show" => b # a /\ ann[b].step = "show"
    BY <1>2 DEF ExceptShown, RecordTypeOK, Announcement, LockInv
  <2>3. LockInv'
    BY <2>2 DEF LockInv, Active
  <2>4. UNCHANGED intrView /\ UNCHANGED oneView /\ SameCalls
        /\ UNCHANGED <<ghost, completions, thread>>
        /\ rec'.pact = rec.pact /\ rec'.sevr = rec.sevr /\ rec'.nsev = rec.nsev
    BY <1>2 DEF ExceptShown, intrView, oneView, SameCalls, Active, RecordTypeOK, RecFields
  <2>5. IntrInv' /\ UndoneInv'
    BY <2>4, IntrFrame, UndoneFrame
  <2>6. OneInv'
    BY <2>4, OneFrame DEF OneInv, Active
  <2> QED  BY <2>1, <2>3, <2>5, <2>6
<1>3. ASSUME NEW a \in Announcers, AnnounceEnd(a) PROVE RecordIInv'
  <2>1. RecordTypeOK'
    BY <1>3 DEF AnnounceEnd, Woken, Silent, RecordTypeOK, Announcement
  <2>2. /\ UNCHANGED lockView /\ UNCHANGED intrView /\ UNCHANGED oneView
        /\ SameCalls /\ SameShows
        /\ ghost'.io = "undone" => ghost.io = "undone"
        /\ rec'.sevr = rec.sevr /\ (rec.nsev > 0 => rec'.nsev > 0)
    BY <1>3 DEF AnnounceEnd, Woken, Silent, lockView, intrView, oneView, SameCalls, SameShows, Active, RecordTypeOK, Announcement
  <2> QED  BY <2>1, <2>2, AllFrames
<1>4. ASSUME NEW p \in Ports, LineChanges(p) PROVE RecordIInv'
  <2>1. RecordTypeOK'
    <3>1. /\ dev \in [Ports -> Port] /\ ann \in [Announcers -> Announcement]
          /\ exceptionActive \in [Ports -> BOOLEAN] /\ dev[p].connected \in BOOLEAN
      BY PortUpdates DEF RecordTypeOK
    <3>2. PICK a \in Announcers, s \in {"lock", "end"} :
            /\ dev' = [dev EXCEPT ![p].connected = ~@]
            /\ exceptionActive' = [exceptionActive EXCEPT ![p] = TRUE]
            /\ ann' = [ann EXCEPT ![a] = [step |-> s, port |-> p, seen |-> FALSE]]
            /\ UNCHANGED <<rec, pvt, user, queue, thread, timer, scanLock, program, seen,
                           completions, scanIo, regs, ghost>>
      BY <1>4 DEF LineChanges, Announce
    <3>3. dev' \in [Ports -> Port]
      BY <3>1, <3>2, PortUpdates
    <3>4. ann' \in [Announcers -> Announcement]
      <4>1. Beside(ann', ann, a)
        BY <3>1, <3>2, AnnUpdates
      <4> QED  BY <4>1 DEF Beside
    <3>5. exceptionActive' \in [Ports -> BOOLEAN]
      BY <3>1, <3>2
    <3> QED  BY <3>2, <3>3, <3>4, <3>5 DEF RecordTypeOK
  <2>2. /\ UNCHANGED lockView /\ UNCHANGED intrView /\ UNCHANGED oneView
        /\ SameCalls /\ SameShows
        /\ ghost'.io = "undone" => ghost.io = "undone"
        /\ rec'.sevr = rec.sevr /\ (rec.nsev > 0 => rec'.nsev > 0)
    BY <1>4 DEF LineChanges, Announce, lockView, intrView, oneView, SameCalls, SameShows, Active, RecordTypeOK, Announcement, Port
  <2> QED  BY <2>1, <2>2, AllFrames
<1>5. ASSUME NEW p \in Ports, NEW b \in BOOLEAN, EnableByOther(p, b) PROVE RecordIInv'
  <2>1. RecordTypeOK'
    <3>1. /\ dev \in [Ports -> Port] /\ ann \in [Announcers -> Announcement]
          /\ exceptionActive \in [Ports -> BOOLEAN] /\ dev[p].connected \in BOOLEAN
      BY PortUpdates DEF RecordTypeOK
    <3>2. PICK a \in Announcers, s \in {"lock", "end"} :
            /\ dev' = [dev EXCEPT ![p].enabled = b]
            /\ exceptionActive' = [exceptionActive EXCEPT ![p] = TRUE]
            /\ ann' = [ann EXCEPT ![a] = [step |-> s, port |-> p, seen |-> FALSE]]
            /\ UNCHANGED <<rec, pvt, user, queue, thread, timer, scanLock, program, seen,
                           completions, scanIo, regs, ghost>>
      BY <1>5 DEF EnableByOther, Announce
    <3>3. dev' \in [Ports -> Port]
      BY <3>1, <3>2, PortUpdates
    <3>4. ann' \in [Announcers -> Announcement]
      <4>1. Beside(ann', ann, a)
        BY <3>1, <3>2, AnnUpdates
      <4> QED  BY <4>1 DEF Beside
    <3>5. exceptionActive' \in [Ports -> BOOLEAN]
      BY <3>1, <3>2
    <3> QED  BY <3>2, <3>3, <3>4, <3>5 DEF RecordTypeOK
  <2>2. /\ UNCHANGED lockView /\ UNCHANGED intrView /\ UNCHANGED oneView
        /\ SameCalls /\ SameShows
        /\ ghost'.io = "undone" => ghost.io = "undone"
        /\ rec'.sevr = rec.sevr /\ (rec.nsev > 0 => rec'.nsev > 0)
    BY <1>5 DEF EnableByOther, Announce, lockView, intrView, oneView, SameCalls, SameShows, Active, RecordTypeOK, Announcement, Port
  <2> QED  BY <2>1, <2>2, AllFrames
<1>6. ASSUME NEW p \in Ports, NEW i \in Ifaces, callbackInterrupt(p, i) PROVE RecordIInv'
  <2>1. RecordTypeOK'
    BY <1>6 DEF callbackInterrupt, RecordTypeOK, asynRecPvt
  <2>2. /\ UNCHANGED lockView /\ UNCHANGED intrView /\ UNCHANGED oneView
        /\ SameCalls /\ SameShows
        /\ ghost'.io = "undone" => ghost.io = "undone"
        /\ rec'.sevr = rec.sevr /\ (rec.nsev > 0 => rec'.nsev > 0)
    BY <1>6 DEF callbackInterrupt, lockView, intrView, oneView, SameCalls, SameShows, Active, RecordTypeOK, asynRecPvt
  <2> QED  BY <2>1, <2>2, AllFrames
<1> QED  BY <1>1, <1>2, <1>3, <1>4, <1>5, <1>6 DEF exceptCallback

\* The queues of the ports and their timers.
LEMMA QueuesKeep ==
    ASSUME RecordIInv,
           \/ \E p \in Blocking : Serve(p) \/ Timeout(p)
           \/ queueTimeoutCallbackProcess \/ queueTimeoutCallbackSpecial
    PROVE  RecordIInv'
<1> USE RecordAssumption, RequestFacts DEF RecordIInv, RecordAssumption, Threads, Announcers
<1>1. ASSUME NEW p \in Blocking, Serve(p) PROVE RecordIInv'
  <2>1. PICK i \in DOMAIN queue[p] :
          /\ thread' = [thread EXCEPT ![p] = [Idle EXCEPT !.step = "act", !.req = queue[p][i]]]
          /\ queue' = [queue EXCEPT ![p] = RemoveAt(@, i)]
    BY <1>1 DEF Serve
  <2>2. /\ queue[p] \in Seq(Requests) /\ queue[p][i] \in Requests
    BY DEF RecordTypeOK
  <2>20. /\ thread[p].step = "wait"
        /\ UNCHANGED <<rec, pvt, user, timer, dev, ann, exceptionActive, scanLock, program,
                       seen, completions, scanIo, regs, ghost>>
    BY <1>1 DEF Serve
  <2>3. /\ RemoveAt(queue[p], i) \in Seq(Requests) /\ Lone(RemoveAt(queue[p], i))
        /\ queue[p][i] = Process => Procs(RemoveAt(queue[p], i)) = {}
        /\ queue[p][i] # Process => (Procs(RemoveAt(queue[p], i)) = {} <=> Procs(queue[p]) = {})
        /\ queue[p][i] = Process => Queued(p)
    BY <2>2, QueueRemoved DEF OneInv, Queued, Procs
  <2>4. /\ queue'[p] = RemoveAt(queue[p], i)
        /\ \A q \in Blocking \ {p} : queue'[q] = queue[q]
        /\ thread'[p].step = "act" /\ thread'[p].req = queue[p][i]
        /\ \A a \in Threads \ {p} : thread'[a] = thread[a]
    BY <2>1 DEF RecordTypeOK, Idle, Call
  <2>5. /\ \A a \in Threads \ {p} : Active(a)' <=> Active(a)
        /\ ~Active(p) /\ (Active(p)' <=> queue[p][i] = Process)
        /\ \A q \in Blocking \ {p} : Queued(q)' <=> Queued(q)
        /\ Queued(p)' <=> Queued(p) /\ queue[p][i] # Process
        /\ \A q \in Blocking : Lone(queue'[q])
        /\ p # Db
    BY <2>2, <2>20, <2>3, <2>4 DEF Active, Queued, OneInv
  <2>6. RecordTypeOK'
    BY <2>1, <2>2, <2>20, <2>3 DEF RecordTypeOK, Idle, Call
  <2>7. LockInv'
    BY <2>2, <2>20, <2>5 DEF LockInv
  <2>8. IntrInv'
    BY <2>20, IntrFrame DEF intrView
  <2>9. OneInv'
    BY <2>2, <2>20, <2>3, <2>4, <2>5 DEF OneInv
  <2>10. UndoneInv'
    BY <2>2, <2>20, <2>4, <2>5 DEF UndoneInv
  <2> QED  BY <2>6, <2>7, <2>8, <2>9, <2>10
<1>2. ASSUME NEW p \in Blocking, Timeout(p) PROVE RecordIInv'
  <2>1. PICK i \in DOMAIN queue[p] :
          /\ timer' = queue[p][i]
          /\ queue' = [queue EXCEPT ![p] = RemoveAt(@, i)]
    BY <1>2 DEF Timeout
  <2>2. /\ timer = Null /\ queue[p] \in Seq(Requests) /\ queue[p][i] \in Requests
        /\ UNCHANGED <<rec, pvt, user, thread, dev, ann, exceptionActive, scanLock, program,
                       seen, completions, scanIo, regs, ghost>>
    BY <1>2 DEF Timeout, RecordTypeOK
  <2>3. /\ RemoveAt(queue[p], i) \in Seq(Requests) /\ Lone(RemoveAt(queue[p], i))
        /\ queue[p][i] = Process => Procs(RemoveAt(queue[p], i)) = {}
        /\ queue[p][i] # Process => (Procs(RemoveAt(queue[p], i)) = {} <=> Procs(queue[p]) = {})
        /\ queue[p][i] = Process => Queued(p)
    BY <2>2, QueueRemoved DEF OneInv, Queued, Procs
  <2>4. /\ queue'[p] = RemoveAt(queue[p], i)
        /\ \A q \in Blocking \ {p} : queue'[q] = queue[q]
    BY <2>1 DEF RecordTypeOK
  <2>5. /\ \A a \in Threads : Active(a)' <=> Active(a)
        /\ \A q \in Blocking \ {p} : Queued(q)' <=> Queued(q)
        /\ Queued(p)' <=> Queued(p) /\ queue[p][i] # Process
        /\ \A q \in Blocking : Lone(queue'[q])
    BY <2>2, <2>3, <2>4 DEF Active, Queued, OneInv
  <2>6. RecordTypeOK'
    BY <2>1, <2>2, <2>3 DEF RecordTypeOK
  <2>7. LockInv' /\ IntrInv' /\ UndoneInv'
    BY <2>2, <2>5, IntrFrame DEF LockInv, intrView, UndoneInv
  <2>9. OneInv'
    BY <2>1, <2>2, <2>3, <2>4, <2>5 DEF OneInv
  <2> QED  BY <2>6, <2>7, <2>9
<1>3. CASE queueTimeoutCallbackProcess
  <2>0. /\ timer = Process /\ timer' = Null /\ completions' = completions + 1
        /\ UNCHANGED <<pvt, user, queue, thread, ann, scanLock, program, regs, ghost>>
        /\ rec'.nsev = 2 /\ rec'.sevr = rec.sevr /\ rec'.pact = rec.pact
        /\ rec'.intr = rec.intr /\ rec'.iface = rec.iface /\ rec'.port = rec.port
    BY <1>3 DEF queueTimeoutCallbackProcess, TimedOut, RecordTypeOK, RecFields
  <2>01. rec' \in RecFields
    BY <1>3, RecUpdates DEF queueTimeoutCallbackProcess, TimedOut, RecordTypeOK, SameRec
  <2>1. RecordTypeOK'
    BY <2>01, <1>3 DEF queueTimeoutCallbackProcess, RecordTypeOK
  <2>2. LockInv' /\ IntrInv'
    BY <2>0, IntrFrame DEF LockInv, intrView, Active
  <2>3. OneInv'
    BY <2>0 DEF OneInv, Queued, Active, RecordTypeOK
  <2>4. UndoneInv'
    BY <2>0 DEF UndoneInv, OneInv, Active
  <2> QED  BY <2>1, <2>2, <2>3, <2>4
<1>4. CASE queueTimeoutCallbackSpecial
  <2>0. /\ timer # Process /\ timer' = Null
        /\ UNCHANGED <<rec, user, queue, thread, ann, scanLock, program, regs, completions>>
        /\ ghost'.io = ghost.io /\ pvt'.node = pvt.node /\ pvt'.bound = pvt.bound
    BY <1>4 DEF queueTimeoutCallbackSpecial, RecordTypeOK, asynRecPvt
  <2>1. RecordTypeOK'
    BY <1>4, <2>0 DEF queueTimeoutCallbackSpecial, RecordTypeOK, asynRecPvt, States
  <2>2. LockInv' /\ IntrInv' /\ UndoneInv'
    BY <2>0, IntrFrame DEF LockInv, intrView, Active, UndoneInv
  <2>3. OneInv'
    BY <2>0 DEF OneInv, Queued, Active
  <2> QED  BY <2>1, <2>2, <2>3
<1> QED  BY <1>1, <1>2, <1>3, <1>4

\* The callbacks of process and of special.
LEMMA CallbacksKeep ==
    ASSUME RecordIInv, NEW a \in Threads, Callback(a)
    PROVE  RecordIInv'
<1> USE DEF RecordIInv, Threads, Announcers, Others, Next_
<1>0. /\ thread[a].req \in Requests
      /\ thread[a].req.kind = "process" <=> thread[a].req = Process
      /\ thread[a].req.kind = "set" => thread[a].req.field \in Fields
  BY ThreadUpdates, RequestFacts DEF RecordTypeOK
<1>p. \/ a \in Blocking /\ a \in Announcers /\ a \in Ports /\ a # Db
      \/ a = Db /\ a \notin Ports /\ a \notin Announcers /\ a \notin Blocking
  BY RecordAssumption DEF RecordAssumption
<1>t. /\ Moved([thread EXCEPT ![a].step = "done"], thread, a)
      /\ [thread EXCEPT ![a].step = "done"][a].step = "done"
      /\ Moved([thread EXCEPT ![a].step = "get"], thread, a)
      /\ Moved([thread EXCEPT ![a].step = "status"], thread, a)
      /\ Moved([thread EXCEPT ![a].step = "status", ![a].ok = FALSE], thread, a)
      /\ \A b \in BOOLEAN : Moved([thread EXCEPT ![a].step = "show", ![a].seen = b], thread, a)
      /\ [thread EXCEPT ![a] = Idle] \in [Threads -> Call]
      /\ thread[a].seen \in BOOLEAN
  <2>1. thread \in [Threads -> Call]
    BY DEF RecordTypeOK
  <2> QED  BY <2>1, ThreadUpdates
<1>a. /\ \A p \in Ports, s \in {"lock", "end"} : a \in Announcers =>
           Beside([ann EXCEPT ![a] = [step |-> s, port |-> p, seen |-> FALSE]], ann, a)
  <2>1. ann \in [Announcers -> Announcement]
    BY DEF RecordTypeOK
  <2> QED  BY <2>1, AnnUpdates
<1>1. CASE performIO(a)
  <2>1. /\ thread[a].step = "act" /\ thread[a].req.kind = "process"
        /\ thread' = [thread EXCEPT ![a].step = "done"]
        /\ UNCHANGED <<pvt, user, queue, timer, scanLock, program, completions, regs, seen, scanIo>>
    BY <1>1 DEF performIO, InCallback
  <2>2. Moved(thread', thread, a) /\ thread[a].req = Process /\ thread'[a].step = "done"
    BY <2>1, <1>0, <1>t
  <2>3. /\ \A b \in Threads : Active(b)' <=> Active(b)
        /\ thread' \in [Threads -> Call]
    BY <2>1, <2>2 DEF Active, Moved
  <2>4. /\ SameRec(rec', rec) /\ ghost'.io \in Outcomes
        /\ dev' \in [Ports -> Port] /\ ann' \in [Announcers -> Announcement]
        /\ exceptionActive' \in [Ports -> BOOLEAN]
        /\ ghost'.io = "undone" => ghost.io = "undone" /\ rec'.nsev > 0
        /\ SameShows
    <3>0. /\ ghost.io \in Outcomes /\ dev \in [Ports -> Port]
          /\ ann \in [Announcers -> Announcement] /\ exceptionActive \in [Ports -> BOOLEAN]
      BY DEF RecordTypeOK
    <3>1. CASE Performed
      <4>1. ghost'.io = "done" /\ UNCHANGED <<rec, dev, ann, exceptionActive>>
        BY <3>1 DEF Performed
      <4> QED  BY <4>1, <3>0, StateUpdates DEF SameShows, Outcomes
    <3>2. CASE PerformFails
      <4>1. rec' = [rec EXCEPT !.nsev = 2] /\ UNCHANGED <<dev, ann, exceptionActive, ghost>>
        BY <3>2 DEF PerformFails
      <4>2. SameRec(rec', rec) /\ rec'.nsev = 2
        BY <4>1, StateUpdates
      <4> QED  BY <4>1, <4>2, <3>0 DEF SameShows
    <3>4. CASE performOctetIO
      <4>1. ghost'.io = "unwritten" /\ UNCHANGED <<rec, dev, ann, exceptionActive>>
        BY <3>4 DEF performOctetIO
      <4> QED  BY <4>1, <3>0, StateUpdates DEF SameShows, Outcomes
    <3>3. CASE DriverDisconnects(a)
      <4>1. a \in Ports /\ a \in Announcers
        <5>1. pvt.bound = a
          BY <3>3 DEF DriverDisconnects
        <5> QED  BY <5>1, <1>p, StateUpdates
      <4>2. /\ rec' = [rec EXCEPT !.nsev = 2] /\ UNCHANGED ghost
            /\ dev' = [dev EXCEPT ![a].connected = FALSE]
            /\ exceptionActive' = [exceptionActive EXCEPT ![a] = TRUE]
            /\ \E s \in {"lock", "end"} :
                  ann' = [ann EXCEPT ![a] = [step |-> s, port |-> a, seen |-> FALSE]]
        BY <3>3 DEF DriverDisconnects, Announce
      <4>3. SameRec(rec', rec) /\ rec'.nsev = 2
        BY <4>2, StateUpdates
      <4>4. dev' \in [Ports -> Port] /\ exceptionActive' \in [Ports -> BOOLEAN]
        BY <4>1, <4>2, <3>0, PortUpdates
      <4>5. Beside(ann', ann, a)
        BY <4>1, <4>2, <1>a
      <4>6. ann' \in [Announcers -> Announcement] /\ SameShows
        BY <4>1, <4>5, OtherShow DEF Beside
      <4> QED  BY <4>2, <4>3, <4>4, <4>6, <3>0
    <3> QED  BY <1>1, <3>1, <3>2, <3>3, <3>4 DEF performIO
  <2>5. RecordTypeOK'
    BY <2>1, <2>3, <2>4 DEF RecordTypeOK, SameRec
  <2>6. UNCHANGED lockView /\ UNCHANGED intrView /\ UNCHANGED oneView
    BY <2>1, <2>4 DEF lockView, intrView, oneView, SameRec
  <2>7. LockInv' /\ IntrInv'
    BY <2>3, <2>4, <2>6, LockFrame, IntrFrame
  <2>8. OneInv'
    <3>1. \A b \in Threads : Active(b)' => thread'[b].step \in {"act", "done"}
      BY <2>2, <2>3 DEF OneInv, Moved
    <3> QED  BY <2>3, <2>6, <3>1, OneFrame
  <2>9. UndoneInv'
    BY <2>1, <2>3, <2>4 DEF UndoneInv, SameRec
  <2> QED  BY <2>5, <2>7, <2>8, <2>9
<1>2. CASE asynCallbackProcess(a)
  <2>1. /\ thread[a].step = "done" /\ thread[a].req.kind = "process"
        /\ thread' = [thread EXCEPT ![a] = Idle]
        /\ completions' = IF user.port \in Blocking THEN completions + 1 ELSE completions
        /\ UNCHANGED <<queue, timer, dev, ann, exceptionActive, program, seen, scanIo, regs, ghost>>
    BY <1>2 DEF asynCallbackProcess, InCallback, CallsBack
  <2>2. /\ Active(a) /\ ~Active(a)'
        /\ thread'[a].step = "wait"
        /\ \A b \in Threads \ {a} : thread'[b] = thread[b] /\ (Active(b)' <=> Active(b))
        /\ thread' \in [Threads -> Call]
    <3>1. thread' \in [Threads -> Call]
      BY <2>1, <1>t
    <3>2. thread'[a] = Idle /\ \A b \in Threads \ {a} : thread'[b] = thread[b]
      BY <2>1 DEF RecordTypeOK
    <3> QED  BY <1>0, <2>1, <3>1, <3>2 DEF Active, Idle
  <2>3. CASE a = Db
    <3>1. /\ rec' = Finish(rec) /\ pvt' = [pvt EXCEPT !.gotValue = FALSE]
          /\ scanLock' = Null /\ UNCHANGED user
      BY <1>2, <2>3 DEF asynCallbackProcess
    <3>01. /\ completions' = completions /\ scanLock = Db /\ program = <<>>
           /\ ~rec.pact /\ user.port \notin Blocking
      BY <2>1, <2>2, <2>3 DEF LockInv
    <3>02. rec \in RecFields
      BY DEF RecordTypeOK
    <3>2. /\ rec' \in RecFields /\ SamePvt(pvt', pvt)
          /\ rec'.pact = FALSE /\ rec'.sevr = rec.nsev
          /\ rec'.intr = rec.intr /\ rec'.iface = rec.iface /\ rec'.port = rec.port
      BY <3>1, <3>02, FinishRec, StateUpdates
    <3>3. RecordTypeOK'
      BY <2>1, <2>2, <3>1, <3>01, <3>2 DEF RecordTypeOK, SamePvt
    <3>4. LockInv'
      BY <1>p, <2>1, <2>2, <2>3, <3>1, <3>01, <3>2 DEF LockInv
    <3>5. IntrInv'
      BY <2>1, <3>1, <3>01, <3>2 DEF IntrInv, InProgram, SamePvt
    <3>6. OneInv'
      BY <1>p, <2>1, <2>2, <2>3, <3>1, <3>01, <3>2 DEF OneInv, Queued
    <3>7. UndoneInv'
      BY <1>p, <2>1, <2>2, <2>3, <3>1, <3>01, <3>2 DEF UndoneInv, OneInv
    <3> QED  BY <3>3, <3>4, <3>5, <3>6, <3>7
  <2>4. CASE a \in Blocking
    <3>1. /\ user' = [user EXCEPT !.canceled = FALSE] /\ UNCHANGED <<rec, pvt, scanLock>>
          /\ user.port = a /\ rec.pact /\ completions = 0 /\ completions' = 1
          /\ ~Queued(a) /\ timer # Process
      <4>1. /\ user' = [user EXCEPT !.canceled = FALSE] /\ UNCHANGED <<rec, pvt, scanLock>>
        BY <1>2, <2>4, <1>p DEF asynCallbackProcess
      <4>2. /\ user.port = a /\ rec.pact /\ completions = 0
            /\ ~Queued(a) /\ timer # Process
        BY <2>2, <2>4 DEF OneInv
      <4> QED  BY <2>1, <2>4, <4>1, <4>2
    <3>2. user' \in asynUser /\ user'.port = user.port
      BY <3>1, UserUpdates DEF RecordTypeOK
    <3>3. RecordTypeOK'
      BY <2>1, <2>2, <3>1, <3>2 DEF RecordTypeOK
    <3>4. LockInv'
      BY <1>p, <2>1, <2>2, <2>4, <3>1, <3>2 DEF LockInv
    <3>5. IntrInv'
      BY <2>1, <3>1, <3>2, IntrFrame DEF intrView
    <3>6. OneInv'
      <4>1. \A p \in Blocking : Queued(p)' <=> Queued(p)
        BY <2>1 DEF Queued
      <4>2. \A p \in Blocking : ~Queued(p) /\ ~Active(p)'
        BY <2>2, <2>4, <3>1 DEF OneInv
      <4>3. ~Active(Db)
        BY <3>1 DEF LockInv
      <4> QED  BY <2>1, <2>2, <2>4, <3>1, <3>2, <4>1, <4>2, <4>3 DEF OneInv
    <3>7. UndoneInv'
      BY <2>1, <2>2, <2>4, <3>1, <3>2 DEF UndoneInv, OneInv
    <3> QED  BY <3>3, <3>4, <3>5, <3>6, <3>7
  <2> QED  BY <1>0, <2>3, <2>4
<1>3. CASE setOption(a)
  <2>1. Moved(thread', thread, a) /\ thread[a].req # Process
    BY <1>0, <1>t, <1>3 DEF setOption, InCallback
  <2>2. SameRec(rec', rec) /\ dev' \in [Ports -> Port]
    <3> DEFINE f == thread[a].req.field
    <3>1. rec' = rec \/ rec' = [rec EXCEPT !.nsev = 2]
      BY <1>3 DEF setOption
    <3>2. thread[a].req.kind = "set"
      BY <1>3 DEF setOption, InCallback
    <3>3. f \in Fields /\ rec.opt[f] \in Values \cup {Null} /\ dev[pvt.bound].opt[f] \in Values \cup {Null}
      BY <1>0, <3>2, StateUpdates
    <3>4. \/ dev' = dev
          \/ \E v \in {rec.opt[f], dev[pvt.bound].opt[f]} :
                dev' = [dev EXCEPT ![pvt.bound].opt[f] = v]
      BY <1>3 DEF setOption
    <3>5. dev \in [Ports -> Port] /\ pvt.bound \in Ports
      BY StateUpdates DEF RecordTypeOK
    <3>6. SameRec(rec', rec)
      BY <3>1, StateUpdates
    <3> HIDE DEF f
    <3>7. dev' \in [Ports -> Port]
      <4>1. CASE dev' = dev
        BY <3>5, <4>1
      <4>2. ASSUME NEW v \in Values \cup {Null},
                   dev' = [dev EXCEPT ![pvt.bound].opt[f] = v]
            PROVE  dev' \in [Ports -> Port]
        <5>1. [dev EXCEPT ![pvt.bound].opt[f] = v] \in [Ports -> Port]
          BY <3>3, <3>5, PortUpdates
        <5> QED  BY <4>2, <5>1
      <4> QED  BY <3>3, <3>4, <4>1, <4>2
    <3> QED  BY <3>6, <3>7
  <2>3. SamePvt(pvt', pvt) /\ SameShows /\ ghost'.io = ghost.io
    BY <1>3, StateUpdates DEF setOption, SameShows
  <2>4. RecordTypeOK'
    BY <2>1, <2>2, <2>3, <1>3 DEF setOption, RecordTypeOK, Moved, SameRec, SamePvt
  <2>5. /\ UNCHANGED <<queue, timer, completions, scanLock, program, regs>>
        /\ user' = user
    BY <1>3 DEF setOption
  <2>6. SameCalls
    BY <2>1, OtherCall
  <2> QED  BY <2>2, <2>3, <2>4, <2>5, <2>6, QuietStep
<1>4. CASE getOptions(a)
  <2>1. Moved(thread', thread, a) /\ thread[a].req # Process
    BY <1>0, <1>t, <1>4 DEF getOptions, InCallback
  <2>2. SameRec(rec', rec)
    <3> DEFINE r == thread[a].req
               shown == IF r.kind = "getEos" \/ r.field \in EosFields
                        THEN EosFields ELSE Fields \ EosFields
               o == [f \in Fields |-> IF f \notin shown THEN rec.opt[f]
                      ELSE IF Has(IfaceOf(f)) THEN dev[pvt.bound].opt[f]
                      ELSE IF f \in EosFields THEN Null ELSE rec.opt[f]]
    <3>1. rec' = [rec EXCEPT !.opt = o]
      BY <1>4 DEF getOptions
    <3>2. rec.opt \in [Fields -> Values \cup {Null}] /\ dev[pvt.bound].opt \in [Fields -> Values \cup {Null}]
      BY StateUpdates
    <3> HIDE DEF shown
    <3>3. o \in [Fields -> Values \cup {Null}]
      BY <3>2
    <3> HIDE DEF o
    <3> QED  BY <3>1, <3>3, StateUpdates
  <2>3. SamePvt(pvt', pvt) /\ SameShows /\ ghost'.io = ghost.io
    BY <1>4, StateUpdates DEF getOptions, SameShows
  <2>4. RecordTypeOK'
    BY <2>1, <2>2, <2>3, <1>4 DEF getOptions, RecordTypeOK, Moved, SameRec, SamePvt
  <2>5. /\ UNCHANGED <<queue, timer, completions, scanLock, program, regs>>
        /\ user' = user
    BY <1>4 DEF getOptions
  <2>6. SameCalls
    BY <2>1, OtherCall
  <2> QED  BY <2>2, <2>3, <2>4, <2>5, <2>6, QuietStep
<1>5. CASE callbackConnect(a)
  <2>1. Moved(thread', thread, a) /\ thread[a].req # Process
    BY <1>0, <1>t, <1>5 DEF callbackConnect, InCallback
  <2>2. /\ dev' \in [Ports -> Port] /\ exceptionActive' \in [Ports -> BOOLEAN]
        /\ ann' = ann \/ (a \in Announcers /\ Beside(ann', ann, a))
        /\ SameRec(rec', rec)
    <3>0. /\ dev \in [Ports -> Port] /\ exceptionActive \in [Ports -> BOOLEAN]
          /\ rec.cnct \in BOOLEAN /\ pvt.bound \in Ports /\ SameRec(rec, rec)
      BY StateUpdates DEF RecordTypeOK
    <3>1. rec' = rec
      BY <1>5 DEF callbackConnect
    <3>2. CASE UNCHANGED <<dev, ann, exceptionActive>>
      <4>1. dev' = dev /\ ann' = ann /\ exceptionActive' = exceptionActive
        BY <3>2
      <4> QED  BY <3>0, <3>1, <4>1
    <3>3. CASE ~UNCHANGED <<dev, ann, exceptionActive>>
      <4>1. /\ dev' = [dev EXCEPT ![pvt.bound].connected = rec.cnct]
            /\ IF a = Db
               THEN /\ exceptionActive' = [exceptionActive EXCEPT ![pvt.bound] = FALSE]
                    /\ ann' = ann
               ELSE Announce(a, pvt.bound)
        BY <1>5, <3>3 DEF callbackConnect
      <4>2. dev' \in [Ports -> Port]
        BY <3>0, <4>1, PortUpdates
      <4>3. exceptionActive' \in [Ports -> BOOLEAN]
        BY <3>0, <4>1 DEF Announce
      <4>4. a # Db => \E s \in {"lock", "end"} :
               ann' = [ann EXCEPT ![a] = [step |-> s, port |-> pvt.bound, seen |-> FALSE]]
        BY <4>1 DEF Announce
      <4>5. ann' = ann \/ (a \in Announcers /\ Beside(ann', ann, a))
        BY <1>p, <1>a, <3>0, <4>1, <4>4
      <4> QED  BY <3>0, <3>1, <4>2, <4>3, <4>5
    <3> QED  BY <3>2, <3>3
  <2>3. /\ SamePvt(pvt', pvt) /\ SameShows /\ ghost'.io = ghost.io
        /\ ann' \in [Announcers -> Announcement]
    <3>1. SamePvt(pvt', pvt) /\ ghost'.io = ghost.io
      BY <1>5, StateUpdates DEF callbackConnect
    <3>2. CASE UNCHANGED ann
      BY <3>1, <3>2 DEF SameShows, RecordTypeOK
    <3>3. CASE a \in Announcers /\ Beside(ann', ann, a)
      <4>1. SameShows
        BY <3>3, OtherShow
      <4> QED  BY <3>1, <3>3, <4>1 DEF Beside
    <3> QED  BY <2>2, <3>2, <3>3
  <2>4. RecordTypeOK'
    BY <2>1, <2>2, <2>3, <1>5 DEF callbackConnect, RecordTypeOK, Moved, SameRec, SamePvt
  <2>5. /\ UNCHANGED <<queue, timer, completions, scanLock, program, regs>>
        /\ user' = user
    BY <1>5 DEF callbackConnect
  <2>6. SameCalls
    BY <2>1, OtherCall
  <2> QED  BY <2>2, <2>3, <2>4, <2>5, <2>6, QuietStep
<1>6. CASE SpecialStatus(a)
  <2>1. Moved(thread', thread, a) /\ thread[a].req # Process
    <3>1. Connected \in BOOLEAN /\ thread[a].step = "status"
      BY <1>6, StateUpdates DEF SpecialStatus
    <3>2. Moved(thread', thread, a)
      BY <1>t, <1>6, <3>1 DEF SpecialStatus
    <3> QED  BY <3>1, <3>2 DEF OneInv, Active
  <2>2. SameRec(rec', rec)
    BY <1>6, StateUpdates DEF SpecialStatus
  <2>3. SamePvt(pvt', pvt) /\ SameShows /\ ghost'.io = ghost.io
    BY <1>6, StateUpdates DEF SpecialStatus, SameShows
  <2>4. RecordTypeOK'
    BY <2>1, <2>2, <2>3, <1>6 DEF SpecialStatus, RecordTypeOK, Moved, SameRec, SamePvt
  <2>5. /\ UNCHANGED <<queue, timer, completions, scanLock, program, regs>>
        /\ user' = user
    BY <1>6 DEF SpecialStatus
  <2>6. SameCalls
    BY <2>1, OtherCall
  <2> QED  BY <2>2, <2>3, <2>4, <2>5, <2>6, QuietStep
<1>7. CASE SpecialDone(a)
  <2>0. thread[a].req # Process /\ thread[a].step = "show"
    BY <1>7 DEF SpecialDone, OneInv, Active
  <2>1. thread' \in [Threads -> Call] /\ SameCalls
    <3>1. thread' = [thread EXCEPT ![a] = Idle] /\ thread \in [Threads -> Call]
      BY <1>7 DEF SpecialDone, RecordTypeOK
    <3>2. thread'[a].step = "wait" /\ \A b \in Threads \ {a} : thread'[b] = thread[b]
      BY <3>1 DEF Idle
    <3> QED  BY <1>t, <2>0, <3>1, <3>2 DEF SameCalls, Active
  <2>2. SameRec(rec', rec)
    BY <1>7, <1>t, StateUpdates DEF SpecialDone
  <2>3. SamePvt(pvt', pvt) /\ ghost'.io = ghost.io
    <3>1. pvt' = pvt \/ pvt' = [pvt EXCEPT !.state = "stateIdle"]
      BY <1>7 DEF SpecialDone
    <3>2. "stateIdle" \in States /\ ghost'.io = ghost.io
      BY <1>7 DEF SpecialDone, States
    <3> QED  BY <3>1, <3>2, StateUpdates
  <2>4. RecordTypeOK'
    BY <2>1, <2>2, <2>3, <1>7 DEF SpecialDone, RecordTypeOK, SameRec, SamePvt
  <2>5. /\ UNCHANGED <<user, queue, timer, completions, scanLock, program, regs>>
        /\ SameShows
    BY <1>7 DEF SpecialDone, SameShows
  <2> QED  BY <2>1, <2>2, <2>3, <2>4, <2>5, QuietStep
<1> QED  BY <1>1, <1>2, <1>3, <1>4, <1>5, <1>6, <1>7 DEF Callback, asynCallbackSpecial

\* process, by whoever calls it: it ends what was under way, or begins.
LEMMA ProcessEnds ==
    ASSUME RecordIInv, DbFree, ProcessEnd, completions > 0, completions' = completions - 1,
           UNCHANGED <<program, seen, scanIo, regs>>
    PROVE  RecordIInv'
<1> USE DEF RecordIInv
<1>1. /\ completions = 1 /\ completions' = 0 /\ rec.pact /\ timer # Process
      /\ \A p \in Blocking : ~Queued(p) /\ ~Active(p)
  BY DEF OneInv
<1>2. /\ rec' = Finish(rec) /\ UNCHANGED <<user, queue, thread, timer, dev, ann, exceptionActive>>
      /\ pvt' = [pvt EXCEPT !.state = "stateIdle", !.gotValue = FALSE]
      /\ UNCHANGED <<scanLock, ghost>> /\ program = <<>>
  BY DEF ProcessEnd, manager, DbFree
<1>3. /\ rec' \in RecFields /\ SamePvt(pvt', pvt)
      /\ rec'.pact = FALSE /\ rec'.sevr = rec.nsev
      /\ rec'.intr = rec.intr /\ rec'.iface = rec.iface /\ rec'.port = rec.port
  <2>1. rec \in RecFields /\ pvt \in asynRecPvt /\ "stateIdle" \in States
    BY DEF RecordTypeOK, States
  <2> QED  BY <1>2, <2>1, FinishRec, PvtUpdates
<1>4. RecordTypeOK'
  BY <1>1, <1>2, <1>3 DEF RecordTypeOK, SamePvt
<1>5. LockInv'
  BY <1>1, <1>2, <1>3 DEF LockInv, Active
<1>6. IntrInv'
  BY <1>2, <1>3 DEF IntrInv, InProgram, SamePvt
<1>7. OneInv'
  <2>1. \A p \in Blocking : ~Queued(p)' /\ ~Active(p)'
    BY <1>1, <1>2 DEF Queued, Active
  <2>2. ~Active(Db)'
    BY <1>1, <1>2 DEF LockInv, Active
  <2> QED  BY <1>1, <1>2, <1>3, <2>1, <2>2 DEF OneInv, Threads
<1>8. UndoneInv'
  BY <1>1, <1>2, <1>3 DEF UndoneInv, LockInv, Active, Threads
<1> QED  BY <1>4, <1>5, <1>6, <1>7, <1>8

LEMMA ProcessBegins ==
    ASSUME RecordIInv, DbFree, ~rec.pact, process, completions' = completions,
           scanIo' \in BOOLEAN, UNCHANGED <<program, seen, regs>>
    PROVE  RecordIInv'
<1> USE DEF RecordIInv
<1>1. /\ completions = 0 /\ timer # Process /\ ~Active(Db) /\ program = <<>> /\ scanLock = Null
      /\ \A p \in Blocking : ~Queued(p) /\ ~Active(p)
      /\ \A a \in Announcers : ann[a].step # "show"
  <2>1. Null \notin Announcers /\ Null # Db
    BY RecordAssumption DEF RecordAssumption, Announcers
  <2> QED  BY <2>1 DEF OneInv, LockInv, DbFree, RecordTypeOK
<1>p. Blocking \subseteq Ports /\ Db \notin Ports /\ Db \notin Announcers /\ Null \notin Ports
  BY RecordAssumption DEF RecordAssumption, Announcers
<1>2. CASE ProcessValue \/ ProcessRefused
  <2>1. /\ UNCHANGED <<user, queue, thread, timer, dev, ann, exceptionActive, scanLock>>
        /\ pvt' = [pvt EXCEPT !.gotValue = FALSE]
        /\ \/ rec' = Finish(rec) /\ ghost'.io = "done"
           \/ /\ rec' = Finish([rec EXCEPT !.nsev = IF rec.nsev > 1 THEN rec.nsev ELSE 1])
              /\ ghost'.io = "undone"
    <3>1. CASE ProcessValue
      BY <3>1 DEF ProcessValue, manager
    <3>2. CASE ProcessRefused
      BY <3>2 DEF ProcessRefused, manager
    <3> QED  BY <1>2, <3>1, <3>2
  <2>2. /\ rec' \in RecFields /\ SamePvt(pvt', pvt) /\ ghost'.io \in Outcomes
        /\ rec'.pact = FALSE /\ (ghost'.io = "undone" => rec'.sevr > 0)
        /\ rec'.intr = rec.intr /\ rec'.iface = rec.iface /\ rec'.port = rec.port
    <3> DEFINE r == [rec EXCEPT !.nsev = IF rec.nsev > 1 THEN rec.nsev ELSE 1]
    <3>1. rec \in RecFields
      BY DEF RecordTypeOK
    <3>2. r \in RecFields /\ r.nsev > 0 /\ r.intr = rec.intr /\ r.iface = rec.iface /\ r.port = rec.port
      BY <3>1 DEF RecFields
    <3> HIDE DEF r
    <3>3. SamePvt(pvt', pvt)
      BY <2>1, StateUpdates
    <3>4. CASE rec' = Finish(rec) /\ ghost'.io = "done"
      BY <3>1, <3>3, <3>4, FinishRec DEF Outcomes
    <3>5. CASE rec' = Finish(r) /\ ghost'.io = "undone"
      BY <3>2, <3>3, <3>5, FinishRec DEF Outcomes
    <3> QED  BY <2>1, <3>4, <3>5 DEF r
  <2>3. RecordTypeOK'
    BY <2>1, <2>2, <1>1 DEF RecordTypeOK, SamePvt
  <2>4. LockInv'
    BY <1>1, <2>1, <2>2 DEF LockInv, Active
  <2>5. IntrInv'
    BY <1>1, <2>1, <2>2 DEF IntrInv, InProgram, SamePvt
  <2>6. OneInv'
    <3>1. \A p \in Blocking : ~Queued(p)' /\ ~Active(p)'
      BY <1>1, <2>1 DEF Queued, Active
    <3>2. ~Active(Db)'
      BY <1>1, <2>1 DEF Active
    <3> QED  BY <1>1, <2>1, <2>2, <3>1, <3>2 DEF OneInv, Threads
  <2>7. UndoneInv'
    BY <1>1, <2>1, <2>2 DEF UndoneInv, Active, Threads
  <2> QED  BY <2>3, <2>4, <2>5, <2>6, <2>7
<1>3. CASE ProcessQueue /\ user.port \in Blocking
  <2> DEFINE p == user.port
  <2>1. /\ queue' = [queue EXCEPT ![p] = Append(@, Process)]
        /\ pvt' = [pvt EXCEPT !.state = "stateIO"] /\ rec' = [rec EXCEPT !.pact = TRUE]
        /\ UNCHANGED <<user, thread, timer, dev, ann, exceptionActive, scanLock>>
        /\ ghost'.io = "undone"
    BY <1>3 DEF ProcessQueue, RecordTypeOK
  <2>2. /\ rec' \in RecFields /\ SamePvt(pvt', pvt)
        /\ rec'.pact = TRUE
        /\ rec'.intr = rec.intr /\ rec'.iface = rec.iface /\ rec'.port = rec.port
    <3>1. rec \in RecFields
      BY DEF RecordTypeOK
    <3>2. /\ rec' \in RecFields /\ rec'.pact = TRUE
          /\ rec'.intr = rec.intr /\ rec'.iface = rec.iface /\ rec'.port = rec.port
      BY <2>1, <3>1 DEF RecFields
    <3>3. SamePvt(pvt', pvt)
      BY <2>1, StateUpdates DEF States
    <3> QED  BY <3>2, <3>3
  <2>3. /\ Append(queue[p], Process) \in Seq(Requests)
        /\ Lone(Append(queue[p], Process)) /\ Procs(Append(queue[p], Process)) # {}
    <3>1. queue[p] \in Seq(Requests) /\ Lone(queue[p]) /\ Procs(queue[p]) = {}
      BY <1>1, <1>3 DEF RecordTypeOK, OneInv, Queued
    <3> QED  BY <3>1, QueueAppended, RequestFacts
  <2>4. /\ queue' \in [Blocking -> Seq(Requests)]
        /\ Queued(p)' /\ Lone(queue'[p])
        /\ \A q \in Blocking \ {p} : Lone(queue'[q]) /\ ~Queued(q)'
    BY <1>1, <1>3, <2>1, <2>3 DEF RecordTypeOK, OneInv, Queued
  <2>5. \A a \in Threads : ~Active(a)'
    BY <1>1, <2>1 DEF Active, Threads
  <2>6. RecordTypeOK'
    BY <2>1, <2>2, <2>4, <1>1 DEF RecordTypeOK, SamePvt, Outcomes
  <2>7. LockInv'
    BY <1>1, <2>1, <2>5 DEF LockInv, Threads
  <2>8. IntrInv'
    BY <1>1, <2>1, <2>2 DEF IntrInv, InProgram, SamePvt
  <2>9. OneInv'
    BY <1>1, <1>3, <2>1, <2>2, <2>4, <2>5 DEF OneInv, Threads
  <2>10. UndoneInv'
    BY <1>1, <2>2, <2>5 DEF UndoneInv, Threads
  <2> QED  BY <2>6, <2>7, <2>8, <2>9, <2>10
<1>4. CASE ProcessQueue /\ user.port \notin Blocking
  <2>1. /\ thread' = [thread EXCEPT ![Db] = [Idle EXCEPT !.step = "act", !.req = Process]]
        /\ scanLock' = Db
        /\ UNCHANGED <<rec, pvt, queue, user, timer, dev, ann, exceptionActive>>
        /\ ghost'.io = "undone"
    BY <1>4 DEF ProcessQueue, RecordTypeOK
  <2>2. thread' \in [Threads -> Call]
    BY <2>1, ThreadUpdates, RequestFacts DEF RecordTypeOK, Threads
  <2>3. /\ thread'[Db].step = "act" /\ Active(Db)'
        /\ \A p \in Blocking : thread'[p] = thread[p] /\ ~Active(p)'
    BY <1>1, <1>p, <2>1 DEF RecordTypeOK, Threads, Idle, Active
  <2>4. RecordTypeOK'
    BY <2>1, <2>2, <1>1 DEF RecordTypeOK, Threads, Outcomes
  <2>5. LockInv'
    BY <1>1, <1>4, <2>1 DEF LockInv
  <2>6. IntrInv'
    BY <1>1, <2>1 DEF IntrInv, InProgram
  <2>7. OneInv'
    <3>1. \A p \in Blocking : ~Queued(p)'
      BY <1>1, <2>1 DEF Queued
    <3> QED  BY <1>1, <2>1, <2>3, <3>1 DEF OneInv, Threads
  <2>8. UndoneInv'
    BY <1>1, <2>1, <2>3 DEF UndoneInv, Threads
  <2> QED  BY <2>4, <2>5, <2>6, <2>7, <2>8
<1> QED  BY <1>2, <1>3, <1>4 DEF process, ProcessEnd

LEMMA ProcessingKeeps ==
    ASSUME RecordIInv, Scan \/ ScanIoIntr \/ ProcessCallback
    PROVE  RecordIInv'
<1>1. CASE Scan
  <2>1. /\ DbFree /\ ~rec.pact /\ process /\ completions' = completions
        /\ UNCHANGED <<program, seen, scanIo, regs>>
    BY <1>1 DEF Scan
  <2>2. scanIo' \in BOOLEAN
    BY <2>1 DEF RecordIInv, RecordTypeOK
  <2> QED  BY <2>1, <2>2, ProcessBegins
<1>2. CASE ScanIoIntr
  <2>1. DbFree /\ scanIo' = FALSE /\ UNCHANGED <<program, seen, completions, regs>>
    BY <1>2 DEF ScanIoIntr
  <2>2. CASE rec.intr /\ ~rec.pact
    <3>1. process
      BY <1>2, <2>2 DEF ScanIoIntr
    <3> QED  BY <2>1, <2>2, <3>1, ProcessBegins
  <2>3. CASE ~(rec.intr /\ ~rec.pact)
    <3>1. UNCHANGED <<rec, pvt, user, queue, thread, timer, dev, ann, exceptionActive, scanLock, ghost>>
      BY <1>2, <2>3 DEF ScanIoIntr, manager
    <3>2. RecordTypeOK'
      BY <2>1, <3>1 DEF RecordTypeOK, RecordIInv
    <3>3. SameRec(rec', rec) /\ SamePvt(pvt', pvt)
      BY <3>1, StateUpdates DEF RecordIInv
    <3>4. SameCalls /\ SameShows
      BY <3>1 DEF SameCalls, SameShows, Active
    <3> QED  BY <2>1, <3>1, <3>2, <3>3, <3>4, QuietStep
  <2> QED  BY <2>2, <2>3
<1>3. CASE ProcessCallback
  <2>1. /\ DbFree /\ completions > 0 /\ completions' = completions - 1 /\ process
        /\ UNCHANGED <<program, seen, scanIo, regs>>
    BY <1>3 DEF ProcessCallback
  <2>2. rec.pact
    BY <2>1 DEF RecordIInv, OneInv
  <2>3. ProcessEnd
    BY <2>1, <2>2 DEF process, ProcessValue, ProcessQueue, ProcessRefused
  <2> QED  BY <2>1, <2>3, ProcessEnds
<1> QED  BY <1>1, <1>2, <1>3

-----------------------------------------------------------------------------
\* What special has to do after a put: its last step gives the scan lock back.
Within(s, x) == \E i \in DOMAIN s : s[i] = x
Ends(s) == /\ s \in Seq(Steps \cup Fields) /\ s # <<>>
           /\ \A i \in DOMAIN s : s[i] \in {"canceled", "unlock"} => i = Len(s)
Plain(s) == ~Within(s, "passive") /\ ~Within(s, "connect") /\ ~Within(s, "disconnect")

LEMMA Joined ==
    ASSUME NEW a \in Seq(Steps), NEW t \in Seq(Steps), Len(a) = 11
    PROVE  /\ a \o t \in Seq(Steps) /\ DOMAIN (a \o t) = 1..11 + Len(t)
           /\ Len(a \o t) = 11 + Len(t)
           /\ \A i \in 1..11 : (a \o t)[i] = a[i]
           /\ \A i \in 1..11 + Len(t) :
                i > 11 => i - 11 \in 1..Len(t) /\ (a \o t)[i] = t[i - 11]
<1>1. Len(t) \in Nat /\ \A i \in 1..11 + Len(t) : i > 11 => i - 11 \in 1..Len(t)
  BY LenProperties
<1> DEFINE s == a \o t
<1>2. /\ s \in Seq(Steps) /\ Len(s) = Len(a) + Len(t)
      /\ \A i \in 1..Len(a) + Len(t) : s[i] = IF i <= Len(a) THEN a[i] ELSE t[i - Len(a)]
  BY ConcatProperties
<1> HIDE DEF s
<1>3. DOMAIN s = 1..Len(s)
  BY <1>2, LenProperties
<1>4. /\ \A i \in 1..11 : s[i] = a[i]
      /\ \A i \in 1..11 + Len(t) : i > 11 => s[i] = t[i - 11]
  BY <1>1, <1>2
<1> QED  BY <1>1, <1>2, <1>3, <1>4 DEF s

LEMMA ConnectPrograms ==
    ASSUME NEW t \in {<<"state", "unlock">>, <<"unlock">>}
    PROVE  /\ Ends(connectDevice \o t)
           /\ Within(connectDevice \o t, "connect") /\ Within(connectDevice \o t, "passive")
           /\ ~Within(connectDevice \o t, "disconnect")
<1> DEFINE s == connectDevice \o t
<1>1. /\ connectDevice \in Seq(Steps) /\ Len(connectDevice) = 11
      /\ connectDevice[2] = "connect" /\ connectDevice[9] = "passive"
      /\ \A i \in 1..11 : connectDevice[i] \notin {"disconnect", "canceled", "unlock"}
  BY DEF connectDevice, Steps
<1>2. /\ t \in Seq(Steps) /\ Len(t) \in 1..2
      /\ \A i \in 1..Len(t) : /\ t[i] # "disconnect"
                              /\ t[i] \in {"canceled", "unlock"} => i = Len(t)
  <2>1. CASE t = <<"unlock">>
    BY <2>1 DEF Steps
  <2>2. CASE t = <<"state", "unlock">>
    <3>1. t \in Seq(Steps) /\ Len(t) = 2 /\ t[1] = "state" /\ t[2] = "unlock"
      BY <2>2 DEF Steps
    <3> QED  BY <3>1
  <2> QED  BY <2>1, <2>2
<1>3. /\ s \in Seq(Steps) /\ Len(s) = 11 + Len(t) /\ DOMAIN s = 1..11 + Len(t)
      /\ \A i \in 1..11 : s[i] = connectDevice[i]
      /\ \A i \in 1..11 + Len(t) : i > 11 => i - 11 \in 1..Len(t) /\ s[i] = t[i - 11]
  BY <1>1, <1>2, Joined
<1> HIDE DEF s
<1>4. /\ DOMAIN s = 1..11 + Len(t) /\ Len(t) \in Nat
      /\ \A i \in DOMAIN s : /\ s[i] # "disconnect"
                             /\ s[i] \in {"canceled", "unlock"} => i = Len(s)
  <2>1. ASSUME NEW i \in 1..11 PROVE s[i] \notin {"disconnect", "canceled", "unlock"}
    BY <1>1, <1>3, <2>1
  <2>2. ASSUME NEW i \in 1..11 + Len(t), i > 11
        PROVE  s[i] # "disconnect" /\ (s[i] \in {"canceled", "unlock"} => i = Len(s))
    BY <1>2, <1>3, <2>2
  <2> QED  BY <1>2, <1>3, <2>1, <2>2
<1>5. s \in Seq(Steps \cup Fields) /\ s # <<>>
  BY <1>2, <1>3
<1>6. 2 \in DOMAIN s /\ 9 \in DOMAIN s /\ s[2] = "connect" /\ s[9] = "passive"
  BY <1>1, <1>2, <1>3
<1> QED  BY <1>4, <1>5, <1>6 DEF s, Ends, Within

LEMMA ShortPrograms ==
    /\ Ends(<<"remove", "disconnect", "passive", "unlock">>)
    /\ ~Within(<<"remove", "disconnect", "passive", "unlock">>, "connect")
    /\ Ends(<<"passive", "unlock">>) /\ Within(<<"passive", "unlock">>, "passive")
    /\ ~Within(<<"passive", "unlock">>, "connect") /\ ~Within(<<"passive", "unlock">>, "disconnect")
    /\ Ends(<<"request", "unlock">>) /\ Plain(<<"request", "unlock">>)
    /\ Ends(<<"unlock">>) /\ Plain(<<"unlock">>)
    /\ Ends(<<"canceled">>) /\ Plain(<<"canceled">>)
    /\ \A f \in Fields : Ends(<<f, "unlock">>) /\ Plain(<<f, "unlock">>)
<1>1. /\ Ends(<<"remove", "disconnect", "passive", "unlock">>)
      /\ ~Within(<<"remove", "disconnect", "passive", "unlock">>, "connect")
  BY DEF Ends, Within, Steps
<1>2. /\ Ends(<<"passive", "unlock">>) /\ Within(<<"passive", "unlock">>, "passive")
      /\ ~Within(<<"passive", "unlock">>, "connect") /\ ~Within(<<"passive", "unlock">>, "disconnect")
  BY DEF Ends, Within, Steps
<1>3. Ends(<<"request", "unlock">>) /\ Plain(<<"request", "unlock">>)
  <2>1. Ends(<<"request", "unlock">>)
    BY DEF Ends, Steps
  <2>2. Plain(<<"request", "unlock">>)
    BY DEF Within, Plain
  <2> QED  BY <2>1, <2>2
<1>4. /\ Ends(<<"unlock">>) /\ Plain(<<"unlock">>)
      /\ Ends(<<"canceled">>) /\ Plain(<<"canceled">>)
  BY DEF Ends, Within, Plain, Steps
<1>5. ASSUME NEW f \in Fields PROVE Ends(<<f, "unlock">>) /\ Plain(<<f, "unlock">>)
  <2>1. f \notin {"passive", "connect", "disconnect", "canceled", "unlock"}
    BY RecordAssumption DEF RecordAssumption, Steps
  <2>2. "unlock" \in Steps
    BY DEF Steps
  <2> QED  BY <2>1, <2>2 DEF Ends, Within, Plain
<1> QED  BY <1>1, <1>2, <1>3, <1>4, <1>5

\* A put that the database accepts finds nobody with the scan lock.
LEMMA PutLocks ==
    ASSUME RecordIInv, DbFree, NEW s, Ends(s), program' = s, scanLock' = Db,
           UNCHANGED <<thread, ann>>
    PROVE  LockInv' /\ \A x : InProgram(x)' <=> Within(s, x)
<1>1. ~Active(Db) /\ \A a \in Announcers : ann[a].step # "show"
  <2>1. Null \notin Announcers /\ Null # Db
    BY RecordAssumption DEF RecordAssumption, Announcers
  <2> QED  BY <2>1 DEF RecordIInv, LockInv, DbFree
<1>2. LockInv'
  BY <1>1 DEF LockInv, Ends, Active
<1> QED  BY <1>2 DEF InProgram, Within

LEMMA PutPlain ==
    ASSUME RecordIInv, RecordTypeOK', DbFree, NEW s, Ends(s), Plain(s),
           program' = s, scanLock' = Db, UNCHANGED <<thread, ann, pvt, regs, queue, timer, completions>>,
           user'.port = user.port, ghost'.io = ghost.io, SameRec(rec', rec)
    PROVE  RecordIInv'
<1> USE DEF RecordIInv
<1>1. LockInv' /\ \A x : InProgram(x)' <=> Within(s, x)
  BY PutLocks
<1>2. IntrInv'
  <2>1. \A x : ~InProgram(x)
    BY DEF InProgram, DbFree
  <2> QED  BY <1>1, <2>1 DEF IntrInv, Plain, SameRec
<1>3. OneInv'
  <2>1. UNCHANGED oneView /\ \A a \in Threads : Active(a)' <=> Active(a)
    BY DEF oneView, SameRec, Active
  <2> QED  BY <2>1, OneFrame DEF OneInv
<1>4. UndoneInv'
  <2>1. SameCalls
    BY DEF SameCalls, Active
  <2> QED  BY <2>1, UndoneFrame DEF SameRec
<1> QED  BY <1>1, <1>2, <1>3, <1>4

\* The puts to the fields.
LEMMA PutsKeep ==
    ASSUME RecordIInv, Careful = TRUE,
           \/ \E p \in Ports \cup {Null} : PutPort(p)
           \/ \E b \in BOOLEAN : PutPcnct(b) \/ PutCnct(b) \/ PutEnbl(b)
           \/ \E i \in Ifaces : PutIface(i)
           \/ \E f \in Fields, v \in Values : PutField(f, v)
           \/ PutAqr \/ PutScanIoIntr \/ PutScanPassive
    PROVE  RecordIInv'
<1> USE DEF RecordIInv
<1>0. /\ rec \in RecFields /\ SameRec(rec, rec)
  BY StateUpdates DEF RecordTypeOK
<1>n. DbFree => \A x : ~InProgram(x)
  BY DEF InProgram, DbFree
<1>1. ASSUME NEW p \in Ports \cup {Null}, PutPort(p) PROVE RecordIInv'
  <2> DEFINE s == connectDevice \o <<"state", "unlock">>
  <2>1. /\ DbFree /\ rec' = [rec EXCEPT !.port = p] /\ program' = s /\ scanLock' = Db
        /\ ~rec.pact /\ (rec.intr => p # Null /\ rec.iface \in Supports[p])
        /\ UNCHANGED <<pvt, user, queue, thread, timer, dev, ann, exceptionActive, seen,
                       completions, scanIo, regs, ghost>>
    BY <1>1 DEF PutPort, Put, Quiet, Leaves, manager
  <2>2. /\ Ends(s) /\ Within(s, "connect") /\ Within(s, "passive") /\ ~Within(s, "disconnect")
    BY ConnectPrograms
  <2> HIDE DEF s
  <2>3. /\ rec' \in RecFields /\ rec'.port = p /\ rec'.intr = rec.intr /\ rec'.iface = rec.iface
        /\ rec'.pact = rec.pact /\ rec'.sevr = rec.sevr /\ rec'.nsev = rec.nsev
    BY <1>0, <2>1 DEF RecFields
  <2>4. LockInv' /\ \A x : InProgram(x)' <=> Within(s, x)
    BY <2>1, <2>2, PutLocks
  <2>5. RecordTypeOK'
    BY <2>1, <2>2, <2>3 DEF RecordTypeOK, Ends, Threads
  <2>6. IntrInv'
    BY <1>n, <2>1, <2>2, <2>3, <2>4 DEF IntrInv
  <2>7. OneInv' /\ UndoneInv'
    BY <2>1, <2>3 DEF OneInv, UndoneInv, Queued, Active
  <2> QED  BY <2>4, <2>5, <2>6, <2>7
<1>2. ASSUME PutPcnct(TRUE) PROVE RecordIInv'
  <2> DEFINE s == connectDevice \o <<"unlock">>
  <2>1. /\ DbFree /\ rec' = [rec EXCEPT !.pcnct = TRUE] /\ program' = s /\ scanLock' = Db
        /\ ~rec.pact /\ (rec.intr => rec.port # Null /\ rec.iface \in Supports[rec.port])
        /\ UNCHANGED <<pvt, user, queue, thread, timer, dev, ann, exceptionActive, seen,
                       completions, scanIo, regs, ghost>>
    BY <1>2 DEF PutPcnct, Put, Quiet, Leaves, manager
  <2>2. /\ Ends(s) /\ Within(s, "connect") /\ Within(s, "passive") /\ ~Within(s, "disconnect")
    BY ConnectPrograms
  <2> HIDE DEF s
  <2>3. SameRec(rec', rec)
    BY <2>1, StateUpdates
  <2>4. LockInv' /\ \A x : InProgram(x)' <=> Within(s, x)
    BY <2>1, <2>2, PutLocks
  <2>5. RecordTypeOK'
    BY <2>1, <2>2, <2>3 DEF RecordTypeOK, Ends, Threads, SameRec
  <2>6. IntrInv'
    BY <1>n, <2>1, <2>2, <2>3, <2>4 DEF IntrInv, SameRec
  <2>7. OneInv'
    BY <2>1, <2>3 DEF OneInv, Queued, Active, SameRec
  <2>8. UndoneInv'
    BY <2>1, <2>3 DEF UndoneInv, Active, SameRec
  <2> QED  BY <2>4, <2>5, <2>6, <2>7, <2>8
<1>3. ASSUME PutPcnct(FALSE) PROVE RecordIInv'
  <2> DEFINE s == <<"remove", "disconnect", "passive", "unlock">>
  <2>1. /\ DbFree /\ rec' = [rec EXCEPT !.pcnct = FALSE] /\ program' = s /\ scanLock' = Db
        /\ ~rec.pact /\ ~rec.intr
        /\ UNCHANGED <<pvt, user, queue, thread, timer, dev, ann, exceptionActive, seen,
                       completions, scanIo, regs, ghost>>
    BY <1>3 DEF PutPcnct, Put, Quiet, Leaves, manager
  <2>2. Ends(s) /\ ~Within(s, "connect")
    BY ShortPrograms
  <2> HIDE DEF s
  <2>3. SameRec(rec', rec)
    BY <2>1, StateUpdates
  <2>4. LockInv' /\ \A x : InProgram(x)' <=> Within(s, x)
    BY <2>1, <2>2, PutLocks
  <2>5. RecordTypeOK'
    BY <2>1, <2>2, <2>3 DEF RecordTypeOK, Ends, Threads, SameRec
  <2>6. IntrInv'
    BY <1>n, <2>1, <2>2, <2>3, <2>4 DEF IntrInv, SameRec
  <2>7. OneInv'
    BY <2>1, <2>3 DEF OneInv, Queued, Active, SameRec
  <2>8. UndoneInv'
    BY <2>1, <2>3 DEF UndoneInv, Active, SameRec
  <2> QED  BY <2>4, <2>5, <2>6, <2>7, <2>8
<1>4. ASSUME NEW i \in Ifaces, PutIface(i) PROVE RecordIInv'
  <2> DEFINE s == <<"passive", "unlock">>
  <2>1. /\ DbFree /\ rec' = [rec EXCEPT !.iface = i] /\ program' = s /\ scanLock' = Db
        /\ i \in Supports[pvt.bound]
        /\ UNCHANGED <<pvt, user, queue, thread, timer, dev, ann, exceptionActive, seen,
                       completions, scanIo, regs, ghost>>
    BY <1>4 DEF PutIface, Put, Has, manager
  <2>2. Ends(s) /\ Within(s, "passive") /\ ~Within(s, "connect") /\ ~Within(s, "disconnect")
    BY ShortPrograms
  <2> HIDE DEF s
  <2>3. /\ rec' \in RecFields /\ rec'.port = rec.port /\ rec'.intr = rec.intr /\ rec'.iface = i
        /\ rec'.pact = rec.pact /\ rec'.sevr = rec.sevr /\ rec'.nsev = rec.nsev
    BY <1>0, <2>1 DEF RecFields
  <2>4. LockInv' /\ \A x : InProgram(x)' <=> Within(s, x)
    BY <2>1, <2>2, PutLocks
  <2>5. RecordTypeOK'
    BY <2>1, <2>2, <2>3 DEF RecordTypeOK, Ends, Threads
  <2>6. IntrInv'
    BY <1>n, <2>1, <2>2, <2>3, <2>4 DEF IntrInv
  <2>7. OneInv' /\ UndoneInv'
    BY <2>1, <2>3 DEF OneInv, UndoneInv, Queued, Active
  <2> QED  BY <2>4, <2>5, <2>6, <2>7
<1>5. ASSUME NEW b \in BOOLEAN, PutCnct(b) PROVE RecordIInv'
  <2>1. /\ DbFree /\ rec' = [rec EXCEPT !.cnct = b] /\ program' = <<"request", "unlock">> /\ scanLock' = Db
        /\ UNCHANGED <<pvt, user, queue, thread, timer, dev, ann, exceptionActive, seen,
                       completions, scanIo, regs, ghost>>
    BY <1>5 DEF PutCnct, Put, manager
  <2>2. Ends(<<"request", "unlock">>) /\ Plain(<<"request", "unlock">>)
    BY ShortPrograms
  <2>3. SameRec(rec', rec)
    BY <2>1, StateUpdates
  <2>4. RecordTypeOK'
    BY <2>1, <2>2, <2>3 DEF RecordTypeOK, Ends, Threads, SameRec
  <2> QED  BY <2>1, <2>2, <2>3, <2>4, PutPlain
<1>6. ASSUME NEW f \in Fields, NEW v \in Values, PutField(f, v) PROVE RecordIInv'
  <2>1. /\ DbFree /\ rec' = [rec EXCEPT !.opt[f] = v] /\ program' = <<f, "unlock">> /\ scanLock' = Db
        /\ UNCHANGED <<pvt, user, queue, thread, timer, dev, ann, exceptionActive, seen,
                       completions, scanIo, regs, ghost>>
    BY <1>6 DEF PutField, Put, manager
  <2>2. Ends(<<f, "unlock">>) /\ Plain(<<f, "unlock">>)
    BY ShortPrograms
  <2>3. SameRec(rec', rec)
    <3>1. rec' \in RecFields
      BY <1>0, <2>1 DEF RecFields
    <3>2. /\ rec'.port = rec.port /\ rec'.intr = rec.intr /\ rec'.iface = rec.iface
          /\ rec'.pact = rec.pact /\ rec'.sevr = rec.sevr /\ rec'.nsev = rec.nsev
      BY <1>0, <2>1 DEF RecFields
    <3> QED  BY <3>1, <3>2 DEF SameRec
  <2>4. RecordTypeOK'
    BY <2>1, <2>2, <2>3 DEF RecordTypeOK, Ends, Threads, SameRec
  <2> QED  BY <2>1, <2>2, <2>3, <2>4, PutPlain
<1>7. ASSUME NEW b \in BOOLEAN, PutEnbl(b) PROVE RecordIInv'
  <2>1. /\ DbFree /\ program' = <<"unlock">> /\ scanLock' = Db
        /\ rec' = rec \/ rec' = [rec EXCEPT !.cnct = Connected]
        /\ \/ UNCHANGED <<dev, exceptionActive>>
           \/ /\ user.port # Null
              /\ dev' = [dev EXCEPT ![user.port].enabled = b]
              /\ exceptionActive' = [exceptionActive EXCEPT ![user.port] = FALSE]
        /\ UNCHANGED <<pvt, user, queue, thread, timer, ann, seen,
                       completions, scanIo, regs, ghost>>
    BY <1>7 DEF PutEnbl, Put
  <2>2. Ends(<<"unlock">>) /\ Plain(<<"unlock">>)
    BY ShortPrograms
  <2>3. SameRec(rec', rec)
    BY <2>1, StateUpdates
  <2>4. dev' \in [Ports -> Port] /\ exceptionActive' \in [Ports -> BOOLEAN]
    <3>1. dev \in [Ports -> Port] /\ exceptionActive \in [Ports -> BOOLEAN]
      BY DEF RecordTypeOK
    <3>2. CASE UNCHANGED <<dev, exceptionActive>>
      <4>1. dev' = dev /\ exceptionActive' = exceptionActive
        BY <3>2
      <4> QED  BY <3>1, <4>1
    <3>3. CASE ~UNCHANGED <<dev, exceptionActive>>
      <4>1. user.port \in Ports
        BY <2>1, <3>3, StateUpdates
      <4>2. [dev EXCEPT ![user.port].enabled = b] \in [Ports -> Port]
        BY <3>1, <4>1, PortUpdates
      <4> QED  BY <2>1, <3>1, <3>3, <4>1, <4>2
    <3> QED  BY <3>2, <3>3
  <2>5. RecordTypeOK'
    BY <2>1, <2>2, <2>3, <2>4 DEF RecordTypeOK, Ends, Threads, SameRec
  <2> QED  BY <2>1, <2>2, <2>3, <2>5, PutPlain
<1>8. ASSUME PutAqr PROVE RecordIInv'
  <2> DEFINE p == user.port
             queued == p \in Blocking /\ Waiting(p) # {}
             k == CHOOSE i \in Waiting(p) : TRUE
  <2>1. /\ DbFree /\ program' = <<"canceled">> /\ scanLock' = Db
        /\ rec' = IF queued THEN [rec EXCEPT !.nsev = 2] ELSE rec
        /\ queue' = IF queued THEN [queue EXCEPT ![p] = RemoveAt(@, k)] ELSE queue
        /\ completions' = IF queued THEN completions + 1 ELSE completions
        /\ \E b \in BOOLEAN : user' = [user EXCEPT !.canceled = b]
        /\ UNCHANGED <<pvt, thread, timer, dev, ann, exceptionActive, seen, scanIo, regs, ghost>>
    BY <1>8 DEF PutAqr, Put
  <2>2. Ends(<<"canceled">>) /\ Plain(<<"canceled">>)
    BY ShortPrograms
  <2>3. SameRec(rec', rec)
    BY <2>1, StateUpdates
  <2>4. user' \in asynUser /\ user'.port = user.port
    BY <2>1, UserUpdates DEF RecordTypeOK
  <2>5. CASE ~queued
    <3>1. queue' = queue /\ completions' = completions
      BY <2>1, <2>5
    <3>2. RecordTypeOK'
      BY <2>1, <2>2, <2>3, <2>4, <3>1 DEF RecordTypeOK, Ends, Threads, SameRec
    <3> QED  BY <2>1, <2>2, <2>3, <2>4, <3>1, <3>2, PutPlain
  <2>6. CASE queued
    <3>1. k \in DOMAIN queue[p] /\ queue[p][k] = Process /\ p \in Blocking
      BY <2>6 DEF Waiting
    <3>2. /\ queue[p] \in Seq(Requests) /\ Lone(queue[p]) /\ Queued(p)
      BY <3>1 DEF RecordTypeOK, OneInv, Queued, Procs
    <3> HIDE DEF k
    <3>3. RemoveAt(queue[p], k) \in Seq(Requests) /\ Procs(RemoveAt(queue[p], k)) = {}
          /\ Lone(RemoveAt(queue[p], k))
      BY <3>1, <3>2, QueueRemoved
    <3>4. /\ queue' \in [Blocking -> Seq(Requests)]
          /\ \A q \in Blocking \ {p} : queue'[q] = queue[q]
          /\ queue'[p] = RemoveAt(queue[p], k)
      BY <2>1, <2>6, <3>3 DEF RecordTypeOK
    <3>5. /\ timer # Process /\ completions = 0 /\ completions' = 1 /\ rec.pact
          /\ \A q \in Blocking : ~Active(q)
      BY <2>1, <2>6, <3>1, <3>2 DEF OneInv
    <3>6. rec'.nsev = 2
      BY <2>1, <2>6, StateUpdates
    <3>7. ~Active(Db)
      BY <3>5 DEF LockInv
    <3>8. /\ \A q \in Blocking : ~Queued(q)' /\ Lone(queue'[q])
          /\ \A a \in Threads : ~Active(a)'
      <4>1. \A q \in Blocking \ {p} : ~Queued(q) /\ Lone(queue[q])
        BY <3>2 DEF OneInv
      <4> QED  BY <2>1, <3>3, <3>4, <3>5, <3>7, <4>1 DEF Queued, Active, Threads
    <3>9. RecordTypeOK'
      BY <2>1, <2>2, <2>3, <2>4, <3>4, <3>5 DEF RecordTypeOK, Ends, Threads, SameRec
    <3>10. LockInv' /\ \A x : InProgram(x)' <=> Within(<<"canceled">>, x)
      BY <2>1, <2>2, PutLocks
    <3>11. IntrInv'
      BY <1>n, <2>1, <2>2, <2>3, <2>4, <3>10 DEF IntrInv, SameRec, Plain
    <3>12. OneInv'
      <4>1. /\ rec'.pact /\ completions' = 1 /\ timer' # Process
            /\ \A q \in Blocking : Lone(queue[q])' /\ ~Queued(q)' /\ ~Active(q)'
            /\ \A a \in Threads : ~Active(a)'
        BY <2>1, <2>3, <3>5, <3>8 DEF SameRec, Threads
      <4> QED  BY <4>1 DEF OneInv
    <3>13. UndoneInv'
      BY <2>3, <3>5, <3>6, <3>8 DEF UndoneInv, SameRec
    <3> QED  BY <3>9, <3>10, <3>11, <3>12, <3>13
  <2> QED  BY <2>5, <2>6
<1>9. ASSUME PutScanIoIntr PROVE RecordIInv'
  <2> DEFINE x == <<user.port, rec.iface>>
             ok == Has(rec.iface) /\ user.port # Null
  <2>1. /\ DbFree /\ program' = <<"unlock">> /\ scanLock' = Db
        /\ ~rec.intr /\ rec' = [rec EXCEPT !.intr = ok]
        /\ regs' = IF ok THEN [regs EXCEPT ![x] = @ + 1] ELSE regs
        /\ pvt' = [pvt EXCEPT !.gotValue = FALSE, !.node = IF ok THEN x ELSE @]
        /\ UNCHANGED <<user, queue, thread, timer, dev, ann, exceptionActive, seen,
                       completions, scanIo, ghost>>
    BY <1>9 DEF PutScanIoIntr, Put, manager
  <2>2. Ends(<<"unlock">>) /\ Plain(<<"unlock">>)
    BY ShortPrograms
  <2>3. /\ rec' \in RecFields /\ rec'.port = rec.port /\ rec'.intr = ok /\ rec'.iface = rec.iface
        /\ rec'.pact = rec.pact /\ rec'.sevr = rec.sevr /\ rec'.nsev = rec.nsev
    BY <1>0, <2>1 DEF RecFields
  <2>4. user.port \in Ports \cup {Null} /\ rec.iface \in Ifaces
    BY <1>0, StateUpdates DEF RecFields
  <2>5. ok => x \in Ports \X Ifaces /\ rec.iface \in Supports[pvt.bound]
    BY <2>4 DEF Has
  <2>6. /\ pvt' \in asynRecPvt /\ pvt'.bound = pvt.bound
        /\ ok => pvt'.node = x
    BY <2>1, <2>5 DEF RecordTypeOK, asynRecPvt
  <2>7. \A y \in Ports \X Ifaces : regs[y] = 0
    BY <2>1 DEF IntrInv
  <2>8. /\ regs' \in [Ports \X Ifaces -> Nat]
        /\ \A y \in Ports \X Ifaces : regs'[y] = IF ok /\ y = x THEN 1 ELSE 0
    BY <2>1, <2>5, <2>7 DEF RecordTypeOK
  <2>9. RecordTypeOK'
    BY <2>1, <2>2, <2>3, <2>6, <2>8 DEF RecordTypeOK, Ends, Threads
  <2>10. LockInv' /\ \A y : InProgram(y)' <=> Within(<<"unlock">>, y)
    BY <2>1, <2>2, PutLocks
  <2> HIDE DEF x
  <2>11. IntrInv'
    <3>1. /\ user'.port = user.port /\ (user.port # Null => pvt'.bound = user.port)
      BY <2>1, <2>6 DEF IntrInv
    <3>2. ok => /\ user.port # Null /\ rec.iface \in Supports[user.port]
                /\ pvt'.node \in Ports \X Ifaces /\ pvt'.node = <<user.port, rec.iface>>
      BY <2>5, <2>6, <3>1 DEF x
    <3>3. \A y \in Ports \X Ifaces : regs'[y] = IF ok /\ y = pvt'.node THEN 1 ELSE 0
      BY <2>6, <2>8
    <3> HIDE DEF ok
    <3> QED  BY <2>2, <2>3, <2>10, <3>1, <3>2, <3>3 DEF IntrInv, Plain
  <2>12. OneInv' /\ UndoneInv'
    BY <2>1, <2>3 DEF OneInv, UndoneInv, Queued, Active
  <2> QED  BY <2>9, <2>10, <2>11, <2>12
<1>10. ASSUME PutScanPassive PROVE RecordIInv'
  <2> DEFINE s == <<"passive", "unlock">>
  <2>1. /\ DbFree /\ rec' = rec /\ program' = s /\ scanLock' = Db
        /\ UNCHANGED <<pvt, user, queue, thread, timer, dev, ann, exceptionActive, seen,
                       completions, scanIo, regs, ghost>>
    BY <1>10 DEF PutScanPassive, Put, manager
  <2>2. Ends(s) /\ Within(s, "passive") /\ ~Within(s, "connect") /\ ~Within(s, "disconnect")
    BY ShortPrograms
  <2> HIDE DEF s
  <2>3. LockInv' /\ \A x : InProgram(x)' <=> Within(s, x)
    BY <2>1, <2>2, PutLocks
  <2>4. RecordTypeOK'
    BY <2>1, <2>2 DEF RecordTypeOK, Ends, Threads
  <2>5. IntrInv'
    BY <1>n, <2>1, <2>2, <2>3 DEF IntrInv
  <2>6. OneInv' /\ UndoneInv'
    BY <2>1 DEF OneInv, UndoneInv, Queued, Active
  <2> QED  BY <2>3, <2>4, <2>5, <2>6
<1> QED  BY <1>1, <1>2, <1>3, <1>4, <1>5, <1>6, <1>7, <1>8, <1>9, <1>10

-----------------------------------------------------------------------------
\* The steps of special.  What a step finds, and what it leaves of the program.
LEMMA StepFacts ==
    ASSUME RecordIInv, NEW s, program # <<>>, Head(program) = s
    PROVE  /\ scanLock = Db /\ ~Active(Db) /\ InProgram(s)
           /\ \A a \in Announcers : ann[a].step # "show"
           /\ program' = Tail(program) =>
                /\ program' \in Seq(Steps \cup Fields)
                /\ \A i \in DOMAIN program' :
                     program'[i] \in {"canceled", "unlock"} => i = Len(program')
                /\ \A x : InProgram(x)' => InProgram(x)
                /\ \A x : InProgram(x) /\ x # s => InProgram(x)'
                /\ s \in {"canceled", "unlock"} => program' = <<>>
<1> USE DEF RecordIInv
<1>1. scanLock = Db /\ ~Active(Db)
  BY DEF LockInv
<1>2. \A a \in Announcers : ann[a].step # "show"
  BY <1>1, RecordAssumption DEF LockInv, RecordAssumption, Announcers
<1>3. /\ program \in Seq(Steps \cup Fields) /\ 1 \in DOMAIN program /\ program[1] = s
      /\ Len(program) \in Nat
  BY DEF RecordTypeOK
<1>4. InProgram(s)
  BY <1>3 DEF InProgram
<1>5. ASSUME program' = Tail(program)
      PROVE  /\ program' \in Seq(Steps \cup Fields)
             /\ \A i \in DOMAIN program' :
                  program'[i] \in {"canceled", "unlock"} => i = Len(program')
             /\ \A x : InProgram(x)' => InProgram(x)
             /\ \A x : InProgram(x) /\ x # s => InProgram(x)'
             /\ s \in {"canceled", "unlock"} => program' = <<>>
  <2>1. /\ program' \in Seq(Steps \cup Fields)
        /\ DOMAIN program' = 1..Len(program')
        /\ Len(program') \in Nat /\ Len(program) = Len(program') + 1
        /\ \A i \in DOMAIN program' : i + 1 \in DOMAIN program /\ program'[i] = program[i + 1]
        /\ \A x : InProgram(x)' => InProgram(x)
        /\ \A x : InProgram(x) /\ x # s => InProgram(x)'
    BY <1>3, <1>5, ProgramTail
  <2>2. ASSUME NEW i \in DOMAIN program', program'[i] \in {"canceled", "unlock"}
        PROVE  i = Len(program')
    <3>1. i + 1 = Len(program)
      BY <2>1, <2>2 DEF LockInv
    <3> QED  BY <2>1, <3>1
  <2>3. ASSUME s \in {"canceled", "unlock"} PROVE program' = <<>>
    <3>1. Len(program) = 1
      BY <1>3, <2>3 DEF LockInv
    <3>2. program' \in Seq(Steps \cup Fields) /\ Len(program) = Len(program') + 1
          /\ Len(program') \in Nat
      BY <2>1
    <3>3. Len(program') = 0
      BY <3>1, <3>2
    <3> QED  BY <3>2, <3>3
  <2> QED  BY <2>1, <2>2, <2>3
<1> QED  BY <1>1, <1>2, <1>4, <1>5

\* A step keeps the scan lock, or gives it back when nothing is left to do.
LEMMA StepLocks ==
    ASSUME RecordIInv, NEW s, Step(s), ~Active(Db)', ann' = ann,
           \/ scanLock' = scanLock
           \/ s \in {"canceled", "unlock"}
    PROVE  LockInv'
<1>1. /\ scanLock = Db
      /\ \A a \in Announcers : ann[a].step # "show"
      /\ \A i \in DOMAIN program' :
           program'[i] \in {"canceled", "unlock"} => i = Len(program')
      /\ s \in {"canceled", "unlock"} => program' = <<>>
  BY StepFacts DEF Step
<1> QED  BY <1>1 DEF LockInv

\* Every step but cancelIOInterruptScan leaves a registration where it is.
LEMMA StepRegisters ==
    ASSUME RecordIInv, NEW s, Step(s), s # "passive", SameRec(rec', rec), SamePvt(pvt', pvt),
           user'.port = user.port, regs' = regs
    PROVE  IntrInv'
<1>1. /\ \A x : InProgram(x)' => InProgram(x)
      /\ InProgram("passive") => InProgram("passive")'
  BY StepFacts DEF Step
<1> QED  BY <1>1 DEF RecordIInv, IntrInv, SameRec, SamePvt

LEMMA PlainStep ==
    ASSUME RecordIInv, RecordTypeOK', NEW s, Step(s), s # "passive",
           SameRec(rec', rec), SamePvt(pvt', pvt), user'.port = user.port,
           UNCHANGED <<queue, thread, timer, ann, completions, regs, ghost>>,
           \/ scanLock' = scanLock
           \/ s \in {"canceled", "unlock"}
    PROVE  RecordIInv'
<1>1. ~Active(Db)' /\ SameCalls
  BY StepFacts DEF Step, Active, SameCalls
<1>2. LockInv'
  BY <1>1, StepLocks
<1>3. IntrInv'
  BY StepRegisters
<1>4. OneInv'
  <2>1. UNCHANGED oneView
    BY DEF oneView, SameRec
  <2> QED  BY <1>1, <2>1, OneFrame DEF RecordIInv, OneInv, Active
<1>5. UndoneInv'
  BY <1>1, UndoneFrame DEF RecordIInv, SameRec
<1> QED  BY <1>2, <1>3, <1>4, <1>5 DEF RecordIInv

LEMMA QueueSpecialKeeps ==
    ASSUME RecordIInv, NEW s \in Steps \cup Fields, s # "passive",
           NEW r \in Requests \ {Process}, QueueSpecial(s, r)
    PROVE  RecordIInv'
<1> USE DEF RecordIInv
<1> DEFINE p == user.port
<1>1. /\ Step(s)
      /\ UNCHANGED <<rec, pvt, user, timer, dev, ann, exceptionActive, scanLock, seen,
                     completions, scanIo, regs>>
      /\ ghost'.io = ghost.io
      /\ \/ queue' = queue /\ thread' = thread
         \/ /\ p \in Blocking /\ queue' = [queue EXCEPT ![p] = Append(@, r)]
            /\ thread' = thread
         \/ /\ thread' = [thread EXCEPT ![Db] = [Idle EXCEPT !.step = "act", !.req = r]]
            /\ queue' = queue
  <2>1. CASE Accepts(p, r)
    BY <2>1 DEF QueueSpecial
  <2>2. CASE ~Accepts(p, r)
    <3>1. /\ Step(s) /\ queue' = queue /\ thread' = thread
          /\ UNCHANGED <<rec, pvt, user, timer, dev, ann, exceptionActive, scanLock, seen,
                         completions, scanIo, regs>>
          /\ ghost' = [ghost EXCEPT !.unserved = @ \cup FieldsOf(r)]
      BY <2>2 DEF QueueSpecial
    <3>2. ghost'.io = ghost.io
      BY <3>1
    <3> QED  BY <3>1, <3>2
  <2> QED  BY <2>1, <2>2
<1>2. /\ program' \in Seq(Steps \cup Fields) /\ ~Active(Db)
  BY <1>1, StepFacts DEF Step
<1>3. SameRec(rec', rec) /\ SamePvt(pvt', pvt)
  BY <1>1, StateUpdates
<1>4. /\ thread' \in [Threads -> Call] /\ ~Active(Db)'
      /\ \A a \in Threads \ {Db} : thread'[a] = thread[a]
  <2>1. CASE thread' = thread
    BY <1>2, <2>1 DEF RecordTypeOK, Active
  <2>2. CASE thread' = [thread EXCEPT ![Db] = [Idle EXCEPT !.step = "act", !.req = r]]
    <3>1. Db \in Threads /\ thread \in [Threads -> Call]
      BY DEF RecordTypeOK, Threads
    <3>2. thread' \in [Threads -> Call]
      BY <2>2, <3>1, ThreadUpdates
    <3>3. thread'[Db].req = r
      BY <2>2, <3>1 DEF Idle
    <3> QED  BY <2>2, <3>1, <3>2, <3>3 DEF Active
  <2> QED  BY <1>1, <2>1, <2>2
<1>5. SameCalls
  BY <1>2, <1>4 DEF SameCalls, Active
<1>6. /\ queue' \in [Blocking -> Seq(Requests)]
      /\ \A q \in Blocking : Lone(queue'[q]) /\ (Queued(q)' <=> Queued(q))
  <2>1. CASE queue' = queue
    BY <2>1 DEF RecordTypeOK, OneInv, Queued
  <2>2. CASE p \in Blocking /\ queue' = [queue EXCEPT ![p] = Append(@, r)]
    <3>1. queue[p] \in Seq(Requests) /\ Lone(queue[p])
      BY <2>2 DEF RecordTypeOK, OneInv
    <3>2. /\ Append(queue[p], r) \in Seq(Requests) /\ Lone(Append(queue[p], r))
          /\ Procs(Append(queue[p], r)) = {} <=> Procs(queue[p]) = {}
      BY <3>1, QueueAppended
    <3>3. /\ queue' \in [Blocking -> Seq(Requests)] /\ queue'[p] = Append(queue[p], r)
          /\ \A q \in Blocking \ {p} : queue'[q] = queue[q]
      BY <2>2, <3>2 DEF RecordTypeOK
    <3> QED  BY <2>2, <3>2, <3>3 DEF OneInv, Queued
  <2> QED  BY <1>1, <2>1, <2>2
<1>7. RecordTypeOK'
  BY <1>1, <1>2, <1>3, <1>4, <1>6 DEF RecordTypeOK, SameRec, SamePvt
<1>8. LockInv'
  BY <1>1, <1>4, StepLocks
<1>9. IntrInv'
  BY <1>1, <1>3, StepRegisters
<1>10. OneInv'
  <2>1. \A a \in Threads : /\ Active(a)' <=> Active(a)
                           /\ Active(a)' => thread'[a].step \in {"act", "done"}
    BY <1>5 DEF SameCalls, OneInv
  <2> QED  BY <1>1, <1>6, <2>1 DEF OneInv, Threads
<1>11. UndoneInv'
  BY <1>1, <1>5, UndoneFrame
<1> QED  BY <1>7, <1>8, <1>9, <1>10, <1>11

\* disconnect, and connectDevice: nothing of the record is queued.
LEMMA DisconnectKeeps ==
    ASSUME RecordIInv, Disconnect
    PROVE  RecordIInv'
<1> USE DEF RecordIInv
<1>1. /\ Step("disconnect") /\ user' = [user EXCEPT !.port = IF IsQueued THEN @ ELSE Null]
      /\ UNCHANGED <<rec, pvt, queue, thread, timer, dev, ann, exceptionActive, scanLock,
                     seen, completions, scanIo, regs, ghost>>
  BY DEF Disconnect
<1>2. /\ program' \in Seq(Steps \cup Fields) /\ ~Active(Db) /\ InProgram("disconnect")
      /\ \A x : InProgram(x)' => InProgram(x)
  BY <1>1, StepFacts DEF Step
<1>3. ~rec.intr /\ ~rec.pact
  BY <1>2 DEF IntrInv
<1>4. user' \in asynUser /\ user'.port \in {user.port, Null}
  <2>0. user \in asynUser
    BY DEF RecordTypeOK
  <2>1. \A p \in {user.port, Null} :
          [user EXCEPT !.port = p] \in asynUser /\ [user EXCEPT !.port = p].port = p
    BY <2>0, UserUpdates
  <2> QED  BY <1>1, <2>1
<1>5. RecordTypeOK'
  BY <1>1, <1>2, <1>4 DEF RecordTypeOK
<1>6. LockInv'
  BY <1>1, <1>2, StepLocks DEF Active
<1>7. IntrInv'
  BY <1>1, <1>2, <1>3, <1>4 DEF IntrInv
<1>8. OneInv'
  BY <1>1, <1>3 DEF OneInv, Queued, Active
<1>9. UndoneInv'
  BY <1>1 DEF UndoneInv, Active
<1> QED  BY <1>5, <1>6, <1>7, <1>8, <1>9

LEMMA GiveUpPrograms ==
    ASSUME NEW s \in {<<"passive", "read", "show", "unlock">>,
                      <<"passive", "read", "show", "state", "unlock">>}
    PROVE  Ends(s) /\ Within(s, "passive") /\ ~Within(s, "connect") /\ ~Within(s, "disconnect")
<1> DEFINE a == <<"passive", "read", "show", "unlock">>
           b == <<"passive", "read", "show", "state", "unlock">>
<1>1. Ends(a) /\ Within(a, "passive") /\ ~Within(a, "connect") /\ ~Within(a, "disconnect")
  BY DEF Ends, Within, Steps
<1>2. Ends(b) /\ Within(b, "passive") /\ ~Within(b, "connect") /\ ~Within(b, "disconnect")
  BY DEF Ends, Within, Steps
<1> QED  BY <1>1, <1>2

LEMMA ConnectPortKeeps ==
    ASSUME RecordIInv, ConnectPort
    PROVE  RecordIInv'
<1> USE DEF RecordIInv
<1>1. /\ program # <<>> /\ Head(program) = "connect"
      /\ UNCHANGED <<queue, thread, timer, dev, ann, exceptionActive, scanLock,
                     seen, completions, scanIo, regs, ghost>>
  BY DEF ConnectPort
<1>2. /\ scanLock = Db /\ ~Active(Db) /\ InProgram("connect")
      /\ \A a \in Announcers : ann[a].step # "show"
  BY <1>1, StepFacts
<1>3. /\ ~rec.pact
      /\ rec.intr => /\ InProgram("passive")
                     /\ rec.port # Null /\ rec.iface \in Supports[rec.port]
  BY <1>2 DEF IntrInv
<1>4. ~IsQueued
  <2>1. ASSUME IsQueued PROVE FALSE
    <3>1. user.port \in Blocking /\ Queued(user.port)
      BY <2>1 DEF IsQueued, Waiting, Queued, Procs
    <3> QED  BY <1>3, <3>1 DEF OneInv
  <2> QED  BY <2>1
<1>5. /\ rec \in RecFields /\ rec.port \in Ports \cup {Null} /\ SameRec(rec, rec)
      /\ SameRec([rec EXCEPT !.pcnct = FALSE], rec)
  BY StateUpdates DEF RecordTypeOK, RecFields
<1>6. CASE rec.port # Null
  <2>1. /\ program' = Tail(program) /\ rec' = rec /\ pvt' = [pvt EXCEPT !.bound = rec.port]
        /\ user' = [user EXCEPT !.port = rec.port]
    BY <1>4, <1>6 DEF ConnectPort
  <2>2. /\ program' \in Seq(Steps \cup Fields)
        /\ \A i \in DOMAIN program' :
             program'[i] \in {"canceled", "unlock"} => i = Len(program')
        /\ \A x : InProgram(x)' => InProgram(x)
        /\ InProgram("passive") => InProgram("passive")'
    BY <1>1, <2>1, StepFacts
  <2>3. /\ pvt' \in asynRecPvt /\ pvt'.bound = rec.port /\ pvt'.node = pvt.node
        /\ user' \in asynUser /\ user'.port = rec.port
    BY <1>5, <1>6, <2>1, UserUpdates DEF RecordTypeOK, asynRecPvt
  <2>4. RecordTypeOK'
    BY <1>1, <2>1, <2>2, <2>3 DEF RecordTypeOK
  <2>5. LockInv'
    BY <1>1, <1>2, <2>2 DEF LockInv, Active
  <2>6. IntrInv'
    BY <1>1, <1>3, <1>6, <2>1, <2>2, <2>3 DEF IntrInv
  <2>7. OneInv' /\ UndoneInv'
    BY <1>1, <1>3, <2>1 DEF OneInv, UndoneInv, Queued, Active
  <2> QED  BY <2>4, <2>5, <2>6, <2>7
<1>7. CASE rec.port = Null
  <2>1. /\ rec' = [rec EXCEPT !.pcnct = FALSE] /\ pvt' = pvt
        /\ user' = [user EXCEPT !.port = Null]
        /\ program' \in {<<"passive", "read", "show", "unlock">>,
                          <<"passive", "read", "show", "state", "unlock">>}
    BY <1>4, <1>7 DEF ConnectPort
  <2>2. /\ Ends(program')
        /\ ~Within(program', "connect") /\ ~Within(program', "disconnect")
    BY <2>1, GiveUpPrograms
  <2>3. SameRec(rec', rec) /\ ~rec.intr
    BY <1>3, <1>5, <1>7, <2>1
  <2>4. user' \in asynUser /\ user'.port = Null
    <3>1. [user EXCEPT !.port = Null] \in asynUser /\ [user EXCEPT !.port = Null].port = Null
      BY UserUpdates DEF RecordTypeOK
    <3> QED  BY <2>1, <3>1
  <2>5. RecordTypeOK'
    BY <1>1, <2>1, <2>2, <2>3, <2>4 DEF RecordTypeOK, Ends, SameRec
  <2>6. LockInv'
    BY <1>1, <1>2, <2>2 DEF LockInv, Active, Ends
  <2>7. IntrInv'
    BY <1>1, <2>1, <2>2, <2>3, <2>4 DEF IntrInv, SameRec, InProgram, Within
  <2>8. OneInv'
    BY <1>1, <1>3, <2>3 DEF OneInv, Queued, Active, SameRec
  <2>9. UndoneInv'
    BY <1>1, <2>3 DEF UndoneInv, Active, SameRec
  <2> QED  BY <2>5, <2>6, <2>7, <2>8, <2>9
<1> QED  BY <1>6, <1>7

\* cancelIOInterruptScan: the registration of the record goes.
LEMMA PassiveKeeps ==
    ASSUME RecordIInv, cancelIOInterruptScan
    PROVE  RecordIInv'
<1> USE DEF RecordIInv
<1>1. /\ Step("passive") /\ rec' = [rec EXCEPT !.intr = FALSE]
      /\ regs' = IF rec.intr /\ Has(rec.iface) /\ user.port # Null
                 THEN [regs EXCEPT ![pvt.node] = @ - 1] ELSE regs
      /\ UNCHANGED <<pvt, user, queue, thread, timer, dev, ann, exceptionActive, scanLock,
                     seen, completions, scanIo, ghost>>
  BY DEF cancelIOInterruptScan, manager
<1>2. /\ program' \in Seq(Steps \cup Fields) /\ ~Active(Db)
      /\ \A x : InProgram(x)' => InProgram(x)
  BY <1>1, StepFacts DEF Step
<1>3. rec \in RecFields /\ pvt.bound \in Ports
  BY StateUpdates DEF RecordTypeOK
<1>4. /\ rec' \in RecFields /\ rec'.intr = FALSE /\ rec'.port = rec.port
      /\ rec'.iface = rec.iface /\ rec'.pact = rec.pact
      /\ rec'.sevr = rec.sevr /\ rec'.nsev = rec.nsev
  BY <1>1, <1>3 DEF RecFields
<1>5. regs' \in [Ports \X Ifaces -> Nat] /\ \A x \in Ports \X Ifaces : regs'[x] = 0
  <2>1. regs \in [Ports \X Ifaces -> Nat]
    BY DEF RecordTypeOK
  <2>2. CASE rec.intr
    <3>1. /\ user.port # Null /\ Has(rec.iface) /\ pvt.node \in Ports \X Ifaces
          /\ \A x \in Ports \X Ifaces : regs[x] = IF x = pvt.node THEN 1 ELSE 0
      BY <1>3, <2>2, RecordAssumption DEF IntrInv, Has, RecordAssumption
    <3>2. regs' = [regs EXCEPT ![pvt.node] = regs[pvt.node] - 1]
      BY <1>1, <2>2, <3>1
    <3>3. \A x \in Ports \X Ifaces : regs'[x] = 0
      BY <2>1, <3>1, <3>2
    <3>4. DOMAIN regs' = Ports \X Ifaces /\ regs' = [x \in Ports \X Ifaces |-> regs'[x]]
      BY <2>1, <3>2
    <3> QED  BY <3>3, <3>4
  <2>3. CASE ~rec.intr
    BY <1>1, <2>1, <2>3 DEF IntrInv
  <2> QED  BY <2>2, <2>3
<1>6. RecordTypeOK'
  BY <1>1, <1>2, <1>4, <1>5 DEF RecordTypeOK
<1>7. LockInv'
  BY <1>1, <1>2, StepLocks DEF Active
<1>8. IntrInv'
  BY <1>1, <1>2, <1>4, <1>5 DEF IntrInv
<1>9. OneInv'
  BY <1>1, <1>4 DEF OneInv, Queued, Active
<1>10. UndoneInv'
  BY <1>1, <1>4 DEF UndoneInv, Active
<1> QED  BY <1>6, <1>7, <1>8, <1>9, <1>10

LEMMA SpecialKeeps ==
    ASSUME RecordIInv, Special
    PROVE  RecordIInv'
<1>0. /\ RecordTypeOK /\ SameRec(rec, rec) /\ SamePvt(pvt, pvt) /\ user \in asynUser
  BY StateUpdates DEF RecordIInv, RecordTypeOK
<1>t. \A s : Step(s) => program' \in Seq(Steps \cup Fields)
  BY StepFacts DEF Step
<1>1. ASSUME exceptionCallbackRemove PROVE RecordIInv'
  <2>1. /\ Step("remove") /\ user' = [user EXCEPT !.onList = FALSE]
        /\ UNCHANGED <<rec, pvt, queue, thread, timer, dev, ann, exceptionActive,
                     scanLock, seen, completions, scanIo, regs, ghost>>
    BY <1>1 DEF exceptionCallbackRemove, manager
  <2>2. SameRec(rec', rec) /\ SamePvt(pvt', pvt) /\ user' \in asynUser /\ user'.port = user.port
    BY <1>0, <2>1, StateUpdates, UserUpdates
  <2>3. RecordTypeOK'
    BY <1>0, <1>t, <2>1, <2>2 DEF RecordTypeOK, SameRec, SamePvt
  <2> QED  BY <2>1, <2>2, <2>3, PlainStep
<1>2. ASSUME exceptionCallbackAdd PROVE RecordIInv'
  <2>1. /\ Step("add") /\ user' = [user EXCEPT !.onList = TRUE]
        /\ UNCHANGED <<rec, pvt, queue, thread, timer, dev, ann, exceptionActive,
                     scanLock, seen, completions, scanIo, regs, ghost>>
    BY <1>2 DEF exceptionCallbackAdd, manager
  <2>2. SameRec(rec', rec) /\ SamePvt(pvt', pvt) /\ user' \in asynUser /\ user'.port = user.port
    BY <1>0, <2>1, StateUpdates, UserUpdates
  <2>3. RecordTypeOK'
    BY <1>0, <1>t, <2>1, <2>2 DEF RecordTypeOK, SameRec, SamePvt
  <2> QED  BY <2>1, <2>2, <2>3, PlainStep
<1>3. ASSUME ReadStatus PROVE RecordIInv'
  <2>1. /\ Step("read") /\ seen' = Connected
        /\ UNCHANGED <<rec, pvt, user, queue, thread, timer, dev, ann,
                     exceptionActive, scanLock, completions, scanIo, regs, ghost>>
    BY <1>3 DEF ReadStatus, manager
  <2>2. SameRec(rec', rec) /\ SamePvt(pvt', pvt) /\ user' \in asynUser /\ user'.port = user.port
    BY <1>0, <2>1, StateUpdates, UserUpdates, StateUpdates
  <2>3. RecordTypeOK'
    BY <1>0, <1>t, <2>1, <2>2, StateUpdates DEF RecordTypeOK, SameRec, SamePvt
  <2> QED  BY <2>1, <2>2, <2>3, PlainStep
<1>4. ASSUME ShowStatus PROVE RecordIInv'
  <2>1. /\ Step("show") /\ rec' = [rec EXCEPT !.cnct = seen]
        /\ UNCHANGED <<pvt, user, queue, thread, timer, dev, ann, exceptionActive,
                     scanLock, seen, completions, scanIo, regs, ghost>>
    BY <1>4 DEF ShowStatus, manager
  <2>2. SameRec(rec', rec) /\ SamePvt(pvt', pvt) /\ user' \in asynUser /\ user'.port = user.port
    BY <1>0, <2>1, StateUpdates DEF RecordTypeOK
  <2>3. RecordTypeOK'
    BY <1>0, <1>t, <2>1, <2>2 DEF RecordTypeOK, SameRec, SamePvt
  <2> QED  BY <2>1, <2>2, <2>3, PlainStep
<1>5. ASSUME ShowPcnct PROVE RecordIInv'
  <2>1. /\ Step("pcnct") /\ rec' = [rec EXCEPT !.pcnct = TRUE]
        /\ UNCHANGED <<pvt, user, queue, thread, timer, dev, ann, exceptionActive,
                     scanLock, seen, completions, scanIo, regs, ghost>>
    BY <1>5 DEF ShowPcnct, manager
  <2>2. SameRec(rec', rec) /\ SamePvt(pvt', pvt) /\ user' \in asynUser /\ user'.port = user.port
    BY <1>0, <2>1, StateUpdates, UserUpdates
  <2>3. RecordTypeOK'
    BY <1>0, <1>t, <2>1, <2>2 DEF RecordTypeOK, SameRec, SamePvt
  <2> QED  BY <2>1, <2>2, <2>3, PlainStep
<1>6. ASSUME SetState PROVE RecordIInv'
  <2>1. /\ Step("state")
        /\ pvt' = [pvt EXCEPT !.state = IF rec.pcnct THEN "stateIdle" ELSE "stateNoDevice"]
        /\ UNCHANGED <<rec, user, queue, thread, timer, dev, ann, exceptionActive,
                     scanLock, seen, completions, scanIo, regs, ghost>>
    BY <1>6 DEF SetState, manager
  <2>2. SameRec(rec', rec) /\ SamePvt(pvt', pvt) /\ user' \in asynUser /\ user'.port = user.port
    BY <1>0, <2>1, StateUpdates DEF States
  <2>3. RecordTypeOK'
    BY <1>0, <1>t, <2>1, <2>2 DEF RecordTypeOK, SameRec, SamePvt
  <2> QED  BY <2>1, <2>2, <2>3, PlainStep
<1>7. ASSUME Canceled PROVE RecordIInv'
  <2>1. /\ Step("canceled") /\ pvt' = [pvt EXCEPT !.state = "stateIdle"] /\ scanLock' = Null
        /\ UNCHANGED <<rec, user, queue, thread, timer, dev, ann, exceptionActive,
                     seen, completions, scanIo, regs, ghost>>
    BY <1>7 DEF Canceled, manager
  <2>2. SameRec(rec', rec) /\ SamePvt(pvt', pvt) /\ user' \in asynUser /\ user'.port = user.port
    BY <1>0, <2>1, StateUpdates DEF States
  <2>3. RecordTypeOK'
    BY <1>0, <1>t, <2>1, <2>2 DEF RecordTypeOK, SameRec, SamePvt
  <2> QED  BY <2>1, <2>2, <2>3, PlainStep
<1>8. ASSUME Unlock PROVE RecordIInv'
  <2>1. /\ Step("unlock") /\ scanLock' = Null
        /\ UNCHANGED <<rec, pvt, user, queue, thread, timer, dev, ann,
                     exceptionActive, seen, completions, scanIo, regs, ghost>>
    BY <1>8 DEF Unlock, manager
  <2>2. SameRec(rec', rec) /\ SamePvt(pvt', pvt) /\ user' \in asynUser /\ user'.port = user.port
    BY <1>0, <2>1
  <2>3. RecordTypeOK'
    BY <1>0, <1>t, <2>1, <2>2 DEF RecordTypeOK
  <2> QED  BY <2>1, <2>2, <2>3, PlainStep
<1>9. ASSUME NEW s, s # "passive", Skip(s) PROVE RecordIInv'
  <2>1. /\ Step(s)
        /\ UNCHANGED <<rec, pvt, user, queue, thread, timer, dev, ann,
                     exceptionActive, scanLock, seen, completions, scanIo, regs, ghost>>
    BY <1>9 DEF Skip, manager
  <2>2. SameRec(rec', rec) /\ SamePvt(pvt', pvt) /\ user' \in asynUser /\ user'.port = user.port
    BY <1>0, <2>1
  <2>3. RecordTypeOK'
    BY <1>0, <1>t, <2>1, <2>2 DEF RecordTypeOK
  <2> QED  BY <1>9, <2>1, <2>2, <2>3, PlainStep
<1>10. ASSUME AskOption \/ AskEos \/ AskConnect \/ \E f \in Fields : AskField(f)
       PROVE  RecordIInv'
  <2>1. /\ {"getOption", "getEos", "request"} \subseteq Steps
        /\ \A f \in Fields : f # "passive"
    BY RecordAssumption DEF RecordAssumption, Steps
  <2>2. CASE AskOption
    BY <1>9, <2>1, <2>2, RequestFacts, QueueSpecialKeeps DEF AskOption
  <2>3. CASE AskEos
    BY <1>9, <2>1, <2>3, RequestFacts, QueueSpecialKeeps DEF AskEos
  <2>4. CASE AskConnect
    BY <2>1, <2>4, RequestFacts, QueueSpecialKeeps DEF AskConnect
  <2>5. ASSUME NEW f \in Fields, AskField(f) PROVE RecordIInv'
    BY <2>1, <2>5, RequestFacts, QueueSpecialKeeps DEF AskField
  <2> QED  BY <1>10, <2>2, <2>3, <2>4, <2>5
<1> QED
  BY <1>1, <1>2, <1>3, <1>4, <1>5, <1>6, <1>7, <1>8, <1>10,
     DisconnectKeeps, ConnectPortKeeps, PassiveKeeps DEF Special

-----------------------------------------------------------------------------
LEMMA StutterKeeps == ASSUME RecordIInv, UNCHANGED vars PROVE RecordIInv'
<1>1. /\ UNCHANGED <<rec, pvt, user, queue, thread, timer, dev, ann, exceptionActive>>
      /\ UNCHANGED <<scanLock, program, seen, completions, scanIo, regs, ghost>>
  BY DEF vars
<1>2. RecordTypeOK'
  BY <1>1 DEF RecordIInv, RecordTypeOK
<1>3. SameRec(rec', rec) /\ SamePvt(pvt', pvt)
  BY <1>1, StateUpdates DEF RecordIInv
<1>4. SameCalls /\ SameShows
  BY <1>1 DEF SameCalls, SameShows, Active
<1> QED  BY <1>1, <1>2, <1>3, <1>4, QuietStep

\* What the record relies on is kept by every step of careful clients.
LEMMA RecordNext == ASSUME Careful = TRUE, RecordIInv, [Next]_vars PROVE RecordIInv'
<1>1. CASE Client
  BY <1>1, PutsKeep, ProcessingKeeps DEF Client
<1>2. CASE Environment
  BY <1>2, EnvironmentKeeps, QueuesKeep DEF Environment
<1>3. CASE Special
  BY <1>3, SpecialKeeps
<1>4. CASE ScanIoIntr \/ ProcessCallback
  BY <1>4, ProcessingKeeps
<1>5. CASE queueTimeoutCallbackProcess \/ queueTimeoutCallbackSpecial
  BY <1>5, QueuesKeep
<1>6. ASSUME NEW p \in Blocking, Serve(p) PROVE RecordIInv'
  BY <1>6, QueuesKeep
<1>7. ASSUME NEW a \in Threads, Callback(a) PROVE RecordIInv'
  BY <1>7, CallbacksKeep
<1>8. ASSUME NEW a \in Announcers, exceptCallback(a) PROVE RecordIInv'
  BY <1>8, EnvironmentKeeps
<1>9. CASE UNCHANGED vars
  BY <1>9, StutterKeeps
<1> QED  BY <1>1, <1>2, <1>3, <1>4, <1>5, <1>6, <1>7, <1>8, <1>9 DEF Next

LEMMA RecordInvariant == ASSUME Careful = TRUE PROVE Spec => []RecordIInv
<1> QED  BY RecordNext, RecordInit, PTL DEF Spec

-----------------------------------------------------------------------------
LEMMA EndsOnceHolds == ASSUME RecordIInv PROVE OneCompletion
<1> USE DEF RecordIInv
<1>1. \A p \in Blocking : Waiting(p) = Procs(queue[p])
  BY DEF Waiting, Procs
<1> DEFINE Queue == UNION {{<<"queue", p, i>> : i \in Waiting(p)} : p \in Blocking}
           Thread == {<<"thread", p, 1>> : p \in {q \in Blocking : Active(q)}}
           Timer == {<<"timer", Db, 1>> : t \in {timer} \cap {Process}}
           Completion == {<<"completion", Db, n>> : n \in 1..completions}
<1>2. /\ Endings = Queue \cup Thread \cup Timer \cup Completion
      /\ Queue # {} => rec.pact /\ timer # Process /\ completions = 0
                       /\ \E p \in Blocking : user.port = p /\ Queued(p) /\ ~Active(p)
      /\ Thread # {} => rec.pact /\ timer # Process /\ completions = 0
                        /\ \E p \in Blocking : user.port = p /\ ~Queued(p) /\ Active(p)
      /\ Timer # {} <=> timer = Process
      /\ Completion # {} <=> completions > 0
  <2>1. Endings = Queue \cup Thread \cup Timer \cup Completion
    BY DEF Endings
  <2>2. ASSUME Queue # {}
        PROVE  rec.pact /\ timer # Process /\ completions = 0
               /\ \E p \in Blocking : user.port = p /\ Queued(p) /\ ~Active(p)
    <3>1. PICK p \in Blocking : Waiting(p) # {}
      BY <2>2
    <3>2. Queued(p)
      BY <1>1, <3>1 DEF Queued
    <3> QED  BY <3>2 DEF OneInv
  <2>3. ASSUME Thread # {}
        PROVE  rec.pact /\ timer # Process /\ completions = 0
               /\ \E p \in Blocking : user.port = p /\ ~Queued(p) /\ Active(p)
    <3>1. PICK p \in Blocking : Active(p)
      BY <2>3
    <3> QED  BY <3>1 DEF OneInv
  <2>4. Timer # {} <=> timer = Process
    OBVIOUS
  <2>5. Completion # {} <=> completions > 0
    <3>1. completions \in Nat
      BY DEF RecordTypeOK
    <3>2. completions > 0 <=> 1 \in 1..completions
      BY <3>1
    <3>3. \A n \in 1..completions : completions > 0
      BY <3>1
    <3> QED  BY <3>2, <3>3
  <2> QED  BY <2>1, <2>2, <2>3, <2>4, <2>5
<1>3. \A d, e \in Queue : d = e
  <2>1. ASSUME NEW p \in Blocking, NEW i \in Waiting(p), NEW q \in Blocking, NEW j \in Waiting(q)
        PROVE  p = q /\ i = j
    <3>1. Queued(p) /\ Queued(q)
      BY <1>1, <2>1 DEF Queued
    <3>2. p = q
      BY <3>1 DEF OneInv
    <3> QED  BY <1>1, <2>1, <3>2 DEF OneInv, Lone
  <2> QED  BY <2>1
<1>4. \A d, e \in Thread : d = e
  BY DEF OneInv
<1>5. \A d, e \in Timer : d = e
  OBVIOUS
<1>6. \A d, e \in Completion : d = e
  <2>1. completions \in Nat /\ (completions > 0 => completions = 1)
    BY DEF RecordTypeOK, OneInv
  <2>2. \A n \in 1..completions : n = 1
    BY <2>1
  <2> QED  BY <2>2
<1>7. rec.pact => Queue # {} \/ Thread # {} \/ Timer # {} \/ Completion # {}
  <2> HAVE rec.pact
  <2>1. CASE user.port \in Blocking /\ Queued(user.port)
    <3>1. PICK i \in Waiting(user.port) : TRUE
      BY <1>1, <2>1 DEF Queued
    <3>2. <<"queue", user.port, i>> \in Queue
      BY <2>1
    <3> QED  BY <3>2
  <2>2. CASE user.port \in Blocking /\ Active(user.port)
    <3>1. <<"thread", user.port, 1>> \in Thread
      BY <2>2
    <3> QED  BY <3>1
  <2>3. CASE timer = Process \/ completions > 0
    BY <1>2, <2>3
  <2> QED  BY <2>1, <2>2, <2>3 DEF OneInv
<1>8. /\ Timer # {} => rec.pact /\ completions = 0
      /\ Completion # {} => rec.pact /\ timer # Process
  BY <1>2 DEF OneInv
<1> HIDE DEF Queue, Thread, Timer, Completion
<1>9. rec.pact <=> Endings # {}
  BY <1>2, <1>7, <1>8
<1>10. /\ Queue # {} => Thread = {} /\ Timer = {} /\ Completion = {}
       /\ Thread # {} => Timer = {} /\ Completion = {}
       /\ Timer # {} => Completion = {}
  <2>0. completions = 0 => ~(completions > 0)
    OBVIOUS
  <2>1. ASSUME Queue # {} PROVE Thread = {} /\ Timer = {} /\ Completion = {}
    BY <1>2, <2>0, <2>1
  <2>2. ASSUME Thread # {} PROVE Timer = {} /\ Completion = {}
    BY <1>2, <2>0, <2>2
  <2>3. ASSUME Timer # {} PROVE Completion = {}
    BY <1>2, <1>8, <2>0, <2>3
  <2> QED  BY <2>1, <2>2, <2>3
<1>11. \A d, e \in Endings : d = e
  BY <1>2, <1>3, <1>4, <1>5, <1>6, <1>10
<1> QED  BY <1>9, <1>11 DEF OneCompletion

\* Whoever answers the record's request first - the port's thread, the timer
\* (queueTimeoutCallbackProcess) or a put to AQR (cancelRequest) -, a record
\* with PACT set waits for that one answer, and process is never called for an
\* idle record.
THEOREM EndsOnce == ASSUME Careful = TRUE PROVE Spec => []OneCompletion
<1>1. RecordIInv => OneCompletion
  BY EndsOnceHolds
<1> QED  BY <1>1, RecordInvariant, PTL

\* A processing whose request was refused, cancelled or timed out, or whose
\* operation failed, ends with an alarm in SEVR (process, asynCallbackProcess);
\* excepted is an operation of performOctetIO whose write or flush failed, for
\* which the code raises no alarm.
THEOREM UndoneSeen == ASSUME Careful = TRUE PROVE Spec => []UndoneShown
<1>1. RecordIInv => UndoneShown
  <2> SUFFICES ASSUME RecordIInv, DbFree, ~rec.pact, ghost.io = "undone" PROVE rec.sevr > 0
    BY DEF UndoneShown
  <2>1. Null # Db
    BY RecordAssumption DEF RecordAssumption
  <2>2. ~Active(Db)
    BY <2>1 DEF RecordIInv, LockInv, DbFree
  <2> QED  BY <2>2 DEF RecordIInv, UndoneInv
<1> QED  BY <1>1, RecordInvariant, PTL

\* registerInterrupts and cancelInterrupts keep step with SCAN, PORT and IFACE:
\* the record is on one list of interrupt users or on none.
THEOREM RegisteredOnce == ASSUME Careful = TRUE PROVE Spec => []Registered
<1>1. RecordIInv => Registered
  <2> SUFFICES ASSUME RecordIInv, DbFree, NEW p \in Ports, NEW i \in Ifaces
               PROVE  regs[<<p, i>>] = IF rec.intr /\ p = user.port /\ i = rec.iface
                                       THEN 1 ELSE 0
    BY DEF Registered
  <2>1. /\ rec.intr => pvt.node = <<user.port, rec.iface>>
        /\ \A x \in Ports \X Ifaces : regs[x] = IF rec.intr /\ x = pvt.node THEN 1 ELSE 0
    BY DEF RecordIInv, IntrInv, DbFree, InProgram
  <2> QED  BY <2>1
<1> QED  BY <1>1, RecordInvariant, PTL

\* The parts of the record and of asynManager keep their types.
THEOREM RecordTypeCorrect == ASSUME Careful = TRUE PROVE Spec => []RecordTypeOK
<1>1. RecordIInv => RecordTypeOK
  BY DEF RecordIInv
<1> QED  BY <1>1, RecordInvariant, PTL

-----------------------------------------------------------------------------
(***************************************************************************)
(* FieldsShown: the order in which a call of special does what it has to,  *)
(* where the record is meanwhile, and who will show what is not yet shown. *)
(***************************************************************************)
Later(s, i, x) == \E j \in DOMAIN s : j > i /\ s[j] = x
Moves == {"connect", "disconnect"}
Ordered(s) ==
    \A i \in DOMAIN s :
        /\ s[i] = "remove" => i = 1 /\ 2 \in DOMAIN s /\ s[2] \in Moves
        /\ s[i] \in Moves => i = 1 \/ (i = 2 /\ s[1] = "remove")
        /\ s[i] = "connect" => Later(s, i, "add") /\ Later(s, i, "getOption")
                               /\ Later(s, i, "getEos")
        /\ s[i] = "add" => (i = 1 \/ s[i - 1] = "connect") /\ Later(s, i, "read")
        /\ s[i] = "read" => i + 1 \in DOMAIN s /\ s[i + 1] = "show"
        /\ s[i] = "show" => i = 1 \/ s[i - 1] = "read"

\* Requests on a queue or with the timer; threads in a callback.
OnQueue(r) == \E p \in Blocking : \E i \in DOMAIN queue[p] : queue[p][i] = r
Held(r) == OnQueue(r) \/ timer = r
Busy(a) == thread[a].step # "wait"

\* While the record is not on the list of its port nothing is under way; requests
\* and exception callbacks are those of the port it is connected to.
Calm == /\ timer = Null
        /\ \A p \in Blocking : queue[p] = <<>>
        /\ \A a \in Threads : ~Busy(a)
Moving == InProgram("connect") \/ InProgram("disconnect") \/ InProgram("add")
PlaceInv ==
    /\ ~user.onList \/ InProgram("remove") => Calm
    /\ user.onList => user.port # Null /\ (Moving => InProgram("remove"))
    /\ ~user.onList => user.port = Null \/ Moving
    /\ InProgram("add") => InProgram("connect") \/ user.port # Null
    /\ \A a \in Announcers : ann[a].step \in {"lock", "show"} =>
         user.onList /\ ann[a].port = user.port /\ ~InProgram("remove")
    /\ \A p \in Blocking : Busy(p) \/ queue[p] # <<>> => user.port = p
    /\ Busy(Db) => /\ user.port \notin Blocking /\ scanLock = Db
                   /\ program # <<>> => Head(program) # "show"

\* Who is about to show the connection has seen it as it is, or an exception
\* callback is still to come; and if it is not shown as it is, somebody will.
Coming == \E a \in Announcers : ann[a].step = "lock"
Asked ==
    LET r == Request("connect", Null) IN
    \/ InProgram("request") \/ "cnct" \in ghost.unserved
    \/ Held(r) \/ \E a \in Threads : Busy(a) /\ thread[a].req = r
StatusInv ==
    /\ \A a \in Announcers : ann[a].step = "show" => ann[a].seen = Connected \/ Coming
    /\ \A p \in Blocking : thread[p].step = "show" => thread[p].seen = Connected
    /\ thread[Db].step = "show" => thread[Db].seen = Connected \/ Coming
    /\ user.onList /\ program # <<>> /\ Head(program) = "show" => seen = Connected \/ Coming
    /\ user.onList => \/ rec.cnct = Connected \/ Coming \/ Asked
                      \/ \E a \in Announcers : ann[a].step = "show"
                      \/ InProgram("read") \/ InProgram("show")

\* A field is shown as the port has it, or somebody will look, or has failed to.
Unread(r) ==
    Held(r) \/ \E a \in Threads : thread[a].step \in {"act", "get"} /\ thread[a].req = r
ToCome(f) ==
    \/ f \in ghost.unserved
    \/ \E r \in Requests : f \in FieldsOf(r) /\ Unread(r)
    \/ InProgram(f) \/ InProgram(IF f \in EosFields THEN "getEos" ELSE "getOption")
OptionsInv ==
    user.port # Null /\ (rec.pcnct \/ InProgram("pcnct")) =>
        \A f \in Fields : IfaceOf(f) \in Supports[user.port] =>
            ToCome(f) \/ rec.opt[f] = dev[user.port].opt[f]

GhostOK == ghost \in [io : Outcomes, unserved : SUBSET (Fields \cup {"cnct"})]
FieldsInv == Ordered(program) /\ GhostOK /\ PlaceInv /\ StatusInv /\ OptionsInv

\* A step that leaves the record on its port, and special where it is.
Stays == user'.port = user.port /\ user'.onList = user.onList /\ program' = program
SameAnn == \A a \in Announcers : \/ ann'[a] = ann[a]
                                 \/ {ann[a].step, ann'[a].step} \cap {"lock", "show"} = {}

LEMMA PlaceFrame ==
    ASSUME PlaceInv, Stays, Calm => Calm',
           \A p \in Blocking : Busy(p)' \/ queue'[p] # <<>> => Busy(p) \/ queue[p] # <<>>,
           Busy(Db)' => Busy(Db) /\ scanLock' = scanLock,
           \A a \in Announcers : ann'[a].step \in {"lock", "show"} =>
             \/ ann[a].step \in {"lock", "show"} /\ ann'[a].port = ann[a].port
             \/ user.onList /\ ann'[a].port = user.port /\ ~InProgram("remove")
    PROVE  PlaceInv'
BY DEF PlaceInv, Stays, InProgram, Moving

LEMMA StatusFrame ==
    ASSUME StatusInv, Stays, Connected' = Connected, rec'.cnct = rec.cnct, seen' = seen,
           SameAnn, Asked => Asked',
           \A a \in Threads : thread'[a].step = "show" =>
             thread[a].step = "show" /\ thread'[a].seen = thread[a].seen
    PROVE  StatusInv'
<1>1. /\ Coming' <=> Coming
      /\ \A a \in Announcers : ann'[a].step = "show" <=> ann[a].step = "show"
      /\ \A a \in Announcers : ann'[a].step = "show" => ann'[a].seen = ann[a].seen
  BY DEF SameAnn, Coming
<1>2. /\ InProgram("read")' <=> InProgram("read")
      /\ InProgram("show")' <=> InProgram("show")
  BY DEF Stays, InProgram
<1> QED  BY <1>1, <1>2 DEF StatusInv, Stays, Threads

\* An exception callback that is still to come will show everything.
LEMMA StatusComing ==
    ASSUME Coming', \A p \in Blocking : thread'[p].step = "show" => thread'[p].seen = Connected'
    PROVE  StatusInv'
BY DEF StatusInv

LEMMA OptionsFrame ==
    ASSUME OptionsInv, user'.port = user.port, rec'.pcnct = rec.pcnct, rec'.opt = rec.opt,
           InProgram("pcnct")' => InProgram("pcnct"),
           user.port # Null => dev'[user.port].opt = dev[user.port].opt,
           \A f \in Fields : ToCome(f) => ToCome(f)'
    PROVE  OptionsInv'
BY DEF OptionsInv

\* What is to come stays so if no request for it is lost.
LEMMA ToComeFrame ==
    ASSUME program' = program, NEW f \in Fields, ToCome(f),
           f \in ghost.unserved => f \in ghost'.unserved,
           \A r \in Requests : Unread(r) /\ f \in FieldsOf(r) => Unread(r)' \/ f \in ghost'.unserved
    PROVE  ToCome(f)'
BY DEF ToCome, InProgram

LEMMA AskedFrame ==
    ASSUME program' = program, "cnct" \in ghost.unserved => "cnct" \in ghost'.unserved,
           LET r == Request("connect", Null) IN
             Held(r) \/ (\E a \in Threads : Busy(a) /\ thread[a].req = r) =>
               \/ Held(r)' \/ \E a \in Threads : Busy(a)' /\ thread'[a].req = r
               \/ "cnct" \in ghost'.unserved,
           Asked
    PROVE  Asked'
BY DEF Asked, InProgram

\* A request is taken off its queue.
LEMMA QueueTaken ==
    ASSUME RecordTypeOK, NEW p \in Blocking, NEW i \in DOMAIN queue[p],
           queue' = [queue EXCEPT ![p] = RemoveAt(@, i)]
    PROVE  /\ OnQueue(queue[p][i]) /\ queue[p] # <<>> /\ queue[p][i] \in Requests
           /\ \A r : OnQueue(r) => OnQueue(r)' \/ r = queue[p][i]
           /\ \A q \in Blocking : queue[q] = <<>> => queue'[q] = <<>>
<1> DEFINE old == queue[p]
<1>1. /\ old \in Seq(Requests) /\ i \in 1..Len(old) /\ DOMAIN old = 1..Len(old)
      /\ queue' = [queue EXCEPT ![p] = RemoveAt(old, i)] /\ queue \in [Blocking -> Seq(Requests)]
  BY LenProperties DEF RecordTypeOK
<1> DEFINE new == RemoveAt(old, i)
<1>2. /\ new \in Seq(Requests) /\ Len(new) = Len(old) - 1
      /\ \A j \in 1..Len(old) - 1 : new[j] = IF j < i THEN old[j] ELSE old[j + 1]
  <2> HIDE DEF old
  <2> QED  BY <1>1, RemoveAtProperties
<1>3. queue'[p] = new /\ \A q \in Blocking \ {p} : queue'[q] = queue[q]
  BY <1>1
<1> HIDE DEF new
<1>4. DOMAIN new = 1..Len(old) - 1 /\ Len(old) \in Nat
  BY <1>1, <1>2, LenProperties
<1>5. ASSUME NEW j \in DOMAIN old PROVE old[j] = old[i] \/ \E k \in DOMAIN new : new[k] = old[j]
  <2>1. CASE j = i
    BY <2>1
  <2>2. CASE j < i
    BY <1>1, <1>2, <1>4, <2>2
  <2>3. CASE j > i
    <3>1. j - 1 \in 1..Len(old) - 1 /\ ~(j - 1 < i) /\ (j - 1) + 1 = j
      BY <1>1, <1>4, <2>3
    <3> QED  BY <1>2, <1>4, <3>1
  <2> QED  BY <1>1, <1>4, <2>1, <2>2, <2>3
<1>6. ASSUME NEW r, OnQueue(r) PROVE OnQueue(r)' \/ r = queue[p][i]
  <2>1. PICK q \in Blocking : \E j \in DOMAIN queue[q] : queue[q][j] = r
    BY <1>6 DEF OnQueue
  <2>2. CASE q = p
    BY <1>3, <1>5, <2>1, <2>2 DEF OnQueue
  <2>3. CASE q # p
    BY <1>3, <2>1, <2>3 DEF OnQueue
  <2> QED  BY <2>2, <2>3
<1>7. OnQueue(queue[p][i]) /\ queue[p] # <<>> /\ queue[p][i] \in Requests
  BY <1>1 DEF OnQueue
<1> QED  BY <1>3, <1>6, <1>7

\* The fields that requests are about, and how the ghost is written.
LEMMA FieldFacts ==
    /\ FieldsOf(Process) = {} /\ FieldsOf(Request("connect", Null)) = {"cnct"}
    /\ FieldsOf(Request("getOption", Null)) = Fields \ EosFields
    /\ FieldsOf(Request("getEos", Null)) = EosFields
    /\ \A f \in Fields : FieldsOf(Request("set", f)) = {f}
    /\ \A r \in Requests : FieldsOf(r) \subseteq Fields \cup {"cnct"}
    /\ Request("connect", Null) \in Requests
    /\ Request("connect", Null) # Process /\ Request("connect", Null) # Null
    /\ EosFields \subseteq Fields /\ "cnct" \notin Fields /\ Null \notin Fields
    /\ Fields \cap Steps = {}
<1>1. /\ EosFields \subseteq Fields /\ Fields \cap (Steps \cup {"cnct", Null}) = {}
      /\ Null \notin Requests
  BY RecordAssumption DEF RecordAssumption
<1>2. \A k, f : Request(k, f).kind = k /\ Request(k, f).field = f
  BY DEF Request
<1>3. \A r \in Requests : \/ r = Process \/ r = Request("getOption", Null)
                          \/ r = Request("getEos", Null) \/ r = Request("connect", Null)
                          \/ \E f \in Fields : r = Request("set", f)
  BY DEF Requests, Process
<1>4. Request("connect", Null) \in Requests
  BY DEF Requests
<1>5. Request("connect", Null) # Process
  BY <1>2 DEF Process
<1>6. /\ FieldsOf(Process) = {} /\ FieldsOf(Request("connect", Null)) = {"cnct"}
      /\ FieldsOf(Request("getOption", Null)) = Fields \ EosFields
      /\ FieldsOf(Request("getEos", Null)) = EosFields
      /\ \A f \in Fields : FieldsOf(Request("set", f)) = {f}
  BY <1>2 DEF FieldsOf, Process
<1> QED  BY <1>1, <1>3, <1>4, <1>5, <1>6

LEMMA GhostUpdates ==
    ASSUME GhostOK
    PROVE  /\ \A u \in SUBSET (Fields \cup {"cnct"}) :
                /\ [ghost EXCEPT !.unserved = @ \cup u]
                     \in [io : Outcomes, unserved : SUBSET (Fields \cup {"cnct"})]
                /\ [ghost EXCEPT !.unserved = @ \cup u].unserved = ghost.unserved \cup u
           /\ \A u :
                /\ [ghost EXCEPT !.unserved = @ \ u]
                     \in [io : Outcomes, unserved : SUBSET (Fields \cup {"cnct"})]
                /\ [ghost EXCEPT !.unserved = @ \ u].unserved = ghost.unserved \ u
           /\ \A b \in Outcomes :
                /\ [ghost EXCEPT !.io = b]
                     \in [io : Outcomes, unserved : SUBSET (Fields \cup {"cnct"})]
                /\ [ghost EXCEPT !.io = b].unserved = ghost.unserved
BY DEF GhostOK

\* "remove" comes first.
LEMMA RemoveLeads ==
    ASSUME program \in Seq(Steps \cup Fields), Ordered(program), InProgram("remove")
    PROVE  program # <<>> /\ Head(program) = "remove"
<1>1. PICK i \in DOMAIN program : program[i] = "remove"
  BY DEF InProgram
<1>2. i = 1 /\ 1 \in DOMAIN program /\ program[1] = "remove"
  BY <1>1 DEF Ordered
<1> QED  BY <1>2

\* The announcements as the record hears of them.
LEMMA ExceptShows ==
    ASSUME RecordIInv, RecordIInv', FieldsInv, NEW a \in Announcers, exceptCallback(a)
    PROVE  FieldsInv'
<1> USE DEF FieldsInv
<1>0. /\ ann \in [Announcers -> Announcement] /\ Null # Db /\ a # Db /\ a # Null
      /\ Announcers = Blocking \cup {Shell}
  BY RecordAssumption DEF RecordIInv, RecordTypeOK, RecordAssumption, Announcers
<1>1. CASE ExceptCallback(a)
  <2>1. /\ ann[a].step = "lock" /\ scanLock = Null
        /\ ann' = [ann EXCEPT ![a].step = "show", ![a].seen = Connected]
        /\ UNCHANGED <<rec, pvt, user, queue, thread, timer, dev, program, seen, ghost>>
    BY <1>1 DEF ExceptCallback
  <2>2. /\ ann'[a].step = "show" /\ ann'[a].seen = Connected /\ ann'[a].port = ann[a].port
        /\ \A b \in Announcers \ {a} : ann'[b] = ann[b]
    BY <1>0, <2>1 DEF Announcement
  <2>3. /\ program = <<>> /\ ~Busy(Db) /\ \A b \in Announcers : ann[b].step # "show"
    BY <1>0, <2>1 DEF RecordIInv, LockInv, PlaceInv
  <2>4. Calm' <=> Calm
    BY <2>1 DEF Calm, Busy
  <2>5. PlaceInv'
    BY <2>1, <2>2, <2>3, <2>4, PlaceFrame DEF Stays, Busy
  <2>6. Connected' = Connected /\ (\A f \in Fields : ToCome(f) => ToCome(f)')
    BY <2>1 DEF Connected, ToCome, InProgram, Unread, Held, OnQueue
  <2>7. StatusInv'
    BY <2>1, <2>2, <2>3, <2>6 DEF StatusInv, Busy
  <2>8. OptionsInv'
    BY <2>1, <2>6, OptionsFrame DEF InProgram
  <2> QED  BY <2>1, <2>5, <2>7, <2>8 DEF GhostOK
<1>2. CASE ExceptShown(a)
  <2>1. /\ ann[a].step = "show" /\ rec' = [rec EXCEPT !.cnct = ann[a].seen]
        /\ ann' = [ann EXCEPT ![a].step = "end"]
        /\ UNCHANGED <<pvt, user, queue, thread, timer, dev, program, seen, ghost>>
    BY <1>2 DEF ExceptShown
  <2>2. /\ ann'[a].step = "end" /\ \A b \in Announcers \ {a} : ann'[b] = ann[b]
        /\ rec'.cnct = ann[a].seen /\ rec'.opt = rec.opt /\ rec'.pcnct = rec.pcnct
    BY <1>0, <2>1 DEF Announcement, RecordIInv, RecordTypeOK, RecFields
  <2>3. /\ scanLock = a /\ program = <<>> /\ ~Busy(Db)
        /\ \A b \in Announcers : ann[b].step = "show" => b = a
    BY <1>0, <2>1 DEF RecordIInv, LockInv, PlaceInv
  <2>4. (Calm' <=> Calm) /\ (Coming => Coming')
    BY <2>1, <2>2 DEF Calm, Busy, Coming
  <2>5. PlaceInv'
    BY <2>1, <2>2, <2>3, <2>4, PlaceFrame DEF Stays, Busy
  <2>6. Connected' = Connected /\ (\A f \in Fields : ToCome(f) => ToCome(f)')
    BY <2>1 DEF Connected, ToCome, InProgram, Unread, Held, OnQueue
  <2>7. StatusInv'
    BY <2>1, <2>2, <2>3, <2>4, <2>6 DEF StatusInv, Busy
  <2>8. OptionsInv'
    BY <2>1, <2>2, <2>6, OptionsFrame DEF InProgram
  <2> QED  BY <2>1, <2>5, <2>7, <2>8 DEF GhostOK
<1>3. CASE AnnounceEnd(a)
  <2>1. /\ ann[a].step = "end" /\ ann' = [ann EXCEPT ![a] = Silent]
        /\ UNCHANGED <<rec, pvt, user, queue, thread, timer, dev, scanLock, program, seen, ghost>>
    BY <1>3 DEF AnnounceEnd
  <2>2. ann'[a].step = "none" /\ \A b \in Announcers \ {a} : ann'[b] = ann[b]
    BY <1>0, <2>1 DEF Silent
  <2>3. SameAnn
    BY <2>1, <2>2 DEF SameAnn
  <2>4. Calm' <=> Calm
    BY <2>1 DEF Calm, Busy
  <2>5. PlaceInv'
    BY <2>1, <2>2, <2>4, PlaceFrame DEF Stays, Busy
  <2>6. /\ Connected' = Connected /\ (\A f \in Fields : ToCome(f) => ToCome(f)')
        /\ Asked => Asked'
    BY <2>1 DEF Connected, ToCome, Asked, InProgram, Unread, Held, OnQueue, Busy
  <2>7. StatusInv'
    BY <2>1, <2>3, <2>6, StatusFrame DEF Stays
  <2>8. OptionsInv'
    BY <2>1, <2>6, OptionsFrame DEF InProgram
  <2> QED  BY <2>1, <2>5, <2>7, <2>8 DEF GhostOK
<1> QED  BY <1>1, <1>2, <1>3 DEF exceptCallback

\* Nothing changes that the fields show, and nobody is asked.
LEMMA FieldsFrame ==
    ASSUME FieldsInv, Stays, GhostOK', ghost'.unserved = ghost.unserved,
           UNCHANGED <<queue, thread, timer, seen>>,
           scanLock' = scanLock,
           rec'.cnct = rec.cnct, rec'.opt = rec.opt, rec'.pcnct = rec.pcnct,
           Connected' = Connected, user.port # Null => dev'[user.port].opt = dev[user.port].opt,
           SameAnn
    PROVE  FieldsInv'
<1> USE DEF FieldsInv
<1>1. Calm' <=> Calm
  BY DEF Calm, Busy
<1>2. PlaceInv'
  BY <1>1, PlaceFrame DEF Stays, Busy, SameAnn
<1>3. (\A f \in Fields : ToCome(f) => ToCome(f)') /\ (Asked => Asked')
  BY DEF ToCome, Asked, InProgram, Unread, Held, OnQueue, Busy, Stays
<1>4. StatusInv'
  BY <1>3, StatusFrame
<1>5. OptionsInv'
  BY <1>3, OptionsFrame DEF InProgram, Stays
<1> QED  BY <1>2, <1>4, <1>5 DEF GhostOK, Stays

\* An announcement of port p: the record hears of it if it is connected to p.
LEMMA AnnounceShows ==
    ASSUME RecordIInv, FieldsInv, NEW a \in Announcers, NEW p \in Ports, Announce(a, p),
           UNCHANGED <<rec, user, queue, thread, timer, scanLock, program, seen, ghost>>,
           Disturbs = FALSE, Careful = TRUE,
           \A q \in Ports : dev'[q].opt = dev[q].opt,
           \A q \in Ports : dev'[q].connected = dev[q].connected \/ q = p,
           p \in Blocking /\ thread[p].step = "show" => dev'[p].connected = dev[p].connected
    PROVE  FieldsInv'
<1> USE DEF FieldsInv
<1>0. /\ ann \in [Announcers -> Announcement] /\ ann[a].step = "none"
      /\ ann' = [ann EXCEPT ![a] =
                   [step |-> IF user.port = p /\ user.onList THEN "lock" ELSE "end",
                    port |-> p, seen |-> FALSE]]
      /\ user.port \in Ports \cup {Null} /\ Null \notin Ports
  BY RecordAssumption DEF RecordIInv, RecordTypeOK, Announce, asynUser, RecordAssumption
<1>1. /\ ann'[a].step = IF user.port = p /\ user.onList THEN "lock" ELSE "end"
      /\ ann'[a].port = p
      /\ \A b \in Announcers \ {a} : ann'[b] = ann[b]
  BY <1>0
<1>2. CASE user.port = p /\ user.onList
  <2>1. ~InProgram("remove")
    BY RemoveLeads DEF RecordIInv, RecordTypeOK, Disturbs
  <2>2. Calm' <=> Calm
    BY DEF Calm, Busy
  <2>3. PlaceInv'
    BY <1>1, <1>2, <2>1, <2>2, PlaceFrame DEF Stays, Busy
  <2>4. Coming'
    BY <1>1, <1>2 DEF Coming
  <2>5. ASSUME NEW q \in Blocking, thread'[q].step = "show" PROVE thread'[q].seen = Connected'
    <3>1. user.port = q
      BY <2>5 DEF PlaceInv, Busy
    <3> QED  BY <1>2, <2>5, <3>1 DEF StatusInv, Connected
  <2>6. StatusInv'
    BY <2>4, <2>5, StatusComing
  <2>7. \A f \in Fields : ToCome(f) => ToCome(f)'
    BY DEF ToCome, InProgram, Unread, Held, OnQueue
  <2>8. OptionsInv'
    BY <1>2, <2>7, OptionsFrame DEF InProgram
  <2> QED  BY <2>3, <2>6, <2>8 DEF GhostOK
<1>3. CASE user.port # p
  <2>1. SameAnn
    BY <1>0, <1>1, <1>3 DEF SameAnn
  <2>2. Connected' = Connected /\ (user.port # Null => dev'[user.port].opt = dev[user.port].opt)
    BY <1>0, <1>3 DEF Connected
  <2> QED  BY <2>1, <2>2, FieldsFrame DEF Stays, GhostOK
<1>4. CASE ~user.onList
  <2>1. SameAnn
    BY <1>0, <1>1, <1>4 DEF SameAnn
  <2>2. Calm' <=> Calm
    BY DEF Calm, Busy
  <2>3. PlaceInv'
    BY <2>1, <2>2, PlaceFrame DEF Stays, Busy, SameAnn
  <2>4. StatusInv'
    <3>1. /\ \A b \in Announcers : ann'[b].step \notin {"lock", "show"}
          /\ \A b \in Threads : thread'[b].step = "wait" /\ ~user'.onList
      BY <1>1, <1>4, <2>2 DEF PlaceInv, Calm, Busy
    <3> QED  BY <3>1 DEF StatusInv, Threads
  <2>5. \A f \in Fields : ToCome(f) => ToCome(f)'
    BY DEF ToCome, InProgram, Unread, Held, OnQueue
  <2>6. OptionsInv'
    BY <1>0, <2>5, OptionsFrame DEF InProgram
  <2> QED  BY <2>3, <2>4, <2>6 DEF GhostOK
<1> QED  BY <1>2, <1>3, <1>4

LEMMA EnvironmentShows ==
    ASSUME RecordIInv, FieldsInv, Careful = TRUE,
           \/ \E p \in Ports : LineChanges(p)
           \/ \E p \in Ports, b \in BOOLEAN : EnableByOther(p, b)
           \/ \E p \in Ports, i \in Ifaces : callbackInterrupt(p, i)
    PROVE  FieldsInv'
<1>0. /\ dev \in [Ports -> Port] /\ Blocking \subseteq Ports /\ Shell \in Announcers
      /\ Announcers = Blocking \cup {Shell}
  BY RecordAssumption DEF RecordIInv, RecordTypeOK, RecordAssumption, Announcers
<1>1. ASSUME NEW p \in Ports, LineChanges(p) PROVE FieldsInv'
  <2> DEFINE a == IF p \in Blocking THEN p ELSE Shell
  <2>1. /\ a \in Announcers /\ Announce(a, p) /\ Disturbs = FALSE
        /\ dev' = [dev EXCEPT ![p].connected = ~@]
        /\ p \in Blocking => thread[p].step = "wait"
        /\ UNCHANGED <<rec, user, queue, thread, timer, scanLock, program, seen, ghost>>
    BY <1>0, <1>1 DEF LineChanges, Disturbs
  <2> HIDE DEF a
  <2>2. /\ \A q \in Ports : dev'[q].opt = dev[q].opt
        /\ \A q \in Ports : dev'[q].connected = dev[q].connected \/ q = p
    BY <1>0, <2>1 DEF Port
  <2> QED  BY <2>1, <2>2, AnnounceShows
<1>2. ASSUME NEW p \in Ports, NEW b \in BOOLEAN, EnableByOther(p, b) PROVE FieldsInv'
  <2>1. /\ Announce(Shell, p) /\ Disturbs = FALSE
        /\ dev' = [dev EXCEPT ![p].enabled = b]
        /\ UNCHANGED <<rec, user, queue, thread, timer, scanLock, program, seen, ghost>>
    BY <1>2 DEF EnableByOther, Disturbs
  <2>2. /\ \A q \in Ports : dev'[q].opt = dev[q].opt
        /\ \A q \in Ports : dev'[q].connected = dev[q].connected
    BY <1>0, <2>1 DEF Port
  <2> QED  BY <1>0, <2>1, <2>2, AnnounceShows
<1>3. ASSUME NEW p \in Ports, NEW i \in Ifaces, callbackInterrupt(p, i) PROVE FieldsInv'
  <2>1. UNCHANGED <<rec, user, queue, thread, timer, dev, ann, scanLock, program, seen, ghost>>
    BY <1>3 DEF callbackInterrupt, manager
  <2>2. Connected' = Connected /\ Stays /\ SameAnn /\ GhostOK'
    BY <2>1 DEF Connected, Stays, SameAnn, FieldsInv, GhostOK
  <2> QED  BY <2>1, <2>2, FieldsFrame
<1> QED  BY <1>1, <1>2, <1>3

\* The queues of the ports and their timers: no request is lost that is not told.
LEMMA QueuesShow ==
    ASSUME RecordIInv, RecordIInv', FieldsInv,
           \/ \E p \in Blocking : Serve(p) \/ Timeout(p)
           \/ queueTimeoutCallbackProcess \/ queueTimeoutCallbackSpecial
    PROVE  FieldsInv'
<1> USE DEF FieldsInv
<1>0. /\ RecordTypeOK /\ thread \in [Threads -> Call] /\ Blocking \subseteq Threads
      /\ Db \notin Blocking /\ Db \in Threads /\ rec \in RecFields /\ Null \notin Requests
  BY RecordAssumption DEF RecordIInv, RecordTypeOK, Threads, RecordAssumption
<1>1. ASSUME NEW p \in Blocking, Serve(p) PROVE FieldsInv'
  <2>1. PICK i \in DOMAIN queue[p] :
          /\ thread' = [thread EXCEPT ![p] = [Idle EXCEPT !.step = "act", !.req = queue[p][i]]]
          /\ queue' = [queue EXCEPT ![p] = RemoveAt(@, i)]
    BY <1>1 DEF Serve
  <2>2. /\ thread[p].step = "wait"
        /\ UNCHANGED <<rec, user, timer, dev, ann, scanLock, program, seen, ghost>>
    BY <1>1 DEF Serve
  <2>3. /\ OnQueue(queue[p][i]) /\ queue[p] # <<>>
        /\ \A r : OnQueue(r) => OnQueue(r)' \/ r = queue[p][i]
        /\ \A q \in Blocking : queue[q] = <<>> => queue'[q] = <<>>
    BY <1>0, <2>1, QueueTaken
  <2>4. /\ thread'[p].step = "act" /\ thread'[p].req = queue[p][i]
        /\ \A a \in Threads \ {p} : thread'[a] = thread[a]
    BY <1>0, <2>1 DEF Idle
  <2>5. ~Calm
    BY <2>3 DEF Calm
  <2>6. PlaceInv'
    BY <1>0, <2>2, <2>3, <2>4, <2>5, PlaceFrame DEF Stays, Busy
  <2>7. \A r \in Requests : Unread(r) => Unread(r)'
    BY <1>0, <2>2, <2>3, <2>4 DEF Unread, Held
  <2>8. \A f \in Fields : ToCome(f) => ToCome(f)'
    BY <2>2, <2>7, ToComeFrame
  <2>9. Asked => Asked'
    BY <1>0, <2>2, <2>3, <2>4, AskedFrame DEF Held, Busy
  <2>10. Connected' = Connected /\ SameAnn /\ Stays
    BY <2>2 DEF Connected, SameAnn, Stays
  <2>11. StatusInv'
    BY <1>0, <2>2, <2>4, <2>9, <2>10, StatusFrame
  <2>12. OptionsInv'
    BY <2>2, <2>8, OptionsFrame DEF InProgram
  <2> QED  BY <2>2, <2>6, <2>11, <2>12 DEF GhostOK
<1>2. ASSUME NEW p \in Blocking, Timeout(p) PROVE FieldsInv'
  <2>1. PICK i \in DOMAIN queue[p] :
          /\ timer' = queue[p][i]
          /\ queue' = [queue EXCEPT ![p] = RemoveAt(@, i)]
    BY <1>2 DEF Timeout
  <2>2. /\ timer = Null
        /\ UNCHANGED <<rec, user, thread, dev, ann, scanLock, program, seen, ghost>>
    BY <1>2 DEF Timeout
  <2>3. /\ OnQueue(queue[p][i]) /\ queue[p] # <<>>
        /\ \A r : OnQueue(r) => OnQueue(r)' \/ r = queue[p][i]
        /\ \A q \in Blocking : queue[q] = <<>> => queue'[q] = <<>>
    BY <1>0, <2>1, QueueTaken
  <2>5. ~Calm
    BY <2>3 DEF Calm
  <2>6. PlaceInv'
    BY <2>2, <2>3, <2>5, PlaceFrame DEF Stays, Busy
  <2>7. \A r \in Requests : /\ Held(r) => Held(r)'
                            /\ Unread(r) => Unread(r)'
    BY <1>0, <2>1, <2>2, <2>3 DEF Unread, Held
  <2>8. \A f \in Fields : ToCome(f) => ToCome(f)'
    BY <2>2, <2>7, ToComeFrame
  <2>9. Asked => Asked'
    BY <2>2, <2>7, FieldFacts, AskedFrame DEF Busy
  <2>10. Connected' = Connected /\ SameAnn /\ Stays
    BY <2>2 DEF Connected, SameAnn, Stays
  <2>11. StatusInv'
    BY <2>2, <2>9, <2>10, StatusFrame
  <2>12. OptionsInv'
    BY <2>2, <2>8, OptionsFrame DEF InProgram
  <2> QED  BY <2>2, <2>6, <2>11, <2>12 DEF GhostOK
<1>3. ASSUME queueTimeoutCallbackProcess \/ queueTimeoutCallbackSpecial PROVE FieldsInv'
  <2>1. /\ timer \in Requests /\ timer' = Null
        /\ UNCHANGED <<user, queue, thread, dev, ann, scanLock, program, seen>>
        /\ GhostOK' /\ ghost.unserved \subseteq ghost'.unserved
        /\ FieldsOf(timer) \subseteq ghost'.unserved
        /\ rec'.cnct = rec.cnct /\ rec'.opt = rec.opt /\ rec'.pcnct = rec.pcnct
    <3>1. CASE queueTimeoutCallbackProcess
      <4>1. rec' = [rec EXCEPT !.nsev = 2] /\ ghost' = ghost /\ timer = Process
        BY <3>1 DEF queueTimeoutCallbackProcess, TimedOut
      <4>2. rec'.cnct = rec.cnct /\ rec'.opt = rec.opt /\ rec'.pcnct = rec.pcnct
        BY <1>0, <4>1 DEF RecFields
      <4> QED  BY <3>1, <4>1, <4>2, FieldFacts, RequestFacts DEF queueTimeoutCallbackProcess, GhostOK
    <3>2. CASE queueTimeoutCallbackSpecial
      <4>1. /\ timer \in Requests /\ ghost' = [ghost EXCEPT !.unserved = @ \cup FieldsOf(timer)]
        BY <1>0, <3>2 DEF queueTimeoutCallbackSpecial, RecordTypeOK
      <4>2. FieldsOf(timer) \in SUBSET (Fields \cup {"cnct"})
        BY <4>1, FieldFacts
      <4> QED  BY <3>2, <4>1, <4>2, GhostUpdates DEF queueTimeoutCallbackSpecial, GhostOK
    <3> QED  BY <1>3, <3>1, <3>2
  <2>2. Calm => Calm'
    BY <2>1 DEF Calm, Busy
  <2>3. PlaceInv'
    BY <2>1, <2>2, PlaceFrame DEF Stays, Busy
  <2>4. \A r \in Requests : Unread(r) => Unread(r)' \/ FieldsOf(r) \subseteq ghost'.unserved
    BY <2>1 DEF Unread, Held, OnQueue
  <2>5. \A f \in Fields : ToCome(f) => ToCome(f)'
    BY <2>1, <2>4, ToComeFrame
  <2>6. Asked => Asked'
    <3>1. Held(Request("connect", Null)) =>
            Held(Request("connect", Null))' \/ "cnct" \in ghost'.unserved
      BY <2>1, FieldFacts DEF Held, OnQueue
    <3> QED  BY <2>1, <3>1, AskedFrame DEF Busy
  <2>7. Connected' = Connected /\ SameAnn /\ Stays
    BY <2>1 DEF Connected, SameAnn, Stays
  <2>8. StatusInv'
    BY <2>1, <2>6, <2>7, StatusFrame
  <2>9. OptionsInv'
    BY <2>1, <2>5, OptionsFrame DEF InProgram
  <2> QED  BY <2>1, <2>3, <2>8, <2>9
<1> QED  BY <1>1, <1>2, <1>3

-----------------------------------------------------------------------------
\* A thread is in a callback: of the port the record is connected to, and no
\* other thread is.
LEMMA CallFacts ==
    ASSUME RecordIInv, FieldsInv, NEW a \in Threads, Busy(a)
    PROVE  /\ user.onList /\ ~InProgram("remove") /\ ~Calm
           /\ user.port \in Ports /\ pvt.bound = user.port
           /\ a \in Blocking => user.port = a /\ a \in Announcers /\ a # Db
           /\ a \notin Blocking => /\ a = Db /\ user.port \notin Blocking /\ scanLock = Db
                                   /\ program # <<>> => Head(program) # "show"
                                   /\ \A b \in Announcers : ann[b].step # "show"
           /\ \A b \in Threads \ {a} : ~Busy(b)
<1>0. /\ Db \notin Announcers /\ Db \notin Blocking /\ user.port \in Ports \cup {Null}
      /\ Threads = Blocking \cup {Db} /\ Blocking \subseteq Announcers
  BY RecordAssumption DEF RecordIInv, RecordTypeOK, asynUser, Threads, Announcers, RecordAssumption
<1>1. ~Calm /\ user.onList /\ ~InProgram("remove")
  BY DEF Calm, FieldsInv, PlaceInv
<1>2. user.port \in Ports /\ pvt.bound = user.port
  BY <1>0, <1>1 DEF FieldsInv, PlaceInv, RecordIInv, IntrInv
<1>3. /\ \A p \in Blocking : Busy(p) => user.port = p
      /\ Busy(Db) => user.port \notin Blocking /\ scanLock = Db
                     /\ (program # <<>> => Head(program) # "show")
  BY DEF FieldsInv, PlaceInv
<1>4. Busy(Db) => \A b \in Announcers : ann[b].step # "show"
  BY <1>0, <1>3 DEF RecordIInv, LockInv
<1> QED  BY <1>0, <1>1, <1>2, <1>3, <1>4

\* Its step keeps the record where it is.
LEMMA CallPlace ==
    ASSUME RecordIInv, FieldsInv, NEW a \in Threads, Busy(a),
           \A b \in Threads \ {a} : thread'[b] = thread[b],
           UNCHANGED <<queue, timer, program>>,
           user'.port = user.port, user'.onList = user.onList,
           Busy(Db)' => scanLock' = scanLock,
           SameAnn \/ \E b \in Announcers : /\ \A c \in Announcers \ {b} : ann'[c] = ann[c]
                                            /\ ann'[b].port = user.port
    PROVE  PlaceInv'
<1>1. user.onList /\ ~InProgram("remove") /\ ~Calm /\ \A b \in Threads \ {a} : ~Busy(b)
  BY CallFacts
<1>2. Busy(Db)' => Busy(Db)
  BY DEF Busy, Threads
<1>3. \A p \in Blocking : Busy(p)' \/ queue'[p] # <<>> => Busy(p) \/ queue[p] # <<>>
  BY DEF Busy, Threads
<1>4. \A b \in Announcers : ann'[b].step \in {"lock", "show"} =>
        \/ ann[b].step \in {"lock", "show"} /\ ann'[b].port = ann[b].port
        \/ user.onList /\ ann'[b].port = user.port /\ ~InProgram("remove")
  BY <1>1 DEF SameAnn
<1> QED  BY <1>1, <1>2, <1>3, <1>4, PlaceFrame DEF FieldsInv, Stays

\* The callback of process: it shows nothing, but its driver may disconnect.
LEMMA ProcessCallShows ==
    ASSUME RecordIInv, RecordIInv', FieldsInv, NEW a \in Threads,
           performIO(a) \/ asynCallbackProcess(a)
    PROVE  FieldsInv'
<1> USE DEF FieldsInv
<1>0. /\ thread \in [Threads -> Call] /\ rec \in RecFields /\ user \in asynUser
      /\ dev \in [Ports -> Port] /\ ann \in [Announcers -> Announcement]
      /\ thread[a].req \in Requests
      /\ thread[a].req.kind = "process" <=> thread[a].req = Process
  BY ThreadUpdates, RequestFacts DEF RecordIInv, RecordTypeOK
<1>1. /\ Busy(a) /\ thread[a].req = Process /\ UNCHANGED <<queue, timer, program, seen>>
      /\ \A b \in Threads \ {a} : thread'[b] = thread[b]
      /\ user'.port = user.port /\ user'.onList = user.onList
      /\ Busy(Db)' => scanLock' = scanLock
      /\ \/ thread'[a].step = "done" /\ thread'[a].req = Process
         \/ thread'[a].step = "wait"
      /\ ghost'.unserved = ghost.unserved /\ GhostOK'
      /\ rec'.cnct = rec.cnct /\ rec'.opt = rec.opt /\ rec'.pcnct = rec.pcnct
  <2>1. CASE performIO(a)
    <3>1. /\ thread[a].step = "act" /\ thread[a].req = Process
          /\ thread' = [thread EXCEPT ![a].step = "done"]
          /\ UNCHANGED <<user, queue, timer, scanLock, program, seen>>
          /\ rec' = rec \/ rec' = [rec EXCEPT !.nsev = 2]
          /\ ghost' = ghost \/ \E o \in Outcomes : ghost' = [ghost EXCEPT !.io = o]
      BY <1>0, <2>1 DEF performIO, InCallback, Next_, Others, Performed, PerformFails,
                        performOctetIO, DriverDisconnects, Outcomes
    <3>2. ghost'.unserved = ghost.unserved /\ GhostOK'
      BY <3>1, GhostUpdates DEF GhostOK
    <3>3. rec'.cnct = rec.cnct /\ rec'.opt = rec.opt /\ rec'.pcnct = rec.pcnct
      BY <1>0, <3>1 DEF RecFields
    <3>4. /\ thread'[a].step = "done" /\ thread'[a].req = Process
          /\ \A b \in Threads \ {a} : thread'[b] = thread[b]
      BY <1>0, <3>1 DEF Call
    <3> QED  BY <3>1, <3>2, <3>3, <3>4 DEF Busy
  <2>2. CASE asynCallbackProcess(a)
    <3>1. /\ thread[a].step = "done" /\ thread[a].req = Process
          /\ thread' = [thread EXCEPT ![a] = Idle]
          /\ UNCHANGED <<queue, timer, program, seen, ghost>>
          /\ rec' = rec \/ rec' = Finish(rec)
          /\ user' = user \/ user' = [user EXCEPT !.canceled = FALSE]
          /\ a # Db => scanLock' = scanLock
      BY <1>0, <2>2 DEF asynCallbackProcess, InCallback
    <3>2. rec'.cnct = rec.cnct /\ rec'.opt = rec.opt /\ rec'.pcnct = rec.pcnct
      BY <1>0, <3>1 DEF RecFields, Finish
    <3>3. user'.port = user.port /\ user'.onList = user.onList
      BY <1>0, <3>1 DEF asynUser
    <3>4. /\ thread'[a].step = "wait"
          /\ \A b \in Threads \ {a} : thread'[b] = thread[b]
      BY <1>0, <3>1 DEF Idle
    <3> QED  BY <3>1, <3>2, <3>3, <3>4 DEF Busy, GhostOK
  <2> QED  BY <2>1, <2>2
<1>2. \A f \in Fields : ToCome(f) => ToCome(f)'
  <2>1. \A r \in Requests, f \in Fields : Unread(r) /\ f \in FieldsOf(r) => Unread(r)'
    BY <1>1, FieldFacts DEF Unread, Held, OnQueue
  <2> QED  BY <1>1, <2>1, ToComeFrame
<1>3. Asked => Asked'
  BY <1>1, FieldFacts, AskedFrame DEF Held, OnQueue, Busy
<1>4. CASE UNCHANGED <<dev, ann>>
  <2>1. SameAnn /\ Connected' = Connected /\ Stays
    BY <1>1, <1>4 DEF SameAnn, Connected, Stays
  <2>2. PlaceInv'
    BY <1>1, <2>1, CallPlace
  <2>3. StatusInv'
    BY <1>1, <1>3, <2>1, StatusFrame
  <2>4. OptionsInv'
    BY <1>1, <1>2, <1>4, OptionsFrame DEF InProgram
  <2> QED  BY <1>1, <2>2, <2>3, <2>4
<1>5. CASE performIO(a) /\ DriverDisconnects(a)
  <2>1. /\ user.onList /\ user.port = a /\ a \in Announcers /\ a \in Ports
        /\ \A b \in Threads \ {a} : ~Busy(b)
    BY <1>1, <1>5, CallFacts, RecordAssumption DEF DriverDisconnects, RecordAssumption
  <2>2. /\ dev' = [dev EXCEPT ![a].connected = FALSE]
        /\ ann' = [ann EXCEPT ![a] = [step |-> "lock", port |-> a, seen |-> FALSE]]
    BY <1>5, <2>1 DEF DriverDisconnects, Announce
  <2>3. /\ ann'[a].step = "lock" /\ ann'[a].port = a
        /\ \A b \in Announcers \ {a} : ann'[b] = ann[b]
        /\ dev'[a].opt = dev[a].opt
    BY <1>0, <2>1, <2>2 DEF Port
  <2>4. PlaceInv'
    BY <1>1, <2>1, <2>3, CallPlace
  <2>5. Coming' /\ \A p \in Blocking : thread'[p].step # "show"
    BY <1>1, <2>1, <2>3 DEF Coming, Busy, Threads
  <2>6. StatusInv'
    BY <2>5, StatusComing
  <2>7. OptionsInv'
    BY <1>1, <1>2, <2>1, <2>3, OptionsFrame DEF InProgram
  <2> QED  BY <1>1, <2>4, <2>6, <2>7
<1> QED
  BY <1>4, <1>5 DEF performIO, Performed, PerformFails, performOctetIO, asynCallbackProcess

\* A callback of special: what its step changes, and what it leaves alone.
LEMMA SpecialCallFacts ==
    ASSUME RecordIInv, FieldsInv, NEW a \in Threads, asynCallbackSpecial(a)
    PROVE  /\ Busy(a) /\ UNCHANGED <<user, queue, timer, program, seen, scanLock>>
           /\ \A b \in Threads \ {a} : thread'[b] = thread[b]
           /\ thread[a].req \in Requests
           /\ setOption(a) => thread'[a].step = "get"
           /\ getOptions(a) \/ callbackConnect(a) => thread'[a].step = "status"
           /\ SpecialStatus(a) => thread'[a].step = "show" /\ thread'[a].seen = Connected
           /\ ~SpecialDone(a) => thread'[a].req = thread[a].req
           /\ SpecialDone(a) => thread'[a].step = "wait"
<1>0. thread \in [Threads -> Call] /\ thread[a].req \in Requests
  BY ThreadUpdates DEF RecordIInv, RecordTypeOK
<1>1. CASE setOption(a)
  <2>1. thread' = [thread EXCEPT ![a].step = "get"] /\ thread[a].step = "act"
    BY <1>1 DEF setOption, InCallback, Next_
  <2> QED  BY <1>0, <1>1, <2>1 DEF setOption, Others, Busy, Call, getOptions, callbackConnect,
                                   SpecialStatus, SpecialDone, InCallback
<1>2. CASE getOptions(a)
  <2>1. thread' = [thread EXCEPT ![a].step = "status"] /\ thread[a].step \in {"act", "get"}
    BY <1>2 DEF getOptions, InCallback, Next_
  <2> QED  BY <1>0, <1>2, <2>1 DEF getOptions, Others, Busy, Call, setOption, callbackConnect,
                                   SpecialStatus, SpecialDone, InCallback
<1>3. CASE callbackConnect(a)
  <2>1. /\ \/ thread' = [thread EXCEPT ![a].step = "status"]
           \/ thread' = [thread EXCEPT ![a].step = "status", ![a].ok = FALSE]
        /\ thread[a].step = "act"
    BY <1>3 DEF callbackConnect, InCallback, Next_
  <2> QED  BY <1>0, <1>3, <2>1 DEF callbackConnect, Others, Busy, Call, setOption, getOptions,
                                   SpecialStatus, SpecialDone, InCallback
<1>4. CASE SpecialStatus(a)
  <2>1. /\ thread' = [thread EXCEPT ![a].step = "show", ![a].seen = Connected]
        /\ thread[a].step = "status"
    BY <1>4 DEF SpecialStatus
  <2> QED  BY <1>0, <1>4, <2>1 DEF SpecialStatus, Others, Busy, Call, setOption, getOptions,
                                   callbackConnect, SpecialDone, InCallback
<1>5. CASE SpecialDone(a)
  <2>1. thread' = [thread EXCEPT ![a] = Idle] /\ thread[a].step = "show"
    BY <1>5 DEF SpecialDone
  <2> QED  BY <1>0, <1>5, <2>1 DEF SpecialDone, Others, Busy, Idle, setOption, getOptions,
                                   callbackConnect, SpecialStatus, InCallback
<1> QED  BY <1>1, <1>2, <1>3, <1>4, <1>5 DEF asynCallbackSpecial

\* setOption leaves the field to be read back, getOptions shows what it reads.
LEMMA OptionCallShows ==
    ASSUME RecordIInv, RecordIInv', FieldsInv, NEW a \in Threads,
           setOption(a) \/ getOptions(a)
    PROVE  FieldsInv'
<1> USE DEF FieldsInv
<1>0. /\ rec \in RecFields /\ dev \in [Ports -> Port]
      /\ thread[a].req.kind = "set" => thread[a].req.field \in Fields
  BY ThreadUpdates, RequestFacts DEF RecordIInv, RecordTypeOK
<1>1. /\ Busy(a) /\ UNCHANGED <<user, queue, timer, program, seen, scanLock, ann>>
      /\ \A b \in Threads \ {a} : thread'[b] = thread[b]
      /\ thread[a].req \in Requests /\ thread'[a].req = thread[a].req
      /\ thread'[a].step \in {"get", "status"}
  <2>1. UNCHANGED ann /\ asynCallbackSpecial(a)
    BY DEF setOption, getOptions, asynCallbackSpecial
  <2>2. ~SpecialDone(a)
    BY DEF SpecialDone, setOption, getOptions, InCallback
  <2> QED  BY <2>1, <2>2, SpecialCallFacts
<1>2. user.port \in Ports /\ pvt.bound = user.port
  BY <1>1, CallFacts
<1>3. PlaceInv' /\ Stays /\ SameAnn
  <2>1. SameAnn /\ Stays
    BY <1>1 DEF SameAnn, Stays
  <2> QED  BY <1>1, <2>1, CallPlace
<1>4. CASE setOption(a)
  <2>0. PICK f \in Fields : f = thread[a].req.field
    BY <1>0, <1>4 DEF setOption, InCallback
  <2>1. /\ thread[a].req.kind = "set"
        /\ rec' = rec \/ rec' = [rec EXCEPT !.nsev = 2]
        /\ dev' = dev \/ \E v \in {rec.opt[f], dev[pvt.bound].opt[f]} :
                           dev' = [dev EXCEPT ![pvt.bound].opt[f] = v]
        /\ ghost' = ghost /\ thread'[a].step = "get"
    BY <1>0, <1>4, <2>0, SpecialCallFacts DEF setOption, InCallback, asynCallbackSpecial
  <2>2. rec'.cnct = rec.cnct /\ rec'.opt = rec.opt /\ rec'.pcnct = rec.pcnct
    BY <1>0, <2>1 DEF RecFields
  <2>3. thread[a].req = Request("set", f)
    BY <1>1, <2>0, <2>1, RequestFacts DEF Requests, Request
  <2>4. /\ \A p \in Ports : dev'[p].connected = dev[p].connected
        /\ \A g \in Fields : g # f => dev'[user.port].opt[g] = dev[user.port].opt[g]
    <3>1. CASE dev' = dev
      BY <3>1
    <3>2. ASSUME NEW v \in {rec.opt[f], dev[pvt.bound].opt[f]},
                 dev' = [dev EXCEPT ![pvt.bound].opt[f] = v]
          PROVE  /\ \A p \in Ports : dev'[p].connected = dev[p].connected
                 /\ \A g \in Fields : g # f => dev'[user.port].opt[g] = dev[user.port].opt[g]
      <4>1. /\ dev'[user.port] = [dev[user.port] EXCEPT !.opt = [dev[user.port].opt EXCEPT ![f] = v]]
            /\ \A p \in Ports \ {user.port} : dev'[p] = dev[p]
        BY <1>0, <1>2, <3>2
      <4>2. /\ dev'[user.port].opt = [dev[user.port].opt EXCEPT ![f] = v]
            /\ dev'[user.port].connected = dev[user.port].connected
            /\ dev[user.port].opt \in [Fields -> Values \cup {Null}]
        BY <1>0, <1>2, <4>1 DEF Port
      <4> QED  BY <4>1, <4>2
    <3> QED  BY <2>1, <3>1, <3>2
  <2>5. Connected' = Connected
    BY <1>1, <1>2, <2>4 DEF Connected
  <2>6. Asked => Asked'
    BY <1>1, <2>1, AskedFrame DEF Held, OnQueue, Busy
  <2>7. StatusInv'
    BY <1>1, <1>3, <2>2, <2>5, <2>6, StatusFrame
  <2>8. ASSUME NEW g \in Fields PROVE /\ ToCome(g) => ToCome(g)'
                                      /\ ToCome(f)'
    <3>1. \A r \in Requests : Unread(r) => Unread(r)'
      BY <1>1, <2>1 DEF Unread, Held, OnQueue
    <3>2. Unread(Request("set", f))' /\ f \in FieldsOf(Request("set", f))
      BY <1>1, <2>1, <2>3, FieldFacts DEF Unread
    <3>3. ToCome(f)'
      BY <1>1, <2>3, <3>2 DEF ToCome
    <3>4. ToCome(g) => ToCome(g)'
      BY <1>1, <2>1, <3>1, ToComeFrame
    <3> QED  BY <3>3, <3>4
  <2>9. OptionsInv'
    BY <1>1, <2>2, <2>4, <2>8 DEF OptionsInv, InProgram
  <2> QED  BY <1>1, <1>3, <2>1, <2>7, <2>9 DEF GhostOK
<1>5. CASE getOptions(a)
  <2> DEFINE r == thread[a].req
             shown == IF r.kind = "getEos" \/ r.field \in EosFields
                      THEN EosFields ELSE Fields \ EosFields
             o == [f \in Fields |-> IF f \notin shown THEN rec.opt[f]
                    ELSE IF Has(IfaceOf(f)) THEN dev[pvt.bound].opt[f]
                    ELSE IF f \in EosFields THEN Null ELSE rec.opt[f]]
  <2>1. /\ rec' = [rec EXCEPT !.opt = o] /\ UNCHANGED dev
        /\ ghost' = [ghost EXCEPT !.unserved = @ \ shown]
        /\ r.kind \in {"getOption", "getEos", "set"} /\ thread'[a].step = "status"
    BY <1>5, SpecialCallFacts DEF getOptions, InCallback, asynCallbackSpecial
  <2>2. rec'.cnct = rec.cnct /\ rec'.opt = o /\ rec'.pcnct = rec.pcnct
    BY <1>0, <2>1 DEF RecFields
  <2>3. FieldsOf(r) \subseteq shown /\ shown \subseteq Fields /\ "cnct" \notin shown
    <3>1. r = Request("getOption", Null) => r.kind = "getOption" /\ r.field = Null
      BY DEF Request
    <3>2. CASE r.kind = "getOption"
      <4>1. r.field = Null
        BY <1>1, <3>2 DEF Requests, Request
      <4> QED  BY <3>2, <4>1, FieldFacts DEF FieldsOf
    <3>3. CASE r.kind = "getEos"
      BY <3>3, FieldFacts DEF FieldsOf
    <3>4. CASE r.kind = "set"
      BY <1>0, <3>4, FieldFacts DEF FieldsOf
    <3> QED  BY <2>1, <3>2, <3>3, <3>4
  <2>4. GhostOK' /\ ghost'.unserved = ghost.unserved \ shown
    BY <2>1, GhostUpdates DEF GhostOK
  <2> HIDE DEF shown
  <2>5. \A f \in Fields : /\ f \notin shown => o[f] = rec.opt[f]
                          /\ f \in shown /\ Has(IfaceOf(f)) => o[f] = dev[pvt.bound].opt[f]
    OBVIOUS
  <2> HIDE DEF o
  <2>6. Connected' = Connected
    BY <1>1, <2>1 DEF Connected
  <2>7. Asked => Asked'
    BY <1>1, <2>1, <2>3, <2>4, AskedFrame DEF Held, OnQueue, Busy
  <2>8. StatusInv'
    BY <1>1, <1>3, <2>1, <2>2, <2>6, <2>7, StatusFrame
  <2>9. ASSUME NEW f \in Fields, f \notin shown, ToCome(f) PROVE ToCome(f)'
    <3>1. \A q \in Requests : Unread(q) /\ f \in FieldsOf(q) => Unread(q)'
      BY <1>1, <2>1, <2>3, <2>9 DEF Unread, Held, OnQueue
    <3> QED  BY <1>1, <2>4, <2>9, <3>1, ToComeFrame
  <2>10. \A f \in Fields : IfaceOf(f) \in Supports[user.port] => Has(IfaceOf(f))
    BY <1>2, RecordAssumption DEF Has, RecordAssumption
  <2>11. OptionsInv'
    BY <1>1, <1>2, <2>1, <2>2, <2>5, <2>9, <2>10 DEF OptionsInv, InProgram
  <2> QED  BY <1>1, <1>3, <2>4, <2>8, <2>11
<1> QED  BY <1>4, <1>5

\* callbackConnect changes the connection: whoever shows it will see that.
LEMMA ConnectCallShows ==
    ASSUME RecordIInv, RecordIInv', FieldsInv, NEW a \in Threads, callbackConnect(a)
    PROVE  FieldsInv'
<1> USE DEF FieldsInv
<1>0. /\ dev \in [Ports -> Port] /\ ann \in [Announcers -> Announcement]
  BY DEF RecordIInv, RecordTypeOK
<1>1. /\ Busy(a) /\ UNCHANGED <<rec, user, queue, timer, program, seen, scanLock, ghost>>
      /\ \A b \in Threads \ {a} : thread'[b] = thread[b]
      /\ thread[a].req = Request("connect", Null) /\ thread'[a].req = thread[a].req
      /\ thread'[a].step = "status"
  <2>1. asynCallbackSpecial(a) /\ ~SpecialDone(a) /\ UNCHANGED <<rec, ghost>>
    BY DEF asynCallbackSpecial, SpecialDone, callbackConnect, InCallback
  <2>2. thread[a].req.kind = "connect"
    BY DEF callbackConnect, InCallback
  <2>3. \A q \in Requests : q.kind = "connect" => q = Request("connect", Null)
    BY DEF Requests, Request
  <2> QED  BY <2>1, <2>2, <2>3, SpecialCallFacts
<1>2. /\ user.port \in Ports /\ pvt.bound = user.port /\ user.onList
      /\ \A b \in Threads \ {a} : ~Busy(b)
      /\ a \in Blocking => user.port = a /\ a \in Announcers /\ a # Db
      /\ a \notin Blocking => /\ a = Db /\ user.port \notin Blocking
                              /\ program # <<>> => Head(program) # "show"
                              /\ \A b \in Announcers : ann[b].step # "show"
  BY <1>1, CallFacts
<1>3. Asked /\ Asked'
  BY <1>1 DEF Asked, Busy
<1>4. \A f \in Fields : ToCome(f) => ToCome(f)'
  <2>1. \A f \in Fields : f \notin FieldsOf(thread[a].req)
    BY <1>1, FieldFacts
  <2>2. \A q \in Requests, f \in Fields : Unread(q) /\ f \in FieldsOf(q) => Unread(q)'
    BY <1>1, <2>1 DEF Unread, Held, OnQueue
  <2> QED  BY <1>1, <2>2, ToComeFrame
<1>5. CASE UNCHANGED <<dev, ann>>
  <2>1. SameAnn /\ Connected' = Connected /\ Stays
    BY <1>1, <1>5 DEF SameAnn, Connected, Stays
  <2>2. PlaceInv'
    BY <1>1, <2>1, CallPlace
  <2>3. StatusInv'
    BY <1>1, <1>3, <2>1, StatusFrame
  <2>4. OptionsInv'
    BY <1>1, <1>4, <1>5, OptionsFrame DEF InProgram
  <2> QED  BY <1>1, <2>2, <2>3, <2>4 DEF GhostOK
<1>6. CASE ~UNCHANGED <<dev, ann>>
  <2>1. /\ dev' = [dev EXCEPT ![user.port].connected = rec.cnct]
        /\ IF a = Db THEN ann' = ann ELSE Announce(a, user.port)
    BY <1>2, <1>6 DEF callbackConnect
  <2>2. dev'[user.port].opt = dev[user.port].opt
    BY <1>0, <1>2, <2>1 DEF Port
  <2>3. OptionsInv'
    BY <1>1, <1>4, <2>2, OptionsFrame DEF InProgram
  <2>4. CASE a = Db
    <3>1. SameAnn /\ a \notin Blocking
      BY <2>1, <2>4, RecordAssumption DEF SameAnn, RecordAssumption
    <3>2. PlaceInv'
      BY <1>1, <3>1, CallPlace
    <3>3. /\ \A b \in Announcers : ann'[b].step # "show"
          /\ \A b \in Threads : thread'[b].step # "show"
          /\ program' # <<>> => Head(program') # "show"
      BY <1>1, <1>2, <2>1, <2>4, <3>1 DEF Busy
    <3>4. StatusInv'
      BY <1>3, <2>4, <3>3 DEF StatusInv, Threads
    <3> QED  BY <1>1, <2>3, <3>2, <3>4 DEF GhostOK
  <2>5. CASE a # Db
    <3>1. a \in Blocking /\ user.port = a /\ a \in Announcers
      BY <1>2, <2>5
    <3>2. ann' = [ann EXCEPT ![a] = [step |-> "lock", port |-> user.port, seen |-> FALSE]]
      BY <1>2, <2>1, <2>5 DEF Announce
    <3>3. /\ ann'[a].step = "lock" /\ ann'[a].port = user.port
          /\ \A b \in Announcers \ {a} : ann'[b] = ann[b]
      BY <1>0, <3>1, <3>2
    <3>4. PlaceInv'
      BY <1>1, <3>1, <3>3, CallPlace
    <3>5. Coming' /\ \A p \in Blocking : thread'[p].step # "show"
      BY <1>1, <1>2, <3>1, <3>3 DEF Coming, Busy, Threads
    <3>6. StatusInv'
      BY <3>5, StatusComing
    <3> QED  BY <1>1, <2>3, <3>4, <3>6 DEF GhostOK
  <2> QED  BY <2>4, <2>5
<1> QED  BY <1>5, <1>6

\* monitorStatus of a callback reads the connection, and shows it.
LEMMA StatusCallShows ==
    ASSUME RecordIInv, RecordIInv', FieldsInv, NEW a \in Threads,
           SpecialStatus(a) \/ SpecialDone(a)
    PROVE  FieldsInv'
<1> USE DEF FieldsInv
<1>0. rec \in RecFields /\ thread \in [Threads -> Call] /\ Threads = Blocking \cup {Db}
  BY DEF RecordIInv, RecordTypeOK, Threads
<1>1. /\ Busy(a) /\ UNCHANGED <<user, queue, timer, dev, ann, program, seen, scanLock>>
      /\ \A b \in Threads \ {a} : thread'[b] = thread[b]
  <2>1. asynCallbackSpecial(a) /\ UNCHANGED <<dev, ann>>
    BY DEF asynCallbackSpecial, SpecialStatus, SpecialDone
  <2> QED  BY <2>1, SpecialCallFacts
<1>2. SameAnn /\ Connected' = Connected /\ Stays /\ (Coming' <=> Coming)
  BY <1>1 DEF SameAnn, Connected, Stays, Coming
<1>3. PlaceInv'
  BY <1>1, <1>2, CallPlace
<1>4. \A b \in Threads \ {a} : ~Busy(b)
  BY <1>1, CallFacts
<1>5. CASE SpecialStatus(a)
  <2>1. /\ UNCHANGED <<rec, ghost>> /\ thread[a].step = "status"
        /\ thread'[a].step = "show" /\ thread'[a].seen = Connected
        /\ thread'[a].req = thread[a].req
    BY <1>5, SpecialCallFacts DEF SpecialStatus, asynCallbackSpecial, SpecialDone
  <2>2. Asked => Asked'
    BY <1>1, <2>1, AskedFrame DEF Held, OnQueue, Busy
  <2>3. \A f \in Fields : ToCome(f) => ToCome(f)'
    <3>1. \A q \in Requests : Unread(q) => Unread(q)'
      BY <1>1, <2>1 DEF Unread, Held, OnQueue
    <3> QED  BY <1>1, <2>1, <3>1, ToComeFrame
  <2>4. StatusInv'
    <3>1. \A b \in Threads : thread'[b].step = "show" => thread'[b].seen = Connected'
      BY <1>1, <1>2, <1>4, <2>1 DEF Busy
    <3>2. InProgram("read")' = InProgram("read") /\ InProgram("show")' = InProgram("show")
      BY <1>1 DEF InProgram
    <3> QED  BY <1>0, <1>1, <1>2, <2>1, <2>2, <3>1, <3>2 DEF StatusInv
  <2>5. OptionsInv'
    BY <1>1, <2>1, <2>3, OptionsFrame DEF InProgram
  <2> QED  BY <1>1, <1>3, <2>1, <2>4, <2>5 DEF GhostOK
<1>6. CASE SpecialDone(a)
  <2>1. /\ rec' = [rec EXCEPT !.cnct = thread[a].seen] /\ thread[a].step = "show"
        /\ ghost' = [ghost EXCEPT !.unserved = @ \ {"cnct"}]
        /\ thread'[a].step = "wait"
    BY <1>6, SpecialCallFacts DEF SpecialDone, asynCallbackSpecial
  <2>2. /\ rec'.cnct = thread[a].seen /\ rec'.opt = rec.opt /\ rec'.pcnct = rec.pcnct
        /\ GhostOK' /\ ghost'.unserved = ghost.unserved \ {"cnct"}
    BY <1>0, <2>1, GhostUpdates DEF RecFields, GhostOK
  <2>3. \A f \in Fields : ToCome(f) => ToCome(f)'
    <3>1. \A q \in Requests : Unread(q) => Unread(q)'
      BY <1>1, <2>1 DEF Unread, Held, OnQueue
    <3> QED  BY <1>1, <2>2, <3>1, FieldFacts, ToComeFrame
  <2>4. StatusInv'
    <3>1. rec'.cnct = Connected' \/ Coming'
      BY <1>0, <1>2, <2>1, <2>2 DEF StatusInv
    <3>2. \A b \in Threads : thread'[b].step = "wait"
      BY <1>1, <1>4, <2>1 DEF Busy
    <3> QED  BY <1>0, <1>1, <1>2, <3>1, <3>2 DEF StatusInv
  <2>5. OptionsInv'
    BY <1>1, <2>2, <2>3, OptionsFrame DEF InProgram
  <2> QED  BY <1>1, <1>3, <2>2, <2>4, <2>5
<1> QED  BY <1>5, <1>6

LEMMA CallbacksShow ==
    ASSUME RecordIInv, RecordIInv', FieldsInv, NEW a \in Threads, Callback(a)
    PROVE  FieldsInv'
BY ProcessCallShows, OptionCallShows, ConnectCallShows, StatusCallShows
   DEF Callback, asynCallbackSpecial

-----------------------------------------------------------------------------
\* A request joins a queue.
LEMMA QueueJoined ==
    ASSUME RecordTypeOK, NEW p \in Blocking, NEW x \in Requests,
           queue' = [queue EXCEPT ![p] = Append(@, x)]
    PROVE  /\ OnQueue(x)'
           /\ \A r : OnQueue(r) => OnQueue(r)'
           /\ \A q \in Blocking \ {p} : queue'[q] = queue[q]
<1> DEFINE old == queue[p]
           new == Append(old, x)
<1>1. /\ old \in Seq(Requests) /\ queue'[p] = new
      /\ \A q \in Blocking \ {p} : queue'[q] = queue[q]
  BY DEF RecordTypeOK
<1>2. /\ DOMAIN old = 1..Len(old) /\ DOMAIN new = 1..Len(old) + 1 /\ Len(old) \in Nat
      /\ \A j \in 1..Len(old) : new[j] = old[j]
      /\ new[Len(old) + 1] = x
  <2> HIDE DEF old
  <2> QED  BY <1>1
<1> HIDE DEF new
<1>3. OnQueue(x)'
  BY <1>1, <1>2 DEF OnQueue
<1>4. ASSUME NEW r, OnQueue(r) PROVE OnQueue(r)'
  <2>1. PICK q \in Blocking : \E j \in DOMAIN queue[q] : queue[q][j] = r
    BY <1>4 DEF OnQueue
  <2>2. CASE q = p
    <3>1. PICK j \in DOMAIN old : old[j] = r
      BY <2>1, <2>2
    <3>2. j \in DOMAIN new /\ new[j] = r
      BY <1>2, <3>1
    <3> QED  BY <1>1, <3>2 DEF OnQueue
  <2>3. CASE q # p
    BY <1>1, <2>1, <2>3 DEF OnQueue
  <2> QED  BY <2>2, <2>3
<1> QED  BY <1>1, <1>3, <1>4

\* Nobody has the scan lock: special has nothing left to do, and a record that
\* is connected is on the list of its port.
LEMMA FreeFacts ==
    ASSUME RecordIInv, FieldsInv, DbFree
    PROVE  /\ program = <<>> /\ scanLock = Null /\ (\A x : ~InProgram(x)) /\ ~Moving
           /\ ~Busy(Db) /\ \A a \in Announcers : ann[a].step # "show"
           /\ user.port # Null <=> user.onList
<1>1. Null \notin Announcers /\ Null # Db
  BY RecordAssumption DEF RecordAssumption, Announcers
<1>2. (\A x : ~InProgram(x)) /\ ~Moving
  BY DEF InProgram, Moving, DbFree
<1> QED  BY <1>1, <1>2 DEF FieldsInv, PlaceInv, RecordIInv, LockInv, DbFree

\* process shows nothing new, but may ask for I/O.
LEMMA ProcessingShows ==
    ASSUME RecordIInv, RecordIInv', FieldsInv, Scan \/ ScanIoIntr \/ ProcessCallback
    PROVE  FieldsInv'
<1> USE DEF FieldsInv
<1>0. /\ rec \in RecFields /\ thread \in [Threads -> Call] /\ Blocking \subseteq Ports
      /\ Threads = Blocking \cup {Db} /\ Db \notin Blocking /\ user.port \in Ports \cup {Null}
  BY RecordAssumption DEF RecordIInv, RecordTypeOK, Threads, RecordAssumption, asynUser
<1>1. DbFree /\ UNCHANGED <<program, seen>> /\ (process \/ UNCHANGED <<rec, manager, scanLock, ghost>>)
  BY DEF Scan, ScanIoIntr, ProcessCallback
<1>2. /\ program = <<>> /\ scanLock = Null /\ (\A x : ~InProgram(x)) /\ ~Moving
      /\ ~Busy(Db) /\ \A a \in Announcers : ann[a].step # "show"
      /\ user.port # Null <=> user.onList
  BY <1>1, FreeFacts
<1>3. CASE UNCHANGED <<manager, scanLock>>
           /\ (ghost' = ghost \/ \E b \in Outcomes : ghost' = [ghost EXCEPT !.io = b])
           /\ (rec' = rec \/ rec' = Finish(rec)
               \/ \E n \in 0..2 : rec' = Finish([rec EXCEPT !.nsev = n]))
  <2>1. rec'.cnct = rec.cnct /\ rec'.opt = rec.opt /\ rec'.pcnct = rec.pcnct
    BY <1>0, <1>3 DEF RecFields, Finish
  <2>2. GhostOK' /\ ghost'.unserved = ghost.unserved
    BY <1>3, GhostUpdates DEF GhostOK
  <2>3. UNCHANGED <<user, queue, thread, timer, dev, ann>>
    BY <1>3 DEF manager
  <2>4. Connected' = Connected /\ Stays /\ SameAnn
    BY <1>1, <2>3 DEF Connected, Stays, SameAnn
  <2> QED  BY <1>1, <1>3, <2>1, <2>2, <2>3, <2>4, FieldsFrame
<1>4. CASE ProcessQueue
  <2>1. /\ user.port # Null /\ user.onList /\ user.port \in Ports
        /\ ghost' = [ghost EXCEPT !.io = "undone"]
        /\ UNCHANGED <<user, timer, dev, ann>>
        /\ rec' = rec \/ rec' = [rec EXCEPT !.pact = TRUE]
    BY <1>0, <1>2, <1>4 DEF ProcessQueue, Accepts
  <2>2. rec'.cnct = rec.cnct /\ rec'.opt = rec.opt /\ rec'.pcnct = rec.pcnct
    BY <1>0, <2>1 DEF RecFields
  <2>3. GhostOK' /\ ghost'.unserved = ghost.unserved
    BY <2>1, GhostUpdates DEF GhostOK, Outcomes
  <2>4. /\ Connected' = Connected /\ Stays /\ SameAnn
        /\ \A x : ~InProgram(x)'
    BY <1>1, <1>2, <2>1 DEF Connected, Stays, SameAnn, InProgram
  <2>5. /\ \A r \in Requests : (Held(r) => Held(r)') /\ (Unread(r) => Unread(r)')
        /\ \A a \in Threads : Busy(a) => thread'[a] = thread[a]
        /\ \A a \in Threads : thread'[a].step # "show" \/ thread'[a] = thread[a]
        /\ \A p \in Blocking : Busy(p)' \/ queue'[p] # <<>> => user'.port = p
        /\ Busy(Db)' => user.port \notin Blocking /\ scanLock' = Db
    <3>1. CASE user.port \in Blocking
      <4>1. /\ queue' = [queue EXCEPT ![user.port] = Append(@, Process)]
            /\ thread' = thread
        BY <1>4, <3>1 DEF ProcessQueue
      <4>2. /\ \A r : OnQueue(r) => OnQueue(r)'
            /\ \A q \in Blocking \ {user.port} : queue'[q] = queue[q]
        BY <3>1, <4>1, QueueJoined, RequestFacts DEF RecordIInv
      <4> QED  BY <1>0, <1>2, <2>1, <3>1, <4>1, <4>2 DEF Held, Unread, Busy, PlaceInv
    <3>2. CASE user.port \notin Blocking
      <4>1. /\ thread' = [thread EXCEPT ![Db] = [Idle EXCEPT !.step = "act", !.req = Process]]
            /\ scanLock' = Db /\ queue' = queue
        BY <1>4, <3>2 DEF ProcessQueue
      <4>2. thread'[Db].step = "act" /\ \A p \in Blocking : thread'[p] = thread[p]
        BY <1>0, <4>1 DEF Idle
      <4> QED  BY <1>0, <1>2, <2>1, <3>2, <4>1, <4>2 DEF Held, Unread, OnQueue, Busy, PlaceInv
    <3> QED  BY <3>1, <3>2
  <2>6. PlaceInv'
    BY <1>1, <1>2, <2>1, <2>4, <2>5 DEF PlaceInv, Moving
  <2>7. Asked => Asked'
    BY <1>1, <2>3, <2>5, FieldFacts, AskedFrame DEF Busy
  <2>8. \A f \in Fields : ToCome(f) => ToCome(f)'
    BY <1>1, <2>3, <2>5, ToComeFrame
  <2>9. StatusInv'
    BY <1>1, <2>2, <2>4, <2>5, <2>7, StatusFrame
  <2>10. OptionsInv'
    BY <1>1, <2>1, <2>2, <2>8, OptionsFrame DEF InProgram
  <2> QED  BY <1>1, <2>3, <2>6, <2>9, <2>10
<1>5. CASE ProcessEnd \/ ProcessValue \/ ProcessRefused
  <2>1. /\ UNCHANGED <<manager, scanLock>>
        /\ (ghost' = ghost \/ \E b \in Outcomes : ghost' = [ghost EXCEPT !.io = b])
    BY <1>5 DEF ProcessEnd, ProcessValue, ProcessRefused, Outcomes
  <2>2. rec.nsev \in 0..2 /\ (IF rec.nsev > 1 THEN rec.nsev ELSE 1) \in 0..2
    BY <1>0 DEF RecFields
  <2>3. rec' = Finish(rec) \/ \E n \in 0..2 : rec' = Finish([rec EXCEPT !.nsev = n])
    BY <1>5, <2>2 DEF ProcessEnd, ProcessValue, ProcessRefused
  <2> QED  BY <1>3, <2>1, <2>3
<1> QED  BY <1>1, <1>3, <1>4, <1>5 DEF process

-----------------------------------------------------------------------------
\* The programs of the puts are in order.
LEMMA OrderedPrograms ==
    /\ Ordered(<<"remove", "disconnect", "passive", "unlock">>)
    /\ Ordered(<<"passive", "read", "show", "unlock">>)
    /\ Ordered(<<"passive", "read", "show", "state", "unlock">>)
    /\ Ordered(<<"passive", "unlock">>) /\ Ordered(<<"request", "unlock">>)
    /\ Ordered(<<"unlock">>) /\ Ordered(<<"canceled">>)
    /\ \A f \in Fields : Ordered(<<f, "unlock">>)
<1>1. Ordered(<<"remove", "disconnect", "passive", "unlock">>)
  BY DEF Ordered, Moves, Later
<1>2. Ordered(<<"passive", "read", "show", "unlock">>)
  BY DEF Ordered, Moves, Later
<1>3. Ordered(<<"passive", "read", "show", "state", "unlock">>)
  BY DEF Ordered, Moves, Later
<1>4. /\ Ordered(<<"passive", "unlock">>) /\ Ordered(<<"request", "unlock">>)
      /\ Ordered(<<"unlock">>) /\ Ordered(<<"canceled">>)
  BY DEF Ordered, Moves, Later
<1>5. ASSUME NEW f \in Fields PROVE Ordered(<<f, "unlock">>)
  <2>1. f \notin {"remove", "connect", "disconnect", "add", "read", "show"}
    BY FieldFacts DEF Steps
  <2> QED  BY <2>1 DEF Ordered, Moves, Later
<1> QED  BY <1>1, <1>2, <1>3, <1>4, <1>5

LEMMA ConnectOrdered ==
    ASSUME NEW t \in {<<"state", "unlock">>, <<"unlock">>}
    PROVE  /\ Ordered(connectDevice \o t) /\ Head(connectDevice \o t) = "remove"
           /\ connectDevice \o t # <<>>
           /\ \A x \in {"remove", "connect", "add", "read", "getOption", "getEos"} :
                Within(connectDevice \o t, x)
<1> DEFINE s == connectDevice \o t
           c == <<"remove", "connect", "add", "read", "show", "getOption", "getEos",
                  "pcnct", "passive", "read", "show">>
<1>1. /\ connectDevice \in Seq(Steps) /\ Len(connectDevice) = 11 /\ connectDevice = c
  BY DEF connectDevice, Steps
<1>2. /\ t \in Seq(Steps) /\ Len(t) \in 1..2
      /\ \A i \in 1..Len(t) : t[i] \in {"state", "unlock"}
  <2>1. CASE t = <<"unlock">>
    BY <2>1 DEF Steps
  <2>2. CASE t = <<"state", "unlock">>
    <3>1. t \in Seq(Steps) /\ Len(t) = 2 /\ t[1] = "state" /\ t[2] = "unlock"
      BY <2>2 DEF Steps
    <3> QED  BY <3>1
  <2> QED  BY <2>1, <2>2
<1>3. /\ s \in Seq(Steps) /\ Len(s) = 11 + Len(t) /\ DOMAIN s = 1..11 + Len(t)
      /\ \A i \in 1..11 : s[i] = connectDevice[i]
      /\ \A i \in 1..11 + Len(t) : i > 11 => i - 11 \in 1..Len(t) /\ s[i] = t[i - 11]
  BY <1>1, <1>2, Joined
<1> HIDE DEF s
<1>4. /\ s[1] = "remove" /\ s[2] = "connect" /\ s[3] = "add" /\ s[4] = "read" /\ s[5] = "show"
      /\ s[6] = "getOption" /\ s[7] = "getEos" /\ s[8] = "pcnct" /\ s[9] = "passive"
      /\ s[10] = "read" /\ s[11] = "show"
      /\ \A i \in DOMAIN s : i > 11 => s[i] \in {"state", "unlock"}
      /\ \A i \in 1..11 : i \in DOMAIN s
      /\ \A i \in DOMAIN s : i \in 1..11 \/ i > 11
  <2>1. /\ c[1] = "remove" /\ c[2] = "connect" /\ c[3] = "add" /\ c[4] = "read"
        /\ c[5] = "show" /\ c[6] = "getOption" /\ c[7] = "getEos" /\ c[8] = "pcnct"
        /\ c[9] = "passive" /\ c[10] = "read" /\ c[11] = "show"
    OBVIOUS
  <2>2. \A i \in 1..11 : i \in DOMAIN s /\ s[i] = c[i]
    BY <1>1, <1>2, <1>3
  <2> HIDE DEF c
  <2>3. \A i \in DOMAIN s : i \in 1..11 \/ i > 11
    BY <1>2, <1>3
  <2>4. \A i \in DOMAIN s : i > 11 => s[i] \in {"state", "unlock"}
    BY <1>2, <1>3
  <2> QED  BY <2>1, <2>2, <2>3, <2>4
<1> HIDE DEF c
<1>5. ASSUME NEW i \in DOMAIN s
      PROVE  /\ s[i] = "remove" => i = 1 /\ 2 \in DOMAIN s /\ s[2] \in Moves
             /\ s[i] \in Moves => i = 1 \/ (i = 2 /\ s[1] = "remove")
             /\ s[i] = "connect" => Later(s, i, "add") /\ Later(s, i, "getOption")
                                    /\ Later(s, i, "getEos")
             /\ s[i] = "add" => (i = 1 \/ s[i - 1] = "connect") /\ Later(s, i, "read")
             /\ s[i] = "read" => i + 1 \in DOMAIN s /\ s[i + 1] = "show"
             /\ s[i] = "show" => i = 1 \/ s[i - 1] = "read"
  <2>1. CASE i > 11
    BY <1>4, <2>1 DEF Moves
  <2>2. CASE i \in 1..5
    <3>1. /\ Later(s, 2, "add") /\ Later(s, 2, "getOption") /\ Later(s, 2, "getEos")
          /\ Later(s, 3, "read")
      BY <1>4 DEF Later
    <3> QED  BY <1>4, <2>2, <3>1 DEF Moves
  <2>3. CASE i \in 6..11
    BY <1>4, <2>3 DEF Moves
  <2> QED  BY <1>4, <2>1, <2>2, <2>3
<1>6. Ordered(s)
  BY <1>5 DEF Ordered
<1>7. Head(s) = "remove" /\ s # <<>>
  BY <1>3, <1>4
<1>8. \A x \in {"remove", "connect", "add", "read", "getOption", "getEos"} : Within(s, x)
  BY <1>4 DEF Within
<1> QED  BY <1>6, <1>7, <1>8 DEF s

\* A put that leaves the record where it is.
LEMMA PutShows ==
    ASSUME RecordIInv, FieldsInv, DbFree, NEW s, program' = s, Ordered(s), s # <<>>,
           Head(s) # "show",
           \A x \in {"remove", "connect", "disconnect", "add", "pcnct"} : ~Within(s, x),
           user'.port = user.port, user'.onList = user.onList,
           UNCHANGED <<thread, timer, ann, ghost, seen>>,
           \A p \in Blocking : queue[p] = <<>> => queue'[p] = <<>>,
           \A r \in Requests : OnQueue(r) => OnQueue(r)' \/ r = Process,
           \A p \in Ports : /\ dev'[p].connected = dev[p].connected
                            /\ dev'[p].opt = dev[p].opt,
           rec'.pcnct = rec.pcnct,
           rec'.cnct = rec.cnct \/ (user.onList => rec'.cnct = Connected) \/ Within(s, "request"),
           \A f \in Fields : rec'.opt[f] = rec.opt[f] \/ Within(s, f)
    PROVE  FieldsInv'
<1> USE DEF FieldsInv
<1>0. user.port \in Ports \cup {Null}
  BY DEF RecordIInv, RecordTypeOK, asynUser
<1>1. /\ program = <<>> /\ scanLock = Null /\ (\A x : ~InProgram(x)) /\ ~Moving
      /\ ~Busy(Db) /\ \A a \in Announcers : ann[a].step # "show"
      /\ user.port # Null <=> user.onList
  BY FreeFacts
<1>2. /\ \A x : InProgram(x)' <=> Within(s, x)
      /\ ~Moving' /\ ~InProgram("remove")' /\ ~InProgram("pcnct")' /\ ~InProgram("add")'
  BY DEF InProgram, Within, Moving
<1>3. Calm => Calm'
  BY DEF Calm, Busy
<1>4. PlaceInv'
  BY <1>1, <1>2, <1>3 DEF PlaceInv, Busy
<1>5. Connected' = Connected /\ (Coming' <=> Coming)
  BY <1>0 DEF Connected, Coming
<1>6. \A r \in Requests : Held(r) /\ r # Process => Held(r)'
  BY DEF Held
<1>7. Asked => Asked'
  BY <1>1, <1>6, FieldFacts DEF Asked, Busy
<1>8. StatusInv'
  <2>1. Within(s, "request") => Asked'
    BY <1>2 DEF Asked
  <2>2. Head(program') # "show"
    OBVIOUS
  <2> QED  BY <1>1, <1>5, <1>7, <2>1, <2>2 DEF StatusInv, Threads
<1>9. ASSUME NEW f \in Fields
      PROVE  /\ Within(s, f) => ToCome(f)'
             /\ ToCome(f) => ToCome(f)'
  <2>1. \A r \in Requests : Unread(r) /\ f \in FieldsOf(r) => Unread(r)'
    BY <1>6, FieldFacts DEF Unread
  <2> QED  BY <1>1, <1>2, <2>1 DEF ToCome
<1>10. OptionsInv'
  BY <1>0, <1>1, <1>2, <1>9 DEF OptionsInv
<1> QED  BY <1>4, <1>8, <1>10 DEF GhostOK

LEMMA PutShowsHere ==
    ASSUME RecordIInv, FieldsInv, DbFree, NEW s, program' = s, Ordered(s), s # <<>>,
           Head(s) # "show",
           \A x \in {"remove", "connect", "disconnect", "add", "pcnct"} : ~Within(s, x),
           UNCHANGED <<user, queue, thread, timer, dev, ann, ghost, seen>>,
           rec'.pcnct = rec.pcnct,
           rec'.cnct = rec.cnct \/ Within(s, "request"),
           \A f \in Fields : rec'.opt[f] = rec.opt[f] \/ Within(s, f)
    PROVE  FieldsInv'
<1>1. \A r \in Requests : OnQueue(r) => OnQueue(r)'
  BY DEF OnQueue
<1>2. /\ \A p \in Blocking : queue[p] = <<>> => queue'[p] = <<>>
      /\ \A p \in Ports : dev'[p].connected = dev[p].connected /\ dev'[p].opt = dev[p].opt
      /\ user'.port = user.port /\ user'.onList = user.onList
      /\ UNCHANGED <<thread, timer, ann, ghost, seen>>
  OBVIOUS
<1> QED  BY <1>1, <1>2, PutShows

\* A careful client makes the record leave its port when nothing is under way.
LEMMA QuietCalm ==
    ASSUME RecordIInv, Quiet
    PROVE  Calm /\ \A a \in Announcers : ann[a].step = "none"
<1>1. timer = Null
  BY DEF Quiet, Outstanding
<1>2. ASSUME NEW a \in Threads PROVE ~Busy(a)
  <2>1. Busy(a) => thread[a].req \in Outstanding
    BY DEF Busy, Outstanding
  <2> QED  BY <2>1 DEF Quiet
<1>3. ASSUME NEW p \in Blocking PROVE queue[p] = <<>>
  <2>1. queue[p] \in Seq(Requests)
    BY DEF RecordIInv, RecordTypeOK
  <2>2. ToSet(queue[p]) \subseteq Outstanding
    BY DEF Outstanding
  <2>3. ToSet(queue[p]) = {}
    BY <2>2 DEF Quiet
  <2>4. 1 \notin DOMAIN queue[p]
    BY <2>3 DEF ToSet
  <2> QED  BY <2>1, <2>4
<1> QED  BY <1>1, <1>2, <1>3 DEF Calm, Quiet

LEMMA MoveShows ==
    ASSUME RecordIInv, FieldsInv, DbFree, Quiet, NEW s, program' = s, Ordered(s), s # <<>>,
           Head(s) = "remove", Within(s, "remove"),
           Within(s, "connect") \/ Within(s, "disconnect"),
           Within(s, "add") => Within(s, "connect"),
           UNCHANGED <<user, queue, thread, timer, dev, ann, ghost, seen>>,
           rec'.cnct = rec.cnct,
           \/ Within(s, "read") /\ Within(s, "getOption") /\ Within(s, "getEos")
           \/ ~rec'.pcnct /\ ~Within(s, "pcnct")
    PROVE  FieldsInv'
<1> USE DEF FieldsInv
<1>1. /\ \A x : InProgram(x)' <=> Within(s, x)
      /\ \A x : ~InProgram(x)
  BY DEF InProgram, Within, DbFree
<1>2. Calm /\ Calm' /\ \A a \in Announcers : ann'[a].step = "none" /\ ann[a].step = "none"
  <2>1. Calm /\ \A a \in Announcers : ann[a].step = "none"
    BY QuietCalm
  <2> QED  BY <2>1 DEF Calm, Busy
<1>3. PlaceInv'
  <2>1. \A a \in Threads : ~Busy(a)'
    BY <1>2 DEF Calm, Busy
  <2>2. \A p \in Blocking : queue'[p] = <<>>
    BY <1>2 DEF Calm
  <2> QED  BY <1>1, <1>2, <2>1, <2>2 DEF PlaceInv, Moving, Threads
<1>4. Connected' = Connected /\ (Asked => Asked')
  BY <1>1 DEF Connected, Asked, Held, OnQueue, Busy
<1>5. StatusInv'
  <2>1. \A a \in Threads : thread'[a].step = "wait"
    BY <1>2 DEF Calm, Busy
  <2>2. user.onList => \/ rec.cnct = Connected \/ Asked
    BY <1>1, <1>2 DEF StatusInv, Coming
  <2> QED  BY <1>2, <1>4, <2>1, <2>2 DEF StatusInv, Threads
<1>6. OptionsInv'
  <2>1. CASE ~rec'.pcnct /\ ~Within(s, "pcnct")
    BY <1>1, <2>1 DEF OptionsInv
  <2>2. CASE Within(s, "getOption") /\ Within(s, "getEos")
    BY <1>1, <2>2 DEF OptionsInv, ToCome
  <2> QED  BY <2>1, <2>2
<1> QED  BY <1>3, <1>5, <1>6 DEF GhostOK

LEMMA PutsShow ==
    ASSUME RecordIInv, FieldsInv, Careful = TRUE,
           \/ \E p \in Ports \cup {Null} : PutPort(p)
           \/ \E b \in BOOLEAN : PutPcnct(b) \/ PutCnct(b) \/ PutEnbl(b)
           \/ \E i \in Ifaces : PutIface(i)
           \/ \E f \in Fields, v \in Values : PutField(f, v)
           \/ PutAqr \/ PutScanIoIntr \/ PutScanPassive
    PROVE  FieldsInv'
<1>0. /\ RecordTypeOK /\ rec \in RecFields /\ user \in asynUser /\ dev \in [Ports -> Port]
      /\ Fields \cap Steps = {}
  BY FieldFacts DEF RecordIInv, RecordTypeOK
<1>s. /\ <<"passive", "unlock">> # <<>> /\ Head(<<"passive", "unlock">>) # "show"
      /\ \A x \in {"remove", "connect", "disconnect", "add", "pcnct"} :
           ~Within(<<"passive", "unlock">>, x)
      /\ <<"unlock">> # <<>> /\ Head(<<"unlock">>) # "show"
      /\ \A x \in {"remove", "connect", "disconnect", "add", "pcnct"} : ~Within(<<"unlock">>, x)
  BY DEF Within
<1>1. ASSUME NEW p \in Ports \cup {Null}, PutPort(p) PROVE FieldsInv'
  <2> DEFINE s == connectDevice \o <<"state", "unlock">>
  <2>1. /\ DbFree /\ Quiet /\ program' = s /\ rec' = [rec EXCEPT !.port = p]
        /\ UNCHANGED <<user, queue, thread, timer, dev, ann, ghost, seen>>
    BY <1>1 DEF PutPort, Put, manager
  <2>2. rec'.cnct = rec.cnct
    BY <1>0, <2>1 DEF RecFields
  <2>3. /\ Ordered(s) /\ Head(s) = "remove" /\ s # <<>>
        /\ \A x \in {"remove", "connect", "add", "read", "getOption", "getEos"} : Within(s, x)
    BY ConnectOrdered
  <2> HIDE DEF s
  <2> QED  BY <2>1, <2>2, <2>3, MoveShows
<1>2. ASSUME PutPcnct(TRUE) PROVE FieldsInv'
  <2> DEFINE s == connectDevice \o <<"unlock">>
  <2>1. /\ DbFree /\ Quiet /\ program' = s /\ rec' = [rec EXCEPT !.pcnct = TRUE]
        /\ UNCHANGED <<user, queue, thread, timer, dev, ann, ghost, seen>>
    BY <1>2 DEF PutPcnct, Put, manager
  <2>2. rec'.cnct = rec.cnct
    BY <1>0, <2>1 DEF RecFields
  <2>3. /\ Ordered(s) /\ Head(s) = "remove" /\ s # <<>>
        /\ \A x \in {"remove", "connect", "add", "read", "getOption", "getEos"} : Within(s, x)
    BY ConnectOrdered
  <2> HIDE DEF s
  <2> QED  BY <2>1, <2>2, <2>3, MoveShows
<1>3. ASSUME PutPcnct(FALSE) PROVE FieldsInv'
  <2> DEFINE s == <<"remove", "disconnect", "passive", "unlock">>
  <2>1. /\ DbFree /\ Quiet /\ program' = s /\ rec' = [rec EXCEPT !.pcnct = FALSE]
        /\ UNCHANGED <<user, queue, thread, timer, dev, ann, ghost, seen>>
    BY <1>3 DEF PutPcnct, Put, manager
  <2>2. rec'.cnct = rec.cnct /\ ~rec'.pcnct
    BY <1>0, <2>1 DEF RecFields
  <2>3. /\ Ordered(s) /\ Head(s) = "remove" /\ s # <<>>
        /\ Within(s, "remove") /\ Within(s, "disconnect")
        /\ ~Within(s, "add") /\ ~Within(s, "pcnct")
    BY OrderedPrograms DEF Within
  <2> HIDE DEF s
  <2> QED  BY <2>1, <2>2, <2>3, MoveShows
<1>4. ASSUME NEW i \in Ifaces, PutIface(i) PROVE FieldsInv'
  <2> DEFINE s == <<"passive", "unlock">>
  <2>1. /\ DbFree /\ program' = s /\ rec' = [rec EXCEPT !.iface = i]
        /\ UNCHANGED <<user, queue, thread, timer, dev, ann, ghost, seen>>
    BY <1>4 DEF PutIface, Put, manager
  <2>2. rec'.cnct = rec.cnct /\ rec'.opt = rec.opt /\ rec'.pcnct = rec.pcnct
    BY <1>0, <2>1 DEF RecFields
  <2>3. /\ Ordered(s) /\ s # <<>> /\ Head(s) # "show"
        /\ \A x \in {"remove", "connect", "disconnect", "add", "pcnct"} : ~Within(s, x)
    BY <1>s, OrderedPrograms
  <2> HIDE DEF s
  <2> QED  BY <2>1, <2>2, <2>3, PutShowsHere
<1>5. ASSUME NEW b \in BOOLEAN, PutCnct(b) PROVE FieldsInv'
  <2> DEFINE s == <<"request", "unlock">>
  <2>1. /\ DbFree /\ program' = s /\ rec' = [rec EXCEPT !.cnct = b]
        /\ UNCHANGED <<user, queue, thread, timer, dev, ann, ghost, seen>>
    BY <1>5 DEF PutCnct, Put, manager
  <2>2. rec'.opt = rec.opt /\ rec'.pcnct = rec.pcnct
    BY <1>0, <2>1 DEF RecFields
  <2>3. /\ Ordered(s) /\ s # <<>> /\ Head(s) # "show" /\ Within(s, "request")
        /\ \A x \in {"remove", "connect", "disconnect", "add", "pcnct"} : ~Within(s, x)
    BY OrderedPrograms DEF Within
  <2> HIDE DEF s
  <2> QED  BY <2>1, <2>2, <2>3, PutShowsHere
<1>6. ASSUME NEW g \in Fields, NEW v \in Values, PutField(g, v) PROVE FieldsInv'
  <2> DEFINE s == <<g, "unlock">>
  <2>1. /\ DbFree /\ program' = s /\ rec' = [rec EXCEPT !.opt[g] = v]
        /\ UNCHANGED <<user, queue, thread, timer, dev, ann, ghost, seen>>
    BY <1>6 DEF PutField, Put, manager
  <2>2. /\ rec'.cnct = rec.cnct /\ rec'.pcnct = rec.pcnct
        /\ \A f \in Fields : f # g => rec'.opt[f] = rec.opt[f]
    <3>1. rec.opt \in [Fields -> Values \cup {Null}]
      BY <1>0 DEF RecFields
    <3>2. /\ rec'.cnct = rec.cnct /\ rec'.pcnct = rec.pcnct
          /\ rec'.opt = [rec.opt EXCEPT ![g] = v]
      BY <1>0, <2>1 DEF RecFields
    <3> QED  BY <3>1, <3>2
  <2>3. /\ Ordered(s) /\ s # <<>> /\ Head(s) # "show" /\ Within(s, g)
        /\ \A x \in {"remove", "connect", "disconnect", "add", "pcnct"} : ~Within(s, x)
    <3>1. g \notin {"remove", "connect", "disconnect", "add", "pcnct", "show"}
      BY <1>0 DEF Steps
    <3>2. s # <<>> /\ Head(s) = g /\ DOMAIN s = 1..2 /\ s[1] = g /\ s[2] = "unlock"
      OBVIOUS
    <3>3. Ordered(s)
      BY OrderedPrograms
    <3> HIDE DEF s
    <3> QED  BY <3>1, <3>2, <3>3 DEF Within
  <2> HIDE DEF s
  <2> QED  BY <2>1, <2>2, <2>3, PutShowsHere
<1>7. ASSUME NEW b \in BOOLEAN, PutEnbl(b) PROVE FieldsInv'
  <2> DEFINE s == <<"unlock">>
  <2>1. /\ DbFree /\ program' = s
        /\ rec' = rec \/ rec' = [rec EXCEPT !.cnct = Connected]
        /\ dev' = dev \/ \E p \in Ports : dev' = [dev EXCEPT ![p].enabled = b]
        /\ UNCHANGED <<user, queue, thread, timer, ann, ghost, seen>>
    BY <1>0, <1>7 DEF PutEnbl, Put, asynUser
  <2>2. /\ rec'.opt = rec.opt /\ rec'.pcnct = rec.pcnct
        /\ rec'.cnct = rec.cnct \/ rec'.cnct = Connected
    BY <1>0, <2>1 DEF RecFields
  <2>3. \A p \in Ports : /\ dev'[p].connected = dev[p].connected
                         /\ dev'[p].opt = dev[p].opt
    BY <1>0, <2>1 DEF Port
  <2>4. /\ Ordered(s) /\ s # <<>> /\ Head(s) # "show"
        /\ \A x \in {"remove", "connect", "disconnect", "add", "pcnct"} : ~Within(s, x)
    BY <1>s, OrderedPrograms
  <2>5. /\ \A p \in Blocking : queue[p] = <<>> => queue'[p] = <<>>
        /\ \A r \in Requests : OnQueue(r) => OnQueue(r)'
        /\ user'.port = user.port /\ user'.onList = user.onList
        /\ UNCHANGED <<thread, timer, ann, ghost, seen>>
    BY <2>1 DEF OnQueue
  <2> HIDE DEF s
  <2> QED  BY <2>1, <2>2, <2>3, <2>4, <2>5, PutShows
<1>8. ASSUME PutAqr PROVE FieldsInv'
  <2> DEFINE s == <<"canceled">>
             p == user.port
  <2>1. /\ DbFree /\ program' = s
        /\ rec' = rec \/ rec' = [rec EXCEPT !.nsev = 2]
        /\ \E c \in BOOLEAN : user' = [user EXCEPT !.canceled = c]
        /\ \/ queue' = queue
           \/ p \in Blocking /\ \E i \in Waiting(p) : queue' = [queue EXCEPT ![p] = RemoveAt(@, i)]
        /\ UNCHANGED <<thread, timer, dev, ann, ghost, seen>>
    BY <1>8 DEF PutAqr, Put
  <2>2. rec'.opt = rec.opt /\ rec'.pcnct = rec.pcnct /\ rec'.cnct = rec.cnct
    BY <1>0, <2>1 DEF RecFields
  <2>3. user'.port = user.port /\ user'.onList = user.onList
    BY <1>0, <2>1 DEF asynUser
  <2>4. /\ \A q \in Blocking : queue[q] = <<>> => queue'[q] = <<>>
        /\ \A r \in Requests : OnQueue(r) => OnQueue(r)' \/ r = Process
    <3>1. CASE queue' = queue
      BY <3>1 DEF OnQueue
    <3>2. ASSUME p \in Blocking, NEW i \in Waiting(p),
                 queue' = [queue EXCEPT ![p] = RemoveAt(@, i)]
          PROVE  /\ \A q \in Blocking : queue[q] = <<>> => queue'[q] = <<>>
                 /\ \A r \in Requests : OnQueue(r) => OnQueue(r)' \/ r = Process
      BY <1>0, <3>2, QueueTaken DEF Waiting
    <3> QED  BY <2>1, <3>1, <3>2
  <2>5. /\ Ordered(s) /\ s # <<>> /\ Head(s) # "show"
        /\ \A x \in {"remove", "connect", "disconnect", "add", "pcnct"} : ~Within(s, x)
    BY OrderedPrograms DEF Within
  <2> HIDE DEF s, p
  <2> QED  BY <2>1, <2>2, <2>3, <2>4, <2>5, PutShows
<1>9. ASSUME PutScanIoIntr \/ PutScanPassive PROVE FieldsInv'
  <2>1. /\ DbFree /\ program' \in {<<"unlock">>, <<"passive", "unlock">>}
        /\ rec' = rec \/ \E b : rec' = [rec EXCEPT !.intr = b]
        /\ UNCHANGED <<user, queue, thread, timer, dev, ann, ghost, seen>>
    BY <1>9 DEF PutScanIoIntr, PutScanPassive, Put, manager
  <2>2. rec'.opt = rec.opt /\ rec'.pcnct = rec.pcnct /\ rec'.cnct = rec.cnct
    BY <1>0, <2>1 DEF RecFields
  <2>3. PICK s \in {<<"unlock">>, <<"passive", "unlock">>} : program' = s
    BY <2>1
  <2>4. /\ Ordered(s) /\ s # <<>> /\ Head(s) # "show"
        /\ \A x \in {"remove", "connect", "disconnect", "add", "pcnct"} : ~Within(s, x)
    <3>1. CASE s = <<"unlock">>
      BY <1>s, <3>1, OrderedPrograms
    <3>2. CASE s = <<"passive", "unlock">>
      BY <1>s, <3>2, OrderedPrograms
    <3> QED  BY <3>1, <3>2
  <2> QED  BY <2>1, <2>2, <2>3, <2>4, PutShowsHere
<1> QED  BY <1>1, <1>2, <1>3, <1>4, <1>5, <1>6, <1>7, <1>8, <1>9

-----------------------------------------------------------------------------
\* What is left of a program that is in order.
LEMMA StepOrder ==
    ASSUME RecordIInv, Ordered(program), NEW s, program # <<>>, Head(program) = s,
           program' = Tail(program)
    PROVE  /\ Ordered(program') /\ InProgram(s)
           /\ \A x : InProgram(x)' => InProgram(x)
           /\ \A x : x # s /\ InProgram(x) => InProgram(x)'
           /\ ~InProgram("remove")'
           /\ s # "remove" => /\ ~InProgram("remove")
                              /\ ~InProgram("connect")' /\ ~InProgram("disconnect")'
           /\ s \notin {"remove", "connect"} => ~InProgram("add")'
           /\ s = "remove" => InProgram("connect")' \/ InProgram("disconnect")'
           /\ s = "connect" => /\ InProgram("add")' /\ InProgram("getOption")'
                               /\ InProgram("getEos")'
           /\ s = "add" => InProgram("read")'
           /\ s = "read" => InProgram("show")'
           /\ program' # <<>> /\ Head(program') = "show" => s = "read"
<1> DEFINE p == program
           q == program'
<1>1. /\ q \in Seq(Steps \cup Fields) /\ p[1] = s /\ 1 \in DOMAIN p
      /\ DOMAIN q = 1..Len(q) /\ DOMAIN p = 1..Len(p)
      /\ Len(q) \in Nat /\ Len(p) = Len(q) + 1
      /\ \A i \in DOMAIN q : i + 1 \in DOMAIN p /\ q[i] = p[i + 1]
      /\ \A x : InProgram(x)' => InProgram(x)
      /\ \A x : InProgram(x) /\ x # s => InProgram(x)'
  BY ProgramTail, LenProperties DEF RecordIInv, RecordTypeOK
<1>2. ASSUME NEW i \in DOMAIN p, i > 1
      PROVE  i - 1 \in DOMAIN q /\ q[i - 1] = p[i] /\ \A x : x = p[i] => InProgram(x)'
  <2>1. i - 1 \in DOMAIN q /\ (i - 1) + 1 = i
    BY <1>1, <1>2
  <2> QED  BY <1>1, <2>1 DEF InProgram
<1>3. ASSUME NEW i \in DOMAIN q, NEW x, Later(p, i + 1, x) PROVE Later(q, i, x)
  <2>1. PICK j \in DOMAIN p : j > i + 1 /\ p[j] = x
    BY <1>3 DEF Later
  <2>2. j > 1 /\ j - 1 > i
    BY <1>1, <2>1
  <2> QED  BY <1>2, <2>1, <2>2 DEF Later
<1>4. ASSUME NEW x, Later(p, 1, x) PROVE InProgram(x)'
  BY <1>2, <1>4 DEF Later
<1>5. \A i \in DOMAIN q : /\ q[i] # "remove"
                          /\ q[i] \in Moves => i = 1 /\ s = "remove"
                          /\ q[i] = "add" => (i = 1 /\ s = "connect") \/ (i > 1 /\ q[i - 1] = "connect")
                          /\ q[i] = "show" => (i = 1 /\ s = "read") \/ (i > 1 /\ q[i - 1] = "read")
                          /\ q[i] = "read" => i + 1 \in DOMAIN q /\ q[i + 1] = "show"
  <2> SUFFICES ASSUME NEW i \in DOMAIN q
               PROVE  /\ q[i] # "remove"
                      /\ q[i] \in Moves => i = 1 /\ s = "remove"
                      /\ q[i] = "add" => (i = 1 /\ s = "connect") \/ (i > 1 /\ q[i - 1] = "connect")
                      /\ q[i] = "show" => (i = 1 /\ s = "read") \/ (i > 1 /\ q[i - 1] = "read")
                      /\ q[i] = "read" => i + 1 \in DOMAIN q /\ q[i + 1] = "show"
    OBVIOUS
  <2>1. i + 1 \in DOMAIN p /\ q[i] = p[i + 1] /\ i + 1 # 1 /\ (i + 1) - 1 = i /\ i \in Nat /\ i >= 1
    BY <1>1
  <2>2. i > 1 => q[i - 1] = p[i]
    BY <1>1, <1>2
  <2>3. i = 1 => p[i] = s
    BY <1>1
  <2>4. q[i] # "remove" /\ (q[i] \in Moves => i = 1 /\ s = "remove")
    BY <1>1, <2>1 DEF Ordered
  <2>5. q[i] = "add" => p[i] = "connect"
    BY <2>1 DEF Ordered
  <2>6. q[i] = "show" => p[i] = "read"
    BY <2>1 DEF Ordered
  <2>7. q[i] = "read" => i + 1 \in DOMAIN q /\ q[i + 1] = "show"
    <3> HAVE q[i] = "read"
    <3>1. (i + 1) + 1 \in DOMAIN p /\ p[(i + 1) + 1] = "show"
      BY <2>1 DEF Ordered
    <3>2. i + 1 \in DOMAIN q
      BY <1>1, <2>1, <3>1
    <3>3. q[i + 1] = p[(i + 1) + 1]
      BY <1>1, <3>2
    <3> HIDE DEF p, q
    <3> QED  BY <3>1, <3>2, <3>3
  <2> QED  BY <2>1, <2>2, <2>3, <2>4, <2>5, <2>6, <2>7
<1>6. \A i \in DOMAIN q : q[i] = "connect" => /\ Later(q, i, "add") /\ Later(q, i, "getOption")
                                              /\ Later(q, i, "getEos")
  BY <1>1, <1>3 DEF Ordered
<1>7. \A i \in DOMAIN q : q[i] = "add" => Later(q, i, "read")
  BY <1>1, <1>3 DEF Ordered
<1>8. Ordered(q)
  BY <1>5, <1>6, <1>7 DEF Ordered
<1>9. ~InProgram("remove")' /\ InProgram(s)
  BY <1>1, <1>5 DEF InProgram
<1>10. s # "remove" => ~InProgram("remove") /\ ~InProgram("connect")' /\ ~InProgram("disconnect")'
  <2>1. s # "remove" => ~InProgram("remove")
    BY <1>1, <1>9
  <2> QED  BY <1>5, <2>1 DEF InProgram, Moves
<1>11. s \notin {"remove", "connect"} => ~InProgram("add")'
  <2> SUFFICES ASSUME s \notin {"remove", "connect"}, NEW i \in DOMAIN q, q[i] = "add" PROVE FALSE
    BY DEF InProgram
  <2>1. i > 1 /\ q[i - 1] = "connect" /\ i - 1 \in DOMAIN q
    BY <1>1, <1>5
  <2> QED  BY <1>5, <2>1 DEF Moves
<1>12. s = "remove" => InProgram("connect")' \/ InProgram("disconnect")'
  <2> HAVE s = "remove"
  <2>1. 2 \in DOMAIN p /\ p[2] \in Moves
    BY <1>1 DEF Ordered
  <2>2. \A x : x = p[2] => InProgram(x)'
    BY <1>2, <2>1
  <2> QED  BY <2>1, <2>2 DEF Moves
<1>13. s = "connect" => InProgram("add")' /\ InProgram("getOption")' /\ InProgram("getEos")'
  BY <1>1, <1>4 DEF Ordered
<1>14. s = "add" => InProgram("read")'
  BY <1>1, <1>4 DEF Ordered
<1>15. s = "read" => InProgram("show")'
  <2> HAVE s = "read"
  <2>1. 1 + 1 \in DOMAIN p /\ p[1 + 1] = "show"
    BY <1>1 DEF Ordered
  <2> QED  BY <1>2, <2>1
<1>16. q # <<>> /\ Head(q) = "show" => s = "read"
  <2> HAVE q # <<>> /\ Head(q) = "show"
  <2>1. 1 \in DOMAIN q /\ q[1] = "show"
    BY <1>1
  <2>2. ~(1 > 1)
    OBVIOUS
  <2> HIDE DEF p, q
  <2> QED  BY <1>5, <2>1, <2>2
<1> QED  BY <1>1, <1>8, <1>9, <1>10, <1>11, <1>12, <1>13, <1>14, <1>15, <1>16

\* The steps that move the record, when nothing is under way: off the list of
\* its port ...
LEMMA RemoveShows ==
    ASSUME RecordIInv, FieldsInv, exceptionCallbackRemove PROVE FieldsInv'
<1> USE DEF FieldsInv
<1>1. /\ program # <<>> /\ Head(program) = "remove" /\ program' = Tail(program)
      /\ user' = [user EXCEPT !.onList = FALSE] /\ user \in asynUser
      /\ UNCHANGED <<rec, queue, thread, timer, dev, ann, ghost, seen, scanLock>>
  BY DEF exceptionCallbackRemove, Step, RecordIInv, RecordTypeOK
<1>2. user'.port = user.port /\ ~user'.onList
  BY <1>1 DEF asynUser
<1>3. /\ Ordered(program') /\ InProgram("remove") /\ ~InProgram("remove")' /\ Moving'
      /\ \A x : InProgram(x)' => InProgram(x)
      /\ \A x : x # "remove" /\ InProgram(x) => InProgram(x)'
      /\ ~(program' # <<>> /\ Head(program') = "show")
      /\ InProgram("connect")' \/ InProgram("disconnect")'
  BY <1>1, StepOrder DEF Moving
<1>4. Calm /\ Calm' /\ \A a \in Announcers : ann[a].step \notin {"lock", "show"}
  BY <1>1, <1>3 DEF PlaceInv, Calm, Busy
<1>5. PlaceInv'
  <2>1. InProgram("add")' => InProgram("connect")' \/ user'.port # Null
    BY <1>2, <1>3 DEF PlaceInv
  <2> QED  BY <1>1, <1>2, <1>3, <1>4, <2>1 DEF PlaceInv, Calm, Threads
<1>6. StatusInv'
  BY <1>1, <1>2, <1>4 DEF StatusInv, Calm, Busy, Threads
<1>7. \A f \in Fields : ToCome(f) => ToCome(f)'
  <2>1. "remove" \notin Fields
    BY FieldFacts DEF Steps
  <2> QED  BY <1>1, <1>3, <2>1 DEF ToCome, Unread, Held, OnQueue
<1>8. OptionsInv'
  BY <1>1, <1>2, <1>3, <1>7, OptionsFrame
<1> QED  BY <1>1, <1>3, <1>5, <1>6, <1>8 DEF GhostOK

\* ... away from it, and to another, or to none ...
LEMMA NotQueued == ASSUME Calm PROVE ~IsQueued
<1>1. user.port \in Blocking => Waiting(user.port) = {}
  BY DEF Calm, Waiting
<1> QED  BY <1>1 DEF IsQueued

LEMMA AwayShows ==
    ASSUME RecordIInv, FieldsInv, Disconnect \/ ConnectPort PROVE FieldsInv'
<1> USE DEF FieldsInv
<1>1. /\ program # <<>> /\ Head(program) \in {"disconnect", "connect"}
      /\ user \in asynUser /\ rec \in RecFields
      /\ UNCHANGED <<queue, thread, timer, dev, ann, ghost, seen, scanLock>>
  BY DEF Disconnect, ConnectPort, Step, RecordIInv, RecordTypeOK
<1>2. InProgram(Head(program)) /\ ~InProgram("remove")
  <2>1. Head(program) = "connect" => InProgram("connect")
    BY <1>1, StepFacts
  <2>2. Head(program) = "disconnect" => InProgram("disconnect")
    BY <1>1, StepFacts
  <2> QED  BY <1>1, <2>1, <2>2, RemoveLeads DEF RecordIInv, RecordTypeOK
<1>3. ~user.onList /\ Calm /\ Calm' /\ \A a \in Announcers : ann[a].step \notin {"lock", "show"}
  BY <1>1, <1>2 DEF PlaceInv, Calm, Busy, Moving
<1>4. ~IsQueued
  BY <1>3, NotQueued
<1>5. ASSUME user'.onList = user.onList, ~InProgram("remove")',
             user'.port = Null \/ Moving', InProgram("add")' => user'.port # Null
      PROVE  PlaceInv' /\ StatusInv'
  <2>1. PlaceInv'
    BY <1>1, <1>3, <1>5 DEF PlaceInv, Calm, Threads
  <2>2. StatusInv'
    BY <1>1, <1>3, <1>5 DEF StatusInv, Calm, Busy, Threads
  <2> QED  BY <2>1, <2>2
<1>6. CASE Disconnect
  <2>1. /\ Head(program) = "disconnect" /\ program' = Tail(program)
        /\ user' = [user EXCEPT !.port = Null]
    BY <1>4, <1>6 DEF Disconnect, Step
  <2>2. user'.port = Null /\ user'.onList = user.onList
    BY <1>1, <2>1 DEF asynUser
  <2>3. Ordered(program') /\ ~InProgram("remove")' /\ ~InProgram("add")'
    BY <1>1, <2>1, StepOrder
  <2>4. OptionsInv'
    BY <2>2 DEF OptionsInv
  <2> QED  BY <1>1, <1>5, <2>2, <2>3, <2>4 DEF GhostOK
<1>7. CASE ConnectPort /\ rec.port # Null
  <2>1. /\ Head(program) = "connect" /\ program' = Tail(program)
        /\ user' = [user EXCEPT !.port = rec.port] /\ rec' = rec
    BY <1>4, <1>7 DEF ConnectPort
  <2>2. user'.port = rec.port /\ user'.onList = user.onList
    BY <1>1, <2>1 DEF asynUser
  <2>3. /\ Ordered(program') /\ ~InProgram("remove")' /\ InProgram("add")'
        /\ InProgram("getOption")' /\ InProgram("getEos")'
    BY <1>1, <2>1, StepOrder
  <2>4. OptionsInv'
    BY <2>3 DEF OptionsInv, ToCome
  <2> QED  BY <1>1, <1>5, <1>7, <2>2, <2>3, <2>4 DEF GhostOK, Moving
<1>8. CASE ConnectPort /\ rec.port = Null
  <2>1. /\ program' \in {<<"passive", "read", "show", "unlock">>,
                          <<"passive", "read", "show", "state", "unlock">>}
        /\ user' = [user EXCEPT !.port = Null]
    BY <1>4, <1>8 DEF ConnectPort
  <2>2. user'.port = Null /\ user'.onList = user.onList
    BY <1>1, <2>1 DEF asynUser
  <2>3. Ordered(program')
    BY <2>1, OrderedPrograms
  <2>4. ~InProgram("remove")' /\ ~InProgram("add")'
    <3>1. CASE program' = <<"passive", "read", "show", "unlock">>
      BY <3>1 DEF InProgram
    <3>2. CASE program' = <<"passive", "read", "show", "state", "unlock">>
      BY <3>2 DEF InProgram
    <3> QED  BY <2>1, <3>1, <3>2
  <2>5. OptionsInv'
    BY <2>2 DEF OptionsInv
  <2> QED  BY <1>1, <1>5, <2>2, <2>3, <2>4, <2>5 DEF GhostOK
<1> QED  BY <1>6, <1>7, <1>8

\* ... and on the list of the port it has come to.
LEMMA AddShows ==
    ASSUME RecordIInv, FieldsInv, exceptionCallbackAdd PROVE FieldsInv'
<1> USE DEF FieldsInv
<1>1. /\ program # <<>> /\ Head(program) = "add" /\ program' = Tail(program)
      /\ user' = [user EXCEPT !.onList = TRUE] /\ user \in asynUser
      /\ UNCHANGED <<rec, queue, thread, timer, dev, ann, ghost, seen, scanLock>>
  BY DEF exceptionCallbackAdd, Step, RecordIInv, RecordTypeOK
<1>2. user'.port = user.port /\ user'.onList
  BY <1>1 DEF asynUser
<1>3. /\ Ordered(program') /\ InProgram("add") /\ ~InProgram("remove") /\ ~InProgram("remove")'
      /\ ~InProgram("connect") /\ ~Moving' /\ InProgram("read")'
      /\ ~(program' # <<>> /\ Head(program') = "show")
      /\ \A x : InProgram(x)' => InProgram(x)
      /\ \A x : x # "add" /\ InProgram(x) => InProgram(x)'
  BY <1>1, StepOrder DEF Moving
<1>4. /\ Calm /\ Calm' /\ user.port # Null
      /\ \A a \in Announcers : ann[a].step \notin {"lock", "show"}
  BY <1>1, <1>3 DEF PlaceInv, Calm, Busy, Moving
<1>5. PlaceInv'
  BY <1>1, <1>2, <1>3, <1>4 DEF PlaceInv, Calm, Moving, Threads
<1>6. StatusInv'
  BY <1>1, <1>3, <1>4 DEF StatusInv, Calm, Busy, Threads
<1>7. \A f \in Fields : ToCome(f) => ToCome(f)'
  <2>1. "add" \notin Fields
    BY FieldFacts DEF Steps
  <2> QED  BY <1>1, <1>3, <2>1 DEF ToCome, Unread, Held, OnQueue
<1>8. OptionsInv'
  BY <1>1, <1>2, <1>3, <1>7, OptionsFrame
<1> QED  BY <1>1, <1>3, <1>5, <1>6, <1>8 DEF GhostOK

\* The other steps leave the record where it is.
LEMMA StepPlace ==
    ASSUME RecordIInv, FieldsInv, NEW s, s \notin {"remove", "connect", "disconnect", "add"},
           Step(s), user' = user, ann' = ann, timer' = timer,
           user.onList \/ UNCHANGED <<queue, thread>>,
           \A p \in Blocking : Busy(p)' \/ queue'[p] # <<>> => user.port = p,
           Busy(Db)' => user.port \notin Blocking /\ scanLock' = Db /\ s # "read"
    PROVE  PlaceInv'
<1> USE DEF FieldsInv
<1>1. /\ program # <<>> /\ Head(program) = s /\ program' = Tail(program)
  BY DEF Step
<1>2. /\ ~InProgram("remove") /\ ~InProgram("remove")'
      /\ ~Moving /\ ~Moving' /\ ~InProgram("add")'
      /\ program' # <<>> /\ Head(program') = "show" => s = "read"
  <2>1. /\ ~InProgram("remove") /\ ~InProgram("remove")' /\ ~InProgram("connect")'
        /\ ~InProgram("disconnect")' /\ ~InProgram("add")'
        /\ \A x : x # s /\ InProgram(x) => InProgram(x)'
        /\ program' # <<>> /\ Head(program') = "show" => s = "read"
    BY <1>1, StepOrder
  <2> QED  BY <2>1 DEF Moving
<1>3. ~user.onList => Calm /\ Calm' /\ user.port = Null
  BY <1>2 DEF PlaceInv, Calm, Busy
<1>4. user.onList => user.port # Null
  BY DEF PlaceInv
<1>5. \A a \in Announcers : ann[a].step \in {"lock", "show"} =>
        user.onList /\ ann[a].port = user.port
  BY DEF PlaceInv
<1> QED  BY <1>2, <1>3, <1>4, <1>5 DEF PlaceInv

\* A step that asks nobody: monitorStatus reads and shows the connection.
LEMMA PlainStepShows ==
    ASSUME RecordIInv, FieldsInv, NEW s,
           s \notin {"remove", "connect", "disconnect", "add", "request"} \cup Fields,
           Step(s), UNCHANGED <<user, queue, thread, timer, dev, ann, ghost>>,
           seen' = IF s = "read" THEN Connected ELSE seen,
           rec'.cnct = IF s = "show" THEN seen ELSE rec.cnct,
           rec'.opt = rec.opt,
           rec'.pcnct = rec.pcnct \/ s = "pcnct",
           s \in {"getOption", "getEos"} /\ user.port # Null =>
             \A f \in Fields : IfaceOf(f) \in Supports[user.port] =>
               s # (IF f \in EosFields THEN "getEos" ELSE "getOption")
    PROVE  FieldsInv'
<1> USE DEF FieldsInv
<1>1. /\ program # <<>> /\ Head(program) = s /\ program' = Tail(program) /\ ~Busy(Db)
      /\ (\A a \in Threads : Busy(a)' <=> Busy(a)) /\ ~Busy(Db)'
  BY DEF Step, Busy
<1>2. /\ Ordered(program') /\ InProgram(s)
      /\ \A x : InProgram(x)' => InProgram(x)
      /\ \A x : x # s /\ InProgram(x) => InProgram(x)'
      /\ s = "read" => InProgram("show")'
      /\ program' # <<>> /\ Head(program') = "show" => s = "read"
  BY <1>1, StepOrder
<1>3. PlaceInv'
  <2>1. \A p \in Blocking : Busy(p)' \/ queue'[p] # <<>> => user.port = p
    BY <1>1 DEF PlaceInv, Busy
  <2> QED  BY <1>1, <2>1, StepPlace
<1>4. Connected' = Connected /\ (Coming' <=> Coming)
  BY DEF Connected, Coming
<1>5. Asked => Asked'
  BY <1>2 DEF Asked, Held, OnQueue, Busy
<1>6. StatusInv'
  <2>1. program' # <<>> /\ Head(program') = "show" => seen' = Connected
    BY <1>2
  <2>2. user.onList /\ s = "show" => rec'.cnct = Connected \/ Coming
    BY <1>1 DEF StatusInv
  <2>3. thread'[Db].step # "show" /\ \A p \in Blocking : thread'[p] = thread[p]
    BY <1>1 DEF Busy
  <2>4. user.onList => \/ rec'.cnct = Connected' \/ Coming' \/ Asked'
                       \/ \E a \in Announcers : ann'[a].step = "show"
                       \/ InProgram("read")' \/ InProgram("show")'
    BY <1>2, <1>4, <1>5, <2>2 DEF StatusInv
  <2> QED  BY <1>4, <2>1, <2>3, <2>4 DEF StatusInv
<1>7. ASSUME user.port # Null, NEW f \in Fields, IfaceOf(f) \in Supports[user.port], ToCome(f)
      PROVE  ToCome(f)'
  <2>1. s # f /\ s # (IF f \in EosFields THEN "getEos" ELSE "getOption")
    BY <1>7
  <2> QED  BY <1>2, <1>7, <2>1 DEF ToCome, Unread, Held, OnQueue
<1>8. OptionsInv'
  <2>1. rec'.pcnct \/ InProgram("pcnct")' => rec.pcnct \/ InProgram("pcnct")
    BY <1>2
  <2> QED  BY <1>7, <2>1 DEF OptionsInv
<1> QED  BY <1>2, <1>3, <1>6, <1>8 DEF GhostOK

\* A step that queues a request: it is refused, waits, or is under way.
LEMMA QueueSpecialShows ==
    ASSUME RecordIInv, FieldsInv, NEW s, NEW r \in Requests, QueueSpecial(s, r),
           \/ s = "request" /\ r = Request("connect", Null)
           \/ s = "getOption" /\ r = Request("getOption", Null)
           \/ s = "getEos" /\ r = Request("getEos", Null)
           \/ s \in Fields /\ r = Request("set", s)
    PROVE  FieldsInv'
<1> USE DEF FieldsInv
<1>0. /\ Step(s) /\ program # <<>> /\ Head(program) = s /\ program' = Tail(program)
      /\ ~Busy(Db) /\ UNCHANGED <<rec, user, timer, dev, ann, seen, scanLock>>
      /\ RecordTypeOK /\ thread \in [Threads -> Call] /\ Db \in Threads /\ Db \notin Blocking
      /\ Threads = Blocking \cup {Db} /\ Blocking \subseteq Threads
  BY RecordAssumption DEF QueueSpecial, Step, Busy, RecordIInv, RecordTypeOK, Threads,
                          RecordAssumption
<1>1. s \notin {"remove", "connect", "disconnect", "add", "read", "show", "pcnct"}
  BY FieldFacts DEF Steps
<1>2. /\ Ordered(program') /\ InProgram(s) /\ scanLock = Db
      /\ \A x : InProgram(x)' => InProgram(x)
      /\ \A x : x # s /\ InProgram(x) => InProgram(x)'
      /\ ~InProgram("remove") /\ ~Moving
      /\ ~(program' # <<>> /\ Head(program') = "show")
  <2>1. /\ Ordered(program') /\ InProgram(s)
        /\ \A x : InProgram(x)' => InProgram(x)
        /\ \A x : x # s /\ InProgram(x) => InProgram(x)'
        /\ ~InProgram("remove") /\ ~InProgram("connect")' /\ ~InProgram("disconnect")'
        /\ ~InProgram("add")'
        /\ program' # <<>> /\ Head(program') = "show" => s = "read"
    BY <1>0, <1>1, StepOrder
  <2>2. scanLock = Db
    BY <1>0, StepFacts
  <2> QED  BY <1>1, <2>1, <2>2 DEF Moving
<1>3. FieldsOf(r) \in SUBSET (Fields \cup {"cnct"})
  BY FieldFacts
<1>4. /\ GhostOK' /\ ghost.unserved \subseteq ghost'.unserved
      /\ \A x \in Requests : (Held(x) => Held(x)') /\ (Unread(x) => Unread(x)')
      /\ \A a \in Threads : Busy(a) => thread'[a] = thread[a]
      /\ \A a \in Threads : thread'[a].step # "show" \/ thread'[a] = thread[a]
      /\ FieldsOf(r) \subseteq ghost'.unserved
           \/ (Unread(r)' /\ (Held(r)' \/ \E a \in Threads : Busy(a)' /\ thread'[a].req = r))
      /\ user.onList \/ UNCHANGED <<queue, thread>>
      /\ \A p \in Blocking : Busy(p)' \/ queue'[p] # <<>> => user.port = p
      /\ Busy(Db)' => user.port \notin Blocking
  <2>1. CASE ~Accepts(user.port, r)
    <3>1. ghost' = [ghost EXCEPT !.unserved = @ \cup FieldsOf(r)] /\ UNCHANGED <<queue, thread>>
      BY <2>1 DEF QueueSpecial
    <3>2. GhostOK' /\ ghost'.unserved = ghost.unserved \cup FieldsOf(r)
      BY <1>3, <3>1, GhostUpdates DEF GhostOK
    <3> QED  BY <1>0, <3>1, <3>2 DEF Held, OnQueue, Unread, Busy, PlaceInv
  <2>2. CASE Accepts(user.port, r) /\ user.port \in Blocking
    <3>1. /\ queue' = [queue EXCEPT ![user.port] = Append(@, r)]
          /\ UNCHANGED <<ghost, thread>> /\ user.port # Null
      BY <2>2 DEF QueueSpecial, Accepts
    <3>2. /\ OnQueue(r)' /\ \A x : OnQueue(x) => OnQueue(x)'
          /\ \A q \in Blocking \ {user.port} : queue'[q] = queue[q]
      BY <1>0, <2>2, <3>1, QueueJoined
    <3>3. user.onList
      BY <1>2, <3>1 DEF PlaceInv
    <3> QED  BY <1>0, <2>2, <3>1, <3>2, <3>3 DEF Held, Unread, Busy, PlaceInv, GhostOK
  <2>3. CASE Accepts(user.port, r) /\ user.port \notin Blocking
    <3>1. /\ thread' = [thread EXCEPT ![Db] = [Idle EXCEPT !.step = "act", !.req = r]]
          /\ UNCHANGED <<ghost, queue>> /\ user.port # Null
      BY <2>3 DEF QueueSpecial, Accepts
    <3>2. /\ thread'[Db].step = "act" /\ thread'[Db].req = r
          /\ \A p \in Blocking : thread'[p] = thread[p]
      BY <1>0, <3>1 DEF Idle
    <3>3. user.onList
      BY <1>2, <3>1 DEF PlaceInv
    <3> QED  BY <1>0, <2>3, <3>1, <3>2, <3>3 DEF Held, OnQueue, Unread, Busy, PlaceInv, GhostOK
  <2> QED  BY <2>1, <2>2, <2>3
<1>5. PlaceInv'
  BY <1>0, <1>1, <1>2, <1>4, StepPlace
<1>6. Connected' = Connected /\ (Coming' <=> Coming)
  BY <1>0 DEF Connected, Coming
<1>7. Asked => Asked'
  <2>1. s = "request" => Asked'
    <3> HAVE s = "request"
    <3>1. r = Request("connect", Null) /\ FieldsOf(r) = {"cnct"}
      BY FieldFacts DEF Steps
    <3> QED  BY <1>4, <3>1 DEF Asked
  <2>2. s # "request" /\ Asked => Asked'
    BY <1>2, <1>4, FieldFacts DEF Asked, Busy
  <2> QED  BY <2>1, <2>2
<1>8. StatusInv'
  <2>1. InProgram("read") => InProgram("read")'
    BY <1>1, <1>2
  <2>2. InProgram("show") => InProgram("show")'
    BY <1>1, <1>2
  <2> QED  BY <1>0, <1>2, <1>4, <1>6, <1>7, <2>1, <2>2 DEF StatusInv
<1>9. ASSUME NEW f \in Fields, ToCome(f) PROVE ToCome(f)'
  <2>1. f \in FieldsOf(r) => ToCome(f)'
    BY <1>4 DEF ToCome
  <2>2. f = s => f \in FieldsOf(r)
    BY FieldFacts DEF Steps
  <2>3. s = (IF f \in EosFields THEN "getEos" ELSE "getOption") => f \in FieldsOf(r)
    BY FieldFacts DEF Steps
  <2> QED  BY <1>2, <1>4, <1>9, <2>1, <2>2, <2>3 DEF ToCome
<1>10. OptionsInv'
  <2>1. InProgram("pcnct")' => InProgram("pcnct")
    BY <1>2
  <2> QED  BY <1>0, <1>9, <2>1, OptionsFrame
<1> QED  BY <1>2, <1>4, <1>5, <1>8, <1>10

LEMMA SpecialShows ==
    ASSUME RecordIInv, FieldsInv, Special PROVE FieldsInv'
<1>0. /\ rec \in RecFields /\ pvt.bound \in Ports /\ Null \notin Ports
      /\ user.port # Null => pvt.bound = user.port
      /\ Fields \cap Steps = {}
      /\ Request("getOption", Null) \in Requests /\ Request("getEos", Null) \in Requests
      /\ Request("connect", Null) \in Requests
      /\ \A f \in Fields : Request("set", f) \in Requests
  BY RequestFacts, FieldFacts, RecordAssumption
     DEF RecordIInv, RecordTypeOK, IntrInv, asynRecPvt, RecordAssumption
<1>1. CASE exceptionCallbackRemove \/ Disconnect \/ ConnectPort \/ exceptionCallbackAdd
  BY <1>1, RemoveShows, AwayShows, AddShows
<1>2. CASE ReadStatus
  <2>1. /\ Step("read") /\ seen' = Connected /\ "read" \notin Fields
        /\ UNCHANGED <<rec, user, queue, thread, timer, dev, ann, ghost>>
    BY <1>0, <1>2 DEF ReadStatus, manager, Steps
  <2> QED  BY <2>1, PlainStepShows
<1>3. CASE ShowStatus
  <2>1. /\ Step("show") /\ rec' = [rec EXCEPT !.cnct = seen] /\ "show" \notin Fields
        /\ UNCHANGED <<user, queue, thread, timer, dev, ann, ghost, seen>>
    BY <1>0, <1>3 DEF ShowStatus, manager, Steps
  <2>2. rec'.cnct = seen /\ rec'.opt = rec.opt /\ rec'.pcnct = rec.pcnct
    BY <1>0, <2>1 DEF RecFields
  <2> QED  BY <2>1, <2>2, PlainStepShows
<1>4. CASE AskOption
  <2>1. CASE Has("option")
    BY <1>0, <1>4, <2>1, QueueSpecialShows DEF AskOption
  <2>2. CASE ~Has("option")
    <3>1. /\ Step("getOption") /\ "getOption" \notin Fields
          /\ UNCHANGED <<rec, user, queue, thread, timer, dev, ann, ghost, seen>>
      BY <1>0, <1>4, <2>2 DEF AskOption, Skip, manager, Steps
    <3>2. user.port # Null => "option" \notin Supports[user.port]
      BY <1>0, <2>2 DEF Has
    <3>3. user.port # Null =>
            \A f \in Fields : IfaceOf(f) \in Supports[user.port] =>
              "getOption" # (IF f \in EosFields THEN "getEos" ELSE "getOption")
      BY <3>2 DEF IfaceOf
    <3> QED  BY <3>1, <3>3, PlainStepShows
  <2> QED  BY <2>1, <2>2
<1>5. CASE AskEos
  <2>1. CASE Has("octet")
    BY <1>0, <1>5, <2>1, QueueSpecialShows DEF AskEos
  <2>2. CASE ~Has("octet")
    <3>1. /\ Step("getEos") /\ "getEos" \notin Fields
          /\ UNCHANGED <<rec, user, queue, thread, timer, dev, ann, ghost, seen>>
      BY <1>0, <1>5, <2>2 DEF AskEos, Skip, manager, Steps
    <3>2. user.port # Null => "octet" \notin Supports[user.port]
      BY <1>0, <2>2 DEF Has
    <3>3. user.port # Null =>
            \A f \in Fields : IfaceOf(f) \in Supports[user.port] =>
              "getEos" # (IF f \in EosFields THEN "getEos" ELSE "getOption")
      BY <3>2 DEF IfaceOf
    <3> QED  BY <3>1, <3>3, PlainStepShows
  <2> QED  BY <2>1, <2>2
<1>6. CASE AskConnect
  BY <1>0, <1>6, QueueSpecialShows DEF AskConnect
<1>7. ASSUME NEW f \in Fields, AskField(f) PROVE FieldsInv'
  BY <1>0, <1>7, QueueSpecialShows DEF AskField
<1>8. CASE ShowPcnct
  <2>1. /\ Step("pcnct") /\ rec' = [rec EXCEPT !.pcnct = TRUE] /\ "pcnct" \notin Fields
        /\ UNCHANGED <<user, queue, thread, timer, dev, ann, ghost, seen>>
    BY <1>0, <1>8 DEF ShowPcnct, manager, Steps
  <2>2. rec'.cnct = rec.cnct /\ rec'.opt = rec.opt
    BY <1>0, <2>1 DEF RecFields
  <2> QED  BY <2>1, <2>2, PlainStepShows
<1>9. CASE cancelIOInterruptScan
  <2>1. /\ Step("passive") /\ rec' = [rec EXCEPT !.intr = FALSE] /\ "passive" \notin Fields
        /\ UNCHANGED <<user, queue, thread, timer, dev, ann, ghost, seen>>
    BY <1>0, <1>9 DEF cancelIOInterruptScan, manager, Steps
  <2>2. rec'.cnct = rec.cnct /\ rec'.opt = rec.opt /\ rec'.pcnct = rec.pcnct
    BY <1>0, <2>1 DEF RecFields
  <2> QED  BY <2>1, <2>2, PlainStepShows
<1>10. CASE SetState
  <2>1. /\ Step("state") /\ "state" \notin Fields
        /\ UNCHANGED <<rec, user, queue, thread, timer, dev, ann, ghost, seen>>
    BY <1>0, <1>10 DEF SetState, manager, Steps
  <2> QED  BY <2>1, PlainStepShows
<1>11. CASE Canceled
  <2>1. /\ Step("canceled") /\ "canceled" \notin Fields
        /\ UNCHANGED <<rec, user, queue, thread, timer, dev, ann, ghost, seen>>
    BY <1>0, <1>11 DEF Canceled, manager, Steps
  <2> QED  BY <2>1, PlainStepShows
<1>12. CASE Unlock
  <2>1. /\ Step("unlock") /\ "unlock" \notin Fields
        /\ UNCHANGED <<rec, user, queue, thread, timer, dev, ann, ghost, seen>>
    BY <1>0, <1>12 DEF Unlock, manager, Steps
  <2> QED  BY <2>1, PlainStepShows
<1> QED
  BY <1>1, <1>2, <1>3, <1>4, <1>5, <1>6, <1>7, <1>8, <1>9, <1>10, <1>11, <1>12 DEF Special

-----------------------------------------------------------------------------
\* init_record has asked its port for the fields, or they are already shown.
LEMMA FieldsInit == ASSUME Init PROVE FieldsInv
<1>1. PICK p \in Ports : init_record(p)
  BY DEF Init
<1>2. /\ program = <<>> /\ timer = Null /\ ghost = [io |-> "done", unserved |-> {}]
      /\ \A a \in Threads : thread[a].step = "wait"
      /\ \A a \in Announcers : ann[a].step = "none"
      /\ rec.cnct = TRUE /\ user.port = p /\ user.onList /\ p # Null
      /\ dev[p].connected /\ \A f \in Fields : dev[p].opt[f] = FirstValue
  BY <1>1, RecordAssumption DEF Init, init_record, Idle, Silent, RecordAssumption
<1>3. (\A x : ~InProgram(x)) /\ ~Moving /\ Ordered(program)
  BY <1>2 DEF InProgram, Moving, Ordered
<1>4. \A q \in Blocking : queue[q] # <<>> => q = p
  BY <1>1 DEF init_record
<1>5. PlaceInv
  BY <1>2, <1>3, <1>4, RecordAssumption DEF PlaceInv, Busy, Threads, Announcers
<1>6. StatusInv
  BY <1>2, <1>3 DEF StatusInv, Connected, Threads
<1>7. ASSUME NEW f \in Fields, IfaceOf(f) \in Supports[p]
      PROVE  ToCome(f) \/ rec.opt[f] = dev[p].opt[f]
  <2>1. CASE p \notin Blocking
    <3>1. rec.opt = [g \in Fields |-> IF p \notin Blocking /\ IfaceOf(g) \in Supports[p]
                                      THEN FirstValue ELSE Null]
      BY <1>1 DEF init_record
    <3> QED  BY <1>2, <1>7, <2>1, <3>1
  <2>2. CASE p \in Blocking
    <3> DEFINE a == Request("getOption", Null)
               b == Request("getEos", Null)
               q == (IF "option" \in Supports[p] THEN <<a>> ELSE <<>>)
                    \o (IF "octet" \in Supports[p] THEN <<b>> ELSE <<>>)
    <3>1. queue[p] = q
      BY <1>1, <2>2 DEF init_record
    <3>2. /\ "option" \in Supports[p] => 1 \in DOMAIN q /\ q[1] = a
          /\ "octet" \in Supports[p] => \E i \in DOMAIN q : q[i] = b
      <4> HIDE DEF a, b
      <4>1. CASE "option" \in Supports[p] /\ "octet" \in Supports[p]
        <5>1. q = <<a>> \o <<b>> /\ <<a>> \in Seq({a, b}) /\ <<b>> \in Seq({a, b})
          BY <4>1
        <5> HIDE DEF q
        <5>2. Len(q) = 2 /\ q \in Seq({a, b}) /\ q[1] = a /\ q[2] = b
          BY <5>1, ConcatProperties
        <5> QED  BY <5>2
      <4>2. CASE "option" \in Supports[p] /\ "octet" \notin Supports[p]
        <5>1. q = <<a>>
          BY <4>2
        <5> QED  BY <4>2, <5>1
      <4>3. CASE "option" \notin Supports[p] /\ "octet" \in Supports[p]
        <5>1. q = <<b>>
          BY <4>3
        <5> QED  BY <4>3, <5>1
      <4> QED  BY <4>1, <4>2, <4>3
    <3> HIDE DEF q
    <3>3. /\ "option" \in Supports[p] => Unread(a)
          /\ "octet" \in Supports[p] => Unread(b)
      BY <2>2, <3>1, <3>2 DEF Unread, Held, OnQueue
    <3>4. f \in FieldsOf(IF f \in EosFields THEN b ELSE a) /\ a \in Requests /\ b \in Requests
      BY FieldFacts, RequestFacts
    <3> QED  BY <1>7, <3>3, <3>4 DEF ToCome, IfaceOf
  <2> QED  BY <2>1, <2>2
<1>8. OptionsInv
  BY <1>2, <1>7 DEF OptionsInv
<1>9. GhostOK
  BY <1>2 DEF GhostOK, Outcomes
<1> QED  BY <1>3, <1>5, <1>6, <1>8, <1>9 DEF FieldsInv

LEMMA FieldsStutter == ASSUME FieldsInv, UNCHANGED vars PROVE FieldsInv'
<1>1. UNCHANGED <<rec, user, queue, thread, timer, dev, ann, scanLock, program, seen, ghost>>
  BY DEF vars
<1>2. Connected' = Connected /\ Stays /\ SameAnn /\ GhostOK'
  BY <1>1 DEF Connected, Stays, SameAnn, FieldsInv, GhostOK
<1> QED  BY <1>1, <1>2, FieldsFrame

LEMMA FieldsInvariant == ASSUME Careful = TRUE PROVE Spec => [](RecordIInv /\ FieldsInv)
<1>1. ASSUME RecordIInv, FieldsInv, [Next]_vars PROVE RecordIInv' /\ FieldsInv'
  <2>0. RecordIInv'
    BY <1>1, RecordNext
  <2>1. CASE Client
    BY <1>1, <2>0, <2>1, PutsShow, ProcessingShows DEF Client
  <2>2. CASE Environment
    BY <1>1, <2>0, <2>2, EnvironmentShows, QueuesShow DEF Environment
  <2>3. CASE Special
    BY <1>1, <2>0, <2>3, SpecialShows
  <2>4. CASE ScanIoIntr \/ ProcessCallback
    BY <1>1, <2>0, <2>4, ProcessingShows
  <2>5. CASE queueTimeoutCallbackProcess \/ queueTimeoutCallbackSpecial
    BY <1>1, <2>0, <2>5, QueuesShow
  <2>6. ASSUME NEW p \in Blocking, Serve(p) PROVE FieldsInv'
    BY <1>1, <2>0, <2>6, QueuesShow
  <2>7. ASSUME NEW a \in Threads, Callback(a) PROVE FieldsInv'
    BY <1>1, <2>0, <2>7, CallbacksShow
  <2>8. ASSUME NEW a \in Announcers, exceptCallback(a) PROVE FieldsInv'
    BY <1>1, <2>0, <2>8, ExceptShows
  <2>9. CASE UNCHANGED vars
    BY <1>1, <2>0, <2>9, FieldsStutter
  <2> QED  BY <1>1, <2>0, <2>1, <2>2, <2>3, <2>4, <2>5, <2>6, <2>7, <2>8, <2>9 DEF Next
<1> QED  BY <1>1, RecordInit, FieldsInit, PTL DEF Spec

\* After a put, a processing or a callback the option and end-of-string fields
\* and CNCT show what the port has, or a request or an announcement that will
\* show it is under way, or it was refused or timed out: nothing that changes the
\* port, and no change of port, is forgotten (getOptions, getEos, monitorStatus,
\* exceptCallback).
THEOREM FieldsTrue == ASSUME Careful = TRUE PROVE Spec => []FieldsShown
<1>1. RecordIInv /\ FieldsInv => FieldsShown
  <2> SUFFICES ASSUME RecordIInv, FieldsInv, DbFree PROVE FieldsShown
    BY DEF FieldsShown, OptionsShown, ConnectShown
  <2> USE DEF FieldsInv
  <2>1. /\ (\A x : ~InProgram(x)) /\ \A a \in Announcers : ann[a].step # "show"
        /\ user.port # Null <=> user.onList
    BY FreeFacts
  <2>2. ASSUME NEW r, Held(r), r # Null PROVE r \in Outstanding
    <3>1. CASE timer = r
      BY <2>2, <3>1 DEF Outstanding
    <3>2. CASE OnQueue(r)
      <4>1. PICK p \in Blocking : \E i \in DOMAIN queue[p] : queue[p][i] = r
        BY <3>2 DEF OnQueue
      <4>2. r \in ToSet(queue[p])
        BY <4>1 DEF ToSet
      <4> QED  BY <4>2 DEF Outstanding
    <3> QED  BY <2>2, <3>1, <3>2 DEF Held
  <2>3. ASSUME NEW a \in Threads, Busy(a) PROVE thread[a].req \in Outstanding
    BY <2>3 DEF Busy, Outstanding
  <2>4. OptionsShown
    <3> SUFFICES ASSUME user.port # Null, rec.pcnct, NEW f \in Fields,
                        IfaceOf(f) \in Supports[user.port]
                 PROVE  \/ f \in ghost.unserved \/ \E r \in Outstanding : f \in FieldsOf(r)
                        \/ rec.opt[f] = dev[user.port].opt[f]
      BY DEF OptionsShown
    <3>1. ToCome(f) \/ rec.opt[f] = dev[user.port].opt[f]
      BY DEF OptionsInv
    <3>2. ASSUME NEW r \in Requests, Unread(r) PROVE r \in Outstanding
      <4>1. r # Null
        BY RecordAssumption DEF RecordAssumption
      <4> QED  BY <2>2, <2>3, <3>2, <4>1 DEF Unread, Busy
    <3> QED  BY <2>1, <3>1, <3>2 DEF ToCome
  <2>5. ConnectShown
    <3> SUFFICES ASSUME user.onList
                 PROVE  \/ \E a \in Announcers : ann[a].step # "none" /\ ann[a].port = user.port
                        \/ \E a \in Threads : thread[a].step = "show" \/ thread[a].req.kind = "connect"
                        \/ Request("connect", Null) \in Outstanding \/ "cnct" \in ghost.unserved
                        \/ rec.cnct = dev[user.port].connected
      BY DEF ConnectShown
    <3>1. rec.cnct = Connected \/ Coming \/ Asked
      BY <2>1 DEF StatusInv
    <3>2. Coming => \E a \in Announcers : ann[a].step # "none" /\ ann[a].port = user.port
      BY DEF Coming, PlaceInv
    <3>3. Asked => Request("connect", Null) \in Outstanding \/ "cnct" \in ghost.unserved
      BY <2>1, <2>2, <2>3, FieldFacts DEF Asked
    <3>4. Connected = dev[user.port].connected
      <4>1. user.port # Null
        BY <2>1
      <4>2. dev[user.port].connected \in BOOLEAN
        BY <4>1 DEF RecordIInv, RecordTypeOK, asynUser, Port
      <4> QED  BY <4>1, <4>2 DEF Connected
    <3> QED  BY <3>1, <3>2, <3>3, <3>4
  <2> QED  BY <2>4, <2>5 DEF FieldsShown
<1> QED  BY <1>1, FieldsInvariant, PTL

-----------------------------------------------------------------------------
(***************************************************************************)
(* The scan lock: who has it never waits for somebody who waits for it.    *)
(***************************************************************************)
\* A port that is announcing has an announcer, none while the record is about
\* to leave its list.
Announced == \A p \in Ports : exceptionActive[p] =>
                 \E a \in Announcers : ann[a].step # "none" /\ ann[a].port = p
Removing == InProgram("remove") => \A a \in Announcers : ann[a].step = "none"

\* A callback that announces is of a driver that may disconnect; who aborts an
\* operation waits for the callback of another one, which announces nothing.
Aborting ==
    LET p == user.port IN
    /\ program = <<"canceled">> /\ p \in Blocking \ budget.announceInIO
    /\ Active(p) /\ ann[p].step = "none"
AbortInv ==
    /\ \A p \in Blocking : Active(p) /\ ann[p].step # "none" => p \in budget.announceInIO
    /\ user.canceled => Aborting

\* The last step of special gives the scan lock back; who has the lock is in the
\* exception callback, in the I/O of a port that does not block, or in special.
Closing == {"canceled", "unlock"}
HeldInv ==
    /\ program # <<>> => program[Len(program)] \in Closing
    /\ scanLock \in Announcers => ann[scanLock].step = "show"
    /\ scanLock = Db => Busy(Db) \/ program # <<>>
    /\ Busy(Db) /\ ~Active(Db) => program # <<>>

\* The steps of a callback are those of its request.
KindsInv == \A a \in Threads : /\ thread[a].step = "get" => thread[a].req.kind = "set"
                               /\ thread[a].step = "done" => thread[a].req.kind = "process"

HolderInv == Announced /\ Removing /\ AbortInv /\ HeldInv /\ KindsInv

\* Nothing that the environment or a client does changes the drivers.
SameDrivers == budget'.announceInIO = budget.announceInIO
LEMMA BudgetNext ==
    ASSUME budget \in Budget, [Next]_vars
    PROVE  budget' \in Budget /\ SameDrivers
<1>1. ASSUME budget.puts > 0, budget' = [budget EXCEPT !.puts = @ - 1]
      PROVE  budget' \in Budget /\ SameDrivers
  BY <1>1 DEF Budget, SameDrivers
<1>2. ASSUME budget.processes > 0, budget' = [budget EXCEPT !.processes = @ - 1]
      PROVE  budget' \in Budget /\ SameDrivers
  BY <1>2 DEF Budget, SameDrivers
<1>3. ASSUME budget.interrupts > 0, budget' = [budget EXCEPT !.interrupts = @ - 1]
      PROVE  budget' \in Budget /\ SameDrivers
  BY <1>3 DEF Budget, SameDrivers
<1>4. ASSUME budget.troubles > 0, budget' = [budget EXCEPT !.troubles = @ - 1]
      PROVE  budget' \in Budget /\ SameDrivers
  BY <1>4 DEF Budget, SameDrivers
<1>5. ASSUME budget' = budget PROVE budget' \in Budget /\ SameDrivers
  BY <1>5 DEF SameDrivers
<1>6. CASE Client
  <2>1. CASE Scan
    BY <2>1, <1>2 DEF Scan
  <2>2. ASSUME NEW f, NEW r, NEW s, Put(f, r, s) PROVE budget' \in Budget /\ SameDrivers
    BY <2>2, <1>1 DEF Put
  <2>3. ASSUME ~Scan PROVE \E f, r, s : Put(f, r, s)
    BY <1>6, <2>3 DEF Client, PutPort, PutPcnct, PutIface, PutCnct, PutField, PutEnbl, PutAqr,
                      PutScanIoIntr, PutScanPassive
  <2> QED  BY <2>1, <2>2, <2>3
<1>7. CASE Environment
  BY <1>3, <1>4, <1>5, <1>7 DEF Environment, LineChanges, EnableByOther, callbackInterrupt, Timeout
<1>8. CASE Special
  BY <1>5, <1>8 DEF Special, exceptionCallbackRemove, Disconnect, ConnectPort,
     exceptionCallbackAdd, ReadStatus, ShowStatus, AskOption, AskEos, AskConnect, AskField, Skip,
     QueueSpecial, ShowPcnct, cancelIOInterruptScan, SetState, Canceled, Unlock
<1>9. CASE ScanIoIntr \/ ProcessCallback
  BY <1>5, <1>9 DEF ScanIoIntr, ProcessCallback
<1>10. CASE queueTimeoutCallbackProcess \/ queueTimeoutCallbackSpecial
  BY <1>5, <1>10 DEF queueTimeoutCallbackProcess, queueTimeoutCallbackSpecial
<1>11. ASSUME NEW p \in Blocking, Serve(p) PROVE budget' \in Budget /\ SameDrivers
  BY <1>5, <1>11 DEF Serve
<1>12. ASSUME NEW a \in Threads, Callback(a) PROVE budget' \in Budget /\ SameDrivers
  BY <1>5, <1>12 DEF Callback, performIO, asynCallbackProcess, asynCallbackSpecial, setOption,
     getOptions, callbackConnect, SpecialStatus, SpecialDone, Others
<1>13. ASSUME NEW a \in Announcers, exceptCallback(a) PROVE budget' \in Budget /\ SameDrivers
  BY <1>5, <1>13 DEF exceptCallback, ExceptCallback, ExceptShown, AnnounceEnd
<1>14. CASE UNCHANGED vars
  BY <1>5, <1>14 DEF vars
<1> QED  BY <1>6, <1>7, <1>8, <1>9, <1>10, <1>11, <1>12, <1>13, <1>14 DEF Next

\* Steps that leave a part of the invariant alone.
LEMMA AnnouncedFrame ==
    ASSUME Announced, \A p \in Ports : exceptionActive'[p] => exceptionActive[p],
           \A a \in Announcers : ann[a].step # "none" =>
             ann'[a].step # "none" /\ ann'[a].port = ann[a].port
    PROVE  Announced'
BY DEF Announced

LEMMA RemovingFrame ==
    ASSUME Removing, program' = program,
           \A a \in Announcers : ann[a].step = "none" => ann'[a].step = "none"
    PROVE  Removing'
BY DEF Removing, InProgram

LEMMA AbortFrame ==
    ASSUME AbortInv, SameDrivers, program' = program, user'.port = user.port,
           user'.canceled => user.canceled,
           \A p \in Blocking : Active(p)' /\ ann'[p].step # "none" =>
             (Active(p) /\ ann[p].step # "none") \/ p \in budget.announceInIO,
           user'.canceled /\ Aborting => Active(user.port)' /\ ann'[user.port].step = "none"
    PROVE  AbortInv'
<1>1. \A p \in Blocking : Active(p)' /\ ann'[p].step # "none" => p \in budget'.announceInIO
  BY DEF AbortInv, SameDrivers
<1>2. user'.canceled => Aborting'
  BY DEF AbortInv, Aborting, SameDrivers, Active
<1> QED  BY <1>1, <1>2 DEF AbortInv

LEMMA HeldFrame ==
    ASSUME HeldInv, program' = program, scanLock' = scanLock,
           \A a \in Announcers : ann[a].step = "show" => ann'[a].step = "show",
           Busy(Db) => Busy(Db)' \/ program # <<>>,
           Busy(Db)' /\ ~Active(Db)' => Busy(Db) /\ ~Active(Db)
    PROVE  HeldInv'
BY DEF HeldInv

LEMMA HolderFrame ==
    ASSUME HolderInv, SameDrivers,
           UNCHANGED <<thread, ann, exceptionActive, program, scanLock, user>>
    PROVE  HolderInv'
<1> USE DEF HolderInv
<1>1. \A a \in Threads : (Active(a)' <=> Active(a)) /\ (Busy(a)' <=> Busy(a))
  BY DEF Active, Busy
<1>2. Announced' /\ Removing'
  BY AnnouncedFrame, RemovingFrame
<1>3. AbortInv'
  BY <1>1, AbortFrame DEF Threads, Aborting
<1>4. HeldInv'
  BY <1>1, HeldFrame DEF Threads
<1>5. KindsInv'
  BY DEF KindsInv
<1> QED  BY <1>2, <1>3, <1>4, <1>5

\* An announcement begins.
LEMMA Announces ==
    ASSUME RecordTypeOK, Announced, NEW a \in Announcers, NEW p \in Ports, Announce(a, p)
    PROVE  /\ Announced' /\ ann[a].step = "none"
           /\ \A b \in Announcers \ {a} : ann'[b] = ann[b]
<1>1. ann \in [Announcers -> Announcement] /\ exceptionActive \in [Ports -> BOOLEAN]
  BY DEF RecordTypeOK
<1>2. PICK s \in {"lock", "end"} :
        ann' = [ann EXCEPT ![a] = [step |-> s, port |-> p, seen |-> FALSE]]
  BY DEF Announce
<1>3. /\ ann'[a].step # "none" /\ ann'[a].port = p
      /\ \A b \in Announcers \ {a} : ann'[b] = ann[b]
  BY <1>1, <1>2
<1>4. ann[a].step = "none" /\ \A q \in Ports \ {p} : exceptionActive'[q] = exceptionActive[q]
  BY <1>1 DEF Announce
<1>5. ASSUME NEW q \in Ports, exceptionActive'[q]
      PROVE  \E b \in Announcers : ann'[b].step # "none" /\ ann'[b].port = q
  <2>1. CASE q = p
    BY <2>1, <1>3
  <2>2. CASE q # p
    <3>1. PICK b \in Announcers : ann[b].step # "none" /\ ann[b].port = q
      BY <1>4, <1>5, <2>2 DEF Announced
    <3> QED  BY <1>3, <1>4, <3>1
  <2> QED  BY <2>1, <2>2
<1> QED  BY <1>3, <1>4, <1>5 DEF Announced

LEMMA ExceptHolds ==
    ASSUME RecordIInv, HolderInv, SameDrivers, NEW a \in Announcers, exceptCallback(a)
    PROVE  HolderInv'
<1> USE DEF HolderInv, RecordIInv
<1>0. /\ ann \in [Announcers -> Announcement] /\ exceptionActive \in [Ports -> BOOLEAN]
      /\ Db \notin Announcers /\ Null \notin Announcers /\ Null # Db
      /\ Db \in Threads /\ Blocking \subseteq Announcers
  BY RecordAssumption DEF RecordTypeOK, RecordAssumption, Announcers, Threads
<1>1. /\ UNCHANGED <<thread, program, user>> /\ ann[a].step # "none"
      /\ \A b \in Announcers \ {a} : ann'[b] = ann[b]
      /\ \/ ExceptCallback(a) /\ scanLock = Null /\ scanLock' = a /\ ann'[a].step = "show"
         \/ ExceptShown(a) /\ ann[a].step = "show" /\ scanLock' = Null
         \/ AnnounceEnd(a) /\ ann[a].step = "end" /\ scanLock' = scanLock
  <2>1. CASE ExceptCallback(a)
    BY <1>0, <2>1 DEF ExceptCallback, Announcement
  <2>2. CASE ExceptShown(a)
    BY <1>0, <2>2 DEF ExceptShown, Announcement
  <2>3. CASE AnnounceEnd(a)
    BY <1>0, <2>3 DEF AnnounceEnd
  <2> QED  BY <2>1, <2>2, <2>3 DEF exceptCallback
<1>2. Announced'
  <2>1. CASE ExceptCallback(a) \/ ExceptShown(a)
    <3>1. /\ ann'[a].step # "none" /\ ann'[a].port = ann[a].port
          /\ exceptionActive' = exceptionActive
      BY <1>0, <2>1 DEF ExceptCallback, ExceptShown, Announcement
    <3> QED  BY <1>1, <3>1, AnnouncedFrame
  <2>2. CASE AnnounceEnd(a)
    <3>1. exceptionActive' = [exceptionActive EXCEPT ![ann[a].port] = FALSE]
      BY <2>2 DEF AnnounceEnd, Woken
    <3>2. ASSUME NEW p \in Ports, exceptionActive'[p]
          PROVE  exceptionActive[p] /\ p # ann[a].port
      BY <1>0, <3>1, <3>2
    <3>3. ASSUME NEW p \in Ports, exceptionActive'[p]
          PROVE  \E b \in Announcers : ann'[b].step # "none" /\ ann'[b].port = p
      <4>1. PICK b \in Announcers : ann[b].step # "none" /\ ann[b].port = p
        BY <3>2, <3>3 DEF Announced
      <4>2. b # a
        BY <3>2, <3>3, <4>1
      <4> QED  BY <1>1, <4>1, <4>2
    <3> QED  BY <3>3 DEF Announced
  <2> QED  BY <1>1, <2>1, <2>2
<1>3. Removing'
  BY <1>1 DEF Removing, InProgram
<1>4. \A b \in Threads : (Active(b)' <=> Active(b)) /\ (Busy(b)' <=> Busy(b))
  BY <1>1 DEF Active, Busy
<1>5. AbortInv'
  BY <1>0, <1>1, <1>4, AbortFrame DEF Aborting, Threads
<1>6. HeldInv'
  <2>1. CASE ExceptCallback(a)
    BY <1>0, <1>1, <1>4, <2>1 DEF HeldInv, ExceptCallback
  <2>2. CASE ExceptShown(a)
    BY <1>0, <1>1, <1>4, <2>2 DEF HeldInv, ExceptShown
  <2>3. CASE AnnounceEnd(a)
    BY <1>0, <1>1, <1>4, <2>3 DEF HeldInv, AnnounceEnd
  <2> QED  BY <1>1, <2>1, <2>2, <2>3
<1>7. KindsInv'
  BY <1>1 DEF KindsInv
<1> QED  BY <1>2, <1>3, <1>5, <1>6, <1>7

LEMMA EnvironmentHolds ==
    ASSUME RecordIInv, FieldsInv, HolderInv, SameDrivers, Careful = TRUE,
           \/ \E p \in Ports : LineChanges(p)
           \/ \E p \in Ports, b \in BOOLEAN : EnableByOther(p, b)
           \/ \E p \in Ports, i \in Ifaces : callbackInterrupt(p, i)
    PROVE  HolderInv'
<1> USE DEF HolderInv
<1>0. /\ Shell \in Announcers /\ Shell \notin Blocking /\ Blocking \subseteq Announcers
      /\ Db \notin Announcers /\ RecordTypeOK /\ Blocking \subseteq Threads
  BY RecordAssumption DEF RecordAssumption, Announcers, Threads, RecordIInv
<1>1. ASSUME NEW a \in Announcers, NEW p \in Ports, Announce(a, p), ~Disturbs,
             a \in Blocking => ~Busy(a),
             UNCHANGED <<user, thread, scanLock, program>>
      PROVE  HolderInv'
  <2>1. Announced' /\ ann[a].step = "none" /\ \A b \in Announcers \ {a} : ann'[b] = ann[b]
    BY <1>0, <1>1, Announces
  <2>2. ~InProgram("remove")
    <3>1. InProgram("remove") => program # <<>> /\ Head(program) = "remove"
      BY RemoveLeads DEF RecordIInv, RecordTypeOK, FieldsInv
    <3> QED  BY <1>1, <3>1 DEF Disturbs
  <2>3. Removing'
    BY <1>1, <2>2 DEF Removing, InProgram
  <2>4. \A b \in Threads : (Active(b)' <=> Active(b)) /\ (Busy(b)' <=> Busy(b))
    BY <1>1 DEF Active, Busy
  <2>5. a \in Blocking => ~Active(a)
    BY <1>1 DEF Active, Busy
  <2>6. AbortInv'
    BY <1>0, <1>1, <2>1, <2>4, <2>5, AbortFrame DEF Aborting
  <2>7. HeldInv'
    BY <1>1, <2>1, <2>4, HeldFrame DEF Threads
  <2>8. KindsInv'
    BY <1>1 DEF KindsInv
  <2> QED  BY <2>1, <2>3, <2>6, <2>7, <2>8
<1>2. ASSUME NEW p \in Ports, LineChanges(p) PROVE HolderInv'
  <2>1. CASE p \in Blocking
    BY <1>0, <1>1, <1>2, <2>1 DEF LineChanges, Busy
  <2>2. CASE p \notin Blocking
    BY <1>0, <1>1, <1>2, <2>2 DEF LineChanges
  <2> QED  BY <2>1, <2>2
<1>3. ASSUME NEW p \in Ports, NEW b \in BOOLEAN, EnableByOther(p, b) PROVE HolderInv'
  BY <1>0, <1>1, <1>3 DEF EnableByOther
<1>4. ASSUME NEW p \in Ports, NEW i \in Ifaces, callbackInterrupt(p, i) PROVE HolderInv'
  BY <1>4, HolderFrame DEF callbackInterrupt, manager
<1> QED  BY <1>2, <1>3, <1>4

LEMMA QueuesHold ==
    ASSUME RecordIInv, HolderInv, SameDrivers,
           \/ \E p \in Blocking : Serve(p) \/ Timeout(p)
           \/ queueTimeoutCallbackProcess \/ queueTimeoutCallbackSpecial
    PROVE  HolderInv'
<1> USE DEF HolderInv
<1>1. CASE (\E p \in Blocking : Timeout(p)) \/ queueTimeoutCallbackProcess
             \/ queueTimeoutCallbackSpecial
  BY <1>1, HolderFrame DEF Timeout, queueTimeoutCallbackProcess, queueTimeoutCallbackSpecial
<1>2. ASSUME NEW p \in Blocking, Serve(p) PROVE HolderInv'
  <2>1. thread \in [Threads -> Call] /\ p \in Threads /\ p # Db /\ Db \in Threads
    BY RecordAssumption DEF RecordIInv, RecordTypeOK, RecordAssumption, Threads
  <2>2. PICK r : thread' = [thread EXCEPT ![p] = [Idle EXCEPT !.step = "act", !.req = r]]
    BY <1>2 DEF Serve
  <2>3. /\ thread'[p].step = "act" /\ \A b \in Threads \ {p} : thread'[b] = thread[b]
        /\ thread[p].step = "wait" /\ ann[p].step = "none"
        /\ UNCHANGED <<user, ann, exceptionActive, scanLock, program>>
    BY <1>2, <2>1, <2>2 DEF Serve, Idle
  <2>4. \A b \in Threads \ {p} : (Active(b)' <=> Active(b)) /\ (Busy(b)' <=> Busy(b))
    BY <2>3 DEF Active, Busy
  <2>5. Announced' /\ Removing'
    BY <2>3, AnnouncedFrame, RemovingFrame
  <2>6. AbortInv'
    <3>1. ~Active(p)
      BY <2>3 DEF Active
    <3> QED  BY <2>1, <2>3, <2>4, <3>1, AbortFrame DEF Aborting, Threads
  <2>7. HeldInv'
    BY <2>1, <2>3, <2>4, HeldFrame
  <2>8. KindsInv'
    BY <2>1, <2>3 DEF KindsInv
  <2> QED  BY <2>5, <2>6, <2>7, <2>8
<1> QED  BY <1>1, <1>2

\* The callback of process: its driver may disconnect if drivers of that port do.
LEMMA ProcessCallHolds ==
    ASSUME RecordIInv, FieldsInv, HolderInv, SameDrivers, budget \in Budget, NEW a \in Threads,
           performIO(a) \/ asynCallbackProcess(a)
    PROVE  HolderInv'
<1> USE DEF HolderInv
<1>0. /\ thread \in [Threads -> Call] /\ RecordTypeOK /\ Db \in Threads /\ Db \notin Blocking
      /\ budget.announceInIO \subseteq Blocking /\ Threads = Blocking \cup {Db}
      /\ Blocking \subseteq Announcers /\ Blocking \subseteq Ports /\ Db \notin Announcers
      /\ Null \notin Announcers /\ Null # Db
      /\ thread[a].req.kind = "process" <=> thread[a].req = Process
  <2>1. thread \in [Threads -> Call] /\ RecordTypeOK
    BY DEF RecordIInv, RecordTypeOK
  <2>2. thread[a].req.kind = "process" <=> thread[a].req = Process
    BY <2>1, ThreadUpdates, RequestFacts
  <2> QED  BY <2>1, <2>2, RecordAssumption
           DEF RecordAssumption, Budget, Announcers, Threads
<1>1. Busy(a) /\ ~InProgram("remove") /\ program' = program /\ Active(a)
      /\ \A b \in Threads \ {a} : thread'[b] = thread[b] /\ ~Busy(b)
  <2>1. /\ Busy(a) /\ program' = program /\ Active(a)
        /\ \A b \in Threads \ {a} : thread'[b] = thread[b]
    BY <1>0 DEF performIO, asynCallbackProcess, InCallback, Next_, Others, Busy, Active
  <2> QED  BY <2>1, CallFacts
<1>2. \A b \in Threads \ {a} : (Active(b)' <=> Active(b)) /\ (Busy(b)' <=> Busy(b))
  BY <1>1 DEF Active, Busy
<1>3. Removing'
  BY <1>1 DEF Removing, InProgram
<1>4. CASE performIO(a)
  <2>1. /\ thread' = [thread EXCEPT ![a].step = "done"]
        /\ UNCHANGED <<user, scanLock>>
        /\ \/ UNCHANGED <<ann, exceptionActive>>
           \/ a \in budget.announceInIO /\ Announce(a, a)
    BY <1>4 DEF performIO, Next_, Others, Performed, PerformFails, performOctetIO,
                DriverDisconnects
  <2>2. thread'[a].step = "done" /\ thread'[a].req = thread[a].req
        /\ thread[a].req = Process
    BY <1>0, <1>1, <2>1 DEF Call, Active
  <2>3. \A b \in Threads : (Active(b)' <=> Active(b)) /\ (Busy(b)' <=> Busy(b))
    BY <1>1, <1>2, <2>2 DEF Active, Busy
  <2>4. /\ Announced'
        /\ \/ ann' = ann
           \/ /\ a \in budget.announceInIO /\ ann[a].step = "none"
              /\ \A b \in Announcers \ {a} : ann'[b] = ann[b]
    <3>1. CASE UNCHANGED <<ann, exceptionActive>>
      BY <3>1, AnnouncedFrame
    <3>2. CASE a \in budget.announceInIO /\ Announce(a, a)
      <4>1. a \in Announcers /\ a \in Ports
        BY <1>0, <3>2
      <4> QED  BY <1>0, <3>2, <4>1, Announces
    <3> QED  BY <2>1, <3>1, <3>2
  <2>5. AbortInv'
    BY <1>0, <1>1, <2>1, <2>3, <2>4, AbortFrame DEF Aborting
  <2>6. HeldInv'
    BY <1>0, <1>1, <2>1, <2>3, <2>4, HeldFrame
  <2>7. KindsInv'
    BY <1>0, <1>1, <2>2 DEF KindsInv
  <2> QED  BY <1>3, <2>4, <2>5, <2>6, <2>7
<1>5. CASE asynCallbackProcess(a)
  <2>1. /\ thread' = [thread EXCEPT ![a] = Idle] /\ UNCHANGED <<ann, exceptionActive>>
        /\ a = Db => user' = user /\ scanLock' = Null
        /\ a # Db => user' = [user EXCEPT !.canceled = FALSE] /\ scanLock' = scanLock
    BY <1>5 DEF asynCallbackProcess
  <2>2. thread'[a].step = "wait"
    BY <1>0, <2>1 DEF Idle
  <2>3. ~Active(a)' /\ ~Busy(a)'
    BY <2>2 DEF Active, Busy
  <2>4. Announced'
    BY <2>1, AnnouncedFrame
  <2>5. user'.port = user.port /\ ~user'.canceled
    <3>1. CASE a = Db
      BY <1>0, <1>1, <2>1, <3>1 DEF AbortInv, Aborting, Active, Busy
    <3>2. CASE a # Db
      BY <2>1, <3>2 DEF RecordIInv, RecordTypeOK, asynUser
    <3> QED  BY <3>1, <3>2
  <2>6. AbortInv'
    BY <1>0, <1>1, <1>2, <2>1, <2>3, <2>5, AbortFrame
  <2>7. HeldInv'
    BY <1>0, <1>1, <1>2, <2>1, <2>3 DEF HeldInv
  <2>8. KindsInv'
    BY <1>1, <2>2 DEF KindsInv
  <2> QED  BY <1>3, <2>4, <2>6, <2>7, <2>8
<1> QED  BY <1>4, <1>5

LEMMA SpecialCallHolds ==
    ASSUME RecordIInv, FieldsInv, HolderInv, SameDrivers, NEW a \in Threads,
           asynCallbackSpecial(a)
    PROVE  HolderInv'
<1> USE DEF HolderInv
<1>0. /\ thread \in [Threads -> Call] /\ RecordTypeOK /\ Db \in Threads /\ Db \notin Blocking
      /\ Threads = Blocking \cup {Db} /\ Blocking \subseteq Announcers
      /\ exceptionActive \in [Ports -> BOOLEAN]
      /\ thread[a].req.kind = "process" <=> thread[a].req = Process
  <2>1. thread \in [Threads -> Call] /\ RecordTypeOK /\ exceptionActive \in [Ports -> BOOLEAN]
    BY DEF RecordIInv, RecordTypeOK
  <2>2. thread[a].req.kind = "process" <=> thread[a].req = Process
    BY <2>1, ThreadUpdates, RequestFacts
  <2> QED  BY <2>1, <2>2, RecordAssumption DEF RecordAssumption, Announcers, Threads
<1>1. /\ Busy(a) /\ UNCHANGED <<user, program, scanLock>>
      /\ \A b \in Threads \ {a} : thread'[b] = thread[b]
      /\ ~SpecialDone(a) => /\ thread'[a].req = thread[a].req
                            /\ thread'[a].step \in {"get", "status", "show"}
      /\ setOption(a) => thread[a].req.kind = "set"
      /\ ~SpecialDone(a) /\ ~setOption(a) => thread'[a].step # "get"
      /\ SpecialDone(a) => thread'[a].step = "wait"
  BY SpecialCallFacts DEF asynCallbackSpecial, setOption, InCallback
<1>2. ~InProgram("remove") /\ pvt.bound \in Ports
  BY <1>1, CallFacts
<1>3. ~Active(a)
  <2>1. CASE thread[a].req.kind # "process"
    BY <1>0, <2>1 DEF Active
  <2>2. CASE thread[a].step \in {"status", "show"}
    BY <1>1, <2>2 DEF RecordIInv, OneInv
  <2> QED  BY <2>1, <2>2 DEF asynCallbackSpecial, setOption, getOptions, callbackConnect,
                             SpecialStatus, SpecialDone, InCallback
<1>4. ~Active(a)' /\ (~SpecialDone(a) => Busy(a)') /\ (SpecialDone(a) => ~Busy(a)')
  BY <1>1, <1>3 DEF Active, Busy
<1>5. \A b \in Threads \ {a} : (Active(b)' <=> Active(b)) /\ (Busy(b)' <=> Busy(b))
  BY <1>1 DEF Active, Busy
<1>6. \/ ann' = ann /\ \A p \in Ports : exceptionActive'[p] => exceptionActive[p]
      \/ a \in Blocking /\ Announce(a, pvt.bound)
  <2>1. CASE callbackConnect(a)
    BY <1>0, <1>2, <2>1 DEF callbackConnect
  <2>2. CASE ~callbackConnect(a)
    BY <2>2 DEF asynCallbackSpecial, setOption, getOptions, SpecialStatus, SpecialDone
  <2> QED  BY <2>1, <2>2
<1>7. /\ Announced'
      /\ \A b \in Announcers \ {a} : ann'[b] = ann[b]
      /\ a \in Announcers => ann'[a] = ann[a] \/ ann[a].step = "none"
  <2>1. CASE ann' = ann /\ \A p \in Ports : exceptionActive'[p] => exceptionActive[p]
    BY <2>1, AnnouncedFrame
  <2>2. CASE a \in Blocking /\ Announce(a, pvt.bound)
    BY <1>0, <1>2, <2>2, Announces
  <2> QED  BY <1>6, <2>1, <2>2
<1>8. Removing'
  BY <1>1, <1>2 DEF Removing, InProgram
<1>9. AbortInv'
  BY <1>0, <1>1, <1>3, <1>4, <1>5, <1>7, AbortFrame DEF Aborting
<1>10. HeldInv'
  BY <1>0, <1>1, <1>3, <1>4, <1>5, <1>7 DEF HeldInv
<1>11. KindsInv'
  BY <1>0, <1>1 DEF KindsInv
<1> QED  BY <1>7, <1>8, <1>9, <1>10, <1>11

\* process takes the scan lock when the port does not block, and does its I/O.
LEMMA ProcessingHolds ==
    ASSUME RecordIInv, HolderInv, SameDrivers, Scan \/ ScanIoIntr \/ ProcessCallback
    PROVE  HolderInv'
<1> USE DEF HolderInv
<1>0. /\ thread \in [Threads -> Call] /\ Db \in Threads /\ Db \notin Announcers
      /\ Db \notin Blocking /\ Blocking \subseteq Threads
  BY RecordAssumption DEF RecordIInv, RecordTypeOK, RecordAssumption, Announcers, Threads
<1>1. /\ UNCHANGED <<user, ann, exceptionActive, program>> /\ program = <<>>
      /\ \/ UNCHANGED <<thread, scanLock>>
         \/ /\ thread' = [thread EXCEPT ![Db] = [Idle EXCEPT !.step = "act", !.req = Process]]
            /\ scanLock' = Db
  BY DEF Scan, ScanIoIntr, ProcessCallback, DbFree, process, ProcessEnd, ProcessValue,
         ProcessQueue, ProcessRefused, manager
<1>2. CASE UNCHANGED <<thread, scanLock>>
  BY <1>1, <1>2, HolderFrame
<1>3. CASE /\ thread' = [thread EXCEPT ![Db] = [Idle EXCEPT !.step = "act", !.req = Process]]
           /\ scanLock' = Db
  <2>1. /\ thread'[Db].step = "act" /\ thread'[Db].req = Process
        /\ \A b \in Threads \ {Db} : thread'[b] = thread[b]
    BY <1>0, <1>3 DEF Idle
  <2>2. Active(Db)' /\ Busy(Db)'
    BY <2>1 DEF Active, Busy
  <2>3. \A b \in Threads \ {Db} : (Active(b)' <=> Active(b)) /\ (Busy(b)' <=> Busy(b))
    BY <2>1 DEF Active, Busy
  <2>4. Announced' /\ Removing'
    BY <1>1, AnnouncedFrame, RemovingFrame
  <2>5. AbortInv'
    <3>1. ~user.canceled
      BY <1>1 DEF AbortInv, Aborting
    <3> QED  BY <1>0, <1>1, <2>3, <3>1, AbortFrame
  <2>6. HeldInv'
    BY <1>0, <1>1, <1>3, <2>2 DEF HeldInv
  <2>7. KindsInv'
    BY <2>1 DEF KindsInv
  <2> QED  BY <2>4, <2>5, <2>6, <2>7
<1> QED  BY <1>1, <1>2, <1>3

\* A put gives special what it has to do, and its last step gives the lock back.
LEMMA LastSteps ==
    /\ \A t \in {<<"state", "unlock">>, <<"unlock">>} :
         (connectDevice \o t)[Len(connectDevice \o t)] = "unlock"
    /\ \A t \in {<<"remove", "disconnect", "passive", "unlock">>, <<"passive", "unlock">>,
                 <<"request", "unlock">>, <<"unlock">>,
                 <<"passive", "read", "show", "unlock">>,
                 <<"passive", "read", "show", "state", "unlock">>} :
         t # <<>> /\ t[Len(t)] = "unlock"
    /\ \A f : <<f, "unlock">> # <<>> /\ <<f, "unlock">>[Len(<<f, "unlock">>)] = "unlock"
    /\ <<"canceled">> # <<>> /\ <<"canceled">>[Len(<<"canceled">>)] = "canceled"
<1>1. ASSUME NEW t \in {<<"state", "unlock">>, <<"unlock">>}
      PROVE  (connectDevice \o t)[Len(connectDevice \o t)] = "unlock"
  <2>1. connectDevice \in Seq(Steps) /\ Len(connectDevice) = 11
    BY DEF connectDevice, Steps
  <2>2. t \in Seq(Steps) /\ Len(t) \in {1, 2} /\ t[Len(t)] = "unlock"
    <3>1. CASE t = <<"unlock">>
      BY <3>1 DEF Steps
    <3>2. CASE t = <<"state", "unlock">>
      BY <3>2 DEF Steps
    <3> QED  BY <3>1, <3>2
  <2>3. /\ Len(connectDevice \o t) = 11 + Len(t)
        /\ (connectDevice \o t)[11 + Len(t)] = t[(11 + Len(t)) - 11]
    <3> HIDE DEF connectDevice
    <3>1. 11 + Len(t) \in 1..11 + Len(t) /\ 11 + Len(t) > 11
      BY <2>2
    <3> QED  BY <2>1, <2>2, <3>1, Joined
  <2>4. (11 + Len(t)) - 11 = Len(t)
    BY <2>2
  <2> QED  BY <2>2, <2>3, <2>4
<1>2. /\ <<"remove", "disconnect", "passive", "unlock">>[4] = "unlock"
      /\ Len(<<"remove", "disconnect", "passive", "unlock">>) = 4
      /\ <<"passive", "unlock">>[2] = "unlock" /\ Len(<<"passive", "unlock">>) = 2
      /\ <<"request", "unlock">>[2] = "unlock" /\ Len(<<"request", "unlock">>) = 2
      /\ <<"unlock">>[1] = "unlock" /\ Len(<<"unlock">>) = 1
      /\ <<"passive", "read", "show", "unlock">>[4] = "unlock"
      /\ Len(<<"passive", "read", "show", "unlock">>) = 4
      /\ <<"passive", "read", "show", "state", "unlock">>[5] = "unlock"
      /\ Len(<<"passive", "read", "show", "state", "unlock">>) = 5
      /\ <<"canceled">>[1] = "canceled" /\ Len(<<"canceled">>) = 1
      /\ \A f : <<f, "unlock">>[2] = "unlock" /\ Len(<<f, "unlock">>) = 2
      /\ Len(<<>>) = 0
  OBVIOUS
<1>3. \A t \in {<<"remove", "disconnect", "passive", "unlock">>, <<"passive", "unlock">>,
                <<"request", "unlock">>, <<"unlock">>,
                <<"passive", "read", "show", "unlock">>,
                <<"passive", "read", "show", "state", "unlock">>} :
        t # <<>> /\ t[Len(t)] = "unlock"
  <2> DEFINE Good(t) == t # <<>> /\ t[Len(t)] = "unlock"
  <2>1. /\ Good(<<"remove", "disconnect", "passive", "unlock">>)
        /\ Good(<<"passive", "unlock">>) /\ Good(<<"request", "unlock">>)
    BY <1>2
  <2>2. /\ Good(<<"unlock">>) /\ Good(<<"passive", "read", "show", "unlock">>)
        /\ Good(<<"passive", "read", "show", "state", "unlock">>)
    BY <1>2
  <2> HIDE DEF Good
  <2>3. \A t \in {<<"remove", "disconnect", "passive", "unlock">>, <<"passive", "unlock">>,
                  <<"request", "unlock">>, <<"unlock">>,
                  <<"passive", "read", "show", "unlock">>,
                  <<"passive", "read", "show", "state", "unlock">>} : Good(t)
    BY <2>1, <2>2
  <2> QED  BY <2>3 DEF Good
<1>4. /\ \A f : <<f, "unlock">> # <<>> /\ <<f, "unlock">>[Len(<<f, "unlock">>)] = "unlock"
      /\ <<"canceled">> # <<>> /\ <<"canceled">>[Len(<<"canceled">>)] = "canceled"
  BY <1>2
<1> QED  BY <1>1, <1>3, <1>4

LEMMA PutHolds ==
    ASSUME RecordIInv, HolderInv, SameDrivers, DbFree, NEW s, s # <<>>, s[Len(s)] \in Closing,
           program' = s, scanLock' = Db, UNCHANGED <<thread, ann>>,
           \A p \in Ports : exceptionActive'[p] => exceptionActive[p],
           Within(s, "remove") => \A a \in Announcers : ann[a].step = "none",
           user'.canceled => Aborting'
    PROVE  HolderInv'
<1> USE DEF HolderInv
<1>1. Announced'
  BY AnnouncedFrame
<1>2. Removing'
  BY DEF Removing, InProgram, Within
<1>3. AbortInv'
  BY DEF AbortInv, Active, SameDrivers
<1>4. HeldInv'
  <2>1. Db \notin Announcers
    BY RecordAssumption DEF RecordAssumption, Announcers
  <2> QED  BY <2>1 DEF HeldInv
<1>5. KindsInv'
  BY DEF KindsInv
<1> QED  BY <1>1, <1>2, <1>3, <1>4, <1>5

\* A careful client aborts no operation whose driver may announce, and makes the
\* record leave its port when nobody announces anything.
LEMMA PutsHold ==
    ASSUME RecordIInv, HolderInv, SameDrivers, Careful = TRUE,
           \/ \E p \in Ports \cup {Null} : PutPort(p)
           \/ \E b \in BOOLEAN : PutPcnct(b) \/ PutCnct(b) \/ PutEnbl(b)
           \/ \E i \in Ifaces : PutIface(i)
           \/ \E f \in Fields, v \in Values : PutField(f, v)
           \/ PutAqr \/ PutScanIoIntr \/ PutScanPassive
    PROVE  HolderInv'
<1> USE DEF HolderInv
<1>0. DbFree => ~user.canceled
  BY DEF DbFree, AbortInv, Aborting
<1>1. ASSUME NEW s, s # <<>>, s[Len(s)] \in Closing,
             DbFree, program' = s, scanLock' = Db, UNCHANGED <<user, thread, ann, exceptionActive>>,
             ~Within(s, "remove") \/ Quiet
      PROVE  HolderInv'
  BY <1>0, <1>1, PutHolds DEF Quiet
<1>2. ASSUME NEW p \in Ports \cup {Null}, PutPort(p) PROVE HolderInv'
  <2> DEFINE s == connectDevice \o <<"state", "unlock">>
  <2>1. s # <<>> /\ s[Len(s)] \in Closing
    BY LastSteps, ConnectPrograms DEF Closing, Ends
  <2>2. /\ DbFree /\ program' = s /\ scanLock' = Db /\ Quiet
        /\ UNCHANGED <<user, thread, ann, exceptionActive>>
    BY <1>2 DEF PutPort, Put, manager
  <2> HIDE DEF s
  <2> QED  BY <1>1, <2>1, <2>2
<1>3. ASSUME PutPcnct(TRUE) PROVE HolderInv'
  <2> DEFINE s == connectDevice \o <<"unlock">>
  <2>1. s # <<>> /\ s[Len(s)] \in Closing
    BY LastSteps, ConnectPrograms DEF Closing, Ends
  <2>2. /\ DbFree /\ program' = s /\ scanLock' = Db /\ Quiet
        /\ UNCHANGED <<user, thread, ann, exceptionActive>>
    BY <1>3 DEF PutPcnct, Put, manager
  <2> HIDE DEF s
  <2> QED  BY <1>1, <2>1, <2>2
<1>4. ASSUME PutPcnct(FALSE) PROVE HolderInv'
  <2> DEFINE s == <<"remove", "disconnect", "passive", "unlock">>
  <2>1. s # <<>> /\ s[Len(s)] \in Closing
    BY LastSteps DEF Closing
  <2>2. /\ DbFree /\ program' = s /\ scanLock' = Db /\ Quiet
        /\ UNCHANGED <<user, thread, ann, exceptionActive>>
    BY <1>4 DEF PutPcnct, Put, manager
  <2> HIDE DEF s
  <2> QED  BY <1>1, <2>1, <2>2
<1>5. ASSUME (\E i \in Ifaces : PutIface(i)) \/ PutScanPassive PROVE HolderInv'
  <2> DEFINE s == <<"passive", "unlock">>
  <2>1. s # <<>> /\ s[Len(s)] \in Closing /\ ~Within(s, "remove")
    BY LastSteps DEF Closing, Within
  <2>2. /\ DbFree /\ program' = s /\ scanLock' = Db
        /\ UNCHANGED <<user, thread, ann, exceptionActive>>
    BY <1>5 DEF PutIface, PutScanPassive, Put, manager
  <2> HIDE DEF s
  <2> QED  BY <1>1, <2>1, <2>2
<1>6. ASSUME NEW b \in BOOLEAN, PutCnct(b) PROVE HolderInv'
  <2> DEFINE s == <<"request", "unlock">>
  <2>1. s # <<>> /\ s[Len(s)] \in Closing /\ ~Within(s, "remove")
    BY LastSteps DEF Closing, Within
  <2>2. /\ DbFree /\ program' = s /\ scanLock' = Db
        /\ UNCHANGED <<user, thread, ann, exceptionActive>>
    BY <1>6 DEF PutCnct, Put, manager
  <2> HIDE DEF s
  <2> QED  BY <1>1, <2>1, <2>2
<1>7. ASSUME NEW f \in Fields, NEW v \in Values, PutField(f, v) PROVE HolderInv'
  <2> DEFINE s == <<f, "unlock">>
  <2>1. f # "remove"
    BY RecordAssumption DEF RecordAssumption, Steps
  <2>2. s # <<>> /\ s[Len(s)] \in Closing /\ ~Within(s, "remove")
    BY <2>1, LastSteps DEF Closing, Within
  <2>3. /\ DbFree /\ program' = s /\ scanLock' = Db
        /\ UNCHANGED <<user, thread, ann, exceptionActive>>
    BY <1>7 DEF PutField, Put, manager
  <2> HIDE DEF s
  <2> QED  BY <1>1, <2>2, <2>3
<1>8. <<"unlock">> # <<>> /\ <<"unlock">>[Len(<<"unlock">>)] \in Closing
      /\ ~Within(<<"unlock">>, "remove")
  BY LastSteps DEF Closing, Within
<1>9. ASSUME PutScanIoIntr PROVE HolderInv'
  <2>1. /\ DbFree /\ program' = <<"unlock">> /\ scanLock' = Db
        /\ UNCHANGED <<user, thread, ann, exceptionActive>>
    BY <1>9 DEF PutScanIoIntr, Put, manager
  <2> QED  BY <1>1, <1>8, <2>1
<1>10. ASSUME NEW b \in BOOLEAN, PutEnbl(b) PROVE HolderInv'
  <2>1. /\ DbFree /\ program' = <<"unlock">> /\ scanLock' = Db /\ UNCHANGED <<user, thread, ann>>
        /\ \/ exceptionActive' = exceptionActive
           \/ exceptionActive' = [exceptionActive EXCEPT ![user.port] = FALSE]
    BY <1>10 DEF PutEnbl, Put
  <2>2. \A p \in Ports : exceptionActive'[p] => exceptionActive[p]
    <3>1. exceptionActive \in [Ports -> BOOLEAN]
      BY DEF RecordIInv, RecordTypeOK
    <3> QED  BY <2>1, <3>1
  <2>3. user'.canceled => Aborting'
    BY <1>0, <2>1
  <2> QED  BY <1>8, <2>1, <2>2, <2>3, PutHolds
<1>11. ASSUME PutAqr PROVE HolderInv'
  <2> DEFINE p == user.port
             active == p \in Blocking /\ ~(p \in Blocking /\ Waiting(p) # {}) /\ Active(p)
  <2>1. /\ DbFree /\ program' = <<"canceled">> /\ scanLock' = Db
        /\ UNCHANGED <<thread, ann, exceptionActive>>
        /\ user' = [user EXCEPT !.canceled = active]
        /\ active => p \notin budget.announceInIO
    BY <1>11 DEF PutAqr, Put
  <2>2. user'.port = p /\ (user'.canceled => active)
    BY <2>1 DEF RecordIInv, RecordTypeOK, asynUser
  <2>3. user'.canceled => Aborting'
    <3>1. active => p \in Blocking /\ Active(p) /\ ann[p].step = "none"
      BY <2>1 DEF AbortInv
    <3> HIDE DEF active
    <3> QED  BY <2>1, <2>2, <3>1 DEF Aborting, Active, SameDrivers
  <2>4. <<"canceled">> # <<>> /\ <<"canceled">>[Len(<<"canceled">>)] \in Closing
        /\ ~Within(<<"canceled">>, "remove")
    BY LastSteps DEF Closing, Within
  <2> QED  BY <2>1, <2>3, <2>4, PutHolds
<1> QED  BY <1>2, <1>3, <1>4, <1>5, <1>6, <1>7, <1>9, <1>10, <1>11

LEMMA LastOfTail ==
    ASSUME NEW S, NEW q \in Seq(S), q # <<>>
    PROVE  /\ Tail(q) # <<>> => Tail(q)[Len(Tail(q))] = q[Len(q)]
           /\ Tail(q) = <<>> => q[Len(q)] = Head(q)
<1>1. /\ Tail(q) \in Seq(S) /\ Len(q) \in Nat \ {0} /\ Len(Tail(q)) = Len(q) - 1
      /\ \A i \in 1..Len(q) - 1 : Tail(q)[i] = q[i + 1]
  OBVIOUS
<1>2. CASE Len(q) = 1
  <2>1. Tail(q) = <<>>
    <3>1. Tail(q) \in Seq(S) /\ Len(Tail(q)) = 0
      BY <1>1, <1>2
    <3>2. \A r \in Seq(S) : r # <<>> => Len(r) # 0
      BY EmptySeq
    <3> QED  BY <3>1, <3>2
  <2>2. Head(q) = q[1]
    OBVIOUS
  <2> QED  BY <1>2, <2>1, <2>2
<1>3. CASE Len(q) # 1
  <2>1. Len(q) - 1 \in 1..Len(q) - 1 /\ (Len(q) - 1) + 1 = Len(q) /\ Len(Tail(q)) # 0
    BY <1>1, <1>3
  <2> QED  BY <1>1, <2>1
<1> QED  BY <1>2, <1>3

\* A step of special: the last one gives the scan lock back, and a callback that
\* one begins leaves something to do after it.
LEMMA StepHolds ==
    ASSUME RecordIInv, HolderInv, SameDrivers, NEW s, program # <<>>, Head(program) = s,
           program' = Tail(program), UNCHANGED <<ann, exceptionActive>>,
           user'.canceled = user.canceled, s = "canceled" => ~user.canceled,
           \/ /\ s \notin Closing /\ scanLock' = scanLock
              /\ \/ thread' = thread
                 \/ \E r \in Requests \ {Process} :
                      thread' = [thread EXCEPT ![Db] = [Idle EXCEPT !.step = "act", !.req = r]]
           \/ s \in Closing /\ scanLock' = Null /\ thread' = thread /\ ~Busy(Db)
    PROVE  HolderInv'
<1> USE DEF HolderInv
<1>0. /\ thread \in [Threads -> Call] /\ Db \in Threads /\ Db \notin Announcers
      /\ Db \notin Blocking /\ Blocking \subseteq Threads /\ Null # Db /\ Null \notin Announcers
      /\ program \in Seq(Steps \cup Fields) /\ scanLock = Db
  BY StepFacts, RecordAssumption
     DEF RecordIInv, RecordTypeOK, RecordAssumption, Announcers, Threads
<1>1. /\ program' \in Seq(Steps \cup Fields) /\ Head(program) = program[1]
      /\ Len(program') \in Nat /\ Len(program) = Len(program') + 1
      /\ DOMAIN program' = 1..Len(program')
      /\ \A i \in DOMAIN program' : program'[i] = program[i + 1]
      /\ InProgram("remove")' => InProgram("remove")
  BY <1>0, ProgramTail
<1>2. \A b \in Threads \ {Db} : thread'[b] = thread[b]
  BY <1>0
<1>3. \A b \in Threads \ {Db} : (Active(b)' <=> Active(b)) /\ (Busy(b)' <=> Busy(b))
  BY <1>2 DEF Active, Busy
<1>4. Announced' /\ Removing'
  BY <1>1, AnnouncedFrame DEF Removing
<1>5. ~user.canceled
  <2>1. user.canceled => program = <<"canceled">> /\ s # "canceled"
    BY DEF AbortInv, Aborting
  <2>2. <<"canceled">>[1] = "canceled"
    OBVIOUS
  <2> QED  BY <1>1, <2>1, <2>2
<1>6. AbortInv'
  BY <1>0, <1>3, <1>5 DEF AbortInv, SameDrivers
<1>7. /\ program' # <<>> => program'[Len(program')] \in Closing
      /\ s \notin Closing => program' # <<>>
  <2>1. program \in Seq(Steps \cup Fields) /\ program # <<>>
    BY <1>0
  <2>2. /\ program' # <<>> => program'[Len(program')] = program[Len(program)]
        /\ program' = <<>> => program[Len(program)] = s
    BY <2>1, LastOfTail
  <2> QED  BY <2>1, <2>2 DEF HeldInv
<1>9. HeldInv'
  <2>1. CASE s \notin Closing
    BY <1>0, <1>7, <2>1 DEF HeldInv
  <2>2. CASE s \in Closing
    <3>1. scanLock' = Null /\ ~Busy(Db)'
      BY <2>2 DEF Busy
    <3> QED  BY <1>0, <1>7, <3>1 DEF HeldInv
  <2> QED  BY <2>1, <2>2
<1>10. KindsInv'
  <2>1. thread' # thread => thread'[Db].step = "act"
    BY <1>0 DEF Idle
  <2> QED  BY <1>2, <2>1 DEF KindsInv
<1> QED  BY <1>4, <1>6, <1>9, <1>10

LEMMA QueueSpecialHolds ==
    ASSUME RecordIInv, HolderInv, SameDrivers, NEW s \in (Steps \cup Fields) \ Closing,
           NEW r \in Requests \ {Process}, QueueSpecial(s, r) \/ Skip(s)
    PROVE  HolderInv'
<1>1. /\ program # <<>> /\ Head(program) = s /\ program' = Tail(program)
      /\ UNCHANGED <<ann, exceptionActive, user, scanLock>>
      /\ \/ thread' = thread
         \/ thread' = [thread EXCEPT ![Db] = [Idle EXCEPT !.step = "act", !.req = r]]
  BY DEF QueueSpecial, Skip, Step, manager
<1>2. s # "canceled"
  BY DEF Closing
<1>3. UNCHANGED <<ann, exceptionActive>> /\ user'.canceled = user.canceled /\ s \notin Closing
  BY <1>1
<1>4. \/ thread' = thread
      \/ \E q \in Requests \ {Process} :
           thread' = [thread EXCEPT ![Db] = [Idle EXCEPT !.step = "act", !.req = q]]
  BY <1>1
<1> QED  BY <1>1, <1>2, <1>3, <1>4, StepHolds

LEMMA SpecialHolds ==
    ASSUME RecordIInv, HolderInv, SameDrivers, Special
    PROVE  HolderInv'
<1>1. ASSUME NEW s, s \notin Closing, Step(s),
             UNCHANGED <<ann, exceptionActive, scanLock, thread>>,
             user'.canceled = user.canceled
      PROVE  HolderInv'
  <2>1. s # "canceled"
    BY <1>1 DEF Closing
  <2> QED  BY <1>1, <2>1, StepHolds DEF Step
<1>2. user \in asynUser
  BY DEF RecordIInv, RecordTypeOK
<1>3. CASE exceptionCallbackRemove
  BY <1>1, <1>2, <1>3 DEF exceptionCallbackRemove, Closing, asynUser
<1>4. CASE Disconnect
  BY <1>1, <1>2, <1>4 DEF Disconnect, Closing, asynUser
<1>5. CASE exceptionCallbackAdd
  BY <1>1, <1>2, <1>5 DEF exceptionCallbackAdd, Closing, asynUser
<1>6. CASE ReadStatus \/ ShowStatus \/ ShowPcnct \/ cancelIOInterruptScan \/ SetState
  BY <1>1, <1>6 DEF ReadStatus, ShowStatus, ShowPcnct, cancelIOInterruptScan, SetState,
                    manager, Closing
<1>7. CASE AskOption \/ AskEos \/ AskConnect
  BY <1>7, RequestFacts, QueueSpecialHolds DEF AskOption, AskEos, AskConnect, Steps, Closing
<1>8. ASSUME NEW f \in Fields, AskField(f) PROVE HolderInv'
  <2>1. f \in (Steps \cup Fields) \ Closing
    BY RecordAssumption DEF RecordAssumption, Steps, Closing
  <2> QED  BY <1>8, <2>1, RequestFacts, QueueSpecialHolds DEF AskField
<1>9. CASE Canceled
  BY <1>9, StepHolds DEF Canceled, Step, manager, Closing, Busy
<1>10. CASE Unlock
  BY <1>10, StepHolds DEF Unlock, Step, manager, Closing, Busy
<1>11. CASE ConnectPort
  <2>1. /\ program # <<>> /\ Head(program) = "connect" /\ "connect" \notin Closing
        /\ UNCHANGED <<thread, ann, exceptionActive, scanLock>>
        /\ user'.canceled = user.canceled
    BY <1>2, <1>11 DEF ConnectPort, asynUser, Closing
  <2>2. CASE program' = Tail(program)
    BY <2>1, <2>2, StepHolds
  <2>3. ASSUME NEW s \in {<<"passive", "read", "show", "unlock">>,
                          <<"passive", "read", "show", "state", "unlock">>}, program' = s
        PROVE  HolderInv'
    <3> USE DEF HolderInv
    <3>1. s # <<>> /\ s[Len(s)] \in Closing
      BY LastSteps DEF Closing
    <3>2. ~Within(s, "remove")
      <4>1. ~Within(<<"passive", "read", "show", "unlock">>, "remove")
        BY DEF Within
      <4>2. ~Within(<<"passive", "read", "show", "state", "unlock">>, "remove")
        BY DEF Within
      <4> QED  BY <4>1, <4>2
    <3>3. Announced' /\ Removing'
      BY <2>1, <2>3, <3>2, AnnouncedFrame DEF Removing, InProgram, Within
    <3>4. ~user.canceled
      BY <2>1 DEF AbortInv, Aborting
    <3>5. AbortInv'
      BY <2>1, <3>4 DEF AbortInv, SameDrivers, Active
    <3>6. HeldInv'
      BY <2>1, <2>3, <3>1 DEF HeldInv
    <3>7. KindsInv'
      BY <2>1 DEF KindsInv
    <3> QED  BY <3>3, <3>5, <3>6, <3>7
  <2>4. \/ program' = Tail(program)
        \/ program' \in {<<"passive", "read", "show", "unlock">>,
                         <<"passive", "read", "show", "state", "unlock">>}
    BY <1>11 DEF ConnectPort
  <2> QED  BY <2>2, <2>3, <2>4
<1> QED
  BY <1>3, <1>4, <1>5, <1>6, <1>7, <1>8, <1>9, <1>10, <1>11 DEF Special

LEMMA HolderInit == ASSUME Init PROVE HolderInv /\ budget \in Budget
<1>1. /\ \A p \in Ports : exceptionActive[p] = FALSE
      /\ \A a \in Announcers : ann[a].step = "none"
      /\ \A a \in Threads : thread[a].step = "wait"
      /\ program = <<>> /\ scanLock = Null /\ ~user.canceled /\ budget \in Budget
  BY RecordAssumption DEF Init, init_record, Idle, Silent, RecordAssumption
<1>2. Db \in Threads /\ Blocking \subseteq Announcers /\ Null \notin Announcers /\ Null # Db
  BY RecordAssumption DEF RecordAssumption, Threads, Announcers
<1>3. Announced /\ Removing
  BY <1>1 DEF Announced, Removing
<1>4. AbortInv /\ HeldInv /\ KindsInv
  BY <1>1, <1>2 DEF AbortInv, HeldInv, KindsInv, Busy
<1> QED  BY <1>1, <1>3, <1>4 DEF HolderInv

LEMMA HolderNext ==
    ASSUME Careful = TRUE, RecordIInv, FieldsInv, HolderInv, budget \in Budget, [Next]_vars
    PROVE  HolderInv' /\ budget' \in Budget
<1>0. budget' \in Budget /\ SameDrivers
  BY BudgetNext
<1>1. CASE Client
  BY <1>0, <1>1, PutsHold, ProcessingHolds DEF Client
<1>2. CASE Environment
  BY <1>0, <1>2, EnvironmentHolds, QueuesHold DEF Environment
<1>3. CASE Special
  BY <1>0, <1>3, SpecialHolds
<1>4. CASE ScanIoIntr \/ ProcessCallback
  BY <1>0, <1>4, ProcessingHolds
<1>5. CASE queueTimeoutCallbackProcess \/ queueTimeoutCallbackSpecial
  BY <1>0, <1>5, QueuesHold
<1>6. ASSUME NEW p \in Blocking, Serve(p) PROVE HolderInv'
  BY <1>0, <1>6, QueuesHold
<1>7. ASSUME NEW a \in Threads, Callback(a) PROVE HolderInv'
  BY <1>0, <1>7, ProcessCallHolds, SpecialCallHolds DEF Callback
<1>8. ASSUME NEW a \in Announcers, exceptCallback(a) PROVE HolderInv'
  BY <1>0, <1>8, ExceptHolds
<1>9. CASE UNCHANGED vars
  <2>1. UNCHANGED <<thread, ann, exceptionActive, program, scanLock, user>>
    BY <1>9 DEF vars
  <2> QED  BY <1>0, <2>1, HolderFrame
<1> QED  BY <1>0, <1>1, <1>2, <1>3, <1>4, <1>5, <1>6, <1>7, <1>8, <1>9 DEF Next

\* What a callback, and the next step of special, need to go on: the guards of
\* Callback(a) and of Special.
Goes(a) ==
    /\ Busy(a)
    /\ thread[a].step = "get" => thread[a].req.kind = "set"
    /\ thread[a].step = "done" => thread[a].req.kind = "process"
    /\ thread[a].step \in {"act", "get", "done"} \/ thread[a].req.kind # "process"
    /\ a \in Blocking /\ thread[a].step \in {"status", "done"} => ann[a].step = "none"
SpecialGoes ==
    /\ program # <<>> /\ ~Busy(Db)
    /\ Head(program) = "remove" /\ user.onList => ~exceptionActive[user.port]
    /\ Head(program) = "add" => ~exceptionActive[user.port]
    /\ Head(program) = "canceled" => ~user.canceled

\* Whoever has the scan lock goes on without it being given to somebody else: the
\* exception callback shows what it has seen; the database goes on itself, or it
\* waits in exceptionCallbackAdd for an announcement that only has to end, or in
\* cancelRequest for a callback that goes on.
HolderGoesOn ==
    /\ scanLock \in Announcers => ann[scanLock].step = "show"
    /\ scanLock = Db =>
         \/ Goes(Db) \/ SpecialGoes
         \/ /\ program # <<>> /\ Head(program) = "add"
            /\ \E a \in Announcers : ann[a].step = "end" /\ ann[a].port = user.port
         \/ user.canceled /\ user.port \in Blocking /\ Active(user.port) /\ Goes(user.port)

LEMMA HolderHolds == ASSUME RecordIInv, FieldsInv, HolderInv PROVE HolderGoesOn
<1> USE DEF HolderInv
<1>0. /\ \A r \in Requests : r.kind = "process" <=> r = Process
      /\ thread \in [Threads -> Call] /\ user.port \in Ports \cup {Null}
      /\ Threads = Blocking \cup {Db} /\ Db \notin Blocking
  BY RequestFacts, RecordAssumption
     DEF RecordIInv, RecordTypeOK, asynUser, RecordAssumption, Threads
<1>1. ASSUME NEW a \in Threads, Busy(a), a \in Blocking => ann[a].step = "none" PROVE Goes(a)
  <2>1. thread[a].req.kind = "process" => thread[a].step \in {"act", "done"}
    <3>1. thread[a].req.kind = "process" => Active(a)
      <4>1. thread[a].req \in Requests
        BY <1>0 DEF Call
      <4> QED  BY <1>0, <1>1, <4>1 DEF Active, Busy
    <3> QED  BY <3>1 DEF RecordIInv, OneInv
  <2> QED  BY <1>1, <2>1 DEF KindsInv, Goes
<1>2. scanLock \in Announcers => ann[scanLock].step = "show"
  BY DEF HeldInv
<1>3. CASE Busy(Db)
  BY <1>0, <1>1, <1>2, <1>3 DEF HolderGoesOn
<1>4. CASE scanLock = Db /\ ~Busy(Db)
  <2>1. program # <<>> /\ program \in Seq(Steps \cup Fields)
    BY <1>4 DEF HeldInv, RecordIInv, RecordTypeOK
  <2>2. /\ 1 \in DOMAIN program /\ Head(program) = program[1]
        /\ \A s : Head(program) = s => InProgram(s)
    <3>1. 1 \in DOMAIN program /\ Head(program) = program[1]
      BY <2>1
    <3> QED  BY <3>1 DEF InProgram
  <2>3. CASE Head(program) = "remove"
    <3>1. \A a \in Announcers : ann[a].step = "none"
      BY <2>2, <2>3 DEF Removing
    <3>2. user.onList => ~exceptionActive[user.port]
      <4>1. user.onList => user.port \in Ports
        BY <1>0 DEF FieldsInv, PlaceInv
      <4> QED  BY <3>1, <4>1 DEF Announced
    <3>3. SpecialGoes
      BY <1>4, <2>1, <2>3, <3>2 DEF SpecialGoes
    <3> QED  BY <1>2, <3>3 DEF HolderGoesOn
  <2>4. CASE Head(program) = "add"
    <3>1. ~InProgram("remove") /\ ~InProgram("connect")
      <4>1. ASSUME NEW i \in DOMAIN program, program[i] \in {"remove", "connect"} PROVE FALSE
        <5>1. program[1] = "add"
          BY <2>2, <2>4
        <5>2. program[i] = "remove" => i = 1
          BY DEF FieldsInv, Ordered
        <5>3. program[i] = "connect" => i = 1 \/ program[1] = "remove"
          BY DEF FieldsInv, Ordered, Moves
        <5> QED  BY <4>1, <5>1, <5>2, <5>3
      <4> QED  BY <4>1 DEF InProgram
    <3>2. user.port \in Ports /\ ~user.onList
      BY <1>0, <2>2, <2>4, <3>1 DEF FieldsInv, PlaceInv, Moving
    <3>3. CASE ~exceptionActive[user.port]
      <4>1. SpecialGoes
        BY <1>4, <2>1, <2>4, <3>3 DEF SpecialGoes
      <4> QED  BY <1>2, <4>1 DEF HolderGoesOn
    <3>4. CASE exceptionActive[user.port]
      <4>1. PICK a \in Announcers : ann[a].step # "none" /\ ann[a].port = user.port
        BY <3>2, <3>4 DEF Announced
      <4>2. ann[a].step \notin {"lock", "show"}
        BY <3>2 DEF FieldsInv, PlaceInv
      <4>3. ann[a].step = "end"
        <5>1. ann \in [Announcers -> Announcement]
          BY DEF RecordIInv, RecordTypeOK
        <5> QED  BY <4>1, <4>2, <5>1 DEF Announcement
      <4> QED  BY <1>2, <2>1, <2>4, <4>1, <4>3 DEF HolderGoesOn
    <3> QED  BY <3>3, <3>4
  <2>5. CASE Head(program) = "canceled" /\ user.canceled
    <3>1. user.port \in Blocking /\ Active(user.port) /\ ann[user.port].step = "none"
      BY <2>5 DEF AbortInv, Aborting
    <3>2. Goes(user.port)
      BY <1>0, <1>1, <3>1 DEF Active, Busy
    <3> QED  BY <1>2, <2>5, <3>1, <3>2 DEF HolderGoesOn
  <2>6. CASE Head(program) \notin {"remove", "add"} /\ ~(Head(program) = "canceled" /\ user.canceled)
    <3>1. SpecialGoes
      BY <1>4, <2>1, <2>6 DEF SpecialGoes
    <3> QED  BY <1>2, <3>1 DEF HolderGoesOn
  <2> QED  BY <2>3, <2>4, <2>5, <2>6
<1> QED  BY <1>2, <1>3, <1>4 DEF HolderGoesOn

\* No put, processing or exception callback of the record waits for ever for the
\* scan lock because its holder waits for the one that wants it: whoever has the
\* lock can always take its next step, or waits for a thread that can and needs no
\* scan lock for it (special, process, exceptCallback, exceptionCallbackRemove and
\* Add, cancelRequest).
THEOREM HolderNeverStuck == ASSUME Careful = TRUE PROVE Spec => []HolderGoesOn
<1>1. Spec => [](HolderInv /\ budget \in Budget)
  <2>1. Init => HolderInv /\ budget \in Budget
    BY HolderInit
  <2>2. /\ RecordIInv /\ FieldsInv /\ HolderInv /\ budget \in Budget /\ [Next]_vars
        => (HolderInv /\ budget \in Budget)'
    BY HolderNext
  <2> QED  BY <2>1, <2>2, FieldsInvariant, PTL DEF Spec
<1>2. RecordIInv /\ FieldsInv /\ HolderInv => HolderGoesOn
  BY HolderHolds
<1> QED  BY <1>1, <1>2, FieldsInvariant, PTL
=============================================================================
