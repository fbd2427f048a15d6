-------------------------- MODULE AsynSyncIOProofs --------------------------
(***************************************************************************)
(* Theorems about AsynPortDriver and its clients, for every set of         *)
(* parameters, addresses, clients, threads and functions they call.        *)
(***************************************************************************)
EXTENDS AsynSyncIO, TLAPS

(***************************************************************************)
(* One parameter.                                                          *)
(***************************************************************************)
Contents == Values \cup (SUBSET Bits) \cup {NoVal}

LEMMA NothingStored == NoVal \in Contents
BY DEF Contents

ParamType ==
  {p \in [type : ParamTypes, defined : BOOLEAN, changed : BOOLEAN, val : Contents,
          status : {"success", "error"}, alarmStatus : {0, 1}, alarmSeverity : {0, 1},
          rising : SUBSET Bits, falling : SUBSET Bits, callbackMask : SUBSET Bits,
          thrown : {"none", "wrongType"}] :
     p.type = "UInt32Digital" /\ p.defined => p.val \in SUBSET Bits}

\* A parameter between two operations: its change is registered.
Resting == {p \in ParamType : ~p.changed /\ p.thrown = "none"}

AlarmOf(p) ==
  [status |-> p.status, alarmStatus |-> p.alarmStatus, alarmSeverity |-> p.alarmSeverity]

Same(p, q) == q.val = p.val /\ AlarmOf(q) = AlarmOf(p)

\* What an operation may make of a parameter p: the callback mask collects the
\* bits that changed, all of them for another status.
Updates(p, q) ==
  /\ q.type = p.type
  /\ p.defined => q.defined
  /\ p.type = "UInt32Digital" =>
       /\ p.callbackMask \subseteq q.callbackMask
       /\ p.defined => PVal!SymDiff(p.val, q.val) \subseteq q.callbackMask
       /\ AlarmOf(q) # AlarmOf(p) => q.callbackMask = Bits

\* ... and a change is marked.
Marked(p, q) ==
  /\ q \in ParamType /\ q.thrown = "none" /\ Updates(p, q)
  /\ p.defined /\ ~q.changed => Same(p, q)

LEMMA UpdatesReflexive ==
  ASSUME NEW p
  PROVE  Updates(p, p) /\ Same(p, p)
BY DEF Updates, Same, PVal!SymDiff

\* A changed status marks the parameter and all of its bits.
LEMMA StatusMarked ==
  ASSUME NEW p \in Resting, NEW s \in {"success", "error"}
  PROVE  Marked(p, PL!PV!setStatus(p, s))
BY DEF Marked, Same, Updates, Resting, ParamType, AlarmOf, PL!PV!setStatus, PL!PV!AllBits,
       PVal!SymDiff

LEMMA AlarmStatusMarked ==
  ASSUME NEW p \in Resting, NEW s \in {0, 1}
  PROVE  Marked(p, PL!PV!setAlarmStatus(p, s))
BY DEF Marked, Same, Updates, Resting, ParamType, AlarmOf, PL!PV!setAlarmStatus, PL!PV!AllBits,
       PVal!SymDiff

LEMMA AlarmSeverityMarked ==
  ASSUME NEW p \in Resting, NEW s \in {0, 1}
  PROVE  Marked(p, PL!PV!setAlarmSeverity(p, s))
BY DEF Marked, Same, Updates, Resting, ParamType, AlarmOf, PL!PV!setAlarmSeverity,
       PL!PV!AllBits, PVal!SymDiff

\* A value of the parameter's type is stored and marked; another is refused.
LEMMA StoreMarked ==
  ASSUME NEW p \in Resting, NEW type \in PVal!ScalarTypes, NEW v \in Contents
  PROVE  LET q == PL!PV!Store(p, type, v)
         IN  IF p.type = type THEN Marked(p, q) ELSE q.thrown = "wrongType"
BY DEF Marked, Same, Updates, Resting, ParamType, AlarmOf, PL!PV!Store, PL!PV!Throw,
       PVal!SymDiff, PVal!ScalarTypes

\* The changed bits of a digital parameter are marked.
LEMMA DigitalMarked ==
  ASSUME NEW p \in Resting, NEW v \in SUBSET Bits, NEW m \in SUBSET Bits, NEW n \in SUBSET Bits
  PROVE  LET q == PL!PV!setUInt32(p, v, m, n)
         IN  IF p.type = "UInt32Digital" THEN Marked(p, q)
             ELSE q.thrown = "wrongType"
BY DEF Marked, Same, Updates, Resting, ParamType, AlarmOf, PL!PV!setUInt32, PL!PV!Throw,
       PVal!SymDiff, PL!PV!SymDiff, Contents

(***************************************************************************)
(* One list.                                                               *)
(***************************************************************************)
Lists ==
  {L \in [names : Seq(STRING), vals : Seq(Resting), flags : Seq(Nat)] :
     \A k \in DOMAIN L.flags : L.flags[k] \in DOMAIN L.vals}

Flagged(L, i) == \E k \in DOMAIN L.flags : L.flags[k] = i

\* What an operation may make of a list: no parameter and no flag goes away, and
\* a parameter that changes is flagged.
Keeps(L, M) ==
  /\ M \in Lists
  /\ DOMAIN L.vals \subseteq DOMAIN M.vals
  /\ \A i \in DOMAIN L.vals :
       /\ Updates(L.vals[i], M.vals[i])
       /\ Flagged(L, i) => Flagged(M, i)
       /\ Flagged(M, i) \/ ~L.vals[i].defined \/ Same(L.vals[i], M.vals[i])

\* A parameter of a list, and a list with another parameter in its place.
LEMMA Stored ==
  ASSUME NEW L \in Lists, NEW i \in DOMAIN L.vals, NEW q \in Resting
  PROVE  LET M == [L EXCEPT !.vals[i] = q]
         IN  /\ M \in Lists /\ M.flags = L.flags /\ M.names = L.names
             /\ DOMAIN M.vals = DOMAIN L.vals
             /\ M.vals[i] = q
             /\ \A j \in DOMAIN L.vals \ {i} : M.vals[j] = L.vals[j]
<1> DEFINE w == [L.vals EXCEPT ![i] = q]
           M == [L EXCEPT !.vals[i] = q]
<1>1. w \in Seq(Resting) /\ DOMAIN w = DOMAIN L.vals
  <2>1. L.vals \in Seq(Resting)
    BY DEF Lists
  <2> QED BY <2>1
<1>2. M = [L EXCEPT !.vals = w]
  OBVIOUS
<1>3. w[i] = q /\ \A j \in DOMAIN L.vals \ {i} : w[j] = L.vals[j]
  OBVIOUS
<1>4. M.vals = w /\ M.flags = L.flags /\ M.names = L.names
  BY <1>2 DEF Lists
<1>5. M \in Lists
  BY <1>1, <1>2 DEF Lists
<1> QED BY <1>1, <1>3, <1>4, <1>5

\* registerParameterChange leaves the parameter unmarked, and flagged if it was
\* marked.
LEMMA ChangeRegistered ==
  ASSUME NEW L \in Lists, NEW i \in DOMAIN L.vals, NEW q, Marked(L.vals[i], q)
  PROVE  Keeps(L, PL!registerParameterChange([L EXCEPT !.vals[i] = q], i))
<1> DEFINE p == L.vals[i]
           r == [q EXCEPT !.changed = FALSE]
           M == [L EXCEPT !.vals[i] = q]
           N == [L EXCEPT !.vals[i] = r]
           G == IF q.changed THEN PL!setFlag(N, i) ELSE N
<1>0. p \in Resting
  BY DEF Lists
<1>1. r \in Resting /\ Updates(p, r) /\ (~q.changed => r = q)
  BY <1>0 DEF Marked, Resting, ParamType, Updates, AlarmOf
<1>2. q.changed \/ ~p.defined \/ Same(p, r)
  BY <1>1 DEF Marked
<1>3. /\ N \in Lists /\ N.flags = L.flags /\ DOMAIN N.vals = DOMAIN L.vals /\ N.vals[i] = r
      /\ \A j \in DOMAIN L.vals \ {i} : N.vals[j] = L.vals[j]
  <2> HIDE DEF r
  <2> QED BY <1>1, Stored
<1>4. /\ G \in Lists /\ G.vals = N.vals /\ (q.changed => Flagged(G, i))
      /\ \A j : Flagged(L, j) => Flagged(G, j)
  <2>1. CASE q.changed /\ ~PL!Contains(N.flags, i)
    <3>1. G = [N EXCEPT !.flags = Append(@, i)]
      BY <1>3, <2>1 DEF PL!setFlag, PL!Index
    <3>2. i \in Nat
      <4>1. L.vals \in Seq(Resting)
        BY DEF Lists
      <4> QED BY <4>1
    <3>3. N.flags \in Seq(Nat)
      BY <1>3 DEF Lists
    <3> DEFINE f == Append(N.flags, i)
    <3>4. /\ f \in Seq(Nat)
          /\ DOMAIN f = DOMAIN N.flags \cup {Len(f)} /\ f[Len(f)] = i
          /\ \A k \in DOMAIN N.flags : f[k] = N.flags[k]
      BY <3>2, <3>3
    <3>5. G = [N EXCEPT !.flags = f]
      BY <3>1
    <3> HIDE DEF f, G, N
    <3>6. N \in [names : Seq(STRING), vals : Seq(Resting), flags : Seq(Nat)]
      BY <1>3 DEF Lists
    <3>7. /\ G \in [names : Seq(STRING), vals : Seq(Resting), flags : Seq(Nat)]
          /\ G.flags = f /\ G.vals = N.vals
      BY <3>4, <3>5, <3>6
    <3>8. \A k \in DOMAIN f : f[k] \in DOMAIN N.vals
      BY <1>3, <3>4 DEF Lists
    <3>9. G \in Lists
      BY <3>7, <3>8 DEF Lists
    <3>10. Len(f) \in DOMAIN f
      BY <3>4
    <3> QED BY <1>3, <3>4, <3>7, <3>9, <3>10 DEF Flagged
  <2>2. CASE q.changed /\ PL!Contains(N.flags, i)
    <3>1. G = N /\ Flagged(N, i)
      BY <1>3, <2>2 DEF PL!setFlag, PL!Index, PL!Contains, Flagged, Lists
    <3> QED BY <1>3, <3>1 DEF Flagged
  <2>3. CASE ~q.changed
    BY <1>3, <2>3 DEF Flagged
  <2> QED BY <2>1, <2>2, <2>3
<1>5. PL!registerParameterChange(M, i) = G
  <2>1. M.vals[i] = q /\ (q.changed => [M EXCEPT !.vals[i].changed = FALSE] = N)
    BY <1>0 DEF Lists
  <2>2. CASE q.changed
    BY <2>1, <2>2 DEF PL!registerParameterChange
  <2>3. CASE ~q.changed
    BY <1>1, <2>1, <2>3 DEF PL!registerParameterChange
  <2> QED BY <2>2, <2>3
<1>6. Keeps(L, G)
  BY <1>1, <1>2, <1>3, <1>4, UpdatesReflexive DEF Keeps
<1> QED BY <1>5, <1>6

LEMMA KeepsReflexive ==
  ASSUME NEW L \in Lists
  PROVE  Keeps(L, L)
BY UpdatesReflexive DEF Keeps

Statuses ==
  {"success", "error", "badIndex", "wrongType", "undefined", "invalidList", "notFound"}

Outcome(L, r) == Keeps(L, r.list) /\ r.status \in Statuses

LEMMA ResultOutcome ==
  ASSUME NEW L, NEW M, Keeps(L, M), NEW st \in Statuses
  PROVE  Outcome(L, PL!Result(M, st))
BY DEF Outcome, PL!Result

\* What Set returns for the result q of an operation on the parameter.
SetResult(L, i, q) ==
  IF i \notin PL!Index(L) THEN PL!Result(L, "badIndex")
  ELSE IF q.thrown # "none" THEN PL!Result(L, q.thrown)
       ELSE PL!Result(PL!registerParameterChange([L EXCEPT !.vals[i] = q], i), "success")

\* Set keeps the list if the operation marks what it changes or throws.
LEMMA SetKeeps ==
  ASSUME NEW L \in Lists, NEW i, NEW q,
         i \in DOMAIN L.vals => Marked(L.vals[i], q) \/ q.thrown = "wrongType"
  PROVE  Outcome(L, SetResult(L, i, q))
<1> USE DEF PL!Index
<1>1. CASE i \notin DOMAIN L.vals
  <2>1. SetResult(L, i, q) = PL!Result(L, "badIndex")
    BY <1>1 DEF SetResult
  <2> QED BY <2>1, KeepsReflexive, ResultOutcome DEF Statuses
<1>2. CASE i \in DOMAIN L.vals /\ q.thrown # "none"
  <2>1. SetResult(L, i, q) = PL!Result(L, "wrongType")
    BY <1>2 DEF SetResult, Marked
  <2> QED BY <2>1, KeepsReflexive, ResultOutcome DEF Statuses
<1>3. CASE i \in DOMAIN L.vals /\ q.thrown = "none"
  <2> DEFINE M == PL!registerParameterChange([L EXCEPT !.vals[i] = q], i)
  <2>1. SetResult(L, i, q) = PL!Result(M, "success")
    BY <1>3 DEF SetResult
  <2>2. Keeps(L, M)
    BY <1>3, ChangeRegistered
  <2> HIDE DEF M
  <2> QED BY <2>1, <2>2, ResultOutcome DEF Statuses
<1> QED BY <1>1, <1>2, <1>3

\* All setters do: ...
LEMMA StatusSetters ==
  ASSUME NEW L \in Lists, NEW i
  PROVE  /\ \A s \in {"success", "error"} : Outcome(L, PL!setStatus(L, i, s))
         /\ \A s \in {0, 1} : Outcome(L, PL!setAlarmStatus(L, i, s))
         /\ \A s \in {0, 1} : Outcome(L, PL!setAlarmSeverity(L, i, s))
<1>0. i \in DOMAIN L.vals => L.vals[i] \in Resting
  BY DEF Lists
<1>1. ASSUME NEW s \in {"success", "error"}
      PROVE  Outcome(L, PL!setStatus(L, i, s))
  <2>1. PL!setStatus(L, i, s) = SetResult(L, i, PL!PV!setStatus(L.vals[i], s))
    BY DEF PL!setStatus, PL!Set, SetResult
  <2> QED BY <1>0, <2>1, SetKeeps, StatusMarked
<1>2. ASSUME NEW s \in {0, 1}
      PROVE  Outcome(L, PL!setAlarmStatus(L, i, s))
  <2>1. PL!setAlarmStatus(L, i, s) = SetResult(L, i, PL!PV!setAlarmStatus(L.vals[i], s))
    BY DEF PL!setAlarmStatus, PL!Set, SetResult
  <2> QED BY <1>0, <2>1, SetKeeps, AlarmStatusMarked
<1>3. ASSUME NEW s \in {0, 1}
      PROVE  Outcome(L, PL!setAlarmSeverity(L, i, s))
  <2>1. PL!setAlarmSeverity(L, i, s) = SetResult(L, i, PL!PV!setAlarmSeverity(L.vals[i], s))
    BY DEF PL!setAlarmSeverity, PL!Set, SetResult
  <2> QED BY <1>0, <2>1, SetKeeps, AlarmSeverityMarked
<1> QED BY <1>1, <1>2, <1>3

LEMMA ValueSetters ==
  ASSUME NEW L \in Lists, NEW i, NEW v \in Contents
  PROVE  /\ Outcome(L, PL!setInteger(L, i, v))
         /\ Outcome(L, PL!setInteger64(L, i, v))
         /\ Outcome(L, PL!setDouble(L, i, v))
         /\ Outcome(L, PL!setString(L, i, v))
<1> DEFINE q(type) == PL!PV!Store(L.vals[i], type, v)
<1>1. /\ PL!setInteger(L, i, v) = SetResult(L, i, q("Int32"))
      /\ PL!setInteger64(L, i, v) = SetResult(L, i, q("Int64"))
      /\ PL!setDouble(L, i, v) = SetResult(L, i, q("Float64"))
      /\ PL!setString(L, i, v) = SetResult(L, i, q("Octet"))
  BY DEF PL!setInteger, PL!setInteger64, PL!setDouble, PL!setString, PL!Set, SetResult,
         PL!PV!setInteger, PL!PV!setInteger64, PL!PV!setDouble, PL!PV!setString
<1>2. ASSUME NEW type \in PVal!ScalarTypes
      PROVE  Outcome(L, SetResult(L, i, q(type)))
  <2>1. ASSUME i \in DOMAIN L.vals
        PROVE  Marked(L.vals[i], q(type)) \/ q(type).thrown = "wrongType"
    <3>1. L.vals[i] \in Resting
      BY <2>1 DEF Lists
    <3> QED BY <3>1, StoreMarked
  <2> HIDE DEF q
  <2> QED BY <2>1, SetKeeps
<1> HIDE DEF q
<1> QED BY <1>1, <1>2 DEF PVal!ScalarTypes

LEMMA DigitalSetter ==
  ASSUME NEW L \in Lists, NEW i, NEW v \in SUBSET Bits, NEW m \in SUBSET Bits,
         NEW n \in SUBSET Bits
  PROVE  Outcome(L, PL!setUInt32(L, i, v, m, n))
<1> DEFINE q == PL!PV!setUInt32(L.vals[i], v, m, n)
<1>1. PL!setUInt32(L, i, v, m, n) = SetResult(L, i, q)
  BY DEF PL!setUInt32, PL!Set, SetResult
<1>2. ASSUME i \in DOMAIN L.vals
      PROVE  Marked(L.vals[i], q) \/ q.thrown = "wrongType"
  <2>1. L.vals[i] \in Resting
    BY <1>2 DEF Lists
  <2> QED BY <2>1, DigitalMarked
<1> HIDE DEF q
<1> QED BY <1>1, <1>2, SetKeeps

\* ... and the masks a driver keeps for its hardware touch nothing else.
LEMMA InterruptSetters ==
  ASSUME NEW L \in Lists, NEW i, NEW m \in SUBSET Bits, NEW reason
  PROVE  /\ Outcome(L, PL!setUInt32Interrupt(L, i, m, reason))
         /\ Outcome(L, PL!clearUInt32Interrupt(L, i, m))
<1>1. ASSUME NEW q \in Resting, NEW r, r.status = "success", i \in DOMAIN L.vals,
             Updates(L.vals[i], q), Same(L.vals[i], q), r.list = [L EXCEPT !.vals[i] = q]
      PROVE  Outcome(L, r)
  <2> DEFINE M == [L EXCEPT !.vals[i] = q]
  <2>1. /\ M \in Lists /\ M.flags = L.flags /\ DOMAIN M.vals = DOMAIN L.vals /\ M.vals[i] = q
        /\ \A j \in DOMAIN L.vals \ {i} : M.vals[j] = L.vals[j]
    BY <1>1, Stored
  <2> HIDE DEF M
  <2>2. Keeps(L, M)
    BY <1>1, <2>1, UpdatesReflexive DEF Keeps, Flagged
  <2> QED BY <1>1, <2>2 DEF Outcome, Statuses, M
<1>2. CASE ~PL!IsDigital(L, i)
  <2>1. PICK st \in {"wrongType", "badIndex"} : PL!NotDigital(L, i) = PL!Result(L, st)
    BY DEF PL!NotDigital
  <2>2. Outcome(L, PL!NotDigital(L, i))
    BY <2>1, KeepsReflexive, ResultOutcome DEF Statuses
  <2> QED BY <1>2, <2>2 DEF PL!setUInt32Interrupt, PL!clearUInt32Interrupt
<1>3. CASE PL!IsDigital(L, i)
  <2> DEFINE p == L.vals[i]
             a == [p EXCEPT !.rising = IF reason \in {"zeroToOne", "both"} THEN m ELSE @,
                            !.falling = IF reason \in {"oneToZero", "both"} THEN m ELSE @]
             b == [p EXCEPT !.rising = @ \ m, !.falling = @ \ m]
  <2>1. i \in DOMAIN L.vals /\ p \in Resting
    BY <1>3 DEF PL!IsDigital, PL!Index, Lists
  <2>2. /\ a \in Resting /\ Updates(p, a) /\ Same(p, a)
        /\ b \in Resting /\ Updates(p, b) /\ Same(p, b)
    BY <2>1 DEF Resting, ParamType, Updates, Same, AlarmOf, PVal!SymDiff
  <2>3. /\ PL!setUInt32Interrupt(L, i, m, reason).list = [L EXCEPT !.vals[i] = a]
        /\ PL!setUInt32Interrupt(L, i, m, reason).status = "success"
        /\ PL!clearUInt32Interrupt(L, i, m).list = [L EXCEPT !.vals[i] = b]
        /\ PL!clearUInt32Interrupt(L, i, m).status = "success"
    BY <1>3, <2>1 DEF PL!setUInt32Interrupt, PL!clearUInt32Interrupt, PL!Result, Lists
  <2> HIDE DEF a, b
  <2> QED BY <1>1, <2>1, <2>2, <2>3
<1> QED BY <1>2, <1>3

\* createParam adds a parameter, or finds its name.
LEMMA CreateExtends ==
  ASSUME NEW L \in Lists, NEW name \in STRING, NEW type \in ParamTypes,
         NEW mask \in SUBSET Bits
  PROVE  LET M == PL!createParam(L, name, type, mask).list
         IN  /\ M \in Lists /\ M.flags = L.flags
             /\ DOMAIN L.vals \subseteq DOMAIN M.vals
             /\ \A i \in DOMAIN L.vals : M.vals[i] = L.vals[i]
<1> DEFINE p == PL!PV!paramVal(type, mask)
           v == Append(L.vals, p)
           n == Append(L.names, name)
           M == PL!createParam(L, name, type, mask).list
<1>1. CASE PL!findParam(L, name) # 0
  BY <1>1 DEF PL!createParam, PL!Result
<1>2. CASE PL!findParam(L, name) = 0
  <2>1. p \in Resting
    <3>1. p = [type |-> type, defined |-> FALSE, changed |-> FALSE, val |-> NoVal,
               status |-> "success", alarmStatus |-> 0, alarmSeverity |-> 0,
               rising |-> mask, falling |-> mask, callbackMask |-> mask, thrown |-> "none"]
      BY DEF PL!PV!paramVal
    <3> QED BY <3>1, NothingStored DEF Resting, ParamType
  <2>2. M = [L EXCEPT !.names = n, !.vals = v]
    BY <1>2 DEF PL!createParam, PL!Result
  <2>3. /\ L \in [names : Seq(STRING), vals : Seq(Resting), flags : Seq(Nat)]
        /\ \A k \in DOMAIN L.flags : L.flags[k] \in DOMAIN L.vals
    BY DEF Lists
  <2> HIDE DEF p
  <2>4. /\ n \in Seq(STRING) /\ v \in Seq(Resting)
        /\ DOMAIN L.vals \subseteq DOMAIN v
        /\ \A i \in DOMAIN L.vals : v[i] = L.vals[i]
    BY <2>1, <2>3
  <2> HIDE DEF n, v, M
  <2>5. /\ M \in [names : Seq(STRING), vals : Seq(Resting), flags : Seq(Nat)]
        /\ M.flags = L.flags /\ M.vals = v
    BY <2>2, <2>3, <2>4
  <2>6. M \in Lists
    BY <2>3, <2>4, <2>5 DEF Lists
  <2> QED BY <2>4, <2>5, <2>6 DEF M
<1> QED BY <1>1, <1>2

(***************************************************************************)
(* The lists of a driver.                                                  *)
(***************************************************************************)
AllKeep(old, new) ==
  new \in [Addrs -> Lists] /\ \A a \in Addrs : Keeps(old[a], new[a])

ReplyOK(r) ==
  AllKeep(params, r.params) /\ r.status \in Statuses /\ r.callbacks \in BOOLEAN

\* A reply that leaves the lists alone ...
LEMMA Unchanging ==
  ASSUME params \in [Addrs -> Lists], NEW st \in Statuses, NEW v
  PROVE  ReplyOK(Reply(params, st, v, FALSE))
BY KeepsReflexive DEF ReplyOK, Reply, AllKeep

LEMMA Refused ==
  ASSUME params \in [Addrs -> Lists], NEW st \in Statuses
  PROVE  ReplyOK(Failed(st))
BY Unchanging DEF Failed

\* ... and one with the outcome of an operation on one of them.
OnList(l, r) ==
  IF ~getParamList(l) THEN Failed("invalidList")
  ELSE Reply([params EXCEPT ![l] = r.list], r.status, NoVal, FALSE)

LEMMA OnListOK ==
  ASSUME params \in [Addrs -> Lists], NEW l, NEW r, l \in Addrs => Outcome(params[l], r)
  PROVE  ReplyOK(OnList(l, r))
<1>1. CASE l \notin Addrs
  BY <1>1, Refused DEF OnList, getParamList, Statuses
<1>2. CASE l \in Addrs
  BY <1>2, KeepsReflexive DEF OnList, getParamList, ReplyOK, Reply, AllKeep, Outcome, Keeps
<1> QED BY <1>1, <1>2

\* What the driver and the methods do with a list.
LEMMA ParamSetters ==
  ASSUME params \in [Addrs -> Lists], NEW l, NEW i
  PROVE  /\ \A s \in {"success", "error"} : ReplyOK(setParamStatus(l, i, s))
         /\ \A s \in {0, 1} : ReplyOK(setParamAlarmStatus(l, i, s))
         /\ \A s \in {0, 1} : ReplyOK(setParamAlarmSeverity(l, i, s))
         /\ \A v \in Contents : /\ ReplyOK(setIntegerParam(l, i, v))
                               /\ ReplyOK(setInteger64Param(l, i, v))
                               /\ ReplyOK(setDoubleParam(l, i, v))
                               /\ ReplyOK(setStringParam(l, i, v))
         /\ \A v, m, n \in SUBSET Bits : ReplyOK(setUIntDigitalParam(l, i, v, m, n))
         /\ \A m \in SUBSET Bits : \A reason :
                /\ ReplyOK(setUInt32DigitalInterrupt(l, i, m, reason))
                /\ ReplyOK(clearUInt32DigitalInterrupt(l, i, m))
<1> DEFINE L == params[l]
<1>0. l \in Addrs => L \in Lists
  OBVIOUS
<1>1. ASSUME NEW s \in {"success", "error"} PROVE ReplyOK(setParamStatus(l, i, s))
  <2>1. setParamStatus(l, i, s) = OnList(l, PL!setStatus(L, i, s))
    BY DEF setParamStatus, InList, OnList
  <2> QED BY <1>0, <2>1, OnListOK, StatusSetters
<1>2. ASSUME NEW s \in {0, 1} PROVE ReplyOK(setParamAlarmStatus(l, i, s))
  <2>1. setParamAlarmStatus(l, i, s) = OnList(l, PL!setAlarmStatus(L, i, s))
    BY DEF setParamAlarmStatus, InList, OnList
  <2> QED BY <1>0, <2>1, OnListOK, StatusSetters
<1>3. ASSUME NEW s \in {0, 1} PROVE ReplyOK(setParamAlarmSeverity(l, i, s))
  <2>1. setParamAlarmSeverity(l, i, s) = OnList(l, PL!setAlarmSeverity(L, i, s))
    BY DEF setParamAlarmSeverity, InList, OnList
  <2> QED BY <1>0, <2>1, OnListOK, StatusSetters
<1>4. ASSUME NEW v \in Contents
      PROVE  /\ ReplyOK(setIntegerParam(l, i, v)) /\ ReplyOK(setInteger64Param(l, i, v))
             /\ ReplyOK(setDoubleParam(l, i, v)) /\ ReplyOK(setStringParam(l, i, v))
  <2>1. /\ setIntegerParam(l, i, v) = OnList(l, PL!setInteger(L, i, v))
        /\ setInteger64Param(l, i, v) = OnList(l, PL!setInteger64(L, i, v))
        /\ setDoubleParam(l, i, v) = OnList(l, PL!setDouble(L, i, v))
        /\ setStringParam(l, i, v) = OnList(l, PL!setString(L, i, v))
    BY DEF setIntegerParam, setInteger64Param, setDoubleParam, setStringParam, InList, OnList
  <2> QED BY <1>0, <2>1, OnListOK, ValueSetters
<1>5. ASSUME NEW v \in SUBSET Bits, NEW m \in SUBSET Bits, NEW n \in SUBSET Bits
      PROVE  ReplyOK(setUIntDigitalParam(l, i, v, m, n))
  <2>1. setUIntDigitalParam(l, i, v, m, n) = OnList(l, PL!setUInt32(L, i, v, m, n))
    BY DEF setUIntDigitalParam, InList, OnList
  <2> QED BY <1>0, <2>1, OnListOK, DigitalSetter
<1>6. ASSUME NEW m \in SUBSET Bits, NEW reason
      PROVE  /\ ReplyOK(setUInt32DigitalInterrupt(l, i, m, reason))
             /\ ReplyOK(clearUInt32DigitalInterrupt(l, i, m))
  <2>1. /\ setUInt32DigitalInterrupt(l, i, m, reason)
              = OnList(l, PL!setUInt32Interrupt(L, i, m, reason))
        /\ clearUInt32DigitalInterrupt(l, i, m) = OnList(l, PL!clearUInt32Interrupt(L, i, m))
    BY DEF setUInt32DigitalInterrupt, clearUInt32DigitalInterrupt, InList, OnList
  <2> QED BY <1>0, <2>1, OnListOK, InterruptSetters
<1> QED BY <1>1, <1>2, <1>3, <1>4, <1>5, <1>6

\* A getter returns a status.
LEMMA GetStatus ==
  ASSUME NEW L \in Lists, NEW i
  PROVE  /\ PL!getInteger(L, i).status \in Statuses
         /\ PL!getInteger64(L, i).status \in Statuses
         /\ PL!getDouble(L, i).status \in Statuses
         /\ PL!getString(L, i).status \in Statuses
         /\ \A m : PL!getUInt32(L, i, m).status \in Statuses
         /\ \A reason : PL!getUInt32Interrupt(L, i, reason).status \in Statuses
<1> DEFINE st(type) == PL!PV!Fetch(L.vals[i], type)
           R(type) == IF i \notin DOMAIN L.vals THEN [status |-> "badIndex", val |-> NoVal]
                      ELSE [status |-> IF st(type) = "success" THEN L.vals[i].status ELSE st(type),
                            val |-> IF st(type) = "success" THEN L.vals[i].val ELSE NoVal]
<1>1. ASSUME NEW type
      PROVE  R(type).status \in Statuses
  <2>1. i \in DOMAIN L.vals => L.vals[i].status \in {"success", "error"}
    BY DEF Lists, Resting, ParamType
  <2>2. st(type) \in Statuses
    BY DEF PL!PV!Fetch, Statuses
  <2> HIDE DEF st
  <2> QED BY <2>1, <2>2 DEF Statuses
<1>2. /\ PL!getInteger(L, i) = R("Int32") /\ PL!getInteger64(L, i) = R("Int64")
      /\ PL!getDouble(L, i) = R("Float64") /\ PL!getString(L, i) = R("Octet")
  BY DEF PL!getInteger, PL!getInteger64, PL!getDouble, PL!getString, PL!Get, PL!Index,
         PL!PV!getInteger, PL!PV!getInteger64, PL!PV!getDouble, PL!PV!getString
<1>3. ASSUME NEW m
      PROVE  PL!getUInt32(L, i, m).status = R("UInt32Digital").status
  BY DEF PL!getUInt32, PL!Get, PL!Index, PL!PV!getUInt32
<1>4. ASSUME NEW reason
      PROVE  PL!getUInt32Interrupt(L, i, reason).status \in Statuses
  BY DEF PL!getUInt32Interrupt, PL!NotDigital, PL!Result, Statuses
<1> HIDE DEF R
<1> QED BY <1>1, <1>2, <1>3, <1>4

LEMMA ParamGetters ==
  ASSUME params \in [Addrs -> Lists], NEW l, NEW i
  PROVE  /\ ReplyOK(getIntegerParam(l, i)) /\ ReplyOK(getInteger64Param(l, i))
         /\ ReplyOK(getDoubleParam(l, i)) /\ ReplyOK(getStringParam(l, i))
         /\ \A m : ReplyOK(getUIntDigitalParam(l, i, m))
         /\ \A reason : ReplyOK(getUInt32DigitalInterrupt(l, i, reason))
<1> DEFINE L == params[l]
           F(r) == IF l \notin Addrs THEN Failed("invalidList") ELSE Reply(params, r.status, r.val, FALSE)
<1>1. ASSUME NEW r, l \in Addrs => r.status \in Statuses
      PROVE  ReplyOK(F(r))
  BY <1>1, Refused, Unchanging DEF Statuses
<1>2. /\ getIntegerParam(l, i) = F(PL!getInteger(L, i))
      /\ getInteger64Param(l, i) = F(PL!getInteger64(L, i))
      /\ getDoubleParam(l, i) = F(PL!getDouble(L, i))
      /\ getStringParam(l, i) = F(PL!getString(L, i))
      /\ \A m : getUIntDigitalParam(l, i, m) = F(PL!getUInt32(L, i, m))
      /\ \A reason : getUInt32DigitalInterrupt(l, i, reason) = F(PL!getUInt32Interrupt(L, i, reason))
  BY DEF getIntegerParam, getInteger64Param, getDoubleParam, getStringParam,
         getUIntDigitalParam, getUInt32DigitalInterrupt, FromList, getParamList
<1>3. l \in Addrs => L \in Lists
  OBVIOUS
<1> HIDE DEF F, L
<1>4. /\ ReplyOK(F(PL!getInteger(L, i))) /\ ReplyOK(F(PL!getInteger64(L, i)))
      /\ ReplyOK(F(PL!getDouble(L, i))) /\ ReplyOK(F(PL!getString(L, i)))
  BY <1>1, <1>3, GetStatus
<1>5. ASSUME NEW m PROVE ReplyOK(F(PL!getUInt32(L, i, m)))
  BY <1>1, <1>3, GetStatus
<1>6. ASSUME NEW reason PROVE ReplyOK(F(PL!getUInt32Interrupt(L, i, reason)))
  BY <1>1, <1>3, GetStatus
<1> QED BY <1>2, <1>4, <1>5, <1>6

\* The asynUser of a call.
Users ==
  [addr : Int, reason : Nat, name : {Names[n] : n \in DOMAIN Names} \cup {Null},
   val : Contents, bits : SUBSET Bits, mask : SUBSET Bits, reads : {0, 1}]

\* Every method keeps the lists and returns a status.
LEMMA MethodKeeps ==
  ASSUME params \in [Addrs -> Lists], NEW u \in Users, NEW m \in Methods
  PROVE  ReplyOK(Method(m, u))
<1> DEFINE a == getAddress(u)
<1>1. ASSUME NEW R, ReplyOK(R)
      PROVE  ReplyOK(Parsed(u, R))
  <2>1. parseAsynUser(u) \in Statuses
    BY DEF parseAsynUser, Statuses
  <2> QED BY <1>1, <2>1, Refused DEF Parsed
<1>2. ASSUME NEW R, ReplyOK(R), R = Reply(R.params, R.status, R.val, R.callbacks)
      PROVE  ReplyOK(ThenCallbacks(R)) /\ ReplyOK([R EXCEPT !.callbacks = TRUE])
  <2> DEFINE A == ThenCallbacks(R)  B == [R EXCEPT !.callbacks = TRUE]
  <2>1. R = [params |-> R.params, status |-> R.status, val |-> R.val, callbacks |-> R.callbacks]
    BY <1>2 DEF Reply
  <2>2. /\ A.params = R.params /\ A.status = "success" /\ A.callbacks = TRUE
        /\ B.params = R.params /\ B.status = R.status /\ B.callbacks = TRUE
    BY <2>1 DEF ThenCallbacks
  <2> HIDE DEF A, B
  <2>3. ReplyOK(A) /\ ReplyOK(B)
    BY <1>2, <2>2 DEF ReplyOK, Statuses
  <2> QED BY <2>3 DEF A, B
<1>3. ASSUME NEW l, NEW r
      PROVE  LET R == OnList(l, r) IN R = Reply(R.params, R.status, R.val, R.callbacks)
  BY DEF OnList, Failed, Reply
<1>4. ReplyOK(writeInt32(u)) /\ ReplyOK(writeInt64(u)) /\ ReplyOK(writeFloat64(u)) /\ ReplyOK(writeOctet(u))
  <2>1. u.val \in Contents
    BY DEF Users
  <2> DEFINE L == params[a]
             A == setIntegerParam(a, u.reason, u.val)
             B == setInteger64Param(a, u.reason, u.val)
             C == setDoubleParam(a, u.reason, u.val)
             D == setStringParam(a, u.reason, u.val)
  <2>2. /\ A = OnList(a, PL!setInteger(L, u.reason, u.val))
        /\ B = OnList(a, PL!setInteger64(L, u.reason, u.val))
        /\ C = OnList(a, PL!setDouble(L, u.reason, u.val))
        /\ D = OnList(a, PL!setString(L, u.reason, u.val))
    BY DEF setIntegerParam, setInteger64Param, setDoubleParam, setStringParam, InList, OnList
  <2>3. ReplyOK(A) /\ ReplyOK(B) /\ ReplyOK(C) /\ ReplyOK(D)
    BY <2>1, ParamSetters
  <2>4. /\ writeInt32(u) = Parsed(u, ThenCallbacks(A))
        /\ writeInt64(u) = Parsed(u, ThenCallbacks(B))
        /\ writeFloat64(u) = Parsed(u, [C EXCEPT !.callbacks = TRUE])
        /\ writeOctet(u) = Parsed(u, ThenCallbacks(D))
    BY DEF writeInt32, writeInt64, writeFloat64, writeOctet
  <2> HIDE DEF A, B, C, D, a
  <2>5. /\ ReplyOK(ThenCallbacks(A)) /\ ReplyOK(ThenCallbacks(B))
        /\ ReplyOK([C EXCEPT !.callbacks = TRUE]) /\ ReplyOK(ThenCallbacks(D))
    BY <1>2, <1>3, <2>2, <2>3
  <2> QED BY <1>1, <2>4, <2>5
<1>5. /\ ReplyOK(writeUInt32Digital(u)) /\ ReplyOK(setInterruptUInt32Digital(u, "both"))
      /\ ReplyOK(clearInterruptUInt32Digital(u))
  <2>1. u.bits \in SUBSET Bits /\ u.mask \in SUBSET Bits
    BY DEF Users
  <2> DEFINE A == setUIntDigitalParam(a, u.reason, u.bits, u.mask, {})
             B == setUInt32DigitalInterrupt(a, u.reason, u.mask, "both")
             C == clearUInt32DigitalInterrupt(a, u.reason, u.mask)
  <2>2. A = OnList(a, PL!setUInt32(params[a], u.reason, u.bits, u.mask, {}))
    BY DEF setUIntDigitalParam, InList, OnList
  <2>3. ReplyOK(A) /\ ReplyOK(B) /\ ReplyOK(C)
    BY <2>1, ParamSetters
  <2>4. /\ writeUInt32Digital(u) = Parsed(u, ThenCallbacks(A))
        /\ setInterruptUInt32Digital(u, "both") = Parsed(u, B)
        /\ clearInterruptUInt32Digital(u) = Parsed(u, C)
    BY DEF writeUInt32Digital, setInterruptUInt32Digital, clearInterruptUInt32Digital
  <2> HIDE DEF A, B, C, a
  <2>5. ReplyOK(ThenCallbacks(A))
    BY <1>2, <1>3, <2>2, <2>3
  <2> QED BY <1>1, <2>3, <2>4, <2>5
<1>6. /\ ReplyOK(readInt32(u)) /\ ReplyOK(readInt64(u)) /\ ReplyOK(readFloat64(u)) /\ ReplyOK(readOctet(u))
      /\ ReplyOK(readUInt32Digital(u)) /\ ReplyOK(getInterruptUInt32Digital(u, "both"))
  <2> HIDE DEF a
  <2> QED BY <1>1, ParamGetters DEF readInt32, readInt64, readFloat64, readOctet, readUInt32Digital,
                                getInterruptUInt32Digital
<1>7. \A v : ReplyOK(Reply(params, "success", v, FALSE))
  BY Unchanging DEF Statuses
<1>8. ReplyOK(NotImplemented)
  BY Refused DEF NotImplemented, Statuses
<1> HIDE DEF a
<1>9. CASE m \in {"readInt32", "writeInt32", "getBounds", "readInt64", "writeInt64", "getBounds64",
                 "readUInt32Digital", "writeUInt32Digital", "setInterruptUInt32Digital",
                 "clearInterruptUInt32Digital", "getInterruptUInt32Digital", "readFloat64",
                 "writeFloat64", "readOctet", "writeOctet", "getInputEosOctet",
                 "getOutputEosOctet", "setInputEosOctet", "setOutputEosOctet"}
  BY <1>4, <1>5, <1>6, <1>7, <1>9
     DEF Method, getBounds, getBounds64, getInputEosOctet, getOutputEosOctet
<1>10. CASE m \in {"readInt8Array", "writeInt8Array", "readInt16Array", "writeInt16Array",
                  "readInt32Array", "writeInt32Array", "readInt64Array", "writeInt64Array",
                  "readFloat32Array", "writeFloat32Array", "readFloat64Array",
                  "writeFloat64Array", "readGenericPointer", "writeGenericPointer",
                  "readOption", "writeOption", "readEnum", "writeEnum"}
  <2>1. Method(m, u) = NotImplemented
    BY <1>10 DEF Method, readInt8Array, writeInt8Array, readInt16Array, writeInt16Array, readInt32Array,
           writeInt32Array, readInt64Array, writeInt64Array, readFloat32Array,
           writeFloat32Array, readFloat64Array, writeFloat64Array, readGenericPointer,
           writeGenericPointer, readOption, writeOption, readEnum, writeEnum
  <2> QED BY <1>8, <2>1
<1> QED BY <1>9, <1>10 DEF Methods

\* So does every assignment of the driver.
LEMMA AssignKeeps ==
  ASSUME params \in [Addrs -> Lists], NEW op, NEW l, NEW i, NEW new \in Assign(op, l, i)
  PROVE  AllKeep(params, new)
<1>1. Values \subseteq Contents
  BY DEF Contents
<1>2. \A v, m \in SUBSET Bits : ReplyOK(setUIntDigitalParam(l, i, v, m, {}))
  BY ParamSetters
<1>3. \A m \in SUBSET Bits : ReplyOK(setUIntDigitalParam(l, i, {}, {}, m))
  BY ParamSetters
<1> HIDE DEF Assign
<1>4. CASE op \in {"status", "alarmStatus", "alarmSeverity"}
  <2>1. PICK r : ReplyOK(r) /\ new = r.params
    BY <1>4, ParamSetters DEF Assign
  <2> QED BY <2>1 DEF ReplyOK
<1>5. CASE op \in {"integer", "integer64", "double", "string"}
  <2>1. PICK v \in Values : new \in {setIntegerParam(l, i, v).params, setInteger64Param(l, i, v).params,
                                   setDoubleParam(l, i, v).params, setStringParam(l, i, v).params}
    BY <1>5 DEF Assign
  <2>2. PICK r : ReplyOK(r) /\ new = r.params
    BY <1>1, <2>1, ParamSetters
  <2> QED BY <2>2 DEF ReplyOK
<1>6. CASE op = "digital"
  <2>1. PICK r : ReplyOK(r) /\ new = r.params
    BY <1>2, <1>6 DEF Assign
  <2> QED BY <2>1 DEF ReplyOK
<1>7. CASE op = "digitalInterrupt"
  <2>1. PICK r : ReplyOK(r) /\ new = r.params
    BY <1>3, <1>7 DEF Assign
  <2> QED BY <2>1 DEF ReplyOK
<1>8. CASE op \notin {"status", "alarmStatus", "alarmSeverity", "integer", "integer64", "double",
                     "string", "digital", "digitalInterrupt"}
  BY <1>8 DEF Assign
<1> QED BY <1>4, <1>5, <1>6, <1>7, <1>8

(***************************************************************************)
(* The invariants.                                                         *)
(***************************************************************************)
\* Who is where: a thread with the mutex is in a method, and only a thread with
\* the mutex makes callbacks.
IoRecords ==
  [prog : [iface : STRING, steps : Seq(Calls \cup Methods \cup {"flushOctet"})] \cup {Null},
   pc : Nat, user : STRING \cup {"none", "failed"}, drvUser : BOOLEAN, once : BOOLEAN,
   status : Statuses, rq : Users]

Running(r) == r.prog # Null => IsFunction(r.prog) /\ r.pc \in 1 .. Len(r.prog.steps)

TypeInv ==
  /\ scenario \in Scenarios
  /\ params \in [Addrs -> Lists]
  /\ got = [c \in Clients |-> got[c]]
  /\ io \in [IoThreads -> IoRecords] /\ \A t \in IoThreads : Running(io[t])

MutexInv ==
  /\ mutex \in Threads \cup {Null}
  /\ \A t \in IoThreads :
       mutex = t => InMethod(t) /\ (work # Null => Current(t) # "flushOctet")
  /\ work # Null =>
       /\ mutex # Null
       /\ work \in [list : Addrs, addr : Addrs, next : Nat \ {0}] /\ work.addr = work.list

\* The flags whose callbacks are still to be made.
Pending(a, i) ==
  \E k \in DOMAIN params[a].flags :
    /\ params[a].flags[k] = i
    /\ work # Null /\ work.list = a => k >= work.next

Agrees(g, type, mask, p) ==
  /\ g.alarm = AlarmOf(p)
  /\ g.val = IF type = "UInt32Digital" THEN p.val \cap mask ELSE p.val

\* A client that was called holds the parameter's value unless a callback is
\* pending; a digital one will be told of every bit of its own that changed.
Informed(g, type, mask, p) ==
  /\ p.defined /\ p.type = type
  /\ type = "UInt32Digital" =>
       /\ mask \cap Bits # {}
       /\ g.val \subseteq mask
       /\ mask \cap PVal!SymDiff(g.val, p.val) \subseteq p.callbackMask
       /\ g.alarm # AlarmOf(p) => p.callbackMask = Bits

ClientInv ==
  /\ \A c \in registered : c \in Clients /\ ClientOf[c].type \in CanInterrupt
  /\ \A c \in registered :
    got[c] # Null /\ ClientOf[c].type \notin PVal!ArrayTypes =>
      LET a == ClientAddr(c)  i == ClientOf[c].reason  p == params[a].vals[i]
      IN  /\ a \in Addrs /\ i \in DOMAIN params[a].vals
          /\ Informed(got[c], ClientOf[c].type, ClientOf[c].mask, p)
          /\ Pending(a, i) \/ Agrees(got[c], ClientOf[c].type, ClientOf[c].mask, p)

\* The port goes down once, without clients.
Active(s) == shutter[s] \notin {"idle", "end"}

\* A thread that finds the port gone only cleans up.
Leaving(r) ==
  /\ r.user \in {"none", "failed"}
  /\ r.prog # Null =>
       LET n == Len(r.prog.steps)
       IN  \/ r.pc = 1 /\ r.prog.steps[1] = "connect"
           \/ r.pc = n /\ r.prog.steps[n] = "disconnect"

ShutInv ==
  /\ shutter \in [Shutters -> {"idle", "exception", "shutdown", "destructor", "doneEvent", "end"}]
  /\ port \in {"constructing", "up", "defunct", "deleted"}
  /\ \A s, r \in Shutters : Active(s) /\ Active(r) => s = r
  /\ deletes \in {0, 1}
  /\ port \in {"constructing", "up"} /\ deletes = 0 =>
       shutdownNeeded /\ \A s \in Shutters : ~Active(s)
  /\ port = "up" /\ deletes = 1 =>
       /\ ClientsGone /\ scenario.end = "delete"
       /\ \A s \in Shutters : Active(s) => shutter[s] = "shutdown"
  /\ port = "constructing" => deletes = 0
  /\ port \in {"defunct", "deleted"} => \A t \in IoThreads : Leaving(io[t])
  /\ port = "deleted" => cbDone /\ mutex = Null /\ \A s \in Shutters : ~Active(s)
  /\ \A s \in Shutters :
       /\ shutter[s] = "exception" => port = "defunct" /\ (shutdownNeeded <=> deletes = 0)
       /\ shutter[s] = "shutdown" => deletes = 1
       /\ shutter[s] \in {"destructor", "doneEvent"} => deletes = 1 /\ port = "defunct"
       /\ shutter[s] = "doneEvent" => mutex \in {Null, CbThread}

CbInv ==
  /\ cb \in Int
  /\ cbDone => cb = MaxAddr /\ mutex # CbThread

DriverInv == TypeInv /\ MutexInv /\ ClientInv /\ CbInv /\ ShutInv

LEMMA ThreadFacts == Null \notin Threads /\ IoThreads \cap {Driver, CbThread} = {} /\ Driver # CbThread
BY PortDriverAssumption

LEMMA InitOK == IoInit => DriverInv
<1> SUFFICES ASSUME IoInit PROVE DriverInv
  OBVIOUS
<1>1. TypeInv
  <2>1. PL!EmptyList \in Lists
    BY DEF PL!EmptyList, Lists
  <2>2. NewUser \in Users
    BY NothingStored DEF NewUser, Users
  <2>3. Idle \in IoRecords /\ Running(Idle)
    BY <2>2 DEF Idle, IoRecords, Running, Statuses
  <2> QED BY <2>1, <2>3 DEF IoInit, Init, TypeInv
<1>2. MutexInv
  BY ThreadFacts DEF IoInit, Init, MutexInv, Threads
<1>3. ClientInv
  BY DEF IoInit, Init, ClientInv
<1>4. CbInv /\ ShutInv
  BY DEF IoInit, Init, CbInv, ShutInv, Active
<1> QED BY <1>1, <1>2, <1>3, <1>4 DEF DriverInv

(***************************************************************************)
(* A thread goes on.                                                       *)
(***************************************************************************)
LEMMA GoToOK ==
  ASSUME NEW r \in IoRecords, Running(r), r.prog # Null, NEW k \in Nat \ {0}, NEW st \in Statuses
  PROVE  /\ GoTo(r, k, st) \in IoRecords /\ Running(GoTo(r, k, st))
         /\ GoTo(r, k, st).user = r.user
         /\ k \in 1 .. Len(r.prog.steps) =>
               GoTo(r, k, st).prog = r.prog /\ GoTo(r, k, st).pc = k
         /\ k \notin 1 .. Len(r.prog.steps) => GoTo(r, k, st).prog = Null
<1>1. Len(r.prog.steps) \in Nat
  BY DEF Running, IsFunction
<1>2. CASE k <= Len(r.prog.steps)
  <2> DEFINE q == [r EXCEPT !.pc = k, !.status = st]
  <2>1. GoTo(r, k, st) = q
    BY <1>2 DEF GoTo
  <2>2. /\ q \in IoRecords /\ q.prog = r.prog /\ q.pc = k /\ q.user = r.user
    BY DEF IoRecords
  <2> HIDE DEF q
  <2> QED BY <1>1, <1>2, <2>1, <2>2 DEF Running
<1>3. CASE ~(k <= Len(r.prog.steps))
  <2> DEFINE b == r.prog.steps[1] = "connect" /\ Len(r.prog.steps) > 1
             q == [r EXCEPT !.pc = 0, !.prog = Null, !.status = st, !.once = b]
  <2>1. GoTo(r, k, st) = q
    BY <1>3 DEF GoTo
  <2>2. b \in BOOLEAN
    OBVIOUS
  <2> HIDE DEF b
  <2>3. q \in IoRecords /\ q.prog = Null /\ q.user = r.user
    BY <2>2 DEF IoRecords
  <2> HIDE DEF q
  <2> QED BY <1>1, <1>3, <2>1, <2>3 DEF Running
<1> QED BY <1>2, <1>3

LEMMA AfterFailureOK ==
  ASSUME NEW r \in IoRecords, Running(r), r.prog # Null
  PROVE  AfterFailure(r.prog, r.pc) \in Nat \ {0}
<1> DEFINE f == r.prog  pc == r.pc
<1>1. IsFunction(f) /\ pc \in 1 .. Len(f.steps) /\ Len(f.steps) \in Nat /\ DOMAIN f.steps = 1 .. Len(f.steps)
  BY DEF Running, IsFunction
<1>2. Has(f, "queueUnlockPort") => StepAt(f, "queueUnlockPort") \in DOMAIN f.steps
  BY DEF Has, StepAt
<1>3. f.steps[pc] \in {"queueLockPort", "lockPort"} => Has(f, "queueUnlockPort")
  BY <1>1 DEF IsFunction, Has
<1> HIDE DEF f, pc
<1> QED BY <1>1, <1>2, <1>3 DEF AfterFailure, f, pc

LEMMA ContinueOK ==
  ASSUME NEW r \in IoRecords, Running(r), r.prog # Null, NEW st \in Statuses
  PROVE  /\ Continue(r, st) \in IoRecords /\ Running(Continue(r, st))
         /\ Continue(r, st).user = r.user
<1>1. r.pc + 1 \in Nat \ {0}
  BY DEF IoRecords
<1>2. PICK k \in Nat \ {0} : Continue(r, st) = GoTo(r, k, st)
  BY <1>1, AfterFailureOK DEF Continue
<1> QED BY <1>2, GoToOK

\* Only thread t moves, and to a step of its function.
Moves(t) ==
  /\ io' = [io EXCEPT ![t] = io'[t]]
  /\ io'[t] \in IoRecords /\ Running(io'[t])

LEMMA Moved ==
  ASSUME TypeInv, NEW t \in IoThreads, NEW r, io' = [io EXCEPT ![t] = r], r \in IoRecords, Running(r)
  PROVE  Moves(t) /\ io'[t] = r
BY DEF TypeInv, Moves

\* The functions that only go on.
LEMMA LockMoves ==
  ASSUME TypeInv, NEW t \in IoThreads,
         \/ disconnect(t) \/ queueLockPort(t) \/ lockPort(t) \/ queueUnlockPort(t)
         \/ connectDevice(t) \/ disconnectDevice(t)
  PROVE  Moves(t)
<1> DEFINE r == io[t]
<1>0. r \in IoRecords /\ Running(r) /\ r.prog # Null
  BY DEF TypeInv, disconnect, queueLockPort, lockPort, queueUnlockPort, connectDevice,
         disconnectDevice, AtStep
<1>1. r.pc + 1 \in Nat \ {0} /\ r.status \in Statuses
  BY <1>0 DEF IoRecords
<1>2. "success" \in Statuses /\ "error" \in Statuses
  BY DEF Statuses
<1>3. CASE disconnect(t)
  <2> DEFINE q == [r EXCEPT !.user = "none", !.drvUser = FALSE]
  <2>1. q \in IoRecords /\ q.prog = r.prog /\ q.pc = r.pc
    BY <1>0 DEF IoRecords
  <2>2. Running(q) /\ q.prog # Null
    BY <1>0, <2>1 DEF Running
  <2>3. io' = [io EXCEPT ![t] = GoTo(q, r.pc + 1, r.status)]
    BY <1>3 DEF disconnect
  <2> HIDE DEF q
  <2> QED BY <1>1, <2>1, <2>2, <2>3, GoToOK, Moved
<1>4. CASE queueLockPort(t) \/ lockPort(t) \/ connectDevice(t) \/ disconnectDevice(t)
  <2>1. PICK st \in Statuses : io' = [io EXCEPT ![t] = Continue(r, st)]
    BY <1>2, <1>4 DEF queueLockPort, lockPort, connectDevice, disconnectDevice
  <2> QED BY <1>0, <2>1, ContinueOK, Moved
<1>5. CASE queueUnlockPort(t)
  <2>1. io' = [io EXCEPT ![t] = GoTo(r, r.pc + 1, r.status)]
    BY <1>5 DEF queueUnlockPort
  <2>2. GoTo(r, r.pc + 1, r.status) \in IoRecords /\ Running(GoTo(r, r.pc + 1, r.status))
    BY <1>0, <1>1, GoToOK
  <2> QED BY <2>1, <2>2, Moved
<1> QED BY <1>3, <1>4, <1>5

LEMMA FindParamOK ==
  ASSUME NEW L \in Lists, NEW name
  PROVE  PL!findParam(L, name) \in Nat
<1>1. L.vals \in Seq(Resting)
  BY DEF Lists
<1>2. DOMAIN L.vals \subseteq Nat
  BY <1>1
<1> QED BY <1>2 DEF PL!findParam, PL!Index

LEMMA ConnectMoves ==
  ASSUME TypeInv, NEW t \in IoThreads, connect(t)
  PROVE  /\ Moves(t)
         /\ port \in {"defunct", "deleted"} =>
               \E q \in IoRecords : /\ q.prog = io[t].prog /\ q.pc = io[t].pc /\ q.user = "failed"
                                   /\ io'[t] = Continue(q, "error")
<1> DEFINE r == io[t]  rq == r.rq
           created == drvUserCreate(rq, rq.name)
           st == connectStatus(r, created)
           done == st = "success"
           q == Connected(r, created)
<1>0. r \in IoRecords /\ Running(r) /\ r.prog # Null /\ rq \in Users
  BY DEF TypeInv, connect, AtStep, IoRecords
<1>1. created.status \in Statuses /\ (created.status = "success" => created.val \in Nat)
  <2>1. CASE getAddress(rq) \notin Addrs
    BY <2>1 DEF drvUserCreate, Failed, Reply, Statuses
  <2>2. CASE getAddress(rq) \in Addrs
    BY <2>2, FindParamOK DEF TypeInv, drvUserCreate, Failed, Reply, Statuses
  <2> QED BY <2>1, <2>2
<1>2. io' = [io EXCEPT ![t] = Continue(q, st)]
  BY DEF connect
<1> HIDE DEF created
<1>3. /\ st \in Statuses /\ (done /\ HasDrvUser(r) => created.val \in Nat)
      /\ port \in {"defunct", "deleted"} => st = "error"
  BY <1>1 DEF connectStatus, Found, HasDrvUser, Statuses
<1>4. /\ q \in IoRecords /\ q.prog = r.prog /\ q.pc = r.pc
      /\ ~done => q.user = "failed"
  <2>1. r.prog.iface \in STRING
    BY <1>0 DEF Running, IsFunction
  <2>2. rq.reason \in Nat /\ (done /\ HasDrvUser(r)) \in BOOLEAN
    BY <1>0 DEF Users, HasDrvUser
  <2> QED BY <1>0, <1>3, <2>1, <2>2 DEF Connected, IoRecords, Users
<1> HIDE DEF st, q
<1>5. Running(q) /\ q.prog # Null
  BY <1>0, <1>4 DEF Running
<1>6. Moves(t) /\ io'[t] = Continue(q, st)
  BY <1>2, <1>3, <1>4, <1>5, ContinueOK, Moved
<1> QED BY <1>3, <1>4, <1>6

LEMMA StartMoves ==
  ASSUME TypeInv, NEW t \in IoThreads, start(t)
  PROVE  /\ Moves(t)
         /\ io[t].user \in {"none", "failed"} =>
               /\ io'[t].user = io[t].user
               /\ io'[t].prog # Null =>
                     io'[t].pc = 1 /\ io'[t].prog.steps[1] \in {"connect", "disconnect"}
<1> DEFINE r == io[t]
<1>0. r \in IoRecords /\ r.rq \in Users /\ NewUser \in Users
  BY NothingStored DEF TypeInv, IoRecords, NewUser, Users
<1>1. PICK f \in scenario.programs, rq \in Requests :
        /\ CASE f.steps[1] = "connect" -> r.user = "none"
             [] f.steps = <<"disconnect">> -> r.user \in {"failed", f.iface}
             [] OTHER -> r.user = f.iface
        /\ io' = [io EXCEPT ![t].prog = f, ![t].pc = 1,
                  ![t].status = "success", ![t].once = FALSE,
                  ![t].rq = IF f.steps[1] = "connect"
                            THEN [NewUser EXCEPT !.addr = rq.addr, !.name = rq.name,
                                                 !.val = rq.val, !.bits = rq.bits, !.mask = rq.mask]
                            ELSE [@ EXCEPT !.val = rq.val, !.bits = rq.bits, !.mask = rq.mask]]
  BY DEF start
<1> DEFINE a == [NewUser EXCEPT !.addr = rq.addr, !.name = rq.name,
                                !.val = rq.val, !.bits = rq.bits, !.mask = rq.mask]
           b == [r.rq EXCEPT !.val = rq.val, !.bits = rq.bits, !.mask = rq.mask]
           u == IF f.steps[1] = "connect" THEN a ELSE b
           q == [r EXCEPT !.prog = f, !.pc = 1, !.status = "success", !.once = FALSE, !.rq = u]
<1>2. IsFunction(f)
  BY RequestsAssumption DEF TypeInv
<1>3. a \in Users /\ b \in Users
  <2>1. rq \in [addr : Int, name : {Names[n] : n \in DOMAIN Names} \cup {Null},
               val : Values, bits : SUBSET Bits, mask : SUBSET Bits]
    BY RequestsAssumption
  <2> QED BY <1>0, <2>1 DEF Users, Contents
<1> HIDE DEF a, b
<1>4. u \in Users
  BY <1>3
<1>5. io' = [io EXCEPT ![t] = q]
  BY <1>1 DEF TypeInv, a, b
<1> HIDE DEF u
<1>6. q \in IoRecords /\ q.prog = f /\ q.pc = 1 /\ q.user = r.user
  BY <1>0, <1>2, <1>4 DEF IoRecords, IsFunction, Statuses
<1> HIDE DEF q
<1>7. Len(f.steps) \in Nat /\ Len(f.steps) > 0
  BY <1>2 DEF IsFunction
<1>8. Running(q)
  BY <1>2, <1>6, <1>7 DEF Running
<1>9. Moves(t) /\ io'[t] = q
  BY <1>5, <1>6, <1>8, Moved
<1>10. ASSUME r.user \in {"none", "failed"}
       PROVE  f.steps[1] \in {"connect", "disconnect"}
  <2>1. f.iface \notin {"none", "failed"}
    BY <1>2 DEF IsFunction
  <2>2. f.steps = <<"disconnect">> => f.steps[1] = "disconnect"
    OBVIOUS
  <2> QED BY <1>1, <1>10, <2>1, <2>2
<1> QED BY <1>6, <1>9, <1>10

\* What a thread does in a method, and what it calls.
LEMMA InSteps ==
  ASSUME TypeInv, NEW t \in IoThreads, io[t].prog # Null
  PROVE  Current(t) \in Calls \cup Methods \cup {"flushOctet"}
BY DEF TypeInv, Running, IsFunction, Current

WorkAt(a) == [list |-> a, addr |-> a, next |-> 1]

LEMMA WorkStarts ==
  ASSUME NEW a
  PROVE  \/ callParamCallbacks(a, a) = Null
         \/ a \in Addrs /\ callParamCallbacks(a, a) = WorkAt(a)
BY DEF callParamCallbacks, getParamList, WorkAt

LEMMA CallMoves ==
  ASSUME TypeInv, NEW t \in IoThreads, callMethod(t)
  PROVE  /\ Moves(t) /\ AllKeep(params, params')
         /\ \/ work' = Null /\ mutex' = Null
            \/ /\ mutex' = t /\ \E a \in Addrs : work' = WorkAt(a)
               /\ io'[t].prog = io[t].prog /\ io'[t].pc = io[t].pc
<1> DEFINE r == io[t]  u == r.rq  m == Current(t)  R == Method(m, u)
           w == IF R.callbacks THEN callParamCallbacks(getAddress(u), getAddress(u)) ELSE Null
           q == [r EXCEPT !.status = R.status]
<1>0. r \in IoRecords /\ Running(r) /\ r.prog # Null /\ u \in Users
  BY DEF TypeInv, callMethod, InMethod, IoRecords
<1>1. m \in Methods
  BY <1>0, InSteps DEF callMethod, InMethod
<1>2. ReplyOK(R)
  BY <1>0, <1>1, MethodKeeps DEF TypeInv
<1>3. /\ params' = R.params /\ work' = w /\ mutex' = (IF w = Null THEN Null ELSE t)
      /\ io' = [io EXCEPT ![t] = IF w = Null THEN Continue(r, R.status) ELSE q]
  BY DEF callMethod
<1>4. w = Null \/ \E a \in Addrs : w = WorkAt(a)
  BY WorkStarts
<1> HIDE DEF R, w
<1>5. AllKeep(params, params') /\ R.status \in Statuses
  BY <1>2, <1>3 DEF ReplyOK
<1>6. q \in IoRecords /\ q.prog = r.prog /\ q.pc = r.pc
  BY <1>0, <1>5 DEF IoRecords
<1> HIDE DEF q
<1>7. Running(q)
  BY <1>0, <1>6 DEF Running
<1>8. CASE w = Null
  BY <1>0, <1>3, <1>5, <1>8, ContinueOK, Moved
<1>9. CASE w # Null
  BY <1>3, <1>4, <1>5, <1>6, <1>7, <1>9, Moved
<1> QED BY <1>8, <1>9

LEMMA ReturnMoves ==
  ASSUME TypeInv, NEW t \in IoThreads, returnMethod(t)
  PROVE  Moves(t)
<1>1. io[t] \in IoRecords /\ Running(io[t]) /\ io[t].prog # Null
  BY DEF TypeInv, returnMethod, InMethod
<1>2. io[t].status \in Statuses
  BY <1>1 DEF IoRecords
<1>3. io' = [io EXCEPT ![t] = Continue(io[t], io[t].status)]
  BY DEF returnMethod
<1> QED BY <1>1, <1>2, <1>3, ContinueOK, Moved

LEMMA FlushMoves ==
  ASSUME TypeInv, NEW t \in IoThreads, flushOctetRead(t)
  PROVE  /\ Moves(t)
         /\ mutex' # Null => io'[t].prog = io[t].prog /\ io'[t].pc = io[t].pc
<1> DEFINE r == io[t]  q == [r EXCEPT !.rq.reads = 1 - @]
<1>1. r \in IoRecords /\ Running(r) /\ r.prog # Null /\ r.rq \in Users
  BY DEF TypeInv, flushOctetRead, InMethod, IoRecords
<1>2. CASE mutex' = Null /\ io' = [io EXCEPT ![t] = Continue(r, "success")]
  BY <1>1, <1>2, ContinueOK, Moved DEF Statuses
<1>3. CASE io' = [io EXCEPT ![t].rq.reads = 1 - @]
  <2>1. 1 - r.rq.reads \in {0, 1}
    BY <1>1 DEF Users
  <2>2. q \in IoRecords /\ q.prog = r.prog /\ q.pc = r.pc
    BY <1>1, <2>1 DEF IoRecords, Users
  <2>3. io' = [io EXCEPT ![t] = q]
    BY <1>3 DEF TypeInv
  <2> HIDE DEF q
  <2>4. Running(q)
    BY <1>1, <2>2 DEF Running
  <2> QED BY <2>2, <2>3, <2>4, Moved
<1> QED BY <1>2, <1>3 DEF flushOctetRead

(***************************************************************************)
(* The types.                                                              *)
(***************************************************************************)
LEMMA IoMoves ==
  ASSUME TypeInv, NEW t \in IoThreads, start(t) \/ ioStep(t)
  PROVE  Moves(t) \/ io' = io
BY LockMoves, ConnectMoves, StartMoves, CallMoves, ReturnMoves, FlushMoves
   DEF ioStep, flushOctetLock, ioVars

\* A turn of the callbacks touches the callback mask of its parameter only.
LEMMA TurnFacts ==
  ASSUME TypeInv, MutexInv, NEW t \in Threads, callCallbacksTurn(t)
  PROVE  LET l == work.list  k == work.next  i == params[l].flags[k]  p == params[l].vals[i]
         IN  /\ l \in Addrs /\ k \in DOMAIN params[l].flags /\ i \in DOMAIN params[l].vals
             /\ p \in Resting
             /\ params' \in [Addrs -> Lists]
             /\ \A a \in Addrs : /\ params'[a].flags = params[a].flags
                                /\ DOMAIN params'[a].vals = DOMAIN params[a].vals
                                /\ \A j \in DOMAIN params[a].vals :
                                      (a = l /\ j = i) \/ params'[a].vals[j] = params[a].vals[j]
             /\ params'[l].vals[i] = IF p.defined /\ p.type = "UInt32Digital"
                                     THEN [p EXCEPT !.callbackMask = {}] ELSE p
             /\ work' = [work EXCEPT !.next = @ + 1]
<1> DEFINE l == work.list  k == work.next  L == params[l]  i == L.flags[k]  p == L.vals[i]
           q == [p EXCEPT !.callbackMask = {}]
           M == [L EXCEPT !.vals[i] = q]
<1>1. l \in Addrs /\ L \in Lists /\ k \in Nat \ {0} /\ k <= Len(L.flags)
  BY DEF TypeInv, MutexInv, callCallbacksTurn
<1>2. k \in DOMAIN L.flags
  BY <1>1 DEF Lists
<1>3. i \in DOMAIN L.vals /\ p \in Resting
  BY <1>1, <1>2 DEF Lists
<1>4. q \in Resting
  BY <1>3 DEF Resting, ParamType
<1>5. /\ M \in Lists /\ M.flags = L.flags /\ DOMAIN M.vals = DOMAIN L.vals /\ M.vals[i] = q
      /\ \A j \in DOMAIN L.vals \ {i} : M.vals[j] = L.vals[j]
  <2> HIDE DEF L, i, q
  <2> QED BY <1>1, <1>3, <1>4, Stored
<1>6. work' = [work EXCEPT !.next = @ + 1]
  BY DEF callCallbacksTurn
<1>7. params' = IF p.defined /\ p.type = "UInt32Digital" THEN [params EXCEPT ![l] = M] ELSE params
  BY <1>1 DEF callCallbacksTurn, TypeInv, Lists
<1> HIDE DEF l, k, L, i, p, q, M
<1>8. CASE p.defined /\ p.type = "UInt32Digital"
  <2>1. params'[l] = M /\ (\A a \in Addrs \ {l} : params'[a] = params[a]) /\ params' \in [Addrs -> Lists]
    BY <1>1, <1>5, <1>7, <1>8 DEF TypeInv
  <2> QED BY <1>1, <1>2, <1>3, <1>5, <1>6, <1>8, <2>1 DEF l, k, L, i, p, q
<1>9. CASE ~(p.defined /\ p.type = "UInt32Digital")
  <2>1. params' = params
    BY <1>7, <1>9
  <2> QED BY <1>1, <1>2, <1>3, <1>6, <1>9, <2>1 DEF l, k, L, i, p, TypeInv
<1> QED BY <1>8, <1>9

\* The end of the callbacks clears the flags of its list.
LEMMA EndFacts ==
  ASSUME TypeInv, MutexInv, NEW t \in Threads, callCallbacksEnd(t)
  PROVE  LET l == work.list
         IN  /\ l \in Addrs /\ work.next > Len(params[l].flags) /\ work' = Null
             /\ params' \in [Addrs -> Lists]
             /\ \A a \in Addrs : params'[a].vals = params[a].vals
             /\ \A a \in Addrs \ {l} : params'[a] = params[a]
<1> DEFINE l == work.list  L == params[l]  M == [L EXCEPT !.flags = << >>]
<1>1. l \in Addrs /\ L \in Lists
  BY DEF TypeInv, MutexInv, callCallbacksEnd
<1>2. M \in Lists /\ M.vals = L.vals
  <2>1. L \in [names : Seq(STRING), vals : Seq(Resting), flags : Seq(Nat)]
    BY <1>1 DEF Lists
  <2>2. << >> \in Seq(Nat) /\ DOMAIN << >> = {}
    OBVIOUS
  <2> HIDE DEF L
  <2>3. /\ M \in [names : Seq(STRING), vals : Seq(Resting), flags : Seq(Nat)]
        /\ M.vals = L.vals /\ M.flags = << >>
    BY <2>1, <2>2
  <2> QED BY <2>2, <2>3 DEF Lists
<1>3. params' = [params EXCEPT ![l] = M] /\ work' = Null /\ work.next > Len(L.flags)
  BY DEF callCallbacksEnd
<1> HIDE DEF M
<1> QED BY <1>1, <1>2, <1>3 DEF TypeInv

\* A new parameter leaves the others as they are.
LEMMA CreateFacts ==
  ASSUME TypeInv, createParams
  PROVE  /\ params' \in [Addrs -> Lists]
         /\ \A a \in Addrs : /\ params'[a].flags = params[a].flags
                            /\ DOMAIN params[a].vals \subseteq DOMAIN params'[a].vals
                            /\ \A i \in DOMAIN params[a].vals : params'[a].vals[i] = params[a].vals[i]
<1>1. CASE params' = params
  BY <1>1 DEF TypeInv
<1>2. CASE params' # params
  <2> DEFINE n == Len(params[0].names) + 1
  <2>1. n \in DOMAIN Names
    <3>1. 0 \in Addrs
      BY PortDriverAssumption DEF Addrs
    <3>2. Len(params[0].names) \in Nat
      BY <3>1 DEF TypeInv, Lists
    <3> QED BY <1>2, <3>2, ParameterAssumption DEF createParams
  <2>2. PICK mask \in SUBSET Bits : createParam(Names[n], mask)
    BY <1>2 DEF createParams, Garbage
  <2> HIDE DEF n
  <2>3. Names[n] \in STRING /\ scenario.types[Names[n]] \in ParamTypes
    BY <2>1, ParameterAssumption DEF TypeInv
  <2> DEFINE N(a) == PL!createParam(params[a], Names[n], scenario.types[Names[n]], mask).list
  <2>4. ASSUME NEW a \in Addrs
        PROVE  /\ N(a) \in Lists /\ N(a).flags = params[a].flags
               /\ DOMAIN params[a].vals \subseteq DOMAIN N(a).vals
               /\ \A i \in DOMAIN params[a].vals : N(a).vals[i] = params[a].vals[i]
    BY <2>3, CreateExtends DEF TypeInv
  <2>5. /\ params' = [a \in Addrs |-> params'[a]]
        /\ \A a \in Addrs : params'[a] = N(a) \/ params'[a] = params[a]
    BY <2>2 DEF createParam
  <2> HIDE DEF N
  <2> QED BY <2>4, <2>5 DEF TypeInv
<1> QED BY <1>1, <1>2

\* Clients register without a value, and cancel.
LEMMA RegisterFacts ==
  ASSUME NEW c \in Clients, registerInterruptUser(c) \/ cancelInterruptUser(c)
  PROVE  /\ \/ registered' = registered \cup {c} /\ got' = [got EXCEPT ![c] = Null]
            \/ registered' = registered \ {c} /\ got' = got
         /\ registered' \subseteq registered \/ ClientOf[c].type \in CanInterrupt
         /\ UNCHANGED <<scenario, params, mutex, work, port, shutdownNeeded, cb, cbDone, deletes,
                        shutter, io>>
<1>1. ASSUME NEW type, Register(c, type) \/ Cancel(c, type)
      PROVE  /\ \/ registered' = registered \cup {c} /\ got' = [got EXCEPT ![c] = Null]
                \/ registered' = registered \ {c} /\ got' = got
             /\ registered' \subseteq registered \/ ClientOf[c].type \in CanInterrupt
             /\ UNCHANGED <<scenario, params, mutex, work, port, shutdownNeeded, cb, cbDone, deletes,
                            shutter, io>>
  BY <1>1 DEF Register, Cancel, ioVars
<1>2. \E type : Register(c, type) \/ Cancel(c, type)
  BY DEF registerInterruptUser, cancelInterruptUser,
     Int32Base_registerInterruptUser, Int64Base_registerInterruptUser,
     UInt32DigitalBase_registerInterruptUser, Float64Base_registerInterruptUser,
     OctetBase_registerInterruptUser, GenericPointerBase_registerInterruptUser,
     EnumBase_registerInterruptUser, ArrayBase_registerInterruptUser,
     Int32Base_cancelInterruptUser, Int64Base_cancelInterruptUser,
     UInt32DigitalBase_cancelInterruptUser, Float64Base_cancelInterruptUser,
     OctetBase_cancelInterruptUser, GenericPointerBase_cancelInterruptUser,
     EnumBase_cancelInterruptUser, ArrayBase_cancelInterruptUser
<1> QED BY <1>1, <1>2

\* What the driver's assignments do.
LEMMA DriverAssigns ==
  ASSUME TypeInv, driverAssign
  PROVE  AllKeep(params, params')
BY AssignKeeps DEF TypeInv, driverAssign

LEMMA TypeStep == TypeInv /\ MutexInv /\ [IoNext]_vars => TypeInv'
<1> SUFFICES ASSUME TypeInv, MutexInv, [IoNext]_vars PROVE TypeInv'
  OBVIOUS
<1>1. ASSUME NEW t \in IoThreads, start(t) \/ ioStep(t)
      PROVE  TypeInv'
  <2>1. io' \in [IoThreads -> IoRecords] /\ \A s \in IoThreads : Running(io'[s])
    <3>1. CASE io' = io
      BY <3>1 DEF TypeInv
    <3>2. CASE Moves(t)
      <4>1. \A s \in IoThreads \ {t} : io'[s] = io[s]
        BY <3>2 DEF Moves, TypeInv
      <4> QED BY <3>2, <4>1 DEF TypeInv, Moves
    <3> QED BY <1>1, <3>1, <3>2, IoMoves
  <2>2. scenario' = scenario /\ got' = got
    BY <1>1 DEF start, ioStep, pdVars, connect, disconnect, queueLockPort, lockPort, queueUnlockPort,
                connectDevice, disconnectDevice, callMethod, returnMethod, flushOctetLock, flushOctetRead
  <2>3. params' = params \/ AllKeep(params, params')
    BY <1>1, CallMoves DEF start, ioStep, pdVars, connect, disconnect, queueLockPort, lockPort,
       queueUnlockPort, connectDevice, disconnectDevice, returnMethod, flushOctetLock, flushOctetRead
  <2>4. got' = [c \in Clients |-> got'[c]]
    BY <2>2 DEF TypeInv
  <2>5. params' \in [Addrs -> Lists]
    BY <2>3 DEF TypeInv, AllKeep
  <2> QED BY <2>1, <2>2, <2>4, <2>5 DEF TypeInv
<1>2. ASSUME NEW t \in Threads, callbackStep(t)
      PROVE  TypeInv'
  <2>1. params' \in [Addrs -> Lists]
    BY <1>2, TurnFacts, EndFacts DEF callbackStep
  <2>2. got' = [c \in Clients |-> got'[c]]
    BY <1>2 DEF callbackStep, callCallbacksTurn, callCallbacksEnd, TypedCallback, int32Callback,
       int64Callback, float64Callback, octetCallback, uint32Callback, ScalarCallback, Deliver, TypeInv
  <2>3. scenario' = scenario /\ io' = io
    BY <1>2 DEF callbackStep, callCallbacksTurn, callCallbacksEnd, ioVars
  <2> QED BY <2>1, <2>2, <2>3 DEF TypeInv
<1>3. ASSUME NEW c \in Clients, registerInterruptUser(c) \/ cancelInterruptUser(c)
      PROVE  TypeInv'
  <2>1. got' = [x \in Clients |-> got'[x]] /\ UNCHANGED <<scenario, params, io>>
    BY <1>3, RegisterFacts DEF TypeInv
  <2> QED BY <2>1 DEF TypeInv
<1>4. CASE driverStep
  <2>1. params' \in [Addrs -> Lists]
    <3>1. CASE createParams
      BY <3>1, CreateFacts
    <3>2. CASE driverAssign
      BY <3>2, DriverAssigns DEF AllKeep
    <3>3. CASE driverLock \/ driverUnlock \/ driverCallbacks \/ driverArray
      BY <3>3 DEF driverLock, driverUnlock, driverCallbacks, driverArray, TypeInv
    <3> QED BY <1>4, <3>1, <3>2, <3>3 DEF driverStep
  <2>2. got' = [c \in Clients |-> got'[c]]
    BY <1>4 DEF driverStep, createParams, driverLock, driverUnlock, driverAssign, driverCallbacks, driverArray,
       doCallbacksInt8Array, doCallbacksInt16Array, doCallbacksInt32Array, doCallbacksInt64Array,
       doCallbacksFloat32Array, doCallbacksFloat64Array, doCallbacksGenericPointer, doCallbacksEnum,
       doCallbacksArray, Deliver, TypeInv
  <2>3. scenario' = scenario /\ io' = io
    BY <1>4 DEF driverStep, createParams, driverLock, driverUnlock, driverAssign, driverCallbacks,
                driverArray, ioVars
  <2> QED BY <2>1, <2>2, <2>3 DEF TypeInv
<1>5. CASE cbStep \/ (iocInit /\ UNCHANGED ioVars)
  <2>1. UNCHANGED <<scenario, params, got, io>>
    BY <1>5 DEF cbStep, iocInit, cbWake, cbLock, cbCallbacks, cbEnd, ioVars
  <2> QED BY <2>1 DEF TypeInv
<1>6. ASSUME NEW s \in Shutters, shutStep(s)
      PROVE  TypeInv'
  <2>1. UNCHANGED <<scenario, params, got, io>>
    BY <1>6 DEF shutStep, shutdownPort, deleteDirect, shutdownPortNested, exceptionHandler, destructor,
                freeDriver, ioVars
  <2> QED BY <2>1 DEF TypeInv
<1>7. CASE UNCHANGED vars
  BY <1>7 DEF vars, pdVars, ioVars, TypeInv
<1> QED BY <1>1, <1>2, <1>3, <1>4, <1>5, <1>6, <1>7 DEF IoNext

LEMMA MutexStep == TypeInv /\ MutexInv /\ [IoNext]_vars => MutexInv'
<1> SUFFICES ASSUME TypeInv, MutexInv, [IoNext]_vars PROVE MutexInv'
  OBVIOUS
<1> USE ThreadFacts DEF Threads
<1> DEFINE W(w) == w # Null => /\ w \in [list : Addrs, addr : Addrs, next : Nat \ {0}]
                               /\ w.addr = w.list
\* A thread in a method with the mutex stays there.
<1>0. ASSUME io' = io, mutex' = mutex, work' = Null \/ work # Null, W(work')
      PROVE  MutexInv'
  <2>1. \A t : (InMethod(t)' <=> InMethod(t)) /\ Current(t)' = Current(t)
    BY <1>0 DEF InMethod, Current
  <2> QED BY <1>0, <2>1 DEF MutexInv
<1>1. ASSUME io' = io, mutex' \notin IoThreads, mutex' \in Threads \cup {Null},
             work' # Null => mutex' # Null, W(work')
      PROVE  MutexInv'
  BY <1>1 DEF MutexInv
<1>2. ASSUME NEW t \in IoThreads, start(t) \/ ioStep(t)
      PROVE  MutexInv'
  <2>1. CASE \/ start(t) \/ connect(t) \/ disconnect(t) \/ queueLockPort(t) \/ lockPort(t)
             \/ queueUnlockPort(t) \/ connectDevice(t) \/ disconnectDevice(t)
    <3>1. mutex' = mutex /\ work' = work
      BY <2>1 DEF start, connect, disconnect, queueLockPort, lockPort, queueUnlockPort, connectDevice,
                  disconnectDevice, pdVars
    <3>2. ~InMethod(t)
      BY <2>1 DEF start, connect, disconnect, queueLockPort, lockPort, queueUnlockPort, connectDevice,
                  disconnectDevice, AtStep, InMethod, Current, Calls
    <3>3. \A s \in IoThreads \ {t} : io'[s] = io[s]
      BY <2>1, LockMoves, ConnectMoves, StartMoves DEF Moves, TypeInv
    <3>4. \A s \in IoThreads \ {t} : (InMethod(s)' <=> InMethod(s)) /\ Current(s)' = Current(s)
      BY <3>3 DEF InMethod, Current
    <3> QED BY <3>1, <3>2, <3>4 DEF MutexInv
  <2>2. CASE callMethod(t)
    <3>1. CASE work' = Null /\ mutex' = Null
      BY <3>1 DEF MutexInv
    <3>2. CASE ~(work' = Null /\ mutex' = Null)
      <4>1. /\ mutex' = t /\ io'[t].prog = io[t].prog /\ io'[t].pc = io[t].pc
            /\ \E a \in Addrs : work' = WorkAt(a)
        BY <2>2, <3>2, CallMoves
      <4>2. InMethod(t)' /\ Current(t)' # "flushOctet"
        BY <2>2, <4>1 DEF callMethod, InMethod, Current
      <4> QED BY <4>1, <4>2 DEF MutexInv, WorkAt
    <3> QED BY <3>1, <3>2
  <2>3. CASE returnMethod(t)
    <3>1. mutex' = Null /\ work' = Null
      BY <2>3 DEF returnMethod
    <3> QED BY <3>1 DEF MutexInv
  <2>4. CASE flushOctetLock(t)
    <3>1. mutex' = t /\ work' = Null /\ io' = io /\ InMethod(t)
      BY <2>4 DEF flushOctetLock, lock, ioVars
    <3>2. InMethod(t)'
      BY <3>1 DEF InMethod, Current
    <3> QED BY <3>1, <3>2 DEF MutexInv
  <2>5. CASE flushOctetRead(t)
    <3>1. work' = Null
      BY <2>5 DEF flushOctetRead, MutexInv
    <3>2. mutex' = Null \/ (mutex' = t /\ InMethod(t)')
      <4>1. mutex' = Null \/ (mutex' = t /\ InMethod(t))
        BY <2>5 DEF flushOctetRead
      <4>2. mutex' # Null => io'[t].prog = io[t].prog /\ io'[t].pc = io[t].pc
        BY <2>5, FlushMoves
      <4>3. ASSUME mutex' # Null
            PROVE  InMethod(t)'
        <5>1. InMethod(t) /\ io'[t].prog = io[t].prog /\ Current(t)' = Current(t)
          BY <4>1, <4>2, <4>3 DEF Current
        <5> QED BY <5>1 DEF InMethod
      <4> QED BY <4>1, <4>3
    <3> QED BY <3>1, <3>2 DEF MutexInv
  <2> QED BY <1>2, <2>1, <2>2, <2>3, <2>4, <2>5 DEF ioStep
<1>3. ASSUME NEW t \in Threads, callbackStep(t)
      PROVE  MutexInv'
  <2>1. io' = io /\ mutex' = mutex /\ work # Null
    BY <1>3 DEF callbackStep, callCallbacksTurn, callCallbacksEnd, ioVars
  <2>2. W(work')
    <3>1. work \in [list : Addrs, addr : Addrs, next : Nat \ {0}] /\ work.addr = work.list
      BY <2>1 DEF MutexInv
    <3>2. work' = Null \/ work' = [work EXCEPT !.next = @ + 1]
      BY <1>3 DEF callbackStep, callCallbacksTurn, callCallbacksEnd
    <3> QED BY <3>1, <3>2
  <2> QED BY <1>0, <2>1, <2>2
<1>4. ASSUME NEW c \in Clients, registerInterruptUser(c) \/ cancelInterruptUser(c)
      PROVE  MutexInv'
  <2>1. UNCHANGED <<io, mutex, work>>
    BY <1>4, RegisterFacts
  <2> QED BY <1>0, <2>1 DEF MutexInv
<1>5. CASE driverStep
  <2>1. CASE createParams \/ driverAssign \/ driverArray
    <3>1. UNCHANGED <<io, mutex, work>>
      BY <1>5, <2>1 DEF driverStep, createParams, driverAssign, driverArray, ioVars
    <3> QED BY <1>0, <3>1 DEF MutexInv
  <2>2. CASE driverLock \/ driverUnlock
    <3>1. io' = io /\ mutex' \in {Driver, Null} /\ work' = Null
      BY <1>5, <2>2 DEF driverStep, driverLock, driverUnlock, lock, ioVars, MutexInv
    <3> QED BY <1>1, <3>1
  <2>3. CASE driverCallbacks
    <3>1. io' = io /\ mutex' = Driver /\ W(work')
      BY <1>5, <2>3, WorkStarts DEF driverStep, driverCallbacks, ioVars, WorkAt
    <3> QED BY <1>1, <3>1
  <2> QED BY <1>5, <2>1, <2>2, <2>3 DEF driverStep
<1>6. CASE cbStep
  <2>1. CASE cbWake
    <3>1. UNCHANGED <<io, mutex, work>>
      BY <1>6, <2>1 DEF cbStep, cbWake, ioVars
    <3> QED BY <1>0, <3>1 DEF MutexInv
  <2>2. CASE cbLock \/ cbEnd
    <3>1. io' = io /\ mutex' \in {CbThread, Null} /\ work' = Null
      BY <1>6, <2>2 DEF cbStep, cbLock, cbEnd, lock, ioVars, MutexInv
    <3> QED BY <1>1, <3>1
  <2>3. CASE cbCallbacks
    <3>1. io' = io /\ mutex' = CbThread /\ W(work')
      BY <1>6, <2>3, WorkStarts DEF cbStep, cbCallbacks, ioVars, WorkAt
    <3> QED BY <1>1, <3>1
  <2> QED BY <1>6, <2>1, <2>2, <2>3 DEF cbStep
<1>7. CASE \/ iocInit /\ UNCHANGED ioVars
           \/ \E s \in Shutters : shutStep(s)
           \/ UNCHANGED vars
  <2>1. UNCHANGED <<io, mutex, work>>
    BY <1>7 DEF iocInit, shutStep, shutdownPort, deleteDirect, shutdownPortNested, exceptionHandler, destructor,
                freeDriver, ioVars, vars, pdVars
  <2> QED BY <1>0, <2>1 DEF MutexInv
<1> QED BY <1>2, <1>3, <1>4, <1>5, <1>6, <1>7 DEF IoNext

(***************************************************************************)
(* What the clients hold.                                                  *)
(***************************************************************************)
\* An operation that collects the changed bits keeps a client informed.
LEMMA InformedKept ==
  ASSUME NEW p \in Resting, NEW q \in Resting, Updates(p, q), NEW g, NEW type, NEW mask,
         Informed(g, type, mask, p)
  PROVE  /\ Informed(g, type, mask, q)
         /\ Same(p, q) /\ Agrees(g, type, mask, p) => Agrees(g, type, mask, q)
<1>1. q.type = type /\ q.defined
  BY DEF Updates, Informed
<1>2. ASSUME type = "UInt32Digital"
      PROVE  /\ mask \cap PVal!SymDiff(g.val, q.val) \subseteq q.callbackMask
             /\ g.alarm # AlarmOf(q) => q.callbackMask = Bits
  <2>1. /\ p.callbackMask \subseteq q.callbackMask
        /\ PVal!SymDiff(p.val, q.val) \subseteq q.callbackMask
        /\ AlarmOf(q) # AlarmOf(p) => q.callbackMask = Bits
        /\ mask \cap PVal!SymDiff(g.val, p.val) \subseteq p.callbackMask
        /\ g.alarm # AlarmOf(p) => p.callbackMask = Bits
    BY <1>2 DEF Updates, Informed
  <2>2. q.callbackMask \subseteq Bits
    BY DEF Resting, ParamType
  <2>3. PVal!SymDiff(g.val, q.val) \subseteq PVal!SymDiff(g.val, p.val) \cup PVal!SymDiff(p.val, q.val)
    BY DEF PVal!SymDiff
  <2>4. mask \cap PVal!SymDiff(g.val, q.val) \subseteq q.callbackMask
    BY <2>1, <2>3
  <2>5. g.alarm # AlarmOf(q) => q.callbackMask = Bits
    BY <2>1, <2>2
  <2> QED BY <2>4, <2>5
<1>3. Informed(g, type, mask, q)
  BY <1>1, <1>2 DEF Informed
<1>4. Same(p, q) /\ Agrees(g, type, mask, p) => Agrees(g, type, mask, q)
  BY DEF Same, Agrees
<1> QED BY <1>3, <1>4

\* A digital client none of whose bits is in the callback mask is up to date.
LEMMA NotConcerned ==
  ASSUME NEW g, NEW mask, NEW p \in Resting, Informed(g, "UInt32Digital", mask, p),
         mask \cap p.callbackMask = {}
  PROVE  Agrees(g, "UInt32Digital", mask, p)
<1>1. /\ mask \cap Bits # {} /\ g.val \subseteq mask
      /\ mask \cap PVal!SymDiff(g.val, p.val) = {}
      /\ g.alarm # AlarmOf(p) => p.callbackMask = Bits
  BY DEF Informed
<1>2. g.alarm = AlarmOf(p)
  BY <1>1
<1>3. g.val = p.val \cap mask
  BY <1>1 DEF PVal!SymDiff
<1> QED BY <1>2, <1>3 DEF Agrees

\* Clients that are not called.
LEMMA NotCalled ==
  ASSUME TypeInv, ClientInv, got' = got, scenario' = scenario, registered' \subseteq registered,
         params' \in [Addrs -> Lists],
         \A a \in Addrs : \A i \in DOMAIN params[a].vals :
           /\ i \in DOMAIN params'[a].vals
           /\ Updates(params[a].vals[i], params'[a].vals[i])
           /\ \/ Pending(a, i)'
              \/ /\ ~Pending(a, i)
                 /\ ~params[a].vals[i].defined \/ Same(params[a].vals[i], params'[a].vals[i])
  PROVE  ClientInv'
<1>0. \A c \in registered' : c \in Clients /\ (ClientOf[c].type)' \in CanInterrupt
  BY DEF ClientInv, ClientOf
<1> SUFFICES ASSUME NEW c \in registered', got'[c] # Null, (ClientOf[c].type)' \notin PVal!ArrayTypes
             PROVE  LET a == ClientAddr(c)  i == ClientOf[c].reason  p == params[a].vals[i]
                    IN  (/\ a \in Addrs /\ i \in DOMAIN params[a].vals
                         /\ Informed(got[c], ClientOf[c].type, ClientOf[c].mask, p)
                         /\ Pending(a, i) \/ Agrees(got[c], ClientOf[c].type, ClientOf[c].mask, p))'
  BY <1>0 DEF ClientInv
<1> DEFINE a == ClientAddr(c)  i == ClientOf[c].reason
           p == params[a].vals[i]  q == params'[a].vals[i]
<1>1. ClientOf' = ClientOf /\ a' = a /\ i' = i
  BY DEF ClientOf, ClientAddr
<1>2. /\ a \in Addrs /\ i \in DOMAIN params[a].vals
      /\ Informed(got[c], ClientOf[c].type, ClientOf[c].mask, p)
      /\ Pending(a, i) \/ Agrees(got[c], ClientOf[c].type, ClientOf[c].mask, p)
  BY <1>1 DEF ClientInv
<1>3. p \in Resting /\ q \in Resting /\ i \in DOMAIN params'[a].vals /\ Updates(p, q)
  BY <1>2 DEF TypeInv, Lists
<1>4. p.defined
  BY <1>2 DEF Informed
<1>5. /\ Informed(got[c], ClientOf[c].type, ClientOf[c].mask, q)
      /\ Same(p, q) /\ Agrees(got[c], ClientOf[c].type, ClientOf[c].mask, p)
            => Agrees(got[c], ClientOf[c].type, ClientOf[c].mask, q)
  BY <1>2, <1>3, InformedKept
<1>6. Pending(a, i)' \/ Agrees(got[c], ClientOf[c].type, ClientOf[c].mask, q)
  BY <1>1, <1>2, <1>4, <1>5
<1> QED BY <1>1, <1>2, <1>3, <1>5, <1>6
\* Nobody is called, and no flag changes.
LEMMA NothingFlagged ==
  ASSUME TypeInv, ClientInv, got' = got, scenario' = scenario, registered' \subseteq registered,
         work' = work, params' \in [Addrs -> Lists],
         \A a \in Addrs : /\ params'[a].flags = params[a].flags
                         /\ DOMAIN params[a].vals \subseteq DOMAIN params'[a].vals
                         /\ \A i \in DOMAIN params[a].vals : params'[a].vals[i] = params[a].vals[i]
  PROVE  ClientInv'
<1>1. ASSUME NEW a \in Addrs, NEW i \in DOMAIN params[a].vals
      PROVE  /\ i \in DOMAIN params'[a].vals
             /\ Updates(params[a].vals[i], params'[a].vals[i])
             /\ Pending(a, i)' <=> Pending(a, i)
             /\ Same(params[a].vals[i], params'[a].vals[i])
  BY UpdatesReflexive DEF Pending
<1> QED BY <1>1, NotCalled

\* Nobody is called, and no callbacks are being made.
LEMMA NoneUnderWay ==
  ASSUME TypeInv, ClientInv, got' = got, scenario' = scenario, registered' = registered,
         work = Null, work' = Null \/ \E a \in Addrs : work' = WorkAt(a),
         AllKeep(params, params')
  PROVE  ClientInv'
<1>1. ASSUME NEW a \in Addrs, NEW i \in DOMAIN params[a].vals
      PROVE  /\ i \in DOMAIN params'[a].vals
             /\ Updates(params[a].vals[i], params'[a].vals[i])
             /\ \/ Pending(a, i)'
                \/ /\ ~Pending(a, i)
                   /\ ~params[a].vals[i].defined \/ Same(params[a].vals[i], params'[a].vals[i])
  <2>1. Keeps(params[a], params'[a]) /\ params'[a] \in Lists
    BY DEF AllKeep
  <2>2. Pending(a, i) => Flagged(params[a], i)
    BY DEF Pending, Flagged
  <2>3. ASSUME Flagged(params'[a], i)
        PROVE  Pending(a, i)'
    <3>1. PICK k \in DOMAIN params'[a].flags : params'[a].flags[k] = i
      BY <2>3 DEF Flagged
    <3>2. k >= 1
      <4>1. params'[a].flags \in Seq(Nat)
        BY <2>1 DEF Lists
      <4> QED BY <4>1
    <3>3. work' # Null => work'.next = 1
      BY DEF WorkAt
    <3> QED BY <3>1, <3>2, <3>3 DEF Pending
  <2> QED BY <2>1, <2>2, <2>3 DEF Keeps
<1>2. params' \in [Addrs -> Lists] /\ registered' \subseteq registered
  BY DEF AllKeep
<1> QED BY <1>1, <1>2, NotCalled

\* The client the callbacks have come to agrees with the parameter, called or
\* not: a digital one that is not called is not concerned.
LEMMA Told ==
  ASSUME NEW p \in Resting, NEW q, q = [p EXCEPT !.callbackMask = {}] \/ q = p, NEW g, NEW type, NEW mask,
         p.defined, p.type = type,
         type = "UInt32Digital" => mask \cap Bits # {},
         Agrees(g, type, mask, p)
  PROVE  Informed(g, type, mask, q) /\ Agrees(g, type, mask, q)
<1>1. /\ q.val = p.val /\ q.type = p.type /\ q.defined = p.defined /\ AlarmOf(q) = AlarmOf(p)
  BY DEF Resting, ParamType, AlarmOf
<1>2. Agrees(g, type, mask, q)
  BY <1>1 DEF Agrees
<1>3. type = "UInt32Digital" => g.val = p.val \cap mask /\ g.alarm = AlarmOf(p)
  BY DEF Agrees
<1>4. type = "UInt32Digital" => mask \cap PVal!SymDiff(g.val, q.val) = {}
  BY <1>1, <1>3 DEF PVal!SymDiff
<1> QED BY <1>1, <1>2, <1>3, <1>4 DEF Informed

\* What a callback gives to a client.
Gives(type, mask, L, i) ==
  [val |-> IF type = "UInt32Digital" THEN mask \cap L.vals[i].val ELSE L.vals[i].val,
   alarm |-> PL!Alarm(L, i)]

LEMMA CallbackGives ==
  ASSUME TypeInv, NEW L, NEW i, NEW addr, NEW c \in Clients,
         L.vals[i].type \in PVal!ScalarTypes \cup PVal!ArrayTypes \cup {"UInt32Digital"}
  PROVE  LET type == L.vals[i].type  mask == ClientOf[c].mask
         IN  IF /\ c \in Called(type, i, addr) /\ type \notin PVal!ArrayTypes
                /\ type = "UInt32Digital" => mask \cap L.vals[i].callbackMask # {}
             THEN TypedCallback(L, i, addr)[c] = Gives(type, mask, L, i)
             ELSE TypedCallback(L, i, addr)[c] = got[c]
<1> DEFINE type == L.vals[i].type
<1>1. CASE type \in PVal!ScalarTypes
  <2>1. TypedCallback(L, i, addr) = Deliver(Called(type, i, addr), L.vals[i].val, PL!Alarm(L, i))
    BY <1>1 DEF TypedCallback, int32Callback, int64Callback, float64Callback, octetCallback,
                ScalarCallback, PVal!ScalarTypes
  <2>2. type # "UInt32Digital" /\ type \notin PVal!ArrayTypes
    BY <1>1 DEF PVal!ScalarTypes, PVal!ArrayTypes
  <2> QED BY <2>1, <2>2 DEF Deliver, Gives
<1>2. CASE type = "UInt32Digital"
  <2>1. TypedCallback(L, i, addr) = uint32Callback(L, i, addr)
    BY <1>2 DEF TypedCallback
  <2>2. type \notin PVal!ArrayTypes
    BY <1>2 DEF PVal!ArrayTypes
  <2> QED BY <1>2, <2>1, <2>2 DEF uint32Callback, Gives
<1>3. CASE type \in PVal!ArrayTypes
  BY <1>3 DEF TypedCallback, PVal!ArrayTypes
<1> QED BY <1>1, <1>2, <1>3

\* One turn of the callbacks.
LEMMA TurnTells ==
  ASSUME TypeInv, MutexInv, ClientInv, NEW t \in Threads, callCallbacksTurn(t)
  PROVE  ClientInv'
<1> DEFINE l == work.list  k == work.next  L == params[l]  i == L.flags[k]  p == L.vals[i]
<1>1. /\ l \in Addrs /\ k \in DOMAIN L.flags /\ i \in DOMAIN L.vals /\ p \in Resting
      /\ \A a \in Addrs : /\ params'[a].flags = params[a].flags
                         /\ DOMAIN params'[a].vals = DOMAIN params[a].vals
                         /\ \A j \in DOMAIN params[a].vals :
                               (a = l /\ j = i) \/ params'[a].vals[j] = params[a].vals[j]
      /\ params'[l].vals[i] = IF p.defined /\ p.type = "UInt32Digital"
                              THEN [p EXCEPT !.callbackMask = {}] ELSE p
  BY TurnFacts
<1>2. /\ work # Null /\ work.addr = l /\ k \in Nat
      /\ work'.list = l /\ work'.next = k + 1
  <2>1. work # Null /\ work' = [work EXCEPT !.next = @ + 1] /\ mutex = t
    BY DEF callCallbacksTurn
  <2>2. work \in [list : Addrs, addr : Addrs, next : Nat \ {0}] /\ work.addr = work.list
    BY <2>1 DEF MutexInv
  <2> QED BY <2>1, <2>2
<1>3. /\ got' = IF p.defined THEN TypedCallback(L, i, l) ELSE got
      /\ registered' = registered /\ scenario' = scenario
  BY <1>2 DEF callCallbacksTurn
<1> HIDE DEF l, k, L, i, p
<1> SUFFICES ASSUME NEW c \in registered, got'[c] # Null, ClientOf[c].type \notin PVal!ArrayTypes
             PROVE  LET a == ClientAddr(c)  j == ClientOf[c].reason  g == got'[c]
                        type == ClientOf[c].type  mask == ClientOf[c].mask
                    IN  /\ a \in Addrs /\ j \in DOMAIN params'[a].vals
                        /\ Informed(g, type, mask, params'[a].vals[j])
                        /\ Pending(a, j)' \/ Agrees(g, type, mask, params'[a].vals[j])
  BY <1>3 DEF ClientInv, ClientOf, ClientAddr
<1> DEFINE a == ClientAddr(c)  j == ClientOf[c].reason
           type == ClientOf[c].type  mask == ClientOf[c].mask
           q == params'[l].vals[i]
           called == /\ p.defined /\ c \in Called(p.type, i, l)
                     /\ p.type = "UInt32Digital" => mask \cap p.callbackMask # {}
<1>4. c \in Clients /\ type \in CanInterrupt
  BY DEF ClientInv
<1>5. p.type \in PVal!ScalarTypes \cup PVal!ArrayTypes \cup {"UInt32Digital"}
      /\ p.callbackMask \subseteq Bits
  BY <1>1 DEF Resting, ParamType, ParamTypes
<1>6. c \in Called(p.type, i, l) <=> type = p.type /\ i = j /\ a = l
  BY <1>4 DEF Called
<1>7. q = [p EXCEPT !.callbackMask = {}] \/ q = p
  BY <1>1
<1>8. CASE called
  <2>1. type = p.type /\ i = j /\ a = l
    BY <1>6, <1>8
  <2>2. got'[c] = Gives(type, mask, L, i)
    BY <1>3, <1>4, <1>5, <1>8, <2>1, CallbackGives DEF p
  <2>3. Agrees(got'[c], type, mask, p)
    BY <2>2 DEF Gives, Agrees, PL!Alarm, AlarmOf, p
  <2>4. type = "UInt32Digital" => mask \cap Bits # {}
    BY <1>5, <1>8, <2>1
  <2>5. Informed(got'[c], type, mask, q) /\ Agrees(got'[c], type, mask, q)
    BY <1>1, <1>7, <1>8, <2>1, <2>3, <2>4, Told
  <2> QED BY <1>1, <2>1, <2>5 DEF L
<1>9. CASE ~called
  <2>1. got'[c] = got[c]
    <3>1. CASE p.defined
      <4>1. ~(/\ c \in Called(p.type, i, l) /\ p.type \notin PVal!ArrayTypes
              /\ p.type = "UInt32Digital" => mask \cap p.callbackMask # {})
        BY <1>9, <3>1
      <4> QED BY <1>3, <1>4, <1>5, <3>1, <4>1, CallbackGives DEF p
    <3>2. CASE ~p.defined
      BY <1>3, <3>2
    <3> QED BY <3>1, <3>2
  <2>2. /\ a \in Addrs /\ j \in DOMAIN params[a].vals
        /\ Informed(got[c], type, mask, params[a].vals[j])
        /\ Pending(a, j) \/ Agrees(got[c], type, mask, params[a].vals[j])
    BY <2>1 DEF ClientInv
  <2>3. CASE a = l /\ j = i
    <3>1. params[a].vals[j] = p
      BY <2>3 DEF p, L
    <3>2. p.defined /\ p.type = type
      BY <2>2, <3>1 DEF Informed
    <3>3. type = "UInt32Digital" /\ mask \cap p.callbackMask = {} /\ mask \cap Bits # {}
      BY <1>6, <1>9, <2>2, <2>3, <3>1, <3>2 DEF Informed
    <3>4. Agrees(got[c], type, mask, p)
      BY <1>1, <2>2, <3>1, <3>3, NotConcerned
    <3>5. Informed(got[c], type, mask, q) /\ Agrees(got[c], type, mask, q)
      BY <1>1, <1>7, <3>2, <3>3, <3>4, Told
    <3> QED BY <1>1, <2>1, <2>2, <2>3, <3>5
  <2>4. CASE ~(a = l /\ j = i)
    <3>1. params'[a].vals[j] = params[a].vals[j] /\ params'[a].flags = params[a].flags
          /\ j \in DOMAIN params'[a].vals
      BY <1>1, <2>2, <2>4
    <3>0. a' = a /\ j' = j
      BY <1>3 DEF ClientAddr, ClientOf
    <3>2. ASSUME Pending(a, j)
          PROVE  Pending(a, j)'
      <4>1. PICK n \in DOMAIN params[a].flags :
              params[a].flags[n] = j /\ (work # Null /\ work.list = a => n >= work.next)
        BY <3>2 DEF Pending
      <4>2. CASE a = l
        <5>1. n \in Nat
          BY <2>2 DEF TypeInv, Lists
        <5>2. n >= k /\ n # k
          BY <1>2, <2>4, <4>1, <4>2 DEF l, k, i, L
        <5>3. n >= k + 1
          BY <1>2, <5>1, <5>2
        <5> QED BY <1>2, <3>0, <3>1, <4>1, <4>2, <5>3 DEF Pending
      <4>3. CASE a # l
        BY <1>2, <3>0, <3>1, <4>1, <4>3 DEF Pending
      <4> QED BY <4>2, <4>3
    <3> QED BY <2>1, <2>2, <3>1, <3>2
  <2> QED BY <2>3, <2>4
<1> QED BY <1>8, <1>9
\* The end of the callbacks: nothing of the list is pending any more.
LEMMA EndTells ==
  ASSUME TypeInv, MutexInv, ClientInv, NEW t \in Threads, callCallbacksEnd(t)
  PROVE  ClientInv'
<1> DEFINE l == work.list
<1>1. /\ l \in Addrs /\ work.next > Len(params[l].flags) /\ work' = Null
      /\ params' \in [Addrs -> Lists]
      /\ \A a \in Addrs : params'[a].vals = params[a].vals
      /\ \A a \in Addrs \ {l} : params'[a] = params[a]
  BY EndFacts
<1>2. work # Null /\ got' = got /\ scenario' = scenario /\ registered' = registered
  BY DEF callCallbacksEnd
<1>3. ASSUME NEW a \in Addrs, NEW i \in DOMAIN params[a].vals
      PROVE  Pending(a, i)' \/ ~Pending(a, i)
  <2>1. CASE a = l
    <3>1. params[a].flags \in Seq(Nat) /\ work.next \in Nat
      BY <1>2 DEF TypeInv, MutexInv, Lists
    <3>2. \A k \in DOMAIN params[a].flags : ~(k >= work.next)
      BY <1>1, <2>1, <3>1
    <3> QED BY <1>2, <2>1, <3>2 DEF Pending
  <2>2. CASE a # l
    BY <1>1, <2>2 DEF Pending
  <2> QED BY <2>1, <2>2
<1>4. ASSUME NEW a \in Addrs, NEW i \in DOMAIN params[a].vals
      PROVE  /\ i \in DOMAIN params'[a].vals
             /\ Updates(params[a].vals[i], params'[a].vals[i])
             /\ Same(params[a].vals[i], params'[a].vals[i])
  BY <1>1, UpdatesReflexive
<1> QED BY <1>1, <1>2, <1>3, <1>4, NotCalled

\* Callbacks of arrays, and clients that come and go: those of the parameters
\* of the lists that stay keep what they hold.
LEMMA OthersCalled ==
  ASSUME TypeInv, ClientInv, UNCHANGED <<scenario, params, work>>,
         \A c \in registered' : c \in Clients /\ ClientOf[c].type \in CanInterrupt,
         \A c \in registered' : ClientOf[c].type \notin PVal!ArrayTypes =>
             got'[c] = Null \/ (c \in registered /\ got'[c] = got[c])
  PROVE  ClientInv'
<1>1. ClientOf' = ClientOf /\ \A c : ClientAddr(c)' = ClientAddr(c)
  BY DEF ClientOf, ClientAddr
<1>2. \A a, i : Pending(a, i)' <=> Pending(a, i)
  BY DEF Pending
<1>3. ASSUME NEW c \in registered', got'[c] # Null, ClientOf[c].type \notin PVal!ArrayTypes
      PROVE  LET a == ClientAddr(c)  i == ClientOf[c].reason  p == params[a].vals[i]
             IN  /\ a \in Addrs /\ i \in DOMAIN params[a].vals
                 /\ Informed(got'[c], ClientOf[c].type, ClientOf[c].mask, p)
                 /\ Pending(a, i) \/ Agrees(got'[c], ClientOf[c].type, ClientOf[c].mask, p)
  BY <1>3 DEF ClientInv
<1> QED BY <1>1, <1>2, <1>3 DEF ClientInv

LEMMA ClientStep == TypeInv /\ MutexInv /\ ClientInv /\ [IoNext]_vars => ClientInv'
<1> SUFFICES ASSUME TypeInv, MutexInv, ClientInv, [IoNext]_vars PROVE ClientInv'
  OBVIOUS
\* Steps that do not concern the clients at all.
<1>0. ASSUME UNCHANGED <<scenario, params, work, registered, got>>
      PROVE  ClientInv'
  <2>1. params' \in [Addrs -> Lists]
    BY <1>0 DEF TypeInv
  <2> QED BY <1>0, <2>1, NothingFlagged
\* Steps under a free mutex, or without callbacks under way.
<1>1. ASSUME UNCHANGED <<scenario, registered, got>>, work = Null,
             work' = Null \/ \E a \in Addrs : work' = WorkAt(a),
             params' = params \/ AllKeep(params, params')
      PROVE  ClientInv'
  <2>1. AllKeep(params, params)
    BY KeepsReflexive DEF AllKeep, TypeInv
  <2>2. AllKeep(params, params')
    BY <1>1, <2>1
  <2> QED BY <1>1, <2>2, NoneUnderWay
<1>2. ASSUME NEW t \in IoThreads, start(t) \/ ioStep(t)
      PROVE  ClientInv'
  <2>1. CASE callMethod(t)
    <3>1. UNCHANGED <<scenario, registered, got>> /\ mutex = Null
      BY <2>1 DEF callMethod
    <3>2. work = Null
      BY <3>1 DEF MutexInv
    <3> QED BY <1>1, <2>1, <3>1, <3>2, CallMoves
  <2>2. CASE flushOctetLock(t)
    <3>1. UNCHANGED <<scenario, params, registered, got>> /\ mutex = Null /\ work' = Null
      BY <2>2 DEF flushOctetLock, lock
    <3>2. work = Null
      BY <3>1 DEF MutexInv
    <3> QED BY <1>0, <3>1, <3>2
  <2>3. CASE ~(callMethod(t) \/ flushOctetLock(t))
    <3>1. UNCHANGED <<scenario, params, work, registered, got>>
      BY <1>2, <2>3 DEF start, ioStep, pdVars, connect, disconnect, queueLockPort, lockPort,
         queueUnlockPort, connectDevice, disconnectDevice, returnMethod, flushOctetRead
    <3> QED BY <1>0, <3>1
  <2> QED BY <2>1, <2>2, <2>3
<1>3. ASSUME NEW t \in Threads, callbackStep(t)
      PROVE  ClientInv'
  BY <1>3, TurnTells, EndTells DEF callbackStep
<1>4. ASSUME NEW c \in Clients, registerInterruptUser(c) \/ cancelInterruptUser(c)
      PROVE  ClientInv'
  <2>1. /\ \/ registered' = registered \cup {c} /\ got' = [got EXCEPT ![c] = Null]
           \/ registered' = registered \ {c} /\ got' = got
        /\ registered' \subseteq registered \/ ClientOf[c].type \in CanInterrupt
        /\ UNCHANGED <<scenario, params, work>>
    BY <1>4, RegisterFacts
  <2>2. \A x \in registered' : x \in Clients /\ ClientOf[x].type \in CanInterrupt
    BY <2>1 DEF ClientInv
  <2>3. \A x \in registered' : got'[x] = Null \/ (x \in registered /\ got'[x] = got[x])
    <3>1. DOMAIN got = Clients
      BY Zenon DEF TypeInv
    <3> QED BY <2>1, <2>2, <3>1
  <2> QED BY <2>1, <2>2, <2>3, OthersCalled
<1>5. CASE driverStep
  <2>1. CASE createParams
    <3>1. UNCHANGED <<scenario, work, registered, got>>
      BY <2>1 DEF createParams
    <3>2. registered' \subseteq registered
      BY <3>1
    <3> QED BY <2>1, <3>1, <3>2, CreateFacts, NothingFlagged
  <2>2. CASE driverAssign
    <3>1. UNCHANGED <<scenario, work, registered, got>> /\ work = Null
      BY <2>2 DEF driverAssign
    <3> QED BY <1>1, <2>2, <3>1, DriverAssigns
  <2>3. CASE driverCallbacks
    <3>1. UNCHANGED <<scenario, params, registered, got>> /\ work = Null
      BY <2>3 DEF driverCallbacks
    <3>2. work' = Null \/ \E a \in Addrs : work' = WorkAt(a)
      BY <2>3, WorkStarts DEF driverCallbacks
    <3> QED BY <1>1, <3>1, <3>2
  <2>4. CASE driverArray
    <3>1. UNCHANGED <<scenario, params, work, registered>>
      BY <2>4 DEF driverArray
    <3>2. \E type \in PVal!ArrayTypes : \E v, alarm, i, a :
             got' = Deliver(Called(type, i, a), v, alarm)
      BY <2>4 DEF driverArray, doCallbacksInt8Array, doCallbacksInt16Array, doCallbacksInt32Array,
         doCallbacksInt64Array, doCallbacksFloat32Array, doCallbacksFloat64Array,
         doCallbacksGenericPointer, doCallbacksEnum, doCallbacksArray, PVal!ArrayTypes
    <3>3. ASSUME NEW c \in registered, ClientOf[c].type \notin PVal!ArrayTypes
          PROVE  got'[c] = got[c]
      <4>1. PICK type \in PVal!ArrayTypes : \E v, alarm, i, a :
              got' = Deliver(Called(type, i, a), v, alarm)
        BY <3>2
      <4>2. c \in Clients /\ \A i, a : c \notin Called(type, i, a)
        BY <3>3 DEF ClientInv, Called
      <4> QED BY <4>1, <4>2 DEF Deliver
    <3> QED BY <3>1, <3>3, OthersCalled DEF ClientInv
  <2>5. CASE driverLock \/ driverUnlock
    <3>1. UNCHANGED <<scenario, params, work, registered, got>>
      BY <2>5 DEF driverLock, driverUnlock
    <3> QED BY <1>0, <3>1
  <2> QED BY <1>5, <2>1, <2>2, <2>3, <2>4, <2>5 DEF driverStep
<1>6. CASE cbStep
  <2>1. CASE cbCallbacks
    <3>1. UNCHANGED <<scenario, params, registered, got>> /\ work = Null
      BY <2>1 DEF cbCallbacks
    <3>2. work' = Null \/ \E a \in Addrs : work' = WorkAt(a)
      BY <2>1, <3>1, WorkStarts DEF cbCallbacks
    <3> QED BY <1>1, <3>1, <3>2
  <2>2. CASE cbWake \/ cbLock \/ cbEnd
    <3>1. UNCHANGED <<scenario, params, work, registered, got>>
      BY <2>2 DEF cbWake, cbLock, cbEnd
    <3> QED BY <1>0, <3>1
  <2> QED BY <1>6, <2>1, <2>2 DEF cbStep
<1>7. CASE \/ iocInit /\ UNCHANGED ioVars
           \/ \E s \in Shutters : shutStep(s)
           \/ UNCHANGED vars
  <2>1. UNCHANGED <<scenario, params, work, registered, got>>
    BY <1>7 DEF iocInit, shutStep, shutdownPort, deleteDirect, shutdownPortNested, exceptionHandler,
       destructor, freeDriver, vars, pdVars
  <2> QED BY <1>0, <2>1
<1> QED BY <1>2, <1>3, <1>4, <1>5, <1>6, <1>7 DEF IoNext
(***************************************************************************)
(* The callback thread and the end of the port.                            *)
(***************************************************************************)
LEMMA CbThreadStep == TypeInv /\ MutexInv /\ CbInv /\ [IoNext]_vars => CbInv'
<1> SUFFICES ASSUME TypeInv, MutexInv, CbInv, [IoNext]_vars PROVE CbInv'
  OBVIOUS
<1> USE ThreadFacts DEF Threads
<1>0. MaxAddr \in Nat \ {0}
  BY PortDriverAssumption
\* The thread's own steps, and the ones of the others.
<1>1. ASSUME UNCHANGED <<cb, cbDone>>, mutex' = mutex \/ mutex' # CbThread
      PROVE  CbInv'
  BY <1>1 DEF CbInv
<1>2. ASSUME NEW t \in IoThreads, start(t) \/ ioStep(t)
      PROVE  CbInv'
  <2>1. UNCHANGED <<cb, cbDone>> /\ (mutex' = mutex \/ mutex' = Null \/ mutex' = t)
    BY <1>2, CallMoves DEF start, ioStep, pdVars, connect, disconnect, queueLockPort, lockPort,
       queueUnlockPort, connectDevice, disconnectDevice, callMethod, returnMethod, flushOctetLock,
       flushOctetRead, lock
  <2> QED BY <1>1, <2>1
<1>3. ASSUME NEW c \in Clients, registerInterruptUser(c) \/ cancelInterruptUser(c)
      PROVE  CbInv'
  BY <1>1, <1>3, RegisterFacts
<1>4. ASSUME NEW t \in Threads, callbackStep(t)
      PROVE  CbInv'
  BY <1>1, <1>4 DEF callbackStep, callCallbacksTurn, callCallbacksEnd
<1>5. CASE driverStep
  <2>1. UNCHANGED <<cb, cbDone>> /\ mutex' \in {mutex, Null, Driver}
    BY <1>5 DEF driverStep, createParams, driverLock, driverUnlock, driverAssign, driverCallbacks,
                driverArray, lock
  <2> QED BY <1>1, <2>1
<1>6. CASE cbStep
  <2>1. CASE cbWake \/ cbLock
    <3>1. ~cbDone /\ cb' \in Int /\ cbDone' = cbDone
      BY <1>0, <2>1 DEF cbWake, cbLock, CbInv
    <3> QED BY <3>1 DEF CbInv
  <2>2. CASE cbCallbacks
    <3>1. ~cbDone /\ cbDone' = cbDone
      BY <2>2 DEF cbCallbacks, CbInv
    <3>2. cb' = MaxAddr \/ cb' = cb + 1
      BY <2>2 DEF cbCallbacks, runTurn
    <3> QED BY <1>0, <3>1, <3>2 DEF CbInv
  <2>3. CASE cbEnd
    <3>1. mutex' = Null /\ cb' = cb /\ cb = MaxAddr
      BY <2>3 DEF cbEnd
    <3> QED BY <1>0, <3>1 DEF CbInv
  <2> QED BY <1>6, <2>1, <2>2, <2>3 DEF cbStep
<1>7. CASE \/ iocInit /\ UNCHANGED ioVars
           \/ \E s \in Shutters : shutStep(s)
           \/ UNCHANGED vars
  <2>1. UNCHANGED <<cb, cbDone, mutex>>
    BY <1>7 DEF iocInit, shutStep, shutdownPort, deleteDirect, shutdownPortNested, exceptionHandler,
       destructor, freeDriver, vars, pdVars
  <2> QED BY <1>1, <2>1
<1> QED BY <1>2, <1>3, <1>4, <1>5, <1>6, <1>7 DEF IoNext

\* What a thread does with a port that is gone: it takes no lock and calls no
\* method.
LEMMA StaysAway ==
  ASSUME TypeInv, NEW t \in IoThreads, Leaving(io[t]), start(t) \/ ioStep(t),
         port \in {"defunct", "deleted"}
  PROVE  /\ io' = [io EXCEPT ![t] = io'[t]] /\ Leaving(io'[t])
         /\ mutex' = mutex
<1> DEFINE r == io[t]
<1>0. r \in IoRecords /\ Running(r)
  BY DEF TypeInv
<1>1. CASE start(t)
  <2>1. Moves(t) /\ io'[t].user = r.user /\ r.user \in {"none", "failed"}
    BY <1>1, StartMoves DEF Leaving
  <2>2. ASSUME io'[t].prog # Null
        PROVE  LET n == Len(io'[t].prog.steps)
               IN  \/ io'[t].pc = 1 /\ io'[t].prog.steps[1] = "connect"
                   \/ io'[t].pc = n /\ io'[t].prog.steps[n] = "disconnect"
    <3>1. io'[t].pc = 1 /\ io'[t].prog.steps[1] \in {"connect", "disconnect"}
      BY <1>1, <2>1, <2>2, StartMoves
    <3>2. IsFunction(io'[t].prog)
      BY <2>1, <2>2 DEF Moves, Running
    <3> QED BY <3>1, <3>2 DEF IsFunction
  <2>3. mutex' = mutex
    BY <1>1 DEF start, pdVars
  <2> QED BY <2>1, <2>2, <2>3 DEF Moves, Leaving
<1>2. CASE ioStep(t)
  <2> DEFINE f == r.prog  n == Len(f.steps)
  <2>1. f # Null
    BY <1>2 DEF ioStep, connect, disconnect, queueLockPort, lockPort, queueUnlockPort, connectDevice,
                disconnectDevice, callMethod, returnMethod, flushOctetLock, flushOctetRead, AtStep, InMethod
  <2>2. IsFunction(f) /\ r.pc \in 1 .. n /\ n \in Nat \ {0}
    BY <1>0, <2>1 DEF Running, IsFunction
  <2>3. Current(t) \in {"connect", "disconnect"}
    BY <2>1 DEF Leaving, Current
  <2>4. connect(t) \/ disconnect(t)
    BY <1>2, <2>3 DEF ioStep, queueLockPort, lockPort, queueUnlockPort, connectDevice,
       disconnectDevice, callMethod, returnMethod, flushOctetLock, flushOctetRead, AtStep, InMethod,
       Current, Calls
  <2>5. mutex' = mutex
    BY <2>4 DEF connect, disconnect, pdVars
  <2>6. CASE connect(t)
    <3>1. Moves(t)
      BY <2>6, ConnectMoves
    <3>2. PICK q \in IoRecords : /\ q.prog = f /\ q.pc = r.pc /\ q.user = "failed"
                                /\ io'[t] = Continue(q, "error")
      BY <2>6, ConnectMoves
    <3>3. r.pc = 1 /\ f.steps[1] = "connect"
      BY <2>1, <2>6 DEF Leaving, connect, AtStep
    <3> DEFINE k == IF n = 1 THEN 2 ELSE n
    <3>4. io'[t] = GoTo(q, k, "error")
      BY <2>2, <3>2, <3>3 DEF Continue, AfterFailure
    <3>5. Running(q) /\ q.prog # Null /\ k \in Nat \ {0} /\ "error" \in Statuses
      BY <2>1, <2>2, <3>2 DEF Running, Statuses
    <3>6. /\ io'[t].user = "failed"
          /\ k \in 1 .. n => io'[t].prog = f /\ io'[t].pc = k
          /\ k \notin 1 .. n => io'[t].prog = Null
      <4> HIDE DEF k
      <4> QED BY <3>2, <3>4, <3>5, GoToOK
    <3>7. n > 1 => f.steps[n] = "disconnect"
      BY <2>2, <3>3 DEF IsFunction
    <3>8. Leaving(io'[t])
      BY <2>2, <3>6, <3>7 DEF Leaving
    <3> QED BY <2>5, <3>1, <3>8 DEF Moves
  <2>7. CASE disconnect(t)
    <3>1. Moves(t)
      BY <2>7, LockMoves
    <3> DEFINE q == [r EXCEPT !.user = "none", !.drvUser = FALSE]
    <3>2. q \in IoRecords /\ q.prog = f /\ q.pc = r.pc /\ q.user = "none"
      BY <1>0 DEF IoRecords
    <3>3. io'[t] = GoTo(q, r.pc + 1, r.status)
      BY <2>7 DEF disconnect, TypeInv
    <3>4. r.pc = n
      BY <2>1, <2>7 DEF Leaving, disconnect, AtStep
    <3>5. Running(q) /\ q.prog # Null /\ r.pc + 1 \in Nat \ {0} /\ r.status \in Statuses
      BY <1>0, <2>1, <2>2, <3>2 DEF Running, IoRecords
    <3> HIDE DEF q
    <3>6. io'[t].user = "none" /\ io'[t].prog = Null
      BY <2>2, <3>2, <3>3, <3>4, <3>5, GoToOK
    <3> QED BY <2>5, <3>1, <3>6 DEF Leaving, Moves
  <2> QED BY <2>4, <2>6, <2>7
<1> QED BY <1>1, <1>2
\* Nothing of the end of the port moves.
LEMMA EndUntouched ==
  ASSUME ShutInv, UNCHANGED <<scenario, port, deletes, shutdownNeeded, shutter>>,
         cbDone => cbDone',
         port \in {"defunct", "deleted"} => \A t \in IoThreads : Leaving(io'[t]),
         port = "up" /\ deletes = 1 => io' = io,
         port = "deleted" => mutex' = Null,
         port = "defunct" /\ deletes = 1 => mutex' = mutex \/ mutex' \in {Null, CbThread}
  PROVE  ShutInv'
<1>1. \A s \in Shutters : Active(s)' <=> Active(s)
  BY DEF Active
<1>2. port = "up" /\ deletes = 1 => ClientsGone'
  BY DEF ShutInv, ClientsGone
<1> QED BY <1>1, <1>2 DEF ShutInv

\* A thread in a SyncIO function: nobody is in one while the driver is deleted.
LEMMA IoEnd ==
  ASSUME TypeInv, ShutInv, NEW t \in IoThreads, (Undeleted /\ start(t)) \/ ioStep(t)
  PROVE  ShutInv'
<1>1. UNCHANGED <<scenario, port, deletes, shutdownNeeded, shutter, cbDone>>
  BY DEF start, ioStep, pdVars, connect, disconnect, queueLockPort, lockPort, queueUnlockPort,
     connectDevice, disconnectDevice, callMethod, returnMethod, flushOctetLock, flushOctetRead
<1>2. ~(port = "up" /\ deletes = 1)
  <2>1. CASE Undeleted /\ start(t)
    BY <2>1 DEF Undeleted
  <2>2. CASE ioStep(t)
    <3>1. io[t].prog # Null
      BY <2>2 DEF ioStep, connect, disconnect, queueLockPort, lockPort, queueUnlockPort, connectDevice,
         disconnectDevice, callMethod, returnMethod, flushOctetLock, flushOctetRead, AtStep, InMethod
    <3> QED BY <3>1 DEF ShutInv, ClientsGone
  <2> QED BY <2>1, <2>2
<1>3. CASE port \in {"defunct", "deleted"}
  <2>1. \A s \in IoThreads : Leaving(io[s])
    BY <1>3 DEF ShutInv
  <2>2. io' = [io EXCEPT ![t] = io'[t]] /\ Leaving(io'[t]) /\ mutex' = mutex
    BY <1>3, <2>1, StaysAway
  <2>3. \A s \in IoThreads : Leaving(io'[s])
    <3>1. \A s \in IoThreads \ {t} : io'[s] = io[s]
      BY <2>2 DEF TypeInv
    <3> QED BY <2>1, <2>2, <3>1
  <2>4. port = "deleted" => mutex' = Null
    BY <2>2 DEF ShutInv
  <2> QED BY <1>1, <1>2, <2>2, <2>3, <2>4, EndUntouched
<1>4. CASE port \notin {"defunct", "deleted"}
  BY <1>1, <1>2, <1>4, EndUntouched
<1> QED BY <1>3, <1>4

\* A step of shutdownPort or of the destructor.
LEMMA ShutterEnd ==
  ASSUME TypeInv, MutexInv, CbInv, ShutInv, NEW s \in Shutters, shutStep(s)
  PROVE  ShutInv'
<1> DEFINE At(x) == shutter' = [shutter EXCEPT ![s] = x]
<1>0. io' = io /\ scenario' = scenario /\ mutex' = mutex /\ cbDone' = cbDone
  BY DEF shutStep, shutdownPort, deleteDirect, shutdownPortNested, exceptionHandler, destructor,
         freeDriver, ioVars
<1>1. \A x : At(x) => shutter'[s] = x /\ \A r \in Shutters \ {s} : shutter'[r] = shutter[r]
  BY DEF ShutInv
<1>2. \A t : Leaving(io'[t]) <=> Leaving(io[t])
  BY <1>0
<1>3. ClientsGone' <=> ClientsGone
  BY <1>0 DEF ClientsGone
<1>4. ClientsGone => \A t \in IoThreads : Leaving(io[t])
  BY DEF ClientsGone, Leaving
<1>5. CASE ClientsGone /\ shutdownPort(s)
  <2>1. /\ port \in {"up", "defunct"} /\ port' = "defunct" /\ shutter[s] = "idle" /\ scenario.end = "shutdown"
        /\ UNCHANGED <<shutdownNeeded, deletes>>
        /\ At(IF port = "up" THEN "exception" ELSE "end")
    BY <1>5 DEF shutdownPort
  <2>2. CASE port = "up"
    <3>1. deletes = 0 /\ shutdownNeeded /\ \A r \in Shutters : ~Active(r)
      BY <2>1, <2>2 DEF ShutInv
    <3>2. shutter'[s] = "exception" /\ \A r \in Shutters \ {s} : shutter'[r] \in {"idle", "end"}
      BY <1>1, <2>1, <2>2, <3>1 DEF Active
    <3>3. \A r \in Shutters : Active(r)' => r = s
      BY <3>2 DEF Active
    <3> QED BY <1>0, <1>2, <1>4, <1>5, <2>1, <2>2, <3>1, <3>2, <3>3 DEF ShutInv
  <2>3. CASE port = "defunct"
    <3>1. shutter'[s] = "end" /\ \A r \in Shutters \ {s} : shutter'[r] = shutter[r]
      BY <1>1, <2>1, <2>3
    <3>2. \A r \in Shutters : Active(r)' <=> Active(r)
      BY <2>1, <3>1 DEF Active
    <3> QED BY <1>0, <1>2, <2>1, <2>3, <3>1, <3>2 DEF ShutInv
  <2> QED BY <2>1, <2>2, <2>3
<1>6. CASE ClientsGone /\ deleteDirect(s)
  <2>1. /\ port = "up" /\ deletes = 0 /\ port' = port /\ scenario.end = "delete" /\ deletes' = 1
        /\ shutdownNeeded' = shutdownNeeded
        /\ At(IF shutdownNeeded THEN "shutdown" ELSE "destructor")
    BY <1>6 DEF deleteDirect
  <2>2. shutdownNeeded /\ \A r \in Shutters : ~Active(r)
    BY <2>1 DEF ShutInv
  <2>3. shutter'[s] = "shutdown" /\ \A r \in Shutters \ {s} : shutter'[r] \in {"idle", "end"}
    BY <1>1, <2>1, <2>2 DEF Active
  <2>4. \A r \in Shutters : Active(r)' => r = s
    BY <2>3 DEF Active
  <2> QED BY <1>0, <1>3, <1>6, <2>1, <2>2, <2>3, <2>4 DEF ShutInv
\* In the other steps s is the only one that is active.
<1>7. ASSUME Active(s)
      PROVE  \A r \in Shutters \ {s} : shutter[r] \in {"idle", "end"}
  BY <1>7 DEF ShutInv, Active
<1>8. CASE shutdownPortNested(s)
  <2>1. /\ shutter[s] = "shutdown" /\ port' = "defunct" /\ shutdownNeeded' = FALSE /\ deletes' = deletes
        /\ At(IF port = "up" THEN "exception" ELSE "destructor")
    BY <1>8 DEF shutdownPortNested, shutdownPortDriver
  <2>2. deletes = 1 /\ Active(s) /\ port \in {"up", "defunct"}
    BY <2>1 DEF ShutInv, Active
  <2>3. \A t \in IoThreads : Leaving(io'[t])
    BY <1>2, <1>4, <2>2 DEF ShutInv
  <2>4. /\ shutter'[s] \in {"exception", "destructor"}
        /\ \A r \in Shutters \ {s} : shutter'[r] \in {"idle", "end"}
    BY <1>1, <1>7, <2>1, <2>2
  <2>5. \A r \in Shutters : Active(r)' => r = s
    BY <2>4 DEF Active
  <2> QED BY <1>0, <2>1, <2>2, <2>3, <2>4, <2>5 DEF ShutInv
<1>9. CASE exceptionHandler(s)
  <2>1. /\ shutter[s] = "exception" /\ UNCHANGED <<port, shutdownNeeded>>
        /\ At(IF shutdownNeeded THEN "shutdown" ELSE "destructor")
        /\ deletes' = IF shutdownNeeded THEN deletes + 1 ELSE deletes
    BY <1>9 DEF exceptionHandler
  <2>2. port = "defunct" /\ (shutdownNeeded <=> deletes = 0) /\ deletes \in {0, 1} /\ Active(s)
    BY <2>1 DEF ShutInv, Active
  <2>3. deletes' = 1
    BY <2>1, <2>2
  <2>4. /\ shutter'[s] \in {"shutdown", "destructor"}
        /\ \A r \in Shutters \ {s} : shutter'[r] \in {"idle", "end"}
    BY <1>1, <1>7, <2>1, <2>2
  <2>5. \A r \in Shutters : Active(r)' => r = s
    BY <2>4 DEF Active
  <2> QED BY <1>0, <1>2, <2>1, <2>2, <2>3, <2>4, <2>5 DEF ShutInv
<1>10. CASE destructor(s)
  <2>1. /\ shutter[s] = "destructor" /\ UNCHANGED <<port, shutdownNeeded, deletes>> /\ mutex = Null
        /\ At("doneEvent")
    BY <1>10 DEF destructor
  <2>2. port = "defunct" /\ deletes = 1 /\ Active(s)
    BY <2>1 DEF ShutInv, Active
  <2>3. /\ shutter'[s] = "doneEvent"
        /\ \A r \in Shutters \ {s} : shutter'[r] \in {"idle", "end"}
    BY <1>1, <1>7, <2>1, <2>2
  <2>4. \A r \in Shutters : Active(r)' => r = s
    BY <2>3 DEF Active
  <2> QED BY <1>0, <1>2, <2>1, <2>2, <2>3, <2>4 DEF ShutInv
<1>11. CASE freeDriver(s)
  <2>1. /\ shutter[s] = "doneEvent" /\ cbDone /\ port' = "deleted"
        /\ UNCHANGED <<shutdownNeeded, deletes>> /\ At("end")
    BY <1>11 DEF freeDriver, deleteCbThread
  <2>2. port = "defunct" /\ deletes = 1 /\ Active(s) /\ mutex \in {Null, CbThread}
    BY <2>1 DEF ShutInv, Active
  <2>3. mutex = Null
    BY <2>1, <2>2 DEF CbInv
  <2>4. /\ shutter'[s] = "end"
        /\ \A r \in Shutters \ {s} : shutter'[r] \in {"idle", "end"}
    BY <1>1, <1>7, <2>1, <2>2
  <2>5. \A r \in Shutters : ~Active(r)'
    BY <2>4 DEF Active
  <2> QED BY <1>0, <1>2, <2>1, <2>2, <2>3, <2>4, <2>5 DEF ShutInv
<1> QED BY <1>5, <1>6, <1>8, <1>9, <1>10, <1>11 DEF shutStep

LEMMA ShutStep == TypeInv /\ MutexInv /\ CbInv /\ ShutInv /\ [IoNext]_vars => ShutInv'
<1> SUFFICES ASSUME TypeInv, MutexInv, CbInv, ShutInv, [IoNext]_vars PROVE ShutInv'
  OBVIOUS
\* The other threads: only the callback thread locks the mutex of a port that is
\* gone, and not after its end.
<1>0. ASSUME UNCHANGED <<scenario, port, deletes, shutdownNeeded, shutter, io>>, cbDone => cbDone',
             mutex' = mutex \/ mutex' \in {Null, CbThread}, mutex' = CbThread => ~cbDone
      PROVE  ShutInv'
  <2>1. port \in {"defunct", "deleted"} => \A t \in IoThreads : Leaving(io'[t])
    BY <1>0 DEF ShutInv
  <2>2. port = "deleted" => mutex' = Null
    BY <1>0 DEF ShutInv
  <2> QED BY <1>0, <2>1, <2>2, EndUntouched
<1>a. mutex = CbThread => ~cbDone
  BY DEF CbInv
<1>1. ASSUME NEW t \in IoThreads, (Undeleted /\ start(t)) \/ ioStep(t)
      PROVE  ShutInv'
  BY <1>1, IoEnd
<1>2. ASSUME NEW t \in Threads, callbackStep(t)
      PROVE  ShutInv'
  <2>1. UNCHANGED <<scenario, port, deletes, shutdownNeeded, shutter, io, cbDone, mutex>>
    BY <1>2 DEF callbackStep, callCallbacksTurn, callCallbacksEnd, ioVars
  <2> QED BY <1>0, <1>a, <2>1
<1>3. ASSUME NEW c \in Clients, registerInterruptUser(c) \/ cancelInterruptUser(c)
      PROVE  ShutInv'
  <2>1. UNCHANGED <<scenario, port, deletes, shutdownNeeded, shutter, io, cbDone, mutex>>
    BY <1>3, RegisterFacts
  <2> QED BY <1>0, <1>a, <2>1
<1>4. CASE driverStep
  <2>1. CASE createParams
    <3>1. UNCHANGED <<scenario, deletes, shutdownNeeded, shutter, io, cbDone, mutex>>
          /\ port = "constructing" /\ port' \in {"constructing", "up"}
      BY <1>4, <2>1 DEF driverStep, createParams, ioVars
    <3>2. \A s \in Shutters : ~Active(s) /\ ~Active(s)' /\ deletes = 0
      BY <3>1 DEF ShutInv, Active
    <3>3. deletes = 0
      BY <3>1 DEF ShutInv
    <3> QED BY <3>1, <3>2, <3>3 DEF ShutInv, Active
  <2>2. CASE driverLock
    <3>1. /\ UNCHANGED <<scenario, port, deletes, shutdownNeeded, shutter, io, cbDone>>
          /\ port \in {"up", "defunct"} /\ deletes = 0
      BY <1>4, <2>2 DEF driverStep, driverLock, ioVars
    <3>2. port = "defunct" => \A t \in IoThreads : Leaving(io'[t])
      BY <3>1 DEF ShutInv
    <3> QED BY <3>1, <3>2, EndUntouched
  <2>3. CASE driverUnlock \/ driverAssign \/ driverCallbacks \/ driverArray
    <3>1. UNCHANGED <<scenario, port, deletes, shutdownNeeded, shutter, io, cbDone>>
          /\ mutex' \in {mutex, Null}
      BY <1>4, <2>3 DEF driverStep, driverUnlock, driverAssign, driverCallbacks, driverArray, ioVars
    <3>2. Null # CbThread
      BY ThreadFacts DEF Threads
    <3> QED BY <1>0, <1>a, <3>1, <3>2
  <2> QED BY <1>4, <2>1, <2>2, <2>3 DEF driverStep
<1>5. CASE cbStep
  <2>1. /\ UNCHANGED <<scenario, port, deletes, shutdownNeeded, shutter, io>> /\ (cbDone => cbDone')
        /\ mutex' \in {mutex, Null, CbThread}
    BY <1>5 DEF cbStep, cbWake, cbLock, cbCallbacks, cbEnd, lock, ioVars
  <2>2. mutex' = CbThread => ~cbDone
    <3>1. CASE cbLock
      BY <3>1, PortDriverAssumption DEF cbLock, CbInv
    <3>2. CASE cbEnd
      BY <3>2, ThreadFacts DEF cbEnd, Threads
    <3>3. CASE cbWake \/ cbCallbacks
      BY <1>a, <3>3 DEF cbWake, cbCallbacks
    <3> QED BY <1>5, <3>1, <3>2, <3>3 DEF cbStep
  <2> QED BY <1>0, <2>1, <2>2
<1>6. ASSUME NEW s \in Shutters, shutStep(s)
      PROVE  ShutInv'
  BY <1>6, ShutterEnd
<1>7. CASE (iocInit /\ UNCHANGED ioVars) \/ UNCHANGED vars
  <2>1. UNCHANGED <<scenario, port, deletes, shutdownNeeded, shutter, io, cbDone, mutex>>
    BY <1>7 DEF iocInit, ioVars, vars, pdVars
  <2> QED BY <1>0, <1>a, <2>1
<1> QED BY <1>1, <1>2, <1>3, <1>4, <1>5, <1>6, <1>7 DEF IoNext
(***************************************************************************)
(* Theorems.                                                               *)
(***************************************************************************)
LEMMA DriverStep == DriverInv /\ [IoNext]_vars => DriverInv'
BY TypeStep, MutexStep, ClientStep, CbThreadStep, ShutStep DEF DriverInv

LEMMA DriverInvariant == IoSpec => []DriverInv
BY InitOK, DriverStep, PTL DEF IoSpec

\* The lists, the asynUsers and the functions of the threads keep their types:
\* each flag is a parameter of its list, and a digital parameter a set of bits.
THEOREM DriverTypeCorrect == IoSpec => []TypeInv
<1>1. DriverInv => TypeInv
  BY DEF DriverInv
<1> QED BY <1>1, DriverInvariant, PTL

\* Whatever threads write and call back, and whenever clients come and go
\* (asynPortDriver.cpp, paramList::callCallbacks): a client that was called
\* holds the present value and alarm of its parameter unless the parameter is
\* flagged for the next callbacks.
THEOREM ClientsUpToDate == IoSpec => []ClientsCurrent
<1>1. DriverInv => ClientsCurrent
  <2> SUFFICES ASSUME DriverInv, NEW c \in registered, got[c] # Null,
                      LET a == ClientAddr(c)  i == ClientOf[c].reason  L == params[a]
                      IN  /\ ClientOf[c].type \notin PVal!ArrayTypes
                          /\ \A k \in DOMAIN L.flags : L.flags[k] # i
               PROVE  LET a == ClientAddr(c)  i == ClientOf[c].reason  L == params[a]
                      IN  /\ got[c].alarm = PL!Alarm(L, i)
                          /\ got[c].val = IF ClientOf[c].type = "UInt32Digital"
                                          THEN L.vals[i].val \cap ClientOf[c].mask ELSE L.vals[i].val
    BY DEF ClientsCurrent
  <2> DEFINE a == ClientAddr(c)  i == ClientOf[c].reason
  <2>1. ~Pending(a, i)
    BY DEF Pending
  <2>2. Agrees(got[c], ClientOf[c].type, ClientOf[c].mask, params[a].vals[i])
    BY <2>1 DEF DriverInv, ClientInv
  <2> QED BY <2>2 DEF Agrees, AlarmOf, PL!Alarm
<1> QED BY <1>1, DriverInvariant, PTL

\* However shutdownPort, the exception and the deletion of the driver meet
\* (asynPortDriver::shutdownPortDriver, its destructor): the destructor runs
\* once, and the driver is freed with the callback thread ended and nobody in it.
THEOREM DriverDestroyedOnce == IoSpec => []DestroyedOnce
<1>1. DriverInv => DestroyedOnce
  <2> SUFFICES ASSUME DriverInv PROVE DestroyedOnce
    OBVIOUS
  <2>1. deletes <= 1
    BY DEF DriverInv, ShutInv
  <2>2. port = "deleted" => cbDone /\ mutex = Null /\ work = Null
    BY DEF DriverInv, ShutInv, MutexInv
  <2> QED BY <2>1, <2>2 DEF DestroyedOnce
<1> QED BY <1>1, DriverInvariant, PTL
=============================================================================
