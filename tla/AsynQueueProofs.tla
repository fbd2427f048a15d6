------------------------- MODULE AsynQueueProofs -------------------------
(***************************************************************************)
(* Proofs about AsynQueue for every set of asynUsers, devices and clients  *)
(* and every environment.                                                  *)
(*                                                                         *)
(* TypeOK is not inductive.  The port thread drops asynManagerLock in the  *)
(* middle of its scan and then follows puserPvt to its successor: that     *)
(* the successor exists needs the asynUser to be still on a list (which    *)
(* FreshInv follows through the unlocked part, on the strength of          *)
(* queueStateChange) and the lists to agree with isQueued (QueueOK).  IInv *)
(* is the conjunction; every action preserves it.  HandshakeInv is about   *)
(* callbacks, timers and cancelRequest, WakeInv about what the scan has    *)
(* passed; both are inductive given IInv.  Only the theorems of the first  *)
(* assume anything about the callers.                                      *)
(***************************************************************************)
EXTENDS AsynQueue, SequenceTheorems, TLAPS

\* What ellDelete leaves: one element less, the others in their order.
LEMMA RemoveAtProperties ==
    ASSUME NEW S, NEW q \in Seq(S), NEW k \in 1..Len(q)
    PROVE  /\ RemoveAt(q, k) \in Seq(S)
           /\ Len(RemoveAt(q, k)) = Len(q) - 1
           /\ \A j \in 1..Len(q) - 1 :
                 RemoveAt(q, k)[j] = IF j < k THEN q[j] ELSE q[j + 1]
<1> DEFINE a == SubSeq(q, 1, k - 1)
           b == SubSeq(q, k + 1, Len(q))
<1>1. a \in Seq(S) /\ b \in Seq(S) /\ Len(a) = k - 1 /\ Len(b) = Len(q) - k
  OBVIOUS
<1>2. \A j \in 1..k - 1 : a[j] = q[j]
  OBVIOUS
<1>3. \A j \in 1..Len(q) - k : b[j] = q[j + k]
  OBVIOUS
<1> HIDE DEF a, b
<1>4. a \o b \in Seq(S) /\ Len(a \o b) = Len(q) - 1
  BY <1>1
<1>5. ASSUME NEW j \in 1..Len(q) - 1 PROVE (a \o b)[j] = IF j < k THEN q[j] ELSE q[j + 1]
  <2>1. (a \o b)[j] = IF j <= Len(a) THEN a[j] ELSE b[j - Len(a)]
    BY <1>1
  <2> QED  BY <1>1, <1>2, <1>3, <2>1
<1> QED  BY <1>4, <1>5 DEF RemoveAt, a, b

\* An asynUser on a list is found there (ellDelete is only called for one).
LEMMA PositionFound ==
    ASSUME NEW S, NEW q \in Seq(S), NEW u, Holds(q, u)
    PROVE  /\ Position(q, u) \in 1..Len(q)
           /\ q[Position(q, u)] = u
BY DEF Holds, Position

\* What ellDelete leaves: one element less, the others in their order.
LEMMA DeleteProperties ==
    ASSUME NEW S, NEW q \in Seq(S), NEW u, Holds(q, u)
    PROVE  /\ ellDelete(q, u) \in Seq(S)
           /\ Len(ellDelete(q, u)) = Len(q) - 1
           /\ \A j \in 1..Len(q) - 1 :
                 ellDelete(q, u)[j] =
                    IF j < Position(q, u) THEN q[j] ELSE q[j + 1]
BY PositionFound, RemoveAtProperties DEF ellDelete

\* What ellInsert at the front of a list (addToFront in queueRequest) makes.
LEMMA FrontProperties ==
    ASSUME NEW S, NEW q \in Seq(S), NEW u \in S
    PROVE  /\ <<u>> \o q \in Seq(S)
           /\ Len(<<u>> \o q) = Len(q) + 1
           /\ \A j \in 1..Len(q) + 1 :
                 (<<u>> \o q)[j] = IF j = 1 THEN u ELSE q[j - 1]
<1>1. <<u>> \in Seq(S) /\ Len(<<u>>) = 1 /\ <<u>>[1] = u
  OBVIOUS
<1>2. Len(q) \in Nat
  BY LenProperties
<1>3. /\ <<u>> \o q \in Seq(S)
      /\ Len(<<u>> \o q) = Len(<<u>>) + Len(q)
      /\ \A j \in 1..Len(<<u>>) + Len(q) :
            (<<u>> \o q)[j] = IF j <= Len(<<u>>) THEN <<u>>[j]
                              ELSE q[j - Len(<<u>>)]
  BY <1>1, ConcatProperties
<1> QED  BY <1>1, <1>2, <1>3

-----------------------------------------------------------------------------
\* Taking an asynUser off its list and clearing isQueued together keep the
\* lists consistent (portThread, cancelRequest, queueTimeoutCallback).
LEMMA DequeueKeepsQueues ==
    ASSUME TypeOK, QueueOK,
           NEW p \in AllPriorities, NEW u \in Users,
           Holds(queueList[p], u), Dequeue(p, u)
    PROVE  /\ queueList' \in [AllPriorities -> Seq(Users)]
           /\ isQueued' = [isQueued EXCEPT ![u] = FALSE]
           /\ QueueOK'
<1> DEFINE q == queueList[p]
           r == ellDelete(q, u)
           k == Position(q, u)
<1>1. q \in Seq(Users) /\ Len(q) \in Nat /\ DOMAIN q = 1..Len(q)
  BY LenProperties DEF TypeOK
<1>2. k \in 1..Len(q) /\ q[k] = u
  BY <1>1, PositionFound
<1>3. /\ r \in Seq(Users)
      /\ Len(r) = Len(q) - 1
      /\ \A j \in 1..Len(q) - 1 : r[j] = IF j < k THEN q[j] ELSE q[j + 1]
  BY <1>1, DeleteProperties
<1>4. DOMAIN r = 1..Len(q) - 1
  BY <1>3, LenProperties
<1>5. /\ queueList' = [queueList EXCEPT ![p] = r]
      /\ isQueued' = [isQueued EXCEPT ![u] = FALSE]
  BY DEF Dequeue
<1>6. queueList' \in [AllPriorities -> Seq(Users)]
  BY <1>3, <1>5 DEF TypeOK
<1>7. queueList'[p] = r /\ \A o \in AllPriorities \ {p} : queueList'[o] = queueList[o]
  BY <1>5 DEF TypeOK
<1> DEFINE old(j) == IF j < k THEN j ELSE j + 1
<1>8. \A j \in DOMAIN r : old(j) \in DOMAIN q /\ old(j) # k /\ r[j] = q[old(j)]
  BY <1>1, <1>2, <1>3, <1>4
<1>9. \A i, j \in DOMAIN r : old(i) = old(j) => i = j
  BY <1>1, <1>2, <1>4
<1>10. \A i \in DOMAIN q : i # k => \E j \in DOMAIN r : old(j) = i
  <2> SUFFICES ASSUME NEW i \in DOMAIN q, i # k
               PROVE  \E j \in DOMAIN r : old(j) = i
    OBVIOUS
  <2>1. CASE i < k
    BY <1>1, <1>2, <1>4, <2>1
  <2>2. CASE i > k
    <3>1. i - 1 \in DOMAIN r /\ old(i - 1) = i
      BY <1>1, <1>2, <1>4, <2>2
    <3> QED  BY <3>1
  <2> QED  BY <1>1, <1>2, <2>1, <2>2
<1> HIDE DEF old, r, k
<1>11. \A o, s \in AllPriorities :
          \A i \in DOMAIN queueList'[o], j \in DOMAIN queueList'[s] :
             queueList'[o][i] = queueList'[s][j] => o = s /\ i = j
  <2> SUFFICES ASSUME NEW o \in AllPriorities, NEW s \in AllPriorities,
                      NEW i \in DOMAIN queueList'[o],
                      NEW j \in DOMAIN queueList'[s],
                      queueList'[o][i] = queueList'[s][j]
               PROVE  o = s /\ i = j
    OBVIOUS
  <2>1. CASE o = p /\ s = p
    BY <1>7, <1>8, <1>9, <2>1 DEF QueueOK
  <2>2. CASE o = p /\ s # p
    BY <1>7, <1>8, <2>2 DEF QueueOK
  <2>3. CASE o # p /\ s = p
    BY <1>7, <1>8, <2>3 DEF QueueOK
  <2>4. CASE o # p /\ s # p
    BY <1>7, <2>4 DEF QueueOK
  <2> QED  BY <2>1, <2>2, <2>3, <2>4
<1>12. ASSUME NEW v \in Users
       PROVE  isQueued'[v] <=> \E o \in AllPriorities : Holds(queueList'[o], v)
  <2>1. CASE v = u
    <3>1. ASSUME NEW o \in AllPriorities, NEW i \in DOMAIN queueList'[o]
          PROVE  queueList'[o][i] # u
      <4>1. CASE o = p
        BY <1>1, <1>2, <1>7, <1>8, <4>1 DEF QueueOK
      <4>2. CASE o # p
        BY <1>1, <1>2, <1>7, <4>2 DEF QueueOK
      <4> QED  BY <4>1, <4>2
    <3>2. isQueued'[v] = FALSE
      BY <1>5, <2>1 DEF TypeOK
    <3> QED  BY <2>1, <3>1, <3>2 DEF Holds
  <2>2. CASE v # u
    <3>1. isQueued'[v] = isQueued[v]
      BY <1>5, <2>2 DEF TypeOK
    <3>2. \A o \in AllPriorities : Holds(queueList'[o], v) <=> Holds(queueList[o], v)
      <4> SUFFICES ASSUME NEW o \in AllPriorities
                   PROVE  Holds(queueList'[o], v) <=> Holds(queueList[o], v)
        OBVIOUS
      <4>1. CASE o # p
        BY <1>7, <4>1
      <4>2. ASSUME NEW i \in DOMAIN q, q[i] = v
            PROVE  \E j \in DOMAIN r : r[j] = v
        <5>1. i # k
          BY <1>2, <2>2, <4>2
        <5>2. PICK j \in DOMAIN r : old(j) = i
          BY <1>10, <5>1
        <5> QED  BY <1>8, <4>2, <5>2
      <4>3. ASSUME NEW j \in DOMAIN r, r[j] = v
            PROVE  \E i \in DOMAIN q : q[i] = v
        BY <1>8, <4>3
      <4>4. CASE o = p
        BY <1>7, <4>2, <4>3, <4>4 DEF Holds
      <4> QED  BY <4>1, <4>4
    <3> QED  BY <3>1, <3>2 DEF QueueOK
  <2> QED  BY <2>1, <2>2
<1> QED  BY <1>5, <1>6, <1>11, <1>12 DEF QueueOK

\* queueRequest, which refuses a queued asynUser, keeps the lists consistent
\* wherever it puts the new request.
LEMMA RequestKeepsQueues ==
    ASSUME TypeOK, QueueOK,
           NEW a \in Actors, NEW p \in AllPriorities, NEW u \in Users,
           NEW t \in BOOLEAN, queueRequest(a, u, p, t)
    PROVE  /\ queueList' \in [AllPriorities -> Seq(Users)]
           /\ isQueued' = [isQueued EXCEPT ![u] = TRUE]
           /\ QueueOK'
<1> DEFINE q == queueList[p]
           r == IF AddToFront(u) THEN <<u>> \o q ELSE Append(q, u)
           k == IF AddToFront(u) THEN 1 ELSE Len(q) + 1
           old(j) == IF AddToFront(u) THEN j - 1 ELSE j
<1>1. q \in Seq(Users) /\ Len(q) \in Nat /\ DOMAIN q = 1..Len(q)
  BY LenProperties DEF TypeOK
<1>2. /\ r \in Seq(Users)
      /\ Len(r) = Len(q) + 1
      /\ k \in 1..Len(q) + 1 /\ r[k] = u
      /\ \A j \in 1..Len(q) + 1 : j # k => r[j] = q[old(j)]
  <2>1. CASE AddToFront(u)
    <3>1. /\ <<u>> \o q \in Seq(Users)
          /\ Len(<<u>> \o q) = Len(q) + 1
          /\ \A j \in 1..Len(q) + 1 :
                (<<u>> \o q)[j] = IF j = 1 THEN u ELSE q[j - 1]
      BY <1>1, FrontProperties
    <3> QED  BY <1>1, <2>1, <3>1
  <2>2. CASE ~AddToFront(u)
    <3>1. /\ Append(q, u) \in Seq(Users)
          /\ Len(Append(q, u)) = Len(q) + 1
          /\ \A j \in 1..Len(q) : Append(q, u)[j] = q[j]
          /\ Append(q, u)[Len(q) + 1] = u
      BY <1>1, AppendProperties
    <3> QED  BY <1>1, <2>2, <3>1
  <2> QED  BY <2>1, <2>2
<1>3. DOMAIN r = 1..Len(q) + 1
  BY <1>2, LenProperties
<1>4. /\ queueList' = [queueList EXCEPT ![p] = r]
      /\ isQueued' = [isQueued EXCEPT ![u] = TRUE]
      /\ ~isQueued[u]
  BY DEF queueRequest, Accepted
<1>5. queueList' \in [AllPriorities -> Seq(Users)]
  BY <1>2, <1>4 DEF TypeOK
<1>6. queueList'[p] = r /\ \A o \in AllPriorities \ {p} : queueList'[o] = queueList[o]
  BY <1>4 DEF TypeOK
<1>7. /\ k \in DOMAIN r /\ r[k] = u
      /\ \A j \in DOMAIN r : j # k => old(j) \in DOMAIN q /\ r[j] = q[old(j)]
  BY <1>1, <1>2, <1>3
<1>8. \A i, j \in DOMAIN r : old(i) = old(j) => i = j
  BY <1>1, <1>3
<1>9. \A i \in DOMAIN q : \E j \in DOMAIN r : j # k /\ old(j) = i
  <2> SUFFICES ASSUME NEW i \in DOMAIN q
               PROVE  \E j \in DOMAIN r : j # k /\ old(j) = i
    OBVIOUS
  <2>1. CASE AddToFront(u)
    <3>1. i + 1 \in DOMAIN r /\ i + 1 # k /\ old(i + 1) = i
      BY <1>1, <1>3, <2>1
    <3> QED  BY <3>1
  <2>2. CASE ~AddToFront(u)
    BY <1>1, <1>3, <2>2
  <2> QED  BY <2>1, <2>2
<1>10. \A o \in AllPriorities : \A i \in DOMAIN queueList[o] : queueList[o][i] # u
  BY <1>4 DEF QueueOK, Holds
<1> HIDE DEF old, r, k
<1>11. \A o, s \in AllPriorities :
          \A i \in DOMAIN queueList'[o], j \in DOMAIN queueList'[s] :
             queueList'[o][i] = queueList'[s][j] => o = s /\ i = j
  <2> SUFFICES ASSUME NEW o \in AllPriorities, NEW s \in AllPriorities,
                      NEW i \in DOMAIN queueList'[o],
                      NEW j \in DOMAIN queueList'[s],
                      queueList'[o][i] = queueList'[s][j]
               PROVE  o = s /\ i = j
    OBVIOUS
  <2>1. CASE o = p /\ s = p
    <3>1. CASE i = k \/ j = k
      BY <1>6, <1>7, <1>10, <2>1, <3>1
    <3>2. CASE i # k /\ j # k
      BY <1>6, <1>7, <1>8, <2>1, <3>2 DEF QueueOK
    <3> QED  BY <3>1, <3>2
  <2>2. CASE o = p /\ s # p
    <3>1. j \in DOMAIN queueList[s] /\ queueList'[s][j] = queueList[s][j]
      BY <1>6, <2>2
    <3>2. i # k
      BY <1>6, <1>7, <1>10, <2>2, <3>1
    <3> QED  BY <1>6, <1>7, <2>2, <3>1, <3>2 DEF QueueOK
  <2>3. CASE o # p /\ s = p
    <3>1. i \in DOMAIN queueList[o] /\ queueList'[o][i] = queueList[o][i]
      BY <1>6, <2>3
    <3>2. j # k
      BY <1>6, <1>7, <1>10, <2>3, <3>1
    <3> QED  BY <1>6, <1>7, <2>3, <3>1, <3>2 DEF QueueOK
  <2>4. CASE o # p /\ s # p
    BY <1>6, <2>4 DEF QueueOK
  <2> QED  BY <2>1, <2>2, <2>3, <2>4
<1>12. ASSUME NEW v \in Users
       PROVE  isQueued'[v] <=> \E o \in AllPriorities : Holds(queueList'[o], v)
  <2>1. CASE v = u
    <3>1. isQueued'[v] /\ Holds(queueList'[p], v)
      BY <1>4, <1>6, <1>7, <2>1 DEF TypeOK, Holds
    <3> QED  BY <3>1
  <2>2. CASE v # u
    <3>1. isQueued'[v] = isQueued[v]
      BY <1>4, <2>2 DEF TypeOK
    <3>2. ASSUME NEW o \in AllPriorities
          PROVE  Holds(queueList'[o], v) <=> Holds(queueList[o], v)
      <4>1. CASE o # p
        BY <1>6, <4>1
      <4>2. ASSUME NEW i \in DOMAIN q, q[i] = v
            PROVE  \E j \in DOMAIN r : r[j] = v
        BY <1>7, <1>9, <4>2
      <4>3. ASSUME NEW j \in DOMAIN r, r[j] = v
            PROVE  \E i \in DOMAIN q : q[i] = v
        BY <1>7, <2>2, <4>3
      <4>4. CASE o = p
        BY <1>6, <4>2, <4>3, <4>4 DEF Holds
      <4> QED  BY <4>1, <4>4
    <3> QED  BY <3>1, <3>2 DEF QueueOK
  <2> QED  BY <2>1, <2>2
<1> QED  BY <1>4, <1>5, <1>11, <1>12 DEF QueueOK


-----------------------------------------------------------------------------
\* the port thread holds asynManagerLock exactly at these places
LockInv ==
    mgr <=> pc \in {"drain", "portAuto", "devAuto", "scanStart", "visit",
                    "recheck", "test", "release"}

\* it has an asynUser exactly while it scans the queues or serves
UserInv ==
    /\ pc \in {"wait", "lock", "drain", "scanStart", "release"} => puserPvt = Null
    /\ pc \in {"devAuto", "visit", "recheck", "test"} \/ Serving => puserPvt # Null
    /\ Serving /\ ~fromConnect => pdpCommon # Null

\* while it has not lost the lock, or nobody has announced a change since,
\* the asynUser it looks at is still where it was
FreshInv ==
    /\ puserPvt # Null
    /\ \/ pc \in {"visit", "test"}
       \/ /\ pc \in {"portAuto", "devAuto", "attempt", "attempted", "recheck"}
          /\ ~queueStateChange
    => /\ isQueued[puserPvt]
       /\ ~Holds(queueList[Connect], puserPvt)
       /\ pdpCommon = dev[puserPvt]

\* disconnect refuses a queued asynUser
BoundInv == \A u \in Users : isQueued[u] => dev[u] # Null

ThreadInv == LockInv /\ UserInv /\ FreshInv /\ BoundInv /\ BlockExcludes

IInv == TypeOK /\ QueueOK /\ ThreadInv

\* The consistency of the lists is about the lists and isQueued alone.
LEMMA QueueFrame ==
    ASSUME QueueOK, UNCHANGED queueVars
    PROVE  QueueOK'
BY DEF QueueOK, queueVars, Holds

\* steps of other threads that leave the lists alone
LEMMA OtherFrame ==
    ASSUME TypeOK, ThreadInv,
           UNCHANGED <<pc, puserPvt, pdpCommon, fromConnect, mgr, queueVars, dev>>,
           queueStateChange' \in {queueStateChange, TRUE},
           portHolder' \in {portHolder, Null},
           \A d \in DPs : devHolder'[d] \in {devHolder[d], Null},
           devHolder' \in [DPs -> Users \union {Null}]
    PROVE  ThreadInv'
<1> USE DEF queueVars
<1>1. LockInv' /\ UserInv' /\ FreshInv' /\ BoundInv'
  BY DEF ThreadInv, LockInv, UserInv, FreshInv, BoundInv, Serving, TypeOK, Holds
<1>2. BlockExcludes'
  <2>1. Serving /\ ~fromConnect => pdpCommon \in DPs
    BY DEF TypeOK, ThreadInv, UserInv
  <2> QED  BY <2>1 DEF ThreadInv, BlockExcludes, Serving, TypeOK
<1> QED  BY <1>1, <1>2 DEF ThreadInv

\* registerPort establishes the invariant.
LEMMA InitIInv == Init => IInv
<1> SUFFICES ASSUME Init PROVE IInv
  OBVIOUS
<1> USE NamesAssumption, EnvironmentAssumption DEF Init
<1>1. TypeOK
  <2>1. queueList \in [AllPriorities -> Seq(Users)]
    BY EmptySeq
  <2>2. /\ enabled \in [DPs -> BOOLEAN]
        /\ connected \in [DPs -> BOOLEAN]
        /\ devHolder \in [DPs -> Users \union {Null}]
        /\ dev \in [Users -> DPs \union {Null}]
        /\ target \in DPs
    BY DEF DPs
  <2>3. /\ blockPortCount \in [Users -> 0..MaxBlock]
        /\ blockDeviceCount \in [Users -> 0..MaxBlock]
    OBVIOUS
  <2> QED  BY <2>1, <2>2, <2>3 DEF TypeOK, PtPlaces
<1>2. QueueOK
  BY DEF QueueOK, Holds
<1>3. ThreadInv
  BY DEF ThreadInv, LockInv, UserInv, FreshInv, BoundInv, BlockExcludes, Serving
<1> QED  BY <1>1, <1>2, <1>3 DEF IInv

\* The first section of every operation of the asynManager interface keeps the
\* invariant, whoever calls it and whatever the port thread is doing.
LEMMA OperationStep ==
    ASSUME IInv, NEW a \in Actors, Operation(a)
    PROVE  IInv'
<1> USE EnvironmentAssumption
    DEF IInv, queueVars, eventVars, dpVars, portVars, blockVars, timerVars,
        cancelVars, userVars, lockVars, ptRegs, ptVars, ttVars, threadVars,
        opVars
<1>1. ASSUME NEW u \in Users, NEW p \in Priorities, NEW t \in BOOLEAN,
             queueRequest(a, u, p, t)
      PROVE  IInv'
  <2>1. /\ queueList' \in [AllPriorities -> Seq(Users)]
        /\ isQueued' = [isQueued EXCEPT ![u] = TRUE]
        /\ QueueOK'
    BY <1>1, RequestKeepsQueues
  <2>2. TypeOK'
    <3>1. timed' \in [Users -> BOOLEAN] /\ timer' \in [Users -> BOOLEAN]
      BY <1>1 DEF queueRequest, SetTimeout, TypeOK
    <3>2. /\ step' \in [Actors -> {"none", "announce", "signal", "stopTimer", "waitDone"}]
          /\ arg' \in [Actors -> Users \union {Null}]
      BY <1>1 DEF queueRequest, Begin, TypeOK
    <3>3. isQueued' \in [Users -> BOOLEAN] /\ queueStateChange' \in BOOLEAN
      BY <1>1, <2>1 DEF queueRequest, TypeOK
    <3>4. UNCHANGED <<notifyPortThread, dpVars, blockVars, cancelVars, dev,
                      lockVars, threadVars>>
      BY <1>1 DEF queueRequest
    <3> QED  BY <2>1, <3>1, <3>2, <3>3, <3>4 DEF TypeOK
  <2>3. ThreadInv'
    BY <1>1, <2>1 DEF queueRequest, ThreadInv, LockInv, UserInv, FreshInv,
                      BoundInv, BlockExcludes, Serving, TypeOK
  <2> QED  BY <2>1, <2>2, <2>3
<1>2. ASSUME NEW u \in Users, cancelQueued(a, u)
      PROVE  IInv'
  <2>1. PICK p \in AllPriorities : Holds(queueList[p], u) /\ Dequeue(p, u)
    BY <1>2 DEF cancelQueued, Unqueue
  <2>2. /\ queueList' \in [AllPriorities -> Seq(Users)]
        /\ isQueued' = [isQueued EXCEPT ![u] = FALSE]
        /\ QueueOK'
    BY <2>1, DequeueKeepsQueues
  <2>3. TypeOK'
    BY <1>2, <2>2 DEF cancelQueued, Begin, TypeOK
  <2>4. ThreadInv'
    BY <1>2, <2>2 DEF cancelQueued, ThreadInv, LockInv, UserInv, FreshInv,
                      BoundInv, BlockExcludes, Serving, TypeOK
  <2> QED  BY <2>2, <2>3, <2>4
<1>3. ASSUME NEW u \in Users, cancelActive(a, u)
      PROVE  IInv'
  <2>1. TypeOK'
    BY <1>3 DEF cancelActive, Begin, TypeOK
  <2> QED  BY <1>3, <2>1, QueueFrame, OtherFrame DEF cancelActive, TypeOK
<1>4. ASSUME NEW u \in Users, NEW all \in BOOLEAN, blockProcessCallback(a, u, all)
      PROVE  IInv'
  <2>1. TypeOK'
    BY <1>4 DEF blockProcessCallback, TypeOK
  <2> QED  BY <1>4, <2>1, QueueFrame, OtherFrame DEF blockProcessCallback, TypeOK
<1>5. ASSUME NEW u \in Users, unblockPort(a, u)
      PROVE  IInv'
  <2>0. blockPortCount' \in [Users -> 0..MaxBlock]
    BY <1>5 DEF unblockPort, MayUnblock, TypeOK
  <2>1. TypeOK'
    <3>1. /\ portHolder' \in Users \union {Null}
          /\ step' \in [Actors -> {"none", "announce", "signal", "stopTimer", "waitDone"}]
          /\ arg' \in [Actors -> Users \union {Null}]
      BY <1>5 DEF unblockPort, DropPortHolder, Begin, TypeOK
    <3>2. UNCHANGED <<queueList, isQueued, queueStateChange, notifyPortThread,
             enabled, connected, devHolder, blockDeviceCount, timed, timer, state,
             callbackDone, dev, mgr, syncLock, pc, puserPvt, pdpCommon,
             fromConnect, callTimeoutUser, target, tt, ttUser>>
      BY <1>5 DEF unblockPort
    <3>3. /\ queueList' \in [AllPriorities -> Seq(Users)]
          /\ queueStateChange' \in BOOLEAN /\ notifyPortThread' \in BOOLEAN
          /\ enabled' \in [DPs -> BOOLEAN] /\ connected' \in [DPs -> BOOLEAN]
          /\ devHolder' \in [DPs -> Users \union {Null}]
          /\ isQueued' \in [Users -> BOOLEAN]
          /\ state' \in [Users -> {"idle", "active", "canceled"}]
          /\ timed' \in [Users -> BOOLEAN] /\ timer' \in [Users -> BOOLEAN]
          /\ callbackDone' \in [Users -> BOOLEAN]
      BY <3>2 DEF TypeOK
    <3>4. /\ blockDeviceCount' \in [Users -> 0..MaxBlock]
          /\ dev' \in [Users -> DPs \union {Null}]
          /\ mgr' \in BOOLEAN /\ syncLock' \in Actors \union {Null}
          /\ pc' \in PtPlaces
          /\ puserPvt' \in Users \union {Null} /\ pdpCommon' \in DPs \union {Null}
          /\ fromConnect' \in BOOLEAN /\ callTimeoutUser' \in BOOLEAN
          /\ target' \in DPs
          /\ tt' \in {"idle", "fired", "call"} /\ ttUser' \in Users \union {Null}
      BY <3>2 DEF TypeOK
    <3> QED  BY ONLY <2>0, <3>1, <3>3, <3>4 DEF TypeOK
  <2>2. /\ portHolder' \in {portHolder, Null}
        /\ UNCHANGED <<portVars, devHolder, blockDeviceCount, timerVars,
                      cancelVars, dev, lockVars, threadVars>>
    BY <1>5 DEF unblockPort, DropPortHolder
  <2> QED  BY <2>1, <2>2, QueueFrame, OtherFrame DEF TypeOK
<1>6. ASSUME NEW u \in Users, unblockDevice(a, u)
      PROVE  IInv'
  <2>0. blockDeviceCount' \in [Users -> 0..MaxBlock]
    BY <1>6 DEF unblockDevice, MayUnblock, TypeOK
  <2>1. TypeOK'
    <3>1. /\ devHolder' \in [DPs -> Users \union {Null}]
          /\ step' \in [Actors -> {"none", "announce", "signal", "stopTimer", "waitDone"}]
          /\ arg' \in [Actors -> Users \union {Null}]
      BY <1>6 DEF unblockDevice, Begin, TypeOK
    <3>2. UNCHANGED <<queueList, isQueued, queueStateChange, notifyPortThread,
             enabled, connected, portHolder, blockPortCount, timed, timer, state,
             callbackDone, dev, mgr, syncLock, pc, puserPvt, pdpCommon,
             fromConnect, callTimeoutUser, target, tt, ttUser>>
      BY <1>6 DEF unblockDevice
    <3> QED  BY <2>0, <3>1, <3>2 DEF TypeOK
  <2>2. \A d \in DPs : devHolder'[d] \in {devHolder[d], Null}
    BY <1>6 DEF unblockDevice, TypeOK
  <2> QED  BY <1>6, <2>1, <2>2, QueueFrame, OtherFrame DEF unblockDevice, TypeOK
<1>7. ASSUME NEW u \in Users, NEW d \in DPs, connectDevice(a, u, d)
      PROVE  IInv'
  <2>1. TypeOK'
    BY <1>7 DEF connectDevice, TypeOK
  <2>2. ThreadInv'
    BY <1>7, NamesAssumption DEF connectDevice, ThreadInv, LockInv, UserInv,
       FreshInv, BoundInv, BlockExcludes, Serving, TypeOK
  <2> QED  BY <1>7, <2>1, <2>2, QueueFrame DEF connectDevice
<1>8. ASSUME NEW u \in Users, disconnect(a, u)
      PROVE  IInv'
  <2>1. TypeOK'
    BY <1>8 DEF disconnect, TypeOK
  <2>2. ThreadInv'
    BY <1>8 DEF disconnect, ThreadInv, LockInv, UserInv, FreshInv, BoundInv,
                BlockExcludes, Serving, TypeOK
  <2> QED  BY <1>8, <2>1, <2>2, QueueFrame DEF disconnect
<1>9. CASE lockPort(a)
  <2>1. TypeOK'
    BY <1>9 DEF lockPort, TypeOK
  <2> QED  BY <1>9, <2>1, QueueFrame, OtherFrame DEF lockPort, TypeOK
<1>10. CASE unlockPort(a)
  <2>1. TypeOK'
    BY <1>10 DEF unlockPort, TypeOK
  <2> QED  BY <1>10, <2>1, QueueFrame, OtherFrame DEF unlockPort, TypeOK
<1>11. ASSUME NEW d \in DPs, exceptionConnect(a, d)
       PROVE  IInv'
  <2>1. TypeOK'
    BY <1>11 DEF exceptionConnect, Begin, TypeOK
  <2> QED  BY <1>11, <2>1, QueueFrame, OtherFrame DEF exceptionConnect, TypeOK
<1>12. ASSUME NEW d \in DPs, exceptionDisconnect(a, d)
       PROVE  IInv'
  <2>1. TypeOK'
    BY <1>12 DEF exceptionDisconnect, Begin, TypeOK
  <2> QED  BY <1>12, <2>1, QueueFrame, OtherFrame DEF exceptionDisconnect, TypeOK
<1>13. ASSUME NEW d \in DPs, NEW yesNo \in BOOLEAN, enable(a, d, yesNo)
       PROVE  IInv'
  <2>1. TypeOK'
    BY <1>13 DEF enable, Begin, TypeOK
  <2> QED  BY <1>13, <2>1, QueueFrame, OtherFrame DEF enable, TypeOK
<1> QED
  BY <1>1, <1>2, <1>3, <1>4, <1>5, <1>6, <1>7, <1>8, <1>9, <1>10, <1>11,
     <1>12, <1>13 DEF Operation

\* So does the rest of an operation, after the lock is released.
LEMMA ProceedStep ==
    ASSUME IInv, NEW a \in Actors, Proceed(a)
    PROVE  IInv'
<1> USE DEF IInv, queueVars, eventVars, dpVars, portVars, blockVars,
        timerVars, cancelVars, userVars, lockVars, ptRegs, ptVars, ttVars,
        threadVars, opVars
<1>1. CASE Announce(a)
  <2>1. TypeOK'
    BY <1>1 DEF Announce, TypeOK
  <2> QED  BY <1>1, <2>1, QueueFrame, OtherFrame DEF Announce, TypeOK
<1>2. CASE Signal(a)
  <2>1. TypeOK'
    BY <1>2 DEF Signal, Begin, TypeOK
  <2> QED  BY <1>2, <2>1, QueueFrame, OtherFrame DEF Signal, TypeOK
<1>3. CASE StopTimer(a)
  <2>0. timer' \in [Users -> BOOLEAN]
    BY <1>3 DEF StopTimer, TypeOK
  <2>1. TypeOK'
    BY <1>3, <2>0 DEF StopTimer, TypeOK
  <2> QED  BY <1>3, <2>1, QueueFrame, OtherFrame DEF StopTimer, TypeOK
<1>4. CASE WaitDone(a)
  <2>0. callbackDone' \in [Users -> BOOLEAN]
    BY <1>4 DEF WaitDone, TypeOK
  <2>1. TypeOK'
    BY <1>4, <2>0, NamesAssumption DEF WaitDone, Begin, TypeOK
  <2> QED  BY <1>4, <2>1, QueueFrame, OtherFrame DEF WaitDone, TypeOK
<1> QED  BY <1>1, <1>2, <1>3, <1>4 DEF Proceed

\* queueTimeoutCallback keeps the invariant.
LEMMA TimerThreadStep ==
    ASSUME IInv, TimerStep
    PROVE  IInv'
<1> USE NamesAssumption
    DEF IInv, queueVars, eventVars, dpVars, portVars, blockVars,
        timerVars, cancelVars, userVars, lockVars, ptRegs, ptVars, ttVars,
        threadVars, opVars
<1>1. ASSUME NEW u \in Users, Expire(u)
      PROVE  IInv'
  <2>1. TypeOK'
    BY <1>1 DEF Expire, TypeOK
  <2> QED  BY <1>1, <2>1, QueueFrame, OtherFrame DEF Expire, TypeOK
<1>2. CASE TimeoutTooLate
  <2>1. TypeOK'
    BY <1>2 DEF TimeoutTooLate, TypeOK
  <2> QED  BY <1>2, <2>1, QueueFrame, OtherFrame DEF TimeoutTooLate, TypeOK
<1>3. CASE Timeout
  <2>1. PICK p \in AllPriorities :
           Holds(queueList[p], ttUser) /\ Dequeue(p, ttUser)
    BY <1>3 DEF Timeout, Unqueue
  <2>2. ttUser \in Users
    <3>1. PICK i \in DOMAIN queueList[p] : queueList[p][i] = ttUser
      BY <2>1 DEF Holds
    <3>2. queueList[p] \in Seq(Users)
      BY DEF TypeOK
    <3> QED  BY <3>1, <3>2, ElementOfSeq, LenProperties
  <2>3. /\ queueList' \in [AllPriorities -> Seq(Users)]
        /\ isQueued' = [isQueued EXCEPT ![ttUser] = FALSE]
        /\ QueueOK'
    BY <2>1, <2>2, DequeueKeepsQueues
  <2>4. TypeOK'
    BY <1>3, <2>2, <2>3 DEF Timeout, TypeOK
  <2>5. ThreadInv'
    BY <1>3, <2>2, <2>3 DEF Timeout, ThreadInv, LockInv, UserInv, FreshInv,
                            BoundInv, BlockExcludes, Serving, TypeOK
  <2> QED  BY <2>3, <2>4, <2>5
<1>4. CASE TimeoutReturn
  <2>1. TypeOK'
    <3>1. /\ callbackDone' \in [Users -> BOOLEAN]
          /\ state' \in [Users -> {"idle", "active", "canceled"}]
      BY <1>4 DEF TimeoutReturn, CallbackDone, TypeOK
    <3>2. /\ step' \in [Actors -> {"none", "announce", "signal", "stopTimer", "waitDone"}]
          /\ arg' \in [Actors -> Users \union {Null}]
      BY <1>4 DEF TimeoutReturn, Begin, TypeOK, Actors
    <3> QED  BY <1>4, <3>1, <3>2 DEF TimeoutReturn, TypeOK
  <2> QED  BY <1>4, <2>1, QueueFrame, OtherFrame DEF TimeoutReturn, TypeOK
<1> QED  BY <1>1, <1>2, <1>3, <1>4 DEF TimerStep

\* an asynUser the scan may look at, or the end of the scan
Scannable(u) == \/ u = Null
                \/ u \in Users /\ isQueued[u] /\ ~Holds(queueList[Connect], u)

\* Whatever is on a Low, Medium or High list is queued there, and only there.
LEMMA ListedIsScannable ==
    ASSUME TypeOK, QueueOK, NEW p \in Low..High,
           NEW i \in DOMAIN queueList[p]
    PROVE  Scannable(queueList[p][i])
<1>1. p \in AllPriorities /\ Connect \in AllPriorities /\ p # Connect
  BY DEF AllPriorities, Low, High, Connect
<1>2. queueList[p] \in Seq(Users)
  BY <1>1 DEF TypeOK
<1>3. queueList[p][i] \in Users
  BY <1>2, ElementOfSeq, LenProperties
<1>4. isQueued[queueList[p][i]]
  BY <1>1, <1>3 DEF QueueOK, Holds
<1>5. ~Holds(queueList[Connect], queueList[p][i])
  BY <1>1 DEF QueueOK, Holds
<1> QED  BY <1>3, <1>4, <1>5 DEF Scannable

\* FirstFrom skips empty lists only.
LEMMA FirstFromOrder ==
    ASSUME TypeOK, NEW p \in -1..High
    PROVE  \/ FirstFrom(p) = Null /\ \A k \in Low..p : queueList[k] = <<>>
           \/ \E k \in Low..p : /\ queueList[k] # <<>> /\ FirstFrom(p) = queueList[k][1]
                                /\ FirstFrom(p) \in Users
                                /\ \A j \in k + 1..p : queueList[j] = <<>>
<1> DEFINE nonEmpty == {k \in Low..p : queueList[k] # <<>>}
           top == CHOOSE k \in nonEmpty : \A j \in nonEmpty : j <= k
<1>1. CASE nonEmpty = {}
  BY <1>1 DEF FirstFrom
<1>2. CASE nonEmpty # {}
  <2>1. \E k \in nonEmpty : \A j \in nonEmpty : j <= k
    <3>1. nonEmpty \subseteq {0, 1, 2}
      BY DEF Low, High
    <3>0. PICK k : k \in nonEmpty
      BY <1>2
    <3> HIDE DEF nonEmpty
    <3>2. CASE 2 \in nonEmpty
      BY <3>1, <3>2
    <3>3. CASE 2 \notin nonEmpty /\ 1 \in nonEmpty
      BY <3>1, <3>3
    <3>4. CASE 2 \notin nonEmpty /\ 1 \notin nonEmpty
      BY <3>0, <3>1, <3>4
    <3> QED  BY <3>2, <3>3, <3>4
  <2>2. top \in nonEmpty /\ \A j \in nonEmpty : j <= top
    <3> HIDE DEF nonEmpty
    <3> QED  BY <2>1
  <2>3. FirstFrom(p) = Head(queueList[top])
    BY <1>2 DEF FirstFrom
  <2> HIDE DEF top
  <2>4. top \in Low..p /\ queueList[top] # <<>>
    BY <2>2
  <2>5. \A j \in top + 1..p : queueList[j] = <<>>
    BY <2>2, <2>4 DEF Low, High
  <2>6. queueList[top] \in Seq(Users)
    BY <2>4 DEF TypeOK, AllPriorities, Low, High, Connect
  <2>7. Head(queueList[top]) = queueList[top][1] /\ queueList[top][1] \in Users
    BY <2>4, <2>6, EmptySeq, LenProperties, ElementOfSeq
  <2> QED  BY <2>3, <2>4, <2>5, <2>7
<1> QED  BY <1>1, <1>2

\* The scan starts at a queued asynUser, or there is none.
LEMMA FirstIsScannable ==
    ASSUME TypeOK, QueueOK, NEW p \in -1..High
    PROVE  Scannable(FirstFrom(p))
<1>1. CASE FirstFrom(p) = Null
  BY <1>1 DEF Scannable
<1>2. ASSUME NEW k \in Low..p, queueList[k] # <<>>, FirstFrom(p) = queueList[k][1]
      PROVE  Scannable(FirstFrom(p))
  <2>1. k \in Low..High /\ queueList[k] \in Seq(Users)
    BY DEF TypeOK, AllPriorities, Low, High, Connect
  <2>2. 1 \in DOMAIN queueList[k]
    BY <1>2, <2>1, EmptySeq, LenProperties
  <2> QED  BY <1>2, <2>1, <2>2, ListedIsScannable
<1> QED  BY <1>1, <1>2, FirstFromOrder

\* ellNext of a queued asynUser is a queued asynUser, or the scan is over.
LEMMA SuccessorIsScannable ==
    ASSUME TypeOK, QueueOK, NEW u \in Users, isQueued[u],
           ~Holds(queueList[Connect], u)
    PROVE  Scannable(Successor(u))
<1> DEFINE p == CHOOSE k \in AllPriorities : Holds(queueList[k], u)
           i == Position(queueList[p], u)
<1>1. p \in AllPriorities /\ Holds(queueList[p], u)
  BY DEF QueueOK
<1>2. p \in Low..High
  BY <1>1 DEF AllPriorities, Low, High, Connect
<1>3. queueList[p] \in Seq(Users)
  BY <1>1 DEF TypeOK
<1>4. Successor(u) = IF i < Len(queueList[p]) THEN queueList[p][i + 1]
                     ELSE FirstFrom(p - 1)
  BY DEF Successor
<1> HIDE DEF p
<1>5. i \in 1..Len(queueList[p])
  BY <1>1, <1>3, PositionFound
<1> HIDE DEF i
<1>6. CASE i < Len(queueList[p])
  <2>1. i + 1 \in DOMAIN queueList[p]
    BY <1>3, <1>5, <1>6, LenProperties
  <2> QED  BY <1>2, <1>4, <1>6, <2>1, ListedIsScannable
<1>7. CASE ~(i < Len(queueList[p]))
  <2>1. p - 1 \in -1..High
    BY <1>2 DEF Low, High
  <2> QED  BY <1>4, <1>7, <2>1, FirstIsScannable
<1> QED  BY <1>6, <1>7

\* the port thread leaves the lists alone, holds the lock exactly where it
\* should and goes to a place whose conditions hold
LEMMA VisitKeepsInv ==
    ASSUME TypeOK, QueueOK, ThreadInv, NEW u, Scannable(u), mgr,
           Visit(u), UNCHANGED <<queueVars, dev, mgr>>
    PROVE  ThreadInv'
<1>1. u = Null \/ u \in Users
  BY DEF Scannable
<1>2. LockInv' /\ UserInv' /\ FreshInv' /\ BoundInv' /\ BlockExcludes'
  BY NamesAssumption DEF Scannable, Visit, ThreadInv, LockInv, UserInv, FreshInv,
     BoundInv, BlockExcludes, Serving, queueVars, Holds
<1> QED  BY <1>2 DEF ThreadInv

\* The port thread takes an asynUser off its list to serve it.
LEMMA ServeKeepsQueues ==
    ASSUME TypeOK, QueueOK, NEW p \in AllPriorities, NEW u,
           Holds(queueList[p], u), Serve(p, u)
    PROVE  /\ u \in Users
           /\ queueList' \in [AllPriorities -> Seq(Users)]
           /\ isQueued' = [isQueued EXCEPT ![u] = FALSE]
           /\ QueueOK'
<1>1. PICK i \in DOMAIN queueList[p] : queueList[p][i] = u
  BY DEF Holds
<1>2. queueList[p] \in Seq(Users)
  BY DEF TypeOK
<1>3. u \in Users
  BY <1>1, <1>2, ElementOfSeq, LenProperties
<1> QED  BY <1>3, DequeueKeepsQueues DEF Serve

\* Every step of portThread keeps the invariant.
LEMMA PortThreadStep ==
    ASSUME IInv, PortStep
    PROVE  IInv'
<1> USE NamesAssumption
    DEF IInv, queueVars, eventVars, dpVars, portVars, blockVars,
        timerVars, cancelVars, userVars, lockVars, ptRegs, ptVars, ttVars,
        threadVars, opVars
<1> USE DEF Goto
<1>1. CASE Wake
  <2>1. TypeOK'
    <3>1. pc' \in PtPlaces /\ notifyPortThread' \in BOOLEAN
      BY <1>1 DEF Wake, PtPlaces
    <3> QED  BY <1>1, <3>1 DEF Wake, TypeOK
  <2>2. ThreadInv'
    BY <1>1 DEF Wake, ThreadInv, LockInv, UserInv, FreshInv, BoundInv,
                BlockExcludes, Serving
  <2> QED  BY <1>1, <2>1, <2>2, QueueFrame DEF Wake
<1>2. CASE Lock
  <2>0. enabled[Port] \in BOOLEAN
    BY DEF TypeOK, DPs
  <2>1. TypeOK'
    BY <1>2, <2>0 DEF Lock, TypeOK, PtPlaces
  <2>2. ThreadInv'
    BY <1>2, <2>0 DEF Lock, ThreadInv, LockInv, UserInv, FreshInv, BoundInv,
                BlockExcludes, Serving
  <2> QED  BY <1>2, <2>1, <2>2, QueueFrame DEF Lock
<1>3. CASE DrainOne
  <2> DEFINE u == Head(queueList[Connect])
  <2>1. Connect \in AllPriorities
    BY DEF AllPriorities, Low, Connect
  <2>2. Holds(queueList[Connect], u)
    <3>1. queueList[Connect] \in Seq(Users) /\ queueList[Connect] # <<>>
      BY <1>3, <2>1 DEF DrainOne, TypeOK
    <3>2. 1 \in DOMAIN queueList[Connect]
      BY <3>1, EmptySeq, LenProperties
    <3> QED  BY <3>2 DEF Holds
  <2> HIDE DEF u
  <2>3. Serve(Connect, u)
    BY <1>3 DEF DrainOne, u
  <2>4. /\ u \in Users
        /\ queueList' \in [AllPriorities -> Seq(Users)]
        /\ isQueued' = [isQueued EXCEPT ![u] = FALSE]
        /\ QueueOK'
    BY <2>1, <2>2, <2>3, ServeKeepsQueues
  <2>5. TypeOK'
    <3>1. /\ pc' \in PtPlaces /\ mgr' \in BOOLEAN /\ fromConnect' \in BOOLEAN
      BY <1>3 DEF DrainOne, Serve, PtPlaces
    <3> QED  BY <1>3, <2>3, <2>4, <3>1 DEF DrainOne, Serve, TypeOK
  <2>6. ThreadInv'
    BY <1>3, <2>3, <2>4 DEF DrainOne, Serve, ThreadInv, LockInv, UserInv,
       FreshInv, BoundInv, BlockExcludes, Serving, TypeOK
  <2> QED  BY <2>4, <2>5, <2>6
<1>4. CASE DrainDone
  <2>1. TypeOK'
    BY <1>4 DEF DrainDone, TypeOK, PtPlaces
  <2>2. ThreadInv'
    BY <1>4 DEF DrainDone, ThreadInv, LockInv, UserInv, FreshInv, BoundInv,
                BlockExcludes, Serving
  <2> QED  BY <1>4, <2>1, <2>2, QueueFrame DEF DrainDone
<1>5. CASE PortAutoSkip
  <2>1. TypeOK'
    BY <1>5 DEF PortAutoSkip, AfterPortAuto, AfterAuto, TypeOK, PtPlaces
  <2>2. ThreadInv'
    BY <1>5 DEF PortAutoSkip, AfterPortAuto, AfterAuto, Scanning, ThreadInv,
       LockInv, UserInv, FreshInv, BoundInv, BlockExcludes, Serving, Holds
  <2> QED  BY <1>5, <2>1, <2>2, QueueFrame DEF PortAutoSkip
<1>6. CASE DevAutoSkip
  <2>1. TypeOK'
    BY <1>6 DEF DevAutoSkip, AfterAuto, TypeOK, PtPlaces
  <2>2. ThreadInv'
    BY <1>6 DEF DevAutoSkip, AfterAuto, Scanning, ThreadInv, LockInv, UserInv,
       FreshInv, BoundInv, BlockExcludes, Serving, Holds
  <2> QED  BY <1>6, <2>1, <2>2, QueueFrame DEF DevAutoSkip
<1>7. CASE AutoConnectDevice
  <2>0. target' \in DPs
    BY <1>7, EnvironmentAssumption DEF AutoConnectDevice
  <2>1. TypeOK'
    <3>1. pc' \in PtPlaces /\ mgr' \in BOOLEAN
      BY <1>7 DEF AutoConnectDevice, PtPlaces
    <3> QED  BY <1>7, <2>0, <3>1 DEF AutoConnectDevice, TypeOK
  <2>2. ThreadInv'
    BY <1>7 DEF AutoConnectDevice, ThreadInv, LockInv, UserInv, FreshInv,
       BoundInv, BlockExcludes, Serving, Holds
  <2> QED  BY <1>7, <2>1, <2>2, QueueFrame DEF AutoConnectDevice
<1>8. ASSUME NEW success \in BOOLEAN, ConnectAttempt(success)
      PROVE  IInv'
  <2>1. TypeOK'
    BY <1>8 DEF ConnectAttempt, Begin, TypeOK, PtPlaces, Actors
  <2>2. ThreadInv'
    BY <1>8 DEF ConnectAttempt, ThreadInv, LockInv, UserInv, FreshInv,
       BoundInv, BlockExcludes, Serving, Holds
  <2> QED  BY <1>8, <2>1, <2>2, QueueFrame DEF ConnectAttempt
<1>9. CASE AlreadyConnected
  <2>1. TypeOK'
    BY <1>9 DEF AlreadyConnected, TypeOK, PtPlaces
  <2>2. ThreadInv'
    BY <1>9 DEF AlreadyConnected, ThreadInv, LockInv, UserInv, FreshInv,
       BoundInv, BlockExcludes, Serving, Holds
  <2> QED  BY <1>9, <2>1, <2>2, QueueFrame DEF AlreadyConnected
<1>10. CASE Attempted
  <2>1. TypeOK'
    BY <1>10 DEF Attempted, AfterPortAuto, AfterAuto, TypeOK, PtPlaces
  <2>2. ThreadInv'
    BY <1>10 DEF Attempted, AfterPortAuto, AfterAuto, Scanning, ThreadInv,
       LockInv, UserInv, FreshInv, BoundInv, BlockExcludes, Serving, Holds
  <2> QED  BY <1>10, <2>1, <2>2, QueueFrame DEF Attempted
<1>11. CASE ScanStart
  <2>1. Scannable(FirstFrom(High))
    BY FirstIsScannable DEF High
  <2>2. TypeOK'
    <3>1. /\ pc' \in PtPlaces /\ callTimeoutUser' \in BOOLEAN
          /\ queueStateChange' \in BOOLEAN
      BY <1>11 DEF ScanStart, Visit, PtPlaces
    <3>2. puserPvt' \in Users \union {Null} /\ pdpCommon' \in DPs \union {Null}
      BY <1>11, <2>1 DEF ScanStart, Visit, Scannable, TypeOK
    <3> QED  BY <1>11, <3>1, <3>2 DEF ScanStart, TypeOK
  <2>3. ThreadInv'
    BY <1>11, <2>1, VisitKeepsInv DEF ScanStart, ThreadInv, LockInv
  <2> QED  BY <1>11, <2>2, <2>3, QueueFrame DEF ScanStart
<1>12. CASE VisitDisabled
  <2>1. Scannable(Successor(puserPvt))
    BY <1>12, SuccessorIsScannable
       DEF VisitDisabled, ThreadInv, UserInv, FreshInv, TypeOK
  <2>2. TypeOK'
    BY <1>12, <2>1 DEF VisitDisabled, Visit, Scannable, TypeOK, PtPlaces
  <2>3. ThreadInv'
    BY <1>12, <2>1, VisitKeepsInv DEF VisitDisabled, ThreadInv, LockInv
  <2> QED  BY <1>12, <2>2, <2>3, QueueFrame DEF VisitDisabled
<1>13. CASE VisitEnabled
  <2>1. TypeOK'
    BY <1>13 DEF VisitEnabled, TypeOK, PtPlaces
  <2>2. ThreadInv'
    BY <1>13 DEF VisitEnabled, ThreadInv, LockInv, UserInv, FreshInv,
       BoundInv, BlockExcludes, Serving, Holds
  <2> QED  BY <1>13, <2>1, <2>2, QueueFrame DEF VisitEnabled
<1>14. CASE Recheck
  <2>1. TypeOK'
    BY <1>14 DEF Recheck, TypeOK, PtPlaces
  <2>2. ThreadInv'
    BY <1>14 DEF Recheck, ThreadInv, LockInv, UserInv, FreshInv, BoundInv,
       BlockExcludes, Serving, Holds
  <2> QED  BY <1>14, <2>1, <2>2, QueueFrame DEF Recheck
<1>15. CASE TestBlocked
  <2>1. Scannable(Successor(puserPvt))
    BY <1>15, SuccessorIsScannable
       DEF TestBlocked, ThreadInv, UserInv, FreshInv, TypeOK
  <2>2. TypeOK'
    BY <1>15, <2>1
       DEF TestBlocked, WantsTimeoutUser, Visit, Scannable, TypeOK, PtPlaces
  <2>3. ThreadInv'
    BY <1>15, <2>1, VisitKeepsInv DEF TestBlocked, ThreadInv, LockInv
  <2> QED  BY <1>15, <2>2, <2>3, QueueFrame DEF TestBlocked
<1>16. CASE TestServe
  <2>1. PICK p \in Low..High :
           Holds(queueList[p], puserPvt) /\ Serve(p, puserPvt)
    BY <1>16 DEF TestServe
  <2>2. p \in AllPriorities
    BY DEF AllPriorities, Low, High, Connect
  <2>3. /\ puserPvt \in Users
        /\ queueList' \in [AllPriorities -> Seq(Users)]
        /\ isQueued' = [isQueued EXCEPT ![puserPvt] = FALSE]
        /\ QueueOK'
    BY <2>1, <2>2, ServeKeepsQueues
  <2>4. TypeOK'
    BY <1>16, <2>1, <2>3
       DEF TestServe, Serve, WantsTimeoutUser, TypeOK, PtPlaces
  <2>5. pdpCommon # Null
    BY <1>16, <2>3 DEF TestServe, ThreadInv, FreshInv, BoundInv
  <2>6. LockInv' /\ UserInv' /\ FreshInv' /\ BoundInv'
    BY <1>16, <2>1, <2>3, <2>5 DEF TestServe, Serve, ThreadInv, LockInv,
       UserInv, FreshInv, BoundInv, Serving, TypeOK
  <2>7. BlockExcludes'
    BY <1>16, <2>1 DEF TestServe, Serve, NotBlocked, BlockExcludes
  <2> QED  BY <2>3, <2>4, <2>6, <2>7 DEF ThreadInv
<1>17. CASE Release
  <2>1. TypeOK'
    <3>1. pc' \in PtPlaces /\ mgr' \in BOOLEAN
      BY <1>17 DEF Release, PtPlaces
    <3> QED  BY <1>17, <3>1 DEF Release, TypeOK
  <2>2. ThreadInv'
    BY <1>17 DEF Release, ThreadInv, LockInv, UserInv, FreshInv, BoundInv,
       BlockExcludes, Serving
  <2> QED  BY <1>17, <2>1, <2>2, QueueFrame DEF Release
<1>18. CASE ServeStopTimer
  <2>0. timer' \in [Users -> BOOLEAN]
    BY <1>18 DEF ServeStopTimer, StopsTimer, TypeOK
  <2>1. TypeOK'
    BY <1>18, <2>0 DEF ServeStopTimer, StopsTimer, TypeOK, PtPlaces
  <2>2. ThreadInv'
    BY <1>18 DEF ServeStopTimer, ThreadInv, LockInv, UserInv, FreshInv,
       BoundInv, BlockExcludes, Serving
  <2> QED  BY <1>18, <2>1, <2>2, QueueFrame DEF ServeStopTimer
<1>19. CASE ServeLockSync
  <2>1. TypeOK'
    BY <1>19 DEF ServeLockSync, TypeOK, PtPlaces, Actors
  <2>2. ThreadInv'
    BY <1>19 DEF ServeLockSync, ThreadInv, LockInv, UserInv, FreshInv,
       BoundInv, BlockExcludes, Serving
  <2> QED  BY <1>19, <2>1, <2>2, QueueFrame DEF ServeLockSync
<1>20. CASE CallReturn
  <2>1. TypeOK'
    BY <1>20 DEF CallReturn, TypeOK, PtPlaces
  <2>2. ThreadInv'
    BY <1>20 DEF CallReturn, ThreadInv, LockInv, UserInv, FreshInv,
       BoundInv, BlockExcludes, Serving
  <2> QED  BY <1>20, <2>1, <2>2, QueueFrame DEF CallReturn
<1>21. CASE DoneConnect
  <2>1. TypeOK'
    <3>1. /\ pc' \in PtPlaces /\ mgr' \in BOOLEAN
          /\ puserPvt' \in Users \union {Null}
      BY <1>21 DEF DoneConnect, PtPlaces
    <3>2. /\ callbackDone' \in [Users -> BOOLEAN]
          /\ state' \in [Users -> {"idle", "active", "canceled"}]
      BY <1>21 DEF DoneConnect, CallbackDone, TypeOK
    <3> QED  BY <1>21, <3>1, <3>2 DEF DoneConnect, TypeOK
  <2>2. ThreadInv'
    BY <1>21 DEF DoneConnect, ThreadInv, LockInv, UserInv, FreshInv,
       BoundInv, BlockExcludes, Serving
  <2> QED  BY <1>21, <2>1, <2>2, QueueFrame DEF DoneConnect
<1>22. CASE Done
  <2>0. /\ portHolder' \in Users \union {Null}
        /\ devHolder' \in [DPs -> Users \union {Null}]
        /\ callbackDone' \in [Users -> BOOLEAN]
    BY <1>22 DEF Done, CallbackDone, TypeOK
  <2>1. TypeOK'
    BY <1>22, <2>0 DEF Done, AfterDone, CallbackDone, ThreadInv, UserInv, Serving,
                 TypeOK, PtPlaces
  <2>2. ThreadInv'
    BY <1>22 DEF Done, AfterDone, ThreadInv, LockInv, UserInv, FreshInv,
       BoundInv, BlockExcludes, Serving
  <2> QED  BY <1>22, <2>1, <2>2, QueueFrame DEF Done
<1> QED
  BY <1>1, <1>2, <1>3, <1>4, <1>5, <1>6, <1>7, <1>8, <1>9, <1>10, <1>11,
     <1>12, <1>13, <1>14, <1>15, <1>16, <1>17, <1>18, <1>19, <1>20, <1>21,
     <1>22 DEF PortStep

-----------------------------------------------------------------------------
\* The invariant is inductive.
LEMMA NextKeepsIInv == IInv /\ [Next]_vars => IInv'
<1> SUFFICES ASSUME IInv, [Next]_vars PROVE IInv'
  OBVIOUS
<1>1. CASE Next
  BY <1>1, OperationStep, ProceedStep, TimerThreadStep, PortThreadStep DEF Next
<1>2. CASE UNCHANGED vars
  <2> USE <1>2 DEF vars, queueVars, eventVars, dpVars, portVars, blockVars,
        timerVars, cancelVars, userVars, lockVars, ptRegs, ptVars, ttVars,
        threadVars, opVars
  <2>1. TypeOK'
    BY DEF IInv, TypeOK
  <2>2. QueueOK'
    BY QueueFrame DEF IInv
  <2>3. ThreadInv'
    BY DEF IInv, ThreadInv, LockInv, UserInv, FreshInv, BoundInv,
           BlockExcludes, Serving, Holds
  <2> QED  BY <2>1, <2>2, <2>3 DEF IInv
<1> QED  BY <1>1, <1>2

\* The invariant holds in every reachable state of the port.
THEOREM Invariance == Spec => []IInv
BY InitIInv, NextKeepsIInv, PTL DEF Spec

\* Every variable keeps its type: in particular block counts stay within
\* bounds and neither the scan nor a callback leaves puserPvt dangling.
THEOREM TypeCorrect == Spec => []TypeOK
<1>1. IInv => TypeOK
  BY DEF IInv
<1> QED  BY <1>1, Invariance, PTL

\* isQueued and the four lists agree in every reachable state, for callers that
\* queue, cancel and time out one asynUser in any order.
THEOREM QueuesConsistent == Spec => []QueueOK
<1>1. IInv => QueueOK
  BY DEF IInv
<1> QED  BY <1>1, Invariance, PTL

\* After autoConnectDevice gave up the lock, the scan only goes on with an
\* asynUser that is still queued and still connected to pdpCommon.
THEOREM ScanNeverStale == Spec => []ScanFresh
<1>1. IInv => ScanFresh
  BY DEF IInv, ThreadInv, UserInv, FreshInv, ScanFresh
<1> QED  BY <1>1, Invariance, PTL

\* No asynUser is served while another one blocks the port or the device.
THEOREM BlockingExcludes == Spec => []BlockExcludes
<1>1. IInv => BlockExcludes
  BY DEF IInv, ThreadInv
<1> QED  BY <1>1, Invariance, PTL

-----------------------------------------------------------------------------
(***************************************************************************)
(* Callbacks, timers and cancelRequest, for callers that keep to one       *)
(* request and one cancelRequest of an asynUser at a time (FreeUse is      *)
(* FALSE: MayQueue and MayCancel say what that means).  A timer that is    *)
(* running belongs to the request on the queue, or somebody who took that  *)
(* request off the queue is about to stop it; so the timer thread and the  *)
(* port thread never run callbacks of one asynUser together, and at most   *)
(* one thread waits for the end of a callback.                             *)
(***************************************************************************)
\* actor a has taken u off its queue in cancelRequest and stops its timer
Stops(a, u) == step[a] = "stopTimer" /\ arg[a] = u

\* actor a waits in cancelRequest for the end of a callback of u
Waits(a, u) == step[a] = "waitDone" /\ arg[a] = u

\* the timer of u has expired, queueTimeoutCallback waits for the lock
Fired(u) == tt = "fired" /\ ttUser = u

TimerOf(u) ==
    /\ timer[u] \/ Fired(u) =>
          /\ timed[u]
          /\ \/ isQueued[u]
             \/ \E a \in Actors : Stops(a, u)
             \/ pc = "stopTimer" /\ puserPvt = u
    /\ ~(timer[u] /\ Fired(u))
    /\ (\E a \in Actors : Stops(a, u)) => ~isQueued[u] /\ state[u] = "idle"
    /\ isQueued[u] => ~TtServes(u) /\ (timed[u] => state[u] = "idle")
    /\ pc = "stopTimer" /\ puserPvt = u => ~isQueued[u]

CallOf(u) ==
    /\ state[u] # "idle" <=> PtServes(u) \/ TtServes(u)
    /\ ~(PtServes(u) /\ TtServes(u))

WaitOf(u) ==
    /\ \A a, b \in Actors : Waits(a, u) /\ Waits(b, u) => a = b
    /\ (\E a \in Actors : Waits(a, u)) <=> (state[u] = "canceled") \/ callbackDone[u]
    /\ ~(state[u] = "canceled" /\ callbackDone[u])

\* cancelRequest is called by client threads
CancelInv == \A a \in Actors : step[a] \in {"stopTimer", "waitDone"} => a \in Clients

HandshakeInv == CancelInv /\ \A u \in Users : TimerOf(u) /\ CallOf(u) /\ WaitOf(u)

\* no cancelRequest of the actor begins or ends
NoCancel(a) ==
    \/ step'[a] = step[a] /\ arg'[a] = arg[a]
    \/ step[a] \notin {"stopTimer", "waitDone"} /\ step'[a] \notin {"stopTimer", "waitDone"}

\* the port thread neither starts nor ends to serve an asynUser
SameService ==
    \/ pc' = pc /\ puserPvt' = puserPvt
    \/ pc \in PtPlaces \ {"stopTimer", "lockSync", "call", "done"}
       /\ pc' \in PtPlaces \ {"stopTimer", "lockSync", "call", "done"}
    \/ pc \in {"lockSync", "call", "done"} /\ pc' \in {"lockSync", "call", "done"}
       /\ puserPvt' = puserPvt

\* Steps that touch no callback, no timer, no queue and no cancelRequest.
LEMMA HandshakeFrame ==
    ASSUME HandshakeInv,
           UNCHANGED <<state, callbackDone, timed, timer, isQueued, tt, ttUser>>,
           SameService, \A a \in Actors : NoCancel(a)
    PROVE  HandshakeInv'
<1>1. \A a \in Actors, u \in Users : (Stops(a, u)' <=> Stops(a, u)) /\ (Waits(a, u)' <=> Waits(a, u))
  BY DEF NoCancel, Stops, Waits
<1>2. \A u \in Users : (PtServes(u)' <=> PtServes(u)) /\ (TtServes(u)' <=> TtServes(u)) /\ (Fired(u)' <=> Fired(u))
  BY DEF SameService, PtServes, TtServes, Serving, Fired
<1>3. \A u \in Users : (pc = "stopTimer" /\ puserPvt = u) <=> (pc' = "stopTimer" /\ puserPvt' = u)
  BY DEF SameService
<1>4. CancelInv'
  BY DEF HandshakeInv, CancelInv, NoCancel
<1>5. ASSUME NEW u \in Users PROVE TimerOf(u)' /\ CallOf(u)' /\ WaitOf(u)'
  <2> USE <1>1, <1>2, <1>3
  <2>1. TimerOf(u)'
    BY DEF HandshakeInv, TimerOf
  <2>2. CallOf(u)'
    BY DEF HandshakeInv, CallOf
  <2>3. WaitOf(u)'
    BY DEF HandshakeInv, WaitOf
  <2> QED  BY <2>1, <2>2, <2>3
<1> QED  BY <1>4, <1>5 DEF HandshakeInv

LEMMA HandshakeInit == Init => HandshakeInv
BY NamesAssumption DEF Init, HandshakeInv, CancelInv, TimerOf, CallOf, WaitOf, Stops, Waits, Fired, PtServes, TtServes, Serving

\* Operations that touch no callback are steps of the frame.
LEMMA OtherOperationHandshake ==
    ASSUME TypeOK, HandshakeInv, NEW a \in Actors,
           \/ \E u \in Users : \/ \E all \in BOOLEAN : blockProcessCallback(a, u, all)
                               \/ unblockPort(a, u) \/ unblockDevice(a, u)
                               \/ \E d \in DPs : connectDevice(a, u, d)
                               \/ disconnect(a, u)
           \/ lockPort(a) \/ unlockPort(a)
           \/ \E d \in DPs : \/ exceptionConnect(a, d) \/ exceptionDisconnect(a, d)
                             \/ \E yesNo \in BOOLEAN : enable(a, d, yesNo)
    PROVE  HandshakeInv'
<1> USE DEF queueVars, eventVars, dpVars, portVars, blockVars,
        timerVars, cancelVars, userVars, lockVars, ptRegs, ptVars, ttVars, threadVars, opVars
<1>1. UNCHANGED <<state, callbackDone, timed, timer, isQueued, tt, ttUser, pc, puserPvt>>
  BY DEF blockProcessCallback, unblockPort, unblockDevice, connectDevice, disconnect, lockPort,
         unlockPort, exceptionConnect, exceptionDisconnect, enable
<1>2. \/ UNCHANGED <<step, arg>>
      \/ step[a] = "none" /\ \E k \in {"announce", "signal"}, x \in Users \union {Null} :
            step' = [step EXCEPT ![a] = k] /\ arg' = [arg EXCEPT ![a] = x]
  BY DEF blockProcessCallback, unblockPort, unblockDevice, connectDevice, disconnect, lockPort,
         unlockPort, exceptionConnect, exceptionDisconnect, enable, DropPortHolder, Begin, Ready
<1>3. \A b \in Actors : NoCancel(b)
  BY <1>2 DEF NoCancel, TypeOK
<1> QED  BY <1>1, <1>3, HandshakeFrame DEF SameService

\* queueRequest: who may queue an asynUser finds no timer of it running.
LEMMA RequestHandshake ==
    ASSUME FreeUse = FALSE, IInv, HandshakeInv, NEW a \in Actors, NEW u \in Users,
           NEW p \in AllPriorities, NEW t \in BOOLEAN, queueRequest(a, u, p, t)
    PROVE  HandshakeInv'
<1> USE DEF queueVars, eventVars, dpVars, portVars, blockVars,
        timerVars, cancelVars, userVars, lockVars, ptRegs, ptVars, ttVars, threadVars, opVars
<1>1. /\ isQueued' = [isQueued EXCEPT ![u] = TRUE]
      /\ timed' = [timed EXCEPT ![u] = t]
      /\ timer' = [timer EXCEPT ![u] = timer[u] \/ t]
      /\ step[a] = "none"
      /\ step' = [step EXCEPT ![a] = "signal"] /\ arg' = [arg EXCEPT ![a] = u]
      /\ ~isQueued[u]
      /\ UNCHANGED <<state, callbackDone, tt, ttUser, pc, puserPvt>>
  BY DEF queueRequest, Accepted, SetTimeout, Begin, Ready
<1>2. \/ state[u] = "idle" /\ \A b \in Actors : arg[b] = u => step[b] = "signal"
      \/ pc = "call" /\ puserPvt = u /\ t = FALSE
  BY DEF queueRequest, MayQueue, InOwnCallback
<1>3. \A b \in Actors, v \in Users : (Stops(b, v)' <=> Stops(b, v)) /\ (Waits(b, v)' <=> Waits(b, v))
  BY <1>1 DEF Stops, Waits, IInv, TypeOK
<1>4. \A v \in Users : (PtServes(v)' <=> PtServes(v)) /\ (TtServes(v)' <=> TtServes(v)) /\ (Fired(v)' <=> Fired(v))
  BY <1>1 DEF PtServes, TtServes, Serving, Fired
<1>5. CancelInv'
  BY <1>1 DEF HandshakeInv, CancelInv, IInv, TypeOK
<1>6. /\ ~(\E b \in Actors : Stops(b, u)) /\ ~timer[u] /\ ~Fired(u)
      /\ ~TtServes(u) /\ (pc # "stopTimer" \/ puserPvt # u)
      /\ state[u] = "idle" \/ t = FALSE
  <2>1. CASE state[u] = "idle" /\ \A b \in Actors : arg[b] = u => step[b] = "signal"
    BY <1>1, <2>1 DEF HandshakeInv, TimerOf, CallOf, Stops, PtServes, Serving
  <2>2. CASE pc = "call" /\ puserPvt = u /\ t = FALSE
    BY <1>1, <2>2 DEF HandshakeInv, TimerOf, CallOf, PtServes, Serving
  <2> QED  BY <1>2, <2>1, <2>2
<1>7. ASSUME NEW v \in Users PROVE TimerOf(v)' /\ CallOf(v)' /\ WaitOf(v)'
  <2>1. TimerOf(v)'
    <3>1. CASE v = u
      <4>1. /\ isQueued'[u] /\ timed'[u] = t /\ timer'[u] = t
            /\ state'[u] = state[u] /\ pc' = pc /\ puserPvt' = puserPvt
        BY <1>1, <1>6 DEF IInv, TypeOK
      <4>2. ~TtServes(u)
        BY <1>2, <1>6 DEF HandshakeInv, CallOf, PtServes, Serving
      <4>3. ~(pc = "stopTimer" /\ puserPvt = u)
        BY <1>2 DEF HandshakeInv, CallOf, PtServes, Serving
      <4> QED  BY <1>3, <1>4, <1>6, <3>1, <4>1, <4>2, <4>3 DEF TimerOf
    <3>2. CASE v # u
      BY <1>1, <1>3, <1>4, <3>2 DEF HandshakeInv, TimerOf, IInv, TypeOK
    <3> QED  BY <3>1, <3>2
  <2>2. CallOf(v)'
    BY <1>1, <1>4 DEF HandshakeInv, CallOf
  <2>3. WaitOf(v)'
    BY <1>1, <1>3 DEF HandshakeInv, WaitOf
  <2> QED  BY <2>1, <2>2, <2>3
<1> QED  BY <1>5, <1>7 DEF HandshakeInv

\* what all the steps of cancelRequest below leave as it is
LEMMA ServesFrame ==
    ASSUME UNCHANGED <<pc, puserPvt, tt, ttUser>>
    PROVE  \A v \in Users : /\ PtServes(v)' <=> PtServes(v)
                            /\ TtServes(v)' <=> TtServes(v)
                            /\ Fired(v)' <=> Fired(v)
BY DEF PtServes, TtServes, Serving, Fired

\* cancelRequest of a queued asynUser: one that has a timer was idle.
LEMMA CancelQueuedHandshake ==
    ASSUME IInv, HandshakeInv, NEW a \in Actors, NEW u \in Users, cancelQueued(a, u)
    PROVE  HandshakeInv'
<1> USE DEF queueVars, eventVars, dpVars, portVars, blockVars,
        timerVars, cancelVars, userVars, lockVars, ptRegs, ptVars, ttVars, threadVars, opVars
<1>1. /\ isQueued' = [isQueued EXCEPT ![u] = FALSE]
      /\ isQueued[u] /\ step[a] = "none" /\ a \in Clients
      /\ step' = [step EXCEPT ![a] = IF timed[u] THEN "stopTimer" ELSE "signal"]
      /\ arg' = [arg EXCEPT ![a] = u]
      /\ UNCHANGED <<state, callbackDone, timed, timer, tt, ttUser, pc, puserPvt>>
  BY EnvironmentAssumption DEF cancelQueued, Unqueue, Dequeue, Begin, Ready, MayCancel
<1>2. \A b \in Actors, v \in Users : Waits(b, v)' <=> Waits(b, v)
  BY <1>1 DEF Waits, IInv, TypeOK
<1>3. \A b \in Actors, v \in Users : Stops(b, v)' <=> Stops(b, v) \/ (b = a /\ v = u /\ timed[u])
  BY <1>1 DEF Stops, IInv, TypeOK
<1>4. CancelInv'
  BY <1>1 DEF HandshakeInv, CancelInv, IInv, TypeOK
<1>5. ASSUME NEW v \in Users PROVE TimerOf(v)' /\ CallOf(v)' /\ WaitOf(v)'
  <2> USE <1>1, ServesFrame
  <2>1. TimerOf(v)'
    <3>1. CASE v = u
      BY <1>3, <3>1 DEF HandshakeInv, TimerOf, IInv, TypeOK
    <3>2. CASE v # u
      BY <1>3, <3>2 DEF HandshakeInv, TimerOf, IInv, TypeOK
    <3> QED  BY <3>1, <3>2
  <2>2. CallOf(v)'
    BY DEF HandshakeInv, CallOf
  <2>3. WaitOf(v)'
    BY <1>2 DEF HandshakeInv, WaitOf
  <2> QED  BY <2>1, <2>2, <2>3
<1> QED  BY <1>4, <1>5 DEF HandshakeInv

\* cancelRequest while the callback is active: nobody else waits for it.
LEMMA CancelActiveHandshake ==
    ASSUME FreeUse = FALSE, IInv, HandshakeInv, NEW a \in Actors, NEW u \in Users, cancelActive(a, u)
    PROVE  HandshakeInv'
<1> USE DEF queueVars, eventVars, dpVars, portVars, blockVars,
        timerVars, cancelVars, userVars, lockVars, ptRegs, ptVars, ttVars, threadVars, opVars
<1>1. /\ state[u] = "active" /\ state' = [state EXCEPT ![u] = "canceled"]
      /\ step[a] = "none" /\ a \in Clients
      /\ step' = [step EXCEPT ![a] = "waitDone"]
      /\ arg' = [arg EXCEPT ![a] = u]
      /\ UNCHANGED <<isQueued, callbackDone, timed, timer, tt, ttUser, pc, puserPvt>>
  BY EnvironmentAssumption DEF cancelActive, Begin, Ready, MayCancel
<1>2. \A b \in Actors : ~Waits(b, u)
  BY DEF cancelActive, MayCancel, Waits
<1>3. \A b \in Actors, v \in Users : Waits(b, v)' <=> Waits(b, v) \/ (b = a /\ v = u)
  BY <1>1 DEF Waits, IInv, TypeOK
<1>4. \A b \in Actors, v \in Users : Stops(b, v)' <=> Stops(b, v)
  BY <1>1 DEF Stops, IInv, TypeOK
<1>5. CancelInv'
  BY <1>1 DEF HandshakeInv, CancelInv, IInv, TypeOK
<1>6. \A v \in Users : state'[v] = "idle" <=> state[v] = "idle"
  BY <1>1 DEF IInv, TypeOK
<1>7. ASSUME NEW v \in Users PROVE TimerOf(v)' /\ CallOf(v)' /\ WaitOf(v)'
  <2> USE <1>1, ServesFrame
  <2>1. TimerOf(v)'
    BY <1>4, <1>6 DEF HandshakeInv, TimerOf
  <2>2. CallOf(v)'
    BY <1>6 DEF HandshakeInv, CallOf
  <2>3. WaitOf(v)'
    <3>1. CASE v = u
      BY <1>2, <1>3, <3>1 DEF HandshakeInv, WaitOf, IInv, TypeOK
    <3>2. CASE v # u
      BY <1>3, <3>2 DEF HandshakeInv, WaitOf, IInv, TypeOK
    <3> QED  BY <3>1, <3>2
  <2> QED  BY <2>1, <2>2, <2>3
<1> QED  BY <1>5, <1>7 DEF HandshakeInv

\* The rest of an operation, after the lock is released.
LEMMA ProceedHandshake ==
    ASSUME IInv, HandshakeInv, NEW a \in Actors, Proceed(a)
    PROVE  HandshakeInv'
<1> USE DEF queueVars, eventVars, dpVars, portVars, blockVars,
        timerVars, cancelVars, userVars, lockVars, ptRegs, ptVars, ttVars, threadVars, opVars
<1>1. CASE Announce(a) \/ Signal(a)
  <2>1. UNCHANGED <<state, callbackDone, timed, timer, isQueued, tt, ttUser, pc, puserPvt>>
    BY <1>1 DEF Announce, Signal
  <2>2. \A b \in Actors : NoCancel(b)
    BY <1>1 DEF Announce, Signal, Begin, NoCancel, IInv, TypeOK
  <2> QED  BY <2>1, <2>2, HandshakeFrame DEF SameService
<1>2. CASE StopTimer(a)
  <2> DEFINE u == arg[a]
  <2>1. /\ step[a] = "stopTimer" /\ step' = [step EXCEPT ![a] = "signal"]
        /\ timer' = [timer EXCEPT ![u] = FALSE]
        /\ UNCHANGED <<state, callbackDone, timed, isQueued, arg, tt, ttUser, pc, puserPvt>>
        /\ a = TimerThread \/ timer[u] \/ ~(tt # "idle" /\ ttUser = u)
    BY <1>2 DEF StopTimer, MayStopTimer
  <2>2. a # TimerThread
    BY <2>1, NamesAssumption DEF HandshakeInv, CancelInv
  <2>3. \A b \in Actors, v \in Users : Waits(b, v)' <=> Waits(b, v)
    BY <2>1 DEF Waits, IInv, TypeOK
  <2>4. \A b \in Actors, v \in Users : Stops(b, v)' <=> Stops(b, v) /\ b # a
    BY <2>1 DEF Stops, IInv, TypeOK
  <2>5. CancelInv'
    BY <2>1 DEF HandshakeInv, CancelInv, IInv, TypeOK
  <2>6. ASSUME NEW v \in Users PROVE TimerOf(v)' /\ CallOf(v)' /\ WaitOf(v)'
    <3> USE <2>1, ServesFrame
    <3>1. TimerOf(v)'
      <4>1. CASE v = u
        <5>1. ~Fired(v) /\ ~timer'[v]
          BY <2>2, <4>1 DEF HandshakeInv, TimerOf, Fired, IInv, TypeOK
        <5> QED  BY <2>4, <5>1 DEF HandshakeInv, TimerOf
      <4>2. CASE v # u
        <5>1. \A b \in Actors : Stops(b, v)' <=> Stops(b, v)
          BY <2>4, <4>2 DEF Stops
        <5>2. timer'[v] = timer[v]
          BY <4>2 DEF IInv, TypeOK
        <5> QED  BY <5>1, <5>2 DEF HandshakeInv, TimerOf
      <4> QED  BY <4>1, <4>2
    <3>2. CallOf(v)'
      BY DEF HandshakeInv, CallOf
    <3>3. WaitOf(v)'
      BY <2>3 DEF HandshakeInv, WaitOf
    <3> QED  BY <3>1, <3>2, <3>3
  <2> QED  BY <2>5, <2>6 DEF HandshakeInv
<1>3. CASE WaitDone(a)
  <2> DEFINE u == arg[a]
  <2>1. /\ step[a] = "waitDone" /\ step' = [step EXCEPT ![a] = "none"] /\ arg' = [arg EXCEPT ![a] = Null]
        /\ callbackDone[u] /\ callbackDone' = [callbackDone EXCEPT ![u] = FALSE]
        /\ UNCHANGED <<state, timer, timed, isQueued, tt, ttUser, pc, puserPvt>>
    BY <1>3 DEF WaitDone, Begin
  <2>2. \A b \in Actors, v \in Users : Waits(b, v)' <=> Waits(b, v) /\ b # a
    BY <2>1 DEF Waits, IInv, TypeOK
  <2>3. \A b \in Actors, v \in Users : Stops(b, v)' <=> Stops(b, v)
    BY <2>1 DEF Stops, IInv, TypeOK
  <2>4. CancelInv'
    BY <2>1 DEF HandshakeInv, CancelInv, IInv, TypeOK
  <2>5. ASSUME NEW v \in Users PROVE TimerOf(v)' /\ CallOf(v)' /\ WaitOf(v)'
    <3> USE <2>1, ServesFrame
    <3>1. TimerOf(v)'
      BY <2>3 DEF HandshakeInv, TimerOf
    <3>2. CallOf(v)'
      BY DEF HandshakeInv, CallOf
    <3>3. WaitOf(v)'
      <4>1. CASE v = u
        <5>1. Waits(a, v)
          BY <4>1 DEF Waits
        <5> QED  BY <2>2, <4>1, <5>1 DEF HandshakeInv, WaitOf, IInv, TypeOK
      <4>2. CASE v # u
        <5>1. \A b \in Actors : Waits(b, v)' <=> Waits(b, v)
          BY <2>2, <4>2 DEF Waits
        <5>2. callbackDone'[v] = callbackDone[v]
          BY <4>2 DEF IInv, TypeOK
        <5> QED  BY <5>1, <5>2 DEF HandshakeInv, WaitOf
      <4> QED  BY <4>1, <4>2
    <3> QED  BY <3>1, <3>2, <3>3
  <2> QED  BY <2>4, <2>5 DEF HandshakeInv
<1> QED  BY <1>1, <1>2, <1>3 DEF Proceed

\* What the end of a callback of u does to whoever waits for it.
LEMMA EndsCallback ==
    ASSUME IInv, HandshakeInv, NEW u \in Users, CallbackDone(u),
           PtServes(u) \/ TtServes(u),
           UNCHANGED <<timed, timer, isQueued>>,
           \A v \in Users : (Fired(v)' <=> Fired(v)) /\ (PtServes(v)' \/ TtServes(v)' <=> v # u /\ (PtServes(v) \/ TtServes(v)))
                         /\ (PtServes(v)' => PtServes(v)) /\ (TtServes(v)' => TtServes(v)),
           \A v \in Users : pc = "stopTimer" /\ puserPvt = v <=> pc' = "stopTimer" /\ puserPvt' = v,
           \A a \in Actors : NoCancel(a)
    PROVE  HandshakeInv'
<1>1. \A a \in Actors, v \in Users : (Stops(a, v)' <=> Stops(a, v)) /\ (Waits(a, v)' <=> Waits(a, v))
  BY DEF NoCancel, Stops, Waits
<1>2. CancelInv'
  BY DEF HandshakeInv, CancelInv, NoCancel
<1>3. /\ state'[u] = "idle"
      /\ callbackDone'[u] <=> callbackDone[u] \/ state[u] = "canceled"
      /\ \A v \in Users \ {u} : state'[v] = state[v] /\ callbackDone'[v] = callbackDone[v]
  BY DEF CallbackDone, IInv, TypeOK
<1>4. ASSUME NEW v \in Users PROVE TimerOf(v)' /\ CallOf(v)' /\ WaitOf(v)'
  <2>1. TimerOf(v)'
    BY <1>1, <1>3 DEF HandshakeInv, TimerOf
  <2>2. CallOf(v)'
    BY <1>3 DEF HandshakeInv, CallOf
  <2>3. WaitOf(v)'
    BY <1>1, <1>3 DEF HandshakeInv, WaitOf
  <2> QED  BY <2>1, <2>2, <2>3
<1> QED  BY <1>2, <1>4 DEF HandshakeInv

\* queueTimeoutCallback: the request it finds on a queue is the one whose timer
\* expired, and no callback of the asynUser is active.
LEMMA TimerThreadHandshake ==
    ASSUME IInv, HandshakeInv, TimerStep
    PROVE  HandshakeInv'
<1> USE DEF queueVars, eventVars, dpVars, portVars, blockVars,
        timerVars, cancelVars, userVars, lockVars, ptRegs, ptVars, ttVars, threadVars, opVars
<1>1. ASSUME NEW u \in Users, Expire(u)
      PROVE  HandshakeInv'
  <2>1. /\ tt = "idle" /\ timer[u] /\ timer' = [timer EXCEPT ![u] = FALSE] /\ tt' = "fired" /\ ttUser' = u
        /\ UNCHANGED <<state, callbackDone, timed, isQueued, step, arg, pc, puserPvt>>
    BY <1>1 DEF Expire
  <2>2. \A a \in Actors, v \in Users : (Stops(a, v)' <=> Stops(a, v)) /\ (Waits(a, v)' <=> Waits(a, v))
    BY <2>1 DEF Stops, Waits
  <2>3. \A v \in Users : /\ PtServes(v)' <=> PtServes(v)
                         /\ ~TtServes(v)' /\ ~TtServes(v)
                         /\ Fired(v)' <=> v = u
                         /\ ~Fired(v)
    BY <2>1 DEF PtServes, Serving, TtServes, Fired
  <2>4. \A v \in Users : timer'[v] <=> timer[v] /\ v # u
    BY <2>1 DEF IInv, TypeOK
  <2>5. CancelInv'
    BY <2>1 DEF HandshakeInv, CancelInv
  <2>6. ASSUME NEW v \in Users PROVE TimerOf(v)' /\ CallOf(v)' /\ WaitOf(v)'
    <3>1. TimerOf(v)'
      BY <2>1, <2>2, <2>3, <2>4 DEF HandshakeInv, TimerOf
    <3>2. CallOf(v)' /\ WaitOf(v)'
      BY <2>1, <2>2, <2>3 DEF HandshakeInv, CallOf, WaitOf
    <3> QED  BY <3>1, <3>2
  <2> QED  BY <2>5, <2>6 DEF HandshakeInv
<1>2. CASE TimeoutTooLate
  <2>1. /\ tt = "fired" /\ tt' = "idle"
        /\ UNCHANGED <<state, callbackDone, timer, timed, isQueued, step, arg, pc, puserPvt>>
    BY <1>2 DEF TimeoutTooLate
  <2>2. \A a \in Actors, v \in Users : (Stops(a, v)' <=> Stops(a, v)) /\ (Waits(a, v)' <=> Waits(a, v))
    BY <2>1 DEF Stops, Waits
  <2>3. \A v \in Users : (PtServes(v)' <=> PtServes(v)) /\ ~TtServes(v)' /\ ~TtServes(v) /\ ~Fired(v)'
    BY <2>1 DEF PtServes, Serving, TtServes, Fired
  <2>4. CancelInv'
    BY <2>1 DEF HandshakeInv, CancelInv
  <2>5. ASSUME NEW v \in Users PROVE TimerOf(v)' /\ CallOf(v)' /\ WaitOf(v)'
    BY <2>1, <2>2, <2>3 DEF HandshakeInv, TimerOf, CallOf, WaitOf
  <2> QED  BY <2>4, <2>5 DEF HandshakeInv
<1>3. CASE Timeout
  <2> DEFINE u == ttUser
  <2>1. /\ tt = "fired" /\ tt' = "call" /\ isQueued[u]
        /\ isQueued' = [isQueued EXCEPT ![u] = FALSE]
        /\ state' = [state EXCEPT ![u] = "active"]
        /\ UNCHANGED <<ttUser, callbackDone, timer, timed, step, arg, pc, puserPvt>>
    BY <1>3 DEF Timeout, Unqueue, Dequeue
  <2>0. u \in Users
    <3>1. PICK p \in AllPriorities : Holds(queueList[p], u)
      BY <1>3 DEF Timeout, Unqueue
    <3>2. PICK i \in DOMAIN queueList[p] : queueList[p][i] = u
      BY <3>1 DEF Holds
    <3> QED  BY <3>2, ElementOfSeq, LenProperties DEF IInv, TypeOK
  <2>2. \A a \in Actors, v \in Users : (Stops(a, v)' <=> Stops(a, v)) /\ (Waits(a, v)' <=> Waits(a, v))
    BY <2>1 DEF Stops, Waits
  <2>3. \A v \in Users : /\ PtServes(v)' <=> PtServes(v)
                         /\ ~TtServes(v)
                         /\ TtServes(v)' <=> v = u
                         /\ Fired(v) <=> v = u
                         /\ ~Fired(v)'
    BY <2>1 DEF PtServes, Serving, TtServes, Fired
  <2>4. state[u] = "idle" /\ ~PtServes(u) /\ ~timer[u] /\ \A a \in Actors : ~Stops(a, u)
    BY <2>0, <2>1, <2>3 DEF HandshakeInv, TimerOf, CallOf
  <2>5. CancelInv'
    BY <2>1 DEF HandshakeInv, CancelInv
  <2>6. ASSUME NEW v \in Users PROVE TimerOf(v)' /\ CallOf(v)' /\ WaitOf(v)'
    <3>1. CASE v = u
      <4>1. state'[v] = "active" /\ ~isQueued'[v]
        BY <2>0, <2>1, <3>1 DEF IInv, TypeOK
      <4>2. TimerOf(v)'
        BY <2>1, <2>2, <2>3, <2>4, <3>1, <4>1 DEF TimerOf
      <4>3. CallOf(v)' /\ WaitOf(v)'
        BY <2>0, <2>1, <2>2, <2>3, <2>4, <3>1, <4>1 DEF HandshakeInv, CallOf, WaitOf
      <4> QED  BY <4>2, <4>3
    <3>2. CASE v # u
      <4>1. state'[v] = state[v] /\ isQueued'[v] = isQueued[v]
        BY <2>1, <3>2 DEF IInv, TypeOK
      <4> QED  BY <2>1, <2>2, <2>3, <3>2, <4>1 DEF HandshakeInv, TimerOf, CallOf, WaitOf
    <3> QED  BY <3>1, <3>2
  <2> QED  BY <2>5, <2>6 DEF HandshakeInv
<1>4. CASE TimeoutReturn
  <2>1. /\ tt = "call" /\ tt' = "idle" /\ ttUser' = Null /\ step[TimerThread] = "none"
        /\ CallbackDone(ttUser) /\ Begin(TimerThread, "signal", Null)
        /\ UNCHANGED <<timer, timed, isQueued, pc, puserPvt>>
    BY <1>4 DEF TimeoutReturn
  <2>2. CASE ttUser \notin Users
    <3>1. UNCHANGED state /\ callbackDone' = [callbackDone EXCEPT ![ttUser] = callbackDone[ttUser] \/ state[ttUser] = "canceled"]
      BY <2>1, <2>2 DEF CallbackDone, IInv, TypeOK
    <3>2. UNCHANGED <<state, callbackDone>>
      BY <2>2, <3>1 DEF IInv, TypeOK
    <3>3. \A a \in Actors, v \in Users : (Stops(a, v)' <=> Stops(a, v)) /\ (Waits(a, v)' <=> Waits(a, v))
      BY <2>1 DEF Begin, Stops, Waits, IInv, TypeOK
    <3>4. \A v \in Users : (PtServes(v)' <=> PtServes(v)) /\ ~TtServes(v)' /\ ~TtServes(v) /\ ~Fired(v)' /\ ~Fired(v)
      BY <2>1, <2>2 DEF PtServes, Serving, TtServes, Fired
    <3>5. CancelInv'
      BY <2>1 DEF HandshakeInv, CancelInv, Begin, IInv, TypeOK
    <3>6. ASSUME NEW v \in Users PROVE TimerOf(v)' /\ CallOf(v)' /\ WaitOf(v)'
      BY <2>1, <3>2, <3>3, <3>4 DEF HandshakeInv, TimerOf, CallOf, WaitOf
    <3> QED  BY <3>5, <3>6 DEF HandshakeInv
  <2>3. CASE ttUser \in Users
    <3>1. \A a \in Actors : NoCancel(a)
      BY <2>1 DEF NoCancel, Begin, IInv, TypeOK
    <3>2. TtServes(ttUser) /\ ~PtServes(ttUser)
      BY <2>1, <2>3 DEF TtServes, HandshakeInv, CallOf
    <3>3. \A v \in Users : /\ Fired(v)' <=> Fired(v)
                           /\ PtServes(v)' \/ TtServes(v)' <=> v # ttUser /\ (PtServes(v) \/ TtServes(v))
                           /\ PtServes(v)' => PtServes(v)
                           /\ TtServes(v)' => TtServes(v)
      BY <2>1, <3>2 DEF PtServes, Serving, TtServes, Fired
    <3> QED  BY <2>1, <2>3, <3>1, <3>2, <3>3, EndsCallback
  <2> QED  BY <2>2, <2>3
<1> QED  BY <1>1, <1>2, <1>3, <1>4 DEF TimerStep

\* The port thread begins to serve an asynUser it takes off a queue.
LEMMA ServeHandshake ==
    ASSUME IInv, HandshakeInv, NEW p \in AllPriorities, NEW u, Holds(queueList[p], u), Serve(p, u),
           ~Serving, UNCHANGED <<callbackDone, timer, timed, tt, ttUser, step, arg>>
    PROVE  HandshakeInv'
<1>1. u \in Users /\ isQueued[u]
  BY ServeKeepsQueues DEF IInv, QueueOK
<1>2. /\ isQueued' = [isQueued EXCEPT ![u] = FALSE]
      /\ state' = [state EXCEPT ![u] = "active"]
      /\ pc' = "stopTimer" /\ puserPvt' = u
  BY DEF Serve, Dequeue
<1>3. \A a \in Actors, v \in Users : (Stops(a, v)' <=> Stops(a, v)) /\ (Waits(a, v)' <=> Waits(a, v))
  BY DEF Stops, Waits
<1>4. \A v \in Users : /\ ~PtServes(v)
                       /\ PtServes(v)' <=> v = u
                       /\ TtServes(v)' <=> TtServes(v)
                       /\ Fired(v)' <=> Fired(v)
                       /\ ~(pc = "stopTimer" /\ puserPvt = v)
                       /\ pc' = "stopTimer" /\ puserPvt' = v <=> v = u
  BY <1>2 DEF PtServes, Serving, TtServes, Fired
<1>5. state[u] = "idle" /\ ~TtServes(u) /\ \A a \in Actors : ~Stops(a, u)
  BY <1>1, <1>4 DEF HandshakeInv, TimerOf, CallOf
<1>6. CancelInv'
  BY DEF HandshakeInv, CancelInv
<1>7. ASSUME NEW v \in Users PROVE TimerOf(v)' /\ CallOf(v)' /\ WaitOf(v)'
  <2>1. CASE v = u
    <3>1. state'[v] = "active" /\ ~isQueued'[v]
      BY <1>1, <1>2, <2>1 DEF IInv, TypeOK
    <3>2. TimerOf(v)'
      BY <1>2, <1>3, <1>4, <1>5, <2>1, <3>1 DEF HandshakeInv, TimerOf
    <3>3. CallOf(v)' /\ WaitOf(v)'
      BY <1>1, <1>3, <1>4, <1>5, <2>1, <3>1 DEF HandshakeInv, CallOf, WaitOf
    <3> QED  BY <3>2, <3>3
  <2>2. CASE v # u
    <3>1. state'[v] = state[v] /\ isQueued'[v] = isQueued[v]
      BY <1>2, <2>2 DEF IInv, TypeOK
    <3> QED  BY <1>3, <1>4, <2>2, <3>1 DEF HandshakeInv, TimerOf, CallOf, WaitOf
  <2> QED  BY <2>1, <2>2
<1> QED  BY <1>6, <1>7 DEF HandshakeInv

\* Every step of portThread.
LEMMA PortThreadHandshake ==
    ASSUME IInv, IInv', HandshakeInv, PortStep
    PROVE  HandshakeInv'
<1> USE DEF queueVars, eventVars, dpVars, portVars, blockVars,
        timerVars, cancelVars, userVars, lockVars, ptRegs, ptVars, ttVars, threadVars, opVars
<1>1. CASE DrainOne \/ TestServe
  <2>1. ~Serving /\ UNCHANGED <<callbackDone, timer, timed, tt, ttUser, step, arg>>
    BY <1>1 DEF DrainOne, TestServe, Serving
  <2>2. \E p \in AllPriorities : \E u : Holds(queueList[p], u) /\ Serve(p, u)
    <3>1. CASE DrainOne
      <4>1. Connect \in AllPriorities /\ queueList[Connect] # <<>>
        BY <3>1 DEF DrainOne, AllPriorities, Low, Connect
      <4>2. queueList[Connect] \in Seq(Users)
        BY <4>1 DEF IInv, TypeOK
      <4>3. 1 \in DOMAIN queueList[Connect] /\ Head(queueList[Connect]) = queueList[Connect][1]
        BY <4>1, <4>2, EmptySeq, LenProperties
      <4>4. Holds(queueList[Connect], Head(queueList[Connect]))
        BY <4>3 DEF Holds
      <4> QED  BY <3>1, <4>1, <4>4 DEF DrainOne
    <3>2. CASE TestServe
      <4>1. PICK p \in Low..High : Holds(queueList[p], puserPvt) /\ Serve(p, puserPvt)
        BY <3>2 DEF TestServe
      <4>2. p \in AllPriorities
        BY DEF AllPriorities, Low, High, Connect
      <4> QED  BY <4>1, <4>2
    <3> QED  BY <1>1, <3>1, <3>2
  <2> QED  BY <2>1, <2>2, ServeHandshake
<1>2. CASE ServeStopTimer
  <2> DEFINE u == puserPvt
  <2>1. /\ pc = "stopTimer" /\ pc' = "lockSync" /\ puserPvt' = u /\ u \in Users
        /\ timed[u] => timer[u] \/ ~(tt # "idle" /\ ttUser = u)
        /\ timer' = [timer EXCEPT ![u] = timer[u] /\ ~timed[u]]
        /\ UNCHANGED <<state, callbackDone, timed, isQueued, tt, ttUser, step, arg>>
    BY <1>2, NamesAssumption DEF ServeStopTimer, StopsTimer, MayStopTimer, IInv, TypeOK, ThreadInv, UserInv, Serving
  <2>2. \A a \in Actors, v \in Users : (Stops(a, v)' <=> Stops(a, v)) /\ (Waits(a, v)' <=> Waits(a, v))
    BY <2>1 DEF Stops, Waits
  <2>3. \A v \in Users : (PtServes(v)' <=> PtServes(v)) /\ (TtServes(v)' <=> TtServes(v)) /\ (Fired(v)' <=> Fired(v))
    BY <2>1 DEF PtServes, Serving, TtServes, Fired
  <2>4. ~timer'[u] /\ ~Fired(u) /\ \A v \in Users \ {u} : timer'[v] = timer[v]
    <3>1. timer'[u] <=> timer[u] /\ ~timed[u]
      BY <2>1 DEF IInv, TypeOK
    <3>2. \A v \in Users \ {u} : timer'[v] = timer[v]
      BY <2>1 DEF IInv, TypeOK
    <3>3. ~timer'[u] /\ ~Fired(u)
      BY <2>1, <3>1 DEF HandshakeInv, TimerOf, Fired
    <3> QED  BY <3>2, <3>3
  <2>5. CancelInv'
    BY <2>1 DEF HandshakeInv, CancelInv
  <2>6. ASSUME NEW v \in Users PROVE TimerOf(v)' /\ CallOf(v)' /\ WaitOf(v)'
    <3>1. TimerOf(v)'
      BY <2>1, <2>2, <2>3, <2>4 DEF HandshakeInv, TimerOf
    <3>2. CallOf(v)' /\ WaitOf(v)'
      BY <2>1, <2>2, <2>3 DEF HandshakeInv, CallOf, WaitOf
    <3> QED  BY <3>1, <3>2
  <2> QED  BY <2>5, <2>6 DEF HandshakeInv
<1>3. CASE DoneConnect \/ Done
  <2>1. /\ pc = "done" /\ puserPvt' = Null /\ pc' \in {"drain", "release", "scanStart"}
        /\ puserPvt \in Users /\ Null \notin Users /\ CallbackDone(puserPvt)
        /\ UNCHANGED <<timer, timed, isQueued, tt, ttUser, step, arg>>
    BY <1>3, NamesAssumption DEF DoneConnect, Done, AfterDone, IInv, TypeOK, ThreadInv, UserInv, Serving
  <2>2. PtServes(puserPvt) /\ ~TtServes(puserPvt)
    BY <2>1 DEF PtServes, Serving, HandshakeInv, CallOf
  <2>3. \A v \in Users : /\ Fired(v)' <=> Fired(v)
                         /\ PtServes(v)' \/ TtServes(v)' <=> v # puserPvt /\ (PtServes(v) \/ TtServes(v))
                         /\ PtServes(v)' => PtServes(v)
                         /\ TtServes(v)' => TtServes(v)
                         /\ pc = "stopTimer" /\ puserPvt = v <=> pc' = "stopTimer" /\ puserPvt' = v
    BY <2>1, <2>2 DEF PtServes, Serving, TtServes, Fired
  <2>4. \A a \in Actors : NoCancel(a)
    BY <2>1 DEF NoCancel
  <2> QED  BY <2>1, <2>2, <2>3, <2>4, EndsCallback
<1>4. CASE \/ Wake \/ Lock \/ DrainDone \/ PortAutoSkip \/ DevAutoSkip \/ AutoConnectDevice
           \/ \E success \in BOOLEAN : ConnectAttempt(success)
           \/ AlreadyConnected \/ Attempted \/ ScanStart \/ VisitDisabled \/ VisitEnabled \/ Recheck
           \/ TestBlocked \/ Release \/ ServeLockSync \/ CallReturn
  <2>1. UNCHANGED <<state, callbackDone, timer, timed, isQueued, tt, ttUser>>
    BY <1>4 DEF Goto, Wake, Lock, DrainDone, PortAutoSkip, DevAutoSkip, AutoConnectDevice, ConnectAttempt,
       AlreadyConnected, Attempted, ScanStart, VisitDisabled, VisitEnabled, Recheck, TestBlocked, Release,
       ServeLockSync, CallReturn
  <2>2. SameService
    <3>1. pc \in PtPlaces /\ pc' \in PtPlaces
      BY DEF IInv, TypeOK
    <3>2. CASE ServeLockSync \/ CallReturn
      BY <3>2 DEF ServeLockSync, CallReturn, SameService
    <3>3. CASE ~(ServeLockSync \/ CallReturn)
      <4>1. pc \notin {"stopTimer", "lockSync", "call", "done"} /\ pc' \notin {"stopTimer", "lockSync", "call", "done"}
        BY <1>4, <3>3 DEF Goto, Wake, Lock, DrainDone, PortAutoSkip, DevAutoSkip, AutoConnectDevice,
           ConnectAttempt, AlreadyConnected, Attempted, ScanStart, VisitDisabled, VisitEnabled, Recheck,
           TestBlocked, Release, AfterPortAuto, AfterAuto, Visit
      <4> QED  BY <3>1, <4>1 DEF SameService
    <3> QED  BY <3>2, <3>3
  <2>3. \A a \in Actors : NoCancel(a)
    <3>1. CASE \E success \in BOOLEAN : ConnectAttempt(success)
      <4>1. step[PortThread] \notin {"stopTimer", "waitDone"}
        BY NamesAssumption DEF HandshakeInv, CancelInv, Actors
      <4>2. \/ UNCHANGED <<step, arg>>
            \/ step' = [step EXCEPT ![PortThread] = "announce"] /\ arg' = [arg EXCEPT ![PortThread] = Null]
        BY <3>1 DEF ConnectAttempt, Begin
      <4> QED  BY <4>1, <4>2 DEF NoCancel, IInv, TypeOK
    <3>2. CASE ~(\E success \in BOOLEAN : ConnectAttempt(success))
      <4>1. UNCHANGED <<step, arg>>
        BY <1>4, <3>2 DEF Goto, Wake, Lock, DrainDone, PortAutoSkip, DevAutoSkip, AutoConnectDevice,
           AlreadyConnected, Attempted, ScanStart, VisitDisabled, VisitEnabled, Recheck, TestBlocked, Release,
           ServeLockSync, CallReturn
      <4> QED  BY <4>1 DEF NoCancel
    <3> QED  BY <3>1, <3>2
  <2> QED  BY <2>1, <2>2, <2>3, HandshakeFrame
<1> QED  BY <1>1, <1>2, <1>3, <1>4 DEF PortStep

\* The invariant of callbacks and cancelRequest is inductive, given IInv.
LEMMA HandshakeInvariance ==
    ASSUME FreeUse = FALSE
    PROVE  Spec => []HandshakeInv
<1>1. ASSUME IInv, IInv', HandshakeInv, [Next]_vars
      PROVE  HandshakeInv'
  <2>1. ASSUME NEW a \in Actors, Operation(a) PROVE HandshakeInv'
    <3>1. ASSUME NEW u \in Users, NEW p \in Priorities, NEW t \in BOOLEAN, queueRequest(a, u, p, t)
          PROVE  HandshakeInv'
      BY <1>1, <3>1, EnvironmentAssumption, RequestHandshake
    <3>2. ASSUME NEW u \in Users, cancelQueued(a, u) \/ cancelActive(a, u)
          PROVE  HandshakeInv'
      BY <1>1, <3>2, CancelQueuedHandshake, CancelActiveHandshake
    <3> QED  BY <1>1, <2>1, <3>1, <3>2, OtherOperationHandshake DEF Operation, IInv
  <2>2. CASE UNCHANGED vars
    <3>1. UNCHANGED <<state, callbackDone, timed, timer, isQueued, tt, ttUser, pc, puserPvt, step, arg>>
      BY <2>2 DEF vars, queueVars, eventVars, dpVars, portVars, blockVars, timerVars, cancelVars, userVars,
         lockVars, ptRegs, ptVars, ttVars, threadVars, opVars
    <3> QED  BY <1>1, <3>1, HandshakeFrame DEF SameService, NoCancel
  <2> QED  BY <1>1, <2>1, <2>2, ProceedHandshake, TimerThreadHandshake, PortThreadHandshake DEF Next
<1> QED  BY <1>1, HandshakeInit, Invariance, PTL DEF Spec

\* puserPvt->state tells whether a callback of the asynUser is pending or
\* active, and its process and timeout callbacks never overlap.
THEOREM CallbacksExclusive ==
    ASSUME FreeUse = FALSE
    PROVE  Spec => []CallbackState
<1>1. HandshakeInv => CallbackState
  BY DEF HandshakeInv, CallOf, CallbackState
<1> QED  BY <1>1, HandshakeInvariance, PTL

\* Whoever waits in cancelRequest is woken by the callback it waits for, and no
\* callbackDone is left over for a later cancelRequest.
THEOREM CancelsMeetCallbacks ==
    ASSUME FreeUse = FALSE
    PROVE  Spec => []CancelHandshake
<1>1. ASSUME HandshakeInv, NEW u \in Users
      PROVE  LET waiting == {a \in Actors : step[a] = "waitDone" /\ arg[a] = u}
             IN  /\ \A a, b \in waiting : a = b
                 /\ waiting # {} <=> (state[u] = "canceled") \/ callbackDone[u]
  BY <1>1 DEF HandshakeInv, WaitOf, Waits
<1>2. HandshakeInv => CancelHandshake
  BY <1>1 DEF CancelHandshake
<1> QED  BY <1>2, HandshakeInvariance, PTL

-----------------------------------------------------------------------------
(***************************************************************************)
(* The port thread is woken for every request it can serve, whatever the   *)
(* callers do (FreeUse may be TRUE).  While nobody has signalled it or is  *)
(* going to, nothing has changed since its scan began: what the scan has   *)
(* passed cannot be served, and at the end of the scan nothing can.        *)
(***************************************************************************)
\* somebody has signalled the port thread or is going to
Pending ==
    \/ notifyPortThread
    \/ tt = "call"
    \/ \E a \in Actors : step[a] \in {"announce", "signal", "stopTimer"}

\* the places of the scan and of autoConnectDevice
InScan == {"scanStart", "visit", "recheck", "test", "portAuto", "devAuto", "attempt", "attempted"}

\* v comes before u in the order of the scan
Ahead(v, u) ==
    \E p, q \in AllPriorities :
        \E i \in DOMAIN queueList[p], j \in DOMAIN queueList[q] :
            /\ queueList[p][i] = v /\ queueList[q][j] = u
            /\ p > q \/ (p = q /\ i < j)

TargetInv == pc \in {"attempt", "attempted"} /\ target # Port => Scanning

IdleInv == pc = "release" \/ (pc = "wait" /\ enabled[Port]) => \A u \in Users : ~Runnable(u)

ConnectInv == pc \in InScan \/ (Serving /\ ~fromConnect) => queueList[Connect] = <<>>

ChangeInv == (pc \in InScan /\ Scanning) \/ (Serving /\ ~fromConnect) => ~queueStateChange

PassedInv == pc \in InScan /\ Scanning => \A v \in Users : Ahead(v, puserPvt) => ~Runnable(v)

WakeInv == TargetInv /\ (~Pending => IdleInv /\ ConnectInv /\ ChangeInv /\ PassedInv)

-----------------------------------------------------------------------------
\* The scan leaves nobody out: what comes before the successor of u is u or
\* comes before u.
LEMMA SuccessorOrder ==
    ASSUME TypeOK, QueueOK, NEW u \in Users, isQueued[u], ~Holds(queueList[Connect], u)
    PROVE  /\ Successor(u) = Null => \A v \in Users : isQueued[v] => v = u \/ Ahead(v, u)
           /\ \A v \in Users : Ahead(v, Successor(u)) => v = u \/ Ahead(v, u)
<1> DEFINE p == CHOOSE k \in AllPriorities : Holds(queueList[k], u)
           i == Position(queueList[p], u)
           w == Successor(u)
<1>1. p \in AllPriorities /\ Holds(queueList[p], u)
  BY DEF QueueOK
<1>2. p \in Low..High /\ AllPriorities = 0..3 /\ Low = 0 /\ High = 2
  BY <1>1 DEF AllPriorities, Low, High, Connect
<1>3. \A k \in AllPriorities : queueList[k] \in Seq(Users) /\ DOMAIN queueList[k] = 1..Len(queueList[k])
  BY LenProperties DEF TypeOK
<1>4. w = IF i < Len(queueList[p]) THEN queueList[p][i + 1] ELSE FirstFrom(p - 1)
  BY DEF Successor
<1> HIDE DEF p
<1>5. i \in 1..Len(queueList[p]) /\ queueList[p][i] = u /\ Len(queueList[p]) \in Nat
  BY <1>1, <1>3, PositionFound, LenProperties
<1> HIDE DEF i, w
<1>6. \A v \in Users, k \in AllPriorities : \A m \in DOMAIN queueList[k] :
         queueList[k][m] = v /\ (k > p \/ (k = p /\ m <= i)) => v = u \/ Ahead(v, u)
  BY <1>1, <1>2, <1>3, <1>5 DEF Ahead
<1>7. CASE i < Len(queueList[p])
  <2>1. w = queueList[p][i + 1] /\ i + 1 \in DOMAIN queueList[p]
    BY <1>1, <1>3, <1>4, <1>5, <1>7
  <2>2. w \in Users /\ w # Null
    BY <1>1, <1>3, <2>1, ElementOfSeq, NamesAssumption
  <2>3. ASSUME NEW v \in Users, Ahead(v, w) PROVE v = u \/ Ahead(v, u)
    <3>1. PICK p1 \in AllPriorities, q1 \in AllPriorities :
             \E i1 \in DOMAIN queueList[p1], j1 \in DOMAIN queueList[q1] :
                /\ queueList[p1][i1] = v /\ queueList[q1][j1] = w
                /\ p1 > q1 \/ (p1 = q1 /\ i1 < j1)
      BY <2>3 DEF Ahead
    <3>2. PICK i1 \in DOMAIN queueList[p1], j1 \in DOMAIN queueList[q1] :
             /\ queueList[p1][i1] = v /\ queueList[q1][j1] = w
             /\ p1 > q1 \/ (p1 = q1 /\ i1 < j1)
      BY <3>1
    <3>3. q1 = p /\ j1 = i + 1
      BY <1>1, <2>1, <3>2 DEF QueueOK
    <3>4. i1 \in Int
      BY <1>3
    <3>5. p1 > p \/ (p1 = p /\ i1 <= i)
      BY <1>5, <3>2, <3>3, <3>4
    <3> QED  BY <1>6, <3>2, <3>5
  <2> QED  BY <2>2, <2>3 DEF w
<1>8. CASE ~(i < Len(queueList[p]))
  <2>1. w = FirstFrom(p - 1) /\ p - 1 \in -1..High /\ i = Len(queueList[p])
    BY <1>2, <1>4, <1>5, <1>8
  <2>2. \/ w = Null /\ \A k \in Low..p - 1 : queueList[k] = <<>>
        \/ \E k \in Low..p - 1 : /\ queueList[k] # <<>> /\ w = queueList[k][1] /\ w \in Users
                                 /\ \A j \in k + 1..p - 1 : queueList[j] = <<>>
    BY <2>1, FirstFromOrder
  <2>3. CASE w = Null /\ \A k \in Low..p - 1 : queueList[k] = <<>>
    <3>1. ASSUME NEW v \in Users, isQueued[v] PROVE v = u \/ Ahead(v, u)
      <4>1. PICK k \in AllPriorities : Holds(queueList[k], v)
        BY <3>1 DEF QueueOK
      <4>2. PICK m \in DOMAIN queueList[k] : queueList[k][m] = v
        BY <4>1 DEF Holds
      <4>3. queueList[k] # <<>>
        BY <1>3, <4>2, EmptySeq
      <4>4. k >= p
        BY <1>2, <2>3, <4>3
      <4>5. k = p => m <= i
        BY <1>3, <2>1
      <4> QED  BY <1>2, <1>6, <4>2, <4>4, <4>5
    <3>2. \A v \in Users : ~Ahead(v, w)
      BY <1>3, <2>3, ElementOfSeq, NamesAssumption DEF Ahead
    <3> QED  BY <3>1, <3>2 DEF w
  <2>4. ASSUME NEW k \in Low..p - 1, queueList[k] # <<>>, w = queueList[k][1], w \in Users,
               \A j \in k + 1..p - 1 : queueList[j] = <<>>
        PROVE  /\ w # Null
               /\ \A v \in Users : Ahead(v, w) => v = u \/ Ahead(v, u)
    <3>0. k \in AllPriorities /\ 1 \in DOMAIN queueList[k]
      BY <1>2, <1>3, <2>4, EmptySeq
    <3>1. ASSUME NEW v \in Users, Ahead(v, w) PROVE v = u \/ Ahead(v, u)
      <4>1. PICK p1 \in AllPriorities, q1 \in AllPriorities :
               \E i1 \in DOMAIN queueList[p1], j1 \in DOMAIN queueList[q1] :
                  /\ queueList[p1][i1] = v /\ queueList[q1][j1] = w
                  /\ p1 > q1 \/ (p1 = q1 /\ i1 < j1)
        BY <3>1 DEF Ahead
      <4>2. PICK i1 \in DOMAIN queueList[p1], j1 \in DOMAIN queueList[q1] :
               /\ queueList[p1][i1] = v /\ queueList[q1][j1] = w
               /\ p1 > q1 \/ (p1 = q1 /\ i1 < j1)
        BY <4>1
      <4>3. q1 = k /\ j1 = 1
        BY <2>4, <3>0, <4>2 DEF QueueOK
      <4>4. p1 > k
        BY <1>3, <4>2, <4>3
      <4>5. queueList[p1] # <<>>
        BY <1>3, <4>2, EmptySeq
      <4>6. p1 >= p
        BY <1>2, <2>4, <4>4, <4>5
      <4>7. p1 = p => i1 <= i
        BY <1>3, <2>1
      <4> QED  BY <1>2, <1>6, <4>2, <4>6, <4>7
    <3> QED  BY <2>4, <3>1, NamesAssumption
  <2> QED  BY <2>2, <2>3, <2>4 DEF w
<1> QED  BY <1>7, <1>8

\* The scan starts at the very first request, if there is no Connect request.
LEMMA FirstOrder ==
    ASSUME TypeOK, QueueOK, queueList[Connect] = <<>>
    PROVE  /\ FirstFrom(High) = Null => \A v \in Users : ~isQueued[v]
           /\ \A v \in Users : ~Ahead(v, FirstFrom(High))
<1> DEFINE w == FirstFrom(High)
<1>1. AllPriorities = 0..3 /\ Low = 0 /\ High = 2 /\ Connect = 3
  BY DEF AllPriorities, Low, High, Connect
<1>2. \A k \in AllPriorities : queueList[k] \in Seq(Users) /\ DOMAIN queueList[k] = 1..Len(queueList[k])
  BY LenProperties DEF TypeOK
<1>3. \A k \in AllPriorities : queueList[k] = <<>> => DOMAIN queueList[k] = {}
  BY <1>2, EmptySeq
<1>4. \/ w = Null /\ \A k \in Low..High : queueList[k] = <<>>
      \/ \E k \in Low..High : /\ queueList[k] # <<>> /\ w = queueList[k][1] /\ w \in Users
                              /\ \A j \in k + 1..High : queueList[j] = <<>>
  BY <1>1, FirstFromOrder
<1> HIDE DEF w
<1>5. CASE w = Null /\ \A k \in Low..High : queueList[k] = <<>>
  <2>1. \A k \in AllPriorities : DOMAIN queueList[k] = {}
    BY <1>1, <1>3, <1>5
  <2> QED  BY <2>1 DEF QueueOK, Holds, Ahead
<1>6. ASSUME NEW k \in Low..High, queueList[k] # <<>>, w = queueList[k][1], w \in Users,
             \A j \in k + 1..High : queueList[j] = <<>>
      PROVE  /\ w # Null
             /\ \A v \in Users : ~Ahead(v, w)
  <2>0. k \in AllPriorities /\ 1 \in DOMAIN queueList[k]
    BY <1>1, <1>2, <1>6, EmptySeq
  <2>1. ASSUME NEW v \in Users, Ahead(v, w) PROVE FALSE
    <3>1. PICK p1 \in AllPriorities, q1 \in AllPriorities :
             \E i1 \in DOMAIN queueList[p1], j1 \in DOMAIN queueList[q1] :
                /\ queueList[p1][i1] = v /\ queueList[q1][j1] = w
                /\ p1 > q1 \/ (p1 = q1 /\ i1 < j1)
      BY <2>1 DEF Ahead
    <3>2. PICK i1 \in DOMAIN queueList[p1], j1 \in DOMAIN queueList[q1] :
             /\ queueList[p1][i1] = v /\ queueList[q1][j1] = w
             /\ p1 > q1 \/ (p1 = q1 /\ i1 < j1)
      BY <3>1
    <3>3. q1 = k /\ j1 = 1
      BY <1>6, <2>0, <3>2 DEF QueueOK
    <3>4. p1 > k
      BY <1>2, <3>2, <3>3
    <3>5. queueList[p1] = <<>>
      BY <1>1, <1>6, <3>4
    <3> QED  BY <1>3, <3>2, <3>5
  <2> QED  BY <1>6, <2>1, NamesAssumption
<1> QED  BY <1>4, <1>5, <1>6 DEF w

-----------------------------------------------------------------------------
\* A change that somebody is going to tell the port thread about.
LEMMA WakeTold ==
    ASSUME WakeInv, UNCHANGED <<pc, puserPvt, target>>, Pending'
    PROVE  WakeInv'
BY DEF WakeInv, TargetInv, Scanning

\* A step that changes nothing the scan looks at and tells nobody.
LEMMA WakeQuiet ==
    ASSUME TypeOK, BoundInv, WakeInv, Pending => Pending',
           UNCHANGED <<queueVars, queueStateChange, dpVars, portHolder, devHolder,
                       pc, puserPvt, fromConnect, target>>,
           \A u \in Users : dev[u] # Null => dev'[u] = dev[u] \/ ~isQueued[u]
    PROVE  WakeInv'
<1> USE DEF queueVars, dpVars
<1>1. \A u \in Users : Runnable(u)' => Runnable(u)
  BY DEF Runnable, BoundInv, NotBlocked, Holds
<1>2. \A v, u : Ahead(v, u)' <=> Ahead(v, u)
  BY DEF Ahead
<1>3. TargetInv'
  BY DEF WakeInv, TargetInv, Scanning
<1>4. ASSUME ~Pending PROVE IdleInv' /\ ConnectInv' /\ ChangeInv' /\ PassedInv'
  BY <1>1, <1>2, <1>4 DEF WakeInv, IdleInv, ConnectInv, ChangeInv, PassedInv, Serving, Scanning
<1> QED  BY <1>3, <1>4 DEF WakeInv

\* Only Wake takes the signal, everybody else passes it on.
LEMMA OperationPending ==
    ASSUME TypeOK, NEW a \in Actors, Operation(a) \/ Proceed(a), Pending
    PROVE  Pending'
<1> USE DEF queueVars, eventVars, dpVars, portVars, blockVars,
        timerVars, cancelVars, userVars, lockVars, ptRegs, ptVars, ttVars, threadVars, opVars
<1>1. CASE Operation(a)
  <2>1. UNCHANGED <<notifyPortThread, tt>>
    BY <1>1 DEF Operation, queueRequest, cancelQueued, cancelActive, blockProcessCallback, unblockPort,
       unblockDevice, connectDevice, disconnect, lockPort, unlockPort, exceptionConnect,
       exceptionDisconnect, enable
  <2>2. step[a] = "none" /\ (UNCHANGED step \/ \E k : step' = [step EXCEPT ![a] = k])
    BY <1>1 DEF Operation, queueRequest, cancelQueued, cancelActive, blockProcessCallback, unblockPort,
       unblockDevice, connectDevice, disconnect, lockPort, unlockPort, exceptionConnect,
       exceptionDisconnect, enable, DropPortHolder, Begin, Ready
  <2> QED  BY <2>1, <2>2 DEF Pending, TypeOK
<1>2. CASE Announce(a)
  BY <1>2 DEF Announce, Pending, TypeOK
<1>3. CASE Signal(a)
  BY <1>3 DEF Signal, Pending
<1>4. CASE StopTimer(a)
  BY <1>4 DEF StopTimer, Pending, TypeOK
<1>5. CASE WaitDone(a)
  BY <1>5 DEF WaitDone, Begin, Pending, TypeOK
<1> QED  BY <1>1, <1>2, <1>3, <1>4, <1>5 DEF Proceed

\* Callers either tell the port thread or change nothing it looks at.
LEMMA OperationWake ==
    ASSUME IInv, WakeInv, NEW a \in Actors, Operation(a) \/ Proceed(a)
    PROVE  WakeInv'
<1> USE DEF queueVars, eventVars, dpVars, portVars, blockVars,
        timerVars, cancelVars, userVars, lockVars, ptRegs, ptVars, ttVars, threadVars, opVars
<1>1. Pending => Pending'
  BY OperationPending DEF IInv
<1>2. ASSUME NEW u \in Users,
             \/ \E p \in Priorities, t \in BOOLEAN : queueRequest(a, u, p, t)
             \/ cancelQueued(a, u)
      PROVE  WakeInv'
  <2>1. step'[a] \in {"stopTimer", "signal"} /\ UNCHANGED <<pc, puserPvt, target>>
    BY <1>2 DEF queueRequest, cancelQueued, Begin, IInv, TypeOK
  <2>2. Pending'
    BY <2>1 DEF Pending
  <2> QED  BY <2>1, <2>2, WakeTold
<1>3. ASSUME NEW u \in Users,
             \/ cancelActive(a, u) \/ \E all \in BOOLEAN : blockProcessCallback(a, u, all)
             \/ \E d \in DPs : connectDevice(a, u, d)
             \/ disconnect(a, u)
      PROVE  WakeInv'
  <2>1. UNCHANGED <<queueVars, queueStateChange, dpVars, portHolder, devHolder,
                    pc, puserPvt, fromConnect, target>>
    BY <1>3 DEF cancelActive, blockProcessCallback, connectDevice, disconnect
  <2>2. \A v \in Users : dev[v] # Null => dev'[v] = dev[v] \/ ~isQueued[v]
    <3>1. \/ UNCHANGED dev
          \/ (dev[u] = Null \/ ~isQueued[u]) /\ \E d : dev' = [dev EXCEPT ![u] = d]
      BY <1>3 DEF cancelActive, blockProcessCallback, connectDevice, disconnect
    <3> QED  BY <3>1 DEF IInv, TypeOK
  <2> QED  BY <1>1, <2>1, <2>2, WakeQuiet DEF IInv, ThreadInv
<1>4. ASSUME NEW u \in Users, unblockPort(a, u)
      PROVE  WakeInv'
  <2>1. UNCHANGED <<queueVars, queueStateChange, dpVars, devHolder, dev,
                    pc, puserPvt, fromConnect, target>>
    BY <1>4 DEF unblockPort
  <2>2. \/ UNCHANGED portHolder
        \/ step' = [step EXCEPT ![a] = "signal"]
    BY <1>4 DEF unblockPort, DropPortHolder, Begin
  <2>3. CASE UNCHANGED portHolder
    BY <1>1, <2>1, <2>3, WakeQuiet DEF IInv, ThreadInv
  <2>4. CASE step' = [step EXCEPT ![a] = "signal"]
    <3>1. Pending'
      BY <2>4 DEF Pending, IInv, TypeOK
    <3> QED  BY <2>1, <3>1, WakeTold
  <2> QED  BY <2>2, <2>3, <2>4
<1>5. ASSUME NEW u \in Users, unblockDevice(a, u)
      PROVE  WakeInv'
  <2>1. UNCHANGED <<queueVars, queueStateChange, dpVars, portHolder, dev,
                    pc, puserPvt, fromConnect, target>>
    BY <1>5 DEF unblockDevice
  <2>2. \/ UNCHANGED devHolder
        \/ step' = [step EXCEPT ![a] = "signal"]
    BY <1>5 DEF unblockDevice, Begin
  <2>3. CASE UNCHANGED devHolder
    BY <1>1, <2>1, <2>3, WakeQuiet DEF IInv, ThreadInv
  <2>4. CASE step' = [step EXCEPT ![a] = "signal"]
    <3>1. Pending'
      BY <2>4 DEF Pending, IInv, TypeOK
    <3> QED  BY <2>1, <3>1, WakeTold
  <2> QED  BY <2>2, <2>3, <2>4
<1>6. CASE lockPort(a) \/ unlockPort(a) \/ WaitDone(a)
  BY <1>1, <1>6, WakeQuiet DEF lockPort, unlockPort, WaitDone, IInv, ThreadInv
<1>7. CASE \/ \E d \in DPs : \/ exceptionConnect(a, d) \/ exceptionDisconnect(a, d)
                             \/ \E yesNo \in BOOLEAN : enable(a, d, yesNo)
           \/ Announce(a) \/ Signal(a) \/ StopTimer(a)
  <2>1. UNCHANGED <<pc, puserPvt, target>>
    BY <1>7 DEF exceptionConnect, exceptionDisconnect, enable, Announce, Signal, StopTimer
  <2>2. notifyPortThread' = TRUE \/ step'[a] \in {"announce", "signal"}
    BY <1>7 DEF exceptionConnect, exceptionDisconnect, enable, Announce, Signal, StopTimer, Begin, IInv, TypeOK
  <2>3. Pending'
    BY <2>2 DEF Pending
  <2> QED  BY <2>1, <2>3, WakeTold
<1> QED  BY <1>2, <1>3, <1>4, <1>5, <1>6, <1>7 DEF Operation, Proceed

\* So does the timer thread.
LEMMA TimerThreadWake ==
    ASSUME IInv, WakeInv, TimerStep
    PROVE  WakeInv'
<1> USE DEF queueVars, eventVars, dpVars, portVars, blockVars,
        timerVars, cancelVars, userVars, lockVars, ptRegs, ptVars, ttVars, threadVars, opVars
<1>1. CASE (\E u \in Users : Expire(u)) \/ TimeoutTooLate
  <2>1. /\ UNCHANGED <<queueVars, queueStateChange, dpVars, portHolder, devHolder, dev,
                       pc, puserPvt, fromConnect, target, notifyPortThread, step>>
        /\ tt # "call"
    BY <1>1 DEF Expire, TimeoutTooLate
  <2>2. Pending => Pending'
    BY <2>1 DEF Pending
  <2> QED  BY <2>1, <2>2, WakeQuiet DEF IInv, ThreadInv
<1>2. CASE Timeout
  <2>1. Pending' /\ UNCHANGED <<pc, puserPvt, target>>
    BY <1>2 DEF Timeout, Pending
  <2> QED  BY <2>1, WakeTold
<1>3. CASE TimeoutReturn
  <2>1. step'[TimerThread] = "signal" /\ TimerThread \in Actors /\ UNCHANGED <<pc, puserPvt, target>>
    BY <1>3 DEF TimeoutReturn, Begin, IInv, TypeOK, Actors
  <2>2. Pending'
    BY <2>1 DEF Pending
  <2> QED  BY <2>1, <2>2, WakeTold
<1> QED  BY <1>1, <1>2, <1>3 DEF TimerStep

\* The scan goes on behind an asynUser it may not serve.
LEMMA VisitWake ==
    ASSUME IInv, WakeInv, pc \in {"visit", "test"}, ~Runnable(puserPvt), Visit(Successor(puserPvt)),
           UNCHANGED <<portVars, userVars, step, tt>>
    PROVE  WakeInv'
<1> USE DEF queueVars, eventVars, dpVars, portVars, blockVars,
        timerVars, cancelVars, userVars, lockVars, ptRegs, ptVars, ttVars, threadVars, opVars
<1> DEFINE u == puserPvt
           w == Successor(u)
<1>1. u \in Users /\ isQueued[u] /\ ~Holds(queueList[Connect], u)
  BY DEF IInv, TypeOK, ThreadInv, UserInv, FreshInv
<1>2. /\ w = Null => \A v \in Users : isQueued[v] => v = u \/ Ahead(v, u)
      /\ \A v \in Users : Ahead(v, w) => v = u \/ Ahead(v, u)
  BY <1>1, SuccessorOrder DEF IInv
<1>3. /\ puserPvt' = w /\ pc' = IF w = Null THEN "release" ELSE "visit"
      /\ \A v \in Users : Runnable(v)' <=> Runnable(v)
      /\ \A v, x : Ahead(v, x)' <=> Ahead(v, x)
      /\ Pending' <=> Pending
  BY DEF Visit, Runnable, NotBlocked, Holds, Ahead, Pending
<1> HIDE DEF w
<1>4. TargetInv'
  BY <1>3 DEF TargetInv
<1>5. ASSUME ~Pending PROVE IdleInv' /\ ConnectInv' /\ ChangeInv' /\ PassedInv'
  <2>1. /\ queueList[Connect] = <<>> /\ ~queueStateChange
        /\ \A v \in Users : Ahead(v, u) => ~Runnable(v)
    BY <1>1, <1>5, NamesAssumption DEF WakeInv, ConnectInv, ChangeInv, PassedInv, InScan, Scanning
  <2>2. \A v \in Users : Runnable(v) => isQueued[v]
    BY DEF Runnable, IInv, QueueOK, AllPriorities, Low, Connect
  <2>3. IdleInv'
    BY <1>2, <1>3, <2>1, <2>2 DEF IdleInv
  <2>4. ConnectInv' /\ ChangeInv'
    BY <1>3, <2>1 DEF ConnectInv, ChangeInv
  <2>5. PassedInv'
    BY <1>2, <1>3, <2>1 DEF PassedInv
  <2> QED  BY <2>3, <2>4, <2>5
<1> QED  BY <1>3, <1>4, <1>5 DEF WakeInv

\* A step of the port thread inside the scan.
LEMMA ScanWake ==
    ASSUME IInv, WakeInv, pc \in InScan, pc' \in InScan \ {"scanStart"},
           Scanning, TargetInv',
           UNCHANGED <<portVars, userVars, puserPvt, step, tt>>
    PROVE  WakeInv'
<1> USE DEF queueVars, eventVars, dpVars, portVars, blockVars,
        timerVars, cancelVars, userVars, lockVars, ptRegs, ptVars, ttVars, threadVars, opVars
<1>1. /\ \A v \in Users : Runnable(v)' <=> Runnable(v)
      /\ \A v, x : Ahead(v, x)' <=> Ahead(v, x)
      /\ Pending' <=> Pending
  BY DEF Runnable, NotBlocked, Holds, Ahead, Pending
<1> QED  BY <1>1 DEF WakeInv, IdleInv, ConnectInv, ChangeInv, PassedInv, InScan, Scanning, Serving

\* The port thread looks for requests before it scans for them.
LEMMA BeforeScanWake ==
    ASSUME IInv, WakeInv, pc \in InScan \cup {"drain"}, ~Scanning, queueList[Connect] = <<>> \/ Pending,
           \/ pc' = "release" /\ ~connected[Port]
           \/ pc' \in InScan,
           TargetInv', UNCHANGED <<portVars, userVars, puserPvt, step, tt>>
    PROVE  WakeInv'
<1> USE DEF queueVars, eventVars, dpVars, portVars, blockVars,
        timerVars, cancelVars, userVars, lockVars, ptRegs, ptVars, ttVars, threadVars, opVars
<1>1. Pending' <=> Pending
  BY DEF Pending
<1>2. ASSUME ~Pending PROVE IdleInv' /\ ConnectInv' /\ ChangeInv' /\ PassedInv'
  <2>1. queueList[Connect] = <<>> /\ queueList'[Connect] = <<>>
    BY <1>2
  <2>2. \A v \in Users : ~Holds(queueList'[Connect], v)
    BY <2>1 DEF Holds
  <2> QED  BY <2>1, <2>2 DEF IdleInv, ConnectInv, ChangeInv, PassedInv, InScan, Scanning, Serving, Runnable
<1> QED  BY <1>1, <1>2 DEF WakeInv

\* Every step of portThread.
LEMMA PortThreadWake ==
    ASSUME IInv, WakeInv, PortStep
    PROVE  WakeInv'
<1> USE NamesAssumption
    DEF queueVars, eventVars, dpVars, portVars, blockVars,
        timerVars, cancelVars, userVars, lockVars, ptRegs, ptVars, ttVars, threadVars, opVars
<1>0. /\ WakeInv => TargetInv
      /\ pc \in {"drain", "scanStart", "release"} => ~Scanning
      /\ pc \in {"devAuto", "visit", "recheck", "test"} => Scanning
      /\ ~Pending /\ pc \in InScan => queueList[Connect] = <<>>
  BY DEF WakeInv, ConnectInv, Scanning, IInv, ThreadInv, UserInv
<1>1. CASE Wake
  BY <1>1 DEF Wake, WakeInv, TargetInv, IdleInv, ConnectInv, ChangeInv, PassedInv, InScan, Serving
<1>2. CASE Lock
  BY <1>2 DEF Lock, WakeInv, TargetInv, IdleInv, ConnectInv, ChangeInv, PassedInv, InScan, Serving
<1>3. CASE DrainOne \/ DoneConnect
  <2>1. pc' = "drain" \/ (pc' = "stopTimer" /\ fromConnect')
    BY <1>3 DEF DrainOne, DoneConnect, Serve
  <2> QED  BY <2>1 DEF WakeInv, TargetInv, IdleInv, ConnectInv, ChangeInv, PassedInv, InScan, Serving
<1>4. CASE DrainDone
  <2>1. pc = "drain" /\ queueList[Connect] = <<>> /\ pc' \in {"scanStart", "portAuto"}
        /\ UNCHANGED <<portVars, userVars, puserPvt, step, tt>>
    BY <1>4 DEF DrainDone, Goto
  <2> QED  BY <1>0, <2>1, BeforeScanWake DEF InScan, TargetInv
<1>5. CASE PortAutoSkip
  <2>1. /\ pc = "portAuto" /\ UNCHANGED <<portVars, userVars, puserPvt, step, tt>>
        /\ Scanning => pc' \in {"devAuto", "recheck"}
        /\ ~Scanning => pc' = "scanStart" \/ (pc' = "release" /\ ~connected[Port])
    BY <1>5 DEF PortAutoSkip, Goto, AfterPortAuto, AfterAuto
  <2>2. CASE Scanning
    BY <2>1, <2>2, ScanWake DEF InScan, TargetInv
  <2>3. CASE ~Scanning
    BY <1>0, <2>1, <2>3, BeforeScanWake DEF InScan, TargetInv
  <2> QED  BY <2>2, <2>3
<1>6. CASE DevAutoSkip
  <2>1. /\ pc = "devAuto" /\ UNCHANGED <<portVars, userVars, puserPvt, step, tt>>
        /\ Scanning /\ pc' = "recheck"
    BY <1>0, <1>6 DEF DevAutoSkip, Goto, AfterAuto
  <2> QED  BY <2>1, ScanWake DEF InScan, TargetInv
<1>7. CASE AutoConnectDevice
  <2>1. /\ pc \in {"portAuto", "devAuto"} /\ pc' = "attempt"
        /\ pc = "portAuto" => target' = Port
        /\ UNCHANGED <<portVars, userVars, puserPvt, step, tt>>
    BY <1>7 DEF AutoConnectDevice
  <2>2. TargetInv'
    BY <1>0, <2>1 DEF TargetInv, Scanning
  <2>3. CASE Scanning
    BY <2>1, <2>2, <2>3, ScanWake DEF InScan
  <2>4. CASE ~Scanning
    BY <1>0, <2>1, <2>2, <2>4, BeforeScanWake DEF InScan
  <2> QED  BY <2>3, <2>4
<1>8. ASSUME NEW success \in BOOLEAN, ConnectAttempt(success)
      PROVE  WakeInv'
  <2>1. /\ pc = "attempt" /\ pc' = "attempted" /\ ~connected[target] /\ target \in DPs
        /\ UNCHANGED <<queueVars, eventVars, enabled, userVars, puserPvt, target, tt>>
        /\ connected' = [connected EXCEPT ![target] = success]
        /\ IF success THEN step' = [step EXCEPT ![PortThread] = "announce"] ELSE UNCHANGED step
    BY <1>8 DEF ConnectAttempt, Begin, IInv, TypeOK
  <2>2. TargetInv'
    BY <1>0, <2>1 DEF TargetInv, Scanning
  <2>3. CASE success
    <3>1. step'[PortThread] = "announce" /\ PortThread \in Actors
      BY <2>1, <2>3 DEF IInv, TypeOK, Actors
    <3>2. Pending'
      BY <3>1 DEF Pending
    <3> QED  BY <2>2, <3>2 DEF WakeInv
  <2>4. CASE ~success
    <3>1. connected' = connected /\ UNCHANGED step
      BY <2>1, <2>4 DEF IInv, TypeOK
    <3>2. CASE Scanning
      BY <2>1, <2>2, <3>1, <3>2, ScanWake DEF InScan
    <3>3. CASE ~Scanning
      BY <1>0, <2>1, <2>2, <3>1, <3>3, BeforeScanWake DEF InScan
    <3> QED  BY <3>2, <3>3
  <2> QED  BY <2>3, <2>4
<1>9. CASE AlreadyConnected
  <2>1. /\ pc = "attempt" /\ pc' = "attempted"
        /\ UNCHANGED <<portVars, userVars, puserPvt, target, step, tt>>
    BY <1>9 DEF AlreadyConnected, Goto
  <2>2. TargetInv'
    BY <1>0, <2>1 DEF TargetInv, Scanning
  <2>3. CASE Scanning
    BY <2>1, <2>2, <2>3, ScanWake DEF InScan
  <2>4. CASE ~Scanning
    BY <1>0, <2>1, <2>2, <2>4, BeforeScanWake DEF InScan
  <2> QED  BY <2>3, <2>4
<1>10. CASE Attempted
  <2>1. /\ pc = "attempted" /\ UNCHANGED <<portVars, userVars, puserPvt, step, tt>>
        /\ Scanning => pc' \in {"devAuto", "recheck"}
        /\ ~Scanning => pc' = "scanStart" \/ (pc' = "release" /\ ~connected[Port])
    BY <1>0, <1>10 DEF Attempted, AfterPortAuto, AfterAuto, TargetInv
  <2>2. CASE Scanning
    BY <2>1, <2>2, ScanWake DEF InScan, TargetInv
  <2>3. CASE ~Scanning
    BY <1>0, <2>1, <2>3, BeforeScanWake DEF InScan, TargetInv
  <2> QED  BY <2>2, <2>3
<1>11. CASE ScanStart
  <2> DEFINE w == FirstFrom(High)
  <2>1. /\ pc = "scanStart" /\ queueStateChange' = FALSE
        /\ puserPvt' = w /\ pc' = IF w = Null THEN "release" ELSE "visit"
        /\ UNCHANGED <<queueVars, notifyPortThread, dpVars, userVars, step, tt>>
    BY <1>11 DEF ScanStart, Visit
  <2> HIDE DEF w
  <2>2. /\ \A v \in Users : Runnable(v)' <=> Runnable(v)
        /\ \A v, x : Ahead(v, x)' <=> Ahead(v, x)
        /\ Pending' <=> Pending
    BY <2>1 DEF Runnable, NotBlocked, Holds, Ahead, Pending
  <2>3. ASSUME ~Pending PROVE IdleInv' /\ ConnectInv' /\ ChangeInv' /\ PassedInv'
    <3>1. queueList[Connect] = <<>>
      BY <1>0, <2>1, <2>3 DEF InScan
    <3>2. /\ w = Null => \A v \in Users : ~isQueued[v]
          /\ \A v \in Users : ~Ahead(v, w)
      BY <3>1, FirstOrder DEF IInv, w
    <3>3. \A v \in Users : Runnable(v) => isQueued[v]
      BY DEF Runnable, IInv, QueueOK, AllPriorities, Low, Connect
    <3>4. IdleInv'
      BY <2>1, <2>2, <3>2, <3>3 DEF IdleInv
    <3>5. ConnectInv' /\ ChangeInv'
      BY <2>1, <3>1 DEF ConnectInv, ChangeInv, Serving
    <3>6. PassedInv'
      BY <2>1, <2>2, <3>2 DEF PassedInv
    <3> QED  BY <3>4, <3>5, <3>6
  <2>4. TargetInv'
    BY <2>1 DEF TargetInv
  <2> QED  BY <2>2, <2>3, <2>4 DEF WakeInv
<1>12. CASE VisitDisabled
  <2>1. ~Runnable(puserPvt)
    BY <1>12 DEF VisitDisabled, Runnable, IInv, ThreadInv, UserInv, FreshInv
  <2> QED  BY <1>12, <2>1, VisitWake DEF VisitDisabled
<1>13. CASE VisitEnabled
  <2>1. /\ pc = "visit" /\ pc' \in {"test", "portAuto"} /\ UNCHANGED <<portVars, userVars, puserPvt, step, tt>>
    BY <1>13 DEF VisitEnabled, Goto
  <2> QED  BY <1>0, <2>1, ScanWake DEF InScan, TargetInv
<1>14. CASE Recheck
  <2>1. CASE queueStateChange
    <3>1. pc' = "release" /\ pc = "recheck" /\ UNCHANGED <<portVars, userVars, step, tt>>
      BY <1>14, <2>1 DEF Recheck
    <3>2. Pending
      BY <1>0, <2>1, <3>1 DEF WakeInv, ChangeInv, InScan
    <3>3. Pending'
      BY <3>1, <3>2 DEF Pending
    <3> QED  BY <3>1, <3>3 DEF WakeInv, TargetInv
  <2>2. CASE ~queueStateChange
    <3>1. pc = "recheck" /\ pc' = "test" /\ UNCHANGED <<portVars, userVars, puserPvt, step, tt>>
      BY <1>14, <2>2 DEF Recheck
    <3> QED  BY <1>0, <3>1, ScanWake DEF InScan, TargetInv
  <2> QED  BY <2>1, <2>2
<1>15. CASE TestBlocked
  <2>1. ~Runnable(puserPvt)
    BY <1>15 DEF TestBlocked, Runnable, IInv, ThreadInv, UserInv, FreshInv
  <2> QED  BY <1>15, <2>1, VisitWake DEF TestBlocked
<1>16. CASE TestServe
  <2>1. PICK p \in Low..High : Holds(queueList[p], puserPvt) /\ Serve(p, puserPvt)
    BY <1>16 DEF TestServe
  <2>2. /\ pc = "test" /\ pc' = "stopTimer" /\ UNCHANGED <<queueStateChange, notifyPortThread, step, tt>>
        /\ \E q : queueList' = [queueList EXCEPT ![p] = q]
    BY <1>16, <2>1 DEF TestServe, Serve, Dequeue
  <2>3. queueList'[Connect] = queueList[Connect]
    BY <2>2 DEF IInv, TypeOK, AllPriorities, Low, High, Connect
  <2>4. Pending' <=> Pending
    BY <2>2 DEF Pending
  <2> QED  BY <1>0, <2>2, <2>3, <2>4 DEF WakeInv, TargetInv, IdleInv, ConnectInv, ChangeInv, PassedInv, InScan
<1>17. CASE Release
  <2>1. pc = "release" /\ pc' = "wait" /\ UNCHANGED <<portVars, userVars, step, tt>>
    BY <1>17 DEF Release
  <2>2. /\ \A v \in Users : Runnable(v)' <=> Runnable(v)
        /\ Pending' <=> Pending
    BY <2>1 DEF Runnable, NotBlocked, Holds, Pending
  <2> QED  BY <2>1, <2>2 DEF WakeInv, TargetInv, IdleInv, ConnectInv, ChangeInv, PassedInv, InScan, Serving
<1>18. CASE ServeStopTimer \/ ServeLockSync \/ CallReturn
  <2>1. Serving /\ Serving' /\ pc \notin InScan /\ pc' \notin InScan \cup {"release", "wait"}
        /\ UNCHANGED <<portVars, fromConnect, step, tt>>
    BY <1>18 DEF ServeStopTimer, ServeLockSync, CallReturn, Serving, InScan
  <2>2. Pending' <=> Pending
    BY <2>1 DEF Pending
  <2> QED  BY <2>1, <2>2 DEF WakeInv, TargetInv, IdleInv, ConnectInv, ChangeInv, PassedInv, InScan
<1>19. CASE Done
  <2>1. /\ pc = "done" /\ ~fromConnect /\ puserPvt' = Null
        /\ pc' = IF queueStateChange THEN "release" ELSE "scanStart"
        /\ UNCHANGED <<portVars, step, tt>>
    BY <1>19 DEF Done, AfterDone
  <2>2. Pending' <=> Pending
    BY <2>1 DEF Pending
  <2> QED  BY <2>1, <2>2 DEF WakeInv, TargetInv, IdleInv, ConnectInv, ChangeInv, PassedInv, InScan, Serving, Scanning
<1> QED
  BY <1>1, <1>2, <1>3, <1>4, <1>5, <1>6, <1>7, <1>8, <1>9, <1>10, <1>11, <1>12, <1>13, <1>14, <1>15,
     <1>16, <1>17, <1>18, <1>19 DEF PortStep

\* The invariant of the scan is inductive, given IInv.
LEMMA WakeInvariance == Spec => []WakeInv
<1>1. Init => WakeInv
  BY DEF Init, WakeInv, TargetInv, IdleInv, ConnectInv, ChangeInv, PassedInv, InScan, Serving, Runnable, Holds,
         AllPriorities, Low, Connect
<1>2. ASSUME IInv, WakeInv, [Next]_vars
      PROVE  WakeInv'
  <2>1. CASE Next
    BY <1>2, <2>1, OperationWake, TimerThreadWake, PortThreadWake DEF Next
  <2>2. CASE UNCHANGED vars
    <3>1. /\ UNCHANGED <<queueVars, queueStateChange, dpVars, portHolder, devHolder, dev,
                         pc, puserPvt, fromConnect, target>>
          /\ UNCHANGED <<notifyPortThread, step, tt>>
      BY <2>2 DEF vars, queueVars, eventVars, dpVars, portVars, blockVars, timerVars, cancelVars, userVars,
         lockVars, ptRegs, ptVars, ttVars, threadVars, opVars
    <3>2. Pending => Pending'
      BY <3>1 DEF Pending
    <3> QED  BY <1>2, <3>1, <3>2, WakeQuiet DEF IInv, ThreadInv
  <2> QED  BY <1>2, <2>1, <2>2
<1> QED  BY <1>1, <1>2, Invariance, PTL DEF Spec

\* The port thread never sleeps on work: when it waits, unsignalled, and nobody
\* is about to signal it, no request of an enabled port can be served.
THEOREM NoWakeupLost == Spec => []NoLostWakeup
<1>1. TypeOK /\ WakeInv => NoLostWakeup
  <2> SUFFICES ASSUME TypeOK, WakeInv, pc = "wait", ~notifyPortThread, enabled[Port], tt # "call",
                      \A a \in Actors : step[a] \in {"none", "waitDone"}
               PROVE  \A u \in Users : ~Runnable(u)
    BY DEF NoLostWakeup
  <2>1. ~Pending
    BY DEF Pending
  <2> QED  BY <2>1 DEF WakeInv, IdleInv
<1>2. IInv => TypeOK
  BY DEF IInv
<1> QED  BY <1>1, <1>2, Invariance, WakeInvariance, PTL
=============================================================================
