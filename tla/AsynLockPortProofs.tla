------------------------ MODULE AsynLockPortProofs ------------------------
(***************************************************************************)
(* AsynLockPort keeps one owner of the port at a time and implements       *)
(* PortLock, for any number of threads and requests and every nesting.     *)
(*                                                                         *)
(* The argument: synchronousLock decides who may call the driver.  The     *)
(* port thread has it from ServeLock to Return, and a thread inside a      *)
(* queueLockPort ... queueUnlockPort has the port on loan from the port    *)
(* thread, which waits for the thread's mutex meanwhile.  The invariant    *)
(* HandOver says for each place of a thread who has its request, its event *)
(* and its mutex.                                                          *)
(***************************************************************************)
EXTENDS AsynLockPort, SequenceTheorems, TLAPS

-----------------------------------------------------------------------------
(***************************************************************************)
(* The lists of asynManager (ELLLIST) are sequences without repetitions.   *)
(***************************************************************************)
NoRepeats(q) == \A i, j \in DOMAIN q : q[i] = q[j] => i = j

\* What ellDelete leaves: one element less, the others in their order.
LEMMA RemoveAtProperties ==
    ASSUME NEW S, NEW q \in Seq(S), NEW k \in 1..Len(q)
    PROVE  /\ RemoveAt(q, k) \in Seq(S)
           /\ Len(RemoveAt(q, k)) = Len(q) - 1
           /\ \A j \in 1..Len(q) - 1 :
                 RemoveAt(q, k)[j] = IF j < k THEN q[j] ELSE q[j + 1]
<1> DEFINE a == SubSeq(q, 1, k - 1)
           b == SubSeq(q, k + 1, Len(q))
<1>1. a \in Seq(S) /\ b \in Seq(S) /\ Len(a) = k - 1 /\ Len(b) = Len(q) - k
  OBVIOUS
<1>2. \A j \in 1..k - 1 : a[j] = q[j]
  OBVIOUS
<1>3. \A j \in 1..Len(q) - k : b[j] = q[j + k]
  OBVIOUS
<1> HIDE DEF a, b
<1>4. a \o b \in Seq(S) /\ Len(a \o b) = Len(q) - 1
  BY <1>1
<1>5. ASSUME NEW j \in 1..Len(q) - 1 PROVE (a \o b)[j] = IF j < k THEN q[j] ELSE q[j + 1]
  <2>1. (a \o b)[j] = IF j <= Len(a) THEN a[j] ELSE b[j - Len(a)]
    BY <1>1
  <2> QED  BY <1>1, <1>2, <1>3, <2>1
<1> QED  BY <1>4, <1>5 DEF RemoveAt, a, b

\* What ellDelete leaves of a list without repetitions.
LEMMA RemoveAtElements ==
    ASSUME NEW S, NEW q \in Seq(S), NEW k \in 1..Len(q), NoRepeats(q)
    PROVE  /\ RemoveAt(q, k) \in Seq(S) /\ NoRepeats(RemoveAt(q, k))
           /\ ToSet(RemoveAt(q, k)) = ToSet(q) \ {q[k]}
<1> DEFINE r == RemoveAt(q, k)
           from(i) == IF i < k THEN i ELSE i + 1
<1>1. r \in Seq(S) /\ Len(r) = Len(q) - 1 /\ Len(q) \in Nat /\ DOMAIN q = 1..Len(q)
  BY RemoveAtProperties
<1>2. \A j \in 1..Len(q) - 1 : r[j] = q[from(j)]
  BY RemoveAtProperties
<1> HIDE DEF r
<1>3. DOMAIN r = 1..Len(q) - 1 /\ \A j \in DOMAIN r : from(j) \in DOMAIN q \ {k}
  BY <1>1
<1>4. \A i, j \in DOMAIN r : from(i) = from(j) => i = j
  BY <1>3
<1>5. \A i \in DOMAIN q \ {k} : \E j \in DOMAIN r : from(j) = i
  <2> TAKE i \in DOMAIN q \ {k}
  <2> DEFINE j == IF i < k THEN i ELSE i - 1
  <2> QED  BY <1>1, <1>3, j \in DOMAIN r, from(j) = i
<1> HIDE DEF from
<1>6. NoRepeats(r)
  BY <1>2, <1>3, <1>4 DEF NoRepeats
<1>7. \A x : x \in ToSet(r) <=> x \in ToSet(q) /\ x # q[k]
  BY <1>1, <1>2, <1>3, <1>5 DEF NoRepeats, ToSet
<1> QED  BY <1>1, <1>6, <1>7 DEF r

\* What ellAdd makes of a list.
LEMMA AppendElements ==
    ASSUME NEW S, NEW q \in Seq(S), NEW x \in S
    PROVE  /\ Append(q, x) \in Seq(S)
           /\ ToSet(Append(q, x)) = ToSet(q) \union {x}
           /\ NoRepeats(q) /\ x \notin ToSet(q) => NoRepeats(Append(q, x))
<1> DEFINE r == Append(q, x)
<1>1. /\ r \in Seq(S) /\ DOMAIN r = 1..Len(q) + 1 /\ DOMAIN q = 1..Len(q) /\ Len(q) \in Nat
      /\ r[Len(q) + 1] = x /\ \A i \in DOMAIN q : r[i] = q[i]
  OBVIOUS
<1> HIDE DEF r
<1>2. ToSet(r) = ToSet(q) \union {x}
  BY <1>1 DEF ToSet
<1> QED  BY <1>1, <1>2 DEF ToSet, NoRepeats, r

\* What taking the first of a list leaves.
LEMMA TailElements ==
    ASSUME NEW S, NEW q \in Seq(S), q # <<>>, NoRepeats(q)
    PROVE  /\ Head(q) \in S
           /\ Tail(q) \in Seq(S) /\ NoRepeats(Tail(q))
           /\ Head(q) \in ToSet(q) /\ ToSet(Tail(q)) = ToSet(q) \ {Head(q)}
<1> DEFINE r == Tail(q)
<1>1. /\ r \in Seq(S) /\ DOMAIN r = 1..Len(q) - 1 /\ DOMAIN q = 1..Len(q) /\ Len(q) \in Nat \ {0}
      /\ Head(q) = q[1] /\ Head(q) \in S /\ \A i \in DOMAIN r : r[i] = q[i + 1]
  OBVIOUS
<1> HIDE DEF r
<1>2. NoRepeats(r)
  BY <1>1 DEF NoRepeats
<1>3. \A i \in DOMAIN q : i # 1 => i - 1 \in DOMAIN r /\ r[i - 1] = q[i]
  BY <1>1
<1>4. \A x : x \in ToSet(r) <=> x \in ToSet(q) /\ x # q[1]
  BY <1>1, <1>3 DEF NoRepeats, ToSet
<1>5. q[1] \in ToSet(q)
  BY <1>1 DEF ToSet
<1> QED  BY <1>1, <1>2, <1>4, <1>5 DEF r

-----------------------------------------------------------------------------
Waiting(x) == x \in ToSet(queue)

\* the port thread has synchronousLock
Holding == pt \in {"notify", "call", "inside", "waitMutex", "return"}

\* the port thread is not busy with the request of t
Left(t) == serving = t => pt = "return"

PortThreadInv ==
    /\ pt = "idle" <=> serving = Null
    /\ Holding <=> syncOwner = PortThread
    /\ pt = "inside" => serving \in Others
    /\ pt = "waitMutex" => serving \in Threads

SyncInv ==
    /\ syncOwner = Null <=> syncDepth = 0
    /\ syncOwner = PortThread => syncDepth = 1
    /\ \A t \in Threads :
          syncOwner = t => lc[t] \in {"idle", "notify"} /\ count[t] = 0

\* a thread that has not called queueLockPort
Idle(t) ==
    /\ count[t] = 0 /\ ~event[t] /\ mutex[t] = Null /\ ~Waiting(t) /\ Left(t)
    /\ lc[t] = "notify" => syncOwner = t

\* a thread that queueLockPort gave the port to
Granted(t) ==
    /\ count[t] > 0 /\ ~event[t] /\ mutex[t] = t /\ ~Waiting(t)
    /\ serving = t /\ pt = "waitMutex"

\* a thread that waits for its request: queued, being served, granted, failed
Requested(t) ==
    /\ count[t] = 0 /\ mutex[t] = t
    /\ \/ Waiting(t) /\ ~event[t] /\ ~timedOut[t] /\ Left(t)
       \/ /\ ~Waiting(t) /\ ~event[t] /\ ~timedOut[t]
          /\ serving = t /\ pt \in {"lockSync", "notify", "call"}
       \/ /\ ~Waiting(t) /\ event[t] /\ ~timedOut[t]
          /\ serving = t /\ pt = "waitMutex"
       \/ ~Waiting(t) /\ event[t] /\ timedOut[t] /\ Left(t)

\* a thread that gives the port back
Returning(t) ==
    /\ count[t] = 1 /\ mutex[t] = Null /\ ~Waiting(t)
    /\ \/ event[t] /\ Left(t)
       \/ ~event[t] /\ serving = t /\ pt = "waitMutex"

HandOver(t) ==
    /\ lc[t] \in {"idle", "notify"} => Idle(t) \/ Granted(t)
    /\ lc[t] = "waitBegin" => Requested(t)
    /\ lc[t] = "waitEnd" => Returning(t)

HandOverInv == \A t \in Threads : HandOver(t)

\* the lower port is locked with this one; queueLockPort on a port that blocks
\* and has a lower port stays in asynLockPortNotify.lock
LowerInv ==
    /\ lowerOwner = Null <=> lowerDepth = 0
    /\ lowerOwner \in {PortThread, Lower} => lowerDepth = 1
    /\ ~HasNotify => lowerOwner = Null /\ \A t \in Threads : lc[t] # "notify"
    /\ pt = "notify" => HasNotify
    /\ lowerOwner = PortThread <=>
          HasNotify /\ pt \in {"call", "inside", "waitMutex", "return"}
    /\ HasNotify => \A t \in Threads :
          /\ lowerOwner = t => syncOwner = t
          /\ syncOwner = t /\ lc[t] = "idle" =>
                lowerOwner = t /\ lowerDepth = syncDepth
          /\ syncOwner = t /\ lc[t] = "notify" =>
                /\ syncDepth = 1 => lowerOwner # t
                /\ syncDepth > 1 => lowerOwner = t /\ lowerDepth = syncDepth - 1
          /\ count[t] > 0 => lc[t] = "notify"

\* what synchronousLock, the events and the mutexes say together
StateInv == PortThreadInv /\ SyncInv /\ HandOverInv /\ LowerInv

LockIInv == LockTypeOK /\ NoRepeats(queue) /\ StateInv

-----------------------------------------------------------------------------
\* A newly registered port: nobody has anything.
LEMMA LockInit == Init => LockIInv
<1> SUFFICES ASSUME Init PROVE LockIInv
  OBVIOUS
<1> USE LockNamesAssumption DEF Init
<1>1. queue \in Seq(Threads \union Others) /\ ToSet(queue) = {} /\ NoRepeats(queue)
  BY DEF ToSet, NoRepeats
<1>2. LockTypeOK
  BY <1>1 DEF LockTypeOK
<1>3. StateInv
  BY <1>1 DEF StateInv, PortThreadInv, Holding, SyncInv, HandOverInv, HandOver,
              Idle, Left, Waiting, LowerInv
<1> QED  BY <1>1, <1>2, <1>3 DEF LockIInv

\* What an action does to the queue, for all that follows.
QueueTo(s) ==
    /\ queue' \in Seq(Threads \union Others)
    /\ NoRepeats(queue')
    /\ \A x : Waiting(x)' <=> x \in s

\* Most actions leave the queue alone.
LEMMA QueueUnchanged ==
    ASSUME LockIInv, UNCHANGED queue
    PROVE  QueueTo(ToSet(queue))
BY DEF LockIInv, LockTypeOK, QueueTo, Waiting

-----------------------------------------------------------------------------
\* Every step of a thread keeps the invariant.
LEMMA ThreadKeeps ==
    ASSUME LockIInv, NEW t \in Threads, ThreadStep(t)
    PROVE  LockIInv'
<1> USE LockNamesAssumption
    DEF LockIInv, LockTypeOK, StateInv, PortThreadInv, Holding, SyncInv,
        HandOverInv, HandOver, Idle, Granted, Requested, Returning, Left,
        LowerInv, ownVars, syncVars, lowerVars, portVars, ptVars,
        TakeSync, DropSync, TakeLower, DropLower, At, CanBlock, HasNotify
<1>1. CASE LockAgain(t)
  <2>1. QueueTo(ToSet(queue))
    BY <1>1, QueueUnchanged DEF LockAgain
  <2>2. \A x : Waiting(x)' <=> Waiting(x)
    BY <2>1 DEF QueueTo, Waiting
  <2>3. LockTypeOK'
    BY <1>1, <2>1 DEF LockAgain, QueueTo
  <2>4. PortThreadInv' /\ SyncInv'
    BY <1>1 DEF LockAgain
  <2>5. HandOverInv'
    BY <1>1, <2>2 DEF LockAgain
  <2>6. LowerInv'
    BY <1>1 DEF LockAgain
  <2> QED  BY <2>1, <2>3, <2>4, <2>5, <2>6 DEF QueueTo
<1>2. CASE Begin(t)
  <2>1. QueueTo(ToSet(queue))
    BY <1>2, QueueUnchanged DEF Begin
  <2>2. \A x : Waiting(x)' <=> Waiting(x)
    BY <2>1 DEF QueueTo, Waiting
  <2>3. LockTypeOK'
    <3>1. count' \in [Threads -> 0..MaxDepth]
      BY <1>2 DEF Begin
    <3>2. mutex' \in [Threads -> Threads \union {Null}]
      BY <1>2 DEF Begin
    <3>3. lc' \in [Threads -> {"idle", "waitBegin", "notify", "waitEnd"}]
      BY <1>2 DEF Begin
    <3> QED  BY <1>2, <2>1, <3>1, <3>2, <3>3 DEF Begin, QueueTo
  <2>4. PortThreadInv' /\ SyncInv'
    BY <1>2 DEF Begin
  <2>5. HandOverInv'
    BY <1>2, <2>2 DEF Begin
  <2>6. LowerInv'
    BY <1>2 DEF Begin
  <2> QED  BY <2>1, <2>3, <2>4, <2>5, <2>6 DEF QueueTo
<1>3. CASE Notify(t)
  <2>1. QueueTo(ToSet(queue))
    BY <1>3, QueueUnchanged DEF Notify
  <2>2. \A x : Waiting(x)' <=> Waiting(x)
    BY <2>1 DEF QueueTo, Waiting
  <2>3. LockTypeOK'
    BY <1>3, <2>1 DEF Notify, QueueTo
  <2>4. PortThreadInv' /\ SyncInv'
    BY <1>3 DEF Notify
  <2>5. HandOverInv'
    BY <1>3, <2>2 DEF Notify
  <2>6. LowerInv'
    BY <1>3 DEF Notify
  <2> QED  BY <2>1, <2>3, <2>4, <2>5, <2>6 DEF QueueTo
<1>4. CASE UnlockInner(t)
  <2>1. QueueTo(ToSet(queue))
    BY <1>4, QueueUnchanged DEF UnlockInner
  <2>2. \A x : Waiting(x)' <=> Waiting(x)
    BY <2>1 DEF QueueTo, Waiting
  <2>3. LockTypeOK'
    BY <1>4, <2>1 DEF UnlockInner, QueueTo
  <2>4. PortThreadInv' /\ SyncInv'
    BY <1>4 DEF UnlockInner
  <2>5. HandOverInv'
    BY <1>4, <2>2 DEF UnlockInner
  <2>6. LowerInv'
    BY <1>4 DEF UnlockInner
  <2> QED  BY <2>1, <2>3, <2>4, <2>5, <2>6 DEF QueueTo
<1>5. CASE Unlock(t)
  <2>1. QueueTo(ToSet(queue))
    BY <1>5, QueueUnchanged DEF Unlock
  <2>2. \A x : Waiting(x)' <=> Waiting(x)
    BY <2>1 DEF QueueTo, Waiting
  <2>3. LockTypeOK'
    BY <1>5, <2>1 DEF Unlock, QueueTo
  <2>4. PortThreadInv' /\ SyncInv'
    BY <1>5 DEF Unlock
  <2>5. HandOverInv'
    BY <1>5, <2>2 DEF Unlock
  <2>6. LowerInv'
    BY <1>5 DEF Unlock
  <2> QED  BY <2>1, <2>3, <2>4, <2>5, <2>6 DEF QueueTo
<1>6. CASE End(t)
  <2>1. QueueTo(ToSet(queue))
    BY <1>6, QueueUnchanged DEF End
  <2>2. \A x : Waiting(x)' <=> Waiting(x)
    BY <2>1 DEF QueueTo, Waiting
  <2>3. LockTypeOK'
    BY <1>6, <2>1 DEF End, QueueTo
  <2>4. PortThreadInv' /\ SyncInv'
    BY <1>6 DEF End
  <2>5. HandOverInv'
    BY <1>6, <2>2 DEF End
  <2>6. LowerInv'
    BY <1>6 DEF End
  <2> QED  BY <2>1, <2>3, <2>4, <2>5, <2>6 DEF QueueTo
<1>7. CASE LockSync(t)
  <2>1. QueueTo(ToSet(queue))
    BY <1>7, QueueUnchanged DEF LockSync
  <2>2. \A x : Waiting(x)' <=> Waiting(x)
    BY <2>1 DEF QueueTo, Waiting
  <2>3. LockTypeOK'
    BY <1>7, <2>1 DEF LockSync, QueueTo
  <2>4. PortThreadInv' /\ SyncInv'
    BY <1>7 DEF LockSync
  <2>5. HandOverInv'
    BY <1>7, <2>2 DEF LockSync
  <2>6. LowerInv'
    BY <1>7 DEF LockSync
  <2> QED  BY <2>1, <2>3, <2>4, <2>5, <2>6 DEF QueueTo
<1>8. CASE UnlockSync(t)
  <2>1. QueueTo(ToSet(queue))
    BY <1>8, QueueUnchanged DEF UnlockSync
  <2>2. \A x : Waiting(x)' <=> Waiting(x)
    BY <2>1 DEF QueueTo, Waiting
  <2>3. LockTypeOK'
    BY <1>8, <2>1 DEF UnlockSync, QueueTo
  <2>4. PortThreadInv' /\ SyncInv'
    BY <1>8 DEF UnlockSync
  <2>5. HandOverInv'
    BY <1>8, <2>2 DEF UnlockSync
  <2>6. LowerInv'
    BY <1>8 DEF UnlockSync
  <2> QED  BY <2>1, <2>3, <2>4, <2>5, <2>6 DEF QueueTo
<1>9. CASE QueueLock(t)
  <2>1. queue' = Append(queue, t) /\ ~Waiting(t)
    BY <1>9 DEF QueueLock
  <2>2. QueueTo(ToSet(queue) \union {t})
    BY <2>1, AppendElements DEF QueueTo, Waiting
  <2>3. \A x : Waiting(x)' <=> Waiting(x) \/ x = t
    BY <2>2 DEF QueueTo, Waiting
  <2>4. LockTypeOK'
    BY <1>9, <2>2 DEF QueueLock, QueueTo
  <2>5. PortThreadInv' /\ SyncInv'
    BY <1>9 DEF QueueLock
  <2>6. HandOverInv'
    BY <1>9, <2>3 DEF QueueLock
  <2>7. LowerInv'
    BY <1>9 DEF QueueLock
  <2> QED  BY <2>2, <2>4, <2>5, <2>6, <2>7 DEF QueueTo
<1> QED  BY <1>1, <1>2, <1>3, <1>4, <1>5, <1>6, <1>7, <1>8, <1>9 DEF ThreadStep

\* Every step of the port thread keeps the invariant.
LEMMA PortThreadKeeps ==
    ASSUME LockIInv, PortThreadStep
    PROVE  LockIInv'
<1> USE LockNamesAssumption
    DEF LockIInv, LockTypeOK, StateInv, PortThreadInv, Holding, SyncInv,
        HandOverInv, HandOver, Idle, Granted, Requested, Returning, Left,
        LowerInv, ownVars, syncVars, lowerVars, portVars, ptVars,
        TakeSync, DropSync, TakeLower, DropLower, At, CanBlock, HasNotify
<1>1. CASE ServeLock
  <2>1. QueueTo(ToSet(queue))
    BY <1>1, QueueUnchanged DEF ServeLock
  <2>2. \A x : Waiting(x)' <=> Waiting(x)
    BY <2>1 DEF QueueTo, Waiting
  <2>3. LockTypeOK'
    BY <1>1, <2>1 DEF ServeLock, QueueTo
  <2>4. PortThreadInv' /\ SyncInv'
    BY <1>1 DEF ServeLock
  <2>5. HandOverInv'
    BY <1>1, <2>2 DEF ServeLock
  <2>6. LowerInv'
    BY <1>1 DEF ServeLock
  <2> QED  BY <2>1, <2>3, <2>4, <2>5, <2>6 DEF QueueTo
<1>2. CASE ServeNotify
  <2>1. QueueTo(ToSet(queue))
    BY <1>2, QueueUnchanged DEF ServeNotify
  <2>2. \A x : Waiting(x)' <=> Waiting(x)
    BY <2>1 DEF QueueTo, Waiting
  <2>3. LockTypeOK'
    BY <1>2, <2>1 DEF ServeNotify, QueueTo
  <2>4. PortThreadInv' /\ SyncInv'
    BY <1>2 DEF ServeNotify
  <2>5. HandOverInv'
    BY <1>2, <2>2 DEF ServeNotify
  <2>6. LowerInv'
    BY <1>2 DEF ServeNotify
  <2> QED  BY <2>1, <2>3, <2>4, <2>5, <2>6 DEF QueueTo
<1>3. CASE CallOther
  <2>1. QueueTo(ToSet(queue))
    BY <1>3, QueueUnchanged DEF CallOther
  <2>2. \A x : Waiting(x)' <=> Waiting(x)
    BY <2>1 DEF QueueTo, Waiting
  <2>3. LockTypeOK'
    BY <1>3, <2>1 DEF CallOther, QueueTo
  <2>4. PortThreadInv' /\ SyncInv'
    BY <1>3 DEF CallOther
  <2>5. HandOverInv'
    BY <1>3, <2>2 DEF CallOther
  <2>6. LowerInv'
    BY <1>3 DEF CallOther
  <2> QED  BY <2>1, <2>3, <2>4, <2>5, <2>6 DEF QueueTo
<1>4. CASE CallLock
  <2>1. QueueTo(ToSet(queue))
    BY <1>4, QueueUnchanged DEF CallLock
  <2>2. \A x : Waiting(x)' <=> Waiting(x)
    BY <2>1 DEF QueueTo, Waiting
  <2>3. LockTypeOK'
    BY <1>4, <2>1 DEF CallLock, QueueTo
  <2>4. PortThreadInv' /\ SyncInv'
    BY <1>4 DEF CallLock
  <2>5. HandOverInv'
    BY <1>4, <2>2 DEF CallLock
  <2>6. LowerInv'
    BY <1>4 DEF CallLock
  <2> QED  BY <2>1, <2>3, <2>4, <2>5, <2>6 DEF QueueTo
<1>5. CASE CallTimeout
  <2>1. QueueTo(ToSet(queue))
    BY <1>5, QueueUnchanged DEF CallTimeout
  <2>2. \A x : Waiting(x)' <=> Waiting(x)
    BY <2>1 DEF QueueTo, Waiting
  <2>3. LockTypeOK'
    BY <1>5, <2>1 DEF CallTimeout, QueueTo
  <2>4. PortThreadInv' /\ SyncInv'
    BY <1>5 DEF CallTimeout
  <2>5. HandOverInv'
    BY <1>5, <2>2 DEF CallTimeout
  <2>6. LowerInv'
    BY <1>5 DEF CallTimeout
  <2> QED  BY <2>1, <2>3, <2>4, <2>5, <2>6 DEF QueueTo
<1>6. CASE TakeBack
  <2>1. QueueTo(ToSet(queue))
    BY <1>6, QueueUnchanged DEF TakeBack
  <2>2. \A x : Waiting(x)' <=> Waiting(x)
    BY <2>1 DEF QueueTo, Waiting
  <2>3. LockTypeOK'
    BY <1>6, <2>1 DEF TakeBack, QueueTo
  <2>4. PortThreadInv' /\ SyncInv'
    BY <1>6 DEF TakeBack
  <2>5. HandOverInv'
    BY <1>6, <2>2 DEF TakeBack
  <2>6. LowerInv'
    BY <1>6 DEF TakeBack
  <2> QED  BY <2>1, <2>3, <2>4, <2>5, <2>6 DEF QueueTo
<1>7. CASE Return
  <2>1. QueueTo(ToSet(queue))
    BY <1>7, QueueUnchanged DEF Return
  <2>2. \A x : Waiting(x)' <=> Waiting(x)
    BY <2>1 DEF QueueTo, Waiting
  <2>3. LockTypeOK'
    BY <1>7, <2>1 DEF Return, QueueTo
  <2>4. PortThreadInv' /\ SyncInv'
    BY <1>7 DEF Return
  <2>5. HandOverInv'
    BY <1>7, <2>2 DEF Return
  <2>6. LowerInv'
    BY <1>7 DEF Return
  <2> QED  BY <2>1, <2>3, <2>4, <2>5, <2>6 DEF QueueTo
<1>8. CASE Dequeue
  <2>1. queue # <<>> /\ queue' = Tail(queue) /\ serving' = Head(queue)
    BY <1>8 DEF Dequeue
  <2>2. /\ QueueTo(ToSet(queue) \ {serving'})
        /\ serving' \in Threads \union Others
        /\ Waiting(serving')
    BY <2>1, TailElements DEF QueueTo, Waiting
  <2>3. \A x : Waiting(x)' <=> Waiting(x) /\ x # serving'
    BY <2>2 DEF QueueTo, Waiting
  <2>4. LockTypeOK'
    BY <1>8, <2>2 DEF Dequeue, QueueTo
  <2>5. PortThreadInv' /\ SyncInv'
    BY <1>8, <2>2 DEF Dequeue
  <2>6. HandOverInv'
    BY <1>8, <2>2, <2>3 DEF Dequeue
  <2>7. LowerInv'
    BY <1>8 DEF Dequeue
  <2> QED  BY <2>2, <2>4, <2>5, <2>6, <2>7 DEF QueueTo
<1> QED  BY <1>1, <1>2, <1>3, <1>4, <1>5, <1>6, <1>7, <1>8 DEF PortThreadStep

\* Other requests, changes of the port's state, time-outs and users of the
\* lower port keep the invariant.
LEMMA EnvironmentKeeps ==
    ASSUME LockIInv,
           \/ \E t \in Threads : Timeout(t)
           \/ \E u \in Others : Request(u)
           \/ Change \/ LowerLock \/ LowerUnlock
    PROVE  LockIInv'
<1> USE LockNamesAssumption
    DEF LockIInv, LockTypeOK, StateInv, PortThreadInv, Holding, SyncInv,
        HandOverInv, HandOver, Idle, Granted, Requested, Returning, Left,
        LowerInv, ownVars, syncVars, lowerVars, portVars, ptVars,
        TakeSync, DropSync, TakeLower, DropLower, At, CanBlock, HasNotify
<1>1. CASE Change
  <2>1. QueueTo(ToSet(queue))
    BY <1>1, QueueUnchanged DEF Change
  <2>2. \A x : Waiting(x)' <=> Waiting(x)
    BY <2>1 DEF QueueTo, Waiting
  <2>3. LockTypeOK'
    BY <1>1, <2>1 DEF Change, QueueTo
  <2>4. PortThreadInv' /\ SyncInv'
    BY <1>1 DEF Change
  <2>5. HandOverInv'
    BY <1>1, <2>2 DEF Change
  <2>6. LowerInv'
    BY <1>1 DEF Change
  <2> QED  BY <2>1, <2>3, <2>4, <2>5, <2>6 DEF QueueTo
<1>2. CASE LowerLock
  <2>1. QueueTo(ToSet(queue))
    BY <1>2, QueueUnchanged DEF LowerLock
  <2>2. \A x : Waiting(x)' <=> Waiting(x)
    BY <2>1 DEF QueueTo, Waiting
  <2>3. LockTypeOK'
    BY <1>2, <2>1 DEF LowerLock, QueueTo
  <2>4. PortThreadInv' /\ SyncInv'
    BY <1>2 DEF LowerLock
  <2>5. HandOverInv'
    BY <1>2, <2>2 DEF LowerLock
  <2>6. LowerInv'
    BY <1>2 DEF LowerLock
  <2> QED  BY <2>1, <2>3, <2>4, <2>5, <2>6 DEF QueueTo
<1>3. CASE LowerUnlock
  <2>1. QueueTo(ToSet(queue))
    BY <1>3, QueueUnchanged DEF LowerUnlock
  <2>2. \A x : Waiting(x)' <=> Waiting(x)
    BY <2>1 DEF QueueTo, Waiting
  <2>3. LockTypeOK'
    BY <1>3, <2>1 DEF LowerUnlock, QueueTo
  <2>4. PortThreadInv' /\ SyncInv'
    BY <1>3 DEF LowerUnlock
  <2>5. HandOverInv'
    BY <1>3, <2>2 DEF LowerUnlock
  <2>6. LowerInv'
    BY <1>3 DEF LowerUnlock
  <2> QED  BY <2>1, <2>3, <2>4, <2>5, <2>6 DEF QueueTo
<1>4. ASSUME NEW u \in Others, Request(u) PROVE LockIInv'
  <2>1. queue' = Append(queue, u) /\ ~Waiting(u)
    BY <1>4 DEF Request, Waiting
  <2>2. QueueTo(ToSet(queue) \union {u})
    BY <2>1, AppendElements DEF QueueTo, Waiting
  <2>3. \A x \in Threads : Waiting(x)' <=> Waiting(x)
    BY <2>2 DEF QueueTo, Waiting
  <2>4. LockTypeOK'
    BY <1>4, <2>2 DEF Request, QueueTo
  <2>5. PortThreadInv' /\ SyncInv'
    BY <1>4 DEF Request
  <2>6. HandOverInv'
    BY <1>4, <2>3 DEF Request
  <2>7. LowerInv'
    BY <1>4 DEF Request
  <2> QED  BY <2>2, <2>4, <2>5, <2>6, <2>7 DEF QueueTo
<1>5. ASSUME NEW t \in Threads, Timeout(t) PROVE LockIInv'
  <2>1. PICK i \in DOMAIN queue : queue[i] = t /\ queue' = RemoveAt(queue, i)
    BY <1>5 DEF Timeout
  <2>2. i \in 1..Len(queue) /\ Waiting(t)
    BY <2>1, LenProperties DEF Waiting, ToSet
  <2>3. QueueTo(ToSet(queue) \ {t})
    BY <2>1, <2>2, RemoveAtProperties, RemoveAtElements DEF QueueTo, Waiting
  <2>4. \A x : Waiting(x)' <=> Waiting(x) /\ x # t
    BY <2>3 DEF QueueTo, Waiting
  <2>5. LockTypeOK'
    BY <1>5, <2>3 DEF Timeout, QueueTo
  <2>6. PortThreadInv' /\ SyncInv'
    BY <1>5 DEF Timeout
  <2>7. HandOverInv'
    BY <1>5, <2>2, <2>4 DEF Timeout
  <2>8. LowerInv'
    BY <1>5 DEF Timeout
  <2> QED  BY <2>3, <2>5, <2>6, <2>7, <2>8 DEF QueueTo
<1> QED  BY <1>1, <1>2, <1>3, <1>4, <1>5

\* The invariant holds in every reachable state.
THEOREM LockInvariance == Spec => []LockIInv
<1>1. LockIInv /\ [Next]_vars => LockIInv'
  <2> SUFFICES ASSUME LockIInv, [Next]_vars PROVE LockIInv'
    OBVIOUS
  <2>1. CASE Next
    BY <2>1, ThreadKeeps, PortThreadKeeps, EnvironmentKeeps DEF Next
  <2>2. CASE UNCHANGED vars
    <3>1. LockTypeOK' /\ NoRepeats(queue)'
      BY <2>2 DEF vars, portVars, ownVars, syncVars, lowerVars, ptVars,
                  LockIInv, LockTypeOK
    <3>2. StateInv'
      BY <2>2 DEF vars, portVars, ownVars, syncVars, lowerVars, ptVars,
                  LockIInv, StateInv, PortThreadInv, Holding, SyncInv,
                  HandOverInv, HandOver, Idle, Granted, Requested, Returning,
                  Left, Waiting, LowerInv, HasNotify
    <3> QED  BY <3>1, <3>2 DEF LockIInv
  <2> QED  BY <2>1, <2>2
<1> QED  BY LockInit, <1>1, PTL DEF Spec

\* Every variable keeps its type; neither recursive mutex is released more
\* often than it was taken.
THEOREM LockTypeCorrect == Spec => []LockTypeOK
<1>1. LockIInv => LockTypeOK
  BY DEF LockIInv
<1> QED  BY <1>1, LockInvariance, PTL

\* synchronousLock has one owner, and the port thread lends the port to one
\* thread, the one it serves.
LEMMA OneOwner == LockIInv => PortExclusive
<1> SUFFICES ASSUME LockIInv, NEW x \in InPort, NEW y \in InPort PROVE x = y
  BY DEF PortExclusive
<1> USE LockNamesAssumption
<1>1. ASSUME NEW t \in Threads, Locked(t)
      PROVE  \/ syncOwner = t
             \/ syncOwner = PortThread /\ pt = "waitMutex" /\ serving = t
  BY <1>1 DEF Locked, LockIInv, StateInv, PortThreadInv, Holding, SyncInv,
              HandOverInv, HandOver, Idle, Granted, LockTypeOK
<1>2. pt = "inside" => syncOwner = PortThread
  BY DEF LockIInv, StateInv, PortThreadInv, Holding
<1> QED  BY <1>1, <1>2 DEF InPort

\* Nobody calls the driver while another thread has locked the port by
\* queueLockPort or lockPort or is served by the port thread.
THEOREM OneOwnerAtATime == Spec => []PortExclusive
BY OneOwner, LockInvariance, PTL

\* queueLockPortEvent carries no signal of an earlier request.
THEOREM EventsFresh == Spec => []EventFresh
<1>1. LockIInv => EventFresh
  BY DEF LockIInv, LockTypeOK, StateInv, HandOverInv, HandOver, Idle, Granted,
         Requested, Returning, EventFresh
<1> QED  BY <1>1, LockInvariance, PTL

\* Whoever has the port has the lower port too (asynLockPortNotify).
THEOREM LowerPortLocked == Spec => []LowerLocked
<1>1. LockIInv => LowerLocked
  <2> SUFFICES ASSUME LockIInv, HasNotify, NEW x \in InPort PROVE lowerOwner = x
    BY DEF LowerLocked
  <2> USE LockNamesAssumption
  <2>1. CASE x = PortThread
    <3>1. pt = "inside"
      BY <2>1 DEF InPort
    <3> QED  BY <2>1, <3>1 DEF LockIInv, StateInv, LowerInv
  <2>2. CASE x \in Threads
    <3>1. lc[x] = "idle" /\ (count[x] > 0 \/ syncOwner = x)
      BY <2>2 DEF InPort, Locked
    <3> QED  BY <2>2, <3>1 DEF LockIInv, StateInv, LowerInv
  <2> QED  BY <2>1, <2>2 DEF InPort
<1> QED  BY <1>1, LockInvariance, PTL

-----------------------------------------------------------------------------
(***************************************************************************)
(* AsynLockPort implements PortLock.                                       *)
(***************************************************************************)
\* TheOwner is the one that may call the driver.
LEMMA OwnerIs ==
    ASSUME PortExclusive
    PROVE  /\ InPort = {} => TheOwner = Null
           /\ InPort # {} => TheOwner \in InPort /\ InPort = {TheOwner}
BY DEF TheOwner, PortExclusive

\* A step does not hand the port from one owner to another.
LEMMA NoDirectHandOver ==
    ASSUME LockIInv, LockIInv', Next, NEW x \in InPort, NEW y \in InPort', x # y
    PROVE  FALSE
<1> USE LockNamesAssumption
    DEF InPort, Locked, LockIInv, LockTypeOK, StateInv, PortThreadInv, Holding,
        SyncInv, HandOverInv, HandOver, Idle, Granted, Left,
        ownVars, syncVars, lowerVars, portVars, ptVars,
        TakeSync, DropSync, At
<1>1. ASSUME NEW t \in Threads, ThreadStep(t) PROVE FALSE
  <2>1. CASE LockAgain(t)
    BY <2>1 DEF LockAgain
  <2>2. CASE QueueLock(t)
    BY <2>2 DEF QueueLock
  <2>3. CASE Begin(t)
    BY <2>3 DEF Begin
  <2>4. CASE Notify(t)
    BY <2>4 DEF Notify
  <2>5. CASE UnlockInner(t)
    BY <2>5 DEF UnlockInner
  <2>6. CASE Unlock(t)
    BY <2>6 DEF Unlock
  <2>7. CASE End(t)
    BY <2>7 DEF End
  <2>8. CASE LockSync(t)
    BY <2>8 DEF LockSync
  <2>9. CASE UnlockSync(t)
    BY <2>9 DEF UnlockSync
  <2> QED  BY <1>1, <2>1, <2>2, <2>3, <2>4, <2>5, <2>6, <2>7, <2>8, <2>9
           DEF ThreadStep
<1>2. ASSUME PortThreadStep PROVE FALSE
  BY <1>2 DEF PortThreadStep, Dequeue, ServeLock, ServeNotify, CallOther,
              CallLock, CallTimeout, TakeBack, Return
<1>3. ASSUME NEW t \in Threads, Timeout(t) PROVE FALSE
  BY <1>3 DEF Timeout
<1>4. ASSUME NEW u \in Others, Request(u) PROVE FALSE
  BY <1>4 DEF Request
<1>5. ASSUME Change \/ LowerLock \/ LowerUnlock PROVE FALSE
  BY <1>5 DEF Change, LowerLock, LowerUnlock
<1> QED  BY <1>1, <1>2, <1>3, <1>4, <1>5 DEF Next

\* queueLockPort, lockPort and the port thread implement a lock: each owner
\* gives the port up before the next one gets it.
THEOREM ImplementsPortLock == Spec => HandsOver
<1>1. Init => Abstract!Init
  <2> SUFFICES ASSUME Init PROVE TheOwner = Null
    BY DEF Abstract!Init
  <2>1. InPort = {}
    BY LockNamesAssumption DEF Init, InPort, Locked
  <2> QED  BY <2>1 DEF TheOwner
<1>2. LockIInv /\ LockIInv' /\ [Next]_vars => [Abstract!Next]_TheOwner
  <2> SUFFICES ASSUME LockIInv, LockIInv', [Next]_vars
               PROVE  Abstract!Next \/ TheOwner' = TheOwner
    OBVIOUS
  <2>1. CASE UNCHANGED vars
    BY <2>1 DEF vars, portVars, ownVars, syncVars, lowerVars, ptVars,
                TheOwner, InPort, Locked
  <2>2. CASE Next
    <3>1. PortExclusive /\ PortExclusive'
      BY OneOwner, PTL
    <3>2. /\ InPort = {} => TheOwner = Null
          /\ InPort # {} => TheOwner \in InPort /\ InPort = {TheOwner}
      BY <3>1, OwnerIs
    <3>3. /\ InPort' = {} => TheOwner' = Null
          /\ InPort' # {} => TheOwner' \in InPort' /\ InPort' = {TheOwner'}
      BY <3>1 DEF TheOwner, PortExclusive
    <3>4. InPort \subseteq Threads \union {PortThread}
          /\ InPort' \subseteq Threads \union {PortThread}
      BY DEF InPort
    <3>5. CASE InPort = {} \/ InPort' = {}
      BY <3>2, <3>3, <3>4, <3>5, LockNamesAssumption
         DEF Abstract!Next, Abstract!Acquire, Abstract!Release
    <3>6. CASE InPort # {} /\ InPort' # {}
      BY <2>2, <3>2, <3>3, <3>6, NoDirectHandOver
    <3> QED  BY <3>5, <3>6
  <2> QED  BY <2>1, <2>2
<1> QED  BY <1>1, <1>2, LockInvariance, PTL DEF Spec, HandsOver, Abstract!Spec
=============================================================================
