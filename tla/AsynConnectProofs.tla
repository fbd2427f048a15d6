-------------------------- MODULE AsynConnectProofs --------------------------
(***************************************************************************)
(* A port that should connect is always going to be tried again, and       *)
(* waitConnect does not report a connection that was not there, for any    *)
(* number of clients, calls and outages, on a port of either kind.         *)
(***************************************************************************)
EXTENDS AsynConnect, SequenceTheorems, TLAPS

-----------------------------------------------------------------------------
(***************************************************************************)
(* The lists of asynManager (ELLLIST) are sequences without repetitions.   *)
(***************************************************************************)
NoRepeats(q) == \A i, j \in DOMAIN q : q[i] = q[j] => i = j

\* What ellAdd makes of a list.
LEMMA AppendElements ==
    ASSUME NEW S, NEW q \in Seq(S), NEW x \in S
    PROVE  /\ Append(q, x) \in Seq(S)
           /\ ToSet(Append(q, x)) = ToSet(q) \union {x}
           /\ NoRepeats(q) /\ x \notin ToSet(q) => NoRepeats(Append(q, x))
<1> DEFINE r == Append(q, x)
<1>1. /\ r \in Seq(S) /\ DOMAIN r = 1..Len(q) + 1 /\ DOMAIN q = 1..Len(q) /\ Len(q) \in Nat
      /\ r[Len(q) + 1] = x /\ \A i \in DOMAIN q : r[i] = q[i]
  OBVIOUS
<1> HIDE DEF r
<1>2. ToSet(r) = ToSet(q) \union {x}
  BY <1>1 DEF ToSet
<1> QED  BY <1>1, <1>2 DEF ToSet, NoRepeats, r

\* What taking the first of a list leaves.
LEMMA TailElements ==
    ASSUME NEW S, NEW q \in Seq(S), q # <<>>, NoRepeats(q)
    PROVE  /\ Head(q) \in S
           /\ Tail(q) \in Seq(S) /\ NoRepeats(Tail(q))
           /\ Head(q) \in ToSet(q) /\ ToSet(Tail(q)) = ToSet(q) \ {Head(q)}
<1> DEFINE r == Tail(q)
<1>1. /\ r \in Seq(S) /\ DOMAIN r = 1..Len(q) - 1 /\ DOMAIN q = 1..Len(q) /\ Len(q) \in Nat \ {0}
      /\ Head(q) = q[1] /\ Head(q) \in S /\ \A i \in DOMAIN r : r[i] = q[i + 1]
  OBVIOUS
<1> HIDE DEF r
<1>2. NoRepeats(r)
  BY <1>1 DEF NoRepeats
<1>3. \A i \in DOMAIN q : i # 1 => i - 1 \in DOMAIN r /\ r[i - 1] = q[i]
  BY <1>1
<1>4. \A x : x \in ToSet(r) <=> x \in ToSet(q) /\ x # q[1]
  BY <1>1, <1>3 DEF NoRepeats, ToSet
<1>5. q[1] \in ToSet(q)
  BY <1>1 DEF ToSet
<1> QED  BY <1>1, <1>2, <1>4, <1>5 DEF r

-----------------------------------------------------------------------------
Connecting == {"connectUser", "attempt", "connect"}
Ending == {"disconnect", "io"}

\* who calls the driver, or announces what the driver did
Holding(t) ==
    \/ at[t] \in {"connect", "disconnect", "lost", "return"}
    \/ at[t] = "announce" /\ Kind(t) \in Connecting \cup Ending

LockInv == \A t \in Threads : Holding(t) => synchronousLock = {t}

\* What a thread does where it is.  connected is changed with the port only.
PlaceInv ==
    \A t \in Threads :
        /\ at[t] = "call" => Kind(t) \in Connecting \cup Ending
        /\ at[t] = "connect" => Kind(t) \in Connecting
        /\ at[t] = "disconnect" => Kind(t) \in Ending /\ connected
        /\ at[t] = "lost" => Kind(t) \in Ending
        /\ at[t] = "announce" => \/ Kind(t) \in Ending \cup {"enable", "autoConnect"}
                                 \/ Kind(t) \in Connecting /\ connected
        /\ at[t] = "changed" => Kind(t) = "autoConnect"

\* waitConnect has been called and has not looked at its event
Window == at[Registrar] \in {"looks", "adds", "waits"}

WaitInv ==
    /\ listed => at[Registrar] = "waits"
    /\ event => seen /\ at[Registrar] = "waits"
    /\ at[Registrar] # "idle" => result = "none"
    /\ Window /\ connected => seen
    /\ \A t \in Threads : Window /\ Losing(t) => seen
    /\ WaitTrue

ConnectIInv ==
    /\ ConnectTypeOK /\ NoRepeats(queue)
    /\ LockInv /\ PlaceInv
    /\ RetryPending
    /\ WaitInv

-----------------------------------------------------------------------------
\* registerInterface is about to ask for the first connection.
LEMMA ConnectInit == Init => ConnectIInv
<1> SUFFICES ASSUME Init PROVE ConnectIInv
  OBVIOUS
<1> USE ConnectAssumption DEF Init, Threads
<1>1. queue \in Seq(Requests) /\ NoRepeats(queue)
  BY DEF NoRepeats
<1>2. <<"none", Timer>> \in Jobs
  BY DEF Jobs
<1>3. ConnectTypeOK
  BY <1>1, <1>2 DEF ConnectTypeOK
<1>4. LockInv /\ PlaceInv /\ RetryPending
  BY DEF LockInv, Holding, PlaceInv, RetryPending, Trying
<1>5. WaitInv
  BY DEF WaitInv, Window, Losing, WaitTrue
<1> QED  BY <1>1, <1>3, <1>4, <1>5 DEF ConnectIInv

\* Back is a place that holds nothing.
LEMMA BackPlaces ==
    ASSUME NEW t \in Threads
    PROVE  Back(t) \in {"wait", "drain", "registered", "idle"}
BY DEF Back

LEMMA BackOf ==
    ASSUME ConnectAssumption, NEW t \in {Timer, Registrar}
    PROVE  Back(t) \in {"registered", "idle"}
BY DEF Back, ConnectAssumption

\* A step of a thread that leaves the port, the requests and waitConnect alone.
LEMMA LockPortMoves ==
    ASSUME ConnectIInv, NEW t \in Threads, LockPort(t)
    PROVE  /\ at' = [at EXCEPT ![t] = at'[t]]
           /\ \/ Kind(t) = "connectUser" /\ at'[t] = (IF connected THEN "return" ELSE "connect")
              \/ Kind(t) \in {"attempt", "connect"} /\ at'[t] = "connect"
              \/ Kind(t) \in {"disconnect", "io"} /\ at'[t] = "return"
              \/ Kind(t) \in {"disconnect", "io"} /\ at'[t] = "disconnect" /\ connected
<1> DEFINE p == CASE Kind(t) = "connectUser" -> IF connected THEN "return" ELSE "connect"
               [] Kind(t) \in {"attempt", "connect"} -> "connect"
               [] Kind(t) = "disconnect" -> IF connected THEN "disconnect" ELSE "return"
               [] Kind(t) = "io" -> IF connected /\ ~up THEN "disconnect" ELSE "return"
<1>1. at' = [at EXCEPT ![t] = p] /\ at[t] = "call"
  BY DEF LockPort, Go
<1>2. at'[t] = p
  <2> HIDE DEF p
  <2> QED BY <1>1 DEF ConnectIInv, ConnectTypeOK
<1>3. Kind(t) \in {"connectUser", "attempt", "connect", "disconnect", "io"}
  BY <1>1 DEF ConnectIInv, PlaceInv, Connecting, Ending
<1>4. /\ Kind(t) = "connectUser" => p = (IF connected THEN "return" ELSE "connect")
      /\ Kind(t) \in {"attempt", "connect"} => p = "connect"
      /\ Kind(t) = "disconnect" => p = (IF connected THEN "disconnect" ELSE "return")
      /\ Kind(t) = "io" => p = (IF connected /\ ~up THEN "disconnect" ELSE "return")
  BY Zenon
<1> HIDE DEF p
<1> QED BY <1>1, <1>2, <1>3, <1>4

\* Each step of a thread that has the port.
LEMMA HasPortKeeps ==
    ASSUME ConnectIInv, NEW t \in Threads, HasPort(t)
    PROVE  ConnectIInv'
<1> USE ConnectAssumption DEF ConnectIInv, Threads, portVars, queueVars, waitVars, boundVars, Go, Begin, Kind
<1>0. <<"none", Timer>> \in Jobs
  BY DEF Jobs
<1>1. CASE LockPort(t)
  <2>0. /\ at[t] = "call" /\ synchronousLock = {} /\ synchronousLock' = {t}
        /\ UNCHANGED <<portVars, queue, notifyPortThread, job, waitVars, boundVars, refused>>
        /\ at' = [at EXCEPT ![t] = at'[t]]
        /\ \/ Kind(t) = "connectUser" /\ at'[t] = (IF connected THEN "return" ELSE "connect")
           \/ Kind(t) \in {"attempt", "connect"} /\ at'[t] = "connect"
           \/ Kind(t) \in {"disconnect", "io"} /\ at'[t] = "return"
           \/ Kind(t) \in {"disconnect", "io"} /\ at'[t] = "disconnect" /\ connected
    BY <1>1, LockPortMoves DEF LockPort
  <2>1. ConnectTypeOK' /\ NoRepeats(queue)'
    BY <2>0 DEF ConnectTypeOK, PlaceInv, Connecting, Ending
  <2>2. LockInv' /\ PlaceInv'
    BY <2>0 DEF LockInv, Holding, PlaceInv, ConnectTypeOK, Connecting, Ending
  <2>3. RetryPending'
    BY <2>0 DEF RetryPending, Trying, PlaceInv, ConnectTypeOK, Connecting, Ending
  <2>4. WaitInv'
    BY <2>0 DEF WaitInv, WaitTrue, Window, Losing, ConnectTypeOK
  <2> QED  BY <2>1, <2>2, <2>3, <2>4
<1>2. CASE exceptionConnect(t)
  <2>0. /\ at[t] = "connect" /\ connected' = TRUE
        /\ seen' = (seen \/ Window)
        /\ at' = [at EXCEPT ![t] = "announce"]
        /\ UNCHANGED <<canBlock, enabled, autoConnect, connectTimer, queueVars, job,
                       listed, event, result, boundVars, refused>>
    BY <1>2 DEF exceptionConnect, Window
  <2>1. ConnectTypeOK' /\ NoRepeats(queue)'
    BY <2>0 DEF ConnectTypeOK, PlaceInv, Connecting, Ending
  <2>2. LockInv' /\ PlaceInv'
    BY <2>0 DEF LockInv, Holding, PlaceInv, ConnectTypeOK, Connecting, Ending
  <2>3. RetryPending'
    BY <2>0 DEF RetryPending, Trying, PlaceInv, ConnectTypeOK, Connecting, Ending
  <2>4. WaitInv'
    BY <2>0 DEF WaitInv, WaitTrue, Window, Losing, LockInv, Holding, PlaceInv, ConnectTypeOK, Connecting, Ending
  <2> QED  BY <2>1, <2>2, <2>3, <2>4
<1>3. CASE ConnectFails(t)
  <2>0. /\ at[t] = "connect"
        /\ at' = [at EXCEPT ![t] = "return"]
        /\ \/ connectTimer' = TRUE /\ refused' = FALSE
           \/ Kind(t) # "connectUser" /\ UNCHANGED <<connectTimer, refused>>
        /\ UNCHANGED <<canBlock, connected, enabled, autoConnect, queueVars, job, waitVars, boundVars>>
    BY <1>3 DEF ConnectFails, StartTimer, KeepTimer
  <2>5. connectTimer' \in BOOLEAN /\ refused' \in BOOLEAN
    BY <2>0 DEF ConnectTypeOK
  <2>6. UNCHANGED <<canBlock, connected, enabled, autoConnect, queueVars, job, waitVars, boundVars>> /\ at' = [at EXCEPT ![t] = at'[t]]
        /\ at'[t] \in {"return", "announce"}
    BY <2>0 DEF ConnectTypeOK
  <2>1. ConnectTypeOK' /\ NoRepeats(queue)'
    BY <2>5, <2>6 DEF ConnectTypeOK
  <2>2. LockInv' /\ PlaceInv'
    BY <2>0 DEF LockInv, Holding, PlaceInv, ConnectTypeOK, Connecting, Ending
  <2>3. RetryPending'
    BY <2>0 DEF RetryPending, Trying, PlaceInv, ConnectTypeOK, Connecting, Ending
  <2>4. WaitInv'
    BY <2>0 DEF WaitInv, WaitTrue, Window, Losing, LockInv, Holding, PlaceInv, ConnectTypeOK, Connecting, Ending
  <2> QED  BY <2>1, <2>2, <2>3, <2>4
<1>4. CASE exceptionDisconnect(t)
  <2>0. /\ at[t] = "disconnect" /\ connected' = FALSE
        /\ at' = [at EXCEPT ![t] = "lost"]
        /\ UNCHANGED <<canBlock, enabled, autoConnect, connectTimer, queueVars, job, waitVars, boundVars, refused>>
    BY <1>4 DEF exceptionDisconnect
  <2>1. ConnectTypeOK' /\ NoRepeats(queue)'
    BY <2>0 DEF ConnectTypeOK, PlaceInv, Connecting, Ending
  <2>2. LockInv' /\ PlaceInv'
    BY <2>0 DEF LockInv, Holding, PlaceInv, ConnectTypeOK, Connecting, Ending
  <2>3. RetryPending'
    BY <2>0 DEF RetryPending, Trying, PlaceInv, ConnectTypeOK, Connecting, Ending
  <2>4. WaitInv'
    BY <2>0 DEF WaitInv, WaitTrue, Window, Losing, LockInv, Holding, PlaceInv, ConnectTypeOK, Connecting, Ending
  <2> QED  BY <2>1, <2>2, <2>3, <2>4
<1>5. CASE StartAfterLoss(t)
  <2>0. /\ at[t] = "lost"
        /\ at' = [at EXCEPT ![t] = "announce"]
        /\ \/ connectTimer' = TRUE /\ refused' = FALSE
           \/ (connected \/ ~autoConnect) /\ UNCHANGED <<connectTimer, refused>>
        /\ UNCHANGED <<canBlock, connected, enabled, autoConnect, queueVars, job, waitVars, boundVars>>
    BY <1>5 DEF StartAfterLoss, StartTimer, KeepTimer
  <2>5. connectTimer' \in BOOLEAN /\ refused' \in BOOLEAN
    BY <2>0 DEF ConnectTypeOK
  <2>6. UNCHANGED <<canBlock, connected, enabled, autoConnect, queueVars, job, waitVars, boundVars>> /\ at' = [at EXCEPT ![t] = at'[t]]
        /\ at'[t] \in {"return", "announce"}
    BY <2>0 DEF ConnectTypeOK
  <2>1. ConnectTypeOK' /\ NoRepeats(queue)'
    BY <2>5, <2>6 DEF ConnectTypeOK
  <2>2. LockInv' /\ PlaceInv'
    BY <2>0 DEF LockInv, Holding, PlaceInv, ConnectTypeOK, Connecting, Ending
  <2>3. RetryPending'
    BY <2>0 DEF RetryPending, Trying, PlaceInv, ConnectTypeOK, Connecting, Ending
  <2>4. WaitInv'
    BY <2>0 DEF WaitInv, WaitTrue, Window, Losing, LockInv, Holding, PlaceInv, ConnectTypeOK, Connecting, Ending
  <2> QED  BY <2>1, <2>2, <2>3, <2>4
<1>6. CASE exceptionOccurred(t)
  <2>0. /\ at[t] = "announce"
        /\ event' = (event \/ (listed /\ Kind(t) \notin {"enable", "autoConnect"}))
        /\ synchronousLock' = synchronousLock \ {t}
        /\ \E p \in {"wait", "drain", "registered", "idle"} : at' = [at EXCEPT ![t] = p]
        /\ job' = [job EXCEPT ![t] = <<"none", Timer>>]
        /\ notifyPortThread' = canBlock
        /\ UNCHANGED <<portVars, queue, listed, result, seen, boundVars, refused>>
    BY <1>6, BackPlaces DEF exceptionOccurred, Handlers, Release
  <2>1. ConnectTypeOK' /\ NoRepeats(queue)'
    BY <2>0, <1>0 DEF ConnectTypeOK, PlaceInv, Connecting, Ending
  <2>2. LockInv' /\ PlaceInv'
    BY <2>0 DEF LockInv, Holding, PlaceInv, ConnectTypeOK, Connecting, Ending
  <2>3. RetryPending'
    BY <2>0 DEF RetryPending, Trying, PlaceInv, ConnectTypeOK, Connecting, Ending
  <2>4. WaitInv'
    BY <2>0 DEF WaitInv, WaitTrue, Window, Losing, LockInv, Holding, PlaceInv, ConnectTypeOK, Connecting, Ending
  <2> QED  BY <2>1, <2>2, <2>3, <2>4
<1>7. CASE Return(t)
  <2>0. /\ at[t] = "return"
        /\ synchronousLock' = synchronousLock \ {t}
        /\ \E p \in {"wait", "drain", "registered", "idle"} : at' = [at EXCEPT ![t] = p]
        /\ job' = [job EXCEPT ![t] = <<"none", Timer>>]
        /\ UNCHANGED <<portVars, queue, notifyPortThread, waitVars, boundVars, refused>>
    BY <1>7, BackPlaces DEF Return, Release
  <2>1. ConnectTypeOK' /\ NoRepeats(queue)'
    BY <2>0, <1>0 DEF ConnectTypeOK, PlaceInv, Connecting, Ending
  <2>2. LockInv' /\ PlaceInv'
    BY <2>0 DEF LockInv, Holding, PlaceInv, ConnectTypeOK, Connecting, Ending
  <2>3. RetryPending'
    BY <2>0 DEF RetryPending, Trying, PlaceInv, ConnectTypeOK, Connecting, Ending
  <2>4. WaitInv'
    BY <2>0 DEF WaitInv, WaitTrue, Window, Losing, LockInv, Holding, PlaceInv, ConnectTypeOK, Connecting, Ending
  <2> QED  BY <2>1, <2>2, <2>3, <2>4
<1> QED  BY <1>1, <1>2, <1>3, <1>4, <1>5, <1>6, <1>7 DEF HasPort

\* A request is queued once, or the thread calls the driver itself.
LEMMA RequestQueued ==
    ASSUME ConnectTypeOK, NoRepeats(queue), NEW t \in Threads, NEW u \in Requests, NEW place,
           queueRequest(t, u, place)
    PROVE  /\ queue' \in Seq(Requests) /\ NoRepeats(queue') /\ notifyPortThread' \in BOOLEAN
           /\ ToSet(queue) \subseteq ToSet(queue')
           /\ \/ at' = [at EXCEPT ![t] = "call"] /\ job' = [job EXCEPT ![t] = u]
              \/ at' = [at EXCEPT ![t] = place] /\ job' = job /\ u \in ToSet(queue')
<1> USE DEF queueRequest, Go, Begin
<1> DEFINE q == Append(queue, u)
<1>1. /\ q \in Seq(Requests) /\ ToSet(q) = ToSet(queue) \cup {u}
      /\ u \notin ToSet(queue) => NoRepeats(q)
  BY AppendElements DEF ConnectTypeOK
<1> HIDE DEF q
<1>2. CASE ~canBlock
  BY <1>2 DEF ConnectTypeOK
<1>3. CASE canBlock /\ u \in ToSet(queue)
  BY <1>3 DEF ConnectTypeOK
<1>4. CASE canBlock /\ u \notin ToSet(queue)
  <2>1. queue' = q /\ notifyPortThread' = TRUE /\ at' = [at EXCEPT ![t] = place] /\ job' = job
    BY <1>4 DEF q
  <2> QED  BY <1>1, <1>4, <2>1
<1> QED  BY <1>2, <1>3, <1>4

\* The connect timer, which registerInterface calls first.
LEMMA TimerKeeps ==
    ASSUME ConnectIInv, NEW t \in {Timer, Registrar}, portConnectTimerCallback(t)
    PROVE  ConnectIInv'
<1> USE ConnectAssumption DEF ConnectIInv, Threads, portVars, queueVars, waitVars, boundVars, Go, Begin, Kind
<1>0. connectUser \in Requests /\ Requests \subseteq Jobs /\ connectUser[1] = "connectUser"
  BY DEF Jobs, Requests, connectUser
<1>1. CASE TestConnected(t)
  <2>0. /\ at[t] = "test"
        /\ \/ at' = [at EXCEPT ![t] = "queue"]
           \/ /\ connected \/ ~autoConnect
              /\ \E p \in {"registered", "idle"} : at' = [at EXCEPT ![t] = p]
        /\ UNCHANGED <<portVars, queueVars, job, waitVars, boundVars, refused>>
    BY <1>1, BackOf DEF TestConnected
  <2>1. ConnectTypeOK' /\ NoRepeats(queue)'
    BY <2>0 DEF ConnectTypeOK
  <2>2. LockInv' /\ PlaceInv'
    BY <2>0 DEF LockInv, Holding, PlaceInv, ConnectTypeOK
  <2>3. RetryPending'
    BY <2>0 DEF RetryPending, Trying, ConnectTypeOK
  <2>4. WaitInv'
    BY <2>0 DEF WaitInv, WaitTrue, Window, Losing, ConnectTypeOK
  <2> QED  BY <2>1, <2>2, <2>3, <2>4
<1>2. CASE QueueConnect(t)
  <2>1. /\ at[t] = "queue" /\ Back(t) \in {"registered", "idle"}
        /\ UNCHANGED <<portVars, synchronousLock, waitVars, boundVars>>
    BY <1>2, BackOf DEF QueueConnect
  <2>2. CASE queueRequest(t, connectUser, Back(t)) /\ UNCHANGED refused
    <3>1. /\ queue' \in Seq(Requests) /\ NoRepeats(queue') /\ notifyPortThread' \in BOOLEAN
          /\ \/ at' = [at EXCEPT ![t] = "call"] /\ job' = [job EXCEPT ![t] = connectUser]
             \/ at' = [at EXCEPT ![t] = Back(t)] /\ job' = job /\ connectUser \in ToSet(queue')
      BY <1>0, <2>2, RequestQueued
    <3>2. ConnectTypeOK' /\ NoRepeats(queue)'
      BY <1>0, <2>1, <2>2, <3>1 DEF ConnectTypeOK
    <3>3. LockInv' /\ PlaceInv'
      BY <1>0, <2>1, <3>1 DEF LockInv, Holding, PlaceInv, ConnectTypeOK, Connecting
    <3>4. RetryPending'
      BY <1>0, <2>1, <3>1 DEF RetryPending, Trying, ConnectTypeOK
    <3>5. WaitInv'
      BY <2>1, <3>1 DEF WaitInv, WaitTrue, Window, Losing, ConnectTypeOK
    <3> QED  BY <3>2, <3>3, <3>4, <3>5
  <2>3. CASE refused' = TRUE /\ Go(t, Back(t)) /\ UNCHANGED <<queue, notifyPortThread, job>>
    <3>1. ConnectTypeOK' /\ NoRepeats(queue)'
      BY <2>1, <2>3 DEF ConnectTypeOK
    <3>2. LockInv' /\ PlaceInv'
      BY <2>1, <2>3 DEF LockInv, Holding, PlaceInv, ConnectTypeOK
    <3>3. RetryPending'
      BY <2>3 DEF RetryPending
    <3>4. WaitInv'
      BY <2>1, <2>3 DEF WaitInv, WaitTrue, Window, Losing, ConnectTypeOK
    <3> QED  BY <3>1, <3>2, <3>3, <3>4
  <2> QED  BY <1>2, <2>2, <2>3 DEF QueueConnect
<1> QED  BY <1>1, <1>2 DEF portConnectTimerCallback

\* waitConnect, and the expiry of the timer.
LEMMA WaitKeeps ==
    ASSUME ConnectIInv, TimerExpires \/ waitConnect
    PROVE  ConnectIInv'
<1> USE ConnectAssumption DEF ConnectIInv, Threads, portVars, queueVars, waitVars, boundVars, Go, Begin, Kind
<1>1. CASE TimerExpires
  <2>1. ConnectTypeOK' /\ NoRepeats(queue)'
    BY <1>1 DEF TimerExpires, ConnectTypeOK
  <2>2. LockInv' /\ PlaceInv'
    BY <1>1 DEF TimerExpires, LockInv, Holding, PlaceInv, ConnectTypeOK, Connecting, Ending
  <2>3. RetryPending'
    BY <1>1 DEF TimerExpires, RetryPending, Trying, ConnectTypeOK
  <2>4. WaitInv'
    BY <1>1 DEF TimerExpires, WaitInv, WaitTrue, Window, Losing, PlaceInv, ConnectTypeOK, Connecting, Ending
  <2> QED  BY <2>1, <2>2, <2>3, <2>4
<1>2. CASE WaitFirst
  <2>1. ConnectTypeOK' /\ NoRepeats(queue)'
    BY <1>2 DEF WaitFirst, ConnectTypeOK
  <2>2. LockInv' /\ PlaceInv'
    BY <1>2 DEF WaitFirst, LockInv, Holding, PlaceInv, ConnectTypeOK, Connecting, Ending
  <2>3. RetryPending'
    BY <1>2 DEF WaitFirst, RetryPending, Trying, ConnectTypeOK
  <2>4. WaitInv'
    BY <1>2 DEF WaitFirst, WaitInv, WaitTrue, Window, Losing, PlaceInv, ConnectTypeOK, Connecting, Ending
  <2> QED  BY <2>1, <2>2, <2>3, <2>4
<1>3. CASE Look
  <2>1. ConnectTypeOK' /\ NoRepeats(queue)'
    BY <1>3 DEF Look, ConnectTypeOK
  <2>2. LockInv' /\ PlaceInv'
    BY <1>3 DEF Look, LockInv, Holding, PlaceInv, ConnectTypeOK, Connecting, Ending
  <2>3. RetryPending'
    BY <1>3 DEF Look, RetryPending, Trying, ConnectTypeOK
  <2>4. WaitInv'
    BY <1>3 DEF Look, WaitInv, WaitTrue, Window, Losing, PlaceInv, ConnectTypeOK, Connecting, Ending
  <2> QED  BY <2>1, <2>2, <2>3, <2>4
<1>4. CASE exceptionCallbackAdd
  <2>1. ConnectTypeOK' /\ NoRepeats(queue)'
    BY <1>4 DEF exceptionCallbackAdd, ConnectTypeOK
  <2>2. LockInv' /\ PlaceInv'
    BY <1>4 DEF exceptionCallbackAdd, LockInv, Holding, PlaceInv, ConnectTypeOK, Connecting, Ending
  <2>3. RetryPending'
    BY <1>4 DEF exceptionCallbackAdd, RetryPending, Trying, ConnectTypeOK
  <2>4. WaitInv'
    BY <1>4 DEF exceptionCallbackAdd, WaitInv, WaitTrue, Window, Losing, PlaceInv, ConnectTypeOK, Connecting, Ending
  <2> QED  BY <2>1, <2>2, <2>3, <2>4
<1>5. CASE WaitEnds
  <2>1. ConnectTypeOK' /\ NoRepeats(queue)'
    BY <1>5 DEF WaitEnds, ConnectTypeOK
  <2>2. LockInv' /\ PlaceInv'
    BY <1>5 DEF WaitEnds, LockInv, Holding, PlaceInv, ConnectTypeOK, Connecting, Ending
  <2>3. RetryPending'
    BY <1>5 DEF WaitEnds, RetryPending, Trying, ConnectTypeOK
  <2>4. WaitInv'
    BY <1>5 DEF WaitEnds, WaitInv, WaitTrue, Window, Losing, PlaceInv, ConnectTypeOK, Connecting, Ending
  <2> QED  BY <2>1, <2>2, <2>3, <2>4
<1> QED  BY <1>1, <1>2, <1>3, <1>4, <1>5 DEF waitConnect

\* The port thread, which takes the first request off the queue.
LEMMA PortThreadKeeps ==
    ASSUME ConnectIInv, portThread
    PROVE  ConnectIInv'
<1> USE ConnectAssumption DEF ConnectIInv, Threads, portVars, queueVars, waitVars, boundVars, Go, Begin, Kind
<1>0. Requests \subseteq Jobs /\ <<"attempt", PortThread>> \in Jobs /\ \A r \in Requests : r[1] \in Connecting \cup Ending
  BY DEF Jobs, Requests, connectUser, Connecting, Ending
<1>1. CASE Wake
  <2>1. ConnectTypeOK' /\ NoRepeats(queue)'
    BY <1>1 DEF Wake, ConnectTypeOK
  <2>2. LockInv' /\ PlaceInv'
    BY <1>1 DEF Wake, LockInv, Holding, PlaceInv, ConnectTypeOK, Connecting, Ending
  <2>3. RetryPending'
    BY <1>1 DEF Wake, RetryPending, Trying, ConnectTypeOK
  <2>4. WaitInv'
    BY <1>1 DEF Wake, WaitInv, WaitTrue, Window, Losing, PlaceInv, ConnectTypeOK, Connecting, Ending
  <2> QED  BY <2>1, <2>2, <2>3, <2>4
<1>2. CASE Serve
  <2>0. /\ at[PortThread] = "drain"
        /\ \E r \in Requests : 
              /\ job' = [job EXCEPT ![PortThread] = r]
              /\ ToSet(queue') = ToSet(queue) \ {r}
        /\ queue' \in Seq(Requests) /\ NoRepeats(queue')
        /\ at' = [at EXCEPT ![PortThread] = "call"]
        /\ UNCHANGED <<portVars, notifyPortThread, synchronousLock, waitVars, boundVars, refused>>
    <3>1. /\ Head(queue) \in Requests /\ Tail(queue) \in Seq(Requests)
          /\ NoRepeats(Tail(queue)) /\ ToSet(Tail(queue)) = ToSet(queue) \ {Head(queue)}
      BY <1>2, TailElements DEF Serve, ConnectTypeOK
    <3> QED  BY <1>2, <3>1 DEF Serve
  <2>1. ConnectTypeOK' /\ NoRepeats(queue)'
    BY <1>0, <2>0 DEF ConnectTypeOK
  <2>2. LockInv' /\ PlaceInv'
    BY <1>0, <2>0 DEF LockInv, Holding, PlaceInv, ConnectTypeOK
  <2>3. RetryPending'
    <3>1. PICK r \in Requests : /\ job' = [job EXCEPT ![PortThread] = r]
                                /\ ToSet(queue') = ToSet(queue) \ {r}
      BY <2>0
    <3>2. CASE r = connectUser
      BY <2>0, <3>1, <3>2 DEF RetryPending, Trying, ConnectTypeOK, connectUser
    <3>3. CASE r # connectUser
      BY <2>0, <3>1, <3>3 DEF RetryPending, Trying, ConnectTypeOK
    <3> QED  BY <3>2, <3>3
  <2>4. WaitInv'
    BY <2>0 DEF WaitInv, WaitTrue, Window, Losing, ConnectTypeOK
  <2> QED  BY <2>1, <2>2, <2>3, <2>4
<1>3. CASE autoConnectDevice
  <2>0. /\ at[PortThread] = "drain"
        /\ \/ at' = [at EXCEPT ![PortThread] = "wait"] /\ job' = job
           \/ /\ at' = [at EXCEPT ![PortThread] = "call"]
              /\ job' = [job EXCEPT ![PortThread] = <<"attempt", PortThread>>]
        /\ UNCHANGED <<portVars, queueVars, waitVars, boundVars, refused>>
    BY <1>3 DEF autoConnectDevice
  <2>1. ConnectTypeOK' /\ NoRepeats(queue)'
    BY <1>0, <2>0 DEF ConnectTypeOK
  <2>2. LockInv' /\ PlaceInv'
    BY <2>0 DEF LockInv, Holding, PlaceInv, ConnectTypeOK, Connecting
  <2>3. RetryPending'
    BY <2>0 DEF RetryPending, Trying, ConnectTypeOK
  <2>4. WaitInv'
    BY <2>0 DEF WaitInv, WaitTrue, Window, Losing, ConnectTypeOK
  <2> QED  BY <2>1, <2>2, <2>3, <2>4
<1> QED  BY <1>1, <1>2, <1>3 DEF portThread

\* What clients do.
LEMMA ClientKeeps ==
    ASSUME ConnectIInv, NEW c \in Clients, Call(c) \/ StartAfterChange(c)
    PROVE  ConnectIInv'
<1> USE ConnectAssumption DEF ConnectIInv, Threads, portVars, queueVars, waitVars, boundVars, Go, Begin, Kind
<1>0. /\ Requests \subseteq Jobs
      /\ \A kind \in {"connect", "disconnect"} : <<kind, c>> \in Requests
      /\ \A kind \in {"connect", "disconnect", "io", "enable", "autoConnect"} : <<kind, c>> \in Jobs
  BY DEF Jobs, Requests
<1>1. ASSUME NEW kind \in {"connect", "disconnect"}, Request(c, kind)
      PROVE  ConnectIInv'
  <2>1. at[c] = "idle" /\ queueRequest(c, <<kind, c>>, "idle")
        /\ UNCHANGED <<portVars, synchronousLock, waitVars, refused, up>>
    BY <1>1 DEF Request, Calls
  <2>2. /\ queue' \in Seq(Requests) /\ NoRepeats(queue') /\ notifyPortThread' \in BOOLEAN
        /\ ToSet(queue) \subseteq ToSet(queue')
        /\ \/ at' = [at EXCEPT ![c] = "call"] /\ job' = [job EXCEPT ![c] = <<kind, c>>]
           \/ at' = at /\ job' = job
    <3>1. at = [at EXCEPT ![c] = "idle"]
      BY <2>1 DEF ConnectTypeOK
    <3> QED  BY <1>0, <2>1, <3>1, RequestQueued
  <2>3. ConnectTypeOK' /\ NoRepeats(queue)'
    <3>1. CASE at' = [at EXCEPT ![c] = "call"] /\ job' = [job EXCEPT ![c] = <<kind, c>>]
      <4>1. <<kind, c>> \in Jobs /\ c \in Threads
        BY <1>0
      <4>2. at' \in [Threads -> {"idle", "call", "connect", "disconnect", "lost", "announce", "return", "test",
                           "queue", "wait", "drain", "looks", "adds", "waits", "registered", "changed"}]
            /\ job' \in [Threads -> Jobs]
        BY <3>1, <4>1 DEF ConnectTypeOK
      <4> QED  BY <2>1, <2>2, <4>2 DEF ConnectTypeOK
    <3>2. CASE at' = at /\ job' = job
      BY <2>1, <2>2, <3>2 DEF ConnectTypeOK
    <3> QED  BY <2>2, <3>1, <3>2
  <2>4. LockInv' /\ PlaceInv'
    BY <2>1, <2>2 DEF LockInv, Holding, PlaceInv, ConnectTypeOK, Connecting, Ending
  <2>5. RetryPending'
    BY <2>1, <2>2 DEF RetryPending, Trying, ConnectTypeOK
  <2>6. WaitInv'
    BY <2>1, <2>2 DEF WaitInv, WaitTrue, Window, Losing, ConnectTypeOK
  <2> QED  BY <2>3, <2>4, <2>5, <2>6
<1>2. ASSUME NEW kind \in {"connect", "disconnect", "io"}, Hold(c, kind)
      PROVE  ConnectIInv'
  <2>0. /\ at' = [at EXCEPT ![c] = "call"] /\ job' = [job EXCEPT ![c] = <<kind, c>>]
        /\ UNCHANGED <<portVars, queueVars, waitVars, refused, up>>
    BY <1>2 DEF Hold, Calls
  <2>1. ConnectTypeOK' /\ NoRepeats(queue)'
    <3>1. <<kind, c>> \in Jobs /\ c \in Threads
      BY <1>0
    <3> QED  BY <2>0, <3>1 DEF ConnectTypeOK
  <2>2. LockInv' /\ PlaceInv'
    BY <1>0, <1>2 DEF Hold, Calls, LockInv, Holding, PlaceInv, ConnectTypeOK, Connecting, Ending
  <2>3. RetryPending'
    BY <1>0, <1>2 DEF Hold, Calls, RetryPending, Trying, ConnectTypeOK
  <2>4. WaitInv'
    BY <1>0, <1>2 DEF Hold, Calls, WaitInv, WaitTrue, Window, Losing, ConnectTypeOK
  <2> QED  BY <2>1, <2>2, <2>3, <2>4
<1>3. ASSUME NEW yesNo \in BOOLEAN, enable(c, yesNo)
      PROVE  ConnectIInv'
  <2>1. ConnectTypeOK' /\ NoRepeats(queue)'
    BY <1>0, <1>3 DEF enable, Calls, ConnectTypeOK
  <2>2. LockInv' /\ PlaceInv'
    BY <1>0, <1>3 DEF enable, Calls, LockInv, Holding, PlaceInv, ConnectTypeOK, Connecting, Ending
  <2>3. RetryPending'
    BY <1>0, <1>3 DEF enable, Calls, RetryPending, Trying, ConnectTypeOK
  <2>4. WaitInv'
    BY <1>0, <1>3 DEF enable, Calls, WaitInv, WaitTrue, Window, Losing, ConnectTypeOK
  <2> QED  BY <2>1, <2>2, <2>3, <2>4
<1>4. ASSUME NEW yesNo \in BOOLEAN, autoConnectAsyn(c, yesNo)
      PROVE  ConnectIInv'
  <2>1. ConnectTypeOK' /\ NoRepeats(queue)'
    BY <1>0, <1>4 DEF autoConnectAsyn, Calls, ConnectTypeOK
  <2>2. LockInv' /\ PlaceInv'
    BY <1>0, <1>4 DEF autoConnectAsyn, Calls, LockInv, Holding, PlaceInv, ConnectTypeOK, Connecting, Ending
  <2>3. RetryPending'
    BY <1>0, <1>4 DEF autoConnectAsyn, Calls, RetryPending, Trying, ConnectTypeOK
  <2>4. WaitInv'
    BY <1>0, <1>4 DEF autoConnectAsyn, Calls, WaitInv, WaitTrue, Window, Losing, ConnectTypeOK
  <2> QED  BY <2>1, <2>2, <2>3, <2>4
<1>5. ASSUME StartAfterChange(c)
      PROVE  ConnectIInv'
  <2>0. /\ at[c] = "changed" /\ at' = [at EXCEPT ![c] = "announce"]
        /\ UNCHANGED <<canBlock, connected, enabled, autoConnect, queueVars, job, waitVars, boundVars>>
    BY <1>5 DEF StartAfterChange
  <2>a. \/ ~connected /\ autoConnect /\ connectTimer' = TRUE /\ refused' = FALSE
        \/ ~(~connected /\ autoConnect) /\ UNCHANGED <<connectTimer, refused>>
    BY <1>5 DEF StartAfterChange, StartTimer, KeepTimer
  <2>b. connectTimer' \in BOOLEAN /\ refused' \in BOOLEAN
    BY <2>a DEF ConnectTypeOK
  <2>1. ConnectTypeOK' /\ NoRepeats(queue)'
    BY <2>0, <2>b DEF ConnectTypeOK
  <2>2. LockInv' /\ PlaceInv'
    BY <2>0 DEF LockInv, Holding, PlaceInv, ConnectTypeOK, Connecting, Ending
  <2>3. RetryPending'
    BY <2>0, <2>a DEF RetryPending, Trying, ConnectTypeOK
  <2>4. WaitInv'
    BY <2>0 DEF WaitInv, WaitTrue, Window, Losing, PlaceInv, Ending, ConnectTypeOK
  <2> QED  BY <2>1, <2>2, <2>3, <2>4
<1> QED  BY <1>1, <1>2, <1>3, <1>4, <1>5 DEF Call

-----------------------------------------------------------------------------
\* ConnectIInv holds in every reachable state.
LEMMA ConnectInvariance == Spec => []ConnectIInv
<1>1. ConnectIInv /\ [Next]_vars => ConnectIInv'
  <2> SUFFICES ASSUME ConnectIInv, [Next]_vars PROVE ConnectIInv'
    OBVIOUS
  <2>1. CASE \E t \in Threads : HasPort(t)
    BY <2>1, HasPortKeeps
  <2>2. CASE \E t \in {Timer, Registrar} : portConnectTimerCallback(t)
    BY <2>2, TimerKeeps
  <2>3. CASE TimerExpires \/ waitConnect
    BY <2>3, WaitKeeps
  <2>4. CASE portThread
    BY <2>4, PortThreadKeeps
  <2>5. CASE \E c \in Clients : Call(c) \/ StartAfterChange(c)
    BY <2>5, ClientKeeps
  <2>6. CASE DeviceGoes
    BY <2>6 DEF DeviceGoes, portVars, queueVars, threadVars, waitVars, ConnectIInv, ConnectTypeOK, LockInv,
                Holding, PlaceInv, RetryPending, Trying, WaitInv, WaitTrue, Window, Losing, Kind
  <2>7. CASE UNCHANGED vars
    BY <2>7 DEF vars, portVars, queueVars, threadVars, waitVars, boundVars, ConnectIInv, ConnectTypeOK, LockInv,
                Holding, PlaceInv, RetryPending, Trying, WaitInv, WaitTrue, Window, Losing, Kind
  <2> QED  BY <2>1, <2>2, <2>3, <2>4, <2>5, <2>6, <2>7 DEF Next, Step
<1> QED  BY <1>1, ConnectInit, PTL DEF Spec

\* asynManager.c:2183, 2324, 3289, 3311: a port with autoConnect that is not
\* connected is going to be tried again, unless the last request of the connect
\* timer was refused; for any number of clients, calls and outages.
THEOREM RetriesPending == Spec => []RetryPending
<1>1. ConnectIInv => RetryPending
  BY DEF ConnectIInv
<1> QED  BY <1>1, ConnectInvariance, PTL

\* asynManager.c:3357: waitConnect reports no connection that was not there.
THEOREM WaitReportsTruly == Spec => []WaitTrue
<1>1. ConnectIInv => WaitTrue
  BY DEF ConnectIInv, WaitInv
<1> QED  BY <1>1, ConnectInvariance, PTL

\* every variable keeps its type: every thread is where its job lets it be
THEOREM ConnectTypeCorrect == Spec => []ConnectTypeOK
<1>1. ConnectIInv => ConnectTypeOK
  BY DEF ConnectIInv
<1> QED  BY <1>1, ConnectInvariance, PTL
=============================================================================
