------------------------- MODULE DevAsynRingProofs -------------------------
(***************************************************************************)
(* Theorems about DevAsynRing, for every size of the ring buffer, every    *)
(* set of values and every bound.                                          *)
(***************************************************************************)
EXTENDS DevAsynRing, TLAPS

(***************************************************************************)
(* The ring buffer's arithmetic.                                           *)
(***************************************************************************)
\* After and Used stay in range, and Used is 0 for the empty buffer only.
LEMMA UsedType ==
    ASSUME NEW h \in Slots, NEW t \in Slots
    PROVE  /\ After(h) \in Slots
           /\ Used(h, t) \in Slots
           /\ Used(h, t) = 0 <=> h = t
BY RingAssumption DEF Slots, After, Used

\* interruptCallbackInput adds an element if there is room.
LEMMA PushRoom ==
    ASSUME NEW h \in Slots, NEW t \in Slots, After(h) # t
    PROVE  Used(After(h), t) = Used(h, t) + 1
BY RingAssumption DEF Slots, After, Used

\* interruptCallbackInput replaces the oldest element if there is none.
LEMMA PushFull ==
    ASSUME NEW h \in Slots, NEW t \in Slots, After(h) = t
    PROVE  Used(After(h), After(t)) = Used(h, t)
BY RingAssumption DEF Slots, After, Used

\* getCallbackValue removes one element.
LEMMA TakeOne ==
    ASSUME NEW h \in Slots, NEW t \in Slots, h # t
    PROVE  Used(h, After(t)) = Used(h, t) - 1
BY RingAssumption DEF Slots, After, Used

-----------------------------------------------------------------------------
(***************************************************************************)
(* Type correctness.                                                       *)
(***************************************************************************)
\* What Push and Take do to the types.
LEMMA PushType ==
    ASSUME DevTypeOK, NEW element \in ElementType, Push(element)
    PROVE  /\ ringBuffer' \in [Slots -> ElementType]
           /\ ringHead' \in Slots /\ ringTail' \in Slots
           /\ callbacks' \in Nat /\ numDeferredOutputCallbacks' \in Nat
           /\ seen' \in Nat
BY UsedType DEF DevTypeOK, Push

LEMMA TakeType ==
    ASSUME DevTypeOK, Take
    PROVE  /\ ringBuffer' \in [Slots -> ElementType]
           /\ ringHead' \in Slots /\ ringTail' \in Slots
           /\ seen' \in Nat
           /\ ringBuffer[ringTail] \in ElementType
BY UsedType DEF DevTypeOK, Take, ElementType

\* Every step keeps the types.
LEMMA TypeStep == DevTypeOK /\ [Next]_vars => DevTypeOK'
<1> SUFFICES ASSUME DevTypeOK, [Next]_vars PROVE DevTypeOK'
  OBVIOUS
<1>a. config.output \in BOOLEAN /\ config.canBlock \in BOOLEAN /\ config.calm \in BOOLEAN
  BY RingAssumption DEF DevTypeOK, ConfigType
<1>b. ASSUME NEW r \in ElementType, NEW taken \in BOOLEAN
      PROVE  /\ ShownIn(r) \in [val : Values, alarm : {"udf", "ok", "error"}, pact : BOOLEAN]
             /\ ShownOut(r, taken) \in [val : Values, alarm : {"udf", "ok", "error"}, pact : BOOLEAN]
             /\ Cleared(r) \in ElementType
  BY <1>b DEF ShownIn, ShownOut, Cleared, ElementType, DevTypeOK
<1>e. ringBuffer[ringTail] \in ElementType /\ result \in ElementType
  BY DEF DevTypeOK
<1>c. ASSUME NEW val \in Values, StartWrite(val)
      PROVE  /\ put' \in Values /\ asyncProcessingActive' \in BOOLEAN
             /\ record' \in [val : Values, alarm : {"udf", "ok", "error"}, pact : BOOLEAN]
             /\ queued' \in BOOLEAN /\ pc' \in {"idle", "driver", "end"}
             /\ result' \in ElementType
  BY <1>c, <1>a DEF StartWrite, DevTypeOK, ElementType
<1>d. ASSUME processLi
      PROVE  /\ put' \in Values /\ asyncProcessingActive' \in BOOLEAN
             /\ record' \in [val : Values, alarm : {"udf", "ok", "error"}, pact : BOOLEAN]
             /\ queued' \in BOOLEAN /\ pc' \in {"idle", "driver", "end"}
             /\ result' \in ElementType
             /\ ringBuffer' \in [Slots -> ElementType]
             /\ ringHead' \in Slots /\ ringTail' \in Slots /\ seen' \in Nat
  <2>1. CASE Empty
    <3>1. StartRead /\ UNCHANGED ringVars
      BY <1>d, <2>1 DEF processLi
    <3> QED BY <3>1 DEF StartRead, DevTypeOK, ElementType, ringVars
  <2>2. CASE ~Empty
    <3>1. /\ Take
          /\ record' = ShownIn(ringBuffer[ringTail])
          /\ result' = Cleared(ringBuffer[ringTail])
          /\ UNCHANGED <<pc, queued, asyncProcessingActive, put>>
      BY <1>d, <2>2 DEF processLi
    <3> QED BY <3>1, <1>b, <1>e, TakeType DEF DevTypeOK
  <2> QED BY <2>1, <2>2
<1>f. ASSUME NEW r \in ElementType, NEW taken \in BOOLEAN, NEW pending \in Nat,
             EndWrite(r, taken, pending)
      PROVE  /\ record' \in [val : Values, alarm : {"udf", "ok", "error"}, pact : BOOLEAN]
             /\ result' \in ElementType /\ asyncProcessingActive' \in BOOLEAN
             /\ callbacks' \in Nat /\ numDeferredOutputCallbacks' \in Nat
  <2>1. /\ record' \in [val : Values, alarm : {"udf", "ok", "error"}, pact : BOOLEAN]
        /\ result' \in ElementType /\ asyncProcessingActive' \in BOOLEAN
    BY <1>f, <1>b DEF EndWrite
  <2>2. numDeferredOutputCallbacks \in Nat
    BY DEF DevTypeOK
  <2>3. callbacks' \in Nat /\ numDeferredOutputCallbacks' \in Nat
    BY <1>f, <2>2, SMT DEF EndWrite
  <2> QED BY <2>1, <2>3
<1>g. ASSUME NEW value \in Values, NEW status \in {"ok", "error"}, Tell(value, status)
      PROVE  /\ ringBuffer' \in [Slots -> ElementType]
             /\ ringHead' \in Slots /\ ringTail' \in Slots
             /\ callbacks' \in Nat /\ numDeferredOutputCallbacks' \in Nat
             /\ seen' \in Nat
             /\ device' \in Values /\ clock' \in Nat /\ informed' \in BOOLEAN
  <2>1. [value |-> value, time |-> clock + 1, status |-> status] \in ElementType
    BY DEF ElementType, DevTypeOK
  <2>a. device' \in Values /\ clock' \in Nat
    BY <1>g DEF Tell, DevTypeOK
  <2>b. informed' \in BOOLEAN
    BY <1>g, Zenon DEF Tell
  <2>2. device' \in Values /\ clock' \in Nat /\ informed' \in BOOLEAN
    BY <2>a, <2>b
  <2>3. CASE registered /\ interruptAccept
    <3>1. Push([value |-> value, time |-> clock + 1, status |-> status])
      BY <1>g, <2>3 DEF Tell
    <3> QED BY <2>1, <2>2, <3>1, PushType
  <2>4. CASE ~(registered /\ interruptAccept)
    BY <1>g, <2>2, <2>4 DEF Tell, DevTypeOK, ringVars
  <2> QED BY <2>3, <2>4
<1>h. ASSUME processCallbackInput \/ processCallbackOutput
      PROVE  /\ ringBuffer' \in [Slots -> ElementType]
             /\ ringHead' \in Slots /\ ringTail' \in Slots
             /\ callbacks' \in Nat /\ numDeferredOutputCallbacks' \in Nat
             /\ seen' \in Nat
             /\ device' \in Values /\ clock' \in Nat /\ informed' \in BOOLEAN
             /\ result' \in ElementType
  <2>1. CASE processCallbackInput
    <3>1. /\ [value |-> device, time |-> clock, status |-> "ok"] \in ElementType
          /\ [value |-> result.value, time |-> clock, status |-> "error"] \in ElementType
      BY <1>e DEF DevTypeOK, ElementType
    <3>2. result' \in ElementType
      BY <2>1, <3>1 DEF processCallbackInput
    <3> QED BY <2>1, <3>2 DEF processCallbackInput, DevTypeOK, ringVars, deviceVars
  <2>2. CASE processCallbackOutput
    <3>1. result' \in ElementType
      BY <2>2 DEF processCallbackOutput, DevTypeOK, ElementType
    <3>2. CASE Tell(result.value, "ok")
      BY <3>1, <3>2, <1>g, <1>e DEF ElementType
    <3>3. CASE UNCHANGED <<ringVars, callbacks, numDeferredOutputCallbacks, deviceVars>>
      BY <3>1, <3>3 DEF DevTypeOK, ringVars, deviceVars
    <3> QED BY <2>2, <3>2, <3>3 DEF processCallbackOutput
  <2> QED BY <1>h, <2>1, <2>2
<1>1. CASE scanIoRequest
  <2>1. CASE record.pact
    BY <1>1, <2>1 DEF scanIoRequest, DevTypeOK, ringVars, deviceVars
  <2>2. CASE ~record.pact
    <3>1. processLi BY <1>1, <2>2 DEF scanIoRequest
    <3> QED BY <1>1, <3>1, <1>d DEF scanIoRequest, DevTypeOK, deviceVars
  <2> QED BY <2>1, <2>2
<1>2. CASE outputCallbackCallback
  <2>1. CASE record.pact
    <3>1. CASE Empty
      BY <1>2, <2>1, <3>1 DEF outputCallbackCallback, DevTypeOK, ringVars, deferVars, deviceVars
    <3>2. CASE ~Empty
      BY <1>2, <2>1, <3>2, TakeType DEF outputCallbackCallback, DevTypeOK, deferVars, deviceVars
    <3> QED BY <3>1, <3>2
  <2>2. CASE ~record.pact /\ Empty
    <3>1. StartWrite(record.val) /\ record.val \in Values
      BY <1>2, <2>2 DEF outputCallbackCallback, DevTypeOK
    <3> QED BY <1>2, <2>2, <3>1, <1>c DEF outputCallbackCallback, DevTypeOK, ringVars, deviceVars
  <2>3. CASE ~record.pact /\ ~Empty
    <3>1. Take /\ EndWrite(ringBuffer[ringTail], TRUE, callbacks - 1)
      BY <1>2, <2>3 DEF outputCallbackCallback
    <3>2. callbacks - 1 \in Nat
      BY <1>2 DEF outputCallbackCallback, DevTypeOK
    <3> QED BY <1>2, <2>3, <3>1, <3>2, <1>e, <1>f, TakeType DEF outputCallbackCallback, DevTypeOK, deviceVars
  <2> QED BY <2>1, <2>2, <2>3
<1>3. CASE clientProcess
  BY <1>3, <1>d DEF clientProcess, DevTypeOK, deviceVars
<1>4. ASSUME NEW val \in Values, clientPut(val) PROVE DevTypeOK'
  BY <1>4, <1>c DEF clientPut, DevTypeOK, deviceVars, ringVars
<1>5. CASE processEnd
  <2>1. CASE config.output
    <3>1. EndWrite(result, FALSE, callbacks) BY <1>5, <2>1 DEF processEnd
    <3> QED BY <1>5, <3>1, <1>e, <1>f DEF processEnd, DevTypeOK, ringVars, deviceVars
  <2>2. CASE ~config.output
    BY <1>5, <2>2, <1>b, <1>e DEF processEnd, DevTypeOK, ringVars, deferVars, deviceVars
  <2> QED BY <2>1, <2>2
<1>6. CASE processCallback
  <2>1. CASE config.output
    <3>1. EndWrite(result, FALSE, callbacks) BY <1>6, <2>1 DEF processCallback
    <3> QED BY <1>6, <2>1, <3>1, <1>e, <1>f DEF processCallback, DevTypeOK, ringVars, deviceVars
  <2>2. CASE ~config.output
    <3>1. \E r \in ElementType : record' = ShownIn(r) /\ result' = Cleared(r)
      BY <1>6, <2>2, <1>e DEF processCallback
    <3>2. CASE Empty
      BY <1>6, <2>2, <1>b, <3>1, <3>2 DEF processCallback, DevTypeOK, ringVars, deferVars, deviceVars
    <3>3. CASE ~Empty
      <4>1. Take
        BY <1>6, <2>2, <3>3 DEF processCallback
      <4>2. /\ record' \in [val : Values, alarm : {"udf", "ok", "error"}, pact : BOOLEAN]
            /\ result' \in ElementType
        BY <1>b, <3>1
      <4> QED BY <1>6, <2>2, <4>1, <4>2, TakeType
              DEF processCallback, DevTypeOK, deferVars, deviceVars
    <3> QED BY <3>2, <3>3
  <2> QED BY <2>1, <2>2
<1>7. CASE getIoIntInfo
  BY <1>7 DEF getIoIntInfo, DevTypeOK, ringVars, deferVars, deviceVars
<1>8. CASE iocRun
  BY <1>8 DEF iocRun, DevTypeOK, ringVars, deferVars, deviceVars
<1>9. CASE synchronousIO
  BY <1>9, <1>h, <1>a DEF synchronousIO, DevTypeOK
<1>10. CASE portThread
  BY <1>10, <1>h, <1>a DEF portThread, DevTypeOK
<1>11. ASSUME NEW value \in Values, NEW status \in {"ok", "error"},
              interruptCallback(value, status)
       PROVE  DevTypeOK'
  BY <1>11, <1>g DEF interruptCallback, DevTypeOK
<1>12. CASE UNCHANGED vars
  BY <1>12 DEF vars, DevTypeOK, ringVars, deferVars, deviceVars
<1> QED
  BY <1>1, <1>2, <1>3, <1>4, <1>5, <1>6, <1>7, <1>8, <1>9, <1>10, <1>11, <1>12 DEF Next

\* The types hold initially.
LEMMA InitType == Init => DevTypeOK
<1> SUFFICES ASSUME Init PROVE DevTypeOK
  OBVIOUS
<1>1. 0 \in Slots
  BY RingAssumption DEF Slots
<1>2. [value |-> device, time |-> 0, status |-> "ok"] \in ElementType
  BY DEF Init, ElementType
<1> QED BY <1>1, <1>2 DEF Init, DevTypeOK

\* Every state has the types: ringHead and ringTail never leave the buffer.
THEOREM DevTypeCorrect == Spec => []DevTypeOK
BY InitType, TypeStep, PTL DEF Spec

-----------------------------------------------------------------------------
(***************************************************************************)
(* The inductive invariant.                                                *)
(***************************************************************************)
\* what is asked for is what the buffer holds
Counted ==
    /\ config.output => callbacks + numDeferredOutputCallbacks = Elements
    /\ ~config.output => numDeferredOutputCallbacks = 0
    /\ ~config.output /\ ~config.canBlock => Elements <= callbacks
    /\ ~config.output /\ config.calm =>
          /\ callbacks = Elements
          /\ ~registered => callbacks = 0
          /\ record.pact => ~registered

\* when the record is active, and what is deferred then
Activity ==
    /\ queued \/ done => record.pact
    /\ ~(queued /\ done)
    /\ record.pact => pc = "idle" /\ config.canBlock
    /\ pc = "driver" => ~config.canBlock
    /\ config.output /\ record.pact => asyncProcessingActive
    /\ config.output /\ config.calm /\ record.pact => callbacks = 0

RingInv == DevTypeOK /\ Counted /\ Activity /\ PutKept

\* Clients cannot make the record drop a scan: it is an output record, or
\* they leave it alone, or it is never active.
Sheltered == config.output \/ config.calm \/ ~config.canBlock

\* What Push does to the counts.
LEMMA PushCount ==
    ASSUME DevTypeOK, NEW element, Push(element)
    PROVE  \/ /\ Elements' = Elements
              /\ UNCHANGED <<callbacks, numDeferredOutputCallbacks>>
           \/ /\ Elements' = Elements + 1
              /\ IF config.output /\ asyncProcessingActive
                 THEN /\ numDeferredOutputCallbacks' = numDeferredOutputCallbacks + 1
                      /\ UNCHANGED callbacks
                 ELSE /\ callbacks' = callbacks + 1
                      /\ UNCHANGED numDeferredOutputCallbacks
<1>1. ringHead \in Slots /\ ringTail \in Slots
  BY DEF DevTypeOK
<1>2. CASE After(ringHead) = ringTail
  BY <1>1, <1>2, PushFull DEF Push, Elements
<1>3. CASE After(ringHead) # ringTail
  <2>1. Elements' = Elements + 1
    BY <1>1, <1>3, PushRoom DEF Push, Elements
  <2> QED BY <1>3, <2>1, Zenon DEF Push
<1> QED BY <1>2, <1>3

\* What Take does to the count.
LEMMA TakeCount ==
    ASSUME DevTypeOK, ~Empty, Take
    PROVE  Elements' = Elements - 1
BY TakeOne DEF DevTypeOK, Empty, Take, Elements

\* The count of elements is a number, and 0 if the buffer is empty.
LEMMA ElementsType ==
    ASSUME DevTypeOK
    PROVE  Elements \in Nat /\ (Elements = 0 <=> Empty)
<1>1. ringHead \in Slots /\ ringTail \in Slots
  BY DEF DevTypeOK
<1>2. Elements \in Slots /\ (Elements = 0 <=> ringHead = ringTail)
  BY <1>1, UsedType DEF Elements
<1>3. \A n \in Slots : n \in Nat
  BY RingAssumption DEF Slots
<1> QED BY <1>2, <1>3 DEF Empty

\* What Tell does to the counts: Push, or nothing.
LEMMA TellCount ==
    ASSUME DevTypeOK, NEW value, NEW status, Tell(value, status)
    PROVE  \/ /\ Elements' = Elements
              /\ UNCHANGED <<callbacks, numDeferredOutputCallbacks>>
           \/ /\ Elements' = Elements + 1
              /\ registered
              /\ IF config.output /\ asyncProcessingActive
                 THEN /\ numDeferredOutputCallbacks' = numDeferredOutputCallbacks + 1
                      /\ UNCHANGED callbacks
                 ELSE /\ callbacks' = callbacks + 1
                      /\ UNCHANGED numDeferredOutputCallbacks
<1>1. CASE registered /\ interruptAccept
  <2>1. Push([value |-> value, time |-> clock + 1, status |-> status])
    BY <1>1 DEF Tell
  <2> QED BY <1>1, <2>1, PushCount
<1>2. CASE ~(registered /\ interruptAccept)
  BY <1>2 DEF Tell, ringVars, Elements
<1> QED BY <1>1, <1>2

\* What a finished write does to the counts.
LEMMA EndWriteCount ==
    ASSUME DevTypeOK, NEW r, NEW taken, NEW pending \in Nat, EndWrite(r, taken, pending)
    PROVE  /\ callbacks' + numDeferredOutputCallbacks' = pending + numDeferredOutputCallbacks
           /\ record'.pact = FALSE
<1>1. numDeferredOutputCallbacks \in Nat
  BY DEF DevTypeOK
<1>2. callbacks' + numDeferredOutputCallbacks' = pending + numDeferredOutputCallbacks
  BY <1>1, SMT DEF EndWrite
<1>3. record'.pact = FALSE
  BY DEF EndWrite, ShownOut
<1> QED BY <1>2, <1>3

\* Every step keeps the invariant.
LEMMA RingStep == RingInv /\ [Next]_vars => RingInv'
<1> SUFFICES ASSUME RingInv, [Next]_vars PROVE RingInv'
  OBVIOUS
<1> USE DEF RingInv
<1>t. DevTypeOK /\ DevTypeOK'
  BY TypeStep
<1>a. /\ config.output \in BOOLEAN /\ config.canBlock \in BOOLEAN /\ config.calm \in BOOLEAN
      /\ callbacks \in Nat /\ numDeferredOutputCallbacks \in Nat
      /\ record.pact \in BOOLEAN /\ Elements \in Nat
      /\ Elements = 0 <=> Empty
  BY RingAssumption, ElementsType DEF DevTypeOK, ConfigType
<1>s. SUFFICES Counted' /\ Activity' /\ PutKept'
  BY <1>t
<1>q. ASSUME UNCHANGED ringVars PROVE Elements' = Elements
  BY <1>q DEF ringVars, Elements
<1>p. ASSUME processLi, ~config.output, ~record.pact
      PROVE  \/ /\ Empty /\ Elements' = Elements
                /\ \/ queued' = TRUE /\ record'.pact = TRUE /\ config.canBlock /\ pc' = pc
                   \/ pc' = "driver" /\ ~config.canBlock /\ UNCHANGED <<queued, record>>
                   \/ pc' = "end" /\ UNCHANGED <<queued, record>>
             \/ /\ ~Empty /\ Elements' = Elements - 1
                /\ record'.pact = FALSE /\ UNCHANGED <<pc, queued>>
  <2>1. CASE Empty
    <3>1. StartRead /\ Elements' = Elements
      BY <1>p, <2>1, <1>q DEF processLi
    <3>2. record \in [val : Values, alarm : {"udf", "ok", "error"}, pact : BOOLEAN]
      BY <1>t DEF DevTypeOK
    <3> QED BY <2>1, <3>1, <3>2 DEF StartRead
  <2>2. CASE ~Empty
    <3>1. Elements' = Elements - 1
      BY <1>p, <1>t, <2>2, TakeCount DEF processLi
    <3> QED BY <1>p, <2>2, <3>1 DEF processLi, ShownIn
  <2> QED BY <2>1, <2>2
<1>w. ASSUME NEW val \in Values, StartWrite(val), ~record.pact
      PROVE  /\ asyncProcessingActive' = config.canBlock
             /\ result'.value = val /\ put' = val
             /\ \/ queued' = TRUE /\ record'.pact = TRUE /\ config.canBlock /\ pc' = pc
                \/ pc' = "driver" /\ ~config.canBlock /\ queued' = queued /\ record'.pact = FALSE
                \/ pc' = "end" /\ queued' = queued /\ record'.pact = FALSE
  <2>1. /\ record \in [val : Values, alarm : {"udf", "ok", "error"}, pact : BOOLEAN]
        /\ result \in [value : Values, time : Nat, status : {"ok", "error"}]
    BY <1>t DEF DevTypeOK, ElementType
  <2> QED BY <1>w, <2>1 DEF StartWrite
<1>1. CASE scanIoRequest
  <2>0. /\ pc = "idle" /\ ~config.output /\ callbacks > 0 /\ callbacks' = callbacks - 1
        /\ UNCHANGED <<config, registered, numDeferredOutputCallbacks, done>>
    BY <1>1 DEF scanIoRequest, Free
  <2>4. PutKept'
    BY <2>0 DEF PutKept, PutWritten
  <2>1. CASE record.pact
    <3>1. Elements' = Elements /\ UNCHANGED <<record, pc, queued>>
      BY <1>1, <2>1, <1>q DEF scanIoRequest
    <3>2. Counted' BY <2>0, <2>1, <3>1, <1>a DEF Counted, Activity
    <3>3. Activity' BY <2>0, <2>1, <3>1, <1>a DEF Activity
    <3> QED BY <2>4, <3>2, <3>3
  <2>2. CASE ~record.pact
    <3>1. processLi
      BY <1>1, <2>2 DEF scanIoRequest
    <3>2. CASE /\ Empty /\ Elements' = Elements
               /\ \/ queued' = TRUE /\ record'.pact = TRUE /\ config.canBlock /\ pc' = pc
                  \/ pc' = "driver" /\ ~config.canBlock /\ UNCHANGED <<queued, record>>
                  \/ pc' = "end" /\ UNCHANGED <<queued, record>>
      <4>1. Counted' BY <2>0, <2>2, <3>2, <1>a DEF Counted
      <4>2. Activity' BY <2>0, <2>2, <3>2, <1>a DEF Activity
      <4> QED BY <2>4, <4>1, <4>2
    <3>3. CASE /\ ~Empty /\ Elements' = Elements - 1
               /\ record'.pact = FALSE /\ UNCHANGED <<pc, queued>>
      <4>1. Counted' BY <2>0, <2>2, <3>3, <1>a DEF Counted
      <4>2. Activity' BY <2>0, <2>2, <3>3, <1>a DEF Activity
      <4> QED BY <2>4, <4>1, <4>2
    <3> QED BY <2>0, <2>2, <3>1, <3>2, <3>3, <1>p
  <2> QED BY <2>1, <2>2
<1>2. CASE outputCallbackCallback
  <2>0. /\ pc = "idle" /\ config.output /\ callbacks > 0
        /\ UNCHANGED <<config, registered, done>>
    BY <1>2 DEF outputCallbackCallback, Free
  <2>1. ~Empty
    BY <2>0, <1>a DEF Counted, Activity
  <2>2. CASE record.pact
    <3>1. /\ Take /\ callbacks' = callbacks - 1
          /\ UNCHANGED <<deferVars, record, pc, queued, put>>
      BY <1>2, <2>1, <2>2 DEF outputCallbackCallback
    <3>2. Elements' = Elements - 1
      BY <1>t, <2>1, <3>1, TakeCount
    <3>3. ~config.calm /\ config.canBlock
      BY <2>0, <2>2, <1>a DEF Activity
    <3>4. Counted' BY <2>0, <3>1, <3>2, <1>a DEF Counted, deferVars
    <3>5. Activity' BY <2>0, <3>1, <3>3, <1>a DEF Activity, deferVars
    <3>6. PutKept' BY <2>0, <3>3 DEF PutKept, Undisturbed
    <3> QED BY <3>4, <3>5, <3>6
  <2>3. CASE ~record.pact
    <3>1. /\ Take /\ EndWrite(ringBuffer[ringTail], TRUE, callbacks - 1)
          /\ UNCHANGED <<pc, queued, put>>
      BY <1>2, <2>1, <2>3 DEF outputCallbackCallback
    <3>2. Elements' = Elements - 1
      BY <1>t, <2>1, <3>1, TakeCount
    <3>3. /\ callbacks' + numDeferredOutputCallbacks' = callbacks - 1 + numDeferredOutputCallbacks
          /\ record'.pact = FALSE
      <4>1. callbacks - 1 \in Nat BY <2>0, <1>a
      <4> QED BY <4>1, <3>1, <1>t, EndWriteCount
    <3>4. Counted' BY <2>0, <3>2, <3>3, <1>a DEF Counted
    <3>5. Activity' BY <2>0, <2>3, <3>1, <3>3, <1>a DEF Activity
    <3>6. PutKept' BY <2>0, <2>3, <3>1, <1>a DEF PutKept, PutWritten, Activity
    <3> QED BY <3>4, <3>5, <3>6
  <2> QED BY <2>2, <2>3
<1>3. CASE clientProcess
  <2>0. /\ pc = "idle" /\ ~config.output /\ ~record.pact /\ processLi
        /\ config.calm => ~registered
        /\ UNCHANGED <<config, registered, numDeferredOutputCallbacks, callbacks, done>>
    BY <1>3 DEF clientProcess, Free
  <2>1. PutKept' BY <2>0 DEF PutKept, PutWritten
  <2>2. CASE /\ Empty /\ Elements' = Elements
             /\ \/ queued' = TRUE /\ record'.pact = TRUE /\ config.canBlock /\ pc' = pc
                \/ pc' = "driver" /\ ~config.canBlock /\ UNCHANGED <<queued, record>>
                \/ pc' = "end" /\ UNCHANGED <<queued, record>>
    <3>1. Counted' BY <2>0, <2>2, <1>a DEF Counted
    <3>2. Activity' BY <2>0, <2>2, <1>a DEF Activity
    <3> QED BY <2>1, <3>1, <3>2
  <2>3. CASE /\ ~Empty /\ Elements' = Elements - 1
             /\ record'.pact = FALSE /\ UNCHANGED <<pc, queued>>
    <3>1. Counted' BY <2>0, <2>3, <1>a DEF Counted
    <3>2. Activity' BY <2>0, <2>3, <1>a DEF Activity
    <3> QED BY <2>1, <3>1, <3>2
  <2> QED BY <2>0, <2>2, <2>3, <1>p
<1>4. ASSUME NEW val \in Values, clientPut(val) PROVE Counted' /\ Activity' /\ PutKept'
  <2>0. /\ pc = "idle" /\ config.output /\ ~record.pact /\ StartWrite(val)
        /\ config.calm => callbacks = 0
        /\ UNCHANGED <<config, registered, numDeferredOutputCallbacks, callbacks, done, ringVars>>
    BY <1>4 DEF clientPut, Free
  <2>1. Counted' BY <2>0, <1>a, <1>q DEF Counted
  <2>2. Activity' BY <2>0, <1>a, <1>w DEF Activity
  <2>3. PutKept' BY <2>0, <1>w DEF PutKept, PutWritten
  <2> QED BY <2>1, <2>2, <2>3
<1>5. CASE processEnd
  <2>0. /\ pc = "end" /\ pc' = "idle" /\ Elements' = Elements /\ ~record.pact /\ ~queued /\ ~done
        /\ UNCHANGED <<config, registered, queued, done, put>>
    BY <1>5, <1>q DEF processEnd, Activity
  <2>1. CASE config.output
    <3>1. EndWrite(result, FALSE, callbacks)
      BY <1>5, <2>1 DEF processEnd
    <3>2. /\ callbacks' + numDeferredOutputCallbacks' = callbacks + numDeferredOutputCallbacks
          /\ record'.pact = FALSE
      BY <3>1, <1>t, <1>a, EndWriteCount
    <3>3. Counted' BY <2>0, <2>1, <3>2, <1>a DEF Counted
    <3>4. Activity' BY <2>0, <3>2 DEF Activity
    <3>5. PutKept' BY <2>0 DEF PutKept, PutWritten
    <3> QED BY <3>3, <3>4, <3>5
  <2>2. CASE ~config.output
    <3>1. record'.pact = FALSE /\ UNCHANGED <<deferVars, callbacks>>
      BY <1>5, <2>2 DEF processEnd, ShownIn
    <3>2. Counted' BY <2>0, <2>2, <3>1, <1>a DEF Counted, deferVars
    <3>3. Activity' BY <2>0, <2>2, <3>1 DEF Activity
    <3>4. PutKept' BY <2>0, <2>2 DEF PutKept, PutWritten
    <3> QED BY <3>2, <3>3, <3>4
  <2> QED BY <2>1, <2>2
<1>6. CASE processCallback
  <2>0. /\ pc = "idle" /\ record.pact /\ config.canBlock /\ ~done' /\ ~queued
        /\ UNCHANGED <<config, registered, pc, queued, put>>
    BY <1>6 DEF processCallback, Free, Activity
  <2>1. CASE config.output
    <3>1. EndWrite(result, FALSE, callbacks) /\ Elements' = Elements
      BY <1>6, <2>1, <1>q DEF processCallback
    <3>2. /\ callbacks' + numDeferredOutputCallbacks' = callbacks + numDeferredOutputCallbacks
          /\ record'.pact = FALSE
      BY <3>1, <1>t, <1>a, EndWriteCount
    <3>3. Counted' BY <2>0, <2>1, <3>1, <3>2, <1>a DEF Counted
    <3>4. Activity' BY <2>0, <3>2 DEF Activity
    <3>5. PutKept' BY <2>0 DEF PutKept, PutWritten
    <3> QED BY <3>3, <3>4, <3>5
  <2>2. CASE ~config.output
    <3>1. record'.pact = FALSE /\ UNCHANGED <<deferVars, callbacks>>
      <4>1. /\ \E r : record' = ShownIn(r)
            /\ UNCHANGED <<deferVars, callbacks>>
        BY <1>6, <2>2 DEF processCallback
      <4> QED BY <4>1 DEF ShownIn
    <3>2. CASE Empty
      <4>1. Elements' = Elements
        BY <1>6, <2>2, <3>2, <1>q DEF processCallback
      <4>2. Counted' BY <2>0, <2>2, <3>1, <4>1, <1>a DEF Counted, deferVars
      <4> QED BY <4>2, <2>0, <2>2, <3>1 DEF Activity, PutKept, PutWritten
    <3>3. CASE ~Empty
      <4>1. Elements' = Elements - 1
        BY <1>6, <1>t, <2>2, <3>3, TakeCount DEF processCallback
      <4>2. ~config.calm
        BY <2>0, <2>2, <3>3, <1>a DEF Counted
      <4>3. Counted' BY <2>0, <2>2, <3>1, <4>1, <4>2, <1>a DEF Counted, deferVars
      <4> QED BY <4>3, <2>0, <2>2, <3>1 DEF Activity, PutKept, PutWritten
    <3> QED BY <3>2, <3>3
  <2> QED BY <2>1, <2>2
<1>7. CASE getIoIntInfo
  <2>1. Elements' = Elements
    BY <1>7, <1>q DEF getIoIntInfo
  <2> QED BY <1>7, <1>a, <2>1 DEF getIoIntInfo, Counted, Activity, PutKept, PutWritten,
             Undisturbed, deferVars
<1>8. CASE iocRun
  <2>1. Elements' = Elements
    BY <1>8, <1>q DEF iocRun
  <2> QED BY <1>8, <1>a, <2>1 DEF iocRun, Counted, Activity, PutKept, PutWritten,
             Undisturbed, deferVars
<1>i. ASSUME processCallbackInput \/ processCallbackOutput
      PROVE  /\ result'.value = result.value \/ processCallbackInput
             /\ \/ /\ Elements' = Elements
                   /\ UNCHANGED <<callbacks, numDeferredOutputCallbacks>>
                \/ /\ Elements' = Elements + 1
                   /\ registered
                   /\ IF config.output /\ asyncProcessingActive
                      THEN /\ numDeferredOutputCallbacks' = numDeferredOutputCallbacks + 1
                           /\ UNCHANGED callbacks
                      ELSE /\ callbacks' = callbacks + 1
                           /\ UNCHANGED numDeferredOutputCallbacks
  <2>1. CASE processCallbackInput
    BY <2>1, <1>q DEF processCallbackInput
  <2>2. CASE processCallbackOutput
    <3>1. result'.value = result.value
      BY <2>2 DEF processCallbackOutput
    <3>2. CASE Tell(result.value, "ok")
      BY <3>1, <3>2, <1>t, TellCount
    <3>3. CASE UNCHANGED <<ringVars, callbacks, numDeferredOutputCallbacks, deviceVars>>
      BY <3>1, <3>3, <1>q
    <3> QED BY <2>2, <3>2, <3>3 DEF processCallbackOutput
  <2> QED BY <1>i, <2>1, <2>2
<1>9. CASE synchronousIO
  <2>0. /\ pc = "driver" /\ pc' = "end" /\ ~config.canBlock /\ ~record.pact /\ ~queued /\ ~done
        /\ processCallbackInput \/ processCallbackOutput
        /\ UNCHANGED <<config, registered, asyncProcessingActive, record, queued, done, put>>
    BY <1>9 DEF synchronousIO, Activity
  <2>1. Counted' BY <2>0, <1>a, <1>i DEF Counted
  <2>2. Activity' BY <2>0 DEF Activity
  <2>3. PutKept' BY <2>0 DEF PutKept, PutWritten
  <2> QED BY <2>1, <2>2, <2>3
<1>10. CASE portThread
  <2>0. /\ queued /\ ~queued' /\ record.pact /\ config.canBlock /\ pc = "idle"
        /\ processCallbackInput \/ processCallbackOutput
        /\ UNCHANGED <<config, registered, asyncProcessingActive, record, pc, put>>
    BY <1>10 DEF portThread, Activity
  <2>1. Counted' BY <2>0, <1>a, <1>i DEF Counted
  <2>2. Activity' BY <2>0, <1>a, <1>i DEF Activity
  <2>3. PutKept' BY <2>0 DEF PutKept, PutWritten
  <2> QED BY <2>1, <2>2, <2>3
<1>11. ASSUME NEW value \in Values, NEW status \in {"ok", "error"},
              interruptCallback(value, status)
       PROVE  Counted' /\ Activity' /\ PutKept'
  <2>1. Tell(value, status)
    BY <1>11 DEF interruptCallback
  <2>2. Counted'
    BY <1>11, <1>a, <1>t, <2>1, TellCount DEF interruptCallback, Counted
  <2>3. Activity'
    BY <1>11, <1>a, <1>t, <2>1, TellCount DEF interruptCallback, Activity
  <2>4. PutKept'
    BY <1>11 DEF interruptCallback, PutKept, PutWritten, Undisturbed
  <2> QED BY <2>2, <2>3, <2>4
<1>12. CASE UNCHANGED vars
  <2>1. Elements' = Elements
    BY <1>12, <1>q DEF vars
  <2> QED BY <1>12, <2>1 DEF vars, Counted, Activity, PutKept, PutWritten, Undisturbed, deferVars
<1> QED
  BY <1>1, <1>2, <1>3, <1>4, <1>5, <1>6, <1>7, <1>8, <1>9, <1>10, <1>11, <1>12 DEF Next

\* The invariant holds in every state.
THEOREM RingInvariance == Spec => []RingInv
<1>1. ASSUME Init PROVE RingInv
  <2>1. DevTypeOK
    BY <1>1, InitType
  <2>2. Elements = 0
    BY <1>1, RingAssumption DEF Init, Elements, Used
  <2>3. config.output \in BOOLEAN
    BY <2>1, RingAssumption DEF DevTypeOK, ConfigType
  <2> QED BY <1>1, <2>1, <2>2, <2>3 DEF Init, RingInv, Counted, Activity, PutKept, PutWritten
<1> QED BY <1>1, RingStep, PTL DEF Spec

\* No element is left in the ring buffer without a scan or an outputCallback
\* that will take it, unless clients start an input record of a port that can
\* block while a driver callback is pending.
THEOREM NoValueStranded == Spec => [](Sheltered => NoneStranded)
<1>1. RingInv => (Sheltered => NoneStranded)
  <2> SUFFICES ASSUME RingInv, Sheltered PROVE NoneStranded
    OBVIOUS
  <2>1. /\ config.output \in BOOLEAN /\ config.canBlock \in BOOLEAN /\ config.calm \in BOOLEAN
        /\ callbacks \in Nat /\ numDeferredOutputCallbacks \in Nat /\ Elements \in Nat
    BY RingAssumption, ElementsType DEF RingInv, DevTypeOK, ConfigType
  <2> QED BY <2>1 DEF RingInv, Counted, Sheltered, NoneStranded
<1> QED BY <1>1, RingInvariance, PTL

\* No driver callback makes an output record write to the driver.
THEOREM CallbacksNeverWrite == Spec => []NoEcho
<1>1. RingInv => NoEcho
  <2> SUFFICES ASSUME RingInv, config.output, callbacks > 0 PROVE ~Empty
    BY DEF NoEcho
  <2>1. /\ callbacks \in Nat /\ numDeferredOutputCallbacks \in Nat
        /\ Elements \in Nat /\ (Elements = 0 <=> Empty)
    BY ElementsType DEF RingInv, DevTypeOK
  <2> QED BY <2>1 DEF RingInv, Counted
<1> QED BY <1>1, RingInvariance, PTL

\* The value an output record began to write is the one that is written,
\* if clients do not disturb the callbacks.
THEOREM PutsReachTheDriver == Spec => []PutKept
<1>1. RingInv => PutKept
  BY DEF RingInv
<1> QED BY <1>1, RingInvariance, PTL

-----------------------------------------------------------------------------
(***************************************************************************)
(* What the record shows in the end.                                       *)
(***************************************************************************)
\* the element that came last
Before(i) == IF i = 0 THEN RingSize ELSE i - 1
Newest == ringBuffer[Before(ringHead)]

\* A deferred callback waits for the end of a write, or for a callback that
\* asks for it; a write keeps the value it began with.
Awaited ==
    /\ asyncProcessingActive => config.output /\ (record.pact \/ pc = "end")
    /\ numDeferredOutputCallbacks > 0 => asyncProcessingActive \/ callbacks > 0
    /\ config.output /\ (queued \/ pc = "driver") => record.val = put

\* If the driver told its last change, that is the newest element; and if this
\* has been taken the record shows it, or what an I/O found or left since then.
Shown ==
    informed =>
        /\ Newest.value = device
        /\ Empty /\ ~record.pact /\ pc = "idle" /\ record.alarm = "ok" => record.val = device
        /\ Empty /\ (done \/ pc = "end") /\ result.status = "ok" =>
              IF config.output THEN record.val = device ELSE result.value = device

SettledInv == Awaited /\ (Undisturbed => Shown)

\* Push makes its element the newest of a buffer that is not empty, ...
LEMMA PushNewest ==
    ASSUME DevTypeOK, NEW element \in ElementType, Push(element)
    PROVE  Newest' = element /\ ~Empty'
<1>1. /\ ringHead \in Slots /\ ringTail \in Slots /\ ringBuffer \in [Slots -> ElementType]
  BY DEF DevTypeOK
<1>2. \A i \in Slots : Before(After(i)) = i /\ After(i) # i
  BY RingAssumption DEF Slots, Before, After
<1>3. /\ ringHead' = After(ringHead) /\ ringBuffer' = [ringBuffer EXCEPT ![ringHead] = element]
      /\ ringTail' = IF After(ringHead) = ringTail THEN After(ringTail) ELSE ringTail
  BY DEF Push
<1>4. Newest' = element
  BY <1>1, <1>2, <1>3 DEF Newest
<1>5. ~Empty'
  BY <1>1, <1>2, <1>3 DEF Empty
<1> QED BY <1>4, <1>5

\* ... and Take takes the newest if it empties the buffer.
LEMMA TakeNewest ==
    ASSUME DevTypeOK, Take
    PROVE  Newest' = Newest /\ (Empty' => ringBuffer[ringTail] = Newest)
<1>1. ringHead \in Slots /\ ringTail \in Slots
  BY DEF DevTypeOK
<1>2. \A i \in Slots : Before(After(i)) = i
  BY RingAssumption DEF Slots, Before, After
<1> QED BY <1>1, <1>2 DEF Take, Newest, Empty

\* A change of the device that is told is the newest element.
LEMMA TellNewest ==
    ASSUME DevTypeOK, NEW value \in Values, NEW status \in {"ok", "error"}, Tell(value, status)
    PROVE  /\ informed' => Newest'.value = device' /\ ~Empty'
           /\ numDeferredOutputCallbacks' > 0 =>
                \/ numDeferredOutputCallbacks > 0 /\ callbacks' >= callbacks
                \/ asyncProcessingActive
<1>0. callbacks \in Nat /\ numDeferredOutputCallbacks \in Nat
  BY DEF DevTypeOK
<1> DEFINE e == [value |-> value, time |-> clock + 1, status |-> status]
<1>1. CASE registered /\ interruptAccept
  <2>1. e \in ElementType /\ e.value = value
    BY DEF ElementType, DevTypeOK
  <2>2. Push(e) /\ device' = value
    BY <1>1 DEF Tell
  <2> HIDE DEF e
  <2>3. Newest' = e /\ ~Empty'
    BY <2>1, <2>2, PushNewest
  <2> QED BY <1>0, <2>1, <2>2, <2>3, PushCount
<1>2. CASE ~(registered /\ interruptAccept)
  BY <1>0, <1>2 DEF Tell
<1> QED BY <1>1, <1>2

LEMMA SettledStep == RingInv /\ SettledInv /\ [Next]_vars => SettledInv'
<1> SUFFICES ASSUME RingInv, SettledInv, [Next]_vars PROVE SettledInv'
  OBVIOUS
<1>t. DevTypeOK /\ DevTypeOK' /\ Counted /\ Activity /\ PutKept
  BY TypeStep DEF RingInv
<1>a. /\ config.output \in BOOLEAN /\ config.canBlock \in BOOLEAN /\ config.calm \in BOOLEAN
      /\ callbacks \in Nat /\ numDeferredOutputCallbacks \in Nat
      /\ record \in [val : Values, alarm : {"udf", "ok", "error"}, pact : BOOLEAN]
      /\ result \in ElementType /\ ringBuffer[ringTail] \in ElementType
      /\ Elements \in Nat /\ (Elements = 0 <=> Empty)
  BY <1>t, RingAssumption, ElementsType DEF DevTypeOK, ConfigType
<1>n. ASSUME UNCHANGED ringVars PROVE Newest' = Newest /\ (Empty' <=> Empty)
  BY <1>n DEF ringVars, Newest, Empty
\* processLi
<1>p. ASSUME processLi, ~config.output, ~record.pact, pc = "idle", ~queued, ~done, Shown,
             done' = done, informed' = informed, device' = device, config' = config
      PROVE  Shown'
  <2>1. CASE ~Empty
    <3>1. /\ Take /\ record' = ShownIn(ringBuffer[ringTail]) /\ pc' = pc
      BY <1>p, <2>1 DEF processLi
    <3>2. Newest' = Newest /\ (Empty' => ringBuffer[ringTail] = Newest)
      BY <3>1, <1>t, TakeNewest
    <3>3. record'.alarm = "ok" => record'.val = ringBuffer[ringTail].value
      BY <3>1 DEF ShownIn
    <3> QED BY <1>p, <3>1, <3>2, <3>3 DEF Shown
  <2>2. CASE Empty
    <3>1. Newest' = Newest /\ (Empty' <=> Empty)
      BY <1>p, <1>n, <2>2 DEF processLi
    <3>2. \/ record'.pact /\ pc' = pc
          \/ pc' = "driver"
          \/ pc' = "end" /\ result'.status = "error"
      BY <1>p, <1>a, <2>2 DEF processLi, StartRead, ElementType
    <3> QED BY <1>p, <3>1, <3>2 DEF Shown
  <2> QED BY <2>1, <2>2
\* StartWrite
<1>w. ASSUME NEW val \in Values, StartWrite(val), config.output, ~record.pact, pc = "idle",
             ~queued, ~done, config' = config, done' = done
      PROVE  /\ config.output /\ (queued' \/ pc' = "driver") => record'.val = put'
             /\ asyncProcessingActive' => record'.pact \/ pc' = "end"
             /\ \/ record'.pact /\ pc' = pc
                \/ pc' = "driver"
                \/ pc' = "end" /\ result'.status = "error"
  BY <1>w, <1>a DEF StartWrite, ElementType
\* EndWrite
<1>e. ASSUME NEW r \in ElementType, NEW taken \in BOOLEAN, NEW pending \in Nat,
             EndWrite(r, taken, pending), pc' = "idle", ~queued', config' = config
      PROVE  /\ Awaited'
             /\ record'.alarm = r.status
             /\ record'.val = IF taken /\ r.status = "ok" THEN r.value ELSE record.val
  <2>1. record'.alarm = r.status
        /\ record'.val = IF taken /\ r.status = "ok" THEN r.value ELSE record.val
    BY <1>e DEF EndWrite, ShownOut
  <2>2. asyncProcessingActive' = FALSE /\ (numDeferredOutputCallbacks' > 0 => callbacks' > 0)
    BY <1>e, <1>a DEF EndWrite
  <2> QED BY <1>e, <2>1, <2>2 DEF Awaited
<1>1. CASE scanIoRequest
  <2>0. /\ pc = "idle" /\ ~config.output
        /\ UNCHANGED <<config, numDeferredOutputCallbacks, done, informed, device>>
    BY <1>1 DEF scanIoRequest, Free, deviceVars
  <2>1. numDeferredOutputCallbacks = 0
    BY <2>0, <1>t DEF Counted
  <2>2. CASE record.pact
    <3>1. /\ UNCHANGED ringVars /\ UNCHANGED <<result, asyncProcessingActive, record, pc, queued, put>>
      BY <1>1, <2>2 DEF scanIoRequest
    <3> QED BY <2>0, <2>1, <2>2, <3>1, <1>n DEF SettledInv, Awaited, Shown, Undisturbed
  <2>3. CASE ~record.pact
    <3>1. processLi /\ asyncProcessingActive' = asyncProcessingActive
      BY <1>1, <2>3 DEF scanIoRequest, processLi, StartRead
    <3>2. ~asyncProcessingActive /\ ~queued /\ ~done
      BY <2>0, <2>3, <1>t DEF SettledInv, Awaited, Activity
    <3>3. Undisturbed => Shown'
      BY <2>0, <2>3, <3>1, <3>2, <1>p DEF SettledInv
    <3> QED BY <2>0, <2>1, <3>1, <3>2, <3>3 DEF SettledInv, Awaited, Undisturbed
  <2> QED BY <2>2, <2>3
<1>2. CASE outputCallbackCallback
  <2>0. /\ pc = "idle" /\ config.output /\ callbacks > 0
        /\ UNCHANGED <<config, done, informed, device>>
    BY <1>2 DEF outputCallbackCallback, Free, deviceVars
  <2>1. ~Empty
    BY <2>0, <1>a, <1>t DEF Counted
  <2>2. CASE record.pact
    <3>1. /\ UNCHANGED <<asyncProcessingActive, numDeferredOutputCallbacks>>
          /\ UNCHANGED <<record, pc, queued, put>>
      BY <1>2, <2>1, <2>2 DEF outputCallbackCallback, deferVars
    <3>2. ~Undisturbed /\ asyncProcessingActive
      BY <2>0, <2>2, <1>a, <1>t DEF Activity, Undisturbed
    <3> QED BY <2>0, <2>2, <3>1, <3>2 DEF SettledInv, Awaited, Undisturbed
  <2>3. CASE ~record.pact
    <3>1. /\ Take /\ EndWrite(ringBuffer[ringTail], TRUE, callbacks - 1)
          /\ UNCHANGED <<pc, queued, put>>
      BY <1>2, <2>1, <2>3 DEF outputCallbackCallback
    <3>2. ~queued /\ ~done /\ callbacks - 1 \in Nat
      BY <2>0, <2>3, <1>a, <1>t DEF Activity
    <3>3. /\ Awaited'
          /\ record'.alarm = "ok" => record'.val = ringBuffer[ringTail].value
      BY <2>0, <3>1, <3>2, <1>a, <1>e
    <3>4. Newest' = Newest /\ (Empty' => ringBuffer[ringTail] = Newest)
      BY <3>1, <1>t, TakeNewest
    <3>5. Undisturbed => Shown'
      BY <2>0, <3>1, <3>2, <3>3, <3>4 DEF SettledInv, Shown
    <3> QED BY <2>0, <3>3, <3>5 DEF SettledInv, Undisturbed
  <2> QED BY <2>2, <2>3
<1>3. CASE clientProcess
  <2>0. /\ pc = "idle" /\ ~config.output /\ ~record.pact /\ processLi
        /\ UNCHANGED <<config, numDeferredOutputCallbacks, done, informed, device>>
    BY <1>3 DEF clientProcess, Free, deviceVars
  <2>1. asyncProcessingActive' = asyncProcessingActive /\ numDeferredOutputCallbacks = 0
    BY <2>0, <1>t DEF processLi, StartRead, Counted
  <2>2. ~asyncProcessingActive /\ ~queued /\ ~done
    BY <2>0, <1>t DEF SettledInv, Awaited, Activity
  <2>3. Undisturbed => Shown'
    BY <2>0, <2>2, <1>p DEF SettledInv
  <2> QED BY <2>0, <2>1, <2>2, <2>3 DEF SettledInv, Awaited, Undisturbed
<1>4. ASSUME NEW val \in Values, clientPut(val) PROVE SettledInv'
  <2>0. /\ pc = "idle" /\ config.output /\ ~record.pact /\ StartWrite(val)
        /\ UNCHANGED <<config, numDeferredOutputCallbacks, callbacks, done, informed, device>>
        /\ UNCHANGED ringVars
    BY <1>4 DEF clientPut, Free, deviceVars
  <2>1. ~queued /\ ~done /\ ~asyncProcessingActive
    BY <2>0, <1>t DEF SettledInv, Awaited, Activity
  <2>2. /\ config.output /\ (queued' \/ pc' = "driver") => record'.val = put'
        /\ asyncProcessingActive' => record'.pact \/ pc' = "end"
        /\ \/ record'.pact /\ pc' = pc
           \/ pc' = "driver"
           \/ pc' = "end" /\ result'.status = "error"
    BY <2>0, <2>1, <1>w
  <2>3. Newest' = Newest /\ (Empty' <=> Empty)
    BY <2>0, <1>n
  <2>4. Awaited'
    BY <2>0, <2>1, <2>2 DEF SettledInv, Awaited
  <2>5. Shown => Shown'
    BY <2>0, <2>1, <2>2, <2>3 DEF Shown
  <2> QED BY <2>0, <2>4, <2>5 DEF SettledInv, Undisturbed
<1>5. CASE processEnd
  <2>0. /\ pc = "end" /\ pc' = "idle"
        /\ UNCHANGED <<config, done, queued, informed, device>> /\ UNCHANGED ringVars
    BY <1>5 DEF processEnd, deviceVars
  <2>1. ~queued /\ ~done /\ ~record.pact
    BY <2>0, <1>t DEF Activity
  <2>2. Newest' = Newest /\ (Empty' <=> Empty)
    BY <2>0, <1>n
  <2>3. CASE config.output
    <3>1. EndWrite(result, FALSE, callbacks)
      BY <1>5, <2>3 DEF processEnd
    <3>2. Awaited' /\ record'.alarm = result.status /\ record'.val = record.val
      BY <2>0, <2>1, <3>1, <1>a, <1>e
    <3>3. Shown => Shown'
      BY <2>0, <2>1, <2>2, <2>3, <3>2 DEF Shown
    <3> QED BY <2>0, <3>2, <3>3 DEF SettledInv, Undisturbed
  <2>4. CASE ~config.output
    <3>1. /\ record' = ShownIn(result)
          /\ UNCHANGED <<asyncProcessingActive, numDeferredOutputCallbacks, callbacks>>
      BY <1>5, <2>4 DEF processEnd, deferVars
    <3>2. numDeferredOutputCallbacks = 0
      BY <2>4, <1>t DEF Counted
    <3>3. record'.alarm = result.status
          /\ (result.status = "ok" => record'.val = result.value)
      BY <3>1 DEF ShownIn
    <3>4. Shown => Shown'
      BY <2>0, <2>1, <2>2, <2>4, <3>3 DEF Shown
    <3>5. ~asyncProcessingActive
      BY <2>4 DEF SettledInv, Awaited
    <3> QED BY <2>0, <2>4, <3>1, <3>2, <3>4, <3>5 DEF SettledInv, Awaited, Undisturbed
  <2> QED BY <2>3, <2>4
<1>6. CASE processCallback
  <2>0. /\ pc = "idle" /\ done /\ done' = FALSE
        /\ UNCHANGED <<config, pc, queued, informed, device>>
    BY <1>6 DEF processCallback, Free, deviceVars
  <2>1. ~queued /\ record.pact
    BY <2>0, <1>t DEF Activity
  <2>2. CASE config.output
    <3>1. EndWrite(result, FALSE, callbacks) /\ UNCHANGED ringVars
      BY <1>6, <2>2 DEF processCallback
    <3>2. Awaited' /\ record'.alarm = result.status /\ record'.val = record.val
      BY <2>0, <2>1, <3>1, <1>a, <1>e
    <3>3. Newest' = Newest /\ (Empty' <=> Empty)
      BY <3>1, <1>n
    <3>4. Shown => Shown'
      BY <2>0, <2>1, <2>2, <3>2, <3>3 DEF Shown
    <3> QED BY <2>0, <3>2, <3>4 DEF SettledInv, Undisturbed
  <2>3. CASE ~config.output
    <3>1. /\ record' = ShownIn(IF Empty THEN result ELSE ringBuffer[ringTail])
          /\ IF Empty THEN UNCHANGED ringVars ELSE Take
          /\ UNCHANGED <<asyncProcessingActive, numDeferredOutputCallbacks, callbacks>>
      BY <1>6, <2>3 DEF processCallback, deferVars
    <3>2. numDeferredOutputCallbacks = 0 /\ ~asyncProcessingActive
      BY <2>3, <1>t DEF Counted, SettledInv, Awaited
    <3>3. CASE Empty
      <4>1. Newest' = Newest /\ (Empty' <=> Empty)
        BY <3>1, <3>3, <1>n
      <4>2. record'.alarm = result.status
            /\ (result.status = "ok" => record'.val = result.value)
        BY <3>1, <3>3 DEF ShownIn
      <4>3. Shown => Shown'
        BY <2>0, <2>3, <4>1, <4>2 DEF Shown
      <4> QED BY <2>0, <2>3, <3>1, <3>2, <4>3 DEF SettledInv, Awaited, Undisturbed
    <3>4. CASE ~Empty
      <4>1. Newest' = Newest /\ (Empty' => ringBuffer[ringTail] = Newest)
        BY <3>1, <3>4, <1>t, TakeNewest
      <4>2. record'.alarm = "ok" => record'.val = ringBuffer[ringTail].value
        BY <3>1, <3>4 DEF ShownIn
      <4>3. Shown => Shown'
        BY <2>0, <2>3, <4>1, <4>2 DEF Shown
      <4> QED BY <2>0, <2>3, <3>1, <3>2, <4>3 DEF SettledInv, Awaited, Undisturbed
    <3> QED BY <3>3, <3>4
  <2> QED BY <2>2, <2>3
<1>7. CASE getIoIntInfo \/ iocRun
  <2>1. /\ UNCHANGED ringVars
        /\ UNCHANGED <<config, result, asyncProcessingActive, numDeferredOutputCallbacks, record,
                       pc, callbacks, queued, done, device, informed, put>>
    BY <1>7 DEF getIoIntInfo, iocRun, deferVars, deviceVars
  <2> QED BY <2>1, <1>n DEF SettledInv, Awaited, Shown, Undisturbed
\* the driver
<1>i. ASSUME processCallbackInput
      PROVE  /\ UNCHANGED ringVars /\ UNCHANGED <<callbacks, numDeferredOutputCallbacks>>
             /\ device' = device /\ informed' = informed
             /\ result'.status = "ok" => result'.value = device
  BY <1>i DEF processCallbackInput, deviceVars
<1>o. ASSUME processCallbackOutput
      PROVE  \/ /\ UNCHANGED ringVars /\ UNCHANGED <<callbacks, numDeferredOutputCallbacks>>
                /\ device' = device /\ informed' = informed
                /\ result'.status = "ok" => result.value = device
             \/ /\ informed' => Newest'.value = device' /\ ~Empty'
                /\ numDeferredOutputCallbacks' > 0 =>
                     \/ numDeferredOutputCallbacks > 0 /\ callbacks' >= callbacks
                     \/ asyncProcessingActive
  <2>1. CASE result.value # device /\ Tell(result.value, "ok")
    <3>1. result.value \in Values
      BY <1>a DEF ElementType
    <3> QED BY <2>1, <3>1, <1>t, TellNewest
  <2>2. CASE ~(result.value # device /\ Tell(result.value, "ok"))
    BY <1>o, <2>2 DEF processCallbackOutput, deviceVars
  <2> QED BY <2>1, <2>2
<1>8. ASSUME synchronousIO \/ portThread PROVE SettledInv'
  <2>0. /\ UNCHANGED <<config, asyncProcessingActive, record, put>>
        /\ ~queued' /\ pc' # "driver"
        /\ \/ pc' = "end" /\ pc = "driver" /\ done' = done
           \/ queued /\ done' /\ pc' = pc
        /\ IF config.output THEN processCallbackOutput ELSE processCallbackInput
    <3>1. CASE synchronousIO
      <4>1. ~queued
        BY <3>1, <1>t DEF Activity, synchronousIO
      <4> QED BY <3>1, <4>1 DEF synchronousIO
    <3>2. CASE portThread
      <4>1. pc # "driver"
        BY <3>2, <1>t DEF Activity, portThread
      <4> QED BY <3>2, <4>1 DEF portThread
    <3> QED BY <1>8, <3>1, <3>2
  <2>1. pc = "driver" \/ queued
    BY <2>0
  <2>2. CASE config.output
    <3>1. processCallbackOutput
      BY <2>0, <2>2
    <3>2. Undisturbed => record.val = result.value
      BY <2>1, <2>2, <1>t DEF PutKept, PutWritten, SettledInv, Awaited
    <3>3. CASE /\ UNCHANGED ringVars /\ UNCHANGED <<callbacks, numDeferredOutputCallbacks>>
               /\ device' = device /\ informed' = informed
               /\ result'.status = "ok" => result.value = device
      <4>1. Newest' = Newest /\ (Empty' <=> Empty)
        BY <3>3, <1>n
      <4>2. Awaited'
        BY <2>0, <3>3 DEF SettledInv, Awaited
      <4>3. Undisturbed /\ Shown => Shown'
        BY <2>0, <2>2, <3>2, <3>3, <4>1, <1>t DEF Shown, Activity
      <4> QED BY <2>0, <4>2, <4>3 DEF SettledInv, Undisturbed
    <3>4. CASE /\ informed' => Newest'.value = device' /\ ~Empty'
               /\ numDeferredOutputCallbacks' > 0 =>
                    \/ numDeferredOutputCallbacks > 0 /\ callbacks' >= callbacks
                    \/ asyncProcessingActive
      <4>1. Awaited'
        BY <2>0, <3>4, <1>a, <1>t DEF SettledInv, Awaited, DevTypeOK
      <4>2. Shown'
        BY <3>4 DEF Shown
      <4> QED BY <4>1, <4>2 DEF SettledInv
    <3> QED BY <3>1, <3>3, <3>4, <1>o
  <2>3. CASE ~config.output
    <3>1. /\ UNCHANGED ringVars /\ UNCHANGED <<callbacks, numDeferredOutputCallbacks>>
          /\ device' = device /\ informed' = informed
          /\ result'.status = "ok" => result'.value = device
      BY <2>0, <2>3, <1>i
    <3>2. Newest' = Newest /\ (Empty' <=> Empty)
      BY <3>1, <1>n
    <3>3. Awaited'
      BY <2>0, <2>3, <3>1 DEF SettledInv, Awaited
    <3>4. Shown => Shown'
      BY <2>0, <2>3, <3>1, <3>2, <1>t DEF Shown, Activity
    <3> QED BY <2>0, <3>3, <3>4 DEF SettledInv, Undisturbed
  <2> QED BY <2>2, <2>3
<1>9. ASSUME NEW value \in Values, NEW status \in {"ok", "error"}, interruptCallback(value, status)
      PROVE  SettledInv'
  <2>1. /\ Tell(value, status)
        /\ UNCHANGED <<config, asyncProcessingActive, record, pc, queued, done, put>>
    BY <1>9 DEF interruptCallback
  <2>2. /\ informed' => Newest'.value = device' /\ ~Empty'
        /\ numDeferredOutputCallbacks' > 0 =>
             \/ numDeferredOutputCallbacks > 0 /\ callbacks' >= callbacks
             \/ asyncProcessingActive
    BY <2>1, <1>t, TellNewest
  <2>3. Awaited'
    BY <2>1, <2>2, <1>a, <1>t DEF SettledInv, Awaited, DevTypeOK
  <2> QED BY <2>2, <2>3 DEF SettledInv, Shown
<1>10. CASE UNCHANGED vars
  <2>1. /\ UNCHANGED ringVars
        /\ UNCHANGED <<config, result, asyncProcessingActive, numDeferredOutputCallbacks, record,
                       pc, callbacks, queued, done, device, informed, put>>
    BY <1>10 DEF vars, deferVars, deviceVars
  <2> QED BY <2>1, <1>n DEF SettledInv, Awaited, Shown, Undisturbed
<1> QED
  BY <1>1, <1>2, <1>3, <1>4, <1>5, <1>6, <1>7, <1>8, <1>9, <1>10 DEF Next

\* Once nothing is under way, a record that shows no alarm has the value of the
\* most recent callback (the overflow of interruptCallbackInput, getCallbackValue,
\* processLi, processLo), if clients do not disturb the callbacks.
THEOREM MostRecentShown == Spec => []Settled
<1>1. Init => SettledInv
  BY DEF Init, SettledInv, Awaited, Shown
<1>2. RingInv /\ SettledInv => Settled
  <2> SUFFICES ASSUME RingInv, SettledInv, Undisturbed, Quiet, informed, record.alarm = "ok"
               PROVE  record.val = device
    BY DEF Settled, MostRecent
  <2>1. /\ config.output \in BOOLEAN /\ config.canBlock \in BOOLEAN /\ config.calm \in BOOLEAN
        /\ callbacks \in Nat /\ numDeferredOutputCallbacks \in Nat /\ Elements \in Nat
        /\ (Elements = 0 <=> Empty)
    BY RingAssumption, ElementsType DEF RingInv, DevTypeOK, ConfigType
  <2>2. numDeferredOutputCallbacks = 0
    BY <2>1 DEF SettledInv, Awaited, Quiet
  <2>3. Elements <= callbacks + numDeferredOutputCallbacks
    BY <2>1 DEF RingInv, Counted, Undisturbed
  <2>4. Empty
    BY <2>1, <2>2, <2>3 DEF Quiet
  <2> QED BY <2>4 DEF SettledInv, Shown, Quiet
<1> QED BY <1>1, <1>2, RingInvariance, SettledStep, PTL DEF Spec

-----------------------------------------------------------------------------
(***************************************************************************)
(* The order of the elements.                                              *)
(***************************************************************************)
\* from ringTail on the elements are in the order of the callbacks, all of
\* them later than the last one taken
Place(i) == Used(i, ringTail)
Sorted ==
    /\ seen <= clock
    /\ \A i \in Slots : Place(i) < Elements =>
          seen < ringBuffer[i].time /\ ringBuffer[i].time <= clock
    /\ \A i, j \in Slots : Place(i) < Place(j) /\ Place(j) < Elements =>
          ringBuffer[i].time < ringBuffer[j].time

\* A slot's distance from the tail when the tail moves on.
LEMMA PlaceMoves ==
    ASSUME NEW i \in Slots, NEW t \in Slots
    PROVE  Used(i, After(t)) = IF i = t THEN RingSize ELSE Used(i, t) - 1
BY RingAssumption DEF Slots, After, Used

\* The head is as far from the tail as there are elements, and no other slot is.
LEMMA PlaceInjective ==
    ASSUME NEW i \in Slots, NEW j \in Slots, NEW t \in Slots, Used(i, t) = Used(j, t)
    PROVE  i = j
BY RingAssumption DEF Slots, Used

\* A place is a number of slots.
LEMMA PlaceType ==
    ASSUME ringTail \in Slots
    PROVE  /\ \A i \in Slots : Place(i) \in Nat /\ Place(i) <= RingSize
           /\ Place(ringTail) = 0
<1>1. \A i \in Slots : Used(i, ringTail) \in Slots
  BY UsedType
<1>2. \A n \in Slots : n \in Nat /\ n <= RingSize
  BY RingAssumption DEF Slots
<1>3. Used(ringTail, ringTail) = 0
  BY UsedType
<1> QED BY <1>1, <1>2, <1>3 DEF Place

\* A full buffer has RingSize elements.
LEMMA FullCount ==
    ASSUME NEW h \in Slots, NEW t \in Slots, After(h) = t
    PROVE  Used(h, t) = RingSize /\ h # t
BY RingAssumption DEF Slots, After, Used

\* Push keeps the order.
LEMMA PushSorted ==
    ASSUME DevTypeOK, Sorted, NEW v, NEW s,
           Push([value |-> v, time |-> clock + 1, status |-> s]), clock' = clock + 1
    PROVE  Sorted'
<1>1. /\ ringHead \in Slots /\ ringTail \in Slots /\ clock \in Nat /\ seen \in Nat
      /\ ringBuffer \in [Slots -> ElementType] /\ RingSize \in Nat
      /\ \A i \in Slots : ringBuffer[i].time \in Nat
  BY RingAssumption DEF DevTypeOK, ElementType
<1>2. \A i \in Slots : Place(i) \in Nat /\ Place(i) <= RingSize
  BY <1>1, PlaceType
<1>3. Place(ringHead) = Elements /\ seen' = seen
  BY DEF Place, Elements, Push
<1>4. \A i \in Slots : Place(i) < Elements => i # ringHead
  BY <1>1, <1>2, <1>3
<1>5. /\ ringBuffer'[ringHead].time = clock + 1
      /\ \A i \in Slots : i # ringHead => ringBuffer'[i] = ringBuffer[i]
  BY <1>1 DEF Push
<1>6. CASE After(ringHead) # ringTail
  <2>1. \A i \in Slots : Place(i)' = Place(i)
    BY <1>6 DEF Push, Place
  <2>2. Elements' = Elements + 1
    BY <1>1, <1>6, PushRoom DEF Push, Elements
  <2>3. \A i \in Slots : Place(i)' < Elements' /\ i # ringHead => Place(i) < Elements
    BY <1>1, <1>2, <1>3, <2>1, <2>2, PlaceInjective DEF Place
  <2> QED BY <1>1, <1>2, <1>3, <1>4, <1>5, <2>1, <2>2, <2>3 DEF Sorted
<1>7. CASE After(ringHead) = ringTail
  <2>1. \A i \in Slots : Place(i)' = IF i = ringTail THEN RingSize ELSE Place(i) - 1
    BY <1>1, <1>7, PlaceMoves DEF Push, Place
  <2>2. Elements' = Elements /\ Elements = RingSize /\ ringHead # ringTail
    <3>1. Elements = RingSize /\ ringHead # ringTail
      BY <1>1, <1>7, FullCount DEF Elements
    <3>2. Elements' = Elements
      BY <1>1, <1>7, PushFull DEF Push, Elements
    <3> QED BY <3>1, <3>2
  <2>3. \A i \in Slots : Place(i)' < Elements' => i # ringTail
    BY <1>1, <2>1, <2>2
  <2>4. \A i \in Slots : Place(i)' < Elements' /\ i # ringHead => Place(i) < Elements
    BY <1>1, <1>2, <1>3, <2>1, <2>2, <2>3, PlaceInjective DEF Place
  <2> QED BY <1>1, <1>2, <1>3, <1>4, <1>5, <2>1, <2>2, <2>3, <2>4 DEF Sorted
<1> QED BY <1>6, <1>7

\* Take keeps the order and goes forward.
LEMMA TakeSorted ==
    ASSUME DevTypeOK, Sorted, ~Empty, Take, clock' = clock
    PROVE  Sorted' /\ seen' > seen
<1>1. /\ ringHead \in Slots /\ ringTail \in Slots /\ clock \in Nat /\ seen \in Nat
      /\ RingSize \in Nat
      /\ \A i \in Slots : ringBuffer[i].time \in Nat
  BY RingAssumption DEF DevTypeOK, ElementType
<1>2. \A i \in Slots : Place(i) \in Nat /\ Place(i) <= RingSize
  BY <1>1, PlaceType
<1>3. Place(ringTail) = 0 /\ Elements \in Nat /\ Elements > 0 /\ Elements <= RingSize
  <2>1. Place(ringTail) = 0
    BY <1>1, PlaceType
  <2>2. Elements = Place(ringHead)
    BY DEF Place, Elements
  <2>3. Elements # 0
    BY ElementsType
  <2> QED BY <1>1, <1>2, <2>1, <2>2, <2>3
<1>4. \A i \in Slots : Place(i)' = IF i = ringTail THEN RingSize ELSE Place(i) - 1
  BY <1>1, PlaceMoves DEF Take, Place
<1>5. Elements' = Elements - 1
  BY TakeCount
<1>6. seen' = ringBuffer[ringTail].time /\ ringBuffer' = ringBuffer
  BY DEF Take
<1>7. \A i \in Slots : Place(i)' < Elements' => i # ringTail /\ Place(i) < Elements /\ 0 < Place(i)
  BY <1>1, <1>2, <1>3, <1>4, <1>5, PlaceInjective DEF Place
<1>8. seen' > seen
  BY <1>1, <1>3, <1>6 DEF Sorted
<1> QED BY <1>1, <1>2, <1>3, <1>4, <1>5, <1>6, <1>7, <1>8 DEF Sorted

\* All that a step can do to the ring buffer.
LEMMA RingMoves ==
    ASSUME [Next]_vars
    PROVE  \/ \E value, status : Tell(value, status)
           \/ ~Empty /\ Take /\ clock' = clock
           \/ UNCHANGED <<ringBuffer, ringHead, ringTail, seen, clock>>
<1>a. ASSUME processLi PROVE UNCHANGED ringVars \/ (~Empty /\ Take)
  BY <1>a DEF processLi
<1>b. ASSUME processCallbackInput \/ processCallbackOutput
      PROVE  \/ \E value, status : Tell(value, status)
             \/ UNCHANGED <<ringVars, deviceVars>>
  BY <1>b DEF processCallbackInput, processCallbackOutput
<1>1. CASE scanIoRequest
  BY <1>1, <1>a DEF scanIoRequest, ringVars, deviceVars
<1>2. CASE outputCallbackCallback
  BY <1>2 DEF outputCallbackCallback, ringVars, deviceVars
<1>3. CASE clientProcess
  BY <1>3, <1>a DEF clientProcess, ringVars, deviceVars
<1>4. ASSUME NEW val \in Values, clientPut(val)
      PROVE UNCHANGED <<ringBuffer, ringHead, ringTail, seen, clock>>
  BY <1>4 DEF clientPut, ringVars, deviceVars
<1>5. CASE processEnd
  BY <1>5 DEF processEnd, ringVars, deviceVars
<1>6. CASE processCallback
  BY <1>6 DEF processCallback, ringVars, deviceVars
<1>7. CASE getIoIntInfo \/ iocRun
  BY <1>7 DEF getIoIntInfo, iocRun, ringVars, deviceVars
<1>8. CASE synchronousIO \/ portThread
  BY <1>8, <1>b DEF synchronousIO, portThread, ringVars, deviceVars
<1>9. ASSUME NEW value \in Values, NEW status \in {"ok", "error"},
             interruptCallback(value, status)
      PROVE  Tell(value, status)
  BY <1>9 DEF interruptCallback
<1>10. CASE UNCHANGED vars
  BY <1>10 DEF vars, ringVars, deviceVars
<1> QED BY <1>1, <1>2, <1>3, <1>4, <1>5, <1>6, <1>7, <1>8, <1>9, <1>10 DEF Next

\* Every step keeps the order and takes a later element, if it takes one.
LEMMA SortedStep ==
    ASSUME DevTypeOK, Sorted, [Next]_vars
    PROVE  Sorted' /\ (seen' # seen => seen' > seen)
<1>1. ASSUME NEW value, NEW status, Tell(value, status)
      PROVE  Sorted' /\ seen' = seen
  <2>1. CASE registered /\ interruptAccept
    <3>1. /\ Push([value |-> value, time |-> clock + 1, status |-> status])
          /\ clock' = clock + 1
      BY <1>1, <2>1 DEF Tell
    <3>2. Sorted' BY <3>1, PushSorted
    <3> QED BY <3>1, <3>2 DEF Push
  <2>2. CASE ~(registered /\ interruptAccept)
    <3>1. UNCHANGED <<ringBuffer, ringHead, ringTail, seen>> /\ clock' = clock + 1
      BY <1>1, <2>2 DEF Tell, ringVars
    <3>2. /\ clock \in Nat /\ seen \in Nat
          /\ \A i \in Slots : ringBuffer[i].time \in Nat
      BY DEF DevTypeOK, ElementType
    <3> QED BY <3>1, <3>2 DEF Sorted, Place, Elements
  <2> QED BY <2>1, <2>2
<1>2. CASE ~Empty /\ Take /\ clock' = clock
  BY <1>2, TakeSorted
<1>3. CASE UNCHANGED <<ringBuffer, ringHead, ringTail, seen, clock>>
  BY <1>3 DEF Sorted, Place, Elements
<1> QED BY <1>1, <1>2, <1>3, RingMoves

\* Values are taken in the order in which the driver made the callbacks.
THEOREM TakenInOrder == Spec => InOrder
<1>1. Init => Sorted
  <2> SUFFICES ASSUME Init PROVE Sorted
    OBVIOUS
  <2>1. Elements = 0 /\ seen = 0 /\ clock = 0
    BY RingAssumption DEF Init, Elements, Used
  <2>2. \A i \in Slots : Place(i) \in Nat
    <3>1. ringTail \in Slots
      BY RingAssumption DEF Init, Slots
    <3> QED BY <3>1, PlaceType
  <2> QED BY <2>1, <2>2 DEF Sorted
<1>2. DevTypeOK /\ Sorted /\ [Next]_vars => Sorted' /\ [seen' # seen => seen' > seen]_vars
  BY SortedStep
<1> QED BY <1>1, <1>2, DevTypeCorrect, PTL DEF Spec, InOrder
=============================================================================
