------------------------- MODULE AsynNotifyProofs -------------------------
(***************************************************************************)
(* The exception and interrupt lists of asynManager are safe for any       *)
(* number of clients, nodes and walking threads that take turns (Overlap   *)
(* is FALSE: when two announcements overlap, the first to end clears       *)
(* exceptionActive while the second still walks).                          *)
(*                                                                         *)
(* NoCallAfterRemove and EveryoneCalled need to know that the list does    *)
(* not change under a walker (the flag is set exactly while somebody       *)
(* walks), that it holds the nodes of the clients that are on, and how far *)
(* the walker has come.                                                    *)
(***************************************************************************)
EXTENDS AsynNotify, SequenceTheorems, TLAPS

-----------------------------------------------------------------------------
(***************************************************************************)
(* The lists of asynManager (ELLLIST) are sequences without repetitions.   *)
(***************************************************************************)
NoRepeats(q) == \A i, j \in DOMAIN q : q[i] = q[j] => i = j

\* What ellDelete leaves: one element less, the others in their order.
LEMMA RemoveAtProperties ==
    ASSUME NEW S, NEW q \in Seq(S), NEW k \in 1..Len(q)
    PROVE  /\ RemoveAt(q, k) \in Seq(S)
           /\ Len(RemoveAt(q, k)) = Len(q) - 1
           /\ \A j \in 1..Len(q) - 1 :
                 RemoveAt(q, k)[j] = IF j < k THEN q[j] ELSE q[j + 1]
<1> DEFINE a == SubSeq(q, 1, k - 1)
           b == SubSeq(q, k + 1, Len(q))
<1>1. a \in Seq(S) /\ b \in Seq(S) /\ Len(a) = k - 1 /\ Len(b) = Len(q) - k
  OBVIOUS
<1>2. \A j \in 1..k - 1 : a[j] = q[j]
  OBVIOUS
<1>3. \A j \in 1..Len(q) - k : b[j] = q[j + k]
  OBVIOUS
<1> HIDE DEF a, b
<1>4. a \o b \in Seq(S) /\ Len(a \o b) = Len(q) - 1
  BY <1>1
<1>5. ASSUME NEW j \in 1..Len(q) - 1 PROVE (a \o b)[j] = IF j < k THEN q[j] ELSE q[j + 1]
  <2>1. (a \o b)[j] = IF j <= Len(a) THEN a[j] ELSE b[j - Len(a)]
    BY <1>1
  <2> QED  BY <1>1, <1>2, <1>3, <2>1
<1> QED  BY <1>4, <1>5 DEF RemoveAt, a, b

\* What ellDelete leaves of a list without repetitions.
LEMMA RemoveAtElements ==
    ASSUME NEW S, NEW q \in Seq(S), NEW k \in 1..Len(q), NoRepeats(q)
    PROVE  /\ RemoveAt(q, k) \in Seq(S) /\ NoRepeats(RemoveAt(q, k))
           /\ ToSet(RemoveAt(q, k)) = ToSet(q) \ {q[k]}
<1> DEFINE r == RemoveAt(q, k)
           from(i) == IF i < k THEN i ELSE i + 1
<1>1. r \in Seq(S) /\ Len(r) = Len(q) - 1 /\ Len(q) \in Nat /\ DOMAIN q = 1..Len(q)
  BY RemoveAtProperties
<1>2. \A j \in 1..Len(q) - 1 : r[j] = q[from(j)]
  BY RemoveAtProperties
<1> HIDE DEF r
<1>3. DOMAIN r = 1..Len(q) - 1 /\ \A j \in DOMAIN r : from(j) \in DOMAIN q \ {k}
  BY <1>1
<1>4. \A i, j \in DOMAIN r : from(i) = from(j) => i = j
  BY <1>3
<1>5. \A i \in DOMAIN q \ {k} : \E j \in DOMAIN r : from(j) = i
  <2> TAKE i \in DOMAIN q \ {k}
  <2> DEFINE j == IF i < k THEN i ELSE i - 1
  <2> QED  BY <1>1, <1>3, j \in DOMAIN r, from(j) = i
<1> HIDE DEF from
<1>6. NoRepeats(r)
  BY <1>2, <1>3, <1>4 DEF NoRepeats
<1>7. \A x : x \in ToSet(r) <=> x \in ToSet(q) /\ x # q[k]
  BY <1>1, <1>2, <1>3, <1>5 DEF NoRepeats, ToSet
<1> QED  BY <1>1, <1>6, <1>7 DEF r

\* What ellAdd makes of a list.
LEMMA AppendElements ==
    ASSUME NEW S, NEW q \in Seq(S), NEW x \in S
    PROVE  /\ Append(q, x) \in Seq(S)
           /\ ToSet(Append(q, x)) = ToSet(q) \union {x}
           /\ NoRepeats(q) /\ x \notin ToSet(q) => NoRepeats(Append(q, x))
<1> DEFINE r == Append(q, x)
<1>1. /\ r \in Seq(S) /\ DOMAIN r = 1..Len(q) + 1 /\ DOMAIN q = 1..Len(q) /\ Len(q) \in Nat
      /\ r[Len(q) + 1] = x /\ \A i \in DOMAIN q : r[i] = q[i]
  OBVIOUS
<1> HIDE DEF r
<1>2. ToSet(r) = ToSet(q) \union {x}
  BY <1>1 DEF ToSet
<1> QED  BY <1>1, <1>2 DEF ToSet, NoRepeats, r

\* What taking the first of a list leaves.
LEMMA TailElements ==
    ASSUME NEW S, NEW q \in Seq(S), q # <<>>, NoRepeats(q)
    PROVE  /\ Head(q) \in S
           /\ Tail(q) \in Seq(S) /\ NoRepeats(Tail(q))
           /\ Head(q) \in ToSet(q) /\ ToSet(Tail(q)) = ToSet(q) \ {Head(q)}
<1> DEFINE r == Tail(q)
<1>1. /\ r \in Seq(S) /\ DOMAIN r = 1..Len(q) - 1 /\ DOMAIN q = 1..Len(q) /\ Len(q) \in Nat \ {0}
      /\ Head(q) = q[1] /\ Head(q) \in S /\ \A i \in DOMAIN r : r[i] = q[i + 1]
  OBVIOUS
<1> HIDE DEF r
<1>2. NoRepeats(r)
  BY <1>1 DEF NoRepeats
<1>3. \A i \in DOMAIN q : i # 1 => i - 1 \in DOMAIN r /\ r[i - 1] = q[i]
  BY <1>1
<1>4. \A x : x \in ToSet(r) <=> x \in ToSet(q) /\ x # q[1]
  BY <1>1, <1>3 DEF NoRepeats, ToSet
<1>5. q[1] \in ToSet(q)
  BY <1>1 DEF ToSet
<1> QED  BY <1>1, <1>2, <1>4, <1>5 DEF r

-----------------------------------------------------------------------------
\* No node is twice on a list, and a node has one owner.
NodeInv ==
    /\ NoRepeats(callbackList) /\ NoRepeats(free)
    /\ \A c \in Clients : cc[c] = "off" <=> node[c] = Null

\* The list holds exactly the nodes of those that are on it, and perhaps of
\* those that were refused after shutdownPort.
ListInv ==
    /\ \A n \in ToSet(callbackList) :
          \E c \in Clients : node[c] = n /\ cc[c] \in {"on", "removeWait", "lost"}
    /\ \A c \in Clients :
          cc[c] \in {"on", "removeWait"} => node[c] \in ToSet(callbackList)

\* One walker at a time; it has called the nodes up to where it is.
WalkInv ==
    /\ callbackActive <=> \E w \in Walkers : at[w] # "idle"
    /\ \A v, w \in Walkers : at[v] # "idle" /\ at[w] # "idle" => v = w
    /\ \A w \in Walkers :
          /\ at[w] \in {"idle", "first"} => called[w] = {}
          /\ at[w] = "call" => \E k \in 1..Len(callbackList) :
                /\ pnode[w] = callbackList[k]
                /\ \A i \in 1..k : callbackList[i] \in called[w]
          /\ at[w] = "end" => ToSet(callbackList) \subseteq called[w]

NotifyIInv == NotifyTypeOK /\ NodeInv /\ ListInv /\ WalkInv /\ NoLostNotify

-----------------------------------------------------------------------------
\* A new list: empty, and nobody walks it.
LEMMA NotifyInit == Init => NotifyIInv
<1> SUFFICES ASSUME Init PROVE NotifyIInv
  OBVIOUS
<1> USE NotifyAssumption DEF Init
<1>1. /\ <<>> \in Seq(Nodes)
      /\ ToSet(callbackList) = {} /\ ToSet(free) = {}
      /\ NoRepeats(callbackList) /\ NoRepeats(free)
  BY DEF ToSet, NoRepeats
<1>2. NotifyTypeOK
  BY <1>1 DEF NotifyTypeOK
<1>3. NodeInv /\ ListInv
  BY <1>1 DEF NodeInv, ListInv
<1>4. WalkInv /\ NoLostNotify
  BY <1>1 DEF WalkInv, NoLostNotify
<1> QED  BY <1>2, <1>3, <1>4 DEF NotifyIInv

-----------------------------------------------------------------------------
\* A step that leaves the list and the walkers alone.
LEMMA WalkFrame ==
    ASSUME NotifyIInv, UNCHANGED <<callbackActive, callbackList, walkVars>>
    PROVE  WalkInv'
BY DEF NotifyIInv, WalkInv, walkVars

\* The list may change while nobody walks it.
LEMMA QuietFrame ==
    ASSUME NotifyIInv, ~callbackActive, UNCHANGED <<callbackActive, walkVars>>
    PROVE  WalkInv'
<1>1. \A w \in Walkers : at[w] = "idle"
  BY DEF NotifyIInv, WalkInv
<1> QED  BY <1>1 DEF NotifyIInv, WalkInv, walkVars

\* Adding a node, at once or after a wait, keeps the invariant.
LEMMA EnlistKeeps ==
    ASSUME NotifyIInv, NEW c \in Clients, NEW n \in Nodes,
           Enlist(c, n), UNCHANGED <<kind, defunct, walkVars>>,
           cc[c] \in {"off", "created", "addWait"}, node[c] \in {Null, n},
           \A d \in Clients : node[d] = n => d = c,
           n \notin ToSet(free), free' = free,
           node' = [node EXCEPT ![c] = n],
           done' \in {done, [done EXCEPT ![n] = FALSE]}
    PROVE  NotifyIInv'
<1> USE NotifyAssumption DEF NotifyIInv
<1>1. n \notin ToSet(callbackList)
  BY DEF ListInv, NotifyTypeOK
<1>2. done' \in [Nodes -> BOOLEAN] /\ \A m \in Nodes : m # n => done'[m] = done[m]
  BY DEF NotifyTypeOK
<1>3. node' \in [Clients -> Nodes \union {Null}]
  BY DEF NotifyTypeOK
<1>4. /\ \A m \in ToSet(callbackList) : \E d \in Clients :
            /\ d # c /\ node[d] = m /\ node'[d] = m
            /\ cc[d] \in {"on", "removeWait", "lost"}
      /\ \A d \in Clients : d # c => node'[d] = node[d]
      /\ node'[c] = n
  <2>1. \A d \in Clients : d # c => node'[d] = node[d]
    BY DEF NotifyTypeOK
  <2>2. node'[c] = n
    BY DEF NotifyTypeOK
  <2>3. \A m \in ToSet(callbackList) : \E d \in Clients :
           d # c /\ node[d] = m /\ cc[d] \in {"on", "removeWait", "lost"}
    BY DEF ListInv
  <2> QED  BY <2>1, <2>2, <2>3
<1>5. CASE callbackActive
  <2>1. /\ waitList' = Append(waitList, n)
        /\ listModified' = (kind = "interrupt" \/ listModified)
        /\ cc' = [cc EXCEPT ![c] = "addWait"]
        /\ UNCHANGED <<callbackActive, callbackList>>
    BY <1>5 DEF Enlist, WaitOn, Go
  <2>2. waitList' \in Seq(Nodes) /\ ToSet(waitList') = ToSet(waitList) \union {n}
    BY <2>1, AppendElements DEF NotifyTypeOK
  <2>3. NotifyTypeOK'
    BY <1>2, <1>3, <2>1, <2>2 DEF NotifyTypeOK, walkVars
  <2>4. NodeInv' /\ ListInv'
    <3>1. NodeInv'
      BY <1>3, <2>1 DEF NodeInv, NotifyTypeOK
    <3>2. ListInv'
      BY <1>4, <2>1 DEF ListInv, NotifyTypeOK
    <3> QED  BY <3>1, <3>2
  <2>5. WalkInv'
    BY <2>1, WalkFrame
  <2>6. NoLostNotify'
    BY <1>2, <1>3, <1>5, <2>1, <2>2 DEF NoLostNotify, NotifyTypeOK, NodeInv
  <2> QED  BY <2>3, <2>4, <2>5, <2>6
<1>6. CASE ~callbackActive
  <2>1. /\ callbackList' = Append(callbackList, n)
        /\ cc' = [cc EXCEPT ![c] = "on"]
        /\ UNCHANGED <<callbackActive, waitList, listModified>>
    BY <1>6 DEF Enlist, Go
  <2>2. /\ callbackList' \in Seq(Nodes)
        /\ ToSet(callbackList') = ToSet(callbackList) \union {n}
        /\ NoRepeats(callbackList')
    BY <1>1, <2>1, AppendElements DEF NotifyTypeOK, NodeInv
  <2>3. NotifyTypeOK'
    BY <1>2, <1>3, <2>1, <2>2 DEF NotifyTypeOK, walkVars
  <2>4. NodeInv'
    BY <1>3, <2>1, <2>2 DEF NodeInv, NotifyTypeOK
  <2>5. ListInv'
    BY <1>4, <2>1, <2>2 DEF ListInv, NotifyTypeOK
  <2>6. WalkInv'
    BY <1>6, <2>1, QuietFrame
  <2>7. NoLostNotify'
    BY <1>2, <1>3, <2>1 DEF NoLostNotify, NotifyTypeOK, NodeInv
  <2> QED  BY <2>3, <2>4, <2>5, <2>6, <2>7
<1> QED  BY <1>5, <1>6

\* Removing a node, at once or after a wait, keeps the invariant.
LEMMA DelistKeeps ==
    ASSUME NotifyIInv, NEW c \in Clients, cc[c] \in {"on", "removeWait"},
           Delist(c, node[c]), UNCHANGED <<kind, defunct, free, walkVars>>,
           done' \in {done, [done EXCEPT ![node[c]] = FALSE]}
    PROVE  NotifyIInv'
<1> USE NotifyAssumption DEF NotifyIInv
<1> DEFINE n == node[c]
<1>1. n \in Nodes /\ \A d \in Clients : node[d] = n => d = c
  BY DEF NotifyTypeOK, NodeInv
<1>2. done' \in [Nodes -> BOOLEAN] /\ \A m \in Nodes : m # n => done'[m] = done[m]
  BY DEF NotifyTypeOK
<1>3. CASE callbackActive
  <2>1. /\ waitList' = Append(waitList, n)
        /\ listModified' = (kind = "interrupt" \/ listModified)
        /\ cc' = [cc EXCEPT ![c] = "removeWait"]
        /\ UNCHANGED <<callbackActive, callbackList, node>>
    BY <1>3 DEF Delist, WaitOn, Go
  <2>2. waitList' \in Seq(Nodes) /\ ToSet(waitList') = ToSet(waitList) \union {n}
    BY <1>1, <2>1, AppendElements DEF NotifyTypeOK
  <2>3. NotifyTypeOK'
    BY <1>2, <2>1, <2>2 DEF NotifyTypeOK, walkVars
  <2>4. NodeInv' /\ ListInv'
    BY <1>1, <2>1 DEF NodeInv, ListInv, NotifyTypeOK
  <2>5. WalkInv'
    BY <2>1, WalkFrame
  <2>6. NoLostNotify'
    <3> SUFFICES ASSUME NEW d \in Clients, cc'[d] \in {"addWait", "removeWait"}
                 PROVE  \/ done'[node'[d]]
                        \/ /\ node'[d] \in ToSet(waitList') /\ callbackActive'
                           /\ kind' = "interrupt" => listModified'
      BY DEF NoLostNotify
    <3>1. CASE d = c
      BY <1>3, <2>1, <2>2, <3>1
    <3>2. CASE d # c
      <4>1. cc'[d] = cc[d] /\ node[d] # n /\ node[d] \in Nodes
        BY <1>1, <2>1, <3>2 DEF NotifyTypeOK, NodeInv
      <4> QED  BY <1>2, <2>1, <2>2, <4>1 DEF NoLostNotify
    <3> QED  BY <3>1, <3>2
  <2> QED  BY <2>3, <2>4, <2>5, <2>6
<1>4. CASE ~callbackActive
  <2>1. PICK i \in DOMAIN callbackList :
           callbackList[i] = n /\ callbackList' = RemoveAt(callbackList, i)
    BY <1>4 DEF Delist, Unlink
  <2>2. /\ cc' = [cc EXCEPT ![c] = IF kind = "exception" THEN "off" ELSE "removed"]
        /\ node' = IF kind = "exception" THEN [node EXCEPT ![c] = Null] ELSE node
        /\ UNCHANGED <<callbackActive, waitList, listModified>>
    BY <1>4 DEF Delist, Unlink, Go
  <2>3. i \in 1..Len(callbackList)
    BY <2>1, LenProperties DEF NotifyTypeOK
  <2>4. /\ callbackList' \in Seq(Nodes)
        /\ ToSet(callbackList') = ToSet(callbackList) \ {n}
        /\ NoRepeats(callbackList')
    BY <2>1, <2>3, RemoveAtProperties, RemoveAtElements DEF NotifyTypeOK, NodeInv
  <2>5. NotifyTypeOK'
    BY <1>1, <1>2, <2>2, <2>4 DEF NotifyTypeOK, walkVars
  <2>6. NodeInv'
    BY <1>1, <2>2, <2>4 DEF NodeInv, NotifyTypeOK
  <2>7. ListInv'
    BY <1>1, <2>2, <2>4 DEF ListInv, NotifyTypeOK, NodeInv
  <2>8. WalkInv'
    BY <1>4, <2>2, QuietFrame
  <2>9. NoLostNotify'
    BY <1>1, <1>2, <2>2 DEF NoLostNotify, NotifyTypeOK, NodeInv
  <2> QED  BY <2>5, <2>6, <2>7, <2>8, <2>9
<1> QED  BY <1>3, <1>4

-----------------------------------------------------------------------------
\* Every step of a client keeps the invariant.
LEMMA ClientKeeps ==
    ASSUME NotifyIInv, NEW c \in Clients, ClientStep(c)
    PROVE  NotifyIInv'
<1> USE NotifyAssumption DEF NotifyIInv
<1>1. CASE exceptionCallbackAdd(c)
  <2>1. PICK n \in Heap : /\ node' = [node EXCEPT ![c] = n]
                          /\ done' = [done EXCEPT ![n] = FALSE]
                          /\ Enlist(c, n)
    BY <1>1 DEF exceptionCallbackAdd
  <2>2. n \in Nodes /\ n \notin ToSet(free) /\ \A d \in Clients : node[d] # n
    BY DEF Heap
  <2>3. cc[c] = "off" /\ node[c] = Null /\ UNCHANGED <<kind, defunct, free, walkVars>>
    BY <1>1 DEF exceptionCallbackAdd, NodeInv
  <2> QED  BY <2>1, <2>2, <2>3, EnlistKeeps
<1>2. CASE exceptionCallbackRemove(c) \/ removeInterruptUser(c)
  <2>1. /\ cc[c] = "on" /\ Delist(c, node[c])
        /\ UNCHANGED <<kind, defunct, done, free, walkVars>>
    BY <1>2 DEF exceptionCallbackRemove, removeInterruptUser, nodeVars
  <2> QED  BY <2>1, DelistKeeps
<1>3. CASE addInterruptUser(c) \/ AddAgain(c)
  <2>1. /\ cc[c] \in {"created", "addWait"} /\ Enlist(c, node[c])
        /\ UNCHANGED <<kind, defunct, free, node, walkVars>>
        /\ done' \in {done, [done EXCEPT ![node[c]] = FALSE]}
    BY <1>3 DEF addInterruptUser, AddAgain, nodeVars
  <2>2. /\ node[c] \in Nodes /\ node[c] \notin ToSet(free)
        /\ \A d \in Clients : node[d] = node[c] => d = c
        /\ node' = [node EXCEPT ![c] = node[c]]
    BY <2>1 DEF NotifyTypeOK, NodeInv
  <2> QED  BY <2>1, <2>2, EnlistKeeps
<1>4. CASE RemoveAgain(c)
  <2>1. /\ cc[c] = "removeWait" /\ Delist(c, node[c])
        /\ UNCHANGED <<kind, defunct, free, walkVars>>
        /\ done' = [done EXCEPT ![node[c]] = FALSE]
    BY <1>4 DEF RemoveAgain
  <2> QED  BY <2>1, DelistKeeps
<1>5. CASE createInterruptNode(c)
  <2>1. PICK n \in Nodes :
           /\ node' = [node EXCEPT ![c] = n]
           /\ \A d \in Clients : node[d] # n
           /\ free' \in Seq(Nodes) /\ NoRepeats(free')
           /\ ToSet(free') \subseteq ToSet(free) /\ n \notin ToSet(free')
           /\ done' \in {done, [done EXCEPT ![n] = FALSE]}
    <3>1. CASE free # <<>>
      <4>1. /\ Head(free) \in Nodes /\ Head(free) \in ToSet(free)
            /\ Tail(free) \in Seq(Nodes) /\ NoRepeats(Tail(free))
            /\ ToSet(Tail(free)) = ToSet(free) \ {Head(free)}
        BY <3>1, TailElements DEF NotifyTypeOK, NodeInv
      <4>2. \A d \in Clients : node[d] # Head(free)
        BY <4>1 DEF NotifyTypeOK
      <4>3. /\ node' = [node EXCEPT ![c] = Head(free)]
            /\ free' = Tail(free) /\ done' = done
        BY <1>5, <3>1 DEF createInterruptNode
      <4> QED  BY <4>1, <4>2, <4>3
    <3>2. CASE free = <<>>
      <4>1. PICK n \in Heap : /\ node' = [node EXCEPT ![c] = n]
                              /\ done' = [done EXCEPT ![n] = FALSE]
                              /\ free' = free
        BY <1>5, <3>2 DEF createInterruptNode
      <4> QED  BY <4>1 DEF Heap, NotifyTypeOK, NodeInv
    <3> QED  BY <3>1, <3>2
  <2>2. /\ cc[c] = "off" /\ node[c] = Null
        /\ cc' = [cc EXCEPT ![c] = "created"]
        /\ UNCHANGED <<kind, defunct, callbackActive, callbackList, waitList,
                       listModified, walkVars>>
    BY <1>5 DEF createInterruptNode, Go, listVars, NodeInv
  <2>3. done' \in [Nodes -> BOOLEAN] /\ \A m \in Nodes : m # n => done'[m] = done[m]
    BY <2>1 DEF NotifyTypeOK
  <2>4. NotifyTypeOK'
    BY <2>1, <2>2, <2>3 DEF NotifyTypeOK, walkVars
  <2>5. NodeInv' /\ ListInv'
    <3>1. NodeInv'
      BY <2>1, <2>2 DEF NodeInv, NotifyTypeOK
    <3>2. \A d \in Clients : d # c => node'[d] = node[d] /\ cc'[d] = cc[d]
      BY <2>1, <2>2 DEF NotifyTypeOK
    <3>3. cc'[c] = "created"
      BY <2>2 DEF NotifyTypeOK
    <3>4. ListInv'
      BY <2>2, <3>2, <3>3 DEF ListInv
    <3> QED  BY <3>1, <3>4
  <2>6. WalkInv'
    BY <2>2, WalkFrame
  <2>7. NoLostNotify'
    BY <2>1, <2>2, <2>3 DEF NoLostNotify, NotifyTypeOK, NodeInv
  <2> QED  BY <2>4, <2>5, <2>6, <2>7
<1>6. CASE Refused(c)
  <2>1. /\ cc[c] \in {"created", "on"} /\ cc' = [cc EXCEPT ![c] = "lost"]
        /\ UNCHANGED <<kind, defunct, callbackActive, callbackList, waitList,
                       listModified, done, free, node, walkVars>>
    BY <1>6 DEF Refused, Go, listVars, nodeVars
  <2>2. NotifyTypeOK' /\ NodeInv'
    BY <2>1 DEF NotifyTypeOK, NodeInv, walkVars
  <2>3. ListInv' /\ NoLostNotify'
    BY <2>1 DEF ListInv, NoLostNotify, NotifyTypeOK
  <2>4. WalkInv'
    BY <2>1, WalkFrame
  <2> QED  BY <2>2, <2>3, <2>4
<1>7. CASE freeInterruptNode(c)
  <2>1. /\ cc[c] = "removed" /\ cc' = [cc EXCEPT ![c] = "off"]
        /\ free' = Append(free, node[c]) /\ node' = [node EXCEPT ![c] = Null]
        /\ UNCHANGED <<kind, defunct, callbackActive, callbackList, waitList,
                       listModified, done, walkVars>>
    BY <1>7 DEF freeInterruptNode, Go, listVars
  <2>2. /\ node[c] \in Nodes /\ node[c] \notin ToSet(free)
        /\ \A d \in Clients : node[d] = node[c] => d = c
    BY <2>1 DEF NotifyTypeOK, NodeInv
  <2>3. /\ free' \in Seq(Nodes) /\ NoRepeats(free')
        /\ ToSet(free') = ToSet(free) \union {node[c]}
    BY <2>1, <2>2, AppendElements DEF NotifyTypeOK, NodeInv
  <2>4. NotifyTypeOK' /\ NodeInv'
    BY <2>1, <2>2, <2>3 DEF NotifyTypeOK, NodeInv, walkVars
  <2>5. ListInv' /\ NoLostNotify'
    <3>1. ListInv'
      <4>1. /\ \A d \in Clients : d # c => node'[d] = node[d] /\ cc'[d] = cc[d]
            /\ cc'[c] = "off" /\ cc[c] = "removed"
        BY <2>1 DEF NotifyTypeOK
      <4> QED  BY <2>1, <4>1 DEF ListInv
    <3>2. NoLostNotify'
      BY <2>1, <2>2 DEF NoLostNotify, NotifyTypeOK, NodeInv
    <3> QED  BY <3>1, <3>2
  <2>6. WalkInv'
    BY <2>1, WalkFrame
  <2> QED  BY <2>4, <2>5, <2>6
<1> QED  BY <1>1, <1>2, <1>3, <1>4, <1>5, <1>6, <1>7 DEF ClientStep

-----------------------------------------------------------------------------
\* Every step of a walking thread keeps the invariant, if they take turns.
LEMMA WalkerKeeps ==
    ASSUME ~Overlap, NotifyIInv, NEW w \in Walkers, WalkerStep(w)
    PROVE  NotifyIInv'
<1> USE NotifyAssumption DEF NotifyIInv
<1>1. CASE announceExceptionOccurred(w) \/ interruptStart(w)
  <2>1. /\ \A v \in Walkers : at[v] = "idle"
        /\ at' = [at EXCEPT ![w] = "first"] /\ callbackActive' = TRUE
        /\ listModified' \in BOOLEAN
        /\ UNCHANGED <<kind, callbackList, waitList, defunct, done, free, node,
                       cc, pnode, called>>
    BY <1>1 DEF announceExceptionOccurred, interruptStart, MayStart, StartWalk,
                nodeVars, clientVars, NotifyTypeOK
  <2>2. ~callbackActive
    BY <2>1 DEF WalkInv
  <2>3. NotifyTypeOK'
    BY <2>1 DEF NotifyTypeOK
  <2>4. NodeInv' /\ ListInv'
    BY <2>1 DEF NodeInv, ListInv
  <2>5. WalkInv'
    BY <2>1 DEF WalkInv, NotifyTypeOK
  <2>6. NoLostNotify'
    BY <2>1, <2>2 DEF NoLostNotify
  <2> QED  BY <2>3, <2>4, <2>5, <2>6
<1>2. ASSUME NEW n \in Nodes \union {Null}, GoTo(w, n), at[w] \in {"first", "call"},
             UNCHANGED <<kind, listVars, defunct, nodeVars, clientVars>>,
             n # Null => \E k \in 1..Len(callbackList) :
                           /\ n = callbackList[k]
                           /\ \A i \in 1..k : callbackList[i] \in called[w] \union {n},
             n = Null => ToSet(callbackList) \subseteq called[w]
      PROVE  NotifyIInv'
  <2>1. /\ pnode' = [pnode EXCEPT ![w] = n]
        /\ at' = [at EXCEPT ![w] = IF n = Null THEN "end" ELSE "call"]
        /\ called' = IF n = Null THEN called
                     ELSE [called EXCEPT ![w] = @ \union {n}]
    BY <1>2 DEF GoTo
  <2>2. NotifyTypeOK'
    BY <1>2, <2>1 DEF NotifyTypeOK, listVars, nodeVars, clientVars
  <2>3. NodeInv' /\ ListInv' /\ NoLostNotify'
    BY <1>2 DEF NodeInv, ListInv, NoLostNotify, listVars, nodeVars, clientVars
  <2>4. WalkInv'
    <3>1. CASE n = Null
      BY <1>2, <2>1, <3>1 DEF WalkInv, NotifyTypeOK, listVars
    <3>2. CASE n # Null
      BY <1>2, <2>1, <3>2 DEF WalkInv, NotifyTypeOK, listVars
    <3> QED  BY <3>1, <3>2
  <2> QED  BY <2>2, <2>3, <2>4
<1>3. Len(callbackList) \in Nat /\ DOMAIN callbackList = 1..Len(callbackList)
  BY LenProperties DEF NotifyTypeOK
<1>4. CASE WalkFirst(w)
  <2> DEFINE n == IF callbackList = <<>> THEN Null ELSE Head(callbackList)
  <2>1. GoTo(w, n) /\ at[w] = "first"
        /\ UNCHANGED <<kind, listVars, defunct, nodeVars, clientVars>>
    BY <1>4 DEF WalkFirst
  <2>2. CASE callbackList = <<>>
    BY <1>2, <2>1, <2>2 DEF ToSet
  <2>3. CASE callbackList # <<>>
    <3>1. 1 \in 1..Len(callbackList) /\ n = callbackList[1] /\ n \in Nodes
      BY <1>3, <2>3, EmptySeq DEF NotifyTypeOK
    <3>2. n # Null /\ \A i \in 1..1 : callbackList[i] \in called[w] \union {n}
      BY <3>1
    <3> HIDE DEF n
    <3> QED  BY <1>2, <2>1, <3>1, <3>2
  <2> QED  BY <2>2, <2>3
<1>5. CASE WalkNext(w)
  <2>1. at[w] = "call" /\ UNCHANGED <<kind, listVars, defunct, nodeVars, clientVars>>
    BY <1>5 DEF WalkNext
  <2>2. PICK n \in Following(pnode[w]) : GoTo(w, n)
    BY <1>5 DEF WalkNext
  <2>3. PICK k \in 1..Len(callbackList) :
           /\ pnode[w] = callbackList[k]
           /\ \A i \in 1..k : callbackList[i] \in called[w]
    BY <2>1 DEF WalkInv
  <2>4. n = IF k = Len(callbackList) THEN Null ELSE callbackList[k + 1]
    <3>1. pnode[w] \in ToSet(callbackList)
      BY <1>3, <2>3 DEF ToSet
    <3>2. (CHOOSE j \in 1..Len(callbackList) : callbackList[j] = pnode[w]) = k
      BY <1>3, <2>3 DEF NodeInv, NoRepeats
    <3> QED  BY <2>2, <3>1, <3>2 DEF Following
  <2>5. CASE k = Len(callbackList)
    <3>1. ToSet(callbackList) \subseteq called[w]
      BY <1>3, <2>3, <2>5 DEF ToSet
    <3> QED  BY <1>2, <2>1, <2>2, <2>4, <2>5, <3>1
  <2>6. CASE k # Len(callbackList)
    <3>1. /\ k + 1 \in 1..Len(callbackList) /\ n = callbackList[k + 1]
          /\ n \in Nodes
      BY <1>3, <2>3, <2>4, <2>6, ElementOfSeq DEF NotifyTypeOK
    <3>2. n # Null /\ \A i \in 1..k + 1 : callbackList[i] \in called[w] \union {n}
      BY <1>3, <2>3, <3>1
    <3> QED  BY <1>2, <2>1, <2>2, <3>1, <3>2
  <2> QED  BY <2>5, <2>6
<1>6. CASE announceEnd(w) \/ interruptEnd(w)
  <2>1. /\ at[w] = "end" /\ at' = [at EXCEPT ![w] = "idle"]
        /\ callbackActive' = FALSE /\ called' = [called EXCEPT ![w] = {}]
        /\ UNCHANGED <<kind, callbackList, listModified, defunct, free, node,
                       cc, pnode>>
    BY <1>6 DEF announceEnd, interruptEnd, EndWalk, clientVars
  <2>2. \/ /\ done' = [n \in Nodes |-> done[n] \/ n \in ToSet(waitList)]
           /\ waitList' = <<>>
        \/ kind = "interrupt" /\ ~listModified /\ UNCHANGED <<done, waitList>>
    BY <1>6 DEF announceEnd, interruptEnd, WakeAll
  <2>3. NotifyTypeOK'
    <3>1. done' \in [Nodes -> BOOLEAN] /\ waitList' \in Seq(Nodes)
      <4>1. done' \in [Nodes -> BOOLEAN]
        <5>1. CASE done' = [n \in Nodes |-> done[n] \/ n \in ToSet(waitList)]
          <6>1. \A n \in Nodes : (done[n] \/ n \in ToSet(waitList)) \in BOOLEAN
            OBVIOUS
          <6> QED  BY <5>1, <6>1
        <5>2. CASE done' = done
          BY <5>2 DEF NotifyTypeOK
        <5> QED  BY <2>2, <5>1, <5>2
      <4>2. waitList' \in Seq(Nodes)
        <5>1. waitList' = <<>> \/ waitList' = waitList
          BY <2>2
        <5>2. <<>> \in Seq(Nodes)
          OBVIOUS
        <5>3. waitList \in Seq(Nodes)
          BY DEF NotifyTypeOK
        <5> QED  BY <5>1, <5>2, <5>3
      <4> QED  BY <4>1, <4>2
    <3> QED  BY <2>1, <3>1 DEF NotifyTypeOK
  <2>4. NodeInv' /\ ListInv'
    BY <2>1 DEF NodeInv, ListInv
  <2>5. WalkInv'
    BY <2>1 DEF WalkInv, NotifyTypeOK
  <2>6. NoLostNotify'
    BY <2>1, <2>2 DEF NoLostNotify, NotifyTypeOK, NodeInv
  <2> QED  BY <2>3, <2>4, <2>5, <2>6
<1> QED  BY <1>1, <1>4, <1>5, <1>6 DEF WalkerStep, Walk

-----------------------------------------------------------------------------
\* The invariant holds in every reachable state if walkers take turns.
THEOREM NotifyInvariance == ~Overlap => (Spec => []NotifyIInv)
<1> SUFFICES ASSUME ~Overlap PROVE Spec => []NotifyIInv
  OBVIOUS
<1>1. NotifyIInv /\ [Next]_vars => NotifyIInv'
  <2> SUFFICES ASSUME NotifyIInv, [Next]_vars PROVE NotifyIInv'
    OBVIOUS
  <2>1. CASE \E c \in Clients : ClientStep(c)
    BY <2>1, ClientKeeps
  <2>2. CASE \E w \in Walkers : WalkerStep(w)
    BY <2>2, WalkerKeeps
  <2>3. CASE shutdownPort \/ UNCHANGED vars
    <3>1. /\ UNCHANGED <<kind, listVars, nodeVars, clientVars, walkVars>>
          /\ defunct' \in {defunct, TRUE}
      BY <2>3 DEF shutdownPort, vars
    <3>2. WalkInv'
      BY <3>1, WalkFrame DEF listVars
    <3> QED  BY <3>1, <3>2 DEF NotifyIInv, NotifyTypeOK, NodeInv, ListInv,
                 NoLostNotify, listVars, nodeVars, clientVars, walkVars
  <2> QED  BY <2>1, <2>2, <2>3 DEF Next
<1> QED  BY NotifyInit, <1>1, PTL DEF Spec

\* No two clients share a node, none of which is on the free list.
THEOREM NotifyTypeCorrect == ~Overlap => (Spec => []NotifyTypeOK)
<1> SUFFICES ASSUME ~Overlap PROVE Spec => []NotifyTypeOK
  OBVIOUS
<1>1. Spec => []NotifyIInv
  BY NotifyInvariance
<1>2. NotifyIInv => NotifyTypeOK
  BY DEF NotifyIInv
<1> QED  BY <1>1, <1>2, PTL

\* A client is not called after its removal has returned.
THEOREM RemovedNotCalled == ~Overlap => (Spec => []NoCallAfterRemove)
<1> SUFFICES ASSUME ~Overlap PROVE Spec => []NoCallAfterRemove
  OBVIOUS
<1>1. Spec => []NotifyIInv
  BY NotifyInvariance
<1>2. NotifyIInv => NoCallAfterRemove
  <2> SUFFICES ASSUME NotifyIInv, NEW w \in Walkers, at[w] = "call"
               PROVE  \E c \in Clients : /\ node[c] = pnode[w]
                                         /\ cc[c] \in {"on", "removeWait", "lost"}
    BY DEF NoCallAfterRemove
  <2>1. DOMAIN callbackList = 1..Len(callbackList)
    BY LenProperties DEF NotifyIInv, NotifyTypeOK
  <2>2. pnode[w] \in ToSet(callbackList)
    BY <2>1 DEF NotifyIInv, WalkInv, ToSet
  <2> QED  BY <2>2 DEF NotifyIInv, ListInv
<1> QED  BY <1>1, <1>2, PTL

\* A client that waits will be signalled, and a walk calls everyone.
THEOREM NobodyForgotten ==
    ~Overlap => (Spec => [](NoLostNotify /\ EveryoneCalled))
<1> SUFFICES ASSUME ~Overlap PROVE Spec => [](NoLostNotify /\ EveryoneCalled)
  OBVIOUS
<1>1. Spec => []NotifyIInv
  BY NotifyInvariance
<1>2. NotifyIInv => NoLostNotify /\ EveryoneCalled
  BY DEF NotifyIInv, WalkInv, EveryoneCalled
<1> QED  BY <1>1, <1>2, PTL
=============================================================================
