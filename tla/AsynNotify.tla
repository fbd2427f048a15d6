----------------------------- MODULE AsynNotify -----------------------------
(***************************************************************************)
(* The two lists of clients that asynManager hands to threads which walk   *)
(* them without asynManagerLock (asyn/asynDriver/asynManager.c):           *)
(*                                                                         *)
(*   exception: the exceptionUserList of a port or device, walked by       *)
(*      announceExceptionOccurred;                                         *)
(*   interrupt: the callbackList of an interface, walked by a driver       *)
(*      between interruptStart and interruptEnd.                           *)
(*                                                                         *)
(* A client that is added or removed while a flag says that the list is    *)
(* walked puts itself on a second list and waits for an event.  A client   *)
(* is one asynUser of one thread, which is never the walking thread: the   *)
(* documentation forbids to call the functions from the callbacks.         *)
(***************************************************************************)
EXTENDS Integers, Sequences, SequencesExt

CONSTANTS
    Clients,
    Walkers,        \* threads that announce exceptions or run a driver
    Nodes,          \* exceptionUsers or interruptNodes
    Null,
    Kinds,          \* the lists to look at: exception, interrupt
    Overlap         \* two walkers may be active at the same time

ASSUME NotifyAssumption ==
    /\ Null \notin Nodes
    /\ Kinds \subseteq {"exception", "interrupt"}
    /\ Overlap \in BOOLEAN

VARIABLES
    kind,
    callbackActive, \* exceptionActive, or callbackActive
    callbackList,   \* exceptionUserList, or callbackList
    waitList,       \* exceptionNotifyList, or addRemoveList
    listModified,   \* interrupts only
    defunct,        \* interrupts only: the port was shut down
    done,           \* notify, or callbackDone: the event of a node
    free,           \* interruptNodeFree
    node,           \* the node of each client
    cc,             \* where the client is
    at, pnode,      \* where each walker is, and the node it calls
    called          \* history: the nodes called in this walk

listVars == <<callbackActive, callbackList, waitList, listModified>>
nodeVars == <<done, free>>
clientVars == <<node, cc>>
walkVars == <<at, pnode, called>>
vars == <<kind, listVars, defunct, nodeVars, clientVars, walkVars>>

-----------------------------------------------------------------------------
Go(c, place) == cc' = [cc EXCEPT ![c] = place]

\* memory that calloc may return
Heap == {n \in Nodes : n \notin ToSet(free) /\ \A c \in Clients : node[c] # n}

\* the while(...Active) loops: wait once more, or leave the loop
WaitOn(c, n, place) ==
    /\ waitList' = Append(waitList, n)
    /\ listModified' = (kind = "interrupt" \/ listModified)
    /\ Go(c, place)
    /\ UNCHANGED <<callbackActive, callbackList>>

EnlistAtOnce(c, n) ==   \* mutant: does not wait for the end of the walk
    /\ callbackList' = Append(callbackList, n)
    /\ Go(c, "on")
    /\ UNCHANGED <<callbackActive, waitList, listModified>>
Enlist(c, n) ==
    IF callbackActive
    THEN WaitOn(c, n, "addWait")
    ELSE /\ callbackList' = Append(callbackList, n)
         /\ Go(c, "on")
         /\ UNCHANGED <<callbackActive, waitList, listModified>>

\* an exceptionUser is freed at once, an interruptNode by freeInterruptNode
Unlink(c, n) ==
    /\ \E i \in DOMAIN callbackList :
          callbackList[i] = n /\ callbackList' = RemoveAt(callbackList, i)
    /\ Go(c, IF kind = "exception" THEN "off" ELSE "removed")
    /\ node' = IF kind = "exception" THEN [node EXCEPT ![c] = Null] ELSE node
    /\ UNCHANGED <<callbackActive, waitList, listModified>>

DelistAtOnce(c, n) ==   \* mutant: does not wait for the end of the walk
    Unlink(c, n)
Delist(c, n) ==
    IF callbackActive
    THEN WaitOn(c, n, "removeWait") /\ UNCHANGED node
    ELSE Unlink(c, n)

-----------------------------------------------------------------------------
(***************************************************************************)
(* The clients of exceptions.                                              *)
(***************************************************************************)
exceptionCallbackAdd(c) ==
    /\ kind = "exception"
    /\ cc[c] = "off"
    /\ \E n \in Heap :
          /\ node' = [node EXCEPT ![c] = n]
          /\ done' = [done EXCEPT ![n] = FALSE]
          /\ Enlist(c, n)
    /\ UNCHANGED <<kind, defunct, free, walkVars>>

exceptionCallbackRemove(c) ==
    /\ kind = "exception"
    /\ cc[c] = "on"
    /\ Delist(c, node[c])
    /\ UNCHANGED <<kind, defunct, nodeVars, walkVars>>

-----------------------------------------------------------------------------
(***************************************************************************)
(* The clients of interrupts: registerInterruptUser of an interface calls  *)
(* createInterruptNode and addInterruptUser, cancelInterruptUser calls     *)
(* removeInterruptUser and freeInterruptNode.                              *)
(***************************************************************************)
createInterruptNode(c) ==
    /\ kind = "interrupt"
    /\ cc[c] = "off"
    /\ IF free # <<>>
       THEN /\ node' = [node EXCEPT ![c] = Head(free)]
            /\ free' = Tail(free)
            /\ UNCHANGED done
       ELSE \E n \in Heap :
               /\ node' = [node EXCEPT ![c] = n]
               /\ done' = [done EXCEPT ![n] = FALSE]
               /\ UNCHANGED free
    /\ Go(c, "created")
    /\ UNCHANGED <<kind, listVars, defunct, walkVars>>

addInterruptUser(c) ==
    /\ cc[c] = "created"
    /\ ~defunct
    /\ Enlist(c, node[c])
    /\ UNCHANGED <<kind, defunct, nodeVars, node, walkVars>>

removeInterruptUser(c) ==
    /\ kind = "interrupt"
    /\ cc[c] = "on"
    /\ ~defunct
    /\ Delist(c, node[c])
    /\ UNCHANGED <<kind, defunct, nodeVars, walkVars>>

\* After shutdownPort both functions refuse: the node is never given back,
\* and cancelInterruptUser frees what it points to.
Refused(c) ==
    /\ defunct
    /\ cc[c] \in {"created", "on"}
    /\ Go(c, "lost")
    /\ UNCHANGED <<kind, listVars, defunct, nodeVars, node, walkVars>>

freeInterruptNode(c) ==
    /\ kind = "interrupt"
    /\ cc[c] = "removed"
    /\ free' = Append(free, node[c])
    /\ node' = [node EXCEPT ![c] = Null]
    /\ Go(c, "off")
    /\ UNCHANGED <<kind, listVars, defunct, done, walkVars>>

\* shutdownPort, as far as interrupts see it
shutdownPort ==
    /\ kind = "interrupt"
    /\ ~defunct
    /\ defunct' = TRUE
    /\ UNCHANGED <<kind, listVars, nodeVars, clientVars, walkVars>>

-----------------------------------------------------------------------------
\* the event: the thread gets asynManagerLock and tests the flag again
AddAgain(c) ==
    /\ cc[c] = "addWait"
    /\ done[node[c]]
    /\ done' = [done EXCEPT ![node[c]] = FALSE]
    /\ Enlist(c, node[c])
    /\ UNCHANGED <<kind, defunct, free, node, walkVars>>

RemoveAgain(c) ==
    /\ cc[c] = "removeWait"
    /\ done[node[c]]
    /\ done' = [done EXCEPT ![node[c]] = FALSE]
    /\ Delist(c, node[c])
    /\ UNCHANGED <<kind, defunct, free, walkVars>>

-----------------------------------------------------------------------------
(***************************************************************************)
(* The threads that walk a list: idle, first, call, end.                   *)
(***************************************************************************)
MayStart(w) ==
    /\ at[w] = "idle"
    /\ Overlap \/ \A v \in Walkers : at[v] = "idle"

StartWalk(w) ==
    /\ at' = [at EXCEPT ![w] = "first"]
    /\ callbackActive' = TRUE
    /\ UNCHANGED <<pnode, called>>

announceExceptionOccurred(w) ==
    /\ kind = "exception"
    /\ MayStart(w)
    /\ StartWalk(w)
    /\ UNCHANGED <<kind, callbackList, waitList, listModified, defunct,
                   nodeVars, clientVars>>

interruptStart(w) ==
    /\ kind = "interrupt"
    /\ MayStart(w)
    /\ StartWalk(w)
    /\ listModified' = FALSE
    /\ UNCHANGED <<kind, callbackList, waitList, defunct, nodeVars, clientVars>>

\* ellNext of a node: if the node was freed meanwhile, the pointer is whatever
\* its new owner wrote there
Following(n) ==
    IF n \in ToSet(callbackList)
    THEN LET i == CHOOSE k \in 1..Len(callbackList) : callbackList[k] = n
         IN  {IF i = Len(callbackList) THEN Null ELSE callbackList[i + 1]}
    ELSE Nodes \union {Null}

GoTo(w, n) ==
    /\ pnode' = [pnode EXCEPT ![w] = n]
    /\ at' = [at EXCEPT ![w] = IF n = Null THEN "end" ELSE "call"]
    /\ called' = IF n = Null THEN called
                 ELSE [called EXCEPT ![w] = @ \union {n}]

WalkFirst(w) ==
    /\ at[w] = "first"
    /\ GoTo(w, IF callbackList = <<>> THEN Null ELSE Head(callbackList))
    /\ UNCHANGED <<kind, listVars, defunct, nodeVars, clientVars>>

\* the callback returns
WalkNext(w) ==
    /\ at[w] = "call"
    /\ \E n \in Following(pnode[w]) : GoTo(w, n)
    /\ UNCHANGED <<kind, listVars, defunct, nodeVars, clientVars>>

\* everyone on the second list is signalled and taken off it
WakeAll ==
    /\ done' = [n \in Nodes |-> done[n] \/ n \in ToSet(waitList)]
    /\ waitList' = <<>>

EndWalk(w) ==
    /\ at[w] = "end"
    /\ at' = [at EXCEPT ![w] = "idle"]
    /\ callbackActive' = FALSE
    /\ called' = [called EXCEPT ![w] = {}]
    /\ UNCHANGED pnode

announceEnd(w) ==
    /\ kind = "exception"
    /\ EndWalk(w)
    /\ WakeAll
    /\ UNCHANGED <<kind, callbackList, listModified, defunct, free, clientVars>>

interruptEndSilently(w) ==  \* mutant: takes nobody off the second list
    /\ kind = "interrupt"
    /\ EndWalk(w)
    /\ UNCHANGED <<kind, callbackList, waitList, listModified, defunct,
                   nodeVars, clientVars>>
interruptEnd(w) ==
    /\ kind = "interrupt"
    /\ EndWalk(w)
    /\ IF listModified THEN WakeAll ELSE UNCHANGED <<done, waitList>>
    /\ UNCHANGED <<kind, callbackList, listModified, defunct, free, clientVars>>

-----------------------------------------------------------------------------
Init ==
    /\ kind \in Kinds
    /\ callbackActive = FALSE
    /\ callbackList = <<>>
    /\ waitList = <<>>
    /\ listModified = FALSE
    /\ defunct = FALSE
    /\ done = [n \in Nodes |-> FALSE]
    /\ free = <<>>
    /\ node = [c \in Clients |-> Null]
    /\ cc = [c \in Clients |-> "off"]
    /\ at = [w \in Walkers |-> "idle"]
    /\ pnode = [w \in Walkers |-> Null]
    /\ called = [w \in Walkers |-> {}]

ClientStep(c) ==
    \/ exceptionCallbackAdd(c) \/ exceptionCallbackRemove(c)
    \/ createInterruptNode(c) \/ addInterruptUser(c) \/ removeInterruptUser(c)
    \/ Refused(c) \/ freeInterruptNode(c)
    \/ AddAgain(c) \/ RemoveAgain(c)

Walk(w) == WalkFirst(w) \/ WalkNext(w) \/ announceEnd(w) \/ interruptEnd(w)

WalkerStep(w) == announceExceptionOccurred(w) \/ interruptStart(w) \/ Walk(w)

Next ==
    \/ \E c \in Clients : ClientStep(c)
    \/ \E w \in Walkers : WalkerStep(w)
    \/ shutdownPort

Spec == Init /\ [][Next]_vars

(***************************************************************************)
(* Fairness: callbacks return, so that every walk ends, and a client whose *)
(* event was signalled gets asynManagerLock in the end.  By then another   *)
(* walk may have begun, and it waits once more: no fairness forbids that.  *)
(***************************************************************************)
Again(c) == AddAgain(c) \/ RemoveAgain(c)

Fairness ==
    /\ \A w \in Walkers : WF_vars(Walk(w))
    /\ \A c \in Clients : WF_vars(Again(c))

FairSpec == Spec /\ Fairness

-----------------------------------------------------------------------------
(***************************************************************************)
(* Properties.                                                             *)
(***************************************************************************)
\* Every variable has its type, and no two clients share a node.
NotifyTypeOK ==
    /\ kind \in Kinds
    /\ callbackActive \in BOOLEAN
    /\ callbackList \in Seq(Nodes)
    /\ waitList \in Seq(Nodes)
    /\ listModified \in BOOLEAN
    /\ defunct \in BOOLEAN
    /\ done \in [Nodes -> BOOLEAN]
    /\ free \in Seq(Nodes)
    /\ node \in [Clients -> Nodes \union {Null}]
    /\ cc \in [Clients -> {"off", "created", "addWait", "on", "removeWait",
                           "removed", "lost"}]
    /\ at \in [Walkers -> {"idle", "first", "call", "end"}]
    /\ pnode \in [Walkers -> Nodes \union {Null}]
    /\ called \in [Walkers -> SUBSET Nodes]
    /\ \A c \in Clients : node[c] # Null =>
          /\ node[c] \notin ToSet(free)
          /\ \A d \in Clients : node[d] = node[c] => d = c

\* A client whose exceptionCallbackRemove or removeInterruptUser has returned
\* is not called any more (what it points to may be freed); after shutdownPort
\* removeInterruptUser does not wait, and cancelInterruptUser frees at once.
NoCallAfterRemove ==
    \A w \in Walkers : at[w] = "call" =>
       \E c \in Clients :
          /\ node[c] = pnode[w]
          /\ cc[c] \in {"on", "removeWait", "lost"}

\* A client that waits for the end of a walk has been signalled, or is on the
\* list of those that the walker will signal.
NoLostNotify ==
    \A c \in Clients : cc[c] \in {"addWait", "removeWait"} =>
       \/ done[node[c]]
       \/ /\ node[c] \in ToSet(waitList)
          /\ callbackActive
          /\ kind = "interrupt" => listModified

\* A walk calls every client that is on the list when it ends: nobody is
\* added behind the back of the walker, or skipped by it.
EveryoneCalled ==
    \A w \in Walkers : at[w] = "end" => ToSet(callbackList) \subseteq called[w]

\* A client that is added or removed does not wait for ever, unless it is
\* woken again and again and each time finds that another walk has begun: then
\* walks follow each other so closely that the loop never sees the flag clear.
\* A client that sleeps while walks come and go is not excused by that.
Overtaken(c) == []<><<callbackActive /\ Again(c)>>_vars

NotifyReturns ==
    \A c \in Clients :
       \/ Overtaken(c)
       \/ /\ cc[c] = "addWait" ~> cc[c] = "on"
          /\ cc[c] = "removeWait" ~> cc[c] # "removeWait"
=============================================================================
