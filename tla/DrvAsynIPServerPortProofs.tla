---------------------- MODULE DrvAsynIPServerPortProofs ----------------------
(***************************************************************************)
(* What DrvAsynIPServerPort does for any number of clients, client ports,  *)
(* interrupt users and datagrams: who is turned away and what is read.     *)
(***************************************************************************)
EXTENDS DrvAsynIPServerPort, SequenceTheorems, WellFoundedInduction, TLAPS

-----------------------------------------------------------------------------
(***************************************************************************)
(* FlattenSeq is a recursive function: that it exists, that it is unique   *)
(* and what it does to one more sequence is shown by induction, with a set *)
(* of numbers in place of a predicate.                                     *)
(***************************************************************************)
\* Induction over the natural numbers: a set without a least element that is
\* not in T leaves no number out.
LEMMA SetInduction ==
    ASSUME NEW T, 0 \in T, \A n \in Nat : n \in T => n + 1 \in T
    PROVE  Nat \subseteq T
<1> DEFINE R == {pair \in Nat \X Nat : pair[1] < pair[2]}
           Left == {n \in Nat : n \notin T}
<1>1. IsWellFoundedOn(R, Nat)
  BY NatLessThanWellFounded DEF OpToRel
<1>2. \A m, n \in Nat : <<m, n>> \in R <=> m < n
  OBVIOUS
<1>3. SUFFICES ASSUME Left # {} PROVE FALSE
  OBVIOUS
<1>4. Left \subseteq Nat
  OBVIOUS
<1> HIDE DEF R, Left
<1>5. PICK x \in Left : \A y \in Left : ~(<<y, x>> \in R)
  BY <1>1, <1>3, <1>4, WFMin
<1>6. x \in Nat /\ x \notin T /\ x # 0
  BY DEF Left
<1>7. x - 1 \in Left /\ <<x - 1, x>> \in R
  BY <1>2, <1>6 DEF Left
<1> QED  BY <1>5, <1>7

\* f[k] is the concatenation of the first k sequences of ss.
Joins(f, ss, n) == f = [k \in 1..n |-> IF k = 1 THEN ss[k] ELSE f[k - 1] \o ss[k]]

LEMMA JoinsAt ==
    ASSUME NEW ss, NEW n, NEW f, Joins(f, ss, n), NEW k \in 1..n
    PROVE  f[k] = IF k = 1 THEN ss[k] ELSE f[k - 1] \o ss[k]
BY DEF Joins

LEMMA JoinsExist ==
    ASSUME NEW ss, NEW n \in Nat
    PROVE  \E f : Joins(f, ss, n)
<1> DEFINE T == {m \in Nat : \E f : Joins(f, ss, m)}
<1>1. 0 \in T
  <2>1. Joins([k \in 1..0 |-> ss], ss, 0)
    BY DEF Joins
  <2> QED  BY <2>1
<1>2. ASSUME NEW m \in Nat, m \in T PROVE m + 1 \in T
  <2>1. PICK f : Joins(f, ss, m)
    BY <1>2
  <2> DEFINE next == IF m = 0 THEN ss[1] ELSE f[m] \o ss[m + 1]
             g == [k \in 1..m + 1 |-> IF k = m + 1 THEN next ELSE f[k]]
  <2>2. ASSUME NEW k \in 1..m + 1
        PROVE  g[k] = IF k = 1 THEN ss[k] ELSE g[k - 1] \o ss[k]
    <3>1. CASE k = m + 1
      BY <3>1
    <3>2. CASE k # m + 1
      <4>1. k \in 1..m /\ (k # 1 => k - 1 \in 1..m)
        BY <3>2
      <4>2. f[k] = IF k = 1 THEN ss[k] ELSE f[k - 1] \o ss[k]
        BY <2>1, <4>1, JoinsAt
      <4> QED  BY <3>2, <4>1, <4>2
    <3> QED  BY <3>1, <3>2
  <2>3. g = [k \in 1..m + 1 |-> IF k = 1 THEN ss[k] ELSE g[k - 1] \o ss[k]]
    <3>1. g = [k \in 1..m + 1 |-> g[k]]
      OBVIOUS
    <3> HIDE DEF g
    <3> QED  BY <2>2, <3>1
  <2>4. Joins(g, ss, m + 1)
    BY <2>3 DEF Joins
  <2> HIDE DEF g
  <2> QED  BY <2>4
<1> HIDE DEF T
<1>3. Nat \subseteq T
  BY <1>1, <1>2, SetInduction
<1> QED  BY <1>3 DEF T

LEMMA JoinsUnique ==
    ASSUME NEW ss, NEW m \in Nat, NEW n \in Nat, m <= n,
           NEW f, Joins(f, ss, m), NEW g, Joins(g, ss, n)
    PROVE  \A k \in 1..m : f[k] = g[k]
<1> DEFINE T == {k \in Nat : k \in 1..m => f[k] = g[k]}
<1>1. 0 \in T
  OBVIOUS
<1>2. ASSUME NEW k \in Nat, k \in T PROVE k + 1 \in T
  <2>1. SUFFICES ASSUME k + 1 \in 1..m PROVE f[k + 1] = g[k + 1]
    OBVIOUS
  <2>2. k + 1 \in 1..n /\ (k # 0 => k \in 1..m /\ f[k] = g[k])
    BY <1>2, <2>1
  <2>3. /\ f[k + 1] = IF k + 1 = 1 THEN ss[k + 1] ELSE f[k + 1 - 1] \o ss[k + 1]
        /\ g[k + 1] = IF k + 1 = 1 THEN ss[k + 1] ELSE g[k + 1 - 1] \o ss[k + 1]
    BY <2>1, <2>2, JoinsAt
  <2>4. k + 1 - 1 = k /\ (k + 1 = 1 <=> k = 0)
    OBVIOUS
  <2> QED  BY <2>2, <2>3, <2>4
<1> HIDE DEF T
<1>3. Nat \subseteq T
  BY <1>1, <1>2, SetInduction
<1> QED  BY <1>3 DEF T

LEMMA JoinsType ==
    ASSUME NEW S, NEW ss \in Seq(Seq(S)), NEW f, Joins(f, ss, Len(ss))
    PROVE  \A k \in 1..Len(ss) : f[k] \in Seq(S)
<1> DEFINE T == {k \in Nat : k \in 1..Len(ss) => f[k] \in Seq(S)}
<1>1. 0 \in T
  OBVIOUS
<1>2. ASSUME NEW k \in Nat, k \in T PROVE k + 1 \in T
  <2>1. SUFFICES ASSUME k + 1 \in 1..Len(ss) PROVE f[k + 1] \in Seq(S)
    OBVIOUS
  <2>2. ss[k + 1] \in Seq(S) /\ (k # 0 => f[k] \in Seq(S))
    BY <1>2, <2>1
  <2>3. f[k + 1] = IF k + 1 = 1 THEN ss[k + 1] ELSE f[k + 1 - 1] \o ss[k + 1]
    BY <2>1, JoinsAt
  <2>4. k + 1 - 1 = k /\ (k + 1 = 1 <=> k = 0)
    OBVIOUS
  <2> QED  BY <2>2, <2>3, <2>4, ConcatProperties
<1> HIDE DEF T
<1>3. Nat \subseteq T
  BY <1>1, <1>2, SetInduction
<1> QED  BY <1>3 DEF T

LEMMA FlattenJoins ==
    ASSUME NEW S, NEW ss \in Seq(Seq(S)), ss # <<>>, NEW f, Joins(f, ss, Len(ss))
    PROVE  FlattenSeq(ss) = f[Len(ss)]
<1> DEFINE g == CHOOSE h : Joins(h, ss, Len(ss))
<1>1. Len(ss) \in Nat \ {0} /\ Len(ss) <= Len(ss)
  BY EmptySeq
<1>2. FlattenSeq(ss) = g[Len(ss)]
  BY <1>1 DEF FlattenSeq, Joins
<1>3. Joins(g, ss, Len(ss))
  OBVIOUS
<1> HIDE DEF g
<1>4. \A k \in 1..Len(ss) : f[k] = g[k]
  BY <1>1, <1>3, JoinsUnique
<1> QED  BY <1>1, <1>2, <1>4

LEMMA FlattenType ==
    ASSUME NEW S, NEW ss \in Seq(Seq(S))
    PROVE  FlattenSeq(ss) \in Seq(S)
<1>1. CASE ss = <<>>
  BY <1>1, EmptySeq DEF FlattenSeq
<1>2. CASE ss # <<>>
  <2>1. Len(ss) \in Nat \ {0}
    BY <1>2, EmptySeq
  <2>2. PICK f : Joins(f, ss, Len(ss))
    BY <2>1, JoinsExist
  <2>3. FlattenSeq(ss) = f[Len(ss)] /\ f[Len(ss)] \in Seq(S)
    BY <1>2, <2>1, <2>2, FlattenJoins, JoinsType
  <2> QED  BY <2>3
<1> QED  BY <1>1, <1>2

\* What one more sequence adds.
LEMMA FlattenAppend ==
    ASSUME NEW S, NEW ss \in Seq(Seq(S)), NEW x \in Seq(S)
    PROVE  FlattenSeq(Append(ss, x)) = FlattenSeq(ss) \o x
<1> DEFINE tt == Append(ss, x)
<1>1. /\ tt \in Seq(Seq(S)) /\ Len(tt) = Len(ss) + 1
      /\ tt[Len(ss) + 1] = x /\ \A k \in 1..Len(ss) : tt[k] = ss[k]
  <2> DEFINE seqs == Seq(S)
  <2> HIDE DEF seqs
  <2>1. ss \in Seq(seqs) /\ x \in seqs
    BY DEF seqs
  <2>2. tt \in Seq(seqs)
    BY <2>1, AppendProperties
  <2>3. Len(tt) = Len(ss) + 1 /\ tt[Len(ss) + 1] = x
    BY <2>1, AppendProperties
  <2>4. \A k \in 1..Len(ss) : tt[k] = ss[k]
    BY <2>1, AppendProperties
  <2> QED  BY <2>2, <2>3, <2>4 DEF seqs
<1> HIDE DEF tt
<1>6. Len(ss) \in Nat /\ Len(ss) + 1 \in Nat /\ tt # <<>>
  <2>1. Len(ss) \in Nat
    BY LenProperties
  <2> QED  BY <1>1, <2>1, EmptySeq
<1>2. PICK g : Joins(g, tt, Len(ss) + 1)
  BY <1>6, JoinsExist
<1>3. FlattenSeq(tt) = g[Len(ss) + 1]
  BY <1>1, <1>2, <1>6, FlattenJoins
<1>4. CASE ss = <<>>
  <2>1. FlattenSeq(ss) = <<>> /\ Len(ss) = 0
    BY <1>4 DEF FlattenSeq
  <2>2. g[1] = x
    BY <1>1, <1>2, <2>1, JoinsAt
  <2> QED  BY <1>3, <2>1, <2>2, ConcatEmptySeq, EmptySeq DEF tt
<1>5. CASE ss # <<>>
  <2>1. Len(ss) \in Nat \ {0}
    BY <1>5, EmptySeq
  <2>2. PICK f : Joins(f, ss, Len(ss))
    BY <2>1, JoinsExist
  <2>3. Joins(f, tt, Len(ss))
    <3>1. \A k \in 1..Len(ss) : (IF k = 1 THEN ss[k] ELSE f[k - 1] \o ss[k])
                              = (IF k = 1 THEN tt[k] ELSE f[k - 1] \o tt[k])
      BY <1>1
    <3>2. f = [k \in 1..Len(ss) |-> IF k = 1 THEN ss[k] ELSE f[k - 1] \o ss[k]]
      BY <2>2 DEF Joins
    <3>3. f = [k \in 1..Len(ss) |-> IF k = 1 THEN tt[k] ELSE f[k - 1] \o tt[k]]
      BY <3>1, <3>2, Zenon
    <3> QED  BY <3>3 DEF Joins
  <2>4. f[Len(ss)] = g[Len(ss)]
    <3>1. Len(ss) <= Len(ss) + 1 /\ Len(ss) \in 1..Len(ss)
      BY <2>1
    <3> DEFINE m == Len(ss)
               n == Len(ss) + 1
    <3>2. m \in Nat /\ n \in Nat /\ m <= n /\ Joins(f, tt, m) /\ Joins(g, tt, n)
      BY <1>2, <1>6, <2>3, <3>1
    <3> HIDE DEF m, n
    <3>3. \A k \in 1..m : f[k] = g[k]
      BY <3>2, JoinsUnique
    <3> USE DEF m
    <3> QED  BY <3>1, <3>3
  <2>5. FlattenSeq(ss) = f[Len(ss)]
    BY <1>5, <2>2, FlattenJoins
  <2>6. g[Len(ss) + 1] = IF Len(ss) + 1 = 1 THEN tt[Len(ss) + 1]
                         ELSE g[Len(ss) + 1 - 1] \o tt[Len(ss) + 1]
    BY <1>2, <1>6, JoinsAt
  <2>7. Len(ss) + 1 # 1 /\ Len(ss) + 1 - 1 = Len(ss)
    BY <2>1
  <2> QED  BY <1>1, <1>3, <2>4, <2>5, <2>6, <2>7 DEF tt
<1> QED  BY <1>4, <1>5
-----------------------------------------------------------------------------
(***************************************************************************)
(* Types.                                                                  *)
(***************************************************************************)
Places == {"loop", "blocked", "search", "connect", "wait", "tell", "stuck", "stopped"}

Port == [fd : Clients \cup {NoSocket, Own}, connected : BOOLEAN, enabled : BOOLEAN,
         closing : BOOLEAN, request : {"none", "queued", "success", "error"}]

\* What was never written to the buffer is garbage.
Text == Seq(Characters \cup {"garbage"})

ServerTypeOK ==
    /\ socketType \in {"SOCK_STREAM", "SOCK_DGRAM"}
    /\ fd \in BOOLEAN /\ connected \in BOOLEAN /\ closed \in BOOLEAN
    /\ user \in {"none", "resets", "flushes", "closing"}
    /\ at \in Places /\ i \in Nat \ {0} /\ clientFd \in Clients \cup {NoSocket}
    /\ port \in [Ports -> Port]
    /\ client \in [Clients -> {"away", "waits", "open", "closed"}]
    /\ UDPbuffer \in Text /\ UDPbufferSize \in Int /\ UDPbufferPos \in Nat
    /\ received \in Seq(Seq(Characters)) /\ got \in Text /\ told \in Int
    /\ free \subseteq Ports /\ lost \subseteq Clients /\ calls \in Nat

\* While the listener thread holds a connection, nobody else has it.
Held == {"search", "connect", "wait"}

-----------------------------------------------------------------------------
(***************************************************************************)
(* Connections.                                                            *)
(***************************************************************************)
\* The listener thread has a connection from accept until a port has taken it;
\* only the port at i has its request.
ListenerInv ==
    /\ at \in Held => clientFd \in Clients /\ client[clientFd] \in {"open", "closed"}
    /\ at \in {"search", "connect"} => client[clientFd] = "open"
    /\ at \in {"connect", "wait"} => i \in Ports
    /\ \A p \in Ports : port[p].request # "none" => at = "wait" /\ p = i

\* A connection that was accepted belongs to one port at most: to none while
\* the listener thread has not handed it over.
SocketInv ==
    /\ \A p \in Ports : port[p].fd \in Clients => client[port[p].fd] \in {"open", "closed"}
    /\ \A p, q \in Ports : port[p].fd \in Clients /\ port[p].fd = port[q].fd => p = q
    /\ at \in Held => \A p \in Ports :
         port[p].fd = clientFd => at = "wait" /\ p = i /\ port[p].request = "success"

\* The ports that were free since accept and the search has passed: none.
SearchInv ==
    at = "search" => \A p \in free : Free(p) /\ p >= i

-----------------------------------------------------------------------------
(***************************************************************************)
(* Datagrams.                                                              *)
(***************************************************************************)
All == FlattenSeq(received)

\* The buffer holds the last datagram or is empty.
BufferInv ==
    /\ fd /\ user # "closing" /\ at # "stuck" /\ connected
    /\ socketType = "SOCK_STREAM" \/ at = "blocked" => UDPbufferSize = 0
    /\ UDPbufferSize = 0 => UDPbufferPos = 0 /\ got = All
    /\ UDPbufferSize # 0 => /\ received # <<>> /\ UDPbuffer = received[Len(received)]
                            /\ UDPbufferSize = Len(UDPbuffer)
    /\ user = "flushes" => UDPbufferPos = 0

\* What the user has read of it: the datagrams before and what is before the
\* position, unless it is all.
ReadInv ==
    /\ user = "none" /\ UDPbufferSize # 0 =>
         /\ UDPbufferPos < UDPbufferSize
         /\ \E before \in Seq(Characters) :
              /\ All = before \o UDPbuffer
              /\ got = before \o SubSeq(UDPbuffer, 1, UDPbufferPos)
    /\ user = "resets" => got = All /\ UDPbufferSize # 0
    /\ got \in Seq(Characters)
    /\ \E rest \in Seq(Characters) : All = got \o rest

\* What the last interrupt user was given.
ToldInv ==
    received # <<>> => \/ told = Len(received[Len(received)])
                       \/ told = 0 /\ UDPbufferSize = 0

DatagramInv == ~closed => BufferInv /\ ReadInv /\ ToldInv

ServerIInv == ServerTypeOK /\ ListenerInv /\ SocketInv /\ SearchInv /\ DatagramInv
-----------------------------------------------------------------------------
(***************************************************************************)
(* Every step keeps the types.                                             *)
(***************************************************************************)
LEMMA CopiedType ==
    ASSUME ServerTypeOK, NEW n \in Nat
    PROVE  Copied(n) \in Text /\ Len(Copied(n)) = n
<1> DEFINE S == Characters \cup {"garbage"}
<1>1. \A k \in 1..n : (IF UDPbufferPos + k <= Len(UDPbuffer) THEN UDPbuffer[UDPbufferPos + k]
                       ELSE "garbage") \in S
  <2> TAKE k \in 1..n
  <2>1. UDPbuffer \in Seq(S) /\ UDPbufferPos \in Nat
    BY DEF ServerTypeOK, Text
  <2> HIDE DEF S
  <2>2. CASE UDPbufferPos + k <= Len(UDPbuffer)
    <3>1. UDPbufferPos + k \in 1..Len(UDPbuffer)
      BY <2>1, <2>2, LenProperties
    <3> QED  BY <2>1, <2>2, <3>1, ElementOfSeq
  <2> QED  BY <2>2 DEF S
<1> HIDE DEF S
<1>2. Copied(n) \in [1..n -> S]
  BY <1>1 DEF Copied
<1> QED  BY <1>2 DEF S, Text

\* What an action of a client port, or of a client, leaves alone.
TcpOnly == UNCHANGED <<serverVars, listenerVars, udpVars, lost>>

LEMMA PortStepType ==
    ASSUME ServerTypeOK, TcpOnly, calls' \in Nat, free' \subseteq Ports,
           port' \in [Ports -> Port], client' \in [Clients -> {"away", "waits", "open", "closed"}]
    PROVE  ServerTypeOK'
BY DEF ServerTypeOK, TcpOnly, serverVars, listenerVars, udpVars, bufferVars, Text

LEMMA TypeNext ==
    ASSUME ServerTypeOK, ListenerInv, [Next]_vars
    PROVE  ServerTypeOK'
<1> USE ServerAssumption DEF serverVars, listenerVars, tcpVars, udpVars, bufferVars
<1>1. CASE UNCHANGED vars
  BY <1>1 DEF vars, ServerTypeOK, Text
<1>2. CASE Loop
  BY <1>2 DEF Loop, Goes, ServerTypeOK, Places, Text
<1>3. ASSUME NEW c \in Clients, epicsSocketAccept(c) PROVE ServerTypeOK'
  BY <1>3 DEF epicsSocketAccept, Goes, ServerTypeOK, Places, Text
<1>4. CASE Search
  BY <1>4 DEF Search, Goes, ServerTypeOK, Places, Text
<1>5. CASE TooMany
  BY <1>5 DEF TooMany, Goes, ServerTypeOK, Places, Text
<1>6. CASE connectDevice
  <2>1. clientFd \in Clients /\ i \in Ports
    BY <1>6 DEF connectDevice, ListenerInv, Held
  <2>2. port' \in [Ports -> Port]
    <3>1. CASE port[i].enabled
      <4>1. port' = [port EXCEPT ![i] = [port[i] EXCEPT !.request = "queued"]]
        BY <1>6, <3>1 DEF connectDevice
      <4>2. [port[i] EXCEPT !.request = "queued"] \in Port
        BY <2>1 DEF ServerTypeOK, Port
      <4> QED  BY <4>1, <4>2 DEF ServerTypeOK
    <3>2. CASE ~port[i].enabled
      BY <1>6, <3>2 DEF connectDevice, ServerTypeOK
    <3> QED  BY <3>1, <3>2
  <2> QED  BY <1>6, <2>1, <2>2 DEF connectDevice, Lose, Goes, ServerTypeOK, Places, Text
<1>7. CASE Connected
  <2>1. clientFd \in Clients
    BY <1>7 DEF Connected, ListenerInv, Held
  <2>2. port' \in [Ports -> Port]
    <3>1. i \in Ports /\ port' = [port EXCEPT ![i] = [port[i] EXCEPT !.request = "none"]]
      BY <1>7 DEF Connected, ListenerInv
    <3>2. [port[i] EXCEPT !.request = "none"] \in Port
      BY <3>1 DEF ServerTypeOK, Port
    <3> QED  BY <3>1, <3>2 DEF ServerTypeOK
  <2> QED  BY <1>7, <2>1, <2>2 DEF Connected, Lose, Goes, ServerTypeOK, Places, Text
<1>8. CASE TellPort
  BY <1>8 DEF TellPort, Goes, ServerTypeOK, Places, Text
<1>9. CASE TellDatagram
  BY <1>9 DEF TellDatagram, Goes, ServerTypeOK, Places, Text
<1>10. CASE recvfrom
  <2> DEFINE datagram == Datagrams[Len(received) + 1]
  <2>1. datagram \in Seq(Characters)
    BY <1>10 DEF recvfrom, ServerTypeOK
  <2>2. datagram \in Text /\ Len(datagram) \in Nat
    BY <2>1, SeqMonotonic DEF Text
  <2> HIDE DEF datagram
  <2>3. UDPbuffer' = datagram /\ UDPbufferSize' = Len(datagram) /\ told' = Len(datagram)
        /\ received' = Append(received, datagram)
    BY <1>10 DEF recvfrom, datagram
  <2>4. received' \in Seq(Seq(Characters))
    <3> DEFINE texts == Seq(Characters)
    <3> HIDE DEF texts
    <3>1. datagram \in texts /\ received \in Seq(texts)
      BY <2>1 DEF texts, ServerTypeOK
    <3>2. received' \in Seq(texts)
      BY <2>3, <3>1, AppendProperties
    <3> QED  BY <3>2 DEF texts
  <2> QED  BY <1>10, <2>2, <2>3, <2>4 DEF recvfrom, Goes, ServerTypeOK, Places
<1>11. CASE Unblocked
  BY <1>11 DEF Unblocked, Goes, ServerTypeOK, Places, Text
<1>12. ASSUME NEW p \in Ports, connectWith(p) PROVE ServerTypeOK'
  <2>1. port' \in [Ports -> Port]
    <3>1. CASE port[p].fd # NoSocket
      <4>1. port' = [port EXCEPT ![p] = [port[p] EXCEPT !.request = "error"]]
        BY <1>12, <3>1 DEF connectWith
      <4>2. [port[p] EXCEPT !.request = "error"] \in Port
        BY DEF ServerTypeOK, Port
      <4> QED  BY <4>1, <4>2 DEF ServerTypeOK
    <3>2. CASE port[p].fd = NoSocket
      <4>1. port' = [port EXCEPT ![p] = [port[p] EXCEPT !.request = "success", !.fd = clientFd, !.connected = TRUE]]
        BY <1>12, <3>2 DEF connectWith
      <4>2. [port[p] EXCEPT !.request = "success", !.fd = clientFd, !.connected = TRUE] \in Port
        BY DEF ServerTypeOK, Port
      <4> QED  BY <4>1, <4>2 DEF ServerTypeOK
    <3> QED  BY <3>1, <3>2
  <2>2. TcpOnly /\ calls' \in Nat /\ free' \subseteq Ports
        /\ client' \in [Clients -> {"away", "waits", "open", "closed"}]
    BY <1>12 DEF connectWith, ServerTypeOK, TcpOnly
  <2> QED  BY <2>1, <2>2, PortStepType
<1>13. ASSUME NEW p \in Ports, exceptionDisconnect(p) PROVE ServerTypeOK'
  <2>1. port' \in [Ports -> Port]
    <3>1. port' = [port EXCEPT ![p] = [port[p] EXCEPT !.connected = FALSE, !.closing = FALSE]]
      BY <1>13 DEF exceptionDisconnect
    <3>2. [port[p] EXCEPT !.connected = FALSE, !.closing = FALSE] \in Port
      BY DEF ServerTypeOK, Port
    <3> QED  BY <3>1, <3>2 DEF ServerTypeOK
  <2>2. TcpOnly /\ calls' \in Nat /\ free' \subseteq Ports
        /\ client' \in [Clients -> {"away", "waits", "open", "closed"}]
    BY <1>13 DEF exceptionDisconnect, ServerTypeOK, TcpOnly
  <2> QED  BY <2>1, <2>2, PortStepType
<1>14. ASSUME NEW p \in Ports, closeSocket(p) PROVE ServerTypeOK'
  <2>1. port' \in [Ports -> Port]
    <3>1. port' = [port EXCEPT ![p] = [port[p] EXCEPT !.fd = NoSocket, !.closing = TRUE]]
      BY <1>14 DEF closeSocket
    <3>2. [port[p] EXCEPT !.fd = NoSocket, !.closing = TRUE] \in Port
      BY DEF ServerTypeOK, Port
    <3> QED  BY <3>1, <3>2 DEF ServerTypeOK
  <2>2. TcpOnly /\ calls' \in Nat /\ free' \subseteq Ports
        /\ client' \in [Clients -> {"away", "waits", "open", "closed"}]
    BY <1>14 DEF closeSocket, ServerTypeOK, TcpOnly
  <2> QED  BY <2>1, <2>2, PortStepType
<1>15. ASSUME NEW p \in Ports, NEW yesNo \in BOOLEAN, enable(p, yesNo) PROVE ServerTypeOK'
  <2>1. port' \in [Ports -> Port]
    <3>1. port' = [port EXCEPT ![p] = [port[p] EXCEPT !.enabled = yesNo]]
      BY <1>15 DEF enable
    <3>2. [port[p] EXCEPT !.enabled = yesNo] \in Port
      BY DEF ServerTypeOK, Port
    <3> QED  BY <3>1, <3>2 DEF ServerTypeOK
  <2>2. TcpOnly /\ calls' \in Nat /\ free' \subseteq Ports
        /\ client' \in [Clients -> {"away", "waits", "open", "closed"}]
    BY <1>15 DEF enable, Calls, ServerTypeOK, TcpOnly
  <2> QED  BY <2>1, <2>2, PortStepType
<1>16. ASSUME NEW p \in Ports, NEW c \in Clients, connectOwn(p, c) PROVE ServerTypeOK'
  <2>1. port' \in [Ports -> Port]
    <3>1. port' = [port EXCEPT ![p] = [port[p] EXCEPT !.fd = Own, !.connected = TRUE]]
      BY <1>16 DEF connectOwn
    <3>2. [port[p] EXCEPT !.fd = Own, !.connected = TRUE] \in Port
      BY DEF ServerTypeOK, Port
    <3> QED  BY <3>1, <3>2 DEF ServerTypeOK
  <2>2. TcpOnly /\ calls' \in Nat /\ free' \subseteq Ports
        /\ client' \in [Clients -> {"away", "waits", "open", "closed"}]
    BY <1>16 DEF connectOwn, Calls, ServerTypeOK, TcpOnly
  <2> QED  BY <2>1, <2>2, PortStepType
<1>17. ASSUME NEW c \in Clients, Connects(c) PROVE ServerTypeOK'
  <2>1. TcpOnly /\ calls' \in Nat /\ free' \subseteq Ports /\ port' \in [Ports -> Port]
        /\ client' \in [Clients -> {"away", "waits", "open", "closed"}]
    BY <1>17 DEF Connects, ServerTypeOK, TcpOnly
  <2> QED  BY <2>1, PortStepType
<1>18. ASSUME NEW maxchars \in 1..3, readIt(maxchars) PROVE ServerTypeOK'
  <2> DEFINE thisRead == Smaller(Remaining, maxchars)
  <2>1. thisRead \in Nat
    BY DEF Smaller, Remaining, ServerTypeOK
  <2>2. Copied(thisRead) \in Text
    BY <2>1, CopiedType
  <2> HIDE DEF thisRead
  <2>3. /\ got' = got \o Copied(thisRead) /\ UDPbufferPos' = UDPbufferPos + thisRead
        /\ user' \in {"resets", "none"}
    BY <1>18 DEF readIt, thisRead
  <2>4. got' \in Text
    BY <2>2, <2>3, ConcatProperties DEF Text, ServerTypeOK
  <2> QED  BY <1>18, <2>1, <2>3, <2>4 DEF readIt, ServerTypeOK
<1>19. CASE flushIt
  BY <1>19 DEF flushIt, ServerTypeOK, Text
<1>20. CASE Reset
  <2>1. FlattenSeq(received) \in Text
    <3>1. FlattenSeq(received) \in Seq(Characters)
      BY FlattenType DEF ServerTypeOK
    <3> QED  BY <3>1, SeqMonotonic DEF Text
  <2>2. got' \in Text
    BY <1>20, <2>1 DEF Reset, ServerTypeOK
  <2> QED  BY <1>20, <2>2 DEF Reset, ServerTypeOK
<1>21. CASE disconnect
  <2>1. client' \in [Clients -> {"away", "waits", "open", "closed"}]
    BY <1>21 DEF disconnect, ServerTypeOK
  <2>2. at' \in Places
    BY <1>21 DEF disconnect, Goes, ServerTypeOK, Places
  <2>3. calls' \in Nat /\ user' = "closing" /\ fd' = FALSE /\ closed' = TRUE
        /\ UNCHANGED <<socketType, connected, i, clientFd, port, free, lost, udpVars>>
    BY <1>21 DEF disconnect, Calls, ServerTypeOK
  <2> QED  BY <2>1, <2>2, <2>3 DEF ServerTypeOK, Text
<1>22. CASE Disconnected
  BY <1>22 DEF Disconnected, ServerTypeOK, Text
<1>23. CASE connectIt
  <2>1. <<>> \in Text
    BY EmptySeq DEF Text
  <2>2. UDPbuffer' \in Text /\ fd' \in BOOLEAN
    BY <1>23, <2>1 DEF connectIt, ServerTypeOK
  <2> QED  BY <1>23, <2>2 DEF connectIt, Calls, ServerTypeOK
<1> QED
  BY <1>1, <1>2, <1>3, <1>4, <1>5, <1>6, <1>7, <1>8, <1>9, <1>10, <1>11, <1>12, <1>13, <1>14,
     <1>15, <1>16, <1>17, <1>18, <1>19, <1>20, <1>21, <1>22, <1>23
  DEF Next, Listens, Serves
-----------------------------------------------------------------------------
(***************************************************************************)
(* Connections: who has them, and the ports the search has passed.         *)
(***************************************************************************)
ConnectionInv == ListenerInv /\ SocketInv /\ SearchInv

\* The listener thread is where it holds no connection afterwards.
LEMMA NotHeld ==
    ASSUME ConnectionInv, at' \notin Held, UNCHANGED client,
           \A p \in Ports : port'[p].fd = port[p].fd /\ port'[p].request = "none"
    PROVE  ConnectionInv'
BY DEF ConnectionInv, ListenerInv, SocketInv, SearchInv, Held

\* The users of the listener port do not touch what the thread holds.
LEMMA ConnectionFrame ==
    ASSUME ConnectionInv, UNCHANGED <<at, i, clientFd, port, client, free>>
    PROVE  ConnectionInv'
BY DEF ConnectionInv, ListenerInv, SocketInv, SearchInv, Free

LEMMA ConnectionNext ==
    ASSUME ServerTypeOK, ConnectionInv, [Next]_vars
    PROVE  ConnectionInv'
<1> USE ServerAssumption DEF serverVars, listenerVars, tcpVars, udpVars, bufferVars, Goes
<1>1. CASE UNCHANGED vars
  BY <1>1, ConnectionFrame DEF vars
<1>2. CASE Loop
  BY <1>2, NotHeld DEF Loop, ConnectionInv, ListenerInv, Held
<1>3. ASSUME NEW c \in Clients, epicsSocketAccept(c) PROVE ConnectionInv'
  <2>1. /\ at = "blocked" /\ at' = "search" /\ client[c] = "waits" /\ i' = 1
        /\ client' = [client EXCEPT ![c] = "open"] /\ clientFd' = c
        /\ free' = {p \in Ports : Free(p)} /\ port' = port
    BY <1>3 DEF epicsSocketAccept
  <2>2. \A p \in Ports : port[p].request = "none" /\ port[p].fd # c
    BY <2>1 DEF ConnectionInv, ListenerInv, SocketInv
  <2>3. client'[c] = "open" /\ \A d \in Clients : d # c => client'[d] = client[d]
    BY <2>1 DEF ServerTypeOK
  <2>4. ListenerInv'
    BY <2>1, <2>2, <2>3 DEF ListenerInv
  <2>5. SocketInv'
    BY <2>1, <2>2, <2>3 DEF ConnectionInv, SocketInv
  <2>6. SearchInv'
    BY <2>1 DEF SearchInv, Free, Ports
  <2> QED  BY <2>4, <2>5, <2>6 DEF ConnectionInv
<1>4. CASE Search
  <2>1. /\ at = "search" /\ i <= maxClients
        /\ IF Free(i) THEN at' = "connect" /\ i' = i ELSE i' = i + 1 /\ at' = at
        /\ UNCHANGED <<clientFd, port, client, free>>
    BY <1>4 DEF Search, SearchEnds, ServerTypeOK
  <2>2. i \in Ports
    BY <2>1 DEF ServerTypeOK, Ports
  <2>3. ListenerInv' /\ SocketInv'
    BY <2>1, <2>2 DEF ConnectionInv, ListenerInv, SocketInv, Held
  <2>4. SearchInv'
    <3>1. SUFFICES ASSUME at' = "search", NEW p \in free PROVE Free(p) /\ p >= i + 1
      BY <2>1 DEF SearchInv, Free
    <3>2. Free(p) /\ p >= i /\ p \in Ports /\ p # i
      BY <2>1, <3>1 DEF ConnectionInv, SearchInv, ServerTypeOK
    <3> QED  BY <3>2 DEF Ports, ServerTypeOK
  <2> QED  BY <2>3, <2>4 DEF ConnectionInv
<1>5. CASE TooMany
  <2>1. /\ at = "search" /\ at' = "loop" /\ port' = port /\ client' = [client EXCEPT ![clientFd] = "closed"]
    BY <1>5 DEF TooMany
  <2>2. \A d \in Clients : client'[d] = client[d] \/ client'[d] = "closed"
    BY <2>1 DEF ServerTypeOK
  <2> QED  BY <2>1, <2>2 DEF ConnectionInv, ListenerInv, SocketInv, SearchInv, Held
<1>6. CASE connectDevice
  <2>1. CASE port[i].enabled
    <3>1. /\ at = "connect" /\ at' = "wait" /\ i \in Ports
          /\ port' = [port EXCEPT ![i].request = "queued"]
          /\ UNCHANGED <<i, clientFd, client, free>>
      BY <1>6, <2>1 DEF connectDevice, ConnectionInv, ListenerInv
    <3>2. \A p \in Ports : port'[p].fd = port[p].fd /\ (p # i => port'[p].request = port[p].request)
      BY <3>1 DEF ServerTypeOK, Port
    <3> QED  BY <3>1, <3>2 DEF ConnectionInv, ListenerInv, SocketInv, SearchInv, Held
  <2>2. CASE ~port[i].enabled
    BY <1>6, <2>2, NotHeld DEF connectDevice, Lose, ConnectionInv, ListenerInv, Held
  <2> QED  BY <2>1, <2>2
<1>7. CASE Connected
  <2>1. /\ at = "wait" /\ port' = [port EXCEPT ![i].request = "none"] /\ client' = client
        /\ at' \in {"tell", "loop"} /\ i \in Ports
    BY <1>7 DEF Connected, Lose, ConnectionInv, ListenerInv
  <2>2. \A p \in Ports : port'[p].fd = port[p].fd /\ port'[p].request = "none"
    BY <2>1 DEF ConnectionInv, ListenerInv, ServerTypeOK, Port
  <2> QED  BY <2>1, <2>2, NotHeld DEF Held
<1>8. CASE TellPort
  BY <1>8, NotHeld DEF TellPort, ConnectionInv, ListenerInv, Held
<1>9. CASE TellDatagram
  BY <1>9, NotHeld DEF TellDatagram, ConnectionInv, ListenerInv, Held
<1>10. CASE recvfrom
  BY <1>10, NotHeld DEF recvfrom, ConnectionInv, ListenerInv, Held
<1>11. CASE Unblocked
  BY <1>11, NotHeld DEF Unblocked, ConnectionInv, ListenerInv, Held
<1>12. ASSUME NEW p \in Ports, connectWith(p) PROVE ConnectionInv'
  <2>1. /\ at = "wait" /\ p = i /\ port[p].request = "queued"
        /\ \A q \in Ports : port[q].fd # clientFd
        /\ clientFd \in Clients /\ client[clientFd] \in {"open", "closed"}
        /\ UNCHANGED <<at, i, clientFd, client, free>>
    BY <1>12 DEF connectWith, ConnectionInv, ListenerInv, SocketInv, Held
  <2>2. \A q \in Ports : q # p => port'[q] = port[q]
    BY <1>12 DEF connectWith, ServerTypeOK
  <2>3. \/ port'[p].fd = port[p].fd /\ port'[p].request = "error"
        \/ port'[p].fd = clientFd /\ port'[p].request = "success"
    <3>1. CASE port[p].fd # NoSocket
      BY <1>12, <3>1 DEF connectWith, ServerTypeOK, Port
    <3>2. CASE port[p].fd = NoSocket
      <4>1. port'[p] = [port[p] EXCEPT !.request = "success", !.fd = clientFd, !.connected = TRUE]
        BY <1>12, <3>2 DEF connectWith, ServerTypeOK
      <4> QED  BY <4>1 DEF ServerTypeOK, Port
    <3> QED  BY <3>1, <3>2
  <2>4. ListenerInv'
    BY <2>1, <2>2, <2>3 DEF ConnectionInv, ListenerInv
  <2>5. SocketInv'
    <3>1. ASSUME NEW q \in Ports, port'[q].fd \in Clients
          PROVE  client[port'[q].fd] \in {"open", "closed"}
      BY <2>1, <2>2, <2>3, <3>1 DEF ConnectionInv, SocketInv
    <3>2. ASSUME NEW q \in Ports, NEW r \in Ports, port'[q].fd \in Clients, port'[q].fd = port'[r].fd
          PROVE  q = r
      BY <2>1, <2>2, <2>3, <3>2 DEF ConnectionInv, SocketInv
    <3>3. ASSUME NEW q \in Ports, port'[q].fd = clientFd PROVE q = i /\ port'[q].request = "success"
      <4>1. q = p
        BY <2>1, <2>2, <3>3
      <4> QED  BY <2>1, <2>3, <3>3, <4>1
    <3> QED  BY <2>1, <3>1, <3>2, <3>3 DEF SocketInv
  <2>6. SearchInv'
    BY <2>1 DEF SearchInv
  <2> QED  BY <2>4, <2>5, <2>6 DEF ConnectionInv
<1>13. ASSUME NEW p \in Ports, exceptionDisconnect(p) PROVE ConnectionInv'
  <2>1. /\ \A q \in Ports : port'[q].fd = port[q].fd /\ port'[q].request = port[q].request
        /\ \A q \in Ports : Free(q) => Free(q)'
        /\ UNCHANGED <<at, i, clientFd, client, free>>
    BY <1>13 DEF exceptionDisconnect, ServerTypeOK, Port, Free
  <2> QED  BY <2>1 DEF ConnectionInv, ListenerInv, SocketInv, SearchInv, ServerTypeOK
<1>14. ASSUME NEW p \in Ports, closeSocket(p) PROVE ConnectionInv'
  <2>1. /\ \A q \in Ports : q # p => port'[q] = port[q]
        /\ port'[p].fd = NoSocket /\ port'[p].request = port[p].request
        /\ \A q \in Ports : Free(q) => Free(q)'
        /\ UNCHANGED <<at, i, clientFd, free>>
    <3>1. port'[p] = [port[p] EXCEPT !.fd = NoSocket, !.closing = TRUE]
          /\ \A q \in Ports : q # p => port'[q] = port[q]
      BY <1>14 DEF closeSocket, ServerTypeOK
    <3>2. port'[p].fd = NoSocket /\ port'[p].request = port[p].request
          /\ port'[p].connected = port[p].connected
      BY <3>1 DEF ServerTypeOK, Port
    <3> QED  BY <1>14, <3>1, <3>2 DEF closeSocket, Free
  <2>2. \A d \in Clients : client'[d] = IF d = port[p].fd THEN "closed" ELSE client[d]
    BY <1>14 DEF closeSocket
  <2>3. ListenerInv'
    BY <2>1, <2>2 DEF ConnectionInv, ListenerInv, SocketInv, Held
  <2>4. SocketInv'
    BY <2>1, <2>2 DEF ConnectionInv, ListenerInv, SocketInv
  <2>5. SearchInv'
    BY <2>1 DEF ConnectionInv, SearchInv, ServerTypeOK
  <2> QED  BY <2>3, <2>4, <2>5 DEF ConnectionInv
<1>15. ASSUME NEW p \in Ports, NEW yesNo \in BOOLEAN, enable(p, yesNo) PROVE ConnectionInv'
  <2>1. /\ \A q \in Ports : port'[q].fd = port[q].fd /\ port'[q].request = port[q].request
        /\ \A q \in Ports : Free(q) => Free(q)'
        /\ UNCHANGED <<at, i, clientFd, client, free>>
    BY <1>15 DEF enable, ServerTypeOK, Port, Free
  <2> QED  BY <2>1 DEF ConnectionInv, ListenerInv, SocketInv, SearchInv, ServerTypeOK
<1>16. ASSUME NEW p \in Ports, NEW c \in Clients, connectOwn(p, c) PROVE ConnectionInv'
  <2>1. /\ client[c] = "away" /\ client' = [client EXCEPT ![c] = "waits"]
        /\ free' = free \ {p} /\ UNCHANGED <<at, i, clientFd>>
    BY <1>16 DEF connectOwn
  <2>2. /\ \A q \in Ports : q # p => port'[q] = port[q]
        /\ port'[p].fd = Own /\ port'[p].request = port[p].request
    <3>1. port'[p] = [port[p] EXCEPT !.fd = Own, !.connected = TRUE]
          /\ \A q \in Ports : q # p => port'[q] = port[q]
      BY <1>16 DEF connectOwn, ServerTypeOK
    <3> QED  BY <3>1 DEF ServerTypeOK, Port
  <2>3. \A d \in Clients : client'[d] = IF d = c THEN "waits" ELSE client[d]
    BY <2>1 DEF ServerTypeOK
  <2>4. ListenerInv'
    BY <2>1, <2>2, <2>3 DEF ConnectionInv, ListenerInv, Held
  <2>5. SocketInv'
    <3>1. ASSUME NEW q \in Ports, port'[q].fd \in Clients PROVE q # p /\ port'[q] = port[q]
      BY <2>2, <3>1
    <3>2. ASSUME NEW q \in Ports, port'[q].fd \in Clients
          PROVE  client'[port'[q].fd] \in {"open", "closed"}
      BY <2>1, <2>3, <3>1, <3>2 DEF ConnectionInv, SocketInv
    <3>3. ASSUME NEW q \in Ports, NEW r \in Ports, port'[q].fd \in Clients, port'[q].fd = port'[r].fd
          PROVE  q = r
      BY <3>1, <3>3 DEF ConnectionInv, SocketInv
    <3>4. ASSUME at \in Held, NEW q \in Ports, port'[q].fd = clientFd
          PROVE  at = "wait" /\ q = i /\ port'[q].request = "success"
      <4>1. port'[q].fd \in Clients
        BY <3>4 DEF ConnectionInv, ListenerInv
      <4>2. port'[q] = port[q]
        BY <3>1, <4>1
      <4> QED  BY <3>4, <4>2 DEF ConnectionInv, SocketInv
    <3> QED  BY <2>1, <3>2, <3>3, <3>4 DEF SocketInv
  <2>6. SearchInv'
    BY <2>1, <2>2 DEF ConnectionInv, SearchInv, Free, ServerTypeOK
  <2> QED  BY <2>4, <2>5, <2>6 DEF ConnectionInv
<1>17. ASSUME NEW c \in Clients, Connects(c) PROVE ConnectionInv'
  <2>1. /\ client[c] = "away" /\ client' = [client EXCEPT ![c] = "waits"]
        /\ UNCHANGED <<at, i, clientFd, port, free>>
    BY <1>17 DEF Connects
  <2>2. \A d \in Clients : client'[d] = IF d = c THEN "waits" ELSE client[d]
    BY <2>1 DEF ServerTypeOK
  <2> QED  BY <2>1, <2>2 DEF ConnectionInv, ListenerInv, SocketInv, SearchInv, Held, Free
<1>18. ASSUME NEW maxchars \in 1..3, readIt(maxchars) PROVE ConnectionInv'
  BY <1>18, ConnectionFrame DEF readIt
<1>19. CASE flushIt
  BY <1>19, ConnectionFrame DEF flushIt
<1>20. CASE Reset
  BY <1>20, ConnectionFrame DEF Reset
<1>21. CASE disconnect
  <2>1. /\ at' = IF at = "blocked" THEN "stuck" ELSE at
        /\ UNCHANGED <<i, clientFd, port, free>>
        /\ \A d \in Clients : client'[d] = IF client[d] = "waits" THEN "closed" ELSE client[d]
    BY <1>21 DEF disconnect
  <2> QED  BY <2>1 DEF ConnectionInv, ListenerInv, SocketInv, SearchInv, Held, Free
<1>22. CASE Disconnected
  BY <1>22, ConnectionFrame DEF Disconnected
<1>23. CASE connectIt
  BY <1>23, ConnectionFrame DEF connectIt
<1> QED
  BY <1>1, <1>2, <1>3, <1>4, <1>5, <1>6, <1>7, <1>8, <1>9, <1>10, <1>11, <1>12, <1>13, <1>14,
     <1>15, <1>16, <1>17, <1>18, <1>19, <1>20, <1>21, <1>22, <1>23
  DEF Next, Listens, Serves
-----------------------------------------------------------------------------
(***************************************************************************)
(* Datagrams: what is read is what was received.                           *)
(***************************************************************************)
\* What is copied continues what was read before.
LEMMA TakeMore ==
    ASSUME ServerTypeOK, UDPbuffer \in Seq(Characters),
           NEW n \in Nat, UDPbufferPos + n <= Len(UDPbuffer)
    PROVE  /\ Copied(n) \in Seq(Characters)
           /\ SubSeq(UDPbuffer, 1, UDPbufferPos) \o Copied(n) = SubSeq(UDPbuffer, 1, UDPbufferPos + n)
<1> DEFINE B == UDPbuffer
           pos == UDPbufferPos
           b == SubSeq(B, pos + 1, pos + n)
<1>1. B \in Seq(Characters) /\ pos \in Nat /\ Len(B) \in Nat /\ pos + n <= Len(B)
  BY LenProperties DEF ServerTypeOK
<1>2. b \in Seq(Characters) /\ Len(b) = n /\ \A k \in 1..n : b[k] = B[pos + k]
  <2>1. \A k \in pos + 1..pos + n : B[k] \in Characters
    BY <1>1, ElementOfSeq
  <2> QED  BY <1>1, <2>1, SubSeqProperties
<1>3. Copied(n) = b
  <2>1. Copied(n) = [k \in 1..n |-> B[pos + k]]
    BY <1>1 DEF Copied
  <2>2. b = [k \in 1..n |-> b[k]]
    BY <1>2, LenProperties
  <2> QED  BY <1>2, <2>1, <2>2
<1>4. SubSeq(B, 1, pos) \o b = SubSeq(B, 1, pos + n)
  <2>1. 1 \in 1..Len(B) + 1 /\ pos \in 1 - 1..Len(B) /\ pos + n \in pos..Len(B)
    BY <1>1
  <2> HIDE DEF B, pos
  <2> QED  BY <1>1, <2>1, ConcatAdjacentSubSeq
<1> QED  BY <1>2, <1>3, <1>4

\* The steps that touch neither the buffer nor its users.
LEMMA DatagramFrame ==
    ASSUME DatagramInv, UNCHANGED <<serverVars, udpVars>>,
           ~closed => at' # "stuck" /\ (at' = "blocked" => UDPbufferSize = 0)
    PROVE  DatagramInv'
BY DEF DatagramInv, BufferInv, ReadInv, ToldInv, All, serverVars, udpVars, bufferVars

LEMMA ReceiveKeeps ==
    ASSUME ServerTypeOK, DatagramInv, ~closed, recvfrom
    PROVE  DatagramInv'
<1> DEFINE datagram == Datagrams[Len(received) + 1]
<1>1. datagram \in Seq(Characters)
  BY ServerAssumption DEF recvfrom, ServerTypeOK
<1> HIDE DEF datagram
<1>2. /\ UDPbuffer' = datagram /\ UDPbufferSize' = Len(datagram) /\ told' = Len(datagram)
      /\ received' = Append(received, datagram) /\ at' = "tell" /\ at = "blocked"
      /\ socketType = "SOCK_DGRAM" /\ UNCHANGED <<serverVars, UDPbufferPos, got>>
  BY DEF recvfrom, Goes, datagram
<1>3. BufferInv /\ ReadInv /\ UDPbufferSize = 0 /\ UDPbufferPos = 0 /\ got = All
  BY <1>2 DEF DatagramInv, BufferInv
<1>4. All' = All \o datagram /\ All \in Seq(Characters)
  <2>1. received \in Seq(Seq(Characters))
    BY DEF ServerTypeOK
  <2>2. FlattenSeq(Append(received, datagram)) = FlattenSeq(received) \o datagram
    BY <1>1, <2>1, FlattenAppend
  <2> QED  BY <1>2, <2>1, <2>2, FlattenType DEF All
<1>5. received' # <<>> /\ received'[Len(received')] = datagram
  <2> DEFINE texts == Seq(Characters)
  <2>1. received \in Seq(texts) /\ datagram \in texts
    BY <1>1 DEF ServerTypeOK
  <2> HIDE DEF texts
  <2> QED  BY <1>2, <2>1, AppendProperties
<1>6. Len(datagram) \in Nat /\ (Len(datagram) = 0 => datagram = <<>>)
  BY <1>1, EmptySeq, LenProperties
<1>7. Len(datagram) = 0 => got' = All'
  BY <1>2, <1>3, <1>4, <1>6, ConcatEmptySeq
<1>8. BufferInv'
  BY <1>2, <1>3, <1>5, <1>7 DEF BufferInv, serverVars
<1>9. ReadInv'
  <2>1. got' \in Seq(Characters) /\ All' = got' \o datagram
    BY <1>2, <1>3, <1>4
  <2>2. got' = got' \o SubSeq(datagram, 1, 0)
    BY <2>1, ConcatEmptySeq, SubSeqEmpty
  <2>3. user' # "resets"
    BY <1>2, <1>3 DEF ReadInv, serverVars
  <2>4. UDPbuffer' = datagram /\ UDPbufferPos' = 0 /\ UDPbufferSize' = Len(datagram)
    BY <1>2, <1>3
  <2>5. UDPbufferSize' # 0 => UDPbufferPos' < UDPbufferSize'
    BY <1>6, <2>4
  <2>6. \E before \in Seq(Characters) :
          All' = before \o UDPbuffer' /\ got' = before \o SubSeq(UDPbuffer', 1, UDPbufferPos')
    BY <2>1, <2>2, <2>4
  <2>7. \E rest \in Seq(Characters) : All' = got' \o rest
    BY <1>1, <2>1
  <2> QED  BY <2>1, <2>3, <2>5, <2>6, <2>7 DEF ReadInv
<1>10. ToldInv'
  BY <1>2, <1>5 DEF ToldInv
<1> QED  BY <1>8, <1>9, <1>10 DEF DatagramInv

LEMMA ReadKeeps ==
    ASSUME ServerTypeOK, DatagramInv, ~closed, NEW maxchars \in 1..3, readIt(maxchars)
    PROVE  DatagramInv'
<1> DEFINE n == Smaller(Remaining, maxchars)
           next == UDPbufferPos + n
<1>1. BufferInv /\ ReadInv /\ ToldInv /\ UDPbufferSize # 0
  BY DEF DatagramInv, BufferInv, readIt
<1>2. UDPbuffer \in Seq(Characters) /\ UDPbufferSize = Len(UDPbuffer) /\ Len(UDPbuffer) \in Nat
  <2>1. received # <<>> /\ UDPbuffer = received[Len(received)] /\ UDPbufferSize = Len(UDPbuffer)
    BY <1>1 DEF BufferInv
  <2> DEFINE texts == Seq(Characters)
  <2>2. received \in Seq(texts)
    BY DEF ServerTypeOK
  <2> HIDE DEF texts
  <2>3. Len(received) \in Nat \ {0}
    BY <2>1, <2>2, EmptySeq
  <2>4. UDPbuffer \in texts
    BY <2>1, <2>2, <2>3, ElementOfSeq
  <2> QED  BY <2>1, <2>4, LenProperties DEF texts
<1>3. user = "none" /\ UDPbufferPos < UDPbufferSize
  BY <1>1 DEF readIt, ReadInv
<1>4. n \in Nat /\ next \in Nat /\ next <= Len(UDPbuffer)
  BY <1>2, <1>3 DEF Smaller, Remaining, ServerTypeOK
<1>5. PICK before \in Seq(Characters) :
        All = before \o UDPbuffer /\ got = before \o SubSeq(UDPbuffer, 1, UDPbufferPos)
  BY <1>1, <1>3 DEF ReadInv
<1>6. /\ got' = got \o Copied(n) /\ UDPbufferPos' = next
      /\ user' = IF UDPbufferSize <= next THEN "resets" ELSE "none"
      /\ UNCHANGED <<socketType, fd, connected, closed, at, UDPbuffer, UDPbufferSize, received, told>>
  BY DEF readIt, listenerVars
<1>7. \A s, t, u \in Seq(Characters) : (s \o t) \o u = s \o (t \o u)
  BY ConcatAssociative
<1> HIDE DEF n
<1>8. got' = before \o SubSeq(UDPbuffer, 1, next)
  <2>1. /\ Copied(n) \in Seq(Characters)
        /\ SubSeq(UDPbuffer, 1, UDPbufferPos) \o Copied(n) = SubSeq(UDPbuffer, 1, next)
    BY <1>2, <1>4, TakeMore
  <2>2. SubSeq(UDPbuffer, 1, UDPbufferPos) \in Seq(Characters)
    <3>1. \A k \in 1..UDPbufferPos : UDPbuffer[k] \in Characters
      BY <1>2, <1>3, ElementOfSeq DEF ServerTypeOK
    <3> QED  BY <3>1, SubSeqProperties DEF ServerTypeOK
  <2> DEFINE taken == SubSeq(UDPbuffer, 1, UDPbufferPos)
             more == Copied(n)
  <2>3. (before \o taken) \o more = before \o (taken \o more)
    <3>1. before \in Seq(Characters) /\ taken \in Seq(Characters) /\ more \in Seq(Characters)
      BY <1>5, <2>1, <2>2
    <3> HIDE DEF taken, more
    <3> QED  BY <1>7, <3>1
  <2> QED  BY <1>5, <1>6, <2>1, <2>3
<1> HIDE DEF next
<1>9. SubSeq(UDPbuffer, 1, next) \in Seq(Characters)
  <2>1. \A k \in 1..next : UDPbuffer[k] \in Characters
    BY <1>2, <1>4, ElementOfSeq
  <2> QED  BY <1>4, <2>1, SubSeqProperties
<1>10. got' \in Seq(Characters)
  BY <1>5, <1>8, <1>9, ConcatProperties
<1>11. \E rest \in Seq(Characters) : All = got' \o rest
  <2> DEFINE rest == SubSeq(UDPbuffer, next + 1, Len(UDPbuffer))
  <2>1. rest \in Seq(Characters)
    <3>1. \A k \in next + 1..Len(UDPbuffer) : UDPbuffer[k] \in Characters
      BY <1>2, <1>4, ElementOfSeq
    <3> QED  BY <1>2, <1>4, <3>1, SubSeqProperties
  <2>2. SubSeq(UDPbuffer, 1, next) \o rest = UDPbuffer
    <3> DEFINE m == 1
               l == Len(UDPbuffer)
    <3>1. m \in 1..Len(UDPbuffer) + 1 /\ next \in m - 1..Len(UDPbuffer) /\ l \in next..Len(UDPbuffer)
      BY <1>2, <1>4
    <3>2. SubSeq(UDPbuffer, m, l) = UDPbuffer
      BY <1>2, SubSeqFull
    <3> HIDE DEF m, l
    <3>3. SubSeq(UDPbuffer, m, next) \o SubSeq(UDPbuffer, next + 1, l) = SubSeq(UDPbuffer, m, l)
      BY <1>2, <3>1, ConcatAdjacentSubSeq
    <3> QED  BY <3>2, <3>3 DEF m, l
  <2> HIDE DEF rest
  <2>3. (before \o SubSeq(UDPbuffer, 1, next)) \o rest = before \o (SubSeq(UDPbuffer, 1, next) \o rest)
    BY <1>5, <1>9, <1>7, <2>1
  <2> QED  BY <1>5, <1>8, <2>1, <2>2, <2>3
<1>12. user' = "resets" => got' = All
  <2>1. SUFFICES ASSUME user' = "resets" PROVE next = Len(UDPbuffer)
    BY <1>2, <1>5, <1>8, SubSeqFull
  <2> QED  BY <1>2, <1>4, <1>6, <2>1
<1>13. BufferInv'
  BY <1>1, <1>6 DEF BufferInv
<1>14. ReadInv'
  <2>1. All' = All /\ UDPbuffer' = UDPbuffer
    BY <1>6 DEF All
  <2>2. user' = "none" => UDPbufferPos' < UDPbufferSize'
    BY <1>2, <1>4, <1>6
  <2>3. All' = before \o UDPbuffer' /\ got' = before \o SubSeq(UDPbuffer', 1, UDPbufferPos')
    BY <1>5, <1>6, <1>8, <2>1
  <2>4. user' = "resets" => got' = All' /\ UDPbufferSize' # 0
    BY <1>1, <1>6, <1>12, <2>1
  <2> QED  BY <1>10, <1>11, <2>1, <2>2, <2>3, <2>4 DEF ReadInv
<1> QED  BY <1>1, <1>6, <1>13, <1>14 DEF DatagramInv, ToldInv

LEMMA ResetKeeps ==
    ASSUME ServerTypeOK, DatagramInv, ~closed, Reset
    PROVE  DatagramInv'
<1>1. BufferInv /\ ReadInv /\ ToldInv
  BY DEF DatagramInv
<1>2. UNCHANGED <<socketType, fd, connected, closed, at, UDPbuffer, received, told>>
  BY DEF Reset, listenerVars
<1>3. CASE UDPbufferPos # 0
  <2>1. user = "resets" /\ UDPbufferSize # 0
    BY <1>1, <1>3 DEF Reset, BufferInv
  <2>2. UDPbufferPos' = 0 /\ UNCHANGED <<UDPbufferSize, user, got>>
    BY <1>3 DEF Reset
  <2> QED  BY <1>1, <1>2, <2>1, <2>2 DEF DatagramInv, BufferInv, ReadInv, ToldInv, All
<1>4. CASE UDPbufferPos = 0
  <2>1. /\ UDPbufferSize' = 0 /\ user' = "none" /\ UDPbufferPos' = 0
        /\ got' = IF user = "flushes" THEN All ELSE got
    BY <1>4 DEF Reset, All
  <2>2. got' = All /\ All' = All
    BY <1>1, <1>2, <2>1 DEF Reset, ReadInv, All
  <2>3. All \in Seq(Characters) /\ <<>> \in Seq(Characters) /\ All = All \o <<>>
    <3>1. All \in Seq(Characters)
      BY FlattenType DEF ServerTypeOK, All
    <3> QED  BY <3>1, EmptySeq, ConcatEmptySeq
  <2>4. ToldInv'
    <3>1. received # <<>> => \/ told = Len(received[Len(received)])
                             \/ told = 0
      BY <1>1 DEF ToldInv
    <3> QED  BY <1>2, <2>1, <3>1 DEF ToldInv
  <2>5. BufferInv'
    BY <1>1, <1>2, <2>1, <2>2 DEF BufferInv
  <2>6. ReadInv'
    BY <2>1, <2>2, <2>3 DEF ReadInv
  <2> QED  BY <2>4, <2>5, <2>6 DEF DatagramInv
<1> QED  BY <1>3, <1>4

LEMMA DatagramNext ==
    ASSUME ServerTypeOK, DatagramInv, [Next]_vars
    PROVE  DatagramInv'
<1> USE DEF Goes
<1>1. SUFFICES ASSUME ~closed PROVE DatagramInv'
  <2>1. ASSUME closed PROVE closed'
    BY <2>1 DEF Next, Listens, Serves, Loop, epicsSocketAccept, Search, TooMany, connectDevice, Connected,
       TellPort, recvfrom, TellDatagram, Unblocked, connectWith, connectOwn, closeSocket,
       exceptionDisconnect, enable, Connects, readIt, flushIt, Reset, disconnect, Disconnected,
       connectIt, vars, serverVars
  <2> QED  BY <1>1, <2>1 DEF DatagramInv
<1>2. BufferInv /\ ReadInv /\ ToldInv
  BY <1>1 DEF DatagramInv
<1>3. at # "stuck" /\ (at = "blocked" => UDPbufferSize = 0)
  BY <1>2 DEF BufferInv
<1>4. CASE UNCHANGED vars
  BY <1>3, <1>4, DatagramFrame DEF vars, listenerVars
<1>5. CASE Loop
  BY <1>2, <1>5, DatagramFrame DEF Loop, BufferInv, ServerTypeOK
<1>6. ASSUME NEW c \in Clients, epicsSocketAccept(c) PROVE DatagramInv'
  BY <1>6, DatagramFrame DEF epicsSocketAccept
<1>7. CASE Search
  BY <1>7, DatagramFrame DEF Search
<1>8. CASE TooMany
  BY <1>8, DatagramFrame DEF TooMany
<1>9. CASE connectDevice
  BY <1>9, DatagramFrame DEF connectDevice, Lose
<1>10. CASE Connected
  BY <1>10, DatagramFrame DEF Connected, Lose
<1>11. CASE TellPort
  BY <1>11, DatagramFrame DEF TellPort
<1>12. CASE TellDatagram
  <2>1. /\ at' # "blocked" /\ at' # "stuck"
        /\ told' = UDPbufferSize \/ told' = told
        /\ UNCHANGED <<serverVars, UDPbuffer, UDPbufferSize, UDPbufferPos, received, got>>
    BY <1>12 DEF TellDatagram, bufferVars
  <2>2. ToldInv'
    BY <1>2, <2>1 DEF ToldInv, BufferInv
  <2> QED  BY <1>2, <2>1, <2>2 DEF DatagramInv, BufferInv, ReadInv, All, serverVars
<1>13. CASE recvfrom
  BY <1>1, <1>13, ReceiveKeeps
<1>14. CASE Unblocked
  BY <1>3, <1>14 DEF Unblocked
<1>15. ASSUME NEW p \in Ports, connectWith(p) PROVE DatagramInv'
  BY <1>3, <1>15, DatagramFrame DEF connectWith, listenerVars
<1>16. ASSUME NEW p \in Ports, exceptionDisconnect(p) PROVE DatagramInv'
  BY <1>3, <1>16, DatagramFrame DEF exceptionDisconnect, listenerVars
<1>17. ASSUME NEW p \in Ports, closeSocket(p) PROVE DatagramInv'
  BY <1>3, <1>17, DatagramFrame DEF closeSocket, listenerVars
<1>18. ASSUME NEW p \in Ports, NEW yesNo \in BOOLEAN, enable(p, yesNo) PROVE DatagramInv'
  BY <1>3, <1>18, DatagramFrame DEF enable, listenerVars
<1>19. ASSUME NEW p \in Ports, NEW c \in Clients, connectOwn(p, c) PROVE DatagramInv'
  BY <1>3, <1>19, DatagramFrame DEF connectOwn, listenerVars
<1>20. ASSUME NEW c \in Clients, Connects(c) PROVE DatagramInv'
  BY <1>3, <1>20, DatagramFrame DEF Connects, listenerVars
<1>21. ASSUME NEW maxchars \in 1..3, readIt(maxchars) PROVE DatagramInv'
  BY <1>1, <1>21, ReadKeeps
<1>22. CASE flushIt
  BY <1>2, <1>22 DEF flushIt, DatagramInv, BufferInv, ReadInv, ToldInv, All, listenerVars
<1>23. CASE Reset
  BY <1>1, <1>23, ResetKeeps
<1>24. CASE disconnect
  BY <1>24 DEF disconnect, DatagramInv
<1>25. CASE Disconnected
  BY <1>2, <1>25 DEF Disconnected, BufferInv
<1>26. CASE connectIt
  BY <1>2, <1>26 DEF connectIt, BufferInv
<1> QED
  BY <1>4, <1>5, <1>6, <1>7, <1>8, <1>9, <1>10, <1>11, <1>12, <1>13, <1>14, <1>15, <1>16, <1>17,
     <1>18, <1>19, <1>20, <1>21, <1>22, <1>23, <1>24, <1>25, <1>26
  DEF Next, Listens, Serves
-----------------------------------------------------------------------------
(***************************************************************************)
(* The theorems.                                                           *)
(***************************************************************************)
LEMMA ServerInit ==
    Init => ServerIInv
<1> SUFFICES ASSUME Init PROVE ServerIInv
  OBVIOUS
<1> USE ServerAssumption
<1>1. FlattenSeq(<<>>) = <<>>
  BY DEF FlattenSeq
<1>2. ServerTypeOK
  <2>1. port \in [Ports -> Port]
    BY DEF Init, Port
  <2>2. UDPbuffer \in Text /\ got \in Text /\ received \in Seq(Seq(Characters))
    BY EmptySeq DEF Init, Text
  <2>3. client \in [Clients -> {"away", "waits", "open", "closed"}]
    BY DEF Init
  <2>4. fd \in BOOLEAN /\ connected \in BOOLEAN /\ closed \in BOOLEAN
    BY DEF Init
  <2>5. /\ socketType \in {"SOCK_STREAM", "SOCK_DGRAM"} /\ user = "none" /\ at = "loop" /\ i = 1
        /\ clientFd = NoSocket /\ UDPbufferSize = 0 /\ UDPbufferPos = 0 /\ told = 0
        /\ free = {} /\ lost = {} /\ calls = 0
    BY DEF Init
  <2> QED  BY <2>1, <2>2, <2>3, <2>4, <2>5 DEF ServerTypeOK, Places
<1>3. ConnectionInv
  BY DEF Init, ConnectionInv, ListenerInv, SocketInv, SearchInv, Held
<1>4. BufferInv
  BY <1>1 DEF Init, BufferInv, All
<1>5. ReadInv
  <2>1. <<>> \in Seq(Characters) /\ <<>> = <<>> \o <<>>
    BY EmptySeq, ConcatEmptySeq
  <2> QED  BY <1>1, <2>1 DEF Init, ReadInv, All
<1>6. ToldInv
  BY DEF Init, ToldInv
<1> QED  BY <1>2, <1>3, <1>4, <1>5, <1>6 DEF ServerIInv, ConnectionInv, DatagramInv

LEMMA ServerInductive ==
    Spec => []ServerIInv
<1>1. ServerIInv /\ [Next]_vars => ServerIInv'
  BY TypeNext, ConnectionNext, DatagramNext DEF ServerIInv, ConnectionInv
<1> QED  BY ServerInit, <1>1, PTL DEF Spec

\* The variables of the server port keep their types: the loop variable of
\* connectionListener never leaves its range, readIt never moves the position
\* in the buffer below zero, whatever size a failed recvfrom leaves.
THEOREM ServerTypeCorrect == Spec => []ServerTypeOK
BY ServerInductive, PTL DEF ServerIInv

\* A connection that connectionListener accepted belongs to one client port at
\* most, and to none while the thread still looks for one, which is open that
\* long: a user that closes a port never closes what another port or the
\* thread has.  At most one port has a request of the thread, the one at i.
THEOREM ConnectionsOwned == Spec => [](ListenerInv /\ SocketInv)
BY ServerInductive, PTL DEF ServerIInv

\* The search of connectionListener starts at the first port: past the end of
\* them, none is left that was free all the time.
LEMMA RefusedStep ==
    ASSUME ServerTypeOK, ConnectionInv, [Next]_vars, at = "search", client'[clientFd] = "closed"
    PROVE  free = {}
<1> USE DEF serverVars, listenerVars, tcpVars
<1>1. clientFd \in Clients /\ client[clientFd] = "open" /\ \A p \in Ports : port[p].fd # clientFd
  BY DEF ConnectionInv, ListenerInv, SocketInv, Held
<1>2. CASE TooMany
  BY <1>2, ServerAssumption DEF TooMany, SearchEnds, ConnectionInv, SearchInv, ServerTypeOK, Ports
<1>3. ASSUME NEW p \in Ports, closeSocket(p) PROVE FALSE
  BY <1>1, <1>3 DEF closeSocket
<1>4. ASSUME NEW p \in Ports, NEW c \in Clients, connectOwn(p, c) PROVE FALSE
  BY <1>1, <1>4 DEF connectOwn, ServerTypeOK
<1>5. ASSUME NEW c \in Clients, Connects(c) PROVE FALSE
  BY <1>1, <1>5 DEF Connects, ServerTypeOK
<1>6. CASE disconnect
  BY <1>1, <1>6 DEF disconnect
<1>7. ASSUME UNCHANGED client PROVE FALSE
  BY <1>1, <1>7
<1>8. ASSUME NEW c \in Clients, epicsSocketAccept(c) PROVE FALSE
  BY <1>8 DEF epicsSocketAccept
<1>9. CASE UNCHANGED vars
  BY <1>7, <1>9 DEF vars
<1>10. CASE Loop \/ Search \/ connectDevice \/ Connected \/ TellPort \/ TellDatagram \/ recvfrom \/ Unblocked
  BY <1>7, <1>10 DEF Loop, Search, connectDevice, Connected, TellPort, TellDatagram, recvfrom, Unblocked
<1>11. CASE Serves \/ \E p \in Ports, yesNo \in BOOLEAN : enable(p, yesNo)
  BY <1>7, <1>11 DEF Serves, connectWith, exceptionDisconnect, enable
<1>12. CASE (\E maxchars \in 1..3 : readIt(maxchars)) \/ flushIt \/ Reset \/ Disconnected \/ connectIt
  BY <1>7, <1>12 DEF readIt, flushIt, Reset, Disconnected, connectIt
<1> QED
  BY <1>2, <1>3, <1>4, <1>5, <1>6, <1>8, <1>9, <1>10, <1>11, <1>12 DEF Next, Listens

\* asynDriver.rst:4477: connectionListener closes a connection only if every
\* client port was busy at some time since the connection was accepted.
THEOREM RefusedOnlyWhenFull == Spec => RefusedWhenFull
<1>1. ServerIInv /\ [Next]_vars =>
        [\A c \in Clients : at = "search" /\ c = clientFd /\ client'[c] = "closed" => free = {}]_vars
  BY RefusedStep DEF ServerIInv, ConnectionInv
<1> QED  BY ServerInductive, <1>1, PTL DEF Spec, RefusedWhenFull

\* What the invariant says of the history.
LEMMA DatagramsFollow ==
    ASSUME ServerTypeOK, DatagramInv
    PROVE  DatagramsWhole
<1> SUFFICES ASSUME ~closed PROVE DatagramsWhole
  BY DEF DatagramsWhole
<1>1. BufferInv /\ ReadInv /\ ToldInv
  BY DEF DatagramInv
<1>2. IsPrefix(got, All)
  <2>1. PICK rest \in Seq(Characters) : got \in Seq(Characters) /\ All = got \o rest
    BY <1>1 DEF ReadInv
  <2>2. Len(got) \in Nat /\ Len(rest) \in Nat /\ Len(All) = Len(got) + Len(rest)
    BY <2>1, ConcatProperties, LenProperties
  <2>3. SubSeq(got, 1, Len(got)) = SubSeq(All, 1, Len(got))
    <3>1. CASE Len(got) = 0
      BY <3>1, SubSeqEmpty
    <3>2. CASE Len(got) # 0
      <4> DEFINE m == 1
                 n == Len(got)
      <4>1. m \in 1..Len(got) /\ n \in 1..Len(got)
        BY <2>2, <3>2
      <4> HIDE DEF m, n
      <4>2. SubSeq(got \o rest, m, n) = SubSeq(got, m, n)
        BY <2>1, <4>1, SubSeqOfConcat1
      <4> QED  BY <2>1, <4>2 DEF m, n
    <3> QED  BY <3>1, <3>2
  <2> QED  BY <2>2, <2>3 DEF IsPrefix
<1>3. UDPbufferSize = 0 => got = All
  BY <1>1 DEF BufferInv
<1> QED  BY <1>1, <1>2, <1>3 DEF DatagramsWhole, ToldInv, All, Last

\* drvAsynIPServerPort.c:202-223, 319, 326: readIt, flushIt and the listener
\* thread pass on whole datagrams, in order, although they share the buffer
\* without a lock, for any number, length and contents of the datagrams.
THEOREM DatagramsReadWhole == Spec => []DatagramsWhole
BY ServerInductive, DatagramsFollow, PTL DEF ServerIInv
=============================================================================
