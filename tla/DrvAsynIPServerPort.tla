------------------------- MODULE DrvAsynIPServerPort -------------------------
(***************************************************************************)
(* drvAsynIPServerPort (asyn/drvAsynSerial/drvAsynIPServerPort.c): a       *)
(* thread accepts connections and gives each to a drvAsynIPPort that is    *)
(* not connected, or receives datagrams into a buffer that the port's      *)
(* users read without a lock against it.                                   *)
(*                                                                         *)
(* Each client connects once.  A client port is its socket, what           *)
(* asynManager keeps of it and the listener's request to connect it; its   *)
(* users may close it, open it to an address of their own, disable it.     *)
(* The exit handler is not part of this module.                            *)
(***************************************************************************)
EXTENDS Integers, Sequences, SequencesExt

CONSTANTS
    Clients, maxClients,
    NumUsers,       \* interrupt users of the listener port
    Datagrams,      \* the datagrams, in the order they are sent
    NoSocket, Own,  \* INVALID_SOCKET, a socket that the port opened itself
    MaxCalls        \* bound: calls of the users that open, enable or disable

Ports == 1..maxClients
Characters == UNION {ToSet(datagram) : datagram \in ToSet(Datagrams)}

ASSUME ServerAssumption ==
    /\ maxClients \in Nat \ {0} /\ NumUsers \in Nat
    /\ NoSocket \notin Clients /\ Own \notin Clients
    /\ Datagrams \in Seq(Seq(Characters))

VARIABLES
    socketType,
    fd, connected,  \* the listener port: it has a socket, dpc.connected
    at, i,          \* where the listener thread is, its loop variable
    clientFd,       \* the connection it has accepted
    port,           \* the client ports
    client,         \* the clients
    UDPbuffer, UDPbufferSize, UDPbufferPos,
    user,           \* where the user of the listener port is that holds it
    received,       \* history: the datagrams received
    got,            \* history: what of them was read or tossed
    told,           \* history: how much of the last one an interrupt user was given
    free,           \* history: ports that were free ever since clientFd was accepted
    lost,           \* history: connections that no port would take
    closed,         \* history: the listener port was disconnected
    calls

listenerVars == <<at, i, clientFd>>
tcpVars == <<port, client, free, lost>>
bufferVars == <<UDPbuffer, UDPbufferSize, UDPbufferPos>>
udpVars == <<bufferVars, received, got, told>>
serverVars == <<socketType, fd, connected, user, closed>>
vars == <<serverVars, listenerVars, tcpVars, udpVars, calls>>

Free(p) == ~port[p].connected

Goes(place) == at' = place

-----------------------------------------------------------------------------
(***************************************************************************)
(* connectionListener                                                      *)
(***************************************************************************)
\* the thread ends when the socket is gone, and nothing starts it again
Loop ==
    /\ at = "loop"
    /\ Goes(IF ~fd THEN "stopped"
            ELSE IF socketType = "SOCK_DGRAM" /\ (UDPbufferPos # 0 \/ UDPbufferSize # 0) THEN "loop"
            ELSE "blocked")
    /\ UNCHANGED <<serverVars, i, clientFd, tcpVars, udpVars, calls>>

epicsSocketAccept(c) ==
    /\ at = "blocked" /\ socketType = "SOCK_STREAM"
    /\ client[c] = "waits"
    /\ client' = [client EXCEPT ![c] = "open"]
    /\ clientFd' = c
    /\ free' = {p \in Ports : Free(p)}
    /\ i' = 1
    /\ Goes("search")
    /\ UNCHANGED <<serverVars, port, lost, udpVars, calls>>

\* mutant: the last port is not looked at
SearchEnds_early == i = maxClients

SearchEnds == i > maxClients

\* the first port that is not connected
Search ==
    /\ at = "search"
    /\ ~SearchEnds
    /\ IF Free(i) THEN Goes("connect") /\ UNCHANGED i ELSE i' = i + 1 /\ UNCHANGED at
    /\ UNCHANGED <<serverVars, clientFd, tcpVars, udpVars, calls>>

\* mutant: the thread is over when a client too many comes
TooMany_stops ==
    /\ at = "search"
    /\ SearchEnds
    /\ client' = [client EXCEPT ![clientFd] = "closed"]
    /\ clientFd' = NoSocket
    /\ Goes("stopped")
    /\ UNCHANGED <<serverVars, i, port, free, lost, udpVars, calls>>

TooMany ==
    /\ at = "search"
    /\ SearchEnds
    /\ client' = [client EXCEPT ![clientFd] = "closed"]
    /\ clientFd' = NoSocket
    /\ Goes("loop")
    /\ UNCHANGED <<serverVars, i, port, free, lost, udpVars, calls>>

\* connectDevice failed: the socket is neither closed nor kept
Lose ==
    /\ lost' = lost \cup {clientFd}
    /\ clientFd' = NoSocket
    /\ Goes("loop")

\* connectDevice of asynCommonSyncIO: the request, and its answer
connectDevice ==
    /\ at = "connect"
    /\ IF port[i].enabled
       THEN /\ port' = [port EXCEPT ![i].request = "queued"]
            /\ Goes("wait")
            /\ UNCHANGED <<clientFd, lost>>
       ELSE Lose /\ UNCHANGED port
    /\ UNCHANGED <<serverVars, i, client, free, udpVars, calls>>

Connected ==
    /\ at = "wait"
    /\ port[i].request \in {"success", "error"}
    /\ port' = [port EXCEPT ![i].request = "none"]
    /\ IF port[i].request = "success" THEN Goes("tell") /\ UNCHANGED <<clientFd, lost>> ELSE Lose
    /\ UNCHANGED <<serverVars, i, client, free, udpVars, calls>>

\* the interrupt users are told the name of the port
TellPort ==
    /\ at = "tell" /\ socketType = "SOCK_STREAM"
    /\ clientFd' = NoSocket
    /\ Goes("loop")
    /\ UNCHANGED <<serverVars, i, tcpVars, udpVars, calls>>

recvfrom ==
    /\ at = "blocked" /\ socketType = "SOCK_DGRAM"
    /\ Len(received) < Len(Datagrams)
    /\ LET datagram == Datagrams[Len(received) + 1]
       IN /\ UDPbuffer' = datagram
          /\ UDPbufferSize' = Len(datagram)
          /\ told' = Len(datagram)
          /\ received' = Append(received, datagram)
    /\ i' = 1
    /\ Goes("tell")
    /\ UNCHANGED <<serverVars, clientFd, tcpVars, UDPbufferPos, got, calls>>

\* each interrupt user is given the buffer, and its size as it is by then
TellDatagram ==
    /\ at = "tell" /\ socketType = "SOCK_DGRAM"
    /\ IF i <= NumUsers THEN i' = i + 1 /\ told' = UDPbufferSize /\ UNCHANGED at
                        ELSE Goes("loop") /\ UNCHANGED <<i, told>>
    /\ UNCHANGED <<serverVars, clientFd, tcpVars, bufferVars, received, got, calls>>

\* the call fails, if it ever returns, after its socket was closed
Unblocked ==
    /\ at = "stuck"
    /\ IF socketType = "SOCK_DGRAM" THEN UDPbufferSize' = -1 /\ i' = 1 /\ Goes("tell")
       ELSE Goes(IF fd THEN "loop" ELSE "stopped") /\ UNCHANGED <<i, UDPbufferSize>>
    /\ UNCHANGED <<serverVars, clientFd, tcpVars, UDPbuffer, UDPbufferPos, received, got, told, calls>>

Listens ==
    \/ Loop \/ Search \/ TooMany \/ connectDevice \/ Connected
    \/ TellPort \/ TellDatagram \/ recvfrom
    \/ \E c \in Clients : epicsSocketAccept(c)

-----------------------------------------------------------------------------
(***************************************************************************)
(* The client ports: whoever is called holds the port.                     *)
(***************************************************************************)
Calls == calls < MaxCalls /\ calls' = calls + 1

\* connectIt of drvAsynIPPort with the descriptor in pasynUser->reason
connectWith(p) ==
    /\ port[p].request = "queued"
    /\ port[p].enabled /\ ~port[p].closing
    /\ IF port[p].fd # NoSocket THEN port' = [port EXCEPT ![p].request = "error"]
       ELSE port' = [port EXCEPT ![p].request = "success", ![p].fd = clientFd, ![p].connected = TRUE]
    /\ UNCHANGED <<serverVars, listenerVars, client, free, lost, udpVars, calls>>

\* a user opens it, to serverInfo: that is, a new client of the listener
connectOwn(p, c) ==
    /\ Calls /\ socketType = "SOCK_STREAM"
    /\ port[p].enabled /\ ~port[p].closing /\ port[p].fd = NoSocket
    /\ fd /\ client[c] = "away"
    /\ client' = [client EXCEPT ![c] = "waits"]
    /\ port' = [port EXCEPT ![p].fd = Own, ![p].connected = TRUE]
    /\ free' = free \ {p}
    /\ UNCHANGED <<serverVars, listenerVars, lost, udpVars>>

\* closeConnection, of a user that disconnects or finds that the client is gone
closeSocket(p) ==
    /\ ~port[p].closing /\ port[p].fd # NoSocket
    /\ client' = [c \in Clients |-> IF c = port[p].fd THEN "closed" ELSE client[c]]
    /\ port' = [port EXCEPT ![p].fd = NoSocket, ![p].closing = TRUE]
    /\ UNCHANGED <<serverVars, listenerVars, free, lost, udpVars, calls>>

exceptionDisconnect(p) ==
    /\ port[p].closing
    /\ port' = [port EXCEPT ![p].connected = FALSE, ![p].closing = FALSE]
    /\ UNCHANGED <<serverVars, listenerVars, client, free, lost, udpVars, calls>>

enable(p, yesNo) ==
    /\ Calls /\ socketType = "SOCK_STREAM"
    /\ port' = [port EXCEPT ![p].enabled = yesNo]
    /\ UNCHANGED <<serverVars, listenerVars, client, free, lost, udpVars>>

Connects(c) ==
    /\ fd /\ client[c] = "away" /\ socketType = "SOCK_STREAM"
    /\ client' = [client EXCEPT ![c] = "waits"]
    /\ UNCHANGED <<serverVars, listenerVars, port, free, lost, udpVars, calls>>

-----------------------------------------------------------------------------
(***************************************************************************)
(* The listener port: one user at a time.                                  *)
(***************************************************************************)
Smaller(m, n) == IF m < n THEN m ELSE n

\* mutant: as much as the whole datagram is long
Remaining_whole == UDPbufferSize

Remaining == IF UDPbufferSize < UDPbufferPos THEN 0 ELSE UDPbufferSize - UDPbufferPos

\* what was never written is garbage
Copied(n) == [k \in 1..n |-> IF UDPbufferPos + k <= Len(UDPbuffer) THEN UDPbuffer[UDPbufferPos + k] ELSE "garbage"]

readIt(maxchars) ==
    /\ user = "none" /\ connected /\ fd /\ socketType = "SOCK_DGRAM"
    /\ UDPbufferPos # 0 \/ UDPbufferSize # 0     \* otherwise nothing is read, and that is no timeout
    /\ LET thisRead == Smaller(Remaining, maxchars)
       IN /\ got' = got \o Copied(thisRead)
          /\ UDPbufferPos' = UDPbufferPos + thisRead
          /\ user' = IF UDPbufferSize <= UDPbufferPos + thisRead THEN "resets" ELSE "none"
    /\ UNCHANGED <<socketType, fd, connected, closed, listenerVars, tcpVars, UDPbuffer, UDPbufferSize,
                   received, told, calls>>

flushIt ==
    /\ user = "none" /\ connected /\ socketType = "SOCK_DGRAM"
    /\ UDPbufferPos' = 0
    /\ user' = "flushes"
    /\ UNCHANGED <<socketType, fd, connected, closed, listenerVars, tcpVars, UDPbuffer, UDPbufferSize,
                   received, got, told, calls>>

\* the position is reset first, then the size; a flush tosses a datagram that
\* came in between
Reset ==
    /\ user \in {"resets", "flushes"}
    /\ \/ UDPbufferPos # 0 /\ UDPbufferPos' = 0 /\ UNCHANGED <<UDPbufferSize, user, got>>
       \/ /\ UDPbufferPos = 0
          /\ UDPbufferSize' = 0
          /\ user' = "none"
          /\ got' = IF user = "flushes" THEN FlattenSeq(received) ELSE got
          /\ UNCHANGED UDPbufferPos
    /\ UNCHANGED <<socketType, fd, connected, closed, listenerVars, tcpVars, UDPbuffer, received, told, calls>>

\* closeConnection; who waits to be accepted is refused
disconnect ==
    /\ Calls
    /\ user = "none" /\ fd
    /\ fd' = FALSE
    /\ closed' = TRUE
    /\ user' = "closing"
    /\ client' = [c \in Clients |-> IF client[c] = "waits" THEN "closed" ELSE client[c]]
    /\ Goes(IF at = "blocked" THEN "stuck" ELSE at)
    /\ UNCHANGED <<socketType, connected, i, clientFd, port, free, lost, udpVars>>

Disconnected ==
    /\ user = "closing"
    /\ connected' = FALSE
    /\ user' = "none"
    /\ UNCHANGED <<socketType, fd, closed, listenerVars, tcpVars, udpVars, calls>>

\* connectIt: the port is connected with a new socket and a new buffer, or
\* without a socket
connectIt ==
    /\ Calls
    /\ user = "none" /\ ~connected
    /\ connected' = TRUE
    /\ \/ fd' = TRUE /\ UDPbuffer' = <<>>
       \/ UNCHANGED <<fd, UDPbuffer>>
    /\ UNCHANGED <<socketType, user, closed, listenerVars, tcpVars, UDPbufferSize, UDPbufferPos,
                   received, got, told>>

-----------------------------------------------------------------------------
\* drvAsynIPServerPortConfigure is over and the listener thread begins
Init ==
    /\ socketType \in {"SOCK_STREAM", "SOCK_DGRAM"}
    /\ fd = TRUE /\ connected = TRUE /\ user = "none" /\ closed = FALSE
    /\ at = "loop" /\ i = 1 /\ clientFd = NoSocket
    /\ port = [p \in Ports |-> [fd |-> NoSocket, connected |-> FALSE, enabled |-> TRUE,
                                closing |-> FALSE, request |-> "none"]]
    /\ client = [c \in Clients |-> "away"]
    /\ UDPbuffer = <<>> /\ UDPbufferSize = 0 /\ UDPbufferPos = 0
    /\ received = <<>> /\ got = <<>> /\ told = 0
    /\ free = {} /\ lost = {} /\ calls = 0

Serves == \E p \in Ports : connectWith(p) \/ exceptionDisconnect(p)

Next ==
    \/ Listens \/ Unblocked \/ Serves
    \/ \E p \in Ports : closeSocket(p) \/ \E yesNo \in BOOLEAN : enable(p, yesNo)
    \/ \E p \in Ports, c \in Clients : connectOwn(p, c)
    \/ \E c \in Clients : Connects(c)
    \/ \E maxchars \in 1..3 : readIt(maxchars)
    \/ flushIt \/ Reset \/ disconnect \/ Disconnected \/ connectIt

Spec == Init /\ [][Next]_vars

\* the listener thread and the port threads go on
FairSpec == Spec /\ WF_vars(Listens) /\ \A p \in Ports : WF_vars(connectWith(p)) /\ WF_vars(exceptionDisconnect(p))

-----------------------------------------------------------------------------
\* asynDriver.rst:4477: a client is turned away only if no port was free all the
\* time since it was accepted
RefusedWhenFull ==
    [][\A c \in Clients : at = "search" /\ c = clientFd /\ client'[c] = "closed" => free = {}]_vars

\* drvAsynIPServerPort.c:202-223, 319, 326: what was read or tossed are the
\* datagrams, complete and in order, and the next one is not received before;
\* an interrupt user is given a whole datagram, or nothing of one that was read
\* or tossed meanwhile, as long as the port was not disconnected
DatagramsWhole ==
    ~closed =>
      /\ IsPrefix(got, FlattenSeq(received))
      /\ user = "none" /\ UDPbufferPos = 0 /\ UDPbufferSize = 0 => got = FlattenSeq(received)
      /\ received # <<>> => \/ told = Len(Last(received))
                            \/ told = 0 /\ got = FlattenSeq(received)

\* RELEASE.md:1428: the thread goes on after any error: every client is accepted,
\* if the listener port was not disconnected and no client port stays disabled
Answered ==
    <>[](~closed /\ \A p \in Ports : port[p].enabled) => []<>(\A c \in Clients : client[c] # "waits")
=============================================================================
