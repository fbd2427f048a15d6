---------------------------- MODULE DrvAsynIPPort ----------------------------
(***************************************************************************)
(* drvAsynIPPort: a port whose device is a TCP, UDP or Unix socket.  A     *)
(* datagram on the line ends with "|".  Every call is made by the thread   *)
(* that has the port; what the network does meanwhile is in the set of     *)
(* outcomes of the call.                                                   *)
(***************************************************************************)
EXTENDS OctetPeer

\* the connection is given up, and with it what was not received
Hangup(s) ==
  [s EXCEPT !.tty.fd = FALSE, !.line = [in |-> <<>>, closed |-> "no"], !.h.sent = s.h.heard]

\* the layers above are told of a disconnection as of a connection
eosInExceptionHandler(s) ==
  [s EXCEPT !.eos.inBuf = <<>>, !.eos.eosInMatch = 0, !.h.fresh = TRUE,
            !.h.sent = Pending(s), !.h.heard = <<>>, !.h.told = <<>>, !.h.message = <<>>]

exceptionDisconnect(s) ==
  IF s.port.connected THEN eosInExceptionHandler([s EXCEPT !.port.connected = FALSE]) ELSE s

\* mutant: nobody is told
closeConnectionQuietly(s) == IF s.tty.fd THEN Hangup(s) ELSE s

closeConnection(s) ==
  LET closed == IF s.tty.fd THEN Hangup(s) ELSE s
  IN IF "CONNECT_PER_TRANSACTION" \notin s.tty.flags \/ "SHUTDOWN" \in s.tty.flags
     THEN exceptionDisconnect(closed)
     ELSE closed

-----------------------------------------------------------------------------
(***************************************************************************)
(* The address: form is "host:port", "unix://" or "bad".                   *)
(***************************************************************************)
SocketType(protocol) == IF protocol \in {"udp", "udp*"} THEN "SOCK_DGRAM" ELSE "SOCK_STREAM"

ProtocolFlags(protocol) == IF protocol = "http" THEN {"CONNECT_PER_TRANSACTION"} ELSE {}

parseHostInfo(s, hostInfo) ==
  LET old == IF s.tty.fd THEN closeConnection([s EXCEPT !.tty.flags = @ \cup {"SHUTDOWN"}]) ELSE s
      shut == [old EXCEPT !.tty.flags = {"SHUTDOWN"}, !.tty.IPDeviceName = hostInfo]
      ready == [shut EXCEPT !.tty.flags = {"NEED_LOOKUP"} \cup ProtocolFlags(hostInfo.protocol),
                            !.tty.socketType = SocketType(hostInfo.protocol)]
  IN IF hostInfo.form = "bad" THEN [s |-> shut, status |-> "error"]
     ELSE IF hostInfo.form = "unix://"
     THEN [s |-> [shut EXCEPT !.tty.flags = {}, !.tty.socketType = "SOCK_STREAM"], status |-> "success"]
     ELSE IF hostInfo.protocol = "unknown"
     THEN [s |-> [shut EXCEPT !.tty.flags = @ \cup {"NEED_LOOKUP"}], status |-> "error"]
     ELSE [s |-> ready, status |-> "success"]

-----------------------------------------------------------------------------
Connected(s) == {[s |-> [t EXCEPT !.tty.fd = TRUE, !.line = [in |-> <<>>, closed |-> "no"]],
                  status |-> "success"] : t \in Accepts(s)}

lookup(s) ==
  IF "NEED_LOOKUP" \in s.tty.flags
  THEN [s EXCEPT !.tty.flags = (@ \ {"NEED_LOOKUP"}) \cup {"DONE_LOOKUP"}]
  ELSE s

\* a name that was looked up once is looked up again after a failure
lookupAgain(s) ==
  [s EXCEPT !.tty.flags = IF "DONE_LOOKUP" \in @ THEN @ \cup {"NEED_LOOKUP"} ELSE @]

connectIt(s) ==
  LET failed == [s |-> s, status |-> "error"]
  IN IF s.tty.fd \/ "SHUTDOWN" \in s.tty.flags THEN {failed}
     ELSE {failed}                      \* no socket, or no such host
            \cup IF s.tty.socketType = "SOCK_DGRAM" THEN Connected(lookup(s))
                 ELSE {[s |-> lookupAgain(lookup(s)), status |-> "error"]}
                        \cup IF s.peer.up THEN Connected(lookup(s)) ELSE {}

\* the part of asynCommonConnect before exceptionConnect
openForConnect(s) ==
  IF "CONNECT_PER_TRANSACTION" \in s.tty.flags THEN {[s |-> s, status |-> "success"]} ELSE connectIt(s)

asynCommonDisconnect(s) ==
  LET closed == closeConnection(s)
  IN IF "CONNECT_PER_TRANSACTION" \in s.tty.flags THEN exceptionDisconnect(closed) ELSE closed

\* at exit: the socket is closed and nothing is told of it
cleanup(s) == IF s.tty.fd THEN [Hangup(s) EXCEPT !.tty.flags = @ \cup {"SHUTDOWN"}] ELSE s

\* what a write or a read needs first; http opens a connection for each
Socket(s) ==
  IF s.tty.fd THEN {[s |-> s, status |-> "success"]}
  ELSE IF "CONNECT_PER_TRANSACTION" \in s.tty.flags THEN connectIt(s)
  ELSE {[s |-> s, status |-> "error"]}

-----------------------------------------------------------------------------
Sent(s, data) == {Outcome(t, "success", data, {}) : t \in Receives(s, data)}

\* what send takes of data before it takes no more; a datagram goes whole
Parts(s, data) ==
  {SubSeq(data, 1, k) : k \in 0..IF s.tty.socketType = "SOCK_DGRAM" THEN 0 ELSE Len(data) - 1}

\* poll or send did not take all of it in time, or the connection broke
SentInPart(s, data) ==
  LET Stopped(t, part) == {Outcome(t, "timeout", part, {}), Outcome(closeConnection(t), "error", part, {})}
  IN IF s.config.timely THEN {}
     ELSE UNION {UNION {Stopped(t, part) : t \in Receives(s, part)} : part \in Parts(s, data)}

\* to a closed connection a first write may succeed
SentToNobody(s, data) == {Outcome(s, "success", data, {}), Failed(closeConnection(s), "error")}

Send(s, data) ==
  IF data = <<>> THEN {Outcome(s, "success", <<>>, {})}
  ELSE IF s.line.closed # "no" THEN SentToNobody(s, data)
  ELSE Sent(s, data) \cup SentInPart(s, data)

IP_writeIt(s, data) ==
  UNION {IF c.status = "success" THEN Send(c.s, data) ELSE {Failed(c.s, "error")} : c \in Socket(s)}

-----------------------------------------------------------------------------
\* recv takes data from the line; rest is what it leaves there
Received(s, data, rest, maxchars) ==
  Outcome([s EXCEPT !.line.in = rest], "success", data, IF Len(data) = maxchars THEN {"CNT"} ELSE {})

\* the first characters, however many have come
recvStream(s, maxchars) ==
  {Received(s, SubSeq(s.line.in, 1, k), SubSeq(s.line.in, k + 1, Len(s.line.in)), maxchars) :
     k \in 1..(IF Len(s.line.in) < maxchars THEN Len(s.line.in) ELSE maxchars)}

\* one datagram, what does not fit is gone
recvfrom(s, maxchars) ==
  LET end == SelectInSeq(s.line.in, LAMBDA c : c = "|")
      datagram == SubSeq(s.line.in, 1, end - 1)
      fits == IF Len(datagram) < maxchars THEN datagram ELSE SubSeq(datagram, 1, maxchars)
      rest == [s EXCEPT !.line.in = SubSeq(@, end + 1, Len(@))]
  IN {Received([s EXCEPT !.h.sent = s.h.heard \o fits \o Pending(rest)], fits, rest.line.in, maxchars)}

\* a read that was not to wait keeps the connection
timedOut(s) ==
  {Failed(s, "timeout")}
    \cup IF s.tty.disconnectOnReadTimeout THEN {Failed(closeConnection(s), "error")} ELSE {}

\* no more characters will come: the peer closed the connection, or reset it
broken(s) ==
  IF s.line.closed = "reset" THEN {Failed(closeConnection(s), "error")}
  ELSE {Outcome(closeConnection(s), "success", <<>>, {"END"})}

Receive(s, maxchars) ==
  IF maxchars = 0 THEN {Failed(s, "error")}
  ELSE IF s.line.in # <<>>
  THEN (IF s.tty.socketType = "SOCK_DGRAM" THEN recvfrom(s, maxchars) ELSE recvStream(s, maxchars))
         \cup IF s.config.timely THEN {} ELSE timedOut(s)
  ELSE IF s.line.closed # "no" THEN broken(s)
  ELSE timedOut(s)

IP_readIt(s, maxchars) ==
  UNION {IF c.status = "success" THEN Receive(c.s, maxchars) ELSE {Failed(c.s, "error")} : c \in Socket(s)}

\* what has not come yet is not tossed
IP_flushIt(s) ==
  IF ~s.tty.fd THEN {Outcome(s, "success", <<>>, {})}
  ELSE {Outcome([s EXCEPT !.line.in = SubSeq(@, k + 1, Len(@))], "success", <<>>, {}) :
          k \in IF s.config.timely \/ s.tty.socketType = "SOCK_DGRAM" THEN {Len(s.line.in)}
                ELSE 0..Len(s.line.in)}

-----------------------------------------------------------------------------
IP_getOption(s, key) ==
  CASE key = "disconnectOnReadTimeout" ->
         [status |-> "success", val |-> IF s.tty.disconnectOnReadTimeout THEN "Y" ELSE "N"]
    [] key = "hostInfo" -> [status |-> "success", val |-> s.tty.IPDeviceName]
    [] OTHER -> [status |-> "error", val |-> ""]

IP_setOption(s, key, val) ==
  CASE key = "disconnectOnReadTimeout" ->
         IF val \in {"Y", "N"}
         THEN {[s |-> [s EXCEPT !.tty.disconnectOnReadTimeout = (val = "Y")], status |-> "success"]}
         ELSE {[s |-> s, status |-> "error"]}
    [] key = "hostInfo" -> {parseHostInfo(s, val)}
    [] key = "" -> {[s |-> s, status |-> "success"]}
    [] OTHER -> {[s |-> s, status |-> "error"]}
=============================================================================
