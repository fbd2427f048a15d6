------------------------------ MODULE OctetStack ------------------------------
(***************************************************************************)
(* An octet port with its layers, from the driver up: drvAsynIPPort or     *)
(* drvAsynSerialPort, asynOctetBase, asynInterposeCom if the protocol is COM, asynInterposeEos *)
(* unless noProcessEos, and one of asynInterposeDelay, asynInterposeEcho   *)
(* and asynInterposeFlush or none.  A call is one step: the thread that    *)
(* makes it has the port.  Between calls the device sends, closes the      *)
(* connection, goes away and comes back.                                   *)
(***************************************************************************)
EXTENDS AsynInterpose, FiniteSets

CONSTANT
    Scenarios       \* how the port is set up, and what is done with it; bounds:
                    \* sends, what the device sends, and backlog, how much a
                    \* client that writes leaves on the line

VARIABLES
    config,     \* the scenario
    tty,        \* the driver's private structure
    port,       \* what asynManager knows: connected
    line,       \* in: sent by the device, not received yet; closed: by the device
    eos, com, delay,    \* the private structures of the layers
    peer,       \* the device
    history     \* what the properties refer to

vars == <<config, tty, port, line, eos, com, delay, peer, history>>

s == [config |-> config, tty |-> tty, port |-> port, line |-> line, eos |-> eos, com |-> com, delay |-> delay,
      peer |-> peer, h |-> history]

Become(t) ==
  /\ config' = t.config /\ tty' = t.tty /\ port' = t.port /\ line' = t.line /\ eos' = t.eos
  /\ com' = t.com /\ delay' = t.delay /\ peer' = t.peer /\ history' = t.h

SetOption(t, key, val) ==
  IF t.config.top = "delay" THEN Delay_setOption(t, key, val) ELSE ComSetOption(t, key, val)

GetOption(t, key) ==
  IF t.config.top = "delay" THEN Delay_getOption(t, key) ELSE ComGetOption(t, key)

-----------------------------------------------------------------------------
\* all the parameters of a serial line are known: nothing else is on the line
Restored(t) == t.config.isCom => t.h.known = {"baud", "bits", "parity", "stop", "flow"}

NoWrite == [status |-> "none", data |-> <<>>, n |-> 0, line |-> <<>>]

\* the port before it is connected the first time
Start(c, private) ==
  [config |-> c, delay |-> 0, port |-> [connected |-> FALSE], tty |-> private,
   line |-> [in |-> <<>>, closed |-> "no"], eos |-> <<>>, com |-> defaults,
   peer |-> [up |-> TRUE, wire |-> <<>>, settings |-> defaults, limits |-> defaults],
   h |-> [sent |-> <<>>, heard |-> <<>>, told |-> <<>>, message |-> <<>>, whole |-> <<>>,
          aligned |-> TRUE, miscounted |-> FALSE, dropped |-> FALSE, fresh |-> FALSE, known |-> {}, wrote |-> NoWrite, sends |-> 0, faults |-> 0,
          exited |-> FALSE]]

drvAsynIPPortConfigure(c) ==
  parseHostInfo(Start(c, [fd |-> FALSE, flags |-> {}, socketType |-> "SOCK_STREAM", disconnectOnReadTimeout |-> FALSE,
                          IPDeviceName |-> c.hostInfo]),
                c.hostInfo).s

drvAsynSerialPortConfigure(c) == [Start(c, serialTty) EXCEPT !.peer.settings = termios @@ rs485]

Open(t) == IF isSerial(t) THEN Serial_connectIt(t) ELSE openForConnect(t)

\* the first connection may be made before the layers are there, or after;
\* then the scenario sets the terminators
Configured(c) ==
  LET bare == asynInterposeEosConfig(IF c.driver = "serial" THEN drvAsynSerialPortConfigure(c) ELSE drvAsynIPPortConfigure(c))
      opened == {[o.s EXCEPT !.port.connected = TRUE] : o \in {q \in Open(bare) : q.status = "success"}}
      layered == IF c.isCom THEN UNION {asynInterposeCOM(t) : t \in opened \cup {bare}} ELSE opened \cup {bare}
  IN {[t EXCEPT !.eos.eosIn = c.eosIn, !.eos.eosOut = c.eosOut, !.peer.wire = <<>>,
                !.h = [@ EXCEPT !.sent = Pending(t), !.heard = <<>>, !.aligned = Restored(t)]] : t \in layered}

Init ==
  \E c \in Scenarios : \E t \in Configured(c) :
    /\ config = t.config /\ tty = t.tty /\ port = t.port /\ line = t.line /\ eos = t.eos
    /\ com = t.com /\ delay = t.delay /\ peer = t.peer /\ history = t.h

-----------------------------------------------------------------------------
(***************************************************************************)
(* What the clients of the port do.                                        *)
(***************************************************************************)
Before(t) == [t EXCEPT !.h.fresh = FALSE, !.h.miscounted = FALSE, !.h.dropped = FALSE, !.h.wrote = NoWrite, !.h.whole = <<>>, !.peer.wire = <<>>]

\* a port that connects for each transaction is not used while it is not connected
MayCall == "CONNECT_PER_TRANSACTION" \in s.tty.flags => s.port.connected

\* a read without characters has ended a terminator that an earlier one, then
\* full, has begun: its first character went to the client
EndsSplit(o, terminator) ==
  /\ o.data = <<>>
  /\ "EOS" \in o.eom
  /\ Len(terminator) = 2
  /\ o.s.h.message # <<>> /\ Last(o.s.h.message) = terminator[1]

\* h.told: what the clients were given and the terminators that were taken out;
\* h.message: given since the last one.  An error of a terminal server, and a
\* timeout of a line whose timer may expire as the characters come, may have
\* lost some
Given(o) ==
  LET ended == "EOS" \in o.eom
      terminator == Eos_getInputEos(o.s, 2).eos
      wrong == o.n # Len(o.data)
      taken == IF ~ended THEN <<>>
               ELSE IF wrong THEN Tail(terminator) ELSE terminator
      loses == \/ o.s.config.isCom /\ o.status = "error"
               \/ o.s.config.late /\ o.status = "timeout"
      t == [o.s EXCEPT !.h.aligned = @ /\ ~loses, !.h.miscounted = wrong /\ ~EndsSplit(o, terminator)]
  IN IF t.h.fresh THEN t
     ELSE [t EXCEPT !.h.told = @ \o o.data \o taken,
                    !.h.message = IF ended THEN <<>> ELSE @ \o o.data,
                    !.h.whole = IF ended THEN t.h.message \o o.data ELSE <<>>]

Read(maxchars) ==
  /\ MayCall
  /\ \E o \in readIt(Before(s), maxchars) : Become(Given(o))

\* what a call took from the line for itself is not the clients'
Realigned(t, ok) ==
  LET held == OnLine(t, t.eos.inBuf)
  IN [t EXCEPT !.h.heard = held, !.h.sent = held \o Pending(t), !.h.told = <<>>, !.h.message = <<>>,
               !.h.aligned = ok]

Write(data) ==
  /\ MayCall
  /\ Len(s.line.in) < s.config.backlog
  /\ \E o \in writeIt(Before(s), data) :
       LET t == [o.s EXCEPT !.h.wrote = [status |-> o.status, data |-> data, n |-> o.n, line |-> o.s.peer.wire]]
           lost == s.line.closed # "no"
           done == IF lost THEN [t EXCEPT !.h.wrote = NoWrite] ELSE t
       IN Become([IF s.config.top = "echo" THEN Realigned(done, TRUE) ELSE done EXCEPT !.peer.wire = <<>>])

Flush ==
  /\ MayCall
  /\ \E o \in flushIt(Before(s)) :
       Become([o.s EXCEPT !.h.sent = Pending(o.s), !.h.heard = <<>>, !.h.told = <<>>, !.h.message = <<>>,
                        !.h.aligned = @ \/ s.config.timely])

ChangeOption(key, val) ==
  /\ Len(s.line.in) < s.config.backlog
  /\ \E r \in SetOption(Before(s), key, val) :
       LET clean == s.h.aligned    \* no answer to an earlier request is on the line
           t == IF ~s.config.isCom THEN r.s
                ELSE [Realigned(r.s, r.status = "success" /\ clean) EXCEPT !.h.known = IF clean THEN @ ELSE {}]
       IN Become([t EXCEPT !.peer.wire = <<>>])

SetInputEos(terminator) ==
  /\ "setInputEos" \in Passed(s) \cap Com_passed
  /\ \E r \in Eos_setInputEos(Before(s), terminator) :
       Become([r.s EXCEPT !.h.message = IF r.status = "success" THEN <<>> ELSE @])

SetOutputEos(terminator) ==
  /\ "setOutputEos" \in Passed(s)
  /\ \E r \in Eos_setOutputEos(Before(s), terminator) : Become(r.s)

\* asynManager tries this again and again; the layers are told once it is done
Connect ==
  /\ ~s.port.connected
  /\ \E c \in Open(Before(s)) :
       IF c.status # "success" THEN Become(c.s)
       ELSE \E t \in IF s.config.isCom THEN exceptionHandler([c.s EXCEPT !.port.connected = TRUE, !.h.known = {}])
                     ELSE {[c.s EXCEPT !.port.connected = TRUE]} :
              Become([eosInExceptionHandler(t) EXCEPT !.peer.wire = <<>>,
                      !.h.aligned = Restored(t)])

Disconnect ==
  /\ s.port.connected
  /\ Become(IF isSerial(s) THEN Serial_disconnect(Before(s)) ELSE asynCommonDisconnect(Before(s)))

\* at exit
Exit ==
  /\ s.config.exits
  /\ ~isSerial(s)
  /\ Become([cleanup(Before(s)) EXCEPT !.h.exited = @ \/ s.tty.fd])

-----------------------------------------------------------------------------
(***************************************************************************)
(* What the device does.                                                   *)
(***************************************************************************)
DeviceSends(message) ==
  /\ s.tty.fd
  /\ s.line.closed = "no"
  /\ s.h.sends < s.config.sends
  /\ LET t == Say(Before(s), OnLine(s, message))
     IN Become([t EXCEPT !.h.sends = @ + 1, !.line.in = IF s.tty.socketType = "SOCK_DGRAM" THEN Append(@, "|") ELSE @])

\* a device that goes away is noticed
HasLine == isSerial(s) \/ s.tty.socketType = "SOCK_STREAM"

DeviceCloses(how) ==
  /\ s.tty.fd
  /\ HasLine
  /\ s.line.closed = "no"
  /\ Become([Before(s) EXCEPT !.line.closed = how])

DeviceGoes ==
  /\ HasLine
  /\ Become([Before(s) EXCEPT !.peer.up = ~@])

-----------------------------------------------------------------------------
Next ==
  \/ \E maxchars \in s.config.reads : Read(maxchars)
  \/ \E data \in s.config.writes : Write(data)
  \/ Flush
  \/ \E option \in s.config.options : ChangeOption(option[1], option[2])
  \/ \E terminator \in s.config.terminators : SetInputEos(terminator)
  \/ \E terminator \in s.config.terminators : SetOutputEos(terminator)
  \/ Connect
  \/ Disconnect
  \/ Exit
  \/ \E message \in s.config.messages : DeviceSends(message)
  \/ \E how \in {"closed", "reset"} : DeviceCloses(how)
  \/ DeviceGoes

Spec == Init /\ [][Next]_vars

-----------------------------------------------------------------------------
\* asynInterposeEos.c:183, asynInterposeCom.c:197, drvAsynIPPort.c:745: from a
\* connection or a flush on, the clients are given what the device sent, less
\* the terminators, without loss, duplication or change of order, however the
\* network cuts it up and whatever times out; what they were not given yet is
\* in the buffer of the terminator layer or on the line; the interrupt users
\* heard what the driver received.  Not after a serial line whose timer expired
\* while characters came, nor after an error of a terminal server.  A read
\* tells how many characters it gives, except one that takes only the end of a
\* terminator: its count is below zero, and wraps
StreamKept ==
  /\ ~s.h.miscounted
  /\ s.h.aligned =>
       /\ s.h.sent = s.h.heard \o Pending(s)
       /\ OffLine(s, s.h.heard) = s.h.told \o s.eos.inBuf

\* asynInterposeEos.c:196-216: no message goes on past a terminator: neither
\* the one that was ended nor what was given since
OneTerminator ==
  LET Past(text) == \E k \in 1..Len(text) - Len(s.eos.eosIn) + 1 :
                      SubSeq(text, k, k + Len(s.eos.eosIn) - 1) = s.eos.eosIn
  IN ~s.config.noProcessEos /\ s.eos.eosIn # <<>> => ~Past(s.h.message) /\ ~Past(s.h.whole)

\* asynInterposeEos.c:154, asynInterposeCom.c:136, drvAsynIPPort.c:614: a write
\* that succeeds has sent all of the message and the terminator, once, and
\* counts the message only; one that times out has sent the beginning of them
\* and counts what it sent of the message, but for a character that did not
\* come back as an echo.  Not said of a serial line whose timer expired while
\* characters waited to be sent: they are dropped and counted, and the write
\* may succeed; nor of the count of a terminal server's write in part
WritesWhole ==
  LET terminator == IF s.config.noProcessEos THEN <<>> ELSE s.eos.eosOut
      w == s.h.wrote
      all == OnLine(s, w.data \o terminator)
      sent == IF Len(w.line) < Len(w.data) THEN Len(w.line) ELSE Len(w.data)
      unechoed == IF s.config.top = "echo" THEN {0, 1} ELSE {0}
  IN ~s.h.dropped =>
       /\ w.status = "success" => w.line = all /\ w.n = Len(w.data)
       /\ w.status \in {"timeout", "error"} => IsPrefix(w.line, all)
       /\ w.status = "timeout" /\ ~s.config.isCom => sent - w.n \in unechoed

\* drvAsynIPPort.c:206, 246, 586: a port is connected when it has a socket, or
\* opens one for each transaction; once the exit handler has closed a
\* connection, none is opened again
OpenWhenConnected ==
  /\ s.port.connected => s.tty.fd \/ s.tty.flags \cap {"SHUTDOWN", "CONNECT_PER_TRANSACTION"} # {}
  /\ s.tty.fd => s.port.connected
  /\ s.h.exited => ~s.tty.fd

\* asynInterposeCom.c:487, 743, drvAsynSerialPort.c:240, 602: after an option was
\* set or restored, or the line refused it, the server or the line has the value
\* that getOption gives
SettingsAgree ==
  LET Flow(key, control) ==
        GetOption(s, key).val = IF s.peer.settings["flow"] = control THEN "Y" ELSE "N"
      Shown(setting) == IF isSerial(s) THEN setting ELSE Text(setting)
  IN s.port.connected =>
       /\ \A key \in s.h.known \ {"flow"} : GetOption(s, key).val = Shown(s.peer.settings[key])
       /\ "flow" \in s.h.known => Flow("crtscts", <<"HWFLOW">>) /\ Flow("ixon", <<"IXON">>)

=============================================================================
