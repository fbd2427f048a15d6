-------------------------- MODULE DrvAsynSerialPort --------------------------
(***************************************************************************)
(* drvAsynSerialPort: a port whose device is a serial line of the IOC, as  *)
(* the POSIX build has it.  tty.termios and tty.rs485 are the settings the *)
(* driver keeps (the baud rate is with the others), peer.settings those of *)
(* the line.                                                               *)
(***************************************************************************)
EXTENDS DrvAsynIPPort, Functions, TLC

termios == [baud |-> "9600", bits |-> "8", parity |-> "none", stop |-> "1", clocal |-> "Y", crtscts |-> "N",
            ixon |-> "N", ixany |-> "N", ixoff |-> "N"]

rs485 == [rs485_enable |-> "N", rs485_rts_on_send |-> "N", rs485_rts_after_send |-> "N",
          rs485_delay_rts_before_send |-> "0", rs485_delay_rts_after_send |-> "0"]

\* flags and socketType are there for those who ask what an IP port is
serialTty == [fd |-> FALSE, flags |-> {}, socketType |-> "none", termios |-> termios, rs485 |-> rs485]

-----------------------------------------------------------------------------
Serial_closeConnection(s) == IF s.tty.fd THEN exceptionDisconnect(Hangup(s)) ELSE s

\* the line has these settings now, and no other call has changed them since
Applied(s, settings) ==
  [s EXCEPT !.peer.settings = settings @@ @, !.h.known = @ \cup DOMAIN settings]

\* all settings but those of RS-485 are written each time
applyOptions(s) ==
  {[s |-> Applied(s, s.tty.termios), status |-> "success"]}
    \cup IF s.h.faults = MaxFaults THEN {} ELSE {[s |-> Fault(s), status |-> "error"]}

\* ioctl TIOCSRS485
applyRs485(s) ==
  {[s |-> Applied(s, s.tty.rs485), status |-> "success"]}
    \cup IF s.h.faults = MaxFaults THEN {} ELSE {[s |-> Fault(s), status |-> "error"]}

\* the line is opened even if it does not take the settings; nobody writes those of RS-485
Serial_connectIt(s) ==
  LET opened == [s EXCEPT !.tty.fd = TRUE, !.line = [in |-> <<>>, closed |-> "no"], !.h.known = {}]
      failed == [s |-> s, status |-> "error"]
  IN IF s.tty.fd \/ ~s.peer.up THEN {failed}
     ELSE {failed} \cup {[s |-> r.s, status |-> "success"] : r \in applyOptions(opened)}

Serial_disconnect(s) == Serial_closeConnection(s)

-----------------------------------------------------------------------------
(***************************************************************************)
(* Options.                                                                *)
(***************************************************************************)
baudCodes == {"300", "9600", "19200"}

\* what each key takes
Takes(key, val) ==
  CASE key = "baud" -> val \in baudCodes
    [] key = "bits" -> val \in {"5", "6", "7", "8"}
    [] key = "parity" -> val \in {"none", "even", "odd"}
    [] key = "stop" -> val \in {"1", "2"}
    [] key \in {"rs485_delay_rts_before_send", "rs485_delay_rts_after_send"} -> val \in {"0", "10"}
    [] OTHER -> val \in {"Y", "N"}

\* without RS-485 the pin is not driven either
SetRs485(settings, key, val) ==
  IF key = "rs485_enable" /\ val = "N"
  THEN [settings EXCEPT !.rs485_enable = "N", !.rs485_rts_on_send = "N", !.rs485_rts_after_send = "N"]
  ELSE [settings EXCEPT ![key] = val]

\* the line takes the settings, or the driver puts the old ones back; if it
\* refused the others, those of RS-485 are not put back
Apply(s, old, key) ==
  LET Restored485(r) == IF r.status = "success" THEN r ELSE [r EXCEPT !.s.tty.rs485 = old.rs485]
      refused(r) == [s |-> [r.s EXCEPT !.tty.termios = old.termios,
                                       !.h.known = IF key \in DOMAIN rs485 THEN @ \ DOMAIN rs485 ELSE @],
                     status |-> "error"]
  IN IF ~s.tty.fd THEN {[s |-> s, status |-> "success"]}
     ELSE UNION {IF r.status # "success" THEN {refused(r)}
                 ELSE IF key \in DOMAIN rs485 THEN {Restored485(q) : q \in applyRs485(r.s)}
                 ELSE {r} : r \in applyOptions(s)}

\* on is a break of the default length, and there is nothing to turn off
SerialBreak(s, val) ==
  IF val = "off" THEN {"success"}
  ELSE IF val \notin {"", "on", "5"} \/ ~s.tty.fd THEN {"error"}
  ELSE {"success", "error"}

Serial_setOption(s, key, val) ==
  LET known == DOMAIN termios \cup DOMAIN rs485
      changed == IF key \in DOMAIN termios THEN [s EXCEPT !.tty.termios[key] = val]
                 ELSE [s EXCEPT !.tty.rs485 = SetRs485(@, key, val)]
  IN CASE key = "break" -> {[s |-> s, status |-> status] : status \in SerialBreak(s, val)}
       [] key = "" -> Apply(s, s.tty, key)
       [] key \in known /\ Takes(key, val) -> Apply(changed, s.tty, key)
       [] OTHER -> {[s |-> s, status |-> "error"]}

Serial_getOption(s, key) ==
  CASE key \in DOMAIN termios -> [status |-> "success", val |-> s.tty.termios[key]]
    [] key \in DOMAIN rs485 -> [status |-> "success", val |-> s.tty.rs485[key]]
    [] key = "break" -> [status |-> "success", val |-> "off"]
    [] OTHER -> [status |-> "error", val |-> ""]

-----------------------------------------------------------------------------
\* the file flags or the settings could not be set for the timeout of a call
CannotSet(s) ==
  IF s.h.faults = MaxFaults THEN {}
  ELSE {[s |-> Serial_closeConnection(Fault(s)), status |-> "error"]}

\* a timeout other than that of the last read is set with all the settings
ForReadTimeout(s) ==
  {[s |-> t, status |-> "success"] : t \in {s, Applied(s, s.tty.termios)}} \cup CannotSet(s)

ForWriteTimeout(s) == {[s |-> s, status |-> "success"]} \cup CannotSet(s)

\* The timer has expired: timeoutHandler drops what waits in the output queue,
\* and what was dropped counts as written.  The write is a timeout unless all
\* of data was taken by then.
SendTooLate(s, data, taken) ==
  LET Cuts == {<<k, m>> \in (0..taken) \X (0..taken) : k <= m}
      Without(k, m) == SubSeq(data, 1, k) \o SubSeq(data, m + 1, taken)
      status == IF taken = Len(data) THEN "success" ELSE "timeout"
  IN UNION {{[Outcome(t, status, SubSeq(data, 1, taken), {}) EXCEPT !.s.h.dropped = cut[1] < cut[2]] :
               t \in Receives(s, Without(cut[1], cut[2]))} : cut \in Cuts}

\* the line is gone if closed # "no"; an adapter that was pulled out is noticed
SerialSend(s, data) ==
  IF s.line.closed # "no" THEN {Failed(Serial_closeConnection(s), "error")}
  ELSE IF s.config.timely THEN Sent(s, data)
  ELSE Sent(s, data) \cup UNION {SendTooLate(s, data, taken) : taken \in 0..Len(data)}

Serial_writeIt(s, data) ==
  IF ~s.tty.fd THEN {Failed(s, "error")}
  ELSE IF data = <<>> THEN {Outcome(s, "success", <<>>, {})}
  ELSE UNION {IF r.status = "success" THEN SerialSend(r.s, data) ELSE {Failed(r.s, "error")} :
                r \in ForWriteTimeout(s)}

\* the timer has expired when the characters come: they are read, and it is a
\* timeout all the same
ReadTooLate(s, maxchars) ==
  {[o EXCEPT !.status = "timeout"] : o \in recvStream(s, maxchars)}

\* a line that hangs up has no characters, one that was pulled out an error
SerialReceive(s, maxchars) ==
  IF s.line.in # <<>>
  THEN recvStream(s, maxchars)
         \cup (IF s.config.timely THEN {} ELSE {Failed(s, "timeout")})
         \cup (IF s.config.late THEN ReadTooLate(s, maxchars) ELSE {})
  ELSE IF s.line.closed = "reset" THEN {Failed(Serial_closeConnection(s), "error")}
  ELSE {Failed(s, "timeout")}

Serial_readIt(s, maxchars) ==
  IF ~s.tty.fd \/ maxchars = 0 THEN {Failed(s, "error")}
  ELSE UNION {IF r.status = "success" THEN SerialReceive(r.s, maxchars) ELSE {Failed(r.s, "error")} :
                r \in ForReadTimeout(s)}

\* what has come already is tossed
Serial_flushIt(s) ==
  {Outcome(IF s.tty.fd THEN [s EXCEPT !.line.in = SubSeq(@, k + 1, Len(@))] ELSE s, "success", <<>>, {}) :
     k \in IF s.config.timely THEN {Len(s.line.in)} ELSE 0..Len(s.line.in)}

-----------------------------------------------------------------------------
(***************************************************************************)
(* The driver below the layers, as the port is configured.                 *)
(***************************************************************************)
isSerial(s) == s.config.driver = "serial"

Driver_writeIt(s, data) == IF isSerial(s) THEN Serial_writeIt(s, data) ELSE IP_writeIt(s, data)

Driver_readIt(s, maxchars) == IF isSerial(s) THEN Serial_readIt(s, maxchars) ELSE IP_readIt(s, maxchars)

Driver_flushIt(s) == IF isSerial(s) THEN Serial_flushIt(s) ELSE IP_flushIt(s)

Driver_setOption(s, key, val) == IF isSerial(s) THEN Serial_setOption(s, key, val) ELSE IP_setOption(s, key, val)

Driver_getOption(s, key) == IF isSerial(s) THEN Serial_getOption(s, key) ELSE IP_getOption(s, key)
=============================================================================
