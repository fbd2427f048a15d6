------------------------------ MODULE OctetPeer ------------------------------
(***************************************************************************)
(* What is at the other end of an octet port: a device, a device that      *)
(* echoes every character, or a terminal server that takes the             *)
(* COM-PORT-OPTION commands of RFC 2217.  External: it follows from what   *)
(* drvAsynIPPort, asynInterposeEcho and asynInterposeCom expect of it.     *)
(*                                                                         *)
(* The state of a port and of all its layers is one record s: config, tty, *)
(* port, line, eos, com, peer, h.  line.in is what has been sent to the    *)
(* port and was not received yet; h is what the properties refer to.       *)
(***************************************************************************)
EXTENDS Integers, Sequences, SequencesExt

CONSTANT MaxFaults      \* bound: answers of the peer that are not the expected one

\* what a call returns: n is *nbytesTransferred, eom the set of reasons
Outcome(s, status, data, eom) ==
  [s |-> s, status |-> status, n |-> Len(data), data |-> data, eom |-> eom]

Failed(s, status) == Outcome(s, status, <<>>, {})

-----------------------------------------------------------------------------
(***************************************************************************)
(* Telnet: IAC is doubled in data.                                         *)
(***************************************************************************)
Stuffed(data) == FlattenSeq([i \in 1..Len(data) |-> IF data[i] = "IAC" THEN <<"IAC", "IAC">> ELSE <<data[i]>>])

\* the second of a pair is not data
Unstuffed(bytes) ==
  LET first[i \in 0..Len(bytes)] == i > 0 /\ bytes[i] = "IAC" /\ ~first[i - 1]
  IN FlattenSeq([i \in 1..Len(bytes) |-> IF bytes[i] = "IAC" /\ ~first[i] THEN <<>> ELSE <<bytes[i]>>])

OnLine(s, data) == IF s.config.isCom THEN Stuffed(data) ELSE data

OffLine(s, bytes) == IF s.config.isCom THEN Unstuffed(bytes) ELSE bytes

-----------------------------------------------------------------------------
\* "|" marks the end of a datagram
Pending(s) == SelectSeq(s.line.in, LAMBDA c : c # "|")

Say(s, bytes) == [s EXCEPT !.line.in = @ \o bytes, !.h.sent = @ \o bytes]

Fault(s) == [s EXCEPT !.h.faults = @ + 1]

ReplyTo == [baud |-> "baud!", bits |-> "bits!", parity |-> "parity!", stop |-> "stop!",
            flow |-> "flow!", mask |-> "mask!"]

SubOption(key, payload) == <<"IAC", "SB", "COM", key>> \o Stuffed(payload) \o <<"IAC", "SE">>

Notify == SubOption("NOTIFY", <<"0">>)

\* breaks are controls too, but not a kind of flow control
Setting(key, payload) == IF key = "flow" /\ payload \in {<<"BREAK_ON">>, <<"BREAK_OFF">>} THEN "break" ELSE key

IsCommand(bytes) == Len(bytes) > 2 /\ bytes[1] = "IAC" /\ bytes[2] \in {"DO", "WILL", "SB"}

\* agreed, refused
Negotiation(bytes) ==
  IF bytes[2] = "DO" THEN <<<<"IAC", "WILL", bytes[3]>>, <<"IAC", "WONT", bytes[3]>>>>
                     ELSE <<<<"IAC", "DO", bytes[3]>>, <<"IAC", "DONT", bytes[3]>>>>

\* the terminal server takes a command, with a fault or without
Answers(s, bytes) ==
  IF bytes[2] # "SB"
  THEN {Say(s, Negotiation(bytes)[1])}
         \cup IF s.h.faults = MaxFaults THEN {}
              ELSE {Fault(s), Fault(Say(s, Negotiation(bytes)[2])),
                    Fault(Say(s, Notify \o Negotiation(bytes)[1]))}
  ELSE LET key == bytes[4]
           asked == Unstuffed(SubSeq(bytes, 5, Len(bytes) - 2))
           Set(value) == [s EXCEPT !.peer.settings[Setting(key, asked)] = value]
           Reply(t, value) == Say(t, SubOption(ReplyTo[key], value))
           limited == s.peer.limits[Setting(key, asked)]
       IN {Reply(Set(asked), asked)}
            \cup IF s.h.faults = MaxFaults THEN {}
                 ELSE {Fault(Set(asked)), Fault(Reply(Set(limited), limited)),
                       Fault(Reply(Say(Set(asked), Notify), asked))}

\* what may happen at the other end when it receives bytes
Receives(s, bytes) ==
  LET t == [s EXCEPT !.peer.wire = @ \o bytes]
  IN IF s.config.isCom /\ IsCommand(bytes) THEN Answers(s, bytes)
     ELSE IF s.config.top # "echo" THEN {t}
     ELSE {Say(t, bytes)} \cup IF s.h.faults = MaxFaults THEN {} ELSE {Fault(t), Fault(Say(t, <<"?">>))}

\* a connection begins, a terminal server that was restarted has its defaults
Accepts(s) ==
  {[s EXCEPT !.peer.settings = settings] : settings \in {s.peer.settings, s.peer.limits}}
=============================================================================
