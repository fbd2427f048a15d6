--------------------------- MODULE AsynInterposeCom ---------------------------
(***************************************************************************)
(* asynInterposeCom: the layer for a serial line behind a terminal server  *)
(* (RFC 2217).  It doubles IAC in what is written, undoes this in what is  *)
(* read, and sets the parameters of the line by a conversation on the same *)
(* connection.  s.com has the parameters as the server confirmed them.     *)
(***************************************************************************)
EXTENDS AsynOctetBase

EOF == "EOF"

\* the next character and the state after it
nextChar(s) ==
  {[s |-> o.s, c |-> IF o.status = "success" /\ o.n > 0 THEN o.data[1] ELSE EOF] : o \in Base_readIt(s, 1)}

\* the states after each of the expected characters has come, or after one has not
RECURSIVE expectFrom(_, _, _)
expectFrom(s, expected, k) ==
  IF k > Len(expected) THEN {[s |-> s, ok |-> TRUE]}
  ELSE UNION {IF r.c = expected[k] THEN expectFrom(r.s, expected, k + 1) ELSE {[s |-> r.s, ok |-> FALSE]} :
                r \in nextChar(s)}

expectChars(s, expected) == expectFrom(s, expected, 1)

-----------------------------------------------------------------------------
\* all of it was written if the layer below says so
Com_writeIt(s, data) ==
  LET stuffed == Stuffed(data)
      Unstuff(n) == IF n = Len(stuffed) THEN Len(data) ELSE n
  IN {[o EXCEPT !.n = Unstuff(@)] : o \in Base_writeIt(s, stuffed)}

\* what is left of the characters read, with every pair of IAC made one; the
\* second character of a pair may have to be waited for
RECURSIVE Pairs(_, _, _, _, _)
Pairs(s, done, rest, eom, maxchars) ==
  LET iac == SelectInSeq(rest, LAMBDA c : c = "IAC")
      upTo == done \o SubSeq(rest, 1, iac)
      Result(t, data, reasons) ==
        Outcome(t, "success", data, reasons \cup IF Len(data) = maxchars THEN {"CNT"} ELSE {})
  IN IF iac = 0 THEN {Result(s, done \o rest, eom)}
     ELSE IF iac = Len(rest)
     THEN {IF r.c = "IAC" THEN Result(r.s, upTo, eom \ {"CNT"}) ELSE Failed(r.s, "error") : r \in nextChar(s)}
     ELSE IF rest[iac + 1] # "IAC" THEN {Failed(s, "error")}
     ELSE Pairs(s, upTo, SubSeq(rest, iac + 2, Len(rest)), eom \ {"CNT"}, maxchars)

Com_readIt(s, maxchars) ==
  UNION {IF o.status = "success" THEN Pairs(o.s, <<>>, o.data, o.eom, maxchars) ELSE {o} : o \in Base_readIt(s, maxchars)}

Com_flushIt(s) == Base_flushIt(s)

\* what it leaves to the layer below, besides flush
Com_passed == {"setInputEos", "getInputEos", "setOutputEos", "getOutputEos"}

-----------------------------------------------------------------------------
(***************************************************************************)
(* The conversations.  Each takes characters until the answer has come, an *)
(* answer it did not expect, or nothing.                                   *)
(***************************************************************************)
Done(s) == [s |-> s, status |-> "success", reply |-> <<>>]

Not(s) == [s |-> s, status |-> "error", reply |-> <<>>]

\* w is what is asked for: [command, code]
Agreement(w) == IF w.command = "DO" THEN "WILL" ELSE "DO"

RECURSIVE ListenTo(_, _)

Decide(s, w, wd) ==
  UNION {IF r.c = EOF THEN {Not(r.s)}
         ELSE IF r.c # w.code THEN ListenTo(r.s, w)
         ELSE IF wd = Agreement(w) THEN {Done(r.s)}
         ELSE {Not(r.s)} : r \in nextChar(s)}

\* COM, NOTIFY and its value; something else ends it earlier
RECURSIVE Skip(_, _, _)
Skip(s, w, expected) ==
  UNION {IF expected # <<>> /\ r.c = expected[1] THEN Skip(r.s, w, Tail(expected))
         ELSE IF r.c = EOF /\ expected # <<"COM", "NOTIFY">> THEN {Not(r.s)}
         ELSE ListenTo(r.s, w) : r \in nextChar(s)}

Command(s, w, c) ==
  CASE c \in {"IAC", "SE"} -> ListenTo(s, w)
    [] c \in {"DO", "DONT", "WILL", "WONT"} -> Decide(s, w, c)
    [] c = "SB" -> Skip(s, w, <<"COM", "NOTIFY">>)
    [] OTHER -> {Not(s)}

ListenTo(s, w) ==
  UNION {IF r.c = EOF THEN {Not(r.s)}
         ELSE IF r.c # "IAC" THEN ListenTo(r.s, w)
         ELSE UNION {Command(q.s, w, q.c) : q \in nextChar(r.s)} : r \in nextChar(s)}

willdo(s, command, code) ==
  UNION {IF o.status = "success" THEN ListenTo(o.s, [command |-> command, code |-> code]) ELSE {Not(o.s)} :
           o \in Base_writeIt(s, <<"IAC", command, code>>)}

\* the reply has as many characters as the request, whatever they are
RECURSIVE ReplyValue(_, _, _)
ReplyValue(s, payload, reply) ==
  IF Len(reply) < Len(payload)
  THEN UNION {IF r.c = EOF THEN {Not(r.s)} ELSE ReplyValue(r.s, payload, Append(reply, r.c)) : r \in nextChar(s)}
  ELSE {IF e.ok THEN [Done(e.s) EXCEPT !.reply = reply] ELSE Not(e.s) : e \in expectChars(s, <<"IAC", "SE">>)}

RECURSIVE Reply(_, _, _)

\* a notification and its value come before the reply
Notified(s, key, payload) ==
  UNION {IF r.c = EOF THEN {Not(r.s)}
         ELSE UNION {IF e.ok THEN Reply(e.s, key, payload) ELSE {Not(e.s)} : e \in expectChars(r.s, <<"IAC", "SE">>)} :
           r \in nextChar(s)}

Answer(s, key, payload) ==
  UNION {CASE r.c = "NOTIFY" -> Notified(r.s, key, payload)
           [] r.c = ReplyTo[key] -> ReplyValue(r.s, payload, <<>>)
           [] OTHER -> {Not(r.s)} : r \in nextChar(s)}

Reply(s, key, payload) ==
  UNION {IF r.c = EOF THEN {Not(r.s)}
         ELSE IF r.c # "IAC" THEN Reply(r.s, key, payload)
         ELSE UNION {IF e.ok THEN Answer(e.s, key, payload) ELSE {Not(e.s)} : e \in expectChars(r.s, <<"SB", "COM">>)} :
           r \in nextChar(s)}

sbComPortOption(s, key, payload) ==
  UNION {IF o.status = "success" THEN Reply(o.s, key, payload) ELSE {Not(o.s)} :
           o \in Base_writeIt(s, SubOption(key, payload))}

-----------------------------------------------------------------------------
(***************************************************************************)
(* The parameters.  h.known are those for which the server's last answer   *)
(* was a success.                                                          *)
(***************************************************************************)
Remember(s, key, known) == [s EXCEPT !.h.known = IF known THEN @ \cup {key} ELSE @ \ {key}]

\* baud, bits and stop must be what was asked for; parity and flow are what
\* the server made of them
MustAgree == {"baud", "bits", "stop"}

\* mutant: what was asked for is taken for what was set
SetParameterAsAsked(s, key, payload) ==
  {[s |-> IF r.status = "success" THEN Remember([r.s EXCEPT !.com[key] = payload], key, TRUE)
          ELSE Remember(r.s, key, FALSE),
    status |-> r.status] : r \in sbComPortOption(s, key, payload)}

SetParameter(s, key, payload) ==
  {LET agreed == r.status = "success" /\ (key \in MustAgree => r.reply = payload)
       t == IF r.status = "success" THEN [r.s EXCEPT !.com[key] = r.reply] ELSE r.s
   IN [s |-> Remember(t, key, agreed), status |-> IF agreed THEN "success" ELSE "error"] :
     r \in sbComPortOption(s, key, payload)}

SetBreak(s, payload) ==
  {LET ok == r.status = "success"
       t == IF ok THEN [r.s EXCEPT !.com["break"] = <<r.reply[1]>>] ELSE r.s
   IN [s |-> Remember(t, "break", ok), status |-> r.status] : r \in sbComPortOption(s, "flow", payload)}

\* on, off, or on for a time and then off
Breaks(s, val) ==
  LET active == s.com["break"] = <<"BREAK_ON">>
  IN (IF val \in {"on", "timed"} /\ ~active THEN <<"BREAK_ON">> ELSE <<>>)
       \o IF val = "timed" \/ (val = "off" /\ active) THEN <<"BREAK_OFF">> ELSE <<>>

RECURSIVE setBreaks(_, _)
setBreaks(s, breaks) ==
  IF breaks = <<>> THEN {[s |-> s, status |-> "success"]}
  ELSE UNION {IF r.status = "success" THEN setBreaks(r.s, Tail(breaks)) ELSE {r} : r \in SetBreak(s, <<Head(breaks)>>)}

setBreak(s, val) == setBreaks(s, Breaks(s, val))

\* the bytes of a value; those of baud rate 255 have an IAC
Payload(val) == IF val = "255" THEN <<"IAC">> ELSE <<val>>

\* how the values of a key are sent
Control == [crtscts |-> [Y |-> <<"HWFLOW">>, N |-> <<"NOFLOW">>], ixon |-> [Y |-> <<"IXON">>, N |-> <<"NOFLOW">>]]

Com_setOption(s, key, val) ==
  IF key \notin {"baud", "bits", "parity", "stop", "crtscts", "ixon", "break"} THEN Driver_setOption(s, key, val)
  ELSE IF val = "bad" THEN {[s |-> s, status |-> "error"]}
  ELSE IF key = "break" THEN setBreak(s, val)
  ELSE IF key \in {"crtscts", "ixon"} THEN SetParameter(s, "flow", Control[key][val])
  ELSE SetParameter(s, key, Payload(val))

Text(payload) == IF payload = <<"IAC">> THEN "255" ELSE payload[1]

Com_getOption(s, key) ==
  LET flow == s.com["flow"]
      Is(control) == [status |-> "success", val |-> IF flow = control THEN "Y" ELSE "N"]
  IN CASE key \in {"baud", "bits", "parity", "stop"} -> [status |-> "success", val |-> Text(s.com[key])]
       [] key \in {"crtscts", "ixon"} /\ flow \notin {<<"NOFLOW">>, <<"IXON">>, <<"HWFLOW">>} ->
            [status |-> "error", val |-> "N"]
       [] key = "crtscts" -> Is(<<"HWFLOW">>)
       [] key = "ixon" -> Is(<<"IXON">>)
       [] key = "break" -> [status |-> "success", val |-> Text(s.com["break"])]
       [] OTHER -> Driver_getOption(s, key)

-----------------------------------------------------------------------------
\* binary in both directions, the option itself, no notifications, and then
\* the parameters in this order, until one of these fails
negotiated == <<<<"DO", "BINARY">>, <<"WILL", "BINARY">>, <<"WILL", "COM">>>>

restored == <<"baud", "bits", "parity", "stop", "crtscts", "ixon">>

\* an option is set to the value that getOption gives
restoreOption(s, key) ==
  LET value == Com_getOption(s, key)
  IN IF value.status = "error" THEN {[s |-> s, status |-> "error"]} ELSE Com_setOption(s, key, value.val)

restoreStep(s, k) ==
  IF k <= 3 THEN willdo(s, negotiated[k][1], negotiated[k][2])
  ELSE IF k = 4 THEN sbComPortOption(s, "mask", <<"0">>)
  ELSE restoreOption(s, restored[k - 4])

RECURSIVE restoreFrom(_, _)
restoreFrom(s, k) ==
  IF k > 4 + Len(restored) THEN {[s |-> s, status |-> "success"]}
  ELSE UNION {IF r.status = "success" THEN restoreFrom(r.s, k + 1) ELSE {[s |-> r.s, status |-> "error"]} :
                r \in restoreStep(s, k)}

restoreSettings(s) == restoreFrom(s, 1)

\* on a connection; a disconnection calls it too, and then the first write fails
exceptionHandler(s) == {r.s : r \in restoreSettings([s EXCEPT !.h.known = {}])}

\* the first restoration, of the defaults, whether the port is connected or not
defaults ==
  [baud |-> <<"9600">>, bits |-> <<"8">>, parity |-> <<"none">>, stop |-> <<"1">>, flow |-> <<"NOFLOW">>,
   break |-> <<"BREAK_OFF">>, mask |-> <<"0">>]

asynInterposeCOM(s) == {r.s : r \in restoreSettings([s EXCEPT !.com = defaults])}

-----------------------------------------------------------------------------
(***************************************************************************)
(* What the layers above call: the layer is there if the protocol is COM.  *)
(***************************************************************************)
ComWrite(t, data) == IF t.config.isCom THEN Com_writeIt(t, data) ELSE Base_writeIt(t, data)

ComRead(t, maxchars) == IF t.config.isCom THEN Com_readIt(t, maxchars) ELSE Base_readIt(t, maxchars)

ComFlush(t) == IF t.config.isCom THEN Com_flushIt(t) ELSE Base_flushIt(t)

ComSetOption(t, key, val) ==
  IF t.config.isCom THEN Com_setOption(t, key, val) ELSE Driver_setOption(t, key, val)

ComGetOption(t, key) == IF t.config.isCom THEN Com_getOption(t, key) ELSE Driver_getOption(t, key)
=============================================================================
