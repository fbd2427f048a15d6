---------------------------- MODULE AsynInterpose ----------------------------
(***************************************************************************)
(* The small layers: asynInterposeDelay and asynInterposeEcho write one    *)
(* character at a time, asynInterposeFlush reads until there is nothing.   *)
(* All their other methods call the layer below.                           *)
(***************************************************************************)
EXTENDS AsynInterposeEos

\* the character must come back before the next one is written
Echo_writeOne(s, c) ==
  LET Back(o) == IF o.status = "success" /\ o.data # <<c>> THEN [o EXCEPT !.status = "error"] ELSE o
      Echoed(o) == IF o.status # "success" THEN {o}
                   ELSE IF o.n # 1 THEN {[o EXCEPT !.status = "error"]}
                   ELSE {Back(r) : r \in Eos_readIt(o.s, 1)}
  IN UNION {Echoed(o) : o \in Eos_writeIt(s, <<c>>)}

WriteOne(s, c) == IF s.config.top = "delay" THEN Eos_writeIt(s, <<c>>) ELSE Echo_writeOne(s, c)

\* one character after the other, until one of them fails; k are written
RECURSIVE OneByOne(_, _, _)
OneByOne(s, data, k) ==
  IF k = Len(data) THEN {Outcome(s, "success", data, {})}
  ELSE UNION {IF o.status = "success" THEN OneByOne(o.s, data, k + 1)
              ELSE {Outcome(o.s, o.status, SubSeq(data, 1, k), {})} : o \in WriteOne(s, data[k + 1])}

RECURSIVE Flush_flushIt(_)
Flush_flushIt(s) ==
  UNION {IF o.n = 0 THEN {Outcome(o.s, "success", <<>>, {})} ELSE Flush_flushIt(o.s) : o \in Eos_readIt(s, 3)}

\* what each of them leaves to the layer below
Terminators == {"setInputEos", "getInputEos", "setOutputEos", "getOutputEos"}

Delay_passed == Terminators \cup {"read", "flush"}

Echo_passed == Terminators \cup {"read", "flush"}

Flush_passed == Terminators

Flush_io == {"write", "read"}

Passed(s) ==
  CASE s.config.top = "delay" -> Delay_passed
    [] s.config.top = "echo" -> Echo_passed
    [] s.config.top = "flush" -> Flush_passed \cup Flush_io
    [] OTHER -> Terminators \cup {"write", "read", "flush"}

-----------------------------------------------------------------------------
\* config.top names the layer that is on top
writeIt(s, data) ==
  IF "write" \in Passed(s) THEN Eos_writeIt(s, data)
  ELSE OneByOne(s, data, 0)

readIt(s, maxchars) == Eos_readIt(s, maxchars)

flushIt(s) == IF "flush" \in Passed(s) THEN Eos_flushIt(s) ELSE Flush_flushIt(s)

Delay_setOption(s, key, val) ==
  IF key # "delay" THEN ComSetOption(s, key, val)
  ELSE IF val \in Nat THEN {[s |-> [s EXCEPT !.delay = val], status |-> "success"]}
  ELSE {[s |-> s, status |-> "error"]}

Delay_getOption(s, key) ==
  IF key = "delay" THEN [status |-> "success", val |-> s.delay] ELSE ComGetOption(s, key)
=============================================================================
