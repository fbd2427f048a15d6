-------------------------- MODULE MCDevAsynRecords --------------------------
(***************************************************************************)
(* Instances of DevAsynRecords for TLC: every device support, with the links*)
(* and drivers that make its functions differ.                             *)
(***************************************************************************)
EXTENDS DevAsynRecords

Base ==
  [dset |-> "", interface |-> "", record |-> "", octet |-> "", link |-> "asyn", driver |-> "complete",
   output |-> FALSE, readback |-> FALSE, initialReadback |-> FALSE, canBlock |-> FALSE, iointr |-> TRUE,
   enums |-> FALSE, average |-> FALSE, counts |-> FALSE, fifo |-> 1, initial |-> 0, values |-> {0, 1},
   statuses |-> {"success", "error"}, puts |-> {1}, sval |-> 2,
   nbits |-> 0, mask |-> 0, nobt |-> 0, shft |-> 0, states |-> <<>>,
   linr |-> "none", aslo |-> 0, aoff |-> 0, roff |-> 0, egul |-> 0, eguf |-> 0, bounds |-> <<0, 0>>,
   argument |-> "", withNul |-> TRUE, valSize |-> 3, hasLen |-> FALSE, isWaveform |-> FALSE, nelm |-> 2]

In(dset, interface, rec) == [Base EXCEPT !.dset = dset, !.interface = interface, !.record = rec]

Out(dset, interface, rec) ==
  [In(dset, interface, rec) EXCEPT !.output = TRUE, !.readback = TRUE, !.iointr = FALSE]

Blocking(supports) == {[s EXCEPT !.canBlock = TRUE] : s \in supports}

Linear1(s) == [s EXCEPT !.linr = "linear", !.egul = 1, !.eguf = 7, !.bounds = <<0, 3>>, !.puts = {3}, !.initial = 1]

\* two bits, unsigned or signed, and the range the driver gives
AnalogInt32 ==
  {Linear1([In("asynAiInt32", "Int32", "ai") EXCEPT !.nbits = n, !.values = {1, 6},
            !.link = IF n = 0 THEN "asyn" ELSE "asynMask"]) : n \in {0, 2}}
    \cup {[In("asynAiInt32", "Int32", "ai") EXCEPT !.nbits = -2, !.link = "asynMask", !.values = {1, 6},
             !.linr = "linear", !.egul = -1, !.eguf = 3],
          [In("asynAiInt32", "Int32", "ai") EXCEPT !.aslo = 2, !.aoff = 1, !.roff = 1],
          Linear1([Out("asynAoInt32", "Int32", "ao") EXCEPT !.nbits = 2, !.link = "asynMask", !.values = {2, 5}]),
          [Out("asynAoInt32", "Int32", "ao") EXCEPT !.aslo = 2, !.aoff = 1, !.roff = 1, !.puts = {7}, !.initial = 1],
          [In("asynAiInt32Average", "Int32", "ai") EXCEPT !.average = TRUE, !.values = {-1}, !.initial = -1]}

DiscreteInt32 ==
  {In("asynLiInt32", "Int32", "long"), [Out("asynLoInt32", "Int32", "long") EXCEPT !.readback = FALSE],
   [Out("asynLoInt32", "Int32", "long") EXCEPT !.values = {0, 2}],
   In("asynBiInt32", "Int32", "bi"), Out("asynBoInt32", "Int32", "bo"),
   [In("asynMbbiInt32", "Int32", "mbb") EXCEPT !.nobt = 2, !.shft = 1, !.values = {2, 13}, !.states = <<0, 2, 1>>],
   [Out("asynMbboInt32", "Int32", "mbb") EXCEPT !.nobt = 2, !.shft = 1, !.values = {2, 13}, !.states = <<0, 2, 1>>],
   [Out("asynMbboInt32", "Int32", "mbb") EXCEPT !.values = {2, 3}]}

Int64Supports ==
  {In("asynInt64In", "Int64", "long"), Out("asynInt64Out", "Int64", "long"),
   [In("asynAiInt64", "Int64", "ai") EXCEPT !.bounds = <<0, 3>>],
   [Out("asynAoInt64", "Int64", "ao") EXCEPT !.bounds = <<0, 3>>],
   [In("asynLiInt64", "Int64", "int32") EXCEPT !.values = {1, 13}],
   [Out("asynLoInt64", "Int64", "int32") EXCEPT !.values = {1, 13}]}

Float64Supports ==
  {[In("asynAiFloat64", "Float64", "ai") EXCEPT !.aslo = 2, !.aoff = 1],
   [Out("asynAoFloat64", "Float64", "ao") EXCEPT !.aslo = 2, !.aoff = 1, !.puts = {5}, !.initial = 1],
   [In("asynAiFloat64Average", "Float64", "ai") EXCEPT !.average = TRUE, !.counts = TRUE, !.values = {0},
      !.initial = <<0, 0>>, !.fifo = -1, !.statuses = {"success"}]}

Digital(s) == [s EXCEPT !.link = "asynMask", !.mask = 6, !.values = {1, 5}, !.puts = {2}]

UInt32Supports ==
  {Digital(In("asynBiUInt32Digital", "UInt32Digital", "bi")),
   [Digital(Out("asynBoUInt32Digital", "UInt32Digital", "bo")) EXCEPT !.mask = 4, !.puts = {0, 1}],
   Digital(In("asynLiUInt32Digital", "UInt32Digital", "long")),
   Digital(Out("asynLoUInt32Digital", "UInt32Digital", "long")),
   [Digital(In("asynMbbiUInt32Digital", "UInt32Digital", "mbb")) EXCEPT !.states = <<2, 0, 3>>],
   [Digital(Out("asynMbboUInt32Digital", "UInt32Digital", "mbb")) EXCEPT !.states = <<2, 0, 3>>],
   Digital(In("asynMbbiDirectUInt32Digital", "UInt32Digital", "direct")),
   Digital(Out("asynMbboDirectUInt32Digital", "UInt32Digital", "direct"))}

Strings == {<<"a">>, <<"b", "c", "d">>}

Oct(s, name) ==
  [s EXCEPT !.octet = name, !.values = Strings, !.initial = <<"0", "0", "0">>, !.puts = {<<"e", "f">>}]

OctIn(dset, name) == Oct(In(dset, "Octet", "octet"), name)

OctOut(dset, name) == Oct(Out(dset, "Octet", "octet"), name)

Waveform(s) == [s EXCEPT !.hasLen = TRUE, !.isWaveform = TRUE]

Long(s) == [s EXCEPT !.hasLen = TRUE]

Command(s) == [s EXCEPT !.argument = "CMD", !.iointr = FALSE]

Unbuffered(s) == [s EXCEPT !.fifo = 0]

OctetSupports ==
  {Command(OctIn("asynSiOctetCmdResponse", "SiCmdResponse")),
   Command(OctIn("asynSiOctetWriteRead", "SiWriteRead")),
   OctIn("asynSiOctetRead", "SiRead"),
   [OctOut("asynSoOctetWrite", "SoWrite") EXCEPT !.initialReadback = TRUE, !.fifo = -1],
   Command(Waveform(OctIn("asynWfOctetCmdResponse", "WfCmdResponse"))),
   Command(Waveform(OctIn("asynWfOctetWriteRead", "WfWriteRead"))),
   Waveform(OctIn("asynWfOctetRead", "WfRead")),
   Waveform(OctOut("asynWfOctetWrite", "WfWrite")),
   Waveform(OctOut("asynWfOctetWriteBinary", "WfWriteBinary")),
   Command(Long(OctIn("asynLsiOctetCmdResponse", "LsiCmdResponse"))),
   Command(Long(OctIn("asynLsiOctetWriteRead", "LsiWriteRead"))),
   Long(OctIn("asynLsiOctetRead", "LsiRead")),
   Long(OctOut("asynLsoOctetWrite", "LsoWrite")),
   Long(OctOut("asynPfOctetWrite", "PfWrite")),
   OctOut("asynScalcoutOctetWrite", "ScalcoutWrite")}

Arr(s) == [s EXCEPT !.values = {<<1>>, <<2, 3, 4>>}, !.initial = <<0, 0>>, !.puts = {<<5, 6>>}]

ArraySupports ==
  {[Arr(In("asynXXXArrayIn", "Array", "array")) EXCEPT !.fifo = 3],
   [Arr(Out("asynXXXArrayOut", "Array", "array")) EXCEPT !.fifo = 3]}

\* without a ring buffer the scan lock is taken in the callback: SCAN is not
\* changed, and the port can block
UnbufferedSupports ==
  Blocking({[Unbuffered(Arr(Out("asynXXXArrayOut", "Array", "array"))) EXCEPT !.iointr = FALSE],
            Unbuffered(OctOut("asynSoOctetWrite", "SoWrite"))})

EnumSupports ==
  Blocking({[In("asynMbbiInt32", "Int32", "mbb") EXCEPT !.enums = TRUE],
            [Out("asynBoInt32", "Int32", "bo") EXCEPT !.enums = TRUE],
            [Out("asynMbboInt32", "Int32", "mbb") EXCEPT !.enums = TRUE],
            [In("asynBiInt32", "Int32", "bi") EXCEPT !.enums = TRUE]})

BadSupports ==
  {[In("asynLiInt32", "Int32", "long") EXCEPT !.link = "none"],
   [OctIn("asynSiOctetRead", "SiRead") EXCEPT !.driver = "other"],
   [Command(OctIn("asynSiOctetCmdResponse", "SiCmdResponse")) EXCEPT !.argument = ""]}

SeriesSupports ==
  {[In("asynInt32TimeSeries", "TimeSeries", "series") EXCEPT !.initial = <<0, 0>>, !.iointr = FALSE,
      !.values = {1, 2}]}

Buffered == AnalogInt32 \cup DiscreteInt32 \cup Int64Supports \cup Float64Supports \cup UInt32Supports
              \cup OctetSupports \cup ArraySupports

MCSupports ==
  Buffered \cup Blocking(Buffered) \cup UnbufferedSupports \cup EnumSupports \cup BadSupports
    \cup SeriesSupports

=============================================================================
