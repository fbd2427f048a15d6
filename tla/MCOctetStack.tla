----------------------------- MODULE MCOctetStack -----------------------------
(***************************************************************************)
(* Instances of OctetStack for TLC: the drivers with the layers above them,*)
(* and what the device, the network and the terminal server may do.        *)
(***************************************************************************)
EXTENDS OctetStack

Host(protocol) == [form |-> "host:port", protocol |-> protocol]

Unix == [form |-> "unix://", protocol |-> ""]

BadHosts == {[form |-> "bad", protocol |-> ""], Host("unknown")}

Port ==
  [driver |-> "IP", late |-> FALSE, isCom |-> FALSE, noProcessEos |-> FALSE, top |-> "none", hasFlush |-> TRUE, timely |-> FALSE, exits |-> FALSE,
   hostInfo |-> Host("tcp"), eosIn |-> <<"r">>, eosOut |-> <<"r">>, reads |-> {1, 4}, writes |-> {<<"a">>},
   messages |-> {<<"a", "r">>, <<"b", "c", "r">>}, options |-> {}, terminators |-> {},
   sends |-> 2, backlog |-> 10]

\* any cut, any timeout, terminators of one and of two characters
Streams ==
  {[c EXCEPT !.sends = 3] : c \in
  {[Port EXCEPT !.messages = @ \cup {<<"r">>}],
   [Port EXCEPT !.eosIn = <<"r", "n">>, !.messages = {<<"a", "r">>, <<"n", "r">>, <<"r", "n">>}, !.hasFlush = FALSE],
   [Port EXCEPT !.noProcessEos = TRUE, !.terminators = {<<"n">>}]}} \cup {
   [Port EXCEPT !.terminators = {<<>>, <<"n">>, <<"r", "r">>, <<"a", "b", "c">>}, !.timely = TRUE, !.reads = {0, 2}]}

Hosts(protocols) == {<<"hostInfo", Host(p)>> : p \in protocols} \cup {<<"hostInfo", h>> : h \in BadHosts}

Connections ==
  {[Port EXCEPT !.exits = TRUE, !.options = {<<"disconnectOnReadTimeout", v>> : v \in {"Y", "N", "?"}},
      !.noProcessEos = TRUE],
   [Port EXCEPT !.options = Hosts({"udp"}) \cup {<<"", "">>, <<"baud", "9600">>}, !.timely = TRUE],
   [Port EXCEPT !.options = Hosts({"http"}), !.timely = TRUE],
   [Port EXCEPT !.hostInfo = Host("http"), !.exits = TRUE],
   [Port EXCEPT !.hostInfo = Host("udp*"), !.reads = {4}],
   [Port EXCEPT !.hostInfo = Unix, !.timely = TRUE, !.exits = TRUE]}

Layers ==
  {[Port EXCEPT !.top = "delay", !.noProcessEos = TRUE, !.writes = {<<"a", "b">>}, !.messages = {<<"c">>},
      !.options = {<<"delay", 1>>, <<"delay", -1>>}],
   [Port EXCEPT !.top = "echo", !.backlog = 3, !.noProcessEos = TRUE, !.writes = {<<"a", "b">>}, !.messages = {<<"c">>}],
   [Port EXCEPT !.top = "flush", !.noProcessEos = TRUE]}

TerminalServer ==
  [Port EXCEPT !.hostInfo = Host("com"), !.isCom = TRUE, !.timely = TRUE, !.messages = {<<"IAC", "a">>, <<"r">>}, !.sends = 1, !.backlog = 8,
     !.writes = {<<"a", "IAC">>}]

Option(key, values) == {<<key, v>> : v \in values}

Servers ==
  {[TerminalServer EXCEPT !.options = Option("crtscts", {"Y"})],
   [TerminalServer EXCEPT !.options = Option("baud", {"19200", "255"}) \cup Option("parity", {"even"}),
      !.messages = {<<"IAC">>}],
   [TerminalServer EXCEPT !.messages = {}, !.writes = {},
      !.options = Option("break", {"on", "off", "timed"}) \cup Option("crtscts", {"N", "bad"})
                    \cup {<<"disconnectOnReadTimeout", "Y">>}],
   [TerminalServer EXCEPT !.messages = {}, !.writes = {},
      !.options = Option("crtscts", {"Y", "N"}) \cup Option("ixon", {"Y", "N"}) \cup Option("stop", {"2"})
                    \cup Option("bits", {"7"})]}

SerialLine == [Port EXCEPT !.driver = "serial", !.timely = TRUE]

Lines ==
  {[SerialLine EXCEPT !.timely = FALSE, !.sends = 3],
   [SerialLine EXCEPT !.late = TRUE],
   [SerialLine EXCEPT !.noProcessEos = TRUE, !.reads = {0, 4}, !.hasFlush = FALSE],
   [SerialLine EXCEPT !.sends = 1, !.messages = {<<"b", "r">>}, !.writes = {<<>>},
      !.options = Option("baud", {"19200", "255"}) \cup Option("bits", {"5"}) \cup Option("parity", {"odd"})
                    \cup Option("break", {"on", "off", "?"}) \cup Option("", {""}) \cup Option("?", {""})],
   [SerialLine EXCEPT !.sends = 0, !.messages = {}, !.writes = {},
      !.options = Option("stop", {"2"}) \cup Option("rs485_enable", {"Y", "N", "?"})
                    \cup Option("rs485_rts_on_send", {"Y"}) \cup Option("rs485_delay_rts_after_send", {"10"})]}

MCScenarios == Lines \cup Streams \cup Connections \cup Layers \cup Servers
=============================================================================
