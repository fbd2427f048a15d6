---------------------------- MODULE MCAsynRecord ----------------------------
(***************************************************************************)
(* Instances of AsynRecord for TLC: a blocking port whose driver may lose  *)
(* its line in an I/O operation, one that does not block, and a record     *)
(* with one option and one end-of-string field.                            *)
(***************************************************************************)
EXTENDS AsynRecord, TLC

CONSTANTS lan, soft

MCSupports == [p \in Ports |-> {"octet", "int32"} \cup (IF p = soft THEN {} ELSE {"option"})]

Scenario(fields, announceInIO, puts, processes, interrupts, troubles) ==
    [fields |-> fields, announceInIO |-> announceInIO, puts |-> puts,
     processes |-> processes, interrupts |-> interrupts, troubles |-> troubles]
MCScenarios == {
    Scenario({"PORT", "PCNCT", "CNCT"}, {}, 2, 0, 0, 1),
    Scenario({"PORT", "PCNCT", "ENBL"}, {}, 3, 1, 0, 0),
    Scenario({"AQR", "ENBL"}, {}, 2, 2, 0, 1),
    Scenario({"AQR", "CNCT"}, {lan}, 1, 2, 0, 1),
    Scenario({"SCAN", "IFACE", "PORT", "PCNCT"}, {}, 3, 0, 2, 0),
    Scenario({"SCAN", "AQR"}, {}, 2, 2, 2, 0),
    Scenario({"option"}, {}, 2, 0, 0, 1),
    Scenario({"option", "ENBL", "PORT"}, {}, 2, 0, 0, 0)}
=============================================================================
