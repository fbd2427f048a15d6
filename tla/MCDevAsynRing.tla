--------------------------- MODULE MCDevAsynRing ---------------------------
(***************************************************************************)
(* DevAsynRing for TLC.  Every record but the input record of a port that  *)
(* can block whose clients cross pending driver callbacks.                 *)
(***************************************************************************)
EXTENDS DevAsynRing

Records == {[output |-> FALSE, canBlock |-> TRUE, calm |-> TRUE],
            [output |-> FALSE, canBlock |-> FALSE, calm |-> FALSE],
            [output |-> TRUE, canBlock |-> TRUE, calm |-> TRUE],
            [output |-> TRUE, canBlock |-> TRUE, calm |-> FALSE],
            [output |-> TRUE, canBlock |-> FALSE, calm |-> FALSE]}
=============================================================================
