---------------------------- MODULE MCAsynQueue ----------------------------
(***************************************************************************)
(* Instances of AsynQueue for TLC: two or three asynUsers on a port with   *)
(* one device.                                                             *)
(***************************************************************************)
EXTENDS AsynQueue, TLC

CONSTANTS u1, u2, u3, d1, port, c1, c2

\* u1 talks to the device, u2 to the port itself
MCInitDev == [u \in Users |-> IF u = u2 THEN port ELSE d1]
=============================================================================
