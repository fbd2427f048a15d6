---------------------------- MODULE MCAsynNotify ----------------------------
(***************************************************************************)
(* AsynNotify for TLC.                                                     *)
(***************************************************************************)
EXTENDS AsynNotify

CONSTANTS c1, c2, w1, w2, n1, n2
=============================================================================
