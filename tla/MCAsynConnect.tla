---------------------------- MODULE MCAsynConnect ----------------------------
(***************************************************************************)
(* AsynConnect for TLC: one client of a port whose device comes and goes.  *)
(***************************************************************************)
EXTENDS AsynConnect

CONSTANT c1
=============================================================================
