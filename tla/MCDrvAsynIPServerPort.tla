----------------------- MODULE MCDrvAsynIPServerPort -----------------------
(***************************************************************************)
(* DrvAsynIPServerPort for TLC: three clients of a TCP port with two client*)
(* ports, or three datagrams of a UDP port.                                *)
(***************************************************************************)
EXTENDS DrvAsynIPServerPort

CONSTANTS c1, c2, c3

\* a datagram of three characters, an empty one and a short one
ThreeDatagrams == <<<<"a", "b", "c">>, <<>>, <<"d">>>>
=============================================================================
