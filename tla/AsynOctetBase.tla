---------------------------- MODULE AsynOctetBase ----------------------------
(***************************************************************************)
(* asynOctetBase, the first layer above the driver: it calls the interrupt *)
(* users with what was read, and stands in for methods the driver lacks.   *)
(***************************************************************************)
EXTENDS DrvAsynSerialPort

overrideFlush(s) == ~s.config.hasFlush

\* h.heard: what the interrupt users were told
callInterruptUsers(o) == [o EXCEPT !.s.h.heard = @ \o o.data]

Base_writeIt(s, data) == Driver_writeIt(s, data)

Base_readIt(s, maxchars) ==
  {IF o.status = "success" THEN callInterruptUsers(o) ELSE o : o \in Driver_readIt(s, maxchars)}

\* the driver is read until there is nothing, and nobody is told
RECURSIVE Toss(_)
Toss(s) == UNION {IF o.n = 0 THEN {Outcome(o.s, "success", <<>>, {})} ELSE Toss(o.s) : o \in Driver_readIt(s, 2)}

Base_flushIt(s) == IF overrideFlush(s) THEN Toss(s) ELSE Driver_flushIt(s)

\* the driver has no terminators
setInputEosFail(s) == {[s |-> s, status |-> "error"]}
=============================================================================
