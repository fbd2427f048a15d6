------------------------------ MODULE ParamVal ------------------------------
(***************************************************************************)
(* One parameter of an asynPortDriver parameter list (paramVal.cpp).  A    *)
(* parameter is a record; an operation returns the new record, an          *)
(* exception thrown by the code is the record's status field `thrown`.     *)
(*                                                                         *)
(* A UInt32Digital value and its masks are sets of bits, so & ~ | ^ are    *)
(* the set operations; the values of the other types are only compared for *)
(* equality by the code and are members of the small set Values.           *)
(***************************************************************************)
EXTENDS Naturals

CONSTANTS Values,   \* values of Int32, Int64, Float64 and Octet parameters
          Bits,     \* bits of a UInt32Digital parameter
          NoVal     \* the content of a parameter that was never set

ScalarTypes == {"Int32", "Int64", "Float64", "Octet"}

\* Types whose values never enter the parameter list: drivers hand them to
\* doCallbacksXxxArray and its relatives.
ArrayTypes == {"Int8Array", "Int16Array", "Int32Array", "Int64Array",
               "Float32Array", "Float64Array", "GenericPointer", "Enum"}

\* The constructor clears the value and the status but not the three UInt32
\* masks: `mask` is what the memory held.
paramVal(type, mask) ==
  [type |-> type, defined |-> FALSE, changed |-> FALSE, val |-> NoVal,
   status |-> "success", alarmStatus |-> 0, alarmSeverity |-> 0,
   rising |-> mask, falling |-> mask, callbackMask |-> mask, thrown |-> "none"]

Throw(p, e) == [p EXCEPT !.thrown = e]

\* A changed status calls back every bit of a UInt32Digital parameter.
AllBits(p) == IF p.type = "UInt32Digital" THEN Bits ELSE p.callbackMask

setStatus(p, s) ==
  IF p.status = s THEN p
  ELSE [p EXCEPT !.status = s, !.changed = TRUE, !.callbackMask = AllBits(p)]

setAlarmStatus(p, s) ==
  IF p.alarmStatus = s THEN p
  ELSE [p EXCEPT !.alarmStatus = s, !.changed = TRUE, !.callbackMask = AllBits(p)]

setAlarmSeverity(p, s) ==
  IF p.alarmSeverity = s THEN p
  ELSE [p EXCEPT !.alarmSeverity = s, !.changed = TRUE, !.callbackMask = AllBits(p)]

\* setInteger, setInteger64, setDouble and setString differ in the type only.
Store(p, type, v) ==
  IF p.type # type THEN Throw(p, "wrongType")
  ELSE IF p.defined /\ p.val = v THEN p
  ELSE [p EXCEPT !.defined = TRUE, !.val = v, !.changed = TRUE]

setInteger(p, v) == Store(p, "Int32", v)

setInteger64(p, v) == Store(p, "Int64", v)

setDouble(p, v) == Store(p, "Float64", v)

setString(p, v) == Store(p, "Octet", v)

SymDiff(a, b) == (a \ b) \cup (b \ a)

setUInt32_overwrite(p, v, valueMask, interruptMask) ==
  LET old == IF p.defined THEN p.val ELSE {}
      new == (old \ valueMask) \cup (v \cap valueMask)
  IN  IF p.type # "UInt32Digital" THEN Throw(p, "wrongType")
      ELSE [p EXCEPT !.defined = TRUE, !.val = new,
                     !.changed = p.changed \/ ~p.defined \/ old # new
                                           \/ interruptMask # {},
                     !.callbackMask = SymDiff(old, new) \cup interruptMask]

\* The callback mask collects the bits that changed since the last callbacks,
\* and the ones the caller asks for.  A first definition as 0 changes no bit.
setUInt32(p, v, valueMask, interruptMask) ==
  LET old == IF p.defined THEN p.val ELSE {}
      new == (old \ valueMask) \cup (v \cap valueMask)
  IN  IF p.type # "UInt32Digital" THEN Throw(p, "wrongType")
      ELSE [p EXCEPT !.defined = TRUE, !.val = new,
                     !.changed = p.changed \/ ~p.defined \/ old # new
                                           \/ interruptMask # {},
                     !.callbackMask = p.callbackMask \cup SymDiff(old, new)
                                                     \cup interruptMask]

\* The value or the exception of a typed read.
Fetch(p, type) == CASE p.type # type   -> "wrongType"
                    [] p.type = type /\ ~p.defined -> "undefined"
                    [] OTHER           -> "success"

getInteger(p) == Fetch(p, "Int32")

getInteger64(p) == Fetch(p, "Int64")

getDouble(p) == Fetch(p, "Float64")

getString(p) == Fetch(p, "Octet")

getUInt32(p) == Fetch(p, "UInt32Digital")
=============================================================================
