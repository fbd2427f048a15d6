------------------------------ MODULE ParamList -----------------------------
(***************************************************************************)
(* The parameter list of one address of an asynPortDriver (class           *)
(* paramList): its parameters, and the indexes of those that changed since *)
(* the last callbacks, in the order of their first change.                 *)
(*                                                                         *)
(* A list is a record; an operation returns the new list and the           *)
(* asynStatus of the call.  The caller holds the driver's mutex.           *)
(***************************************************************************)
EXTENDS Naturals, Sequences, SequencesExt

CONSTANTS Values, Bits, NoVal

PV == INSTANCE ParamVal

EmptyList == [names |-> << >>, vals |-> << >>, flags |-> << >>]

Index(L) == DOMAIN L.vals

Result(L, st) == [list |-> L, status |-> st]

setFlag(L, i) ==
  IF i \notin Index(L) \/ Contains(L.flags, i) THEN L
  ELSE [L EXCEPT !.flags = Append(@, i)]

\* 0 stands for the -1 that findParam returns with asynParamNotFound.
findParam(L, name) ==
  IF \E i \in Index(L) : L.names[i] = name
  THEN CHOOSE i \in Index(L) : L.names[i] = name
  ELSE 0

createParam(L, name, type, mask) ==
  IF findParam(L, name) # 0 THEN Result(L, "alreadyExists")
  ELSE Result([L EXCEPT !.names = Append(@, name),
                        !.vals = Append(@, PV!paramVal(type, mask))], "success")

registerParameterChange(L, i) ==
  IF ~L.vals[i].changed THEN L
  ELSE setFlag([L EXCEPT !.vals[i].changed = FALSE], i)

\* getParameter(i)->set(...) and registerParameterChange, in the try block of
\* every setter: an exception leaves the list as it was.
Set(L, i, P(_)) ==
  IF i \notin Index(L) THEN Result(L, "badIndex")
  ELSE LET p == P(L.vals[i])
       IN  IF p.thrown # "none" THEN Result(L, p.thrown)
           ELSE Result(registerParameterChange([L EXCEPT !.vals[i] = p], i), "success")

setInteger(L, i, v) == Set(L, i, LAMBDA p : PV!setInteger(p, v))

setInteger64(L, i, v) == Set(L, i, LAMBDA p : PV!setInteger64(p, v))

setUInt32(L, i, v, valueMask, interruptMask) ==
  Set(L, i, LAMBDA p : PV!setUInt32(p, v, valueMask, interruptMask))

setDouble(L, i, v) == Set(L, i, LAMBDA p : PV!setDouble(p, v))

setString(L, i, v) == Set(L, i, LAMBDA p : PV!setString(p, v))

setStatus(L, i, s) == Set(L, i, LAMBDA p : PV!setStatus(p, s))

setAlarmStatus(L, i, s) == Set(L, i, LAMBDA p : PV!setAlarmStatus(p, s))

setAlarmSeverity(L, i, s) == Set(L, i, LAMBDA p : PV!setAlarmSeverity(p, s))

\* The interrupt masks a driver keeps for its hardware; no callback uses them.
IsDigital(L, i) == i \in Index(L) /\ L.vals[i].type = "UInt32Digital"

NotDigital(L, i) == Result(L, IF i \in Index(L) THEN "wrongType" ELSE "badIndex")

setUInt32Interrupt(L, i, mask, reason) ==
  IF ~IsDigital(L, i) THEN NotDigital(L, i)
  ELSE Result([L EXCEPT
         !.vals[i].rising  = IF reason \in {"zeroToOne", "both"} THEN mask ELSE @,
         !.vals[i].falling = IF reason \in {"oneToZero", "both"} THEN mask ELSE @], "success")

clearUInt32Interrupt(L, i, mask) ==
  IF ~IsDigital(L, i) THEN NotDigital(L, i)
  ELSE Result([L EXCEPT !.vals[i].rising = @ \ mask,
                        !.vals[i].falling = @ \ mask], "success")

\* A getter returns the exception it caught, or the parameter's own status
\* with the value.
Get(L, i, S(_)) ==
  IF i \notin Index(L) THEN [status |-> "badIndex", val |-> NoVal]
  ELSE LET st == S(L.vals[i])
       IN  [status |-> IF st = "success" THEN L.vals[i].status ELSE st,
            val |-> IF st = "success" THEN L.vals[i].val ELSE NoVal]

getUInt32Interrupt(L, i, reason) ==
  IF ~IsDigital(L, i) THEN [status |-> NotDigital(L, i).status, val |-> NoVal]
  ELSE [status |-> "success",
        val |-> CASE reason = "zeroToOne" -> L.vals[i].rising
                  [] reason = "oneToZero" -> L.vals[i].falling
                  [] reason = "both" -> L.vals[i].rising \cup L.vals[i].falling]

getInteger(L, i) == Get(L, i, PV!getInteger)

getInteger64(L, i) == Get(L, i, PV!getInteger64)

getUInt32(L, i, mask) ==
  LET r == Get(L, i, PV!getUInt32)
  IN  IF r.val = NoVal THEN r ELSE [r EXCEPT !.val = @ \cap mask]

getDouble(L, i) == Get(L, i, PV!getDouble)

getString(L, i) == Get(L, i, PV!getString)

\* What a callback for parameter i carries besides the value.
Alarm(L, i) == [status |-> L.vals[i].status, alarmStatus |-> L.vals[i].alarmStatus,
                alarmSeverity |-> L.vals[i].alarmSeverity]
=============================================================================
