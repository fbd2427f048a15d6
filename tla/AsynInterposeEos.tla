--------------------------- MODULE AsynInterposeEos ---------------------------
(***************************************************************************)
(* asynInterposeEos: it ends a read at the input terminator, keeping what  *)
(* came after it for the next read, and appends the output terminator.     *)
(***************************************************************************)
EXTENDS AsynInterposeCom

CONSTANTS
    inBufSize,
    SizeT       \* the number of values of size_t

\* nothing has been read, and there are no terminators yet
asynInterposeEosConfig(s) == [s EXCEPT !.eos = [inBuf |-> <<>>, eosInMatch |-> 0, eosIn |-> <<>>, eosOut |-> <<>>]]

processEosIn(s) == ~s.config.noProcessEos

processEosOut(s) == ~s.config.noProcessEos

-----------------------------------------------------------------------------
\* mutant: the terminator is counted
Eos_writeItCounted(s, data) ==
  IF ~processEosOut(s) \/ s.eos.eosOut = <<>> THEN ComWrite(s, data) ELSE ComWrite(s, data \o s.eos.eosOut)

\* the terminator is not counted, and the call was for all of data
Eos_writeIt(s, data) ==
  IF ~processEosOut(s) \/ s.eos.eosOut = <<>> THEN ComWrite(s, data)
  ELSE {[o EXCEPT !.n = IF @ > Len(data) THEN Len(data) ELSE @] : o \in ComWrite(s, data \o s.eos.eosOut)}

-----------------------------------------------------------------------------
\* mutant: the character that breaks a match does not begin one
MatchAnew(eos, c) == IF c = eos.eosIn[eos.eosInMatch + 1] THEN eos.eosInMatch + 1 ELSE 0

\* how much of the terminator has been seen, after one more character
Match(eos, c) ==
  IF c = eos.eosIn[eos.eosInMatch + 1] THEN eos.eosInMatch + 1
  ELSE IF c = eos.eosIn[1] THEN 1
  ELSE 0

Take(s) == [s EXCEPT !.eos.inBuf = Tail(@)]

\* nRead, after the terminator is taken from it, is a size_t
Terminated(s, chars, eom) ==
  LET nRead == Len(chars) - Len(s.eos.eosIn)
  IN [s |-> [s EXCEPT !.eos.eosInMatch = 0], status |-> "success", n |-> nRead % SizeT,
      data |-> SubSeq(chars, 1, nRead), eom |-> eom \cup {"EOS"}]

RECURSIVE ReadOn(_, _, _, _)

ReadChar(s, chars, eom, maxchars) ==
  LET c == Head(s.eos.inBuf)
      all == Append(chars, c)
      match == IF s.eos.eosIn = <<>> THEN 0 ELSE Match(s.eos, c)
      next == [Take(s) EXCEPT !.eos.eosInMatch = match]
  IN IF s.eos.eosIn # <<>> /\ match = Len(s.eos.eosIn) THEN {Terminated(Take(s), all, eom)}
     ELSE IF Len(all) >= maxchars THEN {Outcome(next, "success", all, {"CNT"})}
     ELSE ReadOn(next, all, eom, maxchars)

Refill(o, chars, maxchars) ==
  LET eom == o.eom \ {"CNT"}
  IN IF o.status # "success" \/ o.n = 0
     THEN {[Outcome(o.s, o.status, chars, eom) EXCEPT !.n = Len(chars)]}
     ELSE ReadOn([o.s EXCEPT !.eos.inBuf = o.data], chars, eom, maxchars)

ReadOn(s, chars, eom, maxchars) ==
  IF s.eos.inBuf # <<>> THEN ReadChar(s, chars, eom, maxchars)
  ELSE IF eom # {} THEN {Outcome(s, "success", chars, eom)}
  ELSE UNION {Refill(o, chars, maxchars) : o \in ComRead(s, inBufSize)}

Eos_readIt(s, maxchars) ==
  IF processEosIn(s) THEN ReadOn(s, <<>>, {}, maxchars) ELSE ComRead(s, maxchars)

\* mutant: what was read already is kept
Eos_flushItBelow(s) == ComFlush(s)

Eos_flushIt(s) ==
  ComFlush(IF processEosIn(s) THEN [s EXCEPT !.eos.inBuf = <<>>, !.eos.eosInMatch = 0] ELSE s)

-----------------------------------------------------------------------------
\* at most two characters; without processing the driver is asked, and has none
Eos_setInputEos(s, eos) ==
  IF ~processEosIn(s) THEN setInputEosFail(s)
  ELSE IF Len(eos) > 2 THEN {[s |-> s, status |-> "error"]}
  ELSE {[s |-> [s EXCEPT !.eos.eosIn = eos, !.eos.eosInMatch = 0], status |-> "success"]}

\* with the shorter of two buffers the terminator does not fit
Eos_getInputEos(s, eossize) ==
  IF Len(s.eos.eosIn) > eossize THEN [status |-> "error", eos |-> <<>>]
                                ELSE [status |-> "success", eos |-> s.eos.eosIn]

Eos_setOutputEos(s, eos) ==
  IF Len(eos) > 2 THEN {[s |-> s, status |-> "error"]}
                  ELSE {[s |-> [s EXCEPT !.eos.eosOut = eos], status |-> "success"]}

=============================================================================
