-------------------------- MODULE MCAsynLockPort --------------------------
(***************************************************************************)
(* AsynLockPort for TLC.                                                   *)
(***************************************************************************)
EXTENDS AsynLockPort

CONSTANTS t1, t2, o1, o2     \* threads and asynUsers

\* A port that blocks, ports that do not, with and without a lower one, and a
\* port that blocks with one below it, whose clients use lockPort only.
MCKinds == BOOLEAN \X BOOLEAN
MCQueueLockKinds == {<<TRUE, FALSE>>}

=============================================================================
