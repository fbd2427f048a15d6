------------------------------ MODULE PortLock ------------------------------
(***************************************************************************)
(* What queueLockPort / queueUnlockPort, lockPort / unlockPort and the     *)
(* serving of requests promise together: one actor at a time has the port, *)
(* and it gives the port up before another one gets it.                    *)
(***************************************************************************)
CONSTANTS Owners, Null

VARIABLE owner

Init == owner = Null

Acquire(x) == owner = Null /\ owner' = x

Release == owner # Null /\ owner' = Null

Next == Release \/ \E x \in Owners : Acquire(x)

Spec == Init /\ [][Next]_owner
=============================================================================
