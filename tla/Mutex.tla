------------------------------- MODULE Mutex --------------------------------
(***************************************************************************)
(* What a lock promises to those who use it: one owner at a time, and only *)
(* the owner gives the lock back.                                          *)
(***************************************************************************)
CONSTANTS Thread, Nobody

VARIABLE owner

Init == owner = Nobody

Take(t) == owner = Nobody /\ owner' = t

GiveBack(t) == owner = t /\ owner' = Nobody

Next == \E t \in Thread : Take(t) \/ GiveBack(t)

Spec == Init /\ [][Next]_owner
=============================================================================
