------------------------------ MODULE Channel -------------------------------
(***************************************************************************)
(* What a pipe promises: a bounded queue.  The bytes a process has put in  *)
(* it come out once, in the order in which that process has put them, and  *)
(* none is missing in between.                                             *)
(***************************************************************************)
EXTENDS Integers, Sequences

CONSTANTS Proc, Capacity

VARIABLES
    queue,  \* <<p, n>> is the n-th byte of process p
    put     \* how many bytes each process has put

Init == queue = <<>> /\ put = [p \in Proc |-> 0]

Put(p, k) ==
    /\ Len(queue) + k <= Capacity
    /\ queue' = queue \o [i \in 1 .. k |-> <<p, put[p] + i>>]
    /\ put' = [put EXCEPT ![p] = @ + k]

Get(k) ==
    /\ k <= Len(queue)
    /\ queue' = SubSeq(queue, k + 1, Len(queue))
    /\ UNCHANGED put

Next ==
    \E k \in 1 .. Capacity : Get(k) \/ \E p \in Proc : Put(p, k)

Spec == Init /\ [][Next]_<<queue, put>>
=============================================================================
