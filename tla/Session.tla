------------------------------ MODULE Session -------------------------------
(***************************************************************************)
(* What a socket promises of each connection made to it: it is accepted    *)
(* once, nothing is sent over it before, and from then on it is a bounded  *)
(* queue in each direction.                                                *)
(***************************************************************************)
EXTENDS Integers, Sequences

CONSTANTS Conn, Side, Capacity

VARIABLES
    accepted,   \* the connections that were accepted
    queue,      \* queue[c][s]: the numbers of the messages on their way from side s
    put         \* put[c][s]: how many messages side s has sent

Init ==
    /\ accepted = {}
    /\ queue = [c \in Conn |-> [s \in Side |-> <<>>]]
    /\ put = [c \in Conn |-> [s \in Side |-> 0]]

Accept(c) ==
    /\ c \notin accepted
    /\ accepted' = accepted \cup {c}
    /\ UNCHANGED <<queue, put>>

Put(c, s) ==
    /\ c \in accepted /\ Len(queue[c][s]) < Capacity
    /\ queue' = [queue EXCEPT ![c][s] = Append(@, put[c][s] + 1)]
    /\ put' = [put EXCEPT ![c][s] = @ + 1]
    /\ UNCHANGED accepted

Get(c, s) ==
    /\ queue[c][s] # <<>>
    /\ queue' = [queue EXCEPT ![c][s] = Tail(@)]
    /\ UNCHANGED <<accepted, put>>

Next == \E c \in Conn : Accept(c) \/ \E s \in Side : Put(c, s) \/ Get(c, s)

Spec == Init /\ [][Next]_<<accepted, queue, put>>
=============================================================================
