---------------------------- MODULE SocketProps -----------------------------
(***************************************************************************)
(* What a socket and its connections promise.                              *)
(***************************************************************************)
EXTENDS Socket

(* A connection is in _pending once, until it is accepted: an accept never *)
(* forgets one, and no two accepts give the same one to two servers.       *)
PendingIsUnaccepted ==
    /\ \A i, j \in 1 .. Len(pending) : pending[i] = pending[j] => i = j
    /\ {pending[i] : i \in 1 .. Len(pending)} = {c \in made : ~accepted[c]}

(* The handles of p that are constructed and not in its table. *)
Loose(p, h) ==
    /\ op[p].handle = h
    /\ \/ op[p].kind = "connect" /\ op[p].node = h.node
       \/ op[p].kind = "accept" /\ pc[p] # "ref"
       \/ op[p].kind = "drop"

(* _clients and _server are the numbers of the handles that exist, those   *)
(* of a process canceled before it had stored them included.               *)
CountsMatchHandles ==
    \A h \in Ends :
        count[h.node][h.side] = Cardinality({p \in Proc : h \in table[p]})
                                + Cardinality({p \in Proc : Loose(p, h)})

(* Each connection is accepted once and is then two bounded queues.        *)
SocketSession ==
    INSTANCE Session WITH
        Capacity <- Size,
        accepted <- {c \in Conn : accepted[c]},
        queue    <- [c \in Conn |-> [s \in Side |-> data[c][Peer(s)]]],
        put      <- sent

SessionSpec == SocketSession!Spec
-----------------------------------------------------------------------------
(* The lock of a node is stuck. *)
Stuck == hung \/ \E n \in Node : owner[n] \notin alive \cup {Nobody}

InCall(p, k) == p \in alive /\ op[p].kind = k

(* A connect that a server has taken returns; an accept does not block     *)
(* while connections are pending, nor a read once the other side is gone   *)
(* or has sent.                                                            *)
Taken(p) ==
    /\ InCall(p, "connect") /\ op[p].node \in made
    /\ \A i \in 1 .. Len(pending) : pending[i] # op[p].node

Idling(p) ==
    \/ InCall(p, "accept") /\ pending # <<>>
    \/ InCall(p, "read") /\ CanRead(op[p].node, op[p].handle.side)

Due(p) == Taken(p) \/ Idling(p)

CallReturns == \A p \in Proc : Due(p) ~> (~Due(p) \/ Stuck)
=============================================================================
