----------------------------- MODULE PipeProps ------------------------------
(***************************************************************************)
(* What the pipe promises.                                                 *)
(***************************************************************************)
EXTENDS Pipe

(* Every variable has its type; the ring buffer never overflows. *)
TypeOK ==
    /\ ring \in RingOver(Byte)
    /\ owner \in Proc \cup {Nobody}
    /\ count \in [End -> Nat]
    /\ table \in [Proc -> SUBSET End]
    /\ pc \in [Proc -> Location]
    /\ op \in [Proc -> Op]
    /\ sent \in [Proc -> 0 .. MaxBytes]
    /\ alive \subseteq Proc /\ clones \subseteq Proc
    /\ kept \in BOOLEAN
    /\ masked \in Proc \cup {Nobody}
    /\ hung \in BOOLEAN

(* At most one process is in the section that the lock of the node         *)
(* protects, and it is the one that owns the lock.                         *)
OwnerIsInside == \A p \in Proc : pc[p] \in {"in", "done"} <=> owner = p

(* The copies that are counted and not yet in the table of the child. *)
Copying(e) == {p \in Proc : op[p].kind = "launch" /\ op[p].end = e /\ pc[p] \in {"spin", "done"}}

(* _readers and _writers are the numbers of handles that exist: those in   *)
(* the tables, and those that task_pass_handles is about to store there.   *)
CountsMatchHandles ==
    \A e \in End :
        count[e] = Cardinality({p \in Proc : e \in table[p]}) + Cardinality(Copying(e))

(* The pipe is a bounded queue: what the processes put in it comes out in  *)
(* the order of each, once, with nothing missing in between, however its   *)
(* writes are cut in pieces and retried.                                   *)
PipeChannel ==
    INSTANCE Channel WITH
        Capacity <- Size,
        queue    <- Contents(ring),
        put      <- [p \in Proc |-> sent[p] + op[p].done]

ChannelSpec == PipeChannel!Spec
-----------------------------------------------------------------------------
(* The lock of the node is stuck. *)
Stuck == hung \/ (owner # Nobody /\ owner \notin alive)

InCall(p, k) == p \in alive /\ op[p].kind = k

(* A read does not block for ever once no writer is left, or once there is *)
(* data that no other reader takes; nor does a write once no reader is     *)
(* left.                                                                   *)
Due(p) ==
    \/ InCall(p, "read") /\ CanGo("read")
    \/ InCall(p, "write") /\ count["read"] = 0

CallReturns == \A p \in Proc : Due(p) ~> (~Due(p) \/ Stuck)
=============================================================================
