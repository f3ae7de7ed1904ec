-------------------------------- MODULE Pipe --------------------------------
(***************************************************************************)
(* A pipe shared by processes: kernel/node/Pipe.cpp with the handles that  *)
(* refer to it (kernel/node/Handle.cpp, Node.cpp) and the system calls     *)
(* that read, write, close, pass on and copy them.  A process has at most  *)
(* one handle of each end.  The lock of the node is taken and given back   *)
(* in one step each, as module Lock shows that it may be; who blocks for   *)
(* the node is given its lock by the scheduler, while it is still blocked. *)
(* A process may be preempted or canceled between any two steps, unless it *)
(* runs with the interrupts disabled.  malloc and free retain and release  *)
(* the interrupts, and interrupts_release enables them only when its depth *)
(* comes down to zero.  System never gives back what it retains to wait    *)
(* for init, and from then on a call that has allocated runs with the      *)
(* interrupts disabled until it blocks or returns.                         *)
(***************************************************************************)
EXTENDS RingBuffer, FiniteSets

CONSTANTS
    Proc,       \* the processes that may ever exist
    Creator,    \* the process that has created the pipe
    Nobody,     \* nobody, the owner of a free lock
    Sizes,      \* the sizes of the reads and writes
    MaxBytes,   \* bound: the bytes a process hands to its writes
    Mortal      \* the processes that may be canceled

ASSUME PipeAssumption ==
    /\ Creator \in Proc /\ Nobody \notin Proc
    /\ Sizes \subseteq Nat /\ MaxBytes \in Nat
    /\ Mortal \subseteq Proc

End  == {"read", "write"}
Blank == <<Nobody, 0>>
Byte == (Proc \X (1 .. MaxBytes)) \cup {Blank}

VARIABLES
    ring,       \* _buffer
    owner,      \* who holds the lock of the node
    count,      \* _readers and _writers
    table,      \* the ends each process has a handle of
    pc,         \* where each process is
    op,         \* the call it makes
    sent,       \* history: the bytes its finished writes have put
    alive,      \* the processes that were not canceled
    clones,     \* those made by task_clone, which are not linked in _tasks
    kept,       \* the depth of interrupts_retain stays above zero
    masked,     \* the process that runs with the interrupts disabled
    hung        \* the kernel spins on a lock with the interrupts disabled

vars == <<ring, owner, count, table, pc, op, sent, alive, clones, kept, masked, hung>>

(* "unborn": not created.  "embryo": being launched.  "ask": calls         *)
(* task_block.  "blocked": in it.  "in": owns the node, "done": has used   *)
(* it.  "spin": spins on the lock of the node.  "deref", "pass", "go": the *)
(* rest of close and launch.                                               *)
Location == {"unborn", "embryo", "idle", "ask", "blocked", "in", "done",
             "spin", "deref", "pass", "go"}

Op == [kind   : {"none", "read", "write", "launch", "close"},
       end    : End,
       size   : Nat,        \* of the buffer given to read or write
       done   : Nat,        \* written
       closed : BOOLEAN,    \* ERR_STREAM_CLOSED
       child  : Proc \cup {Nobody},
       todo   : SUBSET End] \* the handles task_pass_handles has yet to copy

NoOp == [kind |-> "none", end |-> "read", size |-> 0, done |-> 0,
         closed |-> FALSE, child |-> Nobody, todo |-> {}]

Init ==
    /\ ring = NewRing(Blank)
    /\ owner = Nobody
    /\ count = [e \in End |-> 1]
    /\ table = [p \in Proc |-> IF p = Creator THEN End ELSE {}]
    /\ pc = [p \in Proc |-> IF p = Creator THEN "idle" ELSE "unborn"]
    /\ op = [p \in Proc |-> NoOp]
    /\ sent = [p \in Proc |-> 0]
    /\ alive = Proc
    /\ clones = {}
    /\ kept = FALSE
    /\ masked = Nobody
    /\ hung = FALSE

At(p, l)    == ~hung /\ p \in alive /\ masked \in {Nobody, p} /\ pc[p] = l
Goto(p, l)  == pc' = [pc EXCEPT ![p] = l]
-----------------------------------------------------------------------------
(* FsPipe::can_read and can_write. *)
CanGoDataOnly(e) ==   \* mutant: the end of the other side is not noticed
    IF e = "read" THEN ~Empty(ring) ELSE ~Full(ring)

CanGo(e) ==
    IF e = "read" THEN ~Empty(ring) \/ count["write"] = 0
                  ELSE ~Full(ring) \/ count["read"] = 0

(* BlockerRead::can_unblock and BlockerWrite::can_unblock. *)
CanUnblockOwned(e) == CanGo(e)   \* mutant: is_acquire is not asked
CanUnblock(e) == owner = Nobody /\ CanGo(e)

(* FsHandle::read and FsHandle::write are called. *)
Read(p, n) ==
    /\ At(p, "idle") /\ "read" \in table[p]
    /\ op' = [op EXCEPT ![p] = [NoOp EXCEPT !.kind = "read", !.end = "read", !.size = n]]
    /\ Goto(p, "ask")
    /\ UNCHANGED <<ring, owner, count, table, sent, alive, clones, hung>>

Write(p, n) ==
    /\ At(p, "idle") /\ "write" \in table[p]
    /\ sent[p] + n <= MaxBytes
    /\ op' = [op EXCEPT ![p] = [NoOp EXCEPT !.kind = "write", !.end = "write", !.size = n]]
    /\ Goto(p, "ask")
    /\ UNCHANGED <<ring, owner, count, table, sent, alive, clones, hung>>

(* task_block, with the interrupts disabled. *)
Enter(p) ==
    /\ At(p, "ask")
    /\ IF CanUnblock(op[p].end)
       THEN owner' = p /\ Goto(p, "in")
       ELSE owner' = owner /\ Goto(p, "blocked")
    /\ UNCHANGED <<ring, count, table, op, sent, alive, clones, hung>>

(* schedule() wakes p up. *)
Wake(p) ==
    /\ At(p, "blocked")
    /\ CanUnblock(op[p].end)
    /\ owner' = p
    /\ Goto(p, "in")
    /\ UNCHANGED <<ring, count, table, op, sent, alive, clones, kept, masked, hung>>

(* FsPipe::read. *)
UseRead(p) ==
    /\ At(p, "in") /\ op[p].kind = "read"
    /\ IF count["write"] = 0
       THEN /\ op' = [op EXCEPT ![p].closed = TRUE]
            /\ UNCHANGED ring
       ELSE /\ ring' = GetAll(ring, ReadCount(ring, op[p].size))
            /\ UNCHANGED op
    /\ Goto(p, "done")
    /\ UNCHANGED <<owner, count, table, sent, alive, clones, hung>>

(* FsPipe::write of what remains to be written. *)
RemainingFromStart(p) ==   \* mutant: the buffer does not advance with written
    [i \in 1 .. op[p].size |-> <<p, sent[p] + i>>]

Remaining(p) ==
    [i \in 1 .. op[p].size - op[p].done |-> <<p, sent[p] + op[p].done + i>>]

UseWrite(p) ==
    /\ At(p, "in") /\ op[p].kind = "write"
    /\ IF count["read"] = 0
       THEN /\ op' = [op EXCEPT ![p].closed = TRUE]
            /\ UNCHANGED ring
       ELSE LET k == WriteCount(ring, op[p].size - op[p].done) IN
            /\ ring' = PutAll(ring, Remaining(p), k)
            /\ op' = [op EXCEPT ![p].done = @ + k]
    /\ Goto(p, "done")
    /\ UNCHANGED <<owner, count, table, sent, alive, clones, hung>>
-----------------------------------------------------------------------------
(* task_launch: the child gets copies of the handles es. *)
Launch(p, q, es) ==
    /\ At(p, "idle") /\ pc[q] = "unborn" /\ es # {} /\ es \subseteq table[p]
    /\ op' = [op EXCEPT ![p] = [NoOp EXCEPT !.kind = "launch", !.child = q, !.todo = es]]
    /\ pc' = [pc EXCEPT ![p] = "pass", ![q] = "embryo"]
    /\ UNCHANGED <<ring, owner, count, table, sent, alive, clones, hung>>

(* task_pass_handles: the copy of a handle counts before it is opened. *)
Pass(p) ==
    /\ At(p, "pass")
    /\ \/ /\ op[p].todo = {}
          /\ Goto(p, "go")
          /\ UNCHANGED <<count, op>>
       \/ \E e \in op[p].todo :
          /\ count' = [count EXCEPT ![e] = @ + 1]
          /\ op' = [op EXCEPT ![p].end = e]
          /\ Goto(p, "spin")
    /\ UNCHANGED <<ring, owner, table, sent, alive, clones, hung>>

(* task_go. *)
Go(p) ==
    /\ At(p, "go")
    /\ pc' = [pc EXCEPT ![p] = "idle", ![op[p].child] = "idle"]
    /\ op' = [op EXCEPT ![p] = NoOp]
    /\ UNCHANGED <<ring, owner, count, table, sent, alive, clones, hung>>

(* The destructor of a handle, called by hj_handle_close. *)
Close(p, e) ==
    /\ At(p, "idle") /\ e \in table[p]
    /\ op' = [op EXCEPT ![p] = [NoOp EXCEPT !.kind = "close", !.end = e]]
    /\ Goto(p, "spin")
    /\ UNCHANGED <<ring, owner, count, table, sent, alive, clones, hung>>

(* FsNode::acquire in a constructor or in the destructor: opening and      *)
(* closing a pipe does nothing.                                            *)
Acquire(p) ==
    /\ At(p, "spin")
    /\ owner = Nobody /\ owner' = p
    /\ Goto(p, "done")
    /\ UNCHANGED <<ring, count, table, op, sent, alive, clones, hung>>

(* Nothing else can run while p spins with the interrupts disabled. *)
Hang(p) ==
    /\ At(p, "spin") /\ masked = p
    /\ owner # Nobody
    /\ hung' = TRUE
    /\ UNCHANGED <<ring, owner, count, table, pc, op, sent, alive, clones>>

(* FsNode::release, and what its caller does next: a write that is not     *)
(* complete asks again, one that is returns.                               *)
Release(p) ==
    /\ At(p, "done")
    /\ owner' = Nobody
    /\ \/ /\ op[p].kind = "write" /\ ~op[p].closed /\ op[p].done < op[p].size
          /\ Goto(p, "ask")
          /\ UNCHANGED <<table, op, sent>>
       \/ /\ \/ op[p].kind = "read"
             \/ op[p].kind = "write" /\ (op[p].closed \/ op[p].done >= op[p].size)
          /\ Goto(p, "idle")
          /\ sent' = [sent EXCEPT ![p] = @ + op[p].done]
          /\ op' = [op EXCEPT ![p] = NoOp]
          /\ UNCHANGED table
       \/ /\ op[p].kind = "launch"
          /\ table' = [table EXCEPT ![op[p].child] = @ \cup {op[p].end}]
          /\ op' = [op EXCEPT ![p].todo = @ \ {op[p].end}]
          /\ Goto(p, "pass")
          /\ UNCHANGED sent
       \/ /\ op[p].kind = "close"
          /\ Goto(p, "deref")
          /\ UNCHANGED <<table, op, sent>>
    /\ UNCHANGED <<ring, count, alive, clones, hung>>

(* FsNode::deref_handle, after the lock was given back. *)
DerefNot(p) ==   \* mutant: the count is not decremented
    /\ At(p, "deref")
    /\ table' = [table EXCEPT ![p] = @ \ {op[p].end}]
    /\ op' = [op EXCEPT ![p] = NoOp]
    /\ Goto(p, "idle")
    /\ UNCHANGED <<ring, owner, count, sent, alive, clones, hung>>

Deref(p) ==
    /\ At(p, "deref")
    /\ count' = [count EXCEPT ![op[p].end] = @ - 1]
    /\ table' = [table EXCEPT ![p] = @ \ {op[p].end}]
    /\ op' = [op EXCEPT ![p] = NoOp]
    /\ Goto(p, "idle")
    /\ UNCHANGED <<ring, owner, sent, alive, clones, hung>>
-----------------------------------------------------------------------------
(* task_clone, with the interrupts disabled: it spins for ever if another  *)
(* process owns the node.                                                  *)
Clone(p, q) ==
    /\ At(p, "idle") /\ pc[q] = "unborn"
    /\ IF table[p] # {} /\ owner # Nobody
       THEN hung' = TRUE /\ UNCHANGED <<count, table, pc, clones>>
       ELSE /\ count' = [e \in End |-> IF e \in table[p] THEN count[e] + 1 ELSE count[e]]
            /\ table' = [table EXCEPT ![q] = table[p]]
            /\ clones' = clones \cup {q}
            /\ Goto(q, "idle")
            /\ UNCHANGED hung
    /\ UNCHANGED <<ring, owner, op, sent, alive>>

(* Task::cancel, by another process or by the exit of this one. *)
Cancel(p) ==
    /\ ~hung /\ masked = Nobody
    /\ p \in alive \cap Mortal /\ pc[p] \notin {"unborn", "embryo"}
    /\ alive' = alive \ {p}
    /\ UNCHANGED <<ring, owner, count, table, pc, op, sent, clones, kept, masked, hung>>

(* The lock of the handle table, held in task_fshandle_remove and          *)
(* task_pass_handles.                                                      *)
HoldsTable(p) == op[p].kind \in {"launch", "close"} /\ pc[p] # "go"

(* The collector closes the handles of a canceled process, with the        *)
(* interrupts disabled: it spins for ever on the lock of the table if p    *)
(* was canceled in it, or on that of the node if any process owns it.  It  *)
(* goes through _tasks, where no clone is.                                 *)
Collect(p) ==
    /\ ~hung /\ masked = Nobody
    /\ p \notin alive \cup clones
    /\ HoldsTable(p) \/ table[p] # {}
    /\ IF HoldsTable(p) \/ owner # Nobody
       THEN hung' = TRUE /\ UNCHANGED <<count, table>>
       ELSE /\ count' = [e \in End |-> IF e \in table[p] THEN count[e] - 1 ELSE count[e]]
            /\ table' = [table EXCEPT ![p] = {}]
            /\ UNCHANGED hung
    /\ UNCHANGED <<ring, owner, pc, op, sent, alive, clones, kept, masked>>
-----------------------------------------------------------------------------
(* System waits for init. *)
SystemWaits ==
    /\ ~hung /\ ~kept /\ kept' = TRUE
    /\ UNCHANGED <<ring, owner, count, table, pc, op, sent, alive, clones, masked, hung>>

(* The steps of p in which it allocates or frees: the blocker of a read or *)
(* a write, what a launch and the handles it passes on are made of.        *)
Allocates(p) ==
    \/ pc[p] \in {"ask", "in"}
    \/ pc[p] \in {"idle", "pass"} /\ op'[p].kind = "launch"

(* p gives the CPU up when it blocks and when it returns. *)
Interrupts(p) ==
    /\ masked' = IF pc'[p] \in {"idle", "blocked"} THEN Nobody
                 ELSE IF kept /\ Allocates(p) THEN p
                 ELSE masked
    /\ UNCHANGED kept

(* What p calls, and what it then does of its own accord. *)
Syscall(p) ==
    /\ \/ \E n \in Sizes : Read(p, n) \/ Write(p, n)
       \/ \E e \in End : Close(p, e)
       \/ \E q \in Proc : Clone(p, q) \/ \E es \in SUBSET End : Launch(p, q, es)
    /\ Interrupts(p)

Run(p) ==
    /\ \/ Enter(p) \/ UseRead(p) \/ UseWrite(p) \/ Release(p)
       \/ Pass(p) \/ Acquire(p) \/ Hang(p) \/ Go(p) \/ Deref(p)
    /\ Interrupts(p)

Next ==
    \/ \E p \in Proc : Syscall(p) \/ Run(p) \/ Wake(p) \/ Cancel(p) \/ Collect(p)
    \/ SystemWaits

Spec == Init /\ [][Next]_vars

(* A process gets through the kernel code it is in, the collector comes    *)
(* round again and again, and so does the scheduling that looks at a       *)
(* blocked process: whoever runs with the interrupts disabled blocks or    *)
(* returns, unless the machine hangs.  Quanta and sections are not         *)
(* synchronised: a process that spins with the interrupts enabled, or is   *)
(* looked at, again and again finds the lock free if it is free again and  *)
(* again.                                                                  *)
Fairness ==
    /\ \A p \in Proc : SF_vars(Run(p) \/ Wake(p))
    /\ \A p \in Mortal : SF_vars(Collect(p))

FairSpec == Spec /\ Fairness
=============================================================================
