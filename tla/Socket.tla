------------------------------- MODULE Socket -------------------------------
(***************************************************************************)
(* A socket and the connections made to it: kernel/node/Socket.cpp and     *)
(* Connection.cpp with the handles, the connect of the filesystem and the  *)
(* calls of tasking/Task-Handles.cpp.  A connect leaves a connection in    *)
(* _pending and blocks until it is accepted; an accept takes one, under    *)
(* the lock of the socket, and opens the server's handle, under that of    *)
(* the connection.  The locks of nodes are taken and given back in one     *)
(* step each, as module Lock shows that they may be; the two ring buffers  *)
(* of a connection are queues of messages, as module Pipe shows of one.    *)
(* A process may be preempted or canceled between any two steps, unless it *)
(* runs with the interrupts disabled: as module Pipe says, a call that has *)
(* allocated does, until it blocks or returns, while System waits for      *)
(* init.                                                                   *)
(***************************************************************************)
EXTENDS Integers, Sequences, FiniteSets

CONSTANTS
    Proc,       \* the processes
    Server,     \* those that have a handle of the socket
    Conn,       \* bound: the connections that may be made
    Nobody,     \* nobody, the owner of a free lock
    Size,       \* BUFFER_SIZE, in messages
    MaxMsg,     \* bound: the messages sent over a connection by one side
    MaxHandles, \* PROCESS_HANDLE_COUNT
    Calls,      \* bound: the calls each process makes
    Mortal      \* the processes that may be canceled

ASSUME SocketAssumption ==
    /\ Server \subseteq Proc /\ Nobody \notin Proc
    /\ Conn \subseteq Nat \ {0}
    /\ Size \in Nat \ {0} /\ MaxMsg \in Nat /\ MaxHandles \in Nat
    /\ Calls \in [Proc -> SUBSET {"connect", "accept", "read", "write", "close"}]
    /\ Mortal \subseteq Proc

Side == {"client", "server"}        \* OPEN_CLIENT, OPEN_SERVER
Peer(s) == IF s = "client" THEN "server" ELSE "client"

Sock == 0                           \* the node of the socket
Node == Conn \cup {Sock}

(* A handle is a node and the flag it was opened with. *)
Listener == [node |-> Sock, side |-> "server"]
Ends     == [node : Conn, side : Side]
Handle   == Ends \cup {Listener}

VARIABLES
    pending,    \* _pending of the socket
    made,       \* the connections that were made
    accepted,   \* _accepted of the connections
    count,      \* _clients and _server of the connections
    data,       \* data[c][s]: the messages for side s
    sent,       \* history: sent[c][s] counts the messages of side s
    owner,      \* who holds the lock of each node
    table,      \* the handles of each process
    pc,         \* where each process is
    op,         \* the call it makes
    alive,      \* the processes that were not canceled
    kept,       \* the depth of interrupts_retain stays above zero
    masked,     \* the process that runs with the interrupts disabled
    hung        \* the kernel spins on a lock with the interrupts disabled

connVars == <<made, accepted, count, data, sent>>
procVars == <<table, alive, hung>>
vars == <<pending, connVars, owner, table, pc, op, alive, kept, masked, hung>>

(* "ask": in task_block, for the lock of a node.  "spin": spins on it.     *)
(* "in": owns it.  "done": is about to give it back.  "ref": constructs a  *)
(* handle.  "wait": waits to be accepted.  "add": stores the handle.       *)
(* "deref": has closed the handle.                                         *)
Location == {"idle", "ask", "spin", "in", "done", "ref", "wait", "add", "deref"}

Kind == {"none", "connect", "accept", "read", "write", "close", "drop"}

Op == [kind : Kind, handle : Handle,
       node : Node,         \* the node it locks
       put  : BOOLEAN,      \* the message was written
       closed : BOOLEAN]    \* ERR_STREAM_CLOSED

NewOp(k, h) == [kind |-> k, handle |-> h, node |-> h.node, put |-> FALSE, closed |-> FALSE]
NoOp == NewOp("none", Listener)

Init ==
    /\ pending = <<>>
    /\ made = {}
    /\ accepted = [c \in Conn |-> FALSE]
    /\ count = [c \in Conn |-> [s \in Side |-> 0]]
    /\ data = [c \in Conn |-> [s \in Side |-> <<>>]]
    /\ sent = [c \in Conn |-> [s \in Side |-> 0]]
    /\ owner = [n \in Node |-> Nobody]
    /\ table = [p \in Proc |-> IF p \in Server THEN {Listener} ELSE {}]
    /\ pc = [p \in Proc |-> "idle"]
    /\ op = [p \in Proc |-> NoOp]
    /\ alive = Proc
    /\ kept = FALSE
    /\ masked = Nobody
    /\ hung = FALSE

At(p, l)   == ~hung /\ p \in alive /\ masked \in {Nobody, p} /\ pc[p] = l
Goto(p, l) == pc' = [pc EXCEPT ![p] = l]
Begin(p, o, l) ==
    /\ At(p, "idle") /\ o.kind \in Calls[p]
    /\ op' = [op EXCEPT ![p] = o]
    /\ Goto(p, l)

End(p)     == op' = [op EXCEPT ![p] = NoOp] /\ Goto(p, "idle")
-----------------------------------------------------------------------------
(* The calls.  filesystem_connect has found the socket and spins on it. *)
Connecting == {p \in Proc : op[p].kind = "connect" /\ op[p].handle = Listener}

Connect(p) ==
    /\ Cardinality(made) + Cardinality(Connecting) < Cardinality(Conn)
    /\ Begin(p, NewOp("connect", Listener), "spin")
    /\ UNCHANGED <<pending, connVars, owner, procVars>>

Accept(p) ==
    /\ Listener \in table[p]
    /\ Begin(p, NewOp("accept", Listener), "ask")
    /\ UNCHANGED <<pending, connVars, owner, procVars>>

Read(p, h) ==
    /\ h \in table[p] \cap Ends
    /\ Begin(p, NewOp("read", h), "ask")
    /\ UNCHANGED <<pending, connVars, owner, procVars>>

Write(p, h) ==
    /\ h \in table[p] \cap Ends
    /\ sent[h.node][h.side] < MaxMsg
    /\ Begin(p, NewOp("write", h), "ask")
    /\ UNCHANGED <<pending, connVars, owner, procVars>>

(* task_fshandle_remove, up to the destructor of the handle. *)
Close(p, h) ==
    /\ h \in table[p]
    /\ Begin(p, NewOp("close", h), "spin")
    /\ UNCHANGED <<pending, connVars, owner, procVars>>
-----------------------------------------------------------------------------
(* FsConnection::can_read and can_write by side s. *)
CanRead(c, s)  == data[c][s] # <<>> \/ count[c][Peer(s)] = 0
CanWrite(c, s) == Len(data[c][Peer(s)]) < Size \/ count[c][Peer(s)] = 0

(* The condition of BlockerAccept, BlockerRead and BlockerWrite, besides   *)
(* the lock.                                                               *)
Ready(o) ==
    CASE o.kind = "accept" -> pending # <<>>
      [] o.kind = "read"   -> CanRead(o.node, o.handle.side)
      [] o.kind = "write"  -> CanWrite(o.node, o.handle.side)

(* task_block, at once or when schedule() finds that it may be unblocked:  *)
(* the process gets the lock.                                              *)
Unblock(p) ==
    /\ At(p, "ask")
    /\ owner[op[p].node] = Nobody /\ Ready(op[p])
    /\ owner' = [owner EXCEPT ![op[p].node] = p]
    /\ Goto(p, "in")
    /\ UNCHANGED <<pending, connVars, procVars, op>>

(* FsNode::acquire spins until the lock is free.  Opening and closing a    *)
(* connection or a socket do nothing.                                      *)
Acquire(p) ==
    /\ At(p, "spin")
    /\ owner[op[p].node] = Nobody
    /\ owner' = [owner EXCEPT ![op[p].node] = p]
    /\ Goto(p, IF op[p].kind = "connect" /\ op[p].node = Sock THEN "in" ELSE "done")
    /\ UNCHANGED <<pending, connVars, procVars, op>>

(* Nothing else can run while p spins with the interrupts disabled. *)
Hang(p) ==
    /\ At(p, "spin") /\ masked = p
    /\ owner[op[p].node] # Nobody
    /\ hung' = TRUE
    /\ UNCHANGED <<pending, connVars, owner, table, pc, op, alive>>

(* FsSocket::connect pushes a new connection. *)
UseConnect(p) ==
    /\ At(p, "in") /\ op[p].kind = "connect"
    /\ \E c \in Conn \ made :
        /\ \A d \in Conn \ made : c <= d
        /\ made' = made \cup {c}
        /\ pending' = Append(pending, c)
        /\ op' = [op EXCEPT ![p].handle = [node |-> c, side |-> "client"]]
    /\ Goto(p, "done")
    /\ UNCHANGED <<accepted, count, data, sent, owner, procVars>>

(* FsSocket::accept pops the newest one, and tells it so. *)
UseAcceptPeek(p) ==   \* mutant: the connection is not removed
    /\ At(p, "in") /\ op[p].kind = "accept"
    /\ LET c == pending[Len(pending)] IN
        /\ accepted' = [accepted EXCEPT ![c] = TRUE]
        /\ op' = [op EXCEPT ![p].handle = [node |-> c, side |-> "server"]]
    /\ Goto(p, "ref")
    /\ UNCHANGED <<pending, made, count, data, sent, owner, procVars>>

UseAcceptSilently(p) ==   \* mutant: accepted() is not called
    /\ At(p, "in") /\ op[p].kind = "accept"
    /\ LET c == pending[Len(pending)] IN
        /\ pending' = SubSeq(pending, 1, Len(pending) - 1)
        /\ op' = [op EXCEPT ![p].handle = [node |-> c, side |-> "server"]]
    /\ Goto(p, "ref")
    /\ UNCHANGED <<made, accepted, count, data, sent, owner, procVars>>

UseAccept(p) ==
    /\ At(p, "in") /\ op[p].kind = "accept"
    /\ LET c == pending[Len(pending)] IN
        /\ pending' = SubSeq(pending, 1, Len(pending) - 1)
        /\ accepted' = [accepted EXCEPT ![c] = TRUE]
        /\ op' = [op EXCEPT ![p].handle = [node |-> c, side |-> "server"]]
    /\ Goto(p, "ref")
    /\ UNCHANGED <<made, count, data, sent, owner, procVars>>

(* The constructor of a handle counts it, then opens the node. *)
Ref(p) ==
    LET h == op[p].handle IN
    /\ At(p, "ref")
    /\ count' = [count EXCEPT ![h.node][h.side] = @ + 1]
    /\ op' = [op EXCEPT ![p].node = h.node]
    /\ Goto(p, "spin")
    /\ UNCHANGED <<pending, made, accepted, data, sent, owner, procVars>>

(* FsConnection::read of a message. *)
UseRead(p) ==
    LET h == op[p].handle IN
    /\ At(p, "in") /\ op[p].kind = "read"
    /\ IF count[h.node][Peer(h.side)] = 0
       THEN /\ op' = [op EXCEPT ![p].closed = TRUE]
            /\ UNCHANGED data
       ELSE /\ data' = [data EXCEPT ![h.node][h.side] = IF @ = <<>> THEN @ ELSE Tail(@)]
            /\ UNCHANGED op
    /\ Goto(p, "done")
    /\ UNCHANGED <<pending, made, accepted, count, sent, owner, procVars>>

(* FsConnection::write of a message: what has no room is not written. *)
IntoOwn(s) == s   \* mutant: the flag of the handle is tested the wrong way round
Into(s) == Peer(s)

UseWrite(p) ==
    LET c == op[p].handle.node
        s == op[p].handle.side
    IN
    /\ At(p, "in") /\ op[p].kind = "write"
    /\ IF count[c][Peer(s)] = 0
       THEN /\ op' = [op EXCEPT ![p].closed = TRUE]
            /\ UNCHANGED <<data, sent>>
       ELSE IF Len(data[c][Into(s)]) = Size THEN UNCHANGED <<op, data, sent>>
       ELSE /\ data' = [data EXCEPT ![c][Into(s)] = Append(@, sent[c][s] + 1)]
            /\ sent' = [sent EXCEPT ![c][s] = @ + 1]
            /\ op' = [op EXCEPT ![p].put = TRUE]
    /\ Goto(p, "done")
    /\ UNCHANGED <<pending, made, accepted, count, owner, procVars>>

(* FsNode::release, and what comes next. *)
Release(p) ==
    LET o == op[p] IN
    /\ At(p, "done")
    /\ owner' = [owner EXCEPT ![o.node] = Nobody]
    /\ \/ /\ o.kind = "connect"         \* of the socket, then of the connection
          /\ Goto(p, IF o.node = Sock THEN "ref" ELSE "wait")
          /\ UNCHANGED op
       \/ /\ o.kind = "accept" /\ o.node # Sock
          /\ op' = [op EXCEPT ![p].node = Sock]
          /\ UNCHANGED pc
       \/ /\ o.kind = "accept" /\ o.node = Sock
          /\ Goto(p, "add")
          /\ UNCHANGED op
       \/ /\ o.kind \in {"close", "drop"}
          /\ Goto(p, "deref")
          /\ UNCHANGED op
       \/ /\ o.kind = "read" \/ (o.kind = "write" /\ (o.put \/ o.closed))
          /\ End(p)
       \/ /\ o.kind = "write" /\ ~o.put /\ ~o.closed
          /\ Goto(p, "ask")
          /\ UNCHANGED op
    /\ UNCHANGED <<pending, connVars, procVars>>

(* BlockerConnect. *)
Connected(p) ==
    /\ At(p, "wait")
    /\ accepted[op[p].handle.node]
    /\ Goto(p, "add")
    /\ UNCHANGED <<pending, connVars, owner, procVars, op>>

(* task_fshandle_add; the handle is deleted if the table is full. *)
Add(p) ==
    /\ At(p, "add")
    /\ IF Cardinality(table[p]) < MaxHandles
       THEN /\ table' = [table EXCEPT ![p] = @ \cup {op[p].handle}]
            /\ End(p)
       ELSE /\ op' = [op EXCEPT ![p] = NewOp("drop", op[p].handle)]
            /\ Goto(p, "spin")
            /\ UNCHANGED table
    /\ UNCHANGED <<pending, connVars, owner, alive, hung>>

(* FsNode::deref_handle, after the lock was given back. *)
Deref(p) ==
    LET h == op[p].handle IN
    /\ At(p, "deref")
    /\ count' = IF h = Listener THEN count ELSE [count EXCEPT ![h.node][h.side] = @ - 1]
    /\ table' = [table EXCEPT ![p] = @ \ {h}]
    /\ End(p)
    /\ UNCHANGED <<pending, made, accepted, data, sent, owner, alive, hung>>
-----------------------------------------------------------------------------
(* Task::cancel. *)
Cancel(p) ==
    /\ ~hung /\ masked = Nobody
    /\ p \in alive \cap Mortal
    /\ alive' = alive \ {p}
    /\ UNCHANGED <<pending, connVars, owner, table, pc, op, kept, masked, hung>>

(* The collector closes the handles of a canceled process with the         *)
(* interrupts disabled: it spins for ever on the lock of the table, if p   *)
(* was canceled in its close, and on that of a node that is owned.         *)
CloseAllUncounted(p) == count   \* mutant: the handles are not counted off
CloseAll(p) ==
    [c \in Conn |-> [s \in Side |->
        IF [node |-> c, side |-> s] \in table[p] THEN count[c][s] - 1 ELSE count[c][s]]]

Collect(p) ==
    /\ ~hung /\ masked = Nobody
    /\ p \notin alive
    /\ table[p] # {}
    /\ IF op[p].kind = "close" \/ \E h \in table[p] : owner[h.node] # Nobody
       THEN hung' = TRUE /\ UNCHANGED <<count, table>>
       ELSE /\ count' = CloseAll(p)
            /\ table' = [table EXCEPT ![p] = {}]
            /\ UNCHANGED hung
    /\ UNCHANGED <<pending, made, accepted, data, sent, owner, pc, op, alive, kept, masked>>
-----------------------------------------------------------------------------
(* System waits for init. *)
SystemWaits ==
    /\ ~hung /\ ~kept /\ kept' = TRUE
    /\ UNCHANGED <<pending, connVars, owner, table, pc, op, alive, masked, hung>>

(* The steps of p in which it allocates or frees: the path a connect looks *)
(* up, the blocker p has waited with, a connection, a handle.              *)
Allocates(p) ==
    \/ pc[p] \in {"in", "ref", "add"}
    \/ pc[p] = "idle" /\ op'[p].kind = "connect"

(* p gives the CPU up when it blocks and when it returns. *)
Interrupts(p) ==
    /\ masked' = IF pc'[p] \in {"idle", "ask", "wait"} THEN Nobody
                 ELSE IF kept /\ Allocates(p) THEN p
                 ELSE masked
    /\ UNCHANGED kept

(* What p calls, and what it then does of its own accord. *)
Syscall(p) ==
    /\ \/ Connect(p) \/ Accept(p)
       \/ \E h \in table[p] : Read(p, h) \/ Write(p, h) \/ Close(p, h)
    /\ Interrupts(p)

Run(p) ==
    /\ \/ Unblock(p) \/ Acquire(p) \/ Hang(p) \/ Connected(p)
       \/ UseConnect(p) \/ UseAccept(p) \/ UseRead(p) \/ UseWrite(p)
       \/ Release(p) \/ Ref(p) \/ Add(p) \/ Deref(p)
    /\ Interrupts(p)

Next ==
    \/ \E p \in Proc : Syscall(p) \/ Run(p) \/ Cancel(p) \/ Collect(p)
    \/ SystemWaits

Spec == Init /\ [][Next]_vars

(* As for the pipe: a process gets through the kernel code it is in, and   *)
(* the collector comes round again and again.  No process need ever call   *)
(* accept, read or close.                                                  *)
Fairness ==
    /\ \A p \in Proc : SF_vars(Run(p))
    /\ \A p \in Mortal : SF_vars(Collect(p))

FairSpec == Spec /\ Fairness
=============================================================================
