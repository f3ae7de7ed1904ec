----------------------------- MODULE HandleTable -----------------------------
(***************************************************************************)
(* The handles of the processes: kernel/tasking/Task-Handles.cpp, node/    *)
(* Handle.cpp and node/File.cpp, over the tree of module Filesystem.  A    *)
(* process makes one call at a time, so its table and the offsets of its   *)
(* handles are its own; the lock of the table matters when the process is  *)
(* canceled inside, or spins inside, and its handles are collected.        *)
(* Module Pipe has the blocking calls on a pipe.                           *)
(***************************************************************************)
EXTENDS Filesystem

CONSTANTS
    MaxHandles,     \* PROCESS_HANDLE_COUNT
    MaxSize         \* bound: the size from which a file is not written

Slot   == 1 .. MaxHandles
Handle == [node : Node, mode : Mode, trunc : BOOLEAN, offset : Nat]
Gap    == "gap"     \* bytes of a file that were never written

ASSUME HandleTableAssumption ==
    /\ MaxHandles \in Nat \ {0} /\ MaxSize \in Nat
    /\ NoHandle \notin Handle /\ Gap \notin Proc

Init ==
    /\ type = Kinds /\ entry = Tree
    /\ data = [x \in Node |-> <<>>]
    /\ owner = [x \in Node |-> Nobody]
    /\ table = [p \in Proc |-> [i \in Slot |-> NoHandle]]
    /\ left = [p \in Proc |-> {}]
    /\ program \in Programs
    /\ pc = [p \in Proc |-> "idle"]
    /\ op = [p \in Proc |-> NewOp(NoRequest)]
    /\ alive = Proc /\ machine = "up"
    /\ kept = FALSE /\ masked = Nobody

Held(p)   == table[p][op[p].req.slot]
Unused(p) == {i \in Slot : table[p][i] = NoHandle}
Lowest(s) == CHOOSE i \in s : \A j \in s : i <= j
-----------------------------------------------------------------------------
(* FsHandle::FsHandle: FsFile::open truncates under the lock of the node.  *)
MadeHandle(p) ==
    IF Kind(p) = "open"
    THEN [node |-> op[p].child, mode |-> op[p].req.mode,
          trunc |-> "trunc" \in op[p].req.flags, offset |-> 0]
    ELSE Held(p)

Open(p) ==
    LET h == MadeHandle(p)
    IN  /\ At(p, "open")
        /\ Take(p, h.node)
        /\ data' = IF h.trunc /\ type[h.node] = "file"
                   THEN [data EXCEPT ![h.node] = <<>>] ELSE data
        /\ op' = [op EXCEPT ![p].handle = h]
        /\ Goto(p, "opened")
        /\ UNCHANGED <<treeVars, table, left, procVars>>

Opened(p) ==
    /\ At(p, "opened")
    /\ Give(op[p].handle.node)
    /\ Goto(p, IF Kind(p) = "copy" THEN "evict" ELSE "add")
    /\ UNCHANGED <<treeVars, fileVars, op, procVars>>

(* task_fshandle_add; the handle is deleted when the table is full. *)
Add(p) ==
    /\ At(p, "add")
    /\ IF Unused(p) = {} THEN Goto(p, "delete") /\ UNCHANGED <<table, op>>
       ELSE /\ table' = [table EXCEPT ![p][Lowest(Unused(p))] = op[p].handle]
            /\ Finish(p)
    /\ UNCHANGED <<treeVars, data, left, owner, procVars>>

(* task_fshandle_add_at, under the lock of the table: what was there is    *)
(* deleted first.                                                          *)
Place(p) ==
    /\ table' = [table EXCEPT ![p][op[p].req.into] = op[p].handle]
    /\ left' = [left EXCEPT ![p] = @ \ {op[p].req.into}]
    /\ Finish(p)

Evict(p) ==
    LET old == table[p][op[p].req.into]
    IN  /\ At(p, "evict") /\ op[p].req.into \in Slot
        /\ IF old = NoHandle
           THEN Place(p) /\ UNCHANGED owner
           ELSE /\ Take(p, old.node)
                /\ Goto(p, "deleted")
                /\ UNCHANGED <<table, left, op>>
        /\ UNCHANGED <<treeVars, data, procVars>>

(* A destination outside of the table is not refused: the test of the      *)
(* index is "index < 0 && index >= PROCESS_HANDLE_COUNT".                  *)
PlaceOutside(p) ==
    /\ At(p, "evict") /\ op[p].req.into \notin Slot
    /\ machine' = "corrupt"
    /\ UNCHANGED <<treeVars, fileVars, owner, pc, op, alive>>
-----------------------------------------------------------------------------
(* FsHandle::~FsHandle, of a handle that found no room, that is closed, or *)
(* that a copy replaces; the last two under the lock of the table.         *)
Deleting(p) == IF Kind(p) = "close" THEN Held(p) ELSE op[p].handle

Delete(p) ==
    /\ At(p, "delete")
    /\ Take(p, Deleting(p).node)
    /\ Goto(p, "deleted")
    /\ UNCHANGED <<treeVars, fileVars, op, procVars>>

Deleted(p) ==
    /\ At(p, "deleted")
    /\ CASE Kind(p) = "copy" -> Give(table[p][op[p].req.into].node) /\ Place(p)
         [] Kind(p) = "close" ->
              /\ Give(Held(p).node)
              /\ table' = [table EXCEPT ![p][op[p].req.slot] = NoHandle]
              /\ left' = [left EXCEPT ![p] = @ \ {op[p].req.slot}]
              /\ Finish(p)
         [] OTHER -> Give(op[p].handle.node) /\ Finish(p) /\ UNCHANGED <<table, left>>
    /\ UNCHANGED <<treeVars, data, procVars>>

(* task_fshandle_close: no matter whether the lock of the handle is taken. *)
Close(p, r) ==
    /\ At(p, "idle") /\ r.kind = "close"
    /\ r.slot \in Slot /\ table[p][r.slot] # NoHandle
    /\ op' = [op EXCEPT ![p] = NewOp(r)]
    /\ Goto(p, "delete")
    /\ UNCHANGED <<treeVars, fileVars, owner, procVars>>
-----------------------------------------------------------------------------
(* task_fshandle_acquire, then what the call does with the handle.  It     *)
(* spins for ever, inside the lock of the table, on the lock of a handle   *)
(* that a reopen or a copy left taken.                                     *)
Permits(h, kind) == (kind = "read") <=> h.mode = "read"

HandleCall(p, r, next) ==
    /\ At(p, "idle")
    /\ r.slot \in Slot /\ table[p][r.slot] # NoHandle
    /\ op' = [op EXCEPT ![p] = NewOp(r)]
    /\ Goto(p, IF r.slot \in left[p] THEN "stuck" ELSE next)

(* task_fshandle_read, write and seek, of a file. *)
Use(p, r) ==
    LET h == table[p][r.slot]
    IN  /\ r.kind \in {"read", "write", "seek"}
        /\ HandleCall(p, r, "ask")
        /\ type[h.node] = "file" /\ (r.kind # "seek" => Permits(h, r.kind))
        /\ r.kind = "write" => Len(data[h.node]) < MaxSize
        /\ UNCHANGED <<treeVars, fileVars, owner, procVars>>

(* task_fshandle_reopen and copy: the lock of the source is not released.  *)
LeftBehind(p, r) == left[p] \cup {r.slot}

Copy(p, r) ==
    /\ r.kind \in {"reopen", "copy"}
    /\ HandleCall(p, r, "open")
    /\ left' = [left EXCEPT ![p] = LeftBehind(p, r)]
    /\ UNCHANGED <<treeVars, data, table, owner, procVars>>

(* The node is asked for: by its lock, or by a blocker, which takes it. *)
Ask(p) ==
    /\ At(p, "ask")
    /\ Take(p, Held(p).node)
    /\ Goto(p, "use")
    /\ UNCHANGED <<treeVars, fileVars, op, procVars>>

(* FsFile::write, one unit: the file grows to where it ends, *)
(* and what lies between is not written.                     *)
Written(content, offset, unit) ==
    [i \in 1 .. (IF offset < Len(content) THEN Len(content) ELSE offset + 1) |->
        IF i = offset + 1 THEN unit ELSE IF i <= Len(content) THEN content[i] ELSE Gap]

(* FsHandle::write: an append goes to the end as it is under the lock. *)
WriteOffsetStale(h) == h.offset   \* mutant: where the handle was
WriteOffset(h) == IF h.mode = "append" THEN Len(data[h.node]) ELSE h.offset

UseFile(p) ==
    LET h == Held(p)
        x == h.node
        Advance(n) == table' = [table EXCEPT ![p][op[p].req.slot].offset = n]
    IN  /\ At(p, "use")
        /\ CASE Kind(p) = "write" -> /\ data' = [data EXCEPT ![x] = Written(@, WriteOffset(h), p)]
                                     /\ Advance(WriteOffset(h) + 1)
             [] Kind(p) = "read" -> /\ Advance(IF h.offset < Len(data[x]) THEN h.offset + 1 ELSE h.offset)
                                    /\ UNCHANGED data
             [] OTHER -> /\ Advance(IF "end" \in op[p].req.flags THEN Len(data[x]) ELSE op[p].req.into)
                         /\ UNCHANGED data
        /\ Give(x)
        /\ Finish(p)
        /\ UNCHANGED <<treeVars, left, procVars>>
-----------------------------------------------------------------------------
(* task_create_pipe and task_create_term: two handles of a node that no    *)
(* other process knows.  When only the first finds room, it is deleted     *)
(* with its slot, and then again.                                          *)
CreatePipe(p, r) ==
    LET first == Lowest(Unused(p))
        new(x, m) == [node |-> x, mode |-> m, trunc |-> FALSE, offset |-> 0]
    IN  /\ At(p, "idle") /\ r.kind = "pipe" /\ NodeLeft(r)
        /\ CASE Unused(p) = {} -> UNCHANGED <<type, table, machine>>
             [] Cardinality(Unused(p)) = 1 ->
                  machine' = "corrupt" /\ UNCHANGED <<type, table>>
             [] OTHER ->
                  /\ type' = [type EXCEPT ![Fresh] = "pipe"]
                  /\ table' = [table EXCEPT ![p][first] = new(Fresh, "read"),
                                            ![p][Lowest(Unused(p) \ {first})] = new(Fresh, "write")]
                  /\ UNCHANGED machine
        /\ UNCHANGED <<entry, data, left, owner, pc, op, alive>>

(* Task::cancel. *)
Cancel(p) ==
    /\ machine = "up" /\ masked = Nobody
    /\ p \in alive \cap Mortal
    /\ alive' = alive \ {p}
    /\ UNCHANGED <<treeVars, fileVars, owner, program, pc, op, kept, masked, machine>>

(* Whether a process was canceled inside the lock of its table: surely     *)
(* while it deletes a handle of the table or spins in it, perhaps in one   *)
(* of the short sections.                                                  *)
Inside(p) ==
    IF pc[p] = "stuck" \/ (pc[p] = "deleted" /\ Kind(p) \in {"close", "copy"}) THEN {TRUE}
    ELSE IF pc[p] \in {"add", "evict", "delete", "ask"} THEN BOOLEAN
    ELSE {FALSE}

(* task_fshandle_close_all, by the collector, with the interrupts          *)
(* disabled: what it spins on is never given back.                         *)
Collect(p) ==
    /\ machine = "up" /\ masked = Nobody
    /\ p \notin alive
    /\ Unused(p) # Slot \/ TRUE \in Inside(p)
    /\ \E inside \in Inside(p) :
        IF inside \/ \E i \in Slot \ Unused(p) : ~Free(table[p][i].node)
        THEN machine' = "hung" /\ UNCHANGED <<table, left>>
        ELSE /\ table' = [table EXCEPT ![p] = [i \in Slot |-> NoHandle]]
             /\ left' = [left EXCEPT ![p] = {}]
             /\ UNCHANGED machine
    /\ UNCHANGED <<treeVars, data, owner, program, pc, op, kept, masked, alive>>
-----------------------------------------------------------------------------
(* System waits for init. *)
SystemWaits ==
    /\ machine = "up" /\ ~kept /\ kept' = TRUE
    /\ UNCHANGED <<treeVars, fileVars, owner, program, pc, op, masked, procVars>>

(* The steps of p in which it allocates or frees: the paths, a node made   *)
(* for a call, a handle before it is constructed, the entry of a name.     *)
Allocates(p) ==
    \/ pc[p] = "idle" /\ pc'[p] = "walk"
    \/ pc[p] \in {"in", "moved"}
    \/ pc'[p] = "open"

(* p gives the CPU up when it returns, and when it asks for a node by a    *)
(* blocker: it has allocated nothing then.                                 *)
Interrupts(p) ==
    /\ masked' = IF pc'[p] = "idle" THEN Nobody
                 ELSE IF kept /\ Allocates(p) THEN p
                 ELSE masked
    /\ UNCHANGED kept

(* The node whose lock p spins on, or is blocked for. *)
WaitsFor(p) ==
    CASE pc[p] = "walk" -> IF MoreToFind(p) THEN op[p].cur ELSE NoNode
      [] pc[p] = "lock" -> op[p].cur
      [] pc[p] = "lock2" -> op[p].dir
      [] pc[p] = "open" -> MadeHandle(p).node
      [] pc[p] = "evict" -> IF op[p].req.into \notin Slot \/ table[p][op[p].req.into] = NoHandle
                            THEN NoNode ELSE table[p][op[p].req.into].node
      [] pc[p] = "delete" -> Deleting(p).node
      [] pc[p] = "ask" -> Held(p).node
      [] OTHER -> NoNode

(* Nothing else can run while p spins with the interrupts disabled. *)
Hang(p) ==
    /\ machine = "up" /\ masked = p
    /\ WaitsFor(p) # NoNode /\ ~Free(WaitsFor(p))
    /\ machine' = "hung"
    /\ UNCHANGED <<treeVars, fileVars, owner, pc, op, alive>>
-----------------------------------------------------------------------------
Syscall(p) ==
    /\ \E r \in program[p] :
           TreeCall(p, r) \/ Close(p, r) \/ Use(p, r) \/ Copy(p, r) \/ CreatePipe(p, r)
    /\ Interrupts(p)
    /\ UNCHANGED program

Run(p) ==
    /\ \/ TreeStep(p)
       \/ Open(p) \/ Opened(p) \/ Add(p) \/ Evict(p) \/ PlaceOutside(p)
       \/ Delete(p) \/ Deleted(p)
       \/ Ask(p) \/ UseFile(p) \/ Hang(p)
    /\ Interrupts(p)
    /\ UNCHANGED program

Next ==
    \/ \E p \in Proc : Syscall(p) \/ Run(p) \/ Cancel(p) \/ Collect(p)
    \/ SystemWaits

Spec == Init /\ [][Next]_vars

(* A process gets through the kernel code it is in; one that spins on a    *)
(* lock with the interrupts enabled, or is looked at by the scheduler,     *)
(* again and again finds it free if it is free again and again; the        *)
(* collector comes round.                                                  *)
Fairness ==
    /\ \A p \in Proc : SF_vars(Run(p))
    /\ \A p \in Mortal : SF_vars(Collect(p))

FairSpec == Spec /\ Fairness
=============================================================================
