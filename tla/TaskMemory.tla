----------------------------- MODULE TaskMemory ------------------------------
(***************************************************************************)
(* The memory calls of the processes: kernel/tasking/Task-Memory.cpp, with *)
(* the copies that task_clone makes and what task_destroy gives back.      *)
(* What runs with the interrupts retained is one step; between two steps a *)
(* process may be preempted, and canceled.                                 *)
(***************************************************************************)
EXTENDS Memory

CONSTANTS
    Proc,       \* the processes
    First,      \* the processes that there are at the start; others are clones
    Sizes,      \* bound: the sizes that are asked for, in bytes
    Calls,      \* bound: the calls each process may make
    Mortal      \* the processes that may be canceled by others

ASSUME TaskMemoryAssumption ==
    /\ First \subseteq Proc /\ Mortal \subseteq Proc
    /\ IsFiniteSet(First) /\ Cardinality(First) < Total
    /\ Sizes \subseteq Nat
    /\ Calls \in [Proc -> SUBSET {"alloc", "map", "free", "include", "clone"}]

VARIABLES
    memory,     \* the physical pages and the objects
    space,      \* the address space of each process
    pc,         \* where each process is
    op,         \* the call it makes
    alive       \* the processes that exist and were not canceled

vars == <<memory, space, pc, op, alive>>

(* "create": is about to create an object.  "map", "map_at": has one, and  *)
(* is about to map it.  "drop": is about to give its reference back.       *)
(* "included": found an object by its id.  "stale": found that it would be *)
(* too greedy, and gave its reference back.                                *)
Location == {"unborn", "idle", "create", "map", "map_at", "drop", "included", "stale"}
Op       == [kind : {"none", "alloc", "map", "include"}, size : Nat, addr : Nat,
             off : Nat, object : Nat]
NoOp     == [kind |-> "none", size |-> 0, addr |-> 0, off |-> 0, object |-> 0]

(* The directory and the stack of the first processes; page 0 is the kernel's. *)
FirstOwn == CHOOSE own \in [First -> 1 .. Cardinality(First)] :
                \A p, q \in First : own[p] = own[q] => p = q

Init ==
    /\ memory = [used |-> 0 .. Cardinality(First), bet |-> Cardinality(First) + 1,
                 range |-> [i \in Id |-> Nowhere], refs |-> [i \in Id |-> 0],
                 next |-> 0, state |-> "up"]
    /\ space = [p \in Proc |-> IF p \in First THEN [Empty EXCEPT !.own = FirstOwn[p]] ELSE Empty]
    /\ pc = [p \in Proc |-> IF p \in First THEN "idle" ELSE "unborn"]
    /\ op = [p \in Proc |-> NoOp]
    /\ alive = First

At(p, l) == memory.state = "up" /\ p \in alive /\ pc[p] = l
May(p, k) == At(p, "idle") /\ k \in Calls[p]
Goto(p, l) == pc' = [pc EXCEPT ![p] = l]
Finish(p) == Goto(p, "idle") /\ op' = [op EXCEPT ![p] = NoOp]

(* Bound: objects are created only while there are ids for them. *)
IdsLeft(n) == memory.next + n + Cardinality({p \in Proc : pc[p] = "create"}) <= MaxId

(* kill_me_if_too_greedy: the process cancels itself, and does not return. *)
KilledIfGreedy(p, bytes, next) ==
    IF Greedy(space[p], bytes) THEN alive' = alive \ {p} /\ UNCHANGED <<pc, op>>
    ELSE next /\ UNCHANGED alive
-----------------------------------------------------------------------------
(* task_memory_alloc and task_memory_map *)
Alloc(p, size) ==
    /\ May(p, "alloc") /\ IdsLeft(1)
    /\ KilledIfGreedy(p, size,
          /\ op' = [op EXCEPT ![p] = [NoOp EXCEPT !.kind = "alloc", !.size = size]]
          /\ Goto(p, "create"))
    /\ UNCHANGED <<memory, space>>

CollidesNot(s, addr, off, size) == FALSE   \* mutant: what is mapped is not looked at
Refused(s, addr, off, size) == Collides(s, addr, off, size)

(* hj_memory_map takes any address, at the start of a page or not. *)
Map(p, addr, off, size) ==
    /\ May(p, "map") /\ IdsLeft(1) /\ addr + PagesFor(size) <= MaxAddr
    /\ KilledIfGreedy(p, size,
          IF Refused(space[p], addr, off, size) THEN UNCHANGED <<pc, op>>
          ELSE /\ op' = [op EXCEPT ![p] = [NoOp EXCEPT !.kind = "map", !.size = size,
                                                      !.addr = addr, !.off = off]]
               /\ Goto(p, "create"))
    /\ UNCHANGED <<memory, space>>

CreateObject(p) ==
    /\ At(p, "create")
    /\ memory' = Create(memory, PagesFor(op[p].size))
    /\ op' = [op EXCEPT ![p].object = memory.next]
    /\ Goto(p, IF op[p].kind = "map" THEN "map_at" ELSE "map")
    /\ UNCHANGED <<space, alive>>

Mapped(p, made) ==
    /\ memory' = made.memory
    /\ space' = [space EXCEPT ![p] = made.space]
    /\ Goto(p, "drop")
    /\ UNCHANGED <<op, alive>>

MapObject(p) == At(p, "map") /\ Mapped(p, MapSomewhere(memory, space[p], op[p].object))

MapObjectAt(p) ==
    /\ At(p, "map_at")
    /\ Mapped(p, MapAt(memory, space[p], op[p].object, op[p].addr, op[p].off))

(* With MEMORY_CLEAR the kernel writes what was asked for, from the given  *)
(* address on: it may reach past the last page that is mapped for it.      *)
Cleared(k, p) ==
    IF op[p].kind = "map" /\ Faults(space[p], op[p].addr, op[p].off, op[p].size)
    THEN Panic(k) ELSE k

Drop(p) ==
    /\ At(p, "drop")
    /\ \E clear \in BOOLEAN :
          LET k == Deref(memory, op[p].object)
          IN  memory' = IF clear THEN Cleared(k, p) ELSE k
    /\ Finish(p)
    /\ UNCHANGED <<space, alive>>

(* task_memory_free *)
Free(p, addr, off) ==
    LET here == MappedAt(space[p], addr, off)
    IN  /\ May(p, "free") /\ here # {}
        /\ memory' = Deref(memory, space[p].mappings[Least(here)].object)
        /\ space' = [space EXCEPT ![p] = Unmap(@, Least(here))]
        /\ UNCHANGED <<pc, op, alive>>

(* task_memory_include, of an id that another process gave. *)
Include(p, id) ==
    /\ May(p, "include") /\ memory.refs[id] > 0
    /\ memory' = Ref(memory, id)
    /\ op' = [op EXCEPT ![p] = [NoOp EXCEPT !.kind = "include", !.object = id]]
    /\ Goto(p, "included")
    /\ UNCHANGED <<space, alive>>

IncludeCheck(p) ==
    /\ At(p, "included")
    /\ IF Greedy(space[p], memory.range[op[p].object].size * PageSize)
       THEN memory' = Deref(memory, op[p].object) /\ Goto(p, "stale")
       ELSE Goto(p, "map") /\ UNCHANGED memory
    /\ UNCHANGED <<space, op, alive>>

(* It reads the size of the object again, of which it has no reference any *)
(* more.  If the object is gone, the size is anything: either the process  *)
(* is canceled as it should be, or it maps what is not there.              *)
IncludeStale(p) ==
    /\ At(p, "stale")
    /\ \/ alive' = alive \ {p} /\ UNCHANGED memory
       \/ /\ memory.refs[op[p].object] = 0
          /\ memory' = [memory EXCEPT !.state = "corrupt"]
          /\ UNCHANGED alive
    /\ UNCHANGED <<space, pc, op>>
-----------------------------------------------------------------------------
(* arch_address_space_create, and the kernel stack of a new task. *)
NewSpace(k) ==
    IF Found(k, 1) = {} THEN [memory |-> Panic(k), space |-> Empty]
    ELSE LET page == Least(Found(k, 1))
         IN  [memory |-> SetUsed(k, page, 1), space |-> [Empty EXCEPT !.own = page]]

(* A mapping of s copied, to an object of its own at the same address, if  *)
(* what was copied before does not collide with it.                        *)
Copy(v, m) ==
    LET id   == v.memory.next
        k    == Create(v.memory, m.size)
        made == MapAt(k, v.space, id, m.addr, m.off)
    IN  IF Collides(v.space, m.addr, m.off, m.size * PageSize) THEN v
        ELSE IF k.state # "up" THEN [v EXCEPT !.memory = k]
        ELSE [made EXCEPT !.memory = Deref(@, id)]

(* Its bytes are read at its address, and written there in the copy.       *)
FaultsAt(s, m) == Faults(s, m.addr, m.off, m.size * PageSize)

Copied(s, v, m) ==
    LET w == Copy(v, m)
    IN  IF v.memory.state # "up" THEN v
        ELSE IF FaultsAt(s, m) THEN [v EXCEPT !.memory = Panic(@)]
        ELSE IF FaultsAt(w.space, m) THEN [w EXCEPT !.memory = Panic(@)]
        ELSE w

CopiedTo(s, new) ==
    LET f[i \in 0 .. Len(s.mappings)] ==    \* the first i mappings are copied
            IF i = 0 THEN new ELSE Copied(s, f[i - 1], s.mappings[i])
    IN  f[Len(s.mappings)]

(* task_clone, with the interrupts retained.  If the copy is too greedy it *)
(* is canceled, which does not stop the clone and which task_go undoes.    *)
Clone(p, q) ==
    LET made == CopiedTo(space[p], NewSpace(memory))
    IN  /\ May(p, "clone") /\ pc[q] = "unborn" /\ IdsLeft(Len(space[p].mappings))
        /\ memory' = made.memory
        /\ space' = [space EXCEPT ![q] = made.space]
        /\ pc' = [pc EXCEPT ![q] = "idle"]
        /\ alive' = alive \cup {q}
        /\ UNCHANGED op

(* Task::cancel, by another process or by the exit of this one. *)
Cancel(p) ==
    /\ memory.state = "up" /\ p \in alive \cap Mortal
    /\ alive' = alive \ {p}
    /\ UNCHANGED <<memory, space, pc, op>>

(* task_destroy: the mappings of a canceled process, in order, and then    *)
(* its address space.  The collector finds it in _tasks, where task_clone  *)
(* puts no clone.                                                          *)
Unmapped(k, s) ==
    LET f[i \in 0 .. Len(s.mappings)] ==
            IF i = 0 THEN k ELSE Deref(f[i - 1], s.mappings[i].object)
    IN  f[Len(s.mappings)]

TablePages(s) == {s.table[t] : t \in Table} \ {None}
Destroyed(k, s) == SetFree(SetFree(Unmapped(k, s), TablePages(s)), {s.own})

Destroy(p) ==
    /\ memory.state = "up" /\ p \in First \ alive /\ space[p] # Empty
    /\ memory' = Destroyed(memory, space[p])
    /\ space' = [space EXCEPT ![p] = Empty]
    /\ UNCHANGED <<pc, op, alive>>
-----------------------------------------------------------------------------
Syscall(p) ==
    \/ \E size \in Sizes : Alloc(p, size)
    \/ \E addr \in Addr, off \in Offset :
          Free(p, addr, off) \/ \E size \in Sizes : Map(p, addr, off, size)
    \/ \E id \in Id : Include(p, id)
    \/ \E q \in Proc : Clone(p, q)

Run(p) ==
    \/ CreateObject(p) \/ MapObject(p) \/ MapObjectAt(p) \/ Drop(p)
    \/ IncludeCheck(p) \/ IncludeStale(p)

Next == \E p \in Proc : Syscall(p) \/ Run(p) \/ Cancel(p) \/ Destroy(p)

Spec == Init /\ [][Next]_vars
=============================================================================
