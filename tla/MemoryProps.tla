----------------------------- MODULE MemoryProps -----------------------------
(***************************************************************************)
(* What the memory manager promises, as long as it runs.                   *)
(***************************************************************************)
EXTENDS TaskMemory

Up == memory.state = "up"

(* Every variable has its type; best_bet is never past a page that is      *)
(* free, so that the search for pages misses none of them.                 *)
TypeOK ==
    /\ memory \in Memory
    /\ space \in [Proc -> Space]
    /\ pc \in [Proc -> Location]
    /\ alive \subseteq Proc
    /\ op \in [Proc -> Op]
    /\ \A i \in Page : i < memory.bet => i \in memory.used

(* Who has a page: an object, a page table, a directory, or the kernel. *)
Objects      == {id \in Id : memory.refs[id] > 0}
ObjectPages(id) == Pages(memory.range[id].base, memory.range[id].size)
OwnPages(p)  == (TablePages(space[p]) \cup {space[p].own}) \ {None}
Holders      == [id : Objects] \cup [proc : Proc] \cup {[kernel |-> 0]}
PagesOf(h)   == CASE h \in [id : Objects] -> ObjectPages(h.id)
                  [] h \in [proc : Proc] -> OwnPages(h.proc)
                  [] OTHER -> {0}

(* Every page in use has exactly one holder, and every other page is free: *)
(* through creation, sharing, copies, cancellation and destruction no page *)
(* is given twice and none is lost.                                        *)
PagesHaveOneHolder ==
    Up => /\ memory.used = UNION {PagesOf(h) : h \in Holders}
          /\ \A g, h \in Holders : g # h => PagesOf(g) \cap PagesOf(h) = {}

(* The references of a call that is under way, or was when its process was *)
(* canceled: those are never given back.                                   *)
InCall(p, id) ==
    IF pc[p] \in {"map", "map_at", "drop", "included"} /\ op[p].object = id THEN 1 ELSE 0

MappingsOf(p, id) ==
    {<<p, i>> : i \in {j \in DOMAIN space[p].mappings : space[p].mappings[j].object = id}}

(* refcount is the number of mappings of the object and of the calls that  *)
(* use it: it is destroyed with the last one, not before, and not later.   *)
ReferencesCounted ==
    Up => \A id \in Id :
        memory.refs[id] =
            Cardinality(UNION {MappingsOf(p, id) : p \in Proc})
            + Cardinality({p \in Proc : InCall(p, id) = 1})

(* What a process reaches through its page tables at an address is the     *)
(* page, at the same place, of an object that it has mapped there: not     *)
(* what was mapped before, nor a page of others by now.  And as long as it *)
(* maps at the start of pages, whatever the sizes, each of its mappings    *)
(* leads to its own object.                                                *)
ReachableIsMapped ==
    Up => \A p \in Proc :
        LET ms == space[p].mappings
            covers(i, v) == v \in Pages(ms[i].addr, ms[i].size)
            leads(i, v) == space[p].frame[v] = memory.range[ms[i].object].base + (v - ms[i].addr)
        IN  \A v \in Addr :
                /\ space[p].frame[v] # None => \E i \in DOMAIN ms : covers(i, v) /\ leads(i, v)
                /\ space[p].straight => \A i \in DOMAIN ms : covers(i, v) => leads(i, v)
=============================================================================
