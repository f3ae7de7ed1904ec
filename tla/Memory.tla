------------------------------- MODULE Memory --------------------------------
(***************************************************************************)
(* The memory manager, as operators on the state of the kernel's memory    *)
(* and on an address space: kernel/memory/Physical.cpp and                 *)
(* MemoryObject.cpp, archs/x86_32/kernel/VirtualMemory.cpp, and the        *)
(* mappings of kernel/tasking/Task-Memory.cpp.  Physical pages belong to   *)
(* memory objects, which are counted references.  Ranges are counted in    *)
(* pages; an address that a process gives is a page and an offset in it.   *)
(* The kernel's own address space is not modelled.                         *)
(***************************************************************************)
EXTENDS Integers, Sequences, FiniteSets

CONSTANTS
    Total,      \* TOTAL_MEMORY
    PageSize,   \* ARCH_PAGE_SIZE
    MaxAddr,    \* bound: the address space of a process is pages 0 .. MaxAddr - 1
    Span,       \* bound: the pages that one page table covers
    MaxId       \* bound: the objects that are created

ASSUME MemoryAssumption ==
    /\ Total \in Nat /\ MaxAddr \in Nat /\ MaxId \in Nat
    /\ PageSize \in Nat \ {0} /\ Span \in Nat \ {0}

Page   == 0 .. Total - 1
Addr   == 0 .. MaxAddr - 1
Offset == 0 .. PageSize - 1
TableOf(a) == a \div Span
Table  == {TableOf(a) : a \in Addr}
Id     == 0 .. MaxId - 1
None   == Total                     \* no page
Pages(base, size) == base .. base + size - 1
Byte(addr, off) == addr * PageSize + off

(* PAGE_ALIGN_UP, in pages *)
PagesFor(bytes) == (bytes + PageSize - 1) \div PageSize

MemoryRange  == [base : Page \cup {None}, size : Nat]
Nowhere == [base |-> None, size |-> 0]

(* used: MEMORY.  bet: best_bet.  range, refs: the memory objects.         *)
Memory == [used : SUBSET Page, bet : Nat, range : [Id -> MemoryRange], refs : [Id -> Nat],
           next : Nat, state : {"up", "panic", "corrupt"}]

(* frame: the page table entries.  table: the pages that hold them.        *)
(* own: the page directory and the kernel stack.  straight, of no code:    *)
(* whether everything was mapped at the start of a page so far.            *)
Mapping == [object : Id, addr : Addr, off : Offset, size : Nat]
Space   == [frame : [Addr -> Page \cup {None}], table : [Table -> Page \cup {None}],
            mappings : Seq(Mapping), own : Page \cup {None}, straight : BOOLEAN]
Empty   == [frame |-> [a \in Addr |-> None], table |-> [t \in Table |-> None],
            mappings |-> <<>>, own |-> None, straight |-> TRUE]

Least(s) == CHOOSE i \in s : \A j \in s : i <= j
-----------------------------------------------------------------------------
(* physical_alloc: the search from best_bet; it stops before the last      *)
(* position.                                                               *)
Found(k, size) == {i \in k.bet .. Total - size - 1 : Pages(i, size) \cap k.used = {}}
Panic(k)       == [k EXCEPT !.state = "panic"]

SetUsed(k, base, size) ==
    [k EXCEPT !.used = @ \cup Pages(base, size),
              !.bet = IF base = @ THEN base + size ELSE @]

(* physical_set_free *)
SetFreeOnly(k, pages) == [k EXCEPT !.used = @ \ pages]   \* mutant: best_bet stays
SetFree(k, pages) ==
    [k EXCEPT !.used = @ \ pages,
              !.bet = IF \E i \in pages : i < @ THEN Least(pages) ELSE @]

(* memory_object_create *)
Create(k, size) ==
    IF Found(k, size) = {} THEN Panic(k)
    ELSE LET base == Least(Found(k, size))
         IN  [SetUsed(k, base, size) EXCEPT
                !.range[k.next] = [base |-> base, size |-> size],
                !.refs[k.next] = 1,
                !.next = k.next + 1]

RefNot(k, id) == k   \* mutant: a mapping is not counted
Ref(k, id) == [k EXCEPT !.refs[id] = @ + 1]

(* memory_object_deref and destroy *)
DerefNoDestroy(k, id) == [k EXCEPT !.refs[id] = @ - 1]   \* mutant: never destroyed
Deref(k, id) ==
    IF k.refs[id] > 1 THEN [k EXCEPT !.refs[id] = @ - 1]
    ELSE [SetFree(k, Pages(k.range[id].base, k.range[id].size)) EXCEPT
            !.refs[id] = 0, !.range[id] = Nowhere]
-----------------------------------------------------------------------------
(* arch_virtual_map, address by address: a page table that is missing      *)
(* takes the lowest page that is free, but page 0 (memory_alloc_identity). *)
FreePages(k) == (Page \ {0}) \ k.used

WithTable(v, t) ==
    IF v.table[t] # None \/ FreePages(v.memory) = {} THEN v
    ELSE LET page == Least(FreePages(v.memory))
         IN  [memory |-> SetUsed(v.memory, page, 1), table |-> [v.table EXCEPT ![t] = page]]

WithTables(k, s, addr, size) ==
    LET f[i \in 0 .. size] ==   \* the first i addresses have their tables
            IF i = 0 THEN [memory |-> k, table |-> s.table]
            ELSE WithTable(f[i - 1], TableOf(addr + i - 1))
    IN  f[size]

(* task_memory_mapping_create_at: the page table entries are those of the  *)
(* page of the address, whatever its offset.                               *)
MapAt(k, s, id, addr, off) ==
    LET r     == k.range[id]
        addrs == Pages(addr, r.size)
        made  == WithTables(Ref(k, id), s, addr, r.size)
    IN  [memory |-> IF \A a \in addrs : made.table[TableOf(a)] # None THEN made.memory
                    ELSE Panic(made.memory),
         space  |-> [s EXCEPT !.table = made.table,
                              !.frame = [a \in Addr |-> IF a \in addrs THEN r.base + (a - addr)
                                                        ELSE @[a]],
                              !.mappings = Append(@, [object |-> id, addr |-> addr,
                                                      off |-> off, size |-> r.size]),
                              !.straight = @ /\ off = 0]]

(* arch_virtual_alloc: the first addresses that are free together.  It     *)
(* never finds those of an empty range.                                    *)
Room(s, size) ==
    {a \in Addr : size > 0 /\ a + size <= MaxAddr
                    /\ \A b \in Pages(a, size) : s.frame[b] = None}

(* task_memory_mapping_create *)
MapSomewhere(k, s, id) ==
    IF Room(s, k.range[id].size) = {} THEN [memory |-> Panic(k), space |-> s]
    ELSE MapAt(k, s, id, Least(Room(s, k.range[id].size)), 0)

(* task_memory_mapping_by_address finds the first of these. *)
MappedAt(s, addr, off) ==
    {i \in DOMAIN s.mappings : s.mappings[i].addr = addr /\ s.mappings[i].off = off}

(* task_memory_mapping_destroy *)
UnmapKeepsFrames(s, i) ==   \* mutant: arch_virtual_free is not called
    [s EXCEPT !.mappings = SubSeq(@, 1, i - 1) \o SubSeq(@, i + 1, Len(@))]
Unmap(s, i) ==
    LET m == s.mappings[i]
    IN  [s EXCEPT !.frame = [a \in Addr |-> IF a \in Pages(m.addr, m.size) THEN None ELSE @[a]],
                  !.mappings = SubSeq(@, 1, i - 1) \o SubSeq(@, i + 1, Len(@))]

(* task_memory_mapping_colides compares bytes, of the size that is asked   *)
(* for: two mappings that it lets be may share a page table entry, unless  *)
(* both are at the start of a page.                                        *)
Collides(s, addr, off, bytes) ==
    \E i \in DOMAIN s.mappings :
        LET m == s.mappings[i]
        IN  /\ Byte(addr, off) < Byte(m.addr, m.off) + m.size * PageSize
            /\ Byte(addr, off) + bytes > Byte(m.addr, m.off)

(* To read or write these bytes touches a page that is not present.        *)
Faults(s, addr, off, bytes) ==
    bytes > 0 /\ \E a \in addr .. addr + (off + bytes - 1) \div PageSize :
                    a \notin Addr \/ s.frame[a] = None

(* task_memory_usage *)
Usage(s) ==
    LET sum[i \in Nat] == IF i = 0 THEN 0 ELSE sum[i - 1] + s.mappings[i].size
    IN  sum[Len(s.mappings)]

(* will_i_be_kill_if_i_allocate_that *)
Greedy(s, bytes) == Usage(s) * PageSize + bytes > (Total * PageSize) \div 2
=============================================================================
