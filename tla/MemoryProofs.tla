---------------------------- MODULE MemoryProofs -----------------------------
(***************************************************************************)
(* The invariants of the memory manager and of the memory calls, proved    *)
(* for any memory, address space and number of processes and objects.      *)
(***************************************************************************)
EXTENDS MemoryProps, FiniteSetTheorems, SequenceTheorems, WellFoundedInduction, TLAPS

(* A reference to an object is held by a mapping, numbered from 1, of a    *)
(* process, or by a call, numbered 0, that a process makes, or by what the *)
(* kernel does at the moment within one step.                              *)
Extra  == CHOOSE x : x \notin Proc
Caller == Proc \cup {Extra}
NoCall == MaxId

References(sp, call, id) ==
    {r \in Caller \X Nat :
        IF r[2] = 0 THEN call[r[1]] = id
        ELSE /\ r[1] \in Proc /\ r[2] \in DOMAIN sp[r[1]].mappings
             /\ sp[r[1]].mappings[r[2]].object = id}

(* Where a call has a reference of its own.                                *)
Holding == {"map", "map_at", "drop", "included"}

Calling == [c \in Caller |-> IF c \in Proc /\ pc[c] \in Holding THEN op[c].object
                             ELSE NoCall]

Counted(k, sp, call) ==
    \A id \in Id : LET refs == References(sp, call, id)
                   IN  IsFiniteSet(refs) /\ k.refs[id] = Cardinality(refs)

(* The pages of each holder: an object, a process, the kernel.             *)
Holder == ({"object"} \X Id) \cup ({"space"} \X Proc) \cup {<<"kernel", 0>>}
ObjectHas(k, id) == IF k.refs[id] > 0 THEN Pages(k.range[id].base, k.range[id].size) ELSE {}
SpaceHas(s) == (TablePages(s) \cup {s.own}) \ {None}
Has(k, sp) == [h \in Holder |-> IF h[1] = "object" THEN ObjectHas(k, h[2])
                                ELSE IF h[1] = "space" THEN SpaceHas(sp[h[2]])
                                ELSE {0}]

Partition(used, has) ==
    /\ \A x : x \in used <=> \E h \in Holder : x \in has[h]
    /\ \A g, h \in Holder : g # h => has[g] \cap has[h] = {}

(* The objects are within the memory; an id that was not given is free.    *)
Objective(k) ==
    \A id \in Id : /\ k.refs[id] > 0 => /\ k.range[id].base \in Page
                                        /\ k.range[id].base + k.range[id].size <= Total
                   /\ id >= k.next => k.refs[id] = 0

(* The mappings of a process are as large as their objects, and an entry   *)
(* of its page tables leads to the object of one that covers it.  If it    *)
(* maps at the start of pages they are apart, and each leads to its own.   *)
Covers(m, v) == v \in Pages(m.addr, m.size)
Leads(k, s, m, v) == s.frame[v] = k.range[m.object].base + (v - m.addr)

Shown(k, s) ==
    LET ms == s.mappings
    IN  /\ \A i \in DOMAIN ms : /\ ms[i].size = k.range[ms[i].object].size
                                /\ ms[i].addr + ms[i].size <= MaxAddr
        /\ \A v \in Addr : s.frame[v] # None =>
               \E i \in DOMAIN ms : Covers(ms[i], v) /\ Leads(k, s, ms[i], v)
        /\ s.straight =>
               /\ \A i \in DOMAIN ms : ms[i].off = 0
               /\ \A i, j \in DOMAIN ms, v \in Addr :
                      Covers(ms[i], v) /\ Covers(ms[j], v) => i = j
               /\ \A v \in Addr, i \in DOMAIN ms : Covers(ms[i], v) => Leads(k, s, ms[i], v)

Sound(k, sp, call) ==
    /\ Counted(k, sp, call)
    /\ Partition(k.used, Has(k, sp))
    /\ Objective(k)
    /\ \A p \in Proc : Shown(k, sp[p])

(* best_bet is never past a page that is free.                             *)
Searchable(k) == \A i \in Page : i < k.bet => i \in k.used

(* What a call is about at each location.                                  *)
Fits(s, addr, off, size) ==
    /\ addr \in Addr /\ off \in Offset /\ addr + size <= MaxAddr
    /\ s.straight /\ off = 0 =>
           \A i \in DOMAIN s.mappings, v \in Pages(addr, size) : ~Covers(s.mappings[i], v)

CallShape(p) ==
    /\ pc[p] \in {"map", "map_at", "drop", "included", "stale"} => op[p].object \in Id
    /\ pc[p] \in {"create", "map_at"} /\ op[p].kind = "map" =>
           Fits(space[p], op[p].addr, op[p].off, PagesFor(op[p].size))
    /\ pc[p] = "map_at" => /\ op[p].kind = "map"
                           /\ memory.range[op[p].object].size = PagesFor(op[p].size)
    /\ pc[p] = "unborn" => p \notin alive /\ space[p] = Empty

(* There is an id for each object that is about to be created.             *)
Creating == {p \in Proc : pc[p] = "create"}
Reserve == IsFiniteSet(Creating) /\ memory.next + Cardinality(Creating) <= MaxId

IInv ==
    /\ TypeOK
    /\ Up => /\ Sound(memory, space, Calling)
             /\ \A p \in Proc : CallShape(p)
             /\ Reserve
-----------------------------------------------------------------------------
(* Induction over numbers, stated with sets, and what it gives for the     *)
(* functions that are defined by recursion up to a number.                 *)

(* A set of numbers that is not empty has a least one.                     *)
LEMMA LeastNumber ==
    ASSUME NEW S, S \subseteq Nat, S # {}
    PROVE  \E m \in S : \A k \in S : m <= k
    <1>1. PICK R : R = {ss \in Nat \X Nat : ss[1] < ss[2]}
        OBVIOUS
    <1>2. IsWellFoundedOn(R, Nat)
        BY <1>1, NatLessThanWellFounded DEF OpToRel
    <1>3. PICK m \in S : \A k \in S : <<k, m>> \notin R
        BY <1>2, WFMin
    <1>4. ASSUME NEW k \in S
          PROVE  m <= k
        <2>1. k \in Nat /\ m \in Nat /\ <<k, m>> \in Nat \X Nat /\ <<k, m>> \notin R
            BY <1>3
        <2>2. k < m => <<k, m>> \in R
            BY <1>1, <2>1
        <2> QED
            BY <2>1, <2>2
    <1> QED
        BY <1>3, <1>4

(* Induction up to n, over a set of numbers.                               *)
LEMMA UpTo ==
    ASSUME NEW n \in Nat, NEW T, 0 \in T, \A i \in 1 .. n : i - 1 \in T => i \in T
    PROVE  0 .. n \subseteq T
    <1>1. ASSUME NEW i \in 0 .. n, i \notin T
          PROVE  FALSE
        <2>1. PICK S : S = {j \in 0 .. n : j \notin T}
            OBVIOUS
        <2>2. S \subseteq Nat /\ S # {}
            BY <1>1, <2>1
        <2>3. PICK m \in S : \A k \in S : m <= k
            BY <2>2, LeastNumber
        <2>4. m \in 1 .. n /\ m \notin T
            BY <2>1, <2>3
        <2>5. m - 1 \notin T
            BY <2>4
        <2>6. m - 1 \in S
            BY <2>1, <2>4, <2>5
        <2> QED
            BY <2>3, <2>4, <2>6
    <1> QED
        BY <1>1

(* Stages: a family of sets of values, and a step from each to the next.   *)
Stages(W, n, U) == W \in [0 .. n -> SUBSET U]
StepOf(step, n, W) == \A i \in 1 .. n : \A v \in W[i - 1] : step[<<i, v>>] \in W[i]

(* A function that starts in the first stage and takes the steps is at     *)
(* each number in the stage of that number.                                *)
LEMMA StaysInStages ==
    ASSUME NEW n \in Nat, NEW U, NEW W, Stages(W, n, U), NEW f, f[0] \in W[0],
           \A i \in 1 .. n : f[i - 1] \in W[i - 1] => f[i] \in W[i]
    PROVE  \A i \in 0 .. n : f[i] \in W[i]
    <1>1. PICK T : T = {i \in 0 .. n : f[i] \in W[i]}
        OBVIOUS
    <1>2. 0 \in T /\ \A i \in 1 .. n : i - 1 \in T => i \in T
        BY <1>1
    <1> QED
        BY <1>1, <1>2, UpTo

(* There is such a function.                                               *)
Computes(f, n, W, base, step) ==
    /\ f = [i \in 0 .. n |-> f[i]]
    /\ \A i \in 0 .. n : f[i] \in W[i]
    /\ f[0] = base /\ \A i \in 1 .. n : f[i] = step[<<i, f[i - 1]>>]

LEMMA Recursion ==
    ASSUME NEW n \in Nat, NEW U, NEW W, Stages(W, n, U), NEW base \in W[0],
           NEW step, StepOf(step, n, W)
    PROVE  \E f : Computes(f, n, W, base, step)
    <1>1. PICK T : T = {m \in 0 .. n : \E f \in [0 .. m -> U] :
                           /\ \A i \in 0 .. m : f[i] \in W[i]
                           /\ f[0] = base
                           /\ \A i \in 1 .. m : f[i] = step[<<i, f[i - 1]>>]}
        OBVIOUS
    <1>2. 0 \in T
        <2>1. PICK f : f = [i \in 0 .. 0 |-> base]
            OBVIOUS
        <2>2. f \in [0 .. 0 -> U] /\ f[0] = base
            BY <2>1 DEF Stages
        <2> QED
            BY <1>1, <2>2
    <1>3. ASSUME NEW m \in 1 .. n, m - 1 \in T
          PROVE  m \in T
        <2>1. PICK f \in [0 .. m - 1 -> U] :
                  /\ \A i \in 0 .. m - 1 : f[i] \in W[i]
                  /\ f[0] = base /\ \A i \in 1 .. m - 1 : f[i] = step[<<i, f[i - 1]>>]
            BY <1>1, <1>3
        <2>2. PICK v : v = step[<<m, f[m - 1]>>]
            OBVIOUS
        <2>3. v \in W[m] /\ v \in U
            <3>1. f[m - 1] \in W[m - 1]
                BY <2>1
            <3> QED
                BY <2>2, <3>1 DEF StepOf, Stages
        <2>4. PICK g : g = [i \in 0 .. m |-> IF i = m THEN v ELSE f[i]]
            OBVIOUS
        <2>5. g \in [0 .. m -> U] /\ g[0] = base
            BY <2>1, <2>3, <2>4
        <2>6. ASSUME NEW i \in 1 .. m
              PROVE  g[i] = step[<<i, g[i - 1]>>]
            <3>1. CASE i = m
                <4>1. i - 1 # m /\ i - 1 \in 0 .. m
                    BY <3>1
                <4>2. g[i] = v /\ g[i - 1] = f[i - 1]
                    BY <2>4, <3>1, <4>1
                <4> QED
                    BY <2>2, <3>1, <4>2
            <3>2. CASE i # m
                <4>1. i \in 1 .. m - 1 /\ i - 1 # m /\ i - 1 \in 0 .. m
                    BY <3>2
                <4>2. g[i] = f[i] /\ g[i - 1] = f[i - 1]
                    BY <2>4, <4>1
                <4> QED
                    BY <2>1, <4>1, <4>2
            <3> QED
                BY <3>1, <3>2
        <2>7. \A i \in 0 .. m : g[i] \in W[i]
            <3>1. \A i \in 0 .. m : i # m => i \in 0 .. m - 1
                OBVIOUS
            <3> QED
                BY <2>1, <2>3, <2>4, <3>1
        <2> QED
            BY <1>1, <2>5, <2>6, <2>7
    <1>4. n \in T
        BY <1>2, <1>3, UpTo
    <1>5. PICK f \in [0 .. n -> U] :
              /\ \A i \in 0 .. n : f[i] \in W[i]
              /\ f[0] = base /\ \A i \in 1 .. n : f[i] = step[<<i, f[i - 1]>>]
        BY <1>1, <1>4
    <1>6. f = [i \in 0 .. n |-> f[i]]
        OBVIOUS
    <1>7. Computes(f, n, W, base, step)
        BY <1>5, <1>6 DEF Computes
    <1> QED
        BY <1>7
-----------------------------------------------------------------------------
LEMMA LeastIsLeast ==
    ASSUME NEW S, S \subseteq Nat, S # {}
    PROVE  Least(S) \in S /\ \A j \in S : Least(S) <= j
    <1>1. \E m \in S : \A j \in S : m <= j
        BY LeastNumber
    <1> QED
        BY <1>1 DEF Least

LEMMA Constants ==
    /\ Total \in Nat /\ MaxAddr \in Nat /\ MaxId \in Nat
    /\ Page \subseteq Nat /\ Addr \subseteq Nat /\ Id \subseteq Nat
    /\ None \in Nat /\ None \notin Page /\ NoCall \in Nat /\ NoCall \notin Id
    /\ \A x \in Nat : x \in Page <=> x < Total
    /\ \A x \in Nat : x \in Addr <=> x < MaxAddr
    /\ \A x \in Nat : x \in Id <=> x < MaxId
    BY MemoryAssumption DEF Page, Addr, Id, None, NoCall

LEMMA InPages ==
    \A base, size \in Nat : /\ Pages(base, size) \subseteq Nat
                            /\ \A x : x \in Pages(base, size) <=>
                                   x \in Nat /\ base <= x /\ x < base + size
    BY DEF Pages

Typed(k) == k \in Memory /\ Searchable(k)

(* Pages that are taken are searched no more only if there is none before. *)
LEMMA SetUsedTyped ==
    ASSUME NEW k, Typed(k), NEW base \in Page, NEW size \in Nat, base + size <= Total
    PROVE  /\ Typed(SetUsed(k, base, size))
           /\ SetUsed(k, base, size).used = k.used \cup Pages(base, size)
           /\ SetUsed(k, base, size).range = k.range /\ SetUsed(k, base, size).refs = k.refs
           /\ SetUsed(k, base, size).next = k.next /\ SetUsed(k, base, size).state = k.state
    <1>1. /\ k.used \subseteq Page /\ k.bet \in Nat /\ k.range \in [Id -> MemoryRange]
          /\ k.refs \in [Id -> Nat] /\ k.next \in Nat /\ k.state \in {"up", "panic", "corrupt"}
          /\ k = [used |-> k.used, bet |-> k.bet, range |-> k.range, refs |-> k.refs,
                  next |-> k.next, state |-> k.state]
        BY DEF Typed, Memory
    <1>2. Pages(base, size) \subseteq Page
        BY Constants, InPages
    <1>3. PICK n : n = SetUsed(k, base, size)
        OBVIOUS
    <1>4. n = [used |-> k.used \cup Pages(base, size),
               bet |-> IF base = k.bet THEN base + size ELSE k.bet,
               range |-> k.range, refs |-> k.refs, next |-> k.next, state |-> k.state]
        BY <1>1, <1>3 DEF SetUsed
    <1>5. n \in Memory
        BY <1>1, <1>2, <1>4, Constants DEF Memory
    <1>6. Searchable(n)
        <2>1. ASSUME NEW i \in Page, i < n.bet
              PROVE  i \in n.used
            <3>1. i < k.bet => i \in k.used
                BY DEF Typed, Searchable
            <3>2. ~(i < k.bet) => i \in Pages(base, size)
                BY <1>1, <1>4, <2>1, Constants, InPages
            <3> QED
                BY <1>4, <3>1, <3>2
        <2> QED
            BY <2>1 DEF Searchable
    <1> QED
        BY <1>3, <1>4, <1>5, <1>6 DEF Typed

(* Pages that are freed are searched again.                                *)
LEMMA SetFreeTyped ==
    ASSUME NEW k, Typed(k), NEW pages, pages \subseteq Nat
    PROVE  /\ Typed(SetFree(k, pages))
           /\ SetFree(k, pages).used = k.used \ pages
           /\ SetFree(k, pages).range = k.range /\ SetFree(k, pages).refs = k.refs
           /\ SetFree(k, pages).next = k.next /\ SetFree(k, pages).state = k.state
    <1>1. /\ k.used \subseteq Page /\ k.bet \in Nat /\ k.range \in [Id -> MemoryRange]
          /\ k.refs \in [Id -> Nat] /\ k.next \in Nat /\ k.state \in {"up", "panic", "corrupt"}
          /\ k = [used |-> k.used, bet |-> k.bet, range |-> k.range, refs |-> k.refs,
                  next |-> k.next, state |-> k.state]
        BY DEF Typed, Memory
    <1>2. PICK n, b : /\ n = SetFree(k, pages)
                      /\ b = IF \E i \in pages : i < k.bet THEN Least(pages) ELSE k.bet
        OBVIOUS
    <1>3. n = [used |-> k.used \ pages, bet |-> b,
               range |-> k.range, refs |-> k.refs, next |-> k.next, state |-> k.state]
        BY <1>1, <1>2 DEF SetFree
    <1>4. b \in Nat /\ b <= k.bet /\ \A j \in pages : b <= j
        <2>1. CASE \E i \in pages : i < k.bet
            <3>1. Least(pages) \in pages /\ \A j \in pages : Least(pages) <= j
                BY <2>1, LeastIsLeast
            <3> QED
                BY <1>1, <1>2, <2>1, <3>1
        <2>2. CASE ~\E i \in pages : i < k.bet
            BY <1>1, <1>2, <2>2
        <2> QED
            BY <2>1, <2>2
    <1>5. n \in Memory
        BY <1>1, <1>3, <1>4 DEF Memory
    <1>6. Searchable(n)
        <2>1. ASSUME NEW i \in Page, i < n.bet
              PROVE  i \in n.used
            <3>1. i < b /\ i \in Nat
                BY <1>3, <2>1, Constants
            <3>2. i < k.bet /\ i \notin pages
                BY <1>1, <1>4, <3>1
            <3>3. i \in k.used
                BY <3>2 DEF Typed, Searchable
            <3> QED
                BY <1>3, <3>2, <3>3
        <2> QED
            BY <2>1 DEF Searchable
    <1> QED
        BY <1>2, <1>3, <1>5, <1>6 DEF Typed

LEMMA PanicTyped ==
    ASSUME NEW k, Typed(k)
    PROVE  /\ Typed(Panic(k)) /\ Panic(k).state = "panic"
           /\ Panic(k).used = k.used /\ Panic(k).range = k.range /\ Panic(k).refs = k.refs
           /\ Panic(k).next = k.next
    <1>1. k \in Memory /\ Panic(k) \in Memory
        BY DEF Typed, Panic, Memory
    <1> QED
        BY <1>1 DEF Typed, Searchable, Panic, Memory

LEMMA RefTyped ==
    ASSUME NEW k, Typed(k), NEW id \in Id
    PROVE  /\ Typed(Ref(k, id)) /\ Ref(k, id).used = k.used /\ Ref(k, id).range = k.range
           /\ Ref(k, id).next = k.next /\ Ref(k, id).state = k.state
           /\ Ref(k, id).refs = [k.refs EXCEPT ![id] = @ + 1]
    <1>1. /\ k \in Memory /\ k.refs \in [Id -> Nat]
        BY DEF Typed, Memory
    <1>2. [k.refs EXCEPT ![id] = @ + 1] \in [Id -> Nat]
        BY <1>1
    <1>3. Ref(k, id) = [k EXCEPT !.refs = [k.refs EXCEPT ![id] = @ + 1]]
        BY <1>1 DEF Ref, Memory
    <1>4. Ref(k, id) \in Memory
        BY <1>1, <1>2, <1>3 DEF Memory
    <1> QED
        BY <1>1, <1>3, <1>4 DEF Typed, Searchable, Memory

LEMMA DerefTyped ==
    ASSUME NEW k, Typed(k), NEW id \in Id
    PROVE  /\ Typed(Deref(k, id)) /\ Deref(k, id).next = k.next /\ Deref(k, id).state = k.state
           /\ k.refs[id] > 1 => /\ Deref(k, id).refs = [k.refs EXCEPT ![id] = @ - 1]
                                /\ Deref(k, id).used = k.used /\ Deref(k, id).range = k.range
           /\ ~(k.refs[id] > 1) =>
                  /\ Deref(k, id).refs = [k.refs EXCEPT ![id] = 0]
                  /\ Deref(k, id).used = k.used \ Pages(k.range[id].base, k.range[id].size)
                  /\ Deref(k, id).range = [k.range EXCEPT ![id] = Nowhere]
    <1>1. /\ k \in Memory /\ k.refs \in [Id -> Nat] /\ k.range \in [Id -> MemoryRange]
        BY DEF Typed, Memory
    <1>2. /\ k.range[id].base \in Nat /\ k.range[id].size \in Nat
          /\ Pages(k.range[id].base, k.range[id].size) \subseteq Nat
        <2>1. k.range[id].base \in Nat /\ k.range[id].size \in Nat
            BY <1>1, Constants DEF MemoryRange
        <2> QED
            BY <2>1, InPages
    <1>3. CASE k.refs[id] > 1
        <2>1. [k.refs EXCEPT ![id] = @ - 1] \in [Id -> Nat]
            BY <1>1, <1>3
        <2>2. Deref(k, id) = [k EXCEPT !.refs = [k.refs EXCEPT ![id] = @ - 1]]
            BY <1>1, <1>3 DEF Deref, Memory
        <2>3. Deref(k, id) \in Memory
            BY <1>1, <2>1, <2>2 DEF Memory
        <2> QED
            BY <1>1, <1>3, <2>2, <2>3 DEF Typed, Searchable, Memory
    <1>4. CASE ~(k.refs[id] > 1)
        <2>1. PICK f : f = SetFree(k, Pages(k.range[id].base, k.range[id].size))
            OBVIOUS
        <2>2. /\ Typed(f) /\ f.used = k.used \ Pages(k.range[id].base, k.range[id].size)
              /\ f.range = k.range /\ f.refs = k.refs /\ f.next = k.next /\ f.state = k.state
            BY <1>2, <2>1, SetFreeTyped
        <2>3. Nowhere \in MemoryRange
            BY DEF Nowhere, MemoryRange
        <2>4. /\ [k.refs EXCEPT ![id] = 0] \in [Id -> Nat]
              /\ [k.range EXCEPT ![id] = Nowhere] \in [Id -> MemoryRange]
            BY <1>1, <2>3
        <2>5. Deref(k, id) = [f EXCEPT !.refs = [k.refs EXCEPT ![id] = 0],
                                       !.range = [k.range EXCEPT ![id] = Nowhere]]
            BY <1>4, <2>1, <2>2 DEF Deref, Typed, Memory
        <2>6. Deref(k, id) \in Memory
            BY <2>2, <2>4, <2>5 DEF Typed, Memory
        <2> QED
            BY <1>4, <2>2, <2>5, <2>6 DEF Typed, Searchable, Memory
    <1> QED
        BY <1>3, <1>4
-----------------------------------------------------------------------------
LEMMA FoundFacts ==
    ASSUME NEW k, Typed(k), NEW size \in Nat, Found(k, size) # {}
    PROVE  LET base == Least(Found(k, size))
           IN  /\ base \in Page /\ base + size <= Total
               /\ Pages(base, size) \cap k.used = {} /\ Pages(base, size) \subseteq Page
    <1>1. k.bet \in Nat
        BY DEF Typed, Memory
    <1>2. Found(k, size) \subseteq Nat
        BY <1>1, Constants DEF Found
    <1>3. PICK base : base = Least(Found(k, size)) /\ base \in Found(k, size)
        BY <1>2, LeastIsLeast
    <1>4. /\ base \in Nat /\ base + size <= Total /\ base < Total
          /\ Pages(base, size) \cap k.used = {}
        BY <1>1, <1>3, Constants DEF Found
    <1>5. ASSUME NEW x \in Pages(base, size)
          PROVE  x \in Page
        <2>1. x \in Nat /\ x < base + size
            BY <1>4, InPages
        <2>2. x < Total
            BY <1>4, <2>1, Constants
        <2> QED
            BY <2>1, <2>2, Constants
    <1> QED
        BY <1>3, <1>4, <1>5, Constants

LEMMA CreateTyped ==
    ASSUME NEW k, Typed(k), NEW size \in Nat
    PROVE  /\ Typed(Create(k, size))
           /\ Found(k, size) = {} => Create(k, size) = Panic(k)
           /\ Found(k, size) # {} => \E base \in Page :
                  /\ base + size <= Total /\ Pages(base, size) \cap k.used = {}
                  /\ Create(k, size).used = k.used \cup Pages(base, size)
                  /\ Create(k, size).range =
                         [k.range EXCEPT ![k.next] = [base |-> base, size |-> size]]
                  /\ Create(k, size).refs = [k.refs EXCEPT ![k.next] = 1]
                  /\ Create(k, size).next = k.next + 1 /\ Create(k, size).state = k.state
    <1>1. CASE Found(k, size) = {}
        BY <1>1, PanicTyped DEF Create
    <1>2. CASE Found(k, size) # {}
        <2>1. PICK base : /\ base = Least(Found(k, size))
                          /\ base \in Page /\ base + size <= Total
                          /\ Pages(base, size) \cap k.used = {}
            BY <1>2, FoundFacts
        <2>2. PICK u : u = SetUsed(k, base, size)
            OBVIOUS
        <2>3. /\ Typed(u) /\ u.used = k.used \cup Pages(base, size)
              /\ u.range = k.range /\ u.refs = k.refs /\ u.next = k.next /\ u.state = k.state
            BY <2>1, <2>2, SetUsedTyped
        <2>4. /\ k.range \in [Id -> MemoryRange] /\ k.refs \in [Id -> Nat] /\ k.next \in Nat
            BY DEF Typed, Memory
        <2>5. [base |-> base, size |-> size] \in MemoryRange
            BY <2>1 DEF MemoryRange
        <2>6. PICK r, f : /\ r = [k.range EXCEPT ![k.next] = [base |-> base, size |-> size]]
                          /\ f = [k.refs EXCEPT ![k.next] = 1]
            OBVIOUS
        <2>7. r \in [Id -> MemoryRange] /\ f \in [Id -> Nat]
            BY <2>4, <2>5, <2>6
        <2>8. Create(k, size) = [u EXCEPT !.range = r, !.refs = f, !.next = k.next + 1]
            BY <1>2, <2>1, <2>2, <2>3, <2>6 DEF Create, Typed, Memory
        <2>9. PICK c : c = Create(k, size)
            OBVIOUS
        <2>10. /\ u.used \subseteq Page /\ u.bet \in Nat /\ u.state \in {"up", "panic", "corrupt"}
               /\ u = [used |-> u.used, bet |-> u.bet, range |-> u.range, refs |-> u.refs,
                       next |-> u.next, state |-> u.state]
            BY <2>3 DEF Typed, Memory
        <2>11. c = [used |-> u.used, bet |-> u.bet, range |-> r, refs |-> f,
                    next |-> k.next + 1, state |-> u.state]
            BY <2>8, <2>9, <2>10
        <2>12. /\ c \in Memory /\ c.used = u.used /\ c.bet = u.bet /\ c.range = r /\ c.refs = f
               /\ c.next = k.next + 1 /\ c.state = k.state
            BY <2>3, <2>4, <2>7, <2>10, <2>11 DEF Memory
        <2>13. Typed(c)
            BY <2>3, <2>12 DEF Typed, Searchable
        <2>14. /\ base + size <= Total /\ Pages(base, size) \cap k.used = {}
               /\ c.used = k.used \cup Pages(base, size)
               /\ c.range = [k.range EXCEPT ![k.next] = [base |-> base, size |-> size]]
               /\ c.refs = [k.refs EXCEPT ![k.next] = 1]
               /\ c.next = k.next + 1 /\ c.state = k.state
            BY <2>1, <2>3, <2>6, <2>12
        <2>15. \E b \in Page :
                  /\ b + size <= Total /\ Pages(b, size) \cap k.used = {}
                  /\ c.used = k.used \cup Pages(b, size)
                  /\ c.range = [k.range EXCEPT ![k.next] = [base |-> b, size |-> size]]
                  /\ c.refs = [k.refs EXCEPT ![k.next] = 1]
                  /\ c.next = k.next + 1 /\ c.state = k.state
            BY <2>1, <2>14, Zenon
        <2> QED
            BY <1>2, <2>9, <2>13, <2>15
    <1> QED
        BY <1>1, <1>2
-----------------------------------------------------------------------------
(* Pages that are free go to one holder; or some pages of one are freed.   *)
Gains(used, has, has2, h, X) ==
    /\ h \in Holder /\ X \cap used = {} /\ has2[h] = has[h] \cup X
    /\ \A g \in Holder : g # h => has2[g] = has[g]

Loses(has, has2, h, X) ==
    /\ h \in Holder /\ X \subseteq has[h] /\ has2[h] = has[h] \ X
    /\ \A g \in Holder : g # h => has2[g] = has[g]

LEMMA TakePages ==
    ASSUME NEW used, NEW has, Partition(used, has), NEW h, NEW X, NEW has2,
           Gains(used, has, has2, h, X)
    PROVE  Partition(used \cup X, has2)
    <1> USE DEF Gains
    <1>1. \A x : x \in used <=> \E g \in Holder : x \in has[g]
        BY DEF Partition
    <1>2. ASSUME NEW x
          PROVE  x \in used \cup X <=> \E g \in Holder : x \in has2[g]
        <2>1. ASSUME x \in used \cup X
              PROVE  \E g \in Holder : x \in has2[g]
            BY <1>1, <2>1
        <2>2. ASSUME NEW g \in Holder, x \in has2[g]
              PROVE  x \in used \cup X
            BY <1>1, <2>2
        <2> QED
            BY <2>1, <2>2
    <1>3. ASSUME NEW g \in Holder, NEW f \in Holder, g # f
          PROVE  has2[g] \cap has2[f] = {}
        <2>1. has[g] \cap has[f] = {} /\ has[g] \subseteq used /\ has[f] \subseteq used
            BY <1>1, <1>3 DEF Partition
        <2> QED
            BY <1>3, <2>1
    <1> QED
        BY <1>2, <1>3 DEF Partition

LEMMA GivePages ==
    ASSUME NEW used, NEW has, Partition(used, has), NEW h, NEW X, NEW has2,
           Loses(has, has2, h, X)
    PROVE  Partition(used \ X, has2)
    <1> USE DEF Loses
    <1>1. \A x : x \in used <=> \E g \in Holder : x \in has[g]
        BY DEF Partition
    <1>2. \A g \in Holder : g # h => has[g] \cap X = {}
        BY DEF Partition
    <1>3. ASSUME NEW x
          PROVE  x \in used \ X <=> \E g \in Holder : x \in has2[g]
        <2>1. ASSUME x \in used \ X
              PROVE  \E g \in Holder : x \in has2[g]
            BY <1>1, <2>1
        <2>2. ASSUME NEW g \in Holder, x \in has2[g]
              PROVE  x \in used \ X
            BY <1>1, <1>2, <2>2
        <2> QED
            BY <2>1, <2>2
    <1>4. ASSUME NEW g \in Holder, NEW f \in Holder, g # f
          PROVE  has2[g] \cap has2[f] = {}
        <2>1. has[g] \cap has[f] = {}
            BY <1>4 DEF Partition
        <2> QED
            BY <1>4, <2>1
    <1> QED
        BY <1>3, <1>4 DEF Partition

LEMMA SamePages ==
    ASSUME NEW used, NEW has, Partition(used, has), NEW has2,
           \A g \in Holder : has2[g] = has[g]
    PROVE  Partition(used, has2)
    BY DEF Partition

LEMMA HasFacts ==
    ASSUME NEW k, NEW sp
    PROVE  /\ \A id \in Id : /\ <<"object", id>> \in Holder
                             /\ Has(k, sp)[<<"object", id>>] = ObjectHas(k, id)
           /\ \A p \in Proc : /\ <<"space", p>> \in Holder
                              /\ Has(k, sp)[<<"space", p>>] = SpaceHas(sp[p])
           /\ <<"kernel", 0>> \in Holder /\ Has(k, sp)[<<"kernel", 0>>] = {0}
           /\ \A h \in Holder : \/ \E id \in Id : h = <<"object", id>>
                                \/ \E p \in Proc : h = <<"space", p>>
                                \/ h = <<"kernel", 0>>
    BY DEF Holder, Has

(* The holders of memory and spaces that differ in one of them.            *)
LEMMA HasButObject ==
    ASSUME NEW k, NEW k2, NEW sp, NEW id \in Id,
           \A i \in Id : i # id => ObjectHas(k2, i) = ObjectHas(k, i)
    PROVE  \A g \in Holder : g # <<"object", id>> => Has(k2, sp)[g] = Has(k, sp)[g]
    <1>1. ASSUME NEW g \in Holder, g # <<"object", id>>
          PROVE  Has(k2, sp)[g] = Has(k, sp)[g]
        <2>1. CASE \E i \in Id : g = <<"object", i>>
            BY <1>1, <2>1, HasFacts
        <2>2. CASE \E p \in Proc : g = <<"space", p>>
            BY <2>2, HasFacts
        <2>3. CASE g = <<"kernel", 0>>
            BY <2>3, HasFacts
        <2> QED
            BY <2>1, <2>2, <2>3, HasFacts
    <1> QED
        BY <1>1

LEMMA HasButSpace ==
    ASSUME NEW k, NEW k2, NEW sp, NEW sp2, NEW p \in Proc,
           \A i \in Id : ObjectHas(k2, i) = ObjectHas(k, i),
           \A q \in Proc : q # p => sp2[q] = sp[q]
    PROVE  \A g \in Holder : g # <<"space", p>> => Has(k2, sp2)[g] = Has(k, sp)[g]
    <1>1. ASSUME NEW g \in Holder, g # <<"space", p>>
          PROVE  Has(k2, sp2)[g] = Has(k, sp)[g]
        <2>1. CASE \E i \in Id : g = <<"object", i>>
            BY <2>1, HasFacts
        <2>2. CASE \E q \in Proc : g = <<"space", q>>
            BY <1>1, <2>2, HasFacts
        <2>3. CASE g = <<"kernel", 0>>
            BY <2>3, HasFacts
        <2> QED
            BY <2>1, <2>2, <2>3, HasFacts
    <1> QED
        BY <1>1
-----------------------------------------------------------------------------
Fine(k, sp, call) ==
    Typed(k) /\ sp \in [Proc -> Space] /\ call \in [Caller -> Nat] /\ Sound(k, sp, call)

LEMMA Callers == Extra \notin Proc /\ Extra \in Caller /\ Proc \subseteq Caller
    <1>1. \E x : x \notin Proc
        BY NoSetContainsEverything
    <1> QED
        BY <1>1 DEF Extra, Caller

(* The numbers of the mappings of a process, and their members.            *)
LEMMA MappingFacts ==
    ASSUME NEW s \in Space
    PROVE  /\ s.mappings \in Seq(Mapping) /\ Len(s.mappings) \in Nat
           /\ DOMAIN s.mappings = 1 .. Len(s.mappings)
           /\ \A i \in DOMAIN s.mappings :
                  /\ i \in Nat /\ i # 0 /\ s.mappings[i] \in Mapping
                  /\ s.mappings[i].object \in Id /\ s.mappings[i].addr \in Addr
                  /\ s.mappings[i].off \in Offset /\ s.mappings[i].size \in Nat
    <1>1. s.mappings \in Seq(Mapping)
        BY DEF Space
    <1>2. Len(s.mappings) \in Nat /\ DOMAIN s.mappings = 1 .. Len(s.mappings)
        BY <1>1
    <1>3. ASSUME NEW i \in DOMAIN s.mappings
          PROVE  i \in Nat /\ i # 0 /\ s.mappings[i] \in Mapping
        BY <1>1, <1>2
    <1>4. \A m \in Mapping : /\ m.object \in Id /\ m.addr \in Addr
                          /\ m.off \in Offset /\ m.size \in Nat
        BY DEF Mapping
    <1> QED
        BY <1>1, <1>2, <1>3, <1>4

LEMMA CallReference ==
    \A sp, call, id : \A c \in Caller : <<c, 0>> \in References(sp, call, id) <=> call[c] = id
    BY DEF References

LEMMA MappingReference ==
    ASSUME NEW sp \in [Proc -> Space], NEW call, NEW id,
           NEW p \in Proc, NEW i \in DOMAIN sp[p].mappings
    PROVE  <<p, i>> \in References(sp, call, id) <=> sp[p].mappings[i].object = id
    <1>1. i \in Nat /\ i # 0 /\ p \in Caller
        BY MappingFacts, Callers
    <1> QED
        BY <1>1 DEF References

LEMMA ReferenceCases ==
    ASSUME NEW sp, NEW call, NEW id, NEW r \in References(sp, call, id)
    PROVE  \/ \E c \in Caller : r = <<c, 0>> /\ call[c] = id
           \/ \E p \in Proc : \E i \in DOMAIN sp[p].mappings :
                  i \in Nat /\ i # 0 /\ r = <<p, i>> /\ sp[p].mappings[i].object = id
    <1>1. r \in Caller \X Nat
        BY DEF References
    <1>2. PICK c \in Caller, i \in Nat : r = <<c, i>>
        BY <1>1
    <1> QED
        BY <1>2 DEF References

(* What is referred to is an object that there is.                         *)
LEMMA Referenced ==
    ASSUME NEW k, NEW sp \in [Proc -> Space], NEW call, Counted(k, sp, call)
    PROVE  /\ \A id \in Id : \A r \in References(sp, call, id) : k.refs[id] > 0
           /\ \A p \in Proc : \A i \in DOMAIN sp[p].mappings :
                  k.refs[sp[p].mappings[i].object] > 0
           /\ \A c \in Caller : call[c] \in Id => k.refs[call[c]] > 0
    <1>1. ASSUME NEW id \in Id, NEW r \in References(sp, call, id)
          PROVE  k.refs[id] > 0
        <2>1. /\ IsFiniteSet(References(sp, call, id))
              /\ k.refs[id] = Cardinality(References(sp, call, id))
            BY DEF Counted
        <2>2. Cardinality(References(sp, call, id)) # 0
            BY <2>1, FS_EmptySet
        <2>3. Cardinality(References(sp, call, id)) \in Nat
            BY <2>1, FS_CardinalityType
        <2> QED
            BY <2>1, <2>2, <2>3
    <1>2. ASSUME NEW p \in Proc, NEW i \in DOMAIN sp[p].mappings
          PROVE  k.refs[sp[p].mappings[i].object] > 0
        <2>1. sp[p].mappings[i].object \in Id
            BY MappingFacts
        <2>2. <<p, i>> \in References(sp, call, sp[p].mappings[i].object)
            BY MappingReference
        <2> QED
            BY <1>1, <2>1, <2>2
    <1>3. ASSUME NEW c \in Caller, call[c] \in Id
          PROVE  k.refs[call[c]] > 0
        <2>1. <<c, 0>> \in References(sp, call, call[c])
            BY CallReference
        <2> QED
            BY <1>1, <1>3, <2>1
    <1> QED
        BY <1>1, <1>2, <1>3

(* A space shows the same, if the objects it maps are where they were.     *)
LEMMA ShownSame ==
    ASSUME NEW k, NEW k2, NEW s, Shown(k, s),
           \A i \in DOMAIN s.mappings :
               k2.range[s.mappings[i].object] = k.range[s.mappings[i].object]
    PROVE  Shown(k2, s)
    BY DEF Shown, Leads

(* The references, with one call more, or with one less.                   *)
SameBut(call, call2, c) ==
    /\ call \in [Caller -> Nat] /\ call2 \in [Caller -> Nat]
    /\ \A d \in Caller : d # c => call2[d] = call[d]

LEMMA CallAdded ==
    ASSUME NEW sp, NEW call, NEW call2, NEW c \in Caller, SameBut(call, call2, c),
           call[c] \notin Id, call2[c] \in Id, NEW i \in Id
    PROVE  /\ <<c, 0>> \notin References(sp, call, i)
           /\ i = call2[c] => References(sp, call2, i) = References(sp, call, i) \cup {<<c, 0>>}
           /\ i # call2[c] => References(sp, call2, i) = References(sp, call, i)
    <1>1. <<c, 0>> \notin References(sp, call, i)
        BY CallReference
    <1>2. <<c, 0>> \in Caller \X Nat
        OBVIOUS
    <1>3. ASSUME NEW r \in Caller \X Nat
          PROVE  r \in References(sp, call2, i)
                     <=> r \in References(sp, call, i) \/ (r = <<c, 0>> /\ i = call2[c])
        <2>1. PICK d \in Caller, n \in Nat : r = <<d, n>>
            OBVIOUS
        <2>2. CASE n # 0
            <3>1. r[1] = d /\ r[2] = n
                BY <2>1
            <3> QED
                BY <2>1, <2>2, <3>1 DEF References
        <2>3. CASE n = 0
            <3>1. r = <<d, 0>>
                BY <2>1, <2>3
            <3>2. r \in References(sp, call2, i) <=> call2[d] = i
                BY <3>1, CallReference
            <3>3. r \in References(sp, call, i) <=> call[d] = i
                BY <3>1, CallReference
            <3>4. CASE d = c
                BY <3>1, <3>2, <3>3, <3>4
            <3>5. CASE d # c
                BY <3>1, <3>2, <3>3, <3>5 DEF SameBut
            <3> QED
                BY <3>4, <3>5
        <2> QED
            BY <2>2, <2>3
    <1>4. /\ References(sp, call, i) \subseteq Caller \X Nat
          /\ References(sp, call2, i) \subseteq Caller \X Nat
        BY DEF References
    <1> QED
        BY <1>1, <1>2, <1>3, <1>4

LEMMA CallDropped ==
    ASSUME NEW sp, NEW call, NEW call2, NEW c \in Caller, SameBut(call, call2, c),
           call[c] \in Id, call2[c] \notin Id, NEW i \in Id
    PROVE  /\ <<c, 0>> \in References(sp, call, call[c])
           /\ i = call[c] => References(sp, call2, i) = References(sp, call, i) \ {<<c, 0>>}
           /\ i # call[c] => References(sp, call2, i) = References(sp, call, i)
    <1>1. SameBut(call2, call, c)
        BY DEF SameBut
    <1>2. <<c, 0>> \in References(sp, call, call[c])
        BY CallReference
    <1>3. /\ <<c, 0>> \notin References(sp, call2, i)
          /\ i = call[c] => References(sp, call, i) = References(sp, call2, i) \cup {<<c, 0>>}
          /\ i # call[c] => References(sp, call, i) = References(sp, call2, i)
        BY <1>1, CallAdded
    <1> QED
        BY <1>2, <1>3
-----------------------------------------------------------------------------
LEMMA CountedAdded ==
    ASSUME NEW k, NEW k2, NEW sp, NEW call, NEW call2, NEW c \in Caller,
           Counted(k, sp, call), SameBut(call, call2, c),
           call[c] \notin Id, call2[c] \in Id, k2.refs[call2[c]] = k.refs[call2[c]] + 1,
           \A i \in Id : i # call2[c] => k2.refs[i] = k.refs[i]
    PROVE  Counted(k2, sp, call2)
    <1>1. ASSUME NEW i \in Id
          PROVE  /\ IsFiniteSet(References(sp, call2, i))
                 /\ k2.refs[i] = Cardinality(References(sp, call2, i))
        <2>1. /\ IsFiniteSet(References(sp, call, i))
              /\ k.refs[i] = Cardinality(References(sp, call, i))
            BY DEF Counted
        <2>2. /\ <<c, 0>> \notin References(sp, call, i)
              /\ i = call2[c] => References(sp, call2, i) = References(sp, call, i) \cup {<<c, 0>>}
              /\ i # call2[c] => References(sp, call2, i) = References(sp, call, i)
            BY CallAdded
        <2>3. CASE i = call2[c]
            BY <2>1, <2>3, <2>2, FS_AddElement
        <2>4. CASE i # call2[c]
            BY <2>1, <2>4, <2>2
        <2> QED
            BY <2>3, <2>4
    <1> QED
        BY <1>1 DEF Counted

LEMMA CountedDropped ==
    ASSUME NEW k, NEW k2, NEW sp, NEW call, NEW call2, NEW c \in Caller,
           Counted(k, sp, call), SameBut(call, call2, c),
           call[c] \in Id, call2[c] \notin Id, k2.refs[call[c]] = k.refs[call[c]] - 1,
           \A i \in Id : i # call[c] => k2.refs[i] = k.refs[i]
    PROVE  Counted(k2, sp, call2)
    <1>1. ASSUME NEW i \in Id
          PROVE  /\ IsFiniteSet(References(sp, call2, i))
                 /\ k2.refs[i] = Cardinality(References(sp, call2, i))
        <2>1. /\ IsFiniteSet(References(sp, call, i))
              /\ k.refs[i] = Cardinality(References(sp, call, i))
            BY DEF Counted
        <2>2. /\ <<c, 0>> \in References(sp, call, call[c])
              /\ i = call[c] => References(sp, call2, i) = References(sp, call, i) \ {<<c, 0>>}
              /\ i # call[c] => References(sp, call2, i) = References(sp, call, i)
            BY CallDropped
        <2>3. CASE i = call[c]
            BY <2>1, <2>3, <2>2, FS_RemoveElement
        <2>4. CASE i # call[c]
            BY <2>1, <2>4, <2>2
        <2> QED
            BY <2>3, <2>4
    <1> QED
        BY <1>1 DEF Counted

LEMMA HasSame ==
    ASSUME NEW k, NEW k2, NEW sp, NEW sp2,
           \A i \in Id : ObjectHas(k2, i) = ObjectHas(k, i),
           \A p \in Proc : SpaceHas(sp2[p]) = SpaceHas(sp[p])
    PROVE  \A h \in Holder : Has(k2, sp2)[h] = Has(k, sp)[h]
    <1>1. ASSUME NEW h \in Holder
          PROVE  Has(k2, sp2)[h] = Has(k, sp)[h]
        <2>1. CASE \E i \in Id : h = <<"object", i>>
            BY <2>1, HasFacts
        <2>2. CASE \E p \in Proc : h = <<"space", p>>
            BY <2>2, HasFacts
        <2>3. CASE h = <<"kernel", 0>>
            BY <2>3, HasFacts
        <2> QED
            BY <2>1, <2>2, <2>3, HasFacts
    <1> QED
        BY <1>1

LEMMA FineFacts ==
    ASSUME NEW k, NEW sp, NEW call, Fine(k, sp, call)
    PROVE  /\ Typed(k) /\ k.used \subseteq Page /\ k.next \in Nat
           /\ k.refs \in [Id -> Nat] /\ k.range \in [Id -> MemoryRange]
           /\ sp \in [Proc -> Space] /\ call \in [Caller -> Nat]
           /\ Counted(k, sp, call) /\ Partition(k.used, Has(k, sp)) /\ Objective(k)
           /\ \A p \in Proc : Shown(k, sp[p])
    BY DEF Fine, Sound, Typed, Memory

(* One reference more, of a call, to an object that there is.              *)
LEMMA RefFine ==
    ASSUME NEW k, NEW sp, NEW call, NEW call2, NEW c \in Caller, Fine(k, sp, call),
           SameBut(call, call2, c), call[c] \notin Id, call2[c] \in Id, k.refs[call2[c]] > 0
    PROVE  Fine(Ref(k, call2[c]), sp, call2)
    <1>1. PICK k2 : k2 = Ref(k, call2[c])
        OBVIOUS
    <1>2. /\ Typed(k2) /\ k2.used = k.used /\ k2.range = k.range /\ k2.next = k.next
          /\ k2.refs[call2[c]] = k.refs[call2[c]] + 1
          /\ \A i \in Id : i # call2[c] => k2.refs[i] = k.refs[i]
        <2>1. k2.refs = [k.refs EXCEPT ![call2[c]] = @ + 1]
            BY <1>1, FineFacts, RefTyped
        <2> QED
            BY <1>1, <2>1, FineFacts, RefTyped
    <1>3. Counted(k2, sp, call2)
        BY <1>2, FineFacts, CountedAdded
    <1>4. \A i \in Id : (k2.refs[i] > 0 <=> k.refs[i] > 0) /\ ObjectHas(k2, i) = ObjectHas(k, i)
        BY <1>2, FineFacts DEF ObjectHas
    <1>5. \A h \in Holder : Has(k2, sp)[h] = Has(k, sp)[h]
        BY <1>4, HasSame
    <1>6. Partition(k2.used, Has(k2, sp))
        BY <1>2, <1>5, FineFacts, SamePages
    <1>7. Objective(k2)
        <2>1. ASSUME NEW i \in Id
              PROVE  /\ k2.refs[i] > 0 => /\ k2.range[i].base \in Page
                                          /\ k2.range[i].base + k2.range[i].size <= Total
                     /\ i >= k2.next => k2.refs[i] = 0
            <3>1. /\ k.refs[i] > 0 => /\ k.range[i].base \in Page
                                      /\ k.range[i].base + k.range[i].size <= Total
                  /\ i >= k.next => k.refs[i] = 0
                BY FineFacts DEF Objective
            <3> QED
                BY <1>2, <1>4, <3>1
        <2> QED
            BY <2>1 DEF Objective
    <1>8. \A p \in Proc : Shown(k2, sp[p])
        BY <1>2, FineFacts, ShownSame
    <1> QED
        BY <1>1, <1>2, <1>3, <1>6, <1>7, <1>8, FineFacts DEF Fine, Sound, SameBut

(* A call gives its reference back; the object goes with the last one.     *)
LEMMA DerefFine ==
    ASSUME NEW k, NEW sp, NEW call, NEW call2, NEW c \in Caller, Fine(k, sp, call),
           SameBut(call, call2, c), call[c] \in Id, call2[c] \notin Id
    PROVE  Fine(Deref(k, call[c]), sp, call2)
    <1>1. PICK id, k2 : id = call[c] /\ k2 = Deref(k, call[c])
        OBVIOUS
    <1>2. id \in Id /\ k.refs[id] > 0 /\ k.refs[id] \in Nat
        BY <1>1, FineFacts, Referenced
    <1>3. Typed(k) /\ Partition(k.used, Has(k, sp))
        BY FineFacts
    <1>4. Typed(k2) /\ k2.next = k.next
        BY <1>1, FineFacts, DerefTyped
    <1>5. /\ k2.refs[id] = k.refs[id] - 1 /\ \A i \in Id : i # id => k2.refs[i] = k.refs[i]
          /\ \A i \in Id : i # id => k2.range[i] = k.range[i]
          /\ k.refs[id] > 1 => k2.used = k.used /\ k2.range = k.range
          /\ ~(k.refs[id] > 1) =>
                 k2.used = k.used \ Pages(k.range[id].base, k.range[id].size)
        <2>1. CASE k.refs[id] > 1
            <3>1. /\ k2.refs = [k.refs EXCEPT ![id] = @ - 1]
                  /\ k2.used = k.used /\ k2.range = k.range
                BY <1>1, <1>2, <1>3, <2>1, DerefTyped
            <3> QED
                BY <1>2, <2>1, <3>1, FineFacts
        <2>2. CASE ~(k.refs[id] > 1)
            <3>1. /\ k2.refs = [k.refs EXCEPT ![id] = 0]
                  /\ k2.used = k.used \ Pages(k.range[id].base, k.range[id].size)
                  /\ k2.range = [k.range EXCEPT ![id] = Nowhere]
                BY <1>1, <1>2, <1>3, <2>2, DerefTyped
            <3> QED
                BY <1>2, <2>2, <3>1, FineFacts
        <2> QED
            BY <2>1, <2>2
    <1>6. Counted(k2, sp, call2)
        BY <1>1, <1>5, FineFacts, CountedDropped
    <1>7. \A i \in Id : i # id => ObjectHas(k2, i) = ObjectHas(k, i)
        BY <1>5 DEF ObjectHas
    <1>8. Partition(k2.used, Has(k2, sp))
        <2>1. CASE k.refs[id] > 1
            <3>1. ObjectHas(k2, id) = ObjectHas(k, id)
                BY <1>2, <1>5, <2>1 DEF ObjectHas
            <3>2. \A h \in Holder : Has(k2, sp)[h] = Has(k, sp)[h]
                BY <1>7, <3>1, HasSame
            <3> QED
                BY <1>5, <2>1, <3>2, FineFacts, SamePages
        <2>2. CASE ~(k.refs[id] > 1)
            <3>1. ObjectHas(k2, id) = {}
                BY <1>2, <1>5, <2>2 DEF ObjectHas
            <3>2. ObjectHas(k, id) = Pages(k.range[id].base, k.range[id].size)
                BY <1>2 DEF ObjectHas
            <3>3. \A g \in Holder : g # <<"object", id>> => Has(k2, sp)[g] = Has(k, sp)[g]
                BY <1>2, <1>7, HasButObject
            <3>4. /\ <<"object", id>> \in Holder
                  /\ Has(k, sp)[<<"object", id>>] = ObjectHas(k, id)
                  /\ Has(k2, sp)[<<"object", id>>] = ObjectHas(k, id) \ ObjectHas(k, id)
                BY <1>2, <3>1, HasFacts
            <3>5. Loses(Has(k, sp), Has(k2, sp), <<"object", id>>, ObjectHas(k, id))
                BY <3>3, <3>4 DEF Loses
            <3>6. Partition(k.used \ ObjectHas(k, id), Has(k2, sp))
                BY <1>3, <3>5, GivePages
            <3> QED
                BY <1>5, <2>2, <3>2, <3>6
        <2> QED
            BY <2>1, <2>2
    <1>9. Objective(k2)
        <2>1. ASSUME NEW i \in Id
              PROVE  /\ k2.refs[i] > 0 => /\ k2.range[i].base \in Page
                                          /\ k2.range[i].base + k2.range[i].size <= Total
                     /\ i >= k2.next => k2.refs[i] = 0
            <3>1. /\ k.refs[i] > 0 => /\ k.range[i].base \in Page
                                      /\ k.range[i].base + k.range[i].size <= Total
                  /\ i >= k.next => k.refs[i] = 0
                BY FineFacts DEF Objective
            <3>2. CASE i # id
                BY <1>4, <1>5, <3>1, <3>2
            <3>3. CASE i = id
                <4>1. ~(i >= k.next)
                    BY <1>2, <3>1, <3>3
                <4>2. k.refs[id] > 1 => k2.range[i] = k.range[i]
                    BY <1>5
                <4>3. k2.refs[i] > 0 => k.refs[id] > 1
                    BY <1>2, <1>5, <3>3
                <4> QED
                    BY <1>2, <1>4, <3>1, <3>3, <4>1, <4>2, <4>3
            <3> QED
                BY <3>2, <3>3
        <2> QED
            BY <2>1 DEF Objective
    <1>10. ASSUME NEW p \in Proc
          PROVE  Shown(k2, sp[p])
        <2>1. \A i \in DOMAIN sp[p].mappings :
                  sp[p].mappings[i].object \in Id /\ k2.refs[sp[p].mappings[i].object] > 0
            BY <1>6, FineFacts, Referenced, MappingFacts
        <2>2. \A i \in DOMAIN sp[p].mappings :
                  k2.range[sp[p].mappings[i].object] = k.range[sp[p].mappings[i].object]
            <3>1. ASSUME NEW j \in Id, k2.refs[j] > 0
                  PROVE  k2.range[j] = k.range[j]
                <4>1. j = id => k.refs[id] > 1
                    BY <1>2, <1>5, <3>1
                <4> QED
                    BY <1>5, <4>1
            <3> QED
                BY <2>1, <3>1
        <2> QED
            BY <2>2, FineFacts, ShownSame
    <1> QED
        BY <1>1, <1>4, <1>6, <1>8, <1>9, <1>10, FineFacts DEF Fine, Sound, SameBut

(* A new object, of which a call has the only reference.                   *)
LEMMA CreateFine ==
    ASSUME NEW k, NEW sp, NEW call, NEW call2, NEW c \in Caller, Fine(k, sp, call),
           NEW size \in Nat, Found(k, size) # {}, k.next \in Id,
           SameBut(call, call2, c), call[c] \notin Id, call2[c] = k.next
    PROVE  /\ Fine(Create(k, size), sp, call2)
           /\ Create(k, size).range[k.next].size = size
           /\ Create(k, size).next = k.next + 1 /\ Create(k, size).state = k.state
           /\ \A i \in Id : i # k.next => Create(k, size).range[i] = k.range[i]
    <1>1. PICK id, k2 : id = k.next /\ k2 = Create(k, size)
        OBVIOUS
    <1>2. id \in Id /\ k.refs[id] = 0 /\ id \in Nat
        BY <1>1, FineFacts, Constants DEF Objective
    <1>3. PICK base \in Page :
              /\ base + size <= Total /\ Pages(base, size) \cap k.used = {}
              /\ k2.used = k.used \cup Pages(base, size)
              /\ k2.range = [k.range EXCEPT ![k.next] = [base |-> base, size |-> size]]
              /\ k2.refs = [k.refs EXCEPT ![k.next] = 1]
              /\ k2.next = k.next + 1 /\ k2.state = k.state
        BY <1>1, FineFacts, CreateTyped
    <1>4. /\ k2.range[id] = [base |-> base, size |-> size] /\ k2.refs[id] = 1
          /\ \A i \in Id : i # id => k2.range[i] = k.range[i] /\ k2.refs[i] = k.refs[i]
        BY <1>1, <1>2, <1>3, FineFacts
    <1>5. k2.range[id].base = base /\ k2.range[id].size = size
        BY <1>4
    <1>6. Typed(k2)
        BY <1>1, FineFacts, CreateTyped
    <1>7. Partition(k.used, Has(k, sp))
        BY FineFacts
    <1>8. Counted(k2, sp, call2)
        <2>1. k2.refs[call2[c]] = k.refs[call2[c]] + 1 /\ call2[c] \in Id
            BY <1>1, <1>2, <1>4
        <2>2. \A i \in Id : i # call2[c] => k2.refs[i] = k.refs[i]
            BY <1>1, <1>4
        <2> QED
            BY <2>1, <2>2, FineFacts, CountedAdded
    <1>9. Partition(k2.used, Has(k2, sp))
        <2>1. ObjectHas(k, id) = {} /\ ObjectHas(k2, id) = Pages(base, size)
            BY <1>2, <1>4, <1>5 DEF ObjectHas
        <2>2. \A i \in Id : i # id => ObjectHas(k2, i) = ObjectHas(k, i)
            BY <1>4 DEF ObjectHas
        <2>3. \A g \in Holder : g # <<"object", id>> => Has(k2, sp)[g] = Has(k, sp)[g]
            BY <1>2, <2>2, HasButObject
        <2>4. /\ <<"object", id>> \in Holder
              /\ Has(k2, sp)[<<"object", id>>]
                     = Has(k, sp)[<<"object", id>>] \cup Pages(base, size)
            BY <1>2, <2>1, HasFacts
        <2>5. Gains(k.used, Has(k, sp), Has(k2, sp), <<"object", id>>, Pages(base, size))
            BY <1>3, <2>3, <2>4 DEF Gains
        <2>6. Partition(k.used \cup Pages(base, size), Has(k2, sp))
            BY <1>7, <2>5, TakePages
        <2> QED
            BY <1>3, <2>6
    <1>10. Objective(k2)
        <2>1. ASSUME NEW i \in Id
              PROVE  /\ k2.refs[i] > 0 => /\ k2.range[i].base \in Page
                                          /\ k2.range[i].base + k2.range[i].size <= Total
                     /\ i >= k2.next => k2.refs[i] = 0
            <3>1. /\ k.refs[i] > 0 => /\ k.range[i].base \in Page
                                      /\ k.range[i].base + k.range[i].size <= Total
                  /\ i >= k.next => k.refs[i] = 0
                BY FineFacts DEF Objective
            <3>2. CASE i # id
                BY <1>1, <1>2, <1>3, <1>4, <3>1, <3>2, Constants
            <3>3. CASE i = id
                BY <1>1, <1>2, <1>3, <1>5, <3>3
            <3> QED
                BY <3>2, <3>3
        <2> QED
            BY <2>1 DEF Objective
    <1>11. ASSUME NEW p \in Proc
           PROVE  Shown(k2, sp[p])
        <2>1. \A i \in DOMAIN sp[p].mappings :
                  sp[p].mappings[i].object \in Id /\ k.refs[sp[p].mappings[i].object] > 0
            BY FineFacts, Referenced, MappingFacts
        <2>2. \A i \in DOMAIN sp[p].mappings :
                  k2.range[sp[p].mappings[i].object] = k.range[sp[p].mappings[i].object]
            <3>1. ASSUME NEW j \in Id, k.refs[j] > 0
                  PROVE  k2.range[j] = k.range[j]
                BY <1>2, <1>4, <3>1
            <3> QED
                BY <2>1, <3>1
        <2> QED
            BY <2>2, FineFacts, ShownSame
    <1>12. Fine(k2, sp, call2)
        BY <1>6, <1>8, <1>9, <1>10, <1>11, FineFacts DEF Fine, Sound, SameBut
    <1> QED
        BY <1>1, <1>3, <1>4, <1>5, <1>12
-----------------------------------------------------------------------------
Put(f, x, v) == [f EXCEPT ![x] = v]

LEMMA SpacePut ==
    ASSUME NEW sp \in [Proc -> Space], NEW p \in Proc, NEW s \in Space
    PROVE  /\ Put(sp, p, s) \in [Proc -> Space] /\ Put(sp, p, s)[p] = s
           /\ \A q \in Proc : q # p => Put(sp, p, s)[q] = sp[q]
           /\ \A w \in Space : Put(Put(sp, p, s), p, w) = Put(sp, p, w)
           /\ Put(sp, p, sp[p]) = sp
    BY DEF Put

LEMMA CallPut ==
    ASSUME NEW call \in [Caller -> Nat], NEW c \in Caller, NEW n \in Nat
    PROVE  /\ Put(call, c, n) \in [Caller -> Nat] /\ Put(call, c, n)[c] = n
           /\ SameBut(call, Put(call, c, n), c) /\ SameBut(Put(call, c, n), call, c)
           /\ \A m \in Nat : Put(Put(call, c, n), c, m) = Put(call, c, m)
           /\ Put(call, c, call[c]) = call
    BY DEF Put, SameBut

(* Memories that differ in their pages or their state only.                *)
SameObjects(k, k2) == k2.range = k.range /\ k2.refs = k.refs /\ k2.next = k.next

LEMMA PanicFine ==
    ASSUME NEW k, NEW sp, NEW call, Fine(k, sp, call)
    PROVE  Fine(Panic(k), sp, call) /\ SameObjects(k, Panic(k)) /\ Panic(k).state = "panic"
    <1>1. /\ Typed(Panic(k)) /\ Panic(k).used = k.used /\ Panic(k).range = k.range
          /\ Panic(k).refs = k.refs /\ Panic(k).next = k.next /\ Panic(k).state = "panic"
        BY PanicTyped DEF Fine
    <1>2. PICK k2 : k2 = Panic(k)
        OBVIOUS
    <1>3. Counted(k2, sp, call)
        BY <1>1, <1>2, FineFacts DEF Counted
    <1>4. \A h \in Holder : Has(k2, sp)[h] = Has(k, sp)[h]
        BY <1>1, <1>2, HasSame DEF ObjectHas
    <1>5. Partition(k2.used, Has(k2, sp))
        BY <1>1, <1>2, <1>4, FineFacts, SamePages
    <1>6. Objective(k2)
        BY <1>1, <1>2, FineFacts DEF Objective
    <1>7. \A p \in Proc : Shown(k2, sp[p])
        BY <1>1, <1>2, FineFacts, ShownSame
    <1> QED
        BY <1>1, <1>2, <1>3, <1>5, <1>6, <1>7, FineFacts DEF Fine, Sound, SameObjects

(* The references depend on the mappings only.                             *)
LEMMA ReferencesSame ==
    ASSUME NEW sp, NEW sp2, NEW call, NEW id,
           \A p \in Proc : sp2[p].mappings = sp[p].mappings
    PROVE  References(sp2, call, id) = References(sp, call, id)
    BY DEF References

(* A space takes a page that is free for a page table.                     *)
Tabling(k, sp, call, p, v) ==
    /\ v.memory \in Memory /\ v.table \in [Table -> Page \cup {None}]
    /\ v = [memory |-> v.memory, table |-> v.table]
    /\ Fine(v.memory, Put(sp, p, [sp[p] EXCEPT !.table = v.table]), call)
    /\ SameObjects(k, v.memory) /\ v.memory.state = k.state

LEMMA SpaceWithTable ==
    ASSUME NEW s \in Space, NEW t \in [Table -> Page \cup {None}]
    PROVE  /\ [s EXCEPT !.table = t] \in Space /\ [s EXCEPT !.table = t].table = t
           /\ [s EXCEPT !.table = t].frame = s.frame
           /\ [s EXCEPT !.table = t].mappings = s.mappings
           /\ [s EXCEPT !.table = t].own = s.own
           /\ [s EXCEPT !.table = t].straight = s.straight
    BY DEF Space

LEMMA FreePageFacts ==
    ASSUME NEW k, Typed(k), FreePages(k) # {}
    PROVE  /\ Least(FreePages(k)) \in Page /\ Least(FreePages(k)) \notin k.used
           /\ Least(FreePages(k)) + 1 <= Total
           /\ Pages(Least(FreePages(k)), 1) = {Least(FreePages(k))}
    <1>1. FreePages(k) \subseteq Nat
        BY Constants DEF FreePages
    <1>2. PICK x : x = Least(FreePages(k)) /\ x \in FreePages(k)
        BY <1>1, LeastIsLeast
    <1>3. x \in Page /\ x \notin k.used /\ x \in Nat
        BY <1>2, Constants DEF FreePages
    <1>4. x + 1 <= Total
        BY <1>3, Constants
    <1>5. \A y : y \in Pages(x, 1) <=> y = x
        BY <1>3, InPages
    <1> QED
        BY <1>2, <1>3, <1>4, <1>5

Takes(k, k2, s, s2, t, page) ==
    /\ t \in Table /\ s.table[t] = None /\ page \in Page /\ page \notin k.used
    /\ Typed(k2) /\ k2.used = k.used \cup {page} /\ SameObjects(k, k2)
    /\ \A u \in Table : s2.table[u] = IF u = t THEN page ELSE s.table[u]
    /\ s2.frame = s.frame /\ s2.mappings = s.mappings /\ s2.own = s.own
    /\ s2.straight = s.straight

(* The spaces differ in that of p only.                                    *)
Only(sp, sp2, p) ==
    /\ sp \in [Proc -> Space] /\ sp2 \in [Proc -> Space]
    /\ \A q \in Proc : q # p => sp2[q] = sp[q]

LEMMA TakenForTable ==
    ASSUME NEW k, NEW sp, NEW call, NEW p \in Proc, Fine(k, sp, call), NEW k2, NEW sp2,
           Only(sp, sp2, p), NEW t, NEW page, Takes(k, k2, sp[p], sp2[p], t, page)
    PROVE  Fine(k2, sp2, call)
    <1> USE DEF Takes, Only
    <1>1. \A q \in Proc : sp2[q].mappings = sp[q].mappings /\ sp2[q].frame = sp[q].frame
        OBVIOUS
    <1>2. Counted(k2, sp2, call)
        BY <1>1, FineFacts, ReferencesSame DEF Counted, SameObjects
    <1>3. SpaceHas(sp2[p]) = SpaceHas(sp[p]) \cup {page}
        <2>1. page # None
            BY Constants
        <2>2. ASSUME NEW x
              PROVE  x \in TablePages(sp2[p]) <=> x \in TablePages(sp[p]) \cup {page}
            BY <2>1 DEF TablePages
        <2> QED
            BY <2>1, <2>2 DEF SpaceHas
    <1>4. Partition(k2.used, Has(k2, sp2))
        <2>1. \A i \in Id : ObjectHas(k2, i) = ObjectHas(k, i)
            BY DEF ObjectHas, SameObjects
        <2>2. \A g \in Holder : g # <<"space", p>> => Has(k2, sp2)[g] = Has(k, sp)[g]
            BY <2>1, HasButSpace
        <2>3. /\ <<"space", p>> \in Holder
              /\ Has(k2, sp2)[<<"space", p>>] = Has(k, sp)[<<"space", p>>] \cup {page}
            BY <1>3, HasFacts
        <2>4. Gains(k.used, Has(k, sp), Has(k2, sp2), <<"space", p>>, {page})
            BY <2>2, <2>3 DEF Gains
        <2>5. Partition(k.used, Has(k, sp))
            BY FineFacts
        <2> QED
            BY <2>4, <2>5, TakePages
    <1>5. Objective(k2)
        BY FineFacts DEF Objective, SameObjects
    <1>6. ASSUME NEW q \in Proc
          PROVE  Shown(k2, sp2[q])
        <2>1. Shown(k, sp[q])
            BY FineFacts
        <2>2. Shown(k, sp2[q])
            <3>1. sp2[q].straight = sp[q].straight
                OBVIOUS
            <3> QED
                BY <1>1, <2>1, <3>1 DEF Shown, Leads
        <2> QED
            BY <2>2, ShownSame DEF SameObjects
    <1> QED
        BY <1>2, <1>4, <1>5, <1>6, FineFacts DEF Fine, Sound
-----------------------------------------------------------------------------
LEMMA SetUsedOne ==
    ASSUME NEW k, Typed(k), FreePages(k) # {}
    PROVE  \E page \in Page : LET k2 == SetUsed(k, Least(FreePages(k)), 1)
           IN  /\ page = Least(FreePages(k)) /\ page \notin k.used
               /\ Typed(k2) /\ k2.used = k.used \cup {page} /\ SameObjects(k, k2)
               /\ k2.state = k.state
    <1>1. PICK page : page = Least(FreePages(k))
        OBVIOUS
    <1>2. page \in Page /\ page \notin k.used /\ page + 1 <= Total /\ Pages(page, 1) = {page}
        BY <1>1, FreePageFacts
    <1>3. PICK k2 : k2 = SetUsed(k, page, 1)
        OBVIOUS
    <1>4. /\ Typed(k2) /\ k2.used = k.used \cup Pages(page, 1) /\ k2.range = k.range
          /\ k2.refs = k.refs /\ k2.next = k.next /\ k2.state = k.state
        BY <1>2, <1>3, SetUsedTyped
    <1>5. k2.used = k.used \cup {page} /\ SameObjects(k, k2)
        BY <1>2, <1>4 DEF SameObjects
    <1> QED
        BY <1>1, <1>2, <1>3, <1>4, <1>5

LEMMA TableStep ==
    ASSUME NEW k, NEW sp \in [Proc -> Space], NEW call, NEW p \in Proc, NEW v,
           Tabling(k, sp, call, p, v), NEW t \in Table
    PROVE  Tabling(k, sp, call, p, WithTable(v, t))
    <1>1. CASE v.table[t] # None \/ FreePages(v.memory) = {}
        BY <1>1 DEF WithTable
    <1>2. CASE ~(v.table[t] # None \/ FreePages(v.memory) = {})
        <2>1. /\ v.memory \in Memory /\ v.table \in [Table -> Page \cup {None}]
              /\ SameObjects(k, v.memory) /\ v.memory.state = k.state
              /\ Fine(v.memory, Put(sp, p, [sp[p] EXCEPT !.table = v.table]), call)
              /\ Typed(v.memory)
            BY DEF Tabling, Fine
        <2>2. PICK k2 : k2 = SetUsed(v.memory, Least(FreePages(v.memory)), 1)
            OBVIOUS
        <2>3. PICK page \in Page :
                  /\ page = Least(FreePages(v.memory)) /\ page \notin v.memory.used
                  /\ k2 = SetUsed(v.memory, page, 1)
                  /\ Typed(k2) /\ k2.used = v.memory.used \cup {page}
                  /\ SameObjects(v.memory, k2) /\ k2.state = v.memory.state
            BY <1>2, <2>1, <2>2, SetUsedOne
        <2>4. PICK table2 : table2 = [v.table EXCEPT ![t] = page]
            OBVIOUS
        <2>5. /\ table2 \in [Table -> Page \cup {None}]
              /\ \A u \in Table : table2[u] = IF u = t THEN page ELSE v.table[u]
            BY <2>1, <2>4
        <2>6. WithTable(v, t) = [memory |-> k2, table |-> table2]
            BY <1>2, <2>3, <2>4 DEF WithTable
        <2>7. PICK s, s2 : s = [sp[p] EXCEPT !.table = v.table] /\ s2 = [sp[p] EXCEPT !.table = table2]
            OBVIOUS
        <2>8. /\ s \in Space /\ s2 \in Space /\ s.table = v.table /\ s2.table = table2
              /\ s2.frame = s.frame /\ s2.mappings = s.mappings /\ s2.own = s.own
              /\ s2.straight = s.straight
            BY <2>1, <2>5, <2>7, SpaceWithTable
        <2>9. PICK sp1, sp2 : sp1 = Put(sp, p, s) /\ sp2 = Put(sp, p, s2)
            OBVIOUS
        <2>10. /\ sp1[p] = s /\ sp2[p] = s2 /\ sp2 \in [Proc -> Space]
              /\ \A q \in Proc : q # p => sp2[q] = sp1[q]
            BY <2>8, <2>9, SpacePut
        <2>11. Fine(v.memory, sp1, call)
            BY <2>1, <2>7, <2>9
        <2>12. Fine(k2, sp2, call)
            <3>1. sp1[p].table[t] = None /\ sp2[p].table = table2
                BY <1>2, <2>8, <2>10
            <3>2. /\ sp2[p].frame = sp1[p].frame /\ sp2[p].mappings = sp1[p].mappings
                  /\ sp2[p].own = sp1[p].own /\ sp2[p].straight = sp1[p].straight
                BY <2>8, <2>10
            <3>3. \A u \in Table : table2[u] = IF u = t THEN page ELSE sp1[p].table[u]
                BY <2>5, <2>8, <2>10
            <3>4. Takes(v.memory, k2, sp1[p], sp2[p], t, page)
                BY <2>3, <3>1, <3>2, <3>3 DEF Takes
            <3>5. Only(sp1, sp2, p)
                BY <2>10, <2>11, FineFacts DEF Only
            <3> QED
                BY <2>11, <3>4, <3>5, TakenForTable
        <2>13. SameObjects(k, k2) /\ k2.state = k.state /\ k2 \in Memory
            BY <2>1, <2>3 DEF SameObjects, Typed
        <2> QED
            BY <2>5, <2>6, <2>7, <2>9, <2>12, <2>13 DEF Tabling
    <1> QED
        BY <1>1, <1>2

LEMMA TableOfAddr ==
    ASSUME NEW a \in Addr
    PROVE  TableOf(a) \in Table
    BY DEF Table

LEMMA WithTablesFine ==
    ASSUME NEW k, NEW sp, NEW call, NEW p \in Proc, Fine(k, sp, call),
           NEW addr \in Nat, NEW size \in Nat, addr + size <= MaxAddr
    PROVE  Tabling(k, sp, call, p, WithTables(k, sp[p], addr, size))
    <1>1. sp \in [Proc -> Space] /\ sp[p] \in Space /\ k \in Memory
        BY FineFacts DEF Typed
    <1>2. PICK U : U = [memory : Memory, table : [Table -> Page \cup {None}]]
        OBVIOUS
    <1>3. PICK W : W = [i \in 0 .. size |-> {v \in U : Tabling(k, sp, call, p, v)}]
        OBVIOUS
    <1>4. PICK base : base = [memory |-> k, table |-> sp[p].table]
        OBVIOUS
    <1>5. /\ Stages(W, size, U)
          /\ \A i \in 0 .. size : \A v : v \in W[i] <=> v \in U /\ Tabling(k, sp, call, p, v)
        BY <1>3 DEF Stages
    <1>6. base \in W[0]
        <2>1. base \in U /\ base.memory = k /\ base.table = sp[p].table
            BY <1>1, <1>2, <1>4 DEF Space
        <2>2. [sp[p] EXCEPT !.table = sp[p].table] = sp[p]
            BY <1>1 DEF Space
        <2>3. Put(sp, p, [sp[p] EXCEPT !.table = sp[p].table]) = sp
            BY <1>1, <2>2, SpacePut
        <2>4. SameObjects(k, k) /\ sp[p].table \in [Table -> Page \cup {None}]
            BY <1>1 DEF SameObjects, Space
        <2>5. Tabling(k, sp, call, p, base)
            BY <1>1, <1>4, <2>1, <2>3, <2>4 DEF Tabling
        <2> QED
            BY <1>5, <2>1, <2>5
    <1>7. ASSUME NEW i \in 1 .. size, NEW v \in U, Tabling(k, sp, call, p, v)
          PROVE  /\ WithTable(v, TableOf(addr + i - 1)) \in U
                 /\ Tabling(k, sp, call, p, WithTable(v, TableOf(addr + i - 1)))
        <2>1. addr + i - 1 \in Addr
            BY Constants
        <2>2. PICK t : t = TableOf(addr + i - 1)
            OBVIOUS
        <2>3. t \in Table
            BY <2>1, <2>2, TableOfAddr
        <2>4. Tabling(k, sp, call, p, WithTable(v, t))
            BY <1>1, <1>7, <2>3, TableStep
        <2>5. WithTable(v, t) \in U
            BY <1>2, <2>4 DEF Tabling
        <2> QED
            BY <2>2, <2>4, <2>5
    <1>8. PICK step : step = [iv \in (1 .. size) \X U |-> WithTable(iv[2], TableOf(addr + iv[1] - 1))]
        OBVIOUS
    <1>9. ASSUME NEW i \in 1 .. size, NEW v \in U
          PROVE  step[<<i, v>>] = WithTable(v, TableOf(addr + i - 1))
        <2>1. PICK iv : iv = <<i, v>>
            OBVIOUS
        <2>2. iv \in (1 .. size) \X U /\ iv[1] = i /\ iv[2] = v
            BY <2>1
        <2>3. step[iv] = WithTable(iv[2], TableOf(addr + iv[1] - 1))
            BY <1>8, <2>2
        <2> QED
            BY <2>1, <2>2, <2>3
    <1>10. StepOf(step, size, W)
        <2>1. ASSUME NEW i \in 1 .. size, NEW v \in W[i - 1]
              PROVE  step[<<i, v>>] \in W[i]
            <3>1. i - 1 \in 0 .. size /\ i \in 0 .. size
                OBVIOUS
            <3>2. v \in U /\ Tabling(k, sp, call, p, v)
                BY <1>5, <3>1
            <3> QED
                BY <1>5, <1>7, <1>9, <3>1, <3>2
        <2> QED
            BY <2>1 DEF StepOf
    <1>11. PICK f : Computes(f, size, W, base, step)
        BY <1>5, <1>6, <1>10, Recursion
    <1>12. f = [i \in 0 .. size |-> IF i = 0 THEN base
                                    ELSE WithTable(f[i - 1], TableOf(addr + i - 1))]
        <2>1. ASSUME NEW i \in 0 .. size, i # 0
              PROVE  f[i] = WithTable(f[i - 1], TableOf(addr + i - 1))
            <3>1. i \in 1 .. size /\ i - 1 \in 0 .. size
                BY <2>1
            <3>2. f[i - 1] \in W[i - 1]
                BY <1>11, <3>1 DEF Computes
            <3>3. f[i - 1] \in U
                BY <1>5, <3>1, <3>2
            <3>4. f[i] = step[<<i, f[i - 1]>>]
                BY <1>11, <3>1 DEF Computes
            <3> QED
                BY <1>9, <3>1, <3>3, <3>4
        <2>2. f = [i \in 0 .. size |-> f[i]] /\ f[0] = base
            BY <1>11 DEF Computes
        <2> QED
            BY <2>1, <2>2
    <1>13. PICK g : /\ g = [i \in 0 .. size |-> IF i = 0 THEN base
                                                ELSE WithTable(g[i - 1], TableOf(addr + i - 1))]
                    /\ WithTables(k, sp[p], addr, size) = g[size]
        BY <1>4, <1>12 DEF WithTables
    <1>14. \A i \in 0 .. size : g[i] \in W[i]
        <2>1. g[0] = base
            BY <1>13
        <2>2. ASSUME NEW i \in 1 .. size, g[i - 1] \in W[i - 1]
              PROVE  g[i] \in W[i]
            <3>1. i - 1 \in 0 .. size /\ i \in 0 .. size /\ i # 0
                OBVIOUS
            <3>2. g[i] = WithTable(g[i - 1], TableOf(addr + i - 1))
                BY <1>13, <3>1
            <3>3. g[i - 1] \in U /\ Tabling(k, sp, call, p, g[i - 1])
                BY <1>5, <2>2, <3>1
            <3> QED
                BY <1>5, <1>7, <3>1, <3>2, <3>3
        <2> QED
            BY <1>5, <1>6, <2>1, <2>2, StaysInStages
    <1> QED
        BY <1>5, <1>13, <1>14
-----------------------------------------------------------------------------
(* The references, with one mapping more.                                  *)
Appends(s, s2, m) == m \in Mapping /\ s2.mappings = Append(s.mappings, m)

LEMMA AppendedFacts ==
    ASSUME NEW s \in Space, NEW s2, NEW m, Appends(s, s2, m)
    PROVE  /\ s2.mappings \in Seq(Mapping) /\ Len(s.mappings) \in Nat
           /\ DOMAIN s.mappings = 1 .. Len(s.mappings)
           /\ DOMAIN s2.mappings = 1 .. Len(s.mappings) + 1
           /\ s2.mappings[Len(s.mappings) + 1] = m
           /\ \A i \in DOMAIN s.mappings : s2.mappings[i] = s.mappings[i]
           /\ \A i \in DOMAIN s2.mappings : i \in DOMAIN s.mappings \/ i = Len(s.mappings) + 1
    <1>1. s.mappings \in Seq(Mapping) /\ m \in Mapping /\ s2.mappings = Append(s.mappings, m)
        BY MappingFacts DEF Appends
    <1>2. PICK q, t : q = s.mappings /\ t = s2.mappings
        OBVIOUS
    <1>3. /\ t \in Seq(Mapping) /\ Len(q) \in Nat /\ Len(t) = Len(q) + 1 /\ t[Len(q) + 1] = m
          /\ \A i \in 1 .. Len(q) : t[i] = q[i]
        BY <1>1, <1>2
    <1>4. DOMAIN q = 1 .. Len(q) /\ DOMAIN t = 1 .. Len(q) + 1
        BY <1>1, <1>2, <1>3
    <1>5. \A i \in DOMAIN t : i \in DOMAIN q \/ i = Len(q) + 1
        BY <1>3, <1>4
    <1> QED
        BY <1>2, <1>3, <1>4, <1>5

LEMMA MappingAdded ==
    ASSUME NEW sp, NEW sp2, NEW call, NEW p \in Proc, Only(sp, sp2, p), NEW m,
           Appends(sp[p], sp2[p], m), NEW i
    PROVE  /\ <<p, Len(sp[p].mappings) + 1>> \notin References(sp, call, i)
           /\ i = m.object => References(sp2, call, i) = References(sp, call, i)
                                  \cup {<<p, Len(sp[p].mappings) + 1>>}
           /\ i # m.object => References(sp2, call, i) = References(sp, call, i)
    <1>1. PICK n : n = Len(sp[p].mappings) + 1
        OBVIOUS
    <1>2. /\ n \in Nat /\ n # 0 /\ n \notin DOMAIN sp[p].mappings /\ n \in DOMAIN sp2[p].mappings
          /\ sp2[p].mappings[n] = m
          /\ \A j \in DOMAIN sp[p].mappings : /\ j \in DOMAIN sp2[p].mappings
                                              /\ sp2[p].mappings[j] = sp[p].mappings[j]
          /\ \A j \in DOMAIN sp2[p].mappings : j \in DOMAIN sp[p].mappings \/ j = n
        BY <1>1, AppendedFacts DEF Only
    <1>3. p \in Caller
        BY Callers
    <1>4. <<p, n>> \in Caller \X Nat /\ <<p, n>> \notin References(sp, call, i)
        BY <1>2, <1>3 DEF References
    <1>5. ASSUME NEW r \in Caller \X Nat
          PROVE  r \in References(sp2, call, i)
                     <=> r \in References(sp, call, i) \/ (r = <<p, n>> /\ i = m.object)
        <2>1. PICK c \in Caller, j \in Nat : r = <<c, j>>
            OBVIOUS
        <2>2. r[1] = c /\ r[2] = j
            BY <2>1
        <2>3. /\ r \in References(sp2, call, i) <=>
                     IF j = 0 THEN call[c] = i
                     ELSE /\ c \in Proc /\ j \in DOMAIN sp2[c].mappings
                          /\ sp2[c].mappings[j].object = i
              /\ r \in References(sp, call, i) <=>
                     IF j = 0 THEN call[c] = i
                     ELSE /\ c \in Proc /\ j \in DOMAIN sp[c].mappings
                          /\ sp[c].mappings[j].object = i
            BY <2>1, <2>2 DEF References
        <2>4. r = <<p, n>> <=> c = p /\ j = n
            BY <2>1
        <2>5. CASE c = p
            BY <1>2, <2>3, <2>4, <2>5
        <2>6. CASE c # p
            BY <2>3, <2>4, <2>6 DEF Only
        <2> QED
            BY <2>5, <2>6
    <1>6. /\ References(sp, call, i) \subseteq Caller \X Nat
          /\ References(sp2, call, i) \subseteq Caller \X Nat
        BY DEF References
    <1> QED
        BY <1>1, <1>4, <1>5, <1>6

(* The reference of a call becomes that of a mapping.                      *)
LEMMA CountedMoved ==
    ASSUME NEW k, NEW sp, NEW sp2, NEW call, NEW call2, NEW c \in Caller, NEW p \in Proc,
           Counted(k, sp, call), SameBut(call, call2, c), call[c] \in Id, call2[c] \notin Id,
           Only(sp, sp2, p), NEW m, Appends(sp[p], sp2[p], m), m.object = call[c]
    PROVE  Counted(k, sp2, call2)
    <1>1. ASSUME NEW i \in Id
          PROVE  /\ IsFiniteSet(References(sp2, call2, i))
                 /\ k.refs[i] = Cardinality(References(sp2, call2, i))
        <2>1. /\ IsFiniteSet(References(sp, call, i))
              /\ k.refs[i] = Cardinality(References(sp, call, i))
            BY DEF Counted
        <2>2. /\ <<c, 0>> \in References(sp, call, call[c])
              /\ i = call[c] => References(sp, call2, i) = References(sp, call, i) \ {<<c, 0>>}
              /\ i # call[c] => References(sp, call2, i) = References(sp, call, i)
            BY CallDropped
        <2>3. PICK r : r = <<p, Len(sp[p].mappings) + 1>>
            OBVIOUS
        <2>4. /\ r \notin References(sp, call2, i)
              /\ i = m.object => References(sp2, call2, i) = References(sp, call2, i) \cup {r}
              /\ i # m.object => References(sp2, call2, i) = References(sp, call2, i)
            BY <2>3, MappingAdded
        <2>5. CASE i = call[c]
            <3>1. PICK R, R1 : R = References(sp, call, i) /\ R1 = References(sp, call2, i)
                OBVIOUS
            <3>2. /\ IsFiniteSet(R) /\ R1 = R \ {<<c, 0>>} /\ <<c, 0>> \in R
                  /\ References(sp2, call2, i) = R1 \cup {r} /\ r \notin R1
                BY <2>1, <2>2, <2>4, <2>5, <3>1
            <3>3. IsFiniteSet(R1) /\ Cardinality(R1) = Cardinality(R) - 1
                BY <3>2, FS_RemoveElement
            <3>4. IsFiniteSet(R1 \cup {r}) /\ Cardinality(R1 \cup {r}) = Cardinality(R1) + 1
                BY <3>2, <3>3, FS_AddElement
            <3>5. Cardinality(R) \in Nat
                BY <3>2, FS_CardinalityType
            <3> QED
                BY <2>1, <3>1, <3>2, <3>3, <3>4, <3>5
        <2>6. CASE i # call[c]
            BY <2>1, <2>2, <2>4, <2>6
        <2> QED
            BY <2>5, <2>6
    <1> QED
        BY <1>1 DEF Counted
-----------------------------------------------------------------------------
(* An object is mapped where there is room for it.                         *)
MapsMore(k, s, s2, m) ==
    /\ Appends(s, s2, m) /\ s2.table = s.table /\ s2.own = s.own
    /\ m.size = k.range[m.object].size /\ Fits(s, m.addr, m.off, m.size)
    /\ s2.straight = (s.straight /\ m.off = 0)
    /\ \A a \in Addr : s2.frame[a] = IF Covers(m, a) THEN k.range[m.object].base + (a - m.addr)
                                     ELSE s.frame[a]

LEMMA MoreShown ==
    ASSUME NEW k, NEW s \in Space, NEW s2, NEW m, Shown(k, s), MapsMore(k, s, s2, m)
    PROVE  Shown(k, s2)
    <1>1. PICK n, q, t : n = Len(s.mappings) + 1 /\ q = s.mappings /\ t = s2.mappings
        OBVIOUS
    <1>2. /\ n \notin DOMAIN q /\ t[n] = m /\ \A i \in DOMAIN q : t[i] = q[i]
          /\ \A i \in DOMAIN t : i \in DOMAIN q \/ i = n
          /\ n \in DOMAIN t
        BY <1>1, AppendedFacts DEF MapsMore
    <1>3. /\ \A i \in DOMAIN q : /\ q[i].size = k.range[q[i].object].size
                                 /\ q[i].addr + q[i].size <= MaxAddr
          /\ \A v \in Addr : s.frame[v] # None =>
                 \E i \in DOMAIN q : Covers(q[i], v) /\ Leads(k, s, q[i], v)
        BY <1>1 DEF Shown
    <1>4. /\ m.size = k.range[m.object].size /\ m.addr + m.size <= MaxAddr
          /\ \A v \in Addr : IF Covers(m, v) THEN Leads(k, s2, m, v)
                                              ELSE s2.frame[v] = s.frame[v]
        BY DEF MapsMore, Fits, Leads
    <1>5. \A i \in DOMAIN t : /\ t[i].size = k.range[t[i].object].size
                              /\ t[i].addr + t[i].size <= MaxAddr
        BY <1>2, <1>3, <1>4
    <1>6. ASSUME NEW v \in Addr, s2.frame[v] # None
          PROVE  \E i \in DOMAIN t : Covers(t[i], v) /\ Leads(k, s2, t[i], v)
        <2>1. CASE Covers(m, v)
            BY <1>2, <1>4, <2>1
        <2>2. CASE ~Covers(m, v)
            <3>1. PICK i \in DOMAIN q : Covers(q[i], v) /\ Leads(k, s, q[i], v)
                BY <1>3, <1>4, <1>6, <2>2
            <3>2. i \in DOMAIN t /\ t[i] = q[i]
                BY <1>1, <1>2, AppendedFacts DEF MapsMore
            <3>3. Leads(k, s2, t[i], v)
                BY <1>4, <2>2, <3>1, <3>2 DEF Leads
            <3> QED
                BY <3>1, <3>2, <3>3
        <2> QED
            BY <2>1, <2>2
    <1>7. ASSUME s2.straight
          PROVE  /\ \A i \in DOMAIN t : t[i].off = 0
                 /\ \A i, j \in DOMAIN t, v \in Addr : Covers(t[i], v) /\ Covers(t[j], v) => i = j
                 /\ \A v \in Addr, i \in DOMAIN t : Covers(t[i], v) => Leads(k, s2, t[i], v)
        <2>1. /\ s.straight /\ m.off = 0
              /\ \A i \in DOMAIN q, v \in Addr : Covers(m, v) => ~Covers(q[i], v)
            BY <1>1, <1>7 DEF MapsMore, Fits, Covers
        <2>2. /\ \A i \in DOMAIN q : q[i].off = 0
              /\ \A i, j \in DOMAIN q, v \in Addr : Covers(q[i], v) /\ Covers(q[j], v) => i = j
              /\ \A v \in Addr, i \in DOMAIN q : Covers(q[i], v) => Leads(k, s, q[i], v)
            BY <1>1, <2>1 DEF Shown
        <2>3. \A i \in DOMAIN t : t[i].off = 0
            BY <1>2, <2>1, <2>2
        <2>4. ASSUME NEW i \in DOMAIN t, NEW j \in DOMAIN t, NEW v \in Addr,
                     Covers(t[i], v), Covers(t[j], v)
              PROVE  i = j
            <3>1. CASE i = n /\ j # n
                BY <1>2, <2>1, <2>4, <3>1
            <3>2. CASE i # n /\ j = n
                BY <1>2, <2>1, <2>4, <3>2
            <3>3. CASE i # n /\ j # n
                BY <1>2, <2>2, <2>4, <3>3
            <3> QED
                BY <3>1, <3>2, <3>3
        <2>5. ASSUME NEW v \in Addr, NEW i \in DOMAIN t, Covers(t[i], v)
              PROVE  Leads(k, s2, t[i], v)
            <3>1. CASE i = n
                BY <1>2, <1>4, <2>5, <3>1
            <3>2. CASE i # n
                <4>1. i \in DOMAIN q /\ Covers(q[i], v) /\ t[i] = q[i]
                    BY <1>2, <2>5, <3>2
                <4>2. ~Covers(m, v) /\ Leads(k, s, q[i], v)
                    BY <2>1, <2>2, <4>1
                <4> QED
                    BY <1>4, <4>1, <4>2 DEF Leads
            <3> QED
                BY <3>1, <3>2
        <2> QED
            BY <2>3, <2>4, <2>5
    <1> QED
        BY <1>1, <1>5, <1>6, <1>7 DEF Shown

LEMMA AppendFine ==
    ASSUME NEW k, NEW sp, NEW sp2, NEW call, NEW call2, NEW c \in Caller, NEW p \in Proc,
           Fine(k, sp, call), SameBut(call, call2, c), call[c] \in Id, call2[c] \notin Id,
           Only(sp, sp2, p), NEW m, m.object = call[c], MapsMore(k, sp[p], sp2[p], m)
    PROVE  Fine(k, sp2, call2)
    <1>1. Counted(k, sp2, call2)
        BY FineFacts, CountedMoved DEF MapsMore
    <1>2. Partition(k.used, Has(k, sp2))
        <2>1. \A q \in Proc : SpaceHas(sp2[q]) = SpaceHas(sp[q])
            BY DEF Only, MapsMore, SpaceHas, TablePages
        <2>2. \A h \in Holder : Has(k, sp2)[h] = Has(k, sp)[h]
            BY <2>1, HasSame
        <2> QED
            BY <2>2, FineFacts, SamePages
    <1>3. ASSUME NEW q \in Proc
          PROVE  Shown(k, sp2[q])
        <2>1. CASE q = p
            BY <2>1, FineFacts, MoreShown DEF Only
        <2>2. CASE q # p
            BY <2>2, FineFacts DEF Only
        <2> QED
            BY <2>1, <2>2
    <1> QED
        BY <1>1, <1>2, <1>3, FineFacts DEF Fine, Sound, SameBut, Only
-----------------------------------------------------------------------------
(* What task_memory_mapping_create_at leaves.                              *)
Maps(k, sp, call, p, id, addr, off, v) ==
    /\ v.space \in Space /\ Fine(v.memory, Put(sp, p, v.space), call)
    /\ v.memory.range = k.range /\ v.memory.next = k.next
    /\ v.memory.state \in {k.state, "panic"}
    /\ v.space.own = sp[p].own
    /\ v.space.mappings = Append(sp[p].mappings, [object |-> id, addr |-> addr, off |-> off,
                                                  size |-> k.range[id].size])

Remapped(s, t, m, base) ==
    [s EXCEPT !.table = t,
              !.frame = [a \in Addr |-> IF a \in Pages(m.addr, m.size)
                                        THEN base + (a - m.addr) ELSE @[a]],
              !.mappings = Append(@, m),
              !.straight = @ /\ m.off = 0]

LEMMA MapSpace ==
    ASSUME NEW s \in Space, NEW t \in [Table -> Page \cup {None}], NEW m \in Mapping, NEW base \in Nat,
           base + m.size <= Total
    PROVE  LET s2 == Remapped(s, t, m, base) IN
           /\ s2 \in Space /\ s2.table = t /\ s2.own = s.own /\ Appends(s, s2, m)
           /\ s2.straight = (s.straight /\ m.off = 0)
           /\ \A a \in Addr : s2.frame[a] = IF Covers(m, a) THEN base + (a - m.addr) ELSE s.frame[a]
    <1>1. /\ s.frame \in [Addr -> Page \cup {None}] /\ s.mappings \in Seq(Mapping)
          /\ s.own \in Page \cup {None} /\ s.straight \in BOOLEAN
          /\ s = [frame |-> s.frame, table |-> s.table, mappings |-> s.mappings, own |-> s.own,
                  straight |-> s.straight]
        BY DEF Space
    <1>2. PICK f, q : /\ f = [a \in Addr |-> IF a \in Pages(m.addr, m.size)
                                             THEN base + (a - m.addr) ELSE s.frame[a]]
                      /\ q = Append(s.mappings, m)
        OBVIOUS
    <1>3. f \in [Addr -> Page \cup {None}]
        <2>1. m.addr \in Nat /\ m.size \in Nat
            BY Constants DEF Mapping
        <2>2. ASSUME NEW a \in Addr, a \in Pages(m.addr, m.size)
              PROVE  base + (a - m.addr) \in Page
            <3>1. a \in Nat /\ m.addr <= a /\ a < m.addr + m.size
                BY <2>1, <2>2, InPages
            <3>2. base + (a - m.addr) \in Nat /\ base + (a - m.addr) < Total
                BY <2>1, <3>1, Constants
            <3> QED
                BY <3>2, Constants
        <2> QED
            BY <1>1, <1>2, <2>2
    <1>4. q \in Seq(Mapping)
        BY <1>1, <1>2
    <1>5. PICK s2 : s2 = Remapped(s, t, m, base)
        OBVIOUS
    <1>6. s2 = [frame |-> f, table |-> t, mappings |-> q, own |-> s.own,
                straight |-> s.straight /\ m.off = 0]
        BY <1>1, <1>2, <1>5 DEF Remapped
    <1>7. s2 \in Space
        BY <1>1, <1>3, <1>4, <1>6 DEF Space
    <1>8. /\ s2.table = t /\ s2.own = s.own /\ s2.frame = f /\ s2.mappings = q
          /\ s2.straight = (s.straight /\ m.off = 0)
        BY <1>6
    <1>9. \A a \in Addr : f[a] = IF Covers(m, a) THEN base + (a - m.addr) ELSE s.frame[a]
        BY <1>2 DEF Covers
    <1>10. Appends(s, s2, m)
        BY <1>2, <1>8 DEF Appends
    <1> QED
        BY <1>7, <1>8, <1>9, <1>10, <1>5

LEMMA MapAtFine ==
    ASSUME NEW k, NEW sp, NEW call, NEW p \in Proc, Fine(k, sp, call), call[Extra] \notin Id,
           NEW id \in Id, k.refs[id] > 0, NEW addr, NEW off,
           Fits(sp[p], addr, off, k.range[id].size)
    PROVE  Maps(k, sp, call, p, id, addr, off, MapAt(k, sp[p], id, addr, off))
    <1>1. PICK size, base : size = k.range[id].size /\ base = k.range[id].base
        OBVIOUS
    <1>2. /\ addr \in Addr /\ addr \in Nat /\ size \in Nat /\ addr + size <= MaxAddr
          /\ off \in Offset
          /\ base \in Page /\ base \in Nat /\ base + size <= Total
          /\ sp \in [Proc -> Space] /\ call \in [Caller -> Nat] /\ sp[p] \in Space
        <2>1. k.range[id] \in MemoryRange
            BY FineFacts
        <2>2. size \in Nat
            BY <1>1, <2>1 DEF MemoryRange
        <2>3. base \in Page /\ base + size <= Total
            BY <1>1, FineFacts DEF Objective
        <2> QED
            BY <1>1, <2>2, <2>3, FineFacts, Constants DEF Fits
    <1>3. PICK call1, k1 : call1 = Put(call, Extra, id) /\ k1 = Ref(k, id)
        OBVIOUS
    <1>4. /\ SameBut(call, call1, Extra) /\ SameBut(call1, call, Extra) /\ call1[Extra] = id
        BY <1>2, <1>3, Callers, CallPut, Constants
    <1>5. Fine(k1, sp, call1)
        BY <1>3, <1>4, Callers, RefFine
    <1>6. k1.range = k.range /\ k1.next = k.next /\ k1.state = k.state
        BY <1>3, FineFacts, RefTyped
    <1>7. PICK w : w = WithTables(k1, sp[p], addr, size)
        OBVIOUS
    <1>8. Tabling(k1, sp, call1, p, w)
        BY <1>2, <1>5, <1>7, WithTablesFine
    <1>9. PICK s1 : s1 = [sp[p] EXCEPT !.table = w.table]
        OBVIOUS
    <1>10. PICK sp1 : sp1 = Put(sp, p, s1)
        OBVIOUS
    <1>11. /\ w.table \in [Table -> Page \cup {None}] /\ Fine(w.memory, sp1, call1)
           /\ SameObjects(k1, w.memory) /\ w.memory.state = k.state
        BY <1>6, <1>8, <1>10, <1>9 DEF Tabling
    <1>12. PICK k3 : k3 = IF \A a \in Pages(addr, size) : w.table[TableOf(a)] # None
                          THEN w.memory ELSE Panic(w.memory)
        OBVIOUS
    <1>13. /\ Fine(k3, sp1, call1) /\ SameObjects(k1, k3) /\ k3.state \in {k.state, "panic"}
        <2>1. /\ Fine(Panic(w.memory), sp1, call1) /\ SameObjects(w.memory, Panic(w.memory))
              /\ Panic(w.memory).state = "panic"
            BY <1>11, PanicFine
        <2>2. SameObjects(k1, Panic(w.memory))
            BY <1>11, <2>1 DEF SameObjects
        <2> QED
            BY <1>11, <1>12, <2>1, <2>2
    <1>14. PICK m : m = [object |-> id, addr |-> addr, off |-> off, size |-> size]
        OBVIOUS
    <1>15. m \in Mapping /\ m.object = id /\ m.addr = addr /\ m.off = off /\ m.size = size
        BY <1>2, <1>14 DEF Mapping
    <1>16. PICK v : v = MapAt(k, sp[p], id, addr, off)
        OBVIOUS
    <1>17. /\ v.memory = k3
           /\ v.space = Remapped(sp[p], w.table, m, base)
        BY <1>1, <1>3, <1>7, <1>12, <1>14, <1>15, <1>16 DEF MapAt, Remapped
    <1>18. PICK s2, sp2 : s2 = v.space /\ sp2 = Put(sp, p, s2)
        OBVIOUS
    <1>19. /\ s2 \in Space /\ s2.table = w.table /\ s2.own = sp[p].own /\ Appends(sp[p], s2, m)
           /\ s2.straight = (sp[p].straight /\ m.off = 0)
           /\ \A a \in Addr : s2.frame[a] = IF Covers(m, a) THEN base + (a - m.addr)
                                            ELSE sp[p].frame[a]
        BY <1>2, <1>11, <1>15, <1>17, <1>18, MapSpace
    <1>20. /\ s1 \in Space /\ s1.table = w.table /\ s1.frame = sp[p].frame
           /\ s1.mappings = sp[p].mappings /\ s1.own = sp[p].own
           /\ s1.straight = sp[p].straight
        BY <1>2, <1>11, <1>9, SpaceWithTable
    <1>21. sp1[p] = s1 /\ sp2[p] = s2 /\ Only(sp1, sp2, p)
        BY <1>2, <1>10, <1>18, <1>19, <1>20, SpacePut DEF Only
    <1>22. MapsMore(k3, sp1[p], sp2[p], m)
        <2>1. Appends(s1, s2, m) /\ s2.table = s1.table /\ s2.own = s1.own
            BY <1>19, <1>20 DEF Appends
        <2>2. k3.range = k.range
            BY <1>6, <1>13 DEF SameObjects
        <2>3. Fits(s1, addr, off, size)
            BY <1>1, <1>20 DEF Fits
        <2> QED
            BY <1>1, <1>15, <1>19, <1>20, <1>21, <2>1, <2>2, <2>3 DEF MapsMore
    <1>23. Fine(k3, sp2, call)
        BY <1>4, <1>13, <1>15, <1>21, <1>22, Callers, AppendFine
    <1>24. k3.range = k.range /\ k3.next = k.next
        BY <1>6, <1>13 DEF SameObjects
    <1>25. s2.mappings = Append(sp[p].mappings, [object |-> id, addr |-> addr, off |-> off,
                                                 size |-> k.range[id].size])
        BY <1>1, <1>14, <1>19 DEF Appends
    <1> QED
        BY <1>13, <1>16, <1>17, <1>18, <1>19, <1>23, <1>24, <1>25 DEF Maps
-----------------------------------------------------------------------------
(* What task_memory_mapping_destroy leaves: the mappings after it move up. *)
Moved(i, j) == IF j < i THEN j ELSE j + 1
Unmaps(s, s2, i) ==
    /\ s2 \in Space /\ s2.table = s.table /\ s2.own = s.own /\ s2.straight = s.straight
    /\ DOMAIN s2.mappings = 1 .. Len(s.mappings) - 1
    /\ Len(s2.mappings) = Len(s.mappings) - 1
    /\ \A j \in 1 .. Len(s.mappings) - 1 : s2.mappings[j] = s.mappings[Moved(i, j)]
    /\ \A a \in Addr : s2.frame[a] = IF Covers(s.mappings[i], a) THEN None ELSE s.frame[a]

LEMMA UnmapSpace ==
    ASSUME NEW s \in Space, NEW i \in DOMAIN s.mappings
    PROVE  /\ Unmaps(s, Unmap(s, i), i)
           /\ Unmap(s, i).mappings
                  = SubSeq(s.mappings, 1, i - 1) \o SubSeq(s.mappings, i + 1, Len(s.mappings))
    <1>1. /\ s.frame \in [Addr -> Page \cup {None}] /\ s.mappings \in Seq(Mapping)
          /\ s.table \in [Table -> Page \cup {None}] /\ s.own \in Page \cup {None}
          /\ s.straight \in BOOLEAN
          /\ s = [frame |-> s.frame, table |-> s.table, mappings |-> s.mappings, own |-> s.own,
                  straight |-> s.straight]
        BY DEF Space
    <1>2. PICK ms, n : ms = s.mappings /\ n = Len(ms)
        OBVIOUS
    <1>3. /\ ms \in Seq(Mapping) /\ n \in Nat /\ i \in 1 .. n
          /\ \A j \in 1 .. n : ms[j] \in Mapping
        BY <1>1, <1>2
    <1>4. \A j \in Int : 1 <= j /\ j <= n => j \in 1 .. n
        BY <1>3
    <1>5. PICK q : q = SubSeq(ms, 1, i - 1) \o SubSeq(ms, i + 1, n)
        OBVIOUS
    <1>6. PICK q1, q2 : q1 = SubSeq(ms, 1, i - 1) /\ q2 = SubSeq(ms, i + 1, n)
        OBVIOUS
    <1>7. /\ q1 \in Seq(Mapping) /\ Len(q1) = i - 1 /\ \A j \in 1 .. i - 1 : q1[j] = ms[j]
        <2>1. \A j \in 1 .. i - 1 : ms[j] \in Mapping
            BY <1>3, <1>4
        <2>2. /\ q1 \in Seq(Mapping) /\ Len(q1) = IF 1 <= i - 1 THEN i - 1 - 1 + 1 ELSE 0
              /\ \A j \in 1 .. i - 1 - 1 + 1 : q1[j] = ms[1 + j - 1]
            BY <1>3, <1>6, <2>1, SubSeqProperties
        <2>3. \A j \in 1 .. i - 1 : j \in 1 .. i - 1 - 1 + 1 /\ 1 + j - 1 = j
            BY <1>3
        <2> QED
            BY <1>3, <2>2, <2>3
    <1>8. /\ q2 \in Seq(Mapping) /\ Len(q2) = n - i
          /\ \A j \in 1 .. n - i : q2[j] = ms[i + j]
        <2>1. \A j \in i + 1 .. n : ms[j] \in Mapping
            BY <1>3, <1>4
        <2>2. /\ q2 \in Seq(Mapping) /\ Len(q2) = IF i + 1 <= n THEN n - (i + 1) + 1 ELSE 0
              /\ \A j \in 1 .. n - (i + 1) + 1 : q2[j] = ms[i + 1 + j - 1]
            BY <1>3, <1>6, <2>1, SubSeqProperties
        <2>3. \A j \in 1 .. n - i : j \in 1 .. n - (i + 1) + 1 /\ i + 1 + j - 1 = i + j
            BY <1>3
        <2> QED
            BY <1>3, <2>2, <2>3
    <1>9. /\ q \in Seq(Mapping) /\ Len(q) = n - 1
          /\ \A j \in 1 .. n - 1 : q[j] = IF j <= i - 1 THEN q1[j] ELSE q2[j - (i - 1)]
        <2>1. q = q1 \o q2
            BY <1>5, <1>6
        <2>2. /\ q \in Seq(Mapping) /\ Len(q) = Len(q1) + Len(q2)
              /\ \A j \in 1 .. Len(q1) + Len(q2) :
                     q[j] = IF j <= Len(q1) THEN q1[j] ELSE q2[j - Len(q1)]
            BY <1>7, <1>8, <2>1, ConcatProperties
        <2> QED
            BY <1>3, <1>7, <1>8, <2>2
    <1>10. ASSUME NEW j \in 1 .. n - 1
          PROVE  q[j] = ms[Moved(i, j)]
        <2>1. CASE j < i
            <3>1. j \in 1 .. i - 1 /\ j <= i - 1 /\ Moved(i, j) = j
                BY <1>3, <2>1 DEF Moved
            <3> QED
                BY <1>7, <1>9, <3>1
        <2>2. CASE ~(j < i)
            <3>1. /\ j - (i - 1) \in 1 .. n - i /\ ~(j <= i - 1) /\ Moved(i, j) = j + 1
                  /\ i + (j - (i - 1)) = j + 1
                BY <1>3, <2>2 DEF Moved
            <3>2. q2[j - (i - 1)] = ms[i + (j - (i - 1))]
                BY <1>8, <3>1
            <3> QED
                BY <1>9, <3>1, <3>2
        <2> QED
            BY <2>1, <2>2
    <1>11. PICK m, f : /\ m = ms[i]
                       /\ f = [a \in Addr |-> IF a \in Pages(m.addr, m.size) THEN None ELSE s.frame[a]]
        OBVIOUS
    <1>12. f \in [Addr -> Page \cup {None}]
        BY <1>1, <1>11
    <1>13. PICK s2 : s2 = Unmap(s, i)
        OBVIOUS
    <1>14. s2 = [frame |-> f, table |-> s.table, mappings |-> q, own |-> s.own,
                 straight |-> s.straight]
        BY <1>1, <1>2, <1>5, <1>11, <1>13 DEF Unmap
    <1>15. s2 \in Space
        BY <1>1, <1>9, <1>12, <1>14 DEF Space
    <1>16. /\ s2.table = s.table /\ s2.own = s.own /\ s2.mappings = q /\ s2.frame = f
           /\ s2.straight = s.straight
        BY <1>14
    <1>17. DOMAIN q = 1 .. n - 1
        BY <1>9
    <1>18. \A a \in Addr : f[a] = IF Covers(m, a) THEN None ELSE s.frame[a]
        BY <1>11 DEF Covers
    <1>19. Unmaps(s, s2, i)
        BY <1>2, <1>9, <1>10, <1>11, <1>15, <1>16, <1>17, <1>18 DEF Unmaps
    <1> QED
        BY <1>2, <1>5, <1>13, <1>16, <1>19

LEMMA Bijected ==
    ASSUME NEW S, NEW T, IsFiniteSet(S), NEW g \in [S -> T], NEW h \in [T -> S],
           \A x \in S : h[g[x]] = x, \A y \in T : g[h[y]] = y
    PROVE  IsFiniteSet(T) /\ Cardinality(T) = Cardinality(S)
    <1>1. g \in Bijection(S, T)
        BY DEF Bijection, Injection, Surjection, IsInjective
    <1>2. ExistsBijection(S, T)
        BY <1>1 DEF ExistsBijection
    <1> QED
        BY <1>2, FS_Bijection

(* The reference of a mapping becomes that of a call.                      *)
LEMMA CountedUnmapped ==
    ASSUME NEW k, NEW sp, NEW sp2, NEW call, NEW call2, NEW c \in Caller, NEW p \in Proc,
           Counted(k, sp, call), SameBut(call, call2, c), call[c] \notin Id,
           Only(sp, sp2, p), NEW i \in DOMAIN sp[p].mappings, Unmaps(sp[p], sp2[p], i),
           call2[c] = sp[p].mappings[i].object
    PROVE  Counted(k, sp2, call2)
    <1>1. PICK ms, n, q : ms = sp[p].mappings /\ n = Len(ms) /\ q = sp2[p].mappings
        OBVIOUS
    <1>2. /\ n \in Nat /\ i \in 1 .. n /\ DOMAIN ms = 1 .. n /\ DOMAIN q = 1 .. n - 1
          /\ \A j \in 1 .. n - 1 : q[j] = ms[Moved(i, j)]
        BY <1>1, MappingFacts DEF Only, Unmaps
    <1>3. p \in Caller /\ c \in Caller
        BY Callers
    <1>4. ASSUME NEW id \in Id
          PROVE  /\ IsFiniteSet(References(sp2, call2, id))
                 /\ Cardinality(References(sp2, call2, id)) = Cardinality(References(sp, call, id))
        <2>1. PICK R, R2 : R = References(sp, call, id) /\ R2 = References(sp2, call2, id)
            OBVIOUS
        <2>2. R \subseteq Caller \X Nat /\ R2 \subseteq Caller \X Nat
            BY <2>1 DEF References
        <2>3. ASSUME NEW d \in Caller, NEW j \in Nat
              PROVE  /\ <<d, j>> \in R <=> IF j = 0 THEN call[d] = id
                                           ELSE /\ d \in Proc /\ j \in DOMAIN sp[d].mappings
                                                /\ sp[d].mappings[j].object = id
                     /\ <<d, j>> \in R2 <=> IF j = 0 THEN call2[d] = id
                                            ELSE /\ d \in Proc /\ j \in DOMAIN sp2[d].mappings
                                                 /\ sp2[d].mappings[j].object = id
            BY <2>1 DEF References
        <2>4. ASSUME NEW j \in Nat
              PROVE  /\ <<p, j>> \in R <=> IF j = 0 THEN call[p] = id
                                           ELSE j \in 1 .. n /\ ms[j].object = id
                     /\ <<p, j>> \in R2 <=> IF j = 0 THEN call2[p] = id
                                            ELSE j \in 1 .. n - 1 /\ q[j].object = id
            BY <1>1, <1>2, <1>3, <2>3
        <2>5. ASSUME NEW d \in Caller, d # p, NEW j \in Nat, j # 0
              PROVE  <<d, j>> \in R <=> <<d, j>> \in R2
            BY <2>3, <2>5 DEF Only
        <2>6. ASSUME NEW d \in Caller, d # c
              PROVE  <<d, 0>> \in R <=> <<d, 0>> \in R2
            BY <2>3, <2>6 DEF SameBut
        <2>7. <<c, 0>> \notin R /\ (<<c, 0>> \in R2 <=> ms[i].object = id)
            BY <1>1, <2>3
        <2>8. PICK g, h :
                 /\ g = [r \in R |-> IF r[1] = p /\ r[2] = i THEN <<c, 0>>
                                     ELSE IF r[1] = p /\ r[2] > i THEN <<p, r[2] - 1>> ELSE r]
                 /\ h = [r \in R2 |-> IF r[1] = c /\ r[2] = 0 THEN <<p, i>>
                                      ELSE IF r[1] = p /\ r[2] >= i THEN <<p, r[2] + 1>> ELSE r]
            OBVIOUS
        <2>9. ASSUME NEW r \in R
              PROVE  g[r] \in R2 /\ h[g[r]] = r
            <3>1. PICK d \in Caller, j \in Nat : r = <<d, j>>
                BY <2>2
            <3>2. r[1] = d /\ r[2] = j
                BY <3>1
            <3>3. g[r] = IF d = p /\ j = i THEN <<c, 0>>
                         ELSE IF d = p /\ j > i THEN <<p, j - 1>> ELSE r
                BY <2>8, <3>2
            <3>4. CASE d = p /\ j = i
                <4>1. <<c, 0>> \in R2
                    BY <1>2, <2>4, <2>7, <3>1, <3>4
                <4>2. h[<<c, 0>>] = <<p, i>>
                    BY <2>8, <4>1
                <4> QED
                    BY <3>1, <3>3, <3>4, <4>1, <4>2
            <3>5. CASE d = p /\ j > i
                <4>1. /\ j - 1 \in Nat /\ j - 1 # 0 /\ j - 1 \in 1 .. n - 1 /\ ms[j].object = id
                      /\ Moved(i, j - 1) = j /\ j - 1 >= i
                    BY <1>2, <2>4, <3>1, <3>5 DEF Moved
                <4>2. <<p, j - 1>> \in R2
                    BY <1>2, <2>4, <4>1
                <4>3. PICK x : x = <<p, j - 1>>
                    OBVIOUS
                <4>4. x \in R2 /\ x[1] = p /\ x[2] = j - 1
                    BY <4>2, <4>3
                <4>5. h[x] = <<p, x[2] + 1>>
                    BY <2>8, <4>1, <4>4
                <4>6. x[2] + 1 = j
                    BY <4>4
                <4> QED
                    BY <1>2, <3>1, <3>3, <3>5, <4>2, <4>3, <4>5, <4>6
            <3>6. CASE ~(d = p /\ j >= i)
                <4>1. g[r] = r
                    BY <1>2, <3>3, <3>6
                <4>2. ~(d = c /\ j = 0)
                    BY <2>7, <3>1
                <4>3. r \in R2
                    <5>1. CASE j = 0
                        BY <2>6, <3>1, <4>2, <5>1
                    <5>2. CASE j # 0 /\ d # p
                        BY <2>5, <3>1, <5>2
                    <5>3. CASE j # 0 /\ d = p
                        <6>1. j \in 1 .. n - 1 /\ Moved(i, j) = j /\ ms[j].object = id
                            BY <1>2, <2>4, <3>1, <3>6, <5>3 DEF Moved
                        <6> QED
                            BY <1>2, <2>4, <3>1, <5>3, <6>1
                    <5> QED
                        BY <5>1, <5>2, <5>3
                <4>4. h[r] = r
                    BY <2>8, <3>2, <3>6, <4>2, <4>3
                <4> QED
                    BY <4>1, <4>3, <4>4
            <3> QED
                BY <1>2, <3>4, <3>5, <3>6
        <2>10. ASSUME NEW r \in R2
               PROVE  h[r] \in R /\ g[h[r]] = r
            <3>1. PICK d \in Caller, j \in Nat : r = <<d, j>>
                BY <2>2
            <3>2. r[1] = d /\ r[2] = j
                BY <3>1
            <3>3. h[r] = IF d = c /\ j = 0 THEN <<p, i>>
                         ELSE IF d = p /\ j >= i THEN <<p, j + 1>> ELSE r
                BY <2>8, <3>2
            <3>4. CASE d = c /\ j = 0
                <4>1. <<p, i>> \in R
                    BY <1>2, <2>4, <2>7, <3>1, <3>4
                <4>2. g[<<p, i>>] = <<c, 0>>
                    BY <2>8, <4>1
                <4> QED
                    BY <3>1, <3>3, <3>4, <4>1, <4>2
            <3>5. CASE d = p /\ j >= i
                <4>1. /\ j + 1 \in Nat /\ j # 0 /\ j \in 1 .. n - 1 /\ j + 1 \in 1 .. n
                      /\ q[j].object = id /\ Moved(i, j) = j + 1
                    BY <1>2, <2>4, <3>1, <3>5 DEF Moved
                <4>2. <<p, j + 1>> \in R
                    BY <1>2, <2>4, <4>1
                <4>3. PICK x : x = <<p, j + 1>>
                    OBVIOUS
                <4>4. x \in R /\ x[1] = p /\ x[2] = j + 1
                    BY <4>2, <4>3
                <4>5. g[x] = <<p, x[2] - 1>>
                    BY <1>2, <2>8, <3>5, <4>4
                <4>6. x[2] - 1 = j
                    BY <4>4
                <4> QED
                    BY <3>1, <3>3, <3>5, <4>1, <4>2, <4>3, <4>5, <4>6
            <3>6. CASE ~(d = c /\ j = 0) /\ ~(d = p /\ j >= i)
                <4>1. h[r] = r
                    BY <3>3, <3>6
                <4>2. r \in R
                    <5>1. CASE j = 0
                        BY <2>6, <3>1, <3>6, <5>1
                    <5>2. CASE j # 0 /\ d # p
                        BY <2>5, <3>1, <5>2
                    <5>3. CASE j # 0 /\ d = p
                        <6>1. j \in 1 .. n - 1 /\ Moved(i, j) = j /\ q[j].object = id /\ j \in 1 .. n
                            BY <1>2, <2>4, <3>1, <3>6, <5>3 DEF Moved
                        <6> QED
                            BY <1>2, <2>4, <3>1, <5>3, <6>1
                    <5> QED
                        BY <5>1, <5>2, <5>3
                <4>3. g[r] = r
                    BY <1>2, <2>8, <3>2, <3>6, <4>2
                <4> QED
                    BY <4>1, <4>2, <4>3
            <3> QED
                BY <3>4, <3>5, <3>6
        <2>11. g \in [R -> R2] /\ h \in [R2 -> R]
            BY <2>8, <2>9, <2>10
        <2>12. IsFiniteSet(R)
            BY <2>1 DEF Counted
        <2>13. IsFiniteSet(R2) /\ Cardinality(R2) = Cardinality(R)
            BY <2>9, <2>10, <2>11, <2>12, Bijected
        <2> QED
            BY <2>1, <2>13
    <1> QED
        BY <1>4 DEF Counted
-----------------------------------------------------------------------------
LEMMA UnmapShown ==
    ASSUME NEW k, NEW s \in Space, NEW s2, NEW i \in DOMAIN s.mappings, Shown(k, s), Unmaps(s, s2, i)
    PROVE  Shown(k, s2)
    <1>1. PICK n, q, t : n = Len(s.mappings) /\ q = s.mappings /\ t = s2.mappings
        OBVIOUS
    <1>2. /\ n \in Nat /\ i \in 1 .. n /\ DOMAIN q = 1 .. n /\ DOMAIN t = 1 .. n - 1
          /\ \A j \in 1 .. n - 1 : t[j] = q[Moved(i, j)]
          /\ \A a \in Addr : s2.frame[a] = IF Covers(q[i], a) THEN None ELSE s.frame[a]
        BY <1>1, MappingFacts DEF Unmaps
    <1>3. /\ \A j \in DOMAIN q : /\ q[j].size = k.range[q[j].object].size
                                 /\ q[j].addr + q[j].size <= MaxAddr
          /\ \A v \in Addr : s.frame[v] # None =>
                 \E j \in DOMAIN q : Covers(q[j], v) /\ Leads(k, s, q[j], v)
        BY <1>1 DEF Shown
    <1>4. ASSUME NEW j \in DOMAIN t
          PROVE  Moved(i, j) \in DOMAIN q /\ Moved(i, j) # i /\ t[j] = q[Moved(i, j)]
        BY <1>2 DEF Moved
    <1>5. \A j, h \in DOMAIN t : Moved(i, j) = Moved(i, h) => j = h
        BY <1>2 DEF Moved
    <1>6. ASSUME NEW h \in DOMAIN q, h # i
          PROVE  \E j \in DOMAIN t : Moved(i, j) = h
        <2>1. CASE h < i
            <3>1. h \in DOMAIN t /\ Moved(i, h) = h
                BY <1>2, <2>1 DEF Moved
            <3> QED
                BY <3>1
        <2>2. CASE ~(h < i)
            <3>1. h - 1 \in DOMAIN t /\ Moved(i, h - 1) = h
                BY <1>2, <1>6, <2>2 DEF Moved
            <3> QED
                BY <3>1
        <2> QED
            BY <2>1, <2>2
    <1>7. \A j \in DOMAIN t : /\ t[j].size = k.range[t[j].object].size
                              /\ t[j].addr + t[j].size <= MaxAddr
        BY <1>3, <1>4
    <1>8. ASSUME NEW v \in Addr, s2.frame[v] # None
          PROVE  \E j \in DOMAIN t : Covers(t[j], v) /\ Leads(k, s2, t[j], v)
        <2>1. s2.frame[v] = s.frame[v] /\ ~Covers(q[i], v)
            BY <1>2, <1>8
        <2>2. PICK h \in DOMAIN q : Covers(q[h], v) /\ Leads(k, s, q[h], v)
            BY <1>3, <1>8, <2>1
        <2>3. h # i
            BY <2>1, <2>2
        <2>4. PICK j \in DOMAIN t : Moved(i, j) = h
            BY <1>6, <2>3
        <2> QED
            BY <1>4, <2>1, <2>2, <2>4 DEF Leads
    <1>9. ASSUME s2.straight
          PROVE  /\ \A j \in DOMAIN t : t[j].off = 0
                 /\ \A j, h \in DOMAIN t, v \in Addr : Covers(t[j], v) /\ Covers(t[h], v) => j = h
                 /\ \A v \in Addr, j \in DOMAIN t : Covers(t[j], v) => Leads(k, s2, t[j], v)
        <2>1. s.straight
            BY <1>9 DEF Unmaps
        <2>2. /\ \A j \in DOMAIN q : q[j].off = 0
              /\ \A j, h \in DOMAIN q, v \in Addr : Covers(q[j], v) /\ Covers(q[h], v) => j = h
              /\ \A v \in Addr, j \in DOMAIN q : Covers(q[j], v) => Leads(k, s, q[j], v)
            BY <1>1, <2>1 DEF Shown
        <2>3. \A j \in DOMAIN t : t[j].off = 0
            BY <1>4, <2>2
        <2>4. ASSUME NEW j \in DOMAIN t, NEW h \in DOMAIN t, NEW v \in Addr,
                     Covers(t[j], v), Covers(t[h], v)
              PROVE  j = h
            <3>1. Moved(i, j) = Moved(i, h)
                BY <1>4, <2>2, <2>4
            <3> QED
                BY <1>5, <3>1
        <2>5. ASSUME NEW v \in Addr, NEW j \in DOMAIN t, Covers(t[j], v)
              PROVE  Leads(k, s2, t[j], v)
            <3>1. PICK h : h = Moved(i, j)
                OBVIOUS
            <3>2. h \in DOMAIN q /\ h # i /\ t[j] = q[h]
                BY <1>4, <3>1
            <3>3. ~Covers(q[i], v)
                BY <1>2, <2>2, <2>5, <3>2
            <3>4. Leads(k, s, q[h], v) /\ s2.frame[v] = s.frame[v]
                BY <1>2, <2>2, <2>5, <3>2, <3>3
            <3> QED
                BY <3>2, <3>4 DEF Leads
        <2> QED
            BY <2>3, <2>4, <2>5
    <1> QED
        BY <1>1, <1>7, <1>8, <1>9 DEF Shown

LEMMA UnmapFine ==
    ASSUME NEW k, NEW sp, NEW sp2, NEW call, NEW call2, NEW c \in Caller, NEW p \in Proc,
           Fine(k, sp, call), SameBut(call, call2, c), call[c] \notin Id,
           Only(sp, sp2, p), NEW i \in DOMAIN sp[p].mappings, Unmaps(sp[p], sp2[p], i),
           call2[c] = sp[p].mappings[i].object
    PROVE  Fine(k, sp2, call2)
    <1>1. Counted(k, sp2, call2)
        BY FineFacts, CountedUnmapped
    <1>2. Partition(k.used, Has(k, sp2))
        <2>1. \A q \in Proc : SpaceHas(sp2[q]) = SpaceHas(sp[q])
            BY DEF Only, Unmaps, SpaceHas, TablePages
        <2>2. \A h \in Holder : Has(k, sp2)[h] = Has(k, sp)[h]
            BY <2>1, HasSame
        <2> QED
            BY <2>2, FineFacts, SamePages
    <1>3. ASSUME NEW q \in Proc
          PROVE  Shown(k, sp2[q])
        <2>1. CASE q = p
            <3>1. sp[p] \in Space /\ Shown(k, sp[p])
                BY FineFacts
            <3> QED
                BY <2>1, <3>1, UnmapShown
        <2>2. CASE q # p
            BY <2>2, FineFacts DEF Only
        <2> QED
            BY <2>1, <2>2
    <1> QED
        BY <1>1, <1>2, <1>3, FineFacts DEF Fine, Sound, SameBut, Only

(* Objects may be destroyed; those that are left keep their pages.         *)
Drops(k, k2) == \A i \in Id : k2.refs[i] > 0 => k.refs[i] > 0 /\ k2.range[i] = k.range[i]

LEMMA DerefDrops ==
    ASSUME NEW k, Typed(k), NEW id \in Id
    PROVE  Drops(k, Deref(k, id))
    <1>1. k.refs \in [Id -> Nat] /\ k.range \in [Id -> MemoryRange]
        BY DEF Typed, Memory
    <1>2. PICK k2 : k2 = Deref(k, id)
        OBVIOUS
    <1>3. ASSUME NEW i \in Id, k2.refs[i] > 0
          PROVE  k.refs[i] > 0 /\ k2.range[i] = k.range[i]
        <2>1. CASE k.refs[id] > 1
            <3>1. k2.refs = [k.refs EXCEPT ![id] = @ - 1] /\ k2.range = k.range
                BY <1>2, <2>1, DerefTyped
            <3> QED
                BY <1>1, <1>3, <2>1, <3>1
        <2>2. CASE ~(k.refs[id] > 1)
            <3>1. /\ k2.refs = [k.refs EXCEPT ![id] = 0]
                  /\ k2.range = [k.range EXCEPT ![id] = Nowhere]
                BY <1>2, <2>2, DerefTyped
            <3> QED
                BY <1>1, <1>3, <3>1
        <2> QED
            BY <2>1, <2>2
    <1> QED
        BY <1>2, <1>3 DEF Drops

(* A mapping is destroyed, and its reference given back.                   *)
Freed(k, sp, call, p, i, k2, s2) ==
    /\ Fine(k2, Put(sp, p, s2), call) /\ Unmaps(sp[p], s2, i)
    /\ k2.next = k.next /\ k2.state = k.state /\ Drops(k, k2)

LEMMA FreeFine ==
    ASSUME NEW k, NEW sp, NEW call, NEW p \in Proc, Fine(k, sp, call), call[Extra] \notin Id,
           NEW i \in DOMAIN sp[p].mappings
    PROVE  Freed(k, sp, call, p, i, Deref(k, sp[p].mappings[i].object), Unmap(sp[p], i))
    <1>1. sp \in [Proc -> Space] /\ sp[p] \in Space /\ call \in [Caller -> Nat] /\ Typed(k)
        BY FineFacts
    <1>2. PICK id, s2 : id = sp[p].mappings[i].object /\ s2 = Unmap(sp[p], i)
        OBVIOUS
    <1>3. id \in Id /\ id \in Nat
        BY <1>1, <1>2, MappingFacts, Constants
    <1>4. Unmaps(sp[p], s2, i) /\ s2 \in Space
        BY <1>1, <1>2, UnmapSpace DEF Unmaps
    <1>5. PICK sp2, call1 : sp2 = Put(sp, p, s2) /\ call1 = Put(call, Extra, id)
        OBVIOUS
    <1>6. Only(sp, sp2, p) /\ sp2[p] = s2
        BY <1>1, <1>4, <1>5, SpacePut DEF Only
    <1>7. SameBut(call, call1, Extra) /\ SameBut(call1, call, Extra) /\ call1[Extra] = id
        BY <1>1, <1>3, <1>5, Callers, CallPut
    <1>8. Fine(k, sp2, call1)
        BY <1>2, <1>4, <1>6, <1>7, Callers, UnmapFine
    <1>9. Fine(Deref(k, call1[Extra]), sp2, call)
        BY <1>3, <1>7, <1>8, Callers, DerefFine
    <1>10. Deref(k, id).next = k.next /\ Deref(k, id).state = k.state
        BY <1>1, <1>3, DerefTyped
    <1>11. Drops(k, Deref(k, id))
        BY <1>1, <1>3, DerefDrops
    <1> QED
        BY <1>2, <1>4, <1>5, <1>7, <1>9, <1>10, <1>11 DEF Freed
-----------------------------------------------------------------------------
(* The first i mappings of p are destroyed.                                *)
Peeled(k, sp, call, p, i, k2) ==
    \E s2 \in Space :
        /\ Fine(k2, Put(sp, p, s2), call) /\ k2.next = k.next /\ k2.state = k.state
        /\ Drops(k, k2) /\ s2.table = sp[p].table /\ s2.own = sp[p].own
        /\ Len(s2.mappings) = Len(sp[p].mappings) - i
        /\ \A j \in 1 .. Len(sp[p].mappings) - i : s2.mappings[j] = sp[p].mappings[j + i]

LEMMA PeelStep ==
    ASSUME NEW k, NEW sp \in [Proc -> Space], NEW call, NEW p \in Proc, call[Extra] \notin Id,
           NEW i \in 1 .. Len(sp[p].mappings), NEW k2, Peeled(k, sp, call, p, i - 1, k2)
    PROVE  Peeled(k, sp, call, p, i, Deref(k2, sp[p].mappings[i].object))
    <1>1. PICK ms, n : ms = sp[p].mappings /\ n = Len(ms)
        OBVIOUS
    <1>2. n \in Nat /\ i \in 1 .. n /\ sp[p] \in Space
        BY <1>1, MappingFacts
    <1>3. PICK s2 \in Space :
              /\ Fine(k2, Put(sp, p, s2), call) /\ k2.next = k.next /\ k2.state = k.state
              /\ Drops(k, k2) /\ s2.table = sp[p].table /\ s2.own = sp[p].own
              /\ Len(s2.mappings) = n - (i - 1)
              /\ \A j \in 1 .. n - (i - 1) : s2.mappings[j] = ms[j + (i - 1)]
        BY <1>1 DEF Peeled
    <1>4. PICK sp2 : sp2 = Put(sp, p, s2)
        OBVIOUS
    <1>5. sp2[p] = s2 /\ \A w \in Space : Put(sp2, p, w) = Put(sp, p, w)
        BY <1>4, SpacePut
    <1>6. 1 \in DOMAIN s2.mappings /\ s2.mappings[1] = ms[i]
        <2>1. 1 \in 1 .. n - (i - 1) /\ 1 + (i - 1) = i
            BY <1>2
        <2>2. DOMAIN s2.mappings = 1 .. n - (i - 1)
            BY <1>3, MappingFacts
        <2> QED
            BY <1>3, <2>1, <2>2
    <1>7. PICK k3, s3 : k3 = Deref(k2, ms[i].object) /\ s3 = Unmap(s2, 1)
        OBVIOUS
    <1>8. /\ Fine(k3, Put(sp2, p, s3), call) /\ Unmaps(s2, s3, 1)
          /\ k3.next = k2.next /\ k3.state = k2.state /\ Drops(k2, k3)
        <2>1. Fine(k2, sp2, call) /\ 1 \in DOMAIN sp2[p].mappings
            BY <1>3, <1>4, <1>5, <1>6
        <2>2. Freed(k2, sp2, call, p, 1, Deref(k2, sp2[p].mappings[1].object), Unmap(sp2[p], 1))
            BY <2>1, FreeFine
        <2>3. sp2[p].mappings[1].object = ms[i].object
            BY <1>5, <1>6
        <2> QED
            BY <1>5, <1>7, <2>2, <2>3 DEF Freed
    <1>9. /\ s3 \in Space /\ s3.table = s2.table /\ s3.own = s2.own
          /\ DOMAIN s3.mappings = 1 .. n - i
          /\ \A j \in 1 .. n - i : s3.mappings[j] = s2.mappings[j + 1]
        <2>1. Len(s2.mappings) - 1 = n - i
            BY <1>2, <1>3
        <2>2. \A j \in 1 .. n - i : Moved(1, j) = j + 1
            BY <1>2 DEF Moved
        <2> QED
            BY <1>8, <2>1, <2>2 DEF Unmaps
    <1>10. Len(s3.mappings) = n - i
        BY <1>2, <1>3, <1>8 DEF Unmaps
    <1>11. ASSUME NEW j \in 1 .. n - i
           PROVE  s3.mappings[j] = ms[j + i]
        <2>1. j + 1 \in 1 .. n - (i - 1) /\ j + 1 + (i - 1) = j + i
            BY <1>2
        <2>2. s2.mappings[j + 1] = ms[j + 1 + (i - 1)]
            BY <1>3, <2>1
        <2> QED
            BY <1>9, <2>1, <2>2
    <1>12. Fine(k3, Put(sp, p, s3), call)
        BY <1>5, <1>8, <1>9
    <1>13. Drops(k, k3)
        BY <1>3, <1>8 DEF Drops
    <1>14. Peeled(k, sp, call, p, i, k3)
        BY <1>1, <1>3, <1>8, <1>9, <1>10, <1>11, <1>12, <1>13 DEF Peeled
    <1> QED
        BY <1>1, <1>7, <1>14

LEMMA UnmappedFine ==
    ASSUME NEW k, NEW sp, NEW call, NEW p \in Proc, Fine(k, sp, call), call[Extra] \notin Id
    PROVE  Peeled(k, sp, call, p, Len(sp[p].mappings), Unmapped(k, sp[p]))
    <1>1. sp \in [Proc -> Space] /\ sp[p] \in Space /\ k \in Memory
        BY FineFacts DEF Typed
    <1>2. PICK ms, n : ms = sp[p].mappings /\ n = Len(ms)
        OBVIOUS
    <1>3. n \in Nat
        BY <1>1, <1>2, MappingFacts
    <1>4. PICK W : W = [i \in 0 .. n |-> {v \in Memory : Peeled(k, sp, call, p, i, v)}]
        OBVIOUS
    <1>5. /\ Stages(W, n, Memory)
          /\ \A i \in 0 .. n : \A v : v \in W[i] <=> v \in Memory /\ Peeled(k, sp, call, p, i, v)
        BY <1>4 DEF Stages
    <1>6. k \in W[0]
        <2>1. Put(sp, p, sp[p]) = sp /\ n - 0 = n
            BY <1>1, <1>3, SpacePut
        <2>2. \A j \in 1 .. n : j + 0 = j
            OBVIOUS
        <2>3. Peeled(k, sp, call, p, 0, k)
            BY <1>1, <1>2, <2>1, <2>2 DEF Peeled, Drops
        <2>4. 0 \in 0 .. n
            BY <1>3
        <2> QED
            BY <1>1, <1>5, <2>3, <2>4
    <1>7. ASSUME NEW i \in 1 .. n, NEW v \in Memory, Peeled(k, sp, call, p, i - 1, v)
          PROVE  Deref(v, ms[i].object) \in Memory /\ Peeled(k, sp, call, p, i, Deref(v, ms[i].object))
        <2>1. Peeled(k, sp, call, p, i, Deref(v, ms[i].object))
            BY <1>1, <1>2, <1>7, PeelStep
        <2>2. Deref(v, ms[i].object) \in Memory
            BY <2>1 DEF Peeled, Fine, Typed
        <2> QED
            BY <2>1, <2>2
    <1>8. PICK step : step = [iv \in (1 .. n) \X Memory |-> Deref(iv[2], ms[iv[1]].object)]
        OBVIOUS
    <1>9. ASSUME NEW i \in 1 .. n, NEW v \in Memory
          PROVE  step[<<i, v>>] = Deref(v, ms[i].object)
        <2>1. PICK iv : iv = <<i, v>>
            OBVIOUS
        <2>2. iv \in (1 .. n) \X Memory /\ iv[1] = i /\ iv[2] = v
            BY <2>1
        <2>3. step[iv] = Deref(iv[2], ms[iv[1]].object)
            BY <1>8, <2>2
        <2> QED
            BY <2>1, <2>2, <2>3
    <1>10. StepOf(step, n, W)
        <2>1. ASSUME NEW i \in 1 .. n, NEW v \in W[i - 1]
              PROVE  step[<<i, v>>] \in W[i]
            <3>1. i - 1 \in 0 .. n /\ i \in 0 .. n
                BY <1>3
            <3>2. v \in Memory /\ Peeled(k, sp, call, p, i - 1, v)
                BY <1>5, <3>1
            <3> QED
                BY <1>5, <1>7, <1>9, <3>1, <3>2
        <2> QED
            BY <2>1 DEF StepOf
    <1>11. PICK f : Computes(f, n, W, k, step)
        BY <1>3, <1>5, <1>6, <1>10, Recursion
    <1>12. f = [i \in 0 .. n |-> IF i = 0 THEN k ELSE Deref(f[i - 1], ms[i].object)]
        <2>1. ASSUME NEW i \in 0 .. n, i # 0
              PROVE  f[i] = Deref(f[i - 1], ms[i].object)
            <3>1. i \in 1 .. n /\ i - 1 \in 0 .. n
                BY <1>3, <2>1
            <3>2. f[i - 1] \in W[i - 1]
                BY <1>11, <3>1 DEF Computes
            <3>3. f[i - 1] \in Memory
                BY <1>5, <3>1, <3>2
            <3>4. f[i] = step[<<i, f[i - 1]>>]
                BY <1>11, <3>1 DEF Computes
            <3> QED
                BY <1>9, <3>1, <3>3, <3>4
        <2>2. f = [i \in 0 .. n |-> f[i]] /\ f[0] = k
            BY <1>11 DEF Computes
        <2> QED
            BY <2>1, <2>2
    <1>13. \E g : g = [i \in 0 .. Len(sp[p].mappings) |->
                           IF i = 0 THEN k ELSE Deref(g[i - 1], sp[p].mappings[i].object)]
        BY <1>2, <1>12
    <1>14. PICK g : /\ g = [i \in 0 .. Len(sp[p].mappings) |->
                               IF i = 0 THEN k ELSE Deref(g[i - 1], sp[p].mappings[i].object)]
                    /\ Unmapped(k, sp[p]) = g[Len(sp[p].mappings)]
        BY <1>13 DEF Unmapped
    <1>15. /\ g = [i \in 0 .. n |-> IF i = 0 THEN k ELSE Deref(g[i - 1], ms[i].object)]
           /\ Unmapped(k, sp[p]) = g[n]
        BY <1>2, <1>14
    <1>16. \A i \in 0 .. n : g[i] \in W[i]
        <2>1. g[0] = k
            BY <1>3, <1>15
        <2>2. ASSUME NEW i \in 1 .. n, g[i - 1] \in W[i - 1]
              PROVE  g[i] \in W[i]
            <3>1. i - 1 \in 0 .. n /\ i \in 0 .. n /\ i # 0
                BY <1>3
            <3>2. g[i] = Deref(g[i - 1], ms[i].object)
                BY <1>15, <3>1
            <3>3. g[i - 1] \in Memory /\ Peeled(k, sp, call, p, i - 1, g[i - 1])
                BY <1>5, <2>2, <3>1
            <3> QED
                BY <1>5, <1>7, <3>1, <3>2, <3>3
        <2> QED
            BY <1>3, <1>5, <1>6, <2>1, <2>2, StaysInStages
    <1>17. n \in 0 .. n
        BY <1>3
    <1> QED
        BY <1>2, <1>5, <1>15, <1>16, <1>17

(* A space without mappings gives its pages back.                          *)
LEMMA EmptyFacts ==
    /\ Empty \in Space /\ Empty.mappings = <<>> /\ SpaceHas(Empty) = {}
    /\ \A k : Shown(k, Empty)
    <1>1. /\ Empty.mappings = <<>> /\ Empty.own = None
          /\ Empty.table = [t \in Table |-> None] /\ Empty.frame = [a \in Addr |-> None]
        BY DEF Empty
    <1>2. Empty \in Space
        BY DEF Empty, Space
    <1>3. SpaceHas(Empty) = {}
        BY <1>1 DEF SpaceHas, TablePages
    <1>4. DOMAIN Empty.mappings = {}
        BY <1>1
    <1>5. \A a \in Addr : Empty.frame[a] = None
        BY <1>1
    <1>6. \A k : Shown(k, Empty)
        BY <1>4, <1>5 DEF Shown
    <1> QED
        BY <1>1, <1>2, <1>3, <1>6

LEMMA ClearFine ==
    ASSUME NEW k, NEW sp, NEW call, NEW p \in Proc, Fine(k, sp, call), Len(sp[p].mappings) = 0
    PROVE  LET k2 == SetFree(SetFree(k, TablePages(sp[p])), {sp[p].own})
           IN  /\ Fine(k2, Put(sp, p, Empty), call)
               /\ SameObjects(k, k2) /\ k2.state = k.state
    <1>1. sp \in [Proc -> Space] /\ sp[p] \in Space /\ Typed(k) /\ k.used \subseteq Page
        BY FineFacts
    <1>2. PICK s, pages : s = sp[p] /\ pages = TablePages(sp[p])
        OBVIOUS
    <1>3. pages \subseteq Nat /\ {s.own} \subseteq Nat
        <2>1. s.table \in [Table -> Page \cup {None}] /\ s.own \in Page \cup {None}
            BY <1>1, <1>2 DEF Space
        <2>2. Page \cup {None} \subseteq Nat
            BY Constants
        <2>3. pages \subseteq Page
            BY <1>2, <2>1 DEF TablePages
        <2> QED
            BY <2>1, <2>2, <2>3
    <1>4. PICK k1 : k1 = SetFree(k, pages)
        OBVIOUS
    <1>5. PICK k2, own : k2 = SetFree(k1, own) /\ own = {s.own}
        OBVIOUS
    <1>6. own \subseteq Nat
        BY <1>3, <1>5
    <1>7. /\ Typed(k1) /\ k1.used = k.used \ pages /\ k1.range = k.range /\ k1.refs = k.refs
          /\ k1.next = k.next /\ k1.state = k.state
        <2>1. pages \subseteq Nat /\ Typed(k)
            BY <1>1, <1>3
        <2>2. /\ Typed(SetFree(k, pages)) /\ SetFree(k, pages).used = k.used \ pages
              /\ SetFree(k, pages).range = k.range /\ SetFree(k, pages).refs = k.refs
              /\ SetFree(k, pages).next = k.next /\ SetFree(k, pages).state = k.state
            BY <2>1, SetFreeTyped
        <2> QED
            BY <1>4, <2>2
    <1>8. /\ Typed(k2) /\ k2.used = k1.used \ own /\ k2.range = k1.range /\ k2.refs = k1.refs
          /\ k2.next = k1.next /\ k2.state = k1.state
        BY <1>5, <1>7, <1>6, SetFreeTyped
    <1>9. k2.used = k.used \ SpaceHas(s)
        <2>1. None \notin k.used
            BY <1>1, Constants
        <2> QED
            BY <1>2, <1>5, <1>7, <1>8, <2>1 DEF SpaceHas
    <1>10. SameObjects(k, k2)
        BY <1>7, <1>8 DEF SameObjects
    <1>11. PICK sp2 : sp2 = Put(sp, p, Empty)
        OBVIOUS
    <1>12. Only(sp, sp2, p) /\ sp2[p] = Empty
        BY <1>1, <1>11, EmptyFacts, SpacePut DEF Only
    <1>13. sp[p].mappings = <<>>
        <2>1. sp[p].mappings \in Seq(Mapping)
            BY <1>1, MappingFacts
        <2> QED
            BY <2>1, EmptySeq
    <1>14. Counted(k2, sp2, call)
        <2>1. \A q \in Proc : sp2[q].mappings = sp[q].mappings
            BY <1>12, <1>13, EmptyFacts DEF Only
        <2> QED
            BY <1>10, <2>1, FineFacts, ReferencesSame DEF Counted, SameObjects
    <1>15. Partition(k2.used, Has(k2, sp2))
        <2>1. \A i \in Id : ObjectHas(k2, i) = ObjectHas(k, i)
            BY <1>10 DEF ObjectHas, SameObjects
        <2>2. \A g \in Holder : g # <<"space", p>> => Has(k2, sp2)[g] = Has(k, sp)[g]
            BY <1>12, <2>1, HasButSpace DEF Only
        <2>3. /\ <<"space", p>> \in Holder /\ Has(k, sp)[<<"space", p>>] = SpaceHas(s)
              /\ Has(k2, sp2)[<<"space", p>>] = {}
            BY <1>2, <1>12, EmptyFacts, HasFacts
        <2>4. Loses(Has(k, sp), Has(k2, sp2), <<"space", p>>, SpaceHas(s))
            BY <2>2, <2>3 DEF Loses
        <2>5. Partition(k.used, Has(k, sp))
            BY FineFacts
        <2>6. Partition(k.used \ SpaceHas(s), Has(k2, sp2))
            BY <2>4, <2>5, GivePages
        <2> QED
            BY <1>9, <2>6
    <1>16. Objective(k2)
        BY <1>10, FineFacts DEF Objective, SameObjects
    <1>17. ASSUME NEW q \in Proc
           PROVE  Shown(k2, sp2[q])
        <2>1. CASE q = p
            BY <1>12, <2>1, EmptyFacts
        <2>2. CASE q # p
            <3>1. Shown(k, sp[q]) /\ sp2[q] = sp[q]
                BY <1>12, <2>2, FineFacts DEF Only
            <3> QED
                BY <1>10, <3>1, ShownSame DEF SameObjects
        <2> QED
            BY <2>1, <2>2
    <1>18. Fine(k2, sp2, call)
        BY <1>8, <1>12, <1>14, <1>15, <1>16, <1>17, FineFacts DEF Fine, Sound, Only
    <1> QED
        BY <1>2, <1>5, <1>7, <1>8, <1>10, <1>11, <1>18, <1>4

LEMMA DestroyedFine ==
    ASSUME NEW k, NEW sp, NEW call, NEW p \in Proc, Fine(k, sp, call), call[Extra] \notin Id
    PROVE  /\ Fine(Destroyed(k, sp[p]), Put(sp, p, Empty), call)
           /\ Destroyed(k, sp[p]).next = k.next /\ Destroyed(k, sp[p]).state = k.state
           /\ Drops(k, Destroyed(k, sp[p]))
    <1>1. sp \in [Proc -> Space] /\ Len(sp[p].mappings) \in Nat
        BY FineFacts, MappingFacts
    <1>2. PICK k1 : k1 = Unmapped(k, sp[p])
        OBVIOUS
    <1>3. PICK s2 \in Space :
              /\ Fine(k1, Put(sp, p, s2), call) /\ k1.next = k.next /\ k1.state = k.state
              /\ Drops(k, k1) /\ s2.table = sp[p].table /\ s2.own = sp[p].own
              /\ Len(s2.mappings) = Len(sp[p].mappings) - Len(sp[p].mappings)
        <2>1. Peeled(k, sp, call, p, Len(sp[p].mappings), k1)
            BY <1>2, UnmappedFine
        <2> QED
            BY <2>1 DEF Peeled
    <1>4. PICK sp2 : sp2 = Put(sp, p, s2)
        OBVIOUS
    <1>5. sp2[p] = s2 /\ Put(sp2, p, Empty) = Put(sp, p, Empty)
        BY <1>1, <1>4, EmptyFacts, SpacePut
    <1>6. Len(sp2[p].mappings) = 0
        BY <1>1, <1>3, <1>5
    <1>7. TablePages(sp2[p]) = TablePages(sp[p]) /\ sp2[p].own = sp[p].own
        BY <1>3, <1>5 DEF TablePages
    <1>8. Destroyed(k, sp[p]) = SetFree(SetFree(k1, TablePages(sp2[p])), {sp2[p].own})
        BY <1>2, <1>7 DEF Destroyed
    <1>9. Fine(k1, sp2, call)
        BY <1>3, <1>4
    <1>10. PICK k2 : k2 = SetFree(SetFree(k1, TablePages(sp2[p])), {sp2[p].own})
        OBVIOUS
    <1>11. Fine(k2, Put(sp2, p, Empty), call) /\ SameObjects(k1, k2) /\ k2.state = k1.state
        BY <1>6, <1>9, <1>10, ClearFine
    <1>12. Drops(k, k2) /\ k2.next = k1.next
        BY <1>3, <1>11 DEF Drops, SameObjects
    <1> QED
        BY <1>3, <1>5, <1>8, <1>10, <1>11, <1>12
-----------------------------------------------------------------------------
(* At most i mappings are copied to the space of q.                        *)
Copying(k, sp, call, q, i, v) ==
    /\ v.memory \in Memory /\ v.space \in Space
    /\ v = [memory |-> v.memory, space |-> v.space]
    /\ Fine(v.memory, Put(sp, q, v.space), call)
    /\ v.memory.state = "up" =>
           /\ k.next <= v.memory.next /\ v.memory.next <= k.next + i
           /\ \A j \in Id : j < k.next => v.memory.range[j] = k.range[j]

LEMMA NewSpaceFine ==
    ASSUME NEW k, NEW sp, NEW call, NEW q \in Proc, Fine(k, sp, call), sp[q] = Empty
    PROVE  Copying(k, sp, call, q, 0, NewSpace(k))
    <1>1. sp \in [Proc -> Space] /\ Typed(k) /\ k \in Memory /\ k.next \in Nat
        BY FineFacts DEF Typed
    <1>2. CASE Found(k, 1) = {}
        <2>1. NewSpace(k) = [memory |-> Panic(k), space |-> Empty]
            BY <1>2 DEF NewSpace
        <2>2. Put(sp, q, Empty) = sp
            BY <1>1, SpacePut
        <2>3. Fine(Panic(k), sp, call) /\ Panic(k).state = "panic"
            BY PanicFine
        <2>4. Panic(k) \in Memory
            BY <2>3 DEF Fine, Typed
        <2>5. PICK v : v = NewSpace(k)
            OBVIOUS
        <2>6. v.memory = Panic(k) /\ v.space = Empty /\ v = [memory |-> v.memory, space |-> v.space]
            BY <2>1, <2>5
        <2>7. v.memory.state # "up"
            BY <2>3, <2>6
        <2>8. Copying(k, sp, call, q, 0, v)
            BY <2>2, <2>3, <2>4, <2>6, <2>7, EmptyFacts DEF Copying
        <2> QED
            BY <2>5, <2>8
    <1>3. CASE Found(k, 1) # {}
        <2>1. PICK page : page = Least(Found(k, 1))
            OBVIOUS
        <2>2. page \in Page /\ page + 1 <= Total /\ Pages(page, 1) \cap k.used = {}
            BY <1>1, <1>3, <2>1, FoundFacts
        <2>3. Pages(page, 1) = {page}
            <3>1. page \in Nat
                BY <2>2, Constants
            <3>2. \A y : y \in Pages(page, 1) <=> y = page
                BY <3>1, InPages
            <3> QED
                BY <3>2
        <2>4. PICK k2, s2 : k2 = SetUsed(k, page, 1) /\ s2 = [Empty EXCEPT !.own = page]
            OBVIOUS
        <2>5. /\ Typed(k2) /\ k2.used = k.used \cup Pages(page, 1) /\ k2.range = k.range
              /\ k2.refs = k.refs /\ k2.next = k.next /\ k2.state = k.state
            BY <1>1, <2>2, <2>4, SetUsedTyped
        <2>6. SameObjects(k, k2) /\ k2 \in Memory
            BY <2>5 DEF SameObjects, Typed
        <2>7. /\ s2.mappings = <<>> /\ s2.own = page /\ s2.table = Empty.table
              /\ s2.frame = Empty.frame /\ s2.straight = Empty.straight
            BY <2>4 DEF Empty
        <2>8. s2 \in Space
            BY <2>2, <2>4, EmptyFacts DEF Space
        <2>9. SpaceHas(s2) = {page}
            <3>1. page # None
                BY <2>2, Constants
            <3>2. TablePages(s2) = TablePages(Empty)
                BY <2>7 DEF TablePages
            <3>3. TablePages(Empty) \ {None} = {}
                BY EmptyFacts DEF SpaceHas
            <3> QED
                BY <2>7, <3>1, <3>2, <3>3 DEF SpaceHas
        <2>10. PICK sp2 : sp2 = Put(sp, q, s2)
            OBVIOUS
        <2>11. Only(sp, sp2, q) /\ sp2[q] = s2
            BY <1>1, <2>8, <2>10, SpacePut DEF Only
        <2>12. Counted(k2, sp2, call)
            <3>1. \A r \in Proc : sp2[r].mappings = sp[r].mappings
                BY <2>7, <2>11, EmptyFacts DEF Only
            <3> QED
                BY <2>6, <3>1, FineFacts, ReferencesSame DEF Counted, SameObjects
        <2>13. Partition(k2.used, Has(k2, sp2))
            <3>1. \A i \in Id : ObjectHas(k2, i) = ObjectHas(k, i)
                BY <2>6 DEF ObjectHas, SameObjects
            <3>2. \A g \in Holder : g # <<"space", q>> => Has(k2, sp2)[g] = Has(k, sp)[g]
                BY <2>11, <3>1, HasButSpace DEF Only
            <3>3. /\ <<"space", q>> \in Holder /\ Has(k, sp)[<<"space", q>>] = {}
                  /\ Has(k2, sp2)[<<"space", q>>] = {page}
                BY <2>9, <2>11, EmptyFacts, HasFacts
            <3>4. Gains(k.used, Has(k, sp), Has(k2, sp2), <<"space", q>>, {page})
                BY <2>2, <2>3, <3>2, <3>3 DEF Gains
            <3>5. Partition(k.used, Has(k, sp))
                BY FineFacts
            <3>6. Partition(k.used \cup {page}, Has(k2, sp2))
                BY <3>4, <3>5, TakePages
            <3> QED
                BY <2>3, <2>5, <3>6
        <2>14. Objective(k2)
            BY <2>6, FineFacts DEF Objective, SameObjects
        <2>15. ASSUME NEW r \in Proc
               PROVE  Shown(k2, sp2[r])
            <3>1. CASE r = q
                <4>1. /\ DOMAIN s2.mappings = {}
                      /\ \A v \in Addr : s2.frame[v] = None
                    BY <2>7 DEF Empty
                <4>2. Shown(k2, s2)
                    BY <4>1 DEF Shown
                <4> QED
                    BY <2>11, <3>1, <4>2
            <3>2. CASE r # q
                <4>1. Shown(k, sp[r]) /\ sp2[r] = sp[r]
                    BY <2>11, <3>2, FineFacts DEF Only
                <4> QED
                    BY <2>6, <4>1, ShownSame DEF SameObjects
            <3> QED
                BY <3>1, <3>2
        <2>16. Fine(k2, sp2, call)
            BY <2>5, <2>11, <2>12, <2>13, <2>14, <2>15, FineFacts DEF Fine, Sound, Only
        <2>17. PICK v : v = NewSpace(k)
            OBVIOUS
        <2>18. v.memory = k2 /\ v.space = s2 /\ v = [memory |-> v.memory, space |-> v.space]
            BY <1>3, <2>1, <2>4, <2>17 DEF NewSpace
        <2>19. k.next <= k2.next /\ k2.next <= k.next + 0
            BY <1>1, <2>5
        <2>20. Copying(k, sp, call, q, 0, v)
            BY <2>5, <2>6, <2>8, <2>10, <2>16, <2>18, <2>19 DEF Copying
        <2> QED
            BY <2>17, <2>20
    <1> QED
        BY <1>2, <1>3
-----------------------------------------------------------------------------
(* What is asked for in bytes takes whole pages, at the start of pages.    *)
LEMMA Factor ==
    ASSUME NEW x \in Int, NEW y \in Int, x * PageSize <= y * PageSize
    PROVE  x <= y
    <1>1. PageSize \in Nat /\ PageSize > 0
        BY MemoryAssumption
    <1>2. ASSUME y < x
          PROVE  FALSE
        <2>1. (x - y) * PageSize >= PageSize
            BY <1>1, <1>2
        <2>2. (x - y) * PageSize = x * PageSize - y * PageSize
            BY <1>1
        <2>3. x * PageSize \in Int /\ y * PageSize \in Int
            BY <1>1
        <2> QED
            BY <1>1, <2>1, <2>2, <2>3
    <1> QED
        BY <1>2

Needs(bytes, size) == \A n \in Nat : bytes <= n * PageSize => size <= n

LEMMA WholePages ==
    ASSUME NEW size \in Nat
    PROVE  size * PageSize \in Nat /\ Needs(size * PageSize, size)
    BY Factor, MemoryAssumption DEF Needs

LEMMA SomePages ==
    ASSUME NEW bytes \in Nat
    PROVE  PagesFor(bytes) \in Nat /\ Needs(bytes, PagesFor(bytes))
    <1>1. PICK s \in Nat : s = PageSize /\ s > 0
        BY MemoryAssumption
    <1>2. PICK n : n = (bytes + s - 1) \div s
        OBVIOUS
    <1>3. n \in Nat /\ n * s <= bytes + s - 1
        BY <1>1, <1>2
    <1>4. ASSUME NEW y \in Nat, bytes <= y * s
          PROVE  n <= y
        <2>1. n * s < y * s + s
            BY <1>1, <1>3, <1>4
        <2>2. y * s + s = (y + 1) * s
            BY <1>1
        <2>3. ASSUME n >= y + 1
              PROVE  FALSE
            <3>1. (n - (y + 1)) * s >= 0 /\ (n - (y + 1)) * s = n * s - (y + 1) * s
                BY <1>1, <1>3, <2>3
            <3>2. n * s \in Int /\ (y + 1) * s \in Int
                BY <1>1, <1>3
            <3> QED
                BY <2>1, <2>2, <3>1, <3>2
        <2> QED
            BY <1>3, <2>3
    <1> QED
        BY <1>1, <1>2, <1>3, <1>4 DEF Needs, PagesFor

(* What does not collide shares no page with what is mapped, if all of it  *)
(* is at the start of pages.                                               *)
LEMMA NotCollidingFits ==
    ASSUME NEW k, NEW s \in Space, Shown(k, s), NEW addr \in Addr, NEW off \in Offset,
           NEW bytes \in Nat, NEW size \in Nat, Needs(bytes, size), addr + size <= MaxAddr,
           ~Collides(s, addr, off, bytes)
    PROVE  Fits(s, addr, off, size)
    <1>1. ASSUME s.straight, off = 0, NEW i \in DOMAIN s.mappings, NEW v \in Pages(addr, size),
                 Covers(s.mappings[i], v)
          PROVE  FALSE
        <2>1. PICK m : m = s.mappings[i]
            OBVIOUS
        <2>2. /\ m.addr \in Nat /\ m.size \in Nat /\ m.off = 0 /\ addr \in Nat
              /\ PageSize \in Nat
            BY <1>1, <2>1, MappingFacts, Constants, MemoryAssumption DEF Shown
        <2>3. v \in Nat /\ addr <= v /\ v < addr + size
            BY <2>2, InPages
        <2>4. m.addr <= v /\ v < m.addr + m.size
            BY <1>1, <2>1, <2>2, <2>3, InPages DEF Covers
        <2>5. ~(/\ addr * PageSize + 0 < m.addr * PageSize + 0 + m.size * PageSize
                /\ addr * PageSize + 0 + bytes > m.addr * PageSize + 0)
            BY <1>1, <2>1, <2>2 DEF Collides, Byte
        <2>6. /\ addr * PageSize \in Int /\ m.addr * PageSize \in Int /\ m.size * PageSize \in Int
              /\ m.addr * PageSize + m.size * PageSize = (m.addr + m.size) * PageSize
              /\ m.addr * PageSize - addr * PageSize = (m.addr - addr) * PageSize
            BY <2>2
        <2>7. CASE (m.addr + m.size) * PageSize <= addr * PageSize
            <3>1. m.addr + m.size <= addr
                <4>1. PICK x \in Int : x = m.addr + m.size
                    BY <2>2
                <4>2. x <= addr
                    <5>1. x * PageSize <= addr * PageSize
                        BY <2>7, <4>1
                    <5> QED
                        BY <2>2, <5>1, Factor
                <4> QED
                    BY <4>1, <4>2
            <3> QED
                BY <2>2, <2>3, <2>4, <3>1
        <2>8. CASE bytes <= (m.addr - addr) * PageSize
            <3>1. addr <= m.addr
                <4>1. addr * PageSize <= m.addr * PageSize
                    BY <2>6, <2>8
                <4> QED
                    BY <2>2, <4>1, Factor
            <3>2. size <= m.addr - addr
                BY <2>2, <2>8, <3>1 DEF Needs
            <3> QED
                BY <2>2, <2>3, <2>4, <3>2
        <2> QED
            BY <2>5, <2>6, <2>7, <2>8
    <1> QED
        BY <1>1 DEF Fits

(* A mapping copied.                                                       *)
LEMMA CopyFine ==
    ASSUME NEW k, k.next \in Nat, NEW sp \in [Proc -> Space], NEW call \in [Caller -> Nat],
           NEW p \in Proc, NEW q \in Proc, p # q, call[Extra] \notin Id, call[q] \notin Id,
           k.next + Len(sp[p].mappings) <= MaxId,
           NEW i \in 1 .. Len(sp[p].mappings), NEW v,
           Copying(k, sp, call, q, i - 1, v), v.memory.state = "up"
    PROVE  Copying(k, sp, call, q, i, Copy(v, sp[p].mappings[i]))
    <1>1. PICK ms, n, m : ms = sp[p].mappings /\ n = Len(ms) /\ m = ms[i]
        OBVIOUS
    <1>2. /\ n \in Nat /\ i \in Nat /\ 1 <= i /\ i <= n /\ k.next + n <= MaxId /\ i \in DOMAIN ms
          /\ m.size \in Nat /\ m.addr \in Addr /\ m.off \in Offset /\ sp[p] \in Space
        <2>1. n \in Nat /\ DOMAIN ms = 1 .. n
            BY <1>1, MappingFacts
        <2>2. i \in DOMAIN ms
            BY <1>1, <2>1
        <2>3. m.size \in Nat /\ m.addr \in Addr /\ m.off \in Offset
            BY <1>1, <2>2, MappingFacts
        <2> QED
            BY <1>1, <2>1, <2>2, <2>3
    <1>3. /\ v.memory \in Memory /\ v.space \in Space
          /\ v = [memory |-> v.memory, space |-> v.space]
          /\ Fine(v.memory, Put(sp, q, v.space), call)
          /\ k.next <= v.memory.next /\ v.memory.next <= k.next + (i - 1)
          /\ v.memory.next \in Nat
          /\ \A j \in Id : j < k.next => v.memory.range[j] = k.range[j]
        BY <1>1, FineFacts DEF Copying
    <1>4. PICK w : w = Copy(v, m)
        OBVIOUS
    <1>5. CASE Collides(v.space, m.addr, m.off, m.size * PageSize)
        <2>1. w = v
            BY <1>4, <1>5 DEF Copy
        <2>2. Copying(k, sp, call, q, i, v)
            BY <1>2, <1>3 DEF Copying
        <2> QED
            BY <1>1, <1>4, <2>1, <2>2
    <1>6. CASE ~Collides(v.space, m.addr, m.off, m.size * PageSize) /\ Found(v.memory, m.size) = {}
        <2>1. Create(v.memory, m.size) = Panic(v.memory)
            BY <1>6 DEF Create
        <2>2. PICK k2 : k2 = Panic(v.memory)
            OBVIOUS
        <2>3. /\ Fine(k2, Put(sp, q, v.space), call) /\ k2.state = "panic" /\ k2 \in Memory
            BY <1>3, <2>2, PanicFine DEF Fine, Typed
        <2>4. w = [v EXCEPT !.memory = k2]
            BY <1>4, <1>6, <2>1, <2>2, <2>3 DEF Copy
        <2>5. w = [memory |-> k2, space |-> v.space]
            BY <1>3, <2>4
        <2>6. Copying(k, sp, call, q, i, w)
            BY <1>3, <2>3, <2>5 DEF Copying
        <2> QED
            BY <1>1, <1>4, <2>6
    <1>7. CASE ~Collides(v.space, m.addr, m.off, m.size * PageSize) /\ Found(v.memory, m.size) # {}
        <2>1. PICK id, k2 : id = v.memory.next /\ k2 = Create(v.memory, m.size)
            OBVIOUS
        <2>2. id \in Id /\ id \in Nat /\ k.next <= id /\ id < k.next + i
            <3>1. id \in Nat /\ k.next <= id /\ id < k.next + i
                BY <1>2, <1>3, <2>1
            <3>2. id < MaxId
                BY <1>2, <3>1, Constants
            <3> QED
                BY <3>1, <3>2, Constants
        <2>3. PICK sp1, call1 : sp1 = Put(sp, q, v.space) /\ call1 = Put(call, q, id)
            OBVIOUS
        <2>4. /\ q \in Caller /\ SameBut(call, call1, q) /\ SameBut(call1, call, q)
              /\ call1[q] = id /\ call1 \in [Caller -> Nat]
            <3>1. q \in Caller
                BY Callers
            <3>2. /\ Put(call, q, id) \in [Caller -> Nat] /\ Put(call, q, id)[q] = id
                  /\ SameBut(call, Put(call, q, id), q) /\ SameBut(Put(call, q, id), call, q)
                BY <2>2, <3>1, CallPut
            <3> QED
                BY <2>3, <3>1, <3>2
        <2>5. /\ sp1 \in [Proc -> Space] /\ sp1[q] = v.space /\ sp1[p] = sp[p]
              /\ \A s \in Space : Put(sp1, q, s) = Put(sp, q, s)
            BY <1>3, <2>3, SpacePut
        <2>6. Fine(v.memory, sp1, call)
            BY <1>3, <2>3
        <2>7. /\ Fine(k2, sp1, call1) /\ k2.range[id].size = m.size
              /\ k2.next = id + 1 /\ k2.state = "up"
              /\ \A x \in Id : x # id => k2.range[x] = v.memory.range[x]
            <3>1. v.memory.next \in Id /\ call1[q] = v.memory.next /\ call[q] \notin Id
                BY <2>1, <2>2, <2>4
            <3>2. PICK j : j = v.memory
                OBVIOUS
            <3>3. /\ Fine(j, sp1, call) /\ j.next \in Id /\ call1[q] = j.next
                  /\ Found(j, m.size) # {} /\ j.state = "up"
                BY <1>7, <2>6, <3>1, <3>2
            <3>4. /\ Fine(Create(j, m.size), sp1, call1)
                  /\ Create(j, m.size).range[j.next].size = m.size
                  /\ Create(j, m.size).next = j.next + 1 /\ Create(j, m.size).state = j.state
                  /\ \A x \in Id : x # j.next => Create(j, m.size).range[x] = j.range[x]
                <4>1. SameBut(call, call1, q) /\ call[q] \notin Id /\ q \in Caller
                    BY <2>4
                <4>2. PICK z \in Nat : z = m.size
                    BY <1>2
                <4>3. Found(j, z) # {}
                    BY <3>3, <4>2
                <4>4. /\ Fine(Create(j, z), sp1, call1) /\ Create(j, z).range[j.next].size = z
                      /\ Create(j, z).next = j.next + 1 /\ Create(j, z).state = j.state
                      /\ \A x \in Id : x # j.next => Create(j, z).range[x] = j.range[x]
                    BY <3>3, <4>1, <4>3, CreateFine
                <4> QED
                    BY <4>2, <4>4
            <3> QED
                BY <2>1, <3>2, <3>3, <3>4
        <2>8. k2.refs[id] > 0
            <3>1. Counted(k2, sp1, call1) /\ sp1 \in [Proc -> Space]
                BY <2>7, FineFacts
            <3>2. \A c \in Caller : call1[c] \in Id => k2.refs[call1[c]] > 0
                BY <3>1, Referenced
            <3>3. k2.refs[call1[q]] > 0
                BY <2>2, <2>4, <3>2
            <3> QED
                BY <2>4, <3>3
        <2>9. call1[Extra] \notin Id
            <3>1. Extra # q /\ Extra \in Caller
                BY Callers
            <3> QED
                BY <2>4, <3>1 DEF SameBut
        <2>10. Fits(sp1[q], m.addr, m.off, k2.range[id].size)
            <3>1. Shown(v.memory, sp[p]) /\ Shown(v.memory, v.space)
                BY <2>5, <2>6, FineFacts
            <3>2. m.addr + m.size <= MaxAddr
                BY <1>1, <1>2, <3>1 DEF Shown
            <3>3. Fits(v.space, m.addr, m.off, m.size)
                BY <1>2, <1>3, <1>7, <3>1, <3>2, WholePages, NotCollidingFits
            <3> QED
                BY <2>5, <2>7, <3>3
        <2>11. PICK made : made = MapAt(k2, v.space, id, m.addr, m.off)
            OBVIOUS
        <2>12. Maps(k2, sp1, call1, q, id, m.addr, m.off, made)
            BY <2>2, <2>5, <2>7, <2>8, <2>9, <2>10, <2>11, MapAtFine
        <2>13. /\ made.space \in Space /\ Fine(made.memory, Put(sp, q, made.space), call1)
               /\ made.memory.next = k2.next /\ made.memory.range = k2.range
               /\ made.memory.state \in {"up", "panic"}
            BY <2>5, <2>7, <2>12 DEF Maps
        <2>14. PICK k3 : k3 = Deref(made.memory, id)
            OBVIOUS
        <2>15. Fine(Deref(made.memory, call1[q]), Put(sp, q, made.space), call)
            BY <2>2, <2>4, <2>13, DerefFine
        <2>16. Fine(k3, Put(sp, q, made.space), call)
            BY <2>4, <2>14, <2>15
        <2>17. k3.next = k2.next /\ k3 \in Memory
            BY <2>2, <2>13, <2>14, DerefTyped DEF Fine, Typed
        <2>18. ASSUME NEW j \in Id, j < k.next
               PROVE  k3.range[j] = k.range[j]
            <3>1. j # id
                BY <2>2, <2>18, Constants
            <3>2. PICK k4 : k4 = made.memory
                OBVIOUS
            <3>3. Typed(k4)
                BY <2>13, <3>2 DEF Fine
            <3>4. k4.range \in [Id -> MemoryRange]
                BY <3>3 DEF Typed, Memory
            <3>5. Deref(k4, id).range[j] = k4.range[j]
                <4>1. CASE k4.refs[id] > 1
                    BY <2>2, <3>3, <4>1, DerefTyped
                <4>2. CASE ~(k4.refs[id] > 1)
                    <5>1. Deref(k4, id).range = [k4.range EXCEPT ![id] = Nowhere]
                        BY <2>2, <3>3, <4>2, DerefTyped
                    <5> QED
                        BY <2>18, <3>1, <3>4, <5>1
                <4> QED
                    BY <4>1, <4>2
            <3>6. k4.range[j] = k2.range[j] /\ k3 = Deref(k4, id)
                BY <2>13, <2>14, <3>2
            <3>7. k2.range[j] = v.memory.range[j]
                BY <2>7, <3>1
            <3>8. v.memory.range[j] = k.range[j]
                BY <1>3, <1>7, <2>18
            <3> QED
                BY <3>5, <3>6, <3>7, <3>8
        <2>19. w = [memory |-> k3, space |-> made.space]
            <3>1. w = [made EXCEPT !.memory = Deref(@, id)]
                BY <1>4, <1>7, <2>1, <2>7, <2>11 DEF Copy
            <3>2. made = [memory |-> made.memory, space |-> made.space]
                BY <2>11 DEF MapAt
            <3> QED
                BY <2>14, <3>1, <3>2
        <2>20. k.next <= k3.next /\ k3.next <= k.next + i
            BY <1>2, <2>2, <2>7, <2>17
        <2>21. w.memory = k3 /\ w.space = made.space
            BY <2>19
        <2>22. Copying(k, sp, call, q, i, w)
            BY <2>13, <2>16, <2>17, <2>18, <2>19, <2>20, <2>21 DEF Copying
        <2> QED
            BY <1>1, <1>4, <2>22
    <1> QED
        BY <1>5, <1>6, <1>7

LEMMA CopyStep ==
    ASSUME NEW k, k.next \in Nat, NEW sp \in [Proc -> Space], NEW call \in [Caller -> Nat],
           NEW p \in Proc, NEW q \in Proc, p # q, call[Extra] \notin Id, call[q] \notin Id,
           k.next + Len(sp[p].mappings) <= MaxId,
           NEW i \in 1 .. Len(sp[p].mappings), NEW v,
           Copying(k, sp, call, q, i - 1, v)
    PROVE  Copying(k, sp, call, q, i, Copied(sp[p], v, sp[p].mappings[i]))
    <1>1. PICK m, w : m = sp[p].mappings[i] /\ w = Copy(v, m)
        OBVIOUS
    <1>2. ASSUME NEW u, NEW j, Copying(k, sp, call, q, j, u)
          PROVE  Copying(k, sp, call, q, i, [u EXCEPT !.memory = Panic(@)])
        <2>1. /\ Fine(Panic(u.memory), Put(sp, q, u.space), call)
              /\ Panic(u.memory).state = "panic"
            BY <1>2, PanicFine DEF Copying
        <2>2. Panic(u.memory) \in Memory
            BY <2>1 DEF Fine, Typed
        <2>3. PICK x : x = [u EXCEPT !.memory = Panic(@)]
            OBVIOUS
        <2>4. x.memory = Panic(u.memory) /\ x.space = u.space /\ x = [memory |-> x.memory, space |-> x.space]
            <3>1. u = [memory |-> u.memory, space |-> u.space]
                BY <1>2 DEF Copying
            <3>2. x = [memory |-> Panic(u.memory), space |-> u.space]
                BY <2>3, <3>1
            <3> QED
                BY <3>2
        <2>5. Copying(k, sp, call, q, i, x)
            BY <1>2, <2>1, <2>2, <2>4 DEF Copying
        <2> QED
            BY <2>3, <2>5
    <1>3. CASE v.memory.state # "up"
        <2>1. Copied(sp[p], v, m) = v
            BY <1>3 DEF Copied
        <2>2. Copying(k, sp, call, q, i, v)
            BY <1>3 DEF Copying
        <2> QED
            BY <1>1, <2>1, <2>2
    <1>4. CASE v.memory.state = "up"
        <2>1. Copying(k, sp, call, q, i, w)
            BY <1>1, <1>4, CopyFine
        <2>2. \/ Copied(sp[p], v, m) = [v EXCEPT !.memory = Panic(@)]
              \/ Copied(sp[p], v, m) = [w EXCEPT !.memory = Panic(@)]
              \/ Copied(sp[p], v, m) = w
            BY <1>1, <1>4 DEF Copied
        <2> QED
            BY <1>1, <1>2, <2>1, <2>2
    <1> QED
        BY <1>3, <1>4

LEMMA CopiedToFine ==
    ASSUME NEW k, NEW sp, NEW call, NEW p \in Proc, NEW q \in Proc, p # q, Fine(k, sp, call),
           call[Extra] \notin Id, call[q] \notin Id, sp[q] = Empty,
           k.next + Len(sp[p].mappings) <= MaxId
    PROVE  Copying(k, sp, call, q, Len(sp[p].mappings),
                   CopiedTo(sp[p], NewSpace(k)))
    <1>1. /\ sp \in [Proc -> Space] /\ sp[p] \in Space /\ k \in Memory /\ k.next \in Nat
          /\ call \in [Caller -> Nat]
        BY FineFacts DEF Typed
    <1>2. PICK ms, n : ms = sp[p].mappings /\ n = Len(ms)
        OBVIOUS
    <1>3. n \in Nat
        BY <1>1, <1>2, MappingFacts
    <1>4. PICK U : U = [memory : Memory, space : Space]
        OBVIOUS
    <1>5. PICK W : W = [i \in 0 .. n |-> {v \in U : Copying(k, sp, call, q, i, v)}]
        OBVIOUS
    <1>6. /\ Stages(W, n, U)
          /\ \A i \in 0 .. n : \A v : v \in W[i] <=> v \in U /\ Copying(k, sp, call, q, i, v)
        BY <1>5 DEF Stages
    <1>7. \A i, v : Copying(k, sp, call, q, i, v) => v \in U
        BY <1>4 DEF Copying
    <1>8. PICK base : base = NewSpace(k)
        OBVIOUS
    <1>9. base \in W[0]
        <2>1. Copying(k, sp, call, q, 0, base)
            BY <1>8, NewSpaceFine
        <2>2. 0 \in 0 .. n
            BY <1>3
        <2> QED
            BY <1>6, <1>7, <2>1, <2>2
    <1>10. ASSUME NEW i \in 1 .. n, NEW v \in U, Copying(k, sp, call, q, i - 1, v)
           PROVE  Copied(sp[p], v, ms[i]) \in U /\ Copying(k, sp, call, q, i, Copied(sp[p], v, ms[i]))
        <2>1. Copying(k, sp, call, q, i, Copied(sp[p], v, ms[i]))
            BY <1>1, <1>2, <1>10, CopyStep
        <2> QED
            BY <1>7, <2>1
    <1>11. PICK step : step = [iv \in (1 .. n) \X U |-> Copied(sp[p], iv[2], ms[iv[1]])]
        OBVIOUS
    <1>12. ASSUME NEW i \in 1 .. n, NEW v \in U
           PROVE  step[<<i, v>>] = Copied(sp[p], v, ms[i])
        <2>1. PICK iv : iv = <<i, v>>
            OBVIOUS
        <2>2. iv \in (1 .. n) \X U /\ iv[1] = i /\ iv[2] = v
            BY <2>1
        <2>3. step[iv] = Copied(sp[p], iv[2], ms[iv[1]])
            BY <1>11, <2>2
        <2> QED
            BY <2>1, <2>2, <2>3
    <1>13. StepOf(step, n, W)
        <2>1. ASSUME NEW i \in 1 .. n, NEW v \in W[i - 1]
              PROVE  step[<<i, v>>] \in W[i]
            <3>1. i - 1 \in 0 .. n /\ i \in 0 .. n
                BY <1>3
            <3>2. v \in U /\ Copying(k, sp, call, q, i - 1, v)
                BY <1>6, <3>1
            <3> QED
                BY <1>6, <1>10, <1>12, <3>1, <3>2
        <2> QED
            BY <2>1 DEF StepOf
    <1>14. PICK f : Computes(f, n, W, base, step)
        BY <1>3, <1>6, <1>9, <1>13, Recursion
    <1>15. f = [i \in 0 .. n |-> IF i = 0 THEN base ELSE Copied(sp[p], f[i - 1], ms[i])]
        <2>1. ASSUME NEW i \in 0 .. n, i # 0
              PROVE  f[i] = Copied(sp[p], f[i - 1], ms[i])
            <3>1. i \in 1 .. n /\ i - 1 \in 0 .. n
                BY <1>3, <2>1
            <3>2. f[i - 1] \in W[i - 1]
                BY <1>14, <3>1 DEF Computes
            <3>3. f[i - 1] \in U
                BY <1>6, <3>1, <3>2
            <3>4. f[i] = step[<<i, f[i - 1]>>]
                BY <1>14, <3>1 DEF Computes
            <3> QED
                BY <1>12, <3>1, <3>3, <3>4
        <2>2. f = [i \in 0 .. n |-> f[i]] /\ f[0] = base
            BY <1>14 DEF Computes
        <2> QED
            BY <2>1, <2>2
    <1>16. \E g : g = [i \in 0 .. Len(sp[p].mappings) |->
                           IF i = 0 THEN base ELSE Copied(sp[p], g[i - 1], sp[p].mappings[i])]
        BY <1>2, <1>15
    <1>17. PICK g : /\ g = [i \in 0 .. Len(sp[p].mappings) |->
                               IF i = 0 THEN base ELSE Copied(sp[p], g[i - 1], sp[p].mappings[i])]
                    /\ CopiedTo(sp[p], base) = g[Len(sp[p].mappings)]
        BY <1>16 DEF CopiedTo
    <1>18. /\ g = [i \in 0 .. n |-> IF i = 0 THEN base ELSE Copied(sp[p], g[i - 1], ms[i])]
           /\ CopiedTo(sp[p], base) = g[n]
        BY <1>2, <1>17
    <1>19. \A i \in 0 .. n : g[i] \in W[i]
        <2>1. g[0] = base
            BY <1>3, <1>18
        <2>2. ASSUME NEW i \in 1 .. n, g[i - 1] \in W[i - 1]
              PROVE  g[i] \in W[i]
            <3>1. i - 1 \in 0 .. n /\ i \in 0 .. n /\ i # 0
                BY <1>3
            <3>2. g[i] = Copied(sp[p], g[i - 1], ms[i])
                BY <1>18, <3>1
            <3>3. g[i - 1] \in U /\ Copying(k, sp, call, q, i - 1, g[i - 1])
                BY <1>6, <2>2, <3>1
            <3> QED
                BY <1>6, <1>10, <3>1, <3>2, <3>3
        <2> QED
            BY <1>3, <1>6, <1>9, <2>1, <2>2, StaysInStages
    <1>20. n \in 0 .. n
        BY <1>3
    <1> QED
        BY <1>2, <1>6, <1>8, <1>18, <1>19, <1>20
-----------------------------------------------------------------------------
(* The steps of the processes.                                             *)
LEMMA CallingFacts ==
    ASSUME TypeOK
    PROVE  /\ Calling \in [Caller -> Nat] /\ Calling[Extra] \notin Id
           /\ \A p \in Proc : /\ pc[p] \in Holding => Calling[p] = op[p].object
                              /\ pc[p] \notin Holding => Calling[p] = NoCall
    <1>1. op \in [Proc -> Op]
        BY DEF TypeOK
    <1>2. \A p \in Proc : op[p].object \in Nat
        BY <1>1 DEF Op
    <1>3. Calling \in [Caller -> Nat]
        BY <1>2, Constants DEF Calling
    <1>4. Calling[Extra] = NoCall
        BY Callers DEF Calling
    <1> QED
        BY <1>3, <1>4, Callers, Constants DEF Calling

LEMMA CallMoves ==
    ASSUME TypeOK, NEW p \in Proc, NEW l \in Location, NEW o \in Op,
           pc' = [pc EXCEPT ![p] = l], op' = [op EXCEPT ![p] = o]
    PROVE  /\ pc' \in [Proc -> Location] /\ pc'[p] = l
           /\ op' \in [Proc -> Op] /\ op'[p] = o
           /\ \A q \in Proc : q # p => pc'[q] = pc[q] /\ op'[q] = op[q]
           /\ SameBut(Calling, Calling', p)
           /\ l \in Holding => Calling'[p] = o.object
           /\ l \notin Holding => Calling'[p] = NoCall
    <1>1. pc \in [Proc -> Location] /\ op \in [Proc -> Op]
        BY DEF TypeOK
    <1>2. /\ pc' \in [Proc -> Location] /\ pc'[p] = l
          /\ op' \in [Proc -> Op] /\ op'[p] = o
          /\ \A q \in Proc : q # p => pc'[q] = pc[q] /\ op'[q] = op[q]
        BY <1>1
    <1>3. \A q \in Proc : op[q].object \in Nat /\ op'[q].object \in Nat
        BY <1>1, <1>2 DEF Op
    <1>4. Calling \in [Caller -> Nat] /\ Calling' \in [Caller -> Nat]
        BY <1>3, Constants DEF Calling
    <1>5. \A c \in Caller : c # p => Calling'[c] = Calling[c]
        BY <1>2 DEF Calling
    <1>6. /\ l \in Holding => Calling'[p] = o.object
          /\ l \notin Holding => Calling'[p] = NoCall
        BY <1>2, Callers DEF Calling
    <1> QED
        BY <1>2, <1>4, <1>5, <1>6 DEF SameBut

LEMMA SameCall ==
    ASSUME NEW call, NEW call2, NEW c \in Caller, SameBut(call, call2, c), call2[c] = call[c]
    PROVE  call2 = call
    <1>1. \A d \in Caller : call2[d] = call[d]
        BY DEF SameBut
    <1> QED
        BY <1>1 DEF SameBut

LEMMA IInvFine ==
    ASSUME IInv, Up
    PROVE  /\ TypeOK /\ Fine(memory, space, Calling) /\ Typed(memory)
           /\ space \in [Proc -> Space] /\ Calling \in [Caller -> Nat] /\ Calling[Extra] \notin Id
           /\ (\A p \in Proc : CallShape(p)) /\ Reserve
    <1>1. TypeOK /\ Sound(memory, space, Calling) /\ (\A p \in Proc : CallShape(p)) /\ Reserve
        BY DEF IInv
    <1>2. Typed(memory) /\ space \in [Proc -> Space]
        BY <1>1 DEF TypeOK, Typed, Searchable
    <1> QED
        BY <1>1, <1>2, CallingFacts DEF Fine

LEMMA Finishes ==
    ASSUME pc' \in [Proc -> Location], op' \in [Proc -> Op], alive' \subseteq Proc,
           Typed(memory'), space' \in [Proc -> Space],
           Up' => /\ Fine(memory', space', Calling')
                  /\ (\A p \in Proc : CallShape(p)') /\ Reserve'
    PROVE  IInv'
    <1>1. TypeOK'
        BY DEF TypeOK, Typed, Searchable
    <1>2. Up' => Sound(memory', space', Calling')
        BY DEF Fine
    <1> QED
        BY <1>1, <1>2 DEF IInv

(* An object that a call uses keeps its size.                              *)
KeepsSizes(k, k2) ==
    \A i \in Id : k.refs[i] > 0 /\ k2.refs[i] > 0 => k2.range[i].size = k.range[i].size

LEMMA ShapesKept ==
    ASSUME NEW p \in Proc, \A q \in Proc : CallShape(q), TypeOK,
           Fine(memory, space, Calling), Fine(memory', space', Calling'),
           KeepsSizes(memory, memory'),
           \A q \in Proc : q # p => /\ pc'[q] = pc[q] /\ op'[q] = op[q] /\ space'[q] = space[q]
                                    /\ q \in alive' => q \in alive,
           CallShape(p)'
    PROVE  \A q \in Proc : CallShape(q)'
    <1>1. ASSUME NEW q \in Proc, q # p
          PROVE  CallShape(q)'
        <2>1. /\ pc'[q] = pc[q] /\ op'[q] = op[q] /\ space'[q] = space[q]
              /\ q \in alive' => q \in alive
            BY <1>1
        <2>2. CallShape(q)
            OBVIOUS
        <2>3. ASSUME pc[q] = "map_at"
              PROVE  memory'.range[op[q].object].size = memory.range[op[q].object].size
            <3>1. op[q].object \in Id
                BY <2>2, <2>3 DEF CallShape
            <3>2. Calling[q] = op[q].object /\ Calling'[q] = op[q].object
                BY <2>1, <2>3, Callers DEF Calling, Holding
            <3>3. memory.refs[Calling[q]] > 0
                <4>1. Counted(memory, space, Calling) /\ space \in [Proc -> Space]
                    BY FineFacts
                <4> QED
                    BY <3>1, <3>2, <4>1, Callers, Referenced
            <3>4. memory'.refs[Calling'[q]] > 0
                <4>1. Counted(memory', space', Calling') /\ space' \in [Proc -> Space]
                    BY FineFacts
                <4> QED
                    BY <3>1, <3>2, <4>1, Callers, Referenced
            <3> QED
                BY <3>1, <3>2, <3>3, <3>4 DEF KeepsSizes
        <2> QED
            BY <2>1, <2>2, <2>3 DEF CallShape
    <1> QED
        BY <1>1

LEMMA ReserveKept ==
    ASSUME Reserve, Creating' \subseteq Creating, memory.next \in Nat, memory'.next = memory.next
    PROVE  Reserve'
    <1>1. IsFiniteSet(Creating) /\ memory.next + Cardinality(Creating) <= MaxId
        BY DEF Reserve
    <1>2. IsFiniteSet(Creating') /\ Cardinality(Creating') <= Cardinality(Creating)
        BY <1>1, FS_Subset
    <1>3. Cardinality(Creating) \in Nat /\ Cardinality(Creating') \in Nat
        BY <1>1, <1>2, FS_CardinalityType
    <1> QED
        BY <1>1, <1>2, <1>3, Constants DEF Reserve
-----------------------------------------------------------------------------
(* A process stops, or nothing changes.                                    *)
LEMMA AliveShrinks ==
    ASSUME IInv, UNCHANGED <<memory, space, pc, op>>, alive' \subseteq alive
    PROVE  IInv'
    <1>1. TypeOK
        BY DEF IInv
    <1>2. /\ pc' \in [Proc -> Location] /\ op' \in [Proc -> Op] /\ alive' \subseteq Proc
          /\ Typed(memory') /\ space' \in [Proc -> Space]
        BY <1>1 DEF TypeOK, Typed, Searchable
    <1>3. ASSUME Up'
          PROVE  /\ Fine(memory', space', Calling')
                 /\ (\A p \in Proc : CallShape(p)') /\ Reserve'
        <2>1. Up
            BY <1>3 DEF Up
        <2>2. Fine(memory, space, Calling) /\ (\A p \in Proc : CallShape(p)) /\ Reserve
            BY <2>1, IInvFine
        <2>3. Calling' = Calling /\ Creating' = Creating
            BY DEF Calling, Creating
        <2>4. Fine(memory', space', Calling')
            BY <2>2, <2>3
        <2>5. Reserve'
            BY <2>2, <2>3 DEF Reserve
        <2>6. \A p \in Proc : CallShape(p)'
            BY <2>2 DEF CallShape
        <2> QED
            BY <2>4, <2>5, <2>6
    <1> QED
        BY <1>2, <1>3, Finishes

(* A call begins.                                                          *)
LEMMA Starts ==
    ASSUME IInv, Up, NEW p \in Proc, pc[p] = "idle", p \in alive, IdsLeft(1), NEW o \in Op,
           pc' = [pc EXCEPT ![p] = "create"], op' = [op EXCEPT ![p] = o],
           o.kind = "map" => Fits(space[p], o.addr, o.off, PagesFor(o.size)),
           UNCHANGED <<memory, space, alive>>
    PROVE  IInv'
    <1>1. /\ TypeOK /\ Fine(memory, space, Calling) /\ Typed(memory)
          /\ (\A q \in Proc : CallShape(q)) /\ Reserve
        BY IInvFine
    <1>2. /\ pc' \in [Proc -> Location] /\ pc'[p] = "create"
          /\ op' \in [Proc -> Op] /\ op'[p] = o
          /\ \A q \in Proc : q # p => pc'[q] = pc[q] /\ op'[q] = op[q]
          /\ SameBut(Calling, Calling', p) /\ Calling'[p] = NoCall
        <2>1. "create" \in Location /\ "create" \notin Holding
            BY DEF Location, Holding
        <2> QED
            BY <1>1, <2>1, CallMoves
    <1>3. Calling' = Calling
        <2>1. Calling[p] = NoCall
            BY <1>1, CallingFacts DEF Holding
        <2> QED
            BY <1>2, <2>1, Callers, SameCall
    <1>4. Fine(memory', space', Calling') /\ Typed(memory') /\ space' \in [Proc -> Space]
        BY <1>1, <1>3, FineFacts
    <1>5. CallShape(p)'
        BY <1>2 DEF CallShape
    <1>6. \A q \in Proc : CallShape(q)'
        <2>1. KeepsSizes(memory, memory')
            BY DEF KeepsSizes
        <2> QED
            BY <1>1, <1>2, <1>4, <1>5, <2>1, ShapesKept
    <1>7. Reserve'
        <2>1. Creating' = Creating \cup {p} /\ p \notin Creating
            BY <1>2 DEF Creating
        <2>2. IsFiniteSet(Creating) /\ memory.next + 1 + Cardinality(Creating) <= MaxId
            BY <1>1 DEF Reserve, IdsLeft, Creating
        <2>3. IsFiniteSet(Creating') /\ Cardinality(Creating') = Cardinality(Creating) + 1
            BY <2>1, <2>2, FS_AddElement
        <2>4. Cardinality(Creating) \in Nat /\ memory.next \in Nat
            BY <1>1, <2>2, FS_CardinalityType DEF Typed, Memory
        <2> QED
            BY <2>2, <2>3, <2>4, Constants DEF Reserve
    <1>8. alive' \subseteq Proc
        BY <1>1 DEF TypeOK
    <1> QED
        BY <1>2, <1>4, <1>6, <1>7, <1>8, Finishes

LEMMA AllocStep ==
    ASSUME IInv, NEW p \in Proc, NEW size \in Sizes, Alloc(p, size)
    PROVE  IInv'
    <1>1. /\ Up /\ p \in alive /\ pc[p] = "idle" /\ IdsLeft(1) /\ UNCHANGED <<memory, space>>
        BY DEF Alloc, May, At, Up
    <1>2. PICK o : o = [NoOp EXCEPT !.kind = "alloc", !.size = size]
        OBVIOUS
    <1>3. o = [kind |-> "alloc", size |-> size, addr |-> 0, off |-> 0, object |-> 0]
        BY <1>2 DEF NoOp
    <1>4. o \in Op /\ o.kind = "alloc"
        BY <1>3, TaskMemoryAssumption DEF Op
    <1>5. CASE Greedy(space[p], size)
        <2>1. alive' = alive \ {p} /\ UNCHANGED <<pc, op>>
            BY <1>5 DEF Alloc, KilledIfGreedy
        <2> QED
            BY <1>1, <2>1, AliveShrinks
    <1>6. CASE ~Greedy(space[p], size)
        <2>1. /\ pc' = [pc EXCEPT ![p] = "create"] /\ op' = [op EXCEPT ![p] = o]
              /\ UNCHANGED alive
            BY <1>2, <1>6 DEF Alloc, KilledIfGreedy, Goto
        <2> QED
            BY <1>1, <1>4, <2>1, Starts
    <1> QED
        BY <1>5, <1>6

LEMMA MapStep ==
    ASSUME IInv, NEW p \in Proc, NEW size \in Sizes, NEW addr \in Addr, NEW off \in Offset,
           Map(p, addr, off, size)
    PROVE  IInv'
    <1>1. /\ Up /\ p \in alive /\ pc[p] = "idle" /\ IdsLeft(1) /\ addr + PagesFor(size) <= MaxAddr
          /\ UNCHANGED <<memory, space>>
        BY DEF Map, May, At, Up
    <1>2. PICK o : o = [NoOp EXCEPT !.kind = "map", !.size = size, !.addr = addr, !.off = off]
        OBVIOUS
    <1>3. o = [kind |-> "map", size |-> size, addr |-> addr, off |-> off, object |-> 0]
        BY <1>2 DEF NoOp
    <1>4. o \in Op /\ o.size = size /\ o.addr = addr /\ o.off = off /\ size \in Nat
        BY <1>3, Constants, TaskMemoryAssumption DEF Op, Offset
    <1>5. CASE Greedy(space[p], size)
        <2>1. alive' = alive \ {p} /\ UNCHANGED <<pc, op>>
            BY <1>5 DEF Map, KilledIfGreedy
        <2> QED
            BY <1>1, <2>1, AliveShrinks
    <1>6. CASE ~Greedy(space[p], size) /\ Collides(space[p], addr, off, size)
        <2>1. UNCHANGED <<pc, op, alive>>
            BY <1>6 DEF Map, KilledIfGreedy, Refused
        <2> QED
            BY <1>1, <2>1, AliveShrinks
    <1>7. CASE ~Greedy(space[p], size) /\ ~Collides(space[p], addr, off, size)
        <2>1. /\ pc' = [pc EXCEPT ![p] = "create"] /\ op' = [op EXCEPT ![p] = o]
              /\ UNCHANGED alive
            BY <1>2, <1>7 DEF Map, KilledIfGreedy, Refused, Goto
        <2>2. Fits(space[p], addr, off, PagesFor(size))
            <3>1. space[p] \in Space /\ Shown(memory, space[p])
                BY <1>1, IInvFine, FineFacts
            <3> QED
                BY <1>1, <1>4, <1>7, <3>1, SomePages, NotCollidingFits
        <2> QED
            BY <1>1, <1>4, <2>1, <2>2, Starts
    <1> QED
        BY <1>5, <1>6, <1>7
-----------------------------------------------------------------------------
LEMMA CreateObjectStep ==
    ASSUME IInv, NEW p \in Proc, CreateObject(p)
    PROVE  IInv'
    <1>1. /\ Up /\ p \in alive /\ pc[p] = "create" /\ UNCHANGED <<space, alive>>
          /\ memory' = Create(memory, PagesFor(op[p].size))
        BY DEF CreateObject, At, Up
    <1>2. /\ TypeOK /\ Fine(memory, space, Calling) /\ Typed(memory)
          /\ (\A q \in Proc : CallShape(q)) /\ Reserve
        BY <1>1, IInvFine
    <1>3. PICK id, size : id = memory.next /\ size = PagesFor(op[p].size)
        OBVIOUS
    <1>4. id \in Nat /\ op[p] \in Op /\ size \in Nat
        <2>1. id \in Nat /\ op[p] \in Op /\ op[p].size \in Nat
            BY <1>2, <1>3 DEF TypeOK, Typed, Memory, Op
        <2> QED
            BY <1>3, <2>1, SomePages
    <1>5. PICK l, o : l = (IF op[p].kind = "map" THEN "map_at" ELSE "map")
                      /\ o = [op[p] EXCEPT !.object = id]
        OBVIOUS
    <1>6. /\ l \in Location /\ l \in Holding /\ o \in Op /\ o.object = id
          /\ o.kind = op[p].kind /\ o.addr = op[p].addr /\ o.off = op[p].off /\ o.size = op[p].size
        BY <1>3, <1>4, <1>5 DEF Location, Holding, Op
    <1>7. /\ pc' \in [Proc -> Location] /\ pc'[p] = l
          /\ op' \in [Proc -> Op] /\ op'[p] = o
          /\ \A q \in Proc : q # p => pc'[q] = pc[q] /\ op'[q] = op[q]
          /\ SameBut(Calling, Calling', p) /\ Calling'[p] = id
        <2>1. pc' = [pc EXCEPT ![p] = l] /\ op' = [op EXCEPT ![p] = o]
            BY <1>2, <1>3, <1>5 DEF CreateObject, Goto, TypeOK
        <2> QED
            BY <1>2, <1>6, <2>1, CallMoves
    <1>8. alive' \subseteq Proc /\ space' \in [Proc -> Space]
        BY <1>1, <1>2 DEF TypeOK
    <1>9. PICK k2 : k2 = Create(memory, size)
        OBVIOUS
    <1>10. Typed(k2) /\ memory' = k2
        BY <1>1, <1>2, <1>3, <1>4, <1>9, CreateTyped
    <1>11. ASSUME Up'
           PROVE  /\ Fine(memory', space', Calling')
                  /\ (\A q \in Proc : CallShape(q)') /\ Reserve'
        <2>1. Found(memory, size) # {}
            <3>1. k2.state = "up"
                BY <1>10, <1>11 DEF Up
            <3>2. Found(memory, size) = {} => k2 = Panic(memory)
                BY <1>2, <1>4, <1>9, CreateTyped
            <3> QED
                BY <1>2, <3>1, <3>2, PanicTyped
        <2>2. Cardinality(Creating) \in Nat \ {0} /\ Creating' = Creating \ {p} /\ p \in Creating
            <3>1. p \in Creating /\ IsFiniteSet(Creating)
                BY <1>1, <1>2 DEF Creating, Reserve
            <3>2. Creating' = Creating \ {p}
                BY <1>6, <1>7 DEF Creating, Holding
            <3> QED
                BY <3>1, <3>2, FS_CardinalityType, FS_EmptySet
        <2>3. id \in Id
            BY <1>2, <1>3, <1>4, <2>2, Constants DEF Reserve
        <2>4. p \in Caller /\ Calling[p] \notin Id
            BY <1>1, <1>2, CallingFacts, Callers, Constants DEF Holding
        <2>5. /\ Fine(k2, space, Calling') /\ k2.range[id].size = size /\ k2.next = id + 1
              /\ \A i \in Id : i # id => k2.range[i] = memory.range[i]
            <3>1. memory.next \in Id /\ Calling'[p] = memory.next
                BY <1>3, <1>7, <2>3
            <3>2. /\ Fine(Create(memory, size), space, Calling')
                  /\ Create(memory, size).range[memory.next].size = size
                  /\ Create(memory, size).next = memory.next + 1
                  /\ \A i \in Id : i # memory.next => Create(memory, size).range[i] = memory.range[i]
                BY <1>2, <1>4, <1>7, <2>1, <2>4, <3>1, CreateFine
            <3> QED
                BY <1>3, <1>9, <3>2
        <2>6. Fine(memory', space', Calling')
            BY <1>1, <1>10, <2>5
        <2>7. KeepsSizes(memory, memory')
            <3>1. ~(memory.refs[id] > 0)
                <4>1. Objective(memory) /\ memory.refs[id] = 0
                    BY <1>2, <1>3, <1>4, <2>3, FineFacts DEF Objective
                <4> QED
                    BY <4>1
            <3> QED
                BY <1>10, <2>5, <3>1 DEF KeepsSizes
        <2>8. CallShape(p)'
            <3>1. CallShape(p)
                BY <1>2
            <3>2. op[p].kind = "map" => Fits(space[p], op[p].addr, op[p].off, PagesFor(op[p].size))
                BY <1>1, <3>1 DEF CallShape
            <3>3. l = "map_at" => op[p].kind = "map"
                BY <1>5
            <3>4. l # "unborn"
                BY <1>6 DEF Holding
            <3>5. o.size = op[p].size /\ op'[p].object = id /\ memory'.range[id].size = PagesFor(op[p].size)
                BY <1>3, <1>6, <1>7, <1>10, <2>5
            <3> QED
                BY <1>1, <1>6, <1>7, <2>3, <3>2, <3>3, <3>4, <3>5 DEF CallShape
        <2>9. \A q \in Proc : CallShape(q)'
            BY <1>1, <1>2, <1>7, <2>6, <2>7, <2>8, ShapesKept
        <2>10. Reserve'
            <3>1. /\ IsFiniteSet(Creating) /\ id + Cardinality(Creating) <= MaxId
                BY <1>2, <1>3 DEF Reserve
            <3>2. IsFiniteSet(Creating') /\ Cardinality(Creating') = Cardinality(Creating) - 1
                BY <2>2, <3>1, FS_RemoveElement
            <3>3. memory'.next = id + 1
                BY <1>10, <2>5
            <3> QED
                BY <1>4, <2>2, <3>1, <3>2, <3>3, Constants DEF Reserve
        <2> QED
            BY <2>6, <2>9, <2>10
    <1> QED
        BY <1>7, <1>8, <1>10, <1>11, Finishes

(* An object is mapped where it fits.                                      *)
LEMMA MappedStep ==
    ASSUME IInv, Up, NEW p \in Proc, pc[p] \in {"map", "map_at"}, NEW addr, NEW off,
           Fits(space[p], addr, off, memory.range[op[p].object].size),
           Mapped(p, MapAt(memory, space[p], op[p].object, addr, off))
    PROVE  IInv'
    <1>1. /\ TypeOK /\ Fine(memory, space, Calling) /\ Typed(memory) /\ Calling[Extra] \notin Id
          /\ (\A q \in Proc : CallShape(q)) /\ Reserve
        BY IInvFine
    <1>2. PICK id, made : id = op[p].object /\ made = MapAt(memory, space[p], id, addr, off)
        OBVIOUS
    <1>3. /\ memory' = made.memory /\ space' = Put(space, p, made.space)
          /\ pc' = [pc EXCEPT ![p] = "drop"] /\ op' = [op EXCEPT ![p] = op[p]]
          /\ UNCHANGED <<op, alive>>
        BY <1>1, <1>2 DEF Mapped, Goto, Put, TypeOK
    <1>4. id \in Id /\ Calling[p] = id
        <2>1. CallShape(p)
            BY <1>1
        <2> QED
            BY <1>1, <1>2, <2>1, CallingFacts DEF CallShape, Holding
    <1>5. memory.refs[id] > 0
        <2>1. Counted(memory, space, Calling) /\ space \in [Proc -> Space]
            BY <1>1, FineFacts
        <2> QED
            BY <1>4, <2>1, Callers, Referenced
    <1>6. Maps(memory, space, Calling, p, id, addr, off, made)
        BY <1>1, <1>2, <1>4, <1>5, MapAtFine
    <1>7. /\ made.space \in Space /\ Fine(made.memory, Put(space, p, made.space), Calling)
          /\ made.memory.range = memory.range /\ made.memory.next = memory.next
        BY <1>6 DEF Maps
    <1>8. /\ pc' \in [Proc -> Location] /\ pc'[p] = "drop"
          /\ op' \in [Proc -> Op] /\ op'[p] = op[p]
          /\ \A q \in Proc : q # p => pc'[q] = pc[q] /\ op'[q] = op[q]
          /\ SameBut(Calling, Calling', p) /\ Calling'[p] = id
        <2>1. "drop" \in Location /\ "drop" \in Holding /\ op[p] \in Op
            BY <1>1 DEF Location, Holding, TypeOK
        <2> QED
            BY <1>1, <1>2, <1>3, <2>1, CallMoves
    <1>9. Calling' = Calling
        BY <1>4, <1>8, Callers, SameCall
    <1>10. Fine(memory', space', Calling') /\ Typed(memory') /\ space' \in [Proc -> Space]
        <2>1. Fine(memory', space', Calling')
            BY <1>3, <1>7, <1>9
        <2> QED
            BY <2>1, FineFacts
    <1>11. \A q \in Proc : CallShape(q)'
        <2>1. KeepsSizes(memory, memory')
            BY <1>3, <1>7 DEF KeepsSizes
        <2>2. CallShape(p)'
            BY <1>2, <1>4, <1>8 DEF CallShape
        <2>3. \A q \in Proc : q # p => space'[q] = space[q]
            <3>1. PICK sp2 : sp2 = Put(space, p, made.space)
                OBVIOUS
            <3>2. space \in [Proc -> Space]
                BY <1>1, FineFacts
            <3>3. \A q \in Proc : q # p => sp2[q] = space[q]
                BY <1>7, <3>1, <3>2, SpacePut
            <3> QED
                BY <1>3, <3>1, <3>3
        <2> QED
            BY <1>1, <1>3, <1>8, <1>10, <2>1, <2>2, <2>3, ShapesKept
    <1>12. Reserve'
        <2>1. Creating' \subseteq Creating
            BY <1>8 DEF Creating
        <2> QED
            BY <1>1, <1>3, <1>7, <2>1, FineFacts, ReserveKept
    <1>13. alive' \subseteq Proc
        BY <1>1, <1>3 DEF TypeOK
    <1> QED
        BY <1>8, <1>10, <1>11, <1>12, <1>13, Finishes

LEMMA MapObjectAtStep ==
    ASSUME IInv, NEW p \in Proc, MapObjectAt(p)
    PROVE  IInv'
    <1>1. /\ Up /\ pc[p] = "map_at"
          /\ Mapped(p, MapAt(memory, space[p], op[p].object, op[p].addr, op[p].off))
        BY DEF MapObjectAt, At, Up
    <1>2. CallShape(p)
        BY <1>1, IInvFine
    <1>3. Fits(space[p], op[p].addr, op[p].off, memory.range[op[p].object].size)
        BY <1>1, <1>2 DEF CallShape
    <1> QED
        BY <1>1, <1>3, MappedStep

(* A range of addresses without page table entries is a range without      *)
(* mappings.                                                               *)
LEMMA RoomFits ==
    ASSUME NEW k, NEW sp, NEW call, Fine(k, sp, call), NEW p \in Proc,
           NEW size \in Nat, NEW addr \in Room(sp[p], size)
    PROVE  Fits(sp[p], addr, 0, size)
    <1>1. /\ sp \in [Proc -> Space] /\ sp[p] \in Space /\ Counted(k, sp, call)
          /\ Shown(k, sp[p]) /\ Objective(k) /\ k.range \in [Id -> MemoryRange]
        BY FineFacts
    <1>2. /\ addr \in Addr /\ addr + size <= MaxAddr
          /\ \A b \in Pages(addr, size) : sp[p].frame[b] = None
        BY DEF Room
    <1>3. PICK ms : ms = sp[p].mappings
        OBVIOUS
    <1>4. ASSUME sp[p].straight, NEW i \in DOMAIN ms, NEW v \in Pages(addr, size), Covers(ms[i], v)
          PROVE  FALSE
        <2>1. PICK m, id : m = ms[i] /\ id = m.object
            OBVIOUS
        <2>2. m.addr \in Nat /\ m.size \in Nat /\ id \in Id /\ addr \in Nat
            BY <1>1, <1>2, <1>3, <2>1, MappingFacts, Constants
        <2>3. v \in Nat /\ addr <= v /\ v < addr + size
            BY <2>2, InPages
        <2>4. v \in Addr
            BY <1>2, <2>2, <2>3, Constants
        <2>5. v \in Pages(m.addr, m.size)
            BY <1>4, <2>1 DEF Covers
        <2>6. m.addr <= v /\ v < m.addr + m.size
            BY <2>2, <2>3, <2>5, InPages
        <2>7. sp[p].frame[v] = k.range[id].base + (v - m.addr) /\ m.size = k.range[id].size
            BY <1>1, <1>3, <1>4, <2>1, <2>4 DEF Shown, Leads
        <2>8. k.refs[id] > 0
            BY <1>1, <1>3, <2>1, Referenced
        <2>9. k.range[id].base \in Nat /\ k.range[id].base + k.range[id].size <= Total
            BY <1>1, <2>2, <2>8, Constants DEF Objective
        <2>10. k.range[id].base + (v - m.addr) # Total
            BY <2>2, <2>3, <2>6, <2>7, <2>9, Constants
        <2> QED
            BY <1>2, <2>7, <2>10 DEF None
    <1>5. 0 \in Offset
        BY MemoryAssumption DEF Offset
    <1> QED
        BY <1>2, <1>3, <1>4, <1>5 DEF Fits

LEMMA MapObjectStep ==
    ASSUME IInv, NEW p \in Proc, MapObject(p)
    PROVE  IInv'
    <1>1. /\ Up /\ pc[p] = "map"
          /\ Mapped(p, MapSomewhere(memory, space[p], op[p].object))
        BY DEF MapObject, At, Up
    <1>2. /\ TypeOK /\ Fine(memory, space, Calling) /\ Typed(memory) /\ CallShape(p)
        BY <1>1, IInvFine
    <1>3. PICK id, size : id = op[p].object /\ size = memory.range[id].size
        OBVIOUS
    <1>4. id \in Id /\ size \in Nat
        <2>1. id \in Id
            BY <1>1, <1>2, <1>3 DEF CallShape
        <2>2. memory.range[id] \in MemoryRange
            BY <1>2, <2>1, FineFacts
        <2> QED
            BY <1>3, <2>1, <2>2 DEF MemoryRange
    <1>5. CASE Room(space[p], size) = {}
        <2>1. MapSomewhere(memory, space[p], op[p].object) = [memory |-> Panic(memory), space |-> space[p]]
            BY <1>3, <1>5 DEF MapSomewhere
        <2>2. /\ memory' = Panic(memory) /\ space' = space /\ pc' = [pc EXCEPT ![p] = "drop"]
              /\ UNCHANGED <<op, alive>>
            BY <1>1, <1>2, <2>1 DEF Mapped, Goto, TypeOK
        <2>3. Typed(memory') /\ memory'.state = "panic"
            BY <1>2, <2>2, PanicTyped
        <2>4. /\ pc' \in [Proc -> Location] /\ op' \in [Proc -> Op] /\ alive' \subseteq Proc
              /\ space' \in [Proc -> Space]
            BY <1>2, <2>2 DEF TypeOK, Location
        <2> QED
            BY <2>3, <2>4, Finishes DEF Up
    <1>6. CASE Room(space[p], size) # {}
        <2>1. PICK addr : addr = Least(Room(space[p], size))
            OBVIOUS
        <2>2. addr \in Room(space[p], size)
            <3>1. Room(space[p], size) \subseteq Nat
                BY Constants DEF Room
            <3> QED
                BY <1>6, <2>1, <3>1, LeastIsLeast
        <2>3. Fits(space[p], addr, 0, size)
            BY <1>2, <1>4, <2>2, RoomFits
        <2>4. MapSomewhere(memory, space[p], op[p].object) = MapAt(memory, space[p], op[p].object, addr, 0)
            BY <1>3, <1>6, <2>1 DEF MapSomewhere
        <2> QED
            BY <1>1, <1>3, <2>3, <2>4, MappedStep
    <1> QED
        BY <1>5, <1>6
-----------------------------------------------------------------------------
(* A call gives its reference back.                                        *)
LEMMA DropsKeep ==
    ASSUME NEW k, NEW k2, Drops(k, k2)
    PROVE  KeepsSizes(k, k2)
    BY DEF Drops, KeepsSizes

LEMMA GivenBack ==
    ASSUME IInv, Up, NEW p \in Proc, pc[p] \in {"drop", "included"},
           NEW l \in {"idle", "stale"}, NEW o \in Op, l = "stale" => o.object = op[p].object,
           pc' = [pc EXCEPT ![p] = l], op' = [op EXCEPT ![p] = o],
           memory' = Deref(memory, op[p].object), UNCHANGED <<space, alive>>
    PROVE  IInv'
    <1>1. /\ TypeOK /\ Fine(memory, space, Calling) /\ Typed(memory)
          /\ (\A q \in Proc : CallShape(q)) /\ Reserve
        BY IInvFine
    <1>2. PICK id, k2 : id = op[p].object /\ k2 = Deref(memory, id)
        OBVIOUS
    <1>3. id \in Id /\ Calling[p] = id
        <2>1. CallShape(p)
            BY <1>1
        <2> QED
            BY <1>1, <1>2, <2>1, CallingFacts DEF CallShape, Holding
    <1>4. /\ pc' \in [Proc -> Location] /\ pc'[p] = l
          /\ op' \in [Proc -> Op] /\ op'[p] = o
          /\ \A q \in Proc : q # p => pc'[q] = pc[q] /\ op'[q] = op[q]
          /\ SameBut(Calling, Calling', p) /\ Calling'[p] = NoCall
        <2>1. l \in Location /\ l \notin Holding
            BY DEF Location, Holding
        <2> QED
            BY <1>1, <2>1, CallMoves
    <1>5. Fine(Deref(memory, Calling[p]), space, Calling')
        BY <1>1, <1>3, <1>4, Callers, Constants, DerefFine
    <1>6. memory' = k2 /\ Typed(k2) /\ k2.next = memory.next /\ Drops(memory, k2)
        BY <1>1, <1>2, <1>3, DerefTyped, DerefDrops
    <1>7. Fine(memory', space', Calling') /\ Typed(memory') /\ space' \in [Proc -> Space]
        <2>1. Fine(memory', space', Calling')
            BY <1>2, <1>3, <1>5, <1>6
        <2> QED
            BY <2>1, FineFacts
    <1>8. CallShape(p)'
        BY <1>2, <1>3, <1>4 DEF CallShape
    <1>9. \A q \in Proc : CallShape(q)'
        <2>1. KeepsSizes(memory, memory')
            BY <1>6, DropsKeep
        <2> QED
            BY <1>1, <1>4, <1>7, <1>8, <2>1, ShapesKept
    <1>10. Reserve'
        <2>1. Creating' \subseteq Creating
            BY <1>4 DEF Creating
        <2> QED
            BY <1>1, <1>6, <2>1, FineFacts, ReserveKept
    <1>11. alive' \subseteq Proc
        BY <1>1 DEF TypeOK
    <1> QED
        BY <1>4, <1>7, <1>9, <1>10, <1>11, Finishes

LEMMA DropStep ==
    ASSUME IInv, NEW p \in Proc, Drop(p)
    PROVE  IInv'
    <1>1. PICK k : k = Deref(memory, op[p].object)
        OBVIOUS
    <1>2. /\ Up /\ pc[p] = "drop" /\ memory' \in {k, Panic(k)}
          /\ pc' = [pc EXCEPT ![p] = "idle"] /\ op' = [op EXCEPT ![p] = NoOp]
          /\ UNCHANGED <<space, alive>>
        BY <1>1 DEF Drop, Cleared, At, Finish, Goto, Up
    <1>3. NoOp \in Op
        BY DEF NoOp, Op
    <1>4. CASE memory' = k
        BY <1>1, <1>2, <1>3, <1>4, GivenBack
    <1>5. CASE memory' = Panic(k)
        <2>1. TypeOK /\ Typed(memory) /\ op[p].object \in Id
            BY <1>2, IInvFine DEF CallShape
        <2>2. Typed(k)
            BY <1>1, <2>1, DerefTyped
        <2>3. Typed(memory') /\ memory'.state = "panic"
            BY <1>5, <2>2, PanicTyped
        <2>4. /\ pc' \in [Proc -> Location] /\ op' \in [Proc -> Op] /\ alive' \subseteq Proc
              /\ space' \in [Proc -> Space]
            BY <1>2, <1>3, <2>1 DEF TypeOK, Location
        <2> QED
            BY <2>3, <2>4, Finishes DEF Up
    <1> QED
        BY <1>2, <1>4, <1>5

LEMMA IncludeCheckStep ==
    ASSUME IInv, NEW p \in Proc, IncludeCheck(p)
    PROVE  IInv'
    <1>1. Up /\ pc[p] = "included" /\ UNCHANGED <<space, op, alive>>
        BY DEF IncludeCheck, At, Up
    <1>2. /\ TypeOK /\ Fine(memory, space, Calling) /\ Typed(memory)
          /\ (\A q \in Proc : CallShape(q)) /\ Reserve
        BY <1>1, IInvFine
    <1>3. op[p] \in Op /\ op' = [op EXCEPT ![p] = op[p]]
        BY <1>1, <1>2 DEF TypeOK
    <1>4. CASE Greedy(space[p], memory.range[op[p].object].size * PageSize)
        <2>1. memory' = Deref(memory, op[p].object) /\ pc' = [pc EXCEPT ![p] = "stale"]
            BY <1>4 DEF IncludeCheck, Goto
        <2> QED
            BY <1>1, <1>3, <2>1, GivenBack
    <1>5. CASE ~Greedy(space[p], memory.range[op[p].object].size * PageSize)
        <2>1. UNCHANGED memory /\ pc' = [pc EXCEPT ![p] = "map"]
            BY <1>5 DEF IncludeCheck, Goto
        <2>2. /\ pc' \in [Proc -> Location] /\ pc'[p] = "map"
              /\ op' \in [Proc -> Op] /\ op'[p] = op[p]
              /\ \A q \in Proc : q # p => pc'[q] = pc[q] /\ op'[q] = op[q]
              /\ SameBut(Calling, Calling', p) /\ Calling'[p] = op[p].object
            <3>1. "map" \in Location /\ "map" \in Holding
                BY DEF Location, Holding
            <3> QED
                BY <1>2, <1>3, <2>1, <3>1, CallMoves
        <2>3. Calling' = Calling
            <3>1. Calling[p] = op[p].object
                BY <1>1, <1>2, CallingFacts DEF Holding
            <3> QED
                BY <2>2, <3>1, Callers, SameCall
        <2>4. Fine(memory', space', Calling') /\ Typed(memory') /\ space' \in [Proc -> Space]
            BY <1>1, <1>2, <2>1, <2>3, FineFacts
        <2>5. CallShape(p)'
            <3>1. CallShape(p)
                BY <1>2
            <3> QED
                BY <1>1, <2>2, <3>1 DEF CallShape
        <2>6. \A q \in Proc : CallShape(q)'
            <3>1. KeepsSizes(memory, memory')
                BY <2>1 DEF KeepsSizes
            <3> QED
                BY <1>1, <1>2, <2>2, <2>4, <2>5, <3>1, ShapesKept
        <2>7. Reserve'
            <3>1. Creating' \subseteq Creating
                BY <2>2 DEF Creating
            <3> QED
                BY <1>2, <2>1, <3>1, FineFacts, ReserveKept
        <2>8. alive' \subseteq Proc
            BY <1>1, <1>2 DEF TypeOK
        <2> QED
            BY <2>2, <2>4, <2>6, <2>7, <2>8, Finishes
    <1> QED
        BY <1>4, <1>5

LEMMA IncludeStep ==
    ASSUME IInv, NEW p \in Proc, NEW id \in Id, Include(p, id)
    PROVE  IInv'
    <1>1. /\ Up /\ pc[p] = "idle" /\ memory.refs[id] > 0 /\ memory' = Ref(memory, id)
          /\ UNCHANGED <<space, alive>>
        BY DEF Include, May, At, Up
    <1>2. /\ TypeOK /\ Fine(memory, space, Calling) /\ Typed(memory)
          /\ (\A q \in Proc : CallShape(q)) /\ Reserve
        BY <1>1, IInvFine
    <1>3. PICK o : o = [NoOp EXCEPT !.kind = "include", !.object = id]
        OBVIOUS
    <1>4. o = [kind |-> "include", size |-> 0, addr |-> 0, off |-> 0, object |-> id]
        BY <1>3 DEF NoOp
    <1>5. o \in Op /\ o.object = id
        BY <1>4, Constants DEF Op
    <1>6. /\ pc' \in [Proc -> Location] /\ pc'[p] = "included"
          /\ op' \in [Proc -> Op] /\ op'[p] = o
          /\ \A q \in Proc : q # p => pc'[q] = pc[q] /\ op'[q] = op[q]
          /\ SameBut(Calling, Calling', p) /\ Calling'[p] = id
        <2>1. pc' = [pc EXCEPT ![p] = "included"] /\ op' = [op EXCEPT ![p] = o]
            BY <1>3 DEF Include, Goto
        <2>2. "included" \in Location /\ "included" \in Holding
            BY DEF Location, Holding
        <2> QED
            BY <1>2, <1>5, <2>1, <2>2, CallMoves
    <1>7. Calling[p] \notin Id
        BY <1>1, <1>2, CallingFacts, Constants DEF Holding
    <1>8. Fine(Ref(memory, Calling'[p]), space, Calling')
        BY <1>1, <1>2, <1>6, <1>7, Callers, RefFine
    <1>9. Fine(memory', space', Calling') /\ Typed(memory') /\ space' \in [Proc -> Space]
        <2>1. Fine(memory', space', Calling')
            BY <1>1, <1>6, <1>8
        <2> QED
            BY <2>1, FineFacts
    <1>10. memory'.next = memory.next /\ memory'.range = memory.range
        BY <1>1, <1>2, RefTyped
    <1>11. \A q \in Proc : CallShape(q)'
        <2>1. KeepsSizes(memory, memory')
            BY <1>10 DEF KeepsSizes
        <2>2. CallShape(p)'
            BY <1>5, <1>6 DEF CallShape
        <2> QED
            BY <1>1, <1>2, <1>6, <1>9, <2>1, <2>2, ShapesKept
    <1>12. Reserve'
        <2>1. Creating' \subseteq Creating
            BY <1>6 DEF Creating
        <2> QED
            BY <1>2, <1>10, <2>1, FineFacts, ReserveKept
    <1>13. alive' \subseteq Proc
        BY <1>1, <1>2 DEF TypeOK
    <1> QED
        BY <1>6, <1>9, <1>11, <1>12, <1>13, Finishes

LEMMA IncludeStaleStep ==
    ASSUME IInv, NEW p \in Proc, IncludeStale(p)
    PROVE  IInv'
    <1>1. UNCHANGED <<space, pc, op>>
        BY DEF IncludeStale
    <1>2. CASE alive' = alive \ {p} /\ UNCHANGED memory
        BY <1>1, <1>2, AliveShrinks
    <1>3. CASE memory' = [memory EXCEPT !.state = "corrupt"] /\ UNCHANGED alive
        <2>1. TypeOK
            BY DEF IInv
        <2>2. memory' \in Memory /\ memory'.state = "corrupt" /\ memory'.used = memory.used
              /\ memory'.bet = memory.bet
            BY <1>3, <2>1 DEF TypeOK, Memory
        <2>3. Typed(memory')
            BY <2>1, <2>2 DEF TypeOK, Typed, Searchable
        <2> QED
            BY <1>1, <1>3, <2>1, <2>2, <2>3, Finishes DEF TypeOK, Up
    <1> QED
        BY <1>2, <1>3 DEF IncludeStale
-----------------------------------------------------------------------------
(* No call moves, and the space of p changes.                              *)
LEMMA SpaceStep ==
    ASSUME IInv, Up, NEW p \in Proc, NEW s, UNCHANGED <<pc, op>>, alive' \subseteq alive,
           Fine(memory', Put(space, p, s), Calling), s \in Space, space' = Put(space, p, s),
           KeepsSizes(memory, memory'), memory'.next = memory.next, CallShape(p)'
    PROVE  IInv'
    <1>1. /\ TypeOK /\ Fine(memory, space, Calling) /\ space \in [Proc -> Space]
          /\ (\A q \in Proc : CallShape(q)) /\ Reserve
        BY IInvFine
    <1>2. Calling' = Calling /\ Creating' = Creating
        BY DEF Calling, Creating
    <1>3. Fine(memory', space', Calling') /\ Typed(memory') /\ space' \in [Proc -> Space]
        <2>1. Fine(memory', space', Calling')
            BY <1>2
        <2> QED
            BY <2>1, FineFacts
    <1>4. \A q \in Proc : q # p => space'[q] = space[q]
        <2>1. PICK sp2 : sp2 = Put(space, p, s)
            OBVIOUS
        <2>2. \A q \in Proc : q # p => sp2[q] = space[q]
            BY <1>1, <2>1, SpacePut
        <2> QED
            BY <2>1, <2>2
    <1>5. \A q \in Proc : CallShape(q)'
        BY <1>1, <1>3, <1>4, ShapesKept
    <1>6. Reserve'
        BY <1>1, <1>2, FineFacts, ReserveKept
    <1>7. pc' \in [Proc -> Location] /\ op' \in [Proc -> Op] /\ alive' \subseteq Proc
        BY <1>1 DEF TypeOK
    <1> QED
        BY <1>3, <1>5, <1>6, <1>7, Finishes

LEMMA FreeStep ==
    ASSUME IInv, NEW p \in Proc, NEW addr \in Addr, NEW off \in Offset, Free(p, addr, off)
    PROVE  IInv'
    <1>1. PICK i : i = Least(MappedAt(space[p], addr, off))
        OBVIOUS
    <1>2. PICK k2, s2 : /\ k2 = Deref(memory, space[p].mappings[i].object)
                        /\ s2 = Unmap(space[p], i)
        OBVIOUS
    <1>3. /\ Up /\ pc[p] = "idle" /\ MappedAt(space[p], addr, off) # {}
          /\ memory' = k2 /\ UNCHANGED <<pc, op, alive>>
        BY <1>1, <1>2 DEF Free, May, At, Up
    <1>4. /\ TypeOK /\ Fine(memory, space, Calling) /\ space \in [Proc -> Space]
          /\ Calling[Extra] \notin Id
        BY <1>3, IInvFine
    <1>5. space' = Put(space, p, s2)
        BY <1>1, <1>2, <1>4 DEF Free, Put
    <1>6. i \in DOMAIN space[p].mappings
        <2>1. MappedAt(space[p], addr, off) \subseteq DOMAIN space[p].mappings
            BY DEF MappedAt
        <2>2. DOMAIN space[p].mappings \subseteq Nat
            BY <1>4, MappingFacts
        <2>3. MappedAt(space[p], addr, off) \subseteq Nat
            BY <2>1, <2>2
        <2> QED
            BY <1>1, <1>3, <2>1, <2>3, LeastIsLeast
    <1>7. Freed(memory, space, Calling, p, i, k2, s2)
        BY <1>2, <1>4, <1>6, FreeFine
    <1>8. /\ Fine(k2, Put(space, p, s2), Calling) /\ s2 \in Space
          /\ k2.next = memory.next /\ KeepsSizes(memory, k2)
        BY <1>7, DropsKeep DEF Freed, Unmaps
    <1>9. CallShape(p)'
        BY <1>3 DEF CallShape
    <1> QED
        BY <1>3, <1>5, <1>8, <1>9, SpaceStep

LEMMA DestroyStep ==
    ASSUME IInv, NEW p \in Proc, Destroy(p)
    PROVE  IInv'
    <1>1. PICK k2 : k2 = Destroyed(memory, space[p])
        OBVIOUS
    <1>2. Up /\ p \notin alive /\ memory' = k2 /\ UNCHANGED <<pc, op, alive>>
        BY <1>1 DEF Destroy, Up
    <1>3. /\ TypeOK /\ Fine(memory, space, Calling) /\ space \in [Proc -> Space]
          /\ Calling[Extra] \notin Id /\ CallShape(p)
        BY <1>2, IInvFine
    <1>4. space' = Put(space, p, Empty)
        BY <1>3 DEF Destroy, Put
    <1>5. /\ Fine(k2, Put(space, p, Empty), Calling) /\ k2.next = memory.next
          /\ Drops(memory, k2)
        BY <1>1, <1>3, DestroyedFine
    <1>6. KeepsSizes(memory, k2)
        BY <1>5, DropsKeep
    <1>7. CallShape(p)'
        <2>1. space'[p] = Empty
            BY <1>3, <1>4 DEF Put
        <2>2. \A addr, off, size : Fits(space[p], addr, off, size) => Fits(Empty, addr, off, size)
            <3>1. DOMAIN Empty.mappings = {}
                BY EmptyFacts
            <3> QED
                BY <3>1 DEF Fits
        <2>3. ASSUME pc[p] = "map_at"
              PROVE  memory'.range[op[p].object].size = memory.range[op[p].object].size
            <3>1. op[p].object \in Id /\ Calling[p] = op[p].object
                BY <1>3, <2>3, CallingFacts DEF CallShape, Holding
            <3>2. Counted(memory, space, Calling)
                BY <1>3, FineFacts
            <3>3. memory.refs[op[p].object] > 0
                BY <1>3, <3>1, <3>2, Callers, Referenced
            <3>4. PICK sp2 : sp2 = Put(space, p, Empty)
                OBVIOUS
            <3>5. Counted(k2, sp2, Calling) /\ sp2 \in [Proc -> Space]
                BY <1>5, <3>4, FineFacts
            <3>6. k2.refs[op[p].object] > 0
                BY <3>1, <3>5, Callers, Referenced
            <3> QED
                BY <1>2, <1>6, <3>1, <3>3, <3>6 DEF KeepsSizes
        <2> QED
            BY <1>2, <1>3, <2>1, <2>2, <2>3 DEF CallShape
    <1> QED
        BY <1>2, <1>4, <1>5, <1>6, <1>7, EmptyFacts, SpaceStep

LEMMA CancelStep ==
    ASSUME IInv, NEW p \in Proc, Cancel(p)
    PROVE  IInv'
    BY AliveShrinks DEF Cancel

LEMMA CloneStep ==
    ASSUME IInv, NEW p \in Proc, NEW q \in Proc, Clone(p, q)
    PROVE  IInv'
    <1>1. PICK n, made : /\ n = Len(space[p].mappings)
                         /\ made = CopiedTo(space[p], NewSpace(memory))
        OBVIOUS
    <1>2. /\ Up /\ pc[p] = "idle" /\ pc[q] = "unborn" /\ IdsLeft(n)
          /\ memory' = made.memory /\ pc' = [pc EXCEPT ![q] = "idle"]
          /\ alive' = alive \cup {q} /\ UNCHANGED op
        BY <1>1 DEF Clone, May, At, Up
    <1>3. /\ TypeOK /\ Fine(memory, space, Calling) /\ Typed(memory)
          /\ space \in [Proc -> Space] /\ Calling[Extra] \notin Id
          /\ (\A r \in Proc : CallShape(r)) /\ Reserve
        BY <1>2, IInvFine
    <1>4. space' = Put(space, q, made.space) /\ op' = [op EXCEPT ![q] = op[q]]
        BY <1>1, <1>2, <1>3 DEF Clone, Put, TypeOK
    <1>5. p # q /\ space[q] = Empty /\ Calling[q] = NoCall
        BY <1>2, <1>3, CallingFacts DEF CallShape, Holding
    <1>6. n \in Nat /\ memory.next \in Nat /\ Cardinality(Creating) \in Nat
          /\ IsFiniteSet(Creating) /\ memory.next + n + Cardinality(Creating) <= MaxId
        <2>1. memory.next \in Nat
            BY <1>3, FineFacts
        <2>2. n \in Nat
            BY <1>1, <1>3, MappingFacts
        <2>3. IsFiniteSet(Creating) /\ Cardinality(Creating) \in Nat
            BY <1>3, FS_CardinalityType DEF Reserve
        <2> QED
            BY <1>2, <2>1, <2>2, <2>3 DEF IdsLeft, Creating
    <1>7. Copying(memory, space, Calling, q, n, made)
        <2>1. memory.next + Len(space[p].mappings) <= MaxId
            BY <1>1, <1>6, Constants
        <2>2. Calling[q] \notin Id
            BY <1>5, Constants
        <2> QED
            BY <1>1, <1>3, <1>5, <2>1, <2>2, CopiedToFine
    <1>8. /\ made.space \in Space /\ Fine(made.memory, Put(space, q, made.space), Calling)
          /\ made.memory.state = "up" =>
                 /\ memory.next <= made.memory.next /\ made.memory.next <= memory.next + n
                 /\ \A j \in Id : j < memory.next => made.memory.range[j] = memory.range[j]
        BY <1>7 DEF Copying
    <1>9. /\ pc' \in [Proc -> Location] /\ pc'[q] = "idle"
          /\ op' \in [Proc -> Op] /\ op'[q] = op[q]
          /\ \A r \in Proc : r # q => pc'[r] = pc[r] /\ op'[r] = op[r]
          /\ SameBut(Calling, Calling', q) /\ Calling'[q] = NoCall
        <2>1. "idle" \in Location /\ "idle" \notin Holding /\ op[q] \in Op
            BY <1>3 DEF Location, Holding, TypeOK
        <2> QED
            BY <1>2, <1>3, <1>4, <2>1, CallMoves
    <1>10. Calling' = Calling
        BY <1>5, <1>9, Callers, SameCall
    <1>11. Fine(memory', space', Calling') /\ Typed(memory') /\ space' \in [Proc -> Space]
        <2>1. Fine(memory', space', Calling')
            BY <1>2, <1>4, <1>8, <1>10
        <2> QED
            BY <2>1, FineFacts
    <1>12. ASSUME Up'
           PROVE  (\A r \in Proc : CallShape(r)') /\ Reserve'
        <2>1. PICK k2 : k2 = made.memory
            OBVIOUS
        <2>2. /\ memory' = k2 /\ k2.next <= memory.next + n /\ k2.next \in Nat
              /\ \A j \in Id : j < memory.next => k2.range[j] = memory.range[j]
            <3>1. memory'.next \in Nat
                BY <1>11 DEF Typed, Memory
            <3> QED
                BY <1>2, <1>8, <1>12, <2>1, <3>1 DEF Up
        <2>3. KeepsSizes(memory, k2)
            <3>1. ASSUME NEW j \in Id, memory.refs[j] > 0
                  PROVE  j < memory.next
                <4>1. Objective(memory)
                    BY <1>3, FineFacts
                <4>2. ~(j >= memory.next)
                    BY <3>1, <4>1 DEF Objective
                <4> QED
                    BY <1>6, <4>2, Constants
            <3> QED
                BY <2>2, <3>1 DEF KeepsSizes
        <2>4. CallShape(q)'
            BY <1>9 DEF CallShape
        <2>5. \A r \in Proc : r # q => space'[r] = space[r]
            <3>1. PICK s : s = made.space
                OBVIOUS
            <3>2. s \in Space /\ space \in [Proc -> Space] /\ space' = Put(space, q, s)
                BY <1>3, <1>4, <1>8, <3>1
            <3>3. PICK sp2 : sp2 = Put(space, q, s)
                OBVIOUS
            <3>4. \A r \in Proc : r # q => sp2[r] = space[r]
                BY <3>2, <3>3, SpacePut
            <3> QED
                BY <3>2, <3>3, <3>4
        <2>6. \A r \in Proc : r # q => (r \in alive' => r \in alive)
            BY <1>2
        <2>7. \A r \in Proc : CallShape(r)'
            BY <1>3, <1>9, <1>11, <2>2, <2>3, <2>4, <2>5, <2>6, ShapesKept
        <2>8. Creating' = Creating
            BY <1>2, <1>9 DEF Creating
        <2>9. Reserve'
            <3>1. k2.next + Cardinality(Creating) <= MaxId
                BY <1>6, <2>2, Constants
            <3> QED
                BY <1>6, <2>2, <2>8, <3>1 DEF Reserve
        <2> QED
            BY <2>7, <2>9
    <1>13. alive' \subseteq Proc
        BY <1>2, <1>3 DEF TypeOK
    <1> QED
        BY <1>9, <1>11, <1>12, <1>13, Finishes

LEMMA Inductive ==
    IInv /\ [Next]_vars => IInv'
    <1> SUFFICES ASSUME IInv, [Next]_vars PROVE IInv'
        OBVIOUS
    <1>1. CASE UNCHANGED vars
        BY <1>1, AliveShrinks DEF vars
    <1>2. ASSUME NEW p \in Proc, Syscall(p)
          PROVE  IInv'
        BY <1>2, AllocStep, MapStep, FreeStep, IncludeStep, CloneStep DEF Syscall
    <1>3. ASSUME NEW p \in Proc, Run(p)
          PROVE  IInv'
        BY <1>3, CreateObjectStep, MapObjectStep, MapObjectAtStep, DropStep, IncludeCheckStep,
           IncludeStaleStep DEF Run
    <1> QED
        BY <1>1, <1>2, <1>3, CancelStep, DestroyStep DEF Next
-----------------------------------------------------------------------------
(* At the start each of the first processes has a page of its own.         *)
LEMMA FirstOwns ==
    /\ FirstOwn \in [First -> 1 .. Cardinality(First)]
    /\ \A p, q \in First : FirstOwn[p] = FirstOwn[q] => p = q
    /\ \A x \in 1 .. Cardinality(First) : \E p \in First : FirstOwn[p] = x
    /\ Cardinality(First) \in Nat
    <1>1. PICK n \in Nat : n = Cardinality(First) /\ IsFiniteSet(First)
        BY TaskMemoryAssumption, FS_CardinalityType
    <1>2. IsFiniteSet(1 .. n) /\ Cardinality(1 .. n) = n
        BY FS_Interval
    <1>3. ExistsBijection(First, 1 .. n)
        BY <1>1, <1>2, FS_SameCardinalityBij
    <1>4. \E own \in [First -> 1 .. n] : \A p, q \in First : own[p] = own[q] => p = q
        BY <1>3 DEF ExistsBijection, Bijection, Injection, IsInjective
    <1>5. /\ FirstOwn \in [First -> 1 .. n]
          /\ \A p, q \in First : FirstOwn[p] = FirstOwn[q] => p = q
        BY <1>1, <1>4 DEF FirstOwn
    <1>6. FirstOwn \in Injection(First, 1 .. n)
        BY <1>5 DEF Injection, IsInjective
    <1>7. FirstOwn \in Surjection(First, 1 .. n)
        BY <1>1, <1>2, <1>6, FS_Injection
    <1> QED
        BY <1>1, <1>5, <1>7 DEF Surjection

LEMMA Initial == Init => IInv
    <1> SUFFICES ASSUME Init PROVE IInv
        OBVIOUS
    <1>1. PICK n \in Nat : n = Cardinality(First) /\ n < Total
        BY FirstOwns, TaskMemoryAssumption
    <1>2. /\ memory = [used |-> 0 .. n, bet |-> n + 1, range |-> [i \in Id |-> Nowhere],
                       refs |-> [i \in Id |-> 0], next |-> 0, state |-> "up"]
          /\ space = [p \in Proc |-> IF p \in First THEN [Empty EXCEPT !.own = FirstOwn[p]]
                                     ELSE Empty]
          /\ pc = [p \in Proc |-> IF p \in First THEN "idle" ELSE "unborn"]
          /\ op = [p \in Proc |-> NoOp] /\ alive = First
        BY <1>1 DEF Init
    <1>3. /\ memory.used = 0 .. n /\ memory.bet = n + 1 /\ memory.next = 0
          /\ \A i \in Id : memory.refs[i] = 0 /\ memory.range[i] = Nowhere
        BY <1>2
    <1>4. Typed(memory)
        <2>1. Nowhere \in MemoryRange
            BY DEF Nowhere, MemoryRange
        <2>2. 0 .. n \subseteq Page
            BY <1>1, Constants
        <2>3. memory \in Memory
            BY <1>2, <2>1, <2>2 DEF Memory
        <2>4. \A i \in Page : i < memory.bet => i \in memory.used
            BY <1>3, Constants
        <2> QED
            BY <2>3, <2>4 DEF Typed, Searchable
    <1>5. ASSUME NEW p \in Proc
          PROVE  /\ space[p] \in Space /\ space[p].mappings = <<>>
                 /\ space[p].table = Empty.table /\ space[p].frame = Empty.frame
                 /\ p \in First => space[p].own = FirstOwn[p] /\ FirstOwn[p] \in Page
                 /\ p \notin First => space[p] = Empty
        <2>1. CASE p \in First
            <3>1. FirstOwn[p] \in 1 .. n
                BY <1>1, <2>1, FirstOwns
            <3>2. FirstOwn[p] \in Page
                BY <1>1, <3>1, Constants
            <3>3. PICK s : s = [Empty EXCEPT !.own = FirstOwn[p]]
                OBVIOUS
            <3>4. /\ s \in Space /\ s.mappings = Empty.mappings /\ s.own = FirstOwn[p]
                  /\ s.table = Empty.table /\ s.frame = Empty.frame
                BY <3>2, <3>3, EmptyFacts DEF Space
            <3> QED
                BY <1>2, <2>1, <3>2, <3>3, <3>4, EmptyFacts
        <2>2. CASE p \notin First
            BY <1>2, <2>2, EmptyFacts
        <2> QED
            BY <2>1, <2>2
    <1>6. TypeOK
        <2>1. space \in [Proc -> Space]
            BY <1>2, <1>5
        <2>2. pc \in [Proc -> Location] /\ alive \subseteq Proc
            BY <1>2, TaskMemoryAssumption DEF Location
        <2>3. NoOp \in Op
            BY DEF NoOp, Op
        <2> QED
            BY <1>2, <1>4, <2>1, <2>2, <2>3 DEF TypeOK, Typed, Searchable
    <1>7. Counted(memory, space, Calling)
        <2>1. \A c \in Caller : Calling[c] \notin Id
            BY <1>2, Constants DEF Calling, Holding
        <2>2. \A p \in Proc : DOMAIN space[p].mappings = {}
            BY <1>5
        <2>3. \A id \in Id : References(space, Calling, id) = {}
            BY <2>1, <2>2, ReferenceCases
        <2>4. IsFiniteSet({}) /\ Cardinality({}) = 0
            BY FS_EmptySet
        <2> QED
            BY <1>3, <2>3, <2>4 DEF Counted
    <1>8. \A p \in Proc : SpaceHas(space[p]) = IF p \in First THEN {FirstOwn[p]} ELSE {}
        <2>1. TablePages(Empty) \ {None} = {}
            BY EmptyFacts DEF SpaceHas
        <2>2. \A p \in Proc : TablePages(space[p]) = TablePages(Empty)
            BY <1>5 DEF TablePages
        <2>3. ASSUME NEW p \in Proc
              PROVE  SpaceHas(space[p]) = IF p \in First THEN {FirstOwn[p]} ELSE {}
            <3>1. CASE p \in First
                <4>1. space[p].own = FirstOwn[p] /\ FirstOwn[p] # None
                    BY <1>5, <3>1, Constants
                <4> QED
                    BY <2>1, <2>2, <3>1, <4>1 DEF SpaceHas
            <3>2. CASE p \notin First
                BY <1>5, <3>2, EmptyFacts
            <3> QED
                BY <3>1, <3>2
        <2> QED
            BY <2>3
    <1>9. Partition(memory.used, Has(memory, space))
        <2>1. PICK has : has = Has(memory, space)
            OBVIOUS
        <2>2. /\ \A id \in Id : <<"object", id>> \in Holder /\ has[<<"object", id>>] = {}
              /\ \A p \in Proc : /\ <<"space", p>> \in Holder
                                 /\ has[<<"space", p>>] = IF p \in First THEN {FirstOwn[p]} ELSE {}
              /\ <<"kernel", 0>> \in Holder /\ has[<<"kernel", 0>>] = {0}
              /\ \A h \in Holder : \/ \E id \in Id : h = <<"object", id>>
                                   \/ \E p \in Proc : h = <<"space", p>>
                                   \/ h = <<"kernel", 0>>
            <3>1. \A id \in Id : ObjectHas(memory, id) = {}
                BY <1>3 DEF ObjectHas
            <3> QED
                BY <1>8, <2>1, <3>1, HasFacts
        <2>3. \A p \in First : FirstOwn[p] \in 1 .. n
            BY <1>1, FirstOwns
        <2>4. ASSUME NEW h \in Holder, NEW x \in has[h]
              PROVE  \/ h = <<"kernel", 0>> /\ x = 0
                     \/ \E p \in First : h = <<"space", p>> /\ x = FirstOwn[p]
            <3>1. CASE \E id \in Id : h = <<"object", id>>
                BY <2>2, <3>1
            <3>2. CASE \E p \in Proc : h = <<"space", p>>
                <4>1. PICK p \in Proc : h = <<"space", p>>
                    BY <3>2
                <4>2. has[<<"space", p>>] = IF p \in First THEN {FirstOwn[p]} ELSE {}
                    BY <2>2
                <4>3. x \in has[<<"space", p>>]
                    BY <2>4, <4>1
                <4>4. p \in First /\ x = FirstOwn[p]
                    BY <4>2, <4>3
                <4> QED
                    BY <4>1, <4>4
            <3>3. CASE h = <<"kernel", 0>>
                <4>1. has[<<"kernel", 0>>] = {0} /\ x \in has[<<"kernel", 0>>]
                    BY <2>2, <2>4, <3>3
                <4> QED
                    BY <3>3, <4>1
            <3> QED
                BY <2>2, <3>1, <3>2, <3>3
        <2>5. ASSUME NEW x
              PROVE  x \in memory.used <=> \E h \in Holder : x \in has[h]
            <3>1. ASSUME x \in memory.used
                  PROVE  \E h \in Holder : x \in has[h]
                <4>1. CASE x = 0
                    BY <2>2, <4>1
                <4>2. CASE x # 0
                    <5>1. x \in 1 .. n
                        BY <1>3, <3>1, <4>2
                    <5>2. PICK p \in First : FirstOwn[p] = x
                        BY <1>1, <5>1, FirstOwns
                    <5>3. p \in Proc
                        BY TaskMemoryAssumption
                    <5> QED
                        BY <2>2, <5>2, <5>3
                <4> QED
                    BY <4>1, <4>2
            <3>2. ASSUME NEW h \in Holder, x \in has[h]
                  PROVE  x \in memory.used
                <4>1. x = 0 \/ x \in 1 .. n
                    BY <2>3, <2>4, <3>2
                <4> QED
                    BY <1>3, <4>1
            <3> QED
                BY <3>1, <3>2
        <2>6. ASSUME NEW g \in Holder, NEW h \in Holder, NEW x \in has[g], x \in has[h]
              PROVE  g = h
            <3>1. \A k \in Holder : x \in has[k] =>
                      \/ k = <<"kernel", 0>> /\ x = 0
                      \/ \E p \in First : k = <<"space", p>> /\ x = FirstOwn[p]
                BY <2>4
            <3>2. \A p \in First : FirstOwn[p] # 0
                BY <2>3
            <3>3. \A p, q \in First : FirstOwn[p] = FirstOwn[q] => p = q
                BY FirstOwns
            <3> QED
                BY <2>6, <3>1, <3>2, <3>3
        <2>7. \A g, h \in Holder : g # h => has[g] \cap has[h] = {}
            BY <2>6
        <2> QED
            BY <2>1, <2>5, <2>7 DEF Partition
    <1>10. Objective(memory)
        BY <1>3 DEF Objective
    <1>11. \A p \in Proc : Shown(memory, space[p])
        <2>1. ASSUME NEW p \in Proc
              PROVE  Shown(memory, space[p])
            <3>1. space[p].mappings = Empty.mappings /\ space[p].frame = Empty.frame
                BY <1>5, EmptyFacts
            <3>2. DOMAIN space[p].mappings = {} /\ \A v \in Addr : space[p].frame[v] = None
                BY <3>1 DEF Empty
            <3> QED
                BY <3>2 DEF Shown
        <2> QED
            BY <2>1
    <1>12. \A p \in Proc : CallShape(p)
        <2>1. \A p \in Proc : /\ pc[p] \in {"idle", "unborn"}
                              /\ pc[p] = "unborn" => p \notin alive
            BY <1>2
        <2>2. \A p \in Proc : pc[p] = "unborn" => space[p] = Empty
            BY <1>2
        <2> QED
            BY <2>1, <2>2 DEF CallShape
    <1>13. Reserve
        <2>1. Creating = {}
            BY <1>2 DEF Creating
        <2>2. IsFiniteSet(Creating) /\ Cardinality(Creating) = 0
            BY <2>1, FS_EmptySet
        <2> QED
            BY <1>3, <2>2, Constants DEF Reserve
    <1> QED
        BY <1>6, <1>7, <1>9, <1>10, <1>11, <1>12, <1>13 DEF IInv, Sound
-----------------------------------------------------------------------------
(* The inductive invariant holds in every state, whatever the number of    *)
(* pages, addresses, processes and objects.                                *)
THEOREM Invariance == Spec => []IInv
    BY Initial, Inductive, PTL DEF Spec

(* Every variable has its type, and no search for pages misses one that is *)
(* free: physical_set_used and physical_set_free keep best_bet low enough. *)
THEOREM TypeCorrect == Spec => []TypeOK
    <1>1. IInv => TypeOK
        BY DEF IInv
    <1> QED
        BY <1>1, Invariance, PTL

(* No page is given twice and none is lost, through every interleaving of  *)
(* the calls, their deaths and what task_destroy gives back.               *)
THEOREM HolderCorrect == Spec => []PagesHaveOneHolder
    <1>1. IInv => PagesHaveOneHolder
        <2> SUFFICES ASSUME IInv, Up PROVE PagesHaveOneHolder
            BY DEF PagesHaveOneHolder
        <2>1. Partition(memory.used, Has(memory, space))
            BY IInvFine, FineFacts
        <2>2. PICK has : has = Has(memory, space)
            OBVIOUS
        <2>3. ASSUME NEW id \in Objects
              PROVE  /\ <<"object", id>> \in Holder /\ PagesOf([id |-> id]) = has[<<"object", id>>]
            BY <2>2, HasFacts DEF Objects, PagesOf, ObjectPages, ObjectHas
        <2>4. ASSUME NEW p \in Proc
              PROVE  /\ <<"space", p>> \in Holder /\ PagesOf([proc |-> p]) = has[<<"space", p>>]
            <3>1. [proc |-> p] \notin [id : Objects]
                OBVIOUS
            <3> QED
                BY <2>2, <3>1, HasFacts DEF PagesOf, OwnPages, SpaceHas
        <2>5. /\ <<"kernel", 0>> \in Holder /\ PagesOf([kernel |-> 0]) = has[<<"kernel", 0>>]
            <3>1. [kernel |-> 0] \notin [id : Objects] /\ [kernel |-> 0] \notin [proc : Proc]
                OBVIOUS
            <3> QED
                BY <2>2, <3>1, HasFacts DEF PagesOf
        <2>6. ASSUME NEW g \in Holders
              PROVE  \/ \E id \in Objects : g = [id |-> id]
                     \/ \E p \in Proc : g = [proc |-> p]
                     \/ g = [kernel |-> 0]
            BY DEF Holders
        <2>7. memory.used = UNION {PagesOf(h) : h \in Holders}
            <3>1. ASSUME NEW x \in memory.used
                  PROVE  \E h \in Holders : x \in PagesOf(h)
                <4>1. PICK h \in Holder : x \in has[h]
                    BY <2>1, <2>2 DEF Partition
                <4>2. CASE \E id \in Id : h = <<"object", id>>
                    <5>1. PICK id \in Id : h = <<"object", id>>
                        BY <4>2
                    <5>2. x \in ObjectHas(memory, id)
                        BY <2>2, <4>1, <5>1, HasFacts
                    <5>3. id \in Objects
                        BY <5>2 DEF ObjectHas, Objects
                    <5>4. [id |-> id] \in Holders
                        BY <5>3 DEF Holders
                    <5> QED
                        BY <2>3, <4>1, <5>1, <5>3, <5>4
                <4>3. CASE \E p \in Proc : h = <<"space", p>>
                    <5>1. PICK p \in Proc : h = <<"space", p>>
                        BY <4>3
                    <5>2. [proc |-> p] \in Holders
                        BY DEF Holders
                    <5> QED
                        BY <2>4, <4>1, <5>1, <5>2
                <4>4. CASE h = <<"kernel", 0>>
                    <5>1. [kernel |-> 0] \in Holders
                        BY DEF Holders
                    <5> QED
                        BY <2>5, <4>1, <4>4, <5>1
                <4> QED
                    BY <4>2, <4>3, <4>4, HasFacts
            <3>2. ASSUME NEW g \in Holders, NEW x \in PagesOf(g)
                  PROVE  x \in memory.used
                <4>1. PICK h \in Holder : PagesOf(g) = has[h]
                    BY <2>3, <2>4, <2>5, <2>6
                <4> QED
                    BY <2>1, <2>2, <3>2, <4>1 DEF Partition
            <3> QED
                BY <3>1, <3>2
        <2> DEFINE Named(h) == CASE h[1] = "object" -> [id |-> h[2]]
                                 [] h[1] = "space" -> [proc |-> h[2]]
                                 [] OTHER -> [kernel |-> 0]
        <2>8. ASSUME NEW g \in Holders
              PROVE  \E h \in Holder : PagesOf(g) = has[h] /\ g = Named(h)
            <3>1. CASE \E id \in Objects : g = [id |-> id]
                <4>1. PICK id \in Objects : g = [id |-> id]
                    BY <3>1
                <4>2. PICK h : h = <<"object", id>>
                    OBVIOUS
                <4>3. h \in Holder /\ PagesOf(g) = has[h] /\ h[1] = "object" /\ h[2] = id
                    BY <2>3, <4>1, <4>2
                <4> QED
                    BY <4>1, <4>3
            <3>2. CASE \E p \in Proc : g = [proc |-> p]
                <4>1. PICK p \in Proc : g = [proc |-> p]
                    BY <3>2
                <4>2. PICK h : h = <<"space", p>>
                    OBVIOUS
                <4>3. h \in Holder /\ PagesOf(g) = has[h] /\ h[1] = "space" /\ h[2] = p
                    BY <2>4, <4>1, <4>2
                <4> QED
                    BY <4>1, <4>3
            <3>3. CASE g = [kernel |-> 0]
                <4>1. PICK h : h = <<"kernel", 0>>
                    OBVIOUS
                <4>2. h \in Holder /\ PagesOf(g) = has[h] /\ h[1] = "kernel"
                    BY <2>5, <3>3, <4>1
                <4> QED
                    BY <3>3, <4>2
            <3> QED
                BY <2>6, <3>1, <3>2, <3>3
        <2> HIDE DEF Named
        <2>9. ASSUME NEW g \in Holders, NEW h \in Holders, g # h
              PROVE  PagesOf(g) \cap PagesOf(h) = {}
            <3>1. PICK gg \in Holder, hh \in Holder :
                      /\ PagesOf(g) = has[gg] /\ PagesOf(h) = has[hh] /\ gg # hh
                <4>1. PICK gg \in Holder, hh \in Holder :
                          /\ PagesOf(g) = has[gg] /\ PagesOf(h) = has[hh]
                          /\ g = Named(gg) /\ h = Named(hh)
                    BY <2>8
                <4> QED
                    BY <2>9, <4>1
            <3> QED
                BY <2>1, <2>2, <3>1 DEF Partition
        <2> QED
            BY <2>7, <2>9 DEF PagesHaveOneHolder
    <1> QED
        BY <1>1, Invariance, PTL

(* The reference count of an object is the number of mappings and of calls *)
(* that use it.                                                            *)
THEOREM ReferencesCorrect == Spec => []ReferencesCounted
    <1>1. IInv => ReferencesCounted
        <2> SUFFICES ASSUME IInv, Up, NEW id \in Id
                     PROVE  memory.refs[id] =
                                Cardinality(UNION {MappingsOf(p, id) : p \in Proc})
                                + Cardinality({p \in Proc : InCall(p, id) = 1})
            BY DEF ReferencesCounted
        <2>1. PICK R, M, P : /\ R = References(space, Calling, id)
                             /\ M = UNION {MappingsOf(p, id) : p \in Proc}
                             /\ P = {p \in Proc : InCall(p, id) = 1}
            OBVIOUS
        <2>2. /\ TypeOK /\ space \in [Proc -> Space] /\ IsFiniteSet(R)
              /\ memory.refs[id] = Cardinality(R) /\ Calling[Extra] \notin Id
            BY <2>1, IInvFine, FineFacts DEF Counted
        <2>3. PICK C : C = {<<p, 0>> : p \in P}
            OBVIOUS
        <2>4. \A p \in Proc : Calling[p] = id <=> p \in P
            <3>1. ASSUME NEW p \in Proc
                  PROVE  Calling[p] = id <=> p \in P
                <4>1. p \in P <=> pc[p] \in Holding /\ op[p].object = id
                    BY <2>1 DEF InCall, Holding
                <4> QED
                    BY <2>2, <4>1, CallingFacts, Constants
            <3> QED
                BY <3>1
        <2>5. R = M \cup C
            <3>1. ASSUME NEW r \in R
                  PROVE  r \in M \cup C
                <4>1. CASE \E c \in Caller : r = <<c, 0>> /\ Calling[c] = id
                    <5>1. PICK c \in Caller : r = <<c, 0>> /\ Calling[c] = id
                        BY <4>1
                    <5>2. c \in Proc
                        BY <2>2, <5>1 DEF Caller
                    <5> QED
                        BY <2>3, <2>4, <5>1, <5>2
                <4>2. CASE \E p \in Proc : \E i \in DOMAIN space[p].mappings :
                               /\ i \in Nat /\ i # 0 /\ r = <<p, i>>
                               /\ space[p].mappings[i].object = id
                    BY <2>1, <4>2 DEF MappingsOf
                <4> QED
                    BY <2>1, <4>1, <4>2, ReferenceCases
            <3>2. ASSUME NEW r \in M
                  PROVE  r \in R
                <4>1. PICK p \in Proc : r \in MappingsOf(p, id)
                    BY <2>1
                <4>2. PICK i \in DOMAIN space[p].mappings :
                          r = <<p, i>> /\ space[p].mappings[i].object = id
                    BY <4>1 DEF MappingsOf
                <4>3. <<p, i>> \in References(space, Calling, id)
                    BY <2>2, <4>2, MappingReference
                <4> QED
                    BY <2>1, <4>2, <4>3
            <3>3. ASSUME NEW r \in C
                  PROVE  r \in R
                <4>1. PICK p \in P : r = <<p, 0>>
                    BY <2>3
                <4>2. p \in Proc /\ Calling[p] = id
                    BY <2>1, <2>4
                <4>3. <<p, 0>> \in References(space, Calling, id)
                    BY <4>2, Callers, CallReference
                <4> QED
                    BY <2>1, <4>1, <4>3
            <3> QED
                BY <3>1, <3>2, <3>3
        <2>6. M \cap C = {}
            <3>1. ASSUME NEW r \in M, r \in C
                  PROVE  FALSE
                <4>1. PICK p \in Proc : r \in MappingsOf(p, id)
                    BY <2>1, <3>1
                <4>2. PICK i \in DOMAIN space[p].mappings : r = <<p, i>>
                    BY <4>1 DEF MappingsOf
                <4>3. i # 0
                    BY <2>2, <4>2, MappingFacts
                <4>4. PICK q \in P : r = <<q, 0>>
                    BY <2>3, <3>1
                <4> QED
                    BY <4>2, <4>3, <4>4
            <3> QED
                BY <3>1
        <2>7. IsFiniteSet(M) /\ IsFiniteSet(C)
            <3>1. M \subseteq R /\ C \subseteq R
                BY <2>5
            <3> QED
                BY <2>2, <3>1, FS_Subset
        <2>8. Cardinality(R) = Cardinality(M) + Cardinality(C)
            <3>1. /\ Cardinality(M \cup C)
                         = Cardinality(M) + Cardinality(C) - Cardinality(M \cap C)
                BY <2>7, FS_Union
            <3>2. Cardinality(M \cap C) = 0
                BY <2>6, FS_EmptySet
            <3>3. Cardinality(M) \in Nat /\ Cardinality(C) \in Nat
                BY <2>7, FS_CardinalityType
            <3> QED
                BY <2>5, <3>1, <3>2, <3>3
        <2>9. Cardinality(P) = Cardinality(C)
            <3>1. PICK g, h : g = [r \in C |-> r[1]] /\ h = [p \in P |-> <<p, 0>>]
                OBVIOUS
            <3>2. \A p \in P : h[p] \in C /\ h[p][1] = p
                BY <2>3, <3>1
            <3>3. \A r \in C : g[r] \in P /\ r = <<g[r], 0>>
                BY <2>3, <3>1
            <3>4. g \in [C -> P] /\ h \in [P -> C]
                BY <3>1, <3>2, <3>3
            <3>5. \A r \in C : h[g[r]] = r
                BY <3>1, <3>3
            <3>6. \A p \in P : g[h[p]] = p
                BY <3>1, <3>2
            <3> QED
                BY <2>7, <3>4, <3>5, <3>6, Bijected
        <2> QED
            BY <2>1, <2>2, <2>8, <2>9
    <1> QED
        BY <1>1, Invariance, PTL

(* A page table entry leads to the page, at the same place, of the object  *)
(* that the process has mapped there.                                      *)
THEOREM ReachableCorrect == Spec => []ReachableIsMapped
    <1>1. IInv => ReachableIsMapped
        <2> SUFFICES ASSUME IInv, Up PROVE ReachableIsMapped
            BY DEF ReachableIsMapped
        <2>1. \A p \in Proc : Shown(memory, space[p])
            BY IInvFine, FineFacts
        <2> QED
            BY <2>1 DEF ReachableIsMapped, Shown, Covers, Leads
    <1> QED
        BY <1>1, Invariance, PTL
=============================================================================
