---------------------------- MODULE PipeProofs ------------------------------
(***************************************************************************)
(* The invariants of the pipe and that it is a bounded queue, proved for   *)
(* any buffer, any number of processes and any sizes of reads and writes.  *)
(***************************************************************************)
EXTENDS PipeProps, FiniteSetTheorems, SequenceTheorems, TLAPS

(* An index that is at most one turn away, in the buffer. *)
Turn(x) == IF x < 0 THEN x + Size ELSE IF x < Size THEN x ELSE x - Size

LEMMA Wraps ==
    ASSUME NEW x \in Int, -Size <= x, x < 2 * Size
    PROVE  x % Size = Turn(x) /\ Turn(x) \in Slot
    <1>1. CASE x < 0
        BY <1>1, SizeAssumption DEF Turn, Slot
    <1>2. CASE 0 <= x /\ x < Size
        BY <1>2, SizeAssumption DEF Turn, Slot
    <1>3. CASE Size <= x
        BY <1>3, SizeAssumption DEF Turn, Slot
    <1> QED
        BY <1>1, <1>2, <1>3, SizeAssumption

LEMMA RingShape ==
    ASSUME NEW B, NEW r \in RingOver(B)
    PROVE  /\ r.buffer \in [Slot -> B] /\ r.head \in Slot /\ r.tail \in Slot /\ r.used \in 0 .. Size
           /\ r = [buffer |-> r.buffer, head |-> r.head, tail |-> r.tail, used |-> r.used]
    BY DEF RingOver

(* The next value goes behind the last one. *)
Linked(r) == r.head = Turn(r.tail + r.used)

(* Two sequences of the same length and values are the same. *)
LEMMA SameSequence ==
    ASSUME NEW S, NEW s \in Seq(S), NEW t \in Seq(S), Len(s) = Len(t),
           \A i \in 1 .. Len(s) : s[i] = t[i]
    PROVE  s = t
    OBVIOUS

LEMMA ContentsShape ==
    ASSUME NEW B, NEW r \in RingOver(B)
    PROVE  /\ Contents(r) \in Seq(B) /\ Len(Contents(r)) = r.used
           /\ \A i \in 1 .. r.used : Contents(r)[i] = r.buffer[Turn(r.tail + i - 1)]
    <1> DEFINE at(i) == r.buffer[(r.tail + i - 1) % Size]
    <1>1. /\ r.used \in Nat /\ r.used <= Size /\ r.tail \in Slot /\ r.buffer \in [Slot -> B]
        BY RingShape, SizeAssumption
    <1>2. ASSUME NEW i \in 1 .. r.used
          PROVE  at(i) = r.buffer[Turn(r.tail + i - 1)] /\ at(i) \in B
        <2> DEFINE x == r.tail + i - 1
        <2>1. x \in Int /\ -Size <= x /\ x < 2 * Size
            BY <1>1, SizeAssumption DEF Slot
        <2> HIDE DEF x
        <2>2. x % Size = Turn(x) /\ Turn(x) \in Slot
            BY <2>1, Wraps
        <2> QED
            BY <1>1, <2>2 DEF x
    <1>3. Contents(r) = [i \in 1 .. r.used |-> at(i)]
        BY DEF Contents, Gotten
    <1> HIDE DEF at
    <1> QED
        BY <1>1, <1>2, <1>3

LEMMA PutAllShape ==
    ASSUME NEW B, NEW r \in RingOver(B), Linked(r), NEW v, NEW k \in 0 .. Size - r.used,
           \A i \in 1 .. k : v[i] \in B
    PROVE  /\ PutAll(r, v, k) \in RingOver(B)
           /\ Linked(PutAll(r, v, k))
           /\ PutAll(r, v, k).tail = r.tail /\ PutAll(r, v, k).used = r.used + k
           /\ \A i \in Slot : PutAll(r, v, k).buffer[i] =
                  LET j == Turn(i - r.head) IN IF j < k THEN v[j + 1] ELSE r.buffer[i]
    <1> DEFINE q == PutAll(r, v, k)
               at(i) == LET j == (i - r.head) % Size IN IF j < k THEN v[j + 1] ELSE r.buffer[i]
    <1>1. /\ r.buffer \in [Slot -> B] /\ r.head \in Slot /\ r.tail \in Slot /\ r.used \in 0 .. Size
          /\ k \in Nat
        BY RingShape, SizeAssumption
    <1>2. ASSUME NEW i \in Slot
          PROVE  /\ at(i) = LET j == Turn(i - r.head) IN IF j < k THEN v[j + 1] ELSE r.buffer[i]
                 /\ at(i) \in B
        <2> DEFINE x == i - r.head
        <2>1. x \in Int /\ -Size <= x /\ x < 2 * Size
            BY <1>1, SizeAssumption DEF Slot
        <2> HIDE DEF x
        <2>2. x % Size = Turn(x) /\ Turn(x) \in Slot
            BY <2>1, Wraps
        <2>3. at(i) = IF Turn(x) < k THEN v[Turn(x) + 1] ELSE r.buffer[i]
            BY <2>2 DEF x
        <2>4. at(i) \in B
            BY <1>1, <2>2, <2>3, SizeAssumption DEF Slot
        <2> QED
            BY <2>3, <2>4 DEF x
    <1>3. (r.head + k) % Size = Turn(r.head + k) /\ Turn(r.head + k) \in Slot
        <2> DEFINE x == r.head + k
        <2>1. x \in Int /\ -Size <= x /\ x < 2 * Size
            BY <1>1, SizeAssumption DEF Slot
        <2> HIDE DEF x
        <2> QED
            BY <2>1, Wraps DEF x
    <1>4. q = [buffer |-> [i \in Slot |-> at(i)],
               head |-> Turn(r.head + k), tail |-> r.tail, used |-> r.used + k]
        <2>1. q = [r EXCEPT !.buffer = [i \in Slot |-> at(i)], !.head = (@ + k) % Size,
                            !.used = @ + k]
            BY DEF PutAll
        <2> HIDE DEF q, at
        <2>2. q = [r EXCEPT !.buffer = [i \in Slot |-> at(i)], !.head = Turn(r.head + k),
                            !.used = @ + k]
            BY <1>3, <2>1
        <2> QED
            BY <2>2 DEF RingOver
    <1>5. Turn(r.head + k) = Turn(r.tail + (r.used + k))
        BY <1>1, SizeAssumption DEF Linked, Turn, Slot
    <1>6. r.used + k \in 0 .. Size
        BY <1>1, SizeAssumption
    <1> HIDE DEF at
    <1>7. [i \in Slot |-> at(i)] \in [Slot -> B]
        BY <1>2
    <1> QED
        BY <1>1, <1>2, <1>3, <1>4, <1>5, <1>6, <1>7 DEF RingOver, Linked

LEMMA PutAllContents ==
    ASSUME NEW B, NEW r \in RingOver(B), Linked(r), NEW v, NEW k \in 0 .. Size - r.used,
           \A i \in 1 .. k : v[i] \in B
    PROVE  Contents(PutAll(r, v, k)) = Contents(r) \o [i \in 1 .. k |-> v[i]]
    <1> DEFINE q == PutAll(r, v, k)
               w == [i \in 1 .. k |-> v[i]]
    <1>1. /\ r.buffer \in [Slot -> B] /\ r.head \in Slot /\ r.tail \in Slot /\ r.used \in 0 .. Size
          /\ k \in Nat
        BY RingShape, SizeAssumption
    <1>2. w \in Seq(B) /\ Len(w) = k /\ \A i \in 1 .. k : w[i] = v[i]
        BY <1>1
    <1>3. /\ q \in RingOver(B) /\ q.used = r.used + k /\ q.tail = r.tail
          /\ \A i \in Slot : q.buffer[i] =
                 LET j == Turn(i - r.head) IN IF j < k THEN v[j + 1] ELSE r.buffer[i]
        BY PutAllShape
    <1> HIDE DEF q
    <1>4. /\ Contents(q) \in Seq(B) /\ Len(Contents(q)) = r.used + k
          /\ \A i \in 1 .. r.used + k : Contents(q)[i] = q.buffer[Turn(r.tail + i - 1)]
        BY <1>3, ContentsShape
    <1>5. /\ Contents(r) \in Seq(B) /\ Len(Contents(r)) = r.used
          /\ \A i \in 1 .. r.used : Contents(r)[i] = r.buffer[Turn(r.tail + i - 1)]
        BY ContentsShape
    <1>6. ASSUME NEW i \in 1 .. r.used + k
          PROVE  Contents(q)[i] = IF i <= r.used THEN Contents(r)[i] ELSE v[i - r.used]
        <2> DEFINE m == Turn(r.tail + i - 1)
                   j == Turn(m - r.head)
        <2>1. m \in Slot
            BY <1>1, SizeAssumption DEF Slot, Turn
        <2>2. j = IF i <= r.used THEN Size + i - 1 - r.used ELSE i - 1 - r.used
            <3>1. /\ r.tail \in Int /\ 0 <= r.tail /\ r.tail < Size
                  /\ r.used \in Int /\ 0 <= r.used /\ r.used + k <= Size
                  /\ i \in Int /\ 1 <= i /\ i <= r.used + k
                BY <1>1, SizeAssumption DEF Slot
            <3>2. r.head = Turn(r.tail + r.used)
                BY DEF Linked
            <3> QED
                BY <1>1, <3>1, <3>2, SizeAssumption DEF Turn
        <2>5. q.buffer[m] = IF j < k THEN v[j + 1] ELSE r.buffer[m]
            <3> HIDE DEF m
            <3> QED
                BY <1>3, <2>1
        <2> HIDE DEF j
        <2>3. CASE i <= r.used
            <3>1. ~(j < k)
                BY <1>1, <2>2, <2>3, SizeAssumption
            <3> QED
                BY <1>1, <1>4, <1>5, <2>5, <2>3, <3>1
        <2>4. CASE ~(i <= r.used)
            <3>1. j < k /\ j + 1 = i - r.used
                BY <1>1, <2>2, <2>4, SizeAssumption
            <3> QED
                BY <1>1, <1>4, <2>5, <2>4, <3>1
        <2> QED
            BY <2>3, <2>4
    <1> HIDE DEF w
    <1>7. /\ Contents(r) \o w \in Seq(B) /\ Len(Contents(r) \o w) = r.used + k
          /\ \A i \in 1 .. r.used + k :
                 (Contents(r) \o w)[i] = IF i <= r.used THEN Contents(r)[i] ELSE w[i - r.used]
        <2> DEFINE c == Contents(r)
        <2>1. c \in Seq(B) /\ Len(c) = r.used
            BY <1>5
        <2> HIDE DEF c
        <2>2. /\ c \o w \in Seq(B) /\ Len(c \o w) = Len(c) + Len(w)
              /\ \A i \in 1 .. Len(c) + Len(w) :
                     (c \o w)[i] = IF i <= Len(c) THEN c[i] ELSE w[i - Len(c)]
            BY <1>2, <2>1, ConcatProperties
        <2> QED
            BY <1>2, <2>1, <2>2 DEF c
    <1>8. ASSUME NEW i \in 1 .. r.used + k
          PROVE  Contents(q)[i] = (Contents(r) \o w)[i]
        <2>1. CASE i <= r.used
            BY <1>6, <1>7, <2>1
        <2>2. CASE ~(i <= r.used)
            <3>1. w[i - r.used] = v[i - r.used]
                BY <1>1, <1>2, <2>2
            <3>2. Contents(q)[i] = v[i - r.used]
                BY <1>6, <2>2
            <3>3. (Contents(r) \o w)[i] = w[i - r.used]
                BY <1>7, <2>2
            <3> QED
                BY <3>1, <3>2, <3>3
        <2> QED
            BY <2>1, <2>2
    <1>9. Contents(q) = Contents(r) \o w
        BY <1>1, <1>4, <1>7, <1>8, SameSequence
    <1> QED
        BY <1>9 DEF q, w

LEMMA GetAllShape ==
    ASSUME NEW B, NEW r \in RingOver(B), Linked(r), NEW k \in 0 .. r.used
    PROVE  /\ GetAll(r, k) \in RingOver(B)
           /\ Linked(GetAll(r, k))
           /\ Contents(GetAll(r, k)) = SubSeq(Contents(r), k + 1, Len(Contents(r)))
    <1> DEFINE q == GetAll(r, k)
    <1>1. /\ r.buffer \in [Slot -> B] /\ r.head \in Slot /\ r.tail \in Slot /\ r.used \in 0 .. Size
          /\ k \in Nat
        BY RingShape, SizeAssumption
    <1>2. (r.tail + k) % Size = Turn(r.tail + k) /\ Turn(r.tail + k) \in Slot
        <2> DEFINE x == r.tail + k
        <2>1. x \in Int /\ -Size <= x /\ x < 2 * Size
            BY <1>1, SizeAssumption DEF Slot
        <2> HIDE DEF x
        <2> QED
            BY <2>1, Wraps DEF x
    <1>3. q = [buffer |-> r.buffer, head |-> r.head, tail |-> Turn(r.tail + k),
               used |-> r.used - k]
        <2>1. q = [r EXCEPT !.tail = (@ + k) % Size, !.used = @ - k]
            BY DEF GetAll
        <2> HIDE DEF q
        <2>2. q = [r EXCEPT !.tail = Turn(r.tail + k), !.used = @ - k]
            BY <1>2, <2>1
        <2> QED
            BY <2>2 DEF RingOver
    <1>4. q \in RingOver(B)
        BY <1>1, <1>2, <1>3, SizeAssumption DEF RingOver
    <1>5. Linked(q)
        BY <1>1, <1>3, SizeAssumption DEF Linked, Turn, Slot
    <1>6. /\ q.buffer = r.buffer /\ q.tail = Turn(r.tail + k) /\ q.used = r.used - k
        BY <1>3
    <1> HIDE DEF q
    <1>7. /\ Contents(q) \in Seq(B) /\ Len(Contents(q)) = r.used - k
          /\ \A i \in 1 .. r.used - k : Contents(q)[i] = r.buffer[Turn(Turn(r.tail + k) + i - 1)]
        BY <1>4, <1>6, ContentsShape
    <1>8. /\ Contents(r) \in Seq(B) /\ Len(Contents(r)) = r.used
          /\ \A i \in 1 .. r.used : Contents(r)[i] = r.buffer[Turn(r.tail + i - 1)]
        BY ContentsShape
    <1> DEFINE s == SubSeq(Contents(r), k + 1, Len(Contents(r)))
    <1>9. /\ s \in Seq(B) /\ Len(s) = r.used - k
          /\ \A i \in 1 .. r.used - k : s[i] = Contents(r)[k + i]
        BY <1>1, <1>8
    <1> HIDE DEF s
    <1>10. \A i \in 1 .. r.used - k : Contents(q)[i] = s[i]
        <2> SUFFICES ASSUME NEW i \in 1 .. r.used - k
                     PROVE  Contents(q)[i] = s[i]
            OBVIOUS
        <2>1. Turn(Turn(r.tail + k) + i - 1) = Turn(r.tail + (k + i) - 1)
            BY <1>1, SizeAssumption DEF Slot, Turn
        <2>2. k + i \in 1 .. r.used
            BY <1>1
        <2> QED
            BY <1>7, <1>8, <1>9, <2>1, <2>2
    <1>11. Contents(q) = s
        BY <1>1, <1>7, <1>9, <1>10, SameSequence
    <1> QED
        BY <1>4, <1>5, <1>11 DEF q, s
-----------------------------------------------------------------------------
(* TypeOK in two parts: what the pipe and the calls are made of ... *)
Typed ==
    /\ ring \in RingOver(Byte)
    /\ owner \in Proc \cup {Nobody}
    /\ count \in [End -> Nat]
    /\ table \in [Proc -> SUBSET End]
    /\ pc \in [Proc -> Location]
    /\ op \in [Proc -> Op]
    /\ sent \in [Proc -> 0 .. MaxBytes]
    /\ alive \subseteq Proc
    /\ hung \in BOOLEAN

(* ... and who may run, and whom the collector may find. *)
Mode == kept \in BOOLEAN /\ masked \in Proc \cup {Nobody} /\ clones \subseteq Proc

LEMMA ModeStep == Mode /\ [Next]_vars => Mode'
    <1> SUFFICES ASSUME Mode, [Next]_vars
                 PROVE  Mode'
        OBVIOUS
    <1>1. CASE UNCHANGED vars
        BY <1>1 DEF vars, Mode
    <1>2. CASE SystemWaits
        BY <1>2 DEF SystemWaits, Mode
    <1>3. ASSUME NEW p \in Proc, Syscall(p)
          PROVE  Mode'
        <2>1. kept' = kept /\ masked' \in {Nobody, p, masked}
            BY <1>3 DEF Syscall, Interrupts
        <2>2. clones' = clones \/ \E q \in Proc : clones' = clones \cup {q}
            BY <1>3 DEF Syscall, Read, Write, Close, Launch, Clone
        <2> QED
            BY <2>1, <2>2 DEF Mode
    <1>4. ASSUME NEW p \in Proc, Run(p)
          PROVE  Mode'
        <2>1. kept' = kept /\ masked' \in {Nobody, p, masked}
            BY <1>4 DEF Run, Interrupts
        <2>2. clones' = clones
            BY <1>4 DEF Run, Enter, UseRead, UseWrite, Release, Pass, Acquire, Hang, Go, Deref
        <2> QED
            BY <2>1, <2>2 DEF Mode
    <1>5. ASSUME NEW p \in Proc, Wake(p) \/ Cancel(p) \/ Collect(p)
          PROVE  Mode'
        BY <1>5 DEF Wake, Cancel, Collect, Mode
    <1> QED
        BY <1>1, <1>2, <1>3, <1>4, <1>5 DEF Next

(* What the call o of a process at location l, which has put s bytes       *)
(* before it, is about.                                                    *)
Shaped(l, o, s) ==
    /\ l \in {"unborn", "embryo", "idle"} => o = NoOp
    /\ l \in {"ask", "blocked", "in"} => o.kind \in {"read", "write"}
    /\ l = "spin" => o.kind \in {"launch", "close"}
    /\ l \in {"pass", "go"} => o.kind = "launch"
    /\ l = "deref" => o.kind = "close"
    /\ l = "done" => o.kind # "none"
    /\ o.kind \in {"read", "write"} => o.end = o.kind
    /\ o.kind # "write" => o.done = 0
    /\ o.kind = "write" => o.done <= o.size /\ s + o.size <= MaxBytes

CallShape == \A p \in Proc : Shaped(pc[p], op[p], sent[p])

(* A launcher has a child of its own, which does not run yet, and passes   *)
(* it handles of ends of which the child has none.                         *)
Launching ==
    \A p \in Proc : op[p].kind = "launch" =>
        /\ op[p].child \in Proc /\ pc[op[p].child] = "embryo"
        /\ \A q \in Proc : op[q].kind = "launch" /\ op[q].child = op[p].child => q = p
        /\ op[p].todo \cap table[op[p].child] = {}
        /\ pc[p] \in {"spin", "done"} => op[p].end \in op[p].todo

(* A handle that is being closed stays in the table until it is counted    *)
(* out: the collector stays away from the table of who holds its lock.     *)
Closing == \A p \in Proc : op[p].kind = "close" => op[p].end \in table[p]

(* Only processes that were created have handles, and those are finitely   *)
(* many at any time.                                                       *)
Born     == {p \in Proc : pc[p] # "unborn"}
BornHave == IsFiniteSet(Born) /\ \A p \in Proc : table[p] # {} => p \in Born

IInv ==
    /\ Typed
    /\ Linked(ring)
    /\ OwnerIsInside
    /\ CountsMatchHandles
    /\ CallShape
    /\ Launching
    /\ Closing
    /\ BornHave
-----------------------------------------------------------------------------
(* p goes from a location to another, in the same call or in a new one. *)
LEMMA MoveStep ==
    ASSUME IInv, NEW p \in Proc, NEW l \in Location, NEW o \in Op, NEW s \in 0 .. MaxBytes,
           pc[p] \notin {"unborn", "embryo"}, l \notin {"unborn", "embryo"},
           pc' = [pc EXCEPT ![p] = l], op' = [op EXCEPT ![p] = o],
           sent' = [sent EXCEPT ![p] = s], UNCHANGED table,
           Shaped(l, o, s),
           o.kind = "launch" =>
               /\ op[p].kind = "launch" /\ o.child = op[p].child /\ o.todo = op[p].todo
               /\ l \in {"spin", "done"} => o.end \in o.todo,
           o.kind = "close" => o.end \in table[p]
    PROVE  CallShape' /\ Launching' /\ Closing' /\ BornHave'
    <1>1. /\ pc \in [Proc -> Location] /\ op \in [Proc -> Op] /\ table \in [Proc -> SUBSET End]
          /\ sent \in [Proc -> 0 .. MaxBytes]
        BY DEF IInv, Typed
    <1>2. /\ pc'[p] = l /\ op'[p] = o /\ sent'[p] = s
          /\ \A q \in Proc : q # p => pc'[q] = pc[q] /\ op'[q] = op[q] /\ sent'[q] = sent[q]
        BY <1>1
    <1>3. CallShape'
        BY <1>2 DEF IInv, CallShape
    <1>4. Launching'
        <2> SUFFICES ASSUME NEW r \in Proc, op'[r].kind = "launch"
                     PROVE  /\ op'[r].child \in Proc /\ pc'[op'[r].child] = "embryo"
                            /\ \A q \in Proc : op'[q].kind = "launch" /\ op'[q].child = op'[r].child
                                                   => q = r
                            /\ op'[r].todo \cap table'[op'[r].child] = {}
                            /\ pc'[r] \in {"spin", "done"} => op'[r].end \in op'[r].todo
            BY DEF Launching
        <2>1. /\ op[r].kind = "launch" /\ op'[r].child = op[r].child /\ op'[r].todo = op[r].todo
              /\ pc'[r] \in {"spin", "done"} => op'[r].end \in op'[r].todo
            BY <1>2 DEF IInv, Launching
        <2>2. /\ op[r].child \in Proc /\ pc[op[r].child] = "embryo"
              /\ op[r].todo \cap table[op[r].child] = {}
              /\ \A q \in Proc : op[q].kind = "launch" /\ op[q].child = op[r].child => q = r
            BY <2>1 DEF IInv, Launching
        <2>3. \A q \in Proc : op'[q].kind = "launch" => op[q].kind = "launch" /\ op'[q].child = op[q].child
            BY <1>2
        <2> QED
            BY <1>2, <2>1, <2>2, <2>3
    <1>5. Closing'
        BY <1>2 DEF IInv, Closing
    <1>6. BornHave'
        <2>1. Born' = Born
            BY <1>2 DEF Born
        <2> QED
            BY <2>1 DEF IInv, BornHave
    <1> QED
        BY <1>3, <1>4, <1>5, <1>6

(* Who has the lock is inside. *)
LEMMA OwnerStep ==
    ASSUME IInv, NEW p \in Proc, NEW l, pc' = [pc EXCEPT ![p] = l],
           \/ UNCHANGED owner /\ (l \in {"in", "done"} <=> pc[p] \in {"in", "done"})
           \/ owner = Nobody /\ owner' = p /\ l \in {"in", "done"}
           \/ pc[p] \in {"in", "done"} /\ owner' = Nobody /\ l \notin {"in", "done"}
    PROVE  OwnerIsInside' /\ owner' \in Proc \cup {Nobody}
    <1>1. pc \in [Proc -> Location] /\ owner \in Proc \cup {Nobody} /\ Nobody \notin Proc
        BY PipeAssumption DEF IInv, Typed
    <1>2. pc'[p] = l /\ \A q \in Proc : q # p => pc'[q] = pc[q]
        BY <1>1
    <1>3. \A q \in Proc : pc[q] \in {"in", "done"} <=> owner = q
        BY DEF IInv, OwnerIsInside
    <1>4. \A q \in Proc : pc'[q] \in {"in", "done"} <=> owner' = q
        BY <1>1, <1>2, <1>3
    <1> QED
        BY <1>1, <1>4 DEF OwnerIsInside

Holders(e) == {p \in Proc : e \in table[p]}

LEMMA FiniteHandles ==
    ASSUME IInv
    PROVE  \A e \in End : IsFiniteSet(Holders(e)) /\ IsFiniteSet(Copying(e))
    <1> SUFFICES ASSUME NEW e \in End
                 PROVE  IsFiniteSet(Holders(e)) /\ IsFiniteSet(Copying(e))
        OBVIOUS
    <1>1. IsFiniteSet(Born)
        BY DEF IInv, BornHave
    <1>2. Holders(e) \subseteq Born
        BY DEF Holders, IInv, BornHave
    <1>3. Copying(e) \subseteq Born
        BY DEF Copying, Born
    <1> QED
        BY <1>1, <1>2, <1>3, FS_Subset

LEMMA CountStep ==
    ASSUME IInv, count' \in [End -> Int],
           \A e \in End :
               /\ IsFiniteSet(Holders(e)') /\ IsFiniteSet(Copying(e)')
               /\ count'[e] - count[e] =
                      Cardinality(Holders(e)') - Cardinality(Holders(e))
                      + (Cardinality(Copying(e)') - Cardinality(Copying(e)))
    PROVE  CountsMatchHandles' /\ count' \in [End -> Nat]
    <1>1. \A e \in End : /\ Cardinality(Holders(e)) \in Nat /\ Cardinality(Copying(e)) \in Nat
                         /\ Cardinality(Holders(e)') \in Nat /\ Cardinality(Copying(e)') \in Nat
        BY FiniteHandles, FS_CardinalityType
    <1>2. count \in [End -> Nat]
        BY DEF IInv, Typed
    <1>3. \A e \in End : count[e] = Cardinality(Holders(e)) + Cardinality(Copying(e))
        BY DEF IInv, CountsMatchHandles, Holders
    <1>4. \A e \in End : count'[e] = Cardinality(Holders(e)') + Cardinality(Copying(e)')
        BY <1>1, <1>2, <1>3
    <1>5. CountsMatchHandles'
        BY <1>4 DEF CountsMatchHandles, Holders
    <1> QED
        BY <1>1, <1>4, <1>5

LEMMA CountKept ==
    ASSUME IInv, UNCHANGED <<count, table>>, \A e \in End : Copying(e)' = Copying(e)
    PROVE  CountsMatchHandles'
    BY DEF IInv, CountsMatchHandles
(* A step of p that opens and closes no handle. *)
LEMMA LocalStep ==
    ASSUME IInv, NEW p \in Proc, NEW l \in Location, NEW o \in Op, NEW s \in 0 .. MaxBytes,
           pc[p] \notin {"unborn", "embryo"}, l \notin {"unborn", "embryo"},
           pc' = [pc EXCEPT ![p] = l], op' = [op EXCEPT ![p] = o],
           sent' = [sent EXCEPT ![p] = s], UNCHANGED <<table, count, alive, hung>>,
           ring' \in RingOver(Byte), Linked(ring'),
           Shaped(l, o, s),
           IF o.kind = "launch"
           THEN /\ op[p].kind = "launch" /\ o.child = op[p].child /\ o.todo = op[p].todo
                /\ o.end = op[p].end
                /\ l \in {"spin", "done"} <=> pc[p] \in {"spin", "done"}
           ELSE op[p].kind # "launch",
           o.kind = "close" => o.end \in table[p],
           \/ UNCHANGED owner /\ (l \in {"in", "done"} <=> pc[p] \in {"in", "done"})
           \/ owner = Nobody /\ owner' = p /\ l \in {"in", "done"}
           \/ pc[p] \in {"in", "done"} /\ owner' = Nobody /\ l \notin {"in", "done"}
    PROVE  IInv'
    <1>1. /\ pc \in [Proc -> Location] /\ op \in [Proc -> Op] /\ sent \in [Proc -> 0 .. MaxBytes]
        BY DEF IInv, Typed
    <1>2. CallShape' /\ Launching' /\ Closing' /\ BornHave'
        BY MoveStep DEF IInv, Launching
    <1>3. OwnerIsInside' /\ owner' \in Proc \cup {Nobody}
        BY OwnerStep
    <1>4. \A e \in End : Copying(e)' = Copying(e)
        BY <1>1 DEF Copying
    <1>5. CountsMatchHandles'
        BY <1>4, CountKept
    <1>6. /\ pc' \in [Proc -> Location] /\ op' \in [Proc -> Op] /\ sent' \in [Proc -> 0 .. MaxBytes]
        BY <1>1
    <1>7. Typed'
        BY <1>3, <1>6 DEF Typed, IInv
    <1> QED
        BY <1>2, <1>3, <1>5, <1>7 DEF IInv

LEMMA Kinds ==
    ASSUME IInv, NEW p \in Proc
    PROVE  /\ op[p] \in Op /\ sent[p] \in 0 .. MaxBytes /\ Shaped(pc[p], op[p], sent[p])
           /\ sent' = sent => sent' = [sent EXCEPT ![p] = sent[p]]
           /\ op' = op => op' = [op EXCEPT ![p] = op[p]]
           /\ ring' = ring => ring' \in RingOver(Byte) /\ Linked(ring')
    BY DEF IInv, Typed, CallShape, Linked

LEMMA ReadStep ==
    ASSUME IInv, NEW p \in Proc, NEW n \in Sizes, Read(p, n)
    PROVE  IInv'
    <1> DEFINE o == [NoOp EXCEPT !.kind = "read", !.end = "read", !.size = n]
    <1>1. /\ pc[p] = "idle" /\ pc' = [pc EXCEPT ![p] = "ask"] /\ op' = [op EXCEPT ![p] = o]
          /\ UNCHANGED <<ring, owner, count, table, sent, alive, hung>>
        BY DEF Read, At, Goto
    <1>2. o \in Op /\ o.kind = "read" /\ o.end = "read" /\ o.done = 0
        BY PipeAssumption DEF NoOp, Op, End
    <1>3. op[p].kind = "none"
        BY <1>1 DEF IInv, CallShape, Shaped, NoOp
    <1> HIDE DEF o
    <1>4. Shaped("ask", o, sent[p])
        BY <1>2 DEF Shaped
    <1>5. "ask" \in Location
        BY DEF Location
    <1> QED
        BY <1>1, <1>2, <1>3, <1>4, <1>5, Kinds, LocalStep

LEMMA WriteStep ==
    ASSUME IInv, NEW p \in Proc, NEW n \in Sizes, Write(p, n)
    PROVE  IInv'
    <1> DEFINE o == [NoOp EXCEPT !.kind = "write", !.end = "write", !.size = n]
    <1>1. /\ pc[p] = "idle" /\ pc' = [pc EXCEPT ![p] = "ask"] /\ op' = [op EXCEPT ![p] = o]
          /\ sent[p] + n <= MaxBytes
          /\ UNCHANGED <<ring, owner, count, table, sent, alive, hung>>
        BY DEF Write, At, Goto
    <1>2. o \in Op /\ o.kind = "write" /\ o.end = "write" /\ o.done = 0 /\ o.size = n
        BY PipeAssumption DEF NoOp, Op, End
    <1>3. op[p].kind = "none"
        BY <1>1 DEF IInv, CallShape, Shaped, NoOp
    <1> HIDE DEF o
    <1>4. Shaped("ask", o, sent[p])
        BY <1>1, <1>2, PipeAssumption DEF Shaped
    <1>5. "ask" \in Location
        BY DEF Location
    <1> QED
        BY <1>1, <1>2, <1>3, <1>4, <1>5, Kinds, LocalStep

LEMMA CloseStep ==
    ASSUME IInv, NEW p \in Proc, NEW e \in End, Close(p, e)
    PROVE  IInv'
    <1> DEFINE o == [NoOp EXCEPT !.kind = "close", !.end = e]
    <1>1. /\ pc[p] = "idle" /\ pc' = [pc EXCEPT ![p] = "spin"] /\ op' = [op EXCEPT ![p] = o]
          /\ e \in table[p]
          /\ UNCHANGED <<ring, owner, count, table, sent, alive, hung>>
        BY DEF Close, At, Goto
    <1>2. o \in Op /\ o.kind = "close" /\ o.end = e /\ o.done = 0
        BY PipeAssumption DEF NoOp, Op, End
    <1>3. op[p].kind = "none"
        BY <1>1 DEF IInv, CallShape, Shaped, NoOp
    <1> HIDE DEF o
    <1>4. Shaped("spin", o, sent[p])
        BY <1>1, <1>2, PipeAssumption DEF Shaped
    <1>5. "spin" \in Location
        BY DEF Location
    <1> QED
        BY <1>1, <1>2, <1>3, <1>4, <1>5, Kinds, LocalStep

(* task_block, with or without blocking, and the lock of the node. *)
LEMMA LockStep ==
    ASSUME IInv, NEW p \in Proc, Enter(p) \/ Wake(p) \/ Acquire(p)
    PROVE  IInv'
    <1>1. PICK l \in {"in", "blocked", "done"} :
              /\ pc' = [pc EXCEPT ![p] = l]
              /\ UNCHANGED <<ring, count, table, op, sent, alive, hung>>
              /\ \/ pc[p] = "ask" /\ l = "in" /\ owner = Nobody /\ owner' = p
                 \/ pc[p] = "ask" /\ l = "blocked" /\ owner' = owner
                 \/ pc[p] = "blocked" /\ l = "in" /\ owner = Nobody /\ owner' = p
                 \/ pc[p] = "spin" /\ l = "done" /\ owner = Nobody /\ owner' = p
        BY DEF Enter, Wake, Acquire, At, Goto, CanUnblock
    <1>2. /\ op[p] \in Op /\ Shaped(pc[p], op[p], sent[p])
          /\ op' = [op EXCEPT ![p] = op[p]] /\ sent' = [sent EXCEPT ![p] = sent[p]]
          /\ ring' \in RingOver(Byte) /\ Linked(ring') /\ sent[p] \in 0 .. MaxBytes
        BY <1>1, Kinds
    <1>3. Shaped(l, op[p], sent[p])
        BY <1>1, <1>2 DEF Shaped
    <1>4. /\ op[p].kind = "launch" => pc[p] = "spin"
          /\ op[p].kind = "close" => op[p].end \in table[p]
        BY <1>1, <1>2 DEF Shaped, IInv, Closing
    <1>5. l \in Location
        BY DEF Location
    <1> QED
        BY <1>1, <1>2, <1>3, <1>4, <1>5, LocalStep

LEMMA UseReadStep ==
    ASSUME IInv, NEW p \in Proc, UseRead(p)
    PROVE  IInv'
    <1>1. /\ pc[p] = "in" /\ pc' = [pc EXCEPT ![p] = "done"] /\ op[p].kind = "read"
          /\ UNCHANGED <<owner, count, table, sent, alive, hung>>
        BY DEF UseRead, At, Goto
    <1>2. /\ op \in [Proc -> Op] /\ op[p] \in Op /\ Shaped("in", op[p], sent[p])
          /\ sent' = [sent EXCEPT ![p] = sent[p]]
          /\ ring \in RingOver(Byte) /\ Linked(ring) /\ sent[p] \in 0 .. MaxBytes
        BY <1>1, Kinds DEF IInv, Typed
    <1>3. PICK c \in BOOLEAN : op' = [op EXCEPT ![p] = [op[p] EXCEPT !.closed = c]]
        <2>1. op[p] = [op[p] EXCEPT !.closed = op[p].closed] /\ op[p].closed \in BOOLEAN
            BY <1>2 DEF Op
        <2>2. op' = op \/ op' = [op EXCEPT ![p].closed = TRUE]
            BY DEF UseRead
        <2> QED
            BY <1>2, <2>1, <2>2
    <1> DEFINE o == [op[p] EXCEPT !.closed = c]
    <1>4. o \in Op /\ o.kind = "read" /\ o.end = op[p].end /\ o.done = op[p].done
        BY <1>1, <1>2 DEF Op
    <1>5. ring' \in RingOver(Byte) /\ Linked(ring')
        <2>1. CASE ring' = ring
            BY <1>2, <2>1
        <2>2. CASE ring' = GetAll(ring, ReadCount(ring, op[p].size))
            <3>1. op[p].size \in Nat /\ ring.used \in 0 .. Size
                BY <1>2 DEF Op, RingOver
            <3>2. ReadCount(ring, op[p].size) \in 0 .. ring.used
                BY <3>1, SizeAssumption DEF ReadCount, Lesser
            <3> QED
                BY <1>2, <2>2, <3>2, GetAllShape
        <2> QED
            BY <2>1, <2>2 DEF UseRead
    <1> HIDE DEF o
    <1>6. Shaped("done", o, sent[p])
        BY <1>1, <1>2, <1>4 DEF Shaped
    <1>7. "done" \in Location
        BY DEF Location
    <1>8. op' = [op EXCEPT ![p] = o]
        BY <1>3 DEF o
    <1> QED
        BY <1>1, <1>2, <1>4, <1>5, <1>6, <1>7, <1>8, LocalStep

(* What a write that has the node puts in the buffer. *)
LEMMA WritePiece ==
    ASSUME IInv, NEW p \in Proc, pc[p] = "in", op[p].kind = "write",
           NEW k, k = WriteCount(ring, op[p].size - op[p].done)
    PROVE  /\ k \in 0 .. Size - ring.used /\ k <= op[p].size - op[p].done
           /\ \A i \in 1 .. k : Remaining(p)[i] = <<p, sent[p] + op[p].done + i>>
           /\ \A i \in 1 .. k : Remaining(p)[i] \in Byte
    <1>1. /\ op[p] \in Op /\ sent[p] \in 0 .. MaxBytes /\ MaxBytes \in Nat
          /\ op[p].done <= op[p].size /\ sent[p] + op[p].size <= MaxBytes
        BY Kinds, PipeAssumption DEF Shaped
    <1>2. op[p].done \in Nat /\ op[p].size \in Nat
        BY <1>1 DEF Op
    <1>3. ring.used \in 0 .. Size
        BY DEF IInv, Typed, RingOver
    <1>4. k \in 0 .. Size - ring.used /\ k <= op[p].size - op[p].done
        BY <1>1, <1>2, <1>3, SizeAssumption DEF WriteCount, Lesser
    <1>5. ASSUME NEW i \in 1 .. k
          PROVE  Remaining(p)[i] = <<p, sent[p] + op[p].done + i>> /\ Remaining(p)[i] \in Byte
        <2>1. i \in 1 .. op[p].size - op[p].done
            BY <1>2, <1>3, <1>4, SizeAssumption
        <2>2. Remaining(p)[i] = <<p, sent[p] + op[p].done + i>>
            BY <2>1 DEF Remaining
        <2>3. sent[p] + op[p].done + i \in 1 .. MaxBytes
            BY <1>1, <1>2, <2>1
        <2> QED
            BY <2>2, <2>3 DEF Byte
    <1> QED
        BY <1>4, <1>5

LEMMA UseWriteStep ==
    ASSUME IInv, NEW p \in Proc, UseWrite(p)
    PROVE  IInv'
    <1>1. /\ pc[p] = "in" /\ pc' = [pc EXCEPT ![p] = "done"] /\ op[p].kind = "write"
          /\ UNCHANGED <<owner, count, table, sent, alive, hung>>
        BY DEF UseWrite, At, Goto
    <1>2. /\ op \in [Proc -> Op] /\ op[p] \in Op /\ Shaped("in", op[p], sent[p])
          /\ sent' = [sent EXCEPT ![p] = sent[p]]
          /\ ring \in RingOver(Byte) /\ Linked(ring) /\ sent[p] \in 0 .. MaxBytes
        BY <1>1, Kinds DEF IInv, Typed
    <1> DEFINE n == WriteCount(ring, op[p].size - op[p].done)
    <1>3. /\ n \in 0 .. Size - ring.used /\ n <= op[p].size - op[p].done
          /\ \A i \in 1 .. n : Remaining(p)[i] \in Byte
        BY <1>1, WritePiece
    <1>4. op[p].size \in Nat /\ op[p].done \in Nat /\ op[p].closed \in BOOLEAN /\ n \in Nat
        <2>1. ring.used \in 0 .. Size
            BY <1>2 DEF RingOver
        <2> QED
            BY <1>2, <1>3, <2>1, SizeAssumption DEF Op
    <1> HIDE DEF n
    <1>5. \E o \in Op : /\ op' = [op EXCEPT ![p] = o] /\ o.kind = "write" /\ o.end = op[p].end
                        /\ o.size = op[p].size /\ o.done <= o.size
        <2>1. CASE count["read"] = 0
            <3>1. op' = [op EXCEPT ![p].closed = TRUE]
                BY <2>1 DEF UseWrite
            <3>2. op' = [op EXCEPT ![p] = [op[p] EXCEPT !.closed = TRUE]]
                BY <1>2, <3>1
            <3>3. /\ [op[p] EXCEPT !.closed = TRUE] \in Op
                  /\ [op[p] EXCEPT !.closed = TRUE].kind = op[p].kind
                  /\ [op[p] EXCEPT !.closed = TRUE].end = op[p].end
                  /\ [op[p] EXCEPT !.closed = TRUE].size = op[p].size
                  /\ [op[p] EXCEPT !.closed = TRUE].done = op[p].done
                BY <1>2 DEF Op
            <3>4. op[p].done <= op[p].size
                BY <1>1, <1>2 DEF Shaped
            <3> QED
                BY <1>1, <3>2, <3>3, <3>4
        <2>2. CASE count["read"] # 0
            <3> DEFINE o == [op[p] EXCEPT !.done = op[p].done + n]
            <3>1. op' = [op EXCEPT ![p].done = @ + n]
                BY <2>2 DEF UseWrite, n
            <3>2. op' = [op EXCEPT ![p] = o]
                BY <1>2, <3>1
            <3>3. /\ o \in Op
                  /\ o.kind = op[p].kind /\ o.end = op[p].end
                  /\ o.size = op[p].size /\ o.done = op[p].done + n
                BY <1>2, <1>4 DEF Op
            <3> HIDE DEF o
            <3>4. o.done <= o.size
                BY <1>3, <1>4, <3>3
            <3> QED
                BY <1>1, <3>2, <3>3, <3>4
        <2> QED
            BY <2>1, <2>2
    <1>6. ring' \in RingOver(Byte) /\ Linked(ring')
        <2>1. CASE ring' = ring
            BY <1>2, <2>1
        <2>2. CASE ring' = PutAll(ring, Remaining(p), n)
            BY <1>2, <1>3, <2>2, PutAllShape
        <2> QED
            BY <2>1, <2>2 DEF UseWrite, n
    <1>7. PICK o \in Op : /\ op' = [op EXCEPT ![p] = o] /\ o.kind = "write" /\ o.end = op[p].end
                          /\ o.size = op[p].size /\ o.done <= o.size
        BY <1>5
    <1>8. Shaped("done", o, sent[p])
        BY <1>1, <1>2, <1>7 DEF Shaped
    <1>9. "done" \in Location
        BY DEF Location
    <1> QED
        BY <1>1, <1>2, <1>6, <1>7, <1>8, <1>9, LocalStep

LEMMA LaunchStep ==
    ASSUME IInv, NEW p \in Proc, NEW q \in Proc, NEW es \in SUBSET End, Launch(p, q, es)
    PROVE  IInv'
    <1> DEFINE o == [NoOp EXCEPT !.kind = "launch", !.child = q, !.todo = es]
    <1>1. /\ pc[p] = "idle" /\ pc[q] = "unborn"
          /\ op' = [op EXCEPT ![p] = o]
          /\ pc' = [pc EXCEPT ![p] = "pass", ![q] = "embryo"]
          /\ UNCHANGED <<ring, owner, count, table, sent, alive, hung>>
        BY DEF Launch, At
    <1>2. /\ o \in Op /\ o.kind = "launch" /\ o.child = q /\ o.todo = es /\ o.done = 0
        BY DEF NoOp, Op, End
    <1> HIDE DEF o
    <1>3. /\ pc \in [Proc -> Location] /\ op \in [Proc -> Op] /\ sent \in [Proc -> 0 .. MaxBytes]
          /\ table \in [Proc -> SUBSET End]
        BY DEF IInv, Typed
    <1>4. p # q /\ op[p] = NoOp /\ op[q] = NoOp
        BY <1>1 DEF IInv, CallShape, Shaped
    <1>5. /\ pc'[p] = "pass" /\ pc'[q] = "embryo" /\ op'[p] = o
          /\ \A r \in Proc : r # p => op'[r] = op[r]
          /\ \A r \in Proc : r # p /\ r # q => pc'[r] = pc[r]
        BY <1>1, <1>3, <1>4
    <1>6. Typed'
        <2>1. pc' \in [Proc -> Location] /\ op' \in [Proc -> Op]
            BY <1>1, <1>2, <1>3 DEF Location
        <2> QED
            BY <1>1, <2>1 DEF Typed, IInv
    <1>7. CallShape'
        <2>1. Shaped("pass", o, sent[p]) /\ Shaped("embryo", NoOp, sent[q])
            BY <1>2 DEF Shaped, NoOp
        <2> QED
            BY <1>1, <1>4, <1>5, <2>1 DEF IInv, CallShape
    <1>8. Launching'
        <2>1. table[q] = {}
            BY <1>1 DEF IInv, BornHave, Born
        <2>2. \A r \in Proc : r # p /\ op[r].kind = "launch" =>
                  op[r].child # q /\ op[r].child # p /\ r # q
            BY <1>1, <1>4 DEF IInv, Launching, NoOp
        <2>3. ASSUME NEW r \in Proc, op'[r].kind = "launch"
              PROVE  /\ op'[r].child \in Proc /\ pc'[op'[r].child] = "embryo"
                     /\ \A u \in Proc : op'[u].kind = "launch" /\ op'[u].child = op'[r].child
                                            => u = r
                     /\ op'[r].todo \cap table'[op'[r].child] = {}
                     /\ pc'[r] \in {"spin", "done"} => op'[r].end \in op'[r].todo
            <3>1. CASE r = p
                BY <1>1, <1>2, <1>5, <2>1, <2>2, <3>1
            <3>2. CASE r # p
                <4>1. /\ op[r].kind = "launch" /\ op'[r] = op[r] /\ pc'[r] = pc[r]
                      /\ op[r].child \in Proc /\ pc[op[r].child] = "embryo"
                      /\ op[r].child # p /\ op[r].child # q
                      /\ op[r].todo \cap table[op[r].child] = {}
                      /\ pc[r] \in {"spin", "done"} => op[r].end \in op[r].todo
                      /\ \A u \in Proc : op[u].kind = "launch" /\ op[u].child = op[r].child => u = r
                    BY <1>5, <2>2, <2>3, <3>2 DEF IInv, Launching
                <4> QED
                    BY <1>1, <1>2, <1>5, <4>1
            <3> QED
                BY <3>1, <3>2
        <2> QED
            BY <2>3 DEF Launching
    <1>9. Closing'
        BY <1>1, <1>2, <1>5 DEF IInv, Closing
    <1>10. BornHave'
        <2>1. Born' = Born \cup {q}
            BY <1>1, <1>5 DEF Born
        <2>2. IsFiniteSet(Born')
            BY <2>1, FS_AddElement DEF IInv, BornHave
        <2> QED
            BY <1>1, <2>1, <2>2 DEF IInv, BornHave
    <1>11. OwnerIsInside'
        BY <1>1, <1>3, <1>5 DEF IInv, OwnerIsInside
    <1>12. CountsMatchHandles'
        <2>1. \A e \in End : Copying(e)' = Copying(e)
            BY <1>2, <1>4, <1>5 DEF Copying, NoOp
        <2> QED
            BY <1>1, <2>1, CountKept
    <1> QED
        BY <1>1, <1>6, <1>7, <1>8, <1>9, <1>10, <1>11, <1>12 DEF IInv

(* task_pass_handles: the handle counts before it is in a table. *)
LEMMA PassStep ==
    ASSUME IInv, NEW p \in Proc, Pass(p)
    PROVE  IInv'
    <1>1. /\ pc[p] = "pass"
          /\ UNCHANGED <<ring, owner, table, sent, alive, hung>>
        BY DEF Pass, At
    <1>2. /\ op[p] \in Op /\ Shaped("pass", op[p], sent[p]) /\ op[p].kind = "launch"
          /\ sent' = [sent EXCEPT ![p] = sent[p]]
          /\ ring' \in RingOver(Byte) /\ Linked(ring') /\ sent[p] \in 0 .. MaxBytes
          /\ op \in [Proc -> Op] /\ pc \in [Proc -> Location] /\ count \in [End -> Nat]
        BY <1>1, Kinds DEF Shaped, IInv, Typed
    <1>3. CASE Goto(p, "go") /\ UNCHANGED <<count, op>>
        <2>1. Shaped("go", op[p], sent[p])
            BY <1>2 DEF Shaped
        <2>2. "go" \in Location /\ op' = [op EXCEPT ![p] = op[p]]
            BY <1>2, <1>3 DEF Location
        <2> QED
            BY <1>1, <1>2, <1>3, <2>1, <2>2, LocalStep DEF Goto
    <1>4. CASE \E e \in op[p].todo : /\ count' = [count EXCEPT ![e] = @ + 1]
                                     /\ op' = [op EXCEPT ![p].end = e]
                                     /\ Goto(p, "spin")
        <2>1. PICK e \in op[p].todo : /\ count' = [count EXCEPT ![e] = @ + 1]
                                      /\ op' = [op EXCEPT ![p].end = e]
                                      /\ pc' = [pc EXCEPT ![p] = "spin"]
            BY <1>4 DEF Goto
        <2> DEFINE o == [op[p] EXCEPT !.end = e]
        <2>2. e \in End
            BY <1>2 DEF Op
        <2>3. /\ o \in Op /\ o.kind = op[p].kind /\ o.child = op[p].child /\ o.todo = op[p].todo
              /\ o.end = e /\ o.done = op[p].done
            BY <1>2, <2>2 DEF Op
        <2>4. op' = [op EXCEPT ![p] = o]
            BY <1>2, <2>1
        <2> HIDE DEF o
        <2>5. Shaped("spin", o, sent[p])
            BY <1>2, <2>3 DEF Shaped
        <2>6. "spin" \in Location
            BY DEF Location
        <2>7. CallShape' /\ Launching' /\ Closing' /\ BornHave'
            BY <1>1, <1>2, <2>1, <2>3, <2>4, <2>5, <2>6, MoveStep
        <2>8. OwnerIsInside'
            BY <1>1, <2>1, OwnerStep
        <2>9. /\ \A f \in End : f = e => Copying(f)' = Copying(f) \cup {p} /\ p \notin Copying(f)
              /\ \A f \in End : f # e => Copying(f)' = Copying(f)
              /\ \A f \in End : Holders(f)' = Holders(f)
            BY <1>1, <1>2, <2>1, <2>3, <2>4 DEF Copying, Holders
        <2>10. \A f \in End : f = e =>
                   /\ IsFiniteSet(Copying(f)')
                   /\ Cardinality(Copying(f)') = Cardinality(Copying(f)) + 1
            BY <2>9, FiniteHandles, FS_AddElement
        <2>11. CountsMatchHandles' /\ count' \in [End -> Nat]
            <3>1. count' \in [End -> Int] /\ count'[e] = count[e] + 1
                  /\ \A f \in End : f # e => count'[f] = count[f]
                BY <1>2, <2>1, <2>2
            <3>2. \A f \in End : Cardinality(Holders(f)) \in Nat /\ Cardinality(Copying(f)) \in Nat
                BY FiniteHandles, FS_CardinalityType
            <3>3. ASSUME NEW f \in End
                  PROVE  /\ IsFiniteSet(Holders(f)') /\ IsFiniteSet(Copying(f)')
                         /\ count'[f] - count[f] =
                                Cardinality(Holders(f)') - Cardinality(Holders(f))
                                + (Cardinality(Copying(f)') - Cardinality(Copying(f)))
                <4>1. CASE f = e
                    <5>1. Holders(f)' = Holders(f) /\ count'[f] = count[f] + 1
                        BY <2>9, <3>1, <4>1
                    <5>2. /\ IsFiniteSet(Copying(f)')
                          /\ Cardinality(Copying(f)') = Cardinality(Copying(f)) + 1
                        BY <2>10, <4>1
                    <5> QED
                        BY <1>2, <3>2, <5>1, <5>2, FiniteHandles
                <4>2. CASE f # e
                    <5>1. Holders(f)' = Holders(f) /\ Copying(f)' = Copying(f) /\ count'[f] = count[f]
                        BY <2>9, <3>1, <4>2
                    <5> QED
                        BY <1>2, <3>2, <5>1, FiniteHandles
                <4> QED
                    BY <4>1, <4>2
            <3> QED
                BY <3>1, <3>3, CountStep
        <2>12. Typed'
            <3>1. pc' \in [Proc -> Location] /\ op' \in [Proc -> Op]
                BY <1>2, <2>1, <2>3, <2>4, <2>6
            <3> QED
                BY <1>1, <2>11, <3>1 DEF IInv, Typed
        <2> QED
            BY <1>2, <2>7, <2>8, <2>11, <2>12 DEF IInv
    <1> QED
        BY <1>3, <1>4 DEF Pass

(* task_go: the launcher and its child are on their own. *)
LEMMA GoStep ==
    ASSUME IInv, NEW p \in Proc, Go(p)
    PROVE  IInv'
    <1> DEFINE q == op[p].child
    <1>1. /\ pc[p] = "go" /\ pc' = [pc EXCEPT ![p] = "idle", ![q] = "idle"]
          /\ op' = [op EXCEPT ![p] = NoOp]
          /\ UNCHANGED <<ring, owner, count, table, sent, alive, hung>>
        BY DEF Go, At
    <1>2. op[p].kind = "launch" /\ q \in Proc /\ pc[q] = "embryo"
        BY <1>1, Kinds DEF Shaped, IInv, Launching
    <1>3. \A r \in Proc : op[r].kind = "launch" /\ op[r].child = q => r = p
        BY <1>2 DEF IInv, Launching
    <1> HIDE DEF q
    <1>4. /\ pc \in [Proc -> Location] /\ op \in [Proc -> Op] /\ sent \in [Proc -> 0 .. MaxBytes]
          /\ NoOp \in Op /\ NoOp.kind = "none"
        BY DEF IInv, Typed, NoOp, Op, End
    <1>5. p # q /\ op[q] = NoOp
        BY <1>1, <1>2, Kinds DEF Shaped
    <1>6. /\ pc'[p] = "idle" /\ pc'[q] = "idle" /\ op'[p] = NoOp /\ op'[q] = NoOp
          /\ \A r \in Proc : r # p => op'[r] = op[r]
          /\ \A r \in Proc : r # p /\ r # q => pc'[r] = pc[r]
        BY <1>1, <1>2, <1>4, <1>5
    <1>7. Typed'
        <2>1. pc' \in [Proc -> Location] /\ op' \in [Proc -> Op]
            BY <1>1, <1>4 DEF Location
        <2> QED
            BY <1>1, <2>1 DEF Typed, IInv
    <1>8. CallShape'
        <2>1. \A s : Shaped("idle", NoOp, s)
            BY DEF Shaped, NoOp
        <2>2. \A r \in Proc : r # p /\ r # q => Shaped(pc'[r], op'[r], sent'[r])
            BY <1>1, <1>6 DEF IInv, CallShape
        <2> QED
            BY <1>6, <2>1, <2>2 DEF CallShape
    <1>9. Launching'
        <2> SUFFICES ASSUME NEW r \in Proc, op'[r].kind = "launch"
                     PROVE  /\ op'[r].child \in Proc /\ pc'[op'[r].child] = "embryo"
                            /\ \A u \in Proc : op'[u].kind = "launch" /\ op'[u].child = op'[r].child
                                                   => u = r
                            /\ op'[r].todo \cap table'[op'[r].child] = {}
                            /\ pc'[r] \in {"spin", "done"} => op'[r].end \in op'[r].todo
            BY DEF Launching
        <2>1. r # p /\ r # q /\ op'[r] = op[r] /\ pc'[r] = pc[r]
            BY <1>4, <1>6
        <2>2. /\ op[r].child \in Proc /\ pc[op[r].child] = "embryo"
              /\ op[r].todo \cap table[op[r].child] = {}
              /\ pc[r] \in {"spin", "done"} => op[r].end \in op[r].todo
              /\ \A u \in Proc : op[u].kind = "launch" /\ op[u].child = op[r].child => u = r
            BY <2>1 DEF IInv, Launching
        <2>3. op[r].child # q /\ op[r].child # p
            BY <1>1, <1>3, <2>1, <2>2
        <2>4. \A u \in Proc : op'[u].kind = "launch" => op'[u] = op[u]
            BY <1>4, <1>6
        <2> QED
            BY <1>1, <1>6, <2>1, <2>2, <2>3, <2>4
    <1>10. Closing'
        BY <1>1, <1>4, <1>6 DEF IInv, Closing
    <1>11. BornHave'
        <2>1. Born' = Born
            BY <1>1, <1>2, <1>6 DEF Born
        <2> QED
            BY <1>1, <2>1 DEF IInv, BornHave
    <1>12. OwnerIsInside'
        BY <1>1, <1>2, <1>6 DEF IInv, OwnerIsInside
    <1>13. CountsMatchHandles'
        <2>1. \A e \in End : Copying(e)' = Copying(e)
            BY <1>1, <1>4, <1>5, <1>6 DEF Copying
        <2> QED
            BY <1>1, <2>1, CountKept
    <1> QED
        BY <1>1, <1>7, <1>8, <1>9, <1>10, <1>11, <1>12, <1>13 DEF IInv

(* FsNode::release when a handle was copied: it is in the table now. *)
LEMMA CopiedStep ==
    ASSUME IInv, NEW p \in Proc, pc[p] = "done", op[p].kind = "launch",
           owner' = Nobody, table' = [table EXCEPT ![op[p].child] = @ \cup {op[p].end}],
           op' = [op EXCEPT ![p].todo = @ \ {op[p].end}], pc' = [pc EXCEPT ![p] = "pass"],
           UNCHANGED <<ring, count, sent, alive, hung>>
    PROVE  IInv'
    <1> DEFINE q == op[p].child
               e == op[p].end
               o == [op[p] EXCEPT !.todo = @ \ {e}]
    <1>1. /\ pc \in [Proc -> Location] /\ op \in [Proc -> Op] /\ sent \in [Proc -> 0 .. MaxBytes]
          /\ table \in [Proc -> SUBSET End] /\ count \in [End -> Nat]
          /\ op[p] \in Op /\ e \in End
        BY DEF IInv, Typed, Op
    <1>2. /\ q \in Proc /\ pc[q] = "embryo" /\ e \in op[p].todo /\ e \notin table[q]
          /\ op[p].todo \cap table[q] = {}
          /\ \A r \in Proc : op[r].kind = "launch" /\ op[r].child = q => r = p
        BY DEF IInv, Launching
    <1>3. /\ o \in Op /\ o.kind = "launch" /\ o.child = q /\ o.todo = op[p].todo \ {e}
          /\ o.done = op[p].done /\ o.end = e
        BY <1>1 DEF Op
    <1>4. op' = [op EXCEPT ![p] = o]
        BY <1>1
    <1>5. table' = [table EXCEPT ![q] = table[q] \cup {e}]
        BY <1>1
    <1>6. op[p].end = e /\ op[p].child = q
        OBVIOUS
    <1> HIDE DEF o, e, q
    <1>7. p # q /\ op[q] = NoOp
        BY <1>2, Kinds DEF Shaped
    <1>8. /\ pc'[p] = "pass" /\ op'[p] = o /\ table'[q] = table[q] \cup {e}
          /\ \A r \in Proc : r # p => op'[r] = op[r] /\ pc'[r] = pc[r]
          /\ \A r \in Proc : r # q => table'[r] = table[r]
        BY <1>1, <1>2, <1>4, <1>5
    <1>9. CallShape'
        <2>1. Shaped("pass", o, sent[p])
            BY <1>3, Kinds DEF Shaped
        <2> QED
            BY <1>8, <2>1 DEF IInv, CallShape
    <1>10. Launching'
        <2> SUFFICES ASSUME NEW r \in Proc, op'[r].kind = "launch"
                     PROVE  /\ op'[r].child \in Proc /\ pc'[op'[r].child] = "embryo"
                            /\ \A u \in Proc : op'[u].kind = "launch" /\ op'[u].child = op'[r].child
                                                   => u = r
                            /\ op'[r].todo \cap table'[op'[r].child] = {}
                            /\ pc'[r] \in {"spin", "done"} => op'[r].end \in op'[r].todo
            BY DEF Launching
        <2>1. \A u \in Proc : op'[u].kind = op[u].kind /\ op'[u].child = op[u].child
            BY <1>3, <1>6, <1>8
        <2>2. /\ op[r].child \in Proc /\ pc[op[r].child] = "embryo"
              /\ op[r].todo \cap table[op[r].child] = {}
              /\ pc[r] \in {"spin", "done"} => op[r].end \in op[r].todo
              /\ \A u \in Proc : op[u].kind = "launch" /\ op[u].child = op[r].child => u = r
            BY <2>1 DEF IInv, Launching
        <2>3. /\ op'[r].child \in Proc /\ pc'[op'[r].child] = "embryo"
              /\ \A u \in Proc : op'[u].kind = "launch" /\ op'[u].child = op'[r].child => u = r
            BY <1>8, <2>1, <2>2
        <2>4. CASE r = p
            BY <1>2, <1>3, <1>8, <2>3, <2>4
        <2>5. CASE r # p
            <3>1. op[r].child # q
                BY <1>2, <2>1, <2>5
            <3> QED
                BY <1>8, <2>2, <2>3, <2>5, <3>1
        <2> QED
            BY <2>4, <2>5
    <1>11. Closing'
        BY <1>3, <1>7, <1>8 DEF IInv, Closing, NoOp
    <1>12. BornHave'
        <2>1. Born' = Born /\ q \in Born
            BY <1>2, <1>8 DEF Born
        <2> QED
            BY <1>8, <2>1 DEF IInv, BornHave
    <1>13. OwnerIsInside'
        BY OwnerStep
    <1>14. /\ \A f \in End : f = e => /\ Holders(f)' = Holders(f) \cup {q} /\ q \notin Holders(f)
                                      /\ Copying(f)' = Copying(f) \ {p} /\ p \in Copying(f)
           /\ \A f \in End : f # e => Holders(f)' = Holders(f) /\ Copying(f)' = Copying(f)
        <2>1. \A f \in End : f = e => Holders(f)' = Holders(f) \cup {q} /\ q \notin Holders(f)
            BY <1>2, <1>8 DEF Holders
        <2>2. \A f \in End : f = e => Copying(f)' = Copying(f) \ {p} /\ p \in Copying(f)
            BY <1>6, <1>8 DEF Copying
        <2>3. \A f \in End : f # e => Holders(f)' = Holders(f)
            BY <1>2, <1>8 DEF Holders
        <2>4. \A f \in End : f # e => Copying(f)' = Copying(f)
            BY <1>6, <1>8 DEF Copying
        <2> QED
            BY <2>1, <2>2, <2>3, <2>4
    <1>15. CountsMatchHandles' /\ count' \in [End -> Nat]
        <2>1. \A f \in End : Cardinality(Holders(f)) \in Nat /\ Cardinality(Copying(f)) \in Nat
            BY FiniteHandles, FS_CardinalityType
        <2>2. ASSUME NEW f \in End
              PROVE  /\ IsFiniteSet(Holders(f)') /\ IsFiniteSet(Copying(f)')
                     /\ count'[f] - count[f] =
                            Cardinality(Holders(f)') - Cardinality(Holders(f))
                            + (Cardinality(Copying(f)') - Cardinality(Copying(f)))
            <3>1. CASE f = e
                <4>1. /\ IsFiniteSet(Holders(f)')
                      /\ Cardinality(Holders(f)') = Cardinality(Holders(f)) + 1
                    BY <1>14, <3>1, FiniteHandles, FS_AddElement
                <4>2. /\ IsFiniteSet(Copying(f)')
                      /\ Cardinality(Copying(f)') = Cardinality(Copying(f)) - 1
                    BY <1>14, <3>1, FiniteHandles, FS_RemoveElement
                <4> QED
                    BY <1>1, <2>1, <4>1, <4>2
            <3>2. CASE f # e
                <4>1. Holders(f)' = Holders(f) /\ Copying(f)' = Copying(f)
                    BY <1>14, <3>2
                <4> QED
                    BY <1>1, <2>1, <4>1, FiniteHandles
            <3> QED
                BY <3>1, <3>2
        <2>3. count' \in [End -> Int]
            BY <1>1
        <2> QED
            BY <2>2, <2>3, CountStep
    <1>16. Typed'
        <2>1. pc' \in [Proc -> Location] /\ op' \in [Proc -> Op]
            BY <1>1, <1>3, <1>4 DEF Location
        <2>2. table' \in [Proc -> SUBSET End]
            BY <1>1, <1>2, <1>5
        <2> QED
            BY <1>15, <2>1, <2>2 DEF Typed, IInv
    <1> QED
        BY <1>9, <1>10, <1>11, <1>12, <1>13, <1>15, <1>16 DEF IInv, Linked

LEMMA ReleaseStep ==
    ASSUME IInv, NEW p \in Proc, Release(p)
    PROVE  IInv'
    <1>1. /\ pc[p] = "done" /\ owner' = Nobody
          /\ UNCHANGED <<ring, count, alive, hung>>
        BY DEF Release, At
    <1>2. /\ op \in [Proc -> Op] /\ op[p] \in Op /\ Shaped("done", op[p], sent[p])
          /\ ring' \in RingOver(Byte) /\ Linked(ring') /\ sent[p] \in 0 .. MaxBytes
          /\ {"ask", "idle", "deref"} \subseteq Location
        BY <1>1, Kinds DEF IInv, Typed, Location
    <1>3. CASE /\ op[p].kind = "write" /\ op[p].done < op[p].size
               /\ Goto(p, "ask")
               /\ UNCHANGED <<table, op, sent>>
        <2>1. Shaped("ask", op[p], sent[p])
            BY <1>2, <1>3 DEF Shaped
        <2>2. op' = [op EXCEPT ![p] = op[p]] /\ sent' = [sent EXCEPT ![p] = sent[p]]
            BY <1>3, Kinds
        <2> QED
            BY <1>1, <1>2, <1>3, <2>1, <2>2, LocalStep DEF Goto
    <1>4. CASE /\ op[p].kind \in {"read", "write"}
               /\ Goto(p, "idle")
               /\ sent' = [sent EXCEPT ![p] = @ + op[p].done]
               /\ op' = [op EXCEPT ![p] = NoOp]
               /\ UNCHANGED table
        <2>1. NoOp \in Op /\ NoOp.kind = "none"
            BY DEF NoOp, Op, End
        <2>2. sent[p] + op[p].done \in 0 .. MaxBytes
            BY <1>2, <1>4, PipeAssumption DEF Shaped, Op
        <2>3. Shaped("idle", NoOp, sent[p] + op[p].done)
            BY DEF Shaped, NoOp
        <2>4. sent' = [sent EXCEPT ![p] = sent[p] + op[p].done]
            BY <1>4
        <2> QED
            BY <1>1, <1>2, <1>4, <2>1, <2>2, <2>3, <2>4, LocalStep DEF Goto
    <1>5. CASE /\ op[p].kind = "launch"
               /\ table' = [table EXCEPT ![op[p].child] = @ \cup {op[p].end}]
               /\ op' = [op EXCEPT ![p].todo = @ \ {op[p].end}]
               /\ Goto(p, "pass")
               /\ UNCHANGED sent
        BY <1>1, <1>5, CopiedStep DEF Goto
    <1>6. CASE /\ op[p].kind = "close"
               /\ Goto(p, "deref")
               /\ UNCHANGED <<table, op, sent>>
        <2>1. Shaped("deref", op[p], sent[p])
            BY <1>2, <1>6 DEF Shaped
        <2>2. op' = [op EXCEPT ![p] = op[p]] /\ sent' = [sent EXCEPT ![p] = sent[p]]
            BY <1>6, Kinds
        <2>3. op[p].end \in table[p]
            BY <1>6 DEF IInv, Closing
        <2> QED
            BY <1>1, <1>2, <1>6, <2>1, <2>2, <2>3, LocalStep DEF Goto
    <1> QED
        BY <1>3, <1>4, <1>5, <1>6 DEF Release

(* FsNode::deref_handle: the handle and its count go together. *)
LEMMA DerefStep ==
    ASSUME IInv, NEW p \in Proc, Deref(p)
    PROVE  IInv'
    <1> DEFINE e == op[p].end
    <1>1. /\ pc[p] = "deref" /\ pc' = [pc EXCEPT ![p] = "idle"]
          /\ op' = [op EXCEPT ![p] = NoOp]
          /\ count' = [count EXCEPT ![e] = @ - 1]
          /\ table' = [table EXCEPT ![p] = table[p] \ {e}]
          /\ UNCHANGED <<ring, owner, sent, alive, hung>>
        BY DEF Deref, At, Goto, IInv, Typed
    <1>2. /\ pc \in [Proc -> Location] /\ op \in [Proc -> Op] /\ sent \in [Proc -> 0 .. MaxBytes]
          /\ table \in [Proc -> SUBSET End] /\ count \in [End -> Nat]
          /\ NoOp \in Op /\ NoOp.kind = "none"
        BY DEF IInv, Typed, NoOp, Op, End
    <1>3. op[p].kind = "close" /\ e \in table[p] /\ e \in End
        BY <1>1, <1>2, Kinds DEF Shaped, IInv, Closing
    <1> HIDE DEF e
    <1>4. /\ pc'[p] = "idle" /\ op'[p] = NoOp /\ table'[p] = table[p] \ {e}
          /\ count'[e] = count[e] - 1 /\ count' \in [End -> Int]
          /\ \A r \in Proc : r # p => op'[r] = op[r] /\ pc'[r] = pc[r] /\ table'[r] = table[r]
          /\ \A f \in End : f # e => count'[f] = count[f]
        BY <1>1, <1>2, <1>3
    <1>5. CallShape'
        <2>1. \A s : Shaped("idle", NoOp, s)
            BY DEF Shaped, NoOp
        <2> QED
            BY <1>1, <1>4, <2>1 DEF IInv, CallShape
    <1>6. Launching'
        <2> SUFFICES ASSUME NEW r \in Proc, op'[r].kind = "launch"
                     PROVE  /\ op'[r].child \in Proc /\ pc'[op'[r].child] = "embryo"
                            /\ \A u \in Proc : op'[u].kind = "launch" /\ op'[u].child = op'[r].child
                                                   => u = r
                            /\ op'[r].todo \cap table'[op'[r].child] = {}
                            /\ pc'[r] \in {"spin", "done"} => op'[r].end \in op'[r].todo
            BY DEF Launching
        <2>1. r # p /\ op'[r] = op[r] /\ pc'[r] = pc[r]
            BY <1>2, <1>4
        <2>2. /\ op[r].child \in Proc /\ pc[op[r].child] = "embryo"
              /\ op[r].todo \cap table[op[r].child] = {}
              /\ pc[r] \in {"spin", "done"} => op[r].end \in op[r].todo
              /\ \A u \in Proc : op[u].kind = "launch" /\ op[u].child = op[r].child => u = r
            BY <2>1 DEF IInv, Launching
        <2>3. op[r].child # p
            BY <1>1, <2>2
        <2>4. \A u \in Proc : op'[u].kind = "launch" => op'[u] = op[u]
            BY <1>2, <1>4
        <2> QED
            BY <1>4, <2>1, <2>2, <2>3, <2>4
    <1>7. Closing'
        BY <1>2, <1>4 DEF IInv, Closing
    <1>8. BornHave'
        <2>1. Born' = Born
            BY <1>1, <1>4 DEF Born
        <2> QED
            BY <1>4, <2>1 DEF IInv, BornHave
    <1>9. OwnerIsInside'
        BY <1>1, <1>4 DEF IInv, OwnerIsInside
    <1>10. /\ \A f \in End : f = e => Holders(f)' = Holders(f) \ {p} /\ p \in Holders(f)
           /\ \A f \in End : f # e => Holders(f)' = Holders(f)
           /\ \A f \in End : Copying(f)' = Copying(f)
        <2>1. \A f \in End : f = e => Holders(f)' = Holders(f) \ {p} /\ p \in Holders(f)
            BY <1>3, <1>4 DEF Holders
        <2>2. \A f \in End : f # e => Holders(f)' = Holders(f)
            BY <1>4 DEF Holders
        <2>3. \A f \in End : Copying(f)' = Copying(f)
            BY <1>2, <1>3, <1>4 DEF Copying
        <2> QED
            BY <2>1, <2>2, <2>3
    <1>11. CountsMatchHandles' /\ count' \in [End -> Nat]
        <2>1. \A f \in End : Cardinality(Holders(f)) \in Nat /\ Cardinality(Copying(f)) \in Nat
            BY FiniteHandles, FS_CardinalityType
        <2>2. ASSUME NEW f \in End
              PROVE  /\ IsFiniteSet(Holders(f)') /\ IsFiniteSet(Copying(f)')
                     /\ count'[f] - count[f] =
                            Cardinality(Holders(f)') - Cardinality(Holders(f))
                            + (Cardinality(Copying(f)') - Cardinality(Copying(f)))
            <3>1. CASE f = e
                <4>1. /\ IsFiniteSet(Holders(f)')
                      /\ Cardinality(Holders(f)') = Cardinality(Holders(f)) - 1
                    BY <1>10, <3>1, FiniteHandles, FS_RemoveElement
                <4>2. Copying(f)' = Copying(f) /\ count'[f] = count[f] - 1
                    BY <1>4, <1>10, <3>1
                <4> QED
                    BY <1>2, <2>1, <4>1, <4>2, FiniteHandles
            <3>2. CASE f # e
                <4>1. Holders(f)' = Holders(f) /\ Copying(f)' = Copying(f) /\ count'[f] = count[f]
                    BY <1>4, <1>10, <3>2
                <4> QED
                    BY <1>2, <2>1, <4>1, FiniteHandles
            <3> QED
                BY <3>1, <3>2
        <2> QED
            BY <1>4, <2>2, CountStep
    <1>12. Typed'
        <2>1. pc' \in [Proc -> Location] /\ op' \in [Proc -> Op] /\ table' \in [Proc -> SUBSET End]
            BY <1>1, <1>2 DEF Location
        <2> QED
            BY <1>1, <1>11, <2>1 DEF Typed, IInv
    <1> QED
        BY <1>1, <1>5, <1>6, <1>7, <1>8, <1>9, <1>11, <1>12 DEF IInv, Linked

(* The kernel hangs. *)
LEMMA HungStep ==
    ASSUME IInv, hung' = TRUE, UNCHANGED <<ring, owner, count, table, pc, op, sent, alive>>
    PROVE  IInv'
    <1>1. \A e \in End : Copying(e)' = Copying(e)
        BY DEF Copying
    <1>2. CountsMatchHandles'
        BY <1>1, CountKept
    <1>3. BornHave'
        BY DEF IInv, BornHave, Born
    <1> QED
        BY <1>2, <1>3 DEF IInv, Typed, Linked, OwnerIsInside, CallShape, Launching, Closing

LEMMA HangStep ==
    ASSUME IInv, NEW p \in Proc, Hang(p)
    PROVE  IInv'
    BY HungStep DEF Hang

(* The depth of interrupts_retain stays above zero. *)
LEMMA SystemStep ==
    ASSUME IInv, SystemWaits
    PROVE  IInv'
    <1>1. UNCHANGED <<ring, owner, count, table, pc, op, sent, alive, hung>>
        BY DEF SystemWaits
    <1>2. \A e \in End : Copying(e)' = Copying(e)
        BY <1>1 DEF Copying
    <1>3. CountsMatchHandles'
        BY <1>1, <1>2, CountKept
    <1> QED
        BY <1>1, <1>3 DEF IInv, Typed, Linked, OwnerIsInside, CallShape, Launching, Closing,
                          BornHave, Born

(* Only the process q changes what is in its table, and the counts follow. *)
LEMMA TableStep ==
    ASSUME IInv, NEW q \in Proc, NEW es \in SUBSET End, NEW d \in {-1, 1},
           d = -1 => table' = [table EXCEPT ![q] = {}] /\ es = table[q],
           d = 1 => table' = [table EXCEPT ![q] = es] /\ table[q] = {},
           count' = [e \in End |-> IF e \in es THEN count[e] + d ELSE count[e]],
           \A e \in End : Copying(e)' = Copying(e)
    PROVE  CountsMatchHandles' /\ count' \in [End -> Nat]
    <1>1. table \in [Proc -> SUBSET End] /\ count \in [End -> Nat]
        BY DEF IInv, Typed
    <1>2. \A f \in End : Cardinality(Holders(f)) \in Nat /\ Cardinality(Copying(f)) \in Nat
        BY FiniteHandles, FS_CardinalityType
    <1>3. ASSUME NEW f \in End
          PROVE  /\ IsFiniteSet(Holders(f)') /\ IsFiniteSet(Copying(f)')
                 /\ count'[f] - count[f] =
                        Cardinality(Holders(f)') - Cardinality(Holders(f))
                        + (Cardinality(Copying(f)') - Cardinality(Copying(f)))
        <2>1. Copying(f)' = Copying(f)
            OBVIOUS
        <2>2. CASE f \notin es
            <3>1. Holders(f)' = Holders(f) /\ count'[f] = count[f]
                BY <1>1, <2>2 DEF Holders
            <3> QED
                BY <1>1, <1>2, <2>1, <3>1, FiniteHandles
        <2>3. CASE f \in es /\ d = 1
            <3>1. Holders(f)' = Holders(f) \cup {q} /\ q \notin Holders(f) /\ count'[f] = count[f] + 1
                BY <1>1, <2>3 DEF Holders
            <3>2. IsFiniteSet(Holders(f)') /\ Cardinality(Holders(f)') = Cardinality(Holders(f)) + 1
                BY <3>1, FiniteHandles, FS_AddElement
            <3> QED
                BY <1>1, <1>2, <2>1, <3>1, <3>2, FiniteHandles
        <2>4. CASE f \in es /\ d = -1
            <3>1. Holders(f)' = Holders(f) \ {q} /\ q \in Holders(f) /\ count'[f] = count[f] - 1
                BY <1>1, <2>4 DEF Holders
            <3>2. IsFiniteSet(Holders(f)') /\ Cardinality(Holders(f)') = Cardinality(Holders(f)) - 1
                BY <3>1, FiniteHandles, FS_RemoveElement
            <3> QED
                BY <1>1, <1>2, <2>1, <3>1, <3>2, FiniteHandles
        <2> QED
            BY <2>2, <2>3, <2>4
    <1>4. count' \in [End -> Int]
        BY <1>1
    <1> QED
        BY <1>3, <1>4, CountStep

LEMMA CloneStep ==
    ASSUME IInv, NEW p \in Proc, NEW q \in Proc, Clone(p, q)
    PROVE  IInv'
    <1>1. /\ pc[p] = "idle" /\ pc[q] = "unborn"
          /\ UNCHANGED <<ring, owner, op, sent, alive>>
        BY DEF Clone, At
    <1>2. CASE hung' = TRUE /\ UNCHANGED <<count, table, pc>>
        BY <1>1, <1>2, HungStep
    <1>3. CASE /\ count' = [e \in End |-> IF e \in table[p] THEN count[e] + 1 ELSE count[e]]
               /\ table' = [table EXCEPT ![q] = table[p]]
               /\ pc' = [pc EXCEPT ![q] = "idle"]
               /\ UNCHANGED hung
        <2>1. /\ pc \in [Proc -> Location] /\ op \in [Proc -> Op] /\ sent \in [Proc -> 0 .. MaxBytes]
              /\ table \in [Proc -> SUBSET End] /\ count \in [End -> Nat]
            BY DEF IInv, Typed
        <2>2. table[q] = {} /\ op[q] = NoOp
            BY <1>1, Kinds DEF IInv, BornHave, Born, Shaped
        <2>3. /\ pc'[q] = "idle" /\ table'[q] = table[p]
              /\ \A r \in Proc : r # q => pc'[r] = pc[r] /\ table'[r] = table[r]
            BY <1>3, <2>1
        <2>4. CallShape'
            <3>1. \A s : Shaped("idle", NoOp, s)
                BY DEF Shaped, NoOp
            <3> QED
                BY <1>1, <2>2, <2>3, <3>1 DEF IInv, CallShape
        <2>5. Launching'
            <3>1. \A r \in Proc : op[r].kind = "launch" => r # q /\ op[r].child \in Proc /\ op[r].child # q
                BY <1>1, <2>2 DEF IInv, Launching, NoOp
            <3> QED
                BY <1>1, <2>3, <3>1 DEF IInv, Launching
        <2>6. Closing'
            BY <1>1, <2>2, <2>3 DEF IInv, Closing, NoOp
        <2>7. BornHave'
            <3>1. Born' = Born \cup {q}
                BY <1>1, <2>3 DEF Born
            <3>2. IsFiniteSet(Born')
                BY <3>1, FS_AddElement DEF IInv, BornHave
            <3> QED
                BY <2>3, <3>1, <3>2 DEF IInv, BornHave
        <2>8. OwnerIsInside'
            BY <1>1, <2>1, <2>3 DEF IInv, OwnerIsInside
        <2>9. \A e \in End : Copying(e)' = Copying(e)
            BY <1>1, <2>2, <2>3 DEF Copying, NoOp
        <2>10. CountsMatchHandles' /\ count' \in [End -> Nat]
            <3>1. table[p] \in SUBSET End /\ 1 \in {-1, 1} /\ 1 # -1
                BY <2>1
            <3> QED
                BY <1>3, <2>2, <2>9, <3>1, TableStep
        <2>11. Typed'
            <3>1. pc' \in [Proc -> Location] /\ table' \in [Proc -> SUBSET End]
                BY <1>3, <2>1 DEF Location
            <3> QED
                BY <1>1, <1>3, <2>10, <3>1 DEF Typed, IInv
        <2> QED
            BY <1>1, <2>4, <2>5, <2>6, <2>7, <2>8, <2>10, <2>11 DEF IInv, Linked
    <1> QED
        BY <1>2, <1>3 DEF Clone, Goto

LEMMA CancelStep ==
    ASSUME IInv, NEW p \in Proc, Cancel(p)
    PROVE  IInv'
    <1>1. alive' \subseteq alive /\ UNCHANGED <<ring, owner, count, table, pc, op, sent, hung>>
        BY DEF Cancel
    <1>2. \A e \in End : Copying(e)' = Copying(e)
        BY <1>1 DEF Copying
    <1>3. CountsMatchHandles'
        BY <1>1, <1>2, CountKept
    <1>4. BornHave'
        BY <1>1 DEF IInv, BornHave, Born
    <1>5. Typed'
        BY <1>1 DEF IInv, Typed
    <1> QED
        BY <1>1, <1>3, <1>4, <1>5 DEF IInv, Linked, OwnerIsInside, CallShape, Launching, Closing

LEMMA CollectStep ==
    ASSUME IInv, NEW p \in Proc, Collect(p)
    PROVE  IInv'
    <1>1. UNCHANGED <<ring, owner, pc, op, sent, alive>>
        BY DEF Collect
    <1>2. CASE hung' = TRUE /\ UNCHANGED <<count, table>>
        BY <1>1, <1>2, HungStep
    <1>3. CASE /\ ~HoldsTable(p)
               /\ count' = [e \in End |-> IF e \in table[p] THEN count[e] - 1 ELSE count[e]]
               /\ table' = [table EXCEPT ![p] = {}]
               /\ UNCHANGED hung
        <2>1. table \in [Proc -> SUBSET End] /\ count \in [End -> Nat]
            BY DEF IInv, Typed
        <2>2. /\ table'[p] = {}
              /\ \A r \in Proc : r # p => table'[r] = table[r]
            BY <1>3, <2>1
        <2>3. op[p].kind # "close"
            BY <1>3, Kinds DEF HoldsTable, Shaped
        <2>4. Launching'
            BY <1>1, <2>2 DEF IInv, Launching
        <2>5. Closing'
            BY <1>1, <2>2, <2>3 DEF IInv, Closing
        <2>6. BornHave'
            <3>1. Born' = Born
                BY <1>1 DEF Born
            <3> QED
                BY <2>2, <3>1 DEF IInv, BornHave
        <2>7. \A e \in End : Copying(e)' = Copying(e)
            BY <1>1 DEF Copying
        <2>8. CountsMatchHandles' /\ count' \in [End -> Nat]
            <3>1. table[p] \in SUBSET End /\ -1 \in {-1, 1} /\ 1 # -1
                BY <2>1
            <3>2. count' = [e \in End |-> IF e \in table[p] THEN count[e] + (-1) ELSE count[e]]
                BY <1>3, <2>1
            <3> QED
                BY <1>3, <2>7, <3>1, <3>2, TableStep
        <2>9. Typed'
            <3>1. table' \in [Proc -> SUBSET End]
                BY <1>3, <2>1
            <3> QED
                BY <1>1, <1>3, <2>8, <3>1 DEF Typed, IInv
        <2> QED
            BY <1>1, <2>4, <2>5, <2>6, <2>8, <2>9 DEF IInv, Linked, OwnerIsInside, CallShape
    <1> QED
        BY <1>2, <1>3 DEF Collect
-----------------------------------------------------------------------------
(* At the start the creator has one handle of each end. *)
LEMMA InitIInv == Init => IInv
    <1> SUFFICES ASSUME Init
                 PROVE  IInv
        OBVIOUS
    <1> USE PipeAssumption DEF Init
    <1>1. NoOp \in Op /\ NoOp.kind = "none"
        BY DEF NoOp, Op, End
    <1>2. ring \in RingOver(Byte) /\ Linked(ring)
        <2>1. Blank \in Byte
            BY DEF Byte
        <2>2. /\ ring.head = 0 /\ ring.tail = 0 /\ ring.used = 0
              /\ ring = [buffer |-> [i \in Slot |-> Blank], head |-> 0, tail |-> 0, used |-> 0]
            BY DEF NewRing
        <2>3. 0 \in Slot /\ 0 \in 0 .. Size
            BY SizeAssumption DEF Slot
        <2>4. Linked(ring)
            BY <2>2, SizeAssumption DEF Linked, Turn
        <2> QED
            BY <2>1, <2>2, <2>3, <2>4 DEF RingOver
    <1>3. Typed
        <2>1. 0 \in 0 .. MaxBytes
            OBVIOUS
        <2>2. pc \in [Proc -> Location] /\ table \in [Proc -> SUBSET End] /\ count \in [End -> Nat]
            BY DEF Location
        <2> QED
            BY <1>1, <1>2, <2>1, <2>2 DEF Typed
    <1>4. OwnerIsInside
        BY DEF OwnerIsInside
    <1>5. CountsMatchHandles
        <2> SUFFICES ASSUME NEW e \in End
                     PROVE  count[e] = Cardinality(Holders(e)) + Cardinality(Copying(e))
            BY DEF CountsMatchHandles, Holders
        <2>1. Holders(e) = {Creator}
            BY DEF Holders
        <2>2. Copying(e) = {}
            BY <1>1 DEF Copying
        <2>3. Cardinality({Creator}) = 1 /\ Cardinality({}) = 0
            BY FS_Singleton, FS_EmptySet
        <2>4. count[e] = 1
            OBVIOUS
        <2> HIDE DEF Init
        <2> QED
            BY <2>1, <2>2, <2>3, <2>4
    <1>6. CallShape
        <2>1. \A s : Shaped("idle", NoOp, s) /\ Shaped("unborn", NoOp, s)
            BY DEF Shaped, NoOp
        <2> QED
            BY <2>1 DEF CallShape
    <1>7. Launching /\ Closing
        BY <1>1 DEF Launching, Closing
    <1>8. BornHave
        <2>1. Born = {Creator}
            BY DEF Born
        <2> QED
            BY <2>1, FS_Singleton DEF BornHave
    <1> QED
        BY <1>2, <1>3, <1>4, <1>5, <1>6, <1>7, <1>8 DEF IInv

LEMMA NextIInv == IInv /\ [Next]_vars => IInv'
    <1> SUFFICES ASSUME IInv, [Next]_vars
                 PROVE  IInv'
        OBVIOUS
    <1>1. CASE UNCHANGED vars
        <2>1. \A e \in End : Copying(e)' = Copying(e)
            BY <1>1 DEF vars, Copying
        <2>2. CountsMatchHandles'
            BY <1>1, <2>1, CountKept DEF vars
        <2> QED
            BY <1>1, <2>2 DEF vars, IInv, Typed, Linked, OwnerIsInside, CallShape, Launching,
                              Closing, BornHave, Born
    <1>2. CASE Next
        <2>1. CASE SystemWaits
            BY <2>1, SystemStep
        <2>2. CASE ~SystemWaits
            <3>1. PICK p \in Proc : Syscall(p) \/ Run(p) \/ Wake(p) \/ Cancel(p) \/ Collect(p)
                BY <1>2, <2>2 DEF Next
            <3>2. CASE Syscall(p)
                BY <3>2, ReadStep, WriteStep, CloseStep, CloneStep, LaunchStep DEF Syscall
            <3>3. CASE Run(p)
                BY <3>3, LockStep, HangStep, UseReadStep, UseWriteStep, ReleaseStep, PassStep, GoStep,
                   DerefStep DEF Run
            <3>4. CASE Wake(p)
                BY <3>4, LockStep
            <3>5. CASE Cancel(p) \/ Collect(p)
                BY <3>5, CancelStep, CollectStep
            <3> QED
                BY <3>1, <3>2, <3>3, <3>4, <3>5
        <2> QED
            BY <2>1, <2>2
    <1> QED
        BY <1>1, <1>2

(* The inductive invariant holds for ever. *)
THEOREM Invariance == Spec => []IInv
    BY InitIInv, NextIInv, PTL DEF Spec

(* Every variable keeps its type: the ring buffer never overflows, the     *)
(* counts never go below zero.                                             *)
THEOREM TypeCorrect == Spec => []TypeOK
    <1>1. IInv /\ Mode => TypeOK
        BY DEF IInv, Typed, Mode, TypeOK
    <1>2. Init => Mode
        BY DEF Init, Mode
    <1> QED
        BY <1>1, <1>2, ModeStep, Invariance, PTL DEF Spec

(* The lock of the node keeps all processes but its owner out of the       *)
(* section it protects.                                                    *)
THEOREM OwnerCorrect == Spec => []OwnerIsInside
    <1>1. IInv => OwnerIsInside
        BY DEF IInv
    <1> QED
        BY <1>1, Invariance, PTL

(* _readers and _writers are the numbers of handles that exist. *)
THEOREM CountsCorrect == Spec => []CountsMatchHandles
    <1>1. IInv => CountsMatchHandles
        BY DEF IInv
    <1> QED
        BY <1>1, Invariance, PTL
-----------------------------------------------------------------------------
(* The bytes each process has put. *)
Puts == [p \in Proc |-> sent[p] + op[p].done]

(* A step of p that puts nothing in the buffer and takes nothing out of it *)
(* is a stutter of the channel.                                            *)
LEMMA Stutter ==
    ASSUME IInv, IInv', UNCHANGED ring,
           \A p \in Proc : sent'[p] + op'[p].done = sent[p] + op[p].done
    PROVE  UNCHANGED <<Contents(ring), Puts>>
    BY DEF Puts, Contents, Gotten

LEMMA GetStep ==
    ASSUME IInv, NEW p \in Proc, UseRead(p)
    PROVE  PipeChannel!Next \/ UNCHANGED <<Contents(ring), Puts>>
    <1> DEFINE k == ReadCount(ring, op[p].size)
    <1>1. /\ op \in [Proc -> Op] /\ op[p] \in Op /\ ring \in RingOver(Byte) /\ Linked(ring)
          /\ sent' = sent
        BY DEF IInv, Typed, UseRead
    <1>2. CASE count["write"] = 0
        <2>1. op' = [op EXCEPT ![p].closed = TRUE] /\ UNCHANGED ring
            BY <1>2 DEF UseRead
        <2>2. \A q \in Proc : op'[q].done = op[q].done
            BY <1>1, <2>1 DEF Op
        <2>3. Puts' = Puts
            BY <1>1, <2>2 DEF Puts
        <2>4. Contents(ring)' = Contents(ring)
            BY <2>1 DEF Contents, Gotten
        <2> QED
            BY <2>3, <2>4
    <1>3. CASE count["write"] # 0
        <2>1. ring' = GetAll(ring, k) /\ op' = op
            BY <1>3 DEF UseRead
        <2>2. ring.used \in 0 .. Size /\ op[p].size \in Nat
            BY <1>1 DEF RingOver, Op
        <2>3. k \in 0 .. ring.used
            BY <2>2, SizeAssumption DEF ReadCount, Lesser
        <2> HIDE DEF k
        <2>4. Contents(ring)' = SubSeq(Contents(ring), k + 1, Len(Contents(ring)))
            <3>1. Contents(ring') = SubSeq(Contents(ring), k + 1, Len(Contents(ring)))
                BY <1>1, <2>1, <2>3, GetAllShape
            <3> QED
                BY <3>1 DEF Contents, Gotten
        <2>5. Puts' = Puts
            BY <1>1, <2>1 DEF Puts
        <2>6. Contents(ring) \in Seq(Byte) /\ Len(Contents(ring)) = ring.used
            BY <1>1, ContentsShape
        <2>7. CASE k = 0
            <3>1. Contents(ring)' = Contents(ring)
                BY <2>4, <2>6, <2>7
            <3> QED
                BY <2>5, <3>1
        <2>8. CASE k # 0
            <3>1. k \in 1 .. Size /\ k <= Len(Contents(ring))
                BY <2>2, <2>3, <2>6, <2>8, SizeAssumption
            <3>2. PipeChannel!Get(k)
                BY <2>4, <2>5, <3>1 DEF PipeChannel!Get, Puts
            <3> QED
                BY <3>1, <3>2 DEF PipeChannel!Next
        <2> QED
            BY <2>7, <2>8
    <1> QED
        BY <1>2, <1>3

LEMMA PutStep ==
    ASSUME IInv, NEW p \in Proc, UseWrite(p)
    PROVE  PipeChannel!Next \/ UNCHANGED <<Contents(ring), Puts>>
    <1>4. PICK n : n = WriteCount(ring, op[p].size - op[p].done)
        OBVIOUS
    <1>1. /\ op \in [Proc -> Op] /\ op[p] \in Op /\ ring \in RingOver(Byte) /\ Linked(ring)
          /\ sent' = sent /\ sent[p] \in Nat
          /\ pc[p] = "in" /\ op[p].kind = "write"
        BY PipeAssumption DEF IInv, Typed, UseWrite, At
    <1>2. CASE count["read"] = 0
        <2>1. op' = [op EXCEPT ![p].closed = TRUE] /\ UNCHANGED ring
            BY <1>2 DEF UseWrite
        <2>2. \A q \in Proc : op'[q].done = op[q].done
            BY <1>1, <2>1 DEF Op
        <2>3. Puts' = Puts
            BY <1>1, <2>2 DEF Puts
        <2>4. Contents(ring)' = Contents(ring)
            BY <2>1 DEF Contents, Gotten
        <2> QED
            BY <2>3, <2>4
    <1>3. CASE count["read"] # 0
        <2>1. ring' = PutAll(ring, Remaining(p), n) /\ op' = [op EXCEPT ![p].done = @ + n]
            BY <1>3, <1>4 DEF UseWrite
        <2>2. ring.used \in 0 .. Size /\ op[p].done \in Nat
            BY <1>1 DEF RingOver, Op
        <2>3. /\ n \in 0 .. Size - ring.used
              /\ \A i \in 1 .. n : Remaining(p)[i] = <<p, sent[p] + op[p].done + i>>
              /\ \A i \in 1 .. n : Remaining(p)[i] \in Byte
            BY <1>1, <1>4, WritePiece
        <2>4. n \in Nat
            BY <2>2, <2>3, SizeAssumption
        <2>5. Contents(ring)' = Contents(ring) \o [i \in 1 .. n |-> <<p, Puts[p] + i>>]
            <3>1. Contents(ring') = Contents(ring) \o [i \in 1 .. n |-> Remaining(p)[i]]
                BY <1>1, <2>1, <2>3, PutAllContents
            <3>2. [i \in 1 .. n |-> Remaining(p)[i]] = [i \in 1 .. n |-> <<p, Puts[p] + i>>]
                BY <2>3 DEF Puts
            <3> QED
                BY <3>1, <3>2 DEF Contents, Gotten
        <2>6. Puts' = [Puts EXCEPT ![p] = @ + n]
            <3>1. /\ op'[p].done = op[p].done + n
                  /\ \A q \in Proc : q # p => op'[q].done = op[q].done
                BY <1>1, <2>1 DEF Op
            <3>2. \A q \in Proc : sent'[q] + op'[q].done
                                     = IF q = p THEN sent[p] + op[p].done + n
                                                ELSE sent[q] + op[q].done
                BY <1>1, <2>2, <2>4, <3>1
            <3> QED
                BY <3>2 DEF Puts
        <2>7. Contents(ring) \in Seq(Byte) /\ Len(Contents(ring)) = ring.used
            BY <1>1, ContentsShape
        <2>8. CASE n = 0
            <3>1. [i \in 1 .. n |-> <<p, Puts[p] + i>>] = << >>
                BY <2>8
            <3>2. Contents(ring)' = Contents(ring)
                BY <2>5, <2>7, <3>1, ConcatEmptySeq
            <3>3. Puts[p] + n = Puts[p]
                BY <1>1, <2>2, <2>8 DEF Puts
            <3>4. Puts' = Puts
                BY <2>6, <3>3 DEF Puts
            <3> QED
                BY <3>2, <3>4
        <2>9. CASE n # 0
            <3>1. n \in 1 .. Size /\ Len(Contents(ring)) + n <= Size
                BY <2>2, <2>3, <2>4, <2>7, <2>9, SizeAssumption
            <3>2. PipeChannel!Put(p, n)
                BY <2>5, <2>6, <3>1 DEF PipeChannel!Put, Puts
            <3> QED
                BY <3>1, <3>2 DEF PipeChannel!Next
        <2> QED
            BY <2>8, <2>9
    <1> QED
        BY <1>2, <1>3

(* Only reads and writes that have the node touch the buffer, and what a   *)
(* write has put stays counted when it returns.                            *)
LEMMA ChannelStep ==
    ASSUME IInv, IInv', NEW p \in Proc,
           Syscall(p) \/ Run(p) \/ Wake(p) \/ Cancel(p) \/ Collect(p)
    PROVE  PipeChannel!Next \/ UNCHANGED <<Contents(ring), Puts>>
    <1> DEFINE Same == UNCHANGED <<Contents(ring), Puts>>
    <1>2. /\ op \in [Proc -> Op] /\ sent \in [Proc -> 0 .. MaxBytes] /\ MaxBytes \in Nat
          /\ op[p].done \in Nat /\ Shaped(pc[p], op[p], sent[p])
        BY PipeAssumption, Kinds DEF IInv, Typed, Op
    <1>3. CASE UNCHANGED <<ring, op, sent>>
        BY <1>3, Stutter
    <1>4. ASSUME NEW o, o.done = op[p].done, op' = [op EXCEPT ![p] = o], UNCHANGED <<ring, sent>>
          PROVE  Same
        <2>1. \A q \in Proc : op'[q].done = op[q].done
            BY <1>2, <1>4
        <2> QED
            BY <1>4, <2>1, Stutter
    <1>5. CASE Syscall(p)
        <2>1. CASE \E n \in Sizes : Read(p, n) \/ Write(p, n)
            <3>1. PICK n \in Sizes : Read(p, n) \/ Write(p, n)
                BY <2>1
            <3>2. op[p].done = 0
                BY <1>2, <3>1 DEF Read, Write, At, Shaped, NoOp
            <3> DEFINE r == [NoOp EXCEPT !.kind = "read", !.end = "read", !.size = n]
                       w == [NoOp EXCEPT !.kind = "write", !.end = "write", !.size = n]
            <3>3. r.done = 0 /\ w.done = 0
                BY DEF NoOp
            <3>4. op' = [op EXCEPT ![p] = r] \/ op' = [op EXCEPT ![p] = w]
                BY <3>1 DEF Read, Write
            <3>5. UNCHANGED <<ring, sent>>
                BY <3>1 DEF Read, Write
            <3> HIDE DEF r, w
            <3> QED
                BY <1>4, <3>2, <3>3, <3>4, <3>5
        <2>2. CASE \E e \in End : Close(p, e)
            <3>1. PICK e \in End : Close(p, e)
                BY <2>2
            <3> DEFINE c == [NoOp EXCEPT !.kind = "close", !.end = e]
            <3>2. op[p].done = 0 /\ c.done = 0
                BY <1>2, <3>1 DEF Close, At, Shaped, NoOp
            <3>3. op' = [op EXCEPT ![p] = c] /\ UNCHANGED <<ring, sent>>
                BY <3>1 DEF Close
            <3> HIDE DEF c
            <3> QED
                BY <1>4, <3>2, <3>3
        <2>3. CASE \E q \in Proc : Clone(p, q)
            BY <1>3, <2>3 DEF Clone
        <2>4. CASE \E q \in Proc : \E es \in SUBSET End : Launch(p, q, es)
            <3>1. PICK q \in Proc, es \in SUBSET End : Launch(p, q, es)
                BY <2>4
            <3> DEFINE c == [NoOp EXCEPT !.kind = "launch", !.child = q, !.todo = es]
            <3>2. op[p].done = 0 /\ c.done = 0
                BY <1>2, <3>1 DEF Launch, At, Shaped, NoOp
            <3>3. op' = [op EXCEPT ![p] = c] /\ UNCHANGED <<ring, sent>>
                BY <3>1 DEF Launch
            <3> HIDE DEF c
            <3> QED
                BY <1>4, <3>2, <3>3
        <2> QED
            BY <1>5, <2>1, <2>2, <2>3, <2>4 DEF Syscall
    <1>6. CASE Run(p)
        <2>1. CASE UseRead(p)
            BY <2>1, GetStep
        <2>2. CASE UseWrite(p)
            BY <2>2, PutStep
        <2>3. CASE Enter(p) \/ Acquire(p) \/ Hang(p)
            BY <1>3, <2>3 DEF Enter, Acquire, Hang
        <2>4. CASE Release(p)
            <3>1. UNCHANGED ring
                BY <2>4 DEF Release
            <3>2. CASE UNCHANGED <<op, sent>>
                BY <1>3, <3>1, <3>2
            <3>3. CASE /\ sent' = [sent EXCEPT ![p] = @ + op[p].done]
                       /\ op' = [op EXCEPT ![p] = NoOp]
                <4>1. NoOp.done = 0
                    BY DEF NoOp
                <4>2. sent'[p] + op'[p].done = sent[p] + op[p].done
                    BY <1>2, <3>3, <4>1
                <4>3. \A q \in Proc : q # p => sent'[q] = sent[q] /\ op'[q] = op[q]
                    BY <1>2, <3>3
                <4> QED
                    BY <3>1, <4>2, <4>3, Stutter
            <3>4. CASE op' = [op EXCEPT ![p].todo = @ \ {op[p].end}] /\ UNCHANGED sent
                <4> DEFINE c == [op[p] EXCEPT !.todo = @ \ {op[p].end}]
                <4>1. op' = [op EXCEPT ![p] = c]
                    BY <1>2, <3>4
                <4>2. c.done = op[p].done
                    BY <1>2 DEF Op
                <4> HIDE DEF c
                <4> QED
                    BY <1>4, <3>1, <3>4, <4>1, <4>2
            <3> QED
                BY <2>4, <3>2, <3>3, <3>4 DEF Release
        <2>5. CASE Pass(p)
            <3>1. UNCHANGED <<ring, sent>>
                BY <2>5 DEF Pass
            <3>2. CASE op' = op
                BY <1>3, <3>1, <3>2
            <3>3. CASE \E e \in op[p].todo : op' = [op EXCEPT ![p].end = e]
                <4>1. PICK e : op' = [op EXCEPT ![p].end = e]
                    BY <3>3
                <4> DEFINE c == [op[p] EXCEPT !.end = e]
                <4>2. op' = [op EXCEPT ![p] = c]
                    BY <1>2, <4>1
                <4>3. c.done = op[p].done
                    BY <1>2 DEF Op
                <4> HIDE DEF c
                <4> QED
                    BY <1>4, <3>1, <4>2, <4>3
            <3> QED
                BY <2>5, <3>2, <3>3 DEF Pass
        <2>6. CASE Go(p) \/ Deref(p)
            <3>1. pc[p] \in {"go", "deref"} /\ op' = [op EXCEPT ![p] = NoOp] /\ UNCHANGED <<ring, sent>>
                BY <2>6 DEF Go, Deref, At
            <3>2. op[p].done = 0 /\ NoOp.done = 0
                BY <1>2, <3>1 DEF Shaped, NoOp
            <3> QED
                BY <1>4, <3>1, <3>2
        <2> QED
            BY <1>6, <2>1, <2>2, <2>3, <2>4, <2>5, <2>6 DEF Run
    <1>7. CASE Wake(p) \/ Cancel(p) \/ Collect(p)
        BY <1>3, <1>7 DEF Wake, Cancel, Collect
    <1> QED
        BY <1>5, <1>6, <1>7

(* The pipe implements the bounded queue: every step of a process is a     *)
(* put, a get, or does not touch what is in the pipe.                      *)
THEOREM PipeImplementsChannel == Spec => ChannelSpec
    <1>1. Init => PipeChannel!Init
        <2>1. Init => Contents(ring) = << >>
            BY DEF Init, NewRing, Contents, Gotten
        <2>2. Init => [p \in Proc |-> sent[p] + op[p].done] = [p \in Proc |-> 0]
            BY DEF Init, NoOp
        <2> QED
            BY <2>1, <2>2 DEF PipeChannel!Init
    <1>2. IInv /\ IInv' /\ [Next]_vars =>
              [PipeChannel!Next]_<<Contents(ring), [p \in Proc |-> sent[p] + op[p].done]>>
        <2>1. UNCHANGED vars => UNCHANGED <<Contents(ring), Puts>>
            BY DEF vars, Contents, Gotten, Puts
        <2>2. IInv /\ IInv' /\ SystemWaits => UNCHANGED <<Contents(ring), Puts>>
            <3>1. SystemWaits => UNCHANGED <<ring, op, sent>>
                BY DEF SystemWaits
            <3> QED
                BY <3>1, Stutter
        <2> QED
            BY <2>1, <2>2, ChannelStep DEF Puts, Next
    <1> QED
        BY <1>1, <1>2, Invariance, PTL DEF Spec, ChannelSpec, PipeChannel!Spec
====
