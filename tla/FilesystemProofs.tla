-------------------------- MODULE FilesystemProofs --------------------------
(***************************************************************************)
(* The invariants of the tree of nodes and of its locks, that it is a      *)
(* namespace, and that what is appended is kept, proved for any number of  *)
(* processes, nodes and names and any sizes.                               *)
(***************************************************************************)
EXTENDS FilesystemProps, FiniteSetTheorems, SequenceTheorems, TLAPS

MaybeNode   == Node \cup {NoNode}
MaybeHandle == Handle \cup {NoHandle}
Byte        == Proc \cup {Gap}

Op == [req : Request \cup {NoRequest}, goal : Seq(Name), at : Nat, cur : MaybeNode,
       step : {1, 2}, child : MaybeNode, dir : MaybeNode, handle : MaybeHandle]

(* Every variable has its type. *)
Types ==
    /\ type \in [Node -> NodeType]
    /\ entry \in [Node -> [Name -> MaybeNode]]
    /\ data \in [Node -> Seq(Byte)]
    /\ owner \in [Node -> Proc \cup {Nobody}]
    /\ table \in [Proc -> [Slot -> MaybeHandle]]
    /\ left \in [Proc -> SUBSET Nat]
    /\ program \in [Proc -> SUBSET Request]
    /\ pc \in [Proc -> Location]
    /\ op \in [Proc -> Op]
    /\ alive \subseteq Proc

TreeKind == {"open", "mkdir", "mkpipe", "link", "unlink", "rename"}
FileKind == {"read", "write", "seek"}
SlotKind == FileKind \cup {"close", "reopen", "copy"}

(* Where a process has found what it changes in the tree. *)
Parent == {"lock", "lock2", "in", "moved", "unlock2", "unlock"}

(* What a call of p is about, at each place in the tree ... *)
TreeShape(p) ==
    /\ pc[p] \in {"walk", "look"} \cup Parent => Kind(p) \in TreeKind
    /\ pc[p] \in {"walk", "look"} /\ op[p].cur # NoNode =>
           op[p].cur \in Node /\ type[op[p].cur] # "none"
    /\ pc[p] = "look" => op[p].cur \in Node /\ op[p].at < Len(op[p].goal)
    /\ pc[p] \in Parent =>
           /\ op[p].cur \in Node
           /\ Kind(p) # "open" => type[op[p].cur] = "dir"
           /\ Kind(p) = "rename" => op[p].dir \in Node /\ type[op[p].dir] = "dir"
           /\ Kind(p) = "link" => op[p].step = 2
           /\ Kind(p) = "open" => op[p].child \in Node /\ type[op[p].child] = "file"
    /\ pc[p] \in {"lock2", "unlock2"} => TwoParents(p)
    /\ pc[p] = "moved" => Kind(p) = "rename"
    /\ Kind(p) = "open" /\ op[p].step = 2 => "create" \in op[p].req.flags
    /\ Kind(p) = "mkdir" => op[p].child \in Node /\ type[op[p].child] = "dir"
    /\ Kind(p) = "mkpipe" => op[p].child \in Node /\ type[op[p].child] = "pipe"
    /\ Kind(p) = "link" /\ op[p].step = 2 =>
           op[p].child \in Node /\ type[op[p].child] \in {"file", "pipe"}

(* p is about to use a handle of its table, or owns the lock of its node. *)
UsesHeld(p) ==
    \/ pc[p] \in {"open", "delete", "ask"} /\ Kind(p) \in SlotKind \ {"reopen"} /\ p \in alive
    \/ pc[p] = "open" /\ Kind(p) = "reopen" /\ p \in alive
    \/ pc[p] = "use"
    \/ pc[p] = "deleted" /\ Kind(p) = "close"

(* ... and at each place of the table.  That of a canceled process may be  *)
(* empty already, except where it owns the lock of the node.               *)
SlotShape(p) ==
    /\ pc[p] = "idle" => Kind(p) = "none"
    /\ pc[p] \in {"open", "opened"} => Kind(p) \in {"open", "reopen", "copy"}
    /\ pc[p] = "open" /\ Kind(p) = "open" => op[p].child \in Node
    /\ pc[p] = "add" => Kind(p) \in {"open", "reopen"}
    /\ pc[p] = "evict" => Kind(p) = "copy"
    /\ pc[p] = "delete" => Kind(p) \in {"open", "reopen", "close"}
    /\ pc[p] = "deleted" => Kind(p) \in {"open", "reopen", "close", "copy"}
    /\ pc[p] \in {"ask", "use"} => Kind(p) \in FileKind
    /\ pc[p] = "stuck" => Kind(p) \in SlotKind
    /\ Kind(p) \in SlotKind => op[p].req.slot \in Slot
    /\ pc[p] \in {"opened", "add", "evict", "delete", "deleted"} /\ Kind(p) # "close" =>
           op[p].handle \in Handle
    /\ UsesHeld(p) =>
           /\ Held(p) \in Handle
           /\ Kind(p) = "write" => Held(p).mode # "read"
    /\ pc[p] = "deleted" /\ Kind(p) = "copy" =>
           op[p].req.into \in Slot /\ table[p][op[p].req.into] \in Handle

Shape == \A p \in Proc : TreeShape(p) /\ SlotShape(p)

(* The locks that p has. *)
LockHeld(p, x) ==
    \/ pc[p] \in {"look", "lock2", "in", "moved", "unlock2", "unlock"} /\ x = op[p].cur
    \/ pc[p] \in {"in", "moved", "unlock2"} /\ TwoParents(p) /\ x = op[p].dir
    \/ pc[p] \in {"opened", "deleted"} /\ Kind(p) \notin {"close", "copy"} /\ x = op[p].handle.node
    \/ pc[p] = "opened" /\ Kind(p) = "copy" /\ x = op[p].handle.node
    \/ pc[p] = "deleted" /\ Kind(p) = "copy" /\ x = table[p][op[p].req.into].node
    \/ pc[p] = "deleted" /\ Kind(p) = "close" /\ x = Held(p).node
    \/ pc[p] = "use" /\ x = Held(p).node

Locked == \A p \in Proc, x \in Node : LockHeld(p, x) => owner[x] = p

(* What has a name was made, and so was the root. *)
Named ==
    /\ type[Root] = "dir"
    /\ \A d \in Node, n \in Name : entry[d][n] # NoNode => type[entry[d][n]] # "none"

(* A directory that mkdir has made and not yet linked has no name, and is  *)
(* nobody else's.                                                          *)
NewDir(p) == Kind(p) = "mkdir" /\ pc[p] \in {"walk", "look", "lock", "in"}

NewDirs ==
    \A p \in Proc : NewDir(p) =>
        /\ \A d \in Node, n \in Name : entry[d][n] # op[p].child
        /\ \A q \in Proc : NewDir(q) /\ op[q].child = op[p].child => q = p

(* A node is left for each open that may yet make one. *)
Openers  == {p \in Proc : op[p].req.kind = "open"}
Creators == {p \in Openers : "create" \in op[p].req.flags /\ pc[p] \in {"walk", "look"}}

Reserve == IsFiniteSet(Openers) /\ Cardinality(Unmade) >= Cardinality(Creators)

IInv == Types /\ Shape /\ Locked /\ Named /\ NewDirs /\ Reserve
-----------------------------------------------------------------------------
LEMMA Constants ==
    /\ Root \in Node /\ NoNode \notin Node /\ Node \subseteq Nat /\ Root # NoNode
    /\ Nobody \notin Proc /\ Gap \notin Proc
    /\ NoHandle \notin Handle /\ NoHandle \in MaybeHandle /\ Handle \subseteq MaybeHandle
    /\ NoNode \in MaybeNode /\ Node \subseteq MaybeNode
    /\ \A x \in MaybeNode : x # NoNode => x \in Node
    /\ \A h \in MaybeHandle : h # NoHandle => h \in Handle
    /\ \A h \in Handle : h.node \in Node /\ h.mode \in Mode /\ h.trunc \in BOOLEAN
    BY FilesystemAssumption, HandleTableAssumption DEF MaybeNode, MaybeHandle, Handle

LEMMA PathFacts ==
    /\ \A path \in Path : /\ path \in Seq(Name) /\ Len(path) \in 1 .. 2
                          /\ DirPath(path) \in Seq(Name) /\ BaseName(path) \in Name
    /\ \A r \in Request : /\ r.path \in Path /\ r.to \in Path /\ r.slot \in Nat /\ r.into \in Nat
                          /\ r.mode \in Mode /\ r.kind # "none"
    /\ NoRequest.kind = "none" /\ NoRequest \notin Request
    <1>1. ASSUME NEW path \in Path
          PROVE  /\ path \in Seq(Name) /\ Len(path) \in 1 .. 2
                 /\ DirPath(path) \in Seq(Name) /\ BaseName(path) \in Name
        <2>1. PICK i \in 1 .. 2 : path \in [1 .. i -> Name]
            BY DEF Path
        <2>2. path \in Seq(Name) /\ Len(path) = i
            BY <2>1
        <2>3. BaseName(path) \in Name
            BY <2>1, <2>2 DEF BaseName
        <2>4. DirPath(path) \in Seq(Name)
            BY <2>1, <2>2 DEF DirPath
        <2> QED
            BY <2>2, <2>3, <2>4
    <1>2. ASSUME NEW r \in Request
          PROVE  /\ r.path \in Path /\ r.to \in Path /\ r.slot \in Nat /\ r.into \in Nat
                 /\ r.mode \in Mode /\ r.kind # "none"
        BY DEF Request
    <1>3. NoRequest.kind = "none"
        BY DEF NoRequest
    <1> QED
        BY <1>1, <1>2, <1>3

LEMMA NewOpFacts ==
    \A r \in Request \cup {NoRequest} :
        /\ NewOp(r) \in Op /\ NewOp(r).req = r /\ NewOp(r).step = 1
        /\ NewOp(r).child = NoNode /\ NewOp(r).handle = NoHandle
    <1>1. <<>> \in Seq(Name) /\ 0 \in Nat /\ NoNode \in MaybeNode /\ NoHandle \in MaybeHandle
        BY Constants
    <1> QED
        BY <1>1 DEF NewOp, Op
-----------------------------------------------------------------------------
(* A node that is made stays what it is. *)
Grows == \A x \in Node : type[x] # "none" => type'[x] = type[x]

(* Only p moves. *)
OnlyMoves(p) == \A q \in Proc : q # p => pc'[q] = pc[q] /\ op'[q] = op[q] /\ table'[q] = table[q]

LEMMA ShapeStep ==
    ASSUME IInv, NEW p \in Proc, OnlyMoves(p), Grows, alive' \subseteq alive,
           TreeShape(p)', SlotShape(p)'
    PROVE  Shape'
    <1> SUFFICES ASSUME NEW q \in Proc
                 PROVE  TreeShape(q)' /\ SlotShape(q)'
        BY DEF Shape
    <1>1. CASE q = p
        BY <1>1
    <1>2. CASE q # p
        <2>1. pc'[q] = pc[q] /\ op'[q] = op[q] /\ table'[q] = table[q]
            BY <1>2 DEF OnlyMoves
        <2>2. TreeShape(q) /\ SlotShape(q)
            BY DEF IInv, Shape
        <2>3. TreeShape(q)'
            <3>1. Kind(q)' = Kind(q) /\ (TwoParents(q)' <=> TwoParents(q))
                BY <2>1 DEF Kind, TwoParents
            <3> HIDE DEF Kind, TwoParents
            <3> QED
                BY <2>1, <2>2, <3>1 DEF TreeShape, Grows
        <2>4. SlotShape(q)'
            <3>1. Kind(q)' = Kind(q) /\ Held(q)' = Held(q)
                BY <2>1 DEF Kind, Held
            <3> HIDE DEF Kind, Held
            <3> QED
                BY <2>1, <2>2, <3>1 DEF SlotShape, UsesHeld
        <2> QED
            BY <2>3, <2>4
    <1> QED
        BY <1>1, <1>2

LEMMA LockedStep ==
    ASSUME IInv, NEW p \in Proc, OnlyMoves(p),
           \A x \in Node : owner'[x] # owner[x] => owner[x] \in {p, Nobody},
           \A x \in Node : LockHeld(p, x)' => owner'[x] = p
    PROVE  Locked'
    <1> SUFFICES ASSUME NEW q \in Proc, NEW x \in Node, LockHeld(q, x)'
                 PROVE  owner'[x] = q
        BY DEF Locked
    <1>1. CASE q = p
        BY <1>1
    <1>2. CASE q # p
        <2>1. pc'[q] = pc[q] /\ op'[q] = op[q] /\ table'[q] = table[q]
            BY <1>2 DEF OnlyMoves
        <2>2. LockHeld(q, x)
            <3>1. Kind(q)' = Kind(q) /\ Held(q)' = Held(q) /\ (TwoParents(q)' <=> TwoParents(q))
                BY <2>1 DEF Kind, Held, TwoParents
            <3> HIDE DEF Kind, Held, TwoParents
            <3> QED
                BY <2>1, <3>1 DEF LockHeld
        <2>3. owner[x] = q
            BY <2>2 DEF IInv, Locked
        <2> QED
            BY <1>2, <2>3, Constants
    <1> QED
        BY <1>1, <1>2

LEMMA NamesKept ==
    ASSUME IInv, NEW p \in Proc, OnlyMoves(p), Grows, UNCHANGED entry,
           NewDir(p)' => NewDir(p) /\ op'[p].child = op[p].child
    PROVE  Named' /\ NewDirs'
    <1>1. Named'
        <2>1. type'[Root] = "dir"
            BY Constants DEF IInv, Named, Grows
        <2>2. ASSUME NEW d \in Node, NEW n \in Name, entry'[d][n] # NoNode
              PROVE  type'[entry'[d][n]] # "none"
            <3>1. entry[d][n] \in Node /\ type[entry[d][n]] # "none" /\ entry' = entry
                BY <2>2, Constants DEF IInv, Types, Named
            <3> QED
                BY <3>1 DEF Grows
        <2> QED
            BY <2>1, <2>2 DEF Named
    <1>2. \A q \in Proc : NewDir(q)' => NewDir(q) /\ op'[q].child = op[q].child
        <2>1. ASSUME NEW q \in Proc, q # p, NewDir(q)'
              PROVE  NewDir(q) /\ op'[q].child = op[q].child
            BY <2>1 DEF OnlyMoves, NewDir, Kind
        <2> QED
            BY <2>1
    <1>3. NewDirs'
        <2> HIDE DEF NewDir
        <2> QED
            BY <1>2 DEF IInv, NewDirs
    <1> QED
        BY <1>1, <1>3

LEMMA NodesAreFinite == IsFiniteSet(Unmade) /\ Cardinality(Unmade) \in Nat
    <1>1. Unmade \subseteq Node
        BY DEF Unmade
    <1>2. IsFiniteSet(Node)
        BY FilesystemAssumption
    <1>3. IsFiniteSet(Unmade)
        BY <1>1, <1>2, FS_Subset
    <1> QED
        BY <1>3, FS_CardinalityType

LEMMA CreatorsAreFinite ==
    ASSUME IInv
    PROVE  /\ IsFiniteSet(Openers) /\ IsFiniteSet(Creators)
           /\ Cardinality(Openers) \in Nat /\ Cardinality(Creators) \in Nat
           /\ Cardinality(Creators) <= Cardinality(Openers)
           /\ Cardinality(Creators) <= Cardinality(Unmade)
    <1>1. IsFiniteSet(Openers) /\ Cardinality(Creators) <= Cardinality(Unmade)
        <2>1. IsFiniteSet(Openers) /\ Cardinality(Unmade) >= Cardinality(Creators)
            BY DEF IInv, Reserve
        <2> QED
            BY <2>1
    <1>2. Creators \subseteq Openers
        BY DEF Creators
    <1>3. IsFiniteSet(Creators) /\ Cardinality(Creators) <= Cardinality(Openers)
        BY <1>1, <1>2, FS_Subset
    <1> QED
        BY <1>1, <1>3, FS_CardinalityType

LEMMA CreatorsKept ==
    ASSUME IInv, NEW p \in Proc, OnlyMoves(p)
    PROVE  /\ \A q \in Proc : q # p => (q \in Openers' <=> q \in Openers)
                                       /\ (q \in Creators' <=> q \in Creators)
           /\ Openers' \subseteq Openers \cup {p} /\ Creators' \subseteq Creators \cup {p}
           /\ IsFiniteSet(Openers')
    <1>1. \A q \in Proc : q # p => (q \in Openers' <=> q \in Openers)
                                   /\ (q \in Creators' <=> q \in Creators)
        BY DEF OnlyMoves, Openers, Creators
    <1>2. Openers' \subseteq Openers \cup {p} /\ Creators' \subseteq Creators \cup {p}
        <2>1. Openers' \subseteq Proc /\ Creators' \subseteq Proc
            BY DEF Openers, Creators
        <2> HIDE DEF Openers, Creators
        <2> QED
            BY <1>1, <2>1
    <1>3. IsFiniteSet(Openers \cup {p})
        BY CreatorsAreFinite, FS_AddElement
    <1>4. IsFiniteSet(Openers')
        BY <1>2, <1>3, FS_Subset
    <1> QED
        BY <1>1, <1>2, <1>4

LEMMA ReserveKept ==
    ASSUME IInv, NEW p \in Proc, OnlyMoves(p), UNCHANGED type,
           p \in Creators' => p \in Creators
    PROVE  Reserve'
    <1>1. Unmade' = Unmade
        BY DEF Unmade
    <1>2. Creators' \subseteq Creators
        <2> HIDE DEF Creators
        <2> QED
            BY CreatorsKept
    <1>3. IsFiniteSet(Creators) /\ Cardinality(Creators) \in Nat
          /\ Cardinality(Creators) <= Cardinality(Unmade)
        BY CreatorsAreFinite
    <1>4. IsFiniteSet(Creators') /\ Cardinality(Creators') <= Cardinality(Creators)
        BY <1>2, <1>3, FS_Subset
    <1>5. Cardinality(Creators') \in Nat
        BY <1>4, FS_CardinalityType
    <1>6. Cardinality(Creators') <= Cardinality(Unmade')
        BY <1>1, <1>3, <1>4, <1>5, NodesAreFinite
    <1>7. Cardinality(Unmade') >= Cardinality(Creators')
        BY <1>1, <1>5, <1>6, NodesAreFinite
    <1> QED
        BY <1>7, CreatorsKept DEF Reserve

(* A step that makes no node and no name. *)
LEMMA QuietStep ==
    ASSUME IInv, NEW p \in Proc, OnlyMoves(p),
           UNCHANGED <<type, entry, program, alive>>,
           pc' \in [Proc -> Location], op' \in [Proc -> Op],
           table' \in [Proc -> [Slot -> MaybeHandle]], left' \in [Proc -> SUBSET Nat],
           data' \in [Node -> Seq(Byte)], owner' \in [Node -> Proc \cup {Nobody}],
           TreeShape(p)', SlotShape(p)',
           \A x \in Node : owner'[x] # owner[x] => owner[x] \in {p, Nobody},
           \A x \in Node : LockHeld(p, x)' => owner'[x] = p,
           NewDir(p)' => NewDir(p) /\ op'[p].child = op[p].child,
           p \in Creators' => p \in Creators
    PROVE  IInv'
    <1>1. Types'
        BY DEF IInv, Types
    <1>2. Grows
        BY DEF Grows
    <1>3. Shape'
        BY <1>2, ShapeStep
    <1>4. Locked'
        BY LockedStep
    <1>5. Named' /\ NewDirs'
        BY <1>2, NamesKept
    <1>6. Reserve'
        BY ReserveKept
    <1> QED
        BY <1>1, <1>3, <1>4, <1>5, <1>6 DEF IInv
-----------------------------------------------------------------------------
LEMMA Here ==
    ASSUME IInv, NEW p \in Proc
    PROVE  /\ op[p] \in Op /\ pc[p] \in Location /\ TreeShape(p) /\ SlotShape(p)
           /\ op[p].req \in Request \cup {NoRequest} /\ op[p].goal \in Seq(Name)
           /\ op[p].at \in Nat /\ op[p].step \in {1, 2}
           /\ op[p].cur \in MaybeNode /\ op[p].child \in MaybeNode /\ op[p].dir \in MaybeNode
           /\ op[p].handle \in MaybeHandle
           /\ table[p] \in [Slot -> MaybeHandle]
           /\ op' = op => op' = [op EXCEPT ![p] = op[p]]
           /\ pc' = pc => pc' = [pc EXCEPT ![p] = pc[p]]
           /\ Kind(p) # "none" => op[p].req \in Request
    <1>1. op \in [Proc -> Op] /\ pc \in [Proc -> Location] /\ table \in [Proc -> [Slot -> MaybeHandle]]
          /\ TreeShape(p) /\ SlotShape(p)
        BY DEF IInv, Types, Shape
    <1>2. op[p] \in Op
        BY <1>1
    <1>3. /\ op[p].req \in Request \cup {NoRequest} /\ op[p].goal \in Seq(Name)
          /\ op[p].at \in Nat /\ op[p].step \in {1, 2}
          /\ op[p].cur \in MaybeNode /\ op[p].child \in MaybeNode /\ op[p].dir \in MaybeNode
          /\ op[p].handle \in MaybeHandle
        BY <1>2 DEF Op
    <1>4. Kind(p) # "none" => op[p].req \in Request
        BY <1>3, PathFacts DEF Kind
    <1> QED
        BY <1>1, <1>2, <1>3, <1>4

(* p goes to l, with its call as o. *)
LEMMA Frame ==
    ASSUME IInv, NEW p \in Proc, NEW l \in Location, NEW o \in Op,
           pc' = [pc EXCEPT ![p] = l], op' = [op EXCEPT ![p] = o],
           \A q \in Proc : q # p => table'[q] = table[q]
    PROVE  /\ pc' \in [Proc -> Location] /\ op' \in [Proc -> Op]
           /\ pc'[p] = l /\ op'[p] = o /\ OnlyMoves(p)
    BY DEF IInv, Types, OnlyMoves

(* The call of p returns. *)
LEMMA FinishStep ==
    ASSUME IInv, NEW p \in Proc, Finish(p),
           UNCHANGED <<type, entry, program, alive>>,
           table' \in [Proc -> [Slot -> MaybeHandle]], left' \in [Proc -> SUBSET Nat],
           \A q \in Proc : q # p => table'[q] = table[q],
           data' \in [Node -> Seq(Byte)], owner' \in [Node -> Proc \cup {Nobody}],
           \A x \in Node : owner'[x] # owner[x] => owner[x] \in {p, Nobody}
    PROVE  IInv'
    <1>1. PICK o \in Op : o = NewOp(NoRequest)
        BY NewOpFacts
    <1>2. o.req.kind = "none"
        BY <1>1, NewOpFacts, PathFacts
    <1>3. /\ pc' \in [Proc -> Location] /\ op' \in [Proc -> Op]
          /\ pc'[p] = "idle" /\ op'[p] = o /\ OnlyMoves(p)
        BY <1>1, Frame DEF Finish, Goto, Location
    <1>4. Kind(p)' = "none"
        BY <1>2, <1>3 DEF Kind
    <1>5. TreeShape(p)' /\ SlotShape(p)'
        <2> HIDE DEF Kind
        <2> QED
            BY <1>3, <1>4 DEF TreeShape, SlotShape, UsesHeld, Parent, SlotKind, FileKind
    <1>6. \A x \in Node : ~LockHeld(p, x)'
        BY <1>3 DEF LockHeld
    <1>7. ~NewDir(p)' /\ p \notin Creators'
        BY <1>3 DEF NewDir, Creators
    <1> QED
        BY <1>3, <1>5, <1>6, <1>7, QuietStep

(* p makes a step of a lookup, and holds no lock after it. *)
LEMMA WalkStep ==
    ASSUME IInv, NEW p \in Proc, NEW o \in Op,
           pc[p] = "walk", pc' = [pc EXCEPT ![p] = "walk"], op' = [op EXCEPT ![p] = o],
           UNCHANGED <<type, entry, fileVars, program, alive, owner>>,
           o.req = op[p].req, o.cur = Root,
           o.child # op[p].child => Kind(p) = "link",
           Kind(p) = "open" /\ o.step = 2 => "create" \in o.req.flags,
           Kind(p) = "link" /\ o.step = 2 => o.child \in Node /\ type[o.child] \in {"file", "pipe"}
    PROVE  IInv'
    <1>1. TreeShape(p) /\ SlotShape(p) /\ Kind(p) \in TreeKind
        BY Here DEF TreeShape
    <1>2. UNCHANGED <<table, left, data>>
        BY DEF fileVars
    <1>3. /\ pc' \in [Proc -> Location] /\ op' \in [Proc -> Op]
          /\ pc'[p] = "walk" /\ op'[p] = o /\ OnlyMoves(p)
        BY <1>2, Frame DEF Location
    <1>4. Kind(p)' = Kind(p)
        BY <1>3 DEF Kind
    <1>5. TreeShape(p)'
        <2>1. o.cur \in Node /\ type[o.cur] # "none"
            BY Constants DEF IInv, Named
        <2> HIDE DEF Kind
        <2> QED
            BY <1>1, <1>3, <1>4, <2>1 DEF TreeShape, Parent, TreeKind
    <1>6. SlotShape(p)'
        <2> HIDE DEF Kind
        <2> QED
            BY <1>1, <1>3, <1>4 DEF SlotShape, UsesHeld, TreeKind, SlotKind, FileKind
    <1>7. \A x \in Node : ~LockHeld(p, x)'
        BY <1>3 DEF LockHeld
    <1>8. NewDir(p)' => NewDir(p) /\ op'[p].child = op[p].child
        <2> HIDE DEF Kind
        <2> QED
            BY <1>3, <1>4 DEF NewDir
    <1>9. p \in Creators' => p \in Creators
        BY <1>3 DEF Creators, Openers
    <1>10. /\ table' \in [Proc -> [Slot -> MaybeHandle]] /\ left' \in [Proc -> SUBSET Nat]
           /\ data' \in [Node -> Seq(Byte)] /\ owner' \in [Node -> Proc \cup {Nobody}]
           /\ owner' = owner
        BY <1>2 DEF IInv, Types
    <1> QED
        BY <1>3, <1>5, <1>6, <1>7, <1>8, <1>9, <1>10, QuietStep

LEMMA WalkLookStep ==
    ASSUME IInv, NEW p \in Proc, Walk(p), UNCHANGED program
    PROVE  IInv'
    <1>1. /\ TreeShape(p) /\ SlotShape(p) /\ op[p] \in Op /\ op[p].cur \in MaybeNode
          /\ pc[p] = "walk" /\ Kind(p) \in TreeKind
        BY Here DEF TreeShape, Walk, At
    <1>2. op[p].cur \in Node /\ op[p].at < Len(op[p].goal)
        BY <1>1, Constants DEF Walk, MoreToFind
    <1>3. /\ UNCHANGED <<type, entry, data, table, left, op, alive>>
          /\ pc' = [pc EXCEPT ![p] = "look"] /\ op' = [op EXCEPT ![p] = op[p]]
          /\ owner[op[p].cur] = Nobody /\ owner' = [owner EXCEPT ![op[p].cur] = p]
        BY Here DEF Walk, Goto, Take, Free, treeVars, fileVars, procVars
    <1>4. /\ pc' \in [Proc -> Location] /\ op' \in [Proc -> Op]
          /\ pc'[p] = "look" /\ op'[p] = op[p] /\ OnlyMoves(p)
        BY <1>1, <1>3, Frame DEF Location
    <1>5. Kind(p)' = Kind(p)
        BY <1>4 DEF Kind
    <1>6. TreeShape(p)' /\ SlotShape(p)'
        <2> HIDE DEF Kind
        <2>1. TreeShape(p)'
            BY <1>1, <1>2, <1>3, <1>4, <1>5 DEF TreeShape, Parent, TreeKind
        <2>2. SlotShape(p)'
            BY <1>1, <1>3, <1>4, <1>5 DEF SlotShape, UsesHeld, TreeKind, SlotKind, FileKind
        <2> QED
            BY <2>1, <2>2
    <1>7. /\ owner' \in [Node -> Proc \cup {Nobody}]
          /\ owner'[op[p].cur] = p
          /\ \A x \in Node : owner'[x] # owner[x] => x = op[p].cur
        BY <1>2, <1>3 DEF IInv, Types
    <1>8. \A x \in Node : LockHeld(p, x)' => owner'[x] = p
        BY <1>4, <1>7 DEF LockHeld
    <1>9. \A x \in Node : owner'[x] # owner[x] => owner[x] \in {p, Nobody}
        BY <1>3, <1>7
    <1>10. NewDir(p)' => NewDir(p) /\ op'[p].child = op[p].child
        <2> HIDE DEF Kind
        <2> QED
            BY <1>1, <1>4, <1>5 DEF NewDir
    <1>11. p \in Creators' => p \in Creators
        BY <1>1, <1>4 DEF Creators, Openers
    <1>12. /\ table' \in [Proc -> [Slot -> MaybeHandle]] /\ left' \in [Proc -> SUBSET Nat]
           /\ data' \in [Node -> Seq(Byte)]
        BY <1>3 DEF IInv, Types
    <1> QED
        BY <1>3, <1>4, <1>6, <1>7, <1>8, <1>9, <1>10, <1>11, <1>12, QuietStep

LEMMA LookStep ==
    ASSUME IInv, NEW p \in Proc, Look(p), UNCHANGED program
    PROVE  IInv'
    <1>1. /\ TreeShape(p) /\ SlotShape(p) /\ op[p] \in Op /\ op[p].cur \in Node
          /\ pc[p] = "look" /\ Kind(p) \in TreeKind
          /\ op[p].at < Len(op[p].goal) /\ op[p].at \in Nat /\ op[p].goal \in Seq(Name)
        BY Here DEF TreeShape, Look, At
    <1>2. PICK x : x = entry[op[p].cur][op[p].goal[op[p].at + 1]]
        OBVIOUS
    <1>3. x \in MaybeNode
        <2>1. op[p].at + 1 \in 1 .. Len(op[p].goal)
            BY <1>1
        <2>2. op[p].goal[op[p].at + 1] \in Name
            BY <1>1, <2>1
        <2> QED
            BY <1>1, <1>2, <2>2 DEF IInv, Types
    <1>4. x # NoNode => x \in Node /\ type[x] # "none"
        <2>1. op[p].goal[op[p].at + 1] \in Name
            BY <1>1
        <2> QED
            BY <1>1, <1>2, <1>3, <2>1, Constants DEF IInv, Named
    <1>5. PICK m, o : m = op[p].at + 1 /\ o = [op[p] EXCEPT !.cur = x, !.at = m]
        OBVIOUS
    <1>6. /\ o \in Op /\ o.req = op[p].req /\ o.child = op[p].child /\ o.step = op[p].step
          /\ o.cur = x
        <2>1. m \in Nat
            BY <1>1, <1>5
        <2> QED
            BY <1>1, <1>3, <1>5, <2>1 DEF Op
    <1>7. /\ UNCHANGED <<type, entry, data, table, left, alive>>
          /\ pc' = [pc EXCEPT ![p] = "walk"] /\ op' = [op EXCEPT ![p] = o]
          /\ owner' = [owner EXCEPT ![op[p].cur] = Nobody]
        <2>1. /\ UNCHANGED <<type, entry, data, table, left, alive>>
              /\ pc' = [pc EXCEPT ![p] = "walk"]
              /\ owner' = [owner EXCEPT ![op[p].cur] = Nobody]
            BY DEF Look, Goto, Give, treeVars, fileVars, procVars
        <2>2. op' = [op EXCEPT ![p] = o]
            <3>1. op' = [op EXCEPT ![p].cur = x, ![p].at = @ + 1]
                BY <1>2 DEF Look
            <3>2. op \in [Proc -> Op]
                BY DEF IInv, Types
            <3> QED
                BY <1>1, <1>5, <3>1, <3>2 DEF Op
        <2> QED
            BY <2>1, <2>2
    <1>8. /\ pc' \in [Proc -> Location] /\ op' \in [Proc -> Op]
          /\ pc'[p] = "walk" /\ op'[p] = o /\ OnlyMoves(p)
        BY <1>6, <1>7, Frame DEF Location
    <1>9. Kind(p)' = Kind(p)
        BY <1>6, <1>8 DEF Kind
    <1>10. TreeShape(p)' /\ SlotShape(p)'
        <2> HIDE DEF Kind
        <2>1. TreeShape(p)'
            BY <1>1, <1>6, <1>7, <1>8, <1>9, <1>4 DEF TreeShape, Parent, TreeKind
        <2>2. SlotShape(p)'
            BY <1>1, <1>7, <1>8, <1>9 DEF SlotShape, UsesHeld, TreeKind, SlotKind, FileKind
        <2> QED
            BY <2>1, <2>2
    <1>11. owner[op[p].cur] = p
        BY <1>1 DEF LockHeld, IInv, Locked
    <1>12. /\ owner' \in [Node -> Proc \cup {Nobody}]
           /\ \A y \in Node : owner'[y] # owner[y] => y = op[p].cur
        BY <1>1, <1>7 DEF IInv, Types
    <1>13. \A y \in Node : owner'[y] # owner[y] => owner[y] \in {p, Nobody}
        BY <1>11, <1>12
    <1>14. \A y \in Node : ~LockHeld(p, y)'
        BY <1>8 DEF LockHeld
    <1>15. NewDir(p)' => NewDir(p) /\ op'[p].child = op[p].child
        <2> HIDE DEF Kind
        <2> QED
            BY <1>1, <1>6, <1>8, <1>9 DEF NewDir
    <1>16. p \in Creators' => p \in Creators
        BY <1>1, <1>6, <1>8 DEF Creators, Openers
    <1>17. /\ table' \in [Proc -> [Slot -> MaybeHandle]] /\ left' \in [Proc -> SUBSET Nat]
           /\ data' \in [Node -> Seq(Byte)]
        BY <1>7 DEF IInv, Types
    <1> QED
        BY <1>7, <1>8, <1>10, <1>12, <1>13, <1>14, <1>15, <1>16, <1>17, QuietStep
-----------------------------------------------------------------------------
LEMMA FoundFacts ==
    ASSUME IInv, NEW p \in Proc, Arrived(p)
    PROVE  /\ pc[p] = "walk" /\ Kind(p) \in TreeKind /\ op[p].req \in Request
           /\ Found(p) \in MaybeNode
           /\ Found(p) # NoNode => Found(p) = op[p].cur /\ op[p].cur \in Node
    <1>1. pc[p] = "walk" /\ Kind(p) \in TreeKind /\ op[p].cur \in MaybeNode
        BY Here DEF Arrived, At, TreeShape
    <1>2. Kind(p) # "none"
        <2> HIDE DEF Kind
        <2> QED
            BY <1>1 DEF TreeKind
    <1> QED
        BY <1>1, <1>2, Here, Constants DEF Found

LEMMA FoundIsMade ==
    ASSUME IInv, NEW p \in Proc, Arrived(p), Found(p) # NoNode
    PROVE  type[Found(p)] # "none"
    BY FoundFacts, Here DEF TreeShape

(* p has found the parent that it changes. *)
LEMMA LockNext ==
    ASSUME IInv, NEW p \in Proc, Arrived(p), Goto(p, "lock"),
           UNCHANGED <<type, entry, fileVars, program, alive, owner, op>>,
           op[p].cur \in Node, type[op[p].cur] = "dir", Kind(p) # "open",
           Kind(p) = "rename" => op[p].dir \in Node /\ type[op[p].dir] = "dir",
           Kind(p) = "link" => op[p].step = 2
    PROVE  IInv'
    <1>1. TreeShape(p) /\ SlotShape(p) /\ pc[p] = "walk" /\ Kind(p) \in TreeKind
          /\ op[p] \in Op
        BY Here, FoundFacts
    <1>2. UNCHANGED <<table, left, data>>
        BY DEF fileVars
    <1>3. /\ pc' \in [Proc -> Location] /\ op' \in [Proc -> Op]
          /\ pc'[p] = "lock" /\ op'[p] = op[p] /\ OnlyMoves(p)
        BY <1>1, <1>2, Here, Frame DEF Location, Goto
    <1>4. Kind(p)' = Kind(p)
        BY <1>3 DEF Kind
    <1>5. TreeShape(p)' /\ SlotShape(p)'
        <2> HIDE DEF Kind
        <2>1. TreeShape(p)'
            BY <1>1, <1>3, <1>4 DEF TreeShape, Parent, TreeKind
        <2>2. SlotShape(p)'
            BY <1>1, <1>3, <1>4 DEF SlotShape, UsesHeld, TreeKind, SlotKind, FileKind
        <2> QED
            BY <2>1, <2>2
    <1>6. \A x \in Node : ~LockHeld(p, x)'
        BY <1>3 DEF LockHeld
    <1>7. NewDir(p)' => NewDir(p) /\ op'[p].child = op[p].child
        <2> HIDE DEF Kind
        <2> QED
            BY <1>1, <1>3, <1>4 DEF NewDir
    <1>8. p \notin Creators'
        BY <1>3 DEF Creators
    <1>9. /\ table' \in [Proc -> [Slot -> MaybeHandle]] /\ left' \in [Proc -> SUBSET Nat]
          /\ data' \in [Node -> Seq(Byte)] /\ owner' \in [Node -> Proc \cup {Nobody}]
          /\ owner' = owner
        BY <1>2 DEF IInv, Types
    <1> QED
        BY <1>3, <1>5, <1>6, <1>7, <1>8, <1>9, QuietStep

(* The call returns with nothing found. *)
LEMMA NotFound ==
    ASSUME IInv, NEW p \in Proc, Finish(p),
           UNCHANGED <<type, entry, fileVars, program, alive, owner>>
    PROVE  IInv'
    <1>1. /\ table' \in [Proc -> [Slot -> MaybeHandle]] /\ left' \in [Proc -> SUBSET Nat]
          /\ data' \in [Node -> Seq(Byte)] /\ owner' \in [Node -> Proc \cup {Nobody}]
          /\ owner' = owner /\ table' = table
        BY DEF IInv, Types, fileVars
    <1> QED
        BY <1>1, FinishStep

(* p looks for another node. *)
LEMMA FindNext ==
    ASSUME IInv, NEW p \in Proc, NEW o \in Op, NEW goal \in Seq(Name),
           pc[p] = "walk", Find(p, o, goal),
           UNCHANGED <<type, entry, fileVars, program, alive, owner>>,
           o.req = op[p].req,
           o.child # op[p].child => Kind(p) = "link",
           Kind(p) = "open" /\ o.step = 2 => "create" \in o.req.flags,
           Kind(p) = "link" /\ o.step = 2 => o.child \in Node /\ type[o.child] \in {"file", "pipe"}
    PROVE  IInv'
    <1>1. PICK w : w = [o EXCEPT !.goal = goal, !.at = 0, !.cur = Root]
        OBVIOUS
    <1>2. w \in Op /\ w.cur = Root /\ w.req = o.req /\ w.child = o.child /\ w.step = o.step
        BY <1>1, Constants DEF Op
    <1>3. pc' = [pc EXCEPT ![p] = "walk"] /\ op' = [op EXCEPT ![p] = w]
        BY <1>1 DEF Find, Goto
    <1> QED
        BY <1>2, <1>3, WalkStep

LEMMA FindParentStep ==
    ASSUME IInv, NEW p \in Proc, FindParent(p), UNCHANGED program
    PROVE  IInv'
    <1>1. UNCHANGED <<type, entry, fileVars, program, alive, owner>> /\ Arrived(p)
        BY DEF FindParent, treeVars, procVars
    <1>2. CASE Refused(Found(p))
        BY <1>1, <1>2, NotFound DEF FindParent
    <1>3. CASE ~Refused(Found(p))
        <2>1. op[p].cur \in Node /\ type[op[p].cur] = "dir"
            BY <1>1, <1>3, FoundFacts DEF Refused
        <2>2. Kind(p) # "open" /\ Kind(p) # "rename" /\ (Kind(p) = "link" => op[p].step = 2)
            <3>1. Kind(p) \in {"mkdir", "mkpipe", "unlink"} \/ (Kind(p) = "link" /\ op[p].step = 2)
                BY DEF FindParent
            <3> HIDE DEF Kind
            <3> QED
                BY <3>1
        <2>3. Goto(p, "lock") /\ UNCHANGED op
            BY <1>3 DEF FindParent
        <2> QED
            BY <1>1, <2>1, <2>2, <2>3, LockNext
    <1> QED
        BY <1>2, <1>3

LEMMA FindLinkedStep ==
    ASSUME IInv, NEW p \in Proc, FindLinked(p), UNCHANGED program
    PROVE  IInv'
    <1>1. /\ UNCHANGED <<type, entry, fileVars, program, alive, owner>> /\ Arrived(p)
          /\ Kind(p) = "link"
        BY DEF FindLinked, treeVars, procVars
    <1>2. CASE Found(p) = NoNode \/ type[Found(p)] = "dir"
        BY <1>1, <1>2, NotFound DEF FindLinked
    <1>3. CASE ~(Found(p) = NoNode \/ type[Found(p)] = "dir")
        <2>1. PICK x, o : x = Found(p) /\ o = [op[p] EXCEPT !.child = x, !.step = 2]
            OBVIOUS
        <2>2. pc[p] = "walk" /\ x \in Node /\ op[p].req \in Request /\ op[p] \in Op
            BY <1>1, <1>3, <2>1, FoundFacts, Constants, Here
        <2>3. o \in Op /\ o.req = op[p].req /\ o.child = x
            BY <2>1, <2>2, Constants DEF Op
        <2>4. DirPath(op[p].req.to) \in Seq(Name)
            BY <2>2, PathFacts
        <2>5. type[x] \in {"file", "pipe"}
            <3>1. type[x] # "none"
                BY <1>1, <1>3, <2>1, FoundIsMade
            <3> QED
                BY <1>3, <2>1, <2>2, <3>1 DEF IInv, Types, NodeType
        <2>6. Find(p, o, DirPath(op[p].req.to))
            BY <1>3, <2>1 DEF FindLinked
        <2> QED
            BY <1>1, <2>2, <2>3, <2>4, <2>5, <2>6, FindNext
    <1> QED
        BY <1>2, <1>3
-----------------------------------------------------------------------------
LEMMA TakeFacts ==
    ASSUME IInv, NEW p \in Proc, NEW x \in Node, Take(p, x)
    PROVE  /\ owner' \in [Node -> Proc \cup {Nobody}] /\ owner[x] = Nobody /\ owner'[x] = p
           /\ \A y \in Node : y # x => owner'[y] = owner[y]
           /\ \A y \in Node : owner'[y] # owner[y] => owner[y] \in {p, Nobody}
    BY DEF IInv, Types, Take, Free

LEMMA GiveFacts ==
    ASSUME IInv, NEW p \in Proc, NEW x \in Node, LockHeld(p, x), Give(x)
    PROVE  /\ owner' \in [Node -> Proc \cup {Nobody}] /\ owner[x] = p
           /\ \A y \in Node : y # x => owner'[y] = owner[y]
           /\ \A y \in Node : owner'[y] # owner[y] => owner[y] \in {p, Nobody}
    <1>1. owner[x] = p
        BY DEF IInv, Locked
    <1> QED
        BY <1>1 DEF IInv, Types, Give

(* p moves between the places where it works with handles. *)
LEMMA SlotStep ==
    ASSUME IInv, NEW p \in Proc, NEW o \in Op, NEW l \in Location,
           l \notin {"walk", "look"} \cup Parent,
           pc' = [pc EXCEPT ![p] = l], op' = [op EXCEPT ![p] = o],
           UNCHANGED <<type, entry, program, alive>>,
           o.req = op[p].req, o.step = op[p].step,
           o.child # op[p].child => Kind(p) = "open",
           table' \in [Proc -> [Slot -> MaybeHandle]], left' \in [Proc -> SUBSET Nat],
           data' \in [Node -> Seq(Byte)], owner' \in [Node -> Proc \cup {Nobody}],
           \A q \in Proc : q # p => table'[q] = table[q],
           \A x \in Node : owner'[x] # owner[x] => owner[x] \in {p, Nobody},
           \A x \in Node : LockHeld(p, x)' => owner'[x] = p,
           SlotShape(p)'
    PROVE  IInv'
    <1>1. /\ pc' \in [Proc -> Location] /\ op' \in [Proc -> Op]
          /\ pc'[p] = l /\ op'[p] = o /\ OnlyMoves(p)
        BY Frame
    <1>2. TreeShape(p)'
        <2>1. Kind(p)' = Kind(p) /\ TreeShape(p)
            BY <1>1, Here DEF Kind
        <2> HIDE DEF Kind
        <2> QED
            BY <1>1, <2>1 DEF TreeShape, Parent
    <1>3. ~NewDir(p)' /\ p \notin Creators'
        BY <1>1 DEF NewDir, Creators, Parent
    <1> QED
        BY <1>1, <1>2, <1>3, QuietStep

(* p makes a call on a handle. *)
LEMMA CallStep ==
    ASSUME IInv, NEW p \in Proc, NEW r \in Request, NEW l \in {"open", "delete", "ask", "stuck"},
           pc' = [pc EXCEPT ![p] = l], op' = [op EXCEPT ![p] = NewOp(r)],
           UNCHANGED <<type, entry, data, table, owner, program, alive>>,
           left' \in [Proc -> SUBSET Nat], p \in alive,
           r.kind \in SlotKind, r.slot \in Slot,
           table[p][r.slot] # NoHandle,
           l = "open" => r.kind \in {"reopen", "copy"},
           l = "delete" => r.kind = "close",
           l = "ask" => r.kind \in FileKind,
           r.kind = "write" => table[p][r.slot].mode # "read"
    PROVE  IInv'
    <1>1. PICK o \in Op : o = NewOp(r)
        BY NewOpFacts
    <1>2. o.req = r
        BY <1>1, NewOpFacts
    <1>3. /\ pc' \in [Proc -> Location] /\ op' \in [Proc -> Op]
          /\ pc'[p] = l /\ op'[p] = o /\ OnlyMoves(p)
        BY <1>1, Frame DEF Location
    <1>4. Kind(p)' = r.kind /\ Held(p)' = table[p][r.slot] /\ table[p][r.slot] \in Handle
        BY <1>2, <1>3, Here, Constants DEF Kind, Held
    <1>5. Kind(p)' \notin TreeKind
        BY <1>4 DEF SlotKind, FileKind, TreeKind
    <1>6. TreeShape(p)'
        <2> HIDE DEF Kind
        <2> QED
            BY <1>3, <1>5 DEF TreeShape, Parent, TreeKind
    <1>7. SlotShape(p)'
        <2>1. r.kind = "close" => l \in {"delete", "stuck"}
            BY DEF FileKind
        <2> HIDE DEF Kind, Held
        <2> QED
            BY <1>2, <1>3, <1>4, <1>5, <2>1 DEF SlotShape, UsesHeld, SlotKind, FileKind, TreeKind
    <1>8. \A x \in Node : ~LockHeld(p, x)'
        BY <1>3 DEF LockHeld
    <1>9. ~NewDir(p)' /\ p \notin Creators'
        BY <1>3 DEF NewDir, Creators
    <1>10. /\ table' \in [Proc -> [Slot -> MaybeHandle]]
           /\ data' \in [Node -> Seq(Byte)] /\ owner' \in [Node -> Proc \cup {Nobody}]
        BY DEF IInv, Types
    <1> QED
        BY <1>3, <1>6, <1>7, <1>8, <1>9, <1>10, QuietStep

(* p owns, or waits for, what it changes in the tree. *)
LEMMA ParentShape ==
    ASSUME IInv, NEW p \in Proc, pc[p] \in Parent, pc'[p] \in Parent,
           op'[p] = op[p], UNCHANGED <<type, table>>,
           pc'[p] \in {"lock2", "unlock2"} => TwoParents(p),
           pc'[p] = "moved" => Kind(p) = "rename"
    PROVE  TreeShape(p)' /\ SlotShape(p)'
    <1>1. TreeShape(p) /\ SlotShape(p)
        BY Here
    <1>2. Kind(p)' = Kind(p) /\ (TwoParents(p)' <=> TwoParents(p)) /\ Held(p)' = Held(p)
        BY DEF Kind, TwoParents, Held
    <1>3. Kind(p) \in TreeKind
        BY <1>1 DEF TreeShape
    <1> HIDE DEF Kind, TwoParents, Held
    <1>4. TreeShape(p)'
        BY <1>1, <1>2 DEF TreeShape, Parent
    <1>5. SlotShape(p)'
        BY <1>1, <1>2, <1>3 DEF SlotShape, UsesHeld, Parent, TreeKind, SlotKind, FileKind
    <1> QED
        BY <1>4, <1>5

LEMMA ParentStep ==
    ASSUME IInv, NEW p \in Proc, NEW l \in Parent, pc[p] \in Parent,
           pc' = [pc EXCEPT ![p] = l],
           UNCHANGED <<type, entry, data, table, left, op, program, alive>>,
           l \in {"lock2", "unlock2"} => TwoParents(p), l # "moved",
           l = "in" /\ Kind(p) = "mkdir" => pc[p] = "lock",
           l # "lock",
           owner' \in [Node -> Proc \cup {Nobody}],
           \A x \in Node : owner'[x] # owner[x] => owner[x] \in {p, Nobody},
           \A x \in Node : LockHeld(p, x)' => owner'[x] = p
    PROVE  IInv'
    <1>1. /\ pc' \in [Proc -> Location] /\ op' \in [Proc -> Op]
          /\ pc'[p] = l /\ op'[p] = op[p] /\ OnlyMoves(p)
        <2>1. op[p] \in Op /\ op' = [op EXCEPT ![p] = op[p]] /\ l \in Location
            BY Here DEF Parent, Location
        <2> QED
            BY <2>1, Frame
    <1>2. TreeShape(p)' /\ SlotShape(p)'
        BY <1>1, ParentShape
    <1>3. NewDir(p)' => NewDir(p) /\ op'[p].child = op[p].child
        <2>1. Kind(p)' = Kind(p) /\ ~("lock2" = l /\ Kind(p) = "mkdir")
            BY DEF Kind, TwoParents
        <2> HIDE DEF Kind
        <2> QED
            BY <1>1, <2>1 DEF NewDir, Parent
    <1>4. p \notin Creators'
        BY <1>1 DEF Creators, Parent
    <1>5. /\ table' \in [Proc -> [Slot -> MaybeHandle]] /\ left' \in [Proc -> SUBSET Nat]
          /\ data' \in [Node -> Seq(Byte)]
        BY DEF IInv, Types
    <1> QED
        BY <1>1, <1>2, <1>3, <1>4, <1>5, QuietStep
-----------------------------------------------------------------------------
LEMMA FindOpenedStep ==
    ASSUME IInv, NEW p \in Proc, FindOpened(p), UNCHANGED program
    PROVE  IInv'
    <1>1. /\ UNCHANGED <<type, entry, fileVars, program, alive, owner>> /\ Arrived(p)
          /\ Kind(p) = "open"
        BY DEF FindOpened, treeVars, procVars
    <1>2. pc[p] = "walk" /\ op[p].req \in Request /\ op[p] \in Op /\ TreeShape(p) /\ SlotShape(p)
        BY <1>1, FoundFacts, Here
    <1>3. CASE Found(p) # NoNode
        <2>1. PICK x, o : x = Found(p) /\ o = [op[p] EXCEPT !.child = x]
            OBVIOUS
        <2>2. x \in Node
            BY <1>1, <1>3, <2>1, FoundFacts
        <2>3. o \in Op /\ o.req = op[p].req /\ o.child = x /\ o.step = op[p].step
            BY <1>2, <2>1, <2>2, Constants DEF Op
        <2>4. pc' = [pc EXCEPT ![p] = "open"] /\ op' = [op EXCEPT ![p] = o]
            <3>1. op' = [op EXCEPT ![p].child = x] /\ pc' = [pc EXCEPT ![p] = "open"]
                BY <1>3, <2>1 DEF FindOpened, Goto
            <3>2. op \in [Proc -> Op]
                BY DEF IInv, Types
            <3> QED
                BY <2>1, <3>1, <3>2 DEF Op
        <2>5. /\ UNCHANGED <<data, table, left>>
              /\ table' \in [Proc -> [Slot -> MaybeHandle]] /\ left' \in [Proc -> SUBSET Nat]
              /\ data' \in [Node -> Seq(Byte)] /\ owner' \in [Node -> Proc \cup {Nobody}]
            BY <1>1 DEF IInv, Types, fileVars
        <2>6. pc'[p] = "open" /\ op'[p] = o
            BY <2>3, <2>4, <2>5, Frame DEF Location
        <2>7. Kind(p)' = "open"
            BY <1>1, <2>3, <2>6 DEF Kind
        <2>8. SlotShape(p)' /\ \A y \in Node : ~LockHeld(p, y)'
            <3> HIDE DEF Kind
            <3>1. SlotShape(p)'
                BY <2>2, <2>3, <2>6, <2>7 DEF SlotShape, UsesHeld, SlotKind, FileKind
            <3>2. \A y \in Node : ~LockHeld(p, y)'
                BY <2>6 DEF LockHeld
            <3> QED
                BY <3>1, <3>2
        <2>9. "open" \in Location /\ "open" \notin {"walk", "look"} \cup Parent
            BY DEF Location, Parent
        <2> QED
            BY <1>1, <2>3, <2>4, <2>5, <2>8, <2>9, SlotStep
    <1>4. CASE Found(p) = NoNode /\ "create" \in op[p].req.flags
        <2>1. PICK o : o = [op[p] EXCEPT !.step = 2]
            OBVIOUS
        <2>2. o \in Op /\ o.req = op[p].req /\ o.child = op[p].child
            BY <1>2, <2>1 DEF Op
        <2>3. DirPath(op[p].req.path) \in Seq(Name)
            BY <1>2, PathFacts
        <2>4. Find(p, o, DirPath(op[p].req.path))
            BY <1>4, <2>1 DEF FindOpened
        <2>5. Kind(p) # "link"
            BY <1>1
        <2> QED
            BY <1>4, <1>1, <1>2, <2>2, <2>3, <2>4, <2>5, FindNext
    <1>5. CASE Found(p) = NoNode /\ "create" \notin op[p].req.flags
        BY <1>1, <1>5, NotFound DEF FindOpened
    <1> QED
        BY <1>3, <1>4, <1>5

LEMMA FindRenamedStep ==
    ASSUME IInv, NEW p \in Proc, FindRenamed(p), UNCHANGED program
    PROVE  IInv'
    <1>1. /\ UNCHANGED <<type, entry, fileVars, program, alive, owner>> /\ Arrived(p)
          /\ Kind(p) = "rename"
        BY DEF FindRenamed, treeVars, procVars
    <1>2. /\ pc[p] = "walk" /\ op[p].req \in Request /\ op[p] \in Op
          /\ Found(p) \in MaybeNode /\ op[p].step \in {1, 2}
        BY <1>1, FoundFacts, Here
    <1>3. Kind(p) # "link" /\ Kind(p) # "open"
        BY <1>1
    <1>4. CASE op[p].step = 1
        <2>1. PICK o : o = [op[p] EXCEPT !.dir = Found(p), !.step = 2]
            OBVIOUS
        <2>2. o \in Op /\ o.req = op[p].req /\ o.child = op[p].child
            BY <1>2, <2>1 DEF Op
        <2>3. DirPath(op[p].req.to) \in Seq(Name)
            BY <1>2, PathFacts
        <2>4. Find(p, o, DirPath(op[p].req.to))
            BY <1>4, <2>1 DEF FindRenamed
        <2> QED
            BY <1>1, <1>2, <1>3, <2>2, <2>3, <2>4, FindNext
    <1>5. CASE op[p].step = 2 /\ (Refused(Found(p)) \/ Refused(op[p].dir))
        BY <1>1, <1>5, NotFound DEF FindRenamed
    <1>6. CASE op[p].step = 2 /\ ~Refused(Found(p)) /\ ~Refused(op[p].dir)
        <2>1. op[p].cur \in Node /\ type[op[p].cur] = "dir"
            BY <1>1, <1>6, FoundFacts DEF Refused
        <2>2. op[p].dir \in Node /\ type[op[p].dir] = "dir"
            BY <1>6, Here, Constants DEF Refused
        <2>3. Goto(p, "lock") /\ UNCHANGED op
            BY <1>6 DEF FindRenamed
        <2> QED
            BY <1>1, <1>3, <2>1, <2>2, <2>3, LockNext
    <1> QED
        BY <1>2, <1>4, <1>5, <1>6

LEMMA LockStep ==
    ASSUME IInv, NEW p \in Proc, Lock(p), UNCHANGED program
    PROVE  IInv'
    <1>1. TreeShape(p) /\ pc[p] = "lock" /\ op[p].cur \in Node /\ pc[p] \in Parent
        BY Here DEF Lock, At, TreeShape, Parent
    <1>2. PICK l \in {"lock2", "in"} : /\ l = IF TwoParents(p) THEN "lock2" ELSE "in"
                                       /\ pc' = [pc EXCEPT ![p] = l]
        BY DEF Lock, Goto
    <1>3. UNCHANGED <<type, entry, data, table, left, op, program, alive>>
        BY DEF Lock, treeVars, fileVars, procVars
    <1>4. Take(p, op[p].cur)
        BY DEF Lock
    <1>5. pc'[p] = l
        BY <1>2 DEF IInv, Types
    <1>6. \A x \in Node : LockHeld(p, x)' => owner'[x] = p
        <2>1. TwoParents(p)' <=> TwoParents(p)
            BY <1>3 DEF TwoParents, Kind
        <2>2. owner'[op[p].cur] = p
            BY <1>1, <1>4, TakeFacts
        <2> HIDE DEF TwoParents
        <2> QED
            BY <1>2, <1>3, <1>5, <2>1, <2>2 DEF LockHeld
    <1>7. l \in Parent /\ l # "moved" /\ l # "lock" /\ (l \in {"lock2", "unlock2"} => TwoParents(p))
        BY <1>2 DEF Parent
    <1> QED
        BY <1>1, <1>2, <1>3, <1>4, <1>6, <1>7, TakeFacts, ParentStep

LEMMA Lock2Step ==
    ASSUME IInv, NEW p \in Proc, Lock2(p), UNCHANGED program
    PROVE  IInv'
    <1>1. /\ TreeShape(p) /\ pc[p] = "lock2" /\ op[p].cur \in Node /\ pc[p] \in Parent
          /\ TwoParents(p) /\ Kind(p) = "rename" /\ op[p].dir \in Node
        BY Here DEF Lock2, At, TreeShape, Parent, TwoParents
    <1>2. pc' = [pc EXCEPT ![p] = "in"]
        BY DEF Lock2, Goto
    <1>3. UNCHANGED <<type, entry, data, table, left, op, program, alive>>
        BY DEF Lock2, treeVars, fileVars, procVars
    <1>4. Take(p, op[p].dir) /\ Kind(p) # "mkdir"
        BY <1>1 DEF Lock2
    <1>5. pc'[p] = "in"
        BY <1>2 DEF IInv, Types
    <1>6. owner[op[p].cur] = p
        BY <1>1 DEF IInv, Locked, LockHeld
    <1>7. \A x \in Node : LockHeld(p, x)' => owner'[x] = p
        <2>1. owner'[op[p].dir] = p /\ owner'[op[p].cur] = p
            BY <1>1, <1>4, <1>6, TakeFacts DEF TwoParents
        <2> QED
            BY <1>3, <1>5, <2>1 DEF LockHeld
    <1>8. "in" \in Parent
        BY DEF Parent
    <1> QED
        BY <1>1, <1>2, <1>3, <1>4, <1>7, <1>8, TakeFacts, ParentStep

LEMMA Unlock2Step ==
    ASSUME IInv, NEW p \in Proc, Unlock2(p), UNCHANGED program
    PROVE  IInv'
    <1>1. /\ TreeShape(p) /\ pc[p] = "unlock2" /\ op[p].cur \in Node /\ pc[p] \in Parent
          /\ TwoParents(p) /\ Kind(p) = "rename" /\ op[p].dir \in Node
        BY Here DEF Unlock2, At, TreeShape, Parent, TwoParents
    <1>2. pc' = [pc EXCEPT ![p] = "unlock"]
        BY DEF Unlock2, Goto
    <1>3. UNCHANGED <<type, entry, data, table, left, op, program, alive>>
        BY DEF Unlock2, treeVars, fileVars, procVars
    <1>4. Give(op[p].dir) /\ LockHeld(p, op[p].dir)
        BY <1>1 DEF Unlock2, LockHeld
    <1>5. pc'[p] = "unlock"
        BY <1>2 DEF IInv, Types
    <1>6. owner[op[p].cur] = p
        BY <1>1 DEF IInv, Locked, LockHeld
    <1>7. \A x \in Node : LockHeld(p, x)' => owner'[x] = p
        <2>1. owner'[op[p].cur] = p
            BY <1>1, <1>4, <1>6, GiveFacts DEF TwoParents
        <2> QED
            BY <1>3, <1>5, <2>1 DEF LockHeld
    <1>8. "unlock" \in Parent
        BY DEF Parent
    <1> QED
        BY <1>1, <1>2, <1>3, <1>4, <1>7, <1>8, GiveFacts, ParentStep

LEMMA UnlockStep ==
    ASSUME IInv, NEW p \in Proc, Unlock(p), UNCHANGED program
    PROVE  IInv'
    <1>1. /\ TreeShape(p) /\ SlotShape(p) /\ pc[p] = "unlock" /\ op[p].cur \in Node /\ pc[p] \in Parent
          /\ op[p] \in Op
        BY Here DEF Unlock, At, TreeShape, Parent
    <1>2. UNCHANGED <<type, entry, data, table, left, program, alive>>
        BY DEF Unlock, treeVars, fileVars, procVars
    <1>3. /\ table' \in [Proc -> [Slot -> MaybeHandle]] /\ left' \in [Proc -> SUBSET Nat]
          /\ data' \in [Node -> Seq(Byte)]
        BY <1>2 DEF IInv, Types
    <1>4. Give(op[p].cur) /\ LockHeld(p, op[p].cur)
        BY <1>1 DEF Unlock, LockHeld
    <1>5. /\ owner' \in [Node -> Proc \cup {Nobody}]
          /\ \A y \in Node : owner'[y] # owner[y] => owner[y] \in {p, Nobody}
        BY <1>1, <1>4, GiveFacts
    <1>6. CASE Kind(p) = "open"
        <2>1. pc' = [pc EXCEPT ![p] = "open"] /\ op' = op
            BY <1>6 DEF Unlock, Goto
        <2>2. pc'[p] = "open" /\ op'[p] = op[p]
            BY <2>1 DEF IInv, Types
        <2>3. Kind(p)' = "open" /\ op[p].child \in Node
            BY <1>1, <1>6, <2>1 DEF Kind, TreeShape
        <2>4. SlotShape(p)'
            <3> HIDE DEF Kind
            <3> QED
                BY <2>2, <2>3 DEF SlotShape, UsesHeld, SlotKind, FileKind
        <2>5. \A y \in Node : ~LockHeld(p, y)'
            BY <2>2 DEF LockHeld
        <2>6. "open" \in Location /\ "open" \notin {"walk", "look"} \cup Parent
            BY DEF Location, Parent
        <2>7. op' = [op EXCEPT ![p] = op[p]]
            BY <2>1, Here
        <2> QED
            BY <1>1, <1>2, <1>3, <1>5, <2>1, <2>4, <2>5, <2>6, <2>7, SlotStep
    <1>7. CASE Kind(p) # "open"
        <2>1. Finish(p)
            BY <1>7 DEF Unlock
        <2> QED
            BY <1>2, <1>3, <1>5, <2>1, FinishStep
    <1> QED
        BY <1>6, <1>7
-----------------------------------------------------------------------------
LEMMA TableFacts ==
    ASSUME IInv, NEW p \in Proc, NEW i, NEW h \in MaybeHandle,
           table' = [table EXCEPT ![p][i] = h]
    PROVE  /\ table' \in [Proc -> [Slot -> MaybeHandle]]
           /\ \A q \in Proc : q # p => table'[q] = table[q]
           /\ i \in Slot => table'[p][i] = h
           /\ \A j \in Slot : j # i => table'[p][j] = table[p][j]
    BY DEF IInv, Types

LEMMA LeftFacts ==
    ASSUME IInv
    PROVE  /\ \A p \in Proc : \A s : [left EXCEPT ![p] = left[p] \ s] \in [Proc -> SUBSET Nat]
           /\ \A p \in Proc, r \in Request :
                  [left EXCEPT ![p] = LeftBehind(p, r)] \in [Proc -> SUBSET Nat]
    <1>1. \A p \in Proc : \A s : [left EXCEPT ![p] = left[p] \ s] \in [Proc -> SUBSET Nat]
        BY DEF IInv, Types
    <1>2. ASSUME NEW p \in Proc, NEW r \in Request
          PROVE  [left EXCEPT ![p] = LeftBehind(p, r)] \in [Proc -> SUBSET Nat]
        <2>1. left \in [Proc -> SUBSET Nat] /\ r.slot \in Nat
            BY PathFacts DEF IInv, Types
        <2>2. LeftBehind(p, r) \in SUBSET Nat
            BY <2>1 DEF LeftBehind
        <2> HIDE DEF LeftBehind
        <2> QED
            BY <2>1, <2>2
    <1> QED
        BY <1>1, <1>2

LEMMA OpenStep ==
    ASSUME IInv, NEW p \in Proc, Open(p), UNCHANGED program
    PROVE  IInv'
    <1>1. /\ SlotShape(p) /\ pc[p] = "open" /\ op[p] \in Op /\ p \in alive
          /\ Kind(p) \in {"open", "reopen", "copy"}
        BY Here DEF Open, At, SlotShape
    <1>2. PICK h : h = MadeHandle(p)
        OBVIOUS
    <1>3. h \in Handle
        <2>1. CASE Kind(p) = "open"
            <3>1. op[p].child \in Node /\ op[p].req \in Request
                BY <1>1, <2>1, Here DEF SlotShape, UsesHeld
            <3>2. op[p].req.mode \in Mode
                BY <3>1, PathFacts
            <3> QED
                BY <1>2, <2>1, <3>1, <3>2 DEF MadeHandle, Handle
        <2>2. CASE Kind(p) # "open"
            <3>1. Held(p) \in Handle
                <4> HIDE DEF Kind, Held
                <4> QED
                    BY <1>1, <2>2 DEF SlotShape, UsesHeld, SlotKind
            <3> QED
                BY <1>2, <2>2, <3>1 DEF MadeHandle
        <2> QED
            BY <2>1, <2>2
    <1>4. h.node \in Node
        BY <1>3, Constants
    <1>5. Take(p, h.node) /\ pc' = [pc EXCEPT ![p] = "opened"]
          /\ UNCHANGED <<type, entry, table, left, alive, program>>
        BY <1>2 DEF Open, Goto, treeVars, procVars
    <1>6. data' \in [Node -> Seq(Byte)]
        <2>1. data \in [Node -> Seq(Byte)] /\ <<>> \in Seq(Byte)
            BY DEF IInv, Types
        <2>2. data' = IF h.trunc /\ type[h.node] = "file"
                      THEN [data EXCEPT ![h.node] = <<>>] ELSE data
            BY <1>2 DEF Open
        <2> QED
            BY <2>1, <2>2
    <1>7. PICK o : o = [op[p] EXCEPT !.handle = h]
        OBVIOUS
    <1>8. /\ o \in Op /\ o.req = op[p].req /\ o.child = op[p].child /\ o.step = op[p].step
          /\ o.handle = h
        BY <1>1, <1>3, <1>7, Constants DEF Op
    <1>9. op' = [op EXCEPT ![p] = o]
        <2>1. op' = [op EXCEPT ![p].handle = h]
            BY <1>2 DEF Open
        <2>2. op \in [Proc -> Op]
            BY DEF IInv, Types
        <2> QED
            BY <1>7, <2>1, <2>2 DEF Op
    <1>10. pc'[p] = "opened" /\ op'[p] = o
        BY <1>5, <1>8, <1>9, Frame DEF Location
    <1>11. Kind(p)' = Kind(p)
        BY <1>8, <1>10 DEF Kind
    <1>12. SlotShape(p)'
        <2>1. Kind(p) \in SlotKind => op'[p].req.slot \in Slot
            BY <1>1, <1>8, <1>10 DEF SlotShape, UsesHeld
        <2> HIDE DEF Kind, Held
        <2> QED
            BY <1>1, <1>3, <1>8, <1>10, <1>11, <2>1 DEF SlotShape, UsesHeld
    <1>13. owner'[h.node] = p
        BY <1>4, <1>5, TakeFacts
    <1>14. \A x \in Node : LockHeld(p, x)' => owner'[x] = p
        BY <1>8, <1>10, <1>13 DEF LockHeld
    <1>15. /\ table' \in [Proc -> [Slot -> MaybeHandle]] /\ left' \in [Proc -> SUBSET Nat]
           /\ owner' \in [Node -> Proc \cup {Nobody}]
           /\ \A x \in Node : owner'[x] # owner[x] => owner[x] \in {p, Nobody}
        BY <1>4, <1>5, TakeFacts DEF IInv, Types
    <1>16. "opened" \in Location /\ "opened" \notin {"walk", "look"} \cup Parent
        BY DEF Location, Parent
    <1> QED
        BY <1>5, <1>6, <1>8, <1>9, <1>12, <1>14, <1>15, <1>16, SlotStep

LEMMA OpenedStep ==
    ASSUME IInv, NEW p \in Proc, Opened(p), UNCHANGED program
    PROVE  IInv'
    <1>1. /\ SlotShape(p) /\ pc[p] = "opened" /\ op[p] \in Op /\ op[p].handle \in Handle
          /\ Kind(p) \in {"open", "reopen", "copy"}
        <2>1. /\ SlotShape(p) /\ pc[p] = "opened" /\ op[p] \in Op
            BY Here DEF Opened, At
        <2>2. Kind(p) \in {"open", "reopen", "copy"}
            BY <2>1 DEF SlotShape, UsesHeld
        <2>3. Kind(p) # "close"
            BY <2>2
        <2> QED
            BY <2>1, <2>2, <2>3 DEF SlotShape, UsesHeld
    <1>2. op[p].handle.node \in Node
        BY <1>1, Constants
    <1>3. PICK l \in {"add", "evict"} :
              /\ l = IF Kind(p) = "copy" THEN "evict" ELSE "add"
              /\ pc' = [pc EXCEPT ![p] = l]
        BY DEF Opened, Goto
    <1>4. UNCHANGED <<type, entry, data, table, left, op, program, alive>>
        BY DEF Opened, treeVars, fileVars, procVars
    <1>5. Give(op[p].handle.node) /\ LockHeld(p, op[p].handle.node)
        BY <1>1 DEF Opened, LockHeld
    <1>6. pc'[p] = l /\ op'[p] = op[p] /\ op' = [op EXCEPT ![p] = op[p]]
        BY <1>3, <1>4, Here DEF IInv, Types
    <1>7. Kind(p)' = Kind(p) /\ Held(p)' = Held(p)
        BY <1>4 DEF Kind, Held
    <1>8. SlotShape(p)'
        <2> HIDE DEF Kind, Held
        <2> QED
            BY <1>1, <1>3, <1>4, <1>6, <1>7 DEF SlotShape, UsesHeld
    <1>9. \A x \in Node : ~LockHeld(p, x)'
        BY <1>6 DEF LockHeld
    <1>10. /\ table' \in [Proc -> [Slot -> MaybeHandle]] /\ left' \in [Proc -> SUBSET Nat]
           /\ data' \in [Node -> Seq(Byte)] /\ owner' \in [Node -> Proc \cup {Nobody}]
           /\ \A x \in Node : owner'[x] # owner[x] => owner[x] \in {p, Nobody}
        BY <1>2, <1>4, <1>5, GiveFacts DEF IInv, Types
    <1>11. l \in Location /\ l \notin {"walk", "look"} \cup Parent
        BY <1>3 DEF Location, Parent
    <1> QED
        BY <1>1, <1>3, <1>4, <1>6, <1>8, <1>9, <1>10, <1>11, SlotStep

LEMMA AddStep ==
    ASSUME IInv, NEW p \in Proc, Add(p), UNCHANGED program
    PROVE  IInv'
    <1>1. /\ SlotShape(p) /\ pc[p] = "add" /\ op[p] \in Op /\ op[p].handle \in Handle
          /\ Kind(p) \in {"open", "reopen"}
        <2>1. /\ SlotShape(p) /\ pc[p] = "add" /\ op[p] \in Op
            BY Here DEF Add, At
        <2>2. Kind(p) \in {"open", "reopen"}
            BY <2>1 DEF SlotShape, UsesHeld
        <2>3. Kind(p) # "close"
            BY <2>2
        <2> QED
            BY <2>1, <2>2, <2>3 DEF SlotShape, UsesHeld
    <1>2. UNCHANGED <<type, entry, data, left, program, alive, owner>>
        BY DEF Add, treeVars, procVars
    <1>3. /\ left' \in [Proc -> SUBSET Nat] /\ owner' = owner
          /\ data' \in [Node -> Seq(Byte)] /\ owner' \in [Node -> Proc \cup {Nobody}]
        BY <1>2 DEF IInv, Types
    <1>4. CASE Unused(p) = {}
        <2>1. pc' = [pc EXCEPT ![p] = "delete"] /\ op' = op /\ table' = table
            BY <1>4 DEF Add, Goto
        <2>2. pc'[p] = "delete" /\ op'[p] = op[p] /\ op' = [op EXCEPT ![p] = op[p]]
            BY <2>1, Here DEF IInv, Types
        <2>3. Kind(p)' = Kind(p) /\ Held(p)' = Held(p)
            BY <2>1 DEF Kind, Held
        <2>4. SlotShape(p)'
            <3> HIDE DEF Kind, Held
            <3> QED
                BY <1>1, <2>1, <2>2, <2>3 DEF SlotShape, UsesHeld, SlotKind, FileKind
        <2>5. \A x \in Node : ~LockHeld(p, x)'
            BY <2>2 DEF LockHeld
        <2>6. "delete" \in Location /\ "delete" \notin {"walk", "look"} \cup Parent
            BY DEF Location, Parent
        <2>7. table' \in [Proc -> [Slot -> MaybeHandle]]
            BY <2>1 DEF IInv, Types
        <2> QED
            BY <1>1, <1>2, <1>3, <2>1, <2>2, <2>4, <2>5, <2>6, <2>7, SlotStep
    <1>5. CASE Unused(p) # {}
        <2>1. PICK i : table' = [table EXCEPT ![p][i] = op[p].handle]
            BY <1>5 DEF Add
        <2>2. Finish(p)
            BY <1>5 DEF Add
        <2>3. op[p].handle \in MaybeHandle
            BY <1>1, Constants
        <2> QED
            BY <1>2, <1>3, <2>1, <2>2, <2>3, TableFacts, FinishStep
    <1> QED
        BY <1>4, <1>5

(* p puts the handle that it has copied into its place. *)
LEMMA PlaceStep ==
    ASSUME IInv, NEW p \in Proc, Place(p), op[p].handle \in Handle,
           UNCHANGED <<type, entry, data, program, alive>>,
           owner' \in [Node -> Proc \cup {Nobody}],
           \A x \in Node : owner'[x] # owner[x] => owner[x] \in {p, Nobody}
    PROVE  IInv'
    <1>1. /\ table' = [table EXCEPT ![p][op[p].req.into] = op[p].handle]
          /\ left' = [left EXCEPT ![p] = left[p] \ {op[p].req.into}]
          /\ Finish(p) /\ op[p].handle \in MaybeHandle
        BY Constants DEF Place
    <1>2. left' \in [Proc -> SUBSET Nat] /\ data' \in [Node -> Seq(Byte)]
        BY <1>1, LeftFacts DEF IInv, Types
    <1> QED
        BY <1>1, <1>2, TableFacts, FinishStep

LEMMA EvictStep ==
    ASSUME IInv, NEW p \in Proc, Evict(p), UNCHANGED program
    PROVE  IInv'
    <1>1. /\ SlotShape(p) /\ pc[p] = "evict" /\ op[p] \in Op /\ op[p].handle \in Handle
          /\ Kind(p) = "copy" /\ op[p].req.into \in Slot
        <2>1. /\ SlotShape(p) /\ pc[p] = "evict" /\ op[p] \in Op
            BY Here DEF Evict, At
        <2>2. Kind(p) = "copy"
            BY <2>1 DEF SlotShape, UsesHeld
        <2>3. Kind(p) # "close" /\ op[p].req.into \in Slot
            BY <2>2 DEF Evict
        <2> QED
            BY <2>1, <2>2, <2>3 DEF SlotShape, UsesHeld
    <1>2. UNCHANGED <<type, entry, data, program, alive>>
        BY DEF Evict, treeVars, procVars
    <1>3. PICK old : old = table[p][op[p].req.into]
        OBVIOUS
    <1>4. CASE old = NoHandle
        <2>1. Place(p) /\ owner' = owner
            BY <1>3, <1>4 DEF Evict
        <2>2. owner' \in [Node -> Proc \cup {Nobody}]
            BY <2>1 DEF IInv, Types
        <2> QED
            BY <1>1, <1>2, <2>1, <2>2, PlaceStep
    <1>5. CASE old # NoHandle
        <2>1. /\ Take(p, old.node) /\ pc' = [pc EXCEPT ![p] = "deleted"]
              /\ table' = table /\ left' = left /\ op' = op
            BY <1>3, <1>5 DEF Evict, Goto
        <2>2. old \in Handle /\ old.node \in Node
            BY <1>1, <1>3, <1>5, Here, Constants
        <2>3. pc'[p] = "deleted" /\ op'[p] = op[p] /\ op' = [op EXCEPT ![p] = op[p]]
            BY <2>1, Here DEF IInv, Types
        <2>4. Kind(p)' = Kind(p) /\ Held(p)' = Held(p)
            BY <2>1 DEF Kind, Held
        <2>5. SlotShape(p)'
            <3> HIDE DEF Kind, Held
            <3> QED
                BY <1>1, <1>3, <2>1, <2>2, <2>3, <2>4 DEF SlotShape, UsesHeld, SlotKind, FileKind
        <2>6. owner'[old.node] = p
            BY <2>1, <2>2, TakeFacts
        <2>7. \A x \in Node : LockHeld(p, x)' => owner'[x] = p
            <3> HIDE DEF Kind, Held
            <3> QED
                BY <1>1, <1>3, <2>1, <2>3, <2>4, <2>6 DEF LockHeld
        <2>8. "deleted" \in Location /\ "deleted" \notin {"walk", "look"} \cup Parent
            BY DEF Location, Parent
        <2>9. /\ table' \in [Proc -> [Slot -> MaybeHandle]] /\ left' \in [Proc -> SUBSET Nat]
              /\ data' \in [Node -> Seq(Byte)] /\ owner' \in [Node -> Proc \cup {Nobody}]
              /\ \A x \in Node : owner'[x] # owner[x] => owner[x] \in {p, Nobody}
            BY <1>2, <2>1, <2>2, TakeFacts DEF IInv, Types
        <2> QED
            BY <1>1, <1>2, <2>1, <2>3, <2>5, <2>7, <2>8, <2>9, SlotStep
    <1> QED
        BY <1>4, <1>5
-----------------------------------------------------------------------------
LEMMA DeletingFacts ==
    ASSUME IInv, NEW p \in Proc, pc[p] = "delete", p \in alive
    PROVE  /\ SlotShape(p) /\ op[p] \in Op /\ Kind(p) \in {"open", "reopen", "close"}
           /\ Deleting(p) \in Handle /\ Deleting(p).node \in Node
    <1>1. SlotShape(p) /\ op[p] \in Op /\ Kind(p) \in {"open", "reopen", "close"}
        BY Here DEF SlotShape
    <1>2. Deleting(p) \in Handle
        <2>1. CASE Kind(p) = "close"
            <3>1. Held(p) \in Handle
                <4> HIDE DEF Kind, Held
                <4> QED
                    BY <1>1, <2>1 DEF SlotShape, UsesHeld, SlotKind
            <3> QED
                BY <2>1, <3>1 DEF Deleting
        <2>2. CASE Kind(p) # "close"
            BY <1>1, <2>2 DEF SlotShape, Deleting
        <2> QED
            BY <2>1, <2>2
    <1> QED
        BY <1>1, <1>2, Constants

LEMMA DeleteStep ==
    ASSUME IInv, NEW p \in Proc, Delete(p), UNCHANGED program
    PROVE  IInv'
    <1>1. /\ SlotShape(p) /\ op[p] \in Op /\ Kind(p) \in {"open", "reopen", "close"}
          /\ Deleting(p) \in Handle /\ Deleting(p).node \in Node
          /\ pc[p] = "delete" /\ p \in alive
        BY DeletingFacts DEF Delete, At
    <1>2. PICK h : h = Deleting(p)
        OBVIOUS
    <1>3. /\ Take(p, h.node) /\ pc' = [pc EXCEPT ![p] = "deleted"]
          /\ UNCHANGED <<type, entry, data, table, left, op, program, alive>>
        BY <1>2 DEF Delete, Goto, treeVars, fileVars, procVars
    <1>4. pc'[p] = "deleted" /\ op'[p] = op[p] /\ op' = [op EXCEPT ![p] = op[p]]
        BY <1>3, Here DEF IInv, Types
    <1>5. Kind(p)' = Kind(p) /\ Held(p)' = Held(p)
        BY <1>3 DEF Kind, Held
    <1>6. SlotShape(p)'
        <2>1. Kind(p) = "close" => Held(p) \in Handle
            BY <1>1 DEF Deleting
        <2> HIDE DEF Kind, Held
        <2> QED
            BY <1>1, <1>3, <1>4, <1>5, <2>1 DEF SlotShape, UsesHeld, SlotKind, FileKind
    <1>7. owner'[h.node] = p
        BY <1>1, <1>2, <1>3, TakeFacts
    <1>8. \A x \in Node : LockHeld(p, x)' => owner'[x] = p
        <2>1. h = IF Kind(p) = "close" THEN Held(p) ELSE op[p].handle
            BY <1>2 DEF Deleting
        <2> HIDE DEF Kind, Held
        <2> QED
            BY <1>1, <1>3, <1>4, <1>5, <1>7, <2>1 DEF LockHeld
    <1>9. "deleted" \in Location /\ "deleted" \notin {"walk", "look"} \cup Parent
        BY DEF Location, Parent
    <1>10. /\ table' \in [Proc -> [Slot -> MaybeHandle]] /\ left' \in [Proc -> SUBSET Nat]
           /\ data' \in [Node -> Seq(Byte)] /\ owner' \in [Node -> Proc \cup {Nobody}]
           /\ \A x \in Node : owner'[x] # owner[x] => owner[x] \in {p, Nobody}
        BY <1>1, <1>2, <1>3, TakeFacts DEF IInv, Types
    <1> QED
        BY <1>1, <1>3, <1>4, <1>6, <1>8, <1>9, <1>10, SlotStep

LEMMA DeletedStep ==
    ASSUME IInv, NEW p \in Proc, Deleted(p), UNCHANGED program
    PROVE  IInv'
    <1>1. /\ SlotShape(p) /\ pc[p] = "deleted" /\ op[p] \in Op
          /\ Kind(p) \in {"open", "reopen", "close", "copy"}
          /\ UNCHANGED <<type, entry, data, program, alive>>
        BY Here DEF Deleted, At, SlotShape, treeVars, procVars
    <1>2. data' \in [Node -> Seq(Byte)]
        BY <1>1 DEF IInv, Types
    <1>3. CASE Kind(p) = "copy"
        <2>1. PICK x : x = table[p][op[p].req.into].node
            OBVIOUS
        <2>2. Give(x) /\ Place(p)
            BY <1>3, <2>1 DEF Deleted
        <2>3. Kind(p) # "close"
            BY <1>3
        <2>4. /\ table[p][op[p].req.into] \in Handle /\ op[p].handle \in Handle
              /\ LockHeld(p, x)
            BY <1>1, <1>3, <2>1, <2>3 DEF SlotShape, LockHeld
        <2>5. x \in Node
            BY <2>1, <2>4, Constants
        <2>6. /\ owner' \in [Node -> Proc \cup {Nobody}]
              /\ \A y \in Node : owner'[y] # owner[y] => owner[y] \in {p, Nobody}
            BY <2>2, <2>4, <2>5, GiveFacts
        <2> QED
            BY <1>1, <2>2, <2>4, <2>6, PlaceStep
    <1>4. CASE Kind(p) = "close"
        <2>1. PICK x : x = Held(p).node
            OBVIOUS
        <2>2. /\ Give(x) /\ Finish(p)
              /\ table' = [table EXCEPT ![p][op[p].req.slot] = NoHandle]
              /\ left' = [left EXCEPT ![p] = left[p] \ {op[p].req.slot}]
            BY <1>4, <2>1 DEF Deleted
        <2>3. Held(p) \in Handle /\ LockHeld(p, x)
            <3>1. UsesHeld(p)
                BY <1>1, <1>4 DEF UsesHeld
            <3> QED
                BY <1>1, <1>4, <2>1, <3>1 DEF SlotShape, LockHeld
        <2>4. x \in Node
            BY <2>1, <2>3, Constants
        <2>5. /\ owner' \in [Node -> Proc \cup {Nobody}]
              /\ \A y \in Node : owner'[y] # owner[y] => owner[y] \in {p, Nobody}
            BY <2>2, <2>3, <2>4, GiveFacts
        <2>6. left' \in [Proc -> SUBSET Nat]
            BY <2>2, LeftFacts
        <2>7. NoHandle \in MaybeHandle
            BY Constants
        <2> QED
            BY <1>1, <1>2, <2>2, <2>5, <2>6, <2>7, TableFacts, FinishStep
    <1>5. CASE Kind(p) \notin {"copy", "close"}
        <2>1. PICK x : x = op[p].handle.node
            OBVIOUS
        <2>2. Give(x) /\ Finish(p) /\ table' = table /\ left' = left
            BY <1>5, <2>1 DEF Deleted
        <2>3. op[p].handle \in Handle /\ LockHeld(p, x)
            BY <1>1, <1>5, <2>1 DEF SlotShape, LockHeld
        <2>4. x \in Node
            BY <2>1, <2>3, Constants
        <2>5. /\ owner' \in [Node -> Proc \cup {Nobody}]
              /\ \A y \in Node : owner'[y] # owner[y] => owner[y] \in {p, Nobody}
            BY <2>2, <2>3, <2>4, GiveFacts
        <2>6. left' \in [Proc -> SUBSET Nat] /\ table' \in [Proc -> [Slot -> MaybeHandle]]
            BY <2>2 DEF IInv, Types
        <2> QED
            BY <1>1, <1>2, <2>2, <2>5, <2>6, FinishStep
    <1> QED
        BY <1>3, <1>4, <1>5

LEMMA CloseStep ==
    ASSUME IInv, NEW p \in Proc, NEW r \in Request, Close(p, r), UNCHANGED program
    PROVE  IInv'
    <1>1. /\ pc' = [pc EXCEPT ![p] = "delete"] /\ op' = [op EXCEPT ![p] = NewOp(r)]
          /\ UNCHANGED <<type, entry, data, table, left, owner, program, alive>>
          /\ p \in alive /\ r.kind = "close" /\ r.slot \in Slot /\ table[p][r.slot] # NoHandle
        BY DEF Close, At, Goto, treeVars, fileVars, procVars
    <1>2. left' \in [Proc -> SUBSET Nat]
        BY <1>1 DEF IInv, Types
    <1>3. r.kind \in SlotKind
        BY <1>1 DEF SlotKind
    <1> QED
        BY <1>1, <1>2, <1>3, CallStep

LEMMA UseStep ==
    ASSUME IInv, NEW p \in Proc, NEW r \in Request, Use(p, r), UNCHANGED program
    PROVE  IInv'
    <1>1. PICK l \in {"stuck", "ask"} : pc' = [pc EXCEPT ![p] = l]
        BY DEF Use, HandleCall, Goto
    <1>2. /\ op' = [op EXCEPT ![p] = NewOp(r)]
          /\ UNCHANGED <<type, entry, data, table, left, owner, program, alive>>
          /\ p \in alive /\ r.kind \in FileKind /\ r.slot \in Slot /\ table[p][r.slot] # NoHandle
        BY DEF Use, HandleCall, At, FileKind, treeVars, fileVars, procVars
    <1>3. r.kind = "write" => table[p][r.slot].mode # "read"
        BY DEF Use, Permits
    <1>4. left' \in [Proc -> SUBSET Nat]
        BY <1>2 DEF IInv, Types
    <1>5. r.kind \in SlotKind /\ r.kind # "copy"
        BY <1>2 DEF SlotKind, FileKind
    <1> QED
        BY <1>1, <1>2, <1>3, <1>4, <1>5, CallStep

LEMMA CopyStep ==
    ASSUME IInv, NEW p \in Proc, NEW r \in Request, Copy(p, r), UNCHANGED program
    PROVE  IInv'
    <1>1. PICK l \in {"stuck", "open"} : pc' = [pc EXCEPT ![p] = l]
        BY DEF Copy, HandleCall, Goto
    <1>2. /\ op' = [op EXCEPT ![p] = NewOp(r)]
          /\ UNCHANGED <<type, entry, data, table, owner, program, alive>>
          /\ p \in alive /\ r.kind \in {"reopen", "copy"}
          /\ r.slot \in Slot /\ table[p][r.slot] # NoHandle
        BY DEF Copy, HandleCall, At, treeVars, procVars
    <1>3. left' \in [Proc -> SUBSET Nat]
        <2>1. left' = [left EXCEPT ![p] = LeftBehind(p, r)]
            BY DEF Copy
        <2> QED
            BY <2>1, LeftFacts
    <1>4. r.kind \in SlotKind /\ r.kind # "write"
        BY <1>2 DEF SlotKind
    <1> QED
        BY <1>1, <1>2, <1>3, <1>4, CallStep

LEMMA AskStep ==
    ASSUME IInv, NEW p \in Proc, Ask(p), UNCHANGED program
    PROVE  IInv'
    <1>1. /\ SlotShape(p) /\ pc[p] = "ask" /\ op[p] \in Op /\ p \in alive
          /\ Kind(p) \in FileKind
        BY Here DEF Ask, At, SlotShape
    <1>2. PICK h : h = Held(p)
        OBVIOUS
    <1>3. /\ Take(p, h.node) /\ pc' = [pc EXCEPT ![p] = "use"]
          /\ UNCHANGED <<type, entry, data, table, left, op, program, alive>>
        BY <1>2 DEF Ask, Goto, treeVars, fileVars, procVars
    <1>4. pc'[p] = "use" /\ op'[p] = op[p] /\ op' = [op EXCEPT ![p] = op[p]]
        BY <1>3, Here DEF IInv, Types
    <1>5. Kind(p)' = Kind(p) /\ Held(p)' = Held(p)
        BY <1>3 DEF Kind, Held
    <1>6. h \in Handle /\ (Kind(p) = "write" => h.mode # "read")
        <2> HIDE DEF Kind, Held
        <2> QED
            BY <1>1, <1>2 DEF SlotShape, UsesHeld, SlotKind, FileKind
    <1>7. SlotShape(p)'
        <2> HIDE DEF Kind, Held
        <2> QED
            BY <1>1, <1>2, <1>3, <1>4, <1>5, <1>6 DEF SlotShape, UsesHeld, SlotKind, FileKind
    <1>8. owner'[h.node] = p
        BY <1>3, <1>6, Constants, TakeFacts
    <1>9. \A x \in Node : LockHeld(p, x)' => owner'[x] = p
        <2> HIDE DEF Kind, Held
        <2> QED
            BY <1>2, <1>4, <1>5, <1>8 DEF LockHeld
    <1>10. "use" \in Location /\ "use" \notin {"walk", "look"} \cup Parent
        BY DEF Location, Parent
    <1>11. /\ table' \in [Proc -> [Slot -> MaybeHandle]] /\ left' \in [Proc -> SUBSET Nat]
           /\ data' \in [Node -> Seq(Byte)] /\ owner' \in [Node -> Proc \cup {Nobody}]
           /\ \A x \in Node : owner'[x] # owner[x] => owner[x] \in {p, Nobody}
        BY <1>3, <1>6, Constants, TakeFacts DEF IInv, Types
    <1> QED
        BY <1>1, <1>3, <1>4, <1>7, <1>9, <1>10, <1>11, SlotStep
-----------------------------------------------------------------------------
(* A write keeps what is there, but the byte at its offset. *)
LEMMA WrittenFacts ==
    ASSUME NEW content \in Seq(Byte), NEW offset \in Nat, NEW unit \in Byte
    PROVE  LET new == Written(content, offset, unit)
           IN  /\ new \in Seq(Byte)
               /\ Len(new) = IF offset < Len(content) THEN Len(content) ELSE offset + 1
               /\ \A i \in 1 .. Len(new) :
                      new[i] = IF i = offset + 1 THEN unit
                               ELSE IF i <= Len(content) THEN content[i] ELSE Gap
    <1>1. PICK n : n = IF offset < Len(content) THEN Len(content) ELSE offset + 1
        OBVIOUS
    <1>2. n \in Nat
        BY <1>1
    <1>3. PICK new : new = Written(content, offset, unit)
        OBVIOUS
    <1>4. new = [i \in 1 .. n |-> IF i = offset + 1 THEN unit
                                  ELSE IF i <= Len(content) THEN content[i] ELSE Gap]
        BY <1>1, <1>3 DEF Written
    <1>5. \A i \in 1 .. n : (IF i = offset + 1 THEN unit
                             ELSE IF i <= Len(content) THEN content[i] ELSE Gap) \in Byte
        BY <1>2 DEF Byte
    <1>6. new \in [1 .. n -> Byte]
        BY <1>4, <1>5
    <1>7. new \in Seq(Byte) /\ Len(new) = n
        BY <1>2, <1>6
    <1> QED
        BY <1>1, <1>3, <1>4, <1>7

LEMMA UseFileFacts ==
    ASSUME IInv, NEW p \in Proc, UseFile(p)
    PROVE  /\ pc[p] = "use" /\ Kind(p) \in FileKind /\ Held(p) \in Handle /\ Held(p).node \in Node
           /\ op[p].req \in Request /\ op[p].req.slot \in Slot
           /\ Kind(p) = "write" => Held(p).mode # "read"
           /\ WriteOffset(Held(p)) \in Nat /\ data[Held(p).node] \in Seq(Byte)
    <1>1. SlotShape(p) /\ pc[p] = "use" /\ Kind(p) \in FileKind
        BY Here DEF UseFile, At, SlotShape
    <1>2. /\ Kind(p) \in SlotKind /\ Kind(p) # "none"
        BY <1>1 DEF SlotKind, FileKind
    <1>3. /\ Held(p) \in Handle /\ (Kind(p) = "write" => Held(p).mode # "read")
          /\ op[p].req.slot \in Slot
        <2> HIDE DEF Kind, Held
        <2> QED
            BY <1>1, <1>2 DEF SlotShape, UsesHeld
    <1>4. op[p].req \in Request
        BY <1>2, Here
    <1>5. Held(p).node \in Node /\ Held(p).offset \in Nat
        BY <1>3 DEF Handle
    <1>6. data[Held(p).node] \in Seq(Byte)
        BY <1>5 DEF IInv, Types
    <1>7. WriteOffset(Held(p)) \in Nat
        BY <1>5, <1>6 DEF WriteOffset
    <1> QED
        BY <1>1, <1>3, <1>4, <1>5, <1>6, <1>7

LEMMA UseFileStep ==
    ASSUME IInv, NEW p \in Proc, UseFile(p), UNCHANGED program
    PROVE  IInv'
    <1>1. /\ pc[p] = "use" /\ Kind(p) \in FileKind /\ Held(p) \in Handle /\ Held(p).node \in Node
          /\ op[p].req \in Request /\ op[p].req.slot \in Slot
          /\ WriteOffset(Held(p)) \in Nat /\ data[Held(p).node] \in Seq(Byte)
        BY UseFileFacts
    <1>2. PICK h, x, s : h = Held(p) /\ x = h.node /\ s = op[p].req.slot
        OBVIOUS
    <1>3. /\ Give(x) /\ Finish(p) /\ UNCHANGED <<type, entry, left, program, alive>>
        BY <1>2 DEF UseFile, treeVars, procVars
    <1>4. LockHeld(p, x)
        BY <1>1, <1>2 DEF LockHeld
    <1>5. /\ owner' \in [Node -> Proc \cup {Nobody}]
          /\ \A y \in Node : owner'[y] # owner[y] => owner[y] \in {p, Nobody}
        BY <1>1, <1>2, <1>3, <1>4, GiveFacts
    <1>6. data' \in [Node -> Seq(Byte)]
        <2>1. data \in [Node -> Seq(Byte)] /\ p \in Byte
            BY DEF IInv, Types, Byte
        <2>2. CASE Kind(p) = "write"
            <3>1. PICK new : new = Written(data[x], WriteOffset(h), p)
                OBVIOUS
            <3>2. data' = [data EXCEPT ![x] = new]
                BY <1>2, <2>1, <2>2, <3>1, <1>1 DEF UseFile
            <3>3. new \in Seq(Byte)
                BY <1>1, <1>2, <2>1, <3>1, WrittenFacts
            <3> QED
                BY <2>1, <3>2, <3>3
        <2>3. CASE Kind(p) # "write"
            BY <2>1, <2>3 DEF UseFile
        <2> QED
            BY <2>2, <2>3
    <1>7. PICK n \in Nat : table' = [table EXCEPT ![p][s].offset = n]
        <2>1. CASE Kind(p) = "write"
            <3>1. PICK n : n = WriteOffset(h) + 1
                OBVIOUS
            <3>2. n \in Nat
                BY <1>1, <1>2, <3>1
            <3>3. table' = [table EXCEPT ![p][s].offset = n]
                BY <1>2, <2>1, <3>1 DEF UseFile
            <3> QED
                BY <3>2, <3>3
        <2>2. CASE Kind(p) = "read"
            <3>1. PICK n : n = IF h.offset < Len(data[x]) THEN h.offset + 1 ELSE h.offset
                OBVIOUS
            <3>2. n \in Nat
                BY <1>1, <1>2, <3>1 DEF Handle
            <3>3. table' = [table EXCEPT ![p][s].offset = n]
                BY <1>2, <2>2, <3>1 DEF UseFile
            <3> QED
                BY <3>2, <3>3
        <2>3. CASE Kind(p) \notin {"write", "read"}
            <3>1. PICK n : n = IF "end" \in op[p].req.flags THEN Len(data[x]) ELSE op[p].req.into
                OBVIOUS
            <3>2. n \in Nat
                <4>1. op[p].req.into \in Nat /\ Len(data[x]) \in Nat
                    BY <1>1, <1>2, PathFacts
                <4> QED
                    BY <3>1, <4>1
            <3>3. table' = [table EXCEPT ![p][s].offset = n]
                BY <1>2, <2>3, <3>1 DEF UseFile
            <3> QED
                BY <3>2, <3>3
        <2> QED
            BY <2>1, <2>2, <2>3
    <1>8. /\ table' \in [Proc -> [Slot -> MaybeHandle]]
          /\ \A q \in Proc : q # p => table'[q] = table[q]
        <2>1. PICK g : g = [h EXCEPT !.offset = n]
            OBVIOUS
        <2>2. g \in Handle
            BY <1>1, <1>2, <2>1 DEF Handle
        <2>3. table' = [table EXCEPT ![p][s] = g]
            BY <1>1, <1>2, <1>7, <2>1 DEF IInv, Types, Held
        <2>4. g \in MaybeHandle
            BY <2>2, Constants
        <2> QED
            BY <2>3, <2>4, TableFacts
    <1>9. left' \in [Proc -> SUBSET Nat]
        BY <1>3 DEF IInv, Types
    <1> QED
        BY <1>3, <1>5, <1>6, <1>8, <1>9, FinishStep
-----------------------------------------------------------------------------
(* A set of numbers that is not empty has a least one.                     *)
LEMMA LeastNumber ==
    ASSUME NEW S, S \subseteq Nat, S # {}
    PROVE  \E m \in S : \A k \in S : m <= k
    <1>1. PICK R : R = {ss \in Nat \X Nat : ss[1] < ss[2]}
        OBVIOUS
    <1>2. IsWellFoundedOn(R, Nat)
        BY <1>1, NatLessThanWellFounded DEF OpToRel
    <1>3. PICK m \in S : \A k \in S : <<k, m>> \notin R
        BY <1>2, WFMin
    <1>4. ASSUME NEW k \in S
          PROVE  m <= k
        <2>1. k \in Nat /\ m \in Nat /\ <<k, m>> \in Nat \X Nat /\ <<k, m>> \notin R
            BY <1>3
        <2>2. k < m => <<k, m>> \in R
            BY <1>1, <2>1
        <2> QED
            BY <2>1, <2>2
    <1> QED
        BY <1>3, <1>4

LEMMA FreshFacts ==
    ASSUME Unmade # {}
    PROVE  Fresh \in Node /\ type[Fresh] = "none"
    <1>1. Unmade \subseteq Nat
        BY Constants DEF Unmade
    <1>2. PICK x \in Unmade : \A y \in Unmade : x <= y
        BY <1>1, LeastNumber
    <1>3. /\ x \in Node /\ type[x] = "none"
          /\ \A y \in Node : type[y] = "none" => x <= y
        BY <1>2 DEF Unmade
    <1> QED
        BY <1>3 DEF Fresh

(* A node x is made. *)
LEMMA MakeFacts ==
    ASSUME IInv, NEW x \in Node, type[x] = "none", NEW t \in NodeType \ {"none"},
           type' = [type EXCEPT ![x] = t]
    PROVE  /\ type' \in [Node -> NodeType] /\ Grows /\ type'[x] = t
           /\ \A y \in Node : y # x => type'[y] = type[y]
           /\ Cardinality(Unmade') = Cardinality(Unmade) - 1 /\ Cardinality(Unmade') \in Nat
    <1>1. /\ type' \in [Node -> NodeType] /\ Grows /\ type'[x] = t
          /\ \A y \in Node : y # x => type'[y] = type[y]
        BY DEF IInv, Types, NodeType, Grows
    <1>2. Unmade' = Unmade \ {x} /\ x \in Unmade
        BY <1>1 DEF Unmade
    <1>3. /\ Cardinality(Unmade \ {x}) = Cardinality(Unmade) - 1
          /\ IsFiniteSet(Unmade \ {x})
        BY <1>2, NodesAreFinite, FS_RemoveElement
    <1> QED
        BY <1>1, <1>2, <1>3, FS_CardinalityType

LEMMA EntryFacts ==
    ASSUME IInv, NEW d \in Node, NEW n \in Name
    PROVE  /\ entry[d][n] \in MaybeNode
           /\ entry[d][n] # NoNode => entry[d][n] \in Node /\ type[entry[d][n]] # "none"
    <1>1. entry[d][n] \in MaybeNode
        BY DEF IInv, Types
    <1>2. entry[d][n] # NoNode => type[entry[d][n]] # "none"
        BY DEF IInv, Named
    <1> QED
        BY <1>1, <1>2, Constants

LEMMA MakeStep ==
    ASSUME IInv, NEW p \in Proc, OnlyMoves(p),
           NEW x \in Node, type[x] = "none", NEW t \in NodeType \ {"none"},
           type' = [type EXCEPT ![x] = t],
           UNCHANGED <<entry, data, left, owner, program, alive>>,
           pc' \in [Proc -> Location], op' \in [Proc -> Op],
           table' \in [Proc -> [Slot -> MaybeHandle]],
           TreeShape(p)', SlotShape(p)', \A y \in Node : ~LockHeld(p, y)',
           NewDir(p)' => op'[p].child = x \/ (NewDir(p) /\ op'[p].child = op[p].child),
           Reserve'
    PROVE  IInv'
    <1>1. /\ type' \in [Node -> NodeType] /\ Grows /\ type'[x] = t
          /\ \A y \in Node : y # x => type'[y] = type[y]
        BY MakeFacts
    <1>2. Types'
        BY <1>1 DEF IInv, Types
    <1>3. Shape'
        BY <1>1, ShapeStep
    <1>4. Locked'
        BY LockedStep
    <1>5. Named'
        <2>1. type'[Root] = "dir"
            BY <1>1, Constants DEF IInv, Named, Grows
        <2>2. ASSUME NEW d \in Node, NEW n \in Name, entry'[d][n] # NoNode
              PROVE  type'[entry'[d][n]] # "none"
            <3>1. entry' = entry
                OBVIOUS
            <3>2. entry[d][n] \in Node /\ type[entry[d][n]] # "none" /\ entry' = entry
                BY <2>2, <3>1, EntryFacts
            <3> QED
                BY <1>1, <3>2 DEF Grows
        <2> QED
            BY <2>1, <2>2 DEF Named
    <1>6. \A d \in Node, n \in Name : entry[d][n] # x
        BY Constants, EntryFacts
    <1>7. \A q \in Proc : q # p /\ NewDir(q)' => NewDir(q) /\ op'[q].child = op[q].child
        <2>1. ASSUME NEW q \in Proc, q # p, NewDir(q)'
              PROVE  NewDir(q) /\ op'[q].child = op[q].child
            BY <2>1 DEF OnlyMoves, NewDir, Kind
        <2> QED
            BY <2>1
    <1>8. \A q \in Proc : NewDir(q) => op[q].child # x
        BY DEF IInv, Shape, TreeShape, NewDir
    <1>9. NewDirs'
        <2> SUFFICES ASSUME NEW q \in Proc, NewDir(q)'
                     PROVE  /\ \A d \in Node, n \in Name : entry'[d][n] # op'[q].child
                            /\ \A s \in Proc : NewDir(s)' /\ op'[s].child = op'[q].child => s = q
            BY DEF NewDirs
        <2> HIDE DEF NewDir
        <2>1. \A s \in Proc : NewDir(s)' => \/ op'[s].child = x /\ s = p
                                            \/ NewDir(s) /\ op'[s].child = op[s].child
            BY <1>7
        <2>2. entry' = entry
            OBVIOUS
        <2>3. CASE op'[q].child = x
            BY <1>6, <1>8, <2>1, <2>3, <2>2
        <2>4. CASE op'[q].child # x
            <3>1. NewDir(q) /\ op'[q].child = op[q].child /\ op[q].child # x
                BY <2>1, <2>4
            <3> QED
                BY <1>8, <2>1, <2>2, <3>1 DEF IInv, NewDirs
        <2> QED
            BY <2>3, <2>4
    <1> QED
        BY <1>2, <1>3, <1>4, <1>5, <1>9 DEF IInv

(* A node is left when a call that makes one is made. *)
LEMMA NodeLeftFacts ==
    ASSUME IInv, NEW p \in Proc, NEW r, NodeLeft(r), MakesNode(r)
    PROVE  /\ Cardinality(Unmade) > Cardinality(Openers)
           /\ Cardinality(Unmade) >= Cardinality(Creators) + 1
           /\ Unmade # {} /\ Fresh \in Node /\ type[Fresh] = "none"
    <1>1. Cardinality(Unmade) > Cardinality(Openers)
        BY DEF NodeLeft, Openers
    <1>2. /\ Cardinality(Openers) \in Nat /\ Cardinality(Creators) \in Nat
          /\ Cardinality(Creators) <= Cardinality(Openers) /\ Cardinality(Unmade) \in Nat
        BY CreatorsAreFinite, NodesAreFinite
    <1>3. Cardinality(Unmade) >= Cardinality(Creators) + 1 /\ Cardinality(Unmade) # 0
        BY <1>1, <1>2
    <1>4. Unmade # {}
        BY <1>3, FS_EmptySet
    <1> QED
        BY <1>1, <1>3, <1>4, FreshFacts

(* The calls that may yet make a node after a step of p. *)
LEMMA CreatorsAfter ==
    ASSUME IInv, NEW p \in Proc, OnlyMoves(p)
    PROVE  /\ IsFiniteSet(Openers') /\ Cardinality(Creators') \in Nat
           /\ Cardinality(Creators') <= Cardinality(Creators) + 1
           /\ p \notin Creators' => Cardinality(Creators') <= Cardinality(Creators)
           /\ p \notin Creators' /\ p \in Creators =>
                  Cardinality(Creators') <= Cardinality(Creators) - 1
    <1>1. /\ IsFiniteSet(Openers') /\ Creators' \subseteq Creators \cup {p}
        BY CreatorsKept
    <1>2. IsFiniteSet(Creators) /\ Cardinality(Creators) \in Nat
        BY CreatorsAreFinite
    <1>3. /\ IsFiniteSet(Creators \cup {p}) /\ Cardinality(Creators \cup {p}) \in Nat
          /\ Cardinality(Creators \cup {p}) <= Cardinality(Creators) + 1
        BY <1>2, FS_AddElement, FS_CardinalityType
    <1>4. IsFiniteSet(Creators') /\ Cardinality(Creators') <= Cardinality(Creators \cup {p})
        BY <1>1, <1>3, FS_Subset
    <1>5. Cardinality(Creators') \in Nat
        BY <1>4, FS_CardinalityType
    <1>6. ASSUME p \notin Creators'
          PROVE  Cardinality(Creators') <= Cardinality(Creators)
        <2>1. Creators' \subseteq Creators
            BY <1>1, <1>6
        <2> QED
            BY <1>2, <2>1, FS_Subset
    <1>7. ASSUME p \notin Creators', p \in Creators
          PROVE  Cardinality(Creators') <= Cardinality(Creators) - 1
        <2>1. Creators' \subseteq Creators \ {p}
            BY <1>1, <1>7
        <2>2. /\ IsFiniteSet(Creators \ {p})
              /\ Cardinality(Creators \ {p}) = Cardinality(Creators) - 1
            BY <1>2, <1>7, FS_RemoveElement
        <2>3. Cardinality(Creators') <= Cardinality(Creators \ {p})
            BY <2>1, <2>2, FS_Subset
        <2> QED
            BY <2>2, <2>3
    <1> QED
        BY <1>1, <1>2, <1>3, <1>4, <1>5, <1>6, <1>7
-----------------------------------------------------------------------------
(* A call on the tree starts with the lookup of goal. *)
LEMMA TreeCallFacts ==
    ASSUME IInv, NEW p \in Proc, NEW r \in Request, TreeCall(p, r), UNCHANGED program,
           Grows, Making(r) => /\ Fresh \in Node
                               /\ type'[Fresh] = IF r.kind = "mkdir" THEN "dir" ELSE "pipe"
    PROVE  /\ pc' \in [Proc -> Location] /\ op' \in [Proc -> Op] /\ OnlyMoves(p)
           /\ TreeShape(p)' /\ SlotShape(p)' /\ \A y \in Node : ~LockHeld(p, y)'
           /\ Making(r) => op'[p].child = Fresh
           /\ pc[p] = "idle" /\ pc'[p] = "walk" /\ op'[p].req = r
    <1>1. r.kind \in TreeKind /\ Root \in Node /\ Root # NoNode /\ type'[Root] # "none"
        BY Constants DEF TreeCall, TreeKind, IInv, Named, Grows
    <1>2. PICK c, g : /\ c = (IF Making(r) THEN Fresh ELSE NoNode)
                      /\ g = (IF r.kind \in {"open", "link"} THEN r.path ELSE DirPath(r.path))
        OBVIOUS
    <1>3. c \in MaybeNode /\ g \in Seq(Name)
        BY <1>2, Constants, PathFacts
    <1>4. PICK o : o = [NewOp(r) EXCEPT !.child = c]
        OBVIOUS
    <1>5. PICK w : w = [o EXCEPT !.goal = g, !.at = 0, !.cur = Root]
        OBVIOUS
    <1>6. o \in Op /\ o.req = r /\ o.step = 1 /\ o.child = c
        <2>1. NewOp(r) \in Op /\ NewOp(r).req = r /\ NewOp(r).step = 1
            BY NewOpFacts
        <2> HIDE DEF NewOp
        <2> QED
            BY <1>3, <1>4, <2>1 DEF Op
    <1>7. w \in Op /\ w.req = r /\ w.step = 1 /\ w.child = c /\ w.cur = Root
        BY <1>1, <1>3, <1>5, <1>6, Constants DEF Op
    <1>8. Find(p, o, g)
        BY <1>2, <1>4 DEF TreeCall
    <1>9. op' = [op EXCEPT ![p] = w] /\ pc' = [pc EXCEPT ![p] = "walk"]
        BY <1>5, <1>8 DEF Find, Goto
    <1>10. table' = table /\ pc[p] = "idle"
        BY DEF TreeCall, fileVars, At
    <1>11. /\ pc' \in [Proc -> Location] /\ op' \in [Proc -> Op] /\ OnlyMoves(p)
           /\ pc'[p] = "walk" /\ op'[p] = w
        BY <1>7, <1>9, <1>10, Frame DEF Location
    <1>12. Kind(p)' = r.kind
        BY <1>7, <1>11 DEF Kind
    <1>13. TreeShape(p)'
        <2>1. r.kind = "mkdir" => w.child \in Node /\ type'[w.child] = "dir"
            BY <1>2, <1>7 DEF Making
        <2>2. r.kind = "mkpipe" => w.child \in Node /\ type'[w.child] = "pipe"
            BY <1>2, <1>7 DEF Making
        <2> HIDE DEF Kind
        <2> QED
            BY <1>1, <1>7, <1>11, <1>12, <2>1, <2>2 DEF TreeShape, Parent
    <1>14. SlotShape(p)'
        <2> HIDE DEF Kind, Held
        <2> QED
            BY <1>1, <1>11, <1>12 DEF SlotShape, UsesHeld, TreeKind, SlotKind, FileKind
    <1>15. \A y \in Node : ~LockHeld(p, y)'
        BY <1>11 DEF LockHeld
    <1> QED
        BY <1>2, <1>7, <1>10, <1>11, <1>13, <1>14, <1>15

LEMMA TreeCallStep ==
    ASSUME IInv, NEW p \in Proc, NEW r \in Request, TreeCall(p, r), UNCHANGED program
    PROVE  IInv'
    <1>1. /\ UNCHANGED <<entry, data, table, left, owner, program, alive>>
          /\ NodeLeft(r) /\ pc[p] = "idle"
        BY DEF TreeCall, fileVars, procVars, At
    <1>2. table' \in [Proc -> [Slot -> MaybeHandle]]
        BY <1>1 DEF IInv, Types
    <1>3. Kind(p) = "none" /\ p \notin Creators
        BY <1>1, Here DEF SlotShape, Creators
    <1>4. CASE Making(r)
        <2>1. MakesNode(r)
            BY <1>4 DEF Making, MakesNode
        <2>2. /\ Fresh \in Node /\ type[Fresh] = "none"
              /\ Cardinality(Unmade) >= Cardinality(Creators) + 1
            BY <1>1, <2>1, NodeLeftFacts
        <2>3. PICK x, t : x = Fresh /\ t = (IF r.kind = "mkdir" THEN "dir" ELSE "pipe")
            OBVIOUS
        <2>4. type' = [type EXCEPT ![x] = t] /\ t \in NodeType \ {"none"}
            BY <1>4, <2>3 DEF TreeCall, NodeType
        <2>5. /\ Grows /\ type'[x] = t /\ Cardinality(Unmade') \in Nat
              /\ Cardinality(Unmade') = Cardinality(Unmade) - 1
            BY <2>2, <2>3, <2>4, MakeFacts
        <2>6. /\ pc' \in [Proc -> Location] /\ op' \in [Proc -> Op] /\ OnlyMoves(p)
              /\ TreeShape(p)' /\ SlotShape(p)' /\ \A y \in Node : ~LockHeld(p, y)'
              /\ op'[p].child = x /\ op'[p].req = r
            BY <1>4, <2>2, <2>3, <2>5, TreeCallFacts
        <2>7. p \notin Creators'
            BY <1>4, <2>6 DEF Creators, Openers, Making
        <2>8. Reserve'
            <3>1. /\ IsFiniteSet(Openers') /\ Cardinality(Creators') \in Nat
                  /\ Cardinality(Creators') <= Cardinality(Creators)
                BY <2>6, <2>7, CreatorsAfter
            <3>2. Cardinality(Creators) \in Nat /\ Cardinality(Unmade) \in Nat
                BY CreatorsAreFinite, NodesAreFinite
            <3>3. Cardinality(Unmade') >= Cardinality(Creators')
                BY <2>2, <2>5, <3>1, <3>2
            <3> QED
                BY <3>1, <3>3 DEF Reserve
        <2> QED
            BY <1>1, <1>2, <2>2, <2>3, <2>4, <2>6, <2>8, MakeStep
    <1>5. CASE ~Making(r)
        <2>1. type' = type /\ Grows
            BY <1>5 DEF TreeCall, Grows
        <2>2. /\ pc' \in [Proc -> Location] /\ op' \in [Proc -> Op] /\ OnlyMoves(p)
              /\ TreeShape(p)' /\ SlotShape(p)' /\ \A y \in Node : ~LockHeld(p, y)'
              /\ op'[p].req = r /\ pc'[p] = "walk"
            BY <1>5, <2>1, TreeCallFacts
        <2>3. Types'
            BY <1>1, <2>1, <2>2 DEF IInv, Types
        <2>4. Shape' /\ Locked'
            BY <1>1, <2>1, <2>2, ShapeStep, LockedStep
        <2>5. ~NewDir(p)'
            BY <1>5, <2>2 DEF NewDir, Kind, Making
        <2>6. Named' /\ NewDirs'
            BY <1>1, <2>1, <2>2, <2>5, NamesKept
        <2>7. Reserve'
            <3>1. CASE MakesNode(r)
                <4>1. /\ IsFiniteSet(Openers') /\ Cardinality(Creators') \in Nat
                      /\ Cardinality(Creators') <= Cardinality(Creators) + 1
                    BY <2>2, CreatorsAfter
                <4>2. Cardinality(Unmade) >= Cardinality(Creators) + 1
                    BY <1>1, <3>1, NodeLeftFacts
                <4>3. Cardinality(Creators) \in Nat /\ Cardinality(Unmade) \in Nat
                    BY CreatorsAreFinite, NodesAreFinite
                <4>4. Unmade' = Unmade
                    BY <2>1 DEF Unmade
                <4>5. Cardinality(Unmade') >= Cardinality(Creators')
                    BY <4>1, <4>2, <4>3, <4>4
                <4> QED
                    BY <4>1, <4>5 DEF Reserve
            <3>2. CASE ~MakesNode(r)
                <4>1. p \notin Creators'
                    BY <3>2, <2>2 DEF Creators, Openers, MakesNode
                <4> QED
                    BY <2>1, <2>2, <4>1, ReserveKept
            <3> QED
                BY <3>1, <3>2
        <2> QED
            BY <2>3, <2>4, <2>6, <2>7 DEF IInv
    <1> QED
        BY <1>4, <1>5

LEMMA FindCreatedStep ==
    ASSUME IInv, NEW p \in Proc, FindCreated(p), UNCHANGED program
    PROVE  IInv'
    <1>1. /\ UNCHANGED <<entry, fileVars, data, table, left, owner, program, alive>>
          /\ Arrived(p) /\ Kind(p) = "open" /\ op[p].step = 2
        BY DEF FindCreated, fileVars, procVars
    <1>2. /\ pc[p] = "walk" /\ op[p].req \in Request /\ op[p] \in Op
          /\ TreeShape(p) /\ SlotShape(p)
        BY <1>1, FoundFacts, Here
    <1>3. CASE Found(p) = NoNode
        <2>1. Finish(p) /\ UNCHANGED <<type, entry, fileVars, program, alive, owner>>
            BY <1>1, <1>3 DEF FindCreated
        <2> QED
            BY <2>1, NotFound
    <1>4. CASE Found(p) # NoNode
        <2>1. op[p].cur \in Node
            BY <1>1, <1>4, FoundFacts
        <2>2. p \in Creators
            BY <1>1, <1>2 DEF TreeShape, Creators, Openers, Kind
        <2>3. /\ Cardinality(Creators) # 0 /\ Cardinality(Creators) \in Nat
              /\ Cardinality(Creators) <= Cardinality(Unmade) /\ Cardinality(Unmade) \in Nat
            BY <2>2, CreatorsAreFinite, NodesAreFinite, FS_EmptySet
        <2>4. Unmade # {}
            BY <2>3, FS_EmptySet
        <2>5. PICK x : x = Fresh
            OBVIOUS
        <2>6. x \in Node /\ type[x] = "none"
            BY <2>4, <2>5, FreshFacts
        <2>7. PICK o : o = [op[p] EXCEPT !.child = x]
            OBVIOUS
        <2>8. o \in Op /\ o.req = op[p].req /\ o.child = x /\ o.cur = op[p].cur /\ o.step = 2
            BY <1>1, <1>2, <2>6, <2>7, Constants DEF Op
        <2>9. /\ type' = [type EXCEPT ![x] = "file"] /\ pc' = [pc EXCEPT ![p] = "lock"]
              /\ op' = [op EXCEPT ![p] = o]
            <3>1. /\ type' = [type EXCEPT ![x] = "file"] /\ pc' = [pc EXCEPT ![p] = "lock"]
                  /\ op' = [op EXCEPT ![p].child = x]
                BY <1>4, <2>5 DEF FindCreated, Goto
            <3>2. op \in [Proc -> Op]
                BY DEF IInv, Types
            <3> QED
                BY <2>7, <3>1, <3>2 DEF Op
        <2>10. "file" \in NodeType \ {"none"}
            BY DEF NodeType
        <2>11. /\ type'[x] = "file" /\ Cardinality(Unmade') \in Nat
               /\ Cardinality(Unmade') = Cardinality(Unmade) - 1
            BY <2>6, <2>9, <2>10, MakeFacts
        <2>12. /\ pc' \in [Proc -> Location] /\ op' \in [Proc -> Op]
               /\ pc'[p] = "lock" /\ op'[p] = o /\ OnlyMoves(p)
            BY <1>1, <2>8, <2>9, Frame DEF Location
        <2>13. Kind(p)' = "open"
            BY <1>1, <2>8, <2>12 DEF Kind
        <2>14. TreeShape(p)'
            <3>1. "create" \in o.req.flags
                BY <1>1, <1>2, <2>8 DEF TreeShape
            <3> HIDE DEF Kind
            <3> QED
                BY <2>1, <2>6, <2>8, <2>11, <2>12, <2>13, <3>1 DEF TreeShape, Parent, TreeKind
        <2>15. SlotShape(p)'
            <3> HIDE DEF Kind, Held
            <3> QED
                BY <2>12, <2>13 DEF SlotShape, UsesHeld, SlotKind, FileKind
        <2>16. \A y \in Node : ~LockHeld(p, y)'
            BY <2>12 DEF LockHeld
        <2>17. ~NewDir(p)' /\ p \notin Creators'
            BY <2>12, <2>13 DEF NewDir, Creators
        <2>18. Reserve'
            <3>1. /\ IsFiniteSet(Openers') /\ Cardinality(Creators') \in Nat
                  /\ Cardinality(Creators') <= Cardinality(Creators) - 1
                BY <2>2, <2>12, <2>17, CreatorsAfter
            <3>2. Cardinality(Unmade') >= Cardinality(Creators')
                BY <2>3, <2>11, <3>1
            <3> QED
                BY <3>1, <3>2 DEF Reserve
        <2>19. table' \in [Proc -> [Slot -> MaybeHandle]]
            BY <1>1 DEF IInv, Types
        <2> QED
            BY <1>1, <2>6, <2>9, <2>10, <2>12, <2>14, <2>15, <2>16, <2>17, <2>18, <2>19, MakeStep
    <1> QED
        BY <1>3, <1>4
-----------------------------------------------------------------------------
(* p has used its locks, and still owns those that it gives back. *)
LEMMA UsedLocks ==
    ASSUME IInv, NEW p \in Proc, NEW l \in {"moved", "unlock2", "unlock"},
           pc[p] \in {"in", "moved"}, pc' = [pc EXCEPT ![p] = l],
           UNCHANGED <<type, table, op, owner>>
    PROVE  /\ \A x \in Node : LockHeld(p, x)' => owner'[x] = p
           /\ pc' \in [Proc -> Location] /\ pc'[p] = l /\ OnlyMoves(p)
    <1>1. op[p] \in Op /\ op' = [op EXCEPT ![p] = op[p]] /\ l \in Location
        BY Here DEF Location
    <1>2. pc' \in [Proc -> Location] /\ pc'[p] = l /\ op'[p] = op[p] /\ OnlyMoves(p)
        BY <1>1, Frame
    <1>3. TwoParents(p)' <=> TwoParents(p)
        BY DEF TwoParents, Kind
    <1>4. \A x \in Node : LockHeld(p, x)' => LockHeld(p, x)
        <2> HIDE DEF TwoParents
        <2> QED
            BY <1>2, <1>3 DEF LockHeld
    <1> QED
        BY <1>2, <1>4 DEF IInv, Locked

(* p changes the child of d whose name is n to x. *)
LEMMA EntryStep ==
    ASSUME IInv, NEW p \in Proc, NEW l \in {"moved", "unlock2", "unlock"},
           pc[p] \in {"in", "moved"}, pc' = [pc EXCEPT ![p] = l],
           NEW d \in Node, NEW n \in Name, NEW x \in MaybeNode,
           entry' = [entry EXCEPT ![d][n] = x],
           UNCHANGED <<type, data, table, left, op, owner, program, alive>>,
           x # NoNode => type[x] # "none",
           \A q \in Proc : q # p /\ NewDir(q) => op[q].child # x,
           l = "unlock2" => TwoParents(p), l = "moved" => Kind(p) = "rename"
    PROVE  IInv'
    <1>1. /\ \A y \in Node : LockHeld(p, y)' => owner'[y] = p
          /\ pc' \in [Proc -> Location] /\ pc'[p] = l /\ OnlyMoves(p)
        BY UsedLocks
    <1>2. /\ entry' \in [Node -> [Name -> MaybeNode]]
          /\ \A e \in Node, m \in Name : entry'[e][m] = entry[e][m] \/ entry'[e][m] = x
        BY DEF IInv, Types
    <1>3. Types'
        BY <1>1, <1>2 DEF IInv, Types
    <1>4. Shape'
        <2>1. TreeShape(p)' /\ SlotShape(p)'
            BY <1>1, ParentShape DEF Parent
        <2>2. Grows
            BY DEF Grows
        <2> QED
            BY <1>1, <2>1, <2>2, ShapeStep
    <1>5. Locked'
        BY <1>1, LockedStep
    <1>6. Named'
        BY <1>2, EntryFacts DEF IInv, Named
    <1>7. NewDirs'
        <2>1. ~NewDir(p)' /\ \A q \in Proc : q # p => (NewDir(q)' <=> NewDir(q))
            <3>1. ~NewDir(p)'
                BY <1>1 DEF NewDir
            <3>2. ASSUME NEW q \in Proc, q # p
                  PROVE  NewDir(q)' <=> NewDir(q)
                BY <1>1, <3>2 DEF OnlyMoves, NewDir, Kind
            <3> QED
                BY <3>1, <3>2
        <2>2. op' = op
            OBVIOUS
        <2> HIDE DEF NewDir
        <2> SUFFICES ASSUME NEW q \in Proc, NewDir(q)'
                     PROVE  /\ \A e \in Node, m \in Name : entry'[e][m] # op'[q].child
                            /\ \A s \in Proc : NewDir(s)' /\ op'[s].child = op'[q].child => s = q
            BY DEF NewDirs
        <2>3. NewDir(q) /\ q # p /\ op[q].child # x
            BY <2>1
        <2>4. \A e \in Node, m \in Name : entry[e][m] # op[q].child
            BY <2>3 DEF IInv, NewDirs
        <2>5. \A s \in Proc : NewDir(s) /\ op[s].child = op[q].child => s = q
            BY <2>3 DEF IInv, NewDirs
        <2>6. \A e \in Node, m \in Name : entry'[e][m] # op'[q].child
            BY <1>2, <2>2, <2>3, <2>4
        <2>7. \A s \in Proc : NewDir(s)' /\ op'[s].child = op'[q].child => s = q
            BY <2>1, <2>2, <2>5
        <2> QED
            BY <2>6, <2>7
    <1>8. Reserve'
        <2>1. p \notin Creators'
            BY <1>1 DEF Creators
        <2> QED
            BY <1>1, <2>1, ReserveKept
    <1> QED
        BY <1>3, <1>4, <1>5, <1>6, <1>7, <1>8 DEF IInv

LEMMA UseLinkStep ==
    ASSUME IInv, NEW p \in Proc, UseLink(p), UNCHANGED program
    PROVE  IInv'
    <1>1. /\ UNCHANGED <<type, data, table, left, op, owner, program, alive>>
          /\ pc[p] = "in" /\ pc' = [pc EXCEPT ![p] = "unlock"]
          /\ Kind(p) \in {"open", "mkdir", "mkpipe", "link"}
        BY DEF UseLink, At, Goto, fileVars, procVars
    <1>2. TreeShape(p) /\ op[p].cur \in Node /\ NewName(p) \in Name
        <2>1. TreeShape(p) /\ op[p].cur \in Node /\ Kind(p) # "none"
            BY <1>1, Here DEF TreeShape, Parent
        <2>2. op[p].req \in Request
            BY <2>1, Here
        <2> QED
            BY <2>1, <2>2, PathFacts DEF NewName
    <1>3. CASE CanLink(op[p].cur, NewName(p))
        <2>1. PICK d, n, x : d = op[p].cur /\ n = NewName(p) /\ x = op[p].child
            OBVIOUS
        <2>2. entry' = [entry EXCEPT ![d][n] = x]
            BY <1>3, <2>1 DEF UseLink
        <2>3. x \in Node /\ type[x] \in {"dir", "file", "pipe"} /\ (type[x] = "dir" => Kind(p) = "mkdir")
            <3> HIDE DEF Kind
            <3> QED
                BY <1>1, <1>2, <2>1 DEF TreeShape, Parent
        <2>4. ASSUME NEW q \in Proc, q # p, NewDir(q)
              PROVE  op[q].child # x
            <3>1. type[op[q].child] = "dir" /\ op[q].child \in Node
                BY <2>4, Here DEF NewDir, TreeShape
            <3>2. CASE Kind(p) = "mkdir"
                <4>1. NewDir(p)
                    BY <1>1, <3>2 DEF NewDir
                <4> QED
                    BY <2>1, <2>4, <4>1 DEF IInv, NewDirs
            <3>3. CASE Kind(p) # "mkdir"
                BY <2>3, <3>1, <3>3
            <3> QED
                BY <3>2, <3>3
        <2>5. x \in MaybeNode /\ d \in Node /\ n \in Name /\ type[x] # "none"
            BY <1>2, <2>1, <2>3, Constants
        <2>6. pc[p] \in {"in", "moved"} /\ "unlock" \in {"moved", "unlock2", "unlock"}
            BY <1>1
        <2>7. \A q \in Proc : q # p /\ NewDir(q) => op[q].child # x
            BY <2>4
        <2> QED
            BY <1>1, <2>2, <2>5, <2>6, <2>7, EntryStep
    <1>4. CASE ~CanLink(op[p].cur, NewName(p))
        <2>1. entry' = entry
            BY <1>4 DEF UseLink
        <2>2. \A y \in Node : LockHeld(p, y)' => owner'[y] = p
            BY <1>1, UsedLocks
        <2>3. "unlock" \in Parent /\ pc[p] \in Parent
            BY <1>1 DEF Parent
        <2>4. owner' \in [Node -> Proc \cup {Nobody}] /\ owner' = owner
            BY <1>1 DEF IInv, Types
        <2> QED
            BY <1>1, <2>1, <2>2, <2>3, <2>4, ParentStep
    <1> QED
        BY <1>3, <1>4

LEMMA UseUnlinkStep ==
    ASSUME IInv, NEW p \in Proc, UseUnlink(p), UNCHANGED program
    PROVE  IInv'
    <1>1. /\ UNCHANGED <<type, data, table, left, op, owner, program, alive>>
          /\ pc[p] = "in" /\ pc' = [pc EXCEPT ![p] = "unlock"]
          /\ Kind(p) = "unlink"
        BY DEF UseUnlink, At, Goto, fileVars, procVars
    <1>2. PICK d, n : d = op[p].cur /\ n = BaseName(op[p].req.path)
        OBVIOUS
    <1>3. d \in Node /\ n \in Name
        <2>1. op[p].cur \in Node /\ Kind(p) # "none"
            BY <1>1, Here DEF TreeShape, Parent
        <2>2. op[p].req \in Request
            BY <2>1, Here
        <2> QED
            BY <1>2, <2>1, <2>2, PathFacts
    <1>4. entry' = [entry EXCEPT ![d][n] = NoNode]
        BY <1>2 DEF UseUnlink
    <1>5. \A q \in Proc : NewDir(q) => op[q].child # NoNode
        BY Here, Constants DEF NewDir, TreeShape
    <1>6. NoNode \in MaybeNode
        BY Constants
    <1> QED
        BY <1>1, <1>3, <1>4, <1>5, <1>6, EntryStep

LEMMA RenameFacts ==
    ASSUME IInv, NEW p \in Proc, pc[p] \in {"in", "moved"}, Kind(p) = "rename"
    PROVE  /\ op[p].cur \in Node /\ op[p].dir \in Node
           /\ type[op[p].cur] = "dir" /\ type[op[p].dir] = "dir"
           /\ NewName(p) \in Name /\ BaseName(op[p].req.path) \in Name
           /\ owner[op[p].cur] = p /\ owner[op[p].dir] = p
    <1>1. /\ op[p].cur \in Node /\ op[p].dir \in Node
          /\ type[op[p].cur] = "dir" /\ type[op[p].dir] = "dir" /\ Kind(p) # "none"
        BY Here DEF TreeShape, Parent
    <1>2. NewName(p) \in Name /\ BaseName(op[p].req.path) \in Name
        BY <1>1, Here, PathFacts DEF NewName
    <1>3. LockHeld(p, op[p].cur)
        BY DEF LockHeld
    <1>4. LockHeld(p, op[p].dir)
        BY DEF LockHeld, TwoParents
    <1> QED
        BY <1>1, <1>2, <1>3, <1>4 DEF IInv, Locked

LEMMA UseMoveStep ==
    ASSUME IInv, NEW p \in Proc, UseMove(p), UNCHANGED program
    PROVE  IInv'
    <1>1. /\ UNCHANGED <<type, data, table, left, op, owner, program, alive>>
          /\ pc[p] = "in" /\ Kind(p) = "rename"
        BY DEF UseMove, At, fileVars, procVars
    <1>2. PICK d, n, e, m, x : /\ d = op[p].cur /\ n = NewName(p)
                               /\ e = op[p].dir /\ m = BaseName(op[p].req.path)
                               /\ x = entry[e][m]
        OBVIOUS
    <1>3. d \in Node /\ n \in Name /\ e \in Node /\ m \in Name
        BY <1>1, <1>2, RenameFacts
    <1>4. CASE x # NoNode /\ CanLink(op[p].cur, NewName(p))
        <2>1. entry' = [entry EXCEPT ![d][n] = x] /\ pc' = [pc EXCEPT ![p] = "moved"]
            BY <1>2, <1>4 DEF UseMove, Goto
        <2>2. x \in MaybeNode /\ type[x] # "none"
            BY <1>2, <1>3, <1>4, EntryFacts
        <2>3. \A q \in Proc : NewDir(q) => op[q].child # x
            BY <1>2, <1>3 DEF IInv, NewDirs
        <2> QED
            BY <1>1, <1>3, <2>1, <2>2, <2>3, EntryStep
    <1>5. CASE ~(x # NoNode /\ CanLink(op[p].cur, NewName(p)))
        <2>1. PICK l \in {"unlock2", "unlock"} : l = IF TwoParents(p) THEN "unlock2" ELSE "unlock"
            OBVIOUS
        <2>2. entry' = entry /\ pc' = [pc EXCEPT ![p] = l]
            BY <1>2, <1>5, <2>1 DEF UseMove, Goto
        <2>3. \A y \in Node : LockHeld(p, y)' => owner'[y] = p
            BY <1>1, <2>2, UsedLocks
        <2>4. l \in Parent /\ pc[p] \in Parent /\ (l = "unlock2" => TwoParents(p))
              /\ l \notin {"lock", "lock2", "in", "moved"}
            BY <1>1, <2>1 DEF Parent
        <2>5. owner' \in [Node -> Proc \cup {Nobody}] /\ owner' = owner
            BY <1>1 DEF IInv, Types
        <2> QED
            BY <1>1, <2>2, <2>3, <2>4, <2>5, ParentStep
    <1> QED
        BY <1>4, <1>5

LEMMA UseMovedStep ==
    ASSUME IInv, NEW p \in Proc, UseMoved(p), UNCHANGED program
    PROVE  IInv'
    <1>1. /\ UNCHANGED <<type, data, table, left, op, owner, program, alive>>
          /\ pc[p] = "moved" /\ Kind(p) = "rename"
        BY Here DEF UseMoved, At, fileVars, procVars, TreeShape
    <1>2. PICK d, n : d = op[p].dir /\ n = BaseName(op[p].req.path)
        OBVIOUS
    <1>3. d \in Node /\ n \in Name
        BY <1>1, <1>2, RenameFacts
    <1>4. PICK l \in {"unlock2", "unlock"} : l = IF TwoParents(p) THEN "unlock2" ELSE "unlock"
        OBVIOUS
    <1>5. entry' = [entry EXCEPT ![d][n] = NoNode] /\ pc' = [pc EXCEPT ![p] = l]
        BY <1>2, <1>4 DEF UseMoved, Goto
    <1>6. \A q \in Proc : NewDir(q) => op[q].child # NoNode
        BY Here, Constants DEF NewDir, TreeShape
    <1>7. NoNode \in MaybeNode /\ (l = "unlock2" => TwoParents(p)) /\ l # "moved"
        BY <1>4, Constants
    <1> QED
        BY <1>1, <1>3, <1>5, <1>6, <1>7, EntryStep
-----------------------------------------------------------------------------
LEMMA StillStep ==
    ASSUME IInv, UNCHANGED <<type, entry, data, owner, table, left, program, pc, op, alive>>
    PROVE  IInv'
    <1>1. Types'
        BY DEF IInv, Types
    <1>2. \A p \in Proc : TreeShape(p)'
        BY DEF IInv, Shape, TreeShape, Kind, TwoParents
    <1>3. \A p \in Proc : SlotShape(p)'
        BY DEF IInv, Shape, SlotShape, UsesHeld, Kind, Held
    <1>4. Locked'
        BY DEF IInv, Locked, LockHeld, Kind, Held, TwoParents
    <1>5. Named'
        BY DEF IInv, Named
    <1>6. NewDirs'
        BY DEF IInv, NewDirs, NewDir, Kind
    <1>7. Reserve'
        BY DEF IInv, Reserve, Openers, Creators, Unmade, Kind
    <1> QED
        BY <1>1, <1>2, <1>3, <1>4, <1>5, <1>6, <1>7 DEF IInv, Shape

LEMMA CreatePipeStep ==
    ASSUME IInv, NEW p \in Proc, NEW r \in Request, CreatePipe(p, r), UNCHANGED program
    PROVE  IInv'
    <1>1. /\ UNCHANGED <<entry, data, left, owner, program, pc, op, alive>>
          /\ pc[p] = "idle" /\ NodeLeft(r) /\ MakesNode(r)
        BY DEF CreatePipe, At, MakesNode
    <1>2. CASE UNCHANGED <<type, table>>
        BY <1>1, <1>2, StillStep
    <1>3. CASE ~UNCHANGED <<type, table>>
        <2>1. /\ type' = [type EXCEPT ![Fresh] = "pipe"]
              /\ table' = [table EXCEPT
                    ![p][Lowest(Unused(p))] =
                        [node |-> Fresh, mode |-> "read", trunc |-> FALSE, offset |-> 0],
                    ![p][Lowest(Unused(p) \ {Lowest(Unused(p))})] =
                        [node |-> Fresh, mode |-> "write", trunc |-> FALSE, offset |-> 0]]
            BY <1>3 DEF CreatePipe
        <2>2. PICK f, s, g, h :
                  /\ g = [node |-> Fresh, mode |-> "read", trunc |-> FALSE, offset |-> 0]
                  /\ h = [node |-> Fresh, mode |-> "write", trunc |-> FALSE, offset |-> 0]
                  /\ type' = [type EXCEPT ![Fresh] = "pipe"]
                  /\ table' = [table EXCEPT ![p][f] = g, ![p][s] = h]
            BY <2>1
        <2>3. /\ Fresh \in Node /\ type[Fresh] = "none"
              /\ Cardinality(Unmade) >= Cardinality(Creators) + 1
            BY <1>1, NodeLeftFacts
        <2>4. PICK x : x = Fresh
            OBVIOUS
        <2>5. g \in MaybeHandle /\ h \in MaybeHandle
            BY <2>2, <2>3 DEF Handle, MaybeHandle, Mode
        <2>6. /\ table' \in [Proc -> [Slot -> MaybeHandle]]
              /\ \A q \in Proc : q # p => table'[q] = table[q]
            BY <2>2, <2>5 DEF IInv, Types
        <2>7. pc' = pc /\ op' = op /\ OnlyMoves(p)
            BY <1>1, <2>6 DEF OnlyMoves
        <2>8. Kind(p)' = "none"
            BY <1>1, <2>7, Here DEF SlotShape, Kind
        <2>9. TreeShape(p)' /\ SlotShape(p)' /\ \A y \in Node : ~LockHeld(p, y)'
            <3>1. pc'[p] = "idle"
                BY <1>1
            <3>2. \A y \in Node : ~LockHeld(p, y)'
                BY <3>1 DEF LockHeld
            <3> HIDE DEF Kind, Held
            <3>3. TreeShape(p)'
                BY <2>8, <3>1 DEF TreeShape, Parent
            <3>4. SlotShape(p)'
                BY <2>8, <3>1 DEF SlotShape, UsesHeld, SlotKind, FileKind
            <3> QED
                BY <3>2, <3>3, <3>4
        <2>10. ~NewDir(p)' /\ p \notin Creators'
            BY <1>1 DEF NewDir, Creators
        <2>11. x \in Node /\ type[x] = "none" /\ type' = [type EXCEPT ![x] = "pipe"]
               /\ "pipe" \in NodeType \ {"none"}
            BY <2>2, <2>3, <2>4 DEF NodeType
        <2>12. Cardinality(Unmade') = Cardinality(Unmade) - 1
            BY <2>11, MakeFacts
        <2>13. Reserve'
            <3>1. /\ IsFiniteSet(Openers') /\ Cardinality(Creators') \in Nat
                  /\ Cardinality(Creators') <= Cardinality(Creators)
                BY <2>7, <2>10, CreatorsAfter
            <3>2. Cardinality(Creators) \in Nat /\ Cardinality(Unmade) \in Nat
                BY CreatorsAreFinite, NodesAreFinite
            <3>3. Cardinality(Unmade') >= Cardinality(Creators')
                BY <2>3, <2>12, <3>1, <3>2
            <3> QED
                BY <3>1, <3>3 DEF Reserve
        <2>14. pc' \in [Proc -> Location] /\ op' \in [Proc -> Op]
            BY <2>7 DEF IInv, Types
        <2> QED
            BY <1>1, <2>6, <2>7, <2>9, <2>10, <2>11, <2>13, <2>14, MakeStep
    <1> QED
        BY <1>2, <1>3

LEMMA CancelStep ==
    ASSUME IInv, NEW p \in Proc, Cancel(p)
    PROVE  IInv'
    <1>1. /\ UNCHANGED <<type, entry, data, owner, table, left, program, pc, op>>
          /\ alive' \subseteq alive
        BY DEF Cancel, treeVars, fileVars
    <1>2. Types'
        BY <1>1 DEF IInv, Types
    <1>3. OnlyMoves(p) /\ Grows
        BY <1>1 DEF OnlyMoves, Grows
    <1>4. Shape'
        <2>1. TreeShape(p) /\ SlotShape(p)
            BY Here
        <2>2. /\ Kind(p)' = Kind(p) /\ Held(p)' = Held(p)
              /\ (TwoParents(p)' <=> TwoParents(p))
            BY <1>1 DEF Kind, Held, TwoParents
        <2>3. TreeShape(p)'
            <3> HIDE DEF Kind, Held, TwoParents
            <3> QED
                BY <1>1, <2>1, <2>2 DEF TreeShape
        <2>4. SlotShape(p)'
            <3> HIDE DEF Kind, Held, TwoParents
            <3> QED
                BY <1>1, <2>1, <2>2 DEF SlotShape, UsesHeld
        <2> QED
            BY <1>1, <1>3, <2>3, <2>4, ShapeStep
    <1>5. Locked' /\ Named' /\ NewDirs' /\ Reserve'
        BY <1>1 DEF IInv, Kind, Held, TwoParents, Locked, LockHeld, Named, NewDirs, NewDir,
                    Reserve, Openers, Creators, Unmade
    <1> QED
        BY <1>2, <1>4, <1>5 DEF IInv

LEMMA CollectStep ==
    ASSUME IInv, NEW p \in Proc, Collect(p)
    PROVE  IInv'
    <1>1. UNCHANGED <<type, entry, data, owner, program, pc, op, alive>> /\ p \notin alive
        BY DEF Collect, treeVars
    <1>2. PICK inside \in Inside(p) :
              IF inside \/ \E i \in Slot \ Unused(p) : ~Free(table[p][i].node)
              THEN machine' = "hung" /\ UNCHANGED <<table, left>>
              ELSE /\ table' = [table EXCEPT ![p] = [i \in Slot |-> NoHandle]]
                   /\ left' = [left EXCEPT ![p] = {}]
                   /\ UNCHANGED machine
        BY DEF Collect
    <1>3. CASE inside \/ \E i \in Slot \ Unused(p) : ~Free(table[p][i].node)
        <2>1. UNCHANGED <<table, left>>
            BY <1>2, <1>3
        <2> QED
            BY <1>1, <2>1, StillStep
    <1>4. CASE ~(inside \/ \E i \in Slot \ Unused(p) : ~Free(table[p][i].node))
        <2>1. /\ table' = [table EXCEPT ![p] = [i \in Slot |-> NoHandle]]
              /\ left' = [left EXCEPT ![p] = {}]
            BY <1>2, <1>4
        <2>2. /\ table' \in [Proc -> [Slot -> MaybeHandle]] /\ left' \in [Proc -> SUBSET Nat]
              /\ \A q \in Proc : q # p => table'[q] = table[q]
            BY <2>1, Constants DEF IInv, Types
        <2>3. /\ pc' \in [Proc -> Location] /\ op' \in [Proc -> Op] /\ OnlyMoves(p)
              /\ data' \in [Node -> Seq(Byte)] /\ owner' \in [Node -> Proc \cup {Nobody}]
            BY <1>1, <2>2 DEF IInv, Types, OnlyMoves
        <2>4. TreeShape(p) /\ SlotShape(p)
            BY Here
        <2>5. pc[p] # "stuck" /\ ~(pc[p] = "deleted" /\ Kind(p) \in {"close", "copy"})
            BY <1>2, <1>4 DEF Inside
        <2>6. pc[p] # "use"
            <3> SUFFICES ASSUME pc[p] = "use"
                         PROVE  FALSE
                OBVIOUS
            <3>1. Held(p) \in Handle /\ Kind(p) \in SlotKind
                <4>1. UsesHeld(p) /\ Kind(p) \in FileKind
                    BY <2>4 DEF UsesHeld, SlotShape
                <4> QED
                    BY <2>4, <4>1 DEF SlotShape, SlotKind
            <3>2. op[p].req.slot \in Slot
                BY <2>4, <3>1 DEF SlotShape
            <3>3. op[p].req.slot \in Slot \ Unused(p)
                BY <3>1, <3>2, Constants DEF Unused, Held
            <3>4. Held(p).node \in Node /\ LockHeld(p, Held(p).node)
                BY <3>1, Constants DEF LockHeld
            <3>5. owner[Held(p).node] = p
                BY <3>4 DEF IInv, Locked
            <3>6. Free(Held(p).node)
                BY <1>4, <3>3 DEF Held
            <3> QED
                BY <3>5, <3>6, Constants DEF Free
        <2>7. Kind(p)' = Kind(p) /\ (TwoParents(p)' <=> TwoParents(p))
            BY <1>1 DEF Kind, TwoParents
        <2>8. TreeShape(p)'
            <3> HIDE DEF Kind, TwoParents
            <3> QED
                BY <1>1, <2>4, <2>7 DEF TreeShape
        <2>9. SlotShape(p)'
            <3>1. ~UsesHeld(p)' /\ ~(pc'[p] = "deleted" /\ Kind(p)' = "copy")
                <4> HIDE DEF Kind
                <4> QED
                    BY <1>1, <2>5, <2>6, <2>7 DEF UsesHeld
            <3> HIDE DEF Kind, UsesHeld, Held
            <3> QED
                BY <1>1, <2>4, <2>7, <3>1 DEF SlotShape
        <2>10. \A x \in Node : LockHeld(p, x)' => owner'[x] = p
            <3>1. \A x \in Node : LockHeld(p, x)' => LockHeld(p, x)
                <4> HIDE DEF Kind, TwoParents
                <4> QED
                    BY <1>1, <2>5, <2>6, <2>7 DEF LockHeld
            <3> QED
                BY <1>1, <3>1 DEF IInv, Locked
        <2>11. NewDir(p)' => NewDir(p) /\ op'[p].child = op[p].child
            BY <1>1 DEF NewDir, Kind
        <2>12. p \in Creators' => p \in Creators
            BY <1>1 DEF Creators, Openers
        <2>13. \A x \in Node : owner'[x] # owner[x] => owner[x] \in {p, Nobody}
            BY <1>1
        <2> QED
            BY <1>1, <2>2, <2>3, <2>8, <2>9, <2>10, <2>11, <2>12, <2>13, QuietStep
    <1> QED
        BY <1>3, <1>4

(* The machine stops, or System waits for init. *)
LEMMA StoppedStep ==
    ASSUME IInv, NEW p \in Proc, PlaceOutside(p) \/ Hang(p), UNCHANGED program
    PROVE  IInv'
    BY StillStep DEF PlaceOutside, Hang, treeVars, fileVars

LEMMA WaitingStep ==
    ASSUME IInv, SystemWaits
    PROVE  IInv'
    BY StillStep DEF SystemWaits, treeVars, fileVars, procVars

LEMMA InitHolds ==
    ASSUME Init
    PROVE  IInv
    <1>1. PICK o : o = NewOp(NoRequest)
        OBVIOUS
    <1>2. o \in Op /\ o.req.kind = "none"
        BY <1>1, NewOpFacts, PathFacts
    <1>3. \A p \in Proc : op[p] = o /\ pc[p] = "idle" /\ Kind(p) = "none"
        BY <1>1, <1>2 DEF Init, Kind
    <1>4. Types
        <2>1. op \in [Proc -> Op]
            BY <1>1, <1>2 DEF Init
        <2>2. program \in [Proc -> SUBSET Request]
            BY FilesystemAssumption DEF Init
        <2>3. pc \in [Proc -> Location] /\ alive \subseteq Proc
            BY DEF Init, Location
        <2>4. data \in [Node -> Seq(Byte)]
            BY DEF Init
        <2>5. table \in [Proc -> [Slot -> MaybeHandle]] /\ left \in [Proc -> SUBSET Nat]
            BY Constants DEF Init
        <2>6. type \in [Node -> NodeType] /\ entry \in [Node -> [Name -> MaybeNode]]
            BY FilesystemAssumption DEF Init, MaybeNode
        <2>7. owner \in [Node -> Proc \cup {Nobody}]
            BY DEF Init
        <2> QED
            BY <2>1, <2>2, <2>3, <2>4, <2>5, <2>6, <2>7 DEF Types
    <1>5. Shape
        <2> SUFFICES ASSUME NEW p \in Proc
                     PROVE  TreeShape(p) /\ SlotShape(p)
            BY DEF Shape
        <2> HIDE DEF Kind, Held
        <2>1. TreeShape(p)
            BY <1>3 DEF TreeShape, Parent
        <2>2. SlotShape(p)
            BY <1>3 DEF SlotShape, UsesHeld, SlotKind, FileKind
        <2> QED
            BY <2>1, <2>2
    <1>6. Locked
        BY <1>3 DEF Locked, LockHeld
    <1>7. Named
        BY FilesystemAssumption DEF Init, Named
    <1>8. NewDirs
        BY <1>3 DEF NewDirs, NewDir
    <1>9. Reserve
        <2>1. Openers = {} /\ Creators = {}
            BY <1>2, <1>3 DEF Openers, Creators
        <2> QED
            BY <2>1, FS_EmptySet, NodesAreFinite DEF Reserve
    <1> QED
        BY <1>4, <1>5, <1>6, <1>7, <1>8, <1>9 DEF IInv

LEMMA StepHolds ==
    ASSUME IInv, [Next]_vars
    PROVE  IInv'
    <1>1. CASE UNCHANGED vars
        BY <1>1, StillStep DEF vars, treeVars, fileVars, procVars
    <1>2. ASSUME NEW p \in Proc, Syscall(p)
          PROVE  IInv'
        <2>1. PICK r \in program[p] : \/ TreeCall(p, r) \/ Close(p, r) \/ Use(p, r)
                                     \/ Copy(p, r) \/ CreatePipe(p, r)
            BY <1>2 DEF Syscall
        <2>2. r \in Request /\ UNCHANGED program
            BY <1>2 DEF IInv, Types, Syscall
        <2> QED
            BY <2>1, <2>2, TreeCallStep, CloseStep, UseStep, CopyStep, CreatePipeStep
    <1>3. ASSUME NEW p \in Proc, Run(p)
          PROVE  IInv'
        <2>1. UNCHANGED program
            BY <1>3 DEF Run
        <2>2. CASE TreeStep(p)
            BY <2>1, <2>2, WalkLookStep, LookStep, FindParentStep, FindLinkedStep, FindOpenedStep,
               FindCreatedStep, FindRenamedStep, LockStep, Lock2Step, UseLinkStep, UseUnlinkStep,
               UseMoveStep, UseMovedStep, Unlock2Step, UnlockStep DEF TreeStep
        <2>3. CASE ~TreeStep(p)
            BY <1>3, <2>1, <2>3, OpenStep, OpenedStep, AddStep, EvictStep, DeleteStep, DeletedStep,
               AskStep, UseFileStep, StoppedStep DEF Run
        <2> QED
            BY <2>2, <2>3
    <1> QED
        BY <1>1, <1>2, <1>3, CancelStep, CollectStep, WaitingStep DEF Next

(* Every variable has its type, every process is where its call has a      *)
(* meaning, the locks that it works under are its own, what has a name was *)
(* made, a new directory is its maker's alone, and a node is left for each *)
(* file that an open may yet create.                                       *)
THEOREM Invariance == Spec => []IInv
    <1>1. Init => IInv
        BY InitHolds
    <1>2. IInv /\ [Next]_vars => IInv'
        BY StepHolds
    <1> QED
        BY <1>1, <1>2, PTL DEF Spec
-----------------------------------------------------------------------------
(* The entries e but for the names of s. *)
Masked(e, s) ==
    [d \in Node |-> [n \in Name |-> IF <<d, n>> \in s THEN NoNode ELSE e[d][n]]]

Tables == [Node -> [Name -> MaybeNode]]

LEMMA MaskedFacts ==
    ASSUME NEW e \in Tables, NEW s
    PROVE  /\ Masked(e, s) \in Tables
           /\ \A d \in Node, n \in Name :
                  Masked(e, s)[d][n] = IF <<d, n>> \in s THEN NoNode ELSE e[d][n]
    BY Constants DEF Masked, Tables

LEMMA SameTable ==
    ASSUME NEW e \in Tables, NEW f \in Tables,
           \A d \in Node, n \in Name : e[d][n] = f[d][n]
    PROVE  e = f
    <1>1. ASSUME NEW d \in Node
          PROVE  e[d] = f[d]
        <2>1. e[d] \in [Name -> MaybeNode] /\ f[d] \in [Name -> MaybeNode]
            BY DEF Tables
        <2>2. \A n \in Name : e[d][n] = f[d][n]
            OBVIOUS
        <2> QED
            BY <2>1, <2>2
    <1> QED
        BY <1>1 DEF Tables

LEMMA NothingMasked ==
    ASSUME NEW e \in Tables
    PROVE  Masked(e, {}) = e
    <1>1. PICK f, s : s = {} /\ f = Masked(e, s)
        OBVIOUS
    <1>2. f \in Tables /\ \A d \in Node, n \in Name : f[d][n] = e[d][n]
        <2>1. f \in Tables
            BY <1>1, MaskedFacts
        <2>2. \A d \in Node, n \in Name : f[d][n] = IF <<d, n>> \in s THEN NoNode ELSE e[d][n]
            BY <1>1 DEF Masked
        <2> QED
            BY <1>1, <2>1, <2>2
    <1>3. f = e
        BY <1>2, SameTable
    <1> QED
        BY <1>1, <1>3

LEMMA SeenIsMasked ==
    ASSUME IInv
    PROVE  Seen = Masked(entry, OldNames) /\ entry \in Tables
    <1>1. entry \in Tables
        BY DEF IInv, Types, Tables
    <1>2. CASE Renaming = {}
        <2>1. OldNames = {}
            BY <1>2 DEF OldNames
        <2>2. Masked(entry, {}) = entry
            BY <1>1, NothingMasked
        <2> QED
            BY <1>1, <1>2, <2>1, <2>2 DEF Seen
    <1>3. CASE Renaming # {}
        BY <1>1, <1>3 DEF Seen, Masked
    <1> QED
        BY <1>2, <1>3

LEMMA SeenIsMaskedNext ==
    ASSUME IInv'
    PROVE  Seen' = Masked(entry', OldNames') /\ entry' \in Tables
    <1>1. entry' \in Tables
        BY DEF IInv, Types, Tables
    <1>2. CASE Renaming' = {}
        <2>1. OldNames' = {}
            BY <1>2 DEF OldNames
        <2>2. Masked(entry', {}) = entry'
            BY <1>1, NothingMasked
        <2> QED
            BY <1>1, <1>2, <2>1, <2>2 DEF Seen
    <1>3. CASE Renaming' # {}
        BY <1>1, <1>3 DEF Seen, Masked
    <1> QED
        BY <1>2, <1>3

(* What the tree is seen to be, name by name. *)
LEMMA SeenFacts ==
    ASSUME IInv, IInv'
    PROVE  /\ entry \in Tables /\ Seen \in Tables /\ entry' \in Tables /\ Seen' \in Tables
           /\ \A d \in Node, n \in Name :
                  /\ Seen[d][n] = IF <<d, n>> \in OldNames THEN NoNode ELSE entry[d][n]
                  /\ Seen'[d][n] = IF <<d, n>> \in OldNames' THEN NoNode ELSE entry'[d][n]
    BY SeenIsMasked, SeenIsMaskedNext, MaskedFacts

(* A name that is masked is in a directory that its rename owns. *)
LEMMA OldIsLocked ==
    ASSUME IInv, NEW d \in Node, NEW n \in Name, <<d, n>> \in OldNames
    PROVE  \E q \in Renaming : <<d, n>> = Old(q) /\ d = op[q].dir /\ owner[d] = q
    <1>1. PICK q \in Renaming : <<d, n>> = Old(q)
        BY DEF OldNames
    <1>2. d = op[q].dir /\ q \in Proc /\ pc[q] = "moved"
        BY <1>1 DEF Old, Renaming
    <1>3. Kind(q) = "rename"
        BY <1>2, Here DEF TreeShape
    <1>4. owner[op[q].dir] = q
        BY <1>2, <1>3, RenameFacts
    <1> QED
        BY <1>1, <1>2, <1>4

(* No other process begins or ends a rename, and none is in its call p. *)
OthersStay(p) == \A q \in Proc : q # p => pc'[q] = pc[q] /\ op'[q] = op[q]

LEMMA SameOldNames ==
    ASSUME NEW p \in Proc, OthersStay(p), pc[p] # "moved", pc'[p] # "moved"
    PROVE  OldNames' = OldNames
    <1>1. \A q \in Proc : pc'[q] = "moved" <=> pc[q] = "moved"
        BY DEF OthersStay
    <1>2. Renaming' = Renaming
        BY <1>1 DEF Renaming
    <1>3. \A q \in Renaming : Old(q)' = Old(q)
        BY DEF OthersStay, Renaming, Old
    <1> QED
        BY <1>2, <1>3 DEF OldNames

LEMMA SeenStays ==
    ASSUME IInv, IInv', NEW p \in Proc, OthersStay(p), pc[p] # "moved", pc'[p] # "moved",
           UNCHANGED entry
    PROVE  Seen' = Seen
    <1>1. OldNames' = OldNames
        BY SameOldNames
    <1> QED
        BY <1>1, SeenIsMasked, SeenIsMaskedNext
-----------------------------------------------------------------------------
(* A step that the namespace does not see. *)
Unmoved(p) ==
    OthersStay(p) /\ pc[p] # "moved" /\ pc'[p] # "moved" /\ UNCHANGED <<type, entry>>

QuietCall(p, r) == Close(p, r) \/ Use(p, r) \/ Copy(p, r)

QuietTreeStep(p) ==
    \/ Walk(p) \/ Look(p)
    \/ FindParent(p) \/ FindLinked(p) \/ FindOpened(p) \/ FindRenamed(p)
    \/ Lock(p) \/ Lock2(p) \/ Unlock2(p) \/ Unlock(p)

TableStep(p) ==
    \/ Open(p) \/ Opened(p) \/ Add(p) \/ Evict(p) \/ Delete(p) \/ Deleted(p)
    \/ Ask(p) \/ UseFile(p)

LEMMA GotoFacts ==
    ASSUME IInv, NEW p \in Proc, NEW l, Goto(p, l)
    PROVE  pc'[p] = l /\ \A q \in Proc : q # p => pc'[q] = pc[q]
    BY DEF IInv, Types, Goto

LEMMA QuietCallFacts ==
    ASSUME IInv, NEW p \in Proc, NEW r \in Request, QuietCall(p, r)
    PROVE  Unmoved(p)
    <1>1. op \in [Proc -> Op]
        BY DEF IInv, Types
    <1>2. CASE Close(p, r)
        BY <1>1, <1>2, GotoFacts DEF Close, At, Unmoved, OthersStay, treeVars
    <1>3. CASE Use(p, r)
        BY <1>1, <1>3, GotoFacts DEF Use, HandleCall, At, Unmoved, OthersStay, treeVars
    <1>4. CASE Copy(p, r)
        BY <1>1, <1>4, GotoFacts DEF Copy, HandleCall, At, Unmoved, OthersStay, treeVars
    <1> QED
        BY <1>2, <1>3, <1>4 DEF QuietCall

LEMMA FinishFacts ==
    ASSUME IInv, NEW p \in Proc, Finish(p)
    PROVE  pc'[p] # "moved" /\ OthersStay(p)
    <1>1. op \in [Proc -> Op]
        BY DEF IInv, Types
    <1> QED
        BY <1>1, GotoFacts DEF Finish, OthersStay

LEMMA FindFacts ==
    ASSUME IInv, NEW p \in Proc, NEW o, NEW g, Find(p, o, g)
    PROVE  pc'[p] # "moved" /\ OthersStay(p)
    <1>1. op \in [Proc -> Op]
        BY DEF IInv, Types
    <1> QED
        BY <1>1, GotoFacts DEF Find, OthersStay

LEMMA GotoStays ==
    ASSUME IInv, NEW p \in Proc, NEW l, Goto(p, l), l # "moved", UNCHANGED op
    PROVE  pc'[p] # "moved" /\ OthersStay(p)
    BY GotoFacts DEF OthersStay

LEMMA QuietTreeFacts ==
    ASSUME IInv, NEW p \in Proc, QuietTreeStep(p)
    PROVE  Unmoved(p)
    <1>1. op \in [Proc -> Op]
        BY DEF IInv, Types
    <1>2. CASE Walk(p)
        BY <1>2, GotoStays DEF Walk, At, Unmoved, treeVars
    <1>3. CASE Look(p)
        BY <1>1, <1>3, GotoFacts DEF Look, At, Unmoved, OthersStay, treeVars
    <1>4. CASE FindParent(p)
        BY <1>4, GotoStays, FinishFacts DEF FindParent, Arrived, At, Unmoved, treeVars
    <1>5. CASE FindLinked(p)
        BY <1>5, FindFacts, FinishFacts DEF FindLinked, Arrived, At, Unmoved, treeVars
    <1>6. CASE FindOpened(p)
        <2>1. CASE Found(p) # NoNode
            BY <1>1, <1>6, <2>1, GotoFacts
               DEF FindOpened, Arrived, At, Unmoved, OthersStay, treeVars
        <2>2. CASE Found(p) = NoNode
            BY <1>6, <2>2, FindFacts, FinishFacts DEF FindOpened, Arrived, At, Unmoved, treeVars
        <2> QED
            BY <2>1, <2>2
    <1>7. CASE FindRenamed(p)
        <2>1. CASE op[p].step = 1
            BY <1>7, <2>1, FindFacts DEF FindRenamed, Arrived, At, Unmoved, treeVars
        <2>2. CASE op[p].step # 1
            BY <1>7, <2>2, GotoStays, FinishFacts DEF FindRenamed, Arrived, At, Unmoved, treeVars
        <2> QED
            BY <2>1, <2>2
    <1>8. CASE Lock(p)
        BY <1>8, GotoStays DEF Lock, At, Unmoved, treeVars
    <1>9. CASE Lock2(p)
        BY <1>9, GotoStays DEF Lock2, At, Unmoved, treeVars
    <1>10. CASE Unlock2(p)
        BY <1>10, GotoStays DEF Unlock2, At, Unmoved, treeVars
    <1>11. CASE Unlock(p)
        BY <1>11, GotoStays, FinishFacts DEF Unlock, At, Unmoved, treeVars
    <1> QED
        BY <1>2, <1>3, <1>4, <1>5, <1>6, <1>7, <1>8, <1>9, <1>10, <1>11 DEF QuietTreeStep

LEMMA TableStepFacts ==
    ASSUME IInv, NEW p \in Proc, TableStep(p)
    PROVE  Unmoved(p)
    <1>1. op \in [Proc -> Op]
        BY DEF IInv, Types
    <1>2. CASE Open(p)
        BY <1>1, <1>2, GotoFacts DEF Open, At, Unmoved, OthersStay, treeVars
    <1>3. CASE Opened(p)
        BY <1>3, GotoStays DEF Opened, At, Unmoved, treeVars
    <1>4. CASE Add(p)
        BY <1>4, GotoStays, FinishFacts DEF Add, At, Unmoved, treeVars
    <1>5. CASE Evict(p)
        BY <1>5, GotoStays, FinishFacts DEF Evict, Place, At, Unmoved, treeVars
    <1>6. CASE Delete(p)
        BY <1>6, GotoStays DEF Delete, At, Unmoved, treeVars
    <1>7. CASE Deleted(p)
        BY <1>7, FinishFacts DEF Deleted, Place, At, Unmoved, treeVars
    <1>8. CASE Ask(p)
        BY <1>8, GotoStays DEF Ask, At, Unmoved, treeVars
    <1>9. CASE UseFile(p)
        BY <1>9, FinishFacts DEF UseFile, At, Unmoved, treeVars
    <1> QED
        BY <1>2, <1>3, <1>4, <1>5, <1>6, <1>7, <1>8, <1>9 DEF TableStep
-----------------------------------------------------------------------------
LEMMA MakeMaps ==
    ASSUME NEW x \in Node, type[x] = "none", NEW t \in {"dir", "file", "pipe"},
           type' = [type EXCEPT ![x] = t], Seen' = Seen
    PROVE  SeenTree!Next
    <1>1. SeenTree!Make(x, t)
        BY DEF SeenTree!Make
    <1> QED
        BY <1>1 DEF SeenTree!Next

LEMMA TreeCallMaps ==
    ASSUME IInv, IInv', NEW p \in Proc, NEW r \in Request, TreeCall(p, r)
    PROVE  SeenTree!Next \/ UNCHANGED <<type, Seen>>
    <1>1. /\ OthersStay(p) /\ pc[p] # "moved" /\ pc'[p] # "moved" /\ UNCHANGED entry
          /\ NodeLeft(r)
        BY FindFacts DEF TreeCall, At
    <1>2. Seen' = Seen
        BY <1>1, SeenStays
    <1>3. CASE Making(r)
        <2>1. Fresh \in Node /\ type[Fresh] = "none"
            BY <1>1, <1>3, NodeLeftFacts DEF Making, MakesNode
        <2>2. PICK x, t : x = Fresh /\ t = (IF r.kind = "mkdir" THEN "dir" ELSE "pipe")
            OBVIOUS
        <2>3. type' = [type EXCEPT ![x] = t]
            BY <1>3, <2>2 DEF TreeCall
        <2> QED
            BY <1>2, <2>1, <2>2, <2>3, MakeMaps
    <1>4. CASE ~Making(r)
        BY <1>2, <1>4 DEF TreeCall
    <1> QED
        BY <1>3, <1>4

LEMMA FindCreatedMaps ==
    ASSUME IInv, IInv', NEW p \in Proc, FindCreated(p)
    PROVE  SeenTree!Next \/ UNCHANGED <<type, Seen>>
    <1>1. pc[p] = "walk" /\ UNCHANGED entry /\ Arrived(p) /\ Kind(p) = "open" /\ op[p].step = 2
        BY DEF FindCreated, Arrived, At
    <1>2. CASE Found(p) = NoNode
        <2>1. Finish(p) /\ type' = type
            BY <1>2 DEF FindCreated
        <2> QED
            BY <1>1, <2>1, FinishFacts, SeenStays
    <1>3. CASE Found(p) # NoNode
        <2>1. OthersStay(p) /\ pc'[p] # "moved"
            <3>1. op \in [Proc -> Op]
                BY DEF IInv, Types
            <3> QED
                BY <1>3, <3>1, GotoFacts DEF FindCreated, OthersStay
        <2>2. Seen' = Seen
            BY <1>1, <2>1, SeenStays
        <2>3. p \in Creators
            BY <1>1, FoundFacts, Here DEF TreeShape, Creators, Openers, Kind
        <2>4. /\ Cardinality(Creators) # 0 /\ Cardinality(Creators) \in Nat
              /\ Cardinality(Creators) <= Cardinality(Unmade) /\ Cardinality(Unmade) \in Nat
            BY <2>3, CreatorsAreFinite, NodesAreFinite, FS_EmptySet
        <2>5. Fresh \in Node /\ type[Fresh] = "none"
            BY <2>4, FreshFacts, FS_EmptySet
        <2>6. PICK x : x = Fresh
            OBVIOUS
        <2>7. type' = [type EXCEPT ![x] = "file"]
            BY <1>3, <2>6 DEF FindCreated
        <2> QED
            BY <2>2, <2>5, <2>6, <2>7, MakeMaps
    <1> QED
        BY <1>2, <1>3

LEMMA CreatePipeMaps ==
    ASSUME IInv, IInv', NEW p \in Proc, NEW r \in Request, CreatePipe(p, r)
    PROVE  SeenTree!Next \/ UNCHANGED <<type, Seen>>
    <1>1. /\ UNCHANGED <<pc, op, entry>> /\ pc[p] = "idle" /\ NodeLeft(r) /\ MakesNode(r)
        BY DEF CreatePipe, At, MakesNode
    <1>2. Seen' = Seen
        BY <1>1, SeenStays DEF OthersStay
    <1>3. CASE type' = type
        BY <1>2, <1>3
    <1>4. CASE type' # type
        <2>1. Fresh \in Node /\ type[Fresh] = "none"
            BY <1>1, NodeLeftFacts
        <2>2. PICK x : x = Fresh
            OBVIOUS
        <2>3. type' = [type EXCEPT ![x] = "pipe"]
            BY <1>4, <2>2 DEF CreatePipe
        <2> QED
            BY <1>2, <2>1, <2>2, <2>3, MakeMaps
    <1> QED
        BY <1>3, <1>4

(* A name in a directory that p owns is not masked, unless p moves it. *)
LEMMA OwnNames ==
    ASSUME IInv, NEW p \in Proc, NEW d \in Node, owner[d] = p, NEW n \in Name,
           <<d, n>> \in OldNames
    PROVE  pc[p] = "moved" /\ <<d, n>> = Old(p)
    <1>1. PICK q \in Renaming : <<d, n>> = Old(q) /\ owner[d] = q
        BY OldIsLocked
    <1> QED
        BY <1>1 DEF Renaming

(* p changes a name in a directory that it owns. *)
LEMMA SeenChanges ==
    ASSUME IInv, IInv', NEW p \in Proc, OthersStay(p), pc[p] # "moved", pc'[p] # "moved",
           NEW d \in Node, owner[d] = p, NEW n \in Name, NEW x \in MaybeNode,
           entry' = [entry EXCEPT ![d][n] = x]
    PROVE  /\ Seen' = [Seen EXCEPT ![d][n] = x]
           /\ Seen[d][n] = entry[d][n]
    <1>1. OldNames' = OldNames /\ <<d, n>> \notin OldNames
        BY SameOldNames, OwnNames
    <1>2. /\ entry \in Tables /\ Seen \in Tables /\ entry' \in Tables /\ Seen' \in Tables
          /\ \A e \in Node, m \in Name :
                  /\ Seen[e][m] = IF <<e, m>> \in OldNames THEN NoNode ELSE entry[e][m]
                  /\ Seen'[e][m] = IF <<e, m>> \in OldNames THEN NoNode ELSE entry'[e][m]
        BY <1>1, SeenFacts
    <1>3. PICK s, t : s = Seen /\ t = [s EXCEPT ![d][n] = x]
        OBVIOUS
    <1>4. t \in Tables
        BY <1>2, <1>3 DEF Tables
    <1>5. \A e \in Node, m \in Name : Seen'[e][m] = t[e][m]
        <2> SUFFICES ASSUME NEW e \in Node, NEW m \in Name
                     PROVE  Seen'[e][m] = t[e][m]
            OBVIOUS
        <2>1. CASE e = d /\ m = n
            <3>1. entry'[d][n] = x
                BY <1>2 DEF Tables
            <3>2. t[d][n] = x
                BY <1>2, <1>3 DEF Tables
            <3> QED
                BY <1>1, <1>2, <2>1, <3>1, <3>2
        <2>2. CASE ~(e = d /\ m = n)
            <3>1. entry'[e][m] = entry[e][m]
                BY <1>2, <2>2 DEF Tables
            <3>2. t[e][m] = s[e][m]
                BY <1>2, <1>3, <2>2 DEF Tables
            <3>3. /\ s[e][m] = IF <<e, m>> \in OldNames THEN NoNode ELSE entry[e][m]
                  /\ Seen'[e][m] = IF <<e, m>> \in OldNames THEN NoNode ELSE entry'[e][m]
                BY <1>2, <1>3
            <3>4. CASE <<e, m>> \in OldNames
                BY <3>2, <3>3, <3>4
            <3>5. CASE <<e, m>> \notin OldNames
                BY <3>1, <3>2, <3>3, <3>5
            <3> QED
                BY <3>4, <3>5
        <2> QED
            BY <2>1, <2>2
    <1>6. Seen' = t
        <2>1. Seen' \in Tables
            BY <1>2
        <2> QED
            BY <1>4, <1>5, <2>1, SameTable
    <1> QED
        BY <1>1, <1>2, <1>3, <1>6
-----------------------------------------------------------------------------
(* What is seen to have a name has it. *)
LEMMA SeenNames ==
    ASSUME IInv, NEW x \in Node, NEW d \in Node, NEW n \in Name, Seen[d][n] = x
    PROVE  entry[d][n] = x
    <1>1. entry \in Tables /\ Seen = Masked(entry, OldNames)
        BY SeenIsMasked
    <1>2. Seen[d][n] = IF <<d, n>> \in OldNames THEN NoNode ELSE entry[d][n]
        BY <1>1, MaskedFacts
    <1> QED
        BY <1>2, Constants

LEMMA UseLinkMaps ==
    ASSUME IInv, IInv', NEW p \in Proc, UseLink(p)
    PROVE  SeenTree!Next \/ UNCHANGED <<type, Seen>>
    <1>1. /\ pc[p] = "in" /\ type' = type /\ Kind(p) \in {"open", "mkdir", "mkpipe", "link"}
          /\ OthersStay(p) /\ pc'[p] # "moved"
        BY GotoFacts DEF UseLink, At, OthersStay
    <1>2. CASE ~CanLink(op[p].cur, NewName(p))
        BY <1>1, <1>2, SeenStays DEF UseLink
    <1>3. CASE CanLink(op[p].cur, NewName(p))
        <2>1. PICK d, n, x : d = op[p].cur /\ n = NewName(p) /\ x = op[p].child
            OBVIOUS
        <2>2. TreeShape(p) /\ Kind(p) # "none"
            BY <1>1, Here
        <2>3. d \in Node /\ n \in Name
            <3>1. op[p].req \in Request
                BY <2>2, Here
            <3> QED
                BY <1>1, <2>1, <2>2, <3>1, PathFacts DEF TreeShape, Parent, NewName
        <2>4. x \in Node /\ type[x] \in {"dir", "file", "pipe"} /\ (type[x] = "dir" => Kind(p) = "mkdir")
            <3> HIDE DEF Kind
            <3> QED
                BY <1>1, <2>1, <2>2 DEF TreeShape, Parent
        <2>5. owner[d] = p
            <3>1. LockHeld(p, d)
                BY <1>1, <2>1 DEF LockHeld
            <3> QED
                BY <2>3, <3>1 DEF IInv, Locked
        <2>6. entry' = [entry EXCEPT ![d][n] = x] /\ type[d] = "dir" /\ entry[d][n] = NoNode
            BY <1>3, <2>1 DEF UseLink, CanLink
        <2>7. Seen' = [Seen EXCEPT ![d][n] = x] /\ Seen[d][n] = NoNode
            BY <1>1, <2>3, <2>4, <2>5, <2>6, Constants, SeenChanges
        <2>8. x \in SeenTree!Dirs => SeenTree!Names(x) = {}
            <3> SUFFICES ASSUME type[x] = "dir"
                         PROVE  SeenTree!Names(x) = {}
                BY DEF SeenTree!Dirs
            <3>1. NewDir(p)
                BY <1>1, <2>4 DEF NewDir
            <3>2. \A e \in Node, m \in Name : entry[e][m] # x
                BY <2>1, <3>1 DEF IInv, NewDirs
            <3>3. \A e \in Node, m \in Name : Seen[e][m] # x
                BY <2>4, <3>2, SeenNames
            <3>4. \A k \in Node \X Name : k[1] \in Node /\ k[2] \in Name
                OBVIOUS
            <3> QED
                BY <3>3, <3>4 DEF SeenTree!Names
        <2>9. SeenTree!Link(d, n, x)
            BY <1>1, <2>4, <2>7, <2>8 DEF SeenTree!Link
        <2>10. d \in SeenTree!Dirs /\ n \in Name \ SeenTree!Entries(d)
            BY <2>3, <2>6, <2>7 DEF SeenTree!Dirs, SeenTree!Entries
        <2> QED
            BY <2>4, <2>9, <2>10 DEF SeenTree!Next
    <1> QED
        BY <1>2, <1>3

LEMMA UseUnlinkMaps ==
    ASSUME IInv, IInv', NEW p \in Proc, UseUnlink(p)
    PROVE  SeenTree!Next \/ UNCHANGED <<type, Seen>>
    <1>1. /\ pc[p] = "in" /\ type' = type /\ Kind(p) = "unlink"
          /\ OthersStay(p) /\ pc'[p] # "moved"
        BY GotoFacts DEF UseUnlink, At, OthersStay
    <1>2. PICK d, n : d = op[p].cur /\ n = BaseName(op[p].req.path)
        OBVIOUS
    <1>3. d \in Node /\ n \in Name /\ type[d] = "dir"
        <2>1. TreeShape(p) /\ Kind(p) # "none" /\ Kind(p) # "open"
            BY <1>1, Here
        <2>2. op[p].req \in Request
            BY <2>1, Here
        <2> QED
            BY <1>1, <1>2, <2>1, <2>2, PathFacts DEF TreeShape, Parent
    <1>4. owner[d] = p
        <2>1. LockHeld(p, d)
            BY <1>1, <1>2 DEF LockHeld
        <2> QED
            BY <1>3, <2>1 DEF IInv, Locked
    <1>5. entry' = [entry EXCEPT ![d][n] = NoNode]
        BY <1>2 DEF UseUnlink
    <1>6. Seen' = [Seen EXCEPT ![d][n] = NoNode] /\ Seen[d][n] = entry[d][n]
        BY <1>1, <1>3, <1>4, <1>5, Constants, SeenChanges
    <1>7. CASE entry[d][n] = NoNode
        <2>1. Seen \in Tables
            BY SeenFacts
        <2>2. [Seen EXCEPT ![d][n] = NoNode] = Seen
            <3>1. PICK s, t : s = Seen /\ t = [s EXCEPT ![d][n] = NoNode]
                OBVIOUS
            <3>2. /\ s \in Tables /\ t \in Tables
                  /\ \A e \in Node, m \in Name : t[e][m] = s[e][m]
                BY <1>3, <1>6, <1>7, <2>1, <3>1, Constants DEF Tables
            <3>3. t = s
                BY <3>2, SameTable
            <3> QED
                BY <3>1, <3>3
        <2> QED
            BY <1>1, <1>6, <2>2
    <1>8. CASE entry[d][n] # NoNode
        <2>1. SeenTree!Unlink(d, n)
            BY <1>1, <1>6 DEF SeenTree!Unlink
        <2>2. d \in SeenTree!Dirs /\ n \in SeenTree!Entries(d)
            BY <1>3, <1>6, <1>8 DEF SeenTree!Dirs, SeenTree!Entries
        <2> QED
            BY <2>1, <2>2 DEF SeenTree!Next
    <1> QED
        BY <1>7, <1>8

(* A rename that moves a name hides the old one ... *)
LEMMA MoveHides ==
    ASSUME NEW p \in Proc, OthersStay(p), pc[p] # "moved", pc'[p] = "moved", UNCHANGED op
    PROVE  OldNames' = OldNames \cup {Old(p)}
    <1>1. Renaming' = Renaming \cup {p}
        BY DEF Renaming, OthersStay
    <1>2. \A q \in Proc : Old(q)' = Old(q)
        BY DEF Old
    <1>3. /\ \A k : k \in OldNames' <=> \E q \in Renaming' : k = Old(q)
          /\ \A k : k \in OldNames <=> \E q \in Renaming : k = Old(q)
        <2>1. \A k : k \in OldNames' <=> \E q \in Renaming' : k = Old(q)'
            BY DEF OldNames
        <2>2. Renaming' \subseteq Proc
            BY DEF Renaming
        <2> QED
            BY <1>2, <2>1, <2>2 DEF OldNames
    <1> QED
        BY <1>1, <1>3

(* ... until it has taken it back. *)
LEMMA MovedShows ==
    ASSUME IInv, NEW p \in Proc, OthersStay(p), pc[p] = "moved", pc'[p] # "moved", UNCHANGED op
    PROVE  OldNames' = OldNames \ {Old(p)}
    <1>1. Renaming' = Renaming \ {p} /\ p \in Renaming
        BY DEF Renaming, OthersStay
    <1>2. \A q \in Proc : Old(q)' = Old(q)
        BY DEF Old
    <1>3. \A q \in Renaming : Kind(q) = "rename" /\ q \in Proc /\ pc[q] \in {"in", "moved"}
        BY Here DEF Renaming, TreeShape
    <1>4. \A q \in Renaming : owner[op[q].dir] = q
        <2> HIDE DEF Kind
        <2> QED
            BY <1>3, RenameFacts
    <1>5. \A q \in Renaming : Old(q) = Old(p) => q = p
        BY <1>1, <1>4 DEF Old
    <1> HIDE DEF Old
    <1>6. /\ \A k : k \in OldNames' <=> \E q \in Renaming' : k = Old(q)
          /\ \A k : k \in OldNames <=> \E q \in Renaming : k = Old(q)
        <2>1. \A k : k \in OldNames' <=> \E q \in Renaming' : k = Old(q)'
            BY DEF OldNames
        <2>2. Renaming' \subseteq Proc
            BY DEF Renaming
        <2> QED
            BY <1>2, <2>1, <2>2 DEF OldNames
    <1> HIDE DEF Renaming, OldNames
    <1> QED
        BY <1>1, <1>5, <1>6

LEMMA UseMoveMaps ==
    ASSUME IInv, IInv', NEW p \in Proc, UseMove(p)
    PROVE  SeenTree!Next \/ UNCHANGED <<type, Seen>>
    <1>1. /\ pc[p] = "in" /\ Kind(p) = "rename" /\ UNCHANGED <<type, op>>
        BY DEF UseMove, At
    <1>2. PICK d, n, e, m, x : /\ d = op[p].cur /\ n = NewName(p)
                               /\ e = op[p].dir /\ m = BaseName(op[p].req.path)
                               /\ x = entry[e][m]
        OBVIOUS
    <1>3. /\ d \in Node /\ n \in Name /\ e \in Node /\ m \in Name
          /\ type[d] = "dir" /\ type[e] = "dir" /\ owner[d] = p /\ owner[e] = p
        BY <1>1, <1>2, RenameFacts
    <1>4. CASE ~(x # NoNode /\ CanLink(op[p].cur, NewName(p)))
        <2>1. entry' = entry /\ pc'[p] # "moved" /\ OthersStay(p)
            <3>1. entry' = entry /\ Goto(p, IF TwoParents(p) THEN "unlock2" ELSE "unlock")
                BY <1>2, <1>4 DEF UseMove
            <3> QED
                BY <1>1, <3>1, GotoFacts DEF OthersStay
        <2> QED
            BY <1>1, <2>1, SeenStays
    <1>5. CASE x # NoNode /\ CanLink(op[p].cur, NewName(p))
        <2>1. entry' = [entry EXCEPT ![d][n] = x] /\ entry[d][n] = NoNode /\ x = entry[e][m]
            BY <1>2, <1>5 DEF UseMove, CanLink
        <2>2. pc'[p] = "moved" /\ OthersStay(p)
            BY <1>1, <1>2, <1>5, GotoFacts DEF UseMove, OthersStay
        <2>3. OldNames' = OldNames \cup {<<e, m>>}
            BY <1>1, <1>2, <2>2, MoveHides DEF Old
        <2>4. <<d, n>> \notin OldNames /\ <<e, m>> \notin OldNames
            BY <1>1, <1>3, OwnNames
        <2>5. ~(d = e /\ n = m)
            BY <1>5, <2>1
        <2>6. /\ entry \in Tables /\ Seen \in Tables /\ entry' \in Tables /\ Seen' \in Tables
              /\ \A f \in Node, k \in Name :
                  /\ Seen[f][k] = IF <<f, k>> \in OldNames THEN NoNode ELSE entry[f][k]
                  /\ Seen'[f][k] = IF <<f, k>> \in OldNames \cup {<<e, m>>}
                                   THEN NoNode ELSE entry'[f][k]
            BY <2>3, SeenFacts
        <2>7. Seen[d][n] = NoNode /\ Seen[e][m] = x
            BY <1>3, <2>1, <2>4, <2>6
        <2>8. PICK s, t : s = Seen /\ t = [s EXCEPT ![e][m] = NoNode, ![d][n] = x]
            OBVIOUS
        <2>9. x \in MaybeNode
            BY <1>2, <1>3, EntryFacts
        <2>10. /\ t \in Tables
               /\ t[d][n] = x /\ t[e][m] = NoNode
               /\ \A f \in Node, k \in Name :
                      ~(f = d /\ k = n) /\ ~(f = e /\ k = m) => t[f][k] = s[f][k]
            <3>1. s \in Tables
                BY <2>6, <2>8
            <3>2. t \in Tables
                BY <1>3, <2>8, <2>9, <3>1, Constants DEF Tables
            <3>3. t[d][n] = x
                BY <1>3, <2>8, <3>1 DEF Tables
            <3>4. t[e][m] = NoNode
                BY <1>3, <2>5, <2>8, <3>1 DEF Tables
            <3>5. \A f \in Node, k \in Name :
                      ~(f = d /\ k = n) /\ ~(f = e /\ k = m) => t[f][k] = s[f][k]
                BY <1>3, <2>8, <3>1 DEF Tables
            <3> QED
                BY <3>2, <3>3, <3>4, <3>5
        <2>11. ASSUME NEW f \in Node, NEW k \in Name
               PROVE  Seen'[f][k] = t[f][k]
            <3>1. CASE f = d /\ k = n
                <4>1. entry'[d][n] = x
                    BY <1>3, <2>1, <2>6 DEF Tables
                <4>2. <<d, n>> \notin OldNames \cup {<<e, m>>}
                    BY <2>4, <2>5
                <4>3. Seen'[d][n] = x
                    BY <1>3, <2>6, <4>1, <4>2
                <4> QED
                    BY <2>10, <3>1, <4>3
            <3>2. CASE f = e /\ k = m
                <4>1. Seen'[e][m] = NoNode
                    BY <1>3, <2>6
                <4> QED
                    BY <2>10, <3>2, <4>1
            <3>3. CASE ~(f = d /\ k = n) /\ ~(f = e /\ k = m)
                <4>1. entry'[f][k] = entry[f][k]
                    BY <2>1, <2>6, <3>3 DEF Tables
                <4>2. t[f][k] = Seen[f][k]
                    BY <2>8, <2>10, <3>3
                <4>3. <<f, k>> \in OldNames \cup {<<e, m>>} <=> <<f, k>> \in OldNames
                    BY <3>3
                <4>4. Seen'[f][k] = Seen[f][k]
                    <5>1. CASE <<f, k>> \in OldNames
                        BY <2>6, <4>3, <5>1
                    <5>2. CASE <<f, k>> \notin OldNames
                        BY <2>6, <4>1, <4>3, <5>2
                    <5> QED
                        BY <5>1, <5>2
                <4> QED
                    BY <4>2, <4>4
            <3> QED
                BY <3>1, <3>2, <3>3
        <2>12. Seen' = t
            BY <2>6, <2>10, <2>11, SameTable
        <2>13. SeenTree!Move(e, m, d, n)
            BY <1>1, <2>7, <2>8, <2>12 DEF SeenTree!Move
        <2>14. /\ d \in SeenTree!Dirs /\ e \in SeenTree!Dirs
               /\ m \in SeenTree!Entries(e) /\ n \in Name \ SeenTree!Entries(d)
            BY <1>3, <1>5, <2>7 DEF SeenTree!Dirs, SeenTree!Entries
        <2> QED
            BY <2>13, <2>14 DEF SeenTree!Next
    <1> QED
        BY <1>4, <1>5

LEMMA UseMovedMaps ==
    ASSUME IInv, IInv', NEW p \in Proc, UseMoved(p)
    PROVE  UNCHANGED <<type, Seen>>
    <1>1. /\ pc[p] = "moved" /\ Kind(p) = "rename" /\ UNCHANGED <<type, op>>
        BY Here DEF UseMoved, At, TreeShape
    <1>2. PICK e, m : e = op[p].dir /\ m = BaseName(op[p].req.path)
        OBVIOUS
    <1>3. e \in Node /\ m \in Name
        BY <1>1, <1>2, RenameFacts
    <1>4. entry' = [entry EXCEPT ![e][m] = NoNode] /\ OthersStay(p) /\ pc'[p] # "moved"
        BY <1>1, <1>2, GotoFacts DEF UseMoved, OthersStay
    <1>5. OldNames' = OldNames \ {<<e, m>>} /\ <<e, m>> \in OldNames
        BY <1>1, <1>2, <1>4, MovedShows DEF Old, OldNames, Renaming
    <1>6. /\ entry \in Tables /\ Seen \in Tables /\ entry' \in Tables /\ Seen' \in Tables
          /\ \A f \in Node, k \in Name :
               /\ Seen[f][k] = IF <<f, k>> \in OldNames THEN NoNode ELSE entry[f][k]
               /\ Seen'[f][k] = IF <<f, k>> \in OldNames \ {<<e, m>>} THEN NoNode ELSE entry'[f][k]
        BY <1>5, SeenFacts
    <1>7. ASSUME NEW f \in Node, NEW k \in Name
          PROVE  Seen'[f][k] = Seen[f][k]
        <2>1. CASE f = e /\ k = m
            <3>1. entry'[e][m] = NoNode
                BY <1>3, <1>4, <1>6 DEF Tables
            <3>2. Seen'[e][m] = NoNode /\ Seen[e][m] = NoNode
                BY <1>3, <1>5, <1>6, <3>1
            <3> QED
                BY <2>1, <3>2
        <2>2. CASE ~(f = e /\ k = m)
            <3>1. entry'[f][k] = entry[f][k]
                BY <1>4, <1>6, <2>2 DEF Tables
            <3>2. <<f, k>> \in OldNames \ {<<e, m>>} <=> <<f, k>> \in OldNames
                BY <2>2
            <3>3. CASE <<f, k>> \in OldNames
                BY <1>6, <3>2, <3>3
            <3>4. CASE <<f, k>> \notin OldNames
                BY <1>6, <3>1, <3>2, <3>4
            <3> QED
                BY <3>3, <3>4
        <2> QED
            BY <2>1, <2>2
    <1>8. Seen' = Seen
        BY <1>6, <1>7, SameTable
    <1> QED
        BY <1>1, <1>8
-----------------------------------------------------------------------------
LEMMA StartMaps ==
    ASSUME Init
    PROVE  SeenTree!Start
    <1>1. Renaming = {}
        BY DEF Init, Renaming
    <1>2. Seen = Tree /\ type = Kinds
        BY <1>1 DEF Init, Seen
    <1>3. /\ type \in [Node -> {"none", "dir", "file", "pipe"}]
          /\ Seen \in [Node -> [Name -> Node \cup {NoNode}]]
        BY <1>2, FilesystemAssumption DEF NodeType
    <1>4. ASSUME NEW x \in Node, type[x] = "none"
          PROVE  SeenTree!Names(x) = {}
        <2>1. \A d \in Node, n \in Name : Seen[d][n] # x
            BY <1>2, <1>4, FilesystemAssumption
        <2>2. \A k \in Node \X Name : k[1] \in Node /\ k[2] \in Name
            OBVIOUS
        <2> QED
            BY <2>1, <2>2 DEF SeenTree!Names
    <1>5. ASSUME NEW x \in Node, type[x] = "dir",
                 NEW a \in SeenTree!Names(x), NEW b \in SeenTree!Names(x)
          PROVE  a = b
        <2>1. /\ a \in Node \X Name /\ b \in Node \X Name
              /\ Tree[a[1]][a[2]] = x /\ Tree[b[1]][b[2]] = x
            BY <1>2 DEF SeenTree!Names
        <2>2. PICK d \in Node, n \in Name : a = <<d, n>>
            BY <2>1
        <2>3. PICK e \in Node, m \in Name : b = <<e, m>>
            BY <2>1
        <2>4. Tree[d][n] = x /\ Tree[e][m] = x /\ x # NoNode /\ Kinds[x] = "dir"
            BY <1>2, <1>5, <2>1, <2>2, <2>3, Constants
        <2>5. Tree[d][n] # NoNode /\ Kinds[Tree[d][n]] = "dir" /\ Tree[e][m] = Tree[d][n]
            BY <2>4
        <2>6. d = e /\ n = m
            BY <2>5, FilesystemAssumption
        <2> QED
            BY <2>2, <2>3, <2>6
    <1> QED
        BY <1>3, <1>4, <1>5 DEF SeenTree!Start

LEMMA StepMaps ==
    ASSUME IInv, IInv', [Next]_vars
    PROVE  [SeenTree!Next]_<<type, Seen>>
    <1>0. UNCHANGED <<type, entry, pc, op>> => UNCHANGED <<type, Seen>>
        <2> SUFFICES ASSUME UNCHANGED <<type, entry, pc, op>>
                     PROVE  UNCHANGED <<type, Seen>>
            OBVIOUS
        <2>1. Renaming' = Renaming /\ OldNames' = OldNames
            BY DEF Renaming, OldNames, Old
        <2> QED
            BY <2>1 DEF Seen
    <1>1. CASE UNCHANGED vars
        BY <1>0, <1>1 DEF vars, treeVars
    <1>2. ASSUME NEW p \in Proc, Unmoved(p)
          PROVE  UNCHANGED <<type, Seen>>
        BY <1>2, SeenStays DEF Unmoved
    <1>3. ASSUME NEW p \in Proc, Syscall(p)
          PROVE  [SeenTree!Next]_<<type, Seen>>
        <2>1. PICK r \in program[p] : TreeCall(p, r) \/ CreatePipe(p, r) \/ QuietCall(p, r)
            BY <1>3 DEF Syscall, QuietCall
        <2>2. r \in Request
            BY DEF IInv, Types
        <2>3. CASE QuietCall(p, r)
            BY <1>2, <2>2, <2>3, QuietCallFacts
        <2>4. CASE TreeCall(p, r) \/ CreatePipe(p, r)
            BY <2>2, <2>4, TreeCallMaps, CreatePipeMaps
        <2> QED
            BY <2>1, <2>3, <2>4
    <1>4. ASSUME NEW p \in Proc, Run(p)
          PROVE  [SeenTree!Next]_<<type, Seen>>
        <2>1. \/ QuietTreeStep(p) \/ TableStep(p) \/ PlaceOutside(p) \/ Hang(p)
              \/ FindCreated(p) \/ UseLink(p) \/ UseUnlink(p) \/ UseMove(p) \/ UseMoved(p)
            BY <1>4 DEF Run, TreeStep, QuietTreeStep, TableStep
        <2>2. CASE QuietTreeStep(p) \/ TableStep(p)
            BY <1>2, <2>2, QuietTreeFacts, TableStepFacts
        <2>3. CASE FindCreated(p) \/ UseLink(p) \/ UseUnlink(p) \/ UseMove(p) \/ UseMoved(p)
            BY <2>3, FindCreatedMaps, UseLinkMaps, UseUnlinkMaps, UseMoveMaps, UseMovedMaps
        <2>4. CASE PlaceOutside(p) \/ Hang(p)
            BY <1>0, <2>4 DEF PlaceOutside, Hang, treeVars
        <2> QED
            BY <2>1, <2>2, <2>3, <2>4
    <1>5. ASSUME NEW p \in Proc, Cancel(p) \/ Collect(p)
          PROVE  UNCHANGED <<type, Seen>>
        BY <1>0, <1>5 DEF Cancel, Collect, treeVars
    <1>6. CASE SystemWaits
        BY <1>0, <1>6 DEF SystemWaits, treeVars
    <1> QED
        BY <1>1, <1>3, <1>4, <1>5, <1>6 DEF Next

(* Whatever steps the lookups, the locks and the cancellations are made    *)
(* in, the tree changes one name at a time, under the rules of module      *)
(* Namespace, as far as whoever owns the parents can see.                  *)
THEOREM TreeImplementsNamespace == Spec => NamespaceSpec
    <1>1. Init => SeenTree!Start
        BY StartMaps
    <1>2. IInv /\ IInv' /\ [Next]_vars => [SeenTree!Next]_<<type, Seen>>
        BY StepMaps
    <1> QED
        BY <1>1, <1>2, Invariance, PTL DEF Spec, NamespaceSpec, SeenTree!Spec
-----------------------------------------------------------------------------
(* What is not made has no name, and a directory has one at most. *)
SeenOnce ==
    /\ \A x \in Node : type[x] = "none" => \A d \in Node, n \in Name : Seen[d][n] # x
    /\ \A x \in Node : type[x] = "dir" =>
          \A d, e \in Node : \A n, m \in Name : Seen[d][n] = x /\ Seen[e][m] = x => d = e /\ n = m

LEMMA StartIsOnce == SeenTree!Start => SeenOnce
    <1> SUFFICES ASSUME SeenTree!Start
                 PROVE  SeenOnce
        OBVIOUS
    <1>1. ASSUME NEW x \in Node, NEW d \in Node, NEW n \in Name, Seen[d][n] = x
          PROVE  <<d, n>> \in SeenTree!Names(x)
        BY <1>1 DEF SeenTree!Names
    <1>2. ASSUME NEW x \in Node, type[x] = "none", NEW d \in Node, NEW n \in Name, Seen[d][n] = x
          PROVE  FALSE
        <2>1. SeenTree!Names(x) = {}
            BY <1>2 DEF SeenTree!Start
        <2> QED
            BY <1>1, <1>2, <2>1
    <1>3. ASSUME NEW x \in Node, type[x] = "dir",
                 NEW d \in Node, NEW n \in Name, NEW e \in Node, NEW m \in Name,
                 Seen[d][n] = x, Seen[e][m] = x
          PROVE  d = e /\ n = m
        <2>1. <<d, n>> \in SeenTree!Names(x) /\ <<e, m>> \in SeenTree!Names(x)
            BY <1>1, <1>3
        <2>2. <<d, n>> = <<e, m>>
            BY <1>3, <2>1 DEF SeenTree!Start
        <2> QED
            BY <2>2
    <1> QED
        BY <1>2, <1>3 DEF SeenOnce
-----------------------------------------------------------------------------
LEMMA StepIsOnce ==
    ASSUME SeenOnce, Seen \in Tables, type \in [Node -> NodeType],
           [SeenTree!Next]_<<type, Seen>>
    PROVE  SeenOnce'
    <1>1. /\ \A x, d \in Node, n \in Name : type[x] = "none" => Seen[d][n] # x
          /\ \A x \in Node, d, e \in Node, n, m \in Name :
                type[x] = "dir" /\ Seen[d][n] = x /\ Seen[e][m] = x => d = e /\ n = m
        BY DEF SeenOnce
    <1>2. CASE UNCHANGED <<type, Seen>>
        BY <1>1, <1>2 DEF SeenOnce
    <1>3. ASSUME NEW x \in Node, NEW t \in {"dir", "file", "pipe"}, SeenTree!Make(x, t)
          PROVE  SeenOnce'
        <2>1. /\ type[x] = "none" /\ Seen' = Seen
              /\ type'[x] = t /\ \A y \in Node : y # x => type'[y] = type[y]
            BY <1>3 DEF SeenTree!Make
        <2>2. \A d \in Node, n \in Name : Seen[d][n] # x
            BY <1>1, <2>1
        <2> QED
            BY <1>1, <2>1, <2>2 DEF SeenOnce
    <1>4. ASSUME NEW d \in SeenTree!Dirs, NEW n \in Name, NEW x \in Node, SeenTree!Link(d, n, x)
          PROVE  SeenOnce'
        <2>1. /\ type' = type /\ type[x] # "none"
              /\ Seen' = [Seen EXCEPT ![d][n] = x] /\ d \in Node
            BY <1>4 DEF SeenTree!Link, SeenTree!Dirs
        <2>2. /\ Seen'[d][n] = x
              /\ \A e \in Node, m \in Name : ~(e = d /\ m = n) => Seen'[e][m] = Seen[e][m]
            BY <2>1 DEF Tables
        <2>3. type[x] = "dir" => \A e \in Node, m \in Name : Seen[e][m] # x
            <3> SUFFICES ASSUME type[x] = "dir", NEW e \in Node, NEW m \in Name, Seen[e][m] = x
                         PROVE  FALSE
                OBVIOUS
            <3>1. <<e, m>> \in SeenTree!Names(x)
                BY DEF SeenTree!Names
            <3>2. SeenTree!Names(x) = {}
                BY <1>4 DEF SeenTree!Link, SeenTree!Dirs
            <3> QED
                BY <3>1, <3>2
        <2> QED
            BY <1>1, <2>1, <2>2, <2>3 DEF SeenOnce
    <1>5. ASSUME NEW d \in SeenTree!Dirs, NEW n \in SeenTree!Entries(d), SeenTree!Unlink(d, n)
          PROVE  SeenOnce'
        <2>1. type' = type /\ Seen' = [Seen EXCEPT ![d][n] = NoNode] /\ d \in Node /\ n \in Name
            BY <1>5 DEF SeenTree!Unlink, SeenTree!Dirs, SeenTree!Entries
        <2>2. /\ Seen'[d][n] = NoNode
              /\ \A e \in Node, m \in Name : ~(e = d /\ m = n) => Seen'[e][m] = Seen[e][m]
            BY <2>1 DEF Tables
        <2> QED
            BY <1>1, <2>1, <2>2, Constants DEF SeenOnce
    <1>6. ASSUME NEW d \in SeenTree!Dirs, NEW e \in SeenTree!Dirs,
                 NEW n \in SeenTree!Entries(d), NEW m \in Name \ SeenTree!Entries(e),
                 SeenTree!Move(d, n, e, m)
          PROVE  SeenOnce'
        <2>1. /\ type' = type /\ Seen' = [Seen EXCEPT ![d][n] = NoNode, ![e][m] = Seen[d][n]]
              /\ d \in Node /\ e \in Node /\ n \in Name /\ m \in Name /\ Seen[d][n] # NoNode
              /\ ~(d = e /\ n = m)
            BY <1>6 DEF SeenTree!Move, SeenTree!Dirs, SeenTree!Entries
        <2>2. Seen'[e][m] = Seen[d][n]
            BY <2>1 DEF Tables
        <2>3. Seen'[d][n] = NoNode
            BY <2>1 DEF Tables
        <2>4. \A f \in Node, k \in Name :
                  ~(f = d /\ k = n) /\ ~(f = e /\ k = m) => Seen'[f][k] = Seen[f][k]
            BY <2>1 DEF Tables
        <2>5. PICK x : x = Seen[d][n]
            OBVIOUS
        <2>6. \A f \in Node, k \in Name : \A y \in Node :
                  Seen'[f][k] = y => \/ f = e /\ k = m /\ y = x
                                     \/ Seen[f][k] = y /\ ~(f = d /\ k = n)
            BY <2>1, <2>2, <2>3, <2>4, <2>5, Constants
        <2>7. /\ \A y \in Node : type[y] = "none" => \A f \in Node, k \in Name : Seen'[f][k] # y
              /\ \A y \in Node : type[y] = "dir" =>
                    \A f, g \in Node : \A k, l \in Name :
                        Seen'[f][k] = y /\ Seen'[g][l] = y => f = g /\ k = l
            <3>1. ASSUME NEW y \in Node, NEW f \in Node, NEW k \in Name,
                         type[y] = "none", Seen'[f][k] = y
                  PROVE  FALSE
                BY <1>1, <2>1, <2>5, <2>6, <3>1
            <3>2. ASSUME NEW y \in Node, NEW f \in Node, NEW g \in Node, NEW k \in Name, NEW l \in Name,
                         type[y] = "dir", Seen'[f][k] = y, Seen'[g][l] = y
                  PROVE  f = g /\ k = l
                <4>1. CASE y = x
                    <5>1. \A h \in Node, i \in Name : Seen[h][i] = y => h = d /\ i = n
                        BY <1>1, <2>1, <2>5, <3>2, <4>1
                    <5> QED
                        BY <2>6, <3>2, <5>1
                <4>2. CASE y # x
                    <5>1. Seen[f][k] = y /\ Seen[g][l] = y
                        BY <2>6, <3>2, <4>2
                    <5> QED
                        BY <1>1, <3>2, <5>1
                <4> QED
                    BY <4>1, <4>2
            <3> QED
                BY <3>1, <3>2
        <2>8. type' = type
            BY <2>1
        <2> QED
            BY <2>7, <2>8 DEF SeenOnce
    <1> QED
        BY <1>2, <1>3, <1>4, <1>5, <1>6 DEF SeenTree!Next

(* A directory has one name: whatever mkdir, rename and unlink the         *)
(* processes make, it is never in two directories, nor twice in one,       *)
(* except under a rename that owns them both.                              *)
THEOREM DirectoryCorrect == Spec => []DirectoryHasOneName
    <1>1. Init => SeenOnce
        BY StartMaps, StartIsOnce
    <1>2. IInv /\ IInv' /\ SeenOnce /\ [Next]_vars => SeenOnce'
        <2> SUFFICES ASSUME IInv, IInv', SeenOnce, [Next]_vars
                     PROVE  SeenOnce'
            OBVIOUS
        <2>1. Seen \in Tables /\ type \in [Node -> NodeType]
            BY SeenFacts DEF IInv, Types
        <2> QED
            BY <2>1, StepMaps, StepIsOnce
    <1>3. IInv /\ SeenOnce => DirectoryHasOneName
        <2> SUFFICES ASSUME IInv, SeenOnce, NEW x \in Node, type[x] = "dir"
                     PROVE  Cardinality(NamesOf(x) \ OldNames) <= 1
            BY DEF DirectoryHasOneName
        <2>1. PICK s : s = NamesOf(x) \ OldNames
            OBVIOUS
        <2>2. ASSUME NEW k \in s
              PROVE  /\ k = <<k[1], k[2]>> /\ k[1] \in Node /\ k[2] \in Name
                     /\ Seen[k[1]][k[2]] = x
            <3>1. /\ k \in Node \X Name /\ entry[k[1]][k[2]] = x /\ k \notin OldNames
                BY <2>1, <2>2 DEF NamesOf
            <3>2. k = <<k[1], k[2]>> /\ k[1] \in Node /\ k[2] \in Name
                BY <3>1
            <3>3. entry \in Tables /\ Seen = Masked(entry, OldNames)
                BY SeenIsMasked
            <3> QED
                <4>1. PICK d \in Node, n \in Name : k = <<d, n>>
                    BY <3>1
                <4>2. Seen[d][n] = IF <<d, n>> \in OldNames THEN NoNode ELSE entry[d][n]
                    BY <3>3, MaskedFacts
                <4> QED
                    BY <3>1, <4>1, <4>2
        <2>3. \A a, b \in s : a = b
            BY <2>2 DEF SeenOnce
        <2>4. CASE s = {}
            BY <2>1, <2>4, FS_EmptySet
        <2>5. CASE s # {}
            <3>1. PICK a : s = {a}
                BY <2>3, <2>5
            <3>2. Cardinality({a}) = 1
                BY FS_Singleton
            <3> QED
                BY <2>1, <3>1, <3>2
        <2> QED
            BY <2>4, <2>5
    <1> QED
        BY <1>1, <1>2, <1>3, Invariance, PTL DEF Spec
-----------------------------------------------------------------------------
(* What is in new[x] but not in old[x] was appended to it. *)
Appended(old, new, x) ==
    /\ Len(new[x]) >= Len(old[x])
    /\ SubSeq(new[x], 1, Len(old[x])) = old[x]
    /\ \A i \in Len(old[x]) + 1 .. Len(new[x]) : new[x][i] # Gap

LEMMA PrefixIs ==
    ASSUME NEW s \in Seq(Byte), NEW t \in Seq(Byte), Len(t) >= Len(s),
           \A i \in 1 .. Len(s) : t[i] = s[i]
    PROVE  SubSeq(t, 1, Len(s)) = s
    <1>1. PICK r : r = SubSeq(t, 1, Len(s))
        OBVIOUS
    <1>2. Len(s) \in Nat /\ Len(t) \in Nat
        OBVIOUS
    <1>3. r \in Seq(Byte) /\ Len(r) = Len(s) /\ \A i \in 1 .. Len(s) : r[i] = t[i]
        BY <1>1, <1>2
    <1>4. r = s
        BY <1>3
    <1> QED
        BY <1>1, <1>4

LEMMA NothingAppended ==
    ASSUME IInv, data' = data, NEW x \in Node
    PROVE  Appended(data, data', x)
    <1>1. data[x] \in Seq(Byte)
        BY DEF IInv, Types
    <1>2. Len(data[x]) \in Nat /\ SubSeq(data[x], 1, Len(data[x])) = data[x]
        BY <1>1, PrefixIs
    <1> QED
        BY <1>2 DEF Appended

LEMMA OpenAppends ==
    ASSUME IInv, NEW p \in Proc, Open(p), NEW x \in Node, Rewriters(x) = {}
    PROVE  Appended(data, data', x)
    <1>1. PICK h : h = MadeHandle(p)
        OBVIOUS
    <1>2. /\ pc[p] = "open"
          /\ data' = IF h.trunc /\ type[h.node] = "file"
                     THEN [data EXCEPT ![h.node] = <<>>] ELSE data
        BY <1>1 DEF Open, At
    <1>3. CASE h.trunc /\ type[h.node] = "file" /\ h.node = x
        <2>1. h # NoHandle
            <3>1. SlotShape(p) /\ p \in alive /\ Kind(p) \in {"open", "reopen", "copy"}
                BY <1>2, Here DEF SlotShape, Open, At
            <3>2. CASE Kind(p) = "open"
                <4>1. op[p].child \in Node /\ op[p].req \in Request
                    BY <1>2, <3>1, <3>2, Here DEF SlotShape
                <4>2. h \in Handle
                    BY <1>1, <3>2, <4>1, PathFacts DEF MadeHandle, Handle
                <4> QED
                    BY <4>2, Constants
            <3>3. CASE Kind(p) # "open"
                <4>1. UsesHeld(p)
                    BY <1>2, <3>1, <3>3 DEF UsesHeld, SlotKind
                <4>2. h \in Handle
                    BY <1>1, <3>1, <3>3, <4>1 DEF MadeHandle, SlotShape
                <4> QED
                    BY <4>2, Constants
            <3> QED
                BY <3>2, <3>3
        <2>2. Writes(MadeHandle(p), x)
            BY <1>1, <1>3, <2>1 DEF Writes
        <2>3. p \in Rewriters(x)
            BY <1>2, <2>2 DEF Rewriters
        <2> QED
            BY <2>3
    <1>4. CASE ~(h.trunc /\ type[h.node] = "file" /\ h.node = x)
        <2>1. data'[x] = data[x]
            BY <1>2, <1>4 DEF IInv, Types
        <2>2. Appended(data, data, x)
            <3>1. data[x] \in Seq(Byte)
                BY DEF IInv, Types
            <3>2. Len(data[x]) \in Nat /\ SubSeq(data[x], 1, Len(data[x])) = data[x]
                BY <3>1, PrefixIs
            <3> QED
                BY <3>2 DEF Appended
        <2> QED
            BY <2>1, <2>2 DEF Appended
    <1> QED
        BY <1>3, <1>4

LEMMA UseAppends ==
    ASSUME IInv, NEW p \in Proc, UseFile(p), NEW x \in Node, Rewriters(x) = {}
    PROVE  Appended(data, data', x)
    <1>1. CASE Kind(p) # "write"
        <2>1. data' = data
            BY <1>1 DEF UseFile
        <2> QED
            BY <2>1, NothingAppended
    <1>2. CASE Kind(p) = "write"
        <2>1. PICK h, y : h = Held(p) /\ y = h.node
            OBVIOUS
        <2>2. /\ h \in Handle /\ y \in Node /\ h.mode # "read"
              /\ WriteOffset(h) \in Nat /\ data[y] \in Seq(Byte) /\ op[p].req.slot \in Slot
            BY <1>2, <2>1, UseFileFacts
        <2>3. PICK new : new = Written(data[y], WriteOffset(h), p)
            OBVIOUS
        <2>4. data' = [data EXCEPT ![y] = new]
            BY <1>2, <2>1, <2>2, <2>3 DEF UseFile, IInv, Types
        <2>5. CASE x # y
            <3>1. data'[x] = data[x] /\ data[x] \in Seq(Byte)
                BY <2>4, <2>5 DEF IInv, Types
            <3>2. Len(data[x]) \in Nat /\ SubSeq(data[x], 1, Len(data[x])) = data[x]
                BY <3>1, PrefixIs
            <3> QED
                BY <3>1, <3>2 DEF Appended
        <2>6. CASE x = y
            <3>1. h.mode # "write" /\ ~h.trunc
                <4>1. ASSUME h.mode = "write" \/ h.trunc
                      PROVE  FALSE
                    <5>1. Writes(table[p][op[p].req.slot], x)
                        BY <2>1, <2>2, <2>6, <4>1, Constants DEF Writes, Held
                    <5>2. p \in Rewriters(x)
                        BY <2>2, <5>1 DEF Rewriters
                    <5> QED
                        BY <5>2
                <4> QED
                    BY <4>1
            <3>2. h.mode = "append"
                BY <2>2, <3>1 DEF Handle, Mode
            <3>3. PICK s : s = data[x]
                OBVIOUS
            <3>4. WriteOffset(h) = Len(s) /\ s \in Seq(Byte) /\ Len(s) \in Nat
                BY <2>1, <2>2, <2>6, <3>2, <3>3 DEF WriteOffset
            <3>5. new = Written(s, Len(s), p) /\ p \in Byte
                BY <2>3, <2>6, <3>3, <3>4 DEF Byte
            <3>6. /\ new \in Seq(Byte)
                  /\ Len(new) = IF Len(s) < Len(s) THEN Len(s) ELSE Len(s) + 1
                  /\ \A i \in 1 .. Len(new) :
                        new[i] = IF i = Len(s) + 1 THEN p ELSE IF i <= Len(s) THEN s[i] ELSE Gap
                <4>1. PICK k : k = Len(s)
                    OBVIOUS
                <4>2. new = Written(s, k, p) /\ s \in Seq(Byte) /\ k \in Nat /\ p \in Byte
                    BY <3>4, <3>5, <4>1
                <4>3. /\ new \in Seq(Byte)
                      /\ Len(new) = IF k < Len(s) THEN Len(s) ELSE k + 1
                      /\ \A i \in 1 .. Len(new) :
                            new[i] = IF i = k + 1 THEN p ELSE IF i <= Len(s) THEN s[i] ELSE Gap
                    <5>1. LET w == Written(s, k, p)
                          IN  /\ w \in Seq(Byte)
                              /\ Len(w) = IF k < Len(s) THEN Len(s) ELSE k + 1
                              /\ \A i \in 1 .. Len(w) :
                                    w[i] = IF i = k + 1 THEN p
                                           ELSE IF i <= Len(s) THEN s[i] ELSE Gap
                        BY <4>2, WrittenFacts, Zenon
                    <5> QED
                        BY <4>2, <5>1, Zenon
                <4> QED
                    BY <4>1, <4>3
            <3>7. /\ Len(new) = Len(s) + 1 /\ new[Len(s) + 1] = p
                  /\ \A i \in 1 .. Len(s) : new[i] = s[i]
                BY <3>4, <3>6
            <3>8. SubSeq(new, 1, Len(s)) = s
                BY <3>4, <3>6, <3>7, PrefixIs
            <3>9. \A i \in Len(s) + 1 .. Len(new) : new[i] # Gap
                BY <3>4, <3>7, Constants
            <3>10. data'[x] = new
                BY <2>2, <2>4, <2>6 DEF IInv, Types
            <3> QED
                BY <3>3, <3>4, <3>7, <3>8, <3>9, <3>10 DEF Appended
        <2> QED
            BY <2>5, <2>6
    <1> QED
        BY <1>1, <1>2

LEMMA OthersKeepData ==
    ASSUME [Next]_vars, \A p \in Proc : ~Open(p) /\ ~UseFile(p)
    PROVE  data' = data
    <1>1. CASE UNCHANGED vars
        BY <1>1 DEF vars, fileVars
    <1>2. ASSUME NEW p \in Proc, Syscall(p)
          PROVE  data' = data
        BY <1>2 DEF Syscall, TreeCall, Close, Use, Copy, CreatePipe, fileVars
    <1>3. ASSUME NEW p \in Proc, TreeStep(p)
          PROVE  data' = data
        BY <1>3 DEF TreeStep, Walk, Look, FindParent, FindLinked, FindOpened, FindCreated,
                    FindRenamed, Lock, Lock2, UseLink, UseUnlink, UseMove, UseMoved, Unlock2,
                    Unlock, fileVars
    <1>4. ASSUME NEW p \in Proc, Opened(p) \/ Add(p) \/ Evict(p) \/ Delete(p) \/ Deleted(p) \/ Ask(p)
          PROVE  data' = data
        BY <1>4 DEF Opened, Add, Evict, Delete, Deleted, Ask, fileVars
    <1>5. ASSUME NEW p \in Proc, Cancel(p) \/ Collect(p) \/ PlaceOutside(p) \/ Hang(p)
          PROVE  data' = data
        BY <1>5 DEF Cancel, Collect, PlaceOutside, Hang, fileVars
    <1>6. CASE SystemWaits
        BY <1>6 DEF SystemWaits, fileVars
    <1> QED
        BY <1>1, <1>2, <1>3, <1>4, <1>5, <1>6 DEF Next, Run

(* What is appended is kept: while nobody has the file open to write or    *)
(* truncates it, what the processes append to it at the same time never    *)
(* replaces anything, and leaves no gap.                                   *)
THEOREM AppendCorrect == Spec => AppendKeeps
    <1>1. IInv /\ [Next]_vars =>
              [\A x \in Node : Rewriters(x) = {} =>
                  /\ Len(data'[x]) >= Len(data[x])
                  /\ SubSeq(data'[x], 1, Len(data[x])) = data[x]
                  /\ \A i \in Len(data[x]) + 1 .. Len(data'[x]) : data'[x][i] # Gap]_vars
        <2> SUFFICES ASSUME IInv, [Next]_vars, NEW x \in Node, Rewriters(x) = {}
                     PROVE  Appended(data, data', x)
            BY DEF Appended
        <2>1. CASE \E p \in Proc : Open(p) \/ UseFile(p)
            BY <2>1, OpenAppends, UseAppends
        <2>2. CASE \A p \in Proc : ~Open(p) /\ ~UseFile(p)
            BY <2>2, OthersKeepData, NothingAppended
        <2> QED
            BY <2>1, <2>2
    <1> QED
        BY <1>1, Invariance, PTL DEF Spec, AppendKeeps
====
