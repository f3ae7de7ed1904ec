----------------------------- MODULE Filesystem -----------------------------
(***************************************************************************)
(* The tree of nodes: kernel/filesystem/Filesystem.cpp and node/           *)
(* Directory.cpp.  A path is looked up one directory at a time, each under *)
(* its own lock, which is given back before the next is taken; then the    *)
(* parent is locked and changed.  A rename owns two locks.  A process may  *)
(* be preempted or canceled between any two steps, unless it runs with the *)
(* interrupts disabled: as module Pipe says, a call that has allocated     *)
(* does while System waits for init, and the calls on the tree allocate    *)
(* the path before they look it up.  The locks are taken and given back in *)
(* one step, as module Lock shows that they may be.                        *)
(* Module HandleTable has the calls on handles, and the next-state         *)
(* relation of both.                                                       *)
(***************************************************************************)
EXTENDS Integers, Sequences, FiniteSets

CONSTANTS
    Proc,       \* the processes
    Nobody,     \* nobody, the owner of a free lock
    Node,       \* bound: the nodes there may be
    Root,       \* _filesystem_root
    NoNode,     \* nullptr
    NoHandle,   \* nullptr
    Name,       \* the names of entries
    Tree,       \* Tree[d][n]: the entries at the start
    Kinds,      \* Kinds[x]: the type of the nodes at the start
    Programs,   \* bound: the calls each process may make, in several ways
    Mortal      \* the processes that may be canceled

Path == UNION {[1 .. i -> Name] : i \in 1 .. 2}     \* bound: two components
DirPath(path)  == SubSeq(path, 1, Len(path) - 1)
BaseName(path) == path[Len(path)]

NodeType == {"none", "dir", "file", "pipe"}
Mode == {"read", "write", "append"}

(* A call as a process makes it. *)
Request == [kind : {"open", "mkdir", "mkpipe", "link", "unlink", "rename",
                    "read", "write", "seek", "close", "reopen", "copy", "pipe"},
            path : Path, to : Path,                 \* the old and the new path
            mode : Mode, flags : SUBSET {"create", "trunc", "end"},
            slot : Nat, into : Nat]                 \* handle indices, or an offset

ASSUME FilesystemAssumption ==
    /\ Nobody \notin Proc /\ Mortal \subseteq Proc
    /\ Root \in Node /\ Node \subseteq Nat /\ IsFiniteSet(Node) /\ NoNode \notin Node
    /\ Tree \in [Node -> [Name -> Node \cup {NoNode}]]
    /\ Kinds \in [Node -> NodeType] /\ Kinds[Root] = "dir"
    /\ \A d \in Node, n \in Name : Tree[d][n] # NoNode => Kinds[Tree[d][n]] # "none"
    /\ \A d, e \in Node : \A m, n \in Name :
           Tree[d][m] # NoNode /\ Kinds[Tree[d][m]] = "dir" /\ Tree[e][n] = Tree[d][m] =>
               d = e /\ m = n
    /\ Programs \subseteq [Proc -> SUBSET Request]

VARIABLES
    type,       \* _type of the nodes
    entry,      \* entry[d][n]: the child of directory d whose name is n
    data,       \* the content of the files
    owner,      \* who holds the lock of each node
    table,      \* handles of each process
    left,       \* the handles whose lock was taken and never given back
    program,    \* the calls that each process makes
    pc,         \* where each process is
    op,         \* the call it makes
    alive,      \* the processes that were not canceled
    kept,       \* the depth of interrupts_retain stays above zero
    masked,     \* the process that runs with the interrupts disabled
    machine     \* "up", "hung": the kernel spins on a lock with the
                \* interrupts disabled, "corrupt": a handle was deleted twice
                \* or stored outside of the table

treeVars == <<type, entry>>
fileVars == <<data, table, left>>
procVars == <<alive, machine>>
vars == <<treeVars, fileVars, owner, program, pc, op, kept, masked, procVars>>

(* "walk": the lookup is about to lock a directory.  "look": owns it.      *)
(* "lock", "lock2": spins on the parent, on the old parent of a rename.    *)
(* "in": owns them.  "moved": a rename has linked and not yet unlinked.    *)
(* "unlock2", "unlock": gives them back.  The others are in HandleTable.   *)
Location == {"idle", "walk", "look", "lock", "lock2", "in", "moved", "unlock2", "unlock",
             "open", "opened", "add", "evict", "delete", "deleted", "ask", "use", "stuck"}

At(p, l)   == machine = "up" /\ p \in alive /\ masked \in {Nobody, p} /\ pc[p] = l
Goto(p, l) == pc' = [pc EXCEPT ![p] = l]
Kind(p)    == op[p].req.kind
Free(x)    == owner[x] = Nobody
Take(p, x) == Free(x) /\ owner' = [owner EXCEPT ![x] = p]
Give(x)    == owner' = [owner EXCEPT ![x] = Nobody]

(* make<...>(): an unused node. *)
Fresh == CHOOSE x \in Node : type[x] = "none" /\ \A y \in Node : type[y] = "none" => x <= y
-----------------------------------------------------------------------------
(* filesystem_find: the lookup of goal starts at the root. *)
Find(p, o, goal) ==
    /\ op' = [op EXCEPT ![p] = [o EXCEPT !.goal = goal, !.at = 0, !.cur = Root]]
    /\ Goto(p, "walk")

MoreToFind(p) ==
    /\ op[p].at < Len(op[p].goal)
    /\ op[p].cur # NoNode /\ type[op[p].cur] = "dir"

Walk(p) ==
    /\ At(p, "walk") /\ MoreToFind(p)
    /\ Take(p, op[p].cur)
    /\ Goto(p, "look")
    /\ UNCHANGED <<treeVars, fileVars, op, procVars>>

(* FsDirectory::find, and the release. *)
Look(p) ==
    /\ At(p, "look")
    /\ op' = [op EXCEPT ![p].cur = entry[op[p].cur][op[p].goal[op[p].at + 1]],
                        ![p].at  = @ + 1]
    /\ Give(op[p].cur)
    /\ Goto(p, "walk")
    /\ UNCHANGED <<treeVars, fileVars, procVars>>

(* The lookup has ended; what it returns. *)
Arrived(p) == At(p, "walk") /\ ~MoreToFind(p)
Found(p)   == IF op[p].at = Len(op[p].goal) THEN op[p].cur ELSE NoNode
-----------------------------------------------------------------------------
NewOp(r) == [req |-> r, goal |-> <<>>, at |-> 0, cur |-> NoNode, step |-> 1,
             child |-> NoNode, dir |-> NoNode, handle |-> NoHandle]

NoRequest == [kind |-> "none"]

(* The call returns. *)
Finish(p) == Goto(p, "idle") /\ op' = [op EXCEPT ![p] = NewOp(NoRequest)]

(* Bound: a call that makes a node is made only while one is left for it. *)
MakesNode(r) == r.kind \in {"mkdir", "mkpipe", "pipe"} \/ (r.kind = "open" /\ "create" \in r.flags)
Unmade       == {x \in Node : type[x] = "none"}
NodeLeft(r)  ==
    MakesNode(r) => Cardinality(Unmade) > Cardinality({p \in Proc : op[p].req.kind = "open"})

(* filesystem_open, mkdir, mkpipe, mklink, unlink and rename are called.   *)
(* mkdir and mkpipe make their node first.                                 *)
Making(r) == r.kind \in {"mkdir", "mkpipe"}

TreeCall(p, r) ==
    /\ At(p, "idle")
    /\ r.kind \in {"open", "mkdir", "mkpipe", "link", "unlink", "rename"}
    /\ NodeLeft(r)
    /\ Find(p, [NewOp(r) EXCEPT !.child = IF Making(r) THEN Fresh ELSE NoNode],
            IF r.kind \in {"open", "link"} THEN r.path ELSE DirPath(r.path))
    /\ type' = IF Making(r)
               THEN [type EXCEPT ![Fresh] = IF r.kind = "mkdir" THEN "dir" ELSE "pipe"]
               ELSE type
    /\ UNCHANGED <<entry, fileVars, owner, procVars>>

Refused(x) == x = NoNode \/ type[x] # "dir"

(* The parent of what a mkdir, a mkpipe, an unlink or a mklink changes. *)
FindParent(p) ==
    /\ Arrived(p)
    /\ Kind(p) \in {"mkdir", "mkpipe", "unlink"} \/ (Kind(p) = "link" /\ op[p].step = 2)
    /\ IF Refused(Found(p)) THEN Finish(p)
       ELSE Goto(p, "lock") /\ UNCHANGED op
    /\ UNCHANGED <<treeVars, fileVars, owner, procVars>>

(* The node that a mklink gives another name. *)
FindLinked(p) ==
    /\ Arrived(p) /\ Kind(p) = "link" /\ op[p].step = 1
    /\ IF Found(p) = NoNode \/ type[Found(p)] = "dir" THEN Finish(p)
       ELSE Find(p, [op[p] EXCEPT !.child = Found(p), !.step = 2], DirPath(op[p].req.to))
    /\ UNCHANGED <<treeVars, fileVars, owner, procVars>>

(* The node that an open opens... *)
FindOpened(p) ==
    /\ Arrived(p) /\ Kind(p) = "open" /\ op[p].step = 1
    /\ CASE Found(p) # NoNode ->
              /\ op' = [op EXCEPT ![p].child = Found(p)]
              /\ Goto(p, "open")
         [] Found(p) = NoNode /\ "create" \in op[p].req.flags ->
              Find(p, [op[p] EXCEPT !.step = 2], DirPath(op[p].req.path))
         [] OTHER -> Finish(p)
    /\ UNCHANGED <<treeVars, fileVars, owner, procVars>>

(* ... or the parent of the one that it creates, directory or not. *)
FindCreated(p) ==
    /\ Arrived(p) /\ Kind(p) = "open" /\ op[p].step = 2
    /\ IF Found(p) = NoNode THEN Finish(p) /\ UNCHANGED type
       ELSE /\ type' = [type EXCEPT ![Fresh] = "file"]
            /\ op' = [op EXCEPT ![p].child = Fresh]
            /\ Goto(p, "lock")
    /\ UNCHANGED <<entry, fileVars, owner, procVars>>

(* The two parents of a rename: the new one is locked first, then the old  *)
(* one, if it is another.                                                  *)
FindRenamed(p) ==
    /\ Arrived(p) /\ Kind(p) = "rename"
    /\ CASE op[p].step = 1 ->
              Find(p, [op[p] EXCEPT !.dir = Found(p), !.step = 2], DirPath(op[p].req.to))
         [] op[p].step = 2 /\ (Refused(Found(p)) \/ Refused(op[p].dir)) -> Finish(p)
         [] OTHER -> Goto(p, "lock") /\ UNCHANGED op
    /\ UNCHANGED <<treeVars, fileVars, owner, procVars>>
-----------------------------------------------------------------------------
OneParent(p)  == FALSE   \* mutant: the old parent is not locked
TwoParentsAlways(p) == Kind(p) = "rename"   \* mutant: even if they are the same
TwoParents(p) == Kind(p) = "rename" /\ op[p].dir # op[p].cur

Lock(p) ==
    /\ At(p, "lock")
    /\ Take(p, op[p].cur)
    /\ Goto(p, IF TwoParents(p) THEN "lock2" ELSE "in")
    /\ UNCHANGED <<treeVars, fileVars, op, procVars>>

Lock2(p) ==
    /\ At(p, "lock2")
    /\ Take(p, op[p].dir)
    /\ Goto(p, "in")
    /\ UNCHANGED <<treeVars, fileVars, op, procVars>>

(* FsDirectory::link, or FsNode::link of what is not a directory. *)
CanLinkOver(d, n) == type[d] = "dir"   \* mutant: the name may be taken
CanLink(d, n) == type[d] = "dir" /\ entry[d][n] = NoNode

NewName(p) == BaseName(IF Kind(p) \in {"link", "rename"} THEN op[p].req.to ELSE op[p].req.path)

(* An open ignores the result. *)
UseLink(p) ==
    /\ At(p, "in") /\ Kind(p) \in {"open", "mkdir", "mkpipe", "link"}
    /\ entry' = IF CanLink(op[p].cur, NewName(p))
                THEN [entry EXCEPT ![op[p].cur][NewName(p)] = op[p].child]
                ELSE entry
    /\ Goto(p, "unlock")
    /\ UNCHANGED <<type, fileVars, owner, op, procVars>>

UseUnlink(p) ==
    /\ At(p, "in") /\ Kind(p) = "unlink"
    /\ entry' = [entry EXCEPT ![op[p].cur][BaseName(op[p].req.path)] = NoNode]
    /\ Goto(p, "unlock")
    /\ UNCHANGED <<type, fileVars, owner, op, procVars>>

(* filesystem_rename: links the child ... *)
UseMove(p) ==
    LET old == entry[op[p].dir][BaseName(op[p].req.path)]
        next == IF TwoParents(p) THEN "unlock2" ELSE "unlock"
    IN  /\ At(p, "in") /\ Kind(p) = "rename"
        /\ IF old # NoNode /\ CanLink(op[p].cur, NewName(p))
           THEN /\ entry' = [entry EXCEPT ![op[p].cur][NewName(p)] = old]
                /\ Goto(p, "moved")
           ELSE Goto(p, next) /\ UNCHANGED entry
        /\ UNCHANGED <<type, fileVars, owner, op, procVars>>

(* ... and unlinks it. *)
UseMoved(p) ==
    /\ At(p, "moved")
    /\ entry' = [entry EXCEPT ![op[p].dir][BaseName(op[p].req.path)] = NoNode]
    /\ Goto(p, IF TwoParents(p) THEN "unlock2" ELSE "unlock")
    /\ UNCHANGED <<type, fileVars, owner, op, procVars>>

Unlock2(p) ==
    /\ At(p, "unlock2")
    /\ Give(op[p].dir)
    /\ Goto(p, "unlock")
    /\ UNCHANGED <<treeVars, fileVars, op, procVars>>

Unlock(p) ==
    /\ At(p, "unlock")
    /\ Give(op[p].cur)
    /\ IF Kind(p) = "open" THEN Goto(p, "open") /\ UNCHANGED op ELSE Finish(p)
    /\ UNCHANGED <<treeVars, fileVars, procVars>>

TreeStep(p) ==
    \/ Walk(p) \/ Look(p)
    \/ FindParent(p) \/ FindLinked(p) \/ FindOpened(p) \/ FindCreated(p) \/ FindRenamed(p)
    \/ Lock(p) \/ Lock2(p)
    \/ UseLink(p) \/ UseUnlink(p) \/ UseMove(p) \/ UseMoved(p)
    \/ Unlock2(p) \/ Unlock(p)
=============================================================================
