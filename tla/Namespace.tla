------------------------------ MODULE Namespace ------------------------------
(***************************************************************************)
(* What the tree of nodes promises: a name is made, removed or moved in    *)
(* one step; a name is not given twice; a directory has one name at most.  *)
(***************************************************************************)
CONSTANTS Node, Name, NoNode

VARIABLES type, entry

Dirs       == {x \in Node : type[x] = "dir"}
Entries(d) == {n \in Name : entry[d][n] # NoNode}
Names(x)   == {k \in Node \X Name : entry[k[1]][k[2]] = x}

Make(x, t) ==
    /\ type[x] = "none"
    /\ type' = [type EXCEPT ![x] = t]
    /\ UNCHANGED entry

Link(d, n, x) ==
    /\ type[x] # "none" /\ (x \in Dirs => Names(x) = {})
    /\ entry' = [entry EXCEPT ![d][n] = x]
    /\ UNCHANGED type

Unlink(d, n) ==
    /\ entry' = [entry EXCEPT ![d][n] = NoNode]
    /\ UNCHANGED type

Move(d, n, e, m) ==
    /\ entry' = [entry EXCEPT ![d][n] = NoNode, ![e][m] = entry[d][n]]
    /\ UNCHANGED type

(* Names are given in directories, and only those that are not taken.      *)
Next ==
    \/ \E x \in Node, t \in {"dir", "file", "pipe"} : Make(x, t)
    \/ \E d \in Dirs : \E n \in Name \ Entries(d), x \in Node : Link(d, n, x)
    \/ \E d \in Dirs : \E n \in Entries(d) : Unlink(d, n)
    \/ \E d, e \in Dirs : \E n \in Entries(d), m \in Name \ Entries(e) : Move(d, n, e, m)

(* Any tree may be there at first, of nodes that are made.                 *)
Start ==
    /\ type \in [Node -> {"none", "dir", "file", "pipe"}]
    /\ entry \in [Node -> [Name -> Node \cup {NoNode}]]
    /\ \A x \in Node : type[x] = "none" => Names(x) = {}
    /\ \A x \in Node : type[x] = "dir" => \A a, b \in Names(x) : a = b

Spec == Start /\ [][Next]_<<type, entry>>
=============================================================================
