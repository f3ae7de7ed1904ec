--------------------------- MODULE FilesystemProps ---------------------------
(***************************************************************************)
(* What the tree and the handles promise.                                  *)
(***************************************************************************)
EXTENDS HandleTable

(* A rename that has given the child its new name and not yet taken the    *)
(* old one, which both parents' locks hide from the others.                *)
Old(p)    == <<op[p].dir, BaseName(op[p].req.path)>>
Renaming  == {p \in Proc : pc[p] = "moved"}
OldNames  == {Old(p) : p \in Renaming}
NamesOf(x) == {k \in Node \X Name : entry[k[1]][k[2]] = x}

(* A directory has one name: whatever mkdir, rename and unlink the         *)
(* processes make, it is never in two directories, nor twice in one,       *)
(* except under a rename that owns them both.                              *)
DirectoryHasOneName ==
    \A x \in Node : type[x] = "dir" => Cardinality(NamesOf(x) \ OldNames) <= 1

(* The tree is changed one name at a time: no name is given twice, and a   *)
(* rename moves a name in one step, as far as whoever owns the parents can *)
(* see.                                                                    *)
Seen ==
    IF Renaming = {} THEN entry
    ELSE [d \in Node |-> [n \in Name |-> IF <<d, n>> \in OldNames THEN NoNode ELSE entry[d][n]]]

SeenTree == INSTANCE Namespace WITH entry <- Seen

NamespaceSpec == SeenTree!Spec
-----------------------------------------------------------------------------
(* The processes that have x open, or are opening it, otherwise than to    *)
(* append or read. *)
Writes(h, x) == h # NoHandle /\ h.node = x /\ (h.mode = "write" \/ h.trunc)
Rewriters(x) ==
    {p \in Proc : \/ \E i \in Slot : Writes(table[p][i], x)
                  \/ Writes(op[p].handle, x)
                  \/ pc[p] = "open" /\ Writes(MadeHandle(p), x)}

(* What is appended is kept: while nobody has the file open to write or    *)
(* truncates it, what the processes append to it at the same time never    *)
(* replaces anything, and leaves no gap.                                   *)
AppendKeeps ==
    [][\A x \in Node : Rewriters(x) = {} =>
          /\ Len(data'[x]) >= Len(data[x])
          /\ SubSeq(data'[x], 1, Len(data[x])) = data[x]
          /\ \A i \in Len(data[x]) + 1 .. Len(data'[x]) : data'[x][i] # Gap]_vars
-----------------------------------------------------------------------------
(* Two renames in opposite directions, each of which owns the parent that  *)
(* the other one waits for.                                                *)
Crossing(p) ==
    \E q \in alive \ {p} : /\ pc[p] = "lock2" /\ owner[op[p].dir] = q
                         /\ pc[q] = "lock2" /\ owner[op[q].dir] = p

(* The processes that will not go on: those that are canceled, that spin   *)
(* on a handle whose lock was left taken, that are in crossing renames,    *)
(* and all that wait for one of them.                                      *)
Lost    == {p \in Proc : p \notin alive \/ pc[p] = "stuck" \/ Crossing(p)}
Doomed  == UNION {s \in SUBSET Proc :
                    \A p \in s : p \in Lost
                                 \/ (WaitsFor(p) # NoNode /\ owner[WaitsFor(p)] \in s \ {p})}

(* A call returns, unless the kernel is stopped or the process is lost or  *)
(* waits for one that is: there is no other way to wait for ever, however  *)
(* the processes rename, look up, open, copy and close.                    *)
CallReturns ==
    \A p \in Proc :
        pc[p] # "idle" ~> (pc[p] = "idle" \/ p \in Doomed \/ machine # "up")
=============================================================================
