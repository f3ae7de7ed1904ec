---------------------------- MODULE MCFilesystem ----------------------------
(***************************************************************************)
(* Instances of the tree: a root with two directories m and n, one of them *)
(* with a directory z.                                                     *)
(***************************************************************************)
EXTENDS FilesystemProps

CONSTANTS a, b, m, n, z

Empty == [k \in Name |-> NoNode]
OneTree  == [d \in Node |-> CASE d = 0 -> [Empty EXCEPT ![m] = 1, ![n] = 2]
                              [] d = 1 -> [Empty EXCEPT ![z] = 3]
                              [] OTHER -> Empty]
OneKinds == [d \in Node |-> IF d \in 0 .. 3 THEN "dir" ELSE "none"]

Basic == [kind |-> "open", path |-> <<z>>, to |-> <<z>>, mode |-> "read",
          flags |-> {}, slot |-> 1, into |-> 1]
OnPath(k, path)     == [Basic EXCEPT !.kind = k, !.path = path]
Onto(k, path, to)   == [Basic EXCEPT !.kind = k, !.path = path, !.to = to]
OnSlot(k, i)        == [Basic EXCEPT !.kind = k, !.slot = i]
Opening(path, mode, flags) == [Basic EXCEPT !.path = path, !.mode = mode, !.flags = flags]

(* A directory renamed in both directions, and removed. *)
Renames == [p \in Proc |->
    IF p = a THEN {Onto("rename", <<m, z>>, <<n, z>>)}
    ELSE {Onto("rename", <<n, z>>, <<m, z>>), Onto("rename", <<m, z>>, <<m, n>>),
          OnPath("unlink", <<n, z>>)}]

(* A file made by both at once, appended to by both. *)
Appends == [p \in Proc |->
    {Opening(<<n, z>>, "append", {"create"}), OnSlot("write", 1)}
        \cup IF p = a THEN {OnPath("unlink", <<n, z>>)} ELSE {}]

(* Names for a file, a pipe and a directory, in the same places. *)
Links == [p \in Proc |->
    IF p = a THEN {Opening(<<n, z>>, "write", {"create", "trunc"}),
                   Onto("rename", <<n, z>>, <<n, m>>)}
    ELSE {Onto("link", <<n, z>>, <<m, n>>), OnPath("mkpipe", <<m, n>>), OnPath("mkdir", <<n, m>>)}]

(* Handles copied, reopened, moved and closed, until the table is full. *)
Copies == [p \in Proc |->
    IF p = b THEN {Opening(<<n, z>>, "write", {"create"}), [OnSlot("copy", 1) EXCEPT !.into = 2],
                   OnSlot("close", 1), OnSlot("write", 2), OnSlot("pipe", 1)}
    ELSE {Opening(<<n, z>>, "read", {}), OnSlot("reopen", 1)}]

(* A file read and written at an offset. *)
Offsets == [p \in Proc |->
    IF p = b THEN {Opening(<<n, z>>, "write", {"create"}), OnSlot("write", 1),
                   [OnSlot("seek", 1) EXCEPT !.into = 1]}
    ELSE {Opening(<<n, z>>, "read", {}), OnSlot("read", 1),
          [OnSlot("seek", 1) EXCEPT !.flags = {"end"}]}]

(* A directory opened and closed while another process changes it. *)
Listings == [p \in Proc |->
    IF p = a THEN {Opening(<<m>>, "read", {}), OnSlot("close", 1)}
    ELSE {OnPath("mkdir", <<m, n>>), OnPath("unlink", <<m, z>>),
          [OnSlot("copy", 1) EXCEPT !.into = 9], Opening(<<m>>, "read", {})}]

AllPrograms  == {Renames, Appends, Links, Copies, Offsets, Listings}
LivePrograms == {Renames, Copies, Listings}
=============================================================================
