------------------------------ MODULE TaskList ------------------------------
(***************************************************************************)
(* The doubly linked list of libsystem (libsystem/utils/List.cpp) as the   *)
(* scheduler uses it.  A list is represented by the set of its items and   *)
(* by its order: <<a, b>> \in l.before means that a is nearer to the head  *)
(* than b.  The representation needs no recursion, so that what the        *)
(* operations preserve can be proved for every list.  An item pushed twice *)
(* would be before itself: IsTaskList is false of such a list.             *)
(***************************************************************************)

(* list_create *)
EmptyList == [items |-> {}, before |-> {}]

(* list_push: the value becomes the head. *)
ListPush(l, x) ==
    [items  |-> l.items \cup {x},
     before |-> l.before \cup ({x} \X l.items)]

(* list_pushback: the value becomes the tail. *)
ListPushback(l, x) ==
    [items  |-> l.items \cup {x},
     before |-> l.before \cup (l.items \X {x})]

(* list_remove, of every value of X at once; values not in l are ignored.  *)
ListRemoveAll(l, X) ==
    [items  |-> l.items \ X,
     before |-> {p \in l.before : p[1] \notin X /\ p[2] \notin X}]

ListRemove(l, x) == ListRemoveAll(l, {x})

(* Mutant: list_peekback. *)
ListTails(l) == {h \in l.items : \A x \in l.items \ {h} : <<x, h>> \in l.before}

(* list_peek: the head of l, none if l is empty. *)
ListHeads(l) == {h \in l.items : \A x \in l.items \ {h} : <<h, x>> \in l.before}

(* Mutant: list_peek, the head is not moved to the tail. *)
ListRotateNot(l, h) == l

(* list_peek_and_pushback, once the head h is known. *)
ListRotate(l, h) == ListPushback(ListRemove(l, h), h)

(* The items X of the list from, visited from its head to its tail by      *)
(* list_iterate, each pushed on l when it is visited.                      *)
ListPushEach(l, from, X) ==
    [items  |-> l.items \cup X,
     before |-> l.before \cup (X \X l.items)
                \cup {p \in X \X X : <<p[2], p[1]>> \in from.before}]

-----------------------------------------------------------------------------
(* The lists whose values are in S. *)
ListOver(S) == [items : SUBSET S, before : SUBSET (S \X S)]

(* A well-formed list: every item once, in one total order. *)
IsTaskList(l) ==
    /\ l.before \subseteq l.items \X l.items
    /\ \A x \in l.items : <<x, x>> \notin l.before
    /\ \A x, y \in l.items : x # y => (<<x, y>> \in l.before <=> <<y, x>> \notin l.before)
    /\ \A x, y, z \in l.items :
           <<x, y>> \in l.before /\ <<y, z>> \in l.before => <<x, z>> \in l.before
=============================================================================
