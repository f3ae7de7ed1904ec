------------------------------ MODULE MCMemory -------------------------------
(***************************************************************************)
(* Instances of the memory manager: two processes, and one that is cloned. *)
(***************************************************************************)
EXTENDS MemoryProps

CONSTANTS a, b, c

MemoryCalls == [p \in Proc |->
    CASE p = a -> {"alloc", "include"}
      [] p = b -> {"map", "free", "clone"}
      [] OTHER -> {}]
=============================================================================
