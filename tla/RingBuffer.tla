----------------------------- MODULE RingBuffer -----------------------------
(***************************************************************************)
(* The ring buffer of libutils (libutils/RingBuffer.h), as a record with   *)
(* the fields of the class.                                                *)
(***************************************************************************)
EXTENDS Integers, Sequences

CONSTANT Size       \* _size

ASSUME SizeAssumption == Size \in Nat \ {0}

Slot == 0 .. Size - 1

(* A new buffer; what its slots hold at first is never read. *)
NewRing(blank) == [buffer |-> [i \in Slot |-> blank], head |-> 0, tail |-> 0, used |-> 0]

RingOver(B) == [buffer : [Slot -> B], head : Slot, tail : Slot, used : 0 .. Size]

Empty(r) == r.used = 0
Full(r)  == r.used = Size

Lesser(m, n) == IF m < n THEN m ELSE n

(* write: how many of n values are put, and the buffer after k values      *)
(* v[1] .. v[k] were put.                                                  *)
WriteCountUnbounded(r, n) == n   \* mutant: full() is not asked
WriteCount(r, n) == Lesser(n, Size - r.used)

PutAll(r, v, k) ==
    [r EXCEPT !.buffer = [i \in Slot |->
                             LET j == (i - r.head) % Size
                             IN  IF j < k THEN v[j + 1] ELSE r.buffer[i]],
              !.head = (@ + k) % Size,
              !.used = @ + k]

(* read: how many values a read of n gets, which, and the buffer after it. *)
ReadCount(r, n) == Lesser(n, r.used)

Gotten(r, k) == [i \in 1 .. k |-> r.buffer[(r.tail + i - 1) % Size]]

GetAll(r, k) == [r EXCEPT !.tail = (@ + k) % Size, !.used = @ - k]

(* What is in the buffer, the oldest value first. *)
Contents(r) == Gotten(r, r.used)
=============================================================================
