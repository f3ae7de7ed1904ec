--------------------------- MODULE SocketProofs -----------------------------
(***************************************************************************)
(* The invariants of a socket and its connections, and that each           *)
(* connection is a session, proved for any number of processes,            *)
(* connections and messages and any size of the buffers.                   *)
(***************************************************************************)
EXTENDS SocketProps, FiniteSetTheorems, SequenceTheorems, TLAPS

(* Every variable has its type, and the buffers do not overflow. *)
Types ==
    /\ pending \in Seq(Conn)
    /\ made \subseteq Conn
    /\ accepted \in [Conn -> BOOLEAN]
    /\ count \in [Conn -> [Side -> Nat]]
    /\ data \in [Conn -> [Side -> Seq(Nat)]]
    /\ \A c \in Conn, s \in Side : Len(data[c][s]) <= Size
    /\ sent \in [Conn -> [Side -> Nat]]
    /\ owner \in [Node -> Proc \cup {Nobody}]
    /\ table \in [Proc -> SUBSET Handle]
    /\ pc \in [Proc -> Location]
    /\ op \in [Proc -> Op]
    /\ alive \subseteq Proc
    /\ hung \in BOOLEAN

(* What the call o of a process at location l is about. *)
Shaped(l, o) ==
    /\ l = "idle" <=> o.kind = "none"
    /\ o.kind = "none" => o = NoOp
    /\ o.kind \in {"read", "write"} =>
           l \in {"ask", "in", "done"} /\ o.handle \in Ends /\ o.node = o.handle.node
    /\ o.kind \in {"close", "drop"} => l \in {"spin", "done", "deref"} /\ o.node = o.handle.node
    /\ o.kind = "drop" => o.handle \in Ends
    /\ o.kind = "accept" =>
           /\ o.handle.side = "server"
           /\ \/ l \in {"ask", "in"} /\ o.handle = Listener /\ o.node = Sock
              \/ l \in {"ref", "add", "done"} /\ o.handle \in Ends /\ o.node = Sock
              \/ l \in {"spin", "done"} /\ o.handle \in Ends /\ o.node = o.handle.node
    /\ o.kind = "connect" =>
           \/ l \in {"spin", "in"} /\ o.handle = Listener /\ o.node = Sock
           \/ l \in {"done", "ref"} /\ o.handle \in Ends /\ o.node = Sock
           \/ l \in {"spin", "done", "wait", "add"} /\ o.handle \in Ends /\ o.node = o.handle.node

CallShape == \A p \in Proc : Shaped(pc[p], op[p])

(* The locks p has taken and not given back: an accept keeps that of the   *)
(* socket while it opens the server's handle under that of the connection. *)
Holds(p, n) ==
    \/ pc[p] \in {"in", "done"} /\ op[p].node = n
    \/ op[p].kind = "accept" /\ pc[p] \in {"ref", "spin", "done"} /\ n = Sock

OwnerHolds == \A p \in Proc, n \in Node : owner[n] = p <=> Holds(p, n)

(* Nobody takes a connection from an accept that was let in for one. *)
AcceptHasOne == \A p \in Proc : pc[p] = "in" /\ op[p].kind = "accept" => pending # <<>>

(* A handle that p makes and has not stored or dropped yet. *)
Making(p, h) == op[p].handle = h /\ op[p].kind \in {"connect", "accept", "drop"}

(* Nobody else has, or makes, a handle that p has or makes. *)
HandleOnce ==
    \A h \in Ends, p \in Proc :
        /\ h \in table[p] \/ Making(p, h) =>
               \A q \in Proc : h \in table[q] \/ Making(q, h) => q = p
        /\ Making(p, h) => h \notin table[p]

(* A connection has handles only once it was made, and handles of its      *)
(* server only once it was accepted.                                       *)
Known ==
    /\ \A c \in Conn : accepted[c] => c \in made
    /\ \A h \in Ends, p \in Proc :
           h \in table[p] \/ op[p].handle = h =>
               h.node \in made /\ (h.side = "server" => accepted[h.node])

Closing == \A p \in Proc : op[p].kind = "close" => op[p].handle \in table[p]

Holders(h) == {p \in Proc : h \in table[p]}
Loosers(h) == {p \in Proc : Loose(p, h)}

FinitelyMany == \A h \in Ends : IsFiniteSet(Holders(h)) /\ IsFiniteSet(Loosers(h))

IInv ==
    /\ Types
    /\ PendingIsUnaccepted
    /\ CountsMatchHandles
    /\ CallShape
    /\ OwnerHolds
    /\ AcceptHasOne
    /\ HandleOnce
    /\ Known
    /\ Closing
    /\ FinitelyMany
-----------------------------------------------------------------------------
LEMMA HandleFacts ==
    /\ Listener.node = Sock /\ Listener.side = "server" /\ Listener \notin Ends
    /\ \A h \in Ends : h.node \in Conn /\ h.side \in Side /\ h.node # Sock /\ h # Listener
    /\ \A h \in Handle : h.node \in Node
    /\ \A h \in Handle : h \in Ends \/ h = Listener
    /\ \A c \in Conn, s \in Side : [node |-> c, side |-> s] \in Ends
    /\ Sock \in Node /\ Sock \notin Conn /\ Conn \subseteq Node
    /\ "client" \in Side /\ "server" \in Side /\ \A s \in Side : Peer(s) \in Side
    /\ \A k \in Kind, h \in Handle :
           /\ NewOp(k, h) \in Op
           /\ NewOp(k, h).kind = k /\ NewOp(k, h).handle = h /\ NewOp(k, h).node = h.node
    /\ NoOp \in Op /\ NoOp.kind = "none" /\ NoOp.handle = Listener /\ NoOp.node = Sock
    <1>1. /\ Listener.node = Sock /\ Listener.side = "server"
          /\ Sock \in Node /\ Sock \notin Conn /\ Conn \subseteq Node
        BY SocketAssumption DEF Listener, Sock, Node
    <1>2. \A h \in Ends : h.node \in Conn /\ h.side \in Side /\ h.node # Sock /\ h # Listener
        BY <1>1 DEF Ends
    <1>3. \A h \in Handle : h \in Ends \/ h = Listener
        BY DEF Handle
    <1>4. \A h \in Handle : h.node \in Node
        BY <1>1, <1>2, <1>3
    <1>5. \A c \in Conn, s \in Side : [node |-> c, side |-> s] \in Ends
        BY DEF Ends
    <1>6. "client" \in Side /\ "server" \in Side /\ \A s \in Side : Peer(s) \in Side
        BY DEF Side, Peer
    <1>7. ASSUME NEW k \in Kind, NEW h \in Handle
          PROVE  /\ NewOp(k, h) \in Op
                 /\ NewOp(k, h).kind = k /\ NewOp(k, h).handle = h /\ NewOp(k, h).node = h.node
        BY <1>4 DEF NewOp, Op
    <1>8. "none" \in Kind /\ Listener \in Handle
        BY DEF Kind, Handle
    <1>9. NoOp \in Op /\ NoOp.kind = "none" /\ NoOp.handle = Listener /\ NoOp.node = Sock
        BY <1>1, <1>7, <1>8 DEF NoOp
    <1> QED
        BY <1>1, <1>2, <1>3, <1>4, <1>5, <1>6, <1>7, <1>9

LEMMA Shapes ==
    ASSUME IInv, NEW p \in Proc
    PROVE  /\ op[p] \in Op /\ pc[p] \in Location /\ Shaped(pc[p], op[p])
           /\ op[p].handle \in Handle /\ op[p].node \in Node /\ op[p].kind \in Kind
           /\ op[p].put \in BOOLEAN /\ op[p].closed \in BOOLEAN
           /\ op' = op => op' = [op EXCEPT ![p] = op[p]]
           /\ pc' = pc => pc' = [pc EXCEPT ![p] = pc[p]]
           /\ table[p] \subseteq Handle
    <1>1. op \in [Proc -> Op] /\ pc \in [Proc -> Location] /\ Shaped(pc[p], op[p])
          /\ table \in [Proc -> SUBSET Handle]
        BY DEF IInv, Types, CallShape
    <1>2. op[p] \in Op
        BY <1>1
    <1> QED
        BY <1>1, <1>2 DEF Op

(* p takes locks that are free and gives back locks that it has. *)
LEMMA OwnerStep ==
    ASSUME IInv, NEW p \in Proc,
           \A q \in Proc : q # p => pc'[q] = pc[q] /\ op'[q] = op[q],
           \A n \in Node : owner'[n] # owner[n] =>
               owner[n] \in {p, Nobody} /\ owner'[n] \in {p, Nobody},
           \A n \in Node : owner'[n] = p <=> Holds(p, n)'
    PROVE  OwnerHolds'
    <1>1. \A q \in Proc, n \in Node : owner[n] = q <=> Holds(q, n)
        BY DEF IInv, OwnerHolds
    <1>2. ASSUME NEW q \in Proc, NEW n \in Node
          PROVE  owner'[n] = q <=> Holds(q, n)'
        <2>1. CASE q = p
            BY <2>1
        <2>2. CASE q # p
            <3>1. Holds(q, n)' <=> Holds(q, n)
                BY <2>2 DEF Holds
            <3>2. q # Nobody
                BY SocketAssumption
            <3>3. owner'[n] = q <=> owner[n] = q
                BY <2>2, <3>2
            <3> QED
                BY <1>1, <3>1, <3>3
        <2> QED
            BY <2>1, <2>2
    <1> QED
        BY <1>2 DEF OwnerHolds

LEMMA CountStep ==
    ASSUME IInv, count' \in [Conn -> [Side -> Int]],
           \A h \in Ends :
               /\ IsFiniteSet(Holders(h)') /\ IsFiniteSet(Loosers(h)')
               /\ count'[h.node][h.side] - count[h.node][h.side] =
                      Cardinality(Holders(h)') - Cardinality(Holders(h))
                      + (Cardinality(Loosers(h)') - Cardinality(Loosers(h)))
    PROVE  CountsMatchHandles' /\ FinitelyMany' /\ count' \in [Conn -> [Side -> Nat]]
    <1>1. \A h \in Ends : /\ Cardinality(Holders(h)) \in Nat /\ Cardinality(Loosers(h)) \in Nat
                          /\ Cardinality(Holders(h)') \in Nat /\ Cardinality(Loosers(h)') \in Nat
        BY FS_CardinalityType DEF IInv, FinitelyMany
    <1>2. \A c \in Conn, s \in Side : count[c][s] \in Nat /\ count'[c][s] \in Int
        BY DEF IInv, Types
    <1>3. \A h \in Ends :
              count[h.node][h.side] = Cardinality(Holders(h)) + Cardinality(Loosers(h))
        BY DEF IInv, CountsMatchHandles, Holders, Loosers
    <1>4. \A h \in Ends :
              count'[h.node][h.side] = Cardinality(Holders(h)') + Cardinality(Loosers(h)')
        <2> SUFFICES ASSUME NEW h \in Ends
                     PROVE  count'[h.node][h.side] =
                                Cardinality(Holders(h)') + Cardinality(Loosers(h)')
            OBVIOUS
        <2>1. count[h.node][h.side] \in Nat /\ count'[h.node][h.side] \in Int
            BY <1>2, HandleFacts
        <2>2. count'[h.node][h.side] - count[h.node][h.side] =
                  Cardinality(Holders(h)') - Cardinality(Holders(h))
                  + (Cardinality(Loosers(h)') - Cardinality(Loosers(h)))
            OBVIOUS
        <2>3. count[h.node][h.side] = Cardinality(Holders(h)) + Cardinality(Loosers(h))
            BY <1>3
        <2>4. /\ Cardinality(Holders(h)) \in Nat /\ Cardinality(Loosers(h)) \in Nat
              /\ Cardinality(Holders(h)') \in Nat /\ Cardinality(Loosers(h)') \in Nat
            BY <1>1
        <2> HIDE DEF Holders, Loosers
        <2> QED
            BY <2>1, <2>2, <2>3, <2>4
    <1>5. CountsMatchHandles'
        BY <1>4 DEF CountsMatchHandles, Holders, Loosers
    <1>6. FinitelyMany'
        BY DEF FinitelyMany
    <1>7. \A c \in Conn, s \in Side : count'[c][s] \in Nat
        <2> SUFFICES ASSUME NEW c \in Conn, NEW s \in Side
                     PROVE  count'[c][s] \in Nat
            OBVIOUS
        <2> DEFINE h == [node |-> c, side |-> s]
        <2>1. h \in Ends /\ h.node = c /\ h.side = s
            BY HandleFacts
        <2> HIDE DEF h
        <2> QED
            BY <1>1, <1>4, <2>1
    <1>8. count' \in [Conn -> [Side -> Nat]]
        <2>1. \A c \in Conn : count'[c] \in [Side -> Int]
            OBVIOUS
        <2>2. \A c \in Conn : count'[c] \in [Side -> Nat]
            BY <1>7, <2>1
        <2> QED
            BY <2>2
    <1> QED
        BY <1>5, <1>6, <1>8

LEMMA CountKept ==
    ASSUME IInv, UNCHANGED count,
           \A h \in Ends : Holders(h)' = Holders(h) /\ Loosers(h)' = Loosers(h)
    PROVE  CountsMatchHandles' /\ FinitelyMany'
    BY DEF IInv, CountsMatchHandles, FinitelyMany, Holders, Loosers

(* A step of p that stores, makes and drops no handle and takes no         *)
(* connection.                                                             *)
LEMMA LocalStep ==
    ASSUME IInv, NEW p \in Proc,
           pc' \in [Proc -> Location], op' \in [Proc -> Op],
           \A q \in Proc : q # p => pc'[q] = pc[q] /\ op'[q] = op[q],
           UNCHANGED <<pending, made, accepted, count, table, alive, hung>>,
           data' \in [Conn -> [Side -> Seq(Nat)]],
           \A c \in Conn, s \in Side : Len(data'[c][s]) <= Size,
           sent' \in [Conn -> [Side -> Nat]],
           owner' \in [Node -> Proc \cup {Nobody}],
           \A n \in Node : owner'[n] # owner[n] =>
               owner[n] \in {p, Nobody} /\ owner'[n] \in {p, Nobody},
           \A n \in Node : owner'[n] = p <=> Holds(p, n)',
           Shaped(pc'[p], op'[p]),
           \A h \in Ends : op'[p].handle = h => op[p].handle = h \/ h \in table[p],
           \A h \in Ends : Making(p, h)' => Making(p, h),
           \A h \in Ends : Loose(p, h)' <=> Loose(p, h),
           op'[p].kind = "close" => op'[p].handle \in table[p],
           pc'[p] = "in" /\ op'[p].kind = "accept" => pending # <<>>
    PROVE  IInv'
    <1>2. \A q \in Proc : q # p => pc'[q] = pc[q] /\ op'[q] = op[q]
        OBVIOUS
    <1>3. Types'
        BY DEF IInv, Types
    <1>4. PendingIsUnaccepted'
        BY DEF IInv, PendingIsUnaccepted
    <1>5. CallShape'
        BY <1>2 DEF IInv, CallShape
    <1>6. OwnerHolds'
        BY OwnerStep
    <1>7. AcceptHasOne'
        BY <1>2 DEF IInv, AcceptHasOne
    <1>8. \A h \in Ends, q \in Proc :
              (h \in table'[q] \/ Making(q, h)') => (h \in table[q] \/ Making(q, h))
        BY <1>2 DEF Making
    <1>9. \A h \in Ends, q \in Proc : Making(q, h)' => Making(q, h)
        BY <1>2 DEF Making
    <1>10. HandleOnce'
        BY <1>8, <1>9 DEF IInv, HandleOnce
    <1>11. Known'
        <2>1. \A h \in Ends, q \in Proc :
                  (h \in table'[q] \/ op'[q].handle = h) => (h \in table[q] \/ op[q].handle = h)
            BY <1>2
        <2> QED
            BY <2>1 DEF IInv, Known
    <1>12. Closing'
        BY <1>2 DEF IInv, Closing
    <1>13. CountsMatchHandles' /\ FinitelyMany'
        <2>1. \A h \in Ends : Holders(h)' = Holders(h)
            BY DEF Holders
        <2>2. \A h \in Ends, q \in Proc : Loose(q, h)' <=> Loose(q, h)
            BY <1>2 DEF Loose
        <2>3. \A h \in Ends : Loosers(h)' = Loosers(h)
            BY <2>2 DEF Loosers
        <2> QED
            BY <2>1, <2>3, CountKept
    <1> QED
        BY <1>3, <1>4, <1>5, <1>6, <1>7, <1>10, <1>11, <1>12, <1>13 DEF IInv
-----------------------------------------------------------------------------
(* A call begins. *)
LEMMA BeginStep ==
    ASSUME IInv, NEW p \in Proc, NEW k \in Kind, NEW h \in Handle, NEW l \in Location,
           Begin(p, NewOp(k, h), l),
           \/ k = "connect" /\ l = "spin" /\ h = Listener
           \/ k = "accept" /\ l = "ask" /\ h = Listener
           \/ k \in {"read", "write"} /\ l = "ask" /\ h \in Ends
           \/ k = "close" /\ l = "spin",
           k # "connect" => h \in table[p],
           UNCHANGED <<pending, connVars, owner, procVars>>
    PROVE  IInv'
    <1> DEFINE o == NewOp(k, h)
    <1>1. o \in Op /\ o.kind = k /\ o.handle = h /\ o.node = h.node
        BY HandleFacts
    <1> HIDE DEF o
    <1>2. /\ pc = [pc EXCEPT ![p] = "idle"] /\ pc[p] = "idle"
          /\ pc' = [pc EXCEPT ![p] = l] /\ op' = [op EXCEPT ![p] = o]
        <2>1. pc \in [Proc -> Location]
            BY DEF IInv, Types
        <2>2. pc[p] = "idle" /\ pc' = [pc EXCEPT ![p] = l] /\ op' = [op EXCEPT ![p] = o]
            BY DEF Begin, At, Goto, o
        <2> QED
            BY <2>1, <2>2
    <1>3. op[p].kind = "none" /\ op[p].handle = Listener
        BY <1>2, Shapes, HandleFacts DEF Shaped
    <1>4. /\ pc' \in [Proc -> Location] /\ op' \in [Proc -> Op]
          /\ pc'[p] = l /\ op'[p] = o
          /\ \A q \in Proc : q # p => pc'[q] = pc[q] /\ op'[q] = op[q]
        BY <1>1, <1>2 DEF IInv, Types
    <1>5. Shaped(l, o)
        BY <1>1, HandleFacts DEF Shaped
    <1>6. \A n \in Node : ~Holds(p, n) /\ ~Holds(p, n)'
        BY <1>1, <1>2, <1>3, <1>4 DEF Holds
    <1>7. /\ owner' = owner /\ owner \in [Node -> Proc \cup {Nobody}]
          /\ \A n \in Node : owner[n] = p <=> Holds(p, n)
        BY DEF IInv, Types, OwnerHolds
    <1>8. \A e \in Ends : ~Making(p, e)' /\ ~Loose(p, e) /\ ~Loose(p, e)'
        BY <1>1, <1>3, <1>4, HandleFacts DEF Making, Loose
    <1>9. \A e \in Ends : op'[p].handle = e => e \in table[p]
        BY <1>1, <1>4, HandleFacts
    <1>10. op'[p].kind = "close" => op'[p].handle \in table[p]
        BY <1>1, <1>4
    <1>11. pc'[p] # "in"
        BY <1>4
    <1>12. /\ data' \in [Conn -> [Side -> Seq(Nat)]] /\ sent' \in [Conn -> [Side -> Nat]]
           /\ \A c \in Conn, s \in Side : Len(data'[c][s]) <= Size
        BY DEF IInv, Types, connVars
    <1>13. UNCHANGED <<pending, made, accepted, count, table, alive, hung>>
        BY DEF connVars, procVars
    <1>14. Shaped(pc'[p], op'[p])
        BY <1>4, <1>5
    <1>15. owner' \in [Node -> Proc \cup {Nobody}] /\ \A n \in Node : owner'[n] = p <=> Holds(p, n)'
        BY <1>6, <1>7
    <1> HIDE DEF o
    <1> QED
        BY <1>4, <1>7, <1>8, <1>9, <1>10, <1>11, <1>12, <1>13, <1>14, <1>15, LocalStep

LEMMA SyscallStep ==
    ASSUME IInv, NEW p \in Proc, Syscall(p)
    PROVE  IInv'
    <1>0. {"connect", "accept", "read", "write", "close"} \subseteq Kind
          /\ {"ask", "spin"} \subseteq Location
        BY DEF Kind, Location
    <1>1. table[p] \subseteq Handle /\ Listener \in Handle /\ Ends \subseteq Handle
        BY Shapes DEF Handle
    <1>2. CASE Connect(p)
        BY <1>0, <1>1, <1>2, BeginStep DEF Connect
    <1>3. CASE Accept(p)
        BY <1>0, <1>1, <1>3, BeginStep DEF Accept
    <1>4. ASSUME NEW h \in table[p], Read(p, h)
          PROVE  IInv'
        BY <1>0, <1>1, <1>4, BeginStep DEF Read
    <1>5. ASSUME NEW h \in table[p], Write(p, h)
          PROVE  IInv'
        BY <1>0, <1>1, <1>5, BeginStep DEF Write
    <1>6. ASSUME NEW h \in table[p], Close(p, h)
          PROVE  IInv'
        BY <1>0, <1>1, <1>6, BeginStep DEF Close
    <1> QED
        BY <1>2, <1>3, <1>4, <1>5, <1>6 DEF Syscall

(* p takes the free lock of the node its call is about. *)
LEMMA TakeStep ==
    ASSUME IInv, NEW p \in Proc, NEW l \in {"in", "done"},
           pc[p] \in {"ask", "spin"}, pc' = [pc EXCEPT ![p] = l],
           owner[op[p].node] = Nobody, owner' = [owner EXCEPT ![op[p].node] = p],
           pc[p] = "ask" \/ l = "in" => l = "in" /\ op[p].kind \in {"connect", "accept", "read", "write"},
           pc[p] = "ask" => op[p].kind # "connect",
           op[p].kind = "connect" => (l = "in" <=> op[p].node = Sock),
           op[p].kind = "accept" /\ l = "in" => pc[p] = "ask" /\ pending # <<>>,
           UNCHANGED <<pending, connVars, procVars, op>>
    PROVE  IInv'
    <1>1. /\ op[p] \in Op /\ op[p].node \in Node /\ op[p].handle \in Handle
          /\ Shaped(pc[p], op[p])
        BY Shapes
    <1>2. /\ pc' \in [Proc -> Location] /\ op' \in [Proc -> Op]
          /\ pc'[p] = l /\ op'[p] = op[p]
          /\ \A q \in Proc : q # p => pc'[q] = pc[q] /\ op'[q] = op[q]
        BY DEF IInv, Types, Location
    <1>3. Shaped(l, op[p])
        BY <1>1, HandleFacts DEF Shaped
    <1>4. Shaped(pc'[p], op'[p])
        BY <1>2, <1>3
    <1>5. p # Nobody
        BY SocketAssumption
    <1>6. /\ owner' \in [Node -> Proc \cup {Nobody}]
          /\ owner'[op[p].node] = p
          /\ \A n \in Node : n # op[p].node => owner'[n] = owner[n]
        BY <1>1 DEF IInv, Types
    <1>7. \A n \in Node : owner[n] = p <=> Holds(p, n)
        BY DEF IInv, OwnerHolds
    <1>8. \A n \in Node : Holds(p, n) <=> op[p].kind = "accept" /\ pc[p] = "spin" /\ n = Sock
        BY DEF Holds
    <1>9. \A n \in Node : Holds(p, n)' <=>
              (n = op[p].node \/ (op[p].kind = "accept" /\ l = "done" /\ n = Sock))
        <2> SUFFICES ASSUME NEW n \in Node
                     PROVE  Holds(p, n)' <=>
                                (n = op[p].node \/ (op[p].kind = "accept" /\ l = "done" /\ n = Sock))
            OBVIOUS
        <2>1. pc'[p] \in {"in", "done"} /\ (pc'[p] \in {"ref", "spin", "done"} <=> l = "done")
            BY <1>2
        <2> QED
            BY <1>2, <2>1 DEF Holds
    <1>10. op[p].kind = "accept" => (l = "done" <=> pc[p] = "spin")
        OBVIOUS
    <1>11. \A n \in Node : owner'[n] = p <=> Holds(p, n)'
        <2> SUFFICES ASSUME NEW n \in Node
                     PROVE  owner'[n] = p <=> Holds(p, n)'
            OBVIOUS
        <2>1. CASE n = op[p].node
            BY <1>6, <1>9, <2>1
        <2>2. CASE n # op[p].node
            <3>1. owner'[n] = p <=> op[p].kind = "accept" /\ pc[p] = "spin" /\ n = Sock
                BY <1>6, <1>7, <1>8, <2>2
            <3> QED
                BY <1>9, <1>10, <2>2, <3>1
        <2> QED
            BY <2>1, <2>2
    <1>12. \A n \in Node : owner'[n] # owner[n] =>
               owner[n] \in {p, Nobody} /\ owner'[n] \in {p, Nobody}
        BY <1>6
    <1>13. \A e \in Ends : (Making(p, e)' <=> Making(p, e)) /\ (Loose(p, e)' <=> Loose(p, e))
        <2>1. pc[p] # "ref" /\ pc'[p] # "ref"
            BY <1>2
        <2> QED
            BY <1>2, <2>1 DEF Making, Loose
    <1>14. op'[p].kind = "close" => op'[p].handle \in table[p]
        BY <1>2 DEF IInv, Closing
    <1>15. pc'[p] = "in" /\ op'[p].kind = "accept" => pending # <<>>
        BY <1>2
    <1>16. /\ data' \in [Conn -> [Side -> Seq(Nat)]] /\ sent' \in [Conn -> [Side -> Nat]]
           /\ \A c \in Conn, s \in Side : Len(data'[c][s]) <= Size
        BY DEF IInv, Types, connVars
    <1>17. UNCHANGED <<pending, made, accepted, count, table, alive, hung>>
        BY DEF connVars, procVars
    <1>18. \A h \in Ends : op'[p].handle = h => op[p].handle = h \/ h \in table[p]
        BY <1>2
    <1> QED
        BY <1>2, <1>4, <1>6, <1>11, <1>12, <1>13, <1>14, <1>15, <1>16, <1>17, <1>18, LocalStep

LEMMA UnblockStep ==
    ASSUME IInv, NEW p \in Proc, Unblock(p)
    PROVE  IInv'
    <1>1. op[p].kind \in {"accept", "read", "write"}
        BY Shapes DEF Unblock, At, Shaped, Kind
    <1>2. op[p].kind = "accept" => pending # <<>>
        BY DEF Unblock, Ready
    <1>3. pc[p] = "ask" /\ pc' = [pc EXCEPT ![p] = "in"]
        BY DEF Unblock, At, Goto
    <1> QED
        BY <1>1, <1>2, <1>3, TakeStep DEF Unblock

LEMMA AcquireStep ==
    ASSUME IInv, NEW p \in Proc, Acquire(p)
    PROVE  IInv'
    <1>1. pc[p] = "spin" /\ Shaped(pc[p], op[p])
        BY Shapes DEF Acquire, At
    <1>2. CASE op[p].kind = "connect" /\ op[p].node = Sock
        <2>1. pc' = [pc EXCEPT ![p] = "in"]
            BY <1>2 DEF Acquire, Goto
        <2> QED
            BY <1>1, <1>2, <2>1, TakeStep DEF Acquire
    <1>3. CASE ~(op[p].kind = "connect" /\ op[p].node = Sock)
        <2>1. pc' = [pc EXCEPT ![p] = "done"]
            BY <1>3 DEF Acquire, Goto
        <2> QED
            BY <1>1, <1>3, <2>1, TakeStep DEF Acquire
    <1> QED
        BY <1>2, <1>3
-----------------------------------------------------------------------------
(* p has read or written under the lock of a connection. *)
LEMMA UseStep ==
    ASSUME IInv, NEW p \in Proc, NEW o \in Op,
           pc[p] = "in", op[p].kind \in {"read", "write"},
           pc' = [pc EXCEPT ![p] = "done"], op' = [op EXCEPT ![p] = o],
           o.kind = op[p].kind, o.handle = op[p].handle, o.node = op[p].node,
           data' \in [Conn -> [Side -> Seq(Nat)]],
           \A c \in Conn, s \in Side : Len(data'[c][s]) <= Size,
           sent' \in [Conn -> [Side -> Nat]],
           UNCHANGED <<pending, made, accepted, count, owner, procVars>>
    PROVE  IInv'
    <1>1. Shaped(pc[p], op[p])
        BY Shapes
    <1>2. /\ pc' \in [Proc -> Location] /\ op' \in [Proc -> Op]
          /\ pc'[p] = "done" /\ op'[p] = o
          /\ \A q \in Proc : q # p => pc'[q] = pc[q] /\ op'[q] = op[q]
        BY DEF IInv, Types, Location
    <1>3. Shaped(pc'[p], op'[p])
        BY <1>1, <1>2 DEF Shaped
    <1>4. /\ owner' = owner /\ owner \in [Node -> Proc \cup {Nobody}]
          /\ \A n \in Node : owner[n] = p <=> Holds(p, n)
        BY DEF IInv, Types, OwnerHolds
    <1>5. \A n \in Node : Holds(p, n)' <=> Holds(p, n)
        BY <1>2 DEF Holds
    <1>6. \A n \in Node : owner'[n] = p <=> Holds(p, n)'
        BY <1>4, <1>5
    <1>7. \A e \in Ends : ~Making(p, e)' /\ ~Loose(p, e) /\ ~Loose(p, e)'
        BY <1>2 DEF Making, Loose
    <1>8. \A e \in Ends : op'[p].handle = e => op[p].handle = e \/ e \in table[p]
        BY <1>2
    <1>9. op'[p].kind # "close" /\ op'[p].kind # "accept"
        BY <1>2
    <1>10. UNCHANGED <<pending, made, accepted, count, table, alive, hung>>
        BY DEF procVars
    <1> QED
        BY <1>2, <1>3, <1>4, <1>6, <1>7, <1>8, <1>9, <1>10, LocalStep

LEMMA UseReadStep ==
    ASSUME IInv, NEW p \in Proc, UseRead(p)
    PROVE  IInv'
    <1>1. PICK h : h = op[p].handle
        OBVIOUS
    <1>2. /\ op[p] \in Op /\ pc[p] = "in" /\ op[p].kind = "read"
          /\ h.node \in Conn /\ h.side \in Side /\ h \in Ends
        BY <1>1, Shapes, HandleFacts DEF UseRead, At, Shaped
    <1>3. /\ data \in [Conn -> [Side -> Seq(Nat)]]
          /\ \A d \in Conn, r \in Side : Len(data[d][r]) <= Size
          /\ sent \in [Conn -> [Side -> Nat]]
          /\ op \in [Proc -> Op]
        BY DEF IInv, Types
    <1>4. PICK q : q = IF data[h.node][h.side] = <<>> THEN data[h.node][h.side]
                       ELSE Tail(data[h.node][h.side])
        OBVIOUS
    <1>5. PICK o : o = [op[p] EXCEPT !.closed = TRUE]
        OBVIOUS
    <1>6. /\ o \in Op /\ op[p] \in Op
          /\ o.kind = op[p].kind /\ o.handle = op[p].handle /\ o.node = op[p].node
        BY <1>2, <1>5 DEF Op
    <1>7. /\ pc' = [pc EXCEPT ![p] = "done"]
          /\ UNCHANGED <<pending, made, accepted, count, sent, owner, procVars>>
        BY DEF UseRead, Goto
    <1>8. \/ op' = [op EXCEPT ![p] = o] /\ data' = data
          \/ op' = [op EXCEPT ![p] = op[p]] /\ data' = [data EXCEPT ![h.node][h.side] = q]
        BY <1>1, <1>3, <1>4, <1>5 DEF UseRead
    <1>9. /\ data' \in [Conn -> [Side -> Seq(Nat)]]
          /\ \A d \in Conn, r \in Side : Len(data'[d][r]) <= Size
        <2>1. data[h.node][h.side] \in Seq(Nat) /\ Len(data[h.node][h.side]) <= Size
            BY <1>2, <1>3
        <2>2. q \in Seq(Nat) /\ Len(q) <= Size
            <3>1. CASE data[h.node][h.side] = <<>>
                BY <1>4, <2>1, <3>1
            <3>2. CASE data[h.node][h.side] # <<>>
                <4>1. q = Tail(data[h.node][h.side])
                    BY <1>4, <3>2
                <4>2. q \in Seq(Nat) /\ Len(q) = Len(data[h.node][h.side]) - 1
                    BY <2>1, <3>2, <4>1
                <4> QED
                    BY <2>1, <4>2, SocketAssumption
            <3> QED
                BY <3>1, <3>2
        <2>3. CASE data' = data
            BY <1>3, <2>3
        <2>4. CASE data' = [data EXCEPT ![h.node][h.side] = q]
            BY <1>2, <1>3, <2>2, <2>4
        <2> QED
            BY <1>8, <2>3, <2>4
    <1>10. CASE op' = [op EXCEPT ![p] = o]
        BY <1>2, <1>3, <1>6, <1>7, <1>9, <1>10, UseStep
    <1>11. CASE op' = [op EXCEPT ![p] = op[p]]
        BY <1>2, <1>3, <1>6, <1>7, <1>9, <1>11, UseStep
    <1> QED
        BY <1>8, <1>10, <1>11

LEMMA UseWriteStep ==
    ASSUME IInv, NEW p \in Proc, UseWrite(p)
    PROVE  IInv'
    <1>1. PICK c, s, t : c = op[p].handle.node /\ s = op[p].handle.side /\ t = Peer(s)
        OBVIOUS
    <1>2. /\ op[p] \in Op /\ pc[p] = "in" /\ op[p].kind = "write"
          /\ c \in Conn /\ s \in Side /\ t \in Side
        BY <1>1, Shapes, HandleFacts DEF UseWrite, At, Shaped
    <1>3. /\ data \in [Conn -> [Side -> Seq(Nat)]]
          /\ \A d \in Conn, r \in Side : Len(data[d][r]) <= Size
          /\ sent \in [Conn -> [Side -> Nat]]
          /\ op \in [Proc -> Op]
        BY DEF IInv, Types
    <1>4. data[c][t] \in Seq(Nat) /\ Len(data[c][t]) <= Size /\ sent[c][s] \in Nat
        BY <1>2, <1>3
    <1>5. PICK m : m = sent[c][s] + 1
        OBVIOUS
    <1>6. PICK q : q = Append(data[c][t], m)
        OBVIOUS
    <1>7. PICK x, y : x = [op[p] EXCEPT !.closed = TRUE] /\ y = [op[p] EXCEPT !.put = TRUE]
        OBVIOUS
    <1>8. /\ x \in Op /\ y \in Op
          /\ x.kind = op[p].kind /\ x.handle = op[p].handle /\ x.node = op[p].node
          /\ y.kind = op[p].kind /\ y.handle = op[p].handle /\ y.node = op[p].node
        BY <1>2, <1>7 DEF Op
    <1>9. /\ pc' = [pc EXCEPT ![p] = "done"]
          /\ UNCHANGED <<pending, made, accepted, count, owner, procVars>>
        BY DEF UseWrite, Goto
    <1>10. \/ op' = [op EXCEPT ![p] = x] /\ data' = data /\ sent' = sent
           \/ op' = [op EXCEPT ![p] = op[p]] /\ data' = data /\ sent' = sent
           \/ /\ op' = [op EXCEPT ![p] = y]
              /\ Len(data[c][t]) # Size
              /\ data' = [data EXCEPT ![c][t] = q]
              /\ sent' = [sent EXCEPT ![c][s] = m]
        BY <1>1, <1>3, <1>5, <1>6, <1>7 DEF UseWrite, Into
    <1>11. /\ data' \in [Conn -> [Side -> Seq(Nat)]]
           /\ \A d \in Conn, r \in Side : Len(data'[d][r]) <= Size
           /\ sent' \in [Conn -> [Side -> Nat]]
        <2>1. CASE data' = data /\ sent' = sent
            BY <1>3, <2>1
        <2>2. CASE /\ Len(data[c][t]) # Size
                   /\ data' = [data EXCEPT ![c][t] = q]
                   /\ sent' = [sent EXCEPT ![c][s] = m]
            <3>1. m \in Nat
                BY <1>4, <1>5
            <3>2. q \in Seq(Nat) /\ Len(q) = Len(data[c][t]) + 1
                BY <1>4, <1>6, <3>1
            <3>3. Len(q) <= Size
                BY <1>4, <2>2, <3>2, SocketAssumption
            <3>4. data' \in [Conn -> [Side -> Seq(Nat)]]
                  /\ \A d \in Conn, r \in Side : Len(data'[d][r]) <= Size
                BY <1>2, <1>3, <2>2, <3>2, <3>3
            <3>5. sent' \in [Conn -> [Side -> Nat]]
                BY <1>2, <1>3, <2>2, <3>1
            <3> QED
                BY <3>4, <3>5
        <2> QED
            BY <1>10, <2>1, <2>2
    <1>12. CASE op' = [op EXCEPT ![p] = x]
        BY <1>2, <1>8, <1>9, <1>11, <1>12, UseStep
    <1>13. CASE op' = [op EXCEPT ![p] = op[p]]
        BY <1>2, <1>8, <1>9, <1>11, <1>13, UseStep
    <1>14. CASE op' = [op EXCEPT ![p] = y]
        BY <1>2, <1>8, <1>9, <1>11, <1>14, UseStep
    <1> QED
        BY <1>10, <1>12, <1>13, <1>14

LEMMA ReleaseStep ==
    ASSUME IInv, NEW p \in Proc, Release(p)
    PROVE  IInv'
    <1>1. /\ op[p] \in Op /\ op[p].node \in Node /\ op[p].handle \in Handle
          /\ Shaped(pc[p], op[p]) /\ pc[p] = "done"
        BY Shapes DEF Release, At
    <1>2. /\ op \in [Proc -> Op] /\ pc \in [Proc -> Location]
          /\ owner \in [Node -> Proc \cup {Nobody}]
          /\ owner' = [owner EXCEPT ![op[p].node] = Nobody]
          /\ UNCHANGED <<pending, connVars, procVars>>
        BY DEF IInv, Types, Release
    <1>3. PICK l, o :
              /\ l \in Location /\ o \in Op
              /\ pc' = [pc EXCEPT ![p] = l] /\ op' = [op EXCEPT ![p] = o]
              /\ \/ /\ op[p].kind = "connect" /\ o = op[p]
                    /\ l = IF op[p].node = Sock THEN "ref" ELSE "wait"
                 \/ /\ op[p].kind = "accept" /\ op[p].node # Sock
                    /\ o = [op[p] EXCEPT !.node = Sock] /\ l = "done"
                 \/ /\ op[p].kind = "accept" /\ op[p].node = Sock
                    /\ o = op[p] /\ l = "add"
                 \/ /\ op[p].kind \in {"close", "drop"}
                    /\ o = op[p] /\ l = "deref"
                 \/ /\ op[p].kind \in {"read", "write"}
                    /\ o = NoOp /\ l = "idle"
                 \/ op[p].kind = "write" /\ o = op[p] /\ l = "ask"
        <2>1. op = [op EXCEPT ![p] = op[p]] /\ pc = [pc EXCEPT ![p] = "done"]
            BY <1>1, <1>2
        <2>2. [op[p] EXCEPT !.node = Sock] \in Op /\ NoOp \in Op
            BY <1>1, HandleFacts DEF Op
        <2>3. CASE op[p].kind = "connect"
            <3>1. UNCHANGED op /\ pc' = [pc EXCEPT ![p] = IF op[p].node = Sock THEN "ref" ELSE "wait"]
                BY <2>3 DEF Release, Goto
            <3> QED
                BY <1>1, <2>1, <2>3, <3>1 DEF Location
        <2>4. CASE op[p].kind = "accept" /\ op[p].node # Sock
            <3>1. UNCHANGED pc /\ op' = [op EXCEPT ![p].node = Sock]
                BY <2>4 DEF Release, Goto
            <3>2. op' = [op EXCEPT ![p] = [op[p] EXCEPT !.node = Sock]]
                BY <1>2, <3>1
            <3> QED
                BY <2>1, <2>2, <2>4, <3>1, <3>2 DEF Location
        <2>5. CASE op[p].kind = "accept" /\ op[p].node = Sock
            <3>1. UNCHANGED op /\ pc' = [pc EXCEPT ![p] = "add"]
                BY <2>5 DEF Release, Goto
            <3> QED
                BY <1>1, <2>1, <2>5, <3>1 DEF Location
        <2>6. CASE op[p].kind \in {"close", "drop"}
            <3>1. UNCHANGED op /\ pc' = [pc EXCEPT ![p] = "deref"]
                BY <2>6 DEF Release, Goto
            <3> QED
                BY <1>1, <2>1, <2>6, <3>1 DEF Location
        <2>7. CASE op[p].kind \in {"read", "write"}
            <3>1. \/ op' = [op EXCEPT ![p] = NoOp] /\ pc' = [pc EXCEPT ![p] = "idle"]
                  \/ op[p].kind = "write" /\ UNCHANGED op /\ pc' = [pc EXCEPT ![p] = "ask"]
                BY <2>7 DEF Release, Goto, End
            <3> QED
                BY <1>1, <2>1, <2>2, <2>7, <3>1 DEF Location
        <2>8. op[p].kind \in {"connect", "accept", "close", "drop", "read", "write"}
            BY <1>1 DEF Op, Kind, Shaped
        <2> QED
            BY <2>3, <2>4, <2>5, <2>6, <2>7, <2>8
    <1>4. /\ pc' \in [Proc -> Location] /\ op' \in [Proc -> Op]
          /\ pc'[p] = l /\ op'[p] = o
          /\ \A q \in Proc : q # p => pc'[q] = pc[q] /\ op'[q] = op[q]
        BY <1>2, <1>3
    <1>5. \/ o.kind = "none" /\ o = NoOp /\ o.handle = Listener /\ op[p].kind \in {"read", "write"}
          \/ o.kind = op[p].kind /\ o.handle = op[p].handle
        BY <1>1, <1>3, HandleFacts DEF Op
    <1>6. Shaped(l, o)
        BY <1>1, <1>3, <1>5, HandleFacts DEF Shaped, Op
    <1>7. /\ owner' \in [Node -> Proc \cup {Nobody}]
          /\ owner'[op[p].node] = Nobody
          /\ \A n \in Node : n # op[p].node => owner'[n] = owner[n]
        BY <1>1, <1>2
    <1>8. \A n \in Node : owner[n] = p <=> Holds(p, n)
        BY DEF IInv, OwnerHolds
    <1>9. owner[op[p].node] = p
        BY <1>1, <1>8 DEF Holds
    <1>10. \A n \in Node : Holds(p, n)' <=> (Holds(p, n) /\ n # op[p].node)
        <2> SUFFICES ASSUME NEW n \in Node
                     PROVE  Holds(p, n)' <=> (Holds(p, n) /\ n # op[p].node)
            OBVIOUS
        <2>1. Holds(p, n) <=> (op[p].node = n \/ (op[p].kind = "accept" /\ n = Sock))
            BY <1>1 DEF Holds
        <2>2. Holds(p, n)' <=> (\/ l = "done" /\ o.node = n
                                \/ o.kind = "accept" /\ l = "done" /\ n = Sock)
            BY <1>3, <1>4 DEF Holds
        <2>3. CASE op[p].kind = "accept" /\ op[p].node # Sock
            <3>1. o = [op[p] EXCEPT !.node = Sock] /\ l = "done"
                BY <1>3, <2>3
            <3>2. o.node = Sock /\ o.kind = "accept"
                BY <1>1, <2>3, <3>1 DEF Op
            <3> QED
                BY <2>1, <2>2, <2>3, <3>1, <3>2
        <2>4. CASE op[p].kind = "accept" /\ op[p].node = Sock
            BY <1>3, <2>1, <2>2, <2>4
        <2>5. CASE op[p].kind # "accept"
            <3>1. l # "done"
                BY <1>3, <2>5
            <3> QED
                BY <2>1, <2>2, <2>5, <3>1
        <2> QED
            BY <2>3, <2>4, <2>5
    <1>11. \A n \in Node : owner'[n] = p <=> Holds(p, n)'
        <2>1. p # Nobody
            BY SocketAssumption
        <2> QED
            BY <1>7, <1>8, <1>10, <2>1
    <1>12. \A n \in Node : owner'[n] # owner[n] =>
               owner[n] \in {p, Nobody} /\ owner'[n] \in {p, Nobody}
        BY <1>7, <1>9
    <1>13. \A e \in Ends : Making(p, e)' => Making(p, e)
        BY <1>4, <1>5 DEF Making
    <1>14. \A e \in Ends : Loose(p, e)' <=> Loose(p, e)
        <2> SUFFICES ASSUME NEW e \in Ends
                     PROVE  Loose(p, e)' <=> Loose(p, e)
            OBVIOUS
        <2>1. CASE op[p].kind = "connect"
            <3>1. o = op[p]
                BY <1>3, <2>1
            <3> QED
                BY <1>4, <2>1, <3>1 DEF Loose
        <2>2. CASE op[p].kind = "accept"
            <3>1. l # "ref"
                BY <1>3, <2>2
            <3> QED
                BY <1>1, <1>4, <1>5, <2>2, <3>1 DEF Loose
        <2>3. CASE op[p].kind \notin {"connect", "accept"}
            BY <1>4, <1>5, <2>3 DEF Loose
        <2> QED
            BY <2>1, <2>2, <2>3
    <1>15. op'[p].kind = "close" => op'[p].handle \in table[p]
        BY <1>4, <1>5 DEF IInv, Closing
    <1>16. pc'[p] # "in"
        BY <1>3, <1>4
    <1>17. /\ data' \in [Conn -> [Side -> Seq(Nat)]] /\ sent' \in [Conn -> [Side -> Nat]]
           /\ \A c \in Conn, s \in Side : Len(data'[c][s]) <= Size
        BY <1>2 DEF IInv, Types, connVars
    <1>18. UNCHANGED <<pending, made, accepted, count, table, alive, hung>>
        BY <1>2 DEF connVars, procVars
    <1>19. \A h \in Ends : op'[p].handle = h => op[p].handle = h \/ h \in table[p]
        BY <1>4, <1>5, HandleFacts
    <1>20. Shaped(pc'[p], op'[p])
        BY <1>4, <1>6
    <1> QED
        BY <1>4, <1>7, <1>11, <1>12, <1>13, <1>14, <1>15, <1>16, <1>17, <1>18, <1>19, <1>20, LocalStep
-----------------------------------------------------------------------------
LEMMA ConnectedStep ==
    ASSUME IInv, NEW p \in Proc, Connected(p)
    PROVE  IInv'
    <1>1. /\ op[p] \in Op /\ op[p].node \in Node /\ op[p].handle \in Handle
          /\ Shaped(pc[p], op[p]) /\ pc[p] = "wait"
        BY Shapes DEF Connected, At
    <1>2. op[p].kind = "connect"
        BY <1>1 DEF Op, Kind, Shaped
    <1>3. /\ pc' \in [Proc -> Location] /\ op' \in [Proc -> Op]
          /\ pc'[p] = "add" /\ op'[p] = op[p]
          /\ \A q \in Proc : q # p => pc'[q] = pc[q] /\ op'[q] = op[q]
        BY DEF IInv, Types, Location, Connected, Goto
    <1>4. Shaped(pc'[p], op'[p])
        BY <1>1, <1>2, <1>3 DEF Shaped
    <1>5. /\ owner' = owner /\ owner \in [Node -> Proc \cup {Nobody}]
          /\ \A n \in Node : owner[n] = p <=> Holds(p, n)
        BY DEF IInv, Types, OwnerHolds, Connected
    <1>6. \A n \in Node : Holds(p, n)' <=> Holds(p, n)
        BY <1>1, <1>2, <1>3 DEF Holds
    <1>7. \A n \in Node : owner'[n] = p <=> Holds(p, n)'
        BY <1>5, <1>6
    <1>8. \A e \in Ends : (Making(p, e)' <=> Making(p, e)) /\ (Loose(p, e)' <=> Loose(p, e))
        BY <1>2, <1>3 DEF Making, Loose
    <1>9. \A e \in Ends : op'[p].handle = e => op[p].handle = e \/ e \in table[p]
        BY <1>3
    <1>10. op'[p].kind # "close" /\ op'[p].kind # "accept"
        BY <1>2, <1>3
    <1>11. /\ data' \in [Conn -> [Side -> Seq(Nat)]] /\ sent' \in [Conn -> [Side -> Nat]]
           /\ \A c \in Conn, s \in Side : Len(data'[c][s]) <= Size
           /\ UNCHANGED <<pending, made, accepted, count, table, alive, hung>>
        BY DEF IInv, Types, connVars, procVars, Connected
    <1> QED
        BY <1>3, <1>4, <1>5, <1>7, <1>8, <1>9, <1>10, <1>11, LocalStep

(* The handle that p drops because its table is full. *)
LEMMA DropStep ==
    ASSUME IInv, NEW p \in Proc, Add(p), ~(Cardinality(table[p]) < MaxHandles)
    PROVE  IInv'
    <1>1. /\ op[p] \in Op /\ op[p].node \in Node /\ op[p].handle \in Handle
          /\ Shaped(pc[p], op[p]) /\ pc[p] = "add"
        BY Shapes DEF Add, At
    <1>2. op[p].kind \in {"accept", "connect"} /\ op[p].handle \in Ends
        BY <1>1 DEF Op, Kind, Shaped
    <1>3. op[p].kind = "connect" => op[p].node = op[p].handle.node
        BY <1>1 DEF Shaped
    <1>4. PICK o : o = NewOp("drop", op[p].handle)
        OBVIOUS
    <1>5. /\ o \in Op /\ o.kind = "drop" /\ o.handle = op[p].handle /\ o.node = op[p].handle.node
          /\ op' = [op EXCEPT ![p] = o] /\ pc' = [pc EXCEPT ![p] = "spin"]
        BY <1>1, <1>4, HandleFacts DEF Add, Goto, Kind
    <1>6. /\ pc' \in [Proc -> Location] /\ op' \in [Proc -> Op]
          /\ pc'[p] = "spin" /\ op'[p] = o
          /\ \A q \in Proc : q # p => pc'[q] = pc[q] /\ op'[q] = op[q]
        BY <1>5 DEF IInv, Types, Location
    <1>7. Shaped(pc'[p], op'[p])
        BY <1>2, <1>5, <1>6 DEF Shaped
    <1>8. /\ owner' = owner /\ owner \in [Node -> Proc \cup {Nobody}]
          /\ \A n \in Node : owner[n] = p <=> Holds(p, n)
        BY DEF IInv, Types, OwnerHolds, Add
    <1>9. \A n \in Node : ~Holds(p, n)' /\ ~Holds(p, n)
        BY <1>1, <1>5, <1>6 DEF Holds
    <1>10. \A n \in Node : owner'[n] = p <=> Holds(p, n)'
        BY <1>8, <1>9
    <1>11. \A e \in Ends : (Making(p, e)' <=> Making(p, e)) /\ (Loose(p, e)' <=> Loose(p, e))
        BY <1>1, <1>2, <1>3, <1>5, <1>6 DEF Making, Loose
    <1>12. \A e \in Ends : op'[p].handle = e => op[p].handle = e \/ e \in table[p]
        BY <1>5, <1>6
    <1>13. op'[p].kind # "close" /\ op'[p].kind # "accept"
        BY <1>5, <1>6
    <1>14. /\ data' \in [Conn -> [Side -> Seq(Nat)]] /\ sent' \in [Conn -> [Side -> Nat]]
           /\ \A c \in Conn, s \in Side : Len(data'[c][s]) <= Size
           /\ UNCHANGED <<pending, made, accepted, count, table, alive, hung>>
        BY DEF IInv, Types, connVars, procVars, Add
    <1> QED
        BY <1>6, <1>7, <1>8, <1>10, <1>11, <1>12, <1>13, <1>14, LocalStep

LEMMA CancelStep ==
    ASSUME IInv, NEW p \in Proc, Cancel(p)
    PROVE  IInv'
    <1>1. UNCHANGED <<pending, made, accepted, count, data, sent, owner, table, pc, op, hung>>
          /\ alive' \subseteq alive
        BY DEF Cancel, connVars
    <1>2. Types'
        BY <1>1 DEF IInv, Types
    <1>3. PendingIsUnaccepted' /\ CallShape' /\ AcceptHasOne' /\ Known' /\ Closing'
        BY <1>1 DEF IInv, PendingIsUnaccepted, CallShape, AcceptHasOne, Known, Closing
    <1>4. OwnerHolds'
        BY <1>1 DEF IInv, OwnerHolds, Holds
    <1>5. HandleOnce'
        BY <1>1 DEF IInv, HandleOnce, Making
    <1>6. CountsMatchHandles' /\ FinitelyMany'
        BY <1>1 DEF IInv, CountsMatchHandles, FinitelyMany, Holders, Loosers, Loose
    <1> QED
        BY <1>2, <1>3, <1>4, <1>5, <1>6 DEF IInv

(* A new connection: nobody has a handle of it. *)
LEMMA UseConnectStep ==
    ASSUME IInv, NEW p \in Proc, UseConnect(p)
    PROVE  IInv'
    <1>1. /\ op[p] \in Op /\ op[p].node \in Node /\ op[p].handle \in Handle
          /\ Shaped(pc[p], op[p]) /\ pc[p] = "in" /\ op[p].kind = "connect"
        BY Shapes DEF UseConnect, At
    <1>2. op[p].handle = Listener /\ op[p].node = Sock
        BY <1>1 DEF Shaped
    <1>3. PICK c \in Conn \ made :
              /\ made' = made \cup {c}
              /\ pending' = Append(pending, c)
              /\ op' = [op EXCEPT ![p].handle = [node |-> c, side |-> "client"]]
        BY DEF UseConnect
    <1>4. PICK h : h = [node |-> c, side |-> "client"]
        OBVIOUS
    <1>5. h \in Ends /\ h.node = c /\ h.side = "client"
        BY <1>4, HandleFacts
    <1>6. PICK o : o = [op[p] EXCEPT !.handle = h]
        OBVIOUS
    <1>7. /\ o \in Op /\ o.kind = "connect" /\ o.handle = h /\ o.node = Sock
          /\ op' = [op EXCEPT ![p] = o] /\ pc' = [pc EXCEPT ![p] = "done"]
        <2>1. o \in Op /\ o.kind = "connect" /\ o.handle = h /\ o.node = Sock
            BY <1>1, <1>2, <1>5, <1>6 DEF Op, Handle
        <2>2. op \in [Proc -> Op]
            BY DEF IInv, Types
        <2> QED
            BY <1>3, <1>4, <1>6, <2>1, <2>2 DEF UseConnect, Goto
    <1>8. /\ pc' \in [Proc -> Location] /\ op' \in [Proc -> Op]
          /\ pc'[p] = "done" /\ op'[p] = o
          /\ \A q \in Proc : q # p => pc'[q] = pc[q] /\ op'[q] = op[q]
        BY <1>7 DEF IInv, Types, Location
    <1>9. /\ UNCHANGED <<accepted, count, data, sent, owner, table, alive, hung>>
          /\ pending \in Seq(Conn) /\ made \subseteq Conn
          /\ accepted \in [Conn -> BOOLEAN]
        BY DEF UseConnect, procVars, IInv, Types
    <1>10. Types'
        <2>1. pending' \in Seq(Conn) /\ made' \subseteq Conn
            BY <1>3, <1>9
        <2> QED
            BY <1>8, <1>9, <2>1 DEF IInv, Types
    <1>11. ~accepted[c]
        BY <1>3 DEF IInv, Known
    <1>12. PendingIsUnaccepted'
        <2>1. /\ \A i, j \in 1 .. Len(pending) : pending[i] = pending[j] => i = j
              /\ {pending[i] : i \in 1 .. Len(pending)} = {d \in made : ~accepted[d]}
            BY DEF IInv, PendingIsUnaccepted
        <2>2. /\ Len(pending) \in Nat
              /\ Len(pending') = Len(pending) + 1
              /\ pending'[Len(pending) + 1] = c
              /\ \A i \in 1 .. Len(pending) : pending'[i] = pending[i]
            BY <1>3, <1>9
        <2>3. PICK n \in Nat : n = Len(pending)
            BY <2>2
        <2>4. \A i \in 1 .. n : pending[i] # c
            BY <1>3, <2>1, <2>3
        <2>5. \A i \in 1 .. n + 1 : i \in 1 .. n \/ i = n + 1
            OBVIOUS
        <2>6. \A i, j \in 1 .. n + 1 : pending'[i] = pending'[j] => i = j
            BY <2>1, <2>2, <2>3, <2>4, <2>5
        <2>7. {pending'[i] : i \in 1 .. n + 1} = {pending[i] : i \in 1 .. n} \cup {c}
            <3>1. \A i \in 1 .. n : i \in 1 .. n + 1
                OBVIOUS
            <3>2. n + 1 \in 1 .. n + 1
                OBVIOUS
            <3> QED
                BY <2>2, <2>3, <2>5, <3>1, <3>2
        <2>8. {d \in made' : ~accepted'[d]} = {d \in made : ~accepted[d]} \cup {c}
            BY <1>3, <1>9, <1>11
        <2> QED
            BY <2>1, <2>2, <2>3, <2>6, <2>7, <2>8 DEF PendingIsUnaccepted
    <1>13. CallShape'
        <2>1. Shaped("done", o)
            BY <1>5, <1>7 DEF Shaped
        <2> QED
            BY <1>8, <2>1 DEF IInv, CallShape
    <1>14. OwnerHolds'
        <2>1. \A n \in Node : Holds(p, n)' <=> Holds(p, n)
            BY <1>1, <1>2, <1>7, <1>8 DEF Holds
        <2>2. \A n \in Node : owner'[n] = p <=> Holds(p, n)'
            BY <1>9, <2>1 DEF IInv, OwnerHolds
        <2> QED
            BY <1>8, <1>9, <2>2, OwnerStep
    <1>15. AcceptHasOne'
        <2>1. pending' # <<>>
            BY <1>3, <1>9
        <2> QED
            BY <2>1 DEF AcceptHasOne
    <1>16. \A q \in Proc : h \notin table[q] /\ op[q].handle # h
        BY <1>3, <1>5 DEF IInv, Known
    <1>17. \A e \in Ends, q \in Proc :
               /\ Making(q, e)' <=> (Making(q, e) \/ (q = p /\ e = h))
               /\ table'[q] = table[q]
        <2>1. \A e \in Ends : ~Making(p, e)
            BY <1>2, HandleFacts DEF Making
        <2>2. \A e \in Ends : Making(p, e)' <=> e = h
            BY <1>7, <1>8 DEF Making
        <2>3. \A e \in Ends, q \in Proc : q # p => (Making(q, e)' <=> Making(q, e))
            BY <1>8 DEF Making
        <2> QED
            BY <1>9, <2>1, <2>2, <2>3
    <1>18. HandleOnce'
        <2>1. \A q \in Proc : ~Making(q, h)
            BY <1>16 DEF Making
        <2> QED
            BY <1>16, <1>17, <2>1 DEF IInv, HandleOnce
    <1>19. Known'
        <2>1. \A d \in Conn : accepted'[d] => d \in made'
            BY <1>3, <1>9 DEF IInv, Known
        <2>2. ASSUME NEW e \in Ends, NEW q \in Proc, e \in table'[q] \/ op'[q].handle = e
              PROVE  e.node \in made' /\ (e.side = "server" => accepted'[e.node])
            <3>1. CASE q = p /\ e = h
                BY <1>3, <1>5, <3>1
            <3>2. CASE ~(q = p /\ e = h)
                <4>1. e \in table[q] \/ op[q].handle = e
                    BY <1>7, <1>8, <1>9, <2>2, <3>2
                <4>2. e.node \in made /\ (e.side = "server" => accepted[e.node])
                    BY <4>1 DEF IInv, Known
                <4> QED
                    BY <1>3, <1>9, <4>2
            <3> QED
                BY <3>1, <3>2
        <2> QED
            BY <2>1, <2>2 DEF Known
    <1>20. Closing'
        BY <1>7, <1>8, <1>9 DEF IInv, Closing
    <1>21. CountsMatchHandles' /\ FinitelyMany'
        <2>1. \A e \in Ends : Holders(e)' = Holders(e)
            BY <1>9 DEF Holders
        <2>2. \A e \in Ends, q \in Proc : Loose(q, e)' <=> Loose(q, e)
            <3>1. \A e \in Ends : ~Loose(p, e)
                BY <1>2, HandleFacts DEF Loose
            <3>2. \A e \in Ends : ~Loose(p, e)'
                <4>1. \A e \in Ends : e.node # Sock
                    BY HandleFacts
                <4> QED
                    BY <1>7, <1>8, <4>1 DEF Loose
            <3>3. \A e \in Ends, q \in Proc : q # p => (Loose(q, e)' <=> Loose(q, e))
                BY <1>8 DEF Loose
            <3> QED
                BY <3>1, <3>2, <3>3
        <2>3. \A e \in Ends : Loosers(e)' = Loosers(e)
            BY <2>2 DEF Loosers
        <2> QED
            BY <1>9, <2>1, <2>3, CountKept
    <1> QED
        BY <1>10, <1>12, <1>13, <1>14, <1>15, <1>18, <1>19, <1>20, <1>21 DEF IInv
-----------------------------------------------------------------------------
(* The connection an accept takes is the last of _pending, and nobody has  *)
(* a handle of its server yet.                                             *)
LEMMA Accepting ==
    ASSUME IInv, NEW p \in Proc, UseAccept(p)
    PROVE  \E c \in made, h \in Ends, o \in Op, n \in Nat :
               /\ Len(pending) = n + 1 /\ pending[n + 1] = c /\ ~accepted[c]
               /\ pending' = SubSeq(pending, 1, n)
               /\ accepted' = [accepted EXCEPT ![c] = TRUE]
               /\ h.node = c /\ h.side = "server"
               /\ op[p].kind = "accept" /\ op[p].handle = Listener /\ op[p].node = Sock
               /\ pc[p] = "in"
               /\ o.kind = "accept" /\ o.handle = h /\ o.node = Sock
               /\ op' = [op EXCEPT ![p] = o] /\ pc' = [pc EXCEPT ![p] = "ref"]
    <1>1. /\ op[p] \in Op /\ op[p].node \in Node /\ op[p].handle \in Handle
          /\ Shaped(pc[p], op[p]) /\ pc[p] = "in" /\ op[p].kind = "accept"
        BY Shapes DEF UseAccept, At
    <1>2. op[p].handle = Listener /\ op[p].node = Sock
        BY <1>1 DEF Shaped
    <1>3. pending # <<>> /\ pending \in Seq(Conn) /\ made \subseteq Conn
        BY <1>1 DEF IInv, AcceptHasOne, Types
    <1>4. PICK n \in Nat : Len(pending) = n + 1
        <2>1. Len(pending) \in Nat /\ Len(pending) # 0
            BY <1>3
        <2>2. Len(pending) - 1 \in Nat /\ Len(pending) = (Len(pending) - 1) + 1
            BY <2>1
        <2> QED
            BY <2>2
    <1>5. PICK c : c = pending[n + 1]
        OBVIOUS
    <1>6. c \in made /\ ~accepted[c] /\ c \in Conn
        <2>1. n + 1 \in 1 .. Len(pending)
            BY <1>4
        <2> QED
            BY <1>3, <1>5, <2>1 DEF IInv, PendingIsUnaccepted
    <1>7. PICK h : h = [node |-> c, side |-> "server"]
        OBVIOUS
    <1>8. h \in Ends /\ h.node = c /\ h.side = "server"
        BY <1>6, <1>7, HandleFacts
    <1>9. PICK o : o = [op[p] EXCEPT !.handle = h]
        OBVIOUS
    <1>10. o \in Op /\ o.kind = "accept" /\ o.handle = h /\ o.node = Sock
        BY <1>1, <1>2, <1>8, <1>9 DEF Op, Handle
    <1>11. (n + 1) - 1 = n
        OBVIOUS
    <1>12. /\ pending' = SubSeq(pending, 1, n)
           /\ accepted' = [accepted EXCEPT ![c] = TRUE]
           /\ op' = [op EXCEPT ![p].handle = h]
           /\ pc' = [pc EXCEPT ![p] = "ref"]
        BY <1>4, <1>5, <1>7, <1>11 DEF UseAccept, Goto
    <1>13. op' = [op EXCEPT ![p] = o]
        BY <1>9, <1>12 DEF IInv, Types
    <1> QED
        BY <1>1, <1>2, <1>4, <1>5, <1>6, <1>8, <1>10, <1>12, <1>13

LEMMA UseAcceptStep ==
    ASSUME IInv, NEW p \in Proc, UseAccept(p)
    PROVE  IInv'
    <1>1. PICK c \in made, h \in Ends, o \in Op, n \in Nat :
               /\ Len(pending) = n + 1 /\ pending[n + 1] = c /\ ~accepted[c]
               /\ pending' = SubSeq(pending, 1, n)
               /\ accepted' = [accepted EXCEPT ![c] = TRUE]
               /\ h.node = c /\ h.side = "server"
               /\ op[p].kind = "accept" /\ op[p].handle = Listener /\ op[p].node = Sock
               /\ pc[p] = "in"
               /\ o.kind = "accept" /\ o.handle = h /\ o.node = Sock
               /\ op' = [op EXCEPT ![p] = o] /\ pc' = [pc EXCEPT ![p] = "ref"]
        BY Accepting
    <1>2. /\ pc' \in [Proc -> Location] /\ op' \in [Proc -> Op]
          /\ pc'[p] = "ref" /\ op'[p] = o
          /\ \A q \in Proc : q # p => pc'[q] = pc[q] /\ op'[q] = op[q]
        BY <1>1 DEF IInv, Types, Location
    <1>3. /\ UNCHANGED <<made, count, data, sent, owner, table, alive, hung>>
          /\ pending \in Seq(Conn) /\ made \subseteq Conn
          /\ accepted \in [Conn -> BOOLEAN]
        BY DEF UseAccept, procVars, IInv, Types
    <1>4. /\ accepted' \in [Conn -> BOOLEAN]
          /\ \A d \in Conn : accepted'[d] <=> (accepted[d] \/ d = c)
        BY <1>1, <1>3
    <1>5. /\ pending' \in Seq(Conn) /\ Len(pending') = n
          /\ \A i \in 1 .. n : pending'[i] = pending[i]
        <2>1. n \in 0 .. Len(pending)
            BY <1>1
        <2> QED
            BY <1>1, <1>3, <2>1
    <1>6. Types'
        BY <1>2, <1>3, <1>4, <1>5 DEF IInv, Types
    <1>7. PendingIsUnaccepted'
        <2>1. /\ \A i, j \in 1 .. n + 1 : pending[i] = pending[j] => i = j
              /\ {pending[i] : i \in 1 .. n + 1} = {d \in made : ~accepted[d]}
            BY <1>1 DEF IInv, PendingIsUnaccepted
        <2>2. \A i : i \in 1 .. n + 1 <=> (i \in 1 .. n \/ i = n + 1)
            OBVIOUS
        <2>3. n + 1 \notin 1 .. n
            OBVIOUS
        <2>4. \A i, j \in 1 .. n : pending'[i] = pending'[j] => i = j
            BY <1>5, <2>1, <2>2
        <2>5. \A i \in 1 .. n : pending[i] # c
            BY <1>1, <2>1, <2>2, <2>3
        <2>6. {pending'[i] : i \in 1 .. n} = {pending[i] : i \in 1 .. n + 1} \ {c}
            BY <1>1, <1>5, <2>2, <2>5
        <2>7. {d \in made' : ~accepted'[d]} = {d \in made : ~accepted[d]} \ {c}
            BY <1>3, <1>4
        <2> QED
            BY <1>5, <2>1, <2>4, <2>6, <2>7 DEF PendingIsUnaccepted
    <1>8. CallShape'
        <2>1. Shaped("ref", o)
            BY <1>1 DEF Shaped
        <2> QED
            BY <1>2, <2>1 DEF IInv, CallShape
    <1>9. \A q \in Proc, m \in Node : owner[m] = q <=> Holds(q, m)
        BY DEF IInv, OwnerHolds
    <1>10. OwnerHolds'
        <2>1. \A m \in Node : Holds(p, m)' <=> Holds(p, m)
            BY <1>1, <1>2 DEF Holds
        <2>2. \A m \in Node : owner'[m] = p <=> Holds(p, m)'
            BY <1>3, <1>9, <2>1
        <2> QED
            BY <1>2, <1>3, <2>2, OwnerStep
    <1>11. AcceptHasOne'
        <2>1. ASSUME NEW q \in Proc, pc'[q] = "in", op'[q].kind = "accept"
              PROVE  FALSE
            <3>1. q # p /\ pc[q] = "in" /\ op[q].kind = "accept"
                BY <1>2, <2>1
            <3>2. op[q].node = Sock
                BY <3>1, Shapes DEF Shaped
            <3>3. Holds(q, Sock) /\ Holds(p, Sock)
                BY <1>1, <3>1, <3>2 DEF Holds
            <3> QED
                BY <1>9, <3>1, <3>3, HandleFacts
        <2> QED
            BY <2>1 DEF AcceptHasOne
    <1>12. \A q \in Proc : h \notin table[q] /\ op[q].handle # h
        BY <1>1 DEF IInv, Known
    <1>13. \A e \in Ends, q \in Proc :
               /\ Making(q, e)' <=> (Making(q, e) \/ (q = p /\ e = h))
               /\ table'[q] = table[q]
        <2>1. \A e \in Ends : ~Making(p, e)
            BY <1>1, HandleFacts DEF Making
        <2>2. \A e \in Ends : Making(p, e)' <=> e = h
            BY <1>1, <1>2 DEF Making
        <2>3. \A e \in Ends, q \in Proc : q # p => (Making(q, e)' <=> Making(q, e))
            BY <1>2 DEF Making
        <2> QED
            BY <1>3, <2>1, <2>2, <2>3
    <1>14. HandleOnce'
        <2>1. \A q \in Proc : ~Making(q, h)
            BY <1>12 DEF Making
        <2> QED
            BY <1>12, <1>13, <2>1 DEF IInv, HandleOnce
    <1>15. Known'
        <2>1. \A d \in Conn : accepted'[d] => d \in made'
            BY <1>3, <1>4 DEF IInv, Known
        <2>2. ASSUME NEW e \in Ends, NEW q \in Proc, e \in table'[q] \/ op'[q].handle = e
              PROVE  e.node \in made' /\ (e.side = "server" => accepted'[e.node])
            <3>0. e.node \in Conn
                BY HandleFacts
            <3>1. CASE q = p /\ e = h
                BY <1>1, <1>3, <1>4, <3>0, <3>1
            <3>2. CASE ~(q = p /\ e = h)
                <4>1. e \in table[q] \/ op[q].handle = e
                    BY <1>1, <1>2, <1>3, <2>2, <3>2
                <4>2. e.node \in made /\ (e.side = "server" => accepted[e.node])
                    BY <4>1 DEF IInv, Known
                <4> QED
                    BY <1>3, <1>4, <3>0, <4>2
            <3> QED
                BY <3>1, <3>2
        <2> QED
            BY <2>1, <2>2 DEF Known
    <1>16. Closing'
        BY <1>1, <1>2, <1>3 DEF IInv, Closing
    <1>17. CountsMatchHandles' /\ FinitelyMany'
        <2>1. \A e \in Ends : Holders(e)' = Holders(e)
            BY <1>3 DEF Holders
        <2>2. \A e \in Ends : ~Loose(p, e) /\ ~Loose(p, e)'
            BY <1>1, <1>2, HandleFacts DEF Loose
        <2>3. \A e \in Ends, q \in Proc : q # p => (Loose(q, e)' <=> Loose(q, e))
            BY <1>2 DEF Loose
        <2>4. \A e \in Ends : Loosers(e)' = Loosers(e)
            BY <2>2, <2>3 DEF Loosers
        <2> QED
            BY <1>3, <2>1, <2>4, CountKept
    <1> QED
        BY <1>6, <1>7, <1>8, <1>10, <1>11, <1>14, <1>15, <1>16, <1>17 DEF IInv
-----------------------------------------------------------------------------
(* p constructs the handle it makes. *)
LEMMA RefStep ==
    ASSUME IInv, NEW p \in Proc, Ref(p)
    PROVE  IInv'
    <1>1. /\ op[p] \in Op /\ op[p].node \in Node /\ op[p].handle \in Handle
          /\ Shaped(pc[p], op[p]) /\ pc[p] = "ref"
        BY Shapes DEF Ref, At
    <1>2. PICK h \in Ends : h = op[p].handle
        BY <1>1 DEF Op, Kind, Shaped
    <1>3. /\ op[p].kind \in {"accept", "connect"} /\ op[p].node = Sock
          /\ h.node \in Conn /\ h.side \in Side /\ h.node # Sock /\ h.node \in Node
        BY <1>1, <1>2, HandleFacts DEF Op, Kind, Shaped
    <1>4. PICK o : o = [op[p] EXCEPT !.node = h.node]
        OBVIOUS
    <1>5. /\ o \in Op /\ o.kind = op[p].kind /\ o.handle = h /\ o.node = h.node
          /\ op' = [op EXCEPT ![p] = o] /\ pc' = [pc EXCEPT ![p] = "spin"]
        <2>1. o \in Op /\ o.kind = op[p].kind /\ o.handle = h /\ o.node = h.node
            BY <1>1, <1>2, <1>3, <1>4 DEF Op
        <2>2. op \in [Proc -> Op]
            BY DEF IInv, Types
        <2> QED
            BY <1>2, <1>4, <2>1, <2>2 DEF Ref, Goto
    <1>6. /\ pc' \in [Proc -> Location] /\ op' \in [Proc -> Op]
          /\ pc'[p] = "spin" /\ op'[p] = o
          /\ \A q \in Proc : q # p => pc'[q] = pc[q] /\ op'[q] = op[q]
        BY <1>5 DEF IInv, Types, Location
    <1>7. /\ UNCHANGED <<pending, made, accepted, data, sent, owner, table, alive, hung>>
          /\ count' = [count EXCEPT ![h.node][h.side] = @ + 1]
        BY <1>2 DEF Ref, procVars
    <1>8. count \in [Conn -> [Side -> Nat]]
        BY DEF IInv, Types
    <1>9. CallShape'
        <2>1. Shaped("spin", o)
            BY <1>1, <1>2, <1>3, <1>5 DEF Shaped
        <2> QED
            BY <1>6, <2>1 DEF IInv, CallShape
    <1>10. OwnerHolds'
        <2>1. \A m \in Node : Holds(p, m)' <=> Holds(p, m)
            BY <1>1, <1>3, <1>5, <1>6 DEF Holds
        <2>2. \A m \in Node : owner'[m] = p <=> Holds(p, m)'
            BY <1>7, <2>1 DEF IInv, OwnerHolds
        <2> QED
            BY <1>6, <1>7, <2>2, OwnerStep
    <1>11. \A q \in Proc : pc'[q] = "in" => pc[q] = "in" /\ op'[q] = op[q]
        BY <1>6
    <1>12. AcceptHasOne'
        BY <1>7, <1>11 DEF IInv, AcceptHasOne
    <1>13. \A e \in Ends, q \in Proc :
               /\ Making(q, e)' <=> Making(q, e)
               /\ op'[q].handle = op[q].handle /\ op'[q].kind = op[q].kind
        BY <1>2, <1>5, <1>6 DEF Making
    <1>14. HandleOnce'
        BY <1>7, <1>13 DEF IInv, HandleOnce
    <1>15. Known'
        <2>1. \A e \in Ends, q \in Proc :
                  (e \in table'[q] \/ op'[q].handle = e) => (e \in table[q] \/ op[q].handle = e)
            BY <1>7, <1>13
        <2> QED
            BY <1>7, <2>1 DEF IInv, Known
    <1>16. Closing'
        <2>1. \A q \in Proc : op'[q].kind = "close" => op[q].kind = "close" /\ op'[q] = op[q]
            BY <1>3, <1>5, <1>6
        <2> QED
            BY <1>7, <2>1 DEF IInv, Closing
    <1>17. \A e \in Ends : Holders(e)' = Holders(e)
        BY <1>7 DEF Holders
    <1>18. \A e \in Ends, q \in Proc : Loose(q, e)' <=> (Loose(q, e) \/ (q = p /\ e = h))
        <2>1. \A e \in Ends : ~Loose(p, e)
            BY <1>1, <1>2, <1>3 DEF Loose
        <2>2. \A e \in Ends : Loose(p, e)' <=> e = h
            BY <1>3, <1>5, <1>6 DEF Loose
        <2>3. \A e \in Ends, q \in Proc : q # p => (Loose(q, e)' <=> Loose(q, e))
            BY <1>6 DEF Loose
        <2> QED
            BY <2>1, <2>2, <2>3
    <1>19. p \notin Loosers(h)
        BY <1>1, <1>2, <1>3 DEF Loosers, Loose
    <1>20. Loosers(h)' = Loosers(h) \cup {p} /\ \A e \in Ends : e # h => Loosers(e)' = Loosers(e)
        BY <1>18 DEF Loosers
    <1>21. CountsMatchHandles' /\ FinitelyMany' /\ count' \in [Conn -> [Side -> Nat]]
        <2>1. count' \in [Conn -> [Side -> Int]]
            BY <1>3, <1>7, <1>8
        <2>2. ASSUME NEW e \in Ends
              PROVE  /\ IsFiniteSet(Holders(e)') /\ IsFiniteSet(Loosers(e)')
                     /\ count'[e.node][e.side] - count[e.node][e.side] =
                            Cardinality(Holders(e)') - Cardinality(Holders(e))
                            + (Cardinality(Loosers(e)') - Cardinality(Loosers(e)))
            <3>1. IsFiniteSet(Holders(e)) /\ IsFiniteSet(Loosers(e))
                BY DEF IInv, FinitelyMany
            <3>2. Cardinality(Holders(e)) \in Nat /\ Cardinality(Loosers(e)) \in Nat
                BY <3>1, FS_CardinalityType
            <3>3. Holders(e)' = Holders(e)
                BY <1>17
            <3>4. e.node \in Conn /\ e.side \in Side /\ count[e.node][e.side] \in Nat
                BY <1>8, HandleFacts
            <3>5. CASE e = h
                <4>1. /\ IsFiniteSet(Loosers(e)')
                      /\ Cardinality(Loosers(e)') = Cardinality(Loosers(e)) + 1
                    BY <1>19, <1>20, <3>1, <3>5, FS_AddElement
                <4>2. count'[e.node][e.side] = count[e.node][e.side] + 1
                    BY <1>3, <1>7, <1>8, <3>5
                <4> QED
                    BY <3>1, <3>2, <3>3, <3>4, <4>1, <4>2
            <3>6. CASE e # h
                <4>1. Loosers(e)' = Loosers(e)
                    BY <1>20, <3>6
                <4>2. e.node # h.node \/ e.side # h.side
                    BY <3>6 DEF Ends
                <4>3. count'[e.node][e.side] = count[e.node][e.side]
                    BY <1>3, <1>7, <1>8, <3>4, <4>2
                <4> QED
                    BY <3>1, <3>2, <3>3, <3>4, <4>1, <4>3
            <3> QED
                BY <3>5, <3>6
        <2> HIDE DEF Holders, Loosers
        <2> QED
            BY <2>1, <2>2, CountStep
    <1>22. Types'
        BY <1>6, <1>7, <1>21 DEF IInv, Types
    <1>23. PendingIsUnaccepted'
        BY <1>7 DEF IInv, PendingIsUnaccepted
    <1> QED
        BY <1>9, <1>10, <1>12, <1>14, <1>15, <1>16, <1>21, <1>22, <1>23 DEF IInv
-----------------------------------------------------------------------------
(* p's call is over: what holds of the calls of the others goes on to.     *)
LEMMA EndStep ==
    ASSUME IInv, NEW p \in Proc, End(p),
           UNCHANGED <<pending, made, accepted, data, sent, owner, alive, hung>>,
           pc[p] \in {"add", "deref"},
           table' \in [Proc -> SUBSET Handle],
           \A q \in Proc : q # p => table'[q] = table[q],
           \A e \in table'[p] : e \in table[p] \/ e = op[p].handle
    PROVE  /\ pc' \in [Proc -> Location] /\ op' \in [Proc -> Op]
           /\ pc'[p] = "idle" /\ op'[p] = NoOp
           /\ \A q \in Proc : q # p => pc'[q] = pc[q] /\ op'[q] = op[q]
           /\ \A e \in Ends : ~Making(p, e)' /\ ~Loose(p, e)'
           /\ count' \in [Conn -> [Side -> Nat]] => Types'
           /\ PendingIsUnaccepted' /\ CallShape' /\ OwnerHolds' /\ AcceptHasOne'
           /\ Known' /\ Closing'
    <1>1. /\ pc' \in [Proc -> Location] /\ op' \in [Proc -> Op]
          /\ pc'[p] = "idle" /\ op'[p] = NoOp
          /\ \A q \in Proc : q # p => pc'[q] = pc[q] /\ op'[q] = op[q]
        BY HandleFacts DEF IInv, Types, Location, End, Goto
    <1>2. \A e \in Ends : ~Making(p, e)' /\ ~Loose(p, e)'
        BY <1>1, HandleFacts DEF Making, Loose
    <1>3. count' \in [Conn -> [Side -> Nat]] => Types'
        BY <1>1 DEF IInv, Types
    <1>4. PendingIsUnaccepted'
        BY DEF IInv, PendingIsUnaccepted
    <1>5. CallShape'
        <2>1. Shaped("idle", NoOp)
            BY HandleFacts DEF Shaped
        <2> QED
            BY <1>1, <2>1 DEF IInv, CallShape
    <1>6. OwnerHolds'
        <2>1. Shaped(pc[p], op[p])
            BY Shapes
        <2>2. op[p].kind = "accept" => pc[p] = "add"
            BY <2>1 DEF Shaped
        <2>3. \A m \in Node : ~Holds(p, m)' /\ ~Holds(p, m)
            BY <1>1, <2>2, HandleFacts DEF Holds
        <2>4. \A m \in Node : owner'[m] = p <=> Holds(p, m)'
            BY <2>3 DEF IInv, OwnerHolds
        <2> QED
            BY <1>1, <2>4, OwnerStep
    <1>7. \A q \in Proc : pc'[q] = "in" => pc[q] = "in" /\ op'[q] = op[q]
        BY <1>1
    <1>8. AcceptHasOne'
        BY <1>7 DEF IInv, AcceptHasOne
    <1>9. \A e \in Ends, q \in Proc :
              (e \in table'[q] \/ op'[q].handle = e) => (e \in table[q] \/ op[q].handle = e)
        BY <1>1, HandleFacts
    <1>10. Known'
        BY <1>9 DEF IInv, Known
    <1>11. Closing'
        <2>1. \A q \in Proc : op'[q].kind = "close" =>
                  op[q].kind = "close" /\ op'[q] = op[q] /\ table'[q] = table[q]
            BY <1>1, HandleFacts
        <2> QED
            BY <2>1 DEF IInv, Closing
    <1> QED
        BY <1>1, <1>2, <1>3, <1>4, <1>5, <1>6, <1>8, <1>10, <1>11

(* p stores the handle it has made. *)
LEMMA AddStep ==
    ASSUME IInv, NEW p \in Proc, Add(p)
    PROVE  IInv'
    <1> SUFFICES ASSUME Cardinality(table[p]) < MaxHandles
                 PROVE  IInv'
        BY DropStep
    <1>1. /\ op[p] \in Op /\ op[p].node \in Node /\ op[p].handle \in Handle
          /\ Shaped(pc[p], op[p]) /\ pc[p] = "add"
        BY Shapes DEF Add, At
    <1>2. PICK h \in Ends : h = op[p].handle
        BY <1>1 DEF Op, Kind, Shaped
    <1>3. /\ op[p].kind \in {"accept", "connect"}
          /\ op[p].kind = "connect" => op[p].node = h.node
        BY <1>1, <1>2 DEF Op, Kind, Shaped
    <1>4. /\ UNCHANGED <<pending, made, accepted, count, data, sent, owner, alive, hung>>
          /\ table' = [table EXCEPT ![p] = @ \cup {h}]
          /\ End(p)
          /\ table \in [Proc -> SUBSET Handle]
        BY <1>2 DEF Add, connVars, IInv, Types
    <1>5. /\ table' \in [Proc -> SUBSET Handle]
          /\ table'[p] = table[p] \cup {h}
          /\ \A q \in Proc : q # p => table'[q] = table[q]
        BY <1>1, <1>2, <1>4
    <1>6. \A e \in table'[p] : e \in table[p] \/ e = op[p].handle
        BY <1>2, <1>5
    <1>7. /\ pc' \in [Proc -> Location] /\ op' \in [Proc -> Op]
          /\ pc'[p] = "idle" /\ op'[p] = NoOp
          /\ \A q \in Proc : q # p => pc'[q] = pc[q] /\ op'[q] = op[q]
          /\ \A e \in Ends : ~Making(p, e)' /\ ~Loose(p, e)'
          /\ count' \in [Conn -> [Side -> Nat]] => Types'
          /\ PendingIsUnaccepted' /\ CallShape' /\ OwnerHolds' /\ AcceptHasOne'
          /\ Known' /\ Closing'
        BY <1>1, <1>4, <1>5, <1>6, EndStep
    <1>8. Making(p, h) /\ (\A e \in Ends : Making(p, e) => e = h)
        BY <1>2, <1>3 DEF Making
    <1>9. h \notin table[p]
        BY <1>8 DEF IInv, HandleOnce
    <1>10. \A e \in Ends, q \in Proc :
               (e \in table'[q] \/ Making(q, e)') <=> (e \in table[q] \/ Making(q, e))
        <2>1. \A e \in Ends : e \in table'[p] <=> (e \in table[p] \/ Making(p, e))
            BY <1>5, <1>8
        <2>2. \A e \in Ends, q \in Proc : q # p => (Making(q, e)' <=> Making(q, e))
            BY <1>7 DEF Making
        <2> QED
            BY <1>5, <1>7, <2>1, <2>2
    <1>11. HandleOnce'
        <2>1. \A e \in Ends, q \in Proc : Making(q, e)' => e \notin table'[q]
            <3>1. \A e \in Ends, q \in Proc : q # p /\ Making(q, e)' => Making(q, e)
                BY <1>7 DEF Making
            <3> QED
                BY <1>5, <1>7, <3>1 DEF IInv, HandleOnce
        <2> QED
            BY <1>10, <2>1 DEF IInv, HandleOnce
    <1>12. Loose(p, h) /\ \A e \in Ends : Loose(p, e) => e = h
        BY <1>1, <1>2, <1>3 DEF Loose
    <1>13. \A e \in Ends, q \in Proc : q # p => (Loose(q, e)' <=> Loose(q, e))
        BY <1>7 DEF Loose
    <1>14. /\ Loosers(h)' = Loosers(h) \ {p} /\ p \in Loosers(h)
           /\ \A e \in Ends : e # h => Loosers(e)' = Loosers(e)
        BY <1>7, <1>12, <1>13 DEF Loosers
    <1>15. /\ Holders(h)' = Holders(h) \cup {p} /\ p \notin Holders(h)
           /\ \A e \in Ends : e # h => Holders(e)' = Holders(e)
        BY <1>5, <1>9 DEF Holders
    <1>16. CountsMatchHandles' /\ FinitelyMany' /\ count' \in [Conn -> [Side -> Nat]]
        <2>0. count \in [Conn -> [Side -> Nat]]
            BY DEF IInv, Types
        <2>1. count' \in [Conn -> [Side -> Int]]
            BY <1>4, <2>0
        <2>2. ASSUME NEW e \in Ends
              PROVE  /\ IsFiniteSet(Holders(e)') /\ IsFiniteSet(Loosers(e)')
                     /\ count'[e.node][e.side] - count[e.node][e.side] =
                            Cardinality(Holders(e)') - Cardinality(Holders(e))
                            + (Cardinality(Loosers(e)') - Cardinality(Loosers(e)))
            <3>1. IsFiniteSet(Holders(e)) /\ IsFiniteSet(Loosers(e))
                BY DEF IInv, FinitelyMany
            <3>2. Cardinality(Holders(e)) \in Nat /\ Cardinality(Loosers(e)) \in Nat
                BY <3>1, FS_CardinalityType
            <3>3. /\ count'[e.node][e.side] = count[e.node][e.side]
                  /\ count[e.node][e.side] \in Nat
                BY <1>4, <2>0, HandleFacts
            <3>4. CASE e = h
                <4>1. /\ IsFiniteSet(Loosers(e)')
                      /\ Cardinality(Loosers(e)') = Cardinality(Loosers(e)) - 1
                    BY <1>14, <3>1, <3>4, FS_RemoveElement
                <4>2. /\ IsFiniteSet(Holders(e)')
                      /\ Cardinality(Holders(e)') = Cardinality(Holders(e)) + 1
                    BY <1>15, <3>1, <3>4, FS_AddElement
                <4> QED
                    BY <3>2, <3>3, <4>1, <4>2
            <3>5. CASE e # h
                <4>1. Loosers(e)' = Loosers(e) /\ Holders(e)' = Holders(e)
                    BY <1>14, <1>15, <3>5
                <4> QED
                    BY <3>1, <3>2, <3>3, <4>1
            <3> QED
                BY <3>4, <3>5
        <2> HIDE DEF Holders, Loosers
        <2> QED
            BY <2>1, <2>2, CountStep
    <1> QED
        BY <1>7, <1>11, <1>16 DEF IInv

(* p gives back a handle: one of its table, or the one it drops. *)
LEMMA DerefStep ==
    ASSUME IInv, NEW p \in Proc, Deref(p)
    PROVE  IInv'
    <1>1. /\ op[p] \in Op /\ op[p].node \in Node /\ op[p].handle \in Handle
          /\ Shaped(pc[p], op[p]) /\ pc[p] = "deref"
        BY Shapes DEF Deref, At
    <1>2. PICK h \in Handle : h = op[p].handle
        BY <1>1
    <1>3. /\ op[p].kind \in {"close", "drop"}
          /\ op[p].kind = "drop" => h \in Ends
        BY <1>1, <1>2 DEF Op, Kind, Shaped
    <1>4. /\ UNCHANGED <<pending, made, accepted, data, sent, owner, alive, hung>>
          /\ table' = [table EXCEPT ![p] = @ \ {h}]
          /\ count' = IF h = Listener THEN count ELSE [count EXCEPT ![h.node][h.side] = @ - 1]
          /\ End(p)
          /\ table \in [Proc -> SUBSET Handle]
          /\ count \in [Conn -> [Side -> Nat]]
        BY <1>2 DEF Deref, IInv, Types
    <1>5. /\ table' \in [Proc -> SUBSET Handle]
          /\ table'[p] = table[p] \ {h}
          /\ \A q \in Proc : q # p => table'[q] = table[q]
        BY <1>4
    <1>6. \A e \in table'[p] : e \in table[p] \/ e = op[p].handle
        BY <1>5
    <1>7. /\ pc' \in [Proc -> Location] /\ op' \in [Proc -> Op]
          /\ pc'[p] = "idle" /\ op'[p] = NoOp
          /\ \A q \in Proc : q # p => pc'[q] = pc[q] /\ op'[q] = op[q]
          /\ \A e \in Ends : ~Making(p, e)' /\ ~Loose(p, e)'
          /\ count' \in [Conn -> [Side -> Nat]] => Types'
          /\ PendingIsUnaccepted' /\ CallShape' /\ OwnerHolds' /\ AcceptHasOne'
          /\ Known' /\ Closing'
        BY <1>1, <1>4, <1>5, <1>6, EndStep
    <1>8. \A e \in Ends, q \in Proc :
              /\ e \in table'[q] => e \in table[q]
              /\ Making(q, e)' => Making(q, e)
        <2>1. \A e \in Ends, q \in Proc : q # p /\ Making(q, e)' => Making(q, e)
            BY <1>7 DEF Making
        <2> QED
            BY <1>5, <1>7, <2>1
    <1>9. HandleOnce'
        BY <1>8 DEF IInv, HandleOnce
    <1>10. \A e \in Ends, q \in Proc : q # p => (Loose(q, e)' <=> Loose(q, e))
        BY <1>7 DEF Loose
    <1>11. \A e \in Ends : Loose(p, e) <=> op[p].kind = "drop" /\ e = h
        BY <1>2, <1>3 DEF Loose
    <1>12. \A e \in Ends : e # h => Loosers(e)' = Loosers(e) /\ Holders(e)' = Holders(e)
        BY <1>5, <1>7, <1>10, <1>11 DEF Loosers, Holders
    <1>13. h \in Ends => /\ Loosers(h)' = Loosers(h) \ {p}
                         /\ Holders(h)' = Holders(h) \ {p}
        BY <1>5, <1>7, <1>10 DEF Loosers, Holders
    <1>14. /\ op[p].kind = "drop" => p \in Loosers(h) /\ p \notin Holders(h)
           /\ op[p].kind = "close" /\ h \in Ends => p \notin Loosers(h) /\ p \in Holders(h)
        <2>1. CASE op[p].kind = "drop"
            <3>1. Making(p, h) /\ h \in Ends
                BY <1>2, <1>3, <2>1 DEF Making
            <3>2. h \notin table[p]
                BY <3>1 DEF IInv, HandleOnce
            <3> QED
                BY <1>11, <2>1, <3>1, <3>2 DEF Loosers, Holders
        <2>2. CASE op[p].kind = "close"
            <3>1. h \in table[p]
                BY <1>2, <2>2 DEF IInv, Closing
            <3> QED
                BY <1>11, <2>2, <3>1 DEF Loosers, Holders
        <2> QED
            BY <1>3, <2>1, <2>2
    <1>15. CountsMatchHandles' /\ FinitelyMany' /\ count' \in [Conn -> [Side -> Nat]]
        <2>1. count' \in [Conn -> [Side -> Int]]
            <3>1. CASE h = Listener
                BY <1>4, <3>1
            <3>2. CASE h # Listener
                <4>1. h.node \in Conn /\ h.side \in Side
                    BY <3>2, HandleFacts
                <4> QED
                    BY <1>4, <3>2, <4>1
            <3> QED
                BY <3>1, <3>2
        <2>2. ASSUME NEW e \in Ends
              PROVE  /\ IsFiniteSet(Holders(e)') /\ IsFiniteSet(Loosers(e)')
                     /\ count'[e.node][e.side] - count[e.node][e.side] =
                            Cardinality(Holders(e)') - Cardinality(Holders(e))
                            + (Cardinality(Loosers(e)') - Cardinality(Loosers(e)))
            <3>1. IsFiniteSet(Holders(e)) /\ IsFiniteSet(Loosers(e))
                BY DEF IInv, FinitelyMany
            <3>2. Cardinality(Holders(e)) \in Nat /\ Cardinality(Loosers(e)) \in Nat
                BY <3>1, FS_CardinalityType
            <3>3. e.node \in Conn /\ e.side \in Side /\ count[e.node][e.side] \in Nat /\ e # Listener
                BY <1>4, HandleFacts
            <3>4. CASE e = h
                <4>1. count'[e.node][e.side] = count[e.node][e.side] - 1
                    BY <1>4, <3>3, <3>4
                <4>2. CASE op[p].kind = "drop"
                    <5>1. /\ IsFiniteSet(Loosers(e)')
                          /\ Cardinality(Loosers(e)') = Cardinality(Loosers(e)) - 1
                        BY <1>13, <1>14, <3>1, <3>4, <4>2, FS_RemoveElement
                    <5>2. Holders(e)' = Holders(e)
                        BY <1>13, <1>14, <3>4, <4>2
                    <5> QED
                        BY <3>1, <3>2, <3>3, <4>1, <5>1, <5>2
                <4>3. CASE op[p].kind = "close"
                    <5>1. /\ IsFiniteSet(Holders(e)')
                          /\ Cardinality(Holders(e)') = Cardinality(Holders(e)) - 1
                        BY <1>13, <1>14, <3>1, <3>4, <4>3, FS_RemoveElement
                    <5>2. Loosers(e)' = Loosers(e)
                        BY <1>13, <1>14, <3>4, <4>3
                    <5> QED
                        BY <3>1, <3>2, <3>3, <4>1, <5>1, <5>2
                <4> QED
                    BY <1>3, <4>2, <4>3
            <3>5. CASE e # h
                <4>1. Loosers(e)' = Loosers(e) /\ Holders(e)' = Holders(e)
                    BY <1>12, <3>5
                <4>2. count'[e.node][e.side] = count[e.node][e.side]
                    <5>1. CASE h = Listener
                        BY <1>4, <5>1
                    <5>2. CASE h # Listener
                        <6>1. h \in Ends
                            BY <5>2, HandleFacts
                        <6>2. e.node # h.node \/ e.side # h.side
                            BY <3>5, <6>1 DEF Ends
                        <6> QED
                            BY <1>4, <3>3, <5>2, <6>1, <6>2, HandleFacts
                    <5> QED
                        BY <5>1, <5>2
                <4> QED
                    BY <3>1, <3>2, <3>3, <4>1, <4>2
            <3> QED
                BY <3>4, <3>5
        <2> HIDE DEF Holders, Loosers
        <2> QED
            BY <2>1, <2>2, CountStep
    <1> QED
        BY <1>7, <1>9, <1>15 DEF IInv

(* The collector closes the handles of p, or hangs. *)
LEMMA CollectStep ==
    ASSUME IInv, NEW p \in Proc, Collect(p)
    PROVE  IInv'
    <1>1. /\ UNCHANGED <<pending, made, accepted, data, sent, owner, pc, op, alive>>
          /\ table \in [Proc -> SUBSET Handle] /\ count \in [Conn -> [Side -> Nat]]
          /\ hung \in BOOLEAN
        BY DEF Collect, IInv, Types
    <1>2. \/ hung' = TRUE /\ UNCHANGED <<count, table>>
          \/ /\ op[p].kind # "close" /\ hung' = hung
             /\ count' = CloseAll(p) /\ table' = [table EXCEPT ![p] = {}]
        BY DEF Collect
    <1>3. /\ table' \in [Proc -> SUBSET Handle] /\ hung' \in BOOLEAN
          /\ \A q \in Proc : table'[q] \subseteq table[q]
          /\ \A q \in Proc : op[q].kind = "close" => table'[q] = table[q]
        BY <1>1, <1>2
    <1>4. PendingIsUnaccepted' /\ CallShape' /\ AcceptHasOne'
        BY <1>1 DEF IInv, PendingIsUnaccepted, CallShape, AcceptHasOne
    <1>5. OwnerHolds'
        BY <1>1 DEF IInv, OwnerHolds, Holds
    <1>6. HandleOnce'
        <2>1. \A e \in Ends, q \in Proc :
                  (Making(q, e)' <=> Making(q, e)) /\ (e \in table'[q] => e \in table[q])
            BY <1>1, <1>3 DEF Making
        <2> QED
            BY <2>1 DEF IInv, HandleOnce
    <1>7. Known'
        <2>1. \A e \in Ends, q \in Proc :
                  (e \in table'[q] \/ op'[q].handle = e) => (e \in table[q] \/ op[q].handle = e)
            BY <1>1, <1>3
        <2> QED
            BY <1>1, <2>1 DEF IInv, Known
    <1>8. Closing'
        BY <1>1, <1>3 DEF IInv, Closing
    <1>9. \A e \in Ends : Loosers(e)' = Loosers(e)
        BY <1>1 DEF Loosers, Loose
    <1>10. CountsMatchHandles' /\ FinitelyMany' /\ count' \in [Conn -> [Side -> Nat]]
        <2>1. CASE UNCHANGED <<count, table>>
            <3>1. \A e \in Ends : Holders(e)' = Holders(e)
                BY <2>1 DEF Holders
            <3> QED
                BY <1>1, <1>9, <2>1, <3>1, CountKept
        <2>2. CASE count' = CloseAll(p) /\ table' = [table EXCEPT ![p] = {}]
            <3>1. count' \in [Conn -> [Side -> Int]]
                BY <1>1, <2>2 DEF CloseAll
            <3>2. \A e \in Ends : Holders(e)' = Holders(e) \ {p}
                BY <1>1, <2>2 DEF Holders
            <3>3. ASSUME NEW e \in Ends
                  PROVE  /\ IsFiniteSet(Holders(e)') /\ IsFiniteSet(Loosers(e)')
                         /\ count'[e.node][e.side] - count[e.node][e.side] =
                                Cardinality(Holders(e)') - Cardinality(Holders(e))
                                + (Cardinality(Loosers(e)') - Cardinality(Loosers(e)))
                <4>1. IsFiniteSet(Holders(e)) /\ IsFiniteSet(Loosers(e))
                    BY DEF IInv, FinitelyMany
                <4>2. Cardinality(Holders(e)) \in Nat /\ Cardinality(Loosers(e)) \in Nat
                    BY <4>1, FS_CardinalityType
                <4>3. e.node \in Conn /\ e.side \in Side /\ count[e.node][e.side] \in Nat
                    BY <1>1, HandleFacts
                <4>4. Loosers(e)' = Loosers(e)
                    BY <1>9
                <4>5. [node |-> e.node, side |-> e.side] = e
                    BY DEF Ends
                <4>6. count'[e.node][e.side] =
                          IF e \in table[p] THEN count[e.node][e.side] - 1
                          ELSE count[e.node][e.side]
                    BY <2>2, <4>3, <4>5 DEF CloseAll
                <4>7. CASE e \in table[p]
                    <5>1. p \in Holders(e)
                        BY <4>7 DEF Holders
                    <5>2. /\ IsFiniteSet(Holders(e)')
                          /\ Cardinality(Holders(e)') = Cardinality(Holders(e)) - 1
                        BY <3>2, <4>1, <5>1, FS_RemoveElement
                    <5> QED
                        BY <4>1, <4>2, <4>3, <4>4, <4>6, <4>7, <5>2
                <4>8. CASE e \notin table[p]
                    <5>1. p \notin Holders(e)
                        BY <4>8 DEF Holders
                    <5>2. Holders(e)' = Holders(e)
                        BY <3>2, <5>1
                    <5> QED
                        BY <4>1, <4>2, <4>3, <4>4, <4>6, <4>8, <5>2
                <4> QED
                    BY <4>7, <4>8
            <3> HIDE DEF Holders, Loosers
            <3> QED
                BY <3>1, <3>3, CountStep
        <2> QED
            BY <1>2, <2>1, <2>2
    <1>11. Types'
        BY <1>1, <1>3, <1>10 DEF IInv, Types
    <1> QED
        BY <1>4, <1>5, <1>6, <1>7, <1>8, <1>10, <1>11 DEF IInv
-----------------------------------------------------------------------------
LEMMA InitIInv == Init => IInv
    <1> SUFFICES ASSUME Init
                 PROVE  IInv
        OBVIOUS
    <1>1. Listener \in Handle /\ {"idle"} \subseteq Location
        BY DEF Handle, Location
    <1>2. Types
        <2>1. /\ pending \in Seq(Conn) /\ made \subseteq Conn
              /\ accepted \in [Conn -> BOOLEAN] /\ count \in [Conn -> [Side -> Nat]]
              /\ sent \in [Conn -> [Side -> Nat]]
            BY DEF Init
        <2>2. /\ data \in [Conn -> [Side -> Seq(Nat)]]
              /\ \A c \in Conn, s \in Side : Len(data[c][s]) <= Size
            <3>1. <<>> \in Seq(Nat) /\ Len(<<>>) = 0
                OBVIOUS
            <3>2. \A c \in Conn, s \in Side : data[c][s] = <<>>
                BY DEF Init
            <3>3. data \in [Conn -> [Side -> Seq(Nat)]]
                BY <3>1 DEF Init
            <3> QED
                BY <3>1, <3>2, <3>3, SocketAssumption
        <2>3. /\ owner \in [Node -> Proc \cup {Nobody}]
              /\ table \in [Proc -> SUBSET Handle]
            BY <1>1 DEF Init
        <2>4. /\ pc \in [Proc -> Location] /\ op \in [Proc -> Op]
              /\ alive \subseteq Proc /\ hung \in BOOLEAN
            BY <1>1, HandleFacts DEF Init
        <2> QED
            BY <2>1, <2>2, <2>3, <2>4 DEF Types
    <1>3. \A p \in Proc : pc[p] = "idle" /\ op[p] = NoOp
        BY DEF Init
    <1>4. \A h \in Ends, p \in Proc :
              h \notin table[p] /\ op[p].handle # h /\ ~Making(p, h) /\ ~Loose(p, h)
        BY <1>3, HandleFacts DEF Init, Making, Loose
    <1>5. CallShape
        BY <1>3, HandleFacts DEF CallShape, Shaped
    <1>6. OwnerHolds
        BY <1>3, HandleFacts, SocketAssumption DEF Init, OwnerHolds, Holds
    <1>7. AcceptHasOne /\ Closing
        BY <1>3, HandleFacts DEF AcceptHasOne, Closing
    <1>8. HandleOnce
        BY <1>4 DEF HandleOnce
    <1>9. Known
        BY <1>4 DEF Init, Known
    <1>10. PendingIsUnaccepted
        BY DEF Init, PendingIsUnaccepted
    <1>11. \A h \in Ends : Holders(h) = {} /\ Loosers(h) = {}
        BY <1>4 DEF Holders, Loosers
    <1>12. IsFiniteSet({}) /\ Cardinality({}) = 0
        BY FS_EmptySet
    <1>13. FinitelyMany
        BY <1>11, <1>12 DEF FinitelyMany
    <1>14. CountsMatchHandles
        <2>1. \A h \in Ends : /\ Cardinality(Holders(h)) = 0 /\ Cardinality(Loosers(h)) = 0
                              /\ count[h.node][h.side] = 0
            BY <1>11, <1>12, HandleFacts DEF Init
        <2> QED
            BY <2>1 DEF CountsMatchHandles, Holders, Loosers
    <1> QED
        BY <1>2, <1>5, <1>6, <1>7, <1>8, <1>9, <1>10, <1>13, <1>14 DEF IInv

(* What is left alone by a step that only hangs the machine, or changes    *)
(* who may run.                                                            *)
Kept == <<pending, made, accepted, count, data, sent, owner, table, pc, op, alive>>

LEMMA StutterIInv ==
    ASSUME IInv, UNCHANGED vars \/ SystemWaits \/ \E p \in Proc : Hang(p)
    PROVE  IInv'
    <1>1. UNCHANGED Kept /\ hung' \in BOOLEAN
        BY DEF vars, SystemWaits, Hang, connVars, Kept, IInv, Types
    <1> USE DEF Kept
    <1>2. Types'
        BY <1>1 DEF IInv, Types
    <1>3. PendingIsUnaccepted' /\ CallShape' /\ AcceptHasOne' /\ Known' /\ Closing'
        BY <1>1 DEF IInv, PendingIsUnaccepted, CallShape, AcceptHasOne, Known, Closing
    <1>4. OwnerHolds'
        BY <1>1 DEF IInv, OwnerHolds, Holds
    <1>5. HandleOnce'
        BY <1>1 DEF IInv, HandleOnce, Making
    <1>6. CountsMatchHandles' /\ FinitelyMany'
        BY <1>1 DEF IInv, CountsMatchHandles, FinitelyMany, Holders, Loosers, Loose
    <1> QED
        BY <1>2, <1>3, <1>4, <1>5, <1>6 DEF IInv

LEMMA NextIInv == IInv /\ [Next]_vars => IInv'
    <1> SUFFICES ASSUME IInv, Next
                 PROVE  IInv'
        BY StutterIInv
    <1> SUFFICES ASSUME ~SystemWaits
                 PROVE  IInv'
        BY StutterIInv
    <1>1. PICK p \in Proc : Syscall(p) \/ Run(p) \/ Cancel(p) \/ Collect(p)
        BY DEF Next
    <1>2. CASE Syscall(p)
        BY <1>2, SyscallStep
    <1>3. CASE Run(p)
        BY <1>3, UnblockStep, AcquireStep, StutterIInv, ConnectedStep, UseConnectStep, UseAcceptStep,
           UseReadStep, UseWriteStep, ReleaseStep, RefStep, AddStep, DerefStep DEF Run
    <1>4. CASE Cancel(p)
        BY <1>4, CancelStep
    <1>5. CASE Collect(p)
        BY <1>5, CollectStep
    <1> QED
        BY <1>1, <1>2, <1>3, <1>4, <1>5

(* The socket and its connections always have the invariant. *)
THEOREM Invariance == Spec => []IInv
    <1>1. Init => IInv
        BY InitIInv
    <1>2. IInv /\ [Next]_vars => IInv'
        BY NextIInv
    <1> QED
        BY <1>1, <1>2, PTL DEF Spec

(* An accept never forgets a connection and never takes one twice. *)
THEOREM PendingCorrect == Spec => []PendingIsUnaccepted
    <1>1. IInv => PendingIsUnaccepted
        BY DEF IInv
    <1> QED
        BY <1>1, Invariance, PTL

(* _clients and _server count the handles that exist, whatever is canceled *)
(* and wherever.                                                           *)
THEOREM CountsCorrect == Spec => []CountsMatchHandles
    <1>1. IInv => CountsMatchHandles
        BY DEF IInv
    <1> QED
        BY <1>1, Invariance, PTL
-----------------------------------------------------------------------------
(* Each connection is a session. *)

AcceptedSet == {c \in Conn : accepted[c]}
Queue == [c \in Conn |-> [s \in Side |-> data[c][Peer(s)]]]

LEMMA PeerPeer == \A s \in Side : Peer(s) \in Side /\ Peer(Peer(s)) = s
    BY DEF Side, Peer

(* What a server has not accepted has no server. *)
LEMMA ServerAccepted ==
    ASSUME IInv, NEW c \in Conn, count[c]["server"] # 0
    PROVE  accepted[c]
    <1>1. PICK h \in Ends : h.node = c /\ h.side = "server"
        <2>1. [node |-> c, side |-> "server"] \in Ends
            BY HandleFacts
        <2> QED
            BY <2>1
    <1>2. count[c]["server"] = Cardinality(Holders(h)) + Cardinality(Loosers(h))
        BY <1>1 DEF IInv, CountsMatchHandles, Holders, Loosers
    <1>3. Cardinality({}) = 0
        BY FS_EmptySet
    <1>4. Holders(h) # {} \/ Loosers(h) # {}
        BY <1>2, <1>3
    <1>5. PICK p \in Proc : h \in table[p] \/ op[p].handle = h
        BY <1>4 DEF Holders, Loosers, Loose
    <1> QED
        BY <1>1, <1>5 DEF IInv, Known

LEMMA SessionInit == Init => SocketSession!Init
    BY PeerPeer DEF Init, SocketSession!Init

LEMMA SessionStutter ==
    ASSUME UNCHANGED <<accepted, data, sent>>
    PROVE  UNCHANGED <<AcceptedSet, Queue, sent>>
    BY DEF AcceptedSet, Queue

LEMMA SessionAccept ==
    ASSUME IInv, NEW p \in Proc, UseAccept(p)
    PROVE  \E c \in Conn : SocketSession!Accept(c)
    <1>1. PICK c \in Conn : ~accepted[c] /\ accepted' = [accepted EXCEPT ![c] = TRUE]
        BY Accepting DEF IInv, Types
    <1>2. accepted \in [Conn -> BOOLEAN] /\ UNCHANGED <<data, sent>>
        BY DEF UseAccept, IInv, Types
    <1>3. \A d \in Conn : accepted'[d] <=> (accepted[d] \/ d = c)
        BY <1>1, <1>2
    <1>4. SocketSession!Accept(c)
        BY <1>1, <1>2, <1>3 DEF SocketSession!Accept
    <1> QED
        BY <1>4

LEMMA SessionGet ==
    ASSUME IInv, NEW p \in Proc, UseRead(p)
    PROVE  \/ UNCHANGED <<accepted, data, sent>>
           \/ \E c \in Conn, s \in Side : SocketSession!Get(c, s)
    <1>1. PICK c, t, s : c = op[p].handle.node /\ t = op[p].handle.side /\ s = Peer(t)
        OBVIOUS
    <1>2. c \in Conn /\ t \in Side /\ s \in Side /\ Peer(s) = t
        BY <1>1, Shapes, HandleFacts, PeerPeer DEF UseRead, At, Shaped
    <1>3. data \in [Conn -> [Side -> Seq(Nat)]]
        BY DEF IInv, Types
    <1>4. PICK q : q = Tail(data[c][t])
        OBVIOUS
    <1>5. UNCHANGED <<accepted, sent>>
        BY DEF UseRead
    <1>6. \/ data' = data
          \/ data[c][t] = <<>> /\ data' = [data EXCEPT ![c][t] = data[c][t]]
          \/ data[c][t] # <<>> /\ data' = [data EXCEPT ![c][t] = q]
        BY <1>1, <1>2, <1>3, <1>4 DEF UseRead
    <1>7. CASE data' = data
        BY <1>5, <1>7
    <1>8. CASE data' = [data EXCEPT ![c][t] = data[c][t]]
        <2>1. data' = data
            BY <1>2, <1>3, <1>8
        <2> QED
            BY <1>5, <2>1
    <1>9. CASE data[c][t] # <<>> /\ data' = [data EXCEPT ![c][t] = q]
        <2>1. /\ Queue[c][s] = data[c][t]
              /\ Queue' = [d \in Conn |-> [r \in Side |-> data'[d][Peer(r)]]]
            BY <1>2 DEF Queue
        <2>2. \A d \in Conn, r \in Side :
                  data'[d][Peer(r)] = IF d = c /\ r = s THEN q ELSE data[d][Peer(r)]
            <3>1. \A r \in Side : Peer(r) = t <=> r = s
                BY <1>2, PeerPeer
            <3> QED
                BY <1>2, <1>3, <1>9, <3>1, PeerPeer
        <2>3. Queue' = [Queue EXCEPT ![c][s] = q]
            <3>1. [Queue EXCEPT ![c][s] = q] =
                      [d \in Conn |-> [r \in Side |->
                          IF d = c /\ r = s THEN q ELSE data[d][Peer(r)]]]
                BY <1>2 DEF Queue
            <3> QED
                BY <2>1, <2>2, <3>1
        <2>4. Queue' = [Queue EXCEPT ![c][s] = Tail(@)]
            BY <1>2, <1>4, <2>1, <2>3 DEF Queue
        <2>5. AcceptedSet' = AcceptedSet
            BY <1>5 DEF AcceptedSet
        <2>6. SocketSession!Get(c, s)
            BY <1>5, <1>9, <2>1, <2>4, <2>5 DEF SocketSession!Get, Queue, AcceptedSet
        <2> QED
            BY <1>2, <2>6
    <1> QED
        BY <1>6, <1>7, <1>8, <1>9

LEMMA SessionPut ==
    ASSUME IInv, NEW p \in Proc, UseWrite(p)
    PROVE  \/ UNCHANGED <<accepted, data, sent>>
           \/ \E c \in Conn, s \in Side : SocketSession!Put(c, s)
    <1>1. PICK c, s, t : c = op[p].handle.node /\ s = op[p].handle.side /\ t = Peer(s)
        OBVIOUS
    <1>2. /\ c \in Conn /\ t \in Side /\ s \in Side /\ Peer(s) = t
          /\ op[p].handle \in Ends
        BY <1>1, Shapes, HandleFacts, PeerPeer DEF UseWrite, At, Shaped
    <1>3. /\ data \in [Conn -> [Side -> Seq(Nat)]] /\ sent \in [Conn -> [Side -> Nat]]
          /\ Len(data[c][t]) <= Size
        BY <1>2 DEF IInv, Types
    <1>4. UNCHANGED accepted
        BY DEF UseWrite
    <1>5. PICK q : q = Append(data[c][t], sent[c][s] + 1)
        OBVIOUS
    <1>6. \/ UNCHANGED <<data, sent>>
          \/ /\ count[c][t] # 0 /\ Len(data[c][t]) # Size
             /\ data' = [data EXCEPT ![c][t] = q]
             /\ sent' = [sent EXCEPT ![c][s] = @ + 1]
        BY <1>1, <1>2, <1>3, <1>5 DEF UseWrite, Into
    <1>7. CASE UNCHANGED <<data, sent>>
        BY <1>4, <1>7
    <1>8. CASE /\ count[c][t] # 0 /\ Len(data[c][t]) # Size
               /\ data' = [data EXCEPT ![c][t] = q]
               /\ sent' = [sent EXCEPT ![c][s] = @ + 1]
        <2>1. accepted[c]
            <3>1. CASE s = "server"
                BY <1>1, <1>2, <3>1 DEF IInv, Known
            <3>2. CASE s = "client"
                <4>1. t = "server"
                    BY <1>1, <3>2 DEF Peer
                <4> QED
                    BY <1>2, <1>8, <4>1, ServerAccepted
            <3> QED
                BY <1>2, <3>1, <3>2 DEF Side
        <2>2. /\ Queue[c][s] = data[c][t]
              /\ Queue' = [d \in Conn |-> [r \in Side |-> data'[d][Peer(r)]]]
            BY <1>1, <1>2 DEF Queue
        <2>3. \A d \in Conn, r \in Side :
                  data'[d][Peer(r)] = IF d = c /\ r = s THEN q ELSE data[d][Peer(r)]
            <3>1. \A r \in Side : Peer(r) = t <=> r = s
                BY <1>1, <1>2, PeerPeer
            <3> QED
                BY <1>2, <1>3, <1>8, <3>1, PeerPeer
        <2>4. Queue' = [Queue EXCEPT ![c][s] = q]
            <3>1. [Queue EXCEPT ![c][s] = q] =
                      [d \in Conn |-> [r \in Side |->
                          IF d = c /\ r = s THEN q ELSE data[d][Peer(r)]]]
                BY <1>2 DEF Queue
            <3> QED
                BY <2>2, <2>3, <3>1
        <2>5. Queue' = [Queue EXCEPT ![c][s] = Append(@, sent[c][s] + 1)]
            BY <1>2, <1>5, <2>2, <2>4 DEF Queue
        <2>6. AcceptedSet' = AcceptedSet /\ c \in AcceptedSet
            BY <1>2, <1>4, <2>1 DEF AcceptedSet
        <2>7. Len(Queue[c][s]) < Size
            <3>1. Len(data[c][t]) \in Nat
                BY <1>2, <1>3
            <3> QED
                BY <1>3, <1>8, <2>2, <3>1, SocketAssumption
        <2>8. SocketSession!Put(c, s)
            BY <1>8, <2>5, <2>6, <2>7 DEF SocketSession!Put, Queue, AcceptedSet
        <2> QED
            BY <1>2, <2>8
    <1> QED
        BY <1>6, <1>7, <1>8

LEMMA SessionStep ==
    IInv /\ [Next]_vars => [SocketSession!Next]_<<AcceptedSet, Queue, sent>>
    <1> SUFFICES ASSUME IInv, [Next]_vars
                 PROVE  \/ UNCHANGED <<accepted, data, sent>>
                        \/ SocketSession!Next
        BY SessionStutter
    <1>1. CASE UNCHANGED vars
        BY <1>1 DEF vars, connVars
    <1>2. ASSUME NEW p \in Proc, Syscall(p) \/ Run(p) \/ Cancel(p) \/ Collect(p)
          PROVE  UNCHANGED <<accepted, data, sent>> \/ SocketSession!Next
        <2>1. CASE Syscall(p)
            BY <2>1 DEF Syscall, Connect, Accept, Read, Write, Close, connVars
        <2>2. CASE UseAccept(p)
            BY <2>2, SessionAccept DEF SocketSession!Next
        <2>3. CASE UseRead(p)
            BY <2>3, SessionGet DEF SocketSession!Next
        <2>4. CASE UseWrite(p)
            BY <2>4, SessionPut DEF SocketSession!Next
        <2>5. CASE \/ Unblock(p) \/ Acquire(p) \/ Hang(p) \/ Connected(p) \/ UseConnect(p)
                   \/ Release(p) \/ Ref(p) \/ Add(p) \/ Deref(p)
            BY <2>5
            DEF Unblock, Acquire, Hang, Connected, UseConnect, Release, Ref, Add, Deref, connVars
        <2>6. CASE Cancel(p) \/ Collect(p)
            BY <2>6 DEF Cancel, Collect, connVars
        <2> QED
            BY <1>2, <2>1, <2>2, <2>3, <2>4, <2>5, <2>6 DEF Run
    <1>3. CASE SystemWaits
        BY <1>3 DEF SystemWaits, connVars
    <1> QED
        BY <1>1, <1>2, <1>3 DEF Next

(* Each connection made to the socket is accepted once, and is two bounded *)
(* queues of messages that lose, repeat and reorder nothing from then on.  *)
THEOREM SocketImplementsSession == Spec => SessionSpec
    <1>1. Init => SocketSession!Init
        BY SessionInit
    <1>2. IInv /\ [Next]_vars => [SocketSession!Next]_<<AcceptedSet, Queue, sent>>
        BY SessionStep
    <1> QED
        BY <1>1, <1>2, Invariance, PTL DEF Spec, SessionSpec, SocketSession!Spec, AcceptedSet, Queue
====
