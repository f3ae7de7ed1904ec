--------------------------- MODULE CompositorProofs ---------------------------
(***************************************************************************)
(* The invariants of the compositor and its applications, proved for any   *)
(* number of applications, windows and calls.                              *)
(***************************************************************************)
EXTENDS Compositor, SequenceTheorems, WellFoundedInduction, TLAPS

Location == {"new", "connecting", "idle", "greetings", "ack", "position", "exiting", "goodbye"}

(* Every variable has its type, and the client that is being destroyed was *)
(* disconnected.                                                           *)
TypeOK ==
    /\ desk \in Desk
    /\ clients \in Seq(Client) /\ pending \in Seq(Client)
    /\ sweep \in 0 .. Len(clients) /\ (sweep # 0 => clients[sweep] \in desk.gone)
    /\ compositor \in {"up", "aborted", "corrupt"}
    /\ to_server \in [Client -> Seq(Message)]
    /\ pc \in [Client -> Location]
    /\ shown \in [Client -> SUBSET Id]
    /\ calls \in [Client -> Nat]
    /\ alive \subseteq Client

(* No value is twice in s. *)
Once(s) == \A i, j \in DOMAIN s : s[i] = s[j] => i = j

(* Each window of a desk d is there once and is that of a client in K. *)
Owned(d, K) == Once(d.windows) /\ \A w \in ToSet(d.windows) : w.client \in K
Well(d, K) == Owned(d, K) /\ (d.focus # NoWindow => d.focus \in ToSet(d.windows))

(* Where the connection of an application is: it is disconnected only once *)
(* it has said goodbye, and with that message all of its were handled.     *)
Placed(c) ==
    /\ pc[c] = "connecting" <=> c \in ToSet(pending)
    /\ pc[c] \in {"new", "connecting"} => c \notin ToSet(clients) /\ shown[c] = {}
    /\ pc[c] \in {"idle", "greetings", "ack", "position", "exiting"} => c \in ToSet(clients)
    /\ pc[c] = "goodbye" => /\ shown[c] = {}
                            /\ c \in desk.gone <=> to_server[c] = <<>>
                            /\ c \in desk.gone \/ c \in ToSet(clients)
    /\ c \in desk.gone => pc[c] = "goodbye"

(* A request that is answered is the last thing that an application has    *)
(* sent, and is on its way, or its answer is: never both, nor neither.     *)
PlainType == {"create", "destroy", "resolution"}
Plain(q) == \A j \in DOMAIN q : q[j].type \in PlainType
Asked(q, t) ==
    /\ q # <<>> /\ q[Len(q)].type = t
    /\ \A j \in DOMAIN q : j # Len(q) => q[j].type \in PlainType
Events(out) == \A j \in DOMAIN out : out[j] = "event"
Answered(out, a) ==
    \E i \in DOMAIN out : out[i] = a /\ \A j \in DOMAIN out : j # i => out[j] = "event"

Request == [ack |-> "flip", position |-> "mouse"]

(* What an application at location l has sent, q, and is sent, out. *)
Due(l, q, out) ==
    \/ l \in {"new", "connecting"} /\ q = <<>> /\ out = <<>>
    \/ l \in {"idle", "exiting"} /\ Plain(q) /\ Events(out)
    \/ l = "greetings" /\ q = <<>> /\ Answered(out, l)
    \/ l \in {"ack", "position"} /\ Asked(q, Request[l]) /\ Events(out)
    \/ l \in {"ack", "position"} /\ Plain(q) /\ Answered(out, l)
    \/ l = "goodbye" /\ (q = <<>> \/ Asked(q, l)) /\ Events(out)

(* What the messages in q leave of a window i that is managed, or not.     *)
Creates(m, i)  == m.type = "create" /\ m.id = i
Destroys(m, i) == m.type = "destroy" /\ m.id = i
Fate(q, i, managed) ==
    \/ \E k \in DOMAIN q : Creates(q[k], i) /\ \A j \in DOMAIN q : j > k => ~Destroys(q[j], i)
    \/ managed /\ \A j \in DOMAIN q : ~Destroys(q[j], i)

(* The windows that an application shows are those that it will have when  *)
(* all that it has sent is handled; it flips one of them.                  *)
Shows(q, sh, managed) ==
    /\ \A i \in Id : i \in sh <=> Fate(q, i, i \in managed)
    /\ \A j \in DOMAIN q : q[j].type = "flip" => q[j].id \in sh

IdsOf(d, c) == {i \in Id : [client |-> c, id |-> i] \in ToSet(d.windows)}

Consistent(c) ==
    /\ Placed(c)
    /\ Due(pc[c], to_server[c], desk.out[c])
    /\ Shows(to_server[c], shown[c], IdsOf(desk, c))

IInv ==
    /\ TypeOK
    /\ compositor = "up" =>
           /\ Well(desk, ToSet(clients))
           /\ Once(pending)
           /\ \A c \in alive : Consistent(c)
-----------------------------------------------------------------------------
(* Sequences as sets of their values. *)
LEMMA AppendFacts ==
    ASSUME NEW S, NEW s \in Seq(S), NEW e \in S
    PROVE  /\ Append(s, e) \in Seq(S) /\ ToSet(Append(s, e)) = ToSet(s) \cup {e}
           /\ Len(Append(s, e)) = Len(s) + 1 /\ DOMAIN Append(s, e) = 1 .. Len(s) + 1
           /\ \A i \in DOMAIN s : Append(s, e)[i] = s[i]
           /\ Append(s, e)[Len(s) + 1] = e
           /\ Once(s) /\ e \notin ToSet(s) => Once(Append(s, e))
    BY DEF ToSet, Once

LEMMA TailFacts ==
    ASSUME NEW S, NEW s \in Seq(S), s # <<>>
    PROVE  /\ Tail(s) \in Seq(S) /\ Head(s) = s[1] /\ s[1] \in S
           /\ Len(s) \in Nat \ {0} /\ DOMAIN s = 1 .. Len(s)
           /\ Len(Tail(s)) = Len(s) - 1 /\ DOMAIN Tail(s) = 1 .. Len(s) - 1
           /\ \A i \in 1 .. Len(s) - 1 : Tail(s)[i] = s[i + 1]
    OBVIOUS

LEMMA RemoveAtFacts ==
    ASSUME NEW S, NEW s \in Seq(S), NEW i \in DOMAIN s
    PROVE  /\ RemoveAt(s, i) \in Seq(S)
           /\ ToSet(RemoveAt(s, i)) \subseteq ToSet(s)
           /\ ToSet(s) \ {s[i]} \subseteq ToSet(RemoveAt(s, i))
           /\ Once(s) => Once(RemoveAt(s, i)) /\ s[i] \notin ToSet(RemoveAt(s, i))
    <1>1. PICK r : r = RemoveAt(s, i)
        OBVIOUS
    <1>2. Len(s) \in Nat /\ i \in 1 .. Len(s)
        OBVIOUS
    <1>3. PICK a : a = SubSeq(s, 1, i - 1)
        OBVIOUS
    <1>4. PICK b : b = SubSeq(s, i + 1, Len(s))
        OBVIOUS
    <1>5. a \in Seq(S) /\ Len(a) = i - 1 /\ \A j \in 1 .. i - 1 : a[j] = s[j]
        BY <1>2, <1>3
    <1>6. b \in Seq(S) /\ Len(b) = Len(s) - i /\ \A j \in 1 .. Len(s) - i : b[j] = s[i + j]
        BY <1>2, <1>4
    <1>7. r = a \o b
        BY <1>1, <1>3, <1>4 DEF RemoveAt
    <1>8. r \in Seq(S) /\ Len(r) = Len(s) - 1 /\ DOMAIN r = 1 .. Len(s) - 1
        BY <1>2, <1>5, <1>6, <1>7
    <1>9. \A j \in 1 .. Len(s) - 1 : r[j] = IF j < i THEN s[j] ELSE s[j + 1]
        <2>1. ASSUME NEW j \in 1 .. Len(s) - 1
              PROVE  r[j] = IF j <= Len(a) THEN a[j] ELSE b[j - Len(a)]
            BY <1>2, <1>5, <1>6, <1>7, <2>1
        <2>2. ASSUME NEW j \in 1 .. Len(s) - 1, j >= i
              PROVE  r[j] = s[j + 1]
            <3>1. j - Len(a) \in 1 .. Len(s) - i /\ i + (j - Len(a)) = j + 1 /\ ~(j <= Len(a))
                BY <1>2, <1>5, <2>2
            <3> QED
                BY <1>6, <2>1, <3>1
        <2>3. ASSUME NEW j \in 1 .. Len(s) - 1, j < i
              PROVE  r[j] = s[j]
            <3>1. j <= Len(a) /\ j \in 1 .. i - 1
                BY <1>2, <1>5, <2>3
            <3> QED
                BY <1>5, <2>1, <3>1
        <2> QED
            BY <1>2, <2>2, <2>3
    <1>10. ASSUME NEW j \in DOMAIN s, j # i
           PROVE  s[j] \in ToSet(r)
        <2>1. CASE j < i
            BY <1>2, <1>8, <1>9, <2>1 DEF ToSet
        <2>2. CASE j > i
            <3>1. j - 1 \in DOMAIN r /\ r[j - 1] = s[j]
                BY <1>2, <1>8, <1>9, <2>2
            <3> QED
                BY <3>1 DEF ToSet
        <2> QED
            BY <1>2, <1>10, <2>1, <2>2
    <1>11. ToSet(r) \subseteq ToSet(s)
        BY <1>2, <1>8, <1>9 DEF ToSet
    <1>12. ToSet(s) \ {s[i]} \subseteq ToSet(r)
        BY <1>10 DEF ToSet
    <1>13. ASSUME Once(s)
           PROVE  Once(r) /\ s[i] \notin ToSet(r)
        <2>1. \A j, k \in 1 .. Len(s) : s[j] = s[k] => j = k
            BY <1>13 DEF Once
        <2>2. s[i] \notin ToSet(r)
            <3>1. ASSUME NEW j \in DOMAIN r
                  PROVE  r[j] # s[i]
                BY <1>2, <1>8, <1>9, <2>1
            <3> QED
                BY <3>1 DEF ToSet
        <2>3. ASSUME NEW j \in DOMAIN r, NEW k \in DOMAIN r, r[j] = r[k]
              PROVE  j = k
            <3>1. j \in 1 .. Len(s) - 1 /\ k \in 1 .. Len(s) - 1
                BY <1>8
            <3>2. (IF j < i THEN s[j] ELSE s[j + 1]) = (IF k < i THEN s[k] ELSE s[k + 1])
                BY <1>9, <2>3, <3>1
            <3>3. CASE j < i /\ k < i
                BY <1>2, <2>1, <3>1, <3>2, <3>3
            <3>4. CASE j >= i /\ k >= i
                <4>1. s[j + 1] = s[k + 1] /\ j + 1 \in 1 .. Len(s) /\ k + 1 \in 1 .. Len(s)
                    BY <1>2, <3>1, <3>2, <3>4
                <4>2. j + 1 = k + 1
                    BY <2>1, <4>1
                <4> QED
                    BY <3>1, <4>2
            <3>5. CASE j < i /\ k >= i
                <4>1. s[j] = s[k + 1] /\ j \in 1 .. Len(s) /\ k + 1 \in 1 .. Len(s)
                    BY <1>2, <3>1, <3>2, <3>5
                <4>2. j = k + 1
                    BY <2>1, <4>1
                <4> QED
                    BY <1>2, <3>1, <3>5, <4>2
            <3>6. CASE j >= i /\ k < i
                <4>1. s[j + 1] = s[k] /\ j + 1 \in 1 .. Len(s) /\ k \in 1 .. Len(s)
                    BY <1>2, <3>1, <3>2, <3>6
                <4>2. j + 1 = k
                    BY <2>1, <4>1
                <4> QED
                    BY <1>2, <3>1, <3>6, <4>2
            <3> QED
                BY <1>2, <3>1, <3>3, <3>4, <3>5, <3>6
        <2> QED
            BY <2>2, <2>3 DEF Once
    <1> QED
        BY <1>1, <1>8, <1>11, <1>12, <1>13

(* RemoveFirst, of a value that is there once, takes it away. *)
LEMMA RemoveFirstFacts ==
    ASSUME NEW S, NEW s \in Seq(S), NEW e, Once(s)
    PROVE  /\ RemoveFirst(s, e) \in Seq(S)
           /\ Once(RemoveFirst(s, e))
           /\ ToSet(RemoveFirst(s, e)) = ToSet(s) \ {e}
    <1>1. CASE \E i \in 1 .. Len(s) : s[i] = e
        <2>1. PICK i \in 1 .. Len(s) : s[i] = e
            BY <1>1
        <2>2. {j \in 1 .. Len(s) : s[j] = e} = {i}
            BY <2>1 DEF Once
        <2>3. SelectInSeq(s, LAMBDA v : v = e) = i
            BY <2>2 DEF SelectInSeq, Min
        <2>4. RemoveFirst(s, e) = RemoveAt(s, i)
            BY <1>1, <2>3 DEF RemoveFirst
        <2>5. i \in DOMAIN s
            BY <2>1
        <2> QED
            BY <2>1, <2>4, <2>5, RemoveAtFacts
    <1>2. CASE ~\E i \in 1 .. Len(s) : s[i] = e
        <2>1. RemoveFirst(s, e) = s
            BY <1>2 DEF RemoveFirst
        <2> QED
            BY <1>2, <2>1 DEF ToSet
    <1> QED
        BY <1>1, <1>2

LEMMA FrontFacts ==
    ASSUME NEW S, NEW s \in Seq(S), s # <<>>
    PROVE  /\ Front(s) \in Seq(S) /\ Last(s) \in S
           /\ ToSet(s) = ToSet(Front(s)) \cup {Last(s)}
           /\ Once(s) => Once(Front(s)) /\ Last(s) \notin ToSet(Front(s))
    <1>1. Len(s) \in Nat \ {0} /\ DOMAIN s = 1 .. Len(s)
        OBVIOUS
    <1>2. /\ Front(s) \in Seq(S) /\ DOMAIN Front(s) = 1 .. Len(s) - 1
          /\ \A i \in 1 .. Len(s) - 1 : Front(s)[i] = s[i]
        BY <1>1 DEF Front
    <1>3. Last(s) = s[Len(s)] /\ Last(s) \in S
        BY <1>1 DEF Last
    <1> QED
        BY <1>1, <1>2, <1>3 DEF ToSet, Once

LEMMA LeastNumber ==
    ASSUME NEW S, S \subseteq Nat, S # {}
    PROVE  \E m \in S : \A k \in S : m <= k
    <1>1. PICK R : R = {ss \in Nat \X Nat : ss[1] < ss[2]}
        OBVIOUS
    <1>2. IsWellFoundedOn(R, Nat)
        BY <1>1, NatLessThanWellFounded DEF OpToRel
    <1>3. PICK m \in S : \A k \in S : <<k, m>> \notin R
        BY <1>2, WFMin
    <1>4. ASSUME NEW k \in S
          PROVE  m <= k
        <2>1. k \in Nat /\ m \in Nat /\ <<k, m>> \in Nat \X Nat /\ <<k, m>> \notin R
            BY <1>3
        <2>2. k < m => <<k, m>> \in R
            BY <1>1, <2>1
        <2> QED
            BY <2>1, <2>2
    <1> QED
        BY <1>3, <1>4

(* The sweep goes on to a client that is disconnected. *)
LEMMA NextGoneFacts ==
    ASSUME NEW d, NEW cs \in Seq(Client), NEW from \in Nat \ {0}
    PROVE  /\ NextGone(d, cs, from) \in 0 .. Len(cs)
           /\ NextGone(d, cs, from) # 0 => cs[NextGone(d, cs, from)] \in d.gone
    <1>1. PICK found : found = {i \in from .. Len(cs) : cs[i] \in d.gone}
        OBVIOUS
    <1>2. CASE found = {}
        BY <1>1, <1>2 DEF NextGone
    <1>3. CASE found # {}
        <2>1. Len(cs) \in Nat /\ found \subseteq Nat
            BY <1>1
        <2>2. \E i \in found : \A j \in found : i <= j
            BY <1>3, <2>1, LeastNumber
        <2>3. NextGone(d, cs, from) \in found
            BY <1>1, <1>3, <2>2 DEF NextGone
        <2> QED
            BY <1>1, <2>1, <2>3
    <1> QED
        BY <1>2, <1>3
-----------------------------------------------------------------------------
(* What the compositor does to a desk unless it answers: it sends events,  *)
(* to its clients, and finds only applications that have ended to be       *)
(* disconnected.                                                           *)
Grown(p, q) ==
    /\ Len(p) <= Len(q)
    /\ \A i \in DOMAIN p : q[i] = p[i]
    /\ \A i \in DOMAIN q : i \in DOMAIN p \/ q[i] = "event"

EventsOnly(d, e, K) ==
    /\ d.gone \subseteq e.gone
    /\ \A c \in alive : /\ c \in e.gone <=> c \in d.gone
                        /\ Grown(d.out[c], e.out[c])
                        /\ c \notin K => e.out[c] = d.out[c]

SentType == {"event", "ack", "greetings", "position"}

LEMMA DeskFacts ==
    ASSUME NEW d \in Desk
    PROVE  /\ d.windows \in Seq(Window) /\ ToSet(d.windows) \subseteq Window
           /\ d.focus \in Window \cup {NoWindow} /\ d.gone \subseteq Client
           /\ d.out \in [Client -> Seq(SentType)]
           /\ d = [windows |-> d.windows, focus |-> d.focus, gone |-> d.gone, out |-> d.out]
    BY DEF Desk, ToSet, SentType

LEMMA GrownFacts ==
    /\ \A p \in Seq(SentType) : Grown(p, p) /\ Grown(p, Append(p, "event"))
    /\ \A p, q, r \in Seq(SentType) : Grown(p, q) /\ Grown(q, r) => Grown(p, r)
    /\ \A p, q \in Seq(SentType) : Grown(p, q) /\ Events(p) => Events(q)
    /\ \A p, q \in Seq(SentType) : \A a : Grown(p, q) /\ Answered(p, a) => Answered(q, a)
    <1>1. ASSUME NEW p \in Seq(SentType)
          PROVE  Grown(p, p) /\ Grown(p, Append(p, "event"))
        <2>1. "event" \in SentType /\ Len(p) \in Nat /\ DOMAIN p = 1 .. Len(p)
            BY DEF SentType
        <2> QED
            BY <2>1, AppendFacts DEF Grown
    <1>2. ASSUME NEW p \in Seq(SentType), NEW q \in Seq(SentType), NEW r \in Seq(SentType),
                 Grown(p, q), Grown(q, r)
          PROVE  Grown(p, r)
        BY <1>2 DEF Grown
    <1>3. ASSUME NEW p \in Seq(SentType), NEW q \in Seq(SentType), Grown(p, q)
          PROVE  /\ DOMAIN p \subseteq DOMAIN q
                 /\ \A i \in DOMAIN p : q[i] = p[i]
                 /\ \A i \in DOMAIN q : i \in DOMAIN p \/ q[i] = "event"
        BY <1>3 DEF Grown
    <1>4. ASSUME NEW p \in Seq(SentType), NEW q \in Seq(SentType), Grown(p, q), Events(p)
          PROVE  Events(q)
        BY <1>3, <1>4 DEF Events
    <1>5. ASSUME NEW p \in Seq(SentType), NEW q \in Seq(SentType), NEW a, Grown(p, q), Answered(p, a)
          PROVE  Answered(q, a)
        <2>1. PICK i \in DOMAIN p : p[i] = a /\ \A j \in DOMAIN p : j # i => p[j] = "event"
            BY <1>5 DEF Answered
        <2> QED
            BY <1>3, <1>5, <2>1 DEF Answered
    <1> QED
        BY <1>1, <1>2, <1>4, <1>5

LEMMA EventsOnlyFacts ==
    ASSUME NEW K, alive \subseteq Client
    PROVE  /\ \A d \in Desk : EventsOnly(d, d, K)
           /\ \A d, e, f \in Desk : EventsOnly(d, e, K) /\ EventsOnly(e, f, K) => EventsOnly(d, f, K)
    <1>1. \A d \in Desk, c \in alive : d.out[c] \in Seq(SentType)
        BY DeskFacts
    <1>2. ASSUME NEW d \in Desk
          PROVE  EventsOnly(d, d, K)
        BY <1>1, GrownFacts DEF EventsOnly
    <1>3. ASSUME NEW d \in Desk, NEW e \in Desk, NEW f \in Desk,
                 EventsOnly(d, e, K), EventsOnly(e, f, K)
          PROVE  EventsOnly(d, f, K)
        <2>1. ASSUME NEW c \in alive
              PROVE  Grown(d.out[c], f.out[c])
            <3>1. Grown(d.out[c], e.out[c]) /\ Grown(e.out[c], f.out[c])
                BY <1>3, <2>1 DEF EventsOnly
            <3> QED
                BY <1>1, <2>1, <3>1, GrownFacts
        <2> QED
            BY <1>3, <2>1 DEF EventsOnly
    <1> QED
        BY <1>2, <1>3

(* Client::send_message. *)
LEMMA SentFacts ==
    ASSUME NEW d \in Desk, NEW c \in Client, NEW m \in SentType, alive \subseteq Client
    PROVE  /\ Sent(d, c, m) \in Desk
           /\ Sent(d, c, m).windows = d.windows /\ Sent(d, c, m).focus = d.focus
           /\ \A a \in alive : /\ a \in Sent(d, c, m).gone <=> a \in d.gone
                               /\ a # c => Sent(d, c, m).out[a] = d.out[a]
           /\ c \in alive \ d.gone => Sent(d, c, m).out[c] = Append(d.out[c], m)
           /\ \A K : m = "event" /\ c \in K => EventsOnly(d, Sent(d, c, m), K)
    <1>1. PICK e : e = Sent(d, c, m)
        OBVIOUS
    <1>2. /\ d.out \in [Client -> Seq(SentType)] /\ d.gone \subseteq Client
          /\ d = [windows |-> d.windows, focus |-> d.focus, gone |-> d.gone, out |-> d.out]
        BY DeskFacts
    <1>3. CASE c \in d.gone
        BY <1>3, EventsOnlyFacts DEF Sent
    <1>4. CASE c \notin d.gone /\ c \in alive
        <2>1. e = [d EXCEPT !.out[c] = Append(@, m)]
            BY <1>1, <1>4 DEF Sent
        <2>2. /\ e.windows = d.windows /\ e.focus = d.focus /\ e.gone = d.gone
              /\ e.out = [d.out EXCEPT ![c] = Append(@, m)]
            BY <2>1 DEF Desk
        <2>3. Append(d.out[c], m) \in Seq(SentType)
            BY <1>2
        <2>4. e.out \in [Client -> Seq(SentType)] /\ e.out[c] = Append(d.out[c], m)
              /\ \A a \in Client : a # c => e.out[a] = d.out[a]
            BY <1>2, <2>2, <2>3
        <2>5. e \in Desk
            BY <2>1, <2>4 DEF Desk, SentType
        <2>6. ASSUME NEW K, m = "event", c \in K
              PROVE  EventsOnly(d, e, K)
            BY <1>2, <2>2, <2>4, <2>6, GrownFacts DEF EventsOnly
        <2> QED
            BY <1>1, <2>2, <2>4, <2>5, <2>6
    <1>5. CASE c \notin d.gone /\ c \notin alive
        <2>1. e = [d EXCEPT !.gone = @ \cup {c}]
            BY <1>1, <1>5 DEF Sent
        <2>2. /\ e.windows = d.windows /\ e.focus = d.focus /\ e.out = d.out
              /\ e.gone = d.gone \cup {c} /\ e \in Desk
            BY <2>1 DEF Desk
        <2>3. ASSUME NEW K
              PROVE  EventsOnly(d, e, K)
            BY <1>2, <1>5, <2>2, GrownFacts DEF EventsOnly
        <2> QED
            BY <1>1, <1>5, <2>2, <2>3
    <1> QED
        BY <1>3, <1>4, <1>5
LEMMA WindowFacts ==
    /\ NoWindow \notin Window
    /\ \A w \in Window : w.client \in Client /\ w.id \in Id /\ w = [client |-> w.client, id |-> w.id]
    /\ \A c \in Client, i \in Id : [client |-> c, id |-> i] \in Window
    /\ AnyId \in Id
    BY CompositorAssumption DEF Window, AnyId

LEMMA SentToFacts ==
    ASSUME NEW d \in Desk, NEW w \in Window \cup {NoWindow}, NEW K, alive \subseteq Client,
           w # NoWindow => w.client \in K
    PROVE  LET e == SentTo(d, w, "event")
           IN  /\ e \in Desk /\ e.windows = d.windows /\ e.focus = d.focus
               /\ EventsOnly(d, e, K)
    <1>1. CASE w = NoWindow
        BY <1>1, EventsOnlyFacts DEF SentTo
    <1>2. CASE w # NoWindow
        <2>1. w.client \in Client /\ w.client \in K /\ "event" \in SentType
            BY <1>2, WindowFacts DEF SentType
        <2>2. SentTo(d, w, "event") = Sent(d, w.client, "event")
            BY <1>2 DEF SentTo
        <2> QED
            BY <2>1, <2>2, SentFacts
    <1> QED
        BY <1>1, <1>2

LEMMA InFrontFacts ==
    ASSUME NEW s \in Seq(Window), NEW w \in Window, Once(s)
    PROVE  LET t == <<w>> \o RemoveFirst(s, w)
           IN  t \in Seq(Window) /\ Once(t) /\ ToSet(t) = ToSet(s) \cup {w}
    <1>1. PICK r : r = RemoveFirst(s, w)
        OBVIOUS
    <1>2. r \in Seq(Window) /\ Once(r) /\ ToSet(r) = ToSet(s) \ {w}
        BY <1>1, RemoveFirstFacts
    <1>3. PICK t : t = <<w>> \o r
        OBVIOUS
    <1>4. /\ t \in Seq(Window) /\ Len(r) \in Nat /\ DOMAIN r = 1 .. Len(r)
          /\ DOMAIN t = 1 .. Len(r) + 1 /\ t[1] = w
          /\ \A i \in 2 .. Len(r) + 1 : t[i] = r[i - 1]
        BY <1>2, <1>3
    <1>5. \A i \in 2 .. Len(r) + 1 : i - 1 \in DOMAIN r /\ t[i] \in ToSet(r)
        BY <1>4 DEF ToSet
    <1>6. ToSet(t) = ToSet(r) \cup {w}
        <2>1. ToSet(t) \subseteq ToSet(r) \cup {w}
            <3>1. ASSUME NEW i \in DOMAIN t
                  PROVE  t[i] \in ToSet(r) \cup {w}
                <4>1. i = 1 \/ i \in 2 .. Len(r) + 1
                    BY <1>4
                <4> QED
                    BY <1>4, <1>5, <4>1
            <3> QED
                BY <3>1 DEF ToSet
        <2>2. ASSUME NEW i \in DOMAIN r
              PROVE  r[i] \in ToSet(t)
            <3>1. i + 1 \in DOMAIN t /\ t[i + 1] = r[i]
                BY <1>4
            <3> QED
                BY <3>1 DEF ToSet
        <2>3. w \in ToSet(t)
            BY <1>4 DEF ToSet
        <2> QED
            BY <2>1, <2>2, <2>3 DEF ToSet
    <1>7. Once(t)
        <2>1. ASSUME NEW i \in 2 .. Len(r) + 1, NEW j \in 2 .. Len(r) + 1, t[i] = t[j]
              PROVE  i = j
            <3>1. i - 1 \in DOMAIN r /\ j - 1 \in DOMAIN r /\ r[i - 1] = r[j - 1]
                BY <1>4, <1>5, <2>1
            <3>2. i - 1 = j - 1
                BY <1>2, <3>1 DEF Once
            <3> QED
                BY <3>2
        <2>2. \A i \in 2 .. Len(r) + 1 : t[i] # w
            BY <1>2, <1>5
        <2>3. \A i \in DOMAIN t : i = 1 \/ i \in 2 .. Len(r) + 1
            BY <1>4
        <2> QED
            BY <1>4, <2>1, <2>2, <2>3 DEF Once
    <1> QED
        BY <1>1, <1>2, <1>3, <1>4, <1>6, <1>7

(* manager_set_focus_window. *)
LEMMA FocusedFacts ==
    ASSUME NEW d \in Desk, NEW w \in Window \cup {NoWindow}, NEW K, alive \subseteq Client,
           Owned(d, K), d.focus # NoWindow => d.focus.client \in K,
           w # NoWindow => w.client \in K
    PROVE  LET e == Focused(d, w)
           IN  /\ e \in Desk /\ e.focus = w
               /\ ToSet(e.windows) = ToSet(d.windows) \cup ({w} \ {NoWindow})
               /\ Owned(e, K)
               /\ EventsOnly(d, e, K)
    <1>1. d.focus \in Window \cup {NoWindow}
        BY DeskFacts
    <1>2. PICK told : told = SentTo(d, d.focus, "event")
        OBVIOUS
    <1>3. told \in Desk /\ told.windows = d.windows /\ EventsOnly(d, told, K)
        BY <1>1, <1>2, SentToFacts
    <1>4. PICK lost : lost = [told EXCEPT !.focus = w]
        OBVIOUS
    <1>5. /\ lost \in Desk /\ lost.windows = d.windows /\ lost.focus = w
          /\ lost.gone = told.gone /\ lost.out = told.out
        BY <1>3, <1>4 DEF Desk
    <1>6. EventsOnly(d, lost, K)
        BY <1>3, <1>5 DEF EventsOnly
    <1>7. CASE w = NoWindow
        <2>1. Focused(d, w) = lost
            BY <1>2, <1>4, <1>7 DEF Focused
        <2> QED
            BY <1>5, <1>6, <1>7, <2>1 DEF Owned
    <1>8. CASE w # NoWindow
        <2>1. PICK raised : raised = [lost EXCEPT !.windows = <<w>> \o RemoveFirst(@, w)]
            OBVIOUS
        <2>2. w \in Window /\ w.client \in Client /\ w.client \in K /\ "event" \in SentType
            BY <1>8, WindowFacts DEF SentType
        <2>3. lost.windows \in Seq(Window) /\ Once(lost.windows)
            BY <1>5, DeskFacts DEF Owned
        <2>4. PICK t : t = <<w>> \o RemoveFirst(lost.windows, w)
            OBVIOUS
        <2>5. t \in Seq(Window) /\ Once(t) /\ ToSet(t) = ToSet(d.windows) \cup {w}
            BY <1>5, <2>2, <2>3, <2>4, InFrontFacts
        <2>6. /\ raised \in Desk /\ raised.windows = t /\ raised.focus = w
              /\ raised.gone = lost.gone /\ raised.out = lost.out
            BY <1>5, <2>1, <2>4, <2>5 DEF Desk
        <2>7. EventsOnly(d, raised, K)
            BY <1>6, <2>6 DEF EventsOnly
        <2>8. Focused(d, w) = Sent(raised, w.client, "event")
            BY <1>2, <1>4, <1>8, <2>1 DEF Focused
        <2>9. PICK e : e = Focused(d, w)
            OBVIOUS
        <2>10. e \in Desk /\ e.windows = t /\ e.focus = w /\ EventsOnly(raised, e, K)
            BY <2>2, <2>6, <2>8, <2>9, SentFacts
        <2>11. EventsOnly(d, e, K)
            BY <2>6, <2>7, <2>10, EventsOnlyFacts
        <2>12. Owned(e, K)
            BY <2>2, <2>5, <2>10 DEF Owned
        <2> QED
            BY <1>8, <2>5, <2>9, <2>10, <2>11, <2>12
    <1> QED
        BY <1>7, <1>8

LEMMA RaisedFacts ==
    ASSUME NEW d \in Desk, NEW w \in Window, NEW K, alive \subseteq Client, Well(d, K), w.client \in K
    PROVE  LET e == Focused(d, w)
           IN  /\ e \in Desk /\ Well(e, K) /\ EventsOnly(d, e, K)
               /\ ToSet(e.windows) = ToSet(d.windows) \cup {w}
    <1>1. d.focus # NoWindow => d.focus.client \in K
        BY DEF Well, Owned
    <1>2. w # NoWindow
        BY WindowFacts
    <1> QED
        BY <1>1, <1>2, FocusedFacts DEF Well

(* Window::~Window. *)
LEMMA UnregisteredFacts ==
    ASSUME NEW d \in Desk, NEW w \in Window, NEW K, alive \subseteq Client, Well(d, K)
    PROVE  LET e == Unregistered(d, w)
           IN  /\ e \in Desk /\ Well(e, K) /\ EventsOnly(d, e, K)
               /\ ToSet(e.windows) = ToSet(d.windows) \ {w}
    <1>1. PICK rest : rest = [d EXCEPT !.windows = RemoveFirst(@, w)]
        OBVIOUS
    <1>2. d.windows \in Seq(Window) /\ Once(d.windows)
        BY DeskFacts DEF Well, Owned
    <1>3. PICK r : r = RemoveFirst(d.windows, w)
        OBVIOUS
    <1>4. r \in Seq(Window) /\ Once(r) /\ ToSet(r) = ToSet(d.windows) \ {w}
        BY <1>2, <1>3, RemoveFirstFacts
    <1>5. /\ rest \in Desk /\ rest.windows = r /\ rest.focus = d.focus
          /\ rest.gone = d.gone /\ rest.out = d.out
        BY <1>1, <1>3, <1>4 DEF Desk
    <1>6. EventsOnly(d, rest, K)
        BY <1>5, EventsOnlyFacts DEF EventsOnly
    <1>7. Owned(rest, K) /\ (rest.focus # NoWindow => rest.focus.client \in K)
        BY <1>4, <1>5 DEF Well, Owned
    <1>8. PICK top : top = Topmost(rest)
        OBVIOUS
    <1>9. top # NoWindow => top \in ToSet(r)
        BY <1>4, <1>5, <1>8 DEF Topmost, ToSet
    <1>10. top \in Window \cup {NoWindow} /\ (top # NoWindow => top.client \in K)
        <2>1. ToSet(r) \subseteq Window
            BY <1>4 DEF ToSet
        <2> QED
            BY <1>5, <1>7, <1>9, <2>1 DEF Owned
    <1>11. PICK e : e = Focused(rest, top)
        OBVIOUS
    <1>12. /\ e \in Desk /\ e.focus = top /\ Owned(e, K) /\ EventsOnly(rest, e, K)
           /\ ToSet(e.windows) = ToSet(r) \cup ({top} \ {NoWindow})
        BY <1>5, <1>7, <1>10, <1>11, FocusedFacts
    <1>13. ToSet(e.windows) = ToSet(d.windows) \ {w} /\ (top # NoWindow => top \in ToSet(e.windows))
        BY <1>4, <1>9, <1>12
    <1>14. Well(e, K)
        BY <1>12, <1>13 DEF Well
    <1>15. EventsOnly(d, e, K)
        BY <1>5, <1>6, <1>12, EventsOnlyFacts
    <1>16. e = Unregistered(d, w)
        BY <1>1, <1>8, <1>11 DEF Unregistered
    <1> QED
        BY <1>12, <1>13, <1>14, <1>15, <1>16
-----------------------------------------------------------------------------
(* What the first message of q, and one more at its end, do. *)
LEMMA FateOfTail ==
    ASSUME NEW q \in Seq(Message), q # <<>>, NEW i, NEW b \in BOOLEAN
    PROVE  Fate(q, i, b) <=>
               Fate(Tail(q), i, Creates(Head(q), i) \/ (b /\ ~Destroys(Head(q), i)))
    <1>1. PICK t : t = Tail(q)
        OBVIOUS
    <1>2. /\ Len(q) \in Nat \ {0} /\ DOMAIN q = 1 .. Len(q) /\ Head(q) = q[1]
          /\ DOMAIN t = 1 .. Len(q) - 1
          /\ \A j \in 1 .. Len(q) - 1 : t[j] = q[j + 1]
        BY <1>1, TailFacts
    <1>3. ~(Creates(q[1], i) /\ Destroys(q[1], i))
        BY DEF Creates, Destroys
    <1>4. \A j \in 2 .. Len(q) : j - 1 \in DOMAIN t /\ t[j - 1] = q[j]
        BY <1>2
    <1>5. \A j \in DOMAIN t : j + 1 \in DOMAIN q /\ t[j] = q[j + 1]
        BY <1>2
    <1>6. (\A j \in DOMAIN q : ~Destroys(q[j], i))
              <=> (~Destroys(q[1], i) /\ \A j \in DOMAIN t : ~Destroys(t[j], i))
        <2>1. \A j \in DOMAIN q : j = 1 \/ j \in 2 .. Len(q)
            BY <1>2
        <2>2. 1 \in DOMAIN q
            BY <1>2
        <2> QED
            BY <1>4, <1>5, <2>1, <2>2
    <1>7. ASSUME NEW k \in DOMAIN t
          PROVE  (\A j \in DOMAIN q : j > k + 1 => ~Destroys(q[j], i))
                     <=> (\A j \in DOMAIN t : j > k => ~Destroys(t[j], i))
        <2>1. ASSUME \A j \in DOMAIN q : j > k + 1 => ~Destroys(q[j], i), NEW j \in DOMAIN t, j > k
              PROVE  ~Destroys(t[j], i)
            <3>1. j + 1 \in DOMAIN q /\ t[j] = q[j + 1] /\ j + 1 > k + 1
                BY <1>2, <1>5, <1>7, <2>1
            <3> QED
                BY <2>1, <3>1
        <2>2. ASSUME \A j \in DOMAIN t : j > k => ~Destroys(t[j], i), NEW j \in DOMAIN q, j > k + 1
              PROVE  ~Destroys(q[j], i)
            <3>1. j - 1 \in DOMAIN t /\ t[j - 1] = q[j] /\ j - 1 > k
                BY <1>2, <1>4, <1>7, <2>2
            <3> QED
                BY <2>2, <3>1
        <2> QED
            BY <2>1, <2>2
    <1>8. (\A j \in DOMAIN q : j > 1 => ~Destroys(q[j], i)) <=> (\A j \in DOMAIN t : ~Destroys(t[j], i))
        <2>1. \A j \in DOMAIN q : j > 1 => j \in 2 .. Len(q)
            BY <1>2
        <2>2. \A j \in DOMAIN t : j + 1 > 1
            BY <1>2
        <2> QED
            BY <1>4, <1>5, <2>1, <2>2
    <1>9. (\E k \in DOMAIN q : Creates(q[k], i) /\ \A j \in DOMAIN q : j > k => ~Destroys(q[j], i))
              <=> \/ Creates(q[1], i) /\ \A j \in DOMAIN t : ~Destroys(t[j], i)
                  \/ \E k \in DOMAIN t : Creates(t[k], i) /\ \A j \in DOMAIN t : j > k => ~Destroys(t[j], i)
        <2>1. ASSUME NEW k \in DOMAIN q, Creates(q[k], i),
                     \A j \in DOMAIN q : j > k => ~Destroys(q[j], i)
              PROVE  \/ Creates(q[1], i) /\ \A j \in DOMAIN t : ~Destroys(t[j], i)
                     \/ \E l \in DOMAIN t : Creates(t[l], i) /\ \A j \in DOMAIN t : j > l => ~Destroys(t[j], i)
            <3>1. CASE k = 1
                BY <1>8, <2>1, <3>1
            <3>2. CASE k # 1
                <4>1. k - 1 \in DOMAIN t /\ t[k - 1] = q[k] /\ (k - 1) + 1 = k
                    BY <1>2, <1>4, <3>2
                <4> QED
                    BY <1>7, <2>1, <4>1
            <3> QED
                BY <3>1, <3>2
        <2>2. 1 \in DOMAIN q
            BY <1>2
        <2>3. ASSUME NEW k \in DOMAIN t, Creates(t[k], i),
                     \A j \in DOMAIN t : j > k => ~Destroys(t[j], i)
              PROVE  \E l \in DOMAIN q : Creates(q[l], i) /\ \A j \in DOMAIN q : j > l => ~Destroys(q[j], i)
            <3>1. k + 1 \in DOMAIN q /\ t[k] = q[k + 1]
                BY <1>5
            <3> QED
                BY <1>7, <2>3, <3>1
        <2> QED
            BY <1>8, <2>1, <2>2, <2>3
    <1> QED
        BY <1>1, <1>2, <1>3, <1>6, <1>9 DEF Fate

LEMMA FateOfAppend ==
    ASSUME NEW q \in Seq(Message), NEW m \in Message, NEW i, NEW b \in BOOLEAN
    PROVE  Fate(Append(q, m), i, b) <=> (Creates(m, i) \/ (Fate(q, i, b) /\ ~Destroys(m, i)))
    <1>1. PICK t : t = Append(q, m)
        OBVIOUS
    <1>2. /\ Len(q) \in Nat /\ DOMAIN q = 1 .. Len(q) /\ DOMAIN t = 1 .. Len(q) + 1
          /\ t[Len(q) + 1] = m /\ \A j \in 1 .. Len(q) : t[j] = q[j]
        BY <1>1
    <1>3. ~(Creates(m, i) /\ Destroys(m, i))
        BY DEF Creates, Destroys
    <1>4. \A j \in DOMAIN t : j \in DOMAIN q \/ j = Len(q) + 1
        BY <1>2
    <1>5. Len(q) + 1 \in DOMAIN t /\ \A j \in DOMAIN q : j \in DOMAIN t /\ t[j] = q[j] /\ Len(q) + 1 > j
        BY <1>2
    <1>6. \A j \in DOMAIN t : ~(j > Len(q) + 1)
        BY <1>2
    <1>7. (\A j \in DOMAIN t : ~Destroys(t[j], i))
              <=> (\A j \in DOMAIN q : ~Destroys(q[j], i)) /\ ~Destroys(m, i)
        BY <1>2, <1>4, <1>5
    <1>8. ASSUME NEW k \in DOMAIN q
          PROVE  (\A j \in DOMAIN t : j > k => ~Destroys(t[j], i))
                     <=> (\A j \in DOMAIN q : j > k => ~Destroys(q[j], i)) /\ ~Destroys(m, i)
        BY <1>2, <1>4, <1>5
    <1>9. (\E k \in DOMAIN t : Creates(t[k], i) /\ \A j \in DOMAIN t : j > k => ~Destroys(t[j], i))
              <=> \/ Creates(m, i)
                  \/ /\ ~Destroys(m, i)
                     /\ \E k \in DOMAIN q : Creates(q[k], i) /\ \A j \in DOMAIN q : j > k => ~Destroys(q[j], i)
        <2>1. ASSUME NEW k \in DOMAIN t, Creates(t[k], i), \A j \in DOMAIN t : j > k => ~Destroys(t[j], i)
              PROVE  \/ Creates(m, i)
                     \/ /\ ~Destroys(m, i)
                        /\ \E l \in DOMAIN q : Creates(q[l], i) /\ \A j \in DOMAIN q : j > l => ~Destroys(q[j], i)
            <3>1. CASE k \in DOMAIN q
                BY <1>5, <1>8, <2>1, <3>1
            <3>2. CASE k = Len(q) + 1
                BY <1>2, <2>1, <3>2
            <3> QED
                BY <1>4, <3>1, <3>2
        <2>2. ASSUME Creates(m, i)
              PROVE  \E k \in DOMAIN t : Creates(t[k], i) /\ \A j \in DOMAIN t : j > k => ~Destroys(t[j], i)
            BY <1>2, <1>5, <1>6, <2>2
        <2>3. ASSUME ~Destroys(m, i), NEW k \in DOMAIN q, Creates(q[k], i),
                     \A j \in DOMAIN q : j > k => ~Destroys(q[j], i)
              PROVE  \E l \in DOMAIN t : Creates(t[l], i) /\ \A j \in DOMAIN t : j > l => ~Destroys(t[j], i)
            BY <1>5, <1>8, <2>3
        <2> QED
            BY <2>1, <2>2, <2>3
    <1> QED
        BY <1>1, <1>3, <1>7, <1>9 DEF Fate

LEMMA ShowsOfTail ==
    ASSUME NEW q \in Seq(Message), q # <<>>, NEW sh, NEW ids, NEW rest, Shows(q, sh, ids),
           \A i \in Id : i \in rest <=> Creates(Head(q), i) \/ (i \in ids /\ ~Destroys(Head(q), i))
    PROVE  Shows(Tail(q), sh, rest)
    <1>1. \A j \in DOMAIN Tail(q) : j + 1 \in DOMAIN q /\ Tail(q)[j] = q[j + 1]
        BY TailFacts
    <1>2. \A j \in DOMAIN Tail(q) : Tail(q)[j].type = "flip" => Tail(q)[j].id \in sh
        BY <1>1 DEF Shows
    <1>3. ASSUME NEW i \in Id
          PROVE  i \in sh <=> Fate(Tail(q), i, i \in rest)
        <2>1. i \in sh <=> Fate(q, i, i \in ids)
            BY DEF Shows
        <2>2. (i \in ids) \in BOOLEAN
            OBVIOUS
        <2>3. Fate(q, i, i \in ids) <=>
                  Fate(Tail(q), i, Creates(Head(q), i) \/ (i \in ids /\ ~Destroys(Head(q), i)))
            BY <2>2, FateOfTail
        <2>4. i \in rest <=> Creates(Head(q), i) \/ (i \in ids /\ ~Destroys(Head(q), i))
            OBVIOUS
        <2> QED
            BY <2>1, <2>3, <2>4 DEF Fate
    <1> QED
        BY <1>2, <1>3 DEF Shows

LEMMA ShowsOfAppend ==
    ASSUME NEW q \in Seq(Message), NEW m \in Message, NEW sh, NEW new, NEW ids, Shows(q, sh, ids),
           \A i \in Id : i \in new <=> Creates(m, i) \/ (i \in sh /\ ~Destroys(m, i)),
           \/ m.type = "flip" /\ m.id \in new /\ sh \subseteq new
           \/ m.type # "flip" /\ (sh \subseteq new \/ Plain(q))
    PROVE  Shows(Append(q, m), new, ids)
    <1>1. \A j \in DOMAIN Append(q, m) :
              \/ j \in DOMAIN q /\ Append(q, m)[j] = q[j]
              \/ Append(q, m)[j] = m
        BY AppendFacts
    <1>2. Plain(q) => \A j \in DOMAIN q : q[j].type # "flip"
        BY DEF Plain, PlainType
    <1>3. \A j \in DOMAIN Append(q, m) : Append(q, m)[j].type = "flip" => Append(q, m)[j].id \in new
        BY <1>1, <1>2 DEF Shows
    <1>4. ASSUME NEW i \in Id
          PROVE  i \in new <=> Fate(Append(q, m), i, i \in ids)
        <2>1. i \in sh <=> Fate(q, i, i \in ids)
            BY DEF Shows
        <2>2. (i \in ids) \in BOOLEAN
            OBVIOUS
        <2>3. Fate(Append(q, m), i, i \in ids)
                  <=> Creates(m, i) \/ (Fate(q, i, i \in ids) /\ ~Destroys(m, i))
            <3>1. \A b \in BOOLEAN :
                      Fate(Append(q, m), i, b) <=> Creates(m, i) \/ (Fate(q, i, b) /\ ~Destroys(m, i))
                BY FateOfAppend
            <3> QED
                BY <2>2, <3>1
        <2> QED
            BY <2>1, <2>3
    <1> QED
        BY <1>3, <1>4 DEF Shows

LEMMA PlainFacts ==
    ASSUME NEW q \in Seq(Message)
    PROVE  /\ Plain(<<>>) /\ Events(<<>>)
           /\ \A m \in Message : Plain(q) =>
                  /\ m.type \in PlainType => Plain(Append(q, m))
                  /\ Asked(Append(q, m), m.type)
           /\ q # <<>> /\ Plain(q) => Head(q).type \in PlainType /\ Plain(Tail(q))
           /\ \A t : q # <<>> /\ Asked(q, t) =>
                  \/ Head(q).type = t /\ Tail(q) = <<>>
                  \/ Head(q).type \in PlainType /\ Asked(Tail(q), t)
           /\ \A t : Asked(q, t) => q # <<>>
    <1>1. Plain(<<>>) /\ Events(<<>>)
        BY DEF Plain, Events
    <1>2. ASSUME NEW m \in Message, Plain(q)
          PROVE  /\ m.type \in PlainType => Plain(Append(q, m))
                 /\ Asked(Append(q, m), m.type)
        <2>1. \A j \in DOMAIN Append(q, m) :
                  \/ j \in DOMAIN q /\ Append(q, m)[j] = q[j]
                  \/ j = Len(Append(q, m)) /\ Append(q, m)[j] = m
            BY AppendFacts
        <2>2. Append(q, m) # <<>> /\ Append(q, m)[Len(Append(q, m))] = m
            BY AppendFacts
        <2> QED
            BY <1>2, <2>1, <2>2 DEF Plain, Asked
    <1>3. ASSUME q # <<>>
          PROVE  /\ Head(q) = q[1] /\ 1 \in DOMAIN q /\ Len(q) \in Nat \ {0}
                 /\ Tail(q) \in Seq(Message) /\ Len(Tail(q)) = Len(q) - 1
                 /\ DOMAIN Tail(q) = 1 .. Len(q) - 1
                 /\ \A j \in DOMAIN Tail(q) : j + 1 \in DOMAIN q /\ Tail(q)[j] = q[j + 1]
        BY <1>3, TailFacts
    <1>4. ASSUME q # <<>>, Plain(q)
          PROVE  Head(q).type \in PlainType /\ Plain(Tail(q))
        BY <1>3, <1>4 DEF Plain
    <1>5. ASSUME NEW t, q # <<>>, Asked(q, t)
          PROVE  \/ Head(q).type = t /\ Tail(q) = <<>>
                 \/ Head(q).type \in PlainType /\ Asked(Tail(q), t)
        <2>1. CASE Len(q) = 1
            <3>1. Head(q).type = t
                BY <1>3, <1>5, <2>1 DEF Asked
            <3>2. Tail(q) = <<>>
                BY <1>3, <1>5, <2>1, EmptySeq
            <3> QED
                BY <3>1, <3>2
        <2>2. CASE Len(q) # 1
            <3>1. Head(q).type \in PlainType
                BY <1>3, <1>5, <2>2 DEF Asked
            <3>2. Len(Tail(q)) \in DOMAIN Tail(q) /\ Len(Tail(q)) + 1 = Len(q)
                <4>1. Len(q) \in Nat \ {0} /\ Len(Tail(q)) = Len(q) - 1 /\ DOMAIN Tail(q) = 1 .. Len(q) - 1
                    BY <1>3, <1>5
                <4>2. Len(q) - 1 \in 1 .. Len(q) - 1
                    BY <2>2, <4>1
                <4> QED
                    BY <4>1, <4>2
            <3>3. Tail(q) # <<>> /\ Tail(q)[Len(Tail(q))].type = t
                BY <1>3, <1>5, <3>2 DEF Asked
            <3>4. \A j \in DOMAIN Tail(q) : j # Len(Tail(q)) => Tail(q)[j].type \in PlainType
                BY <1>3, <1>5, <3>2 DEF Asked
            <3> QED
                BY <3>1, <3>3, <3>4 DEF Asked
        <2> QED
            BY <2>1, <2>2
    <1> QED
        BY <1>1, <1>2, <1>4, <1>5 DEF Asked
LEMMA DueOfGrown ==
    ASSUME NEW l, NEW q, NEW p \in Seq(SentType), NEW r \in Seq(SentType), Due(l, q, p),
           Grown(p, r), l \in {"new", "connecting"} => r = p
    PROVE  Due(l, q, r)
    <1>1. Events(p) => Events(r)
        BY GrownFacts
    <1>2. Answered(p, l) => Answered(r, l)
        BY GrownFacts
    <1> QED
        BY <1>1, <1>2 DEF Due

LEMMA AnsweredFacts ==
    ASSUME NEW p \in Seq(SentType), NEW a \in SentType
    PROVE  /\ Events(p) => Answered(Append(p, a), a)
           /\ p # <<>> /\ Events(p) => Head(p) = "event" /\ Events(Tail(p))
           /\ p # <<>> /\ a # "event" /\ Answered(p, a) =>
                  \/ Head(p) = a /\ Events(Tail(p))
                  \/ Head(p) = "event" /\ Answered(Tail(p), a)
    <1>1. ASSUME Events(p)
          PROVE  Answered(Append(p, a), a)
        <2>1. /\ Append(p, a)[Len(p) + 1] = a /\ Len(p) + 1 \in DOMAIN Append(p, a)
              /\ \A j \in DOMAIN Append(p, a) : j # Len(p) + 1 => j \in DOMAIN p /\ Append(p, a)[j] = p[j]
            BY AppendFacts
        <2> QED
            BY <1>1, <2>1 DEF Events, Answered
    <1>2. ASSUME p # <<>>
          PROVE  /\ Head(p) = p[1] /\ 1 \in DOMAIN p
                 /\ \A j \in DOMAIN Tail(p) : j + 1 \in DOMAIN p /\ j + 1 # 1 /\ Tail(p)[j] = p[j + 1]
                 /\ \A j \in DOMAIN p : j # 1 => j - 1 \in DOMAIN Tail(p) /\ Tail(p)[j - 1] = p[j]
                 /\ \A j \in DOMAIN Tail(p) : (j + 1) - 1 = j
        BY <1>2, TailFacts
    <1>3. ASSUME p # <<>>, Events(p)
          PROVE  Head(p) = "event" /\ Events(Tail(p))
        BY <1>2, <1>3 DEF Events
    <1>4. ASSUME p # <<>>, a # "event", Answered(p, a)
          PROVE  \/ Head(p) = a /\ Events(Tail(p))
                 \/ Head(p) = "event" /\ Answered(Tail(p), a)
        <2>1. PICK i \in DOMAIN p : p[i] = a /\ \A j \in DOMAIN p : j # i => p[j] = "event"
            BY <1>4 DEF Answered
        <2>2. CASE i = 1
            BY <1>2, <1>4, <2>1, <2>2 DEF Events
        <2>3. CASE i # 1
            <3>1. i - 1 \in DOMAIN Tail(p) /\ Tail(p)[i - 1] = a
                BY <1>2, <1>4, <2>1, <2>3
            <3>2. ASSUME NEW j \in DOMAIN Tail(p), j # i - 1
                  PROVE  Tail(p)[j] = "event"
                <4>1. j + 1 # i
                    BY <1>2, <1>4, <3>2
                <4> QED
                    BY <1>2, <1>4, <2>1, <4>1
            <3> QED
                BY <1>2, <1>4, <2>1, <2>3, <3>1, <3>2 DEF Answered
        <2> QED
            BY <2>2, <2>3
    <1> QED
        BY <1>1, <1>3, <1>4
-----------------------------------------------------------------------------
(* What a step that is not about an application may change for it. *)
Aside(c) ==
    /\ pc'[c] = pc[c] /\ to_server'[c] = to_server[c] /\ shown'[c] = shown[c]
    /\ c \in ToSet(pending)' <=> c \in ToSet(pending)
    /\ c \in ToSet(clients)' => c \in ToSet(clients)
    /\ c \in ToSet(clients) /\ c \notin desk.gone => c \in ToSet(clients)'
    /\ c \in desk'.gone <=> c \in desk.gone
    /\ Grown(desk.out[c], desk'.out[c])
    /\ c \notin ToSet(clients) => desk'.out[c] = desk.out[c]
    /\ IdsOf(desk', c) = IdsOf(desk, c)

LEMMA AsideFrame ==
    ASSUME TypeOK, NEW c \in Client, Consistent(c), desk' \in Desk, Aside(c)
    PROVE  Consistent(c)'
    <1>1. Placed(c)'
        BY DEF Consistent, Placed, Aside
    <1>2. desk.out[c] \in Seq(SentType) /\ desk'.out[c] \in Seq(SentType)
        BY DeskFacts DEF TypeOK
    <1>3. pc[c] \in {"new", "connecting"} => desk'.out[c] = desk.out[c]
        BY DEF Consistent, Placed, Aside
    <1>4. Due(pc[c], to_server[c], desk'.out[c])
        BY <1>2, <1>3, DueOfGrown DEF Consistent, Aside
    <1>5. Due(pc[c], to_server[c], desk.out[c])'
        BY <1>4 DEF Aside
    <1>6. Shows(to_server'[c], shown'[c], IdsOf(desk', c))
        BY DEF Consistent, Aside
    <1>7. Shows(to_server[c], shown[c], IdsOf(desk, c))'
        BY <1>6 DEF IdsOf
    <1> QED
        BY <1>1, <1>5, <1>7 DEF Consistent

(* A round in which the compositor sends events and closes windows of      *)
(* applications that have ended.                                           *)
LEMMA QuietStep ==
    ASSUME IInv, compositor = "up", UNCHANGED <<to_server, pc, pending, appVars>>,
           desk' \in Desk, clients' \in Seq(Client), compositor' \in {"up", "aborted", "corrupt"},
           sweep' \in 0 .. Len(clients'), sweep' # 0 => clients'[sweep'] \in desk'.gone,
           Well(desk', ToSet(clients')), EventsOnly(desk, desk', ToSet(clients)),
           ToSet(clients') \subseteq ToSet(clients),
           \A c \in alive : /\ c \in ToSet(clients) /\ c \notin desk.gone => c \in ToSet(clients')
                            /\ IdsOf(desk', c) = IdsOf(desk, c)
    PROVE  IInv'
    <1>1. alive' = alive /\ pending' = pending
        BY DEF appVars
    <1>2. TypeOK'
        BY DEF IInv, TypeOK, appVars
    <1>3. ASSUME NEW c \in alive
          PROVE  Consistent(c)'
        <2>1. Aside(c)
            BY <1>3 DEF EventsOnly, Aside, appVars, ToSet
        <2>2. TypeOK /\ Consistent(c) /\ c \in Client
            BY <1>3 DEF IInv, TypeOK
        <2> QED
            BY <2>1, <2>2, AsideFrame
    <1>4. Once(pending)' /\ Well(desk, ToSet(clients))'
        BY <1>1 DEF IInv, Once, Well, Owned, ToSet
    <1> QED
        BY <1>1, <1>2, <1>3, <1>4 DEF IInv

LEMMA SweptFacts ==
    ASSUME NEW d, NEW cs \in Seq(Client), Swept(d, cs)
    PROVE  /\ desk' = d /\ clients' = cs
           /\ sweep' \in 0 .. Len(clients') /\ (sweep' # 0 => clients'[sweep'] \in desk'.gone)
    <1>1. desk' = d /\ clients' = cs /\ sweep' = NextGone(d, cs, 1)
        BY DEF Swept
    <1> QED
        BY <1>1, NextGoneFacts

(* A living application that is disconnected has no windows. *)
LEMMA GoneHasNone ==
    ASSUME IInv, compositor = "up", NEW c \in alive, c \in desk.gone
    PROVE  IdsOf(desk, c) = {}
    <1>1. Placed(c) /\ Shows(to_server[c], shown[c], IdsOf(desk, c))
        BY DEF IInv, Consistent
    <1>2. to_server[c] = <<>> /\ shown[c] = {}
        BY <1>1 DEF Placed
    <1>3. ASSUME NEW i \in Id, i \in IdsOf(desk, c)
          PROVE  FALSE
        <2>1. Fate(<<>>, i, i \in IdsOf(desk, c))
            BY <1>3 DEF Fate
        <2> QED
            BY <1>1, <1>2, <2>1 DEF Shows
    <1> QED
        BY <1>3 DEF IdsOf

LEMMA CloseWindowStep ==
    ASSUME IInv, CloseWindow
    PROVE  IInv'
    <1>1. /\ compositor = "up" /\ sweep # 0
          /\ UNCHANGED <<clients, sweep, pending, to_server, pc, appVars>>
        BY DEF CloseWindow
    <1>2. PICK i \in DOMAIN desk.windows :
              /\ desk.windows[i].client = clients[sweep]
              /\ desk' = Unregistered(desk, desk.windows[i])
              /\ compositor' \in {"up", "corrupt"}
        BY DEF CloseWindow
    <1>3. TypeOK /\ Well(desk, ToSet(clients)) /\ alive \subseteq Client /\ desk \in Desk
        BY <1>1 DEF IInv, TypeOK
    <1>4. PICK w : w = desk.windows[i]
        OBVIOUS
    <1>5. w \in Window /\ w.client = clients[sweep]
        BY <1>2, <1>3, <1>4, DeskFacts DEF ToSet
    <1>6. /\ desk' \in Desk /\ Well(desk', ToSet(clients)) /\ EventsOnly(desk, desk', ToSet(clients))
          /\ ToSet(desk'.windows) = ToSet(desk.windows) \ {w}
        BY <1>2, <1>3, <1>4, <1>5, UnregisteredFacts
    <1>7. w.client \in desk.gone /\ w \in ToSet(desk.windows)
        BY <1>1, <1>2, <1>3, <1>4, <1>5 DEF TypeOK, ToSet
    <1>8. w.client \notin alive
        <2>1. w.id \in IdsOf(desk, w.client)
            BY <1>5, <1>7, WindowFacts DEF IdsOf
        <2> QED
            BY <1>1, <1>7, <2>1, GoneHasNone
    <1>9. ASSUME NEW c \in alive
          PROVE  IdsOf(desk', c) = IdsOf(desk, c)
        <2>1. \A j \in Id : [client |-> c, id |-> j] # w
            BY <1>5, <1>8, <1>9, WindowFacts
        <2> QED
            BY <1>6, <2>1 DEF IdsOf
    <1>10. sweep' # 0 => clients'[sweep'] \in desk'.gone
        <2>1. w.client \in desk'.gone
            <3>1. desk.gone \subseteq desk'.gone
                BY <1>6 DEF EventsOnly
            <3> QED
                BY <1>7, <3>1
        <2> QED
            BY <1>1, <1>5, <2>1
    <1> QED
        BY <1>1, <1>2, <1>3, <1>6, <1>9, <1>10, QuietStep DEF TypeOK
LEMMA DestroyClientStep ==
    ASSUME IInv, DestroyClient
    PROVE  IInv'
    <1>1. /\ compositor = "up" /\ sweep # 0 /\ AllClosed(clients[sweep])
          /\ clients' = RemoveAt(clients, sweep) /\ sweep' = NextGone(desk, clients', sweep)
          /\ UNCHANGED <<desk, compositor, pending, to_server, pc, appVars>>
        BY DEF DestroyClient
    <1>2. TypeOK /\ Well(desk, ToSet(clients)) /\ alive \subseteq Client /\ desk \in Desk
        BY <1>1 DEF IInv, TypeOK
    <1>3. /\ clients \in Seq(Client) /\ sweep \in DOMAIN clients /\ sweep \in Nat \ {0}
          /\ clients[sweep] \in desk.gone
        BY <1>1, <1>2 DEF TypeOK
    <1>4. /\ clients' \in Seq(Client) /\ ToSet(clients') \subseteq ToSet(clients)
          /\ ToSet(clients) \ {clients[sweep]} \subseteq ToSet(clients')
        BY <1>1, <1>3, RemoveAtFacts
    <1>5. sweep' \in 0 .. Len(clients') /\ (sweep' # 0 => clients'[sweep'] \in desk'.gone)
        BY <1>1, <1>3, <1>4, NextGoneFacts
    <1>6. \A w \in ToSet(desk.windows) : w.client # clients[sweep]
        BY <1>1 DEF AllClosed, WindowsOf, ToSet
    <1>7. Well(desk', ToSet(clients'))
        <2>1. \A w \in ToSet(desk.windows) : w.client \in ToSet(clients')
            BY <1>2, <1>4, <1>6 DEF Well, Owned
        <2> QED
            BY <1>1, <1>2, <2>1 DEF Well, Owned
    <1>8. EventsOnly(desk, desk', ToSet(clients))
        BY <1>1, <1>2, EventsOnlyFacts
    <1>9. \A c \in alive : c \in ToSet(clients) /\ c \notin desk.gone => c \in ToSet(clients')
        BY <1>3, <1>4
    <1>10. \A c \in alive : IdsOf(desk', c) = IdsOf(desk, c)
        BY <1>1
    <1> QED
        BY <1>1, <1>2, <1>4, <1>5, <1>7, <1>8, <1>9, <1>10, QuietStep

(* A round that ends with a sweep, and sends events before that. *)
LEMMA SweptStep ==
    ASSUME IInv, compositor = "up", UNCHANGED <<compositor, pending, to_server, pc, appVars>>,
           NEW d \in Desk, Swept(d, clients),
           Well(d, ToSet(clients)), EventsOnly(desk, d, ToSet(clients)),
           ToSet(d.windows) = ToSet(desk.windows)
    PROVE  IInv'
    <1>1. clients \in Seq(Client)
        BY DEF IInv, TypeOK
    <1>2. /\ desk' = d /\ clients' = clients
          /\ sweep' \in 0 .. Len(clients') /\ (sweep' # 0 => clients'[sweep'] \in desk'.gone)
        BY <1>1, SweptFacts
    <1>3. \A c \in alive : IdsOf(desk', c) = IdsOf(desk, c)
        BY <1>2 DEF IdsOf
    <1> QED
        BY <1>1, <1>2, <1>3, QuietStep

LEMMA TimerStep ==
    ASSUME IInv, TimerRound
    PROVE  IInv'
    <1>1. /\ compositor = "up" /\ Swept(desk, clients)
          /\ UNCHANGED <<compositor, pending, to_server, pc, appVars>>
        BY DEF TimerRound, Polls
    <1>2. desk \in Desk /\ Well(desk, ToSet(clients)) /\ alive \subseteq Client
        BY <1>1 DEF IInv, TypeOK
    <1> QED
        BY <1>1, <1>2, EventsOnlyFacts, SweptStep

LEMMA KeyboardStep ==
    ASSUME IInv, KeyboardRound
    PROVE  IInv'
    <1>1. /\ compositor = "up" /\ Swept(SentTo(desk, desk.focus, "event"), clients)
          /\ UNCHANGED <<compositor, pending, to_server, pc, appVars>>
        BY DEF KeyboardRound, InputComes, Polls
    <1>2. desk \in Desk /\ Well(desk, ToSet(clients)) /\ alive \subseteq Client
        BY <1>1 DEF IInv, TypeOK
    <1>3. /\ desk.focus \in Window \cup {NoWindow}
          /\ desk.focus # NoWindow => desk.focus.client \in ToSet(clients)
        BY <1>2, DeskFacts DEF Well, Owned
    <1>4. PICK d : d = SentTo(desk, desk.focus, "event")
        OBVIOUS
    <1>5. /\ d \in Desk /\ d.windows = desk.windows /\ d.focus = desk.focus
          /\ EventsOnly(desk, d, ToSet(clients))
        BY <1>2, <1>3, <1>4, SentToFacts
    <1>6. Well(d, ToSet(clients))
        BY <1>2, <1>5 DEF Well, Owned
    <1> QED
        BY <1>1, <1>4, <1>5, <1>6, SweptStep

LEMMA MouseStep ==
    ASSUME IInv, NEW under \in Window \cup {NoWindow}, MouseRound(under)
    PROVE  IInv'
    <1>1. PICK clicked : clicked = IF under = desk.focus THEN desk ELSE Focused(desk, under)
        OBVIOUS
    <1>2. /\ compositor = "up" /\ under \in ToSet(desk.windows) \cup {NoWindow}
          /\ Swept(SentTo(clicked, clicked.focus, "event"), clients)
          /\ UNCHANGED <<compositor, pending, to_server, pc, appVars>>
        BY <1>1 DEF MouseRound, InputComes, Polls
    <1>3. desk \in Desk /\ Well(desk, ToSet(clients)) /\ alive \subseteq Client
        BY <1>2 DEF IInv, TypeOK
    <1>4. /\ Owned(desk, ToSet(clients))
          /\ desk.focus # NoWindow => desk.focus.client \in ToSet(clients)
          /\ under # NoWindow => under.client \in ToSet(clients)
        BY <1>2, <1>3 DEF Well, Owned
    <1>5. /\ clicked \in Desk /\ Well(clicked, ToSet(clients))
          /\ EventsOnly(desk, clicked, ToSet(clients))
          /\ ToSet(clicked.windows) = ToSet(desk.windows)
        <2>1. CASE under = desk.focus
            BY <1>1, <1>3, <2>1, EventsOnlyFacts
        <2>2. CASE under # desk.focus
            <3>1. clicked = Focused(desk, under)
                BY <1>1, <2>2
            <3>2. /\ clicked \in Desk /\ clicked.focus = under
                  /\ ToSet(clicked.windows) = ToSet(desk.windows) \cup ({under} \ {NoWindow})
                  /\ Owned(clicked, ToSet(clients))
                  /\ EventsOnly(desk, clicked, ToSet(clients))
                BY <1>3, <1>4, <3>1, FocusedFacts
            <3>3. ToSet(clicked.windows) = ToSet(desk.windows)
                BY <1>2, <3>2
            <3> QED
                BY <1>2, <3>2, <3>3 DEF Well
        <2> QED
            BY <2>1, <2>2
    <1>6. /\ clicked.focus \in Window \cup {NoWindow}
          /\ clicked.focus # NoWindow => clicked.focus.client \in ToSet(clients)
        BY <1>5, DeskFacts DEF Well, Owned
    <1>7. PICK d : d = SentTo(clicked, clicked.focus, "event")
        OBVIOUS
    <1>8. /\ d \in Desk /\ d.windows = clicked.windows /\ d.focus = clicked.focus
          /\ EventsOnly(clicked, d, ToSet(clients))
        BY <1>3, <1>5, <1>6, <1>7, SentToFacts
    <1>9. Well(d, ToSet(clients))
        BY <1>5, <1>8 DEF Well, Owned
    <1>10. EventsOnly(desk, d, ToSet(clients))
        BY <1>3, <1>5, <1>8, EventsOnlyFacts
    <1> QED
        BY <1>2, <1>5, <1>7, <1>8, <1>9, <1>10, SweptStep

LEMMA LossStep ==
    ASSUME IInv, NEW c \in Client, LossRound(c)
    PROVE  IInv'
    <1>1. PICK d : d = [desk EXCEPT !.gone = @ \cup {c}]
        OBVIOUS
    <1>2. /\ compositor = "up" /\ c \notin alive /\ Swept(d, clients)
          /\ UNCHANGED <<compositor, pending, to_server, pc, appVars>>
        BY <1>1 DEF LossRound, Selects, Polls
    <1>3. desk \in Desk /\ Well(desk, ToSet(clients)) /\ alive \subseteq Client
        BY <1>2 DEF IInv, TypeOK
    <1>4. /\ d \in Desk /\ d.windows = desk.windows /\ d.focus = desk.focus /\ d.out = desk.out
          /\ d.gone = desk.gone \cup {c}
        BY <1>1, <1>3 DEF Desk
    <1>5. EventsOnly(desk, d, ToSet(clients))
        BY <1>2, <1>3, <1>4, EventsOnlyFacts DEF EventsOnly
    <1>6. Well(d, ToSet(clients))
        BY <1>3, <1>4 DEF Well, Owned
    <1> QED
        BY <1>2, <1>4, <1>5, <1>6, SweptStep

LEMMA AssertStep ==
    ASSUME IInv, NEW c \in Client, AssertRound(c)
    PROVE  IInv'
    BY DEF IInv, TypeOK, AssertRound, appVars

(* Client::connect, of an application that waits for its greetings or has  *)
(* ended.                                                                  *)
LEMMA SocketStep ==
    ASSUME IInv, SocketRound
    PROVE  IInv'
    <1>1. PICK c : c = Last(pending)
        OBVIOUS
    <1>2. /\ compositor = "up" /\ compositor' = compositor /\ pending # <<>>
          /\ pending' = Front(pending)
          /\ Swept(Sent(desk, c, "greetings"), Append(clients, c))
          /\ pc' = [pc EXCEPT ![c] = IF c \in alive THEN "greetings" ELSE @]
          /\ to_server' = to_server /\ shown' = shown /\ calls' = calls /\ alive' = alive
        BY <1>1 DEF SocketRound, Polls, appVars
    <1>3. /\ TypeOK /\ Well(desk, ToSet(clients)) /\ alive \subseteq Client /\ desk \in Desk
          /\ clients \in Seq(Client) /\ pending \in Seq(Client) /\ Once(pending)
        BY <1>2 DEF IInv, TypeOK
    <1>4. /\ pending' \in Seq(Client) /\ c \in Client /\ ToSet(pending) = ToSet(pending') \cup {c}
          /\ Once(pending') /\ c \notin ToSet(pending')
        BY <1>1, <1>2, <1>3, FrontFacts
    <1>5. Append(clients, c) \in Seq(Client) /\ ToSet(Append(clients, c)) = ToSet(clients) \cup {c}
        BY <1>3, <1>4, AppendFacts
    <1>6. /\ desk' = Sent(desk, c, "greetings") /\ clients' = Append(clients, c)
          /\ sweep' \in 0 .. Len(clients') /\ (sweep' # 0 => clients'[sweep'] \in desk'.gone)
        BY <1>2, <1>5, SweptFacts
    <1>7. /\ desk' \in Desk /\ desk'.windows = desk.windows /\ desk'.focus = desk.focus
          /\ \A a \in alive : /\ a \in desk'.gone <=> a \in desk.gone
                              /\ a # c => desk'.out[a] = desk.out[a]
          /\ c \in alive \ desk.gone => desk'.out[c] = Append(desk.out[c], "greetings")
        <2>1. "greetings" \in SentType
            BY DEF SentType
        <2> QED
            BY <1>3, <1>4, <1>6, <2>1, SentFacts
    <1>8. pc' \in [Client -> Location]
        BY <1>2, <1>3 DEF TypeOK, Location
    <1>9. TypeOK'
        BY <1>2, <1>3, <1>4, <1>5, <1>6, <1>7, <1>8 DEF TypeOK
    <1>10. Well(desk, ToSet(clients))'
        <2>1. Well(desk', ToSet(clients'))
            BY <1>3, <1>5, <1>6, <1>7 DEF Well, Owned
        <2> QED
            BY <2>1 DEF Well, Owned, Once, ToSet
    <1>11. ASSUME NEW a \in alive, a # c
           PROVE  Consistent(a)'
        <2>1. IdsOf(desk', a) = IdsOf(desk, a)
            BY <1>7 DEF IdsOf
        <2>2. Grown(desk.out[a], desk'.out[a]) /\ desk'.out[a] = desk.out[a]
            BY <1>3, <1>7, <1>11, DeskFacts, GrownFacts
        <2>3. ToSet(pending)' = ToSet(pending') /\ ToSet(clients)' = ToSet(clients')
            BY DEF ToSet
        <2>4. pc'[a] = pc[a]
            BY <1>2, <1>3, <1>11 DEF TypeOK
        <2>5. Aside(a)
            BY <1>2, <1>4, <1>5, <1>6, <1>7, <1>11, <2>1, <2>2, <2>3, <2>4 DEF Aside
        <2>6. Consistent(a) /\ a \in Client
            BY <1>2, <1>3, <1>11 DEF IInv
        <2> QED
            BY <1>3, <1>7, <2>5, <2>6, AsideFrame
    <1>12. ASSUME c \in alive
           PROVE  Consistent(c)'
        <2>1. Placed(c) /\ Due(pc[c], to_server[c], desk.out[c])
              /\ Shows(to_server[c], shown[c], IdsOf(desk, c))
            BY <1>2, <1>12 DEF IInv, Consistent
        <2>2. pc[c] = "connecting" /\ c \notin desk.gone /\ to_server[c] = <<>> /\ desk.out[c] = <<>>
            BY <1>4, <2>1 DEF Placed, Due
        <2>3. desk'.out[c] = Append(<<>>, "greetings") /\ c \notin desk'.gone
            BY <1>7, <1>12, <2>2
        <2>4. Answered(desk'.out[c], "greetings")
            <3>1. <<>> \in Seq(SentType) /\ "greetings" \in SentType /\ Events(<<>>)
                BY DEF SentType, Events
            <3> QED
                BY <2>3, <3>1, AnsweredFacts
        <2>5. pc'[c] = "greetings"
            BY <1>2, <1>3, <1>4, <1>12 DEF TypeOK
        <2>6. ToSet(pending)' = ToSet(pending') /\ ToSet(clients)' = ToSet(clients')
            BY DEF ToSet
        <2>7. Placed(c)'
            BY <1>4, <1>5, <1>6, <2>3, <2>5, <2>6 DEF Placed
        <2>8. Due(pc'[c], to_server'[c], desk'.out[c])
            BY <1>2, <2>2, <2>4, <2>5 DEF Due
        <2>9. IdsOf(desk', c) = IdsOf(desk, c)
            BY <1>7 DEF IdsOf
        <2>10. Shows(to_server'[c], shown'[c], IdsOf(desk', c))
            BY <1>2, <2>1, <2>9
        <2> QED
            BY <2>7, <2>8, <2>10 DEF Consistent
    <1>13. Once(pending)'
        BY <1>4 DEF Once
    <1> QED
        BY <1>2, <1>9, <1>10, <1>11, <1>12, <1>13 DEF IInv
-----------------------------------------------------------------------------
(* Client::handle_request.  What it does to the windows of the client, and *)
(* what it answers, depends on the message; for the others it is an event. *)
Answer == [flip |-> "ack", mouse |-> "position"]

LEMMA HandledFacts ==
    ASSUME IInv, NEW c \in alive, NEW m \in Message, compositor = "up", c \in ToSet(clients),
           c \notin desk.gone, m.type = "flip" => m.id \in IdsOf(desk, c)
    PROVE  LET d == Handled(c, m)
           IN  /\ d \in Desk /\ Well(d, ToSet(clients)) /\ desk.gone \subseteq d.gone
               /\ \A a \in alive : /\ a # c => /\ a \in d.gone <=> a \in desk.gone
                                               /\ Grown(desk.out[a], d.out[a])
                                   /\ a \notin ToSet(clients) => d.out[a] = desk.out[a]
                                   /\ a # c => IdsOf(d, a) = IdsOf(desk, a)
               /\ c \in d.gone <=> m.type = "goodbye"
               /\ m.type \in PlainType \cup {"goodbye"} => Grown(desk.out[c], d.out[c])
               /\ m.type \in {"flip", "mouse"} => d.out[c] = Append(desk.out[c], Answer[m.type])
               /\ \A i \in Id : i \in IdsOf(d, c)
                                    <=> Creates(m, i) \/ (i \in IdsOf(desk, c) /\ ~Destroys(m, i))
    <1>1. /\ desk \in Desk /\ Well(desk, ToSet(clients)) /\ alive \subseteq Client
          /\ clients \in Seq(Client) /\ c \in Client
        BY DEF IInv, TypeOK
    <1>2. PICK w : w = [client |-> c, id |-> m.id]
        OBVIOUS
    <1>3. w \in Window /\ w.client = c /\ w.id = m.id
        BY <1>1, <1>2, WindowFacts DEF Message
    <1>4. \A a \in alive, i \in Id : [client |-> a, id |-> i] = w <=> a = c /\ i = m.id
        BY <1>2
    <1>5. Managed(w) <=> m.id \in IdsOf(desk, c)
        BY <1>2, <1>3, WindowFacts DEF Managed, IdsOf
    <1>6. PICK d : d = Handled(c, m)
        OBVIOUS
    <1>7. CASE m.type = "create"
        <2>1. d = IF Managed(w) THEN desk ELSE Focused(desk, w)
            BY <1>2, <1>6, <1>7 DEF Handled
        <2>2. /\ d \in Desk /\ Well(d, ToSet(clients)) /\ EventsOnly(desk, d, ToSet(clients))
              /\ ToSet(d.windows) = ToSet(desk.windows) \cup {w}
            <3>1. CASE Managed(w)
                BY <1>1, <2>1, <3>1, EventsOnlyFacts DEF Managed
            <3>2. CASE ~Managed(w)
                BY <1>1, <1>3, <2>1, <3>2, RaisedFacts
            <3> QED
                BY <3>1, <3>2
        <2>3. \A a \in alive, i \in Id : i \in IdsOf(d, a) <=> i \in IdsOf(desk, a) \/ (a = c /\ i = m.id)
            BY <1>4, <2>2 DEF IdsOf
        <2>4. \A a \in alive : a # c => IdsOf(d, a) = IdsOf(desk, a)
            BY <2>3 DEF IdsOf
        <2>5. \A i \in Id : i \in IdsOf(d, c)
                                <=> Creates(m, i) \/ (i \in IdsOf(desk, c) /\ ~Destroys(m, i))
            BY <1>7, <2>3 DEF Creates, Destroys
        <2> QED
            BY <1>6, <1>7, <2>2, <2>4, <2>5 DEF EventsOnly
    <1>8. CASE m.type = "destroy"
        <2>1. d = IF Managed(w) THEN Unregistered(desk, w) ELSE desk
            BY <1>2, <1>6, <1>8 DEF Handled
        <2>2. /\ d \in Desk /\ Well(d, ToSet(clients)) /\ EventsOnly(desk, d, ToSet(clients))
              /\ ToSet(d.windows) = ToSet(desk.windows) \ {w}
            <3>1. CASE ~Managed(w)
                BY <1>1, <2>1, <3>1, EventsOnlyFacts DEF Managed
            <3>2. CASE Managed(w)
                BY <1>1, <1>3, <2>1, <3>2, UnregisteredFacts
            <3> QED
                BY <3>1, <3>2
        <2>3. \A a \in alive, i \in Id : i \in IdsOf(d, a) <=> i \in IdsOf(desk, a) /\ ~(a = c /\ i = m.id)
            BY <1>4, <2>2 DEF IdsOf
        <2>4. \A a \in alive : a # c => IdsOf(d, a) = IdsOf(desk, a)
            BY <2>3 DEF IdsOf
        <2>5. \A i \in Id : i \in IdsOf(d, c)
                                <=> Creates(m, i) \/ (i \in IdsOf(desk, c) /\ ~Destroys(m, i))
            BY <1>8, <2>3 DEF Creates, Destroys
        <2> QED
            BY <1>6, <1>8, <2>2, <2>4, <2>5 DEF EventsOnly
    <1>9. CASE m.type \in {"flip", "mouse"}
        <2>1. PICK t : t = Answer[m.type]
            OBVIOUS
        <2>2. t \in SentType /\ d = Sent(desk, c, t)
            <3>1. CASE m.type = "flip"
                <4>1. t = "ack" /\ Managed(w)
                    BY <1>5, <2>1, <3>1 DEF Answer
                <4>2. d = IF Managed(w) THEN Sent(desk, c, "ack") ELSE desk
                    BY <1>2, <1>6, <3>1 DEF Handled
                <4> QED
                    BY <4>1, <4>2 DEF SentType
            <3>2. CASE m.type = "mouse"
                <4>1. t = "position"
                    BY <2>1, <3>2 DEF Answer
                <4>2. d = Sent(desk, c, "position")
                    BY <1>6, <3>2 DEF Handled
                <4> QED
                    BY <4>1, <4>2 DEF SentType
            <3> QED
                BY <1>9, <3>1, <3>2
        <2>3. /\ d \in Desk /\ d.windows = desk.windows /\ d.focus = desk.focus
              /\ \A a \in alive : /\ a \in d.gone <=> a \in desk.gone
                                  /\ a # c => d.out[a] = desk.out[a]
              /\ d.out[c] = Append(desk.out[c], t)
            BY <1>1, <2>2, SentFacts
        <2>4. Well(d, ToSet(clients)) /\ \A a \in alive : IdsOf(d, a) = IdsOf(desk, a)
            BY <1>1, <2>3 DEF Well, Owned, IdsOf
        <2>5. \A a \in alive : a # c => Grown(desk.out[a], d.out[a])
            BY <1>1, <2>3, DeskFacts, GrownFacts
        <2>6. desk.gone \subseteq d.gone
            BY <2>2 DEF Sent
        <2>7. \A i \in Id : ~Creates(m, i) /\ ~Destroys(m, i)
            BY <1>9 DEF Creates, Destroys
        <2> QED
            BY <1>6, <1>9, <2>1, <2>3, <2>4, <2>5, <2>6, <2>7 DEF PlainType
    <1>10. CASE m.type = "resolution"
        <2>1. d = Broadcast(desk, ToSet(clients), "event")
            BY <1>6, <1>10 DEF Handled
        <2>2. PICK out : out = [a \in Client |-> IF a \in (ToSet(clients) \cap alive) \ desk.gone
                                                 THEN Append(desk.out[a], "event") ELSE desk.out[a]]
            OBVIOUS
        <2>3. d = [desk EXCEPT !.out = out, !.gone = @ \cup (ToSet(clients) \ alive)]
            BY <2>1, <2>2 DEF Broadcast
        <2>4. ToSet(clients) \subseteq Client /\ "event" \in SentType
            BY <1>1 DEF ToSet, SentType
        <2>5. \A a \in Client : /\ desk.out[a] \in Seq(SentType)
                                /\ Append(desk.out[a], "event") \in Seq(SentType)
            BY <1>1, <2>4, DeskFacts
        <2>6. out \in [Client -> Seq(SentType)]
            BY <2>2, <2>5
        <2>7. /\ d \in Desk /\ d.windows = desk.windows /\ d.focus = desk.focus
              /\ d.gone = desk.gone \cup (ToSet(clients) \ alive) /\ d.out = out
            BY <1>1, <2>3, <2>4, <2>6 DEF Desk, SentType
        <2>8. Well(d, ToSet(clients)) /\ \A a \in alive : IdsOf(d, a) = IdsOf(desk, a)
            BY <1>1, <2>7 DEF Well, Owned, IdsOf
        <2>9. EventsOnly(desk, d, ToSet(clients))
            <3>1. \A a \in Client : Grown(desk.out[a], out[a])
                BY <2>2, <2>5, GrownFacts
            <3>2. \A a \in Client : a \notin ToSet(clients) => out[a] = desk.out[a]
                BY <2>2
            <3> QED
                BY <1>1, <2>7, <3>1, <3>2 DEF EventsOnly
        <2>10. \A i \in Id : ~Creates(m, i) /\ ~Destroys(m, i)
            BY <1>10 DEF Creates, Destroys
        <2> QED
            BY <1>6, <1>10, <2>7, <2>8, <2>9, <2>10 DEF EventsOnly
    <1>11. CASE m.type = "goodbye"
        <2>1. d = [desk EXCEPT !.gone = @ \cup {c}]
            BY <1>6, <1>11 DEF Handled
        <2>2. /\ d \in Desk /\ d.windows = desk.windows /\ d.focus = desk.focus
              /\ d.gone = desk.gone \cup {c} /\ d.out = desk.out
            BY <1>1, <2>1 DEF Desk
        <2>3. Well(d, ToSet(clients)) /\ \A a \in alive : IdsOf(d, a) = IdsOf(desk, a)
            BY <1>1, <2>2 DEF Well, Owned, IdsOf
        <2>4. \A a \in alive : Grown(desk.out[a], d.out[a])
            BY <1>1, <2>2, DeskFacts, GrownFacts
        <2>5. \A i \in Id : ~Creates(m, i) /\ ~Destroys(m, i)
            BY <1>11 DEF Creates, Destroys
        <2> QED
            BY <1>6, <1>11, <2>2, <2>3, <2>4, <2>5 DEF PlainType
    <1> QED
        BY <1>6, <1>7, <1>8, <1>9, <1>10, <1>11 DEF Message

LEMMA RequestStep ==
    ASSUME IInv, NEW c \in Client, RequestRound(c)
    PROVE  IInv'
    <1>1. /\ compositor = "up" /\ c \in alive /\ c \notin desk.gone /\ c \in ToSet(clients)
          /\ to_server[c] # <<>>
          /\ desk' = Handled(c, Head(to_server[c]))
          /\ to_server' = [to_server EXCEPT ![c] = Tail(@)]
          /\ clients' = clients /\ sweep' = sweep /\ compositor' = compositor /\ pending' = pending
          /\ pc' = pc /\ shown' = shown /\ calls' = calls /\ alive' = alive
        BY DEF RequestRound, Selects, Polls, Readable, ToSet, appVars
    <1>2. PICK q : q = to_server[c]
        OBVIOUS
    <1>3. PICK m : m = Head(q)
        OBVIOUS
    <1>4. /\ TypeOK /\ alive \subseteq Client /\ desk \in Desk /\ q \in Seq(Message)
          /\ m \in Message /\ m = q[1] /\ Tail(q) \in Seq(Message) /\ 1 \in DOMAIN q
        BY <1>1, <1>2, <1>3, TailFacts DEF IInv, TypeOK
    <1>5. Placed(c) /\ Due(pc[c], q, desk.out[c]) /\ Shows(q, shown[c], IdsOf(desk, c))
        BY <1>1, <1>2 DEF IInv, Consistent
    <1>6. \/ pc[c] \in {"idle", "exiting"} /\ m.type \in PlainType /\ Plain(Tail(q)) /\ Events(desk.out[c])
          \/ pc[c] \in {"ack", "position"} /\ m.type \in PlainType /\ Asked(Tail(q), Request[pc[c]])
                 /\ Events(desk.out[c])
          \/ pc[c] \in {"ack", "position"} /\ m.type = Request[pc[c]] /\ Tail(q) = <<>>
                 /\ Events(desk.out[c])
          \/ pc[c] \in {"ack", "position"} /\ m.type \in PlainType /\ Plain(Tail(q))
                 /\ Answered(desk.out[c], pc[c])
          \/ pc[c] = "goodbye" /\ m.type \in PlainType /\ Asked(Tail(q), "goodbye") /\ Events(desk.out[c])
          \/ pc[c] = "goodbye" /\ m.type = "goodbye" /\ Tail(q) = <<>> /\ Events(desk.out[c])
        BY <1>1, <1>2, <1>3, <1>4, <1>5, PlainFacts DEF Due
    <1>7. m.type = "flip" => m.id \in IdsOf(desk, c)
        <2>1. ASSUME m.type = "flip"
              PROVE  m.id \in IdsOf(desk, c)
            <3>1. pc[c] = "ack" /\ Tail(q) = <<>>
                BY <1>6, <2>1 DEF PlainType, Request
            <3>2. m.id \in shown[c] /\ m.id \in Id
                BY <1>4, <1>5, <2>1 DEF Shows, Message
            <3>3. Fate(q, m.id, m.id \in IdsOf(desk, c))
                BY <1>5, <3>2 DEF Shows
            <3>4. Len(q) = 1 /\ DOMAIN q = {1}
                <4>1. Len(q) \in Nat \ {0} /\ DOMAIN q = 1 .. Len(q) /\ Len(Tail(q)) = Len(q) - 1
                    BY <1>1, <1>2, <1>4, TailFacts
                <4>2. Len(<<>>) = 0 /\ Tail(q) = <<>>
                    BY <3>1, EmptySeq
                <4>3. Len(q) = 1
                    <5>1. Len(q) - 1 = 0 /\ Len(q) \in Nat
                        BY <4>1, <4>2
                    <5> QED
                        BY <5>1
                <4> QED
                    BY <4>1, <4>3
            <3>5. ~Creates(q[1], m.id)
                BY <1>4, <2>1 DEF Creates
            <3> QED
                BY <3>3, <3>4, <3>5 DEF Fate
        <2> QED
            BY <2>1
    <1>8. PICK d : d = Handled(c, m)
        OBVIOUS
    <1>9. /\ d \in Desk /\ Well(d, ToSet(clients)) /\ desk.gone \subseteq d.gone
          /\ \A a \in alive : /\ a # c => /\ a \in d.gone <=> a \in desk.gone
                                          /\ Grown(desk.out[a], d.out[a])
                              /\ a \notin ToSet(clients) => d.out[a] = desk.out[a]
                              /\ a # c => IdsOf(d, a) = IdsOf(desk, a)
          /\ c \in d.gone <=> m.type = "goodbye"
          /\ m.type \in PlainType \cup {"goodbye"} => Grown(desk.out[c], d.out[c])
          /\ m.type \in {"flip", "mouse"} => d.out[c] = Append(desk.out[c], Answer[m.type])
          /\ \A i \in Id : i \in IdsOf(d, c)
                               <=> Creates(m, i) \/ (i \in IdsOf(desk, c) /\ ~Destroys(m, i))
        BY <1>1, <1>4, <1>7, <1>8, HandledFacts
    <1>10. desk' = d
        BY <1>1, <1>2, <1>3, <1>8
    <1>11. to_server' \in [Client -> Seq(Message)] /\ to_server'[c] = Tail(q)
           /\ \A a \in Client : a # c => to_server'[a] = to_server[a]
        BY <1>1, <1>2, <1>4 DEF TypeOK
    <1>12. TypeOK'
        BY <1>1, <1>4, <1>9, <1>10, <1>11 DEF TypeOK
    <1>13. ToSet(clients)' = ToSet(clients) /\ ToSet(pending)' = ToSet(pending)
        BY <1>1 DEF ToSet
    <1>14. ASSUME NEW a \in alive, a # c
           PROVE  Consistent(a)'
        <2>1. Aside(a)
            BY <1>1, <1>4, <1>9, <1>10, <1>11, <1>13, <1>14 DEF Aside
        <2> QED
            BY <1>1, <1>4, <1>9, <1>10, <1>14, <2>1, AsideFrame DEF IInv
    <1>15. Placed(c)'
        <2>1. pc[c] \in {"idle", "ack", "position", "exiting", "goodbye"}
            BY <1>6
        <2>2. pc[c] = "goodbye" => (m.type = "goodbye" <=> Tail(q) = <<>>)
            <3>1. "goodbye" \notin PlainType /\ ~Asked(<<>>, "goodbye")
                BY DEF PlainType, Asked
            <3> QED
                BY <1>6, <3>1
        <2>3. m.type = "goodbye" => pc[c] = "goodbye"
            BY <1>6 DEF PlainType, Request
        <2> QED
            BY <1>1, <1>5, <1>9, <1>10, <1>11, <1>13, <2>1, <2>2, <2>3 DEF Placed
    <1>16. Due(pc[c], Tail(q), d.out[c])
        <2>1. desk.out[c] \in Seq(SentType) /\ d.out[c] \in Seq(SentType)
            BY <1>1, <1>4, <1>9, DeskFacts
        <2>2. CASE m.type \in PlainType \cup {"goodbye"}
            <3>1. Grown(desk.out[c], d.out[c])
                BY <1>9, <2>2
            <3>2. Events(desk.out[c]) => Events(d.out[c])
                BY <2>1, <3>1, GrownFacts
            <3>3. Answered(desk.out[c], pc[c]) => Answered(d.out[c], pc[c])
                BY <2>1, <3>1, GrownFacts
            <3>4. pc[c] \in {"ack", "position"} => Request[pc[c]] \notin PlainType \cup {"goodbye"}
                BY DEF Request, PlainType
            <3> QED
                BY <1>6, <2>2, <3>2, <3>3, <3>4 DEF Due
        <2>3. CASE m.type \notin PlainType \cup {"goodbye"}
            <3>1. /\ pc[c] \in {"ack", "position"} /\ m.type = Request[pc[c]] /\ Tail(q) = <<>>
                  /\ Events(desk.out[c])
                BY <1>6, <2>3
            <3>2. m.type \in {"flip", "mouse"} /\ Answer[m.type] = pc[c] /\ pc[c] \in SentType
                BY <3>1 DEF Request, Answer, SentType
            <3>3. Answered(d.out[c], pc[c])
                <4>1. d.out[c] = Append(desk.out[c], pc[c])
                    BY <1>9, <3>2
                <4>2. Answered(Append(desk.out[c], pc[c]), pc[c])
                    BY <2>1, <3>1, <3>2, AnsweredFacts
                <4> QED
                    BY <4>1, <4>2
            <3>4. Plain(<<>>)
                BY DEF Plain
            <3> QED
                BY <3>1, <3>3, <3>4 DEF Due
        <2> QED
            BY <2>2, <2>3
    <1>17. Shows(Tail(q), shown[c], IdsOf(d, c))
        BY <1>1, <1>2, <1>3, <1>4, <1>5, <1>9, ShowsOfTail
    <1>18. Consistent(c)'
        <2>1. Due(pc[c], to_server[c], desk.out[c])'
            BY <1>1, <1>10, <1>11, <1>16
        <2>2. IdsOf(desk, c)' = IdsOf(d, c)
            BY <1>10 DEF IdsOf
        <2>3. Shows(to_server'[c], shown'[c], IdsOf(d, c))
            BY <1>1, <1>11, <1>17
        <2> QED
            BY <1>15, <2>1, <2>2, <2>3 DEF Consistent
    <1>19. Well(desk, ToSet(clients))' /\ Once(pending)'
        BY <1>1, <1>9, <1>10, <1>13 DEF IInv, Once, Well, Owned
    <1> QED
        BY <1>1, <1>12, <1>14, <1>18, <1>19 DEF IInv
-----------------------------------------------------------------------------
(* A step of an application is about nobody else. *)
LEMMA OwnStep ==
    ASSUME IInv, NEW c \in alive, compositor = "up", TypeOK',
           clients' = clients, compositor' = compositor, alive' = alive,
           desk'.windows = desk.windows, desk'.focus = desk.focus, desk'.gone = desk.gone,
           Once(pending'), \A a \in Client : a # c => (a \in ToSet(pending') <=> a \in ToSet(pending)),
           \A a \in alive : a # c => /\ pc'[a] = pc[a] /\ to_server'[a] = to_server[a]
                                     /\ shown'[a] = shown[a] /\ desk'.out[a] = desk.out[a],
           Consistent(c)'
    PROVE  IInv'
    <1>1. TypeOK /\ desk \in Desk /\ desk' \in Desk /\ alive \subseteq Client
        BY DEF IInv, TypeOK
    <1>2. ToSet(clients)' = ToSet(clients) /\ ToSet(pending)' = ToSet(pending')
        BY DEF ToSet
    <1>3. ASSUME NEW a \in alive, a # c
          PROVE  Consistent(a)'
        <2>1. Grown(desk.out[a], desk'.out[a])
            BY <1>1, <1>3, DeskFacts, GrownFacts
        <2>2. IdsOf(desk', a) = IdsOf(desk, a)
            BY DEF IdsOf
        <2>3. Aside(a)
            BY <1>1, <1>2, <1>3, <2>1, <2>2 DEF Aside
        <2> QED
            BY <1>1, <1>3, <2>3, AsideFrame DEF IInv
    <1>4. Well(desk, ToSet(clients))'
        <2>1. Well(desk', ToSet(clients))
            BY DEF IInv, Well, Owned
        <2> QED
            BY <1>2, <2>1 DEF Well, Owned, Once
    <1>5. Once(pending)'
        BY DEF Once
    <1> QED
        BY <1>3, <1>4, <1>5 DEF IInv

(* An application that does not wait sends a message. *)
LEMMA SendStep ==
    ASSUME IInv, NEW c \in alive, NEW m \in Message, NEW l \in Location, NEW new \in SUBSET Id,
           compositor = "up", pc[c] \in {"idle", "exiting"},
           UNCHANGED <<desk, clients, sweep, compositor, pending, alive>>,
           calls' \in [Client -> Nat],
           to_server' = [to_server EXCEPT ![c] = Append(@, m)],
           pc' = [pc EXCEPT ![c] = l],
           shown' = [shown EXCEPT ![c] = new],
           \A i \in Id : i \in new <=> Creates(m, i) \/ (i \in shown[c] /\ ~Destroys(m, i)),
           \/ l \in {"idle", "exiting"} /\ m.type \in PlainType
           \/ l \in {"ack", "position"} /\ m.type = Request[l] /\ (m.type = "flip" => m.id \in shown[c])
           \/ l = "goodbye" /\ m.type = "goodbye" /\ new = {}
    PROVE  IInv'
    <1>1. TypeOK /\ desk \in Desk /\ c \in Client /\ Once(pending)
        BY DEF IInv, TypeOK
    <1>2. PICK q : q = to_server[c]
        OBVIOUS
    <1>3. q \in Seq(Message) /\ Append(q, m) \in Seq(Message) /\ Append(q, m) # <<>>
        <2>1. q \in Seq(Message)
            BY <1>1, <1>2 DEF TypeOK
        <2> QED
            BY <2>1, AppendProperties
    <1>4. /\ to_server' \in [Client -> Seq(Message)] /\ to_server'[c] = Append(q, m)
          /\ pc' \in [Client -> Location] /\ pc'[c] = l
          /\ shown' \in [Client -> SUBSET Id] /\ shown'[c] = new
          /\ \A a \in Client : a # c => /\ pc'[a] = pc[a] /\ to_server'[a] = to_server[a]
                                        /\ shown'[a] = shown[a]
        BY <1>1, <1>2, <1>3 DEF TypeOK
    <1>5. TypeOK'
        BY <1>1, <1>4 DEF TypeOK
    <1>6. Placed(c) /\ Due(pc[c], q, desk.out[c]) /\ Shows(q, shown[c], IdsOf(desk, c))
        BY <1>2 DEF IInv, Consistent
    <1>7. Plain(q) /\ Events(desk.out[c])
        BY <1>6 DEF Due
    <1>8. (m.type \in PlainType => Plain(Append(q, m))) /\ Asked(Append(q, m), m.type)
        BY <1>3, <1>7, PlainFacts
    <1>9. Due(l, Append(q, m), desk.out[c])
        <2>1. CASE l \in {"idle", "exiting"} /\ m.type \in PlainType
            BY <1>7, <1>8, <2>1 DEF Due
        <2>2. CASE l \in {"ack", "position"} /\ m.type = Request[l]
            <3>1. Asked(Append(q, m), Request[l])
                BY <1>8, <2>2
            <3> QED
                BY <1>7, <2>2, <3>1 DEF Due
        <2>3. CASE l = "goodbye" /\ m.type = "goodbye"
            <3>1. Asked(Append(q, m), "goodbye")
                BY <1>8, <2>3
            <3> QED
                BY <1>7, <2>3, <3>1 DEF Due
        <2> QED
            BY <2>1, <2>2, <2>3
    <1>10. Shows(Append(q, m), new, IdsOf(desk, c))
        <2>1. m.type = "flip" => m.id \in new /\ shown[c] \subseteq new
            <3>1. ASSUME m.type = "flip"
                  PROVE  m.id \in new /\ shown[c] \subseteq new
                <4>1. m.id \in shown[c]
                    BY <3>1 DEF PlainType
                <4>2. shown[c] \subseteq Id /\ \A i \in Id : ~Destroys(m, i)
                    BY <1>1, <3>1 DEF TypeOK, Destroys
                <4>3. shown[c] \subseteq new
                    BY <4>2
                <4> QED
                    BY <4>1, <4>3
            <3> QED
                BY <3>1
        <2> QED
            BY <1>3, <1>6, <1>7, <2>1, ShowsOfAppend
    <1>11. /\ ToSet(clients)' = ToSet(clients) /\ ToSet(pending)' = ToSet(pending)
           /\ IdsOf(desk, c)' = IdsOf(desk, c)
        BY DEF ToSet, IdsOf
    <1>12. l \in {"idle", "exiting", "ack", "position", "goodbye"}
        OBVIOUS
    <1>13. Placed(c)'
        BY <1>3, <1>4, <1>6, <1>11, <1>12 DEF Placed
    <1>14. Consistent(c)'
        <2>1. Due(pc[c], to_server[c], desk.out[c])'
            BY <1>4, <1>9
        <2>2. Shows(to_server'[c], shown'[c], IdsOf(desk, c))
            BY <1>4, <1>10
        <2> QED
            BY <1>11, <1>13, <2>1, <2>2 DEF Consistent
    <1> QED
        BY <1>1, <1>4, <1>5, <1>14, OwnStep

LEMMA CallFacts ==
    ASSUME IInv, NEW c \in Client, NEW k, Call(c, k)
    PROVE  /\ compositor = "up" /\ c \in alive /\ pc[c] = "idle"
           /\ calls' \in [Client -> Nat]
           /\ UNCHANGED <<desk, clients, sweep, compositor, pending, alive>>
    BY DEF IInv, TypeOK, Call, At

LEMMA SendsFacts ==
    ASSUME IInv, NEW c \in Client, NEW i \in Id, NEW t, Sends(c, t, i),
           t \in {"create", "destroy", "flip", "mouse", "resolution", "goodbye"}
    PROVE  \E m \in Message : /\ m.type = t /\ m.id = i
                              /\ to_server' = [to_server EXCEPT ![c] = Append(@, m)]
    <1>1. PICK m : m = [type |-> t, id |-> i]
        OBVIOUS
    <1>2. m \in Message /\ m.type = t /\ m.id = i
        BY <1>1 DEF Message
    <1> QED
        BY <1>1, <1>2 DEF Sends

(* What does not change is what it was, for each application. *)
LEMMA SameFacts ==
    ASSUME TypeOK, NEW c \in Client
    PROVE  /\ pc = [pc EXCEPT ![c] = pc[c]] /\ pc[c] \in Location
           /\ shown = [shown EXCEPT ![c] = shown[c]] /\ shown[c] \in SUBSET Id
    BY DEF TypeOK

LEMMA ShowStep ==
    ASSUME IInv, NEW c \in Client, NEW i \in Id, Show(c, i)
    PROVE  IInv'
    <1>1. /\ Call(c, "show") /\ Sends(c, "create", i)
          /\ shown' = [shown EXCEPT ![c] = @ \cup {i}] /\ pc' = pc
        BY DEF Show
    <1>2. /\ compositor = "up" /\ c \in alive /\ pc[c] = "idle" /\ calls' \in [Client -> Nat]
          /\ UNCHANGED <<desk, clients, sweep, compositor, pending, alive>>
        BY <1>1, CallFacts
    <1>3. PICK m \in Message : /\ m.type = "create" /\ m.id = i
                               /\ to_server' = [to_server EXCEPT ![c] = Append(@, m)]
        BY <1>1, SendsFacts
    <1>4. TypeOK /\ pc = [pc EXCEPT ![c] = pc[c]] /\ pc[c] \in Location /\ shown[c] \in SUBSET Id
        BY SameFacts DEF IInv
    <1>5. PICK new : new = shown[c] \cup {i}
        OBVIOUS
    <1>6. new \in SUBSET Id /\ shown' = [shown EXCEPT ![c] = new] /\ pc' = [pc EXCEPT ![c] = pc[c]]
        BY <1>1, <1>4, <1>5 DEF TypeOK
    <1>7. \A j \in Id : j \in new <=> Creates(m, j) \/ (j \in shown[c] /\ ~Destroys(m, j))
        BY <1>3, <1>5 DEF Creates, Destroys
    <1>8. pc[c] \in {"idle", "exiting"} /\ m.type \in PlainType
        BY <1>2, <1>3 DEF PlainType
    <1> QED
        BY <1>2, <1>3, <1>4, <1>6, <1>7, <1>8, SendStep

LEMMA FlipStep ==
    ASSUME IInv, NEW c \in Client, NEW i \in Id, Flip(c, i)
    PROVE  IInv'
    <1>1. /\ Call(c, "flip") /\ i \in shown[c] /\ Sends(c, "flip", i)
          /\ pc' = [pc EXCEPT ![c] = "ack"] /\ shown' = shown
        BY DEF Flip, Goto
    <1>2. /\ compositor = "up" /\ c \in alive /\ pc[c] = "idle" /\ calls' \in [Client -> Nat]
          /\ UNCHANGED <<desk, clients, sweep, compositor, pending, alive>>
        BY <1>1, CallFacts
    <1>3. PICK m \in Message : /\ m.type = "flip" /\ m.id = i
                               /\ to_server' = [to_server EXCEPT ![c] = Append(@, m)]
        BY <1>1, SendsFacts
    <1>4. shown' = [shown EXCEPT ![c] = shown[c]] /\ shown[c] \in SUBSET Id
        BY <1>1, SameFacts DEF IInv
    <1>5. \A j \in Id : j \in shown[c] <=> Creates(m, j) \/ (j \in shown[c] /\ ~Destroys(m, j))
        BY <1>3 DEF Creates, Destroys
    <1>6. pc[c] \in {"idle", "exiting"} /\ "ack" \in Location /\ m.type = Request["ack"]
        BY <1>2, <1>3 DEF Location, Request
    <1> QED
        BY <1>1, <1>2, <1>3, <1>4, <1>5, <1>6, SendStep

LEMMA MousePositionStep ==
    ASSUME IInv, NEW c \in Client, MousePosition(c)
    PROVE  IInv'
    <1>1. /\ Call(c, "mouse") /\ Sends(c, "mouse", AnyId)
          /\ pc' = [pc EXCEPT ![c] = "position"] /\ shown' = shown
        BY DEF MousePosition, Goto
    <1>2. /\ compositor = "up" /\ c \in alive /\ pc[c] = "idle" /\ calls' \in [Client -> Nat]
          /\ UNCHANGED <<desk, clients, sweep, compositor, pending, alive>>
        BY <1>1, CallFacts
    <1>3. PICK m \in Message : /\ m.type = "mouse"
                               /\ to_server' = [to_server EXCEPT ![c] = Append(@, m)]
        BY <1>1, SendsFacts, WindowFacts
    <1>4. shown' = [shown EXCEPT ![c] = shown[c]] /\ shown[c] \in SUBSET Id
        BY <1>1, SameFacts DEF IInv
    <1>5. \A j \in Id : j \in shown[c] <=> Creates(m, j) \/ (j \in shown[c] /\ ~Destroys(m, j))
        BY <1>3 DEF Creates, Destroys
    <1>6. /\ pc[c] \in {"idle", "exiting"} /\ "position" \in Location
          /\ m.type = Request["position"] /\ m.type # "flip"
        BY <1>2, <1>3 DEF Location, Request
    <1> QED
        BY <1>1, <1>2, <1>3, <1>4, <1>5, <1>6, SendStep

LEMMA SetResolutionStep ==
    ASSUME IInv, NEW c \in Client, SetResolution(c)
    PROVE  IInv'
    <1>1. Call(c, "resolution") /\ Sends(c, "resolution", AnyId) /\ pc' = pc /\ shown' = shown
        BY DEF SetResolution
    <1>2. /\ compositor = "up" /\ c \in alive /\ pc[c] = "idle" /\ calls' \in [Client -> Nat]
          /\ UNCHANGED <<desk, clients, sweep, compositor, pending, alive>>
        BY <1>1, CallFacts
    <1>3. PICK m \in Message : /\ m.type = "resolution"
                               /\ to_server' = [to_server EXCEPT ![c] = Append(@, m)]
        BY <1>1, SendsFacts, WindowFacts
    <1>4. /\ pc' = [pc EXCEPT ![c] = pc[c]] /\ pc[c] \in Location
          /\ shown' = [shown EXCEPT ![c] = shown[c]] /\ shown[c] \in SUBSET Id
        BY <1>1, SameFacts DEF IInv
    <1>5. \A j \in Id : j \in shown[c] <=> Creates(m, j) \/ (j \in shown[c] /\ ~Destroys(m, j))
        BY <1>3 DEF Creates, Destroys
    <1>6. pc[c] \in {"idle", "exiting"} /\ m.type \in PlainType
        BY <1>2, <1>3 DEF PlainType
    <1> QED
        BY <1>2, <1>3, <1>4, <1>5, <1>6, SendStep

(* A window is hidden, and the application is at l after that. *)
LEMMA HideOneStep ==
    ASSUME IInv, NEW c \in alive, NEW i \in Id, HideOne(c, i), compositor = "up",
           pc[c] \in {"idle", "exiting"}, calls' \in [Client -> Nat],
           UNCHANGED <<desk, clients, sweep, compositor, pending, alive>>,
           NEW l \in {"idle", "exiting"}, pc' = [pc EXCEPT ![c] = l]
    PROVE  IInv'
    <1>1. Sends(c, "destroy", i) /\ shown' = [shown EXCEPT ![c] = @ \ {i}]
        BY DEF HideOne
    <1>2. TypeOK /\ c \in Client
        BY DEF IInv, TypeOK
    <1>3. PICK m \in Message : /\ m.type = "destroy" /\ m.id = i
                               /\ to_server' = [to_server EXCEPT ![c] = Append(@, m)]
        BY <1>1, <1>2, SendsFacts
    <1>4. PICK new : new = shown[c] \ {i}
        OBVIOUS
    <1>5. new \in SUBSET Id /\ shown' = [shown EXCEPT ![c] = new]
        BY <1>1, <1>2, <1>4 DEF TypeOK
    <1>6. \A j \in Id : j \in new <=> Creates(m, j) \/ (j \in shown[c] /\ ~Destroys(m, j))
        BY <1>3, <1>4 DEF Creates, Destroys
    <1>7. l \in Location /\ m.type \in PlainType
        BY <1>3 DEF Location, PlainType
    <1> QED
        BY <1>3, <1>5, <1>6, <1>7, SendStep

LEMMA HideStep ==
    ASSUME IInv, NEW c \in Client, NEW i \in Id, Hide(c, i)
    PROVE  IInv'
    <1>1. Call(c, "hide") /\ HideOne(c, i) /\ (pc' = [pc EXCEPT ![c] = "exiting"] \/ pc' = pc)
        BY DEF Hide, Goto
    <1>2. /\ compositor = "up" /\ c \in alive /\ pc[c] = "idle" /\ calls' \in [Client -> Nat]
          /\ UNCHANGED <<desk, clients, sweep, compositor, pending, alive>>
        BY <1>1, CallFacts
    <1>3. pc = [pc EXCEPT ![c] = "idle"]
        BY <1>2, SameFacts DEF IInv
    <1>4. PICK l \in {"idle", "exiting"} : pc' = [pc EXCEPT ![c] = l]
        BY <1>1, <1>3
    <1> QED
        BY <1>1, <1>2, <1>4, HideOneStep

LEMMA LeaveStep ==
    ASSUME IInv, NEW c \in Client, Leave(c)
    PROVE  IInv'
    <1>1. /\ compositor = "up" /\ c \in alive /\ pc[c] = "exiting"
          /\ UNCHANGED <<desk, clients, sweep, compositor, pending, calls, alive>>
        BY DEF Leave, At
    <1>2. TypeOK /\ calls' \in [Client -> Nat]
        BY <1>1 DEF IInv, TypeOK
    <1>3. ASSUME NEW i \in Id, HideOne(c, i), pc' = pc
          PROVE  IInv'
        <2>1. pc' = [pc EXCEPT ![c] = "exiting"]
            BY <1>1, <1>2, <1>3, SameFacts
        <2> QED
            BY <1>1, <1>2, <1>3, <2>1, HideOneStep
    <1>4. ASSUME shown[c] = {}, Sends(c, "goodbye", AnyId), pc' = [pc EXCEPT ![c] = "goodbye"],
                 shown' = shown
          PROVE  IInv'
        <2>1. PICK m \in Message : /\ m.type = "goodbye"
                                   /\ to_server' = [to_server EXCEPT ![c] = Append(@, m)]
            BY <1>4, SendsFacts, WindowFacts
        <2>2. shown' = [shown EXCEPT ![c] = shown[c]] /\ shown[c] \in SUBSET Id
            BY <1>2, <1>4, SameFacts
        <2>3. \A j \in Id : j \in shown[c] <=> Creates(m, j) \/ (j \in shown[c] /\ ~Destroys(m, j))
            BY <2>1 DEF Creates, Destroys
        <2>4. "goodbye" \in Location
            BY DEF Location
        <2> QED
            BY <1>1, <1>2, <1>4, <2>1, <2>2, <2>3, <2>4, SendStep
    <1> QED
        BY <1>3, <1>4 DEF Leave, Goto
LEMMA ConnectStep ==
    ASSUME IInv, NEW c \in Client, Connect(c)
    PROVE  IInv'
    <1>1. /\ compositor = "up" /\ c \in alive /\ pc[c] = "new"
          /\ pending' = Append(pending, c) /\ pc' = [pc EXCEPT ![c] = "connecting"]
          /\ desk' = desk /\ clients' = clients /\ sweep' = sweep /\ compositor' = compositor
          /\ to_server' = to_server /\ shown' = shown /\ calls' = calls /\ alive' = alive
        BY DEF Connect, At, Goto, appVars
    <1>2. TypeOK /\ pending \in Seq(Client) /\ Once(pending) /\ Consistent(c)
        BY <1>1 DEF IInv, TypeOK
    <1>3. c \notin ToSet(pending)
        BY <1>1, <1>2 DEF Consistent, Placed
    <1>4. /\ pending' \in Seq(Client) /\ Once(pending') /\ ToSet(pending') = ToSet(pending) \cup {c}
        BY <1>1, <1>2, <1>3, AppendFacts
    <1>5. /\ pc' \in [Client -> Location] /\ pc'[c] = "connecting"
          /\ \A a \in Client : a # c => pc'[a] = pc[a]
        BY <1>1, <1>2 DEF TypeOK, Location
    <1>6. TypeOK'
        BY <1>1, <1>2, <1>4, <1>5 DEF TypeOK
    <1>7. /\ ToSet(clients)' = ToSet(clients) /\ ToSet(pending)' = ToSet(pending')
          /\ IdsOf(desk, c)' = IdsOf(desk, c)
        BY <1>1 DEF ToSet, IdsOf
    <1>8. Placed(c)'
        BY <1>1, <1>2, <1>4, <1>5, <1>7 DEF Consistent, Placed
    <1>9. Due("connecting", to_server[c], desk.out[c])
        BY <1>1, <1>2 DEF Consistent, Due
    <1>10. Consistent(c)'
        BY <1>1, <1>2, <1>5, <1>7, <1>8, <1>9 DEF Consistent
    <1>11. \A a \in alive : a # c => pc'[a] = pc[a]
        BY <1>2, <1>5 DEF TypeOK
    <1> QED
        BY <1>1, <1>4, <1>6, <1>10, <1>11, OwnStep

LEMMA ExitStep ==
    ASSUME IInv, NEW c \in Client, Exit(c)
    PROVE  IInv'
    <1>1. /\ Call(c, "exit") /\ pc' = [pc EXCEPT ![c] = "exiting"]
          /\ to_server' = to_server /\ shown' = shown
        BY DEF Exit, Goto
    <1>2. /\ compositor = "up" /\ c \in alive /\ pc[c] = "idle" /\ calls' \in [Client -> Nat]
          /\ UNCHANGED <<desk, clients, sweep, compositor, pending, alive>>
        BY <1>1, CallFacts
    <1>3. TypeOK /\ Once(pending) /\ Consistent(c)
        BY <1>2 DEF IInv
    <1>4. /\ pc' \in [Client -> Location] /\ pc'[c] = "exiting"
          /\ \A a \in Client : a # c => pc'[a] = pc[a]
        BY <1>1, <1>3 DEF TypeOK, Location
    <1>5. TypeOK'
        BY <1>1, <1>2, <1>3, <1>4 DEF TypeOK
    <1>6. /\ ToSet(clients)' = ToSet(clients) /\ ToSet(pending)' = ToSet(pending)
          /\ IdsOf(desk, c)' = IdsOf(desk, c)
        BY <1>2 DEF ToSet, IdsOf
    <1>7. Placed(c)'
        BY <1>1, <1>2, <1>3, <1>4, <1>6 DEF Consistent, Placed
    <1>8. Due("exiting", to_server[c], desk.out[c])
        BY <1>2, <1>3 DEF Consistent, Due
    <1>9. Consistent(c)'
        BY <1>1, <1>2, <1>3, <1>4, <1>6, <1>7, <1>8 DEF Consistent
    <1>10. \A a \in alive : a # c => pc'[a] = pc[a]
        BY <1>3, <1>4 DEF TypeOK
    <1> QED
        BY <1>1, <1>2, <1>3, <1>5, <1>9, <1>10, OwnStep

(* The answer is taken, or an event. *)
LEMMA ReceiveStep ==
    ASSUME IInv, NEW c \in Client, Receive(c)
    PROVE  IInv'
    <1>1. PICK out : out = desk.out[c]
        OBVIOUS
    <1>2. /\ compositor = "up" /\ c \in alive /\ out # <<>>
          /\ pc[c] \in {"idle", "greetings", "ack", "position", "goodbye"}
          /\ desk' = [desk EXCEPT !.out[c] = Tail(@)]
          /\ pc' = IF Head(out) = pc[c] THEN [pc EXCEPT ![c] = "idle"] ELSE pc
          /\ clients' = clients /\ sweep' = sweep /\ compositor' = compositor /\ pending' = pending
          /\ to_server' = to_server /\ shown' = shown /\ calls' = calls /\ alive' = alive
        BY <1>1 DEF Receive, Goto, appVars
    <1>3. /\ TypeOK /\ Once(pending) /\ Consistent(c) /\ desk \in Desk
          /\ desk.out \in [Client -> Seq(SentType)] /\ out \in Seq(SentType) /\ Tail(out) \in Seq(SentType)
        <2>1. TypeOK /\ Once(pending) /\ Consistent(c) /\ desk \in Desk
            BY <1>2 DEF IInv, TypeOK
        <2> QED
            BY <1>1, <1>2, <2>1, DeskFacts, TailFacts
    <1>4. /\ desk' \in Desk /\ desk'.windows = desk.windows /\ desk'.focus = desk.focus
          /\ desk'.gone = desk.gone /\ desk'.out[c] = Tail(out)
          /\ \A a \in Client : a # c => desk'.out[a] = desk.out[a]
        <2>1. desk' = [desk EXCEPT !.out = [desk.out EXCEPT ![c] = Tail(out)]]
            BY <1>1, <1>2
        <2>2. [desk.out EXCEPT ![c] = Tail(out)] \in [Client -> Seq(SentType)]
            BY <1>3
        <2> QED
            BY <1>3, <2>1, <2>2 DEF Desk, SentType
    <1>5. PICK l : l = IF Head(out) = pc[c] THEN "idle" ELSE pc[c]
        OBVIOUS
    <1>6. /\ pc' \in [Client -> Location] /\ pc'[c] = l
          /\ \A a \in Client : a # c => pc'[a] = pc[a]
        BY <1>2, <1>3, <1>5 DEF TypeOK, Location
    <1>7. TypeOK'
        BY <1>2, <1>3, <1>4, <1>6 DEF TypeOK
    <1>8. /\ ToSet(clients)' = ToSet(clients) /\ ToSet(pending)' = ToSet(pending)
          /\ IdsOf(desk, c)' = IdsOf(desk, c)
        BY <1>2, <1>4 DEF ToSet, IdsOf
    <1>9. Due(pc[c], to_server[c], out)
        BY <1>1, <1>3 DEF Consistent
    <1>10. /\ Events(out) => Head(out) = "event" /\ Events(Tail(out))
           /\ \A a \in {"greetings", "ack", "position"} : Answered(out, a) =>
                  \/ Head(out) = a /\ Events(Tail(out))
                  \/ Head(out) = "event" /\ Answered(Tail(out), a)
        <2>1. \A a \in {"greetings", "ack", "position"} : a \in SentType /\ a # "event"
            BY DEF SentType
        <2>2. "event" \in SentType
            BY DEF SentType
        <2> QED
            BY <1>2, <1>3, <2>1, <2>2, AnsweredFacts
    <1>11. Due(l, to_server[c], Tail(out)) /\ (l = "idle" \/ l = pc[c])
           /\ (pc[c] = "goodbye" => l = "goodbye")
        <2>1. CASE Events(out)
            <3>1. Head(out) = "event" /\ Events(Tail(out))
                BY <1>10, <2>1
            <3>2. l = pc[c]
                BY <1>2, <1>5, <3>1
            <3>3. pc[c] \in {"idle", "goodbye", "ack", "position"} => Due(pc[c], to_server[c], Tail(out))
                <4>1. ASSUME pc[c] \in {"ack", "position"}, Answered(out, pc[c])
                      PROVE  FALSE
                    BY <1>10, <3>1, <4>1, <2>1 DEF Events, Answered
                <4> QED
                    BY <1>9, <3>1, <4>1 DEF Due
            <3>4. pc[c] # "greetings"
                <4>1. ASSUME pc[c] = "greetings"
                      PROVE  FALSE
                    <5>1. Answered(out, "greetings")
                        BY <1>9, <4>1 DEF Due
                    <5> QED
                        BY <2>1, <5>1 DEF Events, Answered
                <4> QED
                    BY <4>1
            <3> QED
                BY <1>2, <3>2, <3>3, <3>4
        <2>2. CASE ~Events(out)
            <3>1. /\ pc[c] \in {"greetings", "ack", "position"} /\ Answered(out, pc[c])
                  /\ pc[c] = "greetings" => to_server[c] = <<>>
                  /\ pc[c] \in {"ack", "position"} => Plain(to_server[c])
                BY <1>2, <1>9, <2>2 DEF Due
            <3>2. Plain(<<>>)
                BY DEF Plain
            <3>3. CASE Head(out) = pc[c] /\ Events(Tail(out))
                BY <1>5, <3>1, <3>2, <3>3 DEF Due
            <3>4. CASE Head(out) = "event" /\ Answered(Tail(out), pc[c])
                <4>1. l = pc[c]
                    BY <1>5, <3>1, <3>4
                <4> QED
                    BY <3>1, <3>4, <4>1 DEF Due
            <3> QED
                BY <1>10, <3>1, <3>3, <3>4
        <2> QED
            BY <2>1, <2>2
    <1>12. Placed(c)'
        BY <1>2, <1>3, <1>4, <1>6, <1>8, <1>11 DEF Consistent, Placed
    <1>13. Consistent(c)'
        BY <1>2, <1>3, <1>4, <1>6, <1>8, <1>11, <1>12 DEF Consistent
    <1>14. \A a \in alive : a # c => pc'[a] = pc[a] /\ desk'.out[a] = desk.out[a]
        BY <1>3, <1>4, <1>6 DEF TypeOK
    <1> QED
        BY <1>2, <1>3, <1>4, <1>7, <1>13, <1>14, OwnStep

LEMMA EndedStep ==
    ASSUME IInv, NEW c \in alive, compositor = "up", Ended(c)
    PROVE  IInv'
    <1>1. /\ alive' = alive \ {c} /\ to_server' = [to_server EXCEPT ![c] = <<>>]
          /\ desk' = [desk EXCEPT !.out[c] = <<>>]
          /\ clients' = clients /\ sweep' = sweep /\ compositor' = compositor /\ pending' = pending
          /\ pc' = pc /\ shown' = shown /\ calls' = calls
        BY DEF Ended
    <1>2. /\ TypeOK /\ desk \in Desk /\ desk.out \in [Client -> Seq(SentType)] /\ c \in Client
          /\ alive \subseteq Client
        BY DeskFacts DEF IInv, TypeOK
    <1>3. /\ desk' \in Desk /\ desk'.windows = desk.windows /\ desk'.focus = desk.focus
          /\ desk'.gone = desk.gone
          /\ \A a \in Client : a # c => desk'.out[a] = desk.out[a]
        <2>1. desk' = [desk EXCEPT !.out = [desk.out EXCEPT ![c] = <<>>]]
            BY <1>1
        <2>2. [desk.out EXCEPT ![c] = <<>>] \in [Client -> Seq(SentType)]
            BY <1>2
        <2> QED
            BY <1>2, <2>1, <2>2 DEF Desk, SentType
    <1>4. /\ to_server' \in [Client -> Seq(Message)]
          /\ \A a \in Client : a # c => to_server'[a] = to_server[a]
        BY <1>1, <1>2 DEF TypeOK
    <1>5. TypeOK'
        BY <1>1, <1>2, <1>3, <1>4 DEF TypeOK
    <1>6. ToSet(clients)' = ToSet(clients) /\ ToSet(pending)' = ToSet(pending)
        BY <1>1 DEF ToSet
    <1>7. ASSUME NEW a \in alive \ {c}
          PROVE  Consistent(a)'
        <2>1. Grown(desk.out[a], desk'.out[a])
            BY <1>2, <1>3, GrownFacts
        <2>2. IdsOf(desk', a) = IdsOf(desk, a)
            BY <1>3 DEF IdsOf
        <2>3. Aside(a)
            BY <1>1, <1>2, <1>3, <1>4, <1>6, <2>1, <2>2 DEF Aside
        <2> QED
            BY <1>2, <1>3, <2>3, AsideFrame DEF IInv
    <1>8. Well(desk, ToSet(clients))' /\ Once(pending)'
        BY <1>1, <1>3, <1>6 DEF IInv, Well, Owned, Once
    <1> QED
        BY <1>1, <1>5, <1>7, <1>8 DEF IInv

LEMMA ApplicationStep ==
    ASSUME IInv, NEW c \in Client, Application(c)
    PROVE  IInv'
    <1>1. CASE Connect(c)
        BY <1>1, ConnectStep
    <1>2. CASE MousePosition(c)
        BY <1>2, MousePositionStep
    <1>3. CASE SetResolution(c)
        BY <1>3, SetResolutionStep
    <1>4. CASE Exit(c)
        BY <1>4, ExitStep
    <1>5. CASE \E i \in Id : Show(c, i) \/ Hide(c, i) \/ Flip(c, i)
        BY <1>5, ShowStep, HideStep, FlipStep
    <1>6. CASE Leave(c)
        BY <1>6, LeaveStep
    <1>7. CASE Receive(c)
        BY <1>7, ReceiveStep
    <1>8. CASE Left(c)
        BY <1>8, EndedStep DEF Left, At
    <1>9. CASE Die(c)
        BY <1>9, EndedStep DEF Die
    <1> QED
        BY <1>1, <1>2, <1>3, <1>4, <1>5, <1>6, <1>7, <1>8, <1>9 DEF Application

LEMMA RoundStep ==
    ASSUME IInv, Round
    PROVE  IInv'
    <1>1. CASE CloseWindow
        BY <1>1, CloseWindowStep
    <1>2. CASE DestroyClient
        BY <1>2, DestroyClientStep
    <1>3. CASE TimerRound
        BY <1>3, TimerStep
    <1>4. CASE KeyboardRound
        BY <1>4, KeyboardStep
    <1>5. CASE SocketRound
        BY <1>5, SocketStep
    <1>6. ASSUME NEW under \in Window \cup {NoWindow}, MouseRound(under)
          PROVE  IInv'
        BY <1>6, MouseStep
    <1>7. ASSUME NEW c \in Client, RequestRound(c) \/ LossRound(c) \/ AssertRound(c)
          PROVE  IInv'
        BY <1>7, RequestStep, LossStep, AssertStep
    <1> QED
        BY <1>1, <1>2, <1>3, <1>4, <1>5, <1>6, <1>7 DEF Round

LEMMA InitInv ==
    ASSUME Init
    PROVE  IInv
    <1>1. /\ desk = [windows |-> <<>>, focus |-> NoWindow, gone |-> {}, out |-> [c \in Client |-> <<>>]]
          /\ clients = <<>> /\ sweep = 0 /\ compositor = "up" /\ pending = <<>>
          /\ to_server = [c \in Client |-> <<>>]
          /\ pc = [c \in Client |-> "new"]
          /\ shown = [c \in Client |-> {}]
          /\ calls = [c \in Client |-> 0]
          /\ alive = Client
        BY DEF Init
    <1>2. desk \in Desk
        BY <1>1 DEF Desk
    <1>3. TypeOK
        BY <1>1, <1>2 DEF TypeOK, Location
    <1>4. ToSet(<<>>) = {} /\ Once(<<>>)
        BY DEF ToSet, Once
    <1>5. Well(desk, ToSet(clients)) /\ Once(pending)
        BY <1>1, <1>4 DEF Well, Owned
    <1>6. ASSUME NEW c \in Client
          PROVE  Consistent(c)
        <2>1. pc[c] = "new" /\ to_server[c] = <<>> /\ desk.out[c] = <<>> /\ shown[c] = {}
            BY <1>1, <1>6
        <2>2. Placed(c)
            BY <1>1, <1>4, <2>1 DEF Placed
        <2>3. Due(pc[c], to_server[c], desk.out[c])
            BY <2>1 DEF Due
        <2>4. IdsOf(desk, c) = {}
            BY <1>1, <1>4 DEF IdsOf
        <2>5. Shows(<<>>, {}, {})
            BY DEF Shows, Fate
        <2> QED
            BY <2>1, <2>2, <2>3, <2>4, <2>5 DEF Consistent
    <1> QED
        BY <1>1, <1>3, <1>5, <1>6 DEF IInv
-----------------------------------------------------------------------------
(* The invariant: whatever the applications do, and whenever they end, in  *)
(* the middle of a sweep too, the windows are those of the clients and of  *)
(* what the applications have sent.                                        *)
THEOREM Invariance == Spec => []IInv
    <1>1. Init => IInv
        BY InitInv
    <1>2. IInv /\ [Next]_vars => IInv'
        <2>1. ASSUME IInv, UNCHANGED vars
              PROVE  IInv'
            <3>1. /\ desk' = desk /\ clients' = clients /\ sweep' = sweep /\ compositor' = compositor
                  /\ pending' = pending /\ to_server' = to_server /\ pc' = pc /\ shown' = shown
                  /\ calls' = calls /\ alive' = alive
                BY <2>1 DEF vars, appVars
            <3>2. /\ ToSet(clients)' = ToSet(clients) /\ ToSet(pending)' = ToSet(pending)
                  /\ ToSet(desk.windows)' = ToSet(desk.windows)
                BY <3>1 DEF ToSet
            <3>3. TypeOK' /\ (Well(desk, ToSet(clients)) /\ Once(pending) =>
                                  Well(desk, ToSet(clients))' /\ Once(pending)')
                BY <2>1, <3>1, <3>2 DEF IInv, TypeOK, Well, Owned, Once
            <3>4. ASSUME NEW c \in alive, Consistent(c)
                  PROVE  Consistent(c)'
                <4>1. Placed(c)'
                    BY <3>1, <3>2, <3>4 DEF Consistent, Placed
                <4>2. Due(pc'[c], to_server'[c], desk'.out[c])
                    BY <3>1, <3>4 DEF Consistent
                <4>3. IdsOf(desk, c)' = IdsOf(desk, c)
                    BY <3>1, <3>2 DEF IdsOf
                <4>4. Shows(to_server'[c], shown'[c], IdsOf(desk, c))
                    BY <3>1, <3>4 DEF Consistent
                <4> QED
                    BY <4>1, <4>2, <4>3, <4>4 DEF Consistent
            <3> QED
                BY <2>1, <3>1, <3>3, <3>4 DEF IInv
        <2> QED
            BY <2>1, RoundStep, ApplicationStep DEF Next
    <1> QED
        BY <1>1, <1>2, PTL DEF Spec

(* A window that is managed belongs to a client, the one with the focus is *)
(* managed, and those of a living application are those that it shows,     *)
(* once all that it has sent is handled.                                   *)
THEOREM WindowsCorrect == Spec => []WindowsHaveClients
    <1>1. ASSUME IInv
          PROVE  WindowsHaveClients
        <2>1. ASSUME compositor = "up", NEW c \in alive, to_server[c] = <<>>
              PROVE  shown[c] = {i \in Id : Managed([client |-> c, id |-> i])}
            <3>1. Shows(<<>>, shown[c], IdsOf(desk, c)) /\ shown[c] \subseteq Id
                BY <1>1, <2>1 DEF IInv, Consistent, TypeOK
            <3>2. ASSUME NEW i \in Id
                  PROVE  i \in shown[c] <=> i \in IdsOf(desk, c)
                BY <3>1 DEF Shows, Fate
            <3>3. shown[c] = IdsOf(desk, c)
                BY <3>1, <3>2 DEF IdsOf
            <3> QED
                BY <3>3 DEF IdsOf, Managed
        <2>2. compositor = "up" =>
                  /\ \A w \in ToSet(desk.windows) : w.client \in ToSet(clients)
                  /\ \A i, j \in DOMAIN desk.windows : desk.windows[i] = desk.windows[j] => i = j
                  /\ desk.focus # NoWindow => Managed(desk.focus)
            BY <1>1 DEF IInv, Well, Owned, Once, Managed
        <2> QED
            BY <2>1, <2>2 DEF WindowsHaveClients
    <1> QED
        BY <1>1, Invariance, PTL

(* The answer that an application waits for is on its way, or the request  *)
(* for it is and will be the next of its requests that is answered: an     *)
(* answer is never lost, and none comes that nobody waits for.             *)
Awaited(c) ==
    /\ pc[c] = "greetings" => to_server[c] = <<>> /\ Answered(desk.out[c], "greetings")
    /\ pc[c] \in {"ack", "position"} =>
           \/ Asked(to_server[c], Request[pc[c]]) /\ Events(desk.out[c])
           \/ Plain(to_server[c]) /\ Answered(desk.out[c], pc[c])
    /\ pc[c] = "goodbye" =>
           /\ Events(desk.out[c])
           /\ \/ to_server[c] = <<>> /\ c \in desk.gone
              \/ Asked(to_server[c], "goodbye") /\ c \notin desk.gone
    /\ pc[c] \in {"new", "connecting", "idle", "exiting"} => Plain(to_server[c]) /\ Events(desk.out[c])

THEOREM AnswersCorrect == Spec => [](compositor = "up" => \A c \in alive : Awaited(c))
    <1>1. ASSUME IInv, compositor = "up", NEW c \in alive
          PROVE  Awaited(c)
        <2>1. Placed(c) /\ Due(pc[c], to_server[c], desk.out[c])
            BY <1>1 DEF IInv, Consistent
        <2>2. Plain(<<>>) /\ Events(<<>>) /\ ~Asked(<<>>, "goodbye")
            BY DEF Plain, Events, Asked
        <2> QED
            <3>1. pc[c] = "greetings" => to_server[c] = <<>> /\ Answered(desk.out[c], "greetings")
                BY <2>1 DEF Due
            <3>2. pc[c] \in {"ack", "position"} =>
                      \/ Asked(to_server[c], Request[pc[c]]) /\ Events(desk.out[c])
                      \/ Plain(to_server[c]) /\ Answered(desk.out[c], pc[c])
                BY <2>1 DEF Due
            <3>3. pc[c] = "goodbye" =>
                      /\ Events(desk.out[c])
                      /\ to_server[c] = <<>> \/ Asked(to_server[c], "goodbye")
                      /\ c \in desk.gone <=> to_server[c] = <<>>
                BY <2>1 DEF Due, Placed
            <3>4. pc[c] \in {"new", "connecting", "idle", "exiting"} =>
                      Plain(to_server[c]) /\ Events(desk.out[c])
                BY <2>1, <2>2 DEF Due
            <3>5. pc[c] = "goodbye" =>
                      \/ to_server[c] = <<>> /\ c \in desk.gone
                      \/ Asked(to_server[c], "goodbye") /\ c \notin desk.gone
                BY <2>2, <3>3
            <3>6. pc[c] = "goodbye" => Events(desk.out[c])
                BY <3>3
            <3> QED
                BY <3>1, <3>2, <3>4, <3>5, <3>6 DEF Awaited
    <1>2. IInv => (compositor = "up" => \A c \in alive : Awaited(c))
        BY <1>1
    <1> QED
        BY <1>2, Invariance, PTL

(* Client::handle_request is called for a client that is disconnected, and *)
(* its assertion fails, only when the application has ended: a living one  *)
(* that has said goodbye has sent nothing after it.                        *)
THEOREM LivingAreConnected ==
    Spec => [](\A c \in alive : Selects(c) => c \notin desk.gone)
    <1>1. ASSUME IInv, NEW c \in alive, Selects(c), c \in desk.gone
          PROVE  FALSE
        <2>1. compositor = "up" /\ to_server[c] # <<>>
            BY <1>1 DEF Selects, Polls, Readable
        <2>2. Placed(c)
            BY <1>1, <2>1 DEF IInv, Consistent
        <2> QED
            BY <1>1, <2>1, <2>2 DEF Placed
    <1>2. IInv => \A c \in alive : Selects(c) => c \notin desk.gone
        BY <1>1
    <1> QED
        BY <1>2, Invariance, PTL
=============================================================================
