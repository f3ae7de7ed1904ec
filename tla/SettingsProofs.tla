--------------------------- MODULE SettingsProofs ---------------------------
(***************************************************************************)
(* The invariants of the settings service and its clients, and that a      *)
(* Setting stays up to date, proved for any number of processes, Settings  *)
(* and values.                                                             *)
(***************************************************************************)
EXTENDS SettingsProps, FiniteSetTheorems, SequenceTheorems, TLAPS

Requests == {"read", "write", "watch", "unwatch"}

(* At each place of the service, whom it serves, and with what. *)
ServerShape ==
    /\ server.at = "poll" => server = Polling
    /\ server.at # "poll" => server.who \in Client
    /\ server.next >= 1
    /\ server.reply.type \in {"ack", "value"}

(* What is written, notified or answered is a value of the path. *)
PayloadsOf(c) ==
    /\ \A i \in DOMAIN to_client[c] :
           to_client[c][i].type \in {"notify", "value"} => to_client[c][i].payload \in Value
    /\ \A i \in DOMAIN to_server[c] :
           to_server[c][i].type = "write" => to_server[c][i].payload \in Value

Payloads ==
    /\ server.reply.type = "value" => server.reply.payload \in Value
    /\ \A c \in Client : PayloadsOf(c)

(* Who has ended has nothing left, and is the only one that the service    *)
(* may have lost.                                                          *)
EndedHasNothing ==
    /\ closed \cap alive = {}
    /\ \A c \in Client : c \in alive <=> pc[c] # "ended"
    /\ \A c \in Client \ alive :
           to_server[c] = <<>> /\ to_client[c] = <<>> /\ watchers[c] = {}

(* The service knows whoever it has accepted and not lost. *)
AcceptedAreKnown ==
    \A c \in alive : pc[c] \notin {"new", "connecting"} => Known(c)

(* A request is sent and not received, or handled, or answered: one of     *)
(* these, once, and only while its client awaits the answer.               *)
Handling(c) == server.at # "poll" /\ server.who = c
OnlyNotified(q, i) == \A j \in DOMAIN q : j # i => q[j].type = "notify"

RequestOf(c) ==
    /\ pc[c] \notin Requests =>
           to_server[c] = <<>> /\ ~Handling(c) /\ OnlyNotified(to_client[c], 0)
    /\ pc[c] \in Requests =>
           \/ /\ Len(to_server[c]) = 1 /\ to_server[c][1].type = pc[c]
              /\ ~Handling(c) /\ OnlyNotified(to_client[c], 0)
           \/ /\ to_server[c] = <<>> /\ Handling(c) /\ server.reply.type = Expected(c)
              /\ OnlyNotified(to_client[c], 0)
           \/ /\ to_server[c] = <<>> /\ ~Handling(c)
              /\ \E i \in DOMAIN to_client[c] : /\ to_client[c][i].type = Expected(c)
                                                /\ OnlyNotified(to_client[c], i)

OneRequest == \A c \in alive : RequestOf(c)

(* The subscription follows the list of watchers; while a request to watch *)
(* or to unwatch is under way there is no watcher, and the subscription    *)
(* changes when the service receives it.                                   *)
SubscriptionOf(c) ==
    /\ pc[c] \in {"new", "connecting"} => c \notin subscribed /\ watchers[c] = {}
    /\ pc[c] \in {"idle", "read", "write"} => (c \in subscribed <=> watchers[c] # {})
    /\ pc[c] = "watch" => watchers[c] = {} /\ (c \in subscribed <=> to_server[c] = <<>>)
    /\ pc[c] = "unwatch" => watchers[c] = {} /\ (c \in subscribed <=> to_server[c] # <<>>)

Subscriptions == \A c \in alive : SubscriptionOf(c)

(* A Setting that has a watcher has a value, one that is being read has    *)
(* none, and one whose path is being watched has one.                      *)
RegisteredOf(c) ==
    /\ \A s \in watchers[c] : cached[c][s] # NoValue
    /\ pc[c] = "read" => cached[c][making[c]] = NoValue
    /\ pc[c] = "watch" => cached[c][making[c]] # NoValue

Registered == \A c \in alive : RegisteredOf(c)

(* c is yet to be told of the write that the service has taken. *)
Awaits(c) ==
    server.at = "notify" /\ c \in subscribed
        /\ \E i \in server.next .. Len(clients) : clients[i] = c
(* A write of c is not taken yet. *)
Writing(c) == pc[c] = "write" /\ to_server[c] # <<>>

(* While the service tells of a write, whoever has subscribed is yet to be *)
(* told, or was told last of all, or has all of its Settings up to date,   *)
(* but for a write of its own.                                             *)
EndsWith(q, m) == q # <<>> /\ q[Len(q)] = m

NotifyingOf(c) ==
    \/ Awaits(c)
    \/ EndsWith(to_client[c], With("notify", repository))
    \/ /\ to_client[c] = <<>>
       /\ Writing(c) \/ \A s \in watchers[c] : cached[c][s] = repository

Notifying == server.at = "notify" => \A c \in alive \cap subscribed : NotifyingOf(c)

IInv ==
    /\ TypeOK
    /\ ServerShape
    /\ Payloads
    /\ EndedHasNothing
    /\ AcceptedAreKnown
    /\ OneRequest
    /\ Subscriptions
    /\ Registered
    /\ Notifying

(* The last notification in q is of v; there is none in q. *)
LastNotified(q, v) ==
    \E i \in DOMAIN q : /\ q[i] = With("notify", v)
                        /\ \A j \in DOMAIN q : q[j].type = "notify" => j <= i
Unnotified(q) == \A i \in DOMAIN q : q[i].type # "notify"

(* A Setting that has been told of a write, or will be, is up to date once *)
(* all that is on its way has come, and is never registered again once it  *)
(* was destroyed.                                                          *)
Current(c, s) ==
    IF s \in watchers[c]
    THEN \/ Awaits(c)
         \/ LastNotified(to_client[c], repository)
         \/ Unnotified(to_client[c]) /\ (Writing(c) \/ cached[c][s] = repository)
    ELSE \/ pc[c] = "ended"
         \/ cached[c][s] # NoValue /\ ~(pc[c] \in {"read", "watch"} /\ making[c] = s)

NotifiedStaysCurrent ==
    \A c \in Client, s \in Setting :
        [](server.at = "notify" /\ s \in watchers[c] => []Current(c, s))
-----------------------------------------------------------------------------
Members(s) == {s[i] : i \in DOMAIN s}

LEMMA AppendMembers ==
    ASSUME NEW V, NEW s \in Seq(V), NEW v \in V
    PROVE  Append(s, v) \in Seq(V) /\ Members(Append(s, v)) = Members(s) \cup {v}
    <1>1. PICK t : t = Append(s, v)
        OBVIOUS
    <1>2. /\ t \in Seq(V) /\ Len(t) = Len(s) + 1 /\ Len(s) \in Nat /\ t[Len(s) + 1] = v
          /\ \A i \in 1 .. Len(s) : t[i] = s[i]
        BY <1>1
    <1>3. DOMAIN t = 1 .. Len(s) + 1 /\ DOMAIN s = 1 .. Len(s)
        BY <1>2
    <1>4. Members(t) = Members(s) \cup {v}
        <2>1. \A x \in Members(t) : x \in Members(s) \cup {v}
            BY <1>2, <1>3 DEF Members
        <2>2. \A x \in Members(s) : x \in Members(t)
            BY <1>2, <1>3 DEF Members
        <2>3. v \in Members(t)
            BY <1>2, <1>3 DEF Members
        <2> QED
            BY <2>1, <2>2, <2>3
    <1> QED
        BY <1>1, <1>2, <1>4

(* What remove_all_match leaves: everybody who is not gone, nobody else.   *)
LEMMA ConnectedFacts ==
    ASSUME NEW cs \in Seq(Client), NEW gone
    PROVE  /\ Connected(cs, gone) \in Seq(Client)
           /\ Members(Connected(cs, gone)) = Members(cs) \ gone
    <1>1. PICK kept : kept = {i \in DOMAIN cs : cs[i] \notin gone}
        OBVIOUS
    <1>2. DOMAIN cs = 1 .. Len(cs) /\ Len(cs) \in Nat /\ \A i \in DOMAIN cs : cs[i] \in Client
        OBVIOUS
    <1>3. kept \subseteq Nat /\ IsFiniteSet(kept)
        <2>1. kept \in SUBSET (1 .. Len(cs)) /\ kept \subseteq Nat
            BY <1>1, <1>2
        <2>2. IsFiniteSet(1 .. Len(cs))
            <3>1. 1 \in Int /\ Len(cs) \in Int
                BY <1>2
            <3> QED
                BY <3>1, FS_Interval
        <2> QED
            BY <2>1, <2>2, FS_Subset
    <1>4. PICK N : N = Cardinality(kept)
        OBVIOUS
    <1>5. N \in Nat
        BY <1>3, <1>4, FS_CardinalityType
    <1>6. PICK rank : rank = [i \in kept |-> Cardinality({k \in kept : k <= i})]
        OBVIOUS
    <1>7. ASSUME NEW i \in kept
          PROVE  rank[i] \in 1 .. N
        <2>1. {k \in kept : k <= i} \in SUBSET kept /\ i \in {k \in kept : k <= i}
            BY <1>3
        <2>2. IsFiniteSet({k \in kept : k <= i}) /\ Cardinality({k \in kept : k <= i}) <= N
            BY <1>3, <1>4, <2>1, FS_Subset
        <2>3. Cardinality({k \in kept : k <= i}) \in Nat /\ Cardinality({k \in kept : k <= i}) # 0
            BY <2>1, <2>2, FS_CardinalityType, FS_EmptySet
        <2> QED
            BY <1>5, <1>6, <2>2, <2>3
    <1>8. ASSUME NEW i \in kept, NEW j \in kept, i < j
          PROVE  rank[i] # rank[j]
        <2>1. /\ {k \in kept : k <= i} \in SUBSET {k \in kept : k <= j}
              /\ j \in {k \in kept : k <= j} /\ j \notin {k \in kept : k <= i}
            <3>1. \A k \in kept : k \in Nat /\ (k <= i => k <= j)
                BY <1>3, <1>8
            <3>2. j <= j /\ ~(j <= i)
                BY <1>3, <1>8
            <3> QED
                BY <1>8, <3>1, <3>2, Zenon
        <2>2. IsFiniteSet({k \in kept : k <= j})
            <3>1. PICK B : B = {k \in kept : k <= j}
                OBVIOUS
            <3>2. B \in SUBSET kept
                BY <3>1
            <3>3. IsFiniteSet(B)
                BY <1>3, <3>2, FS_Subset
            <3> QED
                BY <3>1, <3>3
        <2>3. PICK A : A = {k \in kept : k <= i}
            OBVIOUS
        <2>4. PICK B : B = {k \in kept : k <= j}
            OBVIOUS
        <2>5. IsFiniteSet(B) /\ A \in SUBSET B /\ A # B
            BY <2>1, <2>2, <2>3, <2>4
        <2>6. Cardinality(B) # Cardinality(A)
            BY <2>5, FS_Subset
        <2> QED
            BY <1>6, <2>3, <2>4, <2>6
    <1>9. rank \in [kept -> 1 .. N]
        BY <1>6, <1>7
    <1>10. \A i, j \in kept : rank[i] = rank[j] => i = j
        BY <1>3, <1>8
    <1>11. rank \in Surjection(kept, 1 .. N)
        <2>1. rank \in Injection(kept, 1 .. N)
            BY <1>9, <1>10 DEF Injection, IsInjective
        <2>2. IsFiniteSet(1 .. N) /\ Cardinality(1 .. N) = N
            <3>1. 1 \in Int /\ N \in Int /\ (IF 1 > N THEN 0 ELSE N - 1 + 1) = N
                BY <1>5
            <3> QED
                BY <3>1, FS_Interval
        <2> QED
            BY <1>4, <2>1, <2>2, FS_Injection
    <1>12. PICK at : at = [n \in 1 .. N |-> CHOOSE i \in kept : Cardinality({k \in kept : k <= i}) = n]
        OBVIOUS
    <1>13. ASSUME NEW n \in 1 .. N
           PROVE  at[n] \in kept /\ rank[at[n]] = n
        <2>1. \E i \in kept : Cardinality({k \in kept : k <= i}) = n
            BY <1>6, <1>11 DEF Surjection
        <2>2. at[n] \in kept /\ Cardinality({k \in kept : k <= at[n]}) = n
            BY <1>12, <2>1
        <2> QED
            BY <1>6, <2>2
    <1>14. PICK r : r = Connected(cs, gone)
        OBVIOUS
    <1>15. r = [n \in 1 .. N |-> cs[at[n]]]
        BY <1>1, <1>4, <1>12, <1>14 DEF Connected
    <1>16. r \in Seq(Client) /\ DOMAIN r = 1 .. N
        BY <1>1, <1>2, <1>5, <1>13, <1>15
    <1>17. ASSUME NEW i \in kept
           PROVE  cs[i] \in Members(r)
        <2>1. rank[i] \in 1 .. N /\ at[rank[i]] = i
            BY <1>7, <1>10, <1>13, <1>17
        <2> QED
            BY <1>15, <1>16, <2>1 DEF Members
    <1>18. \A n \in DOMAIN r : r[n] \in Members(cs) \ gone
        BY <1>1, <1>13, <1>15, <1>16 DEF Members
    <1> QED
        BY <1>1, <1>14, <1>16, <1>17, <1>18 DEF Members

-----------------------------------------------------------------------------
LEMMA MessageFacts ==
    /\ \A t \in MessageType : Bare(t) \in Message /\ Bare(t).type = t
    /\ \A t \in MessageType, v \in Value :
           With(t, v) \in Message /\ With(t, v).type = t /\ With(t, v).payload = v
    /\ \A m \in Message : m.type \in MessageType /\ m.payload \in Value \cup {NoValue}
    BY DEF Message, Bare, With

(* A message that is sent comes last. *)
LEMMA SentLast ==
    ASSUME NEW q \in Seq(Message), NEW m \in Message
    PROVE  /\ Append(q, m) \in Seq(Message) /\ Append(q, m) # <<>>
           /\ EndsWith(Append(q, m), m)
           /\ Members(Append(q, m)) = Members(q) \cup {m}
           /\ OnlyNotified(q, 0) => OnlyNotified(Append(q, m), Len(q) + 1)
           /\ \A i \in DOMAIN q : OnlyNotified(q, i) /\ m.type = "notify" =>
                  OnlyNotified(Append(q, m), i)
           /\ \A i \in DOMAIN q : Append(q, m)[i] = q[i]
           /\ DOMAIN Append(q, m) = DOMAIN q \cup {Len(q) + 1}
           /\ OnlyNotified(q, 0) /\ m.type = "notify" => OnlyNotified(Append(q, m), 0)
           /\ Append(q, m)[Len(q) + 1] = m
           /\ \A v : LastNotified(q, v) /\ m.type # "notify" => LastNotified(Append(q, m), v)
           /\ \A v : m = With("notify", v) => LastNotified(Append(q, m), v)
           /\ Unnotified(q) /\ m.type # "notify" => Unnotified(Append(q, m))
    <1>1. PICK t, n : t = Append(q, m) /\ n = Len(q)
        OBVIOUS
    <1>2. /\ t \in Seq(Message) /\ n \in Nat /\ Len(t) = n + 1 /\ t[n + 1] = m
          /\ DOMAIN t = 1 .. n + 1 /\ DOMAIN q = 1 .. n /\ t # <<>>
          /\ \A i \in 1 .. n : t[i] = q[i]
        BY <1>1
    <1>3. 1 .. n + 1 = (1 .. n) \cup {n + 1}
        BY <1>2
    <1>4. Members(t) = Members(q) \cup {m}
        BY <1>1, AppendMembers
    <1>5. EndsWith(t, m)
        BY <1>2 DEF EndsWith
    <1>6. /\ OnlyNotified(q, 0) => OnlyNotified(t, n + 1)
          /\ \A i \in 1 .. n : OnlyNotified(q, i) /\ m.type = "notify" => OnlyNotified(t, i)
          /\ OnlyNotified(q, 0) /\ m.type = "notify" => OnlyNotified(t, 0)
        BY <1>2, <1>3 DEF OnlyNotified
    <1>7. \A v : LastNotified(q, v) /\ m.type # "notify" => LastNotified(t, v)
        BY <1>2, <1>3 DEF LastNotified
    <1>8. \A v : m = With("notify", v) => LastNotified(t, v)
        BY <1>2 DEF LastNotified
    <1>9. Unnotified(q) /\ m.type # "notify" => Unnotified(t)
        BY <1>2, <1>3 DEF Unnotified
    <1> QED
        BY <1>1, <1>2, <1>3, <1>4, <1>5, <1>6, <1>7, <1>8, <1>9

(* What the first message leaves when it is received.                      *)
LEMMA ReceivedFirst ==
    ASSUME NEW q \in Seq(Message), q # <<>>
    PROVE  /\ Head(q) \in Message /\ Head(q) = q[1] /\ Tail(q) \in Seq(Message) /\ 1 \in DOMAIN q
           /\ Len(Tail(q)) = Len(q) - 1
           /\ Members(Tail(q)) \subseteq Members(q)
           /\ \A i \in DOMAIN Tail(q) : Tail(q)[i] = q[i + 1] /\ i + 1 \in DOMAIN q
           /\ OnlyNotified(q, 0) => OnlyNotified(Tail(q), 0) /\ Head(q).type = "notify"
           /\ \A i \in DOMAIN q : OnlyNotified(q, i) =>
                  IF i = 1 THEN OnlyNotified(Tail(q), 0)
                  ELSE /\ Head(q).type = "notify" /\ OnlyNotified(Tail(q), i - 1)
                       /\ i - 1 \in DOMAIN Tail(q) /\ Tail(q)[i - 1] = q[i]
           /\ \A m : EndsWith(q, m) => EndsWith(Tail(q), m) \/ (Tail(q) = <<>> /\ Head(q) = m)
           /\ \A v : LastNotified(q, v) =>
                  LastNotified(Tail(q), v) \/ (Head(q) = With("notify", v) /\ Unnotified(Tail(q)))
           /\ Unnotified(q) => Unnotified(Tail(q)) /\ Head(q).type # "notify"
    <1>1. PICK t, n, h : t = Tail(q) /\ n = Len(q) /\ h = Head(q)
        OBVIOUS
    <1>2. /\ t \in Seq(Message) /\ n \in Nat /\ n >= 1 /\ Len(t) = n - 1 /\ h = q[1] /\ h \in Message
          /\ DOMAIN t = 1 .. n - 1 /\ DOMAIN q = 1 .. n
          /\ \A i \in 1 .. n - 1 : t[i] = q[i + 1]
        BY <1>1
    <1>3. /\ \A i \in 1 .. n - 1 : t[i] = q[i + 1] /\ i + 1 \in 1 .. n /\ i + 1 # 1
          /\ \A i \in 1 .. n : i # 1 => i - 1 \in 1 .. n - 1 /\ t[i - 1] = q[i]
        <2>1. ASSUME NEW i \in 1 .. n - 1
              PROVE  t[i] = q[i + 1] /\ i + 1 \in 1 .. n /\ i + 1 # 1
            <3>1. i + 1 \in 1 .. n /\ i + 1 # 1
                BY <1>2
            <3> QED
                BY <1>2, <3>1
        <2>2. ASSUME NEW i \in 1 .. n, i # 1
              PROVE  i - 1 \in 1 .. n - 1 /\ t[i - 1] = q[i]
            <3>1. i - 1 \in 1 .. n - 1 /\ (i - 1) + 1 = i
                BY <1>2, <2>2
            <3> QED
                BY <1>2, <3>1
        <2> QED
            BY <2>1, <2>2
    <1>4. Members(t) \subseteq Members(q)
        <2>1. \A x \in Members(t) : \E i \in 1 .. n - 1 : x = q[i + 1] /\ i + 1 \in 1 .. n
            BY <1>2, <1>3 DEF Members
        <2>2. \A i \in 1 .. n : q[i] \in Members(q)
            BY <1>2 DEF Members
        <2> QED
            BY <2>1, <2>2
    <1>5. ASSUME OnlyNotified(q, 0)
          PROVE  OnlyNotified(t, 0) /\ h.type = "notify"
        <2>1. \A j \in 1 .. n : q[j].type = "notify"
            <3>1. \A j \in 1 .. n : j # 0
                BY <1>2
            <3> QED
                BY <1>2, <1>5, <3>1 DEF OnlyNotified
        <2>2. 1 \in 1 .. n
            BY <1>2
        <2>3. \A j \in 1 .. n - 1 : t[j].type = "notify"
            BY <1>3, <2>1
        <2> QED
            BY <1>2, <2>1, <2>2, <2>3 DEF OnlyNotified
    <1>6. ASSUME NEW i \in 1 .. n, OnlyNotified(q, i)
          PROVE  IF i = 1 THEN OnlyNotified(t, 0)
                 ELSE /\ h.type = "notify" /\ OnlyNotified(t, i - 1)
                      /\ i - 1 \in 1 .. n - 1 /\ t[i - 1] = q[i]
        <2>1. ASSUME NEW j \in 1 .. n - 1, j + 1 # i
              PROVE  t[j].type = "notify"
            <3>1. j + 1 \in 1 .. n /\ t[j] = q[j + 1]
                BY <1>3
            <3> QED
                BY <1>2, <1>6, <2>1, <3>1 DEF OnlyNotified
        <2>2. CASE i = 1
            <3>1. \A j \in 1 .. n - 1 : j + 1 # i
                BY <1>2, <2>2
            <3> QED
                BY <1>2, <2>1, <2>2, <3>1 DEF OnlyNotified
        <2>3. CASE i # 1
            <3>1. h.type = "notify"
                BY <1>2, <1>6, <2>3 DEF OnlyNotified
            <3>2. \A j \in 1 .. n - 1 : j # i - 1 => j + 1 # i
                BY <1>2
            <3> QED
                BY <1>2, <1>3, <2>1, <2>3, <3>1, <3>2 DEF OnlyNotified
        <2> QED
            BY <2>2, <2>3
    <1>7. \A m : EndsWith(q, m) => EndsWith(t, m) \/ (t = <<>> /\ h = m)
        BY <1>2 DEF EndsWith
    <1>8. ASSUME NEW v, LastNotified(q, v)
          PROVE  LastNotified(t, v) \/ (h = With("notify", v) /\ Unnotified(t))
        <2>1. PICK i \in 1 .. n : /\ q[i] = With("notify", v)
                                  /\ \A j \in 1 .. n : q[j].type = "notify" => j <= i
            BY <1>2, <1>8 DEF LastNotified
        <2>2. CASE i = 1
            <3>1. \A j \in 1 .. n - 1 : t[j].type # "notify"
                BY <1>2, <1>3, <2>1, <2>2
            <3> QED
                BY <1>2, <2>1, <2>2, <3>1 DEF Unnotified
        <2>3. CASE i # 1
            <3>1. i - 1 \in 1 .. n - 1 /\ t[i - 1] = With("notify", v)
                BY <1>3, <2>1, <2>3
            <3>2. \A j \in 1 .. n - 1 : t[j].type = "notify" => j <= i - 1
                BY <1>2, <1>3, <2>1
            <3> QED
                BY <1>2, <3>1, <3>2 DEF LastNotified
        <2> QED
            BY <2>2, <2>3
    <1>9. ASSUME Unnotified(q)
          PROVE  Unnotified(t) /\ h.type # "notify"
        <2>1. \A j \in 1 .. n : q[j].type # "notify"
            BY <1>2, <1>9 DEF Unnotified
        <2> QED
            BY <1>2, <1>3, <2>1 DEF Unnotified
    <1> QED
        BY <1>1, <1>2, <1>3, <1>4, <1>5, <1>6, <1>7, <1>8, <1>9

-----------------------------------------------------------------------------
(* A step of a client keeps the invariant if it does what concerns itself. *)
LEMMA ClientFrame ==
    ASSUME IInv, TypeOK', NEW c \in alive,
           UNCHANGED <<repository, clients, subscribed, closed, server, alive>>,
           \A d \in Client : d # c =>
               /\ pc'[d] = pc[d] /\ making'[d] = making[d] /\ watchers'[d] = watchers[d]
               /\ cached'[d] = cached[d] /\ to_server'[d] = to_server[d]
               /\ to_client'[d] = to_client[d],
           pc'[c] # "ended", pc[c] \in {"new", "connecting"} => pc'[c] \in {"new", "connecting"},
           PayloadsOf(c)', RequestOf(c)', SubscriptionOf(c)', RegisteredOf(c)',
           server.at = "notify" /\ c \in subscribed => NotifyingOf(c)'
    PROVE  IInv'
    <1>1. ServerShape'
        BY DEF IInv, ServerShape
    <1>2. Payloads'
        BY DEF IInv, Payloads, PayloadsOf
    <1>3. EndedHasNothing'
        BY DEF IInv, EndedHasNothing
    <1>4. AcceptedAreKnown'
        BY DEF IInv, AcceptedAreKnown, Known, TypeOK
    <1>5. ASSUME NEW d \in alive', d # c
          PROVE  /\ d \in alive /\ d \in Client /\ pc'[d] = pc[d] /\ making'[d] = making[d]
                 /\ watchers'[d] = watchers[d] /\ cached'[d] = cached[d]
                 /\ to_server'[d] = to_server[d] /\ to_client'[d] = to_client[d]
        BY <1>5 DEF IInv, TypeOK
    <1>6. OneRequest'
        <2>1. ASSUME NEW d \in alive', d # c
              PROVE  RequestOf(d)'
            <3>1. RequestOf(d)
                BY <1>5, <2>1 DEF IInv, OneRequest
            <3>2. Expected(d)' = Expected(d) /\ Handling(d)' = Handling(d)
                BY <1>5, <2>1 DEF Expected, Handling
            <3> QED
                BY <1>5, <2>1, <3>1, <3>2 DEF RequestOf
        <2> QED
            BY <2>1 DEF OneRequest
    <1>7. Subscriptions'
        BY <1>5 DEF IInv, Subscriptions, SubscriptionOf
    <1>8. Registered'
        <2>1. ASSUME NEW d \in alive', d # c
              PROVE  RegisteredOf(d)'
            BY <1>5, <2>1 DEF IInv, Registered, RegisteredOf
        <2> QED
            BY <2>1 DEF Registered
    <1>9. Notifying'
        <2>1. ASSUME NEW d \in alive', d # c, server.at = "notify", d \in subscribed
              PROVE  NotifyingOf(d)'
            <3>1. NotifyingOf(d)
                BY <1>5, <2>1 DEF IInv, Notifying
            <3> QED
                BY <1>5, <2>1, <3>1 DEF NotifyingOf, Awaits, Writing
        <2> QED
            BY <2>1 DEF Notifying
    <1> QED
        BY <1>1, <1>2, <1>3, <1>4, <1>6, <1>7, <1>8, <1>9 DEF IInv

LEMMA ConnectStep ==
    ASSUME IInv, NEW c \in Client, Connect(c)
    PROVE  IInv'
    <1>1. c \in alive /\ pc[c] = "new" /\ pc' = [pc EXCEPT ![c] = "connecting"]
          /\ pending' = Append(pending, c)
          /\ UNCHANGED <<serverVars, to_server, to_client, making, watchers, cached, calls, alive>>
        BY DEF Connect, At, Goto
    <1>2. TypeOK'
        BY <1>1 DEF IInv, TypeOK, Location, serverVars
    <1>3. pc'[c] = "connecting" /\ \A d \in Client : d # c => pc'[d] = pc[d]
        BY <1>1 DEF IInv, TypeOK
    <1>4. PayloadsOf(c)' /\ RequestOf(c)' /\ SubscriptionOf(c)' /\ RegisteredOf(c)'
        BY <1>1, <1>3 DEF IInv, Payloads, PayloadsOf, OneRequest, RequestOf, Subscriptions,
              SubscriptionOf, Registered, RegisteredOf, Requests, Handling, serverVars
    <1>5. c \notin subscribed
        BY <1>1 DEF IInv, Subscriptions, SubscriptionOf
    <1> QED
        BY <1>1, <1>2, <1>3, <1>4, <1>5, ClientFrame DEF serverVars

(* A request is made by a client that awaits nothing.                      *)
LEMMA RequestFacts ==
    ASSUME IInv, NEW c \in alive, NEW m \in Message, m.type \in Requests,
           to_server[c] = <<>>, ~Handling(c), to_server' = [to_server EXCEPT ![c] = Append(@, m)],
           UNCHANGED <<to_client, server>>, OnlyNotified(to_client[c], 0),
           m.type = "write" => m.payload \in Value, pc' = [pc EXCEPT ![c] = m.type]
    PROVE  /\ to_server' \in [Client -> Seq(Message)] /\ to_server'[c] # <<>>
           /\ pc' \in [Client -> Location] /\ pc'[c] = m.type
           /\ \A d \in Client : d # c => to_server'[d] = to_server[d] /\ pc'[d] = pc[d]
           /\ PayloadsOf(c)' /\ RequestOf(c)'
    <1>1. c \in Client /\ to_server \in [Client -> Seq(Message)] /\ pc \in [Client -> Location]
        BY DEF IInv, TypeOK
    <1>2. Append(to_server[c], m) = <<m>>
        OBVIOUS
    <1>3. to_server' = [to_server EXCEPT ![c] = <<m>>]
        BY <1>2
    <1>4. <<m>> \in Seq(Message) /\ <<m>> # <<>> /\ Len(<<m>>) = 1 /\ <<m>>[1] = m
          /\ DOMAIN <<m>> = {1}
        OBVIOUS
    <1>5. to_server' \in [Client -> Seq(Message)] /\ to_server'[c] = <<m>>
          /\ \A d \in Client : d # c => to_server'[d] = to_server[d]
        BY <1>1, <1>3, <1>4
    <1>6. m.type \in Location
        BY DEF Requests, Location
    <1>7. pc' \in [Client -> Location] /\ pc'[c] = m.type
          /\ \A d \in Client : d # c => pc'[d] = pc[d]
        BY <1>1, <1>6
    <1>8. PayloadsOf(c)'
        BY <1>4, <1>5 DEF IInv, Payloads, PayloadsOf
    <1>9. RequestOf(c)'
        BY <1>4, <1>5, <1>7 DEF RequestOf, Handling
    <1> QED
        BY <1>4, <1>5, <1>7, <1>8, <1>9

-----------------------------------------------------------------------------
LEMMA IdleFacts ==
    ASSUME IInv, NEW c \in Client, NEW k, Call(c, k)
    PROVE  /\ c \in alive /\ pc[c] = "idle" /\ to_server[c] = <<>> /\ ~Handling(c)
           /\ OnlyNotified(to_client[c], 0) /\ (c \in subscribed <=> watchers[c] # {})
           /\ calls' \in [Client -> Nat] /\ \A d \in Client : calls'[d] <= MaxCalls[d]
           /\ \A s \in watchers[c] : cached[c][s] # NoValue
           /\ server.at = "notify" /\ c \in subscribed => NotifyingOf(c)
    <1>1. c \in alive /\ pc[c] = "idle" /\ calls[c] < MaxCalls[c] /\ calls' = [calls EXCEPT ![c] = @ + 1]
        BY DEF Call, At
    <1>2. RequestOf(c) /\ SubscriptionOf(c) /\ RegisteredOf(c)
        BY <1>1 DEF IInv, OneRequest, Subscriptions, Registered
    <1>3. calls' \in [Client -> Nat] /\ \A d \in Client : calls'[d] <= MaxCalls[d]
        <2>1. calls \in [Client -> Nat] /\ MaxCalls \in [Client -> Nat]
              /\ \A d \in Client : calls[d] <= MaxCalls[d]
            BY SettingsAssumption DEF IInv, TypeOK
        <2>2. calls[c] \in Nat /\ MaxCalls[c] \in Nat
            BY <2>1
        <2>3. calls[c] + 1 \in Nat /\ calls[c] + 1 <= MaxCalls[c]
            BY <1>1, <2>2
        <2>4. calls' \in [Client -> Nat] /\ \A d \in Client :
                  calls'[d] = IF d = c THEN calls[c] + 1 ELSE calls[d]
            BY <1>1, <2>1, <2>3
        <2> QED
            BY <2>1, <2>3, <2>4
    <1> QED
        BY <1>1, <1>2, <1>3 DEF RequestOf, Requests, SubscriptionOf, RegisteredOf, IInv, Notifying

LEMMA WriteStep ==
    ASSUME IInv, NEW c \in Client, NEW v \in Value, Write(c, v)
    PROVE  IInv'
    <1>1. PICK m : m = With("write", v) /\ m \in Message /\ m.type = "write" /\ m.payload = v
        BY MessageFacts DEF MessageType
    <1>2. /\ to_server' = [to_server EXCEPT ![c] = Append(@, m)] /\ pc' = [pc EXCEPT ![c] = m.type]
          /\ UNCHANGED <<serverVars, pending, to_client, making, watchers, cached, alive>>
          /\ Call(c, "write")
        BY <1>1 DEF Write, Request, Goto
    <1>3. /\ c \in alive /\ pc[c] = "idle" /\ to_server[c] = <<>> /\ ~Handling(c)
          /\ OnlyNotified(to_client[c], 0) /\ (c \in subscribed <=> watchers[c] # {})
          /\ calls' \in [Client -> Nat] /\ \A d \in Client : calls'[d] <= MaxCalls[d]
          /\ \A s \in watchers[c] : cached[c][s] # NoValue
          /\ server.at = "notify" /\ c \in subscribed => NotifyingOf(c)
        BY <1>2, IdleFacts
    <1>4. /\ to_server' \in [Client -> Seq(Message)] /\ to_server'[c] # <<>>
          /\ pc' \in [Client -> Location] /\ pc'[c] = m.type
          /\ \A d \in Client : d # c => to_server'[d] = to_server[d] /\ pc'[d] = pc[d]
          /\ PayloadsOf(c)' /\ RequestOf(c)'
        BY <1>1, <1>2, <1>3, RequestFacts DEF Requests, serverVars
    <1>5. TypeOK'
        BY <1>2, <1>3, <1>4 DEF IInv, TypeOK, serverVars
    <1>6. SubscriptionOf(c)' /\ RegisteredOf(c)'
        BY <1>1, <1>2, <1>3, <1>4 DEF SubscriptionOf, RegisteredOf, serverVars
    <1>7. server.at = "notify" /\ c \in subscribed => NotifyingOf(c)'
        BY <1>1, <1>2, <1>3, <1>4 DEF NotifyingOf, Awaits, Writing, serverVars
    <1> QED
        BY <1>1, <1>2, <1>3, <1>4, <1>5, <1>6, <1>7, ClientFrame DEF serverVars

LEMMA WriteOwnStep ==
    ASSUME IInv, NEW c \in Client, NEW s \in Setting, NEW v \in Value, WriteOwn(c, s, v)
    PROVE  IInv'
    <1>1. PICK m : m = With("write", v) /\ m \in Message /\ m.type = "write" /\ m.payload = v
        BY MessageFacts DEF MessageType
    <1>2. /\ to_server' = [to_server EXCEPT ![c] = Append(@, m)] /\ pc' = [pc EXCEPT ![c] = m.type]
          /\ UNCHANGED <<serverVars, pending, to_client, making, watchers, alive>>
          /\ Call(c, "write_own") /\ cached' = [cached EXCEPT ![c][s] = v]
        BY <1>1 DEF WriteOwn, Request, Goto
    <1>3. /\ c \in alive /\ pc[c] = "idle" /\ to_server[c] = <<>> /\ ~Handling(c)
          /\ OnlyNotified(to_client[c], 0) /\ (c \in subscribed <=> watchers[c] # {})
          /\ calls' \in [Client -> Nat] /\ \A d \in Client : calls'[d] <= MaxCalls[d]
          /\ \A t \in watchers[c] : cached[c][t] # NoValue
          /\ server.at = "notify" /\ c \in subscribed => NotifyingOf(c)
        BY <1>2, IdleFacts
    <1>4. /\ to_server' \in [Client -> Seq(Message)] /\ to_server'[c] # <<>>
          /\ pc' \in [Client -> Location] /\ pc'[c] = m.type
          /\ \A d \in Client : d # c => to_server'[d] = to_server[d] /\ pc'[d] = pc[d]
          /\ PayloadsOf(c)' /\ RequestOf(c)'
        BY <1>1, <1>2, <1>3, RequestFacts DEF Requests, serverVars
    <1>5. /\ cached' \in [Client -> [Setting -> Value \cup {NoValue}]]
          /\ \A d \in Client : d # c => cached'[d] = cached[d]
          /\ \A t \in Setting : cached'[c][t] = IF t = s THEN v ELSE cached[c][t]
        BY <1>2 DEF IInv, TypeOK
    <1>6. TypeOK'
        BY <1>2, <1>3, <1>4, <1>5 DEF IInv, TypeOK, serverVars
    <1>7. watchers[c] \subseteq Setting
        BY DEF IInv, TypeOK
    <1>8. SubscriptionOf(c)' /\ RegisteredOf(c)'
        BY <1>1, <1>2, <1>3, <1>4, <1>5, <1>7, SettingsAssumption
           DEF SubscriptionOf, RegisteredOf, serverVars
    <1>9. server.at = "notify" /\ c \in subscribed => NotifyingOf(c)'
        BY <1>1, <1>2, <1>3, <1>4 DEF NotifyingOf, Awaits, Writing, serverVars
    <1> QED
        BY <1>1, <1>2, <1>3, <1>4, <1>5, <1>6, <1>8, <1>9, ClientFrame DEF serverVars

LEMMA MakeStep ==
    ASSUME IInv, NEW c \in Client, NEW s \in Setting, Make(c, s)
    PROVE  IInv'
    <1>1. PICK m : m = Bare("read") /\ m \in Message /\ m.type = "read"
        BY MessageFacts DEF MessageType
    <1>2. /\ to_server' = [to_server EXCEPT ![c] = Append(@, m)] /\ pc' = [pc EXCEPT ![c] = m.type]
          /\ UNCHANGED <<serverVars, pending, to_client, cached, watchers, alive>>
          /\ Call(c, "make") /\ making' = [making EXCEPT ![c] = s] /\ cached[c][s] = NoValue
        BY <1>1 DEF Make, Request, Goto
    <1>3. /\ c \in alive /\ pc[c] = "idle" /\ to_server[c] = <<>> /\ ~Handling(c)
          /\ OnlyNotified(to_client[c], 0) /\ (c \in subscribed <=> watchers[c] # {})
          /\ calls' \in [Client -> Nat] /\ \A d \in Client : calls'[d] <= MaxCalls[d]
          /\ \A t \in watchers[c] : cached[c][t] # NoValue
          /\ server.at = "notify" /\ c \in subscribed => NotifyingOf(c)
        BY <1>2, IdleFacts
    <1>4. /\ to_server' \in [Client -> Seq(Message)] /\ to_server'[c] # <<>>
          /\ pc' \in [Client -> Location] /\ pc'[c] = m.type
          /\ \A d \in Client : d # c => to_server'[d] = to_server[d] /\ pc'[d] = pc[d]
          /\ PayloadsOf(c)' /\ RequestOf(c)'
        BY <1>1, <1>2, <1>3, RequestFacts DEF Requests, serverVars
    <1>5. making' \in [Client -> Setting] /\ making'[c] = s
          /\ \A d \in Client : d # c => making'[d] = making[d]
        BY <1>2 DEF IInv, TypeOK
    <1>6. TypeOK'
        BY <1>2, <1>3, <1>4, <1>5 DEF IInv, TypeOK, serverVars
    <1>7. SubscriptionOf(c)' /\ RegisteredOf(c)'
        BY <1>1, <1>2, <1>3, <1>4, <1>5 DEF SubscriptionOf, RegisteredOf, serverVars
    <1>8. server.at = "notify" /\ c \in subscribed => NotifyingOf(c)'
        BY <1>1, <1>2, <1>3, <1>4 DEF NotifyingOf, Awaits, Writing, serverVars
    <1> QED
        BY <1>1, <1>2, <1>3, <1>4, <1>5, <1>6, <1>7, <1>8, ClientFrame DEF serverVars

LEMMA DestroyStep ==
    ASSUME IInv, NEW c \in Client, NEW s \in Setting, Destroy(c, s)
    PROVE  IInv'
    <1>1. PICK m : m = Bare("unwatch") /\ m \in Message /\ m.type = "unwatch"
        BY MessageFacts DEF MessageType
    <1>2. PICK rest : rest = watchers[c] \ {s}
        OBVIOUS
    <1>3. /\ UNCHANGED <<serverVars, pending, to_client, making, cached, alive>>
          /\ Call(c, "destroy") /\ s \in watchers[c] /\ watchers' = [watchers EXCEPT ![c] = rest]
          /\ IF rest = {} THEN /\ to_server' = [to_server EXCEPT ![c] = Append(@, m)]
                               /\ pc' = [pc EXCEPT ![c] = m.type]
             ELSE UNCHANGED <<to_server, pc>>
        BY <1>1, <1>2 DEF Destroy, Request, Goto, Unwatches
    <1>4. /\ c \in alive /\ pc[c] = "idle" /\ to_server[c] = <<>> /\ ~Handling(c)
          /\ OnlyNotified(to_client[c], 0) /\ (c \in subscribed <=> watchers[c] # {})
          /\ calls' \in [Client -> Nat] /\ \A d \in Client : calls'[d] <= MaxCalls[d]
          /\ \A t \in watchers[c] : cached[c][t] # NoValue
          /\ server.at = "notify" /\ c \in subscribed => NotifyingOf(c)
        BY <1>3, IdleFacts
    <1>5. /\ watchers' \in [Client -> SUBSET Setting] /\ watchers'[c] = rest
          /\ \A d \in Client : d # c => watchers'[d] = watchers[d]
        BY <1>2, <1>3 DEF IInv, TypeOK
    <1>6. CASE rest = {}
        <2>1. /\ to_server' \in [Client -> Seq(Message)] /\ to_server'[c] # <<>>
              /\ pc' \in [Client -> Location] /\ pc'[c] = m.type
              /\ \A d \in Client : d # c => to_server'[d] = to_server[d] /\ pc'[d] = pc[d]
              /\ PayloadsOf(c)' /\ RequestOf(c)'
            BY <1>1, <1>3, <1>4, <1>6, RequestFacts DEF Requests, serverVars
        <2>2. TypeOK'
            BY <1>3, <1>4, <1>5, <2>1 DEF IInv, TypeOK, serverVars
        <2>3. SubscriptionOf(c)' /\ RegisteredOf(c)'
            BY <1>1, <1>3, <1>4, <1>5, <1>6, <2>1 DEF SubscriptionOf, RegisteredOf, serverVars
        <2>4. server.at = "notify" /\ c \in subscribed => NotifyingOf(c)'
            BY <1>3, <1>4, <1>5, <1>6, <2>1 DEF NotifyingOf, Awaits, serverVars
        <2> QED
            BY <1>1, <1>3, <1>4, <1>5, <2>1, <2>2, <2>3, <2>4, ClientFrame DEF serverVars
    <1>7. CASE rest # {}
        <2>1. UNCHANGED <<to_server, pc>>
            BY <1>3, <1>7
        <2>2. TypeOK'
            BY <1>3, <1>4, <1>5, <2>1 DEF IInv, TypeOK, serverVars
        <2>3. PayloadsOf(c)' /\ RequestOf(c)'
            BY <1>3, <1>4, <2>1 DEF IInv, Payloads, PayloadsOf, RequestOf, Requests, Handling, serverVars
        <2>4. SubscriptionOf(c)' /\ RegisteredOf(c)'
            BY <1>2, <1>3, <1>4, <1>5, <1>7, <2>1 DEF SubscriptionOf, RegisteredOf, serverVars
        <2>5. server.at = "notify" /\ c \in subscribed => NotifyingOf(c)'
            BY <1>2, <1>3, <1>4, <1>5, <2>1 DEF NotifyingOf, Awaits, Writing, serverVars
        <2> QED
            BY <1>3, <1>4, <1>5, <2>1, <2>2, <2>3, <2>4, <2>5, ClientFrame DEF serverVars
    <1> QED
        BY <1>6, <1>7
-----------------------------------------------------------------------------
(* What a message that is received tells of the request that is awaited.   *)
LEMMA ReceiveFacts ==
    ASSUME IInv, NEW c \in Client, Receive(c)
    PROVE  /\ c \in alive /\ pc[c] \in Requests \cup {"idle"}
           /\ to_client' = [to_client EXCEPT ![c] = Tail(@)]
           /\ to_client' \in [Client -> Seq(Message)] /\ to_client'[c] = Tail(to_client[c])
           /\ \A d \in Client : d # c => to_client'[d] = to_client[d]
           /\ to_client[c] \in Seq(Message) /\ to_client[c] # <<>>
           /\ UNCHANGED <<serverVars, pending, making, calls, alive>>
           /\ Head(to_client[c]).type = "notify" \/
                  /\ pc[c] \in Requests /\ Head(to_client[c]).type = Expected(c)
                  /\ to_server[c] = <<>> /\ ~Handling(c) /\ OnlyNotified(Tail(to_client[c]), 0)
           /\ Expected(c) # "notify"
           /\ Head(to_client[c]).type \in {"notify", "value"} => Head(to_client[c]).payload \in Value
           /\ \A i \in DOMAIN Tail(to_client[c]) :
                  LET m == Tail(to_client[c])[i]
                  IN  m.type \in {"notify", "value"} => m.payload \in Value
    <1>1. PICK q : q = to_client[c]
        OBVIOUS
    <1>2. /\ c \in alive /\ q # <<>> /\ to_client' = [to_client EXCEPT ![c] = Tail(@)]
          /\ pc[c] \notin {"new", "connecting"}
          /\ UNCHANGED <<serverVars, pending, making, calls, alive>>
        BY <1>1 DEF Receive
    <1>3. q \in Seq(Message) /\ to_client \in [Client -> Seq(Message)] /\ pc[c] \in Location
        BY <1>1 DEF IInv, TypeOK
    <1>4. /\ Head(q) \in Message /\ Head(q) = q[1] /\ Tail(q) \in Seq(Message) /\ 1 \in DOMAIN q
          /\ \A i \in DOMAIN Tail(q) : Tail(q)[i] = q[i + 1] /\ i + 1 \in DOMAIN q
          /\ OnlyNotified(q, 0) => OnlyNotified(Tail(q), 0) /\ Head(q).type = "notify"
          /\ \A i \in DOMAIN q : OnlyNotified(q, i) =>
                 IF i = 1 THEN OnlyNotified(Tail(q), 0)
                 ELSE /\ Head(q).type = "notify" /\ OnlyNotified(Tail(q), i - 1)
                      /\ i - 1 \in DOMAIN Tail(q) /\ Tail(q)[i - 1] = q[i]
        BY <1>2, <1>3, ReceivedFirst
    <1>5. to_client' \in [Client -> Seq(Message)] /\ to_client'[c] = Tail(q)
          /\ \A d \in Client : d # c => to_client'[d] = to_client[d]
        BY <1>1, <1>2, <1>3, <1>4
    <1>6. pc[c] \in Requests \cup {"idle"}
        BY <1>2, <1>3 DEF Location, Requests, IInv, EndedHasNothing
    <1>7. RequestOf(c) /\ PayloadsOf(c)
        BY <1>2 DEF IInv, OneRequest, Payloads
    <1>8. \/ Head(q).type = "notify"
          \/ /\ pc[c] \in Requests /\ Head(q).type = Expected(c)
             /\ to_server[c] = <<>> /\ ~Handling(c) /\ OnlyNotified(Tail(q), 0)
        <2>1. CASE OnlyNotified(q, 0)
            BY <1>4, <2>1
        <2>2. CASE ~OnlyNotified(q, 0)
            <3>1. /\ pc[c] \in Requests /\ to_server[c] = <<>> /\ ~Handling(c)
                  /\ \E i \in DOMAIN q : q[i].type = Expected(c) /\ OnlyNotified(q, i)
                BY <1>1, <1>7, <2>2 DEF RequestOf
            <3>2. PICK i \in DOMAIN q : q[i].type = Expected(c) /\ OnlyNotified(q, i)
                BY <3>1
            <3>3. CASE i = 1
                BY <1>4, <3>1, <3>2, <3>3
            <3>4. CASE i # 1
                BY <1>4, <3>2, <3>4
            <3> QED
                BY <3>3, <3>4
        <2> QED
            BY <2>1, <2>2
    <1>9. Expected(c) # "notify"
        BY DEF Expected
    <1>10. /\ Head(q).type \in {"notify", "value"} => Head(q).payload \in Value
           /\ \A i \in DOMAIN Tail(q) :
                  Tail(q)[i].type \in {"notify", "value"} => Tail(q)[i].payload \in Value
        BY <1>1, <1>4, <1>7 DEF PayloadsOf
    <1> QED
        BY <1>1, <1>2, <1>3, <1>5, <1>6, <1>8, <1>9, <1>10

(* A notification: the request that is awaited, if any, is as it was.      *)
LEMMA NotifiedStep ==
    ASSUME IInv, NEW c \in Client, Receive(c), Head(to_client[c]).type = "notify"
    PROVE  IInv'
    <1>1. PICK q, m : q = to_client[c] /\ m = Head(q)
        OBVIOUS
    <1>2. /\ c \in alive /\ pc[c] \in Requests \cup {"idle"}
          /\ to_client' \in [Client -> Seq(Message)] /\ to_client'[c] = Tail(q)
          /\ \A d \in Client : d # c => to_client'[d] = to_client[d]
          /\ q \in Seq(Message) /\ q # <<>> /\ Expected(c) # "notify"
          /\ UNCHANGED <<serverVars, pending, making, calls, alive>>
          /\ m.type \in {"notify", "value"} => m.payload \in Value
          /\ \A i \in DOMAIN Tail(q) :
                  Tail(q)[i].type \in {"notify", "value"} => Tail(q)[i].payload \in Value
        BY <1>1, ReceiveFacts
    <1>3. m.type = "notify" /\ m.payload \in Value
        BY <1>1, <1>2
    <1>4. UNCHANGED <<pc, watchers, to_server>> /\ Invoke(c, m.payload)
        BY <1>1, <1>2, <1>3 DEF Receive
    <1>5. PICK v \in Value : v = m.payload
        BY <1>3
    <1>6. /\ cached' \in [Client -> [Setting -> Value \cup {NoValue}]]
          /\ \A d \in Client : d # c => cached'[d] = cached[d]
          /\ \A s \in Setting : cached'[c][s] = IF s \in watchers[c] THEN v ELSE cached[c][s]
        BY <1>4, <1>5 DEF Invoke, IInv, TypeOK
    <1>7. watchers[c] \subseteq Setting /\ making[c] \in Setting
        BY DEF IInv, TypeOK
    <1>8. TypeOK'
        BY <1>2, <1>4, <1>6 DEF IInv, TypeOK, serverVars
    <1>9. RequestOf(c) /\ SubscriptionOf(c) /\ RegisteredOf(c) /\ PayloadsOf(c)
        BY <1>2 DEF IInv, OneRequest, Subscriptions, Registered, Payloads
    <1>10. /\ OnlyNotified(q, 0) => OnlyNotified(Tail(q), 0)
           /\ \A i \in DOMAIN q : OnlyNotified(q, i) =>
                  IF i = 1 THEN OnlyNotified(Tail(q), 0)
                  ELSE /\ OnlyNotified(Tail(q), i - 1)
                       /\ i - 1 \in DOMAIN Tail(q) /\ Tail(q)[i - 1] = q[i]
           /\ m = q[1]
           /\ \A x : EndsWith(q, x) => EndsWith(Tail(q), x) \/ (Tail(q) = <<>> /\ m = x)
        BY <1>1, <1>2, ReceivedFirst
    <1>11. Expected(c)' = Expected(c) /\ Handling(c)' = Handling(c)
        BY <1>2, <1>4 DEF Expected, Handling, serverVars
    <1>12. RequestOf(c)'
        <2>1. ASSUME NEW i \in DOMAIN q, q[i].type = Expected(c), OnlyNotified(q, i)
              PROVE  \E j \in DOMAIN Tail(q) : /\ Tail(q)[j].type = Expected(c)
                                               /\ OnlyNotified(Tail(q), j)
            <3>1. i # 1
                BY <1>2, <1>3, <1>10, <2>1
            <3> QED
                BY <1>10, <2>1, <3>1
        <2>2. server' = server
            BY <1>2 DEF serverVars
        <2> QED
            BY <1>1, <1>2, <1>4, <1>9, <1>10, <1>11, <2>1, <2>2 DEF RequestOf
    <1>13. PayloadsOf(c)'
        BY <1>2, <1>4, <1>9 DEF PayloadsOf
    <1>14. SubscriptionOf(c)'
        BY <1>2, <1>4, <1>9 DEF SubscriptionOf, serverVars
    <1>15. RegisteredOf(c)'
        <2>1. \A s \in watchers[c] : cached'[c][s] # NoValue
            BY <1>6, <1>7, SettingsAssumption
        <2>2. pc[c] = "read" => cached'[c][making[c]] = NoValue
            BY <1>6, <1>7, <1>9 DEF RegisteredOf
        <2>3. pc[c] = "watch" => cached'[c][making[c]] # NoValue
            BY <1>6, <1>7, <1>9, SettingsAssumption DEF RegisteredOf
        <2> QED
            BY <1>2, <1>4, <2>1, <2>2, <2>3 DEF RegisteredOf
    <1>16. ASSUME server.at = "notify", c \in subscribed
           PROVE  NotifyingOf(c)'
        <2>1. NotifyingOf(c) /\ serverVars' = serverVars
            BY <1>2, <1>16 DEF IInv, Notifying
        <2>2. CASE Awaits(c)
            BY <2>1, <2>2 DEF NotifyingOf, Awaits, serverVars
        <2>3. CASE EndsWith(q, With("notify", repository))
            <3>1. PICK x : x = With("notify", repository)
                OBVIOUS
            <3>2. CASE EndsWith(Tail(q), x)
                BY <1>2, <2>1, <3>1, <3>2 DEF NotifyingOf, serverVars
            <3>3. CASE Tail(q) = <<>> /\ m = x
                <4>1. v = repository
                    BY <1>5, <3>1, <3>3 DEF With
                <4>2. \A s \in watchers[c] : cached'[c][s] = repository
                    BY <1>6, <1>7, <4>1
                <4> QED
                    BY <1>2, <1>4, <2>1, <3>3, <4>2 DEF NotifyingOf, serverVars
            <3> QED
                BY <1>10, <2>3, <3>1, <3>2, <3>3
        <2> QED
            BY <1>1, <1>2, <2>1, <2>2, <2>3 DEF NotifyingOf
    <1>17. /\ UNCHANGED <<repository, clients, subscribed, closed, server, alive>>
           /\ pc'[c] # "ended" /\ pc[c] \notin {"new", "connecting"}
           /\ \A d \in Client : d # c =>
               /\ pc'[d] = pc[d] /\ making'[d] = making[d] /\ watchers'[d] = watchers[d]
               /\ cached'[d] = cached[d] /\ to_server'[d] = to_server[d]
               /\ to_client'[d] = to_client[d]
        BY <1>2, <1>4, <1>6 DEF serverVars, Requests
    <1> QED
        BY <1>2, <1>8, <1>12, <1>13, <1>14, <1>15, <1>16, <1>17, ClientFrame
-----------------------------------------------------------------------------
(* The answer: the client goes on, or makes its next request.              *)
LEMMA AnsweredStep ==
    ASSUME IInv, NEW c \in Client, Receive(c), Head(to_client[c]).type # "notify"
    PROVE  IInv'
    <1>1. PICK q, m : q = to_client[c] /\ m = Head(q)
        OBVIOUS
    <1>2. /\ c \in alive /\ pc[c] \in Requests
          /\ to_client' \in [Client -> Seq(Message)] /\ to_client'[c] = Tail(q)
          /\ \A d \in Client : d # c => to_client'[d] = to_client[d]
          /\ q \in Seq(Message) /\ q # <<>>
          /\ UNCHANGED <<serverVars, pending, making, calls, alive>>
          /\ m.type = Expected(c) /\ to_server[c] = <<>> /\ ~Handling(c) /\ OnlyNotified(Tail(q), 0)
          /\ m.type \in {"notify", "value"} => m.payload \in Value
          /\ \A i \in DOMAIN Tail(q) :
                  Tail(q)[i].type \in {"notify", "value"} => Tail(q)[i].payload \in Value
        BY <1>1, ReceiveFacts
    <1>3. /\ watchers \in [Client -> SUBSET Setting] /\ making[c] \in Setting
          /\ cached \in [Client -> [Setting -> Value \cup {NoValue}]]
          /\ pc \in [Client -> Location] /\ to_server \in [Client -> Seq(Message)]
        BY DEF IInv, TypeOK
    <1>4. RequestOf(c) /\ SubscriptionOf(c) /\ RegisteredOf(c) /\ PayloadsOf(c)
        BY <1>2 DEF IInv, OneRequest, Subscriptions, Registered, Payloads
    <1>5. \A w : server.at = "notify" /\ c \in subscribed =>
              Awaits(c) \/ EndsWith(Tail(q), With("notify", repository))
        <2>1. ASSUME server.at = "notify", c \in subscribed
              PROVE  Awaits(c) \/ EndsWith(q, With("notify", repository))
            BY <1>1, <1>2, <2>1 DEF IInv, Notifying, NotifyingOf
        <2>2. ASSUME NEW x, EndsWith(q, x), x.type = "notify"
              PROVE  EndsWith(Tail(q), x)
            BY <1>1, <1>2, <2>2, ReceivedFirst
        <2> QED
            BY <2>1, <2>2 DEF With
    <1>6. CASE pc[c] = "read"
        <2>1. m.type = "value"
            BY <1>2, <1>6 DEF Expected
        <2>2. PICK v \in Value : v = m.payload
            BY <1>2, <2>1
        <2>3. Made(c, v)
            BY <1>1, <1>2, <1>6, <2>2 DEF Receive
        <2>4. /\ cached' \in [Client -> [Setting -> Value \cup {NoValue}]]
              /\ \A d \in Client : d # c => cached'[d] = cached[d]
              /\ cached'[c][making[c]] = v /\ v # NoValue
              /\ \A s \in Setting : s # making[c] => cached'[c][s] = cached[c][s]
            BY <1>3, <2>3, SettingsAssumption DEF Made
        <2>5. CASE watchers[c] = {}
            <3>1. PICK w : w = Bare("watch") /\ w \in Message /\ w.type = "watch"
                BY MessageFacts DEF MessageType
            <3>2. /\ to_server' = [to_server EXCEPT ![c] = Append(@, w)]
                  /\ pc' = [pc EXCEPT ![c] = "watch"] /\ watchers' = watchers
                BY <2>3, <2>5, <3>1 DEF Made, Request, Goto
            <3>3. Append(to_server[c], w) = <<w>> /\ <<w>> \in Seq(Message) /\ <<w>> # <<>>
                  /\ Len(<<w>>) = 1 /\ <<w>>[1] = w /\ DOMAIN <<w>> = {1}
                BY <1>2, <3>1
            <3>4. /\ to_server' \in [Client -> Seq(Message)] /\ to_server'[c] = <<w>>
                  /\ \A d \in Client : d # c => to_server'[d] = to_server[d]
                BY <1>3, <3>2, <3>3
            <3>5. /\ pc' \in [Client -> Location] /\ pc'[c] = "watch"
                  /\ \A d \in Client : d # c => pc'[d] = pc[d]
                BY <1>3, <3>2 DEF Location
            <3>6. TypeOK'
                BY <1>2, <2>4, <3>2, <3>4, <3>5 DEF IInv, TypeOK, serverVars
            <3>7. RequestOf(c)' /\ PayloadsOf(c)'
                BY <1>2, <3>1, <3>3, <3>4, <3>5 DEF RequestOf, PayloadsOf, Requests, Handling, serverVars
            <3>8. SubscriptionOf(c)' /\ RegisteredOf(c)'
                BY <1>2, <1>4, <1>6, <2>4, <2>5, <3>2, <3>3, <3>4, <3>5
                   DEF SubscriptionOf, RegisteredOf, serverVars
            <3>9. server.at = "notify" /\ c \in subscribed => NotifyingOf(c)'
                BY <1>2, <1>4, <1>6, <2>5 DEF SubscriptionOf
            <3> QED
                BY <1>2, <2>4, <3>2, <3>4, <3>5, <3>6, <3>7, <3>8, <3>9, ClientFrame
                   DEF serverVars, Requests
        <2>6. CASE watchers[c] # {}
            <3>1. /\ watchers' = [watchers EXCEPT ![c] = @ \cup {making[c]}]
                  /\ pc' = [pc EXCEPT ![c] = "idle"] /\ to_server' = to_server
                BY <2>3, <2>6 DEF Made, Goto
            <3>2. /\ watchers' \in [Client -> SUBSET Setting]
                  /\ watchers'[c] = watchers[c] \cup {making[c]}
                  /\ \A d \in Client : d # c => watchers'[d] = watchers[d]
                BY <1>3, <3>1
            <3>3. /\ pc' \in [Client -> Location] /\ pc'[c] = "idle"
                  /\ \A d \in Client : d # c => pc'[d] = pc[d]
                BY <1>3, <3>1 DEF Location
            <3>4. TypeOK'
                BY <1>2, <2>4, <3>1, <3>2, <3>3 DEF IInv, TypeOK, serverVars
            <3>5. RequestOf(c)' /\ PayloadsOf(c)'
                BY <1>2, <1>4, <3>1, <3>3 DEF RequestOf, PayloadsOf, Requests, Handling, serverVars
            <3>6. SubscriptionOf(c)'
                BY <1>2, <1>4, <1>6, <2>6, <3>2, <3>3 DEF SubscriptionOf, serverVars
            <3>7. RegisteredOf(c)'
                BY <1>3, <1>4, <2>4, <3>2, <3>3 DEF RegisteredOf
            <3>8. server.at = "notify" /\ c \in subscribed => NotifyingOf(c)'
                BY <1>2, <1>5 DEF NotifyingOf, Awaits, serverVars
            <3> QED
                BY <1>2, <2>4, <3>1, <3>2, <3>3, <3>4, <3>5, <3>6, <3>7, <3>8, ClientFrame
                   DEF serverVars, Requests
        <2> QED
            BY <2>5, <2>6
    <1>7. CASE pc[c] # "read"
        <2>1. /\ cached' = cached /\ to_server' = to_server /\ pc' = [pc EXCEPT ![c] = "idle"]
              /\ watchers' = IF pc[c] = "watch" THEN [watchers EXCEPT ![c] = @ \cup {making[c]}]
                             ELSE watchers
            BY <1>1, <1>2, <1>7 DEF Receive, Goto
        <2>2. /\ watchers' \in [Client -> SUBSET Setting]
              /\ watchers'[c] = IF pc[c] = "watch" THEN watchers[c] \cup {making[c]} ELSE watchers[c]
              /\ \A d \in Client : d # c => watchers'[d] = watchers[d]
            BY <1>3, <2>1
        <2>3. /\ pc' \in [Client -> Location] /\ pc'[c] = "idle"
              /\ \A d \in Client : d # c => pc'[d] = pc[d]
            BY <1>3, <2>1 DEF Location
        <2>4. TypeOK'
            BY <1>2, <2>1, <2>2, <2>3 DEF IInv, TypeOK, serverVars
        <2>5. RequestOf(c)' /\ PayloadsOf(c)'
            BY <1>2, <1>4, <2>1, <2>3 DEF RequestOf, PayloadsOf, Requests, Handling, serverVars
        <2>6. SubscriptionOf(c)'
            BY <1>2, <1>4, <1>7, <2>2, <2>3 DEF SubscriptionOf, serverVars, Requests
        <2>7. RegisteredOf(c)'
            BY <1>3, <1>4, <2>1, <2>2, <2>3 DEF RegisteredOf
        <2>8. server.at = "notify" /\ c \in subscribed => NotifyingOf(c)'
            BY <1>2, <1>5 DEF NotifyingOf, Awaits, serverVars
        <2> QED
            BY <1>2, <2>1, <2>2, <2>3, <2>4, <2>5, <2>6, <2>7, <2>8, ClientFrame
               DEF serverVars, Requests
    <1> QED
        BY <1>6, <1>7

LEMMA DieStep ==
    ASSUME IInv, NEW c \in Client, Die(c)
    PROVE  IInv'
    <1>1. /\ c \in alive /\ alive' = alive \ {c}
          /\ to_server' = [to_server EXCEPT ![c] = <<>>] /\ to_client' = [to_client EXCEPT ![c] = <<>>]
          /\ pc' = [pc EXCEPT ![c] = "ended"] /\ watchers' = [watchers EXCEPT ![c] = {}]
          /\ cached' = [cached EXCEPT ![c] = Unmade] /\ calls' = [calls EXCEPT ![c] = MaxCalls[c]]
          /\ UNCHANGED <<serverVars, pending, making>>
        BY DEF Die, Goto
    <1>2. TypeOK'
        <2>1. Unmade \in [Setting -> Value \cup {NoValue}]
            BY DEF Unmade
        <2>2. calls' \in [Client -> Nat] /\ \A d \in Client : calls'[d] <= MaxCalls[d]
            <3>1. calls \in [Client -> Nat] /\ MaxCalls \in [Client -> Nat]
                  /\ \A d \in Client : calls[d] <= MaxCalls[d]
                BY SettingsAssumption DEF IInv, TypeOK
            <3>2. MaxCalls[c] \in Nat /\ MaxCalls[c] <= MaxCalls[c]
                BY <3>1
            <3>3. calls' \in [Client -> Nat] /\ \A d \in Client :
                      calls'[d] = IF d = c THEN MaxCalls[c] ELSE calls[d]
                BY <1>1, <3>1, <3>2
            <3> QED
                BY <3>1, <3>2, <3>3
        <2> QED
            BY <1>1, <2>1, <2>2 DEF IInv, TypeOK, serverVars, Location
    <1>3. \A d \in Client : d # c =>
              /\ pc'[d] = pc[d] /\ watchers'[d] = watchers[d] /\ cached'[d] = cached[d]
              /\ to_server'[d] = to_server[d] /\ to_client'[d] = to_client[d]
        BY <1>1 DEF IInv, TypeOK
    <1>4. /\ to_server'[c] = <<>> /\ to_client'[c] = <<>> /\ pc'[c] = "ended" /\ watchers'[c] = {}
        BY <1>1 DEF IInv, TypeOK
    <1>5. ServerShape' /\ EndedHasNothing'
        BY <1>1, <1>3, <1>4 DEF IInv, ServerShape, EndedHasNothing, serverVars
    <1>6. Payloads'
        <2>1. ASSUME NEW d \in Client
              PROVE  PayloadsOf(d)'
            BY <1>3, <1>4 DEF IInv, Payloads, PayloadsOf
        <2> QED
            BY <1>1, <2>1 DEF IInv, Payloads, serverVars
    <1>7. ASSUME NEW d \in alive'
          PROVE  /\ d \in alive /\ d # c /\ d \in Client
                 /\ pc'[d] = pc[d] /\ watchers'[d] = watchers[d] /\ cached'[d] = cached[d]
                 /\ to_server'[d] = to_server[d] /\ to_client'[d] = to_client[d]
        BY <1>1, <1>3 DEF IInv, TypeOK
    <1>8. AcceptedAreKnown'
        BY <1>1, <1>7 DEF IInv, AcceptedAreKnown, Known, serverVars
    <1>9. OneRequest'
        <2>1. ASSUME NEW d \in alive'
              PROVE  RequestOf(d)'
            <3>1. RequestOf(d)
                BY <1>7, <2>1 DEF IInv, OneRequest
            <3>2. Expected(d)' = Expected(d) /\ Handling(d)' = Handling(d)
                BY <1>1, <1>7, <2>1 DEF Expected, Handling, serverVars
            <3> QED
                BY <1>1, <1>7, <2>1, <3>1, <3>2 DEF RequestOf, serverVars
        <2> QED
            BY <2>1 DEF OneRequest
    <1>10. Subscriptions'
        BY <1>1, <1>7 DEF IInv, Subscriptions, SubscriptionOf, serverVars
    <1>11. Registered'
        BY <1>1, <1>7 DEF IInv, Registered, RegisteredOf
    <1>12. Notifying'
        <2>1. ASSUME NEW d \in alive', server.at = "notify", d \in subscribed
              PROVE  NotifyingOf(d)'
            <3>1. NotifyingOf(d)
                BY <1>7, <2>1 DEF IInv, Notifying
            <3> QED
                BY <1>1, <1>7, <2>1, <3>1 DEF NotifyingOf, Awaits, Writing, serverVars
        <2> QED
            BY <1>1, <2>1 DEF Notifying, serverVars
    <1> QED
        BY <1>2, <1>5, <1>6, <1>8, <1>9, <1>10, <1>11, <1>12 DEF IInv
-----------------------------------------------------------------------------
(* A step of the service keeps what concerns the clients alone.            *)
LEMMA ServerFrame ==
    ASSUME IInv, TypeOK', ServerShape', Payloads', OneRequest', Subscriptions', Notifying',
           UNCHANGED <<pc, making, watchers, cached, alive>>, closed' \cap alive = {},
           \A c \in Client \ alive : to_server'[c] = <<>> /\ to_client'[c] = <<>>,
           \A c \in alive : Known(c) => Known(c)'
    PROVE  IInv'
    <1>1. EndedHasNothing'
        BY DEF IInv, EndedHasNothing
    <1>2. AcceptedAreKnown'
        BY DEF IInv, AcceptedAreKnown
    <1>3. Registered'
        BY DEF IInv, Registered, RegisteredOf
    <1> QED
        BY <1>1, <1>2, <1>3 DEF IInv

LEMMA AcceptStep ==
    ASSUME IInv, ServerAccept
    PROVE  IInv'
    <1>1. PICK c : c = Last(pending)
        OBVIOUS
    <1>2. /\ server.at = "poll" /\ clients' = Append(clients, c) /\ pending' = Front(pending)
          /\ pc' = [pc EXCEPT ![c] = IF @ = "connecting" THEN "idle" ELSE @]
          /\ UNCHANGED <<repository, subscribed, closed, server, to_server, to_client,
                         making, watchers, cached, calls, alive>>
        BY <1>1 DEF ServerAccept
    <1>3. c \in Client /\ Front(pending) \in Seq(Client)
        BY <1>1 DEF ServerAccept, Last, Front, IInv, TypeOK
    <1>4. /\ clients' \in Seq(Client) /\ Len(clients') = Len(clients) + 1
          /\ DOMAIN clients' = 1 .. Len(clients) + 1 /\ DOMAIN clients = 1 .. Len(clients)
          /\ clients'[Len(clients) + 1] = c /\ Len(clients) \in Nat
          /\ \A i \in 1 .. Len(clients) : clients'[i] = clients[i]
        BY <1>2, <1>3 DEF IInv, TypeOK
    <1>5. /\ pc' \in [Client -> Location]
          /\ pc'[c] = IF pc[c] = "connecting" THEN "idle" ELSE pc[c]
          /\ \A d \in Client : d # c => pc'[d] = pc[d]
        BY <1>2, <1>3 DEF IInv, TypeOK, Location
    <1>6. server \in Server /\ server.next \in Nat
        BY DEF IInv, TypeOK, Server
    <1>7. TypeOK'
        BY <1>2, <1>3, <1>4, <1>5, <1>6 DEF IInv, TypeOK
    <1>8. ServerShape' /\ Payloads' /\ Notifying'
        BY <1>2 DEF IInv, ServerShape, Payloads, PayloadsOf, Notifying
    <1>9. EndedHasNothing'
        BY <1>2, <1>5 DEF IInv, EndedHasNothing
    <1>10. \A d \in Client : Known(d) => Known(d)'
        BY <1>4 DEF Known
    <1>11. Known(c)'
        BY <1>4 DEF Known
    <1>12. alive \subseteq Client
        BY DEF IInv, TypeOK
    <1>13. AcceptedAreKnown'
        BY <1>2, <1>5, <1>10, <1>11, <1>12 DEF IInv, AcceptedAreKnown
    <1>14. OneRequest'
        <2>1. ASSUME NEW d \in alive
              PROVE  RequestOf(d)'
            <3>1. RequestOf(d) /\ (pc'[d] \in Requests <=> pc[d] \in Requests)
                  /\ (pc[d] \in Requests => pc'[d] = pc[d])
                BY <1>5, <1>12 DEF IInv, OneRequest, Requests
            <3>2. pc[d] \in Requests => Expected(d)' = Expected(d)
                BY <3>1 DEF Expected
            <3>3. Handling(d)' = Handling(d)
                BY <1>2 DEF Handling
            <3> QED
                BY <1>2, <3>1, <3>2, <3>3 DEF RequestOf
        <2> QED
            BY <1>2, <2>1 DEF OneRequest
    <1>15. Subscriptions'
        BY <1>2, <1>5, <1>12 DEF IInv, Subscriptions, SubscriptionOf
    <1>16. Registered'
        BY <1>2, <1>5, <1>12 DEF IInv, Registered, RegisteredOf
    <1> QED
        BY <1>7, <1>8, <1>9, <1>13, <1>14, <1>15, <1>16 DEF IInv

LEMMA ConnectedKnown ==
    ASSUME NEW cs \in Seq(Client), NEW gone, NEW c, c \notin gone, c \in Members(cs)
    PROVE  \E i \in DOMAIN Connected(cs, gone) : Connected(cs, gone)[i] = c
    <1>1. c \in Members(Connected(cs, gone))
        BY ConnectedFacts
    <1> QED
        BY <1>1 DEF Members

LEMMA LosesStep ==
    ASSUME IInv, NEW c \in Client, ServerLoses(c)
    PROVE  IInv'
    <1>1. /\ server.at = "poll" /\ c \notin alive /\ closed' = closed \cup {c}
          /\ clients' = Connected(clients, closed') /\ subscribed' = subscribed \ {c}
          /\ UNCHANGED <<repository, server, pending, to_server, to_client, calls, alive>>
          /\ UNCHANGED <<pc, making, watchers, cached>>
        BY DEF ServerLoses, Selects, clientVars
    <1>2. clients \in Seq(Client) /\ alive \subseteq Client
        BY DEF IInv, TypeOK
    <1>3. clients' \in Seq(Client)
        BY <1>1, <1>2, ConnectedFacts
    <1>4. server = Polling /\ server.next = 1
        BY <1>1 DEF IInv, ServerShape, Polling
    <1>5. server.next <= Len(clients') + 1
        BY <1>3, <1>4
    <1>6. TypeOK'
        BY <1>1, <1>3, <1>5 DEF IInv, TypeOK
    <1>7. ServerShape' /\ Payloads' /\ Notifying'
        BY <1>1 DEF IInv, ServerShape, Payloads, PayloadsOf, Notifying
    <1>8. OneRequest'
        BY <1>1 DEF IInv, OneRequest, RequestOf, Expected, Handling
    <1>9. Subscriptions'
        BY <1>1 DEF IInv, Subscriptions, SubscriptionOf
    <1>10. closed' \cap alive = {}
        BY <1>1 DEF IInv, EndedHasNothing
    <1>11. ASSUME NEW d \in alive, Known(d)
           PROVE  Known(d)'
        <2>1. d \in Members(clients) /\ d \notin closed'
            BY <1>10, <1>11 DEF Known, Members
        <2> QED
            BY <1>1, <1>2, <2>1, ConnectedKnown DEF Known
    <1>12. \A d \in Client \ alive : to_server'[d] = <<>> /\ to_client'[d] = <<>>
        BY <1>1 DEF IInv, EndedHasNothing
    <1> QED
        BY <1>1, <1>6, <1>7, <1>8, <1>9, <1>10, <1>11, <1>12, ServerFrame
-----------------------------------------------------------------------------
(* A request that the service takes is the one that its client awaits the  *)
(* answer to.                                                              *)
LEMMA TakenFacts ==
    ASSUME IInv, NEW c \in Client, ServerReceive(c)
    PROVE  /\ c \in alive /\ pc[c] \in Requests /\ server.at = "poll"
           /\ to_server[c] # <<>> /\ Head(to_server[c]) \in Message
           /\ Head(to_server[c]).type = pc[c]
           /\ pc[c] = "write" => Head(to_server[c]).payload \in Value
           /\ Handled(c, Head(to_server[c])) /\ OnlyNotified(to_client[c], 0)
           /\ to_server' \in [Client -> Seq(Message)] /\ to_server'[c] = <<>>
           /\ \A d \in Client : d # c => to_server'[d] = to_server[d]
           /\ UNCHANGED <<clients, closed, pending, to_client, calls, alive>>
           /\ UNCHANGED <<pc, making, watchers, cached>>
    <1>1. PICK q : q = to_server[c]
        OBVIOUS
    <1>2. /\ c \in alive /\ server.at = "poll" /\ q # <<>>
          /\ Handled(c, Head(q)) /\ to_server' = [to_server EXCEPT ![c] = Tail(q)]
          /\ UNCHANGED <<clients, closed, pending, to_client, calls, alive>>
          /\ UNCHANGED <<pc, making, watchers, cached>>
        BY <1>1 DEF ServerReceive, Selects, Readable, clientVars
    <1>3. q \in Seq(Message) /\ to_server \in [Client -> Seq(Message)]
        BY <1>1 DEF IInv, TypeOK
    <1>4. RequestOf(c) /\ PayloadsOf(c) /\ ~Handling(c)
        BY <1>2 DEF IInv, OneRequest, Payloads, Handling
    <1>5. /\ pc[c] \in Requests /\ Len(q) = 1 /\ q[1].type = pc[c] /\ OnlyNotified(to_client[c], 0)
        BY <1>1, <1>2, <1>4 DEF RequestOf
    <1>6. Head(q) = q[1] /\ Head(q) \in Message /\ Tail(q) = <<>> /\ 1 \in DOMAIN q
        BY <1>2, <1>3, <1>5
    <1>7. pc[c] = "write" => Head(q).payload \in Value
        BY <1>1, <1>4, <1>5, <1>6 DEF PayloadsOf
    <1>8. /\ to_server' \in [Client -> Seq(Message)] /\ to_server'[c] = <<>>
          /\ \A d \in Client : d # c => to_server'[d] = to_server[d]
        BY <1>2, <1>3, <1>6
    <1> QED
        BY <1>1, <1>2, <1>5, <1>6, <1>7, <1>8

LEMMA TakeStep ==
    ASSUME IInv, NEW c \in Client, ServerReceive(c)
    PROVE  IInv'
    <1>1. PICK m : m = Head(to_server[c])
        OBVIOUS
    <1>2. /\ c \in alive /\ pc[c] \in Requests /\ server.at = "poll"
          /\ to_server[c] # <<>> /\ m \in Message /\ m.type = pc[c]
          /\ pc[c] = "write" => m.payload \in Value
          /\ Handled(c, m) /\ OnlyNotified(to_client[c], 0)
          /\ to_server' \in [Client -> Seq(Message)] /\ to_server'[c] = <<>>
          /\ \A d \in Client : d # c => to_server'[d] = to_server[d]
          /\ UNCHANGED <<clients, closed, pending, to_client, calls, alive>>
          /\ UNCHANGED <<pc, making, watchers, cached>>
        BY <1>1, TakenFacts
    <1>3. PICK r : r = IF m.type = "read" THEN Answer ELSE Bare("ack")
        OBVIOUS
    <1>4. /\ r \in Message /\ r.type = IF pc[c] = "read" THEN "value" ELSE "ack"
          /\ r.type = "value" => r.payload \in Value
          /\ r.type = Expected(c)
        <2>1. repository \in Value
            BY DEF IInv, TypeOK
        <2>2. "value" \in MessageType /\ "ack" \in MessageType
            BY DEF MessageType
        <2>3. Answer \in Message /\ Answer.type = "value" /\ Answer.payload \in Value
            BY <2>1, <2>2, MessageFacts DEF Answer
        <2>4. Bare("ack") \in Message /\ Bare("ack").type = "ack"
            BY <2>2, MessageFacts
        <2> QED
            BY <1>2, <1>3, <2>3, <2>4 DEF Expected, Requests
    <1>5. /\ server' = [at |-> IF m.type = "write" THEN "notify" ELSE "reply",
                        who |-> c, next |-> 1, reply |-> r]
          /\ repository' = IF m.type = "write" THEN m.payload ELSE repository
          /\ subscribed' = CASE m.type = "watch"   -> subscribed \cup {c}
                             [] m.type = "unwatch" -> subscribed \ {c}
                             [] OTHER              -> subscribed
        BY <1>2, <1>3 DEF Handled
    <1>6. /\ server' \in Server /\ server'.who = c /\ server'.next = 1 /\ server'.reply = r
          /\ server'.at = IF m.type = "write" THEN "notify" ELSE "reply"
        BY <1>4, <1>5 DEF Server
    <1>7. repository' \in Value /\ subscribed' \subseteq Client
        BY <1>2, <1>5 DEF IInv, TypeOK
    <1>8. server'.next <= Len(clients') + 1
        <2>1. Len(clients) \in Nat
            BY DEF IInv, TypeOK
        <2> QED
            BY <1>2, <1>6, <2>1
    <1>9. TypeOK'
        BY <1>2, <1>6, <1>7, <1>8 DEF IInv, TypeOK
    <1>10. ServerShape'
        BY <1>4, <1>6 DEF ServerShape
    <1>11. Payloads'
        <2>1. ASSUME NEW d \in Client
              PROVE  PayloadsOf(d)'
            BY <1>2 DEF IInv, Payloads, PayloadsOf
        <2> QED
            BY <1>4, <1>6, <2>1 DEF Payloads
    <1>12. alive \subseteq Client
        BY DEF IInv, TypeOK
    <1>13. OneRequest'
        <2>1. ASSUME NEW d \in alive, d # c
              PROVE  RequestOf(d)'
            <3>1. ~Handling(d) /\ ~Handling(d)' /\ Expected(d)' = Expected(d)
                BY <1>2, <1>6, <2>1 DEF Handling, Expected
            <3>2. RequestOf(d) /\ to_server'[d] = to_server[d]
                BY <1>2, <1>12, <2>1 DEF IInv, OneRequest
            <3> QED
                BY <1>2, <3>1, <3>2 DEF RequestOf
        <2>2. RequestOf(c)'
            <3>1. Handling(c)' /\ Expected(c)' = Expected(c)
                BY <1>2, <1>6 DEF Handling, Expected
            <3> QED
                BY <1>2, <1>4, <1>6, <3>1 DEF RequestOf
        <2> QED
            BY <1>2, <2>1, <2>2 DEF OneRequest
    <1>14. Subscriptions'
        <2>1. ASSUME NEW d \in alive, d # c
              PROVE  SubscriptionOf(d)'
            <3>1. d \in subscribed' <=> d \in subscribed
                BY <1>5, <2>1
            <3> QED
                BY <1>2, <1>12, <2>1, <3>1 DEF IInv, Subscriptions, SubscriptionOf
        <2>2. SubscriptionOf(c)'
            <3>1. SubscriptionOf(c)
                BY <1>2 DEF IInv, Subscriptions
            <3> QED
                BY <1>2, <1>5, <3>1 DEF SubscriptionOf, Requests
        <2> QED
            BY <1>2, <2>1, <2>2 DEF Subscriptions
    <1>15. Notifying'
        <2>1. ASSUME server'.at = "notify", NEW d \in alive, d \in subscribed'
              PROVE  NotifyingOf(d)'
            <3>1. m.type = "write" /\ subscribed' = subscribed
                BY <1>5, <1>6, <2>1
            <3>2. Known(d)
                BY <2>1, <3>1 DEF IInv, Subscriptions, SubscriptionOf, AcceptedAreKnown
            <3>3. PICK i \in DOMAIN clients : clients[i] = d
                BY <3>2 DEF Known
            <3>4. i \in 1 .. Len(clients)
                <4>1. clients \in Seq(Client)
                    BY DEF IInv, TypeOK
                <4> QED
                    BY <4>1
            <3>5. Awaits(d)'
                BY <1>2, <1>6, <2>1, <3>3, <3>4 DEF Awaits
            <3> QED
                BY <3>5 DEF NotifyingOf
        <2> QED
            BY <1>2, <2>1 DEF Notifying
    <1>16. closed' \cap alive = {}
        BY <1>2 DEF IInv, EndedHasNothing
    <1>17. \A d \in Client \ alive : to_server'[d] = <<>> /\ to_client'[d] = <<>>
        BY <1>2 DEF IInv, EndedHasNothing
    <1>18. \A d \in alive : Known(d) => Known(d)'
        BY <1>2 DEF Known
    <1> QED
        BY <1>2, <1>9, <1>10, <1>11, <1>13, <1>14, <1>15, <1>16, <1>17, <1>18, ServerFrame
-----------------------------------------------------------------------------
(* A message is sent to a client that has not ended, and to nobody else.   *)
LEMMA SendFacts ==
    ASSUME IInv, NEW c \in Client, NEW m \in Message, Send(c, m)
    PROVE  /\ to_client' \in [Client -> Seq(Message)] /\ closed' \subseteq Client
           /\ closed' \cap alive = {}
           /\ \A d \in Client : d # c => to_client'[d] = to_client[d]
           /\ c \in alive => to_client'[c] = Append(to_client[c], m)
           /\ c \notin alive => to_client' = to_client
           /\ \A d \in Client \ alive : to_client'[d] = <<>>
    <1>1. /\ to_client \in [Client -> Seq(Message)] /\ alive \subseteq Client /\ closed \subseteq Client
          /\ closed \cap alive = {} /\ \A d \in Client \ alive : to_client[d] = <<>>
        BY DEF IInv, TypeOK, EndedHasNothing
    <1>2. CASE c \in alive
        <2>1. closed' = closed /\ to_client' = [to_client EXCEPT ![c] = Append(@, m)]
            BY <1>1, <1>2 DEF Send
        <2>2. Append(to_client[c], m) \in Seq(Message)
            BY <1>1
        <2> QED
            BY <1>1, <1>2, <2>1, <2>2
    <1>3. CASE c \notin alive
        <2>1. closed' = closed \cup {c} /\ to_client' = to_client
            BY <1>3 DEF Send
        <2> QED
            BY <1>1, <1>3, <2>1
    <1> QED
        BY <1>2, <1>3

(* The loop over the clients ends.                                         *)
LEMMA NotifyEndStep ==
    ASSUME IInv, ServerNotify, server.next > Len(clients)
    PROVE  IInv'
    <1>1. /\ server.at = "notify" /\ server' = [server EXCEPT !.at = "reply"]
          /\ UNCHANGED <<repository, subscribed, pending, to_server, to_client, closed, clients,
                         calls, alive>>
          /\ UNCHANGED <<pc, making, watchers, cached>>
        BY DEF ServerNotify, clientVars
    <1>2. /\ server' \in Server /\ server'.at = "reply" /\ server'.who = server.who
          /\ server'.next = server.next /\ server'.reply = server.reply
        BY <1>1 DEF IInv, TypeOK, Server
    <1>3. TypeOK'
        BY <1>1, <1>2 DEF IInv, TypeOK
    <1>4. ServerShape' /\ Payloads' /\ Notifying'
        BY <1>1, <1>2 DEF IInv, ServerShape, Payloads, PayloadsOf, Notifying
    <1>5. OneRequest'
        <2>1. ASSUME NEW d \in alive
              PROVE  RequestOf(d)'
            <3>1. RequestOf(d) /\ Expected(d)' = Expected(d) /\ Handling(d)' = Handling(d)
                BY <1>1, <1>2 DEF IInv, OneRequest, Expected, Handling
            <3> QED
                BY <1>1, <1>2, <3>1 DEF RequestOf
        <2> QED
            BY <1>1, <2>1 DEF OneRequest
    <1>6. Subscriptions'
        BY <1>1 DEF IInv, Subscriptions, SubscriptionOf
    <1>7. /\ closed' \cap alive = {} /\ \A d \in alive : Known(d) => Known(d)'
          /\ \A d \in Client \ alive : to_server'[d] = <<>> /\ to_client'[d] = <<>>
        BY <1>1 DEF IInv, EndedHasNothing, Known
    <1> QED
        BY <1>1, <1>3, <1>4, <1>5, <1>6, <1>7, ServerFrame

(* One client is told of the write, if it has subscribed.                  *)
LEMMA NotifyFacts ==
    ASSUME IInv, ServerNotify, server.next <= Len(clients)
    PROVE  LET c == clients[server.next]
               n == With("notify", repository)
           IN  /\ c \in Client /\ n \in Message /\ n.type = "notify" /\ n.payload \in Value
               /\ server.at = "notify" /\ server'.at = "notify" /\ server' \in Server
               /\ server'.who = server.who /\ server'.reply = server.reply
               /\ server.next \in DOMAIN clients
               /\ server'.next = server.next + 1 /\ server'.next <= Len(clients) + 1
               /\ to_client' \in [Client -> Seq(Message)] /\ closed' \subseteq Client
               /\ closed' \cap alive = {}
               /\ \A d \in Client : d # c \/ d \notin subscribed => to_client'[d] = to_client[d]
               /\ c \in alive \cap subscribed => to_client'[c] = Append(to_client[c], n)
               /\ \A d \in Client \ alive : to_client'[d] = <<>>
               /\ UNCHANGED <<repository, subscribed, clients, pending, to_server, calls, alive>>
               /\ UNCHANGED <<pc, making, watchers, cached>>
    <1>1. PICK c, n : c = clients[server.next] /\ n = With("notify", repository)
        OBVIOUS
    <1>2. /\ clients \in Seq(Client) /\ server \in Server /\ server.next \in Nat /\ server.next >= 1
          /\ repository \in Value /\ Len(clients) \in Nat
        BY DEF IInv, TypeOK, ServerShape, Server
    <1>3. server.next \in DOMAIN clients /\ c \in Client
        BY <1>1, <1>2
    <1>4. n \in Message /\ n.type = "notify" /\ n.payload \in Value
        BY <1>1, <1>2, MessageFacts DEF MessageType
    <1>5. ~(server.next > Len(clients))
        BY <1>2
    <1>6. /\ server.at = "notify" /\ server' = [server EXCEPT !.next = @ + 1]
          /\ IF c \in subscribed THEN Send(c, n) ELSE UNCHANGED <<to_client, closed>>
          /\ UNCHANGED <<repository, subscribed, clients, pending, to_server, calls, alive>>
          /\ UNCHANGED <<pc, making, watchers, cached>>
        BY <1>1, <1>5 DEF ServerNotify, IsNotified, DuringNotify, clientVars
    <1>7. /\ server'.at = "notify" /\ server' \in Server /\ server'.who = server.who
          /\ server'.reply = server.reply /\ server'.next = server.next + 1
          /\ server'.next <= Len(clients) + 1
        BY <1>2, <1>6 DEF Server
    <1>8. CASE c \in subscribed
        <2>1. Send(c, n)
            BY <1>6, <1>8
        <2>2. /\ to_client' \in [Client -> Seq(Message)] /\ closed' \subseteq Client
              /\ closed' \cap alive = {}
              /\ \A d \in Client : d # c => to_client'[d] = to_client[d]
              /\ c \in alive => to_client'[c] = Append(to_client[c], n)
              /\ \A d \in Client \ alive : to_client'[d] = <<>>
            BY <1>3, <1>4, <2>1, SendFacts
        <2> QED
            BY <1>1, <1>3, <1>4, <1>6, <1>7, <1>8, <2>2
    <1>9. CASE c \notin subscribed
        <2>1. UNCHANGED <<to_client, closed>>
            BY <1>6, <1>9
        <2> QED
            BY <1>1, <1>3, <1>4, <1>6, <1>7, <1>9, <2>1 DEF IInv, TypeOK, EndedHasNothing
    <1> QED
        BY <1>8, <1>9

LEMMA NotifyStep ==
    ASSUME IInv, ServerNotify, server.next <= Len(clients)
    PROVE  IInv'
    <1>1. PICK c, n : c = clients[server.next] /\ n = With("notify", repository)
        OBVIOUS
    <1>2. /\ c \in Client /\ n \in Message /\ n.type = "notify" /\ n.payload \in Value
          /\ server.at = "notify" /\ server'.at = "notify" /\ server' \in Server
          /\ server'.who = server.who /\ server'.reply = server.reply
          /\ server'.next = server.next + 1 /\ server'.next <= Len(clients) + 1
          /\ to_client' \in [Client -> Seq(Message)] /\ closed' \subseteq Client
          /\ closed' \cap alive = {}
          /\ \A d \in Client : d # c \/ d \notin subscribed => to_client'[d] = to_client[d]
          /\ c \in alive \cap subscribed => to_client'[c] = Append(to_client[c], n)
          /\ \A d \in Client \ alive : to_client'[d] = <<>>
          /\ UNCHANGED <<repository, subscribed, clients, pending, to_server, calls, alive>>
          /\ UNCHANGED <<pc, making, watchers, cached>>
        BY <1>1, NotifyFacts
    <1>3. /\ alive \subseteq Client /\ to_client \in [Client -> Seq(Message)]
          /\ server.next \in Nat /\ server.next >= 1
        BY DEF IInv, TypeOK, ServerShape, Server
    <1>4. TypeOK'
        BY <1>2 DEF IInv, TypeOK
    <1>5. ServerShape'
        BY <1>2, <1>3 DEF IInv, ServerShape
    <1>6. ASSUME c \in alive, c \in subscribed
          PROVE  /\ to_client'[c] = Append(to_client[c], n)
                 /\ EndsWith(to_client'[c], n)
                 /\ OnlyNotified(to_client[c], 0) => OnlyNotified(to_client'[c], 0)
                 /\ \A i \in DOMAIN to_client[c] : i \in DOMAIN to_client'[c]
                 /\ \A i \in DOMAIN to_client[c] : to_client'[c][i] = to_client[c][i]
                 /\ \A i \in DOMAIN to_client[c] :
                        OnlyNotified(to_client[c], i) => OnlyNotified(to_client'[c], i)
                 /\ \A i \in DOMAIN to_client'[c] : i \in DOMAIN to_client[c] \/ to_client'[c][i] = n
        <2>1. to_client[c] \in Seq(Message) /\ to_client'[c] = Append(to_client[c], n)
            BY <1>2, <1>3, <1>6
        <2> QED
            BY <1>2, <2>1, SentLast
    <1>7. ASSUME NEW d \in Client
          PROVE  \/ to_client'[d] = to_client[d]
                 \/ d = c /\ c \in alive /\ c \in subscribed
        <2>1. d \notin alive => to_client'[d] = to_client[d]
            BY <1>2, <1>7 DEF IInv, EndedHasNothing
        <2> QED
            BY <1>2, <2>1
    <1>8. Payloads'
        <2>1. ASSUME NEW d \in Client
              PROVE  PayloadsOf(d)'
            <3>1. PayloadsOf(d)
                BY DEF IInv, Payloads
            <3>2. CASE to_client'[d] = to_client[d]
                BY <1>2, <3>1, <3>2 DEF PayloadsOf
            <3>3. CASE d = c /\ c \in alive /\ c \in subscribed
                BY <1>2, <1>6, <3>1, <3>3 DEF PayloadsOf
            <3> QED
                BY <1>7, <3>2, <3>3
        <2> QED
            BY <1>2, <2>1 DEF IInv, Payloads
    <1>9. OneRequest'
        <2>1. ASSUME NEW d \in alive
              PROVE  RequestOf(d)'
            <3>1. RequestOf(d) /\ d \in Client
                BY <1>3 DEF IInv, OneRequest
            <3>2. Handling(d)' = Handling(d) /\ Expected(d)' = Expected(d)
                BY <1>2 DEF Handling, Expected
            <3>3. CASE to_client'[d] = to_client[d]
                BY <1>2, <3>1, <3>2, <3>3 DEF RequestOf
            <3>4. CASE d = c /\ c \in alive /\ c \in subscribed
                <4>1. ASSUME NEW i \in DOMAIN to_client[c], to_client[c][i].type = Expected(c),
                             OnlyNotified(to_client[c], i)
                      PROVE  \E j \in DOMAIN to_client'[c] :
                                 to_client'[c][j].type = Expected(c) /\ OnlyNotified(to_client'[c], j)
                    BY <1>6, <3>4, <4>1
                <4> QED
                    BY <1>2, <1>6, <3>1, <3>2, <3>4, <4>1 DEF RequestOf
            <3> QED
                BY <1>7, <3>1, <3>3, <3>4
        <2> QED
            BY <1>2, <2>1 DEF OneRequest
    <1>10. Subscriptions'
        BY <1>2 DEF IInv, Subscriptions, SubscriptionOf
    <1>11. Notifying'
        <2>1. ASSUME NEW d \in alive, d \in subscribed
              PROVE  NotifyingOf(d)'
            <3>1. NotifyingOf(d)
                BY <1>2, <2>1 DEF IInv, Notifying
            <3>2. CASE d = c
                BY <1>1, <1>2, <1>6, <2>1, <3>2 DEF NotifyingOf
            <3>3. CASE d # c
                <4>1. to_client'[d] = to_client[d]
                    BY <1>3, <1>7, <3>3
                <4>2. Awaits(d) => Awaits(d)'
                    <5>1. ASSUME NEW i \in server.next .. Len(clients), clients[i] = d
                          PROVE  i \in server.next + 1 .. Len(clients)
                        <6>1. i # server.next
                            BY <1>1, <3>3, <5>1
                        <6> QED
                            BY <1>3, <6>1
                    <5> QED
                        BY <1>2, <5>1 DEF Awaits
                <4> QED
                    BY <1>2, <3>1, <4>1, <4>2 DEF NotifyingOf, Writing
            <3> QED
                BY <3>2, <3>3
        <2> QED
            BY <1>2, <2>1 DEF Notifying
    <1>12. /\ \A d \in alive : Known(d) => Known(d)'
           /\ \A d \in Client \ alive : to_server'[d] = <<>> /\ to_client'[d] = <<>>
        BY <1>2 DEF IInv, EndedHasNothing, Known
    <1> QED
        BY <1>2, <1>4, <1>5, <1>8, <1>9, <1>10, <1>11, <1>12, ServerFrame
-----------------------------------------------------------------------------
(* The answer is sent, and whoever was lost in the round is forgotten.     *)
LEMMA ReplyStep ==
    ASSUME IInv, ServerReply
    PROVE  IInv'
    <1>1. PICK c, m : c = server.who /\ m = server.reply
        OBVIOUS
    <1>2. /\ server.at = "reply" /\ Send(c, m) /\ server' = Polling
          /\ clients' = Connected(clients, closed') /\ subscribed' = subscribed \ closed'
          /\ UNCHANGED <<repository, pending, to_server, calls, alive>>
          /\ UNCHANGED <<pc, making, watchers, cached>>
        BY <1>1 DEF ServerReply, clientVars
    <1>3. /\ c \in Client /\ m \in Message /\ m.type \in {"ack", "value"}
          /\ m.type = "value" => m.payload \in Value
        BY <1>1, <1>2 DEF IInv, TypeOK, ServerShape, Payloads, Server
    <1>4. /\ to_client' \in [Client -> Seq(Message)] /\ closed' \subseteq Client
          /\ closed' \cap alive = {}
          /\ \A d \in Client : d # c => to_client'[d] = to_client[d]
          /\ c \in alive => to_client'[c] = Append(to_client[c], m)
          /\ c \notin alive => to_client' = to_client
          /\ \A d \in Client \ alive : to_client'[d] = <<>>
        BY <1>2, <1>3, SendFacts
    <1>5. /\ clients \in Seq(Client) /\ alive \subseteq Client
          /\ to_client \in [Client -> Seq(Message)]
        BY DEF IInv, TypeOK
    <1>6. clients' \in Seq(Client)
        BY <1>2, <1>5, ConnectedFacts
    <1>7. server' \in Server /\ server'.at = "poll" /\ server'.next = 1 /\ server'.reply = Bare("ack")
          /\ server'.next <= Len(clients') + 1
        <2>1. Bare("ack") \in Message
            BY MessageFacts DEF MessageType
        <2>2. Len(clients') \in Nat
            BY <1>6
        <2> QED
            BY <1>2, <2>1, <2>2 DEF Polling, Server
    <1>8. TypeOK'
        BY <1>2, <1>4, <1>6, <1>7 DEF IInv, TypeOK
    <1>9. ServerShape' /\ Notifying' /\ Bare("ack").type = "ack"
        BY <1>2, <1>7 DEF ServerShape, Notifying, Bare
    <1>10. ASSUME c \in alive
           PROVE  /\ Len(to_client[c]) + 1 \in DOMAIN to_client'[c]
                  /\ to_client'[c][Len(to_client[c]) + 1] = m
                  /\ OnlyNotified(to_client[c], 0) =>
                         OnlyNotified(to_client'[c], Len(to_client[c]) + 1)
                  /\ \A i \in DOMAIN to_client[c] : to_client'[c][i] = to_client[c][i]
                  /\ \A i \in DOMAIN to_client'[c] : i \in DOMAIN to_client[c] \/ to_client'[c][i] = m
        <2>1. to_client[c] \in Seq(Message) /\ to_client'[c] = Append(to_client[c], m)
            BY <1>3, <1>4, <1>5, <1>10
        <2> QED
            BY <1>3, <2>1, SentLast
    <1>11. Payloads'
        <2>1. ASSUME NEW d \in Client
              PROVE  PayloadsOf(d)'
            <3>1. PayloadsOf(d)
                BY DEF IInv, Payloads
            <3>2. CASE to_client'[d] = to_client[d]
                BY <1>2, <3>1, <3>2 DEF PayloadsOf
            <3>3. CASE d = c /\ c \in alive
                BY <1>2, <1>3, <1>10, <3>1, <3>3 DEF PayloadsOf
            <3> QED
                BY <1>4, <3>2, <3>3
        <2> QED
            BY <1>7, <1>9, <2>1 DEF Payloads
    <1>12. OneRequest'
        <2>1. ASSUME NEW d \in alive
              PROVE  RequestOf(d)'
            <3>1. RequestOf(d) /\ d \in Client
                BY <1>5 DEF IInv, OneRequest
            <3>2. ~Handling(d)' /\ Expected(d)' = Expected(d)
                BY <1>2, <1>7 DEF Handling, Expected
            <3>3. CASE d # c
                <4>1. ~Handling(d) /\ to_client'[d] = to_client[d]
                    BY <1>1, <1>4, <3>1, <3>3 DEF Handling
                <4> QED
                    BY <1>2, <3>1, <3>2, <4>1 DEF RequestOf
            <3>4. CASE d = c
                <4>1. Handling(c)
                    BY <1>1, <1>2 DEF Handling
                <4>2. /\ pc[c] \in Requests /\ to_server[c] = <<>> /\ m.type = Expected(c)
                      /\ OnlyNotified(to_client[c], 0)
                    BY <1>1, <3>1, <3>4, <4>1 DEF RequestOf
                <4>3. \E i \in DOMAIN to_client'[c] : /\ to_client'[c][i].type = Expected(c)
                                                      /\ OnlyNotified(to_client'[c], i)
                    BY <1>10, <2>1, <3>4, <4>2
                <4> QED
                    BY <1>2, <3>2, <3>4, <4>2, <4>3 DEF RequestOf
            <3> QED
                BY <3>3, <3>4
        <2> QED
            BY <1>2, <2>1 DEF OneRequest
    <1>13. Subscriptions'
        <2>1. ASSUME NEW d \in alive
              PROVE  SubscriptionOf(d)'
            <3>1. SubscriptionOf(d) /\ (d \in subscribed' <=> d \in subscribed)
                BY <1>2, <1>4 DEF IInv, Subscriptions
            <3> QED
                BY <1>2, <3>1 DEF SubscriptionOf
        <2> QED
            BY <1>2, <2>1 DEF Subscriptions
    <1>14. ASSUME NEW d \in alive, Known(d)
           PROVE  Known(d)'
        <2>1. d \in Members(clients) /\ d \notin closed'
            BY <1>4, <1>14 DEF Known, Members
        <2> QED
            BY <1>2, <1>5, <2>1, ConnectedKnown DEF Known
    <1>15. \A d \in Client \ alive : to_server'[d] = <<>> /\ to_client'[d] = <<>>
        BY <1>2, <1>4 DEF IInv, EndedHasNothing
    <1> QED
        BY <1>2, <1>4, <1>8, <1>9, <1>11, <1>12, <1>13, <1>14, <1>15, ServerFrame
-----------------------------------------------------------------------------
LEMMA InitHolds ==
    ASSUME Init
    PROVE  IInv
    <1>1. Polling \in Server /\ Polling.at = "poll" /\ Polling.next = 1 /\ Polling.reply.type = "ack"
        <2>1. Bare("ack") \in Message /\ Bare("ack").type = "ack"
            BY MessageFacts DEF MessageType
        <2> QED
            BY <2>1 DEF Polling, Server
    <1>2. (CHOOSE s \in Setting : TRUE) \in Setting
        BY SettingsAssumption
    <1>3. TypeOK
        <2>1. calls \in [Client -> Nat] /\ \A c \in Client : calls[c] <= MaxCalls[c]
            BY SettingsAssumption DEF Init
        <2>2. cached \in [Client -> [Setting -> Value \cup {NoValue}]]
            BY DEF Init, Unmade
        <2>3. server \in Server /\ server.next <= Len(clients) + 1
            BY <1>1 DEF Init
        <2> QED
            BY <1>2, <2>1, <2>2, <2>3, SettingsAssumption DEF Init, TypeOK, Location
    <1>4. ServerShape /\ Payloads /\ Notifying
        BY <1>1 DEF Init, ServerShape, Payloads, PayloadsOf, Notifying
    <1>5. EndedHasNothing /\ AcceptedAreKnown
        BY DEF Init, EndedHasNothing, AcceptedAreKnown
    <1>6. OneRequest /\ Subscriptions /\ Registered
        BY <1>1 DEF Init, OneRequest, RequestOf, OnlyNotified, Handling, Requests, Subscriptions,
              SubscriptionOf, Registered, RegisteredOf
    <1> QED
        BY <1>3, <1>4, <1>5, <1>6 DEF IInv

LEMMA StutterHolds ==
    ASSUME IInv, UNCHANGED vars
    PROVE  IInv'
    <1>1. UNCHANGED <<repository, clients, subscribed, closed, server, pending, to_server, to_client,
                      pc, making, watchers, cached, calls, alive>>
        BY DEF vars, serverVars, clientVars
    <1>2. TypeOK' /\ ServerShape' /\ Payloads' /\ Notifying'
        BY <1>1 DEF IInv, TypeOK, ServerShape, Payloads, PayloadsOf, Notifying, NotifyingOf,
              Awaits, Writing
    <1>3. OneRequest' /\ Subscriptions'
        BY <1>1 DEF IInv, OneRequest, RequestOf, Handling, Expected, Subscriptions, SubscriptionOf
    <1>4. closed' \cap alive = {} /\ \A c \in alive : Known(c) => Known(c)'
        BY <1>1 DEF IInv, EndedHasNothing, Known
    <1>5. \A c \in Client \ alive : to_server'[c] = <<>> /\ to_client'[c] = <<>>
        BY <1>1 DEF IInv, EndedHasNothing
    <1> QED
        BY <1>1, <1>2, <1>3, <1>4, <1>5, ServerFrame

LEMMA NextHolds ==
    ASSUME IInv, Next
    PROVE  IInv'
    <1>1. CASE ServerAccept
        BY <1>1, AcceptStep
    <1>2. CASE ServerNotify
        <2>1. server.next \in Nat /\ Len(clients) \in Nat
            BY DEF IInv, TypeOK, Server
        <2> QED
            BY <1>2, <2>1, NotifyStep, NotifyEndStep
    <1>3. CASE ServerReply
        BY <1>3, ReplyStep
    <1>4. ASSUME NEW c \in Client, ServerLoses(c) \/ ServerReceive(c)
          PROVE  IInv'
        BY <1>4, LosesStep, TakeStep
    <1>5. ASSUME NEW c \in Client, ClientStep(c)
          PROVE  IInv'
        <2>1. CASE Connect(c)
            BY <2>1, ConnectStep
        <2>2. CASE Receive(c)
            BY <2>2, NotifiedStep, AnsweredStep
        <2>3. ASSUME NEW s \in Setting, Make(c, s) \/ Destroy(c, s)
              PROVE  IInv'
            BY <2>3, MakeStep, DestroyStep
        <2>4. ASSUME NEW v \in Value, Write(c, v)
              PROVE  IInv'
            BY <2>4, WriteStep
        <2>5. ASSUME NEW v \in Value, NEW s \in Setting, WriteOwn(c, s, v)
              PROVE  IInv'
            BY <2>5, WriteOwnStep
        <2> QED
            BY <1>5, <2>1, <2>2, <2>3, <2>4, <2>5 DEF ClientStep
    <1>6. ASSUME NEW c \in Client, Die(c)
          PROVE  IInv'
        BY <1>6, DieStep
    <1> QED
        BY <1>1, <1>2, <1>3, <1>4, <1>5, <1>6 DEF Next, ServerStep

(* Whatever the service and its clients do, and whoever ends, all the      *)
(* parts of the inductive invariant hold in every state.                   *)
THEOREM Invariance == Spec => []IInv
    <1>1. Init => IInv
        BY InitHolds
    <1>2. IInv /\ [Next]_vars => IInv'
        BY NextHolds, StutterHolds
    <1> QED
        BY <1>1, <1>2, PTL DEF Spec

(* Every variable has its type, and the loop over the clients is never     *)
(* past their end.                                                         *)
THEOREM TypeCorrect == Spec => []TypeOK
    <1>1. IInv => TypeOK
        BY DEF IInv
    <1> QED
        BY <1>1, Invariance, PTL

(* The list of subscriptions of the service and the list of watchers of a  *)
(* process agree whenever the process is not in a request.                 *)
THEOREM SubscribedCorrect == Spec => []SubscribedIffWatching
    <1>1. IInv => SubscribedIffWatching
        BY DEF IInv, Subscriptions, SubscriptionOf, SubscribedIffWatching
    <1> QED
        BY <1>1, Invariance, PTL
-----------------------------------------------------------------------------
(* A Setting that is registered while a write is told becomes up to date.  *)
LEMMA CurrentOnNotify ==
    \A c \in Client, s \in Setting :
        IInv /\ s \in watchers[c] /\ server.at = "notify" => Current(c, s)
    <1> SUFFICES ASSUME IInv, NEW c \in Client, NEW s \in watchers[c], server.at = "notify"
                 PROVE  Current(c, s)
        OBVIOUS
    <1>1. c \in alive
        BY DEF IInv, EndedHasNothing
    <1>2. c \in subscribed
        BY <1>1 DEF IInv, EndedHasNothing, Subscriptions, SubscriptionOf, TypeOK, Location
    <1>3. NotifyingOf(c)
        BY <1>1, <1>2 DEF IInv, Notifying
    <1>4. CASE EndsWith(to_client[c], With("notify", repository))
        <2>1. to_client[c] \in Seq(Message)
            BY DEF IInv, TypeOK
        <2>2. PICK q : q = to_client[c]
            OBVIOUS
        <2>3. q \in Seq(Message) /\ q # <<>> /\ q[Len(q)] = With("notify", repository)
            BY <1>4, <2>1, <2>2 DEF EndsWith
        <2>4. LastNotified(q, repository)
            BY <2>3 DEF LastNotified
        <2> QED
            BY <2>2, <2>4 DEF Current
    <1>5. CASE to_client[c] = <<>>
        BY <1>3, <1>4, <1>5 DEF NotifyingOf, Current, Unnotified
    <1> QED
        BY <1>3, <1>4, <1>5 DEF NotifyingOf, Current

LEMMA CurrentOnNotifyNext ==
    ASSUME NEW c \in Client, NEW s \in Setting
    PROVE  (IInv /\ s \in watchers[c] /\ server.at = "notify" => Current(c, s))'
    <1>1. IInv /\ s \in watchers[c] /\ server.at = "notify" => Current(c, s)
        BY CurrentOnNotify
    <1> QED
        BY <1>1, PTL

(* Nothing changes for a client but that it is no more to be told.         *)
LEMMA CurrentFrame ==
    ASSUME NEW c \in Client, NEW s \in Setting, Current(c, s),
           watchers'[c] = watchers[c], to_client'[c] = to_client[c], to_server'[c] = to_server[c],
           cached'[c] = cached[c], pc'[c] = pc[c], making'[c] = making[c],
           repository' = repository, ~Awaits(c)
    PROVE  Current(c, s)'
    BY DEF Current, Writing

LEMMA CurrentOnServerStep ==
    ASSUME IInv, IInv', NEW c \in Client, NEW s \in Setting, Current(c, s), ServerStep
    PROVE  Current(c, s)'
    <1>1. CASE s \in watchers'[c] /\ server'.at = "notify"
        BY <1>1, CurrentOnNotifyNext
    <1>2. CASE ServerAccept
        <2>1. /\ server.at = "poll" /\ pc' \in [Client -> Location]
              /\ pc'[c] = pc[c] \/ (pc[c] = "connecting" /\ pc'[c] = "idle")
              /\ UNCHANGED <<repository, to_server, to_client, making, watchers, cached>>
            BY <1>2 DEF ServerAccept, IInv, TypeOK
        <2>2. pc[c] = "connecting" => watchers[c] = {}
            BY DEF IInv, EndedHasNothing, Subscriptions, SubscriptionOf
        <2>3. CASE pc'[c] = pc[c]
            BY <2>1, <2>3, CurrentFrame DEF Awaits
        <2>4. CASE pc[c] = "connecting" /\ pc'[c] = "idle"
            <3>1. s \notin watchers[c] /\ cached[c][s] # NoValue
                BY <2>2, <2>4 DEF Current
            <3> QED
                BY <2>1, <2>4, <3>1 DEF Current
        <2> QED
            BY <2>1, <2>3, <2>4
    <1>3. ASSUME NEW d \in Client, ServerLoses(d)
          PROVE  Current(c, s)'
        <2>1. /\ server.at = "poll"
              /\ UNCHANGED <<repository, to_server, to_client, pc, making, watchers, cached>>
            BY <1>3 DEF ServerLoses, Selects, clientVars
        <2> QED
            BY <2>1, CurrentFrame DEF Awaits
    <1>4. ASSUME NEW d \in Client, ServerReceive(d)
          PROVE  Current(c, s)'
        <2>1. PICK m : m = Head(to_server[d])
            OBVIOUS
        <2>2. /\ server.at = "poll" /\ m.type = pc[d] /\ Handled(d, m)
              /\ \A e \in Client : e # d => to_server'[e] = to_server[e]
              /\ UNCHANGED <<to_client, pc, making, watchers, cached>>
            BY <1>4, <2>1, TakenFacts
        <2>3. CASE s \notin watchers[c]
            BY <2>2, <2>3 DEF Current
        <2>4. CASE s \in watchers[c] /\ server'.at # "notify"
            <3>1. pc[d] # "write" /\ repository' = repository
                BY <2>2, <2>4 DEF Handled
            <3>2. Writing(c) => Writing(c)'
                BY <2>2, <3>1 DEF Writing
            <3> QED
                BY <2>2, <2>4, <3>1, <3>2 DEF Current, Awaits
        <2> QED
            BY <1>1, <2>2, <2>3, <2>4
    <1>5. CASE ServerNotify
        <2>1. /\ server.at = "notify" /\ server.next \in Nat /\ Len(clients) \in Nat
              /\ UNCHANGED <<repository, to_server, pc, making, watchers, cached>>
            BY <1>5 DEF ServerNotify, clientVars, IInv, TypeOK, Server
        <2>2. CASE server.next <= Len(clients)
            <3>1. server'.at = "notify"
                BY <1>5, <2>2, NotifyFacts
            <3>2. s \notin watchers[c] => Current(c, s)'
                BY <2>1 DEF Current
            <3> QED
                BY <1>1, <2>1, <3>1, <3>2
        <2>3. CASE server.next > Len(clients)
            <3>1. to_client' = to_client /\ ~Awaits(c)
                BY <1>5, <2>1, <2>3 DEF ServerNotify, Awaits
            <3> QED
                BY <2>1, <3>1, CurrentFrame
        <2> QED
            BY <2>1, <2>2, <2>3
    <1>6. CASE ServerReply
        <2>1. PICK w, m : w = server.who /\ m = server.reply
            OBVIOUS
        <2>2. /\ server.at = "reply" /\ Send(w, m)
              /\ UNCHANGED <<repository, to_server, pc, making, watchers, cached>>
            BY <1>6, <2>1 DEF ServerReply, clientVars
        <2>3. w \in Client /\ m \in Message /\ m.type # "notify"
            BY <2>1, <2>2 DEF IInv, TypeOK, ServerShape, Server
        <2>4. /\ c # w => to_client'[c] = to_client[c]
              /\ w \in alive => to_client'[w] = Append(to_client[w], m)
              /\ w \notin alive => to_client' = to_client
            BY <2>2, <2>3, SendFacts
        <2>5. ~Awaits(c)
            BY <2>2 DEF Awaits
        <2>6. CASE to_client'[c] = to_client[c]
            BY <2>2, <2>5, <2>6, CurrentFrame
        <2>7. CASE c = w /\ w \in alive
            <3>1. to_client[c] \in Seq(Message) /\ to_client'[c] = Append(to_client[c], m)
                BY <2>4, <2>7 DEF IInv, TypeOK
            <3>2. /\ LastNotified(to_client[c], repository) => LastNotified(to_client'[c], repository)
                  /\ Unnotified(to_client[c]) => Unnotified(to_client'[c])
                BY <2>3, <3>1, SentLast
            <3> QED
                BY <2>2, <2>5, <3>2 DEF Current, Writing
        <2> QED
            BY <2>4, <2>6, <2>7
    <1> QED
        BY <1>2, <1>3, <1>4, <1>5, <1>6 DEF ServerStep
-----------------------------------------------------------------------------
(* A call changes what its own process has, and sends one request.         *)
LEMMA CurrentOnCall ==
    ASSUME IInv, NEW c \in Client, NEW s \in Setting, Current(c, s),
           NEW t \in Setting, NEW v \in Value,
           Make(c, t) \/ Destroy(c, t) \/ Write(c, v) \/ WriteOwn(c, t, v)
    PROVE  Current(c, s)'
    <1>1. /\ pc[c] = "idle" /\ c \in alive
          /\ UNCHANGED <<repository, clients, subscribed, server, to_client>>
        BY DEF Make, Destroy, Write, WriteOwn, Call, At, serverVars
    <1>2. Awaits(c)' = Awaits(c) /\ ~Writing(c)
        BY <1>1 DEF Awaits, Writing
    <1>3. /\ pc \in [Client -> Location] /\ making \in [Client -> Setting]
          /\ watchers \in [Client -> SUBSET Setting]
          /\ cached \in [Client -> [Setting -> Value \cup {NoValue}]]
          /\ to_server \in [Client -> Seq(Message)]
          /\ \A u \in watchers[c] : cached[c][u] # NoValue
        BY <1>1 DEF IInv, TypeOK, Registered, RegisteredOf
    <1>4. CASE Make(c, t)
        <2>1. /\ pc'[c] = "read" /\ making'[c] = t /\ cached[c][t] = NoValue
              /\ UNCHANGED <<watchers, cached>>
            BY <1>3, <1>4 DEF Make, Request, Goto, Bare
        <2> QED
            BY <1>1, <1>2, <2>1 DEF Current
    <1>5. CASE Destroy(c, t)
        <2>1. /\ watchers'[c] = watchers[c] \ {t} /\ pc'[c] \in {"idle", "unwatch"}
              /\ UNCHANGED <<making, cached>>
            BY <1>1, <1>3, <1>5 DEF Destroy, Request, Goto, Bare
        <2>2. CASE s \in watchers[c] /\ s # t
            BY <1>1, <1>2, <2>1, <2>2 DEF Current
        <2>3. CASE s \in watchers[c] /\ s = t
            BY <1>3, <2>1, <2>3 DEF Current
        <2>4. CASE s \notin watchers[c]
            BY <1>1, <2>1, <2>4 DEF Current
        <2> QED
            BY <2>2, <2>3, <2>4
    <1>6. CASE Write(c, v) \/ WriteOwn(c, t, v)
        <2>1. PICK m : m = With("write", v) /\ m.type = "write" /\ m \in Message
            BY MessageFacts DEF MessageType
        <2>2. /\ pc'[c] = "write" /\ to_server'[c] = Append(to_server[c], m)
              /\ UNCHANGED <<watchers, making>>
            BY <1>3, <1>6, <2>1 DEF Write, WriteOwn, Request, Goto
        <2>3. Writing(c)'
            <3>1. to_server[c] \in Seq(Message)
                BY <1>3
            <3>2. Append(to_server[c], m) # <<>>
                BY <2>1, <3>1
            <3> QED
                BY <2>2, <3>2 DEF Writing
        <2>4. cached[c][s] # NoValue => cached'[c][s] # NoValue
            <3>1. CASE Write(c, v)
                BY <3>1 DEF Write
            <3>2. CASE WriteOwn(c, t, v)
                <4>1. cached'[c][s] = IF s = t THEN v ELSE cached[c][s]
                    BY <1>3, <3>2 DEF WriteOwn
                <4> QED
                    BY <4>1, SettingsAssumption
            <3> QED
                BY <1>6, <3>1, <3>2
        <2> QED
            BY <1>1, <1>2, <2>2, <2>3, <2>4 DEF Current
    <1> QED
        BY <1>4, <1>5, <1>6

LEMMA CurrentOnReceive ==
    ASSUME IInv, NEW c \in Client, NEW s \in Setting, Current(c, s), Receive(c)
    PROVE  Current(c, s)'
    <1>1. PICK q, m : q = to_client[c] /\ m = Head(q)
        OBVIOUS
    <1>2. /\ c \in alive /\ pc[c] \in Requests \cup {"idle"}
          /\ to_client'[c] = Tail(q) /\ q \in Seq(Message) /\ q # <<>>
          /\ UNCHANGED <<repository, clients, subscribed, server, making>>
          /\ m.type = "notify" \/
                 /\ pc[c] \in Requests /\ m.type = Expected(c)
                 /\ to_server[c] = <<>>
          /\ Expected(c) # "notify"
          /\ m.type \in {"notify", "value"} => m.payload \in Value
        BY <1>1, ReceiveFacts DEF serverVars
    <1>3. /\ pc \in [Client -> Location] /\ making \in [Client -> Setting]
          /\ watchers \in [Client -> SUBSET Setting]
          /\ cached \in [Client -> [Setting -> Value \cup {NoValue}]]
        BY DEF IInv, TypeOK
    <1>4. RegisteredOf(c)
        BY <1>2 DEF IInv, Registered
    <1>5. Awaits(c)' = Awaits(c)
        BY <1>2 DEF Awaits
    <1>6. /\ LastNotified(q, repository) =>
                 \/ LastNotified(Tail(q), repository)
                 \/ m = With("notify", repository) /\ Unnotified(Tail(q))
          /\ Unnotified(q) => Unnotified(Tail(q)) /\ m.type # "notify"
        BY <1>1, <1>2, ReceivedFirst
    <1>7. CASE m.type = "notify"
        <2>1. UNCHANGED <<pc, watchers, to_server>> /\ Invoke(c, m.payload)
            BY <1>1, <1>2, <1>7 DEF Receive
        <2>2. PICK v \in Value : v = m.payload
            BY <1>2, <1>7
        <2>3. cached'[c][s] = IF s \in watchers[c] THEN v ELSE cached[c][s]
            BY <1>3, <2>1, <2>2 DEF Invoke
        <2>4. m = With("notify", repository) => v = repository
            BY <2>2 DEF With
        <2>5. CASE s \in watchers[c]
            BY <1>1, <1>2, <1>5, <1>6, <1>7, <2>1, <2>3, <2>4, <2>5 DEF Current
        <2>6. CASE s \notin watchers[c]
            BY <1>2, <2>1, <2>3, <2>6 DEF Current
        <2> QED
            BY <2>5, <2>6
    <1>8. CASE m.type # "notify"
        <2>1. pc[c] \in Requests /\ m.type = Expected(c) /\ ~Writing(c)
            BY <1>2, <1>8 DEF Writing
        <2>2. /\ LastNotified(q, repository) => LastNotified(Tail(q), repository)
              /\ Unnotified(q) => Unnotified(Tail(q))
            BY <1>6, <1>8 DEF With
        <2>3. CASE pc[c] = "read"
            <3>1. PICK v \in Value : v = m.payload
                BY <1>2, <2>1, <2>3 DEF Expected
            <3>2. Made(c, v)
                BY <1>1, <2>1, <2>3, <3>1 DEF Receive
            <3>3. s # making[c] => cached'[c][s] = cached[c][s]
                BY <1>3, <3>2 DEF Made
            <3>4. pc'[c] \in {"watch", "idle"}
                BY <1>3, <3>2 DEF Made, Request, Goto, Bare
            <3>5. watchers'[c] \in {watchers[c], watchers[c] \cup {making[c]}}
                BY <1>3, <3>2 DEF Made
            <3>6. CASE s \in watchers[c]
                <4>1. s # making[c]
                    BY <1>4, <2>3, <3>6 DEF RegisteredOf
                <4> QED
                    BY <1>1, <1>2, <1>5, <2>1, <2>2, <3>3, <3>5, <3>6, <4>1 DEF Current
            <3>7. CASE s \notin watchers[c]
                <4>1. s # making[c] /\ cached[c][s] # NoValue
                    BY <2>3, <3>7 DEF Current
                <4> QED
                    BY <1>2, <3>3, <3>5, <3>7, <4>1 DEF Current
            <3> QED
                BY <3>6, <3>7
        <2>4. CASE pc[c] # "read"
            <3>1. /\ cached' = cached /\ pc' = [pc EXCEPT ![c] = "idle"]
                  /\ watchers' = IF pc[c] = "watch"
                                 THEN [watchers EXCEPT ![c] = @ \cup {making[c]}] ELSE watchers
                BY <1>1, <2>1, <2>4 DEF Receive, Goto
            <3>2. /\ pc'[c] = "idle"
                  /\ watchers'[c] = IF pc[c] = "watch" THEN watchers[c] \cup {making[c]}
                                    ELSE watchers[c]
                BY <1>3, <3>1
            <3>3. CASE s \in watchers[c]
                BY <1>1, <1>2, <1>5, <2>1, <2>2, <3>1, <3>2, <3>3 DEF Current
            <3>4. CASE s \notin watchers[c]
                <4>1. /\ ~(pc[c] = "watch" /\ making[c] = s) /\ cached[c][s] # NoValue
                    BY <2>1, <3>4 DEF Current, Requests
                <4> QED
                    BY <3>1, <3>2, <3>4, <4>1 DEF Current
            <3> QED
                BY <3>3, <3>4
        <2> QED
            BY <2>3, <2>4
    <1> QED
        BY <1>7, <1>8

(* A step of one process changes nothing for another.                      *)
LEMMA CurrentOnOthers ==
    ASSUME IInv, NEW c \in Client, NEW s \in Setting, Current(c, s),
           NEW d \in Client, d # c, ClientStep(d) \/ Die(d)
    PROVE  Current(c, s)'
    <1>1. /\ pc \in [Client -> Location] /\ making \in [Client -> Setting]
          /\ watchers \in [Client -> SUBSET Setting]
          /\ cached \in [Client -> [Setting -> Value \cup {NoValue}]]
          /\ to_server \in [Client -> Seq(Message)] /\ to_client \in [Client -> Seq(Message)]
        BY DEF IInv, TypeOK
    <1> DEFINE Untouched ==
                   /\ UNCHANGED <<repository, clients, subscribed, server>>
                   /\ watchers'[c] = watchers[c] /\ to_client'[c] = to_client[c]
                   /\ to_server'[c] = to_server[c] /\ cached'[c] = cached[c]
                   /\ pc'[c] = pc[c] /\ making'[c] = making[c]
    <1>2. Untouched
        <2>1. CASE Connect(d)
            BY <1>1, <2>1 DEF Connect, Goto, serverVars
        <2>2. CASE Receive(d)
            <3>1. CASE Head(to_client[d]).type # Expected(d)
                BY <1>1, <2>2, <3>1 DEF Receive, Invoke, serverVars
            <3>2. CASE Head(to_client[d]).type = Expected(d)
                BY <1>1, <2>2, <3>2 DEF Receive, Made, Request, Goto, serverVars
            <3> QED
                BY <3>1, <3>2
        <2>3. ASSUME NEW t \in Setting, Make(d, t) \/ Destroy(d, t)
              PROVE  Untouched
            BY <1>1, <2>3 DEF Make, Destroy, Request, Goto, serverVars
        <2>4. ASSUME NEW v \in Value, Write(d, v)
              PROVE  Untouched
            BY <1>1, <2>4 DEF Write, Request, Goto, serverVars
        <2>5. ASSUME NEW v \in Value, NEW t \in Setting, WriteOwn(d, t, v)
              PROVE  Untouched
            BY <1>1, <2>5 DEF WriteOwn, Request, Goto, serverVars
        <2>6. CASE Die(d)
            BY <1>1, <2>6 DEF Die, Goto, serverVars
        <2> QED
            BY <2>1, <2>2, <2>3, <2>4, <2>5, <2>6 DEF ClientStep
    <1>3. Awaits(c)' = Awaits(c)
        BY <1>2 DEF Awaits
    <1> QED
        BY <1>2, <1>3 DEF Current, Writing

LEMMA CurrentHolds ==
    ASSUME IInv, IInv', NEW c \in Client, NEW s \in Setting, Current(c, s), [Next]_vars
    PROVE  Current(c, s)'
    <1>1. CASE ServerStep
        BY <1>1, CurrentOnServerStep
    <1>2. ASSUME NEW d \in Client, d # c, ClientStep(d) \/ Die(d)
          PROVE  Current(c, s)'
        BY <1>2, CurrentOnOthers
    <1>3. CASE Connect(c)
        <2>1. /\ c \in alive /\ pc[c] = "new" /\ pc'[c] = "connecting"
              /\ UNCHANGED <<watchers, cached>>
            BY <1>3 DEF Connect, At, Goto, IInv, TypeOK
        <2>2. s \notin watchers[c]
            BY <2>1 DEF IInv, Subscriptions, SubscriptionOf
        <2> QED
            BY <2>1, <2>2 DEF Current
    <1>4. CASE Receive(c)
        BY <1>4, CurrentOnReceive
    <1>5. ASSUME NEW t \in Setting, Make(c, t) \/ Destroy(c, t)
          PROVE  Current(c, s)'
        BY <1>5, CurrentOnCall, SettingsAssumption
    <1>6. ASSUME NEW v \in Value, Write(c, v)
          PROVE  Current(c, s)'
        BY <1>6, CurrentOnCall
    <1>7. ASSUME NEW v \in Value, NEW t \in Setting, WriteOwn(c, t, v)
          PROVE  Current(c, s)'
        BY <1>7, CurrentOnCall
    <1>8. CASE Die(c)
        <2>1. pc'[c] = "ended" /\ watchers'[c] = {}
            BY <1>8 DEF Die, Goto, IInv, TypeOK
        <2> QED
            BY <2>1 DEF Current
    <1>9. CASE UNCHANGED vars
        BY <1>9 DEF vars, serverVars, clientVars, Current, Awaits, Writing
    <1>10. CASE Next
        BY <1>1, <1>2, <1>3, <1>4, <1>5, <1>6, <1>7, <1>8, <1>10 DEF Next, ClientStep
    <1> QED
        BY <1>9, <1>10

(* Nothing is on its way to a client that waits for nothing.               *)
LEMMA SettledIsCurrent ==
    ASSUME NEW c \in Client, NEW s \in Setting, Current(c, s), Settled(c), s \in watchers[c]
    PROVE  cached[c][s] = repository
    <1>1. to_client[c] = <<>> /\ pc[c] = "idle" /\ server.at # "notify"
        BY DEF Settled
    <1> QED
        BY <1>1 DEF Current, Awaits, LastNotified, Writing

(* A Setting that has once been registered while a write was told is up to *)
(* date from then on, whenever nothing is on its way to its process, in    *)
(* whatever order values were set, sent and notified, and whoever ended.   *)
THEOREM StaysCurrentCorrect == Spec => StaysCurrent
    <1>1. ASSUME NEW c \in Client, NEW s \in Setting
          PROVE  Spec => [](server.at = "notify" /\ s \in watchers[c] =>
                             [](Settled(c) /\ s \in watchers[c] => cached[c][s] = repository))
        <2>1. IInv /\ server.at = "notify" /\ s \in watchers[c] => Current(c, s)
            BY <1>1, CurrentOnNotify
        <2>2. IInv /\ IInv' /\ Current(c, s) /\ [Next]_vars => Current(c, s)'
            BY <1>1, CurrentHolds
        <2>3. Current(c, s) => (Settled(c) /\ s \in watchers[c] => cached[c][s] = repository)
            BY <1>1, SettledIsCurrent
        <2> QED
            BY <2>1, <2>2, <2>3, Invariance, PTL DEF Spec
    <1> QED
        BY <1>1 DEF StaysCurrent
=============================================================================
