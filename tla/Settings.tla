------------------------------- MODULE Settings -------------------------------
(***************************************************************************)
(* The settings service (apps/settings-service) and the library of its     *)
(* clients (libraries/libsettings), for one path: processes that keep      *)
(* Settings, which read a value, watch it and write it, over connections   *)
(* that module Socket has in detail.  The service and each client are one  *)
(* event loop each (libsystem/eventloop): the service takes what is ready  *)
(* first, and forgets closed clients at the end of the round.  A message   *)
(* is sent and received whole.                                             *)
(***************************************************************************)
EXTENDS Integers, Sequences, FiniteSets, SequencesExt

CONSTANTS
    Client,     \* the processes that use the library
    Nobody,     \* no client
    Setting,    \* bound: the Settings that a process makes, in order
    Value,      \* the values of the path
    First,      \* the value that the service loads at its start
    NoValue,    \* an empty Optional
    Calls,      \* bound: the kinds of calls each process may make
    MaxCalls,   \* bound: how many calls each process makes
    Mortal      \* the processes that may end at any time

ASSUME SettingsAssumption ==
    /\ Nobody \notin Client /\ Mortal \subseteq Client
    /\ First \in Value /\ NoValue \notin Value
    /\ Calls \in [Client -> SUBSET {"make", "destroy", "write", "write_own"}]
    /\ Setting \subseteq Nat /\ Setting # {}
    /\ MaxCalls \in [Client -> Nat]

VARIABLES
    repository, \* _repository: the value of the path
    clients,    \* _clients, in the order they were accepted
    subscribed, \* the clients that have the path in _subscriptions
    closed,     \* the clients whose connection the service has closed
    server,     \* where the service is
    pending,    \* the connections to accept
    to_server,  \* what each client has sent and the service not received
    to_client,  \* what the service has sent and each client not received
    pc,         \* where each client is
    making,     \* the Setting that each client makes
    watchers,   \* _watchers of each process
    cached,     \* _value of the Settings
    calls,      \* bound: the calls that each process has made
    alive       \* the processes that have not ended

serverVars == <<repository, clients, subscribed, closed, server>>
clientVars == <<pc, making, watchers, cached>>
vars == <<serverVars, pending, to_server, to_client, clientVars, calls, alive>>

MessageType == {"read", "write", "watch", "unwatch", "ack", "value", "notify"}
Message == [type : MessageType, payload : Value \cup {NoValue}]
Bare(t) == [type |-> t, payload |-> NoValue]
With(t, v) == [type |-> t, payload |-> v]

(* "notify": the service is about to send to clients[next].  "reply": it   *)
(* is about to answer the client that it handles a message of.             *)
Server == [at : {"poll", "notify", "reply"}, who : Client \cup {Nobody},
           next : Nat, reply : Message]
Polling == [at |-> "poll", who |-> Nobody, next |-> 1, reply |-> Bare("ack")]

(* "read", "watch", ...: awaits the answer to a request of that type.      *)
Location == {"new", "connecting", "idle", "read", "watch", "unwatch", "write", "ended"}

Unmade == [s \in Setting |-> NoValue]

Init ==
    /\ repository = First
    /\ clients = <<>> /\ subscribed = {} /\ closed = {}
    /\ server = Polling
    /\ pending = <<>>
    /\ to_server = [c \in Client |-> <<>>]
    /\ to_client = [c \in Client |-> <<>>]
    /\ pc = [c \in Client |-> "new"]
    /\ making = [c \in Client |-> CHOOSE s \in Setting : TRUE]
    /\ watchers = [c \in Client |-> {}]
    /\ cached = [c \in Client |-> Unmade]
    /\ calls = [c \in Client |-> 0]
    /\ alive = Client
-----------------------------------------------------------------------------
(* EventLoop::pump of the service: handle_poll selects the first handle    *)
(* that is ready, in the order of the notifiers: the socket, and then the  *)
(* clients.  A connection is readable too when its client is gone.         *)
Readable(c) == to_server[c] # <<>> \/ c \notin alive
Selects(c) ==
    /\ server.at = "poll" /\ pending = <<>>
    /\ \E i \in DOMAIN clients : /\ clients[i] = c /\ Readable(c)
                                 /\ \A j \in 1 .. i - 1 : ~Readable(clients[j])

(* The invoker, at the end of a round: remove_all_match. *)
AllAreKept(cs, gone) == cs   \* mutant: nobody is removed
Connected(cs, gone) ==
    LET kept  == {i \in DOMAIN cs : cs[i] \notin gone}
        at(n) == CHOOSE i \in kept : Cardinality({k \in kept : k <= i}) = n
    IN  [n \in 1 .. Cardinality(kept) |-> cs[at(n)]]

(* The notifier of the socket: socket_accept takes the newest. *)
ServerAccept ==
    /\ server.at = "poll" /\ pending # <<>>
    /\ clients' = Append(clients, Last(pending))
    /\ pending' = Front(pending)
    /\ pc' = [pc EXCEPT ![Last(pending)] = IF @ = "connecting" THEN "idle" ELSE @]
    /\ UNCHANGED <<repository, subscribed, closed, server, to_server, to_client,
                   making, watchers, cached, calls, alive>>

(* The notifier of a peer whose client is gone: what is still in the       *)
(* connection is not received.                                             *)
ServerLoses(c) ==
    /\ Selects(c) /\ c \notin alive
    /\ closed' = closed \cup {c}
    /\ clients' = Connected(clients, closed')
    /\ subscribed' = subscribed \ {c}
    /\ UNCHANGED <<repository, server, pending, to_server, to_client, clientVars, calls, alive>>

(* The notifier of a peer: handle_client_message, up to its first send. *)
AckToRead == Bare("ack")   \* mutant: a read is acknowledged, as a write is
Answer    == With("value", repository)

Handled(c, m) ==
    /\ server' = [at    |-> IF m.type = "write" THEN "notify" ELSE "reply",
                  who   |-> c,
                  next  |-> 1,
                  reply |-> IF m.type = "read" THEN Answer ELSE Bare("ack")]
    /\ repository' = IF m.type = "write" THEN m.payload ELSE repository
    /\ subscribed' = CASE m.type = "watch"   -> subscribed \cup {c}
                       [] m.type = "unwatch" -> subscribed \ {c}
                       [] OTHER              -> subscribed

ServerReceive(c) ==
    /\ Selects(c) /\ c \in alive
    /\ Handled(c, Head(to_server[c]))
    /\ to_server' = [to_server EXCEPT ![c] = Tail(@)]
    /\ UNCHANGED <<clients, closed, pending, to_client, clientVars, calls, alive>>

(* Peer::send: it closes the connection when the client is gone. *)
Send(c, m) ==
    /\ to_client' = IF c \in alive \ closed THEN [to_client EXCEPT ![c] = Append(@, m)]
                    ELSE to_client
    /\ closed' = IF c \in alive THEN closed ELSE closed \cup {c}

(* The loop over the clients that a write makes. *)
KeptAtOnce(cs, gone) == Connected(cs, gone)   \* mutant: removed inside the loop
DuringNotify(cs, gone) == cs

IsNotifiedOthers(c) == c \in subscribed /\ c # server.who   \* mutant: but the writer
IsNotified(c)       == c \in subscribed

ServerNotify ==
    LET c == clients[server.next]
    IN  /\ server.at = "notify"
        /\ IF server.next > Len(clients)
           THEN server' = [server EXCEPT !.at = "reply"] /\ UNCHANGED <<to_client, closed, clients>>
           ELSE /\ server' = [server EXCEPT !.next = @ + 1]
                /\ IF IsNotified(c) THEN Send(c, With("notify", repository))
                   ELSE UNCHANGED <<to_client, closed>>
                /\ clients' = DuringNotify(clients, closed')
        /\ UNCHANGED <<repository, subscribed, pending, to_server, clientVars, calls, alive>>

ServerReply ==
    /\ server.at = "reply"
    /\ Send(server.who, server.reply)
    /\ server' = Polling
    /\ clients' = Connected(clients, closed')
    /\ subscribed' = subscribed \ closed'
    /\ UNCHANGED <<repository, pending, to_server, clientVars, calls, alive>>

ServerStep ==
    \/ ServerAccept \/ ServerNotify \/ ServerReply
    \/ \E c \in Client : ServerLoses(c) \/ ServerReceive(c)
-----------------------------------------------------------------------------
At(c, l) == c \in alive /\ pc[c] = l
Goto(c, l) == pc' = [pc EXCEPT ![c] = l]
Call(c, k) ==
    /\ At(c, "idle") /\ k \in Calls[c] /\ calls[c] < MaxCalls[c]
    /\ calls' = [calls EXCEPT ![c] = @ + 1]

(* Peer::request: a message is sent, and its answer awaited. *)
Request(c, m) ==
    /\ to_server' = [to_server EXCEPT ![c] = Append(@, m)]
    /\ Goto(c, m.type)

(* ServerConnection::open, at the first request of a process. *)
Connect(c) ==
    /\ At(c, "new")
    /\ pending' = Append(pending, c)
    /\ Goto(c, "connecting")
    /\ UNCHANGED <<serverVars, to_server, to_client, making, watchers, cached, calls, alive>>

(* Setting::Setting reads the value ... *)
Make(c, s) ==
    /\ Call(c, "make") /\ cached[c][s] = NoValue
    /\ \A t \in Setting : t < s => cached[c][t] # NoValue
    /\ Request(c, Bare("read"))
    /\ making' = [making EXCEPT ![c] = s]
    /\ UNCHANGED <<serverVars, pending, to_client, watchers, cached, alive>>

(* ... and then registers its watcher, for which the path is watched, if   *)
(* this process does not yet.                                              *)
Made(c, v) ==
    /\ cached' = [cached EXCEPT ![c][making[c]] = v]
    /\ IF watchers[c] = {} THEN Request(c, Bare("watch")) /\ UNCHANGED watchers
       ELSE /\ watchers' = [watchers EXCEPT ![c] = @ \cup {making[c]}]
            /\ Goto(c, "idle") /\ UNCHANGED to_server

(* Setting::~Setting, which unregisters the watcher. *)
AlwaysUnwatch(rest) == TRUE   \* mutant: though others of this process watch
Unwatches(rest) == rest = {}

Destroy(c, s) ==
    LET rest == watchers[c] \ {s}
    IN  /\ Call(c, "destroy") /\ s \in watchers[c]
        /\ watchers' = [watchers EXCEPT ![c] = rest]
        /\ IF Unwatches(rest) THEN Request(c, Bare("unwatch")) ELSE UNCHANGED <<to_server, pc>>
        /\ UNCHANGED <<serverVars, pending, to_client, making, cached, alive>>

(* settings::write, and Setting::write, which sets its own value first. *)
Write(c, v) ==
    /\ Call(c, "write")
    /\ Request(c, With("write", v))
    /\ UNCHANGED <<serverVars, pending, to_client, making, watchers, cached, alive>>

WriteOwn(c, s, v) ==
    /\ Call(c, "write_own") /\ s \in watchers[c]
    /\ cached' = [cached EXCEPT ![c][s] = v]
    /\ Request(c, With("write", v))
    /\ UNCHANGED <<serverVars, pending, to_client, making, watchers, alive>>

(* on_notify: every watcher of the path is invoked. *)
Invoke(c, v) ==
    cached' = [cached EXCEPT ![c] = [s \in Setting |-> IF s \in watchers[c] THEN v ELSE @[s]]]

(* A message is received, by the notifier of the connection or while an    *)
(* answer is awaited: the answer is the first message of the type that is  *)
(* expected, and what comes before it is handled.                          *)
Expected(c) == CASE pc[c] = "read" -> "value" [] pc[c] = "idle" -> "none" [] OTHER -> "ack"

Receive(c) ==
    LET m == Head(to_client[c])
    IN  /\ c \in alive /\ pc[c] \notin {"new", "connecting"} /\ to_client[c] # <<>>
        /\ to_client' = [to_client EXCEPT ![c] = Tail(@)]
        /\ CASE m.type # Expected(c) ->
                  /\ IF m.type = "notify" THEN Invoke(c, m.payload) ELSE UNCHANGED cached
                  /\ UNCHANGED <<pc, watchers, to_server>>
             [] m.type = Expected(c) /\ pc[c] = "read" -> Made(c, m.payload)
             [] m.type = Expected(c) /\ pc[c] = "watch" ->
                  /\ watchers' = [watchers EXCEPT ![c] = @ \cup {making[c]}]
                  /\ Goto(c, "idle") /\ UNCHANGED <<cached, to_server>>
             [] OTHER -> Goto(c, "idle") /\ UNCHANGED <<watchers, cached, to_server>>
        /\ UNCHANGED <<serverVars, pending, making, calls, alive>>

(* A process ends, or is canceled, and its handles are closed: neither end *)
(* of its connection receives any more.                                    *)
Die(c) ==
    /\ c \in alive \cap Mortal
    /\ alive' = alive \ {c}
    /\ to_server' = [to_server EXCEPT ![c] = <<>>]
    /\ to_client' = [to_client EXCEPT ![c] = <<>>]
    /\ Goto(c, "ended")
    /\ watchers' = [watchers EXCEPT ![c] = {}]
    /\ cached' = [cached EXCEPT ![c] = Unmade]
    /\ calls' = [calls EXCEPT ![c] = MaxCalls[c]]
    /\ UNCHANGED <<serverVars, pending, making>>

ClientStep(c) ==
    \/ Connect(c) \/ Receive(c)
    \/ \E s \in Setting : Make(c, s) \/ Destroy(c, s)
    \/ \E v \in Value : Write(c, v) \/ \E s \in Setting : WriteOwn(c, s, v)

Next == ServerStep \/ \E c \in Client : ClientStep(c) \/ Die(c)

Spec == Init /\ [][Next]_vars

(* The service and the clients are scheduled again and again. *)
Fairness == WF_vars(ServerStep) /\ \A c \in Client : WF_vars(Receive(c))

FairSpec == Spec /\ Fairness
=============================================================================
