---------------------------- MODULE SettingsProps ----------------------------
(***************************************************************************)
(* What the settings service and its clients promise.                      *)
(***************************************************************************)
EXTENDS Settings

(* Every variable has its type; the loop over the clients is never past    *)
(* their end, whoever is lost in the middle of it.                         *)
TypeOK ==
    /\ repository \in Value
    /\ clients \in Seq(Client) /\ subscribed \subseteq Client /\ closed \subseteq Client
    /\ server \in Server
    /\ pending \in Seq(Client)
    /\ to_server \in [Client -> Seq(Message)] /\ to_client \in [Client -> Seq(Message)]
    /\ pc \in [Client -> Location]
    /\ making \in [Client -> Setting]
    /\ watchers \in [Client -> SUBSET Setting]
    /\ cached \in [Client -> [Setting -> Value \cup {NoValue}]]
    /\ calls \in [Client -> Nat] /\ \A c \in Client : calls[c] <= MaxCalls[c]
    /\ alive \subseteq Client
    /\ server.next <= Len(clients) + 1

(* The service notifies a process exactly when the process has watchers:   *)
(* the two lists, each of which is kept on its own side, agree whenever    *)
(* the process is not in a request.                                        *)
SubscribedIffWatching ==
    \A c \in alive : pc[c] = "idle" => (c \in subscribed <=> watchers[c] # {})

(* Nothing is on its way to c, which waits for nothing. *)
Settled(c) ==
    /\ c \in alive /\ pc[c] = "idle"
    /\ to_client[c] = <<>> /\ server.at # "notify"

(* A Setting that has once been registered when a write is taken is up to  *)
(* date from then on, whenever nothing is on its way: it never stays with  *)
(* the value of an older write, whoever wrote, this process included, and  *)
(* in whatever order the values were set, sent and notified.               *)
StaysCurrent ==
    \A c \in Client, s \in Setting :
        [](server.at = "notify" /\ s \in watchers[c] =>
              [](Settled(c) /\ s \in watchers[c] => cached[c][s] = repository))

(* A request returns, however many notifications come before its answer. *)
RequestReturns ==
    \A c \in Client : pc[c] \notin {"new", "idle", "ended"} ~> pc[c] \in {"idle", "ended"}

(* A client that ends is forgotten by the service, whatever the service    *)
(* was doing for it at the time.                                           *)
Known(c) == \E i \in DOMAIN clients : clients[i] = c
EndedIsForgotten ==
    \A c \in Client : (c \notin alive /\ Known(c)) ~> ~Known(c)
=============================================================================
