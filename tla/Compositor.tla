------------------------------ MODULE Compositor ------------------------------
(***************************************************************************)
(* The compositor (apps/compositor) and the applications that show their   *)
(* windows (libraries/libwidget/Application.cpp).  The compositor is one   *)
(* event loop.  A round of it takes what is ready first, fires the repaint *)
(* timer if that is due, and handles what it has taken.  That is one step, *)
(* and the sweep of the disconnected clients, which ends most rounds, is a *)
(* step for each window and each client that it destroys.  What is drawn,  *)
(* and where, is left out.                                                 *)
(***************************************************************************)
EXTENDS Integers, Sequences, FiniteSets, SequencesExt

CONSTANTS
    Client,     \* the applications
    Id,         \* the ids that an application gives to its windows
    NoWindow,   \* no window
    Calls,      \* bound: the kinds of calls each application makes
    MaxCalls,   \* bound: how many calls each application makes
    Unread,     \* bound: input comes while applications have fewer messages
    Mortal      \* the applications that may end at any time

ASSUME CompositorAssumption ==
    /\ Calls \in [Client -> SUBSET {"show", "hide", "flip", "mouse", "resolution", "exit"}]
    /\ MaxCalls \in [Client -> Nat] /\ Unread \in Nat
    /\ Mortal \subseteq Client
    /\ Id # {} /\ NoWindow \notin [client : Client, id : Id]

VARIABLES
    desk,       \* the windows, the focus, and what is known of the clients
    clients,    \* _clients of the compositor, in order
    sweep,      \* the client of _clients that is being destroyed, or 0
    compositor, \* "up", "aborted" by an assertion, or "corrupt"
    pending,    \* the connections to accept
    to_server,  \* what each application has sent
    pc,         \* where each application is
    shown,      \* the windows that it shows
    calls,      \* bound: the calls it has made
    alive       \* the applications that have not ended

appVars == <<shown, calls, alive>>
vars == <<desk, clients, sweep, compositor, pending, to_server, pc, appVars>>

Window == [client : Client, id : Id]

(* windows: _managed_windows.  gone: the clients with _disconnected.       *)
(* out: what was sent to each client.                                      *)
Desk == [windows : Seq(Window), focus : Window \cup {NoWindow}, gone : SUBSET Client,
         out : [Client -> Seq({"event", "ack", "greetings", "position"})]]
Message == [type : {"create", "destroy", "flip", "mouse", "resolution", "goodbye"}, id : Id]

AnyId == CHOOSE i \in Id : TRUE

Init ==
    /\ desk = [windows |-> <<>>, focus |-> NoWindow, gone |-> {}, out |-> [c \in Client |-> <<>>]]
    /\ clients = <<>> /\ sweep = 0 /\ compositor = "up" /\ pending = <<>>
    /\ to_server = [c \in Client |-> <<>>]
    /\ pc = [c \in Client |-> "new"]
    /\ shown = [c \in Client |-> {}]
    /\ calls = [c \in Client |-> 0]
    /\ alive = Client
-----------------------------------------------------------------------------
(* Client::send_message. *)
Sent(d, c, m) ==
    IF c \in d.gone THEN d
    ELSE IF c \in alive THEN [d EXCEPT !.out[c] = Append(@, m)]
    ELSE [d EXCEPT !.gone = @ \cup {c}]

SentTo(d, w, m) == IF w = NoWindow THEN d ELSE Sent(d, w.client, m)
Topmost(d) == IF d.windows = <<>> THEN NoWindow ELSE Head(d.windows)

(* manager_set_focus_window: the window comes to the front. *)
Focused(d, w) ==
    LET lost   == [SentTo(d, d.focus, "event") EXCEPT !.focus = w]
        raised == [lost EXCEPT !.windows = <<w>> \o RemoveFirst(@, w)]
    IN  IF w = NoWindow THEN lost ELSE Sent(raised, w.client, "event")

(* Window::~Window, manager_unregister_window. *)
Unregistered(d, w) ==
    LET rest == [d EXCEPT !.windows = RemoveFirst(@, w)] IN Focused(rest, Topmost(rest))

(* client_destroy_disconnected: remove_all_match goes on from where it is  *)
(* to the next client that is disconnected, and removes it.                *)
NextGone(d, cs, from) ==
    LET found == {i \in from .. Len(cs) : cs[i] \in d.gone}
    IN  IF found = {} THEN 0 ELSE CHOOSE i \in found : \A j \in found : i <= j

Swept(d, cs) ==
    /\ desk' = d /\ clients' = cs
    /\ sweep' = NextGone(d, cs, 1)

(* client_close_all_windows: list_iterate goes on from an item of the list *)
(* that it has saved.  That item was freed if the window before it was the *)
(* first: the second then gets the focus, and an item of its own.  What is *)
(* read of a freed item is what it was, or anything.                       *)
CloseWindow ==
    /\ compositor = "up" /\ sweep # 0
    /\ \E i \in DOMAIN desk.windows :
           /\ desk.windows[i].client = clients[sweep]
           /\ \A j \in 1 .. i - 1 : desk.windows[j].client # clients[sweep]
           /\ desk' = Unregistered(desk, desk.windows[i])
           /\ compositor' \in IF i = 1 /\ Len(desk.windows) > 1 THEN {"up", "corrupt"} ELSE {"up"}
    /\ UNCHANGED <<clients, sweep, pending, to_server, pc, appVars>>

(* Client::~Client, and the next client that is disconnected. *)
WindowsOf(c) == {i \in DOMAIN desk.windows : desk.windows[i].client = c}
OneIsLeft(c) == Cardinality(WindowsOf(c)) <= 1   \* mutant: the last window is not closed
AllClosed(c) == WindowsOf(c) = {}

DestroyClient ==
    /\ compositor = "up" /\ sweep # 0 /\ AllClosed(clients[sweep])
    /\ clients' = RemoveAt(clients, sweep)
    /\ sweep' = NextGone(desk, clients', sweep)
    /\ UNCHANGED <<desk, compositor, pending, to_server, pc, appVars>>
-----------------------------------------------------------------------------
(* EventLoop::pump: the clients that come first and have something to      *)
(* read.  Keyboard, mouse and socket come before all clients.              *)
Readable(c) == to_server[c] # <<>> \/ c \notin alive
Polls == compositor = "up" /\ sweep = 0
Selects(c) ==
    /\ Polls /\ pending = <<>>
    /\ \E i \in DOMAIN clients : /\ clients[i] = c /\ Readable(c)
                                 /\ \A j \in 1 .. i - 1 : ~Readable(clients[j])

InputComes == Polls /\ \A c \in alive : Len(desk.out[c]) < Unread

(* The repaint timer, when nothing else is ready or before it is handled. *)
RepaintOnly ==   \* mutant: the disconnected are left to the other rounds
    /\ Polls /\ desk.gone \cap ToSet(clients) # {}
    /\ UNCHANGED vars

TimerRound ==
    /\ Polls /\ desk.gone \cap ToSet(clients) # {}
    /\ Swept(desk, clients)
    /\ UNCHANGED <<compositor, pending, to_server, pc, appVars>>

KeyboardRound ==
    /\ InputComes
    /\ Swept(SentTo(desk, desk.focus, "event"), clients)
    /\ UNCHANGED <<compositor, pending, to_server, pc, appVars>>

(* cursor_handle_packet: a click gives the window under it the focus. *)
MouseRound(under) ==
    LET clicked == IF under = desk.focus THEN desk ELSE Focused(desk, under)
    IN  /\ InputComes
        /\ under \in ToSet(desk.windows) \cup {NoWindow}
        /\ Swept(SentTo(clicked, clicked.focus, "event"), clients)
        /\ UNCHANGED <<compositor, pending, to_server, pc, appVars>>

(* Client::connect, and the greetings. *)
SocketRound ==
    LET c == Last(pending)
    IN  /\ Polls /\ pending # <<>>
        /\ pending' = Front(pending)
        /\ Swept(Sent(desk, c, "greetings"), Append(clients, c))
        /\ pc' = [pc EXCEPT ![c] = IF c \in alive THEN "greetings" ELSE @]
        /\ UNCHANGED <<compositor, to_server, appVars>>

(* Client::handle_request of a client that has sent something ... *)
Managed(w) == w \in ToSet(desk.windows)

(* client_broadcast: each client once. *)
Broadcast(d, cs, m) ==
    [d EXCEPT !.out = [c \in Client |-> IF c \in (cs \cap alive) \ d.gone THEN Append(@[c], m)
                                       ELSE @[c]],
              !.gone = @ \cup (cs \ alive)]

Handled(c, m) ==
    LET w == [client |-> c, id |-> m.id]
    IN  CASE m.type = "create" -> IF Managed(w) THEN desk ELSE Focused(desk, w)
          [] m.type = "destroy" -> IF Managed(w) THEN Unregistered(desk, w) ELSE desk
          [] m.type = "flip" -> IF Managed(w) THEN Sent(desk, c, "ack") ELSE desk
          [] m.type = "mouse" -> Sent(desk, c, "position")
          [] m.type = "resolution" -> Broadcast(desk, ToSet(clients), "event")
          [] m.type = "goodbye" -> [desk EXCEPT !.gone = @ \cup {c}]   \* no ack: it is gone

RequestRound(c) ==
    /\ Selects(c) /\ c \notin desk.gone /\ c \in alive
    /\ desk' = Handled(c, Head(to_server[c]))
    /\ to_server' = [to_server EXCEPT ![c] = Tail(@)]
    /\ UNCHANGED <<clients, sweep, compositor, pending, pc, appVars>>

(* ... of one that has ended, after which the disconnected are destroyed   *)
(* at once ...                                                             *)
LossRound(c) ==
    /\ Selects(c) /\ c \notin desk.gone /\ c \notin alive
    /\ Swept([desk EXCEPT !.gone = @ \cup {c}], clients)
    /\ UNCHANGED <<compositor, pending, to_server, pc, appVars>>

(* ... and of one that was disconnected and is not destroyed yet. *)
AssertRound(c) ==
    /\ Selects(c) /\ c \in desk.gone
    /\ compositor' = "aborted"
    /\ UNCHANGED <<desk, clients, sweep, pending, to_server, pc, appVars>>

Round ==
    \/ CloseWindow \/ DestroyClient
    \/ TimerRound \/ KeyboardRound \/ SocketRound
    \/ \E under \in Window \cup {NoWindow} : MouseRound(under)
    \/ \E c \in Client : RequestRound(c) \/ LossRound(c) \/ AssertRound(c)
-----------------------------------------------------------------------------
At(c, l) == compositor = "up" /\ c \in alive /\ pc[c] = l
Goto(c, l) == pc' = [pc EXCEPT ![c] = l]
Call(c, k) ==
    /\ At(c, "idle") /\ k \in Calls[c] /\ calls[c] < MaxCalls[c]
    /\ calls' = [calls EXCEPT ![c] = @ + 1]
    /\ UNCHANGED <<desk, clients, sweep, compositor, pending, alive>>

Sends(c, t, i) ==
    to_server' = [to_server EXCEPT ![c] = Append(@, [type |-> t, id |-> i])]

(* Application::initialize. *)
Connect(c) ==
    /\ At(c, "new")
    /\ pending' = Append(pending, c)
    /\ Goto(c, "connecting")
    /\ UNCHANGED <<desk, clients, sweep, compositor, to_server, appVars>>

Show(c, i) ==
    /\ Call(c, "show") /\ i \notin shown[c]
    /\ Sends(c, "create", i)
    /\ shown' = [shown EXCEPT ![c] = @ \cup {i}]
    /\ UNCHANGED pc

(* flip_window, and mouse_position: they wait for an answer. *)
Flip(c, i) ==
    /\ Call(c, "flip") /\ i \in shown[c]
    /\ Sends(c, "flip", i) /\ Goto(c, "ack")
    /\ UNCHANGED shown

MousePosition(c) ==
    /\ Call(c, "mouse")
    /\ Sends(c, "mouse", AnyId) /\ Goto(c, "position")
    /\ UNCHANGED shown

(* displayctl, which does not wait for the greetings before it sends this; *)
(* the compositor cannot tell.                                             *)
SetResolution(c) ==
    /\ Call(c, "resolution")
    /\ Sends(c, "resolution", AnyId)
    /\ UNCHANGED <<pc, shown>>

(* Application::exit, of its own or with its last window: all windows are  *)
(* hidden, one by one, and it waits for the answer to its goodbye.         *)
Exit(c) ==
    /\ Call(c, "exit")
    /\ Goto(c, "exiting")
    /\ UNCHANGED <<to_server, shown>>

HideOne(c, i) ==
    /\ i \in shown[c]
    /\ Sends(c, "destroy", i)
    /\ shown' = [shown EXCEPT ![c] = @ \ {i}]

Hide(c, i) ==
    /\ Call(c, "hide") /\ HideOne(c, i)
    /\ IF shown[c] = {i} THEN Goto(c, "exiting") ELSE UNCHANGED pc

Leave(c) ==
    /\ At(c, "exiting")
    /\ \/ (\E i \in Id : HideOne(c, i)) /\ UNCHANGED pc
       \/ shown[c] = {} /\ Sends(c, "goodbye", AnyId) /\ Goto(c, "goodbye") /\ UNCHANGED shown
    /\ UNCHANGED <<desk, clients, sweep, compositor, pending, calls, alive>>

(* wait_for_message, and the notifier of the connection: events are        *)
(* dispatched now, or when the message that is waited for has come.        *)
Receive(c) ==
    /\ compositor = "up" /\ c \in alive /\ desk.out[c] # <<>>
    /\ pc[c] \in {"idle", "greetings", "ack", "position", "goodbye"}
    /\ c \in ToSet(clients)
    /\ desk' = [desk EXCEPT !.out[c] = Tail(@)]
    /\ IF Head(desk.out[c]) = pc[c] THEN Goto(c, "idle") ELSE UNCHANGED pc
    /\ UNCHANGED <<clients, sweep, compositor, pending, to_server, appVars>>

Ended(c) ==
    /\ alive' = alive \ {c}
    /\ to_server' = [to_server EXCEPT ![c] = <<>>]
    /\ desk' = [desk EXCEPT !.out[c] = <<>>]
    /\ UNCHANGED <<clients, sweep, compositor, pending, pc, shown, calls>>

(* The compositor has closed the connection: goodbye returns. *)
Left(c) ==
    /\ At(c, "goodbye") /\ c \notin ToSet(clients)
    /\ Ended(c)

(* The application crashes, or is canceled. *)
Die(c) == compositor = "up" /\ c \in alive \cap Mortal /\ Ended(c)

Application(c) ==
    \/ Connect(c) \/ MousePosition(c) \/ SetResolution(c) \/ Exit(c)
    \/ \E i \in Id : Show(c, i) \/ Hide(c, i) \/ Flip(c, i)
    \/ Leave(c) \/ Receive(c) \/ Left(c) \/ Die(c)

Next == Round \/ \E c \in Client : Application(c)

Spec == Init /\ [][Next]_vars

(* The timer fires, and the input devices leave time for the connections;  *)
(* the applications take what they are sent.                               *)
Serve == CloseWindow \/ DestroyClient \/ TimerRound \/ SocketRound
           \/ \E c \in Client : RequestRound(c) \/ LossRound(c) \/ AssertRound(c)

Fairness == WF_vars(Serve) /\ \A c \in Client : WF_vars(Receive(c) \/ Left(c))

FairSpec == Spec /\ Fairness
-----------------------------------------------------------------------------
(* A window never outlives its client: each window has a pointer to it, as *)
(* the focus has to a window.  Whatever ends, says goodbye or loses the    *)
(* focus in the middle of a sweep, a window that is managed belongs to a   *)
(* client that is not destroyed, and the one with the focus is managed.    *)
(* Of an application that lives, the windows are those that it shows, once *)
(* all it has sent is handled.                                             *)
WindowsHaveClients ==
    compositor = "up" =>
        /\ \A w \in ToSet(desk.windows) : w.client \in ToSet(clients)
        /\ \A i, j \in DOMAIN desk.windows : desk.windows[i] = desk.windows[j] => i = j
        /\ desk.focus # NoWindow => Managed(desk.focus)
        /\ \A c \in alive : to_server[c] = <<>> =>
               shown[c] = {i \in Id : Managed([client |-> c, id |-> i])}

(* An application that waits for the compositor (for its greetings, the    *)
(* answer to a flip or to a question, the end of its connection after its  *)
(* goodbye) goes on, as long as the compositor runs.                       *)
AnswerComes ==
    \A c \in Client :
        pc[c] \in {"connecting", "greetings", "ack", "position", "goodbye"}
            ~> (pc[c] = "idle" \/ c \notin alive \/ compositor # "up")

(* No request is taken from a client that the compositor has found to be   *)
(* disconnected: Client::handle_request asserts it.                        *)
HandledAreConnected == compositor # "aborted"
=============================================================================
