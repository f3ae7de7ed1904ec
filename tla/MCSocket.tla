------------------------------ MODULE MCSocket ------------------------------
(***************************************************************************)
(* Instances of the socket: two clients and a server.                      *)
(***************************************************************************)
EXTENDS SocketProps

CONSTANTS Client, Other, Service

(* One client uses its connection and may close it, the other only makes   *)
(* one; the server never closes what it accepts.                           *)
TwoClients == [p \in Proc |-> CASE p = Client -> {"connect", "read", "write", "close"}
                                [] p = Other -> {"connect"}
                                [] OTHER -> {"accept", "read", "write"}]
=============================================================================
