----------------------------- MODULE MCCompositor -----------------------------
(***************************************************************************)
(* Instances of the compositor: two applications, and one that shows a     *)
(* window and exits.                                                       *)
(***************************************************************************)
EXTENDS Compositor

CONSTANTS a, b

AppCalls == [c \in Client |->
    IF c = a THEN {"show", "hide", "flip", "exit"} ELSE {"show", "mouse", "resolution"}]
AppMaxCalls == [c \in Client |-> IF c = a THEN 3 ELSE 1]

GoodbyeCalls    == [c \in Client |-> {"show", "exit"}]
GoodbyeMaxCalls == [c \in Client |-> 2]
===============================================================================
