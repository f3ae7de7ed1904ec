------------------------------ MODULE MCSettings ------------------------------
(***************************************************************************)
(* Instances of the settings service.                                      *)
(***************************************************************************)
EXTENDS SettingsProps

CONSTANTS a, b

SettingsCalls == [c \in Client |->
    CASE c = a -> {"make", "destroy", "write"}
      [] OTHER -> {"make", "write_own", "write"}]
SettingsMaxCalls == [c \in Client |-> IF c = a THEN 3 ELSE 2]
===============================================================================
