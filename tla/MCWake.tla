------------------------------- MODULE MCWake -------------------------------
(* Wake for the model checker: two sources, the second of higher priority.   *)
EXTENDS Wake

Sources == <<1, 2, 2>>
Priorities == <<100, 200>>

OneSource == <<1>>
OnePriority == <<100>>
=============================================================================
