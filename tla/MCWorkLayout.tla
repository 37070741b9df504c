----------------------------- MODULE MCWorkLayout -----------------------------
(* Two targets of a Work with two chapters each, for TLC.                     *)
EXTENDS WorkLayout

StartedAB == <<"a", "b">>
TwoEach == [k \in {"a", "b"} |-> 1 .. 2]
=============================================================================
