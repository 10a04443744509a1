----------------------------- MODULE MCInstance -----------------------------
(* Small instances of InstanceController for TLC.                          *)
EXTENDS InstanceController

a == [namespace |-> "n1", name |-> "pg"]

OneCR == {a}
Any == [cr \in CR |-> Specs]
=============================================================================
