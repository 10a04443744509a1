------------------------------- MODULE MCUser -------------------------------
(* Small instances of UserController for TLC.                              *)
EXTENDS UserController

a == [namespace |-> "n1", name |-> "u"]
b == [namespace |-> "n2", name |-> "w"]

Role(name, ref, policy) ==
  [name |-> name, postgresRef |-> ref, passwordSecretKeyRef |-> "s",
   cleanupPolicy |-> policy, requeueInterval |-> Unset, retryInterval |-> Unset]

\* a may be renamed from u, which is its alone, to w, which b asks for as
\* well, across namespaces and from a Secret of its own namespace.
OwnU    == Role("", "", "Delete")
SkipW   == [Role("w", "n1", "Skip") EXCEPT !.retryInterval = -2]
CrossW  == Role("", "n1", "Delete")

TwoCRs == {a, b}
TwoSpecs == {OwnU, SkipW, CrossW}
TwoSpecOf == [cr \in TwoCRs |-> IF cr = a THEN {OwnU, SkipW} ELSE {CrossW}]

\* One resource, with a rename.
OneCR == {a}
OneSpecs == {OwnU, Role("w", "", "Delete")}
OneSpecOf == [cr \in OneCR |-> OneSpecs]

OthersW == {<<"n1", "w">>}
=============================================================================
