----------------------------- MODULE MCDatabase -----------------------------
(* Small instances of DatabaseController for TLC.                          *)
EXTENDS DatabaseController

a == [namespace |-> "n1", name |-> "x"]
b == [namespace |-> "n2", name |-> "y"]

\* With no intervals of its own.
DB(name, ref, policy) ==
  [name |-> name, postgresRef |-> ref, cleanupPolicy |-> policy,
   requeueInterval |-> Unset, retryInterval |-> Unset]

\* a may be renamed from x (by metadata.name), which is its alone, to y,
\* which b asks for as well, across namespaces; the interval of
\* SharedY is not sane.
OwnX   == DB("", "", "Delete")
SharedY == [DB("y", "", "Skip") EXCEPT !.requeueInterval = -1]
CrossY == [DB("", "n1", "Delete") EXCEPT !.retryInterval = 1]

TwoCRs == {a, b}
TwoSpecs == {OwnX, SharedY, CrossY}
TwoSpecOf == [cr \in TwoCRs |-> IF cr = a THEN {OwnX, SharedY} ELSE {CrossY}]
Shared == {<<"n1", "y">>}

\* One resource with a rename and a change of policy.
OneCR == {a}
SkipX == DB("x", "n1", "Skip")
NewY  == DB("y", "", "Delete")
OneSpecs == {OwnX, SkipX, NewY}
OneSpecOf == [cr \in OneCR |-> OneSpecs]
NoOthers == {}
=============================================================================
