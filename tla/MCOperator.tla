----------------------------- MODULE MCOperator -----------------------------
(* A small instance of Operator for TLC.                                   *)
EXTENDS Operator

d == [namespace |-> "n1", name |-> "d"]
u == [namespace |-> "n1", name |-> "r"]
g == [namespace |-> "n1", name |-> "g"]

DatabaseD ==
  [name |-> "", postgresRef |-> "", cleanupPolicy |-> "Delete",
   requeueInterval |-> Unset, retryInterval |-> Unset]
RoleR ==
  [name |-> "", postgresRef |-> "", passwordSecretKeyRef |-> "s",
   cleanupPolicy |-> "Delete", requeueInterval |-> Unset, retryInterval |-> Unset]
AllOnD ==
  [privileges |-> {"ALL"}, database |-> "d", schema |-> "public", role |-> "r",
   postgresRef |-> "", cleanupPolicy |-> "Delete",
   requeueInterval |-> Unset, retryInterval |-> Unset]
=============================================================================
