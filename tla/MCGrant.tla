------------------------------ MODULE MCGrant ------------------------------
(* Small instances of GrantController for TLC.                             *)
EXTENDS GrantController

a == [namespace |-> "n1", name |-> "g"]

Grant(privileges, role, policy) ==
  [privileges |-> privileges, database |-> "d", schema |-> "public", role |-> role,
   postgresRef |-> "", cleanupPolicy |-> policy, requeueInterval |-> Unset, retryInterval |-> Unset]

AllR    == Grant({"ALL"}, "r", "Delete")
SelectR == Grant({"SELECT"}, "r", "Delete")
ConnectR == [Grant({"CONNECT"}, "r", "Skip") EXCEPT !.retryInterval = MaxDuration]
AllQ    == [Grant({"ALL"}, "q", "Skip") EXCEPT !.requeueInterval = 1]

\* One resource, with a change of privileges or of role.
OneCR == {a}
OneSpecs == {AllR, ConnectR, AllQ}
OneSpecOf == [cr \in OneCR |-> OneSpecs]

\* The documented list of table privileges.
SelectSpecs == {AllR, SelectR}
SelectSpecOf == [cr \in OneCR |-> SelectSpecs]
============================================================================
