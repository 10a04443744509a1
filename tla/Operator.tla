------------------------------ MODULE Operator ------------------------------
(***************************************************************************)
(* The controllers of databases, roles and grants together, as main starts *)
(* them in one process, on one server: a database, a role and a grant of   *)
(* the one on the other are there and Ready, and users delete the three    *)
(* resources in any order.  Each controller has a worker, a queue and a    *)
(* cache of its own; they meet on the server:                              *)
(*   - a database goes with all privileges in it,                          *)
(*   - it does not go while the grant's worker is connected to it,         *)
(*   - a role does not go while it holds a privilege,                      *)
(*   - without the database the grant's worker cannot connect.             *)
(***************************************************************************)
EXTENDS Requeue

CONSTANTS
  NoCR, Holds, MaxDisturbances, Namespace, InstState, Steady,
  database, user, grant,                \* the three resources' names
  databaseSpec, userSpec, grantSpec,    \* and their specs
  DatabaseNames, RoleNames, Schema, Table, DatabasePrivilege, TablePrivilege,
  SecretName, Password, Backslashed, NoPassword, NoRole

ASSUME OperatorAssumption ==
  /\ NoCR \notin {database, user, grant}
  /\ Holds \subseteq BOOLEAN /\ Holds # {}
  /\ MaxDisturbances \in Nat
  /\ "" \notin Namespace
  /\ {database, user, grant} \subseteq [namespace : Namespace, name : STRING]
  /\ "ok" \in InstState
  /\ InstState \subseteq {"ok", "noCR", "noSecret", "noKey", "down"}
  /\ Steady \subseteq Namespace
  /\ "" \notin DatabaseNames /\ database.name \in DatabaseNames
  /\ "" \notin RoleNames /\ user.name \in RoleNames
  /\ DatabasePrivilege \cap TablePrivilege = {}
  /\ "ALL" \notin DatabasePrivilege \cup TablePrivilege
  /\ Backslashed \subseteq Password /\ NoPassword \notin Password

VARIABLES
  quota, inst, dbs, roles, acl, tables,   \* shared
  sessions,   \* the databases that the grant's worker is connected to
  present,    \* the roles that exist
  pinned,     \* the roles that hold privileges
  tampered,   \* privileges have gone with a database
  secret,     \* the password Secrets, left as they are
  dStore, dWatch, dCache, dQueue, dPc, dKey, dObj, dVerified, dCause,
  uStore, uWatch, uCache, uQueue, uPc, uKey, uObj, uVerified, uCause, uPassword,
  gStore, gWatch, gCache, gQueue, gPc, gKey, gObj, gVerified, gCause

dVars == <<dStore, dWatch, dCache, dQueue, dPc, dKey, dObj, dVerified, dCause>>
uVars == <<uStore, uWatch, uCache, uQueue, uPc, uKey, uObj, uVerified, uCause, uPassword>>
gVars == <<gStore, gWatch, gCache, gQueue, gPc, gKey, gObj, gVerified, gCause>>
dSql == <<inst, dbs, sessions, dVerified, dCause>>
uSql == <<inst, roles, secret, pinned, uVerified, uCause, uPassword>>
gSql == <<inst, dbs, present, tables, acl, tampered, gVerified, gCause>>
vars == <<quota, inst, dbs, roles, acl, tables, sessions, present, pinned,
          tampered, secret, dVars, uVars, gVars>>

---------------------------------------------------------------------------
(* The controllers, each with what the others make of its environment.     *)

G == INSTANCE GrantController WITH
  store <- gStore, watch <- gWatch, cache <- gCache, queue <- gQueue, pc <- gPc,
  key <- gKey, obj <- gObj, verified <- gVerified, cause <- gCause,
  CR <- {grant}, Specs <- {grantSpec}, SpecOf <- [c \in {grant} |-> {grantSpec}],
  Database <- DatabaseNames, Role <- RoleNames, roles <- present

D == INSTANCE DatabaseController WITH
  store <- dStore, watch <- dWatch, cache <- dCache, queue <- dQueue, pc <- dPc,
  key <- dKey, obj <- dObj, verified <- dVerified, cause <- dCause,
  CR <- {database}, Specs <- {databaseSpec}, SpecOf <- [c \in {database} |-> {databaseSpec}],
  Name <- DatabaseNames, OutOfBand <- {}

U == INSTANCE UserController WITH
  store <- uStore, watch <- uWatch, cache <- uCache, queue <- uQueue, pc <- uPc,
  key <- uKey, obj <- uObj, verified <- uVerified, cause <- uCause,
  password <- uPassword,
  CR <- {user}, Specs <- {userSpec}, SpecOf <- [c \in {user} |-> {userSpec}],
  Name <- RoleNames, OutOfBand <- {}

theDatabase == D!Target(database, databaseSpec)
theRole     == U!Target(user, userSpec)
theGrant    == G!Opts(grant, grantSpec)

ASSUME SpecAssumption ==
  /\ databaseSpec \in D!DatabaseSpec
  /\ userSpec \in U!UserSpec /\ NoRole \notin U!StoredPassword
  /\ grantSpec \in G!GrantSpec

\* The grant is of the database on the role, and every cleanup is asked for.
ASSUME ScenarioAssumption ==
  /\ theDatabase = <<theGrant.ns, grantSpec.database>>
  /\ theRole = <<theGrant.ns, grantSpec.role>>
  /\ \A spec \in {databaseSpec, userSpec, grantSpec} : spec.cleanupPolicy = "Delete"

---------------------------------------------------------------------------
(* Steps of one controller, with the others as they are.                   *)

Sessions == {d \in Namespace \X DatabaseNames : G!ConnectedTo(d)}

Present(rs) == {r \in DOMAIN rs : rs[r] # NoRole}

Pinned(entries) == {<<e.ns, e.role>> : e \in entries}

\* The database goes with what is in it.
DatabaseStep(A) ==
  /\ UNCHANGED <<roles, present, secret, uVars, gVars>>
  /\ A
  /\ acl' = {e \in acl : <<e.ns, e.db>> \in dbs'}
  /\ tables' = {t \in tables : <<t[1], t[2]>> \in dbs'}
  /\ tampered' = (tampered \/ acl' # acl)
  /\ pinned' = Pinned(acl')

UserStep(A) ==
  /\ UNCHANGED <<dbs, acl, tables, sessions, tampered, dVars, gVars>>
  /\ A
  /\ present' = Present(roles')

GrantStep(A) ==
  /\ UNCHANGED <<roles, secret, dVars, uVars>>
  /\ A
  /\ sessions' = Sessions'
  /\ pinned' = Pinned(acl')

\* The process dies, and all three controllers start again.
Restart ==
  /\ UNCHANGED <<inst, dbs, roles, acl, tables, present, pinned, tampered, secret,
                 dVerified, uVerified, gVerified>>
  /\ D!Restart /\ dCause' = "none"
  /\ U!Restart /\ uCause' = "none" /\ uPassword' = NoPassword
  /\ G!Restart /\ gCause' = "none"
  /\ sessions' = {}

Delete ==
  \/ DatabaseStep(D!UserDelete(database) /\ UNCHANGED dSql)
  \/ UserStep(U!UserDelete(user) /\ UNCHANGED uSql)
  \/ GrantStep(G!UserDelete(grant) /\ UNCHANGED gSql)

\* A version of a resource that was created, guarded and reported Ready.
ReadyVersion(spec) ==
  [exists |-> TRUE, uid |-> 1, rv |-> 3, gen |-> 1, spec |-> spec,
   deleting |-> FALSE, finalizer |-> TRUE, held |-> FALSE,
   cond |-> [status |-> "True", gen |-> 1, message |-> "exists"]]

Init ==
  /\ quota = MaxDisturbances
  /\ inst = [ns \in Namespace |-> "ok"]
  /\ secret \in [Namespace \X SecretName -> Password]
  /\ dbs = {theDatabase}
  /\ roles = [t \in U!Targets |->
                IF t = theRole THEN U!Stored(U!SecretOf(user, userSpec)) ELSE NoRole]
  /\ acl = G!Lasting(theGrant)
  /\ tables = {} /\ sessions = {} /\ tampered = FALSE
  /\ present = Present(roles) /\ pinned = Pinned(acl)
  /\ dStore = [c \in {database} |-> ReadyVersion(databaseSpec)] /\ dCache = dStore
  /\ uStore = [c \in {user} |-> ReadyVersion(userSpec)] /\ uCache = uStore
  /\ gStore = [c \in {grant} |-> ReadyVersion(grantSpec)] /\ gCache = gStore
  /\ dWatch = [c \in {database} |-> {}]
  /\ uWatch = [c \in {user} |-> {}]
  /\ gWatch = [c \in {grant} |-> {}]
  /\ dQueue = {database} /\ uQueue = {user} /\ gQueue = {grant}
  /\ dPc = "idle" /\ uPc = "idle" /\ gPc = "idle"
  /\ dKey = NoCR /\ uKey = NoCR /\ gKey = NoCR
  /\ dObj = D!Never /\ uObj = U!Never /\ gObj = G!Never
  /\ dVerified = {<<database, 1, theDatabase>>}
  /\ uVerified = {<<user, 1, theRole>>}
  /\ gVerified = {<<grant, 1, grantSpec>>}
  /\ dCause = "none" /\ uCause = "none" /\ gCause = "none"
  /\ uPassword = NoPassword

DeliverD == DatabaseStep(D!Deliver(database) /\ UNCHANGED dSql)
DeliverU == UserStep(U!Deliver(user) /\ UNCHANGED uSql)
DeliverG == GrantStep(G!Deliver(grant) /\ UNCHANGED gSql)

TakeD == DatabaseStep(D!Take(database))
TakeU == UserStep(U!Take(user))
TakeG == GrantStep(G!Take(grant))

\* Every call works that the state of the server allows (the controllers
\* alone are checked for faults).
WorkD == DatabaseStep(D!Work) /\ UNCHANGED quota
WorkU == UserStep(U!Work) /\ UNCHANGED quota
WorkG == GrantStep(G!Work) /\ UNCHANGED quota

Next ==
  \/ Delete \/ Restart
  \/ DeliverD \/ DeliverU \/ DeliverG
  \/ TakeD \/ TakeU \/ TakeG
  \/ WorkD \/ WorkU \/ WorkG

Spec == Init /\ [][Next]_vars

\* As for the controllers alone.
Fairness ==
  /\ WF_vars(DeliverD) /\ WF_vars(DeliverU) /\ WF_vars(DeliverG)
  /\ SF_vars(TakeD) /\ SF_vars(TakeU) /\ SF_vars(TakeG)
  /\ WF_vars(WorkD) /\ WF_vars(WorkU) /\ WF_vars(WorkG)

FairSpec == Spec /\ Fairness

---------------------------------------------------------------------------
(* Properties.                                                             *)

AllDeleted ==
  dStore[database].deleting /\ uStore[user].deleting /\ gStore[grant].deleting

\* Each type is right, by what the controllers alone are checked for, also
\* when it is the others that hold connections, take privileges and drop
\* databases.
TypeOK == D!TypeOK /\ U!TypeOK /\ G!TypeOK

\* Nothing is left behind: when the three resources are released, so are the
\* database, the role and the privileges, USAGE included, which no statement
\* of the operator revokes.
NothingLeft ==
  /\ AllDeleted
  /\ ~dStore[database].exists /\ ~uStore[user].exists /\ ~gStore[grant].exists
  => dbs = {} /\ roles[theRole] = NoRole /\ acl = {}

\* In whatever order and moment the three are deleted, the server is cleared
\* for good: DROP DATABASE gets its turn between the connections of the
\* grant's worker, and DROP ROLE after the USAGE on the schema went with the
\* database.
ServerCleared ==
  <>AllDeleted => <>[](dbs = {} /\ roles[theRole] = NoRole)

\* The resource of a grant goes, unless its database is deleted as well,
\* whatever becomes of its role: that cannot go first, since it is pinned.
GrantReleased ==
  <>gStore[grant].deleting
    => <>(~gStore[grant].exists \/ dStore[database].deleting)

\* The deletion of a grant that comes too late for its database.
Stranded ==
  /\ gStore[grant].deleting /\ gStore[grant].finalizer
  /\ gPc \in {"idle", "connect", "connectRevoke"}
  /\ theDatabase \notin dbs /\ ~dStore[database].exists

\* It never ends: connectToDatabase fails for ever with an error that is not
\* NotFound, and neither the requeues nor a restart help (a new database of
\* that name would).
StrandedForGood == [][Stranded => Stranded']_vars
=============================================================================
