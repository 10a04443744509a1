--------------------------- MODULE OperatorProofs ---------------------------
(***************************************************************************)
(* What holds of the three controllers together, for every namespace, name *)
(* and spec that make the grant one of the database on the role.           *)
(*                                                                         *)
(* Nothing about a controller is proved again here.  The controllers'      *)
(* modules say of each, in terms of its own variables, what its steps keep *)
(* and leave alone (CalmStep, Recovers) and what steps of others it        *)
(* survives (OthersGo, DatabasesGo, RolesGo); here the steps of one are    *)
(* shown to be steps of others to the rest.                                *)
(***************************************************************************)
EXTENDS Operator, TLAPS

\* The controllers as in Operator, with the theorems about them.
DP == INSTANCE DatabaseControllerProofs WITH
  store <- dStore, watch <- dWatch, cache <- dCache, queue <- dQueue, pc <- dPc,
  key <- dKey, obj <- dObj, verified <- dVerified, cause <- dCause,
  CR <- {database}, Specs <- {databaseSpec}, SpecOf <- [c \in {database} |-> {databaseSpec}],
  Name <- DatabaseNames, OutOfBand <- {}

UP == INSTANCE UserControllerProofs WITH
  store <- uStore, watch <- uWatch, cache <- uCache, queue <- uQueue, pc <- uPc,
  key <- uKey, obj <- uObj, verified <- uVerified, cause <- uCause,
  password <- uPassword,
  CR <- {user}, Specs <- {userSpec}, SpecOf <- [c \in {user} |-> {userSpec}],
  Name <- RoleNames, OutOfBand <- {}

GP == INSTANCE GrantControllerProofs WITH
  store <- gStore, watch <- gWatch, cache <- gCache, queue <- gQueue, pc <- gPc,
  key <- gKey, obj <- gObj, verified <- gVerified, cause <- gCause,
  CR <- {grant}, Specs <- {grantSpec}, SpecOf <- [c \in {grant} |-> {grantSpec}],
  Database <- DatabaseNames, Role <- RoleNames, roles <- present

---------------------------------------------------------------------------
(* What Operator and the theorems speak of is the same: every definition   *)
(* that the steps and types rest on is, one action after the other.        *)

LEMMA SameDatabase ==
  /\ (D!TypeOK <=> DP!TypeOK)
  /\ (D!UserDelete(database) <=> DP!UserDelete(database))
  /\ (D!Deliver(database) <=> DP!Deliver(database))
  /\ (D!Take(database) <=> DP!Take(database))
  /\ (D!Work <=> DP!Work)
  /\ (D!Restart <=> DP!Restart)
<1> USE DEF D!Wrap, DP!Wrap, D!addJitter, DP!addJitter, D!requeueResult,
       DP!requeueResult, D!retryResult, DP!retryResult, D!Message, DP!Message,
       D!Condition, DP!Condition, D!Version, DP!Version, D!NoCondition,
       DP!NoCondition, D!Never, DP!Never, D!NextRv, DP!NextRv, D!Put, DP!Put,
       D!Disturb, DP!Disturb, D!UserDelete, DP!UserDelete, D!Deliver, DP!Deliver,
       D!Get, DP!Get, D!ReconcileNothing, DP!ReconcileNothing, D!ReconcileObject,
       DP!ReconcileObject, D!GoTo, DP!GoTo, D!Return, DP!Return, D!Current,
       DP!Current, D!WithFinalizer, DP!WithFinalizer, D!UpdateAddFinalizer,
       DP!UpdateAddFinalizer, D!WithoutFinalizer, DP!WithoutFinalizer,
       D!UpdateRemoveFinalizer, DP!UpdateRemoveFinalizer, D!UpdateConflict,
       DP!UpdateConflict, D!UpdateError, DP!UpdateError, D!UpdateReplyLost,
       DP!UpdateReplyLost, D!patchCondition, DP!patchCondition, D!Report, DP!Report,
       D!Failed, DP!Failed, D!Succeeded, DP!Succeeded, D!Restart, DP!Restart,
       D!KubeTypeOK, DP!KubeTypeOK, D!PgNamespace, DP!PgNamespace,
       D!connectToPostgres, DP!connectToPostgres, D!InstTypeOK, DP!InstTypeOK,
       D!Targets, DP!Targets, D!dbVars, DP!dbVars, D!DatabaseName, DP!DatabaseName,
       D!Target, DP!Target, D!dbName, DP!dbName, D!Connection, DP!Connection,
       D!ReconcileGone, DP!ReconcileGone, D!ReconcileLive, DP!ReconcileLive,
       D!Connect, DP!Connect, D!Created, DP!Created, D!CreateFault, DP!CreateFault,
       D!CreateExists, DP!CreateExists, D!CreateExec, DP!CreateExec, D!AddFinalizer,
       DP!AddFinalizer, D!MarkReady, DP!MarkReady, D!handleDeletion,
       DP!handleDeletion, D!DeletionError, DP!DeletionError, D!CleanedUp,
       DP!CleanedUp, D!ConnectDrop, DP!ConnectDrop, D!DropExists, DP!DropExists,
       D!Droppable, DP!Droppable, D!DropExec, DP!DropExec, D!RemoveFinalizer,
       DP!RemoveFinalizer, D!Take, DP!Take, D!TypeOK, DP!TypeOK
<1>1. D!Connect <=> DP!Connect
  OBVIOUS
<1>2. D!CreateExists <=> DP!CreateExists
  OBVIOUS
<1>3. D!CreateExec <=> DP!CreateExec
  OBVIOUS
<1>4. D!AddFinalizer <=> DP!AddFinalizer
  OBVIOUS
<1>5. D!MarkReady <=> DP!MarkReady
  OBVIOUS
<1>6. D!ConnectDrop <=> DP!ConnectDrop
  OBVIOUS
<1>7. D!DropExists <=> DP!DropExists
  OBVIOUS
<1>8. D!DropExec <=> DP!DropExec
  OBVIOUS
<1>9. D!RemoveFinalizer <=> DP!RemoveFinalizer
  OBVIOUS
<1>10. D!TypeOK <=> DP!TypeOK
  OBVIOUS
<1>11. D!UserDelete(database) <=> DP!UserDelete(database)
  OBVIOUS
<1>12. D!Deliver(database) <=> DP!Deliver(database)
  OBVIOUS
<1>13. D!Take(database) <=> DP!Take(database)
  OBVIOUS
<1>14. D!Restart <=> DP!Restart
  OBVIOUS
<1> HIDE DEF D!Connect, DP!Connect, D!CreateExists, DP!CreateExists, D!CreateExec,
       DP!CreateExec, D!AddFinalizer, DP!AddFinalizer, D!MarkReady, DP!MarkReady,
       D!ConnectDrop, DP!ConnectDrop, D!DropExists, DP!DropExists, D!DropExec,
       DP!DropExec, D!RemoveFinalizer, DP!RemoveFinalizer, D!TypeOK, DP!TypeOK,
       D!UserDelete, DP!UserDelete, D!Deliver, DP!Deliver, D!Take, DP!Take, D!Restart,
       DP!Restart
<1>15. D!Work <=> DP!Work
  BY <1>1, <1>2, <1>3, <1>4, <1>5, <1>6, <1>7, <1>8, <1>9 DEF D!Work, DP!Work
<1> QED
  BY <1>10, <1>11, <1>12, <1>13, <1>14, <1>15

LEMMA SameUser ==
  /\ (U!TypeOK <=> UP!TypeOK)
  /\ (U!UserDelete(user) <=> UP!UserDelete(user))
  /\ (U!Deliver(user) <=> UP!Deliver(user))
  /\ (U!Take(user) <=> UP!Take(user))
  /\ (U!Work <=> UP!Work)
  /\ (U!Restart <=> UP!Restart)
<1> USE DEF U!Wrap, UP!Wrap, U!addJitter, UP!addJitter, U!requeueResult,
       UP!requeueResult, U!retryResult, UP!retryResult, U!Message, UP!Message,
       U!Condition, UP!Condition, U!Version, UP!Version, U!NoCondition,
       UP!NoCondition, U!Never, UP!Never, U!NextRv, UP!NextRv, U!Put, UP!Put,
       U!Disturb, UP!Disturb, U!UserDelete, UP!UserDelete, U!Deliver, UP!Deliver,
       U!Get, UP!Get, U!ReconcileNothing, UP!ReconcileNothing, U!ReconcileObject,
       UP!ReconcileObject, U!GoTo, UP!GoTo, U!Return, UP!Return, U!Current,
       UP!Current, U!WithFinalizer, UP!WithFinalizer, U!UpdateAddFinalizer,
       UP!UpdateAddFinalizer, U!WithoutFinalizer, UP!WithoutFinalizer,
       U!UpdateRemoveFinalizer, UP!UpdateRemoveFinalizer, U!UpdateConflict,
       UP!UpdateConflict, U!UpdateError, UP!UpdateError, U!UpdateReplyLost,
       UP!UpdateReplyLost, U!patchCondition, UP!patchCondition, U!Report, UP!Report,
       U!Failed, UP!Failed, U!Succeeded, UP!Succeeded, U!Restart, UP!Restart,
       U!KubeTypeOK, UP!KubeTypeOK, U!PgNamespace, UP!PgNamespace,
       U!connectToPostgres, UP!connectToPostgres, U!InstTypeOK, UP!InstTypeOK,
       U!Targets, UP!Targets, U!userVars, UP!userVars, U!RoleName, UP!RoleName,
       U!Target, UP!Target, U!roleName, UP!roleName, U!Connection, UP!Connection,
       U!SecretOf, UP!SecretOf, U!Stored, UP!Stored, U!StoredPassword,
       UP!StoredPassword, U!ReconcileGone, UP!ReconcileGone, U!ReconcileLive,
       UP!ReconcileLive, U!Connect, UP!Connect, U!HoldPassword, UP!HoldPassword,
       U!getSecretValue, UP!getSecretValue, U!RoleExists, UP!RoleExists, U!Applied,
       UP!Applied, U!Assigned, UP!Assigned, U!AlterRole, UP!AlterRole, U!CreateRole,
       UP!CreateRole, U!AddFinalizer, UP!AddFinalizer, U!MarkReady, UP!MarkReady,
       U!handleDeletion, UP!handleDeletion, U!DeletionError, UP!DeletionError,
       U!CleanedUp, UP!CleanedUp, U!ConnectDrop, UP!ConnectDrop, U!DropExists,
       UP!DropExists, U!DropRole, UP!DropRole, U!RemoveFinalizer, UP!RemoveFinalizer,
       U!Take, UP!Take, U!TypeOK, UP!TypeOK
<1>1. U!Connect <=> UP!Connect
  OBVIOUS
<1>2. U!getSecretValue <=> UP!getSecretValue
  OBVIOUS
<1>3. U!RoleExists <=> UP!RoleExists
  OBVIOUS
<1>4. U!AlterRole <=> UP!AlterRole
  OBVIOUS
<1>5. U!CreateRole <=> UP!CreateRole
  OBVIOUS
<1>6. U!AddFinalizer <=> UP!AddFinalizer
  OBVIOUS
<1>7. U!MarkReady <=> UP!MarkReady
  OBVIOUS
<1>8. U!ConnectDrop <=> UP!ConnectDrop
  OBVIOUS
<1>9. U!DropExists <=> UP!DropExists
  OBVIOUS
<1>10. U!DropRole <=> UP!DropRole
  OBVIOUS
<1>11. U!RemoveFinalizer <=> UP!RemoveFinalizer
  OBVIOUS
<1>12. U!TypeOK <=> UP!TypeOK
  OBVIOUS
<1>13. U!UserDelete(user) <=> UP!UserDelete(user)
  OBVIOUS
<1>14. U!Deliver(user) <=> UP!Deliver(user)
  OBVIOUS
<1>15. U!Take(user) <=> UP!Take(user)
  OBVIOUS
<1>16. U!Restart <=> UP!Restart
  OBVIOUS
<1> HIDE DEF U!Connect, UP!Connect, U!getSecretValue, UP!getSecretValue, U!RoleExists,
       UP!RoleExists, U!AlterRole, UP!AlterRole, U!CreateRole, UP!CreateRole,
       U!AddFinalizer, UP!AddFinalizer, U!MarkReady, UP!MarkReady, U!ConnectDrop,
       UP!ConnectDrop, U!DropExists, UP!DropExists, U!DropRole, UP!DropRole,
       U!RemoveFinalizer, UP!RemoveFinalizer, U!TypeOK, UP!TypeOK, U!UserDelete,
       UP!UserDelete, U!Deliver, UP!Deliver, U!Take, UP!Take, U!Restart, UP!Restart
<1>17. U!Work <=> UP!Work
  BY <1>1, <1>2, <1>3, <1>4, <1>5, <1>6, <1>7, <1>8, <1>9, <1>10, <1>11 DEF U!Work,
       UP!Work
<1> QED
  BY <1>12, <1>13, <1>14, <1>15, <1>16, <1>17

LEMMA SameGrant ==
  /\ (G!TypeOK <=> GP!TypeOK)
  /\ (G!UserDelete(grant) <=> GP!UserDelete(grant))
  /\ (G!Deliver(grant) <=> GP!Deliver(grant))
  /\ (G!Take(grant) <=> GP!Take(grant))
  /\ (G!Work <=> GP!Work)
  /\ (G!Restart <=> GP!Restart)
  /\ G!Lasting(theGrant) = GP!Lasting(theGrant)
  /\ \A d : G!ConnectedTo(d) <=> GP!ConnectedTo(d)
<1> USE DEF G!Wrap, GP!Wrap, G!addJitter, GP!addJitter, G!requeueResult,
       GP!requeueResult, G!retryResult, GP!retryResult, G!Message, GP!Message,
       G!Condition, GP!Condition, G!Version, GP!Version, G!NoCondition,
       GP!NoCondition, G!Never, GP!Never, G!NextRv, GP!NextRv, G!Put, GP!Put,
       G!Disturb, GP!Disturb, G!UserDelete, GP!UserDelete, G!Deliver, GP!Deliver,
       G!Get, GP!Get, G!ReconcileNothing, GP!ReconcileNothing, G!ReconcileObject,
       GP!ReconcileObject, G!GoTo, GP!GoTo, G!Return, GP!Return, G!Current,
       GP!Current, G!WithFinalizer, GP!WithFinalizer, G!UpdateAddFinalizer,
       GP!UpdateAddFinalizer, G!WithoutFinalizer, GP!WithoutFinalizer,
       G!UpdateRemoveFinalizer, GP!UpdateRemoveFinalizer, G!UpdateConflict,
       GP!UpdateConflict, G!UpdateError, GP!UpdateError, G!UpdateReplyLost,
       GP!UpdateReplyLost, G!patchCondition, GP!patchCondition, G!Report, GP!Report,
       G!Failed, GP!Failed, G!Succeeded, GP!Succeeded, G!Restart, GP!Restart,
       G!KubeTypeOK, GP!KubeTypeOK, G!PgNamespace, GP!PgNamespace,
       G!connectToPostgres, GP!connectToPostgres, G!InstTypeOK, GP!InstTypeOK,
       G!Privilege, GP!Privilege, G!Item, GP!Item, G!Entry, GP!Entry, G!sqlVars,
       GP!sqlVars, G!grantVars, GP!grantVars, G!Opts, GP!Opts, G!opts, GP!opts,
       G!RoleThere, GP!RoleThere, G!Accepts, GP!Accepts, G!Expand, GP!Expand,
       G!Entries, GP!Entries, G!TablesOf, GP!TablesOf, G!OnDatabase, GP!OnDatabase,
       G!OnTables, GP!OnTables, G!OnDefault, GP!OnDefault, G!OnSchema, GP!OnSchema,
       G!Statement, GP!Statement, G!GrantStatements, GP!GrantStatements,
       G!RevokeStatements, GP!RevokeStatements, G!GrantPc, GP!GrantPc, G!RevokePc,
       GP!RevokePc, G!connectToDatabase, GP!connectToDatabase, G!Connection,
       GP!Connection, G!ReconcileGone, GP!ReconcileGone, G!ReconcileLive,
       GP!ReconcileLive, G!Connect, GP!Connect, G!AddFinalizer, GP!AddFinalizer,
       G!MarkReady, GP!MarkReady, G!handleDeletion, GP!handleDeletion,
       G!DeletionError, GP!DeletionError, G!ConnectRevoke, GP!ConnectRevoke,
       G!RemoveFinalizer, GP!RemoveFinalizer, G!ConnectedTo, GP!ConnectedTo, G!Take,
       GP!Take, G!TypeOK, GP!TypeOK, G!Lasting, GP!Lasting
<1>1. G!Connect <=> GP!Connect
  OBVIOUS
<1>2. G!AddFinalizer <=> GP!AddFinalizer
  OBVIOUS
<1>3. G!MarkReady <=> GP!MarkReady
  OBVIOUS
<1>4. G!ConnectRevoke <=> GP!ConnectRevoke
  OBVIOUS
<1>5. G!RemoveFinalizer <=> GP!RemoveFinalizer
  OBVIOUS
<1>6. G!TypeOK <=> GP!TypeOK
  OBVIOUS
<1>7. G!UserDelete(grant) <=> GP!UserDelete(grant)
  OBVIOUS
<1>8. G!Deliver(grant) <=> GP!Deliver(grant)
  OBVIOUS
<1>9. G!Take(grant) <=> GP!Take(grant)
  OBVIOUS
<1>10. G!Restart <=> GP!Restart
  OBVIOUS
<1>11. G!Lasting(theGrant) = GP!Lasting(theGrant)
  OBVIOUS
<1>12. \A d : G!ConnectedTo(d) <=> GP!ConnectedTo(d)
  OBVIOUS
<1>13. \A o : G!GrantStatements(o) = GP!GrantStatements(o)
  OBVIOUS
<1>14. \A o : G!RevokeStatements(o) = GP!RevokeStatements(o)
  OBVIOUS
<1>15. \A message, left : G!Failed(message, left) <=> GP!Failed(message, left)
  OBVIOUS
<1>16. \A left : G!DeletionError(left) <=> GP!DeletionError(left)
  OBVIOUS
<1> HIDE DEF G!Connect, GP!Connect, G!AddFinalizer, GP!AddFinalizer, G!MarkReady,
       GP!MarkReady, G!ConnectRevoke, GP!ConnectRevoke, G!RemoveFinalizer,
       GP!RemoveFinalizer, G!GrantStatements, GP!GrantStatements, G!RevokeStatements,
       GP!RevokeStatements, G!Failed, GP!Failed, G!DeletionError, GP!DeletionError,
       G!TypeOK, GP!TypeOK, G!UserDelete, GP!UserDelete, G!Deliver, GP!Deliver,
       G!Take, GP!Take, G!Restart, GP!Restart, G!Lasting, GP!Lasting, G!ConnectedTo,
       GP!ConnectedTo
<1>17. \A n : G!GrantPrivileges(n) <=> GP!GrantPrivileges(n)
  BY <1>13, <1>15 DEF G!GrantPrivileges, GP!GrantPrivileges
<1>18. \A n : G!RevokePrivileges(n) <=> GP!RevokePrivileges(n)
  BY <1>14, <1>16 DEF G!RevokePrivileges, GP!RevokePrivileges
<1>19. G!Work <=> GP!Work
  BY <1>1, <1>2, <1>3, <1>4, <1>5, <1>17, <1>18 DEF G!Work, GP!Work
<1> QED
  BY <1>6, <1>7, <1>8, <1>9, <1>10, <1>11, <1>12, <1>19

---------------------------------------------------------------------------
(* The inductive invariant.                                                *)

\* Each controller keeps its own inductive invariant, whatever the others do
\* in the meantime.
Controllers == DP!IInv /\ UP!IInv /\ GP!IInv

\* Each is told the truth about the others, and the grant's worker is only
\* connected to databases that exist.
Shared ==
  /\ \A ns \in Namespace : inst[ns] = "ok"
  /\ sessions = Sessions /\ present = Present(roles) /\ pinned = Pinned(acl)
  /\ GP!Connected

\* No database and no role outlives the finalizer of its resource.
Owed == DP!Guarded /\ DP!Anchored /\ UP!Guarded /\ UP!Anchored

IInv == Controllers /\ Shared /\ Owed

\* What the controllers' modules assume of their constants.
LEMMA DatabaseSetting ==
  /\ MaxDuration \in Nat
  /\ Unset \notin DP!Duration
  /\ maxRequeueJitter \in Nat \ {0}
  /\ defaultRequeueInterval \in 1 .. (MaxDuration + 1 - maxRequeueJitter)
  /\ defaultRetryInterval \in 1 .. (MaxDuration + 1 - maxRequeueJitter)
  /\ NoCR \notin {database}
  /\ [c \in {database} |-> {databaseSpec}] \in [{database} -> SUBSET {databaseSpec}]
  /\ {databaseSpec} # {}
  /\ Holds \subseteq BOOLEAN /\ Holds # {}
  /\ MaxDisturbances \in Nat
  /\ "" \notin Namespace
  /\ {database} \subseteq [namespace : Namespace, name : STRING]
  /\ "ok" \in InstState
  /\ InstState \subseteq {"ok", "noCR", "noSecret", "noKey", "down"}
  /\ Steady \subseteq Namespace
  /\ "" \notin DatabaseNames
  /\ \A cr \in {database} : cr.name \in DatabaseNames
  /\ {databaseSpec} \subseteq DP!DatabaseSpec
  /\ {} \subseteq DP!Targets
<1>1. /\ Unset \notin DP!Duration
      /\ MaxDuration \in Nat /\ maxRequeueJitter \in Nat \ {0}
      /\ defaultRequeueInterval \in 1 .. (MaxDuration + 1 - maxRequeueJitter)
      /\ defaultRetryInterval \in 1 .. (MaxDuration + 1 - maxRequeueJitter)
  BY RequeueAssumption DEF Duration, DP!Duration
<1>2. {databaseSpec} \subseteq DP!DatabaseSpec
  BY SpecAssumption DEF D!DatabaseSpec, D!Interval, D!Duration,
     DP!DatabaseSpec, DP!Interval, DP!Duration
<1> QED
  BY <1>1, <1>2, OperatorAssumption

LEMMA UserSetting ==
  /\ MaxDuration \in Nat
  /\ Unset \notin UP!Duration
  /\ maxRequeueJitter \in Nat \ {0}
  /\ defaultRequeueInterval \in 1 .. (MaxDuration + 1 - maxRequeueJitter)
  /\ defaultRetryInterval \in 1 .. (MaxDuration + 1 - maxRequeueJitter)
  /\ NoCR \notin {user}
  /\ [c \in {user} |-> {userSpec}] \in [{user} -> SUBSET {userSpec}]
  /\ {userSpec} # {}
  /\ Holds \subseteq BOOLEAN /\ Holds # {}
  /\ MaxDisturbances \in Nat
  /\ "" \notin Namespace
  /\ {user} \subseteq [namespace : Namespace, name : STRING]
  /\ "ok" \in InstState
  /\ InstState \subseteq {"ok", "noCR", "noSecret", "noKey", "down"}
  /\ Steady \subseteq Namespace
  /\ "" \notin RoleNames
  /\ \A cr \in {user} : cr.name \in RoleNames
  /\ {userSpec} \subseteq UP!UserSpec
  /\ Backslashed \subseteq Password
  /\ NoPassword \notin Password
  /\ {} \subseteq UP!Targets
  /\ NoRole \notin UP!StoredPassword
<1>1. /\ Unset \notin UP!Duration
      /\ MaxDuration \in Nat /\ maxRequeueJitter \in Nat \ {0}
      /\ defaultRequeueInterval \in 1 .. (MaxDuration + 1 - maxRequeueJitter)
      /\ defaultRetryInterval \in 1 .. (MaxDuration + 1 - maxRequeueJitter)
  BY RequeueAssumption DEF Duration, UP!Duration
<1>2. {userSpec} \subseteq UP!UserSpec
  BY SpecAssumption DEF U!UserSpec, U!Interval, U!Duration,
     UP!UserSpec, UP!Interval, UP!Duration
<1>3. NoRole \notin UP!StoredPassword
  BY SpecAssumption DEF U!StoredPassword, U!Stored, UP!StoredPassword, UP!Stored
<1> QED
  BY <1>1, <1>2, <1>3, OperatorAssumption

LEMMA GrantSetting ==
  /\ MaxDuration \in Nat
  /\ Unset \notin GP!Duration
  /\ maxRequeueJitter \in Nat \ {0}
  /\ defaultRequeueInterval \in 1 .. (MaxDuration + 1 - maxRequeueJitter)
  /\ defaultRetryInterval \in 1 .. (MaxDuration + 1 - maxRequeueJitter)
  /\ NoCR \notin {grant}
  /\ [c \in {grant} |-> {grantSpec}] \in [{grant} -> SUBSET {grantSpec}]
  /\ {grantSpec} # {}
  /\ Holds \subseteq BOOLEAN /\ Holds # {}
  /\ MaxDisturbances \in Nat
  /\ "" \notin Namespace
  /\ {grant} \subseteq [namespace : Namespace, name : STRING]
  /\ "ok" \in InstState
  /\ InstState \subseteq {"ok", "noCR", "noSecret", "noKey", "down"}
  /\ Steady \subseteq Namespace
  /\ DatabasePrivilege \cap TablePrivilege = {}
  /\ "ALL" \notin GP!Privilege
  /\ {grantSpec} \subseteq GP!GrantSpec
<1>1. /\ Unset \notin GP!Duration
      /\ MaxDuration \in Nat /\ maxRequeueJitter \in Nat \ {0}
      /\ defaultRequeueInterval \in 1 .. (MaxDuration + 1 - maxRequeueJitter)
      /\ defaultRetryInterval \in 1 .. (MaxDuration + 1 - maxRequeueJitter)
  BY RequeueAssumption DEF Duration, GP!Duration
<1>2. {grantSpec} \subseteq GP!GrantSpec
  BY SpecAssumption DEF G!GrantSpec, G!Privilege, G!Interval, G!Duration,
     GP!GrantSpec, GP!Privilege, GP!Interval, GP!Duration
<1>3. "ALL" \notin GP!Privilege
  BY OperatorAssumption DEF GP!Privilege
<1> QED
  BY <1>1, <1>2, <1>3, OperatorAssumption

\* Each of the three resources has its target for itself.
LEMMA DatabaseSole == IInv => DP!Sole /\ DP!AllUp
BY ScenarioAssumption DEF IInv, Shared, DP!Sole, DP!Owned, DP!AllUp

LEMMA UserSole == IInv => UP!Sole /\ UP!AllUp
BY ScenarioAssumption DEF IInv, Shared, UP!Sole, UP!Owned, UP!AllUp

\* The steps of a controller, of its informer, and of the user who deletes.
DatabaseMoves ==
  \/ (D!UserDelete(database) \/ D!Deliver(database)) /\ UNCHANGED dSql
  \/ D!Take(database)
  \/ D!Work

UserMoves ==
  \/ (U!UserDelete(user) \/ U!Deliver(user)) /\ UNCHANGED uSql
  \/ U!Take(user)
  \/ U!Work

GrantMoves ==
  \/ (G!UserDelete(grant) \/ G!Deliver(grant)) /\ UNCHANGED gSql
  \/ G!Take(grant)
  \/ G!Work

\* Every step is one controller's, or the restart of all three.
LEMMA Moves ==
  Next => \/ DatabaseStep(DatabaseMoves) \/ UserStep(UserMoves) \/ GrantStep(GrantMoves)
          \/ Restart
BY DEF Next, Delete, DeliverD, DeliverU, DeliverG, TakeD, TakeU, TakeG, WorkD, WorkU, WorkG,
   DatabaseStep, UserStep, GrantStep, DatabaseMoves, UserMoves, GrantMoves

\* They are steps that a controller makes while its environment is calm.
LEMMA DatabaseCalm == DatabaseMoves => DP!Calm
BY SameDatabase DEF DatabaseMoves, dSql, DP!Calm, DP!dbVars

LEMMA UserCalm == UserMoves => UP!Calm
BY SameUser DEF UserMoves, uSql, UP!Calm, UP!userVars

LEMMA GrantCalm == GrantMoves => GP!Calm
BY SameGrant DEF GrantMoves, gSql, GP!Calm, GP!grantVars, GP!sqlVars

---------------------------------------------------------------------------
(* Every step keeps the inductive invariant.                               *)

\* What the controllers' invariants say of what they share, before and after
\* a step.
DatabaseShare ==
  /\ dbs \subseteq Namespace \X DatabaseNames /\ sessions \subseteq dbs
  /\ quota \in 0 .. MaxDisturbances

UserShare ==
  /\ roles \in [Namespace \X RoleNames -> UP!StoredPassword \cup {NoRole}]
  /\ pinned \subseteq Namespace \X RoleNames
  /\ quota \in 0 .. MaxDisturbances

GrantShare ==
  /\ \A e \in acl : <<e.ns, e.db>> \in dbs /\ <<e.ns, e.role>> \in present
  /\ Pinned(acl) \subseteq Namespace \X RoleNames
  /\ quota \in 0 .. MaxDisturbances

LEMMA DatabaseTypes == (DP!IInv => DatabaseShare) /\ (DP!IInv' => DatabaseShare')
BY DEF DP!IInv, DP!TypeOK, DP!Targets, DP!KubeTypeOK, DatabaseShare

LEMMA UserTypes == (UP!IInv => UserShare) /\ (UP!IInv' => UserShare')
BY DEF UP!IInv, UP!TypeOK, UP!Targets, UP!KubeTypeOK, UserShare

LEMMA GrantTypes == (GP!IInv => GrantShare) /\ (GP!IInv' => GrantShare')
BY DEF GP!IInv, GP!TypeOK, GP!Entry, GP!KubeTypeOK, GrantShare, Pinned

\* The grant's worker keeps its connection while others act.
LEMMA SessionsStay ==
  UNCHANGED <<gPc, gKey, gObj, gCause>> => Sessions' = Sessions
BY DEF Sessions, G!ConnectedTo, G!opts, G!Opts, G!PgNamespace

\* The database goes, with the privileges in it: the grant's worker is not
\* connected to it, and the role is pinned no more.
LEMMA DatabaseStepIInv ==
  ASSUME IInv, DatabaseStep(DatabaseMoves)
  PROVE  IInv'
<1>1. /\ UNCHANGED <<roles, present, secret, uVars, gVars>> /\ DP!Calm
      /\ acl' = {e \in acl : <<e.ns, e.db>> \in dbs'}
      /\ tables' = {t \in tables : <<t[1], t[2]>> \in dbs'}
      /\ tampered' = (tampered \/ acl' # acl)
      /\ pinned' = Pinned(acl')
  BY DatabaseCalm DEF DatabaseStep
<1>2. DP!IInv /\ DP!Guarded /\ DP!Anchored
  BY DEF IInv, Controllers, Owed
<1>3. /\ DP!IInv' /\ UNCHANGED <<inst, sessions>> /\ sessions \cap dbs \subseteq dbs'
      /\ DP!Guarded' /\ DP!Anchored'
  BY <1>1, <1>2, DatabaseSetting, DatabaseSole, DP!CalmStep
<1>4. dbs' \subseteq Namespace \X DatabaseNames /\ quota' \in 0 .. MaxDisturbances
  BY <1>3, DatabaseTypes DEF DatabaseShare
<1>5. sessions' = Sessions'
  BY <1>1, <1>3, SessionsStay DEF IInv, Shared, gVars
<1>6. \A d \in dbs : GP!ConnectedTo(d) => d \in dbs'
  <2>1. \A d \in dbs : GP!ConnectedTo(d) => d \in sessions
    BY SameGrant, DatabaseTypes DEF DatabaseShare, IInv, Controllers, Shared, Sessions
  <2> QED
    BY <1>3, <2>1
<1>7. GP!IInv'
  <2>1. UNCHANGED <<gStore, gWatch, gCache, gQueue, gPc, gKey, gObj, inst, present>>
    BY <1>1, <1>3 DEF gVars
  <2>2. UNCHANGED <<gVerified, gCause>>
    BY <1>1 DEF gVars
  <2> QED
    BY <1>1, <1>4, <1>6, <2>1, <2>2, GrantSetting, GP!DatabasesGo DEF IInv, Controllers
<1>8. pinned' \subseteq UP!Targets
  BY <1>1, <1>7, GrantTypes DEF GrantShare, Pinned, UP!Targets
<1>9. UP!IInv' /\ UP!Guarded' /\ UP!Anchored'
  <2>1. UNCHANGED <<uStore, uWatch, uCache, uQueue, uPc, uKey, uObj>>
    BY <1>1 DEF uVars
  <2>2. UNCHANGED <<secret, inst, roles, uPassword, uVerified, uCause>>
    BY <1>1, <1>3 DEF uVars
  <2> QED
    BY <1>4, <1>8, <2>1, <2>2, UserSetting, UP!OthersGo DEF IInv, Controllers, Owed
<1>10. GP!Connected'
  <2>1. \A d : GP!ConnectedTo(d)' <=> GP!ConnectedTo(d)
    BY <1>1 DEF gVars, GP!ConnectedTo, GP!opts, GP!Opts, GP!PgNamespace
  <2> QED
    BY <1>6, <2>1 DEF IInv, Shared, GP!Connected
<1> QED
  BY <1>1, <1>3, <1>5, <1>7, <1>9, <1>10 DEF IInv, Controllers, Shared, Owed, Present

\* The role goes: it held no privilege, so the grant's entries stay proper.
LEMMA UserStepIInv ==
  ASSUME IInv, UserStep(UserMoves)
  PROVE  IInv'
<1>1. /\ UNCHANGED <<dbs, acl, tables, sessions, tampered, dVars, gVars>> /\ UP!Calm
      /\ present' = Present(roles')
  BY UserCalm DEF UserStep
<1>2. UP!IInv /\ UP!Guarded /\ UP!Anchored
  BY DEF IInv, Controllers, Owed
<1>3. /\ UP!IInv' /\ UNCHANGED <<secret, inst, pinned>>
      /\ \A t \in pinned : roles[t] # NoRole => roles'[t] # NoRole
      /\ UP!Guarded' /\ UP!Anchored'
  BY <1>1, <1>2, UserSetting, UserSole, UP!CalmStep
<1>4. /\ roles' \in [Namespace \X RoleNames -> UP!StoredPassword \cup {NoRole}]
      /\ quota' \in 0 .. MaxDisturbances
  BY <1>3, UserTypes DEF UserShare
<1>5. DP!IInv' /\ DP!Guarded' /\ DP!Anchored'
  <2>1. UNCHANGED <<dStore, dWatch, dCache, dQueue, dPc, dKey, dObj, inst, dbs, dVerified,
                    dCause>>
    BY <1>1, <1>3 DEF dVars
  <2>2. sessions' \in SUBSET dbs
    BY <1>1, DatabaseTypes DEF DatabaseShare, IInv, Controllers
  <2> QED
    BY <1>4, <2>1, <2>2, DatabaseSetting, DP!OthersGo DEF IInv, Controllers, Owed
<1>6. present' \subseteq Namespace \X RoleNames
  BY <1>1, <1>4 DEF Present
<1>7. \A e \in acl : <<e.ns, e.role>> \in present'
  <2> SUFFICES ASSUME NEW e \in acl, NEW r, r = <<e.ns, e.role>> PROVE r \in present'
    OBVIOUS
  <2>1. r \in present /\ r \in pinned
    BY GrantTypes DEF GrantShare, IInv, Controllers, Shared, Pinned
  <2>2. r \in Namespace \X RoleNames
    BY <2>1, UserTypes DEF UserShare, IInv, Controllers
  <2>3. roles[r] # NoRole
    BY <2>1 DEF IInv, Shared, Present
  <2>4. r \in DOMAIN roles' /\ roles'[r] # NoRole
    BY <1>3, <1>4, <2>1, <2>2, <2>3
  <2> QED
    BY <1>1, <2>4 DEF Present
<1>8. GP!IInv'
  <2>1. UNCHANGED <<gStore, gWatch, gCache, gQueue, gPc, gKey, gObj, inst, dbs, acl, tables>>
    BY <1>1, <1>3 DEF gVars
  <2>2. UNCHANGED <<tampered, gVerified, gCause>>
    BY <1>1 DEF gVars
  <2> QED
    BY <1>4, <1>6, <1>7, <2>1, <2>2, GrantSetting, GP!RolesGo DEF IInv, Controllers
<1>9. sessions' = Sessions' /\ pinned' = Pinned(acl)'
  BY <1>1, <1>3, SessionsStay DEF IInv, Shared, gVars, Pinned
<1>10. GP!Connected'
  <2>1. \A d : GP!ConnectedTo(d)' <=> GP!ConnectedTo(d)
    BY <1>1 DEF gVars, GP!ConnectedTo, GP!opts, GP!Opts, GP!PgNamespace
  <2> QED
    BY <1>1, <2>1 DEF IInv, Shared, GP!Connected
<1> QED
  BY <1>1, <1>3, <1>5, <1>8, <1>9, <1>10 DEF IInv, Controllers, Shared, Owed, Present

\* The grant's worker connects, gives and takes: only ever in databases that
\* are there.
LEMMA GrantStepIInv ==
  ASSUME IInv, GrantStep(GrantMoves)
  PROVE  IInv'
<1>1. /\ UNCHANGED <<roles, secret, dVars, uVars>> /\ GP!Calm
      /\ sessions' = Sessions' /\ pinned' = Pinned(acl')
  BY GrantCalm DEF GrantStep
<1>2. GP!IInv' /\ GP!Connected' /\ UNCHANGED <<inst, dbs, present, tables, tampered>>
  BY <1>1, GrantSetting, GP!CalmStep DEF IInv, Controllers, Shared
<1>3. quota' \in 0 .. MaxDisturbances
  BY <1>2, GrantTypes DEF GrantShare
<1>4. sessions' \in SUBSET dbs
  <2>1. \A d : G!ConnectedTo(d)' <=> GP!ConnectedTo(d)'
    BY DEF G!ConnectedTo, G!opts, G!Opts, G!PgNamespace,
           GP!ConnectedTo, GP!opts, GP!Opts, GP!PgNamespace
  <2> QED
    BY <1>1, <1>2, <2>1 DEF Sessions, GP!Connected
<1>5. DP!IInv' /\ DP!Guarded' /\ DP!Anchored'
  <2>1. UNCHANGED <<dStore, dWatch, dCache, dQueue, dPc, dKey, dObj, inst, dbs, dVerified,
                    dCause>>
    BY <1>1, <1>2 DEF dVars
  <2> QED
    BY <1>3, <1>4, <2>1, DatabaseSetting, DP!OthersGo DEF IInv, Controllers, Owed
<1>6. UP!IInv' /\ UP!Guarded' /\ UP!Anchored'
  <2>1. UNCHANGED <<uStore, uWatch, uCache, uQueue, uPc, uKey, uObj>>
    BY <1>1 DEF uVars
  <2>2. UNCHANGED <<secret, inst, roles, uPassword, uVerified, uCause>>
    BY <1>1, <1>2 DEF uVars
  <2>3. pinned' \subseteq UP!Targets
    BY <1>1, <1>2, GrantTypes DEF GrantShare, Pinned, UP!Targets
  <2> QED
    BY <1>3, <2>1, <2>2, <2>3, UserSetting, UP!OthersGo DEF IInv, Controllers, Owed
<1> QED
  BY <1>1, <1>2, <1>5, <1>6 DEF IInv, Controllers, Shared, Owed, Present

\* All three start again, from what the API server and the server keep.
LEMMA RestartIInv ==
  ASSUME IInv, Restart
  PROVE  IInv'
<1>1. /\ UNCHANGED <<inst, dbs, roles, acl, tables, present, pinned, tampered, secret>>
      /\ UNCHANGED <<dVerified, uVerified, gVerified>>
      /\ DP!Restart /\ dCause' = "none"
      /\ UP!Restart /\ uCause' = "none" /\ uPassword' = NoPassword
      /\ GP!Restart /\ gCause' = "none"
      /\ sessions' = {}
  BY SameDatabase, SameUser, SameGrant DEF Restart
<1>2. DP!IInv' /\ DP!Guarded' /\ DP!Anchored'
  BY <1>1, DatabaseSetting, DP!Recovers DEF IInv, Controllers, Owed
<1>3. UP!IInv' /\ UP!Guarded' /\ UP!Anchored'
  BY <1>1, UserSetting, UP!Recovers DEF IInv, Controllers, Owed
<1>4. GP!IInv' /\ GP!Connected'
  BY <1>1, GrantSetting, GP!Recovers DEF IInv, Controllers, GP!sqlVars
<1>5. Sessions' = {}
  BY <1>1 DEF GP!Restart, Sessions, G!ConnectedTo
<1> QED
  BY <1>1, <1>2, <1>3, <1>4, <1>5 DEF IInv, Controllers, Shared, Owed, Present, Pinned

\* Nothing happens.
LEMMA StutterIInv ==
  ASSUME IInv, UNCHANGED vars
  PROVE  IInv'
<1>1. quota' \in 0 .. MaxDisturbances
  BY DatabaseTypes DEF DatabaseShare, vars, IInv, Controllers
<1>2. DP!IInv' /\ DP!Guarded' /\ DP!Anchored'
  BY <1>1, DatabaseTypes, DatabaseSetting, DP!OthersGo
     DEF DatabaseShare, IInv, Controllers, Owed, vars, dVars
<1>3. UP!IInv' /\ UP!Guarded' /\ UP!Anchored'
  BY <1>1, UserTypes, UserSetting, UP!OthersGo
     DEF UserShare, IInv, Controllers, Owed, vars, uVars, UP!Targets
<1>4. GP!IInv'
  <2>1. present \subseteq Namespace \X RoleNames
    BY UserTypes DEF UserShare, IInv, Controllers, Shared, Present
  <2> QED
    BY <1>1, <2>1, GrantTypes, GrantSetting, GP!RolesGo
       DEF GrantShare, IInv, Controllers, vars, gVars
<1>5. GP!Connected'
  BY DEF IInv, Shared, vars, gVars, GP!Connected, GP!ConnectedTo, GP!opts, GP!Opts,
     GP!PgNamespace
<1>6. Sessions' = Sessions
  BY SessionsStay DEF vars, gVars
<1> QED
  BY <1>2, <1>3, <1>4, <1>5, <1>6
     DEF vars, IInv, Controllers, Shared, Owed, Present, Pinned

\* Whatever step it is, the inductive invariant survives.
LEMMA NextIInv == IInv /\ [Next]_vars => IInv'
BY Moves, DatabaseStepIInv, UserStepIInv, GrantStepIInv, RestartIInv, StutterIInv

---------------------------------------------------------------------------
(* The initial state.                                                      *)

\* A version that is Ready has the type that the controllers give it.
LEMMA ReadyType ==
  /\ ReadyVersion(databaseSpec) \in DP!Version
  /\ ReadyVersion(userSpec) \in UP!Version
  /\ ReadyVersion(grantSpec) \in GP!Version
BY DEF ReadyVersion, DP!Version, DP!Condition, DP!Message, UP!Version, UP!Condition,
   UP!Message, GP!Version, GP!Condition, GP!Message

\* And so has what the worker holds before it has read anything.
LEMMA NeverType == D!Never \in DP!Version /\ U!Never \in UP!Version /\ G!Never \in GP!Version
BY DEF D!Never, D!NoCondition, U!Never, U!NoCondition, G!Never, G!NoCondition,
   DP!Version, DP!Condition, DP!Message, UP!Version, UP!Condition,
   UP!Message, GP!Version, GP!Condition, GP!Message

\* All disturbances are still to come.
LEMMA QuotaType == MaxDisturbances \in 0 .. MaxDisturbances
<1>1. MaxDisturbances \in Nat
  BY OperatorAssumption
<1> QED
  BY <1>1

\* The database, the role and the grant that are there, whichever instance
\* names them.
LEMMA Names ==
  /\ theDatabase = DP!Target(database, databaseSpec) /\ theDatabase \in DP!Targets
  /\ theRole = UP!Target(user, userSpec) /\ theRole \in UP!Targets
  /\ theGrant = GP!Opts(grant, grantSpec)
<1>1. /\ database.namespace \in Namespace /\ databaseSpec.postgresRef \in Namespace \cup {""}
      /\ databaseSpec.name \in DatabaseNames \cup {""}
      /\ user.namespace \in Namespace /\ userSpec.postgresRef \in Namespace \cup {""}
      /\ userSpec.name \in RoleNames \cup {""}
  BY OperatorAssumption, SpecAssumption DEF D!DatabaseSpec, U!UserSpec
<1>2. theDatabase = DP!Target(database, databaseSpec) /\ theDatabase \in DP!Targets
  BY <1>1, OperatorAssumption DEF theDatabase, D!Target, D!PgNamespace, D!DatabaseName,
     DP!Target, DP!PgNamespace, DP!DatabaseName, DP!Targets
<1>3. theRole = UP!Target(user, userSpec) /\ theRole \in UP!Targets
  BY <1>1, OperatorAssumption DEF theRole, U!Target, U!PgNamespace, U!RoleName,
     UP!Target, UP!PgNamespace, UP!RoleName, UP!Targets
<1> QED
  BY <1>2, <1>3 DEF theGrant, G!Opts, G!PgNamespace, GP!Opts, GP!PgNamespace

\* The privileges are of that database on that role, on proper things and
\* not on tables.
LEMMA Privileges ==
  \A e \in G!Lasting(theGrant) :
    /\ e \in GP!Entry /\ e.ns \in Namespace /\ e.role \in RoleNames
    /\ <<e.ns, e.db>> = theDatabase /\ <<e.ns, e.role>> = theRole
    /\ \A s \in Schema, t \in Table : e.item # <<"table", s, t>>
<1> SUFFICES ASSUME NEW e \in GP!Lasting(GP!Opts(grant, grantSpec))
             PROVE  /\ e \in GP!Entry /\ e.ns \in Namespace /\ e.role \in RoleNames
                    /\ <<e.ns, e.db>> = theDatabase /\ <<e.ns, e.role>> = theRole
                    /\ \A s \in Schema, t \in Table : e.item # <<"table", s, t>>
  BY SameGrant, Names
<1>1. /\ e \in GP!Entry /\ e.ns = theGrant.ns
      /\ e.db = grantSpec.database /\ e.role = grantSpec.role
      /\ \A s \in Schema, t \in Table : e.item # <<"table", s, t>>
  BY GP!LastingEntries, GrantSetting, Names
<1>2. e.ns \in Namespace /\ e.role \in RoleNames
  BY <1>1 DEF GP!Entry
<1> QED
  BY <1>1, <1>2, ScenarioAssumption

\* Each controller starts from a state where its resource is Ready.
LEMMA InitDatabase ==
  ASSUME Init
  PROVE  DP!IInv /\ DP!Guarded /\ DP!Anchored
<1>1. dStore[database] = ReadyVersion(databaseSpec) /\ \A cr \in {database} : cr = database
  BY DEF Init
<1>2. DP!TypeOK
  <2>1. DP!KubeTypeOK
    <3>1. /\ dStore = [c \in {database} |-> ReadyVersion(databaseSpec)] /\ dCache = dStore
          /\ dWatch = [c \in {database} |-> {}] /\ dQueue = {database}
          /\ dPc = "idle" /\ dKey = NoCR /\ quota = MaxDisturbances
          /\ dObj \in DP!Version
      BY NeverType DEF Init
    <3> QED
      BY <3>1, QuotaType, ReadyType DEF DP!KubeTypeOK
  <2>2. DP!InstTypeOK
    BY OperatorAssumption DEF Init, DP!InstTypeOK
  <2> QED
    BY <2>1, <2>2, Names DEF Init, DP!TypeOK
<1>3. DP!AllReady
  <2>1. DP!AtRest
    BY <1>1 DEF Init, DP!AtRest, ReadyVersion
  <2> QED
    BY <1>1, <2>1, Names DEF Init, DP!AllReady, ReadyVersion
<1> QED
  BY <1>2, <1>3, DatabaseSetting, DP!AllReadyInv

\* The role has the password of its Secret, a real one.
LEMMA InitRole ==
  ASSUME Init
  PROVE  /\ U!Stored(U!SecretOf(user, userSpec)) \in UP!StoredPassword
         /\ U!Stored(U!SecretOf(user, userSpec)) # NoRole
<1>1. user.namespace \in Namespace /\ userSpec.passwordSecretKeyRef \in SecretName
  BY OperatorAssumption, SpecAssumption DEF U!UserSpec
<1>2. U!SecretOf(user, userSpec) \in Password
  BY <1>1 DEF Init, U!SecretOf
<1>3. U!Stored(U!SecretOf(user, userSpec)) \in UP!StoredPassword
  BY <1>2 DEF U!Stored, UP!Stored, UP!StoredPassword
<1> QED
  BY <1>3, UserSetting

LEMMA InitUser ==
  ASSUME Init
  PROVE  UP!IInv /\ UP!Guarded /\ UP!Anchored
<1>1. uStore[user] = ReadyVersion(userSpec) /\ \A cr \in {user} : cr = user
  BY DEF Init
<1>2. /\ U!Stored(U!SecretOf(user, userSpec)) \in UP!StoredPassword
      /\ U!Stored(U!SecretOf(user, userSpec)) # NoRole
  BY InitRole
<1>3. U!Targets = UP!Targets
  BY DEF U!Targets, UP!Targets
<1>4. UP!TypeOK
  <2>1. UP!KubeTypeOK
    <3>1. /\ uStore = [c \in {user} |-> ReadyVersion(userSpec)] /\ uCache = uStore
          /\ uWatch = [c \in {user} |-> {}] /\ uQueue = {user}
          /\ uPc = "idle" /\ uKey = NoCR /\ quota = MaxDisturbances
          /\ uObj \in UP!Version
      BY NeverType DEF Init
    <3> QED
      BY <3>1, QuotaType, ReadyType DEF UP!KubeTypeOK
  <2>2. UP!InstTypeOK
    BY OperatorAssumption DEF Init, UP!InstTypeOK
  <2>3. roles \in [UP!Targets -> UP!StoredPassword \cup {NoRole}]
    BY <1>2, <1>3 DEF Init
  <2>4. pinned \in SUBSET UP!Targets
    BY Privileges DEF Init, Pinned, UP!Targets
  <2> QED
    BY <2>1, <2>2, <2>3, <2>4, Names DEF Init, UP!TypeOK
<1>5. UP!AllReady
  <2>1. UP!AtRest
    BY <1>1 DEF Init, UP!AtRest, ReadyVersion
  <2> QED
    BY <1>1, <1>2, <1>3, <2>1, Names DEF Init, UP!AllReady, ReadyVersion
<1> QED
  BY <1>4, <1>5, UserSetting, UP!AllReadyInv

LEMMA InitGrant ==
  ASSUME Init
  PROVE  GP!IInv /\ GP!Connected
<1>1. gStore[grant] = ReadyVersion(grantSpec) /\ \A cr \in {grant} : cr = grant
  BY DEF Init
<1>2. acl = G!Lasting(theGrant) /\ dbs = {theDatabase} /\ theRole \in present
  <2>1. /\ roles = [t \in UP!Targets |->
                      IF t = theRole THEN U!Stored(U!SecretOf(user, userSpec)) ELSE NoRole]
        /\ present = Present(roles)
    BY DEF Init, U!Targets, UP!Targets
  <2>2. U!Stored(U!SecretOf(user, userSpec)) # NoRole
    BY InitRole
  <2>3. theRole \in DOMAIN roles /\ roles[theRole] # NoRole
    BY <2>1, <2>2, Names
  <2> QED
    BY <2>1, <2>3 DEF Init, Present
<1>3. GP!TypeOK
  <2>1. GP!KubeTypeOK
    <3>1. /\ gStore = [c \in {grant} |-> ReadyVersion(grantSpec)] /\ gCache = gStore
          /\ gWatch = [c \in {grant} |-> {}] /\ gQueue = {grant}
          /\ gPc = "idle" /\ gKey = NoCR /\ quota = MaxDisturbances
          /\ gObj \in GP!Version
      BY NeverType DEF Init
    <3> QED
      BY <3>1, QuotaType, ReadyType DEF GP!KubeTypeOK
  <2>2. GP!InstTypeOK
    BY OperatorAssumption DEF Init, GP!InstTypeOK
  <2>3. dbs \subseteq Namespace \X DatabaseNames /\ present \subseteq Namespace \X RoleNames
    BY Names DEF Init, Present, DP!Targets, U!Targets
  <2>4. acl \in SUBSET GP!Entry
    BY <1>2, Privileges
  <2>5. \A e \in acl : <<e.ns, e.db>> \in dbs /\ <<e.ns, e.role>> \in present
    BY <1>2, Privileges
  <2>6. \A e \in acl : \A s \in Schema, t \in Table :
          e.item = <<"table", s, t>> => <<e.ns, e.db, s, t>> \in tables
    BY <1>2, Privileges
  <2>7. /\ gPc = "idle" /\ tables = {} /\ tampered = FALSE /\ gCause = "none"
        /\ gVerified \in SUBSET ({grant} \X Nat \X {grantSpec})
    BY DEF Init
  <2> QED
    BY <2>1, <2>2, <2>3, <2>4, <2>5, <2>6, <2>7 DEF GP!TypeOK
<1>4. GP!AllReady
  <2>1. GP!AtRest
    BY <1>1 DEF Init, GP!AtRest, ReadyVersion
  <2>2. GP!Lasting(GP!Opts(grant, grantSpec)) \subseteq acl
    BY <1>2, SameGrant, Names
  <2> QED
    BY <1>1, <2>1, <2>2 DEF Init, GP!AllReady, ReadyVersion
<1> QED
  BY <1>3, <1>4, GrantSetting, GP!AllReadyInv

\* The three together start where the inductive invariant holds.
LEMMA InitIInv == Init => IInv
<1> SUFFICES ASSUME Init PROVE IInv
  OBVIOUS
<1>1. GP!IInv /\ GP!Connected
  BY InitGrant
<1>2. Sessions = {}
  BY DEF Init, Sessions, G!ConnectedTo
<1>3. Shared
  BY <1>1, <1>2 DEF Init, Shared
<1> QED
  BY <1>1, <1>3, InitDatabase, InitUser DEF IInv, Controllers, Owed

---------------------------------------------------------------------------
(* Theorems.                                                               *)

\* The three controllers with one another: each keeps its invariant, what
\* they tell each other is true, and nothing outlives its finalizer.
THEOREM Invariance == Spec => []IInv
<1> QED
  BY InitIInv, NextIInv, PTL DEF Spec

\* The types of the three controllers' state, in every step of any of them.
THEOREM TypeCorrect == Spec => []TypeOK
<1>1. IInv => TypeOK
  BY SameDatabase, SameUser, SameGrant
     DEF IInv, Controllers, DP!IInv, UP!IInv, GP!IInv, TypeOK
<1> QED
  BY <1>1, Invariance, PTL

\* A resource that is gone has no finalizer, and so nothing on the server.
Deserted == ~dStore[database].exists => dbs = {}

LEMMA DatabaseGone == (IInv => Deserted) /\ (IInv' => Deserted')
BY DEF IInv, Controllers, Owed, DP!IInv, DP!KubeInv, DP!Finalized, DP!Anchored, Deserted

LEMMA RoleGone == IInv /\ ~uStore[user].exists => roles[theRole] = NoRole
<1> SUFFICES ASSUME IInv, ~uStore[user].exists PROVE roles[theRole] = NoRole
  OBVIOUS
<1>1. ~uStore[user].finalizer
  BY DEF IInv, Controllers, UP!IInv, UP!KubeInv, UP!Finalized
<1> QED
  BY <1>1, Names DEF IInv, Owed, UP!Anchored

\* When the three resources have been deleted and released, the database, the
\* role and all privileges are gone: those that no statement revokes went
\* with the database.
THEOREM NothingIsLeft == Spec => []NothingLeft
<1>1. IInv => NothingLeft
  <2> SUFFICES ASSUME IInv, ~dStore[database].exists, ~uStore[user].exists
               PROVE  dbs = {} /\ roles[theRole] = NoRole /\ acl = {}
    BY DEF NothingLeft
  <2>1. dbs = {} /\ roles[theRole] = NoRole
    BY DatabaseGone, RoleGone DEF Deserted
  <2> QED
    BY <2>1, GrantTypes DEF GrantShare, IInv, Controllers
<1> QED
  BY <1>1, Invariance, PTL

\* No step makes a database, or its resource, once the resource is gone.
LEMMA StaysGone ==
  ASSUME IInv, [Next]_vars, ~dStore[database].exists
  PROVE  ~dStore'[database].exists
<1>1. CASE DatabaseStep(DatabaseMoves)
  <2>1. DP!Calm
    BY <1>1, DatabaseCalm DEF DatabaseStep
  <2>2. DP!NoneMade
    BY <2>1, DatabaseSetting, DP!CalmStep DEF IInv, Controllers, Owed
  <2> QED
    BY <2>2 DEF DP!NoneMade
<1>2. dStore' = dStore \/ DatabaseStep(DatabaseMoves)
  BY Moves DEF UserStep, GrantStep, Restart, D!Restart, dVars, vars
<1> QED
  BY <1>1, <1>2

\* Without the database the grant's worker cannot connect.
LEMMA GrantUnreachable == IInv /\ theDatabase \notin dbs => GP!Unreachable
<1> SUFFICES ASSUME IInv, theDatabase \notin dbs PROVE GP!Unreachable
  OBVIOUS
<1>1. /\ theGrant.ns = GP!PgNamespace(grant, grantSpec.postgresRef)
      /\ theGrant.ns \in Namespace
  BY OperatorAssumption, SpecAssumption
     DEF theGrant, G!Opts, G!PgNamespace, GP!PgNamespace, G!GrantSpec
<1>2. GP!connectToDatabase(grant, grantSpec) = "error"
  BY <1>1, ScenarioAssumption
     DEF IInv, Shared, GP!connectToDatabase, GP!connectToPostgres
<1> QED
  BY <1>2, ScenarioAssumption DEF GP!Unreachable

\* The steps after which the deletion of the grant is where it was.
LEMMA GrantWaits ==
  ASSUME IInv, [Next]_vars, theDatabase \notin dbs,
         GP!Waiting(grant), gPc \in {"idle", "connect", "connectRevoke"}
  PROVE  GP!Waiting(grant)' /\ gPc' \in {"idle", "connect", "connectRevoke"}
<1>1. CASE GrantStep(GrantMoves)
  <2>1. GP!Calm
    BY <1>1, GrantCalm DEF GrantStep
  <2> QED
    BY <2>1, GrantUnreachable, GrantSetting, GP!CalmStrays DEF IInv, Controllers
<1>2. CASE UNCHANGED <<gStore, gPc>>
  BY <1>2 DEF GP!Waiting
<1>3. CASE Restart
  BY <1>3 DEF Restart, G!Restart, GP!Waiting
<1> QED
  BY <1>1, <1>2, <1>3, Moves DEF UserStep, DatabaseStep, gVars, vars

\* The deletion of a grant whose database went first never ends: no step of
\* any of the three, and no restart, gets the worker past connectToDatabase.
THEOREM NeverRescued == Spec => StrandedForGood
<1>1. IInv /\ [Next]_vars => [Stranded => Stranded']_vars
  <2> SUFFICES ASSUME IInv, [Next]_vars, Stranded PROVE Stranded'
    OBVIOUS
  <2>1. ~dStore'[database].exists
    BY StaysGone DEF Stranded
  <2>2. dbs' = {}
    BY <2>1, NextIInv, DatabaseGone DEF Deserted
  <2>3. GP!Waiting(grant)' /\ gPc' \in {"idle", "connect", "connectRevoke"}
    BY GrantWaits DEF Stranded, GP!Waiting
  <2> QED
    BY <2>1, <2>2, <2>3 DEF Stranded, GP!Waiting
<1> QED
  BY <1>1, Invariance, PTL DEF Spec, StrandedForGood
=============================================================================
