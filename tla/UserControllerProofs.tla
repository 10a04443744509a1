------------------------ MODULE UserControllerProofs ------------------------
(***************************************************************************)
(* Proofs about the PostgreSQLUser controller, for every set of resources, *)
(* specs, instances, Secrets, roles and passwords and any number of        *)
(* faults.  KubeInv (module KubeApiProofs) bounds how stale the worker's   *)
(* object can be; Phases adds what the worker has established where it     *)
(* stands, above all that the role has the password it read.               *)
(***************************************************************************)
EXTENDS UserController, AttentionProofs

LivePc == {"connect", "secret", "exists", "alter", "create", "finalize", "ready"}
DropPc == {"connectDrop", "existsDrop", "drop"}

\* Where getSecretValue has succeeded.
ReadPc == {"exists", "alter", "create", "finalize", "ready"}

\* The role is as the reconcile that is under way wants it.
HasPassword == roles[roleName] = Stored(password)

\* Where the worker is, and what it has established there.
Phases ==
  /\ pc \in LivePc => ~obj.deleting
  /\ pc \in ReadPc => password \in Password
  /\ pc \in DropPc => obj.deleting /\ obj.spec.cleanupPolicy = "Delete"
  /\ pc \in {"finalize", "ready"} =>
       /\ <<key, obj.uid, roleName>> \in verified
       /\ Owned(key, roleName) => HasPassword
  /\ pc = "release" /\ obj.spec.cleanupPolicy = "Delete" /\ Owned(key, roleName)
       => roles[roleName] = NoRole \/ cause = "notFound"

\* Ready=True was earned, for the current spec of a resource that lives.
Verified ==
  \A cr \in CR : Ready(store[cr]) =>
    /\ ~store[cr].deleting
    /\ <<cr, store[cr].uid, Target(cr, store[cr].spec)>> \in verified

Earned == Verified /\ ReadyMeansRole

IInv == KubeInv /\ TypeOK /\ Phases /\ Earned

---------------------------------------------------------------------------
(* Lemmas.                                                                 *)

\* Every spec of every resource names a proper role.
LEMMA TargetType ==
  ASSUME NEW cr \in CR, NEW s \in Specs
  PROVE  Target(cr, s) \in Targets
<1>1. cr.namespace \in Namespace /\ cr.name \in Name
  BY InstancesAssumption, UserAssumption
<1>2. s.name \in Name \cup {""} /\ s.postgresRef \in Namespace \cup {""}
  BY UserAssumption DEF UserSpec
<1> QED
  BY <1>1, <1>2 DEF Target, Targets, PgNamespace, RoleName

\* The role of a busy worker is a proper one, of the worker's resource.
LEMMA roleNameType ==
  ASSUME IInv, pc # "idle"
  PROVE  /\ key \in CR /\ obj.uid \in Nat /\ obj.spec \in SpecOf[key]
         /\ roleName \in Targets
<1>1. key \in CR /\ obj \in Version /\ obj.spec \in SpecOf[key]
  BY DEF IInv, KubeInv, KubeTypeOK, InHand
<1>2. obj.uid \in Nat /\ obj.spec \in Specs
  BY <1>1, Fields
<1> QED
  BY <1>1, <1>2, TargetType DEF roleName

\* What a reconcile reads of a Secret: a password, or nothing.
LEMMA SecretType ==
  ASSUME TypeOK, NEW cr \in CR, NEW s \in Specs
  PROVE  SecretOf(cr, s) \in Password \cup {NoPassword}
<1>1. cr.namespace \in Namespace /\ s.passwordSecretKeyRef \in SecretName
  BY InstancesAssumption, UserAssumption DEF UserSpec
<1> QED
  BY <1>1 DEF SecretOf, TypeOK

\* What a password becomes on the server is not the absence of the role.
LEMMA StoredIsRole ==
  ASSUME NEW p \in Password
  PROVE  Stored(p) \in StoredPassword /\ Stored(p) # NoRole
BY RoleAssumption DEF StoredPassword

\* A write to one resource keeps Earned if the new version has earned it.
LEMMA EarnedWrite ==
  ASSUME IInv, NEW cr \in CR, NEW n, store' = [store EXCEPT ![cr] = n],
         Ready(n) => /\ ~n.deleting
                     /\ <<cr, n.uid, Target(cr, n.spec)>> \in verified,
         Ready(n) /\ Owned(cr, Target(cr, n.spec)) => roles[Target(cr, n.spec)] # NoRole,
         UNCHANGED <<roles, verified>>
  PROVE  Earned'
<1>1. /\ store'[cr] = n
      /\ \A c \in CR \ {cr} : store'[c] = store[c]
  BY DEF IInv, KubeInv, KubeTypeOK
<1>2. Verified'
  BY <1>1 DEF IInv, Earned, Verified
<1>3. ReadyMeansRole'
  BY <1>1 DEF IInv, Earned, ReadyMeansRole
<1> QED
  BY <1>2, <1>3 DEF Earned

\* So does a step that writes no resource and drops no role of a resource
\* that is Ready.
LEMMA EarnedElse ==
  ASSUME IInv, store' = store, verified \subseteq verified',
         \A cr \in CR :
           LET t == Target(cr, store[cr].spec)
           IN  Ready(store[cr]) /\ Owned(cr, t) /\ roles[t] # NoRole => roles'[t] # NoRole
  PROVE  Earned'
<1>1. Verified'
  BY DEF IInv, Earned, Verified
<1>2. ReadyMeansRole'
  <2> SUFFICES ASSUME NEW cr \in CR, Ready(store[cr]), ~store[cr].deleting,
                      Owned(cr, Target(cr, store[cr].spec))
               PROVE  roles'[Target(cr, store[cr].spec)] # NoRole
    BY DEF ReadyMeansRole
  <2> QED
    BY DEF IInv, Earned, ReadyMeansRole
<1> QED
  BY <1>1, <1>2 DEF Earned

\* A step that neither moves the worker nor touches the role it is about.
LEMMA PhasesStay ==
  ASSUME IInv, UNCHANGED <<pc, key, obj, password, verified, cause>>,
         pc # "idle" /\ Owned(key, roleName) => roles'[roleName] = roles[roleName]
  PROVE  Phases'
<1>1. roleName' = roleName
  BY DEF roleName
<1> QED
  BY <1>1 DEF IInv, Phases, HasPassword, LivePc, ReadPc, DropPc

---------------------------------------------------------------------------
(* Users, Secrets, instances and other SQL clients.                        *)

\* Users and the garbage collector.
LEMMA UsersStep ==
  ASSUME IInv, NEW cr \in CR, Users(cr) \/ ReleaseHold(cr), UNCHANGED userVars
  PROVE  IInv'
<1>1. PICK n : Put(cr, n) /\ Quiet(cr, n)
  BY OthersKeep DEF Users, IInv
<1>2. KubeInv' /\ UNCHANGED <<cache, queue, pc, key, obj>>
  BY OthersKeep DEF Users, IInv
<1>3. Earned'
  <2>1. Ready(n) => ~n.deleting /\ <<cr, n.uid, Target(cr, n.spec)>> \in verified
    BY <1>1 DEF Quiet, IInv, Earned, Verified
  <2>2. Ready(n) /\ Owned(cr, Target(cr, n.spec)) => roles[Target(cr, n.spec)] # NoRole
    BY <1>1, <2>1 DEF Quiet, IInv, Earned, ReadyMeansRole
  <2> QED
    BY <1>1, <2>1, <2>2, EarnedWrite DEF Put, userVars
<1>4. TypeOK'
  BY <1>2 DEF IInv, KubeInv, TypeOK, InstTypeOK, userVars
<1>5. Phases'
  BY <1>2, PhasesStay DEF userVars
<1> QED
  BY <1>2, <1>3, <1>4, <1>5 DEF IInv

\* The cache catches up.
LEMMA DeliverStep ==
  ASSUME IInv, NEW cr \in CR, Deliver(cr), UNCHANGED userVars
  PROVE  IInv'
<1>1. KubeInv'
  BY DeliverKeeps DEF IInv
<1>2. UNCHANGED <<store, pc, key, obj>>
  BY DEF Deliver
<1>3. TypeOK'
  BY <1>1, <1>2 DEF IInv, KubeInv, TypeOK, InstTypeOK, userVars
<1>4. Phases'
  BY <1>2, PhasesStay DEF userVars
<1> QED
  BY <1>1, <1>2, <1>3, <1>4, EarnedElse DEF IInv, userVars

\* The operator crashes and starts again.
LEMMA RestartStep ==
  ASSUME IInv, Restart, cause' = "none", password' = NoPassword,
         UNCHANGED <<secret, inst, roles, pinned, verified>>
  PROVE  IInv'
<1>1. KubeInv'
  BY RestartKeeps DEF IInv
<1>2. store' = store /\ pc' = "idle"
  BY DEF Restart
<1>3. TypeOK'
  BY <1>1, <1>2 DEF IInv, KubeInv, TypeOK, InstTypeOK
<1>4. Phases'
  BY <1>2 DEF Phases, LivePc, ReadPc, DropPc
<1> QED
  BY <1>1, <1>2, <1>3, <1>4, EarnedElse DEF IInv

\* Disturbances outside the API server and the worker.
LEMMA OutsideStep ==
  ASSUME IInv, UNCHANGED <<store, watch, cache, queue, pc, key, obj>>,
         UNCHANGED <<password, verified, cause>>,
         quota' \in 0 .. MaxDisturbances,
         secret' \in [Namespace \X SecretName -> Password \cup {NoPassword}],
         inst' \in [Namespace -> InstState],
         roles' \in [Targets -> StoredPassword \cup {NoRole}],
         pinned' \in SUBSET Targets,
         \A cr \in CR : \A t \in Targets : Owned(cr, t) => roles'[t] = roles[t]
  PROVE  IInv'
<1>1. KubeInv'
  BY DEF IInv, KubeInv, KubeTypeOK, Ordered, Finalized, Conditions, InHand, Informer
<1>2. TypeOK'
  BY <1>1 DEF IInv, KubeInv, TypeOK, InstTypeOK
<1>3. Phases'
  BY roleNameType, PhasesStay
<1>4. \A cr \in CR : Ready(store[cr]) => Target(cr, store[cr].spec) \in Targets
  BY TargetType, Fields DEF IInv, KubeInv, KubeTypeOK
<1>5. Earned'
  BY <1>4, EarnedElse
<1> QED
  BY <1>1, <1>2, <1>3, <1>5 DEF IInv

\* An instance changes its state.
LEMMA InstChangeStep ==
  ASSUME IInv, NEW ns \in Namespace, InstChange(ns),
         UNCHANGED <<secret, roles, pinned, password, verified, cause>>
  PROVE  IInv'
<1>1. /\ quota' \in 0 .. MaxDisturbances
      /\ UNCHANGED <<store, watch, cache, queue, pc, key, obj>>
  BY DisturbQuota DEF InstChange, IInv, KubeInv
<1>2. inst' \in [Namespace -> InstState]
  BY DEF InstChange, IInv, TypeOK, InstTypeOK
<1> QED
  BY <1>1, <1>2, OutsideStep DEF IInv, TypeOK

\* A Secret changes, goes or comes back.
LEMMA SecretChangeStep ==
  ASSUME IInv, SecretChange
  PROVE  IInv'
<1>1. secret' \in [Namespace \X SecretName -> Password \cup {NoPassword}]
  BY DEF SecretChange, IInv, TypeOK
<1> QED
  BY <1>1, DisturbQuota, OutsideStep
     DEF SecretChange, IInv, KubeInv, TypeOK, InstTypeOK

\* A role comes to own something, or owns nothing any more.
LEMMA PinStep ==
  ASSUME IInv, Pin
  PROVE  IInv'
<1>1. pinned' \in SUBSET Targets
  BY DEF Pin, IInv, TypeOK
<1> QED
  BY <1>1, DisturbQuota, OutsideStep DEF Pin, IInv, KubeInv, TypeOK, InstTypeOK

\* Another SQL client creates, alters or drops a role that nobody owns.
LEMMA OtherClientStep ==
  ASSUME IInv, OtherClient
  PROVE  IInv'
<1>1. PICK t \in OutOfBand \ pinned :
        \E r \in (StoredPassword \cup {NoRole}) \ {roles[t]} :
          roles' = [roles EXCEPT ![t] = r]
  BY DEF OtherClient
<1>2. roles' \in [Targets -> StoredPassword \cup {NoRole}]
  BY <1>1 DEF IInv, TypeOK
<1>3. \A cr \in CR : \A u \in Targets : Owned(cr, u) => roles'[u] = roles[u]
  BY <1>1 DEF Owned, IInv, TypeOK
<1> QED
  BY <1>2, <1>3, DisturbQuota, OutsideStep
     DEF OtherClient, IInv, KubeInv, TypeOK, InstTypeOK

---------------------------------------------------------------------------
(* The worker's steps.                                                     *)

\* A reconcile that returns leaves nothing to establish.
LEMMA IdleStep ==
  ASSUME IInv, KubeInv', pc' = "idle", store' = store,
         UNCHANGED <<secret, inst, roles, pinned, verified>>,
         password' \in Password \cup {NoPassword},
         cause' \in {"none", "policy", "dropped", "notFound"}
  PROVE  IInv'
<1>1. TypeOK'
  BY DEF IInv, KubeInv, TypeOK, InstTypeOK
<1>2. Phases'
  BY DEF Phases, LivePc, ReadPc, DropPc
<1> QED
  BY <1>1, <1>2, EarnedElse DEF IInv

\* A failure is reported and nothing else happens to the resources.
LEMMA FailedStep ==
  ASSUME IInv, pc # "idle", NEW message \in Message,
         NEW left \in 0 .. MaxDisturbances, Failed(message, left),
         UNCHANGED <<secret, inst, pinned, verified, cause>>,
         password' \in Password \cup {NoPassword},
         roles' \in [Targets -> StoredPassword \cup {NoRole}],
         \A t \in Targets : roles[t] # NoRole => roles'[t] # NoRole
  PROVE  IInv'
<1>1. KubeInv'
  BY ReportKeeps DEF IInv, Failed
<1>2. pc' = "idle"
  BY ReportCases DEF Return, Failed
<1>3. TypeOK'
  BY <1>1, <1>2 DEF IInv, KubeInv, TypeOK, InstTypeOK
<1>4. Phases'
  BY <1>2 DEF Phases, LivePc, ReadPc, DropPc
<1>5. \A cr \in CR : Target(cr, store[cr].spec) \in Targets
  BY TargetType, Fields DEF IInv, KubeInv, KubeTypeOK
<1>6. Earned'
  <2>1. CASE store' = store
    BY <1>5, <2>1, EarnedElse
  <2>2. CASE store[key].exists /\ Put(key, Patched("False", message))
    <3> DEFINE n == Patched("False", message)
    <3>1. key \in CR /\ n.cond.status = "False"
      BY <2>2, PatchedSound DEF IInv
    <3>2. store' = [store EXCEPT ![key] = n]
      BY <2>2 DEF Put
    <3> HIDE DEF n
    <3>3. store'[key] = n /\ \A c \in CR \ {key} : store'[c] = store[c]
      BY <3>1, <3>2 DEF IInv, KubeInv, KubeTypeOK
    <3>4. ~Ready(n)
      BY <3>1 DEF Ready
    <3>5. Verified'
      BY <3>3, <3>4 DEF IInv, Earned, Verified
    <3>6. ReadyMeansRole'
      <4> SUFFICES ASSUME NEW c \in CR, Ready(store'[c]), ~store'[c].deleting,
                          Owned(c, Target(c, store'[c].spec))
                   PROVE  roles'[Target(c, store'[c].spec)] # NoRole
        BY DEF ReadyMeansRole, Owned, Target, PgNamespace
      <4>1. store'[c] = store[c]
        BY <3>3, <3>4
      <4> QED
        BY <1>5, <4>1 DEF IInv, Earned, ReadyMeansRole
    <3> QED
      BY <3>5, <3>6 DEF Earned
  <2> QED
    BY <2>1, <2>2, ReportCases DEF Failed
<1> QED
  BY <1>1, <1>3, <1>4, <1>6 DEF IInv

\* Reconcile up to the first call that leaves the process.
LEMMA TakeStep ==
  ASSUME IInv, NEW cr \in CR, Take(cr)
  PROVE  IInv'
<1>1. CASE ReconcileGone(cr)
  <2>1. KubeInv' /\ UNCHANGED <<store, pc, key, obj>>
    BY <1>1, ReconcileNothingKeeps DEF ReconcileGone, ReconcileNothing, IInv
  <2>2. UNCHANGED userVars
    BY <1>1 DEF ReconcileGone
  <2>3. TypeOK'
    BY <2>1, <2>2 DEF IInv, KubeInv, TypeOK, InstTypeOK, userVars
  <2>4. Phases'
    BY <2>1, <2>2, PhasesStay DEF userVars
  <2> QED
    BY <2>1, <2>2, <2>3, <2>4, EarnedElse DEF IInv, userVars
<1>2. CASE ReconcileLive(cr)
  <2>1. ReconcileObject(cr, "connect") /\ ~cache[cr].deleting /\ UNCHANGED userVars
    BY <1>2 DEF ReconcileLive
  <2>2. KubeInv'
    BY <2>1, ReconcileObjectKeeps DEF IInv
  <2>3. pc' = "connect" /\ obj' = cache[cr] /\ store' = store
    BY <2>1 DEF ReconcileObject
  <2>4. TypeOK'
    BY <2>1, <2>2, <2>3 DEF IInv, KubeInv, TypeOK, InstTypeOK, userVars
  <2>5. Phases'
    BY <2>1, <2>3 DEF Phases, ReadPc, DropPc
  <2> QED
    BY <2>1, <2>2, <2>3, <2>4, <2>5, EarnedElse DEF IInv, userVars
<1>3. CASE handleDeletion(cr)
  <2>1. /\ cache[cr].deleting /\ cache[cr].finalizer
        /\ UNCHANGED <<secret, inst, roles, pinned, password, verified>>
    BY <1>3 DEF handleDeletion
  <2>2. CASE /\ cache[cr].spec.cleanupPolicy = "Delete"
             /\ ReconcileObject(cr, "connectDrop") /\ UNCHANGED cause
    <3>1. KubeInv'
      BY <2>1, <2>2, ReconcileObjectKeeps DEF IInv
    <3>2. pc' = "connectDrop" /\ obj' = cache[cr] /\ store' = store
      BY <2>2 DEF ReconcileObject
    <3>3. TypeOK'
      BY <2>1, <2>2, <3>1, <3>2 DEF IInv, KubeInv, TypeOK, InstTypeOK
    <3>4. Phases'
      BY <2>1, <2>2, <3>2 DEF Phases, LivePc, ReadPc
    <3> QED
      BY <2>1, <3>1, <3>2, <3>3, <3>4, EarnedElse DEF IInv
  <2>3. CASE /\ cache[cr].spec.cleanupPolicy # "Delete"
             /\ ReconcileObject(cr, "release") /\ cause' = "policy"
    <3>1. KubeInv'
      BY <2>1, <2>3, ReconcileObjectKeeps DEF IInv
    <3>2. pc' = "release" /\ obj' = cache[cr] /\ store' = store
      BY <2>3 DEF ReconcileObject
    <3>3. TypeOK'
      BY <2>1, <2>3, <3>1, <3>2 DEF IInv, KubeInv, TypeOK, InstTypeOK
    <3>4. Phases'
      BY <2>1, <2>3, <3>2 DEF Phases, LivePc, ReadPc, DropPc
    <3> QED
      BY <2>1, <3>1, <3>2, <3>3, <3>4, EarnedElse DEF IInv
  <2> QED
    BY <1>3, <2>2, <2>3 DEF handleDeletion
<1> QED
  BY <1>1, <1>2, <1>3 DEF Take

\* The worker moves on within a phase, with the password it read.
LEMMA MoveStep ==
  ASSUME IInv, NEW next, GoTo(next), password' \in Password \cup {NoPassword},
         \/ pc = "connect" /\ next = "secret"
         \/ pc \in {"secret", "exists"} /\ next \in {"exists", "alter", "create"}
            /\ password' \in Password
         \/ pc \in {"connectDrop", "existsDrop"} /\ next \in {"existsDrop", "drop"},
         UNCHANGED <<secret, inst, roles, pinned, verified, cause>>
  PROVE  IInv'
<1>1. KubeInv'
  BY GoToKeeps DEF IInv
<1>2. pc' = next /\ UNCHANGED <<store, key, obj>>
  BY DEF GoTo
<1>3. TypeOK'
  BY <1>1, <1>2 DEF IInv, KubeInv, TypeOK, InstTypeOK
<1>4. Phases'
  BY <1>2 DEF IInv, Phases, LivePc, ReadPc, DropPc
<1> QED
  BY <1>1, <1>2, <1>3, <1>4, EarnedElse DEF IInv

\* connectToPostgres in Reconcile.
LEMMA ConnectStep ==
  ASSUME IInv, Connect
  PROVE  IInv'
<1>1. /\ pc = "connect" /\ UNCHANGED userVars
      /\ quota \in 0 .. MaxDisturbances /\ TypeOK
  BY DEF Connect, IInv, TypeOK, KubeTypeOK
<1>2. CASE GoTo("secret")
  BY <1>1, <1>2, MoveStep DEF userVars, TypeOK
<1>3. CASE Failed("connect", quota)
  BY <1>1, <1>3, FailedStep DEF Message, userVars, TypeOK
<1> QED
  BY <1>2, <1>3 DEF Connect

\* getSecretValue.
LEMMA getSecretValueStep ==
  ASSUME IInv, getSecretValue
  PROVE  IInv'
<1>1. /\ pc = "secret" /\ UNCHANGED <<secret, inst, roles, pinned, verified, cause>>
      /\ quota \in 0 .. MaxDisturbances /\ TypeOK
  BY DEF getSecretValue, IInv, TypeOK, KubeTypeOK
<1>2. SecretOf(key, obj.spec) \in Password \cup {NoPassword}
  BY <1>1, SecretType, Fields DEF IInv, KubeInv, KubeTypeOK
<1>3. CASE /\ SecretOf(key, obj.spec) # NoPassword /\ GoTo("exists")
           /\ password' = SecretOf(key, obj.spec)
  BY <1>1, <1>2, <1>3, MoveStep
<1>4. CASE Failed("secret", quota) /\ UNCHANGED password
  BY <1>1, <1>4, FailedStep DEF Message, TypeOK
<1> QED
  BY <1>3, <1>4 DEF getSecretValue

\* A statement on the role fails, or its reply is lost.
LEMMA StatementFailed ==
  ASSUME IInv, pc \in {"exists", "alter", "create"},
         NEW left, Failed("create", left), left = quota \/ (quota > 0 /\ left = quota - 1),
         roles' \in {roles, Assigned}, UNCHANGED <<secret, inst, pinned, verified, cause>>,
         HoldPassword
  PROVE  IInv'
<1>1. left \in 0 .. MaxDisturbances
  BY KubeAssumption DEF IInv, TypeOK, KubeTypeOK
<1>2. roleName \in Targets /\ Stored(password) \in StoredPassword /\ Stored(password) # NoRole
  BY roleNameType, StoredIsRole DEF IInv, Phases, ReadPc
<1>3. /\ roles' \in [Targets -> StoredPassword \cup {NoRole}]
      /\ \A t \in Targets : roles[t] # NoRole => roles'[t] # NoRole
  BY <1>2 DEF Assigned, IInv, TypeOK
<1>4. password' \in Password \cup {NoPassword}
  BY DEF HoldPassword, IInv, TypeOK
<1> QED
  BY <1>1, <1>3, <1>4, FailedStep DEF Message

\* CreateOrUpdateRole succeeded, and the role has the password.
LEMMA AppliedStep ==
  ASSUME IInv, pc \in {"alter", "create"}, Applied, roles' = Assigned, HoldPassword,
         UNCHANGED <<secret, inst, pinned, cause>>
  PROVE  IInv'
<1> DEFINE next == IF obj.finalizer THEN "ready" ELSE "finalize"
<1>1. GoTo(next) /\ verified' = verified \cup {<<key, obj.uid, roleName>>}
  BY DEF Applied
<1>2. pc' = next /\ UNCHANGED <<store, key, obj>>
  BY <1>1 DEF GoTo
<1>3. ~obj.deleting /\ password \in Password /\ password' = password
  BY <1>2 DEF IInv, Phases, LivePc, ReadPc, HoldPassword
<1>4. KubeInv'
  <2>1. CASE obj.finalizer
    BY <1>1, <1>3, <2>1, GoToKeeps DEF IInv
  <2>2. CASE ~obj.finalizer
    BY <1>1, <1>3, <2>2, GoToKeeps DEF IInv
  <2> QED
    BY <2>1, <2>2
<1>5. /\ key \in CR /\ obj.uid \in Nat /\ roleName \in Targets /\ roleName' = roleName
      /\ Stored(password) \in StoredPassword /\ Stored(password) # NoRole
  BY <1>2, <1>3, roleNameType, StoredIsRole DEF roleName
<1>6. /\ roles' \in [Targets -> StoredPassword \cup {NoRole}]
      /\ roles'[roleName] = Stored(password)
      /\ \A t \in Targets : roles[t] # NoRole => roles'[t] # NoRole
  BY <1>5 DEF Assigned, IInv, TypeOK
<1>7. TypeOK'
  BY <1>1, <1>2, <1>3, <1>4, <1>5, <1>6 DEF IInv, KubeInv, TypeOK, InstTypeOK
<1>8. Phases'
  BY <1>1, <1>2, <1>3, <1>5, <1>6 DEF Phases, HasPassword, LivePc, ReadPc, DropPc
<1>9. \A cr \in CR : Target(cr, store[cr].spec) \in Targets
  BY TargetType, Fields DEF IInv, KubeInv, KubeTypeOK
<1>10. Earned'
  BY <1>1, <1>2, <1>6, <1>9, EarnedElse
<1> QED
  BY <1>4, <1>7, <1>8, <1>10 DEF IInv

\* The existence check of CreateOrUpdateRole.
LEMMA RoleExistsStep ==
  ASSUME IInv, RoleExists
  PROVE  IInv'
<1>1. /\ pc = "exists" /\ HoldPassword
      /\ UNCHANGED <<secret, inst, roles, pinned, verified, cause>>
  BY DEF RoleExists
<1>2. CASE GoTo(IF roles[roleName] = NoRole THEN "create" ELSE "alter")
  <2>1. password' \in Password
    BY <1>1, <1>2 DEF HoldPassword, GoTo, IInv, Phases, ReadPc
  <2> QED
    BY <1>1, <1>2, <2>1, MoveStep
<1>3. CASE quota > 0 /\ Failed("create", quota - 1)
  BY <1>1, <1>3, StatementFailed
<1> QED
  BY <1>2, <1>3 DEF RoleExists

\* ALTER ROLE.
LEMMA AlterRoleStep ==
  ASSUME IInv, AlterRole
  PROVE  IInv'
<1>1. pc = "alter" /\ HoldPassword /\ UNCHANGED <<secret, inst, pinned, cause>>
  BY DEF AlterRole
<1>2. CASE roles' = Assigned /\ Applied
  BY <1>1, <1>2, AppliedStep
<1>3. CASE Failed("create", quota) /\ UNCHANGED <<roles, verified>>
  BY <1>1, <1>3, StatementFailed
<1>4. CASE /\ quota > 0 /\ Failed("create", quota - 1) /\ UNCHANGED verified
           /\ roles' \in {roles, IF roles[roleName] = NoRole THEN roles ELSE Assigned}
  BY <1>1, <1>4, StatementFailed
<1> QED
  BY <1>2, <1>3, <1>4 DEF AlterRole

\* CREATE ROLE.
LEMMA CreateRoleStep ==
  ASSUME IInv, CreateRole
  PROVE  IInv'
<1>1. pc = "create" /\ HoldPassword /\ UNCHANGED <<secret, inst, pinned, cause>>
  BY DEF CreateRole
<1>2. CASE roles' = Assigned /\ Applied
  BY <1>1, <1>2, AppliedStep
<1>3. CASE Failed("create", quota) /\ UNCHANGED <<roles, verified>>
  BY <1>1, <1>3, StatementFailed
<1>4. CASE /\ quota > 0 /\ Failed("create", quota - 1) /\ UNCHANGED verified
           /\ roles' \in {roles, IF roles[roleName] = NoRole THEN Assigned ELSE roles}
  BY <1>1, <1>4, StatementFailed
<1> QED
  BY <1>2, <1>3, <1>4 DEF CreateRole

\* The finalizer is added, whether or not the worker learns of it.
LEMMA AddFinalizerStep ==
  ASSUME IInv, AddFinalizer
  PROVE  IInv'
<1>1. /\ pc = "finalize" /\ HoldPassword
      /\ UNCHANGED <<secret, inst, roles, pinned, verified, cause>>
  BY DEF AddFinalizer
<1>2. password' \in Password \cup {NoPassword}
  BY <1>1 DEF HoldPassword, IInv, TypeOK
<1>3. CASE UpdateConflict \/ UpdateError
  <2>1. KubeInv'
    BY <1>1, <1>3, UpdateFailedKeeps DEF IInv
  <2>2. pc' = "idle" /\ store' = store
    BY <1>3 DEF UpdateConflict, UpdateError, Return
  <2> QED
    BY <1>1, <1>2, <2>1, <2>2, IdleStep DEF IInv, TypeOK
<1>4. CASE UpdateAddFinalizer("ready") \/ UpdateReplyLost(WithFinalizer)
  <2>1. Current /\ Put(key, WithFinalizer)
    BY <1>4 DEF UpdateAddFinalizer, UpdateReplyLost
  <2>2. key \in CR /\ obj = store[key]
    BY <1>1, <2>1, CurrentObject DEF IInv
  <2>3. /\ WithFinalizer.uid = obj.uid /\ WithFinalizer.spec = obj.spec
        /\ WithFinalizer.deleting = FALSE
        /\ WithFinalizer.cond = obj.cond /\ WithFinalizer.gen = obj.gen
        /\ obj.exists
    BY <1>1, <2>1, WithFinalizerSound DEF IInv, KubeInv, InHand
  <2>4. Ready(WithFinalizer) => Ready(store[key]) /\ ~store[key].deleting
    BY <2>2, <2>3 DEF Ready, IInv, Earned, Verified
  <2>5. Ready(WithFinalizer) =>
          <<key, WithFinalizer.uid, Target(key, WithFinalizer.spec)>> \in verified
    BY <2>2, <2>3, <2>4 DEF IInv, Earned, Verified
  <2>6. Ready(WithFinalizer) /\ Owned(key, Target(key, WithFinalizer.spec))
          => roles[Target(key, WithFinalizer.spec)] # NoRole
    BY <2>2, <2>3, <2>4 DEF IInv, Earned, ReadyMeansRole
  <2>7. Earned'
    BY <1>1, <2>1, <2>2, <2>3, <2>5, <2>6, EarnedWrite DEF Put
  <2>8. CASE UpdateAddFinalizer("ready")
    <3>1. KubeInv'
      BY <1>1, <2>8, UpdateAddFinalizerKeeps DEF IInv
    <3>2. pc' = "ready" /\ key' = key /\ obj' = WithFinalizer
      BY <2>8 DEF UpdateAddFinalizer
    <3>3. roleName' = roleName /\ password' = password
      BY <1>1, <2>3, <3>2 DEF roleName, HoldPassword
    <3>4. TypeOK'
      BY <1>1, <3>1, <3>2, <3>3 DEF IInv, KubeInv, TypeOK, InstTypeOK
    <3>5. Phases'
      BY <1>1, <2>3, <3>2, <3>3 DEF IInv, Phases, HasPassword, ReadPc, DropPc
    <3> QED
      BY <2>7, <3>1, <3>4, <3>5 DEF IInv
  <2>9. CASE UpdateReplyLost(WithFinalizer)
    <3>1. KubeInv'
      BY <1>1, <2>9, UpdateReplyLostKeeps DEF IInv
    <3>2. pc' = "idle"
      BY <2>9 DEF UpdateReplyLost, Return
    <3>3. TypeOK'
      BY <1>1, <1>2, <3>1, <3>2 DEF IInv, KubeInv, TypeOK, InstTypeOK
    <3>4. Phases'
      BY <3>2 DEF Phases, LivePc, ReadPc, DropPc
    <3> QED
      BY <2>7, <3>1, <3>3, <3>4 DEF IInv
  <2> QED
    BY <1>4, <2>8, <2>9
<1> QED
  BY <1>3, <1>4 DEF AddFinalizer

\* Ready=True lands on the incarnation that earned it; if the generation is
\* still the one the worker read, so is the role.
LEMMA MarkReadyStep ==
  ASSUME IInv, MarkReady
  PROVE  IInv'
<1>1. /\ pc = "ready" /\ quota \in 0 .. MaxDisturbances
      /\ Report("True", "exists", quota, requeueResult(obj.spec))
      /\ UNCHANGED <<secret, inst, roles, pinned, verified, cause>>
      /\ password' \in Password \cup {NoPassword}
  BY DEF MarkReady, Succeeded, HoldPassword, IInv, TypeOK, KubeTypeOK
<1>2. KubeInv'
  BY <1>1, ReportKeeps DEF IInv, Message
<1>3. pc' = "idle"
  BY <1>1, ReportCases DEF Return
<1>4. TypeOK'
  BY <1>1, <1>2, <1>3 DEF IInv, KubeInv, TypeOK, InstTypeOK
<1>5. Phases'
  BY <1>3 DEF Phases, LivePc, ReadPc, DropPc
<1>6. CASE store' = store
  BY <1>1, <1>2, <1>4, <1>5, <1>6, EarnedElse DEF IInv
<1>7. CASE store[key].exists /\ Put(key, Patched("True", "exists"))
  <2> DEFINE n == Patched("True", "exists")
             w == store[key]
  <2>1. /\ key \in CR /\ n.uid = w.uid /\ n.deleting = w.deleting
        /\ n.spec = w.spec /\ n.gen = w.gen /\ n.cond.gen = obj.gen
    BY <1>1, <1>7, PatchedSound DEF IInv, Message
  <2>2. store' = [store EXCEPT ![key] = n]
    BY <1>7 DEF Put
  <2> HIDE DEF n
  <2>3. /\ obj.uid = w.uid /\ <<key, obj.uid, roleName>> \in verified
        /\ obj.gen = w.gen => obj.spec = w.spec /\ ~w.deleting
    BY <1>1 DEF IInv, KubeInv, InHand, Precedes, Phases
  <2>4. /\ roleName \in Targets /\ password \in Password
        /\ Owned(key, roleName) => roles[roleName] = Stored(password)
    BY <1>1, roleNameType DEF IInv, Phases, ReadPc, HasPassword
  <2>5. Owned(key, roleName) => roles[roleName] # NoRole
    BY <2>4, StoredIsRole
  <2>6. Ready(n) => Target(key, n.spec) = roleName /\ ~n.deleting
    BY <2>1, <2>3 DEF Ready, roleName
  <2>7. Earned'
    BY <1>1, <2>1, <2>2, <2>3, <2>5, <2>6, EarnedWrite
  <2> QED
    BY <1>2, <1>4, <1>5, <2>7 DEF IInv
<1> QED
  BY <1>1, <1>6, <1>7, ReportCases

---------------------------------------------------------------------------
(* handleDeletion.                                                         *)

\* The role that handleDeletion drops is not the owned role of a resource
\* that is Ready: not of another one, by ownership, and not of a later
\* incarnation of this one, which would lack the finalizer.
LEMMA NoVictim ==
  ASSUME IInv, pc \in DropPc, NEW cr \in CR, Ready(store[cr]), Owned(cr, roleName)
  PROVE  Target(cr, store[cr].spec) # roleName
<1>1. key \in CR /\ obj.spec \in SpecOf[key] /\ obj.deleting /\ pc # "idle"
  BY roleNameType DEF IInv, Phases, DropPc
<1>2. CASE cr # key
  BY <1>1, <1>2 DEF Owned, roleName
<1>3. CASE cr = key
  <2>1. ~store[key].deleting /\ store[key].finalizer
    BY <1>3 DEF Ready, IInv, KubeInv, Conditions, Earned, Verified
  <2>2. obj.uid = store[key].uid /\ store[key].deleting
    BY <1>1, <2>1 DEF IInv, KubeInv, InHand, Precedes
  <2> QED
    BY <2>1, <2>2
<1> QED
  BY <1>2, <1>3

\* DROP ROLE takes no role from a resource that is Ready.
LEMMA DroppedEarned ==
  ASSUME IInv, pc \in DropPc, store' = store, verified' = verified,
         roles' \in {roles, [roles EXCEPT ![roleName] = NoRole]}
  PROVE  Earned' /\ roles' \in [Targets -> StoredPassword \cup {NoRole}]
<1>1. roles' \in [Targets -> StoredPassword \cup {NoRole}]
      /\ \A t \in Targets \ {roleName} : roles'[t] = roles[t]
  BY roleNameType DEF DropPc, IInv, TypeOK
<1>2. \A cr \in CR : Target(cr, store[cr].spec) \in Targets
  BY TargetType, Fields DEF IInv, KubeInv, KubeTypeOK
<1>3. ASSUME NEW cr \in CR, Ready(store[cr]), Owned(cr, Target(cr, store[cr].spec))
      PROVE  Target(cr, store[cr].spec) # roleName
  BY <1>3, NoVictim
<1>4. Earned'
  BY <1>1, <1>2, <1>3, EarnedElse
<1> QED
  BY <1>1, <1>4

\* An error of handleDeletion, possibly after the drop took effect.
LEMMA DeletionErrorStep ==
  ASSUME IInv, pc \in DropPc,
         NEW left, DeletionError(left), left = quota \/ (quota > 0 /\ left = quota - 1),
         UNCHANGED <<secret, inst, pinned, password, verified>>,
         roles' \in {roles, [roles EXCEPT ![roleName] = NoRole]}
  PROVE  IInv'
<1>1. left \in 0 .. MaxDisturbances
  BY KubeAssumption DEF IInv, TypeOK, KubeTypeOK
<1>2. KubeInv'
  BY <1>1, ReturnKeeps DEF IInv, DeletionError, DropPc
<1>3. pc' = "idle" /\ store' = store /\ cause' = cause
  BY DEF DeletionError, Return
<1>4. Earned' /\ roles' \in [Targets -> StoredPassword \cup {NoRole}]
  BY <1>3, DroppedEarned
<1>5. TypeOK'
  BY <1>2, <1>3, <1>4 DEF IInv, KubeInv, TypeOK, InstTypeOK
<1>6. Phases'
  BY <1>3 DEF Phases, LivePc, ReadPc, DropPc
<1> QED
  BY <1>2, <1>4, <1>5, <1>6 DEF IInv

\* Cleanup is done, or given up.
LEMMA CleanedUpStep ==
  ASSUME IInv, pc \in DropPc, NEW why \in {"dropped", "notFound"}, CleanedUp(why),
         UNCHANGED <<secret, inst, pinned, password, verified>>,
         roles' \in {roles, [roles EXCEPT ![roleName] = NoRole]},
         why = "dropped" => roles'[roleName] = NoRole
  PROVE  IInv'
<1>1. pc' = "release" /\ cause' = why /\ UNCHANGED <<store, key, obj>>
  BY DEF CleanedUp, GoTo
<1>2. obj.deleting
  BY DEF IInv, Phases
<1>3. KubeInv'
  BY <1>2, GoToKeeps DEF IInv, CleanedUp, DropPc
<1>4. roleName' = roleName
  BY <1>1 DEF roleName
<1>5. Earned' /\ roles' \in [Targets -> StoredPassword \cup {NoRole}]
  BY <1>1, DroppedEarned
<1>6. TypeOK'
  BY <1>1, <1>3, <1>5 DEF IInv, KubeInv, TypeOK, InstTypeOK
<1>7. Phases'
  BY <1>1, <1>4 DEF Phases, LivePc, ReadPc, DropPc
<1> QED
  BY <1>3, <1>5, <1>6, <1>7 DEF IInv

\* connectToPostgres in handleDeletion.
LEMMA ConnectDropStep ==
  ASSUME IInv, ConnectDrop
  PROVE  IInv'
<1>1. /\ pc = "connectDrop" /\ TypeOK
      /\ UNCHANGED <<secret, inst, roles, pinned, password, verified>>
  BY DEF ConnectDrop, IInv
<1>2. CASE GoTo("existsDrop") /\ UNCHANGED cause
  BY <1>1, <1>2, MoveStep DEF TypeOK
<1>3. CASE CleanedUp("notFound")
  BY <1>1, <1>3, CleanedUpStep DEF DropPc
<1>4. CASE DeletionError(quota)
  BY <1>1, <1>4, DeletionErrorStep DEF DropPc
<1> QED
  BY <1>2, <1>3, <1>4 DEF ConnectDrop

\* The existence check of DropRole.
LEMMA DropExistsStep ==
  ASSUME IInv, DropExists
  PROVE  IInv'
<1>1. /\ pc = "existsDrop" /\ TypeOK
      /\ UNCHANGED <<secret, inst, roles, pinned, password, verified>>
  BY DEF DropExists, IInv
<1>2. CASE roles[roleName] = NoRole /\ CleanedUp("dropped")
  BY <1>1, <1>2, CleanedUpStep DEF DropPc
<1>3. CASE GoTo("drop") /\ UNCHANGED cause
  BY <1>1, <1>3, MoveStep DEF TypeOK
<1>4. CASE quota > 0 /\ DeletionError(quota - 1)
  BY <1>1, <1>4, DeletionErrorStep DEF DropPc
<1> QED
  BY <1>2, <1>3, <1>4 DEF DropExists

\* DROP ROLE.
LEMMA DropRoleStep ==
  ASSUME IInv, DropRole
  PROVE  IInv'
<1> DEFINE allowed == roles[roleName] # NoRole /\ roleName \notin pinned
           dropped == [roles EXCEPT ![roleName] = NoRole]
<1>1. pc = "drop" /\ UNCHANGED <<secret, inst, pinned, password, verified>>
  BY DEF DropRole
<1>2. dropped[roleName] = NoRole
  BY <1>1, roleNameType DEF IInv, TypeOK
<1>3. CASE roles' = dropped /\ CleanedUp("dropped")
  BY <1>1, <1>2, <1>3, CleanedUpStep DEF DropPc
<1>4. CASE DeletionError(quota) /\ UNCHANGED roles
  BY <1>1, <1>4, DeletionErrorStep DEF DropPc
<1>5. CASE /\ quota > 0 /\ DeletionError(quota - 1)
           /\ roles' \in {roles, IF allowed THEN dropped ELSE roles}
  BY <1>1, <1>5, DeletionErrorStep DEF DropPc
<1> QED
  BY <1>3, <1>4, <1>5 DEF DropRole

\* The finalizer is removed, whether or not the worker learns of it.
LEMMA RemoveFinalizerStep ==
  ASSUME IInv, RemoveFinalizer
  PROVE  IInv'
<1>1. /\ pc = "release" /\ TypeOK /\ cause' = "none"
      /\ UNCHANGED <<secret, inst, roles, pinned, password, verified>>
  BY DEF RemoveFinalizer, IInv
<1>2. CASE UpdateConflict \/ UpdateError
  <2>1. KubeInv'
    BY <1>1, <1>2, UpdateFailedKeeps DEF IInv
  <2>2. pc' = "idle" /\ store' = store
    BY <1>2 DEF UpdateConflict, UpdateError, Return
  <2> QED
    BY <1>1, <2>1, <2>2, IdleStep DEF TypeOK
<1>3. CASE UpdateRemoveFinalizer \/ UpdateReplyLost(WithoutFinalizer)
  <2>1. Current /\ Put(key, WithoutFinalizer) /\ pc' = "idle"
    BY <1>3 DEF UpdateRemoveFinalizer, UpdateReplyLost, Return
  <2>2. KubeInv'
    BY <1>1, <1>3, UpdateRemoveFinalizerKeeps, UpdateReplyLostKeeps DEF IInv
  <2>3. TypeOK'
    BY <1>1, <2>1, <2>2 DEF IInv, KubeInv, TypeOK, InstTypeOK
  <2>4. Phases'
    BY <2>1 DEF Phases, LivePc, ReadPc, DropPc
  <2>5. /\ key \in CR /\ obj = store[key] /\ obj.exists /\ obj.deleting
        /\ WithoutFinalizer.gen = obj.gen /\ WithoutFinalizer.cond = obj.cond
    BY <1>1, <2>1, CurrentObject, WithoutFinalizerSound DEF IInv, KubeInv, InHand
  <2>6. ~Ready(WithoutFinalizer)
    BY <2>5 DEF Ready, IInv, Earned, Verified
  <2>7. Earned'
    BY <1>1, <2>1, <2>5, <2>6, EarnedWrite DEF Put
  <2> QED
    BY <2>2, <2>3, <2>4, <2>7 DEF IInv
<1> QED
  BY <1>2, <1>3 DEF RemoveFinalizer

---------------------------------------------------------------------------
(* The inductive invariant.                                                *)

\* The initial states.
LEMMA InitIInv == Init => IInv
<1> SUFFICES ASSUME Init PROVE IInv
  OBVIOUS
<1>1. KubeInv /\ pc = "idle" /\ store = [cr \in CR |-> Never]
  BY KubeInitInv DEF Init, KubeInit
<1>2. TypeOK
  BY <1>1 DEF Init, InstInit, KubeInv, TypeOK, InstTypeOK
<1>3. Phases
  BY <1>1 DEF Phases, LivePc, ReadPc, DropPc
<1>4. ~Ready(Never)
  BY DEF Never, Ready
<1> HIDE DEF Never
<1>5. Earned
  BY <1>1, <1>4 DEF Earned, Verified, ReadyMeansRole
<1> QED
  BY <1>1, <1>2, <1>3, <1>5 DEF IInv

\* Every step keeps the inductive invariant.
LEMMA NextIInv == IInv /\ [Next]_vars => IInv'
<1> SUFFICES ASSUME IInv, [Next]_vars PROVE IInv'
  OBVIOUS
<1>1. ASSUME NEW cr \in CR, Users(cr), UNCHANGED userVars PROVE IInv'
  BY <1>1, UsersStep
<1>2. ASSUME NEW cr \in CR, ReleaseHold(cr), UNCHANGED userVars PROVE IInv'
  BY <1>2, UsersStep
<1>3. ASSUME NEW cr \in CR, Deliver(cr), UNCHANGED userVars PROVE IInv'
  BY <1>3, DeliverStep
<1>4. ASSUME Restart, cause' = "none", password' = NoPassword,
             UNCHANGED <<secret, inst, roles, pinned, verified>>
      PROVE  IInv'
  BY <1>4, RestartStep
<1>5. ASSUME NEW ns \in Namespace, InstChange(ns),
             UNCHANGED <<secret, roles, pinned, password, verified, cause>>
      PROVE  IInv'
  BY <1>5, InstChangeStep
<1>6. CASE SecretChange
  BY <1>6, SecretChangeStep
<1>7. CASE Pin
  BY <1>7, PinStep
<1>8. CASE OtherClient
  BY <1>8, OtherClientStep
<1>9. ASSUME NEW cr \in CR, Take(cr) PROVE IInv'
  BY <1>9, TakeStep
<1>10. CASE Work
  BY <1>10, ConnectStep, getSecretValueStep, RoleExistsStep, AlterRoleStep,
     CreateRoleStep, AddFinalizerStep, MarkReadyStep, ConnectDropStep,
     DropExistsStep, DropRoleStep, RemoveFinalizerStep DEF Work
<1>11. CASE UNCHANGED vars
  <2>1. UNCHANGED userVars /\ UNCHANGED <<store, watch, cache, queue, pc, key, obj, quota>>
    BY <1>11 DEF vars, kubeVars
  <2>2. KubeInv'
    BY <2>1 DEF IInv, KubeInv, KubeTypeOK, Ordered, Finalized, Conditions,
                InHand, Informer
  <2>3. TypeOK' /\ Earned'
    BY <2>1, <2>2, EarnedElse DEF IInv, KubeInv, TypeOK, InstTypeOK, userVars
  <2>4. Phases'
    BY <2>1, PhasesStay DEF userVars
  <2> QED
    BY <2>2, <2>3, <2>4 DEF IInv
<1> QED
  BY <1>1, <1>2, <1>3, <1>4, <1>5, <1>6, <1>7, <1>8, <1>9, <1>10, <1>11 DEF Next

---------------------------------------------------------------------------
(* Nothing is forgotten.                                                   *)

\* The worker's steps lose no resource that is due.
LEMMA WorkAttends ==
  ASSUME IInv, Attention, Work
  PROVE  Attention'
<1>1. KubeInv /\ (pc \in LivePc => ~obj.deleting)
  BY DEF IInv, Phases
<1>2. ASSUME NEW message, NEW left, Failed(message, left), pc \in LivePc
      PROVE  Attention'
  BY <1>1, <1>2, ReportAttends, SanePositive DEF Failed, LivePc
<1>3. CASE MarkReady
  BY <1>1, <1>3, ReportAttends, SanePositive DEF MarkReady, Succeeded, LivePc
<1>4. ASSUME NEW next, next # "idle", pc # "idle", GoTo(next) PROVE Attention'
  BY <1>4, StayAttends DEF GoTo
<1>5. ASSUME NEW left, pc # "idle", DeletionError(left) PROVE Attention'
  <2>1. Return(TRUE) /\ UNCHANGED <<store, watch, cache>>
    BY <1>5, RequeueAssumption DEF DeletionError, Return
  <2> QED
    BY <1>1, <1>5, <2>1, ReturnAttend
<1>6. CASE Connect \/ getSecretValue
  BY <1>2, <1>4, <1>6 DEF Connect, getSecretValue, LivePc
<1>7. CASE RoleExists \/ AlterRole \/ CreateRole
  BY <1>2, <1>4, <1>7 DEF RoleExists, AlterRole, CreateRole, Applied, LivePc
<1>8. CASE ConnectDrop \/ DropExists \/ DropRole
  BY <1>4, <1>5, <1>8 DEF ConnectDrop, DropExists, DropRole, CleanedUp
<1>9. CASE AddFinalizer
  <2>1. pc # "idle"
    BY <1>9 DEF AddFinalizer
  <2>2. CASE UpdateAddFinalizer("ready")
    BY <1>1, <2>1, <2>2, AddFinalizerAttends
  <2> QED
    BY <1>1, <1>9, <2>1, <2>2, UpdateAttends DEF AddFinalizer
<1>10. CASE RemoveFinalizer
  BY <1>1, <1>10, UpdateAttends DEF RemoveFinalizer
<1> QED
  BY <1>3, <1>6, <1>7, <1>8, <1>9, <1>10 DEF Work

\* Neither do the other steps.
LEMMA NextAttends == IInv /\ Attention /\ [Next]_vars => Attention'
<1> SUFFICES ASSUME IInv, Attention, [Next]_vars PROVE Attention'
  OBVIOUS
<1>1. KubeInv
  BY DEF IInv
<1>2. ASSUME NEW cr \in CR, Users(cr) \/ ReleaseHold(cr) PROVE Attention'
  <2>1. PICK n : Put(cr, n)
    BY <1>1, <1>2, OthersKeep DEF Users
  <2>2. UNCHANGED <<cache, queue, pc, key, obj>>
    BY <1>2 DEF Users, UserCreate, UserEdit, UserDelete, ReleaseHold
  <2> QED
    BY <1>1, <2>1, <2>2, OthersAttend
<1>3. ASSUME NEW cr \in CR, Deliver(cr) PROVE Attention'
  BY <1>1, <1>3, DeliverAttends
<1>4. CASE Restart
  BY <1>4, RestartAttends
<1>5. CASE \/ \E ns \in Namespace : InstChange(ns)
           \/ SecretChange \/ Pin \/ OtherClient \/ UNCHANGED vars
  <2>1. UNCHANGED <<store, watch, cache, queue, pc, key, obj>>
    BY <1>5 DEF InstChange, SecretChange, Pin, OtherClient, vars, kubeVars
  <2> QED
    BY <2>1, StayAttends
<1>6. ASSUME NEW cr \in CR, Take(cr) PROVE Attention'
  <2>1. CASE ReconcileGone(cr)
    BY <2>1, ReconcileNothingAttends DEF ReconcileGone, Due
  <2>2. CASE ReconcileLive(cr) \/ handleDeletion(cr)
    <3>1. \E next : ReconcileObject(cr, next)
      BY <2>2 DEF ReconcileLive, handleDeletion
    <3> QED
      BY <1>1, <3>1, ReconcileObjectAttends
  <2> QED
    BY <1>6, <2>1, <2>2 DEF Take
<1>7. CASE Work
  BY <1>7, WorkAttends
<1> QED
  BY <1>2, <1>3, <1>4, <1>5, <1>6, <1>7 DEF Next

---------------------------------------------------------------------------
(* Theorems.                                                               *)

\* The inductive invariant holds in every behaviour of the controller.
THEOREM Invariance == Spec => []IInv
BY InitIInv, NextIInv, PTL DEF Spec

\* Every variable of the controller keeps its type; in particular the server
\* stores nothing for a role but what a readable Secret gave.
THEOREM TypeCorrect == Spec => []TypeOK
<1>1. IInv => TypeOK
  BY DEF IInv
<1> QED
  BY <1>1, Invariance, PTL

\* Ready=True for the current generation was earned by this very incarnation
\* for the role its spec names now, and the finalizer guards that role.
THEOREM GuardedWhenReady == Spec => []ReadyIsGuarded
<1>1. IInv => ReadyIsGuarded
  BY DEF IInv, Earned, Verified, ReadyIsGuarded, Ready, KubeInv, Conditions
<1> QED
  BY <1>1, Invariance, PTL

\* The role of a live resource that is Ready exists, unless another resource
\* or another client may touch it.
THEOREM RoleExistsWhenReady == Spec => []ReadyMeansRole
<1>1. IInv => ReadyMeansRole
  BY DEF IInv, Earned
<1> QED
  BY <1>1, Invariance, PTL

\* A reconcile that reports success leaves the role with the password which
\* that reconcile read, unless another resource or client may touch the role.
THEOREM PasswordApplied == Spec => ReportedPasswordApplied
<1> DEFINE A == pc = "ready" /\ pc' = "idle" /\ key # NoCR /\ Owned(key, roleName)
                  => password # NoPassword /\ roles[roleName] = Stored(password)
<1>1. IInv => A
  BY UserAssumption DEF IInv, Phases, ReadPc, HasPassword
<1>2. IInv /\ [Next]_vars => [A]_vars
  BY <1>1
<1> QED
  BY <1>2, Invariance, PTL DEF Spec, ReportedPasswordApplied

\* No resource that lives with sane intervals, or that waits for its cleanup,
\* is ever without a request, a reconcile or an undelivered version.
THEOREM NothingForgotten == Spec => []NeverForgotten
<1>1. Init => Attention
  BY InitAttends DEF Init
<1>2. Attention => NeverForgotten
  BY DEF Attention, Remembered, NeverForgotten
<1> QED
  BY <1>1, <1>2, NextAttends, Invariance, PTL DEF Spec

\* Only handleDeletion's Update takes the finalizer off a resource, from the
\* version the worker holds.
LEMMA WhoReleases ==
  ASSUME IInv, [Next]_vars, NEW cr \in CR,
         store[cr].finalizer, ~store'[cr].finalizer
  PROVE  pc = "release" /\ cr = key /\ obj = store[cr] /\ roles' = roles
<1>1. store \in [CR -> Version]
  BY DEF IInv, KubeInv, KubeTypeOK
<1>2. store' # store
  OBVIOUS
<1>3. ASSUME NEW c \in CR, Users(c) \/ ReleaseHold(c) PROVE FALSE
  <2>1. PICK n : Put(c, n) /\ Quiet(c, n)
    BY <1>3, OthersKeep DEF Users, IInv
  <2> QED
    BY <1>1, <2>1 DEF Put, Quiet
<1>4. ASSUME NEW status \in {"True", "False"}, NEW message \in Message, NEW left,
             pc # "idle", status = "True" => pc = "ready", NEW after,
             Report(status, message, left, after)
      PROVE  FALSE
  <2>1. store[key].exists /\ Put(key, Patched(status, message))
    BY <1>2, <1>4, ReportCases
  <2>2. Patched(status, message).finalizer = store[key].finalizer /\ key \in CR
    BY <1>4, <2>1, PatchedSound DEF IInv
  <2> QED
    BY <1>1, <2>1, <2>2 DEF Put
<1>5. CASE AddFinalizer
  <2>1. pc = "finalize" /\ Current /\ Put(key, WithFinalizer)
    BY <1>2, <1>5 DEF AddFinalizer, UpdateAddFinalizer, UpdateReplyLost,
                      UpdateConflict, UpdateError
  <2>2. WithFinalizer.finalizer = TRUE /\ key \in CR
    BY <2>1, WithFinalizerSound, CurrentObject DEF IInv
  <2> QED
    BY <1>1, <2>1, <2>2 DEF Put
<1>6. CASE RemoveFinalizer
  <2>1. pc = "release" /\ Current /\ Put(key, WithoutFinalizer) /\ roles' = roles
    BY <1>2, <1>6 DEF RemoveFinalizer, UpdateRemoveFinalizer, UpdateReplyLost,
                      UpdateConflict, UpdateError
  <2>2. obj = store[key] /\ key \in CR
    BY <2>1, CurrentObject DEF IInv
  <2> QED
    BY <1>1, <2>1, <2>2 DEF Put
<1>7. ASSUME Connect \/ getSecretValue \/ RoleExists \/ AlterRole \/ CreateRole
             \/ MarkReady
      PROVE  FALSE
  <2>1. \E status \in {"True", "False"} : \E message \in Message : \E left :
          /\ pc # "idle"
          /\ status = "True" => pc = "ready"
          /\ \E after : Report(status, message, left, after)
    BY <1>2, <1>7 DEF Connect, getSecretValue, RoleExists, AlterRole, CreateRole,
                      MarkReady, Applied, GoTo, Message, Failed, Succeeded
  <2> QED
    BY <1>4, <2>1
<1>8. CASE Work
  BY <1>2, <1>5, <1>6, <1>7, <1>8 DEF Work, ConnectDrop, DropExists, DropRole,
     CleanedUp, GoTo, DeletionError
<1>9. ASSUME NEW c \in CR, Take(c) PROVE FALSE
  BY <1>2, <1>9 DEF Take, ReconcileGone, ReconcileLive, handleDeletion,
     ReconcileNothing, ReconcileObject
<1> QED
  BY <1>2, <1>3, <1>8, <1>9 DEF Next, Deliver, Restart, InstChange, SecretChange,
     Pin, OtherClient, vars, kubeVars

\* When it does, and cleanup was asked for, the role is gone.
LEMMA CleanRelease ==
  ASSUME IInv, [Next]_vars, NEW cr \in CR,
         store[cr].finalizer, ~store'[cr].finalizer,
         store[cr].spec.cleanupPolicy = "Delete",
         Owned(cr, Target(cr, store[cr].spec))
  PROVE  roles'[Target(cr, store[cr].spec)] = NoRole \/ cause = "notFound"
<1>1. pc = "release" /\ cr = key /\ obj = store[cr] /\ roles' = roles
  BY WhoReleases
<1> QED
  BY <1>1 DEF IInv, Phases, roleName

\* A resource with cleanupPolicy Delete loses its finalizer only when its
\* role is gone or connectToPostgres met a missing PostgreSQL resource.
THEOREM CleanupPrecedesRelease == Spec => CleanupBeforeRelease
<1> DEFINE B == \A cr \in CR :
                  LET v == store[cr]
                  IN  /\ v.finalizer /\ ~store'[cr].finalizer
                      /\ v.spec.cleanupPolicy = "Delete"
                      /\ Owned(cr, Target(cr, v.spec))
                      => roles'[Target(cr, v.spec)] = NoRole \/ cause = "notFound"
<1>1. IInv /\ [Next]_vars => [B]_vars
  BY CleanRelease
<1> QED
  BY <1>1, Invariance, PTL DEF Spec, CleanupBeforeRelease

---------------------------------------------------------------------------
(* What a composition of controllers relies on.                            *)

\* The steps of the controller and of its informer, and users who delete.
Calm ==
  \/ \E cr \in CR : (UserDelete(cr) \/ Deliver(cr)) /\ UNCHANGED userVars
  \/ \E cr \in CR : Take(cr)
  \/ Work

\* Every resource keeps to one role, has it for itself, and asks for its
\* cleanup.
Sole ==
  \A cr \in CR : \A s \in SpecOf[cr] :
    /\ s.cleanupPolicy = "Delete" /\ Owned(cr, Target(cr, s))
    /\ \A r \in SpecOf[cr] : Target(cr, r) = Target(cr, s)

AllUp == \A ns \in Namespace : inst[ns] = "ok"

\* Every role on the servers is one that a resource's finalizer will have
\* dropped.
Anchored ==
  /\ cause # "notFound"
  /\ \A t \in Targets : roles[t] # NoRole =>
       \E cr \in CR : \E s \in SpecOf[cr] : t = Target(cr, s) /\ store[cr].finalizer

\* Others come and go: they cost disturbances, grant and revoke privileges.
LEMMA OthersGo ==
  IInv /\ UNCHANGED <<store, watch, cache, queue, pc, key, obj>>
       /\ UNCHANGED <<secret, inst, roles, password, verified, cause>>
       /\ quota' \in 0 .. MaxDisturbances /\ pinned' \in SUBSET Targets
    => /\ IInv'
       /\ Guarded => Guarded'
       /\ Anchored => Anchored'
<1> SUFFICES ASSUME IInv, UNCHANGED <<store, watch, cache, queue, pc, key, obj>>,
                    UNCHANGED <<secret, inst, roles, password, verified, cause>>,
                    quota' \in 0 .. MaxDisturbances, pinned' \in SUBSET Targets
             PROVE  /\ IInv'
                    /\ Guarded => Guarded'
                    /\ Anchored => Anchored'
  OBVIOUS
<1>1. Guarded => Guarded'
  BY DEF Guarded, Informer
<1>2. Anchored => Anchored'
  BY DEF Anchored, Target, PgNamespace, RoleName
<1> QED
  BY <1>1, <1>2, OutsideStep DEF IInv, TypeOK, InstTypeOK

\* A crash.
LEMMA Recovers ==
  IInv /\ Restart /\ cause' = "none" /\ password' = NoPassword
       /\ UNCHANGED <<secret, inst, roles, pinned, verified>>
    => /\ IInv'
       /\ Guarded => Guarded' /\ NoneMade
       /\ Anchored => Anchored'
<1> SUFFICES ASSUME IInv, Restart, cause' = "none", password' = NoPassword,
                    UNCHANGED <<secret, inst, roles, pinned, verified>>
             PROVE  /\ IInv'
                    /\ Guarded => Guarded' /\ NoneMade
                    /\ Anchored => Anchored'
  OBVIOUS
<1>1. store' = store
  BY DEF Restart
<1>2. Anchored => Anchored'
  BY <1>1 DEF Anchored, Target, PgNamespace, RoleName
<1> QED
  BY <1>2, RestartStep, RestartGuards DEF IInv

\* The controller's own steps.
LEMMA CalmNext == Calm => Next
BY DEF Calm, Next, Users

LEMMA CalmLeaves == Calm => UNCHANGED <<secret, inst, pinned>>
BY DEF Calm, userVars, Take, ReconcileGone, ReconcileLive, handleDeletion, Work, Connect,
   getSecretValue, RoleExists, AlterRole, CreateRole, AddFinalizer, MarkReady, ConnectDrop,
   DropExists, DropRole, RemoveFinalizer

\* A role that holds privileges does not go.
LEMMA CalmDrops ==
  ASSUME IInv, Calm, NEW t \in pinned, roles[t] # NoRole
  PROVE  roles'[t] # NoRole
<1>1. CASE roles' = roles
  BY <1>1
<1>2. CASE DropRole
  <2>1. roles' = roles \/ (roleName # t /\ roles' = [roles EXCEPT ![roleName] = NoRole])
    BY <1>2 DEF DropRole
  <2> QED
    BY <1>1, <2>1 DEF IInv, TypeOK
<1>3. CASE pc \in {"alter", "create"} /\ roles' = Assigned
  <2>1. Stored(password) # NoRole
    BY <1>3, RoleAssumption DEF IInv, Phases, ReadPc, StoredPassword
  <2> QED
    BY <1>3, <2>1 DEF IInv, TypeOK, Assigned
<1>4. CASE AlterRole \/ CreateRole
  BY <1>1, <1>3, <1>4 DEF AlterRole, CreateRole
<1> QED
  BY <1>1, <1>2, <1>4 DEF Calm, userVars, Take, ReconcileGone, ReconcileLive, handleDeletion,
     Work, Connect, getSecretValue, RoleExists, AddFinalizer, MarkReady, ConnectDrop,
     DropExists, RemoveFinalizer

\* The worker leaves no live version without the finalizer.
LEMMA WorkGuards ==
  ASSUME IInv, Guarded, Work
  PROVE  Guarded' /\ NoneMade
<1>1. KubeInv
  BY DEF IInv
<1>2. ASSUME NEW message \in Message, NEW left, pc # "idle", Failed(message, left)
      PROVE  Guarded' /\ NoneMade
  BY <1>1, <1>2, ReportGuards DEF Failed
<1>3. CASE MarkReady
  BY <1>1, <1>3, ReportGuards DEF MarkReady, Succeeded, Message
<1>4. ASSUME NEW next, pc # "idle", GoTo(next) PROVE Guarded' /\ NoneMade
  BY <1>4, StayGuards DEF GoTo
<1>5. ASSUME NEW left, DeletionError(left) PROVE Guarded' /\ NoneMade
  BY <1>5, StayGuards DEF DeletionError, Return
<1>6. CASE Connect \/ getSecretValue
  BY <1>2, <1>4, <1>6 DEF Connect, getSecretValue, Message
<1>7. CASE RoleExists \/ AlterRole \/ CreateRole
  BY <1>2, <1>4, <1>7 DEF RoleExists, AlterRole, CreateRole, Applied, Message
<1>8. CASE ConnectDrop \/ DropExists \/ DropRole
  BY <1>4, <1>5, <1>8 DEF ConnectDrop, DropExists, DropRole, CleanedUp
<1>9. CASE AddFinalizer \/ RemoveFinalizer
  BY <1>1, <1>9, UpdateGuards DEF AddFinalizer, RemoveFinalizer
<1> QED
  BY <1>3, <1>6, <1>7, <1>8, <1>9 DEF Work

LEMMA CalmGuards == IInv /\ Guarded /\ Calm => Guarded' /\ NoneMade
<1> SUFFICES ASSUME IInv, Guarded, Calm PROVE Guarded' /\ NoneMade
  OBVIOUS
<1>1. KubeInv
  BY DEF IInv
<1>2. ASSUME NEW cr \in CR, Take(cr) PROVE Guarded' /\ NoneMade
  <2>1. CASE ReconcileGone(cr)
    BY <2>1, StayGuards DEF ReconcileGone, ReconcileNothing, Get
  <2>2. CASE ReconcileLive(cr) \/ handleDeletion(cr)
    <3>1. \E next : ReconcileObject(cr, next)
      BY <2>2 DEF ReconcileLive, handleDeletion
    <3> QED
      BY <3>1, ReconcileObjectGuards
  <2> QED
    BY <1>2, <2>1, <2>2 DEF Take
<1> QED
  BY <1>1, <1>2, UsersGuard, DeliverGuards, WorkGuards DEF Calm

\* A role is only created for a resource that has its finalizer.
LEMMA Creates ==
  ASSUME IInv, Guarded, Calm, NEW t \in Targets, roles[t] = NoRole, roles'[t] # NoRole
  PROVE  \E cr \in CR : \E s \in SpecOf[cr] : t = Target(cr, s) /\ store'[cr].finalizer
<1>1. roles \in [Targets -> StoredPassword \cup {NoRole}]
  BY DEF IInv, TypeOK
<1>2. pc = "create" /\ roles' = Assigned
  BY <1>1 DEF Calm, userVars, Take, ReconcileGone, ReconcileLive, handleDeletion, Work,
     Connect, getSecretValue, RoleExists, AlterRole, CreateRole, AddFinalizer, MarkReady,
     ConnectDrop, DropExists, DropRole, RemoveFinalizer, Assigned
<1>3. t = roleName
  BY <1>1, <1>2 DEF Assigned
<1>4. KubeInv /\ ~obj.deleting
  BY <1>2 DEF IInv, Phases, LivePc
<1>5. key \in CR /\ store[key].finalizer /\ obj.spec \in SpecOf[key]
  BY <1>2, <1>4, InHandGuarded
<1>6. store'[key].finalizer
  BY <1>2, <1>5, CalmNext, WhoReleases
<1> QED
  BY <1>3, <1>5, <1>6 DEF roleName

\* While the servers are up, no cleanup is given up.
LEMMA NotGivenUp ==
  ASSUME IInv, AllUp, Calm, cause # "notFound"
  PROVE  cause' # "notFound"
<1>1. pc # "idle" => Connection = "connected"
  <2>1. pc # "idle" => PgNamespace(key, obj.spec.postgresRef) \in Namespace
    BY roleNameType DEF roleName, Target, Targets
  <2> QED
    BY <2>1 DEF AllUp, Connection, connectToPostgres
<1>2. CASE ConnectDrop
  BY <1>1, <1>2 DEF ConnectDrop, DeletionError
<1>3. CASE DropExists \/ DropRole
  BY <1>3 DEF DropExists, DropRole, CleanedUp, DeletionError
<1>4. CASE RemoveFinalizer
  BY <1>4 DEF RemoveFinalizer
<1>5. CASE Connect \/ getSecretValue \/ RoleExists \/ AlterRole \/ CreateRole
           \/ AddFinalizer \/ MarkReady
  BY <1>5 DEF Connect, getSecretValue, RoleExists, AlterRole, CreateRole, AddFinalizer,
     MarkReady, userVars
<1>6. ASSUME NEW cr \in CR, Take(cr) PROVE cause' # "notFound"
  BY <1>6 DEF Take, ReconcileGone, ReconcileLive, handleDeletion, userVars
<1> QED
  BY <1>2, <1>3, <1>4, <1>5, <1>6 DEF Calm, Work, userVars

\* So a role never outlives the finalizer of its resource.
LEMMA CalmAnchored ==
  Sole /\ AllUp /\ IInv /\ Guarded /\ Anchored /\ Calm => Anchored'
<1> SUFFICES ASSUME Sole, AllUp, IInv, Guarded, Anchored, Calm
             PROVE  Anchored'
  OBVIOUS
<1>1. cause # "notFound" /\ cause' # "notFound"
  BY NotGivenUp DEF Anchored
<1>2. ASSUME NEW t \in Targets, roles[t] # NoRole, roles'[t] # NoRole
      PROVE  \E cr \in CR : \E s \in SpecOf[cr] : t = Target(cr, s) /\ store'[cr].finalizer
  <2>1. PICK cr \in CR : \E s \in SpecOf[cr] : t = Target(cr, s) /\ store[cr].finalizer
    BY <1>2 DEF Anchored
  <2>2. store[cr].spec \in SpecOf[cr]
    BY <2>1 DEF IInv, KubeInv, Finalized, Ordered
  <2>3. /\ store[cr].spec.cleanupPolicy = "Delete" /\ Owned(cr, t)
        /\ Target(cr, store[cr].spec) = t
    BY <2>1, <2>2 DEF Sole
  <2>4. store'[cr].finalizer
    BY <1>1, <1>2, <2>1, <2>3, CalmNext, CleanRelease
  <2> QED
    BY <2>1, <2>4
<1>3. \A t \in Targets : roles'[t] # NoRole =>
        \E cr \in CR : \E s \in SpecOf[cr] : t = Target(cr, s) /\ store'[cr].finalizer
  BY <1>2, Creates
<1> QED
  BY <1>1, <1>3 DEF Anchored, Target, PgNamespace, RoleName

\* All of this, for one step of the controller.
LEMMA CalmStep ==
  IInv /\ Calm
    => /\ IInv' /\ UNCHANGED <<secret, inst, pinned>>
       /\ \A t \in pinned : roles[t] # NoRole => roles'[t] # NoRole
       /\ Guarded => Guarded' /\ NoneMade
       /\ Guarded /\ Anchored /\ Sole /\ AllUp => Anchored'
BY CalmNext, CalmLeaves, CalmDrops, CalmGuards, CalmAnchored, NextIInv

\* Where every resource is Ready and nothing is under way, all of it holds.
AllReady ==
  /\ AtRest /\ cause = "none"
  /\ \A cr \in CR :
       LET t == Target(cr, store[cr].spec)
       IN  <<cr, store[cr].uid, t>> \in verified /\ roles[t] # NoRole
  /\ \A t \in Targets : roles[t] # NoRole => \E cr \in CR : t = Target(cr, store[cr].spec)

LEMMA AllReadyInv == TypeOK /\ AllReady => IInv /\ Guarded /\ Anchored
<1> SUFFICES ASSUME TypeOK, AllReady PROVE IInv /\ Guarded /\ Anchored
  OBVIOUS
<1>1. KubeInv /\ Guarded
  BY AtRestInv DEF TypeOK, AllReady
<1>2. Phases
  BY DEF AllReady, AtRest, Phases, LivePc, ReadPc, DropPc
<1>3. Earned
  BY DEF AllReady, AtRest, Earned, Verified, ReadyMeansRole
<1>4. Anchored
  BY DEF AllReady, AtRest, Anchored
<1> QED
  BY <1>1, <1>2, <1>3, <1>4 DEF IInv

---------------------------------------------------------------------------
(* The implementation of Lifecycle.                                        *)

\* The refinement mapping of ImplementsLifecycle.
phase   == [cr \in CR |-> PhaseOf(store[cr])]
ready   == [cr \in CR |-> Ready(store[cr])]
spec    == [cr \in CR |-> store[cr].spec]
object  == [cr \in CR |-> ObjectOf(cr)]
givenUp == [cr \in CR |-> key = cr /\ cause = "notFound"]

Shown == INSTANCE LifecycleProofs

\* What the mapping needs to know besides IInv: a cleanup is finished or given
\* up only before the finalizer goes.
Marks == Marked /\ (cause # "none" => pc = "release")

Implemented == Shown!Next \/ UNCHANGED Shown!vars

\* No role of cr alone comes or goes (its password may change).
Untouched(cr) ==
  \A t \in Targets : Owned(cr, t) => (roles'[t] # NoRole <=> roles[t] # NoRole)

\* DROP ROLE.
Dropped == [roles EXCEPT ![roleName] = NoRole]

---------------------------------------------------------------------------
(* The mapping.                                                            *)

LEMMA IsMapped == Shown!Mapped /\ Shown!Mapped'
BY DEF Shown!Mapped, phase, ready, spec, object, givenUp

\* If no role changes, none of note does.
LEMMA RolesStay ==
  ASSUME roles' = roles
  PROVE  \A cr \in CR : Untouched(cr)
BY DEF Untouched

\* The role of a resource whose spec stays, and that nobody touches.
LEMMA ObjectStays ==
  ASSUME IInv, NEW cr \in CR, store'[cr].exists = store[cr].exists,
         store'[cr].spec = store[cr].spec, Untouched(cr)
  PROVE  ObjectOf(cr)' = ObjectOf(cr)
<1> DEFINE t == Target(cr, store[cr].spec)
<1>1. t \in Targets
  BY TargetType, Fields DEF IInv, KubeInv, KubeTypeOK
<1>2. Target(cr, store[cr].spec)' = t /\ (Owned(cr, t)' <=> Owned(cr, t))
  BY DEF Owned, Target, PgNamespace, RoleName
<1>3. Owned(cr, t) => (roles'[t] # NoRole <=> roles[t] # NoRole)
  BY <1>1 DEF Untouched
<1> HIDE DEF t
<1> QED
  BY <1>2, <1>3 DEF ObjectOf, t

\* A step in which nobody writes, and no role of note comes or goes.
LEMMA Unseen ==
  ASSUME IInv, store' = store,
         \A cr \in CR : Untouched(cr),
         \A cr \in CR : key' = cr /\ cause' = "notFound" <=> key = cr /\ cause = "notFound"
  PROVE  Implemented
<1>1. \A cr \in CR : ObjectOf(cr)' = ObjectOf(cr)
  BY ObjectStays
<1>2. \A cr \in CR : Shown!Same(cr)
  BY <1>1 DEF Shown!Same, phase, ready, spec, object, givenUp
<1> QED
  BY <1>2, IsMapped, Shown!NothingShown DEF Implemented

\* A step that writes no resource but c, and touches no role but c's.
LEMMA OneSeen ==
  ASSUME IInv, NEW c \in CR, \A cr \in CR \ {c} : store'[cr] = store[cr],
         \A cr \in CR \ {c} : Untouched(cr),
         \A cr \in CR \ {c} :
           key' = cr /\ cause' = "notFound" <=> key = cr /\ cause = "notFound"
  PROVE  Shown!Only(c)
<1>1. \A cr \in CR \ {c} : ObjectOf(cr)' = ObjectOf(cr)
  BY ObjectStays
<1>2. \A cr \in CR \ {c} : Shown!Same(cr)
  BY <1>1 DEF Shown!Same, phase, ready, spec, object, givenUp
<1> QED
  BY <1>2, IsMapped DEF Shown!Only

\* What Lifecycle sees of c, before and after a step: its phase and role,
LEMMA SeenThing ==
  ASSUME NEW c \in CR
  PROVE  /\ phase[c] = PhaseOf(store[c]) /\ phase'[c] = PhaseOf(store'[c])
         /\ object[c] = ObjectOf(c) /\ object'[c] = ObjectOf(c)'
         /\ object'[c] \in Shown!Object
<1>1. ObjectOf(c)' \in Shown!Object
  BY DEF ObjectOf, Shown!Object
<1> QED
  BY <1>1 DEF phase, object

\* its Ready condition,
LEMMA SeenReady ==
  ASSUME NEW c \in CR
  PROVE  /\ Ready(store'[c]) => ready'[c] = TRUE
         /\ ~Ready(store'[c]) => ready'[c] = FALSE
         /\ (Ready(store'[c]) <=> Ready(store[c])) => ready'[c] = ready[c]
<1>1. ready[c] = Ready(store[c]) /\ ready'[c] = Ready(store'[c])
  BY DEF ready
<1> QED
  BY <1>1 DEF Ready

\* its spec,
LEMMA SeenSpec ==
  ASSUME NEW c \in CR
  PROVE  /\ store'[c] \in Version => spec'[c] \in Specs
         /\ spec'[c] = store'[c].spec /\ spec[c] = store[c].spec
         /\ store[c].spec.cleanupPolicy # "Delete" => spec[c] \notin Cleaned
<1>1. spec'[c] = store'[c].spec /\ spec[c] = store[c].spec
  BY DEF spec
<1> QED
  BY <1>1, Fields DEF Cleaned

\* and whether the cleanup was given up.
LEMMA SeenGivenUp ==
  ASSUME NEW c \in CR
  PROVE  /\ key' = key /\ cause' = cause => givenUp'[c] = givenUp[c]
         /\ (key' = c /\ cause' = "notFound" <=> key = c /\ cause = "notFound")
              => givenUp'[c] = givenUp[c]
         /\ (key' = c /\ cause' = "notFound" <=> ~(key = c /\ cause = "notFound"))
              => givenUp'[c] = ~givenUp[c]
         /\ key = c /\ cause = "notFound" => givenUp[c]
         /\ cause' # "notFound" => givenUp'[c] = FALSE
<1>1. /\ givenUp[c] = (key = c /\ cause = "notFound")
      /\ givenUp'[c] = (key' = c /\ cause' = "notFound")
  BY DEF givenUp
<1> QED
  BY <1>1

---------------------------------------------------------------------------
(* Users and the API server.                                               *)

LEMMA UsersShown ==
  ASSUME IInv, IInv', Marks, NEW c \in CR, Users(c) \/ ReleaseHold(c),
         UNCHANGED userVars
  PROVE  Marks' /\ Implemented
<1>1. UNCHANGED <<roles, cause>>
  BY DEF userVars
<1>2. /\ Redone(store[c], store'[c]) /\ Marked' /\ UNCHANGED <<pc, key>>
      /\ \A cr \in CR \ {c} : store'[cr] = store[cr]
  BY OthersRedo DEF Users, IInv, KubeInv, Marks
<1>3. Marks'
  BY <1>1, <1>2 DEF Marks, Marked
<1>4. Shown!Only(c)
  BY <1>1, <1>2, OneSeen, RolesStay
<1>5. ready'[c] = FALSE /\ givenUp'[c] = givenUp[c]
  BY <1>1, <1>2, SeenReady, SeenGivenUp DEF Redone
<1>6. object'[c] \in Shown!Object /\ spec'[c] \in Specs
  BY SeenThing, SeenSpec DEF IInv, KubeInv, KubeTypeOK
<1>7. CASE PhaseOf(store[c]) = "absent" /\ PhaseOf(store'[c]) = "asked"
  <2>1. phase[c] = "absent" /\ phase'[c] = "asked"
    BY <1>7, SeenThing
  <2>2. Shown!Next
    BY <1>4, <1>5, <1>6, <2>1, Shown!CreateShown
  <2> QED
    BY <1>3, <2>2 DEF Implemented
<1>8. CASE /\ PhaseOf(store[c]) # "absent" /\ PhaseOf(store'[c]) = PhaseOf(store[c])
           /\ store'[c].spec # store[c].spec
  <2>1. phase[c] # "absent" /\ phase'[c] = phase[c]
    BY <1>8, SeenThing
  <2>2. spec'[c] # spec[c]
    BY <1>8, SeenSpec
  <2>3. Shown!Next
    BY <1>4, <1>5, <1>6, <2>1, <2>2, Shown!EditShown
  <2> QED
    BY <1>3, <2>3 DEF Implemented
<1>9. CASE /\ store'[c].spec = store[c].spec /\ store'[c].exists = store[c].exists
           /\ PhaseOf(store'[c]) = PhaseOf(store[c]) /\ ~Ready(store[c])
  <2>1. ObjectOf(c)' = ObjectOf(c)
    BY <1>1, <1>9, ObjectStays, RolesStay
  <2>2. phase'[c] = phase[c] /\ object'[c] = object[c] /\ spec'[c] = spec[c]
    BY <1>9, <2>1, SeenThing, SeenSpec
  <2>3. ready'[c] = ready[c]
    BY <1>2, <1>9, SeenReady DEF Redone
  <2>4. Shown!Same(c)
    BY <1>5, <2>2, <2>3 DEF Shown!Same
  <2> QED
    BY <1>3, <1>4, <2>4, IsMapped, Shown!NothingShown DEF Shown!Only, Implemented
<1>10. CASE /\ store'[c].spec = store[c].spec /\ store[c].exists /\ store'[c].exists
           /\ \/ PhaseOf(store[c]) = "asked" /\ PhaseOf(store'[c]) = "held"
              \/ PhaseOf(store[c]) = "guarded" /\ PhaseOf(store'[c]) = "leaving"
  <2>1. ObjectOf(c)' = ObjectOf(c)
    BY <1>1, <1>10, ObjectStays, RolesStay
  <2>2. object'[c] = object[c]
    BY <2>1, SeenThing
  <2>3. \/ phase[c] = "asked" /\ phase'[c] = "held"
        \/ phase[c] = "guarded" /\ phase'[c] = "leaving"
    BY <1>10, SeenThing
  <2>4. spec'[c] = spec[c]
    BY <1>10, SeenSpec
  <2>5. Shown!Next
    BY <1>4, <1>5, <2>2, <2>3, <2>4, Shown!DeleteShown
  <2> QED
    BY <1>3, <2>5 DEF Implemented
<1>11. CASE /\ store'[c].spec = store[c].spec /\ ~store'[c].exists
            /\ PhaseOf(store'[c]) = "absent"
            /\ PhaseOf(store[c]) = "asked" \/ (PhaseOf(store[c]) = "held" /\ ~Ready(store[c]))
  <2>1. ObjectOf(c)' = "any"
    BY <1>11 DEF ObjectOf
  <2>2. phase'[c] = "absent" /\ object'[c] = "any"
    BY <1>11, <2>1, SeenThing
  <2>3. spec'[c] = spec[c]
    BY <1>11, SeenSpec
  <2>4. CASE PhaseOf(store[c]) = "asked"
    <3>1. phase[c] = "asked"
      BY <2>4, SeenThing
    <3> QED
      BY <1>4, <1>5, <2>2, <2>3, <3>1, Shown!DeleteShown, <1>3 DEF Implemented
  <2>5. CASE PhaseOf(store[c]) = "held" /\ ~Ready(store[c])
    <3>1. phase[c] = "held"
      BY <2>5, SeenThing
    <3>2. ready'[c] = ready[c]
      BY <1>2, <2>5, SeenReady DEF Redone
    <3> QED
      BY <1>4, <1>5, <2>2, <2>3, <3>1, <3>2, Shown!LetGoShown, <1>3 DEF Implemented
  <2> QED
    BY <1>11, <2>4, <2>5
<1> QED
  BY <1>2, <1>7, <1>8, <1>9, <1>10, <1>11 DEF Redone

\* The worker leaves "release", with or without having been there.
LEMMA Forgets ==
  ASSUME IInv, store' = store, roles' = roles, cause' = "none"
  PROVE  Implemented
<1>1. CASE key \in CR /\ cause = "notFound"
  <2>1. PICK c \in CR : c = key
    BY <1>1
  <2>2. Shown!Only(c)
    BY <1>1, <2>1, OneSeen, RolesStay
  <2>3. ObjectOf(c)' = ObjectOf(c)
    BY <2>1, ObjectStays, RolesStay
  <2>4. phase'[c] = phase[c] /\ object'[c] = object[c]
    BY <2>3, SeenThing
  <2>5. ready'[c] = ready[c] /\ spec'[c] = spec[c]
    BY SeenReady, SeenSpec
  <2>6. givenUp'[c] = ~givenUp[c]
    BY <1>1, <2>1, SeenGivenUp
  <2>7. Shown!Next
    BY <2>1, <2>2, <2>4, <2>5, <2>6, Shown!GiveUpShown
  <2> QED
    BY <2>7 DEF Implemented
<1>2. CASE ~(key \in CR /\ cause = "notFound")
  BY <1>2, Unseen, RolesStay
<1> QED
  BY <1>1, <1>2

LEMMA RestartShown ==
  ASSUME IInv, Marks, Restart, cause' = "none", roles' = roles
  PROVE  Marks' /\ Implemented
<1>1. store' = store
  BY DEF Restart
<1> QED
  BY <1>1, Forgets DEF Marks, Marked

\* The informer, instances and other clients.
LEMMA OthersShown ==
  ASSUME IInv, Marks,
         \/ \E c \in CR : Deliver(c) /\ UNCHANGED userVars
         \/ \E ns \in Namespace : InstChange(ns) /\ UNCHANGED <<roles, cause>>
         \/ SecretChange \/ Pin \/ OtherClient
  PROVE  Marks' /\ Implemented
<1>1. UNCHANGED <<store, pc, key, cause>>
  BY DEF Deliver, InstChange, SecretChange, Pin, OtherClient, userVars
<1>2. \A cr \in CR : Untouched(cr)
  <2>1. CASE roles' = roles
    BY <2>1 DEF Untouched
  <2>2. CASE OtherClient
    BY <2>2 DEF OtherClient, Untouched, Owned, IInv, TypeOK
  <2> QED
    BY <2>1, <2>2 DEF InstChange, SecretChange, Pin, userVars
<1> QED
  BY <1>1, <1>2, Unseen, RolesStay DEF Marks, Marked

---------------------------------------------------------------------------
(* The worker.                                                             *)

\* The worker is about one resource, and has not finished its cleanup before
\* "release".
LEMMA Busy ==
  ASSUME IInv, Marks, pc # "idle"
  PROVE  /\ key \in CR /\ obj.spec \in SpecOf[key]
         /\ pc # "release" => cause = "none"
BY roleNameType DEF Marks, Marked

\* Once CreateOrUpdateRole has succeeded, the role is there.
LEMMA HasRole ==
  ASSUME IInv, pc \in {"finalize", "ready"}, Owned(key, roleName)
  PROVE  roles[roleName] # NoRole
BY StoredIsRole DEF IInv, Phases, ReadPc, HasPassword

\* What the worker does to its role is no other resource's business.
LEMMA Elsewhere ==
  ASSUME IInv, pc # "idle", roles' \in {roles, Assigned, Dropped}
  PROVE  \A cr \in CR \ {key} : Untouched(cr)
<1>1. key \in CR /\ obj.spec \in SpecOf[key]
  BY roleNameType
<1>2. \A cr \in CR \ {key} : ~Owned(cr, roleName)
  BY <1>1 DEF Owned, roleName
<1>3. \A t \in Targets \ {roleName} : roles'[t] = roles[t]
  BY DEF Assigned, Dropped, IInv, TypeOK
<1> QED
  BY <1>2, <1>3 DEF Untouched

\* CreateOrUpdateRole may make the role, and a failure may be reported.
LEMMA MakesShown ==
  ASSUME IInv, IInv', Marks, pc \notin {"idle", "release"},
         roles' = roles \/ (roles' = Assigned /\ password \in Password), cause' = cause,
         \/ store' = store
         \/ /\ store[key].exists
            /\ \E message \in Message : Put(key, Patched("False", message))
  PROVE  Marks' /\ Implemented
<1>1. PICK c \in CR : c = key
  BY Busy
<1>2. cause = "none"
  BY Busy
<1>3. /\ \A cr \in CR \ {c} : store'[cr] = store[cr]
      /\ store'[c].exists = store[c].exists /\ store'[c].spec = store[c].spec
      /\ PhaseOf(store'[c]) = PhaseOf(store[c])
      /\ Ready(store'[c]) => store' = store
      /\ Marked'
  <2>1. CASE store' = store
    BY <2>1 DEF Marks, Marked
  <2>2. ASSUME NEW message \in Message, store[key].exists,
               Put(key, Patched("False", message))
        PROVE  /\ \A cr \in CR \ {c} : store'[cr] = store[cr]
               /\ store'[c].exists = store[c].exists /\ store'[c].spec = store[c].spec
               /\ PhaseOf(store'[c]) = PhaseOf(store[c])
               /\ ~Ready(store'[c]) /\ Marked'
    BY <1>1, <2>2, ReportRedoes DEF IInv, KubeInv, Marks
  <2> QED
    BY <2>1, <2>2
<1>4. Marks'
  BY <1>2, <1>3 DEF Marks, Marked
<1>5. Shown!Only(c)
  BY <1>1, <1>2, <1>3, OneSeen, Elsewhere
<1>7. phase'[c] = phase[c] /\ spec'[c] = spec[c] /\ givenUp'[c] = givenUp[c]
  <2>1. phase'[c] = phase[c]
    BY <1>3, SeenThing
  <2>2. spec'[c] = spec[c]
    BY <1>3, SeenSpec
  <2>3. givenUp'[c] = givenUp[c]
    BY <1>2, SeenGivenUp
  <2> QED
    BY <2>1, <2>2, <2>3
<1>8. CASE ObjectOf(c)' = ObjectOf(c)
  <2>1. object'[c] = object[c]
    BY <1>8, SeenThing
  <2>2. CASE Ready(store'[c])
    <3>1. ready'[c] = ready[c]
      BY <1>3, <2>2, SeenReady
    <3>2. \A cr \in CR : Shown!Same(cr)
      BY <1>5, <1>7, <2>1, <3>1 DEF Shown!Only, Shown!Same
    <3> QED
      BY <1>4, <3>2, IsMapped, Shown!NothingShown DEF Implemented
  <2>3. CASE ~Ready(store'[c])
    <3>1. ready'[c] = FALSE
      BY <2>3, SeenReady
    <3>2. Shown!Next
      BY <1>5, <1>7, <2>1, <3>1, Shown!ReportShown
    <3> QED
      BY <1>4, <3>2 DEF Implemented
  <2> QED
    BY <2>2, <2>3
<1>9. CASE ObjectOf(c)' # ObjectOf(c)
  <2> DEFINE t == Target(c, store[c].spec)
  <2>1. Target(c, store[c].spec)' = t /\ (Owned(c, t)' <=> Owned(c, t))
    BY <1>3 DEF Target, PgNamespace, RoleName, Owned
  <2>2. roles[t] # NoRole => roles'[t] # NoRole
    <3>1. t \in Targets /\ roleName \in Targets
      BY <1>1, TargetType, roleNameType, Fields DEF IInv, KubeInv, KubeTypeOK
    <3>2. roles' = Assigned /\ password \in Password
            => roles'[t] \in {roles[t], Stored(password)}
      BY <3>1 DEF Assigned, IInv, TypeOK
    <3> QED
      BY <3>2, StoredIsRole
  <2>3. store[c].exists /\ Owned(c, t) /\ roles[t] = NoRole /\ roles'[t] # NoRole
    BY <1>3, <1>9, <2>1, <2>2 DEF ObjectOf
  <2>4. ObjectOf(c) = "missing" /\ ObjectOf(c)' = "there"
    BY <1>3, <2>1, <2>3 DEF ObjectOf
  <2>5. ~Ready(store[c]) /\ ~Ready(store'[c])
    BY <1>3, <2>3 DEF Marks, Marked, MarkedVersion, IInv, Earned, ReadyMeansRole
  <2>6. ready'[c] = ready[c] /\ object[c] = "missing" /\ object'[c] = "there"
    BY <2>4, <2>5, SeenReady, SeenThing
  <2>7. Shown!Next
    BY <1>5, <1>7, <2>6, Shown!MakeShown
  <2> QED
    BY <1>4, <2>7 DEF Implemented
<1> QED
  BY <1>8, <1>9

\* Ready=True lands on a guarded resource whose role is there.
LEMMA MarkReadyShown ==
  ASSUME IInv, IInv', Marks, MarkReady
  PROVE  Marks' /\ Implemented
<1>1. /\ pc = "ready" /\ UNCHANGED <<roles, cause>>
      /\ Report("True", "exists", quota, requeueResult(obj.spec))
  BY DEF MarkReady, Succeeded, userVars
<1>2. PICK c \in CR : c = key
  BY <1>1, Busy
<1>3. cause = "none"
  BY <1>1, Busy
<1>4. CASE store' = store
  BY <1>1, <1>3, <1>4, Unseen, RolesStay DEF Marks, Marked
<1>5. CASE store[key].exists /\ Put(key, Patched("True", "exists"))
  <2>1. /\ \A cr \in CR \ {c} : store'[cr] = store[cr]
        /\ Marked'
        /\ store'[c].exists = store[c].exists /\ store'[c].spec = store[c].spec
        /\ PhaseOf(store'[c]) = PhaseOf(store[c])
        /\ Ready(store'[c]) =>
             /\ PhaseOf(store[c]) = "guarded" /\ obj.spec = store[c].spec
    BY <1>1, <1>2, <1>5, ReportRedoes DEF Message, IInv, KubeInv, Marks
  <2>2. Owned(key, roleName) => roles[roleName] # NoRole
    BY <1>1, HasRole
  <2>5. Marks'
    BY <1>1, <1>3, <2>1 DEF Marks, Marked
  <2>6. Shown!Only(c)
    BY <1>1, <1>3, <2>1, OneSeen, RolesStay
  <2>7. phase'[c] = phase[c] /\ object'[c] = object[c]
    <3>1. ObjectOf(c)' = ObjectOf(c)
      BY <1>1, <2>1, ObjectStays, RolesStay
    <3> QED
      BY <2>1, <3>1, SeenThing
  <2>8. spec'[c] = spec[c] /\ givenUp'[c] = givenUp[c]
    BY <1>1, <1>3, <2>1, SeenSpec, SeenGivenUp
  <2>9. CASE Ready(store'[c])
    <3>1. phase[c] = "guarded"
      BY <2>1, <2>9, SeenThing
    <3>2. ObjectOf(c) \in {"any", "there"}
      BY <1>2, <2>1, <2>2, <2>9 DEF ObjectOf, roleName
    <3>3. Shown!Whole(c) /\ ready'[c] = TRUE
      BY <2>9, <3>2, SeenThing, SeenReady DEF Shown!Whole
    <3>4. Shown!Next
      BY <2>6, <2>7, <2>8, <3>1, <3>3, Shown!ReportShown
    <3> QED
      BY <2>5, <3>4 DEF Implemented
  <2>10. CASE ~Ready(store'[c])
    <3>1. ready'[c] = FALSE
      BY <2>10, SeenReady
    <3>2. Shown!Next
      BY <2>6, <2>7, <2>8, <3>1, Shown!ReportShown
    <3> QED
      BY <2>5, <3>2 DEF Implemented
  <2> QED
    BY <2>9, <2>10
<1> QED
  BY <1>1, <1>4, <1>5, ReportCases

\* The worker moves on, or takes or returns a request, and nothing is seen.
LEMMA MovesShown ==
  ASSUME IInv, Marks, store' = store, roles' = roles,
         cause # "notFound", cause' # "notFound",
         cause' # "none" => pc' = "release"
  PROVE  Marks' /\ Implemented
BY Unseen, RolesStay DEF Marks, Marked

LEMMA TakesShown ==
  ASSUME IInv, Marks, NEW c \in CR, Take(c)
  PROVE  Marks' /\ Implemented
<1>1. cause = "none"
  BY DEF Take, ReconcileGone, ReconcileNothing, ReconcileLive, handleDeletion,
         ReconcileObject, Get, Marks
<1>2. CASE ReconcileGone(c) \/ ReconcileLive(c)
  <2>1. UNCHANGED <<store, roles, cause>>
    BY <1>2 DEF ReconcileGone, ReconcileNothing, ReconcileLive, ReconcileObject, userVars
  <2> QED
    BY <1>1, <2>1, MovesShown
<1>3. CASE handleDeletion(c)
  <2>1. UNCHANGED <<store, roles>>
    BY <1>3 DEF handleDeletion, ReconcileObject
  <2>2. cause' = cause \/ (cause' = "policy" /\ pc' = "release")
    BY <1>3 DEF handleDeletion, ReconcileObject
  <2> QED
    BY <1>1, <2>1, <2>2, MovesShown
<1> QED
  BY <1>2, <1>3 DEF Take

\* DropRole takes the role of a resource that is not guarded.
LEMMA DropsShown ==
  ASSUME IInv, Marks, pc = "drop", store' = store, key' \in {key, NoCR},
         roles' \in {roles, Dropped},
         cause' \in {"none", "dropped"}, cause' = "dropped" => pc' = "release"
  PROVE  Marks' /\ Implemented
<1>1. PICK c \in CR : c = key
  BY Busy
<1>2. cause = "none"
  BY Busy
<1>3. Marks'
  BY DEF Marks, Marked
<1>4. Shown!Only(c)
  BY <1>1, <1>2, OneSeen, Elsewhere
<1>5. /\ phase'[c] = phase[c] /\ ready'[c] = ready[c]
      /\ spec'[c] = spec[c] /\ givenUp'[c] = givenUp[c]
  BY <1>2, SeenThing, SeenReady, SeenSpec, SeenGivenUp
<1>6. CASE ObjectOf(c)' = ObjectOf(c)
  <2>1. \A cr \in CR : Shown!Same(cr)
    BY <1>4, <1>5, <1>6, SeenThing DEF Shown!Only, Shown!Same
  <2> QED
    BY <1>3, <2>1, IsMapped, Shown!NothingShown DEF Implemented
<1>7. CASE ObjectOf(c)' # ObjectOf(c)
  <2> DEFINE t == Target(c, store[c].spec)
  <2>1. Target(c, store[c].spec)' = t /\ (Owned(c, t)' <=> Owned(c, t))
    BY DEF Target, PgNamespace, RoleName, Owned
  <2>2. store[c].exists /\ Owned(c, t) /\ roles[t] # NoRole /\ roles'[t] = NoRole
    <3>1. t \in Targets
      BY TargetType, Fields DEF IInv, KubeInv, KubeTypeOK
    <3>2. roles'[t] \in {roles[t], NoRole}
      BY <3>1 DEF Dropped, IInv, TypeOK
    <3> QED
      BY <1>7, <2>1, <3>2 DEF ObjectOf
  <2>3. ObjectOf(c) = "there" /\ ObjectOf(c)' = "missing"
    BY <2>1, <2>2 DEF ObjectOf
  <2>4. store[c].finalizer => store[c].deleting
    BY <1>1, <2>2 DEF IInv, KubeInv, InHand, Precedes, Phases, DropPc
  <2>5. PhaseOf(store[c]) # "guarded"
    BY <2>2, <2>4 DEF PhaseOf
  <2>6. phase[c] # "guarded" /\ object[c] = "there" /\ object'[c] = "missing"
    BY <2>3, <2>5, SeenThing
  <2>7. Shown!Next
    BY <1>4, <1>5, <2>6, Shown!DropShown
  <2> QED
    BY <1>3, <2>7 DEF Implemented
<1> QED
  BY <1>6, <1>7

\* The cleanup is given up.
LEMMA GivesUpShown ==
  ASSUME IInv, Marks, pc = "connectDrop", CleanedUp("notFound"), roles' = roles
  PROVE  Marks' /\ Implemented
<1>1. PICK c \in CR : c = key
  BY Busy
<1>2. cause = "none" /\ cause' = "notFound" /\ pc' = "release"
      /\ UNCHANGED <<store, key>>
  BY Busy DEF CleanedUp, GoTo
<1>3. Shown!Only(c)
  BY <1>1, <1>2, OneSeen, RolesStay
<1>4. ObjectOf(c)' = ObjectOf(c)
  BY <1>2, ObjectStays, RolesStay
<1>5. phase'[c] = phase[c] /\ object'[c] = object[c] /\ ready'[c] = ready[c]
  BY <1>2, <1>4, SeenThing, SeenReady
<1>6. spec'[c] = spec[c] /\ givenUp'[c] = ~givenUp[c]
  BY <1>1, <1>2, SeenSpec, SeenGivenUp
<1>7. Shown!Next
  BY <1>3, <1>5, <1>6, Shown!GiveUpShown
<1> QED
  BY <1>2, <1>7 DEF Implemented, Marks, Marked

\* The finalizer is added once the role is there.
LEMMA GuardsShown ==
  ASSUME IInv, IInv', Marks, pc = "finalize", Current, Put(key, WithFinalizer),
         UNCHANGED <<roles, cause>>
  PROVE  Marks' /\ Implemented
<1>1. PICK c \in CR : c = key
  BY Busy
<1>2. cause = "none"
  BY Busy
<1>3. /\ \A cr \in CR \ {c} : store'[cr] = store[cr]
      /\ Marked' /\ obj = store[c]
      /\ store[c].exists /\ store'[c].exists /\ store'[c].spec = store[c].spec
      /\ PhaseOf(store[c]) \in {"asked", "guarded"}
      /\ PhaseOf(store'[c]) = "guarded"
      /\ Ready(store'[c]) <=> Ready(store[c])
  BY <1>1, WithFinalizerRedoes DEF IInv, KubeInv, Marks
<1>4. Marks'
  BY <1>2, <1>3 DEF Marks, Marked
<1>5. Shown!Only(c)
  BY <1>2, <1>3, OneSeen, RolesStay
<1>6. ObjectOf(c)' = ObjectOf(c)
  BY <1>3, ObjectStays, RolesStay
<1>7. object'[c] = object[c] /\ ready'[c] = ready[c]
  BY <1>3, <1>6, SeenThing, SeenReady
<1>8. spec'[c] = spec[c] /\ givenUp'[c] = givenUp[c]
  BY <1>2, <1>3, SeenSpec, SeenGivenUp
<1>9. CASE PhaseOf(store[c]) = "guarded"
  <2>1. phase'[c] = phase[c]
    BY <1>3, <1>9, SeenThing
  <2>2. \A cr \in CR : Shown!Same(cr)
    BY <1>5, <1>7, <1>8, <2>1 DEF Shown!Only, Shown!Same
  <2> QED
    BY <1>4, <2>2, IsMapped, Shown!NothingShown DEF Implemented
<1>10. CASE PhaseOf(store[c]) = "asked"
  <2>1. phase[c] = "asked" /\ phase'[c] = "guarded"
    BY <1>3, <1>10, SeenThing
  <2>2. ObjectOf(c) \in {"any", "there"}
    BY <1>1, <1>3, HasRole DEF ObjectOf, roleName
  <2>3. Shown!Whole(c)
    BY <2>2, SeenThing DEF Shown!Whole
  <2>4. Shown!Next
    BY <1>5, <1>7, <1>8, <2>1, <2>3, Shown!GuardShown
  <2> QED
    BY <1>4, <2>4 DEF Implemented
<1> QED
  BY <1>3, <1>9, <1>10

\* The finalizer is removed once the role is gone, if it has to go.
LEMMA ReleasesShown ==
  ASSUME IInv, IInv', Marks, pc = "release", Current, Put(key, WithoutFinalizer),
         roles' = roles, cause' = "none"
  PROVE  Marks' /\ Implemented
<1>1. PICK c \in CR : c = key
  BY Busy
<1>2. /\ \A cr \in CR \ {c} : store'[cr] = store[cr]
      /\ Marked' /\ obj = store[c]
      /\ store[c].exists /\ store'[c].spec = store[c].spec
      /\ PhaseOf(store[c]) = "leaving"
      /\ \/ store'[c].exists /\ PhaseOf(store'[c]) = "held"
         \/ ~store'[c].exists /\ PhaseOf(store'[c]) = "absent"
      /\ ~Ready(store[c]) /\ ~Ready(store'[c])
  BY <1>1, WithoutFinalizerRedoes DEF IInv, KubeInv, Marks
<1>3. Marks'
  BY <1>2 DEF Marks, Marked
<1>4. Shown!Only(c)
  BY <1>1, <1>2, OneSeen, RolesStay
<1>5. ready'[c] = ready[c] /\ spec'[c] = spec[c] /\ givenUp'[c] = FALSE
  BY <1>2, SeenReady, SeenSpec, SeenGivenUp
<1>6. phase[c] = "leaving"
  BY <1>2, SeenThing
<1>7. spec[c] \notin Cleaned \/ object[c] \in {"any", "missing"} \/ givenUp[c]
  <2>1. CASE store[c].spec.cleanupPolicy # "Delete"
    BY <2>1, SeenSpec
  <2>2. CASE cause = "notFound"
    BY <1>1, <2>2, SeenGivenUp
  <2>3. CASE store[c].spec.cleanupPolicy = "Delete" /\ cause # "notFound"
    <3>1. ObjectOf(c) \in {"any", "missing"}
      BY <1>1, <1>2, <2>3 DEF ObjectOf, roleName, IInv, Phases
    <3> QED
      BY <3>1, SeenThing
  <2> QED
    BY <2>1, <2>2, <2>3
<1>8. \/ phase'[c] = "held" /\ object'[c] = object[c]
      \/ phase'[c] = "absent" /\ object'[c] = "any"
  <2>1. CASE store'[c].exists /\ PhaseOf(store'[c]) = "held"
    <3>1. ObjectOf(c)' = ObjectOf(c)
      BY <1>2, <2>1, ObjectStays, RolesStay
    <3> QED
      BY <2>1, <3>1, SeenThing
  <2>2. CASE ~store'[c].exists /\ PhaseOf(store'[c]) = "absent"
    <3>1. ObjectOf(c)' = "any"
      BY <2>2 DEF ObjectOf
    <3> QED
      BY <2>2, <3>1, SeenThing
  <2> QED
    BY <1>2, <2>1, <2>2
<1>9. Shown!Next
  BY <1>4, <1>5, <1>6, <1>7, <1>8, Shown!ReleaseShown
<1> QED
  BY <1>3, <1>9 DEF Implemented

\* An error that ends the cleanup changes at most the role.
LEMMA ErrorsShown ==
  ASSUME IInv, Marks, pc \in DropPc, NEW left, DeletionError(left),
         roles' \in {roles, Dropped}, pc = "drop" \/ roles' = roles
  PROVE  Marks' /\ Implemented
<1>1. store' = store /\ key' = NoCR /\ cause' = cause
  BY DEF DeletionError, Return
<1>2. cause = "none"
  BY Busy DEF DropPc
<1>3. CASE pc = "drop"
  BY <1>1, <1>2, <1>3, DropsShown
<1>4. CASE roles' = roles
  BY <1>1, <1>2, <1>4, MovesShown
<1> QED
  BY <1>3, <1>4

\* What a failure changes.
LEMMA FailedCases ==
  ASSUME NEW message \in Message, NEW left, Failed(message, left)
  PROVE  \/ store' = store
         \/ /\ store[key].exists
            /\ \E m \in Message : Put(key, Patched("False", m))
BY ReportCases DEF Failed

\* Reconcile, from "connect" to ALTER or CREATE ROLE.
LEMMA CreatesShown ==
  ASSUME IInv, IInv', Marks,
         Connect \/ getSecretValue \/ RoleExists \/ AlterRole \/ CreateRole
  PROVE  Marks' /\ Implemented
<1>1. pc \notin {"idle", "release"} /\ cause' = cause
  BY DEF Connect, getSecretValue, RoleExists, AlterRole, CreateRole, userVars
<1>2. roles' = roles \/ (roles' = Assigned /\ password \in Password)
  BY DEF Connect, getSecretValue, RoleExists, AlterRole, CreateRole, userVars,
         IInv, Phases, ReadPc
<1>3. \/ store' = store
      \/ \E message \in Message : \E left : Failed(message, left)
  <2>1. CASE Connect
    BY <2>1 DEF Connect, GoTo, Message
  <2>2. CASE getSecretValue
    BY <2>2 DEF getSecretValue, GoTo, Message
  <2>3. CASE RoleExists
    BY <2>3 DEF RoleExists, GoTo, Message
  <2>4. CASE AlterRole
    BY <2>4 DEF AlterRole, Applied, GoTo, Message
  <2>5. CASE CreateRole
    BY <2>5 DEF CreateRole, Applied, GoTo, Message
  <2> QED
    BY <2>1, <2>2, <2>3, <2>4, <2>5
<1>4. \/ store' = store
      \/ /\ store[key].exists
         /\ \E m \in Message : Put(key, Patched("False", m))
  BY <1>3, FailedCases
<1> QED
  BY <1>1, <1>2, <1>4, MakesShown

LEMMA AddFinalizerShown ==
  ASSUME IInv, IInv', Marks, AddFinalizer
  PROVE  Marks' /\ Implemented
<1>1. pc = "finalize" /\ UNCHANGED <<roles, cause>>
  BY DEF AddFinalizer, userVars
<1>2. CASE UpdateConflict \/ UpdateError
  <2>1. store' = store /\ cause = "none"
    BY <1>1, <1>2, Busy DEF UpdateConflict, UpdateError
  <2> QED
    BY <1>1, <2>1, MovesShown
<1>3. CASE UpdateAddFinalizer("ready") \/ UpdateReplyLost(WithFinalizer)
  BY <1>1, <1>3, GuardsShown DEF UpdateAddFinalizer, UpdateReplyLost
<1> QED
  BY <1>2, <1>3 DEF AddFinalizer

LEMMA RemoveFinalizerShown ==
  ASSUME IInv, IInv', Marks, RemoveFinalizer
  PROVE  Marks' /\ Implemented
<1>1. pc = "release" /\ roles' = roles /\ cause' = "none"
  BY DEF RemoveFinalizer
<1>2. CASE UpdateConflict \/ UpdateError
  <2>1. store' = store
    BY <1>2 DEF UpdateConflict, UpdateError
  <2> QED
    BY <1>1, <2>1, Forgets DEF Marks, Marked
<1>3. CASE UpdateRemoveFinalizer \/ UpdateReplyLost(WithoutFinalizer)
  BY <1>1, <1>3, ReleasesShown DEF UpdateRemoveFinalizer, UpdateReplyLost
<1> QED
  BY <1>2, <1>3 DEF RemoveFinalizer

\* handleDeletion, from "connectDrop" to "drop".
LEMMA CleansShown ==
  ASSUME IInv, Marks, ConnectDrop \/ DropExists \/ DropRole
  PROVE  Marks' /\ Implemented
<1>1. pc \in DropPc /\ cause = "none"
  BY Busy DEF ConnectDrop, DropExists, DropRole, DropPc
<1>2. CASE ConnectDrop
  <2>1. CASE GoTo("existsDrop") /\ UNCHANGED cause
    BY <1>1, <1>2, <2>1, MovesShown DEF ConnectDrop, GoTo
  <2>2. CASE CleanedUp("notFound")
    BY <1>2, <2>2, GivesUpShown DEF ConnectDrop
  <2>3. CASE DeletionError(quota)
    BY <1>1, <1>2, <2>3, ErrorsShown DEF ConnectDrop
  <2> QED
    BY <1>2, <2>1, <2>2, <2>3 DEF ConnectDrop
<1>3. CASE DropExists
  <2>1. CASE CleanedUp("dropped")
    BY <1>1, <1>3, <2>1, MovesShown DEF DropExists, CleanedUp, GoTo
  <2>2. CASE GoTo("drop") /\ UNCHANGED cause
    BY <1>1, <1>3, <2>2, MovesShown DEF DropExists, GoTo
  <2>3. CASE DeletionError(quota - 1)
    BY <1>1, <1>3, <2>3, ErrorsShown DEF DropExists
  <2> QED
    BY <1>3, <2>1, <2>2, <2>3 DEF DropExists
<1>4. CASE DropRole
  <2>1. pc = "drop" /\ roles' \in {roles, Dropped}
    BY <1>4 DEF DropRole, Dropped
  <2>2. CASE CleanedUp("dropped")
    BY <2>1, <2>2, DropsShown DEF CleanedUp, GoTo
  <2>3. CASE \E left : DeletionError(left)
    BY <1>1, <2>1, <2>3, ErrorsShown
  <2> QED
    BY <1>4, <2>2, <2>3 DEF DropRole
<1> QED
  BY <1>2, <1>3, <1>4

---------------------------------------------------------------------------
(* The whole system.                                                       *)

LEMMA InitMarks == Init => Marks
BY InitMarked DEF Init, Marks

LEMMA InitImplemented == Init => Shown!Init
<1> SUFFICES ASSUME Init PROVE Shown!Init
  OBVIOUS
<1>1. \A cr \in CR : /\ store[cr] = Never /\ ~Never.exists
                     /\ ~(key = cr /\ cause = "notFound")
  BY DEF Init, KubeInit, Never
<1>2. phase = [cr \in CR |-> "absent"]
  BY <1>1 DEF phase, PhaseOf
<1>3. ready = [cr \in CR |-> FALSE]
  BY <1>1 DEF ready, Ready
<1>4. object = [cr \in CR |-> "any"]
  BY <1>1 DEF object, ObjectOf
<1>5. spec \in [CR -> Specs]
  BY <1>1, NeverType DEF spec, Version
<1>6. givenUp = [cr \in CR |-> FALSE]
  BY <1>1 DEF givenUp
<1> QED
  BY <1>2, <1>3, <1>4, <1>5, <1>6 DEF Shown!Init

LEMMA NextImplemented ==
  IInv /\ IInv' /\ Marks /\ [Next]_vars => Marks' /\ Implemented
<1> SUFFICES ASSUME IInv, IInv', Marks, [Next]_vars PROVE Marks' /\ Implemented
  OBVIOUS
<1>1. ASSUME NEW cr \in CR, Users(cr), UNCHANGED userVars PROVE Marks' /\ Implemented
  BY <1>1, UsersShown
<1>2. ASSUME NEW cr \in CR, ReleaseHold(cr), UNCHANGED userVars PROVE Marks' /\ Implemented
  BY <1>2, UsersShown
<1>3. ASSUME NEW cr \in CR, Deliver(cr), UNCHANGED userVars PROVE Marks' /\ Implemented
  BY <1>3, OthersShown
<1>4. CASE Restart /\ cause' = "none" /\ password' = NoPassword
           /\ UNCHANGED <<secret, inst, roles, pinned, verified>>
  BY <1>4, RestartShown
<1>5. ASSUME NEW ns \in Namespace, InstChange(ns),
             UNCHANGED <<secret, roles, pinned, password, verified, cause>>
      PROVE  Marks' /\ Implemented
  BY <1>5, OthersShown
<1>6. CASE SecretChange \/ Pin \/ OtherClient
  BY <1>6, OthersShown
<1>7. ASSUME NEW cr \in CR, Take(cr) PROVE Marks' /\ Implemented
  BY <1>7, TakesShown
<1>8. CASE Work
  BY <1>8, CreatesShown, AddFinalizerShown, MarkReadyShown, CleansShown,
     RemoveFinalizerShown DEF Work
<1>9. CASE UNCHANGED vars
  <2>1. UNCHANGED <<store, pc, key, roles, cause>>
    BY <1>9 DEF vars, kubeVars, userVars
  <2> QED
    BY <2>1, Unseen, RolesStay DEF Marks, Marked
<1> QED
  BY <1>1, <1>2, <1>3, <1>4, <1>5, <1>6, <1>7, <1>8, <1>9 DEF Next

\* The mapping is that of ImplementsLifecycle.
LEMMA SameInit == Shown!Init => Promise!Init
BY DEF Shown!Init, Promise!Init, phase, ready, spec, object, givenUp

LEMMA SameNext == Implemented => [Promise!Next]_(Promise!vars)
BY DEF Implemented,
       phase, ready, spec, object, givenUp, Shown!Next, Shown!Create,
       Shown!Edit, Shown!Ask, Shown!Delete, Shown!Forget, Shown!Make,
       Shown!Drop, Shown!Tamper, Shown!Guard, Shown!Report, Shown!Retract,
       Shown!GiveUp, Shown!Release, Shown!LetGo, Shown!Enter, Shown!Whole,
       Shown!Object, Shown!vars, Promise!Next, Promise!Create,
       Promise!Edit, Promise!Ask, Promise!Delete, Promise!Forget,
       Promise!Make, Promise!Drop, Promise!Tamper, Promise!Guard,
       Promise!Report, Promise!Retract, Promise!GiveUp, Promise!Release,
       Promise!LetGo, Promise!Enter, Promise!Whole, Promise!Object,
       Promise!vars

\* Every behaviour of the controller is one that Lifecycle allows.  Through
\* stale caches, lost replies, crashes and other clients, and of a role that
\* is asked for and touched by nobody else: the finalizer comes when it is
\* there; while the resource lives with the finalizer and its spec stays, the
\* role stays, whether the resource is Ready or not (Drop); Ready=True is
\* reported of one that is there; and the finalizer goes when it has gone, is
\* to be kept, or is given up.
THEOREM LifecycleImplemented == Spec => ImplementsLifecycle
<1>1. Init => Promise!Init
  BY InitImplemented, SameInit
<1>2. IInv /\ IInv' /\ Marks /\ [Next]_vars => Marks' /\ [Promise!Next]_(Promise!vars)
  BY NextImplemented, SameNext
<1> QED
  BY <1>1, <1>2, InitMarks, Invariance, PTL DEF Spec, ImplementsLifecycle, Promise!Spec
==============================================================================
