--------------------------- MODULE UserController ---------------------------
(***************************************************************************)
(* The PostgreSQLUser controller: Reconcile and handleDeletion of          *)
(* internal/controller/postgresqluser_controller.go with CreateOrUpdateRole *)
(* and DropRole of internal/sql/user.go, one action for each call that     *)
(* reads or writes state outside the process.                              *)
(***************************************************************************)
EXTENDS Instances

CONSTANTS
  Name,           \* role names (not "")
  SecretName,     \* names of password Secrets
  Password,       \* passwords
  Backslashed,    \* the passwords with a backslash in them
  NoPassword,     \* the key is not in the Secret, or there is no Secret
  NoRole,         \* the role does not exist
  OutOfBand       \* roles that other SQL clients also create, alter and drop

UserSpec == [name : Name \cup {""}, postgresRef : Namespace \cup {""},
             passwordSecretKeyRef : SecretName, cleanupPolicy : {"Skip", "Delete"},
             requeueInterval : Interval, retryInterval : Interval]

Targets == Namespace \X Name

ASSUME UserAssumption ==
  /\ "" \notin Name
  /\ \A cr \in CR : cr.name \in Name
  /\ Specs \subseteq UserSpec
  /\ Backslashed \subseteq Password
  /\ NoPassword \notin Password
  /\ OutOfBand \subseteq Targets

VARIABLES
  secret,     \* secret[ns, name]: what the cached client reads of a Secret
  roles,      \* roles[t]: what the server stores as the password of role t
  pinned,     \* the roles that own objects or hold privileges
  password,   \* the password the worker has read
  verified,   \* history: <<cr, uid, target>> that CreateOrUpdateRole succeeded for
  cause       \* history: why handleDeletion removes the finalizer

userVars == <<secret, inst, roles, pinned, password, verified, cause>>
vars == <<kubeVars, userVars>>

---------------------------------------------------------------------------
(* What a resource asks for.                                               *)

RoleName(cr, s) == IF s.name # "" THEN s.name ELSE cr.name

Target(cr, s) == <<PgNamespace(cr, s.postgresRef), RoleName(cr, s)>>

\* The role the worker is about.
roleName == Target(key, obj.spec)

Connection == connectToPostgres(key, obj.spec.postgresRef)

\* The Secret is looked up in the namespace of the resource itself.
SecretOf(cr, s) == secret[<<cr.namespace, s.passwordSecretKeyRef>>]

\* What a server with standard_conforming_strings (the default) makes of
\* quoteLiteral(p): escapeString doubles quotes, which the server undoes, and
\* backslashes, which it does not (see Quoting).
Stored(p) == [password |-> p, doubled |-> p \in Backslashed]

StoredPassword == {Stored(p) : p \in Password}

\* That there is no role is not a password.
ASSUME RoleAssumption == NoRole \notin StoredPassword

---------------------------------------------------------------------------
(* Reconcile.                                                              *)

ReconcileGone(cr) ==
  /\ ~cache[cr].exists \/ (cache[cr].deleting /\ ~cache[cr].finalizer)
  /\ ReconcileNothing(cr)
  /\ UNCHANGED userVars

ReconcileLive(cr) ==
  /\ ~cache[cr].deleting
  /\ ReconcileObject(cr, "connect")
  /\ UNCHANGED userVars

Connect ==
  /\ pc = "connect"
  /\ \/ Connection = "connected" /\ GoTo("secret")
     \/ Connection # "connected" /\ Failed("connect", quota)
  /\ UNCHANGED userVars

\* Mutant: the error is dropped, and the role gets the zero value.
getSecretValueLax ==
  /\ pc = "secret"
  /\ GoTo("exists") /\ password' = SecretOf(key, obj.spec)
  /\ UNCHANGED <<secret, inst, roles, pinned, verified, cause>>

\* The local variable lasts as long as the reconcile.
HoldPassword == password' = IF pc' = "idle" THEN NoPassword ELSE password

\* getSecretValue.
getSecretValue ==
  /\ pc = "secret"
  /\ LET value == SecretOf(key, obj.spec)
     IN  \/ value # NoPassword /\ GoTo("exists") /\ password' = value
         \/ value = NoPassword /\ Failed("secret", quota)
            /\ UNCHANGED password
  /\ UNCHANGED <<secret, inst, roles, pinned, verified, cause>>

\* CreateOrUpdateRole: the existence check, which decides on the statement.
RoleExists ==
  /\ pc = "exists"
  /\ \/ GoTo(IF roles[roleName] = NoRole THEN "create" ELSE "alter")
     \/ quota > 0 /\ Failed("create", quota - 1)
  /\ HoldPassword
  /\ UNCHANGED <<secret, inst, roles, pinned, verified, cause>>

\* CreateOrUpdateRole succeeded: the finalizer comes next, unless it is there.
Applied ==
  /\ verified' = verified \cup {<<key, obj.uid, roleName>>}
  /\ GoTo(IF obj.finalizer THEN "ready" ELSE "finalize")

Assigned == [roles EXCEPT ![roleName] = Stored(password)]

\* Mutant: a role that exists is left as it is.
AlterRoleSkipped ==
  /\ pc = "alter"
  /\ Applied
  /\ HoldPassword
  /\ UNCHANGED <<secret, inst, roles, pinned, cause>>

\* CreateOrUpdateRole: ALTER ROLE, which fails when the role went after the
\* check, and whose reply may be lost.
AlterRole ==
  /\ pc = "alter"
  /\ \/ roles[roleName] # NoRole /\ roles' = Assigned /\ Applied
     \/ /\ roles[roleName] = NoRole /\ Failed("create", quota)
        /\ UNCHANGED <<roles, verified>>
     \/ /\ quota > 0 /\ Failed("create", quota - 1)
        /\ roles' \in {roles, IF roles[roleName] = NoRole THEN roles ELSE Assigned}
        /\ UNCHANGED verified
  /\ HoldPassword
  /\ UNCHANGED <<secret, inst, pinned, cause>>

\* Mutant: an error of CREATE ROLE is taken for "already exists".
CreateRoleSwallowed ==
  /\ pc = "create"
  /\ \/ roles[roleName] = NoRole /\ roles' = Assigned /\ Applied
     \/ roles[roleName] # NoRole /\ Applied /\ UNCHANGED roles
     \/ quota > 0 /\ Applied /\ UNCHANGED roles
  /\ HoldPassword
  /\ UNCHANGED <<secret, inst, pinned, cause>>

\* CreateOrUpdateRole: CREATE ROLE, which fails when somebody else created
\* the role after the check, and whose reply may be lost.
CreateRole ==
  /\ pc = "create"
  /\ \/ roles[roleName] = NoRole /\ roles' = Assigned /\ Applied
     \/ /\ roles[roleName] # NoRole /\ Failed("create", quota)
        /\ UNCHANGED <<roles, verified>>
     \/ /\ quota > 0 /\ Failed("create", quota - 1)
        /\ roles' \in {roles, IF roles[roleName] = NoRole THEN Assigned ELSE roles}
        /\ UNCHANGED verified
  /\ HoldPassword
  /\ UNCHANGED <<secret, inst, pinned, cause>>

\* Mutant: a failed Update is logged and the reconcile goes on.
AddFinalizerLogged ==
  /\ pc = "finalize"
  /\ \/ UpdateAddFinalizer("ready")
     \/ ~Current /\ GoTo("ready")
  /\ HoldPassword
  /\ UNCHANGED <<secret, inst, roles, pinned, verified, cause>>

\* Mutant: when the Update meets a conflict, CREATE ROLE is undone.
AddFinalizerUndo ==
  /\ pc = "finalize"
  /\ \/ (UpdateAddFinalizer("ready") \/ UpdateReplyLost(WithFinalizer)) /\ UNCHANGED roles
     \/ /\ UpdateConflict
        /\ roles' = [roles EXCEPT ![roleName] = IF roleName \in pinned THEN @ ELSE NoRole]
  /\ HoldPassword
  /\ UNCHANGED <<secret, inst, pinned, verified, cause>>

AddFinalizer ==
  /\ pc = "finalize"
  /\ \/ UpdateAddFinalizer("ready")
     \/ UpdateConflict
     \/ UpdateError
     \/ UpdateReplyLost(WithFinalizer)
  /\ HoldPassword
  /\ UNCHANGED <<secret, inst, roles, pinned, verified, cause>>

MarkReady ==
  /\ pc = "ready"
  /\ Succeeded
  /\ HoldPassword
  /\ UNCHANGED <<secret, inst, roles, pinned, verified, cause>>

---------------------------------------------------------------------------
(* handleDeletion.                                                         *)

handleDeletion(cr) ==
  /\ cache[cr].deleting /\ cache[cr].finalizer
  /\ IF cache[cr].spec.cleanupPolicy = "Delete"
       THEN ReconcileObject(cr, "connectDrop") /\ UNCHANGED cause
       ELSE ReconcileObject(cr, "release") /\ cause' = "policy"
  /\ UNCHANGED <<secret, inst, roles, pinned, password, verified>>

\* Mutant: a failed cleanup is not queued again.
DeletionErrorNoRetry(left) ==
  /\ Return(FALSE)
  /\ quota' = left
  /\ UNCHANGED <<store, watch, cache, cause>>

\* An error while cleaning up: try again after defaultRetryInterval, whatever
\* interval the spec sets.
DeletionError(left) ==
  /\ Return(defaultRetryInterval > 0)
  /\ quota' = left
  /\ UNCHANGED <<store, watch, cache, cause>>

CleanedUp(why) == GoTo("release") /\ cause' = why

ConnectDrop ==
  /\ pc = "connectDrop"
  /\ \/ Connection = "connected" /\ GoTo("existsDrop") /\ UNCHANGED cause
     \/ Connection = "notFound" /\ CleanedUp("notFound")
     \/ Connection = "error" /\ DeletionError(quota)
  /\ UNCHANGED <<secret, inst, roles, pinned, password, verified>>

\* DropRole: the existence check.
DropExists ==
  /\ pc = "existsDrop"
  /\ \/ roles[roleName] = NoRole /\ CleanedUp("dropped")
     \/ roles[roleName] # NoRole /\ GoTo("drop") /\ UNCHANGED cause
     \/ quota > 0 /\ DeletionError(quota - 1)
  /\ UNCHANGED <<secret, inst, roles, pinned, password, verified>>

\* Mutant: "role cannot be dropped because some objects depend on it" is
\* taken for success.
DropRoleForgiving ==
  /\ pc = "drop"
  /\ \/ /\ roleName \notin pinned
        /\ roles' = [roles EXCEPT ![roleName] = NoRole] /\ CleanedUp("dropped")
     \/ roleName \in pinned /\ CleanedUp("dropped") /\ UNCHANGED roles
  /\ UNCHANGED <<secret, inst, pinned, password, verified>>

\* DropRole: DROP ROLE, which the server refuses for a role that is gone or
\* that something depends on, and whose reply may be lost.
DropRole ==
  /\ pc = "drop"
  /\ LET allowed == roles[roleName] # NoRole /\ roleName \notin pinned
         dropped == [roles EXCEPT ![roleName] = NoRole]
     IN  \/ allowed /\ roles' = dropped /\ CleanedUp("dropped")
         \/ ~allowed /\ DeletionError(quota) /\ UNCHANGED roles
         \/ /\ quota > 0 /\ DeletionError(quota - 1)
            /\ roles' \in {roles, IF allowed THEN dropped ELSE roles}
  /\ UNCHANGED <<secret, inst, pinned, password, verified>>

RemoveFinalizer ==
  /\ pc = "release"
  /\ \/ UpdateRemoveFinalizer
     \/ UpdateConflict
     \/ UpdateError
     \/ UpdateReplyLost(WithoutFinalizer)
  /\ cause' = "none"
  /\ UNCHANGED <<secret, inst, roles, pinned, password, verified>>

---------------------------------------------------------------------------
(* Secrets, other SQL clients, and the whole system.                       *)

\* Somebody changes, breaks or repairs a password Secret.
SecretChange ==
  /\ Disturb
  /\ \E k \in DOMAIN secret : \E p \in (Password \cup {NoPassword}) \ {secret[k]} :
       secret' = [secret EXCEPT ![k] = p]
  /\ UNCHANGED <<store, watch, cache, queue, pc, key, obj,
                 inst, roles, pinned, password, verified, cause>>

\* A role comes to own something (a grant, a table), or owns nothing again.
Pin ==
  /\ Disturb
  /\ \E t \in {r \in Targets : roles[r] # NoRole} :
       pinned' = IF t \in pinned THEN pinned \ {t} ELSE pinned \cup {t}
  /\ UNCHANGED <<store, watch, cache, queue, pc, key, obj,
                 secret, inst, roles, password, verified, cause>>

\* Another SQL client creates, alters or drops a role.
OtherClient ==
  /\ Disturb
  /\ \E t \in OutOfBand \ pinned :
       \E r \in (StoredPassword \cup {NoRole}) \ {roles[t]} :
         roles' = [roles EXCEPT ![t] = r]
  /\ UNCHANGED <<store, watch, cache, queue, pc, key, obj,
                 secret, inst, pinned, password, verified, cause>>

Users(cr) ==
  \/ UserCreate(cr)
  \/ UserEdit(cr)
  \/ UserDelete(cr)

Init ==
  /\ KubeInit
  /\ InstInit
  /\ secret \in [Namespace \X SecretName -> Password \cup {NoPassword}]
  /\ roles = [t \in Targets |-> NoRole]
  /\ pinned = {}
  /\ password = NoPassword
  /\ verified = {}
  /\ cause = "none"

Take(cr) == ReconcileGone(cr) \/ ReconcileLive(cr) \/ handleDeletion(cr)

Work ==
  \/ Connect \/ getSecretValue \/ RoleExists \/ AlterRole \/ CreateRole
  \/ AddFinalizer \/ MarkReady
  \/ ConnectDrop \/ DropExists \/ DropRole \/ RemoveFinalizer

Next ==
  \/ \E cr \in CR : Users(cr) /\ UNCHANGED userVars
  \/ \E cr \in CR : ReleaseHold(cr) /\ UNCHANGED userVars
  \/ \E cr \in CR : Deliver(cr) /\ UNCHANGED userVars
  \/ /\ Restart /\ cause' = "none" /\ password' = NoPassword
     /\ UNCHANGED <<secret, inst, roles, pinned, verified>>
  \/ \E ns \in Namespace :
       InstChange(ns) /\ UNCHANGED <<secret, roles, pinned, password, verified, cause>>
  \/ SecretChange
  \/ Pin
  \/ OtherClient
  \/ \E cr \in CR : Take(cr)
  \/ Work

Spec == Init /\ [][Next]_vars

\* As for DatabaseController: the worker keeps going, the watch delivers,
\* other finalizers are removed, and the first-in first-out work queue
\* starves no request.
Fairness ==
  /\ WF_vars(Work)
  /\ \A cr \in CR : /\ SF_vars(Take(cr))
                    /\ WF_vars(Deliver(cr) /\ UNCHANGED userVars)
                    /\ WF_vars(ReleaseHold(cr) /\ UNCHANGED userVars)

FairSpec == Spec /\ Fairness
---------------------------------------------------------------------------
(* Properties.                                                             *)

\* Every variable has its type, and what the server stores for a role the
\* operator made came from a Secret that could be read (CreateOrUpdateRole
\* never runs when getSecretValue failed).
TypeOK ==
  /\ KubeTypeOK
  /\ InstTypeOK
  /\ pc \in {"idle", "connect", "secret", "exists", "alter", "create", "finalize",
             "ready", "connectDrop", "existsDrop", "drop", "release"}
  /\ secret \in [Namespace \X SecretName -> Password \cup {NoPassword}]
  /\ roles \in [Targets -> StoredPassword \cup {NoRole}]
  /\ pinned \in SUBSET Targets
  /\ password \in Password \cup {NoPassword}
  /\ verified \in SUBSET (CR \X Nat \X Targets)
  /\ cause \in {"none", "policy", "dropped", "notFound"}

\* cr alone asks for role t, and no other SQL client touches it.
Owned(cr, t) ==
  /\ t \notin OutOfBand
  /\ \A other \in CR \ {cr} : \A s \in SpecOf[other] : Target(other, s) # t

\* Ready=True for the current generation was earned by this incarnation for
\* the role it asks for now, and the resource carries the finalizer that
\* will have the role dropped: a failed or lost Update is never followed by
\* a success report.
ReadyIsGuarded ==
  \A cr \in CR : Ready(store[cr]) =>
    /\ store[cr].finalizer
    /\ <<cr, store[cr].uid, Target(cr, store[cr].spec)>> \in verified

\* While nobody else touches the role of a live resource, Ready=True for the
\* current generation means that the role exists: no drop on behalf of a
\* former incarnation, a stale cache or a retried deletion removes it.
ReadyMeansRole ==
  \A cr \in CR :
    LET v == store[cr]
    IN  Ready(v) /\ ~v.deleting /\ Owned(cr, Target(cr, v.spec))
          => roles[Target(cr, v.spec)] # NoRole

\* Nothing is ever forgotten: a resource with something to do (it lives, or it
\* waits for its cleanup) has a request queued, is being reconciled, or has a
\* version the informer is still to deliver.  A live one is re-checked for
\* ever only if its intervals are sane; a cleanup is retried whatever they
\* are.
NeverForgotten == \A cr \in CR : Due(store[cr]) => ~Forgotten(cr)

\* When a reconcile reports success, the role has the password which that
\* reconcile read, whether the role was created or found, and whatever
\* became of the Secret and of the resource in between.
ReportedPasswordApplied ==
  [][pc = "ready" /\ pc' = "idle" /\ key # NoCR /\ Owned(key, roleName)
       => password # NoPassword /\ roles[roleName] = Stored(password)]_vars

\* A resource with cleanupPolicy Delete loses its finalizer only when its
\* role, if nobody else touches it, is gone, or when connectToPostgres
\* reported that there is no PostgreSQL resource to connect to; a role that
\* something depends on keeps its resource.
CleanupBeforeRelease ==
  [][\A cr \in CR :
       LET v == store[cr]
       IN  /\ v.finalizer /\ ~store'[cr].finalizer
           /\ v.spec.cleanupPolicy = "Delete"
           /\ Owned(cr, Target(cr, v.spec))
           => roles'[Target(cr, v.spec)] = NoRole \/ cause = "notFound"]_vars

\* What connectToPostgres meets for the current spec of cr.
Reach(cr) == connectToPostgres(cr, store[cr].spec.postgresRef)

\* If a live resource's instance stays reachable, its intervals are sane and
\* its Secret keeps holding p, the role ends up with p for good, and Ready=True says so, even
\* if others altered or dropped the role: rotations reach the server although
\* nothing watches Secrets.
PasswordConverges ==
  \A cr \in CR : \A p \in Password :
    <>[](/\ store[cr].exists /\ ~store[cr].deleting
         /\ Reach(cr) = "connected" /\ Sane(store[cr].spec)
         /\ SecretOf(cr, store[cr].spec) = p)
      => <>[](/\ Ready(store[cr])
              /\ roles[Target(cr, store[cr].spec)] = Stored(p))

\* No resource hangs in deletion on this finalizer while its instance is
\* reachable and nothing depends on the role, or the instance is known to be
\* gone, or cleanup is not asked for.
DeletionCompletes ==
  \A cr \in CR :
    ~<>[](/\ store[cr].deleting /\ store[cr].finalizer
          /\ \/ /\ Reach(cr) = "connected"
                /\ Target(cr, store[cr].spec) \notin pinned
             \/ Reach(cr) = "notFound"
             \/ store[cr].spec.cleanupPolicy = "Skip")

---------------------------------------------------------------------------
(* The promise.                                                            *)

\* What is on the server of what the current spec of cr asks for.
ObjectOf(cr) ==
  LET t == Target(cr, store[cr].spec)
  IN  IF ~store[cr].exists \/ ~Owned(cr, t) THEN "any"
      ELSE IF roles[t] # NoRole THEN "there" ELSE "missing"

\* The specs whose deletion asks for cleanup.
Cleaned == {s \in Specs : s.cleanupPolicy = "Delete"}

Promise == INSTANCE Lifecycle WITH
  phase   <- [cr \in CR |-> PhaseOf(store[cr])],
  ready   <- [cr \in CR |-> Ready(store[cr])],
  spec    <- [cr \in CR |-> store[cr].spec],
  object  <- [cr \in CR |-> ObjectOf(cr)],
  givenUp <- [cr \in CR |-> key = cr /\ cause = "notFound"]

\* As for databases, every step of the controller is a step that Lifecycle
\* allows for one resource, or none.  Of a role that is its alone: the
\* finalizer comes when it is there; while the resource lives with the
\* finalizer and its spec stays, it never goes, Ready or not; and the
\* finalizer goes after it.
ImplementsLifecycle == Promise!Spec
=============================================================================
