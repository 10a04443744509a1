------------------------- MODULE DatabaseController -------------------------
(***************************************************************************)
(* The PostgreSQLDatabase controller: Reconcile and handleDeletion of      *)
(* internal/controller/postgresqldatabase_controller.go with CreateDatabase *)
(* and DropDatabase of internal/sql/database.go, one action for each call  *)
(* that reads or writes state outside the process.  Between two actions    *)
(* users, other SQL clients, the informer and crashes may intervene.       *)
(***************************************************************************)
EXTENDS Instances

CONSTANTS
  Name,        \* database names (not "")
  OutOfBand    \* databases that other SQL clients also create and drop

DatabaseSpec == [name : Name \cup {""}, postgresRef : Namespace \cup {""},
                 cleanupPolicy : {"Skip", "Delete"},
                 requeueInterval : Interval, retryInterval : Interval]

Targets == Namespace \X Name

ASSUME DatabaseAssumption ==
  /\ "" \notin Name
  /\ \A cr \in CR : cr.name \in Name
  /\ Specs \subseteq DatabaseSpec
  /\ OutOfBand \subseteq Targets

VARIABLES
  dbs,        \* the databases that exist: pairs of an instance and a name
  sessions,   \* the databases that other clients are connected to
  verified,   \* history: <<cr, uid, target>> that CreateDatabase succeeded for
  cause       \* history: why handleDeletion removes the finalizer

dbVars == <<inst, dbs, sessions, verified, cause>>
vars == <<kubeVars, dbVars>>

---------------------------------------------------------------------------
(* What a resource asks for.                                               *)

\* Mutant: no fallback to metadata.name.
DatabaseNameNoFallback(cr, s) == s.name

DatabaseName(cr, s) == IF s.name # "" THEN s.name ELSE cr.name

Target(cr, s) == <<PgNamespace(cr, s.postgresRef), DatabaseName(cr, s)>>

\* The database the worker is about.
dbName == Target(key, obj.spec)

Connection == connectToPostgres(key, obj.spec.postgresRef)

---------------------------------------------------------------------------
(* Reconcile.                                                              *)

\* Not in the cache, or being deleted without the finalizer: nothing to do.
ReconcileGone(cr) ==
  /\ ~cache[cr].exists \/ (cache[cr].deleting /\ ~cache[cr].finalizer)
  /\ ReconcileNothing(cr)
  /\ UNCHANGED dbVars

ReconcileLive(cr) ==
  /\ ~cache[cr].deleting
  /\ ReconcileObject(cr, "connect")
  /\ UNCHANGED dbVars

\* Mutant: a failed reconcile is not queued again.
ConnectNoRetry ==
  /\ pc = "connect"
  /\ \/ Connection = "connected" /\ GoTo("exists")
     \/ /\ Connection # "connected"
        /\ patchCondition("False", "connect", quota)
        /\ Return(FALSE)
        /\ UNCHANGED cache
  /\ UNCHANGED dbVars

Connect ==
  /\ pc = "connect"
  /\ \/ Connection = "connected" /\ GoTo("exists")
     \/ Connection # "connected" /\ Failed("connect", quota)
  /\ UNCHANGED dbVars

\* CreateDatabase succeeded: the finalizer comes next, unless it is there.
Created ==
  /\ verified' = verified \cup {<<key, obj.uid, dbName>>}
  /\ GoTo(IF obj.finalizer THEN "ready" ELSE "finalize")

\* CreateDatabase failed, at the cost of a disturbance.
CreateFault == quota > 0 /\ Failed("create", quota - 1)

\* CreateDatabase: the existence check.
CreateExists ==
  /\ pc = "exists"
  /\ \/ dbName \in dbs /\ Created
     \/ dbName \notin dbs /\ GoTo("create") /\ UNCHANGED verified
     \/ CreateFault /\ UNCHANGED verified
  /\ UNCHANGED <<inst, dbs, sessions, cause>>

\* Mutant: an error of CREATE DATABASE is taken for "already exists".
CreateExecSwallowed ==
  /\ pc = "create"
  /\ \/ dbName \notin dbs /\ dbs' = dbs \cup {dbName} /\ Created
     \/ dbName \in dbs /\ Created /\ UNCHANGED dbs
     \/ quota > 0 /\ Created /\ UNCHANGED dbs
  /\ UNCHANGED <<inst, sessions, cause>>

\* CreateDatabase: CREATE DATABASE, which fails when somebody else created
\* the database after the check, and whose reply may be lost.
CreateExec ==
  /\ pc = "create"
  /\ \/ dbName \notin dbs /\ dbs' = dbs \cup {dbName} /\ Created
     \/ /\ dbName \in dbs /\ Failed("create", quota)
        /\ UNCHANGED <<dbs, verified>>
     \/ /\ CreateFault
        /\ dbs' \in {dbs, dbs \cup {dbName}}
        /\ UNCHANGED verified
  /\ UNCHANGED <<inst, sessions, cause>>

\* Mutant: the finalizer is added by a patch, without a resourceVersion.
AddFinalizerPatch ==
  /\ pc = "finalize"
  /\ store[key].exists
  /\ obj' = [store[key] EXCEPT !.rv = @ + 1, !.finalizer = TRUE]
  /\ Put(key, obj')
  /\ pc' = "ready"
  /\ UNCHANGED <<cache, queue, key, quota, dbVars>>

\* Mutant: when the Update meets a conflict, CREATE DATABASE is undone.
AddFinalizerUndo ==
  /\ pc = "finalize"
  /\ \/ (UpdateAddFinalizer("ready") \/ UpdateReplyLost(WithFinalizer)) /\ UNCHANGED dbs
     \/ UpdateConflict /\ dbs' = dbs \ ({dbName} \ sessions)
  /\ UNCHANGED <<inst, sessions, verified, cause>>

AddFinalizer ==
  /\ pc = "finalize"
  /\ \/ UpdateAddFinalizer("ready")
     \/ UpdateConflict
     \/ UpdateError
     \/ UpdateReplyLost(WithFinalizer)
  /\ UNCHANGED dbVars

MarkReady ==
  /\ pc = "ready"
  /\ Succeeded
  /\ UNCHANGED dbVars

---------------------------------------------------------------------------
(* handleDeletion.                                                         *)

\* Mutant: the cleanup policy is not consulted.
handleDeletionAlwaysDrops(cr) ==
  /\ cache[cr].deleting /\ cache[cr].finalizer
  /\ ReconcileObject(cr, "connectDrop")
  /\ UNCHANGED dbVars

handleDeletion(cr) ==
  /\ cache[cr].deleting /\ cache[cr].finalizer
  /\ IF cache[cr].spec.cleanupPolicy = "Delete"
       THEN ReconcileObject(cr, "connectDrop") /\ UNCHANGED cause
       ELSE ReconcileObject(cr, "release") /\ cause' = "policy"
  /\ UNCHANGED <<inst, dbs, sessions, verified>>

\* Mutant: a failed cleanup is not queued again.
DeletionErrorNoRetry(left) ==
  /\ Return(FALSE)
  /\ quota' = left
  /\ UNCHANGED <<store, watch, cache, cause>>

\* An error while cleaning up: try again after defaultRetryInterval, whatever
\* interval the spec sets.
DeletionError(left) ==
  /\ Return(defaultRetryInterval > 0)
  /\ quota' = left
  /\ UNCHANGED <<store, watch, cache, cause>>

\* On to the removal of the finalizer.
CleanedUp(why) == GoTo("release") /\ cause' = why

ConnectDrop ==
  /\ pc = "connectDrop"
  /\ \/ Connection = "connected" /\ GoTo("existsDrop") /\ UNCHANGED cause
     \/ Connection = "notFound" /\ CleanedUp("notFound")
     \/ Connection = "error" /\ DeletionError(quota)
  /\ UNCHANGED <<inst, dbs, sessions, verified>>

\* DropDatabase: the existence check.
DropExists ==
  /\ pc = "existsDrop"
  /\ \/ dbName \notin dbs /\ CleanedUp("dropped")
     \/ dbName \in dbs /\ GoTo("drop") /\ UNCHANGED cause
     \/ quota > 0 /\ DeletionError(quota - 1)
  /\ UNCHANGED <<inst, dbs, sessions, verified>>

\* Mutant: an error of DROP DATABASE is logged, and the finalizer goes.
DropExecIgnored ==
  /\ pc = "drop"
  /\ \/ dbName \in dbs /\ dbs' = dbs \ {dbName} /\ CleanedUp("dropped")
     \/ dbName \notin dbs /\ CleanedUp("dropped") /\ UNCHANGED dbs
     \/ quota > 0 /\ CleanedUp("dropped") /\ UNCHANGED dbs
  /\ UNCHANGED <<inst, sessions, verified>>

\* The server drops a database that exists and has no other session.
Droppable(t) == t \in dbs \ sessions

\* DropDatabase: DROP DATABASE, which the server refuses for a database that
\* went after the check or that others are connected to, and whose reply may
\* be lost.
DropExec ==
  /\ pc = "drop"
  /\ \/ Droppable(dbName) /\ dbs' = dbs \ {dbName} /\ CleanedUp("dropped")
     \/ ~Droppable(dbName) /\ DeletionError(quota) /\ UNCHANGED dbs
     \/ /\ quota > 0 /\ DeletionError(quota - 1)
        /\ dbs' \in {dbs, IF Droppable(dbName) THEN dbs \ {dbName} ELSE dbs}
  /\ UNCHANGED <<inst, sessions, verified>>

RemoveFinalizer ==
  /\ pc = "release"
  /\ \/ UpdateRemoveFinalizer
     \/ UpdateConflict
     \/ UpdateError
     \/ UpdateReplyLost(WithoutFinalizer)
  /\ cause' = "none"
  /\ UNCHANGED <<inst, dbs, sessions, verified>>

---------------------------------------------------------------------------
(* Other SQL clients, and the whole system.                                *)

OtherClient ==
  /\ Disturb
  /\ \E t \in OutOfBand \ sessions :
       dbs' = IF t \in dbs THEN dbs \ {t} ELSE dbs \cup {t}
  /\ UNCHANGED <<store, watch, cache, queue, pc, key, obj, inst, sessions, verified, cause>>

\* Another client connects to a database, or the last one leaves it.
OtherSession ==
  /\ Disturb
  /\ \E t \in dbs :
       sessions' = IF t \in sessions THEN sessions \ {t} ELSE sessions \cup {t}
  /\ UNCHANGED <<store, watch, cache, queue, pc, key, obj, inst, dbs, verified, cause>>

Users(cr) ==
  \/ UserCreate(cr)
  \/ UserEdit(cr)
  \/ UserDelete(cr)

Init ==
  /\ KubeInit
  /\ InstInit
  /\ dbs \in SUBSET OutOfBand
  /\ sessions = {}
  /\ verified = {}
  /\ cause = "none"

Take(cr) == ReconcileGone(cr) \/ ReconcileLive(cr) \/ handleDeletion(cr)

Work ==
  \/ Connect \/ CreateExists \/ CreateExec \/ AddFinalizer \/ MarkReady
  \/ ConnectDrop \/ DropExists \/ DropExec \/ RemoveFinalizer

Next ==
  \/ \E cr \in CR : Users(cr) /\ UNCHANGED dbVars
  \/ \E cr \in CR : ReleaseHold(cr) /\ UNCHANGED dbVars
  \/ \E cr \in CR : Deliver(cr) /\ UNCHANGED dbVars
  \/ Restart /\ cause' = "none" /\ UNCHANGED <<inst, dbs, sessions, verified>>
  \/ \E ns \in Namespace : InstChange(ns) /\ UNCHANGED <<dbs, sessions, verified, cause>>
  \/ OtherClient
  \/ OtherSession
  \/ \E cr \in CR : Take(cr)
  \/ Work

Spec == Init /\ [][Next]_vars

\* The worker keeps going, the watch delivers, other finalizers are removed,
\* and the work queue, being first-in first-out, starves no request.
Fairness ==
  /\ WF_vars(Work)
  /\ \A cr \in CR : /\ SF_vars(Take(cr))
                    /\ WF_vars(Deliver(cr) /\ UNCHANGED dbVars)
                    /\ WF_vars(ReleaseHold(cr) /\ UNCHANGED dbVars)

FairSpec == Spec /\ Fairness

---------------------------------------------------------------------------
(* Properties.                                                             *)

\* Every variable has its type, the worker is idle exactly when it holds no
\* request, every database the operator makes has a proper name
\* (DatabaseName never hands "" to CREATE DATABASE), and no database goes
\* from under somebody's session.
TypeOK ==
  /\ KubeTypeOK
  /\ InstTypeOK
  /\ pc \in {"idle", "connect", "exists", "create", "finalize", "ready",
             "connectDrop", "existsDrop", "drop", "release"}
  /\ dbs \in SUBSET Targets
  /\ sessions \in SUBSET dbs
  /\ verified \in SUBSET (CR \X Nat \X Targets)
  /\ cause \in {"none", "policy", "dropped", "notFound"}

\* cr alone asks for target t, and no other SQL client touches it.
Owned(cr, t) ==
  /\ t \notin OutOfBand
  /\ \A other \in CR \ {cr} : \A s \in SpecOf[other] : Target(other, s) # t

\* The finalizer never precedes the database ("Add finalizer AFTER
\* successful SQL operation"): an incarnation that carries it had some
\* CreateDatabase succeed, however stale the cache and whatever was lost.
FinalizerEarned ==
  \A cr \in CR : store[cr].finalizer =>
    \E t \in Targets : <<cr, store[cr].uid, t>> \in verified

\* Ready=True for the current generation was earned by this incarnation and
\* for the database it asks for now: no report of an older generation or of
\* a deleted namesake, patched without a resourceVersion, passes for it.
ReadyEarned ==
  \A cr \in CR : Ready(store[cr]) =>
    <<cr, store[cr].uid, Target(cr, store[cr].spec)>> \in verified

\* While nobody else touches the database of a live resource, Ready=True for
\* the current generation means that the database exists: no drop on behalf
\* of a former incarnation, a stale cache or a retried deletion removes it.
ReadyMeansExists ==
  \A cr \in CR :
    LET v == store[cr]
    IN  Ready(v) /\ ~v.deleting /\ Owned(cr, Target(cr, v.spec))
          => Target(cr, v.spec) \in dbs

\* Nothing is ever forgotten: a resource with something to do (it lives, or it
\* waits for its cleanup) has a request queued, is being reconciled, or has a
\* version the informer is still to deliver.  A live one is re-checked for
\* ever only if its intervals are sane; a cleanup is retried whatever they
\* are.
NeverForgotten == \A cr \in CR : Due(store[cr]) => ~Forgotten(cr)

\* DROP DATABASE never runs on behalf of a resource that lives: if the
\* resource still has its finalizer, it is the incarnation whose deletion
\* the worker read, it is being deleted, and unless its spec was edited
\* since, it names the database that goes and asks for the drop.
DropIsWanted ==
  [][pc = "drop" /\ pc' # "drop" /\ dbName \in dbs \ dbs' =>
       LET v == store[key]
       IN  v.finalizer =>
             /\ v.exists /\ v.deleting /\ v.uid = obj.uid
             /\ v.gen = obj.gen => /\ v.spec.cleanupPolicy = "Delete"
                                   /\ Target(key, v.spec) = dbName]_vars

\* A resource with cleanupPolicy Delete loses its finalizer only when its
\* database, if nobody else touches it, is gone, or when connectToPostgres
\* reported that there is no PostgreSQL resource to connect to.
CleanupBeforeRelease ==
  [][\A cr \in CR :
       LET v == store[cr]
       IN  /\ v.finalizer /\ ~store'[cr].finalizer
           /\ v.spec.cleanupPolicy = "Delete"
           /\ Owned(cr, Target(cr, v.spec))
           => Target(cr, v.spec) \notin dbs' \/ cause = "notFound"]_vars

\* What connectToPostgres meets for the current spec of cr.
Reach(cr) == connectToPostgres(cr, store[cr].spec.postgresRef)

\* A live resource whose instance stays reachable, and whose intervals are
\* sane, is eventually Ready for good, with its database there: lost replies,
\* conflicts, failed patches, crashes and drops by others are all repaired by
\* the requeues.
EventuallyReady ==
  \A cr \in CR :
    <>[](/\ store[cr].exists /\ ~store[cr].deleting
         /\ Reach(cr) = "connected" /\ Sane(store[cr].spec))
      => <>[](Ready(store[cr]) /\ Target(cr, store[cr].spec) \in dbs)

\* No resource hangs in deletion on this finalizer while its instance is
\* reachable and nobody uses its database, or the instance is known to be
\* gone, or cleanup is not asked for.
DeletionCompletes ==
  \A cr \in CR :
    ~<>[](/\ store[cr].deleting /\ store[cr].finalizer
          /\ \/ /\ Reach(cr) = "connected"
                /\ Target(cr, store[cr].spec) \notin sessions
             \/ Reach(cr) = "notFound"
             \/ store[cr].spec.cleanupPolicy = "Skip")

---------------------------------------------------------------------------
(* The promise.                                                            *)

\* What is on the server of what the current spec of cr asks for.
ObjectOf(cr) ==
  LET t == Target(cr, store[cr].spec)
  IN  IF ~store[cr].exists \/ ~Owned(cr, t) THEN "any"
      ELSE IF t \in dbs THEN "there" ELSE "missing"

\* The specs whose deletion asks for cleanup.
Cleaned == {s \in Specs : s.cleanupPolicy = "Delete"}

Promise == INSTANCE Lifecycle WITH
  phase   <- [cr \in CR |-> PhaseOf(store[cr])],
  ready   <- [cr \in CR |-> Ready(store[cr])],
  spec    <- [cr \in CR |-> store[cr].spec],
  object  <- [cr \in CR |-> ObjectOf(cr)],
  givenUp <- [cr \in CR |-> key = cr /\ cause = "notFound"]

\* Through stale caches, lost replies, crashes and other clients, every step
\* of the controller is a step that Lifecycle allows for one resource, or
\* none.  Of a database that is its alone: the finalizer comes when it is
\* there; while the resource lives with the finalizer and its spec stays, it
\* never goes, Ready or not; and the finalizer goes after it.
ImplementsLifecycle == Promise!Spec

---------------------------------------------------------------------------
(* What the documentation says, and the code does not do.                  *)

\* "CleanupPolicyDelete means deleting the CR WILL drop the resource in
\* PostgreSQL": once a resource with that policy is gone and the operator
\* has seen it go, the database it asked for, if its alone, does not exist.
DeletedMeansDropped ==
  \A cr \in CR :
    LET v == store[cr]
    IN  /\ v.rv > 0 /\ ~v.exists /\ v.spec.cleanupPolicy = "Delete"
        /\ cache[cr] = v /\ key # cr
        /\ Owned(cr, Target(cr, v.spec))
        => Target(cr, v.spec) \notin dbs

\* "If the PostgreSQL CR is gone, just remove the finalizer gracefully":
\* cleanup is given up only when the PostgreSQL resource does not exist.
GivesUpOnlyIfGone ==
  [][pc = "connectDrop" /\ pc' = "release"
       => inst[PgNamespace(key, obj.spec.postgresRef)] = "noCR"]_vars
=============================================================================
