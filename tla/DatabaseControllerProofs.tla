---------------------- MODULE DatabaseControllerProofs ----------------------
(***************************************************************************)
(* Proofs about the PostgreSQLDatabase controller, for every set of        *)
(* resources, specs, instances and databases and any number of faults.     *)
(* KubeInv (module KubeApiProofs) bounds how stale the worker's object can *)
(* be; Phases adds what the worker has established where it stands.        *)
(***************************************************************************)
EXTENDS DatabaseController, AttentionProofs

LivePc == {"connect", "exists", "create", "finalize", "ready"}
DropPc == {"connectDrop", "existsDrop", "drop"}

\* Where the worker is, and what it has established there.
Phases ==
  /\ pc \in LivePc => ~obj.deleting
  /\ pc \in DropPc => obj.deleting /\ obj.spec.cleanupPolicy = "Delete"
  /\ pc \in {"finalize", "ready"} =>
       /\ <<key, obj.uid, dbName>> \in verified
       /\ Owned(key, dbName) => dbName \in dbs
  /\ pc = "release" /\ obj.spec.cleanupPolicy = "Delete" /\ Owned(key, dbName)
       => dbName \notin dbs \/ cause = "notFound"

Earned == FinalizerEarned /\ ReadyEarned /\ ReadyMeansExists

IInv == KubeInv /\ TypeOK /\ Phases /\ Earned

---------------------------------------------------------------------------
(* Lemmas.                                                                 *)

\* Every spec of every resource names a proper database.
LEMMA TargetType ==
  ASSUME NEW cr \in CR, NEW s \in Specs
  PROVE  Target(cr, s) \in Targets
<1>1. cr.namespace \in Namespace /\ cr.name \in Name
  BY InstancesAssumption, DatabaseAssumption
<1>2. s.name \in Name \cup {""} /\ s.postgresRef \in Namespace \cup {""}
  BY DatabaseAssumption DEF DatabaseSpec
<1> QED
  BY <1>1, <1>2 DEF Target, Targets, PgNamespace, DatabaseName

\* The database of a busy worker is a proper one, of the worker's resource.
LEMMA dbNameType ==
  ASSUME IInv, pc # "idle"
  PROVE  /\ key \in CR /\ obj.uid \in Nat /\ obj.spec \in SpecOf[key]
         /\ dbName \in Targets
<1>1. key \in CR /\ obj \in Version /\ obj.spec \in SpecOf[key]
  BY DEF IInv, KubeInv, KubeTypeOK, InHand
<1>2. obj.uid \in Nat /\ obj.spec \in Specs
  BY <1>1, Fields
<1> QED
  BY <1>1, <1>2, TargetType DEF dbName

\* A write to one resource keeps Earned if the new version has earned it.
LEMMA EarnedWrite ==
  ASSUME IInv, NEW cr \in CR, NEW n, store' = [store EXCEPT ![cr] = n],
         n.finalizer => \E t \in Targets : <<cr, n.uid, t>> \in verified,
         Ready(n) => <<cr, n.uid, Target(cr, n.spec)>> \in verified,
         Ready(n) /\ ~n.deleting /\ Owned(cr, Target(cr, n.spec))
           => Target(cr, n.spec) \in dbs,
         UNCHANGED <<dbs, verified>>
  PROVE  Earned'
<1>1. /\ store'[cr] = n
      /\ \A c \in CR \ {cr} : store'[c] = store[c]
  BY DEF IInv, KubeInv, KubeTypeOK
<1>2. FinalizerEarned'
  BY <1>1 DEF IInv, Earned, FinalizerEarned
<1>3. ReadyEarned'
  BY <1>1 DEF IInv, Earned, ReadyEarned
<1>4. ReadyMeansExists'
  BY <1>1 DEF IInv, Earned, ReadyMeansExists
<1> QED
  BY <1>2, <1>3, <1>4 DEF Earned

\* So does a step that writes no resource and drops no owned database.
LEMMA EarnedElse ==
  ASSUME IInv, store' = store, verified \subseteq verified',
         \A cr \in CR : \A t \in dbs \ dbs' : ~Owned(cr, t)
  PROVE  Earned'
BY DEF IInv, Earned, FinalizerEarned, ReadyEarned, ReadyMeansExists

\* Users and the garbage collector.
LEMMA UsersStep ==
  ASSUME IInv, NEW cr \in CR, Users(cr) \/ ReleaseHold(cr), UNCHANGED dbVars
  PROVE  IInv'
<1>1. PICK n : Put(cr, n) /\ Sound(cr, n) /\ Quiet(cr, n)
  BY OthersKeep DEF Users, IInv
<1>2. KubeInv' /\ UNCHANGED <<cache, queue, pc, key, obj>>
  BY OthersKeep DEF Users, IInv
<1>3. Earned'
  <2>1. n.finalizer => \E t \in Targets : <<cr, n.uid, t>> \in verified
    BY <1>1 DEF Quiet, IInv, Earned, FinalizerEarned
  <2>2. Ready(n) => <<cr, n.uid, Target(cr, n.spec)>> \in verified
    BY <1>1 DEF Quiet, IInv, Earned, ReadyEarned
  <2>3. Ready(n) /\ ~n.deleting /\ Owned(cr, Target(cr, n.spec))
          => Target(cr, n.spec) \in dbs
    BY <1>1 DEF Quiet, IInv, Earned, ReadyMeansExists
  <2> QED
    BY <1>1, <2>1, <2>2, <2>3, EarnedWrite DEF Put, dbVars
<1>4. TypeOK' /\ Phases'
  BY <1>2 DEF IInv, KubeInv, TypeOK, InstTypeOK, Phases, dbName, dbVars
<1> QED
  BY <1>2, <1>3, <1>4 DEF IInv

\* The cache catches up.
LEMMA DeliverStep ==
  ASSUME IInv, NEW cr \in CR, Deliver(cr), UNCHANGED dbVars
  PROVE  IInv'
<1>1. KubeInv'
  BY DeliverKeeps DEF IInv
<1>2. UNCHANGED <<store, pc, key, obj>>
  BY DEF Deliver
<1>3. TypeOK' /\ Phases'
  BY <1>1, <1>2 DEF IInv, KubeInv, TypeOK, InstTypeOK, Phases, dbName, dbVars
<1> QED
  BY <1>1, <1>2, <1>3, EarnedElse DEF IInv, dbVars

\* The operator crashes and starts again.
LEMMA RestartStep ==
  ASSUME IInv, Restart, cause' = "none", UNCHANGED <<inst, dbs, verified>>,
         sessions' \in SUBSET dbs
  PROVE  IInv'
<1>1. KubeInv'
  BY RestartKeeps DEF IInv
<1>2. store' = store /\ pc' = "idle"
  BY DEF Restart
<1>3. TypeOK' /\ Phases'
  BY <1>1, <1>2 DEF IInv, KubeInv, TypeOK, InstTypeOK, Phases, LivePc, DropPc
<1> QED
  BY <1>1, <1>2, <1>3, EarnedElse DEF IInv

\* An instance changes its state.
LEMMA InstChangeStep ==
  ASSUME IInv, NEW ns \in Namespace, InstChange(ns),
         UNCHANGED <<dbs, sessions, verified, cause>>
  PROVE  IInv'
<1>1. UNCHANGED <<store, watch, cache, queue, pc, key, obj>>
  BY DEF InstChange
<1>2. quota' \in 0 .. MaxDisturbances
  BY DisturbQuota DEF InstChange, IInv, KubeInv
<1>3. KubeInv'
  BY <1>1, <1>2 DEF IInv, KubeInv, KubeTypeOK, Ordered, Finalized, Conditions,
                    InHand, Informer
<1>4. inst' \in [Namespace -> InstState]
  BY DEF InstChange, IInv, TypeOK, InstTypeOK
<1>5. TypeOK' /\ Phases'
  BY <1>1, <1>3, <1>4 DEF IInv, KubeInv, TypeOK, InstTypeOK, Phases, dbName
<1> QED
  BY <1>1, <1>3, <1>5, EarnedElse DEF IInv

\* Another SQL client creates or drops a database that nobody owns.
LEMMA OtherClientStep ==
  ASSUME IInv, OtherClient
  PROVE  IInv'
<1>1. UNCHANGED <<store, watch, cache, queue, pc, key, obj, inst, sessions, verified, cause>>
  BY DEF OtherClient
<1>2. quota' \in 0 .. MaxDisturbances
  BY DisturbQuota DEF OtherClient, IInv, KubeInv
<1>3. KubeInv'
  BY <1>1, <1>2 DEF IInv, KubeInv, KubeTypeOK, Ordered, Finalized, Conditions,
                    InHand, Informer
<1>4. PICK t \in OutOfBand \ sessions :
        dbs' = IF t \in dbs THEN dbs \ {t} ELSE dbs \cup {t}
  BY DEF OtherClient
<1>5. t \in Targets /\ \A cr \in CR : ~Owned(cr, t)
  BY DatabaseAssumption DEF Owned
<1>6. TypeOK'
  BY <1>1, <1>3, <1>4, <1>5 DEF IInv, KubeInv, TypeOK, InstTypeOK
<1>7. Phases'
  <2>1. pc # "idle" => key \in CR
    BY DEF IInv, KubeInv, KubeTypeOK
  <2>2. dbName' = dbName
    BY <1>1 DEF dbName
  <2>3. pc # "idle" /\ Owned(key, dbName) => (dbName \in dbs' <=> dbName \in dbs)
    BY <1>4, <1>5, <2>1
  <2> QED
    BY <1>1, <2>2, <2>3 DEF IInv, Phases, LivePc, DropPc
<1> QED
  BY <1>1, <1>3, <1>4, <1>5, <1>6, <1>7, EarnedElse DEF IInv

\* Others connect to databases and leave them.
LEMMA SessionsStep ==
  ASSUME IInv, UNCHANGED <<store, watch, cache, queue, pc, key, obj, inst, dbs, verified, cause>>,
         quota' \in 0 .. MaxDisturbances, sessions' \in SUBSET dbs
  PROVE  IInv'
<1>1. KubeInv'
  BY DEF IInv, KubeInv, KubeTypeOK, Ordered, Finalized, Conditions, InHand, Informer
<1>2. TypeOK' /\ Phases'
  BY <1>1 DEF IInv, KubeInv, TypeOK, InstTypeOK, Phases, dbName
<1> QED
  BY <1>1, <1>2, EarnedElse DEF IInv

\* Another client connects to a database or leaves it.
LEMMA OtherSessionStep ==
  ASSUME IInv, OtherSession
  PROVE  IInv'
<1>1. quota' \in 0 .. MaxDisturbances
  BY DisturbQuota DEF OtherSession, IInv, KubeInv
<1>2. sessions' \in SUBSET dbs
  BY DEF OtherSession, IInv, TypeOK
<1> QED
  BY <1>1, <1>2, SessionsStep DEF OtherSession

---------------------------------------------------------------------------
(* The worker's steps.                                                     *)

\* A reconcile that returns leaves nothing to establish.
LEMMA IdleStep ==
  ASSUME IInv, KubeInv', pc' = "idle", store' = store,
         UNCHANGED <<inst, sessions, verified>>, dbs' \in SUBSET Targets,
         sessions \subseteq dbs',
         cause' \in {"none", "policy", "dropped", "notFound"},
         \A cr \in CR : \A t \in dbs \ dbs' : ~Owned(cr, t)
  PROVE  IInv'
<1>1. TypeOK' /\ Phases'
  BY DEF IInv, KubeInv, TypeOK, InstTypeOK, Phases, LivePc, DropPc
<1> QED
  BY <1>1, EarnedElse DEF IInv

\* A failure is reported and nothing else happens to the resources.
LEMMA FailedStep ==
  ASSUME IInv, pc # "idle", NEW message \in Message,
         NEW left \in 0 .. MaxDisturbances, Failed(message, left),
         UNCHANGED <<inst, sessions, verified, cause>>, dbs' \in SUBSET Targets,
         dbs \subseteq dbs'
  PROVE  IInv'
<1>1. KubeInv'
  BY ReportKeeps DEF IInv, Failed
<1>2. pc' = "idle"
  BY ReportCases DEF Return, Failed
<1>3. TypeOK' /\ Phases'
  BY <1>1, <1>2 DEF IInv, KubeInv, TypeOK, InstTypeOK, Phases, LivePc, DropPc
<1>4. Earned'
  <2>1. CASE store' = store
    BY <2>1, EarnedElse
  <2>2. CASE store[key].exists /\ Put(key, Patched("False", message))
    <3> DEFINE n == Patched("False", message)
               w == store[key]
    <3>1. /\ key \in CR
          /\ n.uid = w.uid /\ n.finalizer = w.finalizer /\ n.cond.status = "False"
      BY <2>2, PatchedSound DEF IInv
    <3>2. store' = [store EXCEPT ![key] = n]
      BY <2>2 DEF Put
    <3> HIDE DEF n
    <3>3. store'[key] = n /\ \A c \in CR \ {key} : store'[c] = store[c]
      BY <3>1, <3>2 DEF IInv, KubeInv, KubeTypeOK
    <3>4. ~Ready(n)
      BY <3>1 DEF Ready
    <3>5. FinalizerEarned'
      BY <3>1, <3>3 DEF IInv, Earned, FinalizerEarned
    <3>6. ReadyEarned' /\ ReadyMeansExists'
      BY <3>3, <3>4 DEF IInv, Earned, ReadyEarned, ReadyMeansExists
    <3> QED
      BY <3>5, <3>6 DEF Earned
  <2> QED
    BY <2>1, <2>2, ReportCases DEF Failed
<1> QED
  BY <1>1, <1>3, <1>4 DEF IInv

\* Reconcile up to the first call that leaves the process.
LEMMA TakeStep ==
  ASSUME IInv, NEW cr \in CR, Take(cr)
  PROVE  IInv'
<1>1. CASE ReconcileGone(cr)
  <2>1. KubeInv' /\ UNCHANGED <<store, pc, key, obj>>
    BY <1>1, ReconcileNothingKeeps DEF ReconcileGone, ReconcileNothing, IInv
  <2>2. UNCHANGED <<inst, dbs, sessions, verified, cause>>
    BY <1>1 DEF ReconcileGone, dbVars
  <2>3. TypeOK' /\ Phases'
    BY <2>1, <2>2 DEF IInv, KubeInv, TypeOK, InstTypeOK, Phases, dbName
  <2> QED
    BY <2>1, <2>2, <2>3, EarnedElse DEF IInv
<1>2. CASE ReconcileLive(cr)
  <2>1. /\ ReconcileObject(cr, "connect") /\ ~cache[cr].deleting
        /\ UNCHANGED <<inst, dbs, sessions, verified, cause>>
    BY <1>2 DEF ReconcileLive, dbVars
  <2>2. KubeInv'
    BY <2>1, ReconcileObjectKeeps DEF IInv
  <2>3. pc' = "connect" /\ obj' = cache[cr] /\ store' = store
    BY <2>1 DEF ReconcileObject
  <2>4. TypeOK' /\ Phases'
    BY <2>1, <2>2, <2>3 DEF IInv, KubeInv, TypeOK, InstTypeOK, Phases, DropPc
  <2> QED
    BY <2>1, <2>2, <2>3, <2>4, EarnedElse DEF IInv
<1>3. CASE handleDeletion(cr)
  <2>1. /\ cache[cr].deleting /\ cache[cr].finalizer
        /\ UNCHANGED <<inst, dbs, sessions, verified>>
    BY <1>3 DEF handleDeletion
  <2>2. CASE /\ cache[cr].spec.cleanupPolicy = "Delete"
             /\ ReconcileObject(cr, "connectDrop") /\ UNCHANGED cause
    <3>1. KubeInv'
      BY <2>1, <2>2, ReconcileObjectKeeps DEF IInv
    <3>2. pc' = "connectDrop" /\ obj' = cache[cr] /\ store' = store
      BY <2>2 DEF ReconcileObject
    <3>3. TypeOK' /\ Phases'
      BY <2>1, <2>2, <3>1, <3>2 DEF IInv, KubeInv, TypeOK, InstTypeOK, Phases, LivePc
    <3> QED
      BY <2>1, <3>1, <3>2, <3>3, EarnedElse DEF IInv
  <2>3. CASE /\ cache[cr].spec.cleanupPolicy # "Delete"
             /\ ReconcileObject(cr, "release") /\ cause' = "policy"
    <3>1. KubeInv'
      BY <2>1, <2>3, ReconcileObjectKeeps DEF IInv
    <3>2. pc' = "release" /\ obj' = cache[cr] /\ store' = store
      BY <2>3 DEF ReconcileObject
    <3>3. TypeOK' /\ Phases'
      BY <2>1, <2>3, <3>1, <3>2
         DEF IInv, KubeInv, TypeOK, InstTypeOK, Phases, LivePc, DropPc
    <3> QED
      BY <2>1, <3>1, <3>2, <3>3, EarnedElse DEF IInv
  <2> QED
    BY <1>3, <2>2, <2>3 DEF handleDeletion
<1> QED
  BY <1>1, <1>2, <1>3 DEF Take

\* The worker moves on within a phase, having established nothing new.
LEMMA MoveStep ==
  ASSUME IInv, NEW next, GoTo(next),
         \/ pc \in {"connect", "exists"} /\ next \in {"exists", "create"}
         \/ pc \in {"connectDrop", "existsDrop"} /\ next \in {"existsDrop", "drop"},
         UNCHANGED <<inst, dbs, sessions, verified, cause>>
  PROVE  IInv'
<1>1. KubeInv'
  BY GoToKeeps DEF IInv
<1>2. pc' = next /\ UNCHANGED <<store, key, obj>>
  BY DEF GoTo
<1>3. TypeOK' /\ Phases'
  BY <1>1, <1>2 DEF IInv, KubeInv, TypeOK, InstTypeOK, Phases, LivePc, DropPc
<1> QED
  BY <1>1, <1>2, <1>3, EarnedElse DEF IInv

\* connectToPostgres in Reconcile.
LEMMA ConnectStep ==
  ASSUME IInv, Connect
  PROVE  IInv'
<1>1. pc = "connect" /\ UNCHANGED <<inst, dbs, sessions, verified, cause>>
  BY DEF Connect, dbVars
<1>2. CASE GoTo("exists")
  BY <1>1, <1>2, MoveStep
<1>3. CASE Failed("connect", quota)
  <2>1. quota \in 0 .. MaxDisturbances /\ dbs' \in SUBSET Targets
    BY <1>1 DEF IInv, KubeInv, KubeTypeOK, TypeOK
  <2> QED
    BY <1>1, <1>3, <2>1, FailedStep DEF Message
<1> QED
  BY <1>2, <1>3 DEF Connect

\* CreateDatabase succeeded, with the database there.
LEMMA CreatedStep ==
  ASSUME IInv, pc \in {"exists", "create"}, Created, dbName \in dbs',
         dbs' \in {dbs, dbs \cup {dbName}}, UNCHANGED <<inst, sessions, cause>>
  PROVE  IInv'
<1> DEFINE next == IF obj.finalizer THEN "ready" ELSE "finalize"
<1>1. GoTo(next) /\ verified' = verified \cup {<<key, obj.uid, dbName>>}
  BY DEF Created
<1>2. pc' = next /\ UNCHANGED <<store, key, obj>>
  BY <1>1 DEF GoTo
<1>3. ~obj.deleting
  BY DEF IInv, Phases, LivePc
<1>4. KubeInv'
  <2>1. CASE obj.finalizer
    BY <1>1, <1>3, <2>1, GoToKeeps DEF IInv
  <2>2. CASE ~obj.finalizer
    BY <1>1, <1>3, <2>2, GoToKeeps DEF IInv
  <2> QED
    BY <2>1, <2>2
<1>5. /\ key \in CR /\ obj.uid \in Nat /\ dbName \in Targets /\ dbName' = dbName
  BY <1>2, dbNameType DEF dbName
<1>6. TypeOK'
  BY <1>1, <1>2, <1>4, <1>5 DEF IInv, KubeInv, TypeOK, InstTypeOK
<1>7. Phases'
  BY <1>1, <1>2, <1>3, <1>5 DEF Phases, LivePc, DropPc
<1> QED
  BY <1>1, <1>2, <1>4, <1>6, <1>7, EarnedElse DEF IInv

\* The existence check of CreateDatabase.
LEMMA CreateExistsStep ==
  ASSUME IInv, CreateExists
  PROVE  IInv'
<1>1. pc = "exists" /\ UNCHANGED <<inst, dbs, sessions, cause>>
  BY DEF CreateExists
<1>2. CASE dbName \in dbs /\ Created
  BY <1>1, <1>2, CreatedStep
<1>3. CASE GoTo("create") /\ UNCHANGED verified
  BY <1>1, <1>3, MoveStep
<1>4. CASE CreateFault /\ UNCHANGED verified
  <2>1. quota - 1 \in 0 .. MaxDisturbances /\ dbs' \in SUBSET Targets
    BY <1>1, <1>4, KubeAssumption DEF IInv, KubeInv, KubeTypeOK, TypeOK, CreateFault
  <2> QED
    BY <1>1, <1>4, <2>1, FailedStep DEF Message, CreateFault
<1> QED
  BY <1>2, <1>3, <1>4 DEF CreateExists

\* CREATE DATABASE.
LEMMA CreateExecStep ==
  ASSUME IInv, CreateExec
  PROVE  IInv'
<1>1. /\ pc = "create" /\ UNCHANGED <<inst, sessions, cause>>
      /\ dbName \in Targets /\ dbs \subseteq Targets /\ quota \in 0 .. MaxDisturbances
  BY dbNameType DEF CreateExec, IInv, TypeOK, KubeTypeOK
<1>2. CASE dbs' = dbs \cup {dbName} /\ Created
  BY <1>1, <1>2, CreatedStep
<1>3. CASE Failed("create", quota) /\ UNCHANGED <<dbs, verified>>
  BY <1>1, <1>3, FailedStep DEF Message
<1>4. CASE CreateFault /\ dbs' \in {dbs, dbs \cup {dbName}} /\ UNCHANGED verified
  <2>1. quota - 1 \in 0 .. MaxDisturbances
    BY <1>1, <1>4, KubeAssumption DEF CreateFault
  <2> QED
    BY <1>1, <1>4, <2>1, FailedStep DEF Message, CreateFault
<1> QED
  BY <1>2, <1>3, <1>4 DEF CreateExec

\* The finalizer is added, whether or not the worker learns of it.
LEMMA AddFinalizerStep ==
  ASSUME IInv, AddFinalizer
  PROVE  IInv'
<1>1. pc = "finalize" /\ UNCHANGED <<inst, dbs, sessions, verified, cause>>
  BY DEF AddFinalizer, dbVars
<1>2. CASE UpdateConflict \/ UpdateError
  <2>1. KubeInv'
    BY <1>1, <1>2, UpdateFailedKeeps DEF IInv
  <2>2. pc' = "idle" /\ store' = store
    BY <1>2 DEF UpdateConflict, UpdateError, Return
  <2> QED
    BY <1>1, <2>1, <2>2, IdleStep DEF IInv, TypeOK
<1>3. CASE UpdateAddFinalizer("ready") \/ UpdateReplyLost(WithFinalizer)
  <2>1. Current /\ Put(key, WithFinalizer)
    BY <1>3 DEF UpdateAddFinalizer, UpdateReplyLost
  <2>2. /\ key \in CR /\ obj = store[key] /\ dbName \in Targets
        /\ <<key, obj.uid, dbName>> \in verified /\ Target(key, obj.spec) = dbName
    BY <1>1, <2>1, CurrentObject, dbNameType DEF IInv, Phases, dbName
  <2>3. /\ WithFinalizer.uid = obj.uid /\ WithFinalizer.spec = obj.spec
        /\ WithFinalizer.deleting = FALSE
        /\ WithFinalizer.cond = obj.cond /\ WithFinalizer.gen = obj.gen
        /\ obj.exists /\ ~obj.deleting
    BY <1>1, <2>1, WithFinalizerSound DEF IInv, KubeInv, InHand
  <2>4. Ready(WithFinalizer) => Ready(store[key])
    BY <2>2, <2>3 DEF Ready
  <2>5. Ready(WithFinalizer) /\ Owned(key, dbName) => dbName \in dbs
    BY <2>2, <2>3, <2>4 DEF IInv, Earned, ReadyMeansExists
  <2>6. Earned'
    BY <1>1, <2>1, <2>2, <2>3, <2>5, EarnedWrite DEF Put
  <2>7. CASE UpdateAddFinalizer("ready")
    <3>1. KubeInv'
      BY <1>1, <2>7, UpdateAddFinalizerKeeps DEF IInv
    <3>2. pc' = "ready" /\ key' = key /\ obj' = WithFinalizer
      BY <2>7 DEF UpdateAddFinalizer
    <3>3. dbName' = dbName
      BY <2>3, <3>2 DEF dbName
    <3>4. TypeOK' /\ Phases'
      BY <1>1, <2>3, <3>1, <3>2, <3>3
         DEF IInv, KubeInv, TypeOK, InstTypeOK, Phases, DropPc
    <3> QED
      BY <2>6, <3>1, <3>4 DEF IInv
  <2>8. CASE UpdateReplyLost(WithFinalizer)
    <3>1. KubeInv'
      BY <1>1, <2>8, UpdateReplyLostKeeps DEF IInv
    <3>2. pc' = "idle"
      BY <2>8 DEF UpdateReplyLost, Return
    <3>3. TypeOK' /\ Phases'
      BY <1>1, <3>1, <3>2 DEF IInv, KubeInv, TypeOK, InstTypeOK, Phases, LivePc, DropPc
    <3> QED
      BY <2>6, <3>1, <3>3 DEF IInv
  <2> QED
    BY <1>3, <2>7, <2>8
<1> QED
  BY <1>2, <1>3 DEF AddFinalizer

\* Ready=True lands on the incarnation that earned it; if the generation is
\* still the one the worker read, so is the database.
LEMMA MarkReadyStep ==
  ASSUME IInv, MarkReady
  PROVE  IInv'
<1>1. /\ pc = "ready" /\ quota \in 0 .. MaxDisturbances
      /\ Report("True", "exists", quota, requeueResult(obj.spec))
      /\ UNCHANGED <<inst, dbs, sessions, verified, cause>>
  BY DEF MarkReady, Succeeded, dbVars, IInv, KubeInv, KubeTypeOK
<1>2. KubeInv'
  BY <1>1, ReportKeeps DEF IInv, Message
<1>3. pc' = "idle"
  BY <1>1, ReportCases DEF Return
<1>4. TypeOK' /\ Phases'
  BY <1>1, <1>2, <1>3 DEF IInv, KubeInv, TypeOK, InstTypeOK, Phases, LivePc, DropPc
<1>5. CASE store' = store
  BY <1>1, <1>2, <1>4, <1>5, EarnedElse DEF IInv
<1>6. CASE store[key].exists /\ Put(key, Patched("True", "exists"))
  <2> DEFINE n == Patched("True", "exists")
             w == store[key]
  <2>1. /\ key \in CR /\ n.uid = w.uid /\ n.finalizer = w.finalizer
        /\ n.spec = w.spec /\ n.gen = w.gen /\ n.cond.gen = obj.gen
    BY <1>1, <1>6, PatchedSound DEF IInv, Message
  <2>2. store' = [store EXCEPT ![key] = n]
    BY <1>6 DEF Put
  <2> HIDE DEF n
  <2>3. /\ w.finalizer /\ obj.uid = w.uid /\ <<key, obj.uid, dbName>> \in verified
        /\ Owned(key, dbName) => dbName \in dbs
        /\ obj.gen = w.gen => obj.spec = w.spec
    BY <1>1 DEF IInv, KubeInv, InHand, Precedes, Phases
  <2>4. Ready(n) => Target(key, n.spec) = dbName
    BY <2>1, <2>3 DEF Ready, dbName
  <2>5. \E t \in Targets : <<key, n.uid, t>> \in verified
    BY <1>1, <2>1, <2>3, dbNameType
  <2>6. Earned'
    BY <1>1, <2>1, <2>2, <2>3, <2>4, <2>5, EarnedWrite
  <2> QED
    BY <1>2, <1>4, <2>6 DEF IInv
<1> QED
  BY <1>1, <1>5, <1>6, ReportCases

\* An error of handleDeletion, possibly after the drop took effect.
LEMMA DeletionErrorStep ==
  ASSUME IInv, pc \in DropPc, NEW left \in 0 .. MaxDisturbances,
         DeletionError(left), UNCHANGED <<inst, sessions, verified>>,
         dbs' \in SUBSET Targets, sessions \subseteq dbs',
         \A cr \in CR : \A t \in dbs \ dbs' :
           Ready(store[cr]) /\ ~store[cr].deleting /\ Owned(cr, t)
             => Target(cr, store[cr].spec) # t
  PROVE  IInv'
<1>1. KubeInv'
  BY ReturnKeeps DEF IInv, DeletionError, DropPc
<1>2. pc' = "idle" /\ store' = store /\ cause' = cause
  BY DEF DeletionError, Return
<1>3. TypeOK' /\ Phases'
  BY <1>1, <1>2 DEF IInv, KubeInv, TypeOK, InstTypeOK, Phases, LivePc, DropPc
<1>4. Earned'
  BY <1>2 DEF IInv, Earned, FinalizerEarned, ReadyEarned, ReadyMeansExists
<1> QED
  BY <1>1, <1>3, <1>4 DEF IInv

\* The database that handleDeletion drops is not the owned database of any
\* live resource that is Ready: not of another one, by ownership, and not of
\* a later incarnation of this one, which would lack the finalizer.
LEMMA NoVictim ==
  ASSUME IInv, pc \in DropPc, NEW cr \in CR, Ready(store[cr]),
         ~store[cr].deleting, Owned(cr, dbName)
  PROVE  Target(cr, store[cr].spec) # dbName
<1>1. key \in CR /\ obj.spec \in SpecOf[key] /\ obj.deleting /\ pc # "idle"
  BY dbNameType DEF IInv, Phases, DropPc
<1>2. CASE cr # key
  BY <1>1, <1>2 DEF Owned, dbName
<1>3. CASE cr = key
  <2>1. store[key].finalizer
    BY <1>3 DEF Ready, IInv, KubeInv, Conditions
  <2>2. obj.uid = store[key].uid /\ store[key].deleting
    BY <1>1, <2>1 DEF IInv, KubeInv, InHand, Precedes
  <2> QED
    BY <1>3, <2>2
<1> QED
  BY <1>2, <1>3

\* Cleanup is done, or given up.
LEMMA CleanedUpStep ==
  ASSUME IInv, pc \in DropPc, NEW why \in {"dropped", "notFound"}, CleanedUp(why),
         UNCHANGED <<inst, sessions, verified>>, dbs' \in {dbs, dbs \ {dbName}},
         sessions \subseteq dbs', why = "dropped" => dbName \notin dbs'
  PROVE  IInv'
<1>1. pc' = "release" /\ cause' = why /\ UNCHANGED <<store, key, obj>>
  BY DEF CleanedUp, GoTo
<1>2. obj.deleting
  BY DEF IInv, Phases
<1>3. KubeInv'
  BY <1>2, GoToKeeps DEF IInv, CleanedUp, DropPc
<1>4. dbName' = dbName
  BY <1>1 DEF dbName
<1>5. TypeOK'
  BY <1>1, <1>3 DEF IInv, KubeInv, TypeOK, InstTypeOK
<1>6. Phases'
  BY <1>1, <1>4 DEF Phases, LivePc, DropPc
<1>7. Earned'
  <2>1. FinalizerEarned' /\ ReadyEarned'
    BY <1>1 DEF IInv, Earned, FinalizerEarned, ReadyEarned
  <2>2. ReadyMeansExists'
    BY <1>1, NoVictim DEF IInv, Earned, ReadyMeansExists
  <2> QED
    BY <2>1, <2>2 DEF Earned
<1> QED
  BY <1>3, <1>5, <1>6, <1>7 DEF IInv

\* connectToPostgres in handleDeletion.
LEMMA ConnectDropStep ==
  ASSUME IInv, ConnectDrop
  PROVE  IInv'
<1>1. /\ pc = "connectDrop" /\ UNCHANGED <<inst, dbs, sessions, verified>>
      /\ quota \in 0 .. MaxDisturbances /\ dbs \in SUBSET Targets
      /\ sessions \in SUBSET dbs
  BY DEF ConnectDrop, IInv, TypeOK, KubeTypeOK
<1>2. CASE GoTo("existsDrop") /\ UNCHANGED cause
  BY <1>1, <1>2, MoveStep
<1>3. CASE CleanedUp("notFound")
  BY <1>1, <1>3, CleanedUpStep DEF DropPc
<1>4. CASE DeletionError(quota)
  BY <1>1, <1>4, DeletionErrorStep DEF DropPc
<1> QED
  BY <1>2, <1>3, <1>4 DEF ConnectDrop

\* The existence check of DropDatabase.
LEMMA DropExistsStep ==
  ASSUME IInv, DropExists
  PROVE  IInv'
<1>1. /\ pc = "existsDrop" /\ UNCHANGED <<inst, dbs, sessions, verified>>
      /\ quota \in 0 .. MaxDisturbances /\ dbs \in SUBSET Targets
      /\ sessions \in SUBSET dbs
  BY DEF DropExists, IInv, TypeOK, KubeTypeOK
<1>2. CASE dbName \notin dbs /\ CleanedUp("dropped")
  BY <1>1, <1>2, CleanedUpStep DEF DropPc
<1>3. CASE GoTo("drop") /\ UNCHANGED cause
  BY <1>1, <1>3, MoveStep
<1>4. CASE quota > 0 /\ DeletionError(quota - 1)
  <2>1. quota - 1 \in 0 .. MaxDisturbances
    BY <1>1, <1>4, KubeAssumption
  <2> QED
    BY <1>1, <1>4, <2>1, DeletionErrorStep DEF DropPc
<1> QED
  BY <1>2, <1>3, <1>4 DEF DropExists

\* DROP DATABASE.
LEMMA DropExecStep ==
  ASSUME IInv, DropExec
  PROVE  IInv'
<1>1. /\ pc = "drop" /\ UNCHANGED <<inst, sessions, verified>>
      /\ quota \in 0 .. MaxDisturbances /\ dbs \in SUBSET Targets
      /\ sessions \in SUBSET dbs
  BY DEF DropExec, IInv, TypeOK, KubeTypeOK
<1>2. CASE Droppable(dbName) /\ dbs' = dbs \ {dbName} /\ CleanedUp("dropped")
  BY <1>1, <1>2, CleanedUpStep DEF DropPc, Droppable
<1>3. CASE DeletionError(quota) /\ UNCHANGED dbs
  BY <1>1, <1>3, DeletionErrorStep DEF DropPc
<1>4. CASE /\ quota > 0 /\ DeletionError(quota - 1)
           /\ dbs' \in {dbs, IF Droppable(dbName) THEN dbs \ {dbName} ELSE dbs}
  <2>1. quota - 1 \in 0 .. MaxDisturbances
    BY <1>1, <1>4, KubeAssumption
  <2>2. ASSUME NEW cr \in CR, NEW t \in dbs \ dbs',
               Ready(store[cr]), ~store[cr].deleting, Owned(cr, t)
        PROVE  Target(cr, store[cr].spec) # t
    BY <1>1, <1>4, <2>2, NoVictim DEF DropPc
  <2> QED
    BY <1>1, <1>4, <2>1, <2>2, DeletionErrorStep DEF DropPc, Droppable
<1> QED
  BY <1>2, <1>3, <1>4 DEF DropExec

\* The finalizer is removed, whether or not the worker learns of it.
LEMMA RemoveFinalizerStep ==
  ASSUME IInv, RemoveFinalizer
  PROVE  IInv'
<1>1. /\ pc = "release" /\ UNCHANGED <<inst, dbs, sessions, verified>> /\ cause' = "none"
      /\ dbs \in SUBSET Targets /\ sessions \in SUBSET dbs
  BY DEF RemoveFinalizer, IInv, TypeOK
<1>2. CASE UpdateConflict \/ UpdateError
  <2>1. KubeInv'
    BY <1>1, <1>2, UpdateFailedKeeps DEF IInv
  <2>2. pc' = "idle" /\ store' = store
    BY <1>2 DEF UpdateConflict, UpdateError, Return
  <2> QED
    BY <1>1, <2>1, <2>2, IdleStep
<1>3. CASE UpdateRemoveFinalizer \/ UpdateReplyLost(WithoutFinalizer)
  <2>1. Current /\ Put(key, WithoutFinalizer) /\ pc' = "idle"
    BY <1>3 DEF UpdateRemoveFinalizer, UpdateReplyLost, Return
  <2>2. KubeInv'
    BY <1>1, <1>3, UpdateRemoveFinalizerKeeps, UpdateReplyLostKeeps DEF IInv
  <2>3. TypeOK' /\ Phases'
    BY <1>1, <2>1, <2>2 DEF IInv, KubeInv, TypeOK, InstTypeOK, Phases, LivePc, DropPc
  <2>4. /\ key \in CR /\ obj = store[key] /\ obj.exists
        /\ WithoutFinalizer.finalizer = FALSE /\ WithoutFinalizer.deleting = TRUE
        /\ WithoutFinalizer.uid = obj.uid /\ WithoutFinalizer.spec = obj.spec
        /\ WithoutFinalizer.gen = obj.gen /\ WithoutFinalizer.cond = obj.cond
    BY <1>1, <2>1, CurrentObject, WithoutFinalizerSound DEF IInv, KubeInv, InHand
  <2>5. Ready(WithoutFinalizer) =>
          <<key, WithoutFinalizer.uid, Target(key, WithoutFinalizer.spec)>> \in verified
    BY <2>4 DEF Ready, IInv, Earned, ReadyEarned
  <2>6. Earned'
    BY <1>1, <2>1, <2>4, <2>5, EarnedWrite DEF Put
  <2> QED
    BY <2>2, <2>3, <2>6 DEF IInv
<1> QED
  BY <1>2, <1>3 DEF RemoveFinalizer

\* The initial states.
LEMMA InitIInv == Init => IInv
<1> SUFFICES ASSUME Init PROVE IInv
  OBVIOUS
<1>1. KubeInv /\ pc = "idle" /\ store = [cr \in CR |-> Never]
  BY KubeInitInv DEF Init, KubeInit
<1>2. TypeOK
  BY <1>1, DatabaseAssumption DEF Init, InstInit, KubeInv, TypeOK, InstTypeOK
<1>3. Phases
  BY <1>1 DEF Phases, LivePc, DropPc
<1>4. ~Never.finalizer /\ ~Ready(Never)
  BY DEF Never, Ready
<1> HIDE DEF Never
<1>5. Earned
  BY <1>1, <1>4 DEF Earned, FinalizerEarned, ReadyEarned, ReadyMeansExists
<1> QED
  BY <1>1, <1>2, <1>3, <1>5 DEF IInv

\* Every step keeps the inductive invariant.
LEMMA NextIInv == IInv /\ [Next]_vars => IInv'
<1> SUFFICES ASSUME IInv, [Next]_vars PROVE IInv'
  OBVIOUS
<1>1. ASSUME NEW cr \in CR, Users(cr), UNCHANGED dbVars PROVE IInv'
  BY <1>1, UsersStep
<1>2. ASSUME NEW cr \in CR, ReleaseHold(cr), UNCHANGED dbVars PROVE IInv'
  BY <1>2, UsersStep
<1>3. ASSUME NEW cr \in CR, Deliver(cr), UNCHANGED dbVars PROVE IInv'
  BY <1>3, DeliverStep
<1>4. ASSUME Restart, cause' = "none", UNCHANGED <<inst, dbs, sessions, verified>> PROVE IInv'
  BY <1>4, RestartStep DEF IInv, TypeOK
<1>5. ASSUME NEW ns \in Namespace, InstChange(ns), UNCHANGED <<dbs, sessions, verified, cause>>
      PROVE  IInv'
  BY <1>5, InstChangeStep
<1>6. CASE OtherClient
  BY <1>6, OtherClientStep
<1>7. ASSUME NEW cr \in CR, Take(cr) PROVE IInv'
  BY <1>7, TakeStep
<1>8. CASE Work
  BY <1>8, ConnectStep, CreateExistsStep, CreateExecStep, AddFinalizerStep,
     MarkReadyStep, ConnectDropStep, DropExistsStep, DropExecStep,
     RemoveFinalizerStep DEF Work
<1>9. CASE OtherSession
  BY <1>9, OtherSessionStep
<1>10. CASE UNCHANGED vars
  BY <1>10 DEF vars, kubeVars, dbVars, IInv, KubeInv, KubeTypeOK, Ordered, Finalized,
     Conditions, InHand, Informer, TypeOK, InstTypeOK, Phases, dbName, Earned,
     FinalizerEarned, ReadyEarned, ReadyMeansExists
<1> QED
  BY <1>1, <1>2, <1>3, <1>4, <1>5, <1>6, <1>7, <1>8, <1>9,
     <1>10 DEF Next

---------------------------------------------------------------------------
(* Nothing is forgotten.                                                   *)

\* The worker's steps lose no resource that is due.
LEMMA WorkAttends ==
  ASSUME IInv, Attention, Work
  PROVE  Attention'
<1>1. KubeInv /\ (pc \in LivePc => ~obj.deleting)
  BY DEF IInv, Phases
<1>2. ASSUME NEW message, NEW left, Failed(message, left), pc \in LivePc
      PROVE  Attention'
  BY <1>1, <1>2, ReportAttends, SanePositive DEF Failed, LivePc
<1>3. CASE MarkReady
  BY <1>1, <1>3, ReportAttends, SanePositive DEF MarkReady, Succeeded, LivePc
<1>4. ASSUME NEW next, next # "idle", pc # "idle", GoTo(next) PROVE Attention'
  BY <1>4, StayAttends DEF GoTo
<1>5. ASSUME NEW left, pc # "idle", DeletionError(left) PROVE Attention'
  <2>1. Return(TRUE) /\ UNCHANGED <<store, watch, cache>>
    BY <1>5, RequeueAssumption DEF DeletionError, Return
  <2> QED
    BY <1>1, <1>5, <2>1, ReturnAttend
<1>6. CASE Connect
  BY <1>2, <1>4, <1>6 DEF Connect, LivePc
<1>7. CASE CreateExists \/ CreateExec
  BY <1>2, <1>4, <1>7 DEF CreateExists, CreateExec, CreateFault, Created, LivePc
<1>8. CASE ConnectDrop \/ DropExists \/ DropExec
  BY <1>4, <1>5, <1>8 DEF ConnectDrop, DropExists, DropExec, CleanedUp
<1>9. CASE AddFinalizer
  <2>1. pc # "idle"
    BY <1>9 DEF AddFinalizer
  <2>2. CASE UpdateAddFinalizer("ready")
    BY <1>1, <2>1, <2>2, AddFinalizerAttends
  <2> QED
    BY <1>1, <1>9, <2>1, <2>2, UpdateAttends DEF AddFinalizer
<1>10. CASE RemoveFinalizer
  BY <1>1, <1>10, UpdateAttends DEF RemoveFinalizer
<1> QED
  BY <1>3, <1>6, <1>7, <1>8, <1>9, <1>10 DEF Work

\* Neither do the other steps.
LEMMA NextAttends == IInv /\ Attention /\ [Next]_vars => Attention'
<1> SUFFICES ASSUME IInv, Attention, [Next]_vars PROVE Attention'
  OBVIOUS
<1>1. KubeInv
  BY DEF IInv
<1>2. ASSUME NEW cr \in CR, Users(cr) \/ ReleaseHold(cr) PROVE Attention'
  <2>1. PICK n : Put(cr, n)
    BY <1>1, <1>2, OthersKeep DEF Users
  <2>2. UNCHANGED <<cache, queue, pc, key, obj>>
    BY <1>2 DEF Users, UserCreate, UserEdit, UserDelete, ReleaseHold
  <2> QED
    BY <1>1, <2>1, <2>2, OthersAttend
<1>3. ASSUME NEW cr \in CR, Deliver(cr) PROVE Attention'
  BY <1>1, <1>3, DeliverAttends
<1>4. CASE Restart
  BY <1>4, RestartAttends
<1>5. CASE \/ \E ns \in Namespace : InstChange(ns)
           \/ OtherClient \/ OtherSession \/ UNCHANGED vars
  <2>1. UNCHANGED <<store, watch, cache, queue, pc, key, obj>>
    BY <1>5 DEF InstChange, OtherClient, OtherSession, vars, kubeVars
  <2> QED
    BY <2>1, StayAttends
<1>6. ASSUME NEW cr \in CR, Take(cr) PROVE Attention'
  <2>1. CASE ReconcileGone(cr)
    BY <2>1, ReconcileNothingAttends DEF ReconcileGone, Due
  <2>2. CASE ReconcileLive(cr) \/ handleDeletion(cr)
    <3>1. \E next : ReconcileObject(cr, next)
      BY <2>2 DEF ReconcileLive, handleDeletion
    <3> QED
      BY <1>1, <3>1, ReconcileObjectAttends
  <2> QED
    BY <1>6, <2>1, <2>2 DEF Take
<1>7. CASE Work
  BY <1>7, WorkAttends
<1> QED
  BY <1>2, <1>3, <1>4, <1>5, <1>6, <1>7 DEF Next

---------------------------------------------------------------------------
(* Theorems.                                                               *)

\* The inductive invariant holds in every behaviour of the controller.
THEOREM Invariance == Spec => []IInv
BY InitIInv, NextIInv, PTL DEF Spec

\* Every variable of the controller keeps its type; in particular no
\* CREATE DATABASE is ever given an empty name.
THEOREM TypeCorrect == Spec => []TypeOK
<1>1. IInv => TypeOK
  BY DEF IInv
<1> QED
  BY <1>1, Invariance, PTL

\* No resource carries the finalizer before CreateDatabase succeeded for it.
THEOREM FinalizerIsEarned == Spec => []FinalizerEarned
<1>1. IInv => FinalizerEarned
  BY DEF IInv, Earned
<1> QED
  BY <1>1, Invariance, PTL

\* Ready=True for the current generation was earned by this very
\* incarnation for the database its spec names now.
THEOREM ReadyIsEarned == Spec => []ReadyEarned
<1>1. IInv => ReadyEarned
  BY DEF IInv, Earned
<1> QED
  BY <1>1, Invariance, PTL

\* The database of a live resource that is Ready exists, unless another
\* resource or another client may touch it.
THEOREM ReadyExists == Spec => []ReadyMeansExists
<1>1. IInv => ReadyMeansExists
  BY DEF IInv, Earned
<1> QED
  BY <1>1, Invariance, PTL

\* DROP DATABASE never runs on behalf of a resource that lives.
THEOREM DropsAreWanted == Spec => DropIsWanted
<1> DEFINE A == pc = "drop" /\ pc' # "drop" /\ dbName \in dbs \ dbs' =>
                  LET v == store[key]
                  IN  v.finalizer =>
                        /\ v.exists /\ v.deleting /\ v.uid = obj.uid
                        /\ v.gen = obj.gen => /\ v.spec.cleanupPolicy = "Delete"
                                              /\ Target(key, v.spec) = dbName
<1>1. IInv => A
  <2> SUFFICES ASSUME IInv, pc = "drop", store[key].finalizer
               PROVE  LET v == store[key]
                      IN  /\ v.exists /\ v.deleting /\ v.uid = obj.uid
                          /\ v.gen = obj.gen => /\ v.spec.cleanupPolicy = "Delete"
                                                /\ Target(key, v.spec) = dbName
    OBVIOUS
  <2>1. key \in CR /\ obj.deleting /\ obj.spec.cleanupPolicy = "Delete"
    BY dbNameType DEF IInv, Phases, DropPc
  <2>2. store[key].exists /\ obj.uid = store[key].uid /\ Precedes(obj, store[key])
    BY <2>1 DEF IInv, KubeInv, Finalized, InHand
  <2> QED
    BY <2>1, <2>2 DEF Precedes, dbName
<1>2. IInv /\ [Next]_vars => [A]_vars
  BY <1>1
<1> QED
  BY <1>2, Invariance, PTL DEF Spec, DropIsWanted

\* No resource that lives with sane intervals, or that waits for its cleanup,
\* is ever without a request, a reconcile or an undelivered version.
THEOREM NothingForgotten == Spec => []NeverForgotten
<1>1. Init => Attention
  BY InitAttends DEF Init
<1>2. Attention => NeverForgotten
  BY DEF Attention, Remembered, NeverForgotten
<1> QED
  BY <1>1, <1>2, NextAttends, Invariance, PTL DEF Spec

\* Only handleDeletion's Update takes the finalizer off a resource, from the
\* version the worker holds.
LEMMA WhoReleases ==
  ASSUME IInv, [Next]_vars, NEW cr \in CR,
         store[cr].finalizer, ~store'[cr].finalizer
  PROVE  pc = "release" /\ cr = key /\ obj = store[cr] /\ dbs' = dbs
<1>1. store \in [CR -> Version]
  BY DEF IInv, KubeInv, KubeTypeOK
<1>2. store' # store
  OBVIOUS
<1>3. ASSUME NEW c \in CR, Users(c) \/ ReleaseHold(c) PROVE FALSE
  <2>1. PICK n : Put(c, n) /\ Quiet(c, n)
    BY <1>3, OthersKeep DEF Users, IInv
  <2> QED
    BY <1>1, <2>1 DEF Put, Quiet
<1>4. ASSUME NEW status \in {"True", "False"}, NEW message \in Message, NEW left,
             pc # "idle", status = "True" => pc = "ready", NEW after,
             Report(status, message, left, after)
      PROVE  FALSE
  <2>1. store[key].exists /\ Put(key, Patched(status, message))
    BY <1>2, <1>4, ReportCases
  <2>2. Patched(status, message).finalizer = store[key].finalizer /\ key \in CR
    BY <1>4, <2>1, PatchedSound DEF IInv
  <2> QED
    BY <1>1, <2>1, <2>2 DEF Put
<1>5. CASE AddFinalizer
  <2>1. pc = "finalize" /\ Current /\ Put(key, WithFinalizer)
    BY <1>2, <1>5 DEF AddFinalizer, UpdateAddFinalizer, UpdateReplyLost,
                      UpdateConflict, UpdateError
  <2>2. WithFinalizer.finalizer = TRUE /\ key \in CR
    BY <2>1, WithFinalizerSound, CurrentObject DEF IInv
  <2> QED
    BY <1>1, <2>1, <2>2 DEF Put
<1>6. CASE RemoveFinalizer
  <2>1. pc = "release" /\ Current /\ Put(key, WithoutFinalizer) /\ dbs' = dbs
    BY <1>2, <1>6 DEF RemoveFinalizer, UpdateRemoveFinalizer, UpdateReplyLost,
                      UpdateConflict, UpdateError
  <2>2. obj = store[key] /\ key \in CR
    BY <2>1, CurrentObject DEF IInv
  <2> QED
    BY <1>1, <2>1, <2>2 DEF Put
<1>7. ASSUME Connect \/ CreateExists \/ CreateExec \/ MarkReady PROVE FALSE
  <2>1. \E status \in {"True", "False"} : \E message \in Message : \E left :
          /\ pc # "idle"
          /\ status = "True" => pc = "ready"
          /\ \E after : Report(status, message, left, after)
    BY <1>2, <1>7 DEF Connect, CreateExists, CreateExec, CreateFault, MarkReady,
                      Created, GoTo, Message, Failed, Succeeded
  <2> QED
    BY <1>4, <2>1
<1>8. CASE Work
  BY <1>2, <1>5, <1>6, <1>7, <1>8 DEF Work, ConnectDrop, DropExists, DropExec,
     CleanedUp, GoTo, DeletionError
<1>9. ASSUME NEW c \in CR, Take(c) PROVE FALSE
  BY <1>2, <1>9 DEF Take, ReconcileGone, ReconcileLive, handleDeletion,
     ReconcileNothing, ReconcileObject
<1> QED
  BY <1>2, <1>3, <1>8, <1>9 DEF Next, Deliver, Restart, InstChange, OtherClient,
     OtherSession, vars, kubeVars

\* When it does, and cleanup was asked for, the database is gone.
LEMMA CleanRelease ==
  ASSUME IInv, [Next]_vars, NEW cr \in CR,
         store[cr].finalizer, ~store'[cr].finalizer,
         store[cr].spec.cleanupPolicy = "Delete",
         Owned(cr, Target(cr, store[cr].spec))
  PROVE  Target(cr, store[cr].spec) \notin dbs' \/ cause = "notFound"
<1>1. pc = "release" /\ cr = key /\ obj = store[cr] /\ dbs' = dbs
  BY WhoReleases
<1> QED
  BY <1>1 DEF IInv, Phases, dbName

\* A resource with cleanupPolicy Delete loses its finalizer only when its
\* database is gone or connectToPostgres met a missing PostgreSQL resource.
THEOREM CleanupPrecedesRelease == Spec => CleanupBeforeRelease
<1> DEFINE B == \A cr \in CR :
                  LET v == store[cr]
                  IN  /\ v.finalizer /\ ~store'[cr].finalizer
                      /\ v.spec.cleanupPolicy = "Delete"
                      /\ Owned(cr, Target(cr, v.spec))
                      => Target(cr, v.spec) \notin dbs' \/ cause = "notFound"
<1>1. IInv /\ [Next]_vars => [B]_vars
  BY CleanRelease
<1> QED
  BY <1>1, Invariance, PTL DEF Spec, CleanupBeforeRelease

---------------------------------------------------------------------------
(* What a composition of controllers relies on.                            *)

\* The steps of the controller and of its informer, and users who delete.
Calm ==
  \/ \E cr \in CR : (UserDelete(cr) \/ Deliver(cr)) /\ UNCHANGED dbVars
  \/ \E cr \in CR : Take(cr)
  \/ Work

\* Every resource keeps to one database, has it for itself, and asks for its
\* cleanup.
Sole ==
  \A cr \in CR : \A s \in SpecOf[cr] :
    /\ s.cleanupPolicy = "Delete" /\ Owned(cr, Target(cr, s))
    /\ \A r \in SpecOf[cr] : Target(cr, r) = Target(cr, s)

AllUp == \A ns \in Namespace : inst[ns] = "ok"

\* Every database on the servers is one that a resource's finalizer will have
\* dropped.
Anchored ==
  /\ cause # "notFound"
  /\ \A t \in dbs : \E cr \in CR : \E s \in SpecOf[cr] :
       t = Target(cr, s) /\ store[cr].finalizer

\* Others come and go: they cost disturbances and connect to databases.
LEMMA OthersGo ==
  IInv /\ UNCHANGED <<store, watch, cache, queue, pc, key, obj, inst, dbs, verified, cause>>
       /\ quota' \in 0 .. MaxDisturbances /\ sessions' \in SUBSET dbs
    => /\ IInv'
       /\ Guarded => Guarded'
       /\ Anchored => Anchored'
<1> SUFFICES ASSUME IInv,
                    UNCHANGED <<store, watch, cache, queue, pc, key, obj, inst, dbs,
                                verified, cause>>,
                    quota' \in 0 .. MaxDisturbances, sessions' \in SUBSET dbs
             PROVE  /\ IInv'
                    /\ Guarded => Guarded'
                    /\ Anchored => Anchored'
  OBVIOUS
<1>1. Guarded => Guarded'
  BY DEF Guarded, Informer
<1>2. Anchored => Anchored'
  BY DEF Anchored, Target, PgNamespace, DatabaseName
<1> QED
  BY <1>1, <1>2, SessionsStep

\* A crash, which closes the connections of the operator.
LEMMA Recovers ==
  IInv /\ Restart /\ cause' = "none" /\ sessions' \in SUBSET dbs
       /\ UNCHANGED <<inst, dbs, verified>>
    => /\ IInv'
       /\ Guarded => Guarded' /\ NoneMade
       /\ Anchored => Anchored'
<1> SUFFICES ASSUME IInv, Restart, cause' = "none", sessions' \in SUBSET dbs,
                    UNCHANGED <<inst, dbs, verified>>
             PROVE  /\ IInv'
                    /\ Guarded => Guarded' /\ NoneMade
                    /\ Anchored => Anchored'
  OBVIOUS
<1>1. store' = store
  BY DEF Restart
<1>2. Anchored => Anchored'
  BY <1>1 DEF Anchored, Target, PgNamespace, DatabaseName
<1> QED
  BY <1>2, RestartStep, RestartGuards DEF IInv

\* The controller's own steps.
LEMMA CalmNext == Calm => Next
BY DEF Calm, Next, Users

LEMMA CalmLeaves == Calm => UNCHANGED <<inst, sessions>>
BY DEF Calm, dbVars, Take, ReconcileGone, ReconcileLive, handleDeletion, Work, Connect,
   CreateExists, CreateExec, AddFinalizer, MarkReady, ConnectDrop, DropExists, DropExec,
   RemoveFinalizer

\* A database that others are connected to does not go.
LEMMA CalmDrops == Calm => sessions \cap dbs \subseteq dbs'
BY DEF Calm, dbVars, Take, ReconcileGone, ReconcileLive, handleDeletion, Work, Connect,
   CreateExists, CreateExec, AddFinalizer, MarkReady, ConnectDrop, DropExists, DropExec,
   RemoveFinalizer, Droppable

\* The worker leaves no live version without the finalizer.
LEMMA WorkGuards ==
  ASSUME IInv, Guarded, Work
  PROVE  Guarded' /\ NoneMade
<1>1. KubeInv
  BY DEF IInv
<1>2. ASSUME NEW message \in Message, NEW left, pc # "idle", Failed(message, left)
      PROVE  Guarded' /\ NoneMade
  BY <1>1, <1>2, ReportGuards DEF Failed
<1>3. CASE MarkReady
  BY <1>1, <1>3, ReportGuards DEF MarkReady, Succeeded, Message
<1>4. ASSUME NEW next, pc # "idle", GoTo(next) PROVE Guarded' /\ NoneMade
  BY <1>4, StayGuards DEF GoTo
<1>5. ASSUME NEW left, DeletionError(left) PROVE Guarded' /\ NoneMade
  BY <1>5, StayGuards DEF DeletionError, Return
<1>6. CASE Connect
  BY <1>2, <1>4, <1>6 DEF Connect, Message
<1>7. CASE CreateExists \/ CreateExec
  BY <1>2, <1>4, <1>7 DEF CreateExists, CreateExec, CreateFault, Created, Message
<1>8. CASE ConnectDrop \/ DropExists \/ DropExec
  BY <1>4, <1>5, <1>8 DEF ConnectDrop, DropExists, DropExec, CleanedUp
<1>9. CASE AddFinalizer \/ RemoveFinalizer
  BY <1>1, <1>9, UpdateGuards DEF AddFinalizer, RemoveFinalizer
<1> QED
  BY <1>3, <1>6, <1>7, <1>8, <1>9 DEF Work

LEMMA CalmGuards == IInv /\ Guarded /\ Calm => Guarded' /\ NoneMade
<1> SUFFICES ASSUME IInv, Guarded, Calm PROVE Guarded' /\ NoneMade
  OBVIOUS
<1>1. KubeInv
  BY DEF IInv
<1>2. ASSUME NEW cr \in CR, Take(cr) PROVE Guarded' /\ NoneMade
  <2>1. CASE ReconcileGone(cr)
    BY <2>1, StayGuards DEF ReconcileGone, ReconcileNothing, Get
  <2>2. CASE ReconcileLive(cr) \/ handleDeletion(cr)
    <3>1. \E next : ReconcileObject(cr, next)
      BY <2>2 DEF ReconcileLive, handleDeletion
    <3> QED
      BY <3>1, ReconcileObjectGuards
  <2> QED
    BY <1>2, <2>1, <2>2 DEF Take
<1> QED
  BY <1>1, <1>2, UsersGuard, DeliverGuards, WorkGuards DEF Calm

\* A database is only created for a resource that has its finalizer.
LEMMA Creates ==
  ASSUME IInv, Guarded, Calm, NEW t \in dbs' \ dbs
  PROVE  \E cr \in CR : \E s \in SpecOf[cr] : t = Target(cr, s) /\ store'[cr].finalizer
<1>1. pc = "create" /\ t = dbName
  BY DEF Calm, dbVars, Take, ReconcileGone, ReconcileLive, handleDeletion, Work, Connect,
     CreateExists, CreateExec, AddFinalizer, MarkReady, ConnectDrop, DropExists, DropExec,
     RemoveFinalizer
<1>2. KubeInv /\ ~obj.deleting
  BY <1>1 DEF IInv, Phases, LivePc
<1>3. key \in CR /\ store[key].finalizer /\ obj.spec \in SpecOf[key]
  BY <1>1, <1>2, InHandGuarded
<1>4. store'[key].finalizer
  BY <1>1, <1>3, CalmNext, WhoReleases
<1> QED
  BY <1>1, <1>3, <1>4 DEF dbName

\* While the servers are up, no cleanup is given up.
LEMMA NotGivenUp ==
  ASSUME IInv, AllUp, Calm, cause # "notFound"
  PROVE  cause' # "notFound"
<1>1. pc # "idle" => Connection = "connected"
  <2>1. pc # "idle" => PgNamespace(key, obj.spec.postgresRef) \in Namespace
    BY dbNameType DEF dbName, Target, Targets
  <2> QED
    BY <2>1 DEF AllUp, Connection, connectToPostgres
<1>2. CASE ConnectDrop
  BY <1>1, <1>2 DEF ConnectDrop, DeletionError
<1>3. CASE DropExists \/ DropExec
  BY <1>3 DEF DropExists, DropExec, CleanedUp, DeletionError
<1>4. CASE RemoveFinalizer
  BY <1>4 DEF RemoveFinalizer
<1>5. CASE Connect \/ CreateExists \/ CreateExec \/ AddFinalizer \/ MarkReady
  BY <1>5 DEF Connect, CreateExists, CreateExec, AddFinalizer, MarkReady, dbVars
<1>6. ASSUME NEW cr \in CR, Take(cr) PROVE cause' # "notFound"
  BY <1>6 DEF Take, ReconcileGone, ReconcileLive, handleDeletion, dbVars
<1> QED
  BY <1>2, <1>3, <1>4, <1>5, <1>6 DEF Calm, Work, dbVars

\* So a database never outlives the finalizer of its resource.
LEMMA CalmAnchored ==
  Sole /\ AllUp /\ IInv /\ Guarded /\ Anchored /\ Calm => Anchored'
<1> SUFFICES ASSUME Sole, AllUp, IInv, Guarded, Anchored, Calm
             PROVE  Anchored'
  OBVIOUS
<1>1. cause # "notFound" /\ cause' # "notFound"
  BY NotGivenUp DEF Anchored
<1>2. ASSUME NEW t \in dbs', t \in dbs
      PROVE  \E cr \in CR : \E s \in SpecOf[cr] : t = Target(cr, s) /\ store'[cr].finalizer
  <2>1. PICK cr \in CR : \E s \in SpecOf[cr] : t = Target(cr, s) /\ store[cr].finalizer
    BY <1>2 DEF Anchored
  <2>2. store[cr].spec \in SpecOf[cr]
    BY <2>1 DEF IInv, KubeInv, Finalized, Ordered
  <2>3. /\ store[cr].spec.cleanupPolicy = "Delete" /\ Owned(cr, t)
        /\ Target(cr, store[cr].spec) = t
    BY <2>1, <2>2 DEF Sole
  <2>4. store'[cr].finalizer
    BY <1>1, <1>2, <2>1, <2>3, CalmNext, CleanRelease
  <2> QED
    BY <2>1, <2>4
<1>3. \A t \in dbs' : \E cr \in CR : \E s \in SpecOf[cr] :
        t = Target(cr, s) /\ store'[cr].finalizer
  BY <1>2, Creates
<1> QED
  BY <1>1, <1>3 DEF Anchored, Target, PgNamespace, DatabaseName

\* All of this, for one step of the controller.
LEMMA CalmStep ==
  IInv /\ Calm
    => /\ IInv' /\ UNCHANGED <<inst, sessions>> /\ sessions \cap dbs \subseteq dbs'
       /\ Guarded => Guarded' /\ NoneMade
       /\ Guarded /\ Anchored /\ Sole /\ AllUp => Anchored'
BY CalmNext, CalmLeaves, CalmDrops, CalmGuards, CalmAnchored, NextIInv

\* Where every resource is Ready and nothing is under way, all of it holds.
AllReady ==
  /\ AtRest /\ cause = "none"
  /\ \A cr \in CR :
       LET t == Target(cr, store[cr].spec)
       IN  <<cr, store[cr].uid, t>> \in verified /\ t \in dbs
  /\ \A t \in dbs : \E cr \in CR : t = Target(cr, store[cr].spec)

LEMMA AllReadyInv == TypeOK /\ AllReady => IInv /\ Guarded /\ Anchored
<1> SUFFICES ASSUME TypeOK, AllReady PROVE IInv /\ Guarded /\ Anchored
  OBVIOUS
<1>1. KubeInv /\ Guarded
  BY AtRestInv DEF TypeOK, AllReady
<1>2. Phases
  BY DEF AllReady, AtRest, Phases, LivePc, DropPc
<1>3. Earned
  <2>1. \A cr \in CR : Target(cr, store[cr].spec) \in Targets
    BY TargetType, Fields DEF TypeOK, KubeTypeOK
  <2> QED
    BY <2>1 DEF AllReady, Earned, FinalizerEarned, ReadyEarned, ReadyMeansExists
<1>4. Anchored
  BY DEF AllReady, AtRest, Anchored
<1> QED
  BY <1>1, <1>2, <1>3, <1>4 DEF IInv

---------------------------------------------------------------------------
(* The implementation of Lifecycle.                                        *)

\* The refinement mapping of ImplementsLifecycle.
phase   == [cr \in CR |-> PhaseOf(store[cr])]
ready   == [cr \in CR |-> Ready(store[cr])]
spec    == [cr \in CR |-> store[cr].spec]
object  == [cr \in CR |-> ObjectOf(cr)]
givenUp == [cr \in CR |-> key = cr /\ cause = "notFound"]

Shown == INSTANCE LifecycleProofs

\* What the mapping needs to know besides IInv: a cleanup is finished or given
\* up only before the finalizer goes.
Marks == Marked /\ (cause # "none" => pc = "release")

Implemented == Shown!Next \/ UNCHANGED Shown!vars

---------------------------------------------------------------------------
(* The mapping.                                                            *)

LEMMA IsMapped == Shown!Mapped /\ Shown!Mapped'
BY DEF Shown!Mapped, phase, ready, spec, object, givenUp

\* The database of a resource whose spec stays, and that nobody touches.
LEMMA ObjectStays ==
  ASSUME NEW cr \in CR, store'[cr].exists = store[cr].exists,
         store'[cr].spec = store[cr].spec,
         \A t : Owned(cr, t) => (t \in dbs' <=> t \in dbs)
  PROVE  ObjectOf(cr)' = ObjectOf(cr)
BY DEF ObjectOf, Owned, Target, PgNamespace

\* A step in which nobody writes, and no database of note comes or goes.
LEMMA Unseen ==
  ASSUME store' = store,
         \A cr \in CR : \A t : Owned(cr, t) => (t \in dbs' <=> t \in dbs),
         \A cr \in CR : key' = cr /\ cause' = "notFound" <=> key = cr /\ cause = "notFound"
  PROVE  Implemented
<1>1. \A cr \in CR : ObjectOf(cr)' = ObjectOf(cr)
  BY ObjectStays
<1>2. \A cr \in CR : Shown!Same(cr)
  BY <1>1 DEF Shown!Same, phase, ready, spec, object, givenUp
<1> QED
  BY <1>2, IsMapped, Shown!NothingShown DEF Implemented

\* A step that writes no resource but c, and touches no database but c's.
LEMMA OneSeen ==
  ASSUME NEW c \in CR, \A cr \in CR \ {c} : store'[cr] = store[cr],
         \A cr \in CR \ {c} : \A t : Owned(cr, t) => (t \in dbs' <=> t \in dbs),
         \A cr \in CR \ {c} :
           key' = cr /\ cause' = "notFound" <=> key = cr /\ cause = "notFound"
  PROVE  Shown!Only(c)
<1>1. \A cr \in CR \ {c} : ObjectOf(cr)' = ObjectOf(cr)
  BY ObjectStays
<1>2. \A cr \in CR \ {c} : Shown!Same(cr)
  BY <1>1 DEF Shown!Same, phase, ready, spec, object, givenUp
<1> QED
  BY <1>2, IsMapped DEF Shown!Only

\* What Lifecycle sees of c, before and after a step: its phase and database,
LEMMA SeenThing ==
  ASSUME NEW c \in CR
  PROVE  /\ phase[c] = PhaseOf(store[c]) /\ phase'[c] = PhaseOf(store'[c])
         /\ object[c] = ObjectOf(c) /\ object'[c] = ObjectOf(c)'
         /\ object'[c] \in Shown!Object
<1>1. ObjectOf(c)' \in Shown!Object
  BY DEF ObjectOf, Shown!Object
<1> QED
  BY <1>1 DEF phase, object

\* its Ready condition,
LEMMA SeenReady ==
  ASSUME NEW c \in CR
  PROVE  /\ Ready(store'[c]) => ready'[c] = TRUE
         /\ ~Ready(store'[c]) => ready'[c] = FALSE
         /\ (Ready(store'[c]) <=> Ready(store[c])) => ready'[c] = ready[c]
<1>1. ready[c] = Ready(store[c]) /\ ready'[c] = Ready(store'[c])
  BY DEF ready
<1> QED
  BY <1>1 DEF Ready

\* its spec,
LEMMA SeenSpec ==
  ASSUME NEW c \in CR
  PROVE  /\ store'[c] \in Version => spec'[c] \in Specs
         /\ spec'[c] = store'[c].spec /\ spec[c] = store[c].spec
         /\ store[c].spec.cleanupPolicy # "Delete" => spec[c] \notin Cleaned
<1>1. spec'[c] = store'[c].spec /\ spec[c] = store[c].spec
  BY DEF spec
<1> QED
  BY <1>1, Fields DEF Cleaned

\* and whether the cleanup was given up.
LEMMA SeenGivenUp ==
  ASSUME NEW c \in CR
  PROVE  /\ key' = key /\ cause' = cause => givenUp'[c] = givenUp[c]
         /\ (key' = c /\ cause' = "notFound" <=> key = c /\ cause = "notFound")
              => givenUp'[c] = givenUp[c]
         /\ (key' = c /\ cause' = "notFound" <=> ~(key = c /\ cause = "notFound"))
              => givenUp'[c] = ~givenUp[c]
         /\ key = c /\ cause = "notFound" => givenUp[c]
         /\ cause' # "notFound" => givenUp'[c] = FALSE
<1>1. /\ givenUp[c] = (key = c /\ cause = "notFound")
      /\ givenUp'[c] = (key' = c /\ cause' = "notFound")
  BY DEF givenUp
<1> QED
  BY <1>1

---------------------------------------------------------------------------
(* Users and the API server.                                               *)

LEMMA UsersShown ==
  ASSUME IInv, IInv', Marks, NEW c \in CR, Users(c) \/ ReleaseHold(c),
         UNCHANGED dbVars
  PROVE  Marks' /\ Implemented
<1>1. UNCHANGED <<dbs, cause>>
  BY DEF dbVars
<1>2. /\ Redone(store[c], store'[c]) /\ Marked' /\ UNCHANGED <<pc, key>>
      /\ \A cr \in CR \ {c} : store'[cr] = store[cr]
  BY OthersRedo DEF Users, IInv, KubeInv, Marks
<1>3. Marks'
  BY <1>1, <1>2 DEF Marks, Marked
<1>4. Shown!Only(c)
  BY <1>1, <1>2, OneSeen
<1>5. ready'[c] = FALSE /\ givenUp'[c] = givenUp[c]
  BY <1>1, <1>2, SeenReady, SeenGivenUp DEF Redone
<1>6. object'[c] \in Shown!Object /\ spec'[c] \in Specs
  BY SeenThing, SeenSpec DEF IInv, KubeInv, KubeTypeOK
<1>7. CASE PhaseOf(store[c]) = "absent" /\ PhaseOf(store'[c]) = "asked"
  <2>1. phase[c] = "absent" /\ phase'[c] = "asked"
    BY <1>7, SeenThing
  <2>2. Shown!Next
    BY <1>4, <1>5, <1>6, <2>1, Shown!CreateShown
  <2> QED
    BY <1>3, <2>2 DEF Implemented
<1>8. CASE /\ PhaseOf(store[c]) # "absent" /\ PhaseOf(store'[c]) = PhaseOf(store[c])
           /\ store'[c].spec # store[c].spec
  <2>1. phase[c] # "absent" /\ phase'[c] = phase[c]
    BY <1>8, SeenThing
  <2>2. spec'[c] # spec[c]
    BY <1>8, SeenSpec
  <2>3. Shown!Next
    BY <1>4, <1>5, <1>6, <2>1, <2>2, Shown!EditShown
  <2> QED
    BY <1>3, <2>3 DEF Implemented
<1>9. CASE /\ store'[c].spec = store[c].spec /\ store'[c].exists = store[c].exists
           /\ PhaseOf(store'[c]) = PhaseOf(store[c]) /\ ~Ready(store[c])
  <2>1. ObjectOf(c)' = ObjectOf(c)
    BY <1>1, <1>9, ObjectStays
  <2>2. phase'[c] = phase[c] /\ object'[c] = object[c] /\ spec'[c] = spec[c]
    BY <1>9, <2>1, SeenThing, SeenSpec
  <2>3. ready'[c] = ready[c]
    BY <1>2, <1>9, SeenReady DEF Redone
  <2>4. Shown!Same(c)
    BY <1>5, <2>2, <2>3 DEF Shown!Same
  <2> QED
    BY <1>3, <1>4, <2>4, IsMapped, Shown!NothingShown DEF Shown!Only, Implemented
<1>10. CASE /\ store'[c].spec = store[c].spec /\ store[c].exists /\ store'[c].exists
           /\ \/ PhaseOf(store[c]) = "asked" /\ PhaseOf(store'[c]) = "held"
              \/ PhaseOf(store[c]) = "guarded" /\ PhaseOf(store'[c]) = "leaving"
  <2>1. ObjectOf(c)' = ObjectOf(c)
    BY <1>1, <1>10, ObjectStays
  <2>2. object'[c] = object[c]
    BY <2>1, SeenThing
  <2>3. \/ phase[c] = "asked" /\ phase'[c] = "held"
        \/ phase[c] = "guarded" /\ phase'[c] = "leaving"
    BY <1>10, SeenThing
  <2>4. spec'[c] = spec[c]
    BY <1>10, SeenSpec
  <2>5. Shown!Next
    BY <1>4, <1>5, <2>2, <2>3, <2>4, Shown!DeleteShown
  <2> QED
    BY <1>3, <2>5 DEF Implemented
<1>11. CASE /\ store'[c].spec = store[c].spec /\ ~store'[c].exists
            /\ PhaseOf(store'[c]) = "absent"
            /\ PhaseOf(store[c]) = "asked" \/ (PhaseOf(store[c]) = "held" /\ ~Ready(store[c]))
  <2>1. ObjectOf(c)' = "any"
    BY <1>11 DEF ObjectOf
  <2>2. phase'[c] = "absent" /\ object'[c] = "any"
    BY <1>11, <2>1, SeenThing
  <2>3. spec'[c] = spec[c]
    BY <1>11, SeenSpec
  <2>4. CASE PhaseOf(store[c]) = "asked"
    <3>1. phase[c] = "asked"
      BY <2>4, SeenThing
    <3> QED
      BY <1>4, <1>5, <2>2, <2>3, <3>1, Shown!DeleteShown, <1>3 DEF Implemented
  <2>5. CASE PhaseOf(store[c]) = "held" /\ ~Ready(store[c])
    <3>1. phase[c] = "held"
      BY <2>5, SeenThing
    <3>2. ready'[c] = ready[c]
      BY <1>2, <2>5, SeenReady DEF Redone
    <3> QED
      BY <1>4, <1>5, <2>2, <2>3, <3>1, <3>2, Shown!LetGoShown, <1>3 DEF Implemented
  <2> QED
    BY <1>11, <2>4, <2>5
<1> QED
  BY <1>2, <1>7, <1>8, <1>9, <1>10, <1>11 DEF Redone

\* The worker leaves "release", with or without having been there.
LEMMA Forgets ==
  ASSUME IInv, store' = store, dbs' = dbs, cause' = "none"
  PROVE  Implemented
<1>1. CASE key \in CR /\ cause = "notFound"
  <2>1. PICK c \in CR : c = key
    BY <1>1
  <2>2. Shown!Only(c)
    BY <1>1, <2>1, OneSeen
  <2>3. ObjectOf(c)' = ObjectOf(c)
    BY <2>1, ObjectStays
  <2>4. phase'[c] = phase[c] /\ object'[c] = object[c]
    BY <2>3, SeenThing
  <2>5. ready'[c] = ready[c] /\ spec'[c] = spec[c]
    BY SeenReady, SeenSpec
  <2>6. givenUp'[c] = ~givenUp[c]
    BY <1>1, <2>1, SeenGivenUp
  <2>7. Shown!Next
    BY <2>1, <2>2, <2>4, <2>5, <2>6, Shown!GiveUpShown
  <2> QED
    BY <2>7 DEF Implemented
<1>2. CASE ~(key \in CR /\ cause = "notFound")
  BY <1>2, Unseen
<1> QED
  BY <1>1, <1>2

LEMMA RestartShown ==
  ASSUME IInv, Marks, Restart, cause' = "none", dbs' = dbs
  PROVE  Marks' /\ Implemented
<1>1. store' = store
  BY DEF Restart
<1> QED
  BY <1>1, Forgets DEF Marks, Marked

\* The informer, instances and other clients.
LEMMA OthersShown ==
  ASSUME IInv, Marks,
         \/ \E c \in CR : Deliver(c) /\ UNCHANGED dbVars
         \/ \E ns \in Namespace : InstChange(ns) /\ UNCHANGED <<dbs, cause>>
         \/ OtherClient \/ OtherSession
  PROVE  Marks' /\ Implemented
<1>1. UNCHANGED <<store, pc, key, cause>>
  BY DEF Deliver, InstChange, OtherClient, OtherSession, dbVars
<1>2. \A cr \in CR : \A t : Owned(cr, t) => (t \in dbs' <=> t \in dbs)
  BY DEF Deliver, InstChange, OtherClient, OtherSession, dbVars, Owned
<1> QED
  BY <1>1, <1>2, Unseen DEF Marks, Marked

---------------------------------------------------------------------------
(* The worker.                                                             *)

\* The worker is about one resource, and has not finished its cleanup before
\* "release".
LEMMA Busy ==
  ASSUME IInv, Marks, pc # "idle"
  PROVE  /\ key \in CR /\ obj.spec \in SpecOf[key]
         /\ pc # "release" => cause = "none"
BY dbNameType DEF Marks, Marked

\* What the worker does to its database is no other resource's business.
LEMMA Elsewhere ==
  ASSUME IInv, pc # "idle", dbs' \in {dbs, dbs \cup {dbName}, dbs \ {dbName}}
  PROVE  \A cr \in CR \ {key} : \A t : Owned(cr, t) => (t \in dbs' <=> t \in dbs)
<1>1. key \in CR /\ obj.spec \in SpecOf[key]
  BY dbNameType
<1>2. \A cr \in CR \ {key} : ~Owned(cr, dbName)
  BY <1>1 DEF Owned, dbName
<1> QED
  BY <1>2

\* CreateDatabase may make the database, and a failure may be reported.
LEMMA MakesShown ==
  ASSUME IInv, IInv', Marks, pc \notin {"idle", "release"},
         dbs' \in {dbs, dbs \cup {dbName}}, cause' = cause,
         \/ store' = store
         \/ /\ store[key].exists
            /\ \E message \in Message : Put(key, Patched("False", message))
  PROVE  Marks' /\ Implemented
<1>1. PICK c \in CR : c = key
  BY Busy
<1>2. cause = "none"
  BY Busy
<1>3. /\ \A cr \in CR \ {c} : store'[cr] = store[cr]
      /\ store'[c].exists = store[c].exists /\ store'[c].spec = store[c].spec
      /\ PhaseOf(store'[c]) = PhaseOf(store[c])
      /\ Ready(store'[c]) => store' = store
      /\ Marked'
  <2>1. CASE store' = store
    BY <2>1 DEF Marks, Marked
  <2>2. ASSUME NEW message \in Message, store[key].exists,
               Put(key, Patched("False", message))
        PROVE  /\ \A cr \in CR \ {c} : store'[cr] = store[cr]
               /\ store'[c].exists = store[c].exists /\ store'[c].spec = store[c].spec
               /\ PhaseOf(store'[c]) = PhaseOf(store[c])
               /\ ~Ready(store'[c]) /\ Marked'
    BY <1>1, <2>2, ReportRedoes DEF IInv, KubeInv, Marks
  <2> QED
    BY <2>1, <2>2
<1>4. Marks'
  BY <1>2, <1>3 DEF Marks, Marked
<1>5. Shown!Only(c)
  BY <1>1, <1>2, <1>3, OneSeen, Elsewhere
<1>7. phase'[c] = phase[c] /\ spec'[c] = spec[c] /\ givenUp'[c] = givenUp[c]
  <2>1. phase'[c] = phase[c]
    BY <1>3, SeenThing
  <2>2. spec'[c] = spec[c]
    BY <1>3, SeenSpec
  <2>3. givenUp'[c] = givenUp[c]
    BY <1>2, SeenGivenUp
  <2> QED
    BY <2>1, <2>2, <2>3
<1>8. CASE ObjectOf(c)' = ObjectOf(c)
  <2>1. object'[c] = object[c]
    BY <1>8, SeenThing
  <2>2. CASE Ready(store'[c])
    <3>1. ready'[c] = ready[c]
      BY <1>3, <2>2, SeenReady
    <3>2. \A cr \in CR : Shown!Same(cr)
      BY <1>5, <1>7, <2>1, <3>1 DEF Shown!Only, Shown!Same
    <3> QED
      BY <1>4, <3>2, IsMapped, Shown!NothingShown DEF Implemented
  <2>3. CASE ~Ready(store'[c])
    <3>1. ready'[c] = FALSE
      BY <2>3, SeenReady
    <3>2. Shown!Next
      BY <1>5, <1>7, <2>1, <3>1, Shown!ReportShown
    <3> QED
      BY <1>4, <3>2 DEF Implemented
  <2> QED
    BY <2>2, <2>3
<1>9. CASE ObjectOf(c)' # ObjectOf(c)
  <2> DEFINE t == Target(c, store[c].spec)
  <2>1. Target(c, store[c].spec)' = t /\ (Owned(c, t)' <=> Owned(c, t))
    BY <1>3 DEF Target, PgNamespace, Owned
  <2>2. store[c].exists /\ Owned(c, t) /\ t \notin dbs /\ t \in dbs'
    BY <1>3, <1>9, <2>1 DEF ObjectOf
  <2>3. ObjectOf(c) = "missing" /\ ObjectOf(c)' = "there"
    BY <1>3, <2>1, <2>2 DEF ObjectOf
  <2>4. ~Ready(store[c]) /\ ~Ready(store'[c])
    BY <1>3, <2>2 DEF Marks, Marked, MarkedVersion, IInv, Earned, ReadyMeansExists
  <2>5. ready'[c] = ready[c] /\ object[c] = "missing" /\ object'[c] = "there"
    BY <2>3, <2>4, SeenReady, SeenThing
  <2>6. Shown!Next
    BY <1>5, <1>7, <2>5, Shown!MakeShown
  <2> QED
    BY <1>4, <2>6 DEF Implemented
<1> QED
  BY <1>8, <1>9

\* Ready=True lands on a guarded resource whose database is there.
LEMMA MarkReadyShown ==
  ASSUME IInv, IInv', Marks, MarkReady
  PROVE  Marks' /\ Implemented
<1>1. /\ pc = "ready" /\ UNCHANGED <<dbs, cause>>
      /\ Report("True", "exists", quota, requeueResult(obj.spec))
  BY DEF MarkReady, Succeeded, dbVars
<1>2. PICK c \in CR : c = key
  BY <1>1, Busy
<1>3. cause = "none"
  BY <1>1, Busy
<1>4. CASE store' = store
  BY <1>1, <1>3, <1>4, Unseen DEF Marks, Marked
<1>5. CASE store[key].exists /\ Put(key, Patched("True", "exists"))
  <2>1. /\ \A cr \in CR \ {c} : store'[cr] = store[cr]
        /\ Marked'
        /\ store'[c].exists = store[c].exists /\ store'[c].spec = store[c].spec
        /\ PhaseOf(store'[c]) = PhaseOf(store[c])
        /\ Ready(store'[c]) =>
             /\ PhaseOf(store[c]) = "guarded" /\ obj.spec = store[c].spec
    BY <1>1, <1>2, <1>5, ReportRedoes DEF Message, IInv, KubeInv, Marks
  <2>2. Owned(key, dbName) => dbName \in dbs
    BY <1>1 DEF IInv, Phases
  <2>5. Marks'
    BY <1>1, <1>3, <2>1 DEF Marks, Marked
  <2>6. Shown!Only(c)
    BY <1>1, <1>3, <2>1, OneSeen
  <2>7. phase'[c] = phase[c] /\ object'[c] = object[c]
    <3>1. ObjectOf(c)' = ObjectOf(c)
      BY <1>1, <2>1, ObjectStays
    <3> QED
      BY <2>1, <3>1, SeenThing
  <2>8. spec'[c] = spec[c] /\ givenUp'[c] = givenUp[c]
    BY <1>1, <1>3, <2>1, SeenSpec, SeenGivenUp
  <2>9. CASE Ready(store'[c])
    <3>1. phase[c] = "guarded"
      BY <2>1, <2>9, SeenThing
    <3>2. ObjectOf(c) \in {"any", "there"}
      BY <1>2, <2>1, <2>2, <2>9 DEF ObjectOf, dbName
    <3>3. Shown!Whole(c) /\ ready'[c] = TRUE
      BY <2>9, <3>2, SeenThing, SeenReady DEF Shown!Whole
    <3>4. Shown!Next
      BY <2>6, <2>7, <2>8, <3>1, <3>3, Shown!ReportShown
    <3> QED
      BY <2>5, <3>4 DEF Implemented
  <2>10. CASE ~Ready(store'[c])
    <3>1. ready'[c] = FALSE
      BY <2>10, SeenReady
    <3>2. Shown!Next
      BY <2>6, <2>7, <2>8, <3>1, Shown!ReportShown
    <3> QED
      BY <2>5, <3>2 DEF Implemented
  <2> QED
    BY <2>9, <2>10
<1> QED
  BY <1>1, <1>4, <1>5, ReportCases

\* The worker moves on, or takes or returns a request, and nothing is seen.
LEMMA MovesShown ==
  ASSUME IInv, Marks, store' = store, dbs' = dbs,
         cause # "notFound", cause' # "notFound",
         cause' # "none" => pc' = "release"
  PROVE  Marks' /\ Implemented
BY Unseen DEF Marks, Marked

LEMMA TakesShown ==
  ASSUME IInv, Marks, NEW c \in CR, Take(c)
  PROVE  Marks' /\ Implemented
<1>1. cause = "none"
  BY DEF Take, ReconcileGone, ReconcileNothing, ReconcileLive, handleDeletion,
         ReconcileObject, Get, Marks
<1>2. CASE ReconcileGone(c) \/ ReconcileLive(c)
  <2>1. UNCHANGED <<store, dbs, cause>>
    BY <1>2 DEF ReconcileGone, ReconcileNothing, ReconcileLive, ReconcileObject, dbVars
  <2> QED
    BY <1>1, <2>1, MovesShown
<1>3. CASE handleDeletion(c)
  <2>1. UNCHANGED <<store, dbs>>
    BY <1>3 DEF handleDeletion, ReconcileObject
  <2>2. cause' = cause \/ (cause' = "policy" /\ pc' = "release")
    BY <1>3 DEF handleDeletion, ReconcileObject
  <2> QED
    BY <1>1, <2>1, <2>2, MovesShown
<1> QED
  BY <1>2, <1>3 DEF Take

\* DropDatabase takes the database of a resource that is not guarded.
LEMMA DropsShown ==
  ASSUME IInv, Marks, pc = "drop", store' = store, key' \in {key, NoCR},
         dbs' \in {dbs, dbs \ {dbName}},
         cause' \in {"none", "dropped"}, cause' = "dropped" => pc' = "release"
  PROVE  Marks' /\ Implemented
<1>1. PICK c \in CR : c = key
  BY Busy
<1>2. cause = "none"
  BY Busy
<1>3. Marks'
  BY DEF Marks, Marked
<1>4. Shown!Only(c)
  BY <1>1, <1>2, OneSeen, Elsewhere
<1>5. /\ phase'[c] = phase[c] /\ ready'[c] = ready[c]
      /\ spec'[c] = spec[c] /\ givenUp'[c] = givenUp[c]
  BY <1>2, SeenThing, SeenReady, SeenSpec, SeenGivenUp
<1>6. CASE ObjectOf(c)' = ObjectOf(c)
  <2>1. \A cr \in CR : Shown!Same(cr)
    BY <1>4, <1>5, <1>6, SeenThing DEF Shown!Only, Shown!Same
  <2> QED
    BY <1>3, <2>1, IsMapped, Shown!NothingShown DEF Implemented
<1>7. CASE ObjectOf(c)' # ObjectOf(c)
  <2> DEFINE t == Target(c, store[c].spec)
  <2>1. Target(c, store[c].spec)' = t /\ (Owned(c, t)' <=> Owned(c, t))
    BY DEF Target, PgNamespace, Owned
  <2>2. store[c].exists /\ Owned(c, t) /\ t \in dbs /\ t \notin dbs'
    BY <1>7, <2>1 DEF ObjectOf
  <2>3. ObjectOf(c) = "there" /\ ObjectOf(c)' = "missing"
    BY <2>1, <2>2 DEF ObjectOf
  <2>4. store[c].finalizer => store[c].deleting
    BY <1>1, <2>2 DEF IInv, KubeInv, InHand, Precedes, Phases, DropPc
  <2>5. PhaseOf(store[c]) # "guarded"
    BY <2>2, <2>4 DEF PhaseOf
  <2>6. phase[c] # "guarded" /\ object[c] = "there" /\ object'[c] = "missing"
    BY <2>3, <2>5, SeenThing
  <2>7. Shown!Next
    BY <1>4, <1>5, <2>6, Shown!DropShown
  <2> QED
    BY <1>3, <2>7 DEF Implemented
<1> QED
  BY <1>6, <1>7

\* The cleanup is given up.
LEMMA GivesUpShown ==
  ASSUME IInv, Marks, pc = "connectDrop", CleanedUp("notFound"), dbs' = dbs
  PROVE  Marks' /\ Implemented
<1>1. PICK c \in CR : c = key
  BY Busy
<1>2. cause = "none" /\ cause' = "notFound" /\ pc' = "release"
      /\ UNCHANGED <<store, key>>
  BY Busy DEF CleanedUp, GoTo
<1>3. Shown!Only(c)
  BY <1>1, <1>2, OneSeen
<1>4. ObjectOf(c)' = ObjectOf(c)
  BY <1>2, ObjectStays
<1>5. phase'[c] = phase[c] /\ object'[c] = object[c] /\ ready'[c] = ready[c]
  BY <1>2, <1>4, SeenThing, SeenReady
<1>6. spec'[c] = spec[c] /\ givenUp'[c] = ~givenUp[c]
  BY <1>1, <1>2, SeenSpec, SeenGivenUp
<1>7. Shown!Next
  BY <1>3, <1>5, <1>6, Shown!GiveUpShown
<1> QED
  BY <1>2, <1>7 DEF Implemented, Marks, Marked

\* The finalizer is added once the database is there.
LEMMA GuardsShown ==
  ASSUME IInv, IInv', Marks, pc = "finalize", Current, Put(key, WithFinalizer),
         UNCHANGED <<dbs, cause>>
  PROVE  Marks' /\ Implemented
<1>1. PICK c \in CR : c = key
  BY Busy
<1>2. cause = "none"
  BY Busy
<1>3. /\ \A cr \in CR \ {c} : store'[cr] = store[cr]
      /\ Marked' /\ obj = store[c]
      /\ store[c].exists /\ store'[c].exists /\ store'[c].spec = store[c].spec
      /\ PhaseOf(store[c]) \in {"asked", "guarded"}
      /\ PhaseOf(store'[c]) = "guarded"
      /\ Ready(store'[c]) <=> Ready(store[c])
  BY <1>1, WithFinalizerRedoes DEF IInv, KubeInv, Marks
<1>4. Marks'
  BY <1>2, <1>3 DEF Marks, Marked
<1>5. Shown!Only(c)
  BY <1>2, <1>3, OneSeen
<1>6. ObjectOf(c)' = ObjectOf(c)
  BY <1>3, ObjectStays
<1>7. object'[c] = object[c] /\ ready'[c] = ready[c]
  BY <1>3, <1>6, SeenThing, SeenReady
<1>8. spec'[c] = spec[c] /\ givenUp'[c] = givenUp[c]
  BY <1>2, <1>3, SeenSpec, SeenGivenUp
<1>9. CASE PhaseOf(store[c]) = "guarded"
  <2>1. phase'[c] = phase[c]
    BY <1>3, <1>9, SeenThing
  <2>2. \A cr \in CR : Shown!Same(cr)
    BY <1>5, <1>7, <1>8, <2>1 DEF Shown!Only, Shown!Same
  <2> QED
    BY <1>4, <2>2, IsMapped, Shown!NothingShown DEF Implemented
<1>10. CASE PhaseOf(store[c]) = "asked"
  <2>1. phase[c] = "asked" /\ phase'[c] = "guarded"
    BY <1>3, <1>10, SeenThing
  <2>2. ObjectOf(c) \in {"any", "there"}
    BY <1>1, <1>3 DEF ObjectOf, dbName, IInv, Phases
  <2>3. Shown!Whole(c)
    BY <2>2, SeenThing DEF Shown!Whole
  <2>4. Shown!Next
    BY <1>5, <1>7, <1>8, <2>1, <2>3, Shown!GuardShown
  <2> QED
    BY <1>4, <2>4 DEF Implemented
<1> QED
  BY <1>3, <1>9, <1>10

\* The finalizer is removed once the database is gone, if it has to go.
LEMMA ReleasesShown ==
  ASSUME IInv, IInv', Marks, pc = "release", Current, Put(key, WithoutFinalizer),
         dbs' = dbs, cause' = "none"
  PROVE  Marks' /\ Implemented
<1>1. PICK c \in CR : c = key
  BY Busy
<1>2. /\ \A cr \in CR \ {c} : store'[cr] = store[cr]
      /\ Marked' /\ obj = store[c]
      /\ store[c].exists /\ store'[c].spec = store[c].spec
      /\ PhaseOf(store[c]) = "leaving"
      /\ \/ store'[c].exists /\ PhaseOf(store'[c]) = "held"
         \/ ~store'[c].exists /\ PhaseOf(store'[c]) = "absent"
      /\ ~Ready(store[c]) /\ ~Ready(store'[c])
  BY <1>1, WithoutFinalizerRedoes DEF IInv, KubeInv, Marks
<1>3. Marks'
  BY <1>2 DEF Marks, Marked
<1>4. Shown!Only(c)
  BY <1>1, <1>2, OneSeen
<1>5. ready'[c] = ready[c] /\ spec'[c] = spec[c] /\ givenUp'[c] = FALSE
  BY <1>2, SeenReady, SeenSpec, SeenGivenUp
<1>6. phase[c] = "leaving"
  BY <1>2, SeenThing
<1>7. spec[c] \notin Cleaned \/ object[c] \in {"any", "missing"} \/ givenUp[c]
  <2>1. CASE store[c].spec.cleanupPolicy # "Delete"
    BY <2>1, SeenSpec
  <2>2. CASE cause = "notFound"
    BY <1>1, <2>2, SeenGivenUp
  <2>3. CASE store[c].spec.cleanupPolicy = "Delete" /\ cause # "notFound"
    <3>1. ObjectOf(c) \in {"any", "missing"}
      BY <1>1, <1>2, <2>3 DEF ObjectOf, dbName, IInv, Phases
    <3> QED
      BY <3>1, SeenThing
  <2> QED
    BY <2>1, <2>2, <2>3
<1>8. \/ phase'[c] = "held" /\ object'[c] = object[c]
      \/ phase'[c] = "absent" /\ object'[c] = "any"
  <2>1. CASE store'[c].exists /\ PhaseOf(store'[c]) = "held"
    <3>1. ObjectOf(c)' = ObjectOf(c)
      BY <1>2, <2>1, ObjectStays
    <3> QED
      BY <2>1, <3>1, SeenThing
  <2>2. CASE ~store'[c].exists /\ PhaseOf(store'[c]) = "absent"
    <3>1. ObjectOf(c)' = "any"
      BY <2>2 DEF ObjectOf
    <3> QED
      BY <2>2, <3>1, SeenThing
  <2> QED
    BY <1>2, <2>1, <2>2
<1>9. Shown!Next
  BY <1>4, <1>5, <1>6, <1>7, <1>8, Shown!ReleaseShown
<1> QED
  BY <1>3, <1>9 DEF Implemented

\* An error that ends the cleanup changes at most the database.
LEMMA ErrorsShown ==
  ASSUME IInv, Marks, pc \in DropPc, NEW left, DeletionError(left),
         dbs' \in {dbs, dbs \ {dbName}}, pc = "drop" \/ dbs' = dbs
  PROVE  Marks' /\ Implemented
<1>1. store' = store /\ key' = NoCR /\ cause' = cause
  BY DEF DeletionError, Return
<1>2. cause = "none"
  BY Busy DEF DropPc
<1>3. CASE pc = "drop"
  BY <1>1, <1>2, <1>3, DropsShown
<1>4. CASE dbs' = dbs
  BY <1>1, <1>2, <1>4, MovesShown
<1> QED
  BY <1>3, <1>4

\* What a failure changes.
LEMMA FailedCases ==
  ASSUME NEW message \in Message, NEW left, Failed(message, left)
  PROVE  \/ store' = store
         \/ /\ store[key].exists
            /\ \E m \in Message : Put(key, Patched("False", m))
BY ReportCases DEF Failed

\* Reconcile, from "connect" to "create".
LEMMA CreatesShown ==
  ASSUME IInv, IInv', Marks, Connect \/ CreateExists \/ CreateExec
  PROVE  Marks' /\ Implemented
<1>1. pc \notin {"idle", "release"} /\ cause' = cause
  BY DEF Connect, CreateExists, CreateExec, dbVars
<1>2. dbs' \in {dbs, dbs \cup {dbName}}
  BY DEF Connect, CreateExists, CreateExec, dbVars
<1>3. \/ store' = store
      \/ \E message \in Message : \E left : Failed(message, left)
  <2>1. CASE Connect
    BY <2>1 DEF Connect, GoTo, Message
  <2>2. CASE CreateExists
    BY <2>2 DEF CreateExists, Created, CreateFault, GoTo, Message
  <2>3. CASE CreateExec
    BY <2>3 DEF CreateExec, Created, CreateFault, GoTo, Message
  <2> QED
    BY <2>1, <2>2, <2>3
<1>4. \/ store' = store
      \/ /\ store[key].exists
         /\ \E m \in Message : Put(key, Patched("False", m))
  BY <1>3, FailedCases
<1> QED
  BY <1>1, <1>2, <1>4, MakesShown

LEMMA AddFinalizerShown ==
  ASSUME IInv, IInv', Marks, AddFinalizer
  PROVE  Marks' /\ Implemented
<1>1. pc = "finalize" /\ UNCHANGED <<dbs, cause>>
  BY DEF AddFinalizer, dbVars
<1>2. CASE UpdateConflict \/ UpdateError
  <2>1. store' = store /\ cause = "none"
    BY <1>1, <1>2, Busy DEF UpdateConflict, UpdateError
  <2> QED
    BY <1>1, <2>1, MovesShown
<1>3. CASE UpdateAddFinalizer("ready") \/ UpdateReplyLost(WithFinalizer)
  BY <1>1, <1>3, GuardsShown DEF UpdateAddFinalizer, UpdateReplyLost
<1> QED
  BY <1>2, <1>3 DEF AddFinalizer

LEMMA RemoveFinalizerShown ==
  ASSUME IInv, IInv', Marks, RemoveFinalizer
  PROVE  Marks' /\ Implemented
<1>1. pc = "release" /\ dbs' = dbs /\ cause' = "none"
  BY DEF RemoveFinalizer
<1>2. CASE UpdateConflict \/ UpdateError
  <2>1. store' = store
    BY <1>2 DEF UpdateConflict, UpdateError
  <2> QED
    BY <1>1, <2>1, Forgets DEF Marks, Marked
<1>3. CASE UpdateRemoveFinalizer \/ UpdateReplyLost(WithoutFinalizer)
  BY <1>1, <1>3, ReleasesShown DEF UpdateRemoveFinalizer, UpdateReplyLost
<1> QED
  BY <1>2, <1>3 DEF RemoveFinalizer

\* handleDeletion, from "connectDrop" to "drop".
LEMMA CleansShown ==
  ASSUME IInv, Marks, ConnectDrop \/ DropExists \/ DropExec
  PROVE  Marks' /\ Implemented
<1>1. pc \in DropPc /\ cause = "none"
  BY Busy DEF ConnectDrop, DropExists, DropExec, DropPc
<1>2. CASE ConnectDrop
  <2>1. CASE GoTo("existsDrop") /\ UNCHANGED cause
    BY <1>1, <1>2, <2>1, MovesShown DEF ConnectDrop, GoTo
  <2>2. CASE CleanedUp("notFound")
    BY <1>2, <2>2, GivesUpShown DEF ConnectDrop
  <2>3. CASE DeletionError(quota)
    BY <1>1, <1>2, <2>3, ErrorsShown DEF ConnectDrop
  <2> QED
    BY <1>2, <2>1, <2>2, <2>3 DEF ConnectDrop
<1>3. CASE DropExists
  <2>1. CASE CleanedUp("dropped")
    BY <1>1, <1>3, <2>1, MovesShown DEF DropExists, CleanedUp, GoTo
  <2>2. CASE GoTo("drop") /\ UNCHANGED cause
    BY <1>1, <1>3, <2>2, MovesShown DEF DropExists, GoTo
  <2>3. CASE DeletionError(quota - 1)
    BY <1>1, <1>3, <2>3, ErrorsShown DEF DropExists
  <2> QED
    BY <1>3, <2>1, <2>2, <2>3 DEF DropExists
<1>4. CASE DropExec
  <2>1. pc = "drop" /\ dbs' \in {dbs, dbs \ {dbName}}
    BY <1>4 DEF DropExec
  <2>2. CASE CleanedUp("dropped")
    BY <2>1, <2>2, DropsShown DEF CleanedUp, GoTo
  <2>3. CASE \E left : DeletionError(left)
    BY <1>1, <2>1, <2>3, ErrorsShown
  <2> QED
    BY <1>4, <2>2, <2>3 DEF DropExec
<1> QED
  BY <1>2, <1>3, <1>4

---------------------------------------------------------------------------
(* The whole system.                                                       *)

LEMMA InitMarks == Init => Marks
BY InitMarked DEF Init, Marks

LEMMA InitImplemented == Init => Shown!Init
<1> SUFFICES ASSUME Init PROVE Shown!Init
  OBVIOUS
<1>1. \A cr \in CR : /\ store[cr] = Never /\ ~Never.exists
                     /\ ~(key = cr /\ cause = "notFound")
  BY DEF Init, KubeInit, Never
<1>2. phase = [cr \in CR |-> "absent"]
  BY <1>1 DEF phase, PhaseOf
<1>3. ready = [cr \in CR |-> FALSE]
  BY <1>1 DEF ready, Ready
<1>4. object = [cr \in CR |-> "any"]
  BY <1>1 DEF object, ObjectOf
<1>5. spec \in [CR -> Specs]
  BY <1>1, NeverType DEF spec, Version
<1>6. givenUp = [cr \in CR |-> FALSE]
  BY <1>1 DEF givenUp
<1> QED
  BY <1>2, <1>3, <1>4, <1>5, <1>6 DEF Shown!Init

LEMMA NextImplemented ==
  IInv /\ IInv' /\ Marks /\ [Next]_vars => Marks' /\ Implemented
<1> SUFFICES ASSUME IInv, IInv', Marks, [Next]_vars PROVE Marks' /\ Implemented
  OBVIOUS
<1>1. ASSUME NEW cr \in CR, Users(cr), UNCHANGED dbVars PROVE Marks' /\ Implemented
  BY <1>1, UsersShown
<1>2. ASSUME NEW cr \in CR, ReleaseHold(cr), UNCHANGED dbVars PROVE Marks' /\ Implemented
  BY <1>2, UsersShown
<1>3. ASSUME NEW cr \in CR, Deliver(cr), UNCHANGED dbVars PROVE Marks' /\ Implemented
  BY <1>3, OthersShown
<1>4. CASE Restart /\ cause' = "none" /\ UNCHANGED <<inst, dbs, sessions, verified>>
  BY <1>4, RestartShown
<1>5. ASSUME NEW ns \in Namespace, InstChange(ns), UNCHANGED <<dbs, sessions, verified, cause>>
      PROVE  Marks' /\ Implemented
  BY <1>5, OthersShown
<1>6. CASE OtherClient \/ OtherSession
  BY <1>6, OthersShown
<1>7. ASSUME NEW cr \in CR, Take(cr) PROVE Marks' /\ Implemented
  BY <1>7, TakesShown
<1>8. CASE Work
  BY <1>8, CreatesShown, AddFinalizerShown, MarkReadyShown, CleansShown,
     RemoveFinalizerShown DEF Work
<1>9. CASE UNCHANGED vars
  <2>1. UNCHANGED <<store, pc, key, dbs, cause>>
    BY <1>9 DEF vars, kubeVars, dbVars
  <2> QED
    BY <2>1, Unseen DEF Marks, Marked
<1> QED
  BY <1>1, <1>2, <1>3, <1>4, <1>5, <1>6, <1>7, <1>8, <1>9 DEF Next

\* The mapping is that of ImplementsLifecycle.
LEMMA SameInit == Shown!Init => Promise!Init
BY DEF Shown!Init, Promise!Init, phase, ready, spec, object, givenUp

LEMMA SameNext == Implemented => [Promise!Next]_(Promise!vars)
BY DEF Implemented,
       phase, ready, spec, object, givenUp, Shown!Next, Shown!Create,
       Shown!Edit, Shown!Ask, Shown!Delete, Shown!Forget, Shown!Make,
       Shown!Drop, Shown!Tamper, Shown!Guard, Shown!Report, Shown!Retract,
       Shown!GiveUp, Shown!Release, Shown!LetGo, Shown!Enter, Shown!Whole,
       Shown!Object, Shown!vars, Promise!Next, Promise!Create,
       Promise!Edit, Promise!Ask, Promise!Delete, Promise!Forget,
       Promise!Make, Promise!Drop, Promise!Tamper, Promise!Guard,
       Promise!Report, Promise!Retract, Promise!GiveUp, Promise!Release,
       Promise!LetGo, Promise!Enter, Promise!Whole, Promise!Object,
       Promise!vars

\* Every behaviour of the controller is one that Lifecycle allows.  Through
\* stale caches, lost replies, crashes and other clients, and of a database
\* that is asked for and touched by nobody else: the finalizer comes when it
\* is there; while the resource lives with the finalizer and its spec stays,
\* the database stays, whether the resource is Ready or not (Drop); Ready=True
\* is reported of one that is there; and the finalizer goes when it has gone,
\* is to be kept, or is given up.
THEOREM LifecycleImplemented == Spec => ImplementsLifecycle
<1>1. Init => Promise!Init
  BY InitImplemented, SameInit
<1>2. IInv /\ IInv' /\ Marks /\ [Next]_vars => Marks' /\ [Promise!Next]_(Promise!vars)
  BY NextImplemented, SameNext
<1> QED
  BY <1>1, <1>2, InitMarks, Invariance, PTL DEF Spec, ImplementsLifecycle, Promise!Spec
==============================================================================
