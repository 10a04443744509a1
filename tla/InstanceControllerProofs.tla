----------------------- MODULE InstanceControllerProofs -----------------------
(***************************************************************************)
(* Proofs about the PostgreSQL controller, for every set of resources and  *)
(* specs and any number of faults.  It sets no finalizer, so a resource    *)
(* may go, and come back under the same name, while the worker holds the   *)
(* former incarnation: of KubeInv (module KubeApiProofs) only the types    *)
(* and the order of versions hold here, and the rest is stated anew.       *)
(***************************************************************************)
EXTENDS InstanceController, AttentionProofs

\* Incarnations are numbered from 1.
Numbered ==
  \A cr \in CR : \A v \in Informer(cr) \cup {store[cr]} : v.exists => v.uid > 0

\* The worker holds a past version, and reports success after a ping.
Held ==
  pc # "idle" =>
    /\ obj.exists /\ obj.uid > 0 /\ Precedes(obj, store[key])
    /\ pc = "ready" => <<key, obj.uid, obj.gen>> \in verified

\* In the first incarnation Ready=True follows a ping for the generation it
\* names, which is not ahead of the resource's.
Pinged ==
  \A cr \in CR :
    LET v == store[cr]
    IN  v.uid = 1 /\ v.cond.status = "True" =>
          v.cond.gen <= v.gen /\ <<cr, 1, v.cond.gen>> \in verified

IInv == Ordered /\ TypeOK /\ Numbered /\ Held /\ Pinged

---------------------------------------------------------------------------
(* Writes.                                                                 *)

\* What a new version must satisfy.
Proper(cr, n) ==
  /\ n \in Version /\ Follows(n, store[cr])
  /\ n.exists => n.spec \in SpecOf[cr] /\ n.uid > 0
  /\ ~n.finalizer
  /\ n.uid = 1 /\ n.cond.status = "True" =>
       n.cond.gen <= n.gen /\ <<cr, 1, n.cond.gen>> \in verified

\* A proper write keeps what is said of the server and the informer, and what
\* precedes the former version still precedes the new one.
LEMMA WriteStep ==
  ASSUME IInv, NEW cr \in CR, NEW n, Put(cr, n), Proper(cr, n), cache' = cache,
         verified' = verified
  PROVE  /\ store' \in [CR -> Version] /\ watch' \in [CR -> SUBSET Version]
         /\ \A c \in CR : ~store'[c].finalizer
         /\ Ordered' /\ Numbered' /\ Pinged'
         /\ \A c \in CR : \A v \in Version :
              Precedes(v, store[c]) => Precedes(v, store'[c])
<1>1. /\ store' \in [CR -> Version] /\ watch' \in [CR -> SUBSET Version]
      /\ store'[cr] = n
      /\ \A c \in CR \ {cr} : store'[c] = store[c] /\ Informer(c)' = Informer(c)
      /\ Informer(cr)' = Informer(cr) \cup {n}
      /\ Ordered'
  BY WriteOrders DEF Proper, IInv, TypeOK
<1>2. \A c \in CR : ~store'[c].finalizer
  BY <1>1 DEF Proper, IInv, TypeOK
<1>3. Numbered'
  BY <1>1 DEF Proper, IInv, Numbered
<1>4. Pinged'
  BY <1>1 DEF Proper, IInv, Pinged
<1>5. ASSUME NEW c \in CR, NEW v \in Version, Precedes(v, store[c])
      PROVE  Precedes(v, store'[c])
  <2>1. store[cr] \in Version /\ n \in Version
    BY DEF Proper, IInv, TypeOK, KubeTypeOK
  <2> QED
    BY <1>1, <1>5, <2>1, PrecedesStep DEF Proper
<1> QED
  BY <1>1, <1>2, <1>3, <1>4, <1>5

\* Users and the garbage collector.
LEMMA UsersStep ==
  ASSUME IInv, NEW cr \in CR, Users(cr) \/ ReleaseHold(cr), UNCHANGED instVars
  PROVE  IInv'
<1>1. PICK n : Put(cr, n) /\ Touched(cr, n)
  BY OthersTouch DEF Users, IInv, TypeOK
<1>2. /\ UNCHANGED <<cache, queue, pc, key, obj>>
      /\ quota' \in 0 .. MaxDisturbances
      /\ UNCHANGED <<inst, verified>>
  BY OthersTouch DEF Users, IInv, TypeOK, instVars
<1>3. n \in Version /\ store[cr] \in Version /\ Follows(n, store[cr])
  BY <1>1 DEF Touched, IInv, TypeOK, KubeTypeOK
<1>4. Proper(cr, n)
  <2>1. CASE ~store[cr].exists
    <3>1. /\ n.exists /\ ~n.finalizer /\ n.cond.status # "True"
          /\ n.uid = n.rv /\ n.spec \in SpecOf[cr]
      BY <1>1, <2>1 DEF Touched, NoCondition
    <3>2. n.uid > 0
      BY <1>3, <3>1, Fields DEF Follows
    <3> QED
      BY <1>3, <3>1, <3>2 DEF Proper
  <2>2. CASE store[cr].exists
    <3>1. /\ n.uid = store[cr].uid /\ n.finalizer = store[cr].finalizer
          /\ n.cond = store[cr].cond /\ (n.exists => n.spec \in SpecOf[cr])
      BY <1>1, <2>2 DEF Touched
    <3>2. ~n.finalizer /\ n.uid > 0
      BY <2>2, <3>1 DEF IInv, TypeOK, Numbered
    <3>3. ASSUME n.uid = 1, n.cond.status = "True"
          PROVE  n.cond.gen <= n.gen /\ <<cr, 1, n.cond.gen>> \in verified
      <4>1. /\ store[cr].cond.gen <= store[cr].gen
            /\ <<cr, 1, store[cr].cond.gen>> \in verified
        BY <3>1, <3>3 DEF IInv, Pinged
      <4>2. store[cr].gen <= n.gen
        BY <1>3, <3>1 DEF Follows
      <4>3. /\ store[cr].gen \in Nat /\ n.gen \in Nat /\ n.cond.gen \in Nat
            /\ n.cond.gen = store[cr].cond.gen
        BY <1>3, <3>1, Fields
      <4> QED
        BY <4>1, <4>2, <4>3
    <3> QED
      BY <1>3, <3>1, <3>2, <3>3 DEF Proper
  <2> QED
    BY <2>1, <2>2
<1>5. /\ store' \in [CR -> Version] /\ watch' \in [CR -> SUBSET Version]
      /\ \A c \in CR : ~store'[c].finalizer
      /\ Ordered' /\ Numbered' /\ Pinged'
      /\ \A c \in CR : \A v \in Version :
           Precedes(v, store[c]) => Precedes(v, store'[c])
  BY <1>1, <1>2, <1>4, WriteStep
<1>6. TypeOK'
  BY <1>2, <1>5 DEF IInv, TypeOK, KubeTypeOK, InstTypeOK
<1>7. Held'
  <2>1. pc # "idle" => key \in CR /\ obj \in Version
    BY DEF IInv, TypeOK, KubeTypeOK
  <2> QED
    BY <1>2, <1>5, <2>1 DEF IInv, Held
<1> QED
  BY <1>5, <1>6, <1>7 DEF IInv

---------------------------------------------------------------------------
(* The informer, crashes and the server.                                   *)

\* The cache catches up.
LEMMA DeliverStep ==
  ASSUME IInv, NEW cr \in CR, Deliver(cr), UNCHANGED instVars
  PROVE  IInv'
<1>1. /\ KubeTypeOK' /\ Ordered' /\ UNCHANGED <<store, pc, key, obj>>
      /\ \A c \in CR : Informer(c)' \subseteq Informer(c)
  BY DeliverOrders DEF IInv, TypeOK
<1>2. UNCHANGED <<inst, verified>>
  BY DEF instVars
<1>3. TypeOK'
  BY <1>1, <1>2 DEF IInv, TypeOK, InstTypeOK
<1>4. Numbered' /\ Held' /\ Pinged'
  BY <1>1, <1>2 DEF IInv, Numbered, Held, Pinged
<1> QED
  BY <1>1, <1>3, <1>4 DEF IInv

\* The operator crashes and starts again.
LEMMA RestartStep ==
  ASSUME IInv, Restart, UNCHANGED instVars
  PROVE  IInv'
<1>1. /\ KubeTypeOK' /\ Ordered' /\ store' = store /\ pc' = "idle"
      /\ \A c \in CR : Informer(c)' = {store[c]}
  BY RestartOrders DEF IInv, TypeOK
<1>2. UNCHANGED <<inst, verified>>
  BY DEF instVars
<1>3. TypeOK'
  BY <1>1, <1>2 DEF IInv, TypeOK, InstTypeOK
<1>4. Numbered' /\ Held' /\ Pinged'
  BY <1>1, <1>2 DEF IInv, Numbered, Held, Pinged
<1> QED
  BY <1>1, <1>3, <1>4 DEF IInv

\* A step in which nobody writes and the worker stays or returns.
LEMMA QuietStep ==
  ASSUME IInv, UNCHANGED <<store, watch, cache>>, KubeTypeOK', InstTypeOK',
         verified' = verified, pc' = "idle" \/ UNCHANGED <<pc, key, obj>>
  PROVE  IInv'
<1>1. Ordered' /\ Numbered' /\ Held' /\ Pinged'
  BY DEF IInv, Ordered, Numbered, Held, Pinged, Informer
<1>2. TypeOK'
  BY DEF IInv, TypeOK
<1> QED
  BY <1>1, <1>2 DEF IInv

\* The server or the Secret changes.
LEMMA InstChangeStep ==
  ASSUME IInv, NEW ns \in Namespace, InstChange(ns), UNCHANGED verified
  PROVE  IInv'
<1>1. /\ UNCHANGED <<store, watch, cache, queue, pc, key, obj>>
      /\ quota' \in 0 .. MaxDisturbances
      /\ inst' \in [Namespace -> InstState]
  BY DisturbQuota DEF InstChange, IInv, TypeOK, InstTypeOK
<1>2. KubeTypeOK' /\ InstTypeOK'
  BY <1>1 DEF IInv, TypeOK, KubeTypeOK, InstTypeOK
<1> QED
  BY <1>1, <1>2, QuietStep

---------------------------------------------------------------------------
(* The worker.                                                             *)

\* The worker takes a request.
LEMMA TakeStep ==
  ASSUME IInv, NEW cr \in CR, Take(cr)
  PROVE  IInv'
<1>1. UNCHANGED <<inst, verified>>
  BY DEF Take, ReconcileGone, ReconcileLive, instVars
<1>2. CASE ReconcileGone(cr)
  <2>1. /\ UNCHANGED <<store, watch, cache, pc, key, obj, quota>>
        /\ queue' = queue \ {cr}
    BY <1>2 DEF ReconcileGone, ReconcileNothing
  <2>2. KubeTypeOK' /\ InstTypeOK'
    BY <1>1, <2>1 DEF IInv, TypeOK, KubeTypeOK, InstTypeOK
  <2> QED
    BY <1>1, <2>1, <2>2, QuietStep
<1>3. CASE ReconcileLive(cr)
  <2>1. /\ UNCHANGED <<store, watch, cache, quota>> /\ queue' = queue \ {cr}
        /\ pc' = "secret" /\ key' = cr /\ obj' = cache[cr] /\ cache[cr].exists
    BY <1>3 DEF ReconcileLive, ReconcileObject
  <2>2. cache[cr] \in Informer(cr) /\ cache[cr] \in Version
    BY DEF Informer, IInv, TypeOK, KubeTypeOK
  <2>3. TypeOK'
    BY <1>1, <2>1, <2>2, KubeAssumption DEF IInv, TypeOK, KubeTypeOK, InstTypeOK
  <2>4. Ordered' /\ Numbered' /\ Pinged'
    BY <1>1, <2>1 DEF IInv, Ordered, Numbered, Pinged, Informer
  <2>5. Held'
    <3>1. cache[cr].uid > 0 /\ Precedes(cache[cr], store[cr])
      BY <2>1, <2>2 DEF IInv, Numbered, Ordered
    <3> QED
      BY <2>1, <3>1 DEF Held
  <2> QED
    BY <2>3, <2>4, <2>5 DEF IInv
<1> QED
  BY <1>2, <1>3 DEF Take

\* The worker goes on, to "ready" only after a ping.
LEMMA GoToStep ==
  ASSUME IInv, pc # "idle", NEW next \in {"connect", "ping", "ready"}, GoTo(next),
         inst' = inst, verified \subseteq verified',
         verified' \in SUBSET (CR \X Nat \X Nat),
         next = "ready" => <<key, obj.uid, obj.gen>> \in verified'
  PROVE  IInv'
<1>1. pc' = next /\ UNCHANGED <<store, watch, cache, queue, key, obj, quota>>
  BY DEF GoTo
<1>2. TypeOK'
  BY <1>1 DEF IInv, TypeOK, KubeTypeOK, InstTypeOK
<1>3. Ordered' /\ Numbered' /\ Pinged'
  BY <1>1 DEF IInv, Ordered, Numbered, Pinged, Informer
<1>4. Held'
  BY <1>1 DEF IInv, Held
<1> QED
  BY <1>2, <1>3, <1>4 DEF IInv

\* The outcome is reported.  The patch carries no resourceVersion, so it may
\* land on a later version, or on a later incarnation, than the one in hand.
LEMMA ReportStep ==
  ASSUME IInv, pc # "idle", NEW status \in {"True", "False"},
         NEW message \in Message, status = "True" => pc = "ready",
         NEW left \in 0 .. MaxDisturbances, NEW after,
         Report(status, message, left, after), UNCHANGED <<inst, verified>>
  PROVE  IInv'
<1>1. PICK again : Return(again)
  BY ReportCases
<1>2. /\ cache' = cache
      /\ \/ UNCHANGED <<store, watch>>
         \/ store[key].exists /\ Put(key, Patched(status, message))
  BY ReportCases
<1>3. quota' \in 0 .. MaxDisturbances
  <2>1. quota' = left \/ (left > 0 /\ quota' = left - 1)
    BY ReportCases
  <2> QED
    BY <2>1, KubeAssumption
<1>4. /\ key \in CR /\ pc' = "idle" /\ key' = NoCR /\ obj' \in Version
      /\ queue' \in SUBSET CR
  BY <1>1, NeverType DEF Return, IInv, TypeOK, KubeTypeOK
<1>5. CASE UNCHANGED <<store, watch>>
  <2>1. KubeTypeOK' /\ InstTypeOK'
    BY <1>2, <1>3, <1>4, <1>5 DEF IInv, TypeOK, KubeTypeOK, InstTypeOK
  <2> QED
    BY <1>2, <1>4, <1>5, <2>1, QuietStep
<1>6. CASE store[key].exists /\ Put(key, Patched(status, message))
  <2> DEFINE n == Patched(status, message)
             w == store[key]
  <2>1. Put(key, n) /\ w.exists
    BY <1>6
  <2>2. /\ n \in Version /\ Follows(n, w)
        /\ n.exists = w.exists /\ n.uid = w.uid /\ n.gen = w.gen
        /\ n.spec = w.spec /\ n.deleting = w.deleting
        /\ n.finalizer = w.finalizer
        /\ n.cond.status = status /\ n.cond.gen = obj.gen
    BY <1>4, PatchedFollows DEF IInv, TypeOK
  <2> HIDE DEF n
  <2>3. w.spec \in SpecOf[key] /\ w.uid > 0 /\ ~w.finalizer
    BY <1>4, <2>1 DEF IInv, Ordered, Numbered, TypeOK
  <2>4. ASSUME n.uid = 1, n.cond.status = "True"
        PROVE  n.cond.gen <= n.gen /\ <<key, 1, n.cond.gen>> \in verified
    <3>1. /\ obj.uid > 0 /\ Precedes(obj, w)
          /\ <<key, obj.uid, obj.gen>> \in verified
      BY <2>2, <2>4 DEF IInv, Held
    <3>2. obj.uid \in Nat /\ obj.uid <= 1
      BY <2>2, <2>4, <3>1, Fields DEF Precedes, IInv, TypeOK, KubeTypeOK
    <3>3. obj.uid = 1
      BY <3>1, <3>2
    <3>4. obj.gen <= w.gen
      BY <2>2, <2>4, <3>1, <3>3 DEF Precedes
    <3> QED
      BY <2>2, <3>1, <3>3, <3>4
  <2>5. Proper(key, n)
    BY <2>2, <2>3, <2>4 DEF Proper
  <2>6. /\ store' \in [CR -> Version] /\ watch' \in [CR -> SUBSET Version]
        /\ \A c \in CR : ~store'[c].finalizer
        /\ Ordered' /\ Numbered' /\ Pinged'
    BY <1>2, <1>4, <2>1, <2>5, WriteStep
  <2>7. TypeOK'
    BY <1>2, <1>3, <1>4, <2>6 DEF IInv, TypeOK, KubeTypeOK, InstTypeOK
  <2>8. Held'
    BY <1>4 DEF Held
  <2> QED
    BY <2>6, <2>7, <2>8 DEF IInv
<1> QED
  BY <1>2, <1>5, <1>6

\* Every step of a reconcile: it goes on, or reports and returns.
LEMMA WorkCases ==
  ASSUME IInv, Work
  PROVE  /\ pc # "idle" /\ inst' = inst
         /\ \/ /\ \E next \in {"connect", "ping", "ready"} :
                    /\ GoTo(next)
                    /\ next = "ready" => <<key, obj.uid, obj.gen>> \in verified'
               /\ verified \subseteq verified'
               /\ verified' \in SUBSET (CR \X Nat \X Nat)
            \/ /\ \E status \in {"True", "False"} : \E message \in Message :
                  \E left \in 0 .. MaxDisturbances :
                    /\ status = "True" => pc = "ready"
                    /\ \/ Report(status, message, left, {defaultRequeueInterval})
                       \/ Report(status, message, left, addJitter(defaultRequeueInterval))
               /\ verified' = verified
<1>1. /\ quota \in 0 .. MaxDisturbances /\ verified \in SUBSET (CR \X Nat \X Nat)
      /\ quota > 0 => quota - 1 \in 0 .. MaxDisturbances
      /\ {"secret", "connect", "ping", "exists"} \subseteq Message
  BY KubeAssumption DEF IInv, TypeOK, KubeTypeOK, Message
<1>2. CASE getSecretValue
  BY <1>1, <1>2 DEF getSecretValue, Unusable, instVars
<1>3. CASE Connect
  BY <1>1, <1>3 DEF Connect, Unusable, instVars
<1>4. CASE Ping
  <2>1. pc = "ping" /\ inst' = inst
    BY <1>4 DEF Ping
  <2>2. CASE GoTo("ready") /\ verified' = verified \cup {<<key, obj.uid, obj.gen>>}
    <3>1. key \in CR /\ obj.uid \in Nat /\ obj.gen \in Nat
      BY <2>1, Fields DEF IInv, TypeOK, KubeTypeOK
    <3>2. /\ verified' \in SUBSET (CR \X Nat \X Nat) /\ verified \subseteq verified'
          /\ <<key, obj.uid, obj.gen>> \in verified'
      BY <1>1, <2>2, <3>1
    <3> QED
      BY <2>1, <2>2, <3>2
  <2>3. CASE \/ Unusable("ping", quota) /\ verified' = verified
             \/ quota > 0 /\ Unusable("ping", quota - 1) /\ verified' = verified
    BY <1>1, <2>1, <2>3 DEF Unusable
  <2> QED
    BY <1>4, <2>2, <2>3 DEF Ping
<1>5. CASE MarkReady
  BY <1>1, <1>5 DEF MarkReady, Usable, instVars
<1> QED
  BY <1>2, <1>3, <1>4, <1>5 DEF Work

\* They keep the invariant.
LEMMA WorkStep ==
  ASSUME IInv, Work
  PROVE  IInv'
BY WorkCases, GoToStep, ReportStep

---------------------------------------------------------------------------
(* The inductive invariant.                                                *)

\* The initial states.
LEMMA InitIInv == Init => IInv
<1> SUFFICES ASSUME Init PROVE IInv
  OBVIOUS
<1> HIDE DEF Never
<1>1. /\ KubeTypeOK /\ Ordered /\ pc = "idle"
      /\ Never \in Version /\ ~Never.exists /\ ~Never.finalizer
      /\ Never.uid = 0 /\ Never.cond.status # "True"
      /\ \A cr \in CR : store[cr] = Never /\ Informer(cr) = {Never}
  BY KubeInitOrders DEF Init
<1>2. TypeOK
  BY <1>1 DEF Init, InstInit, TypeOK, InstTypeOK
<1>3. Numbered /\ Held /\ Pinged
  BY <1>1 DEF Numbered, Held, Pinged
<1> QED
  BY <1>1, <1>2, <1>3 DEF IInv

\* Every step keeps the inductive invariant.
LEMMA NextIInv == IInv /\ [Next]_vars => IInv'
<1> SUFFICES ASSUME IInv, [Next]_vars PROVE IInv'
  OBVIOUS
<1>1. ASSUME NEW cr \in CR, Users(cr) \/ ReleaseHold(cr), UNCHANGED instVars PROVE IInv'
  BY <1>1, UsersStep
<1>2. ASSUME NEW cr \in CR, Deliver(cr), UNCHANGED instVars PROVE IInv'
  BY <1>2, DeliverStep
<1>3. CASE Restart /\ UNCHANGED instVars
  BY <1>3, RestartStep
<1>4. ASSUME NEW ns \in Namespace, InstChange(ns), UNCHANGED verified PROVE IInv'
  BY <1>4, InstChangeStep
<1>5. ASSUME NEW cr \in CR, Take(cr) PROVE IInv'
  BY <1>5, TakeStep
<1>6. CASE Work
  BY <1>6, WorkStep
<1>7. CASE UNCHANGED vars
  <2>1. UNCHANGED <<store, watch, cache, queue, pc, key, obj, quota, inst, verified>>
    BY <1>7 DEF vars, kubeVars, instVars
  <2>2. KubeTypeOK' /\ InstTypeOK'
    BY <2>1 DEF IInv, TypeOK, KubeTypeOK, InstTypeOK
  <2> QED
    BY <2>1, <2>2, QuietStep
<1> QED
  BY <1>1, <1>2, <1>3, <1>4, <1>5, <1>6, <1>7 DEF Next

---------------------------------------------------------------------------
(* Nothing is forgotten.                                                   *)

\* Every return asks to be called again, so it is enough that the informer
\* always has the current version or is about to get it.
Attended == Latest /\ NeverForgotten

\* A write by anybody: the watch will deliver it.
LEMMA WriteAttends ==
  ASSUME KubeTypeOK, Attended, NEW cr \in CR, NEW n, Put(cr, n), cache' = cache,
         queue \subseteq queue', key' = key \/ (key = cr /\ pc' = "idle")
  PROVE  Attended'
<1>1. /\ store' = [store EXCEPT ![cr] = n]
      /\ watch' = [watch EXCEPT ![cr] = @ \cup {n}]
  BY DEF Put
<1>2. /\ store'[cr] = n /\ watch'[cr] = watch[cr] \cup {n}
      /\ \A c \in CR \ {cr} : store'[c] = store[c] /\ watch'[c] = watch[c]
  BY <1>1 DEF KubeTypeOK
<1>3. Latest'
  BY <1>2 DEF Attended, Latest, Informer
<1>4. NeverForgotten'
  BY <1>2 DEF Attended, NeverForgotten, Forgotten
<1> QED
  BY <1>3, <1>4 DEF Attended

\* The worker reports: the request is queued again.
LEMMA ReportAgain ==
  ASSUME KubeTypeOK, Attended, pc # "idle", NEW status, NEW message, NEW left,
         \/ Report(status, message, left, {defaultRequeueInterval})
         \/ Report(status, message, left, addJitter(defaultRequeueInterval))
  PROVE  Attended'
<1>1. \A d \in {defaultRequeueInterval} \cup addJitter(defaultRequeueInterval) : d > 0
  BY JitterPositive, RequeueAssumption
<1>2. Return(TRUE)
  BY <1>1 DEF Report, Return
<1>3. key \in CR /\ pc' = "idle" /\ queue' = queue \cup {key}
  BY <1>2 DEF Return, KubeTypeOK
<1>4. /\ cache' = cache
      /\ \/ UNCHANGED <<store, watch>>
         \/ Put(key, Patched(status, message))
  BY ReportCases
<1>5. CASE UNCHANGED <<store, watch>>
  BY <1>3, <1>4, <1>5 DEF Attended, Latest, Informer, NeverForgotten, Forgotten
<1>6. CASE Put(key, Patched(status, message))
  BY <1>3, <1>4, <1>6, WriteAttends
<1> QED
  BY <1>4, <1>5, <1>6

\* Every step keeps every resource attended.
LEMMA NextAttends == IInv /\ Attended /\ [Next]_vars => Attended'
<1> SUFFICES ASSUME IInv, Attended, [Next]_vars PROVE Attended'
  OBVIOUS
<1>1. KubeTypeOK /\ Ordered
  BY DEF IInv, TypeOK
<1>2. ASSUME NEW cr \in CR, Users(cr) \/ ReleaseHold(cr) PROVE Attended'
  <2>1. PICK n : Put(cr, n)
    BY <1>1, <1>2, OthersTouch DEF Users
  <2>2. UNCHANGED <<cache, queue, pc, key, obj>>
    BY <1>1, <1>2, OthersTouch DEF Users
  <2> QED
    BY <1>1, <2>1, <2>2, WriteAttends
<1>3. ASSUME NEW cr \in CR, Deliver(cr) PROVE Attended'
  <2>1. Latest' /\ \A c \in CR \ {cr} : watch'[c] = watch[c]
    BY <1>1, <1>3, DeliverLatest DEF Attended
  <2>2. UNCHANGED <<store, key>> /\ queue' = queue \cup {cr}
    BY <1>3 DEF Deliver
  <2> QED
    BY <2>1, <2>2 DEF Attended, NeverForgotten, Forgotten
<1>4. CASE Restart
  BY <1>4 DEF Restart, Attended, Latest, Informer, NeverForgotten, Forgotten
<1>5. ASSUME NEW cr \in CR, ReconcileGone(cr) PROVE Attended'
  <2>1. /\ UNCHANGED <<store, watch, cache, key>> /\ queue' = queue \ {cr}
        /\ ~cache[cr].exists
    BY <1>5 DEF ReconcileGone, ReconcileNothing
  <2>2. watch[cr] = {} => ~store[cr].exists
    BY <2>1 DEF Attended, Latest, Informer
  <2> QED
    BY <2>1, <2>2 DEF Attended, Latest, Informer, NeverForgotten, Forgotten
<1>6. ASSUME NEW cr \in CR, ReconcileLive(cr) PROVE Attended'
  <2>1. /\ UNCHANGED <<store, watch, cache>> /\ queue' = queue \ {cr}
        /\ key = NoCR /\ key' = cr
    BY <1>1, <1>6 DEF ReconcileLive, ReconcileObject, Get, KubeTypeOK
  <2> QED
    BY <2>1, KubeAssumption DEF Attended, Latest, Informer, NeverForgotten, Forgotten
<1>7. CASE Work
  <2>1. ASSUME NEW next, GoTo(next) PROVE Attended'
    BY <2>1 DEF GoTo, Attended, Latest, Informer, NeverForgotten, Forgotten
  <2> QED
    BY <1>1, <1>7, <2>1, WorkCases, ReportAgain
<1>8. CASE (\E ns \in Namespace : InstChange(ns)) \/ UNCHANGED vars
  <2>1. UNCHANGED <<store, watch, cache, queue, key>>
    BY <1>8 DEF InstChange, vars, kubeVars
  <2> QED
    BY <2>1 DEF Attended, Latest, Informer, NeverForgotten, Forgotten
<1> QED
  BY <1>2, <1>3, <1>4, <1>5, <1>6, <1>7, <1>8 DEF Next, Take

---------------------------------------------------------------------------
(* Theorems.                                                               *)

\* The inductive invariant holds in every behaviour of the controller.
THEOREM Invariance == Spec => []IInv
BY InitIInv, NextIInv, PTL DEF Spec

\* Every variable of the controller keeps its type, and no resource is ever
\* given a finalizer.
THEOREM TypeCorrect == Spec => []TypeOK
<1>1. IInv => TypeOK
  BY DEF IInv
<1> QED
  BY <1>1, Invariance, PTL

\* In the first incarnation of its name a resource is Ready only if a ping
\* with the spec of its current generation succeeded, however stale the
\* object in the worker's hand was when it reported.
THEOREM PingedWhenReady == Spec => []ReadyEarned
<1>1. ASSUME IInv PROVE ReadyEarned
  <2> SUFFICES ASSUME NEW cr \in CR, Ready(store[cr]), store[cr].uid = 1
               PROVE  <<cr, 1, store[cr].gen>> \in verified
    BY DEF ReadyEarned
  <2> QED
    BY <1>1 DEF IInv, Pinged, Ready
<1> QED
  BY <1>1, Invariance, PTL

\* No resource that exists is ever without a request, a reconcile or an
\* undelivered version.
THEOREM NothingForgotten == Spec => []NeverForgotten
<1>1. Init => Attended
  <2> SUFFICES ASSUME Init PROVE Attended
    OBVIOUS
  <2> HIDE DEF Never
  <2>1. \A cr \in CR : store[cr] = Never /\ Informer(cr) = {Never} /\ ~Never.exists
    BY KubeInitOrders DEF Init
  <2> QED
    BY <2>1 DEF Attended, Latest, NeverForgotten
<1>2. Attended => NeverForgotten
  BY DEF Attended
<1> QED
  BY <1>1, <1>2, NextAttends, Invariance, PTL DEF Spec
==============================================================================
