--------------------------- MODULE AttentionProofs ---------------------------
(***************************************************************************)
(* Why no resource that is due is ever forgotten, whatever a controller    *)
(* does in SQL: the informer always has the current version or is about to *)
(* get it, and while no other request for it waits, the worker holds a     *)
(* version that the informer still knows.  Each lemma says that one        *)
(* operation of KubeApi keeps Attention.                                   *)
(***************************************************************************)
EXTENDS KubeApiProofs

\* The informer will end up with the current version.
Latest == \A cr \in CR : store[cr] \in Informer(cr)

\* If nothing else calls for the resource in hand, what is in hand is what
\* the informer has, or will deliver.
Attentive == pc # "idle" /\ key \notin queue => obj \in Informer(key)

Remembered == \A cr \in CR : Due(store[cr]) => ~Forgotten(cr)

Attention == Latest /\ Attentive /\ Remembered

---------------------------------------------------------------------------
(* Durations.                                                              *)

\* The jitter keeps a sane interval positive: the sum does not wrap around.
LEMMA JitterPositive ==
  ASSUME NEW i \in 1 .. (MaxDuration + 1 - maxRequeueJitter),
         NEW d \in addJitter(i)
  PROVE  d > 0
<1>1. PICK j \in 0 .. (maxRequeueJitter - 1) : d = Wrap(i + j)
  BY DEF addJitter
<1>2. /\ MaxDuration \in Int /\ maxRequeueJitter \in Int
      /\ i \in Int /\ i >= 1 /\ i <= MaxDuration + 1 - maxRequeueJitter
      /\ j \in Int /\ j >= 0 /\ j <= maxRequeueJitter - 1
  BY RequeueAssumption
<1>3. i + j > 0 /\ ~(i + j > MaxDuration)
  BY <1>2
<1> QED
  BY <1>1, <1>3 DEF Wrap

\* A sane spec is requeued whether the reconcile succeeds or fails.
LEMMA SanePositive ==
  ASSUME NEW tmpl, Sane(tmpl)
  PROVE  /\ \A d \in requeueResult(tmpl) : d > 0
         /\ \A d \in retryResult(tmpl) : d > 0
BY JitterPositive, RequeueAssumption
   DEF Sane, SaneInterval, requeueResult, retryResult

---------------------------------------------------------------------------
(* Operations.                                                             *)

\* A write by a user or the garbage collector: the watch will deliver it.
LEMMA OthersAttend ==
  ASSUME KubeInv, Attention, NEW cr \in CR, NEW n, Put(cr, n),
         UNCHANGED <<cache, queue, pc, key, obj>>
  PROVE  Attention'
<1>1. /\ store' = [store EXCEPT ![cr] = n]
      /\ watch' = [watch EXCEPT ![cr] = @ \cup {n}]
  BY DEF Put
<1>2. /\ store'[cr] = n /\ watch'[cr] = watch[cr] \cup {n}
      /\ \A c \in CR \ {cr} : store'[c] = store[c] /\ watch'[c] = watch[c]
  BY <1>1 DEF KubeInv, KubeTypeOK
<1>3. Latest'
  BY <1>2 DEF Attention, Latest, Informer
<1>4. Attentive'
  <2>1. pc # "idle" => key \in CR
    BY DEF KubeInv, KubeTypeOK
  <2> QED
    BY <1>2, <2>1 DEF Attention, Attentive, Informer
<1>5. Remembered'
  BY <1>2 DEF Attention, Remembered, Forgotten
<1> QED
  BY <1>3, <1>4, <1>5 DEF Attention

\* A write by the worker, which goes on with the new version or returns.
LEMMA WorkerAttend ==
  ASSUME KubeInv, Attention, pc # "idle", NEW n, Put(key, n), cache' = cache,
         queue \subseteq queue',
         pc' = "idle" \/ (pc' # "idle" /\ key' = key /\ obj' = n)
  PROVE  Attention'
<1>1. /\ key \in CR
      /\ store' = [store EXCEPT ![key] = n]
      /\ watch' = [watch EXCEPT ![key] = @ \cup {n}]
  BY DEF Put, KubeInv, KubeTypeOK
<1>2. /\ store'[key] = n /\ watch'[key] = watch[key] \cup {n}
      /\ \A c \in CR \ {key} : store'[c] = store[c] /\ watch'[c] = watch[c]
  BY <1>1 DEF KubeInv, KubeTypeOK
<1>3. Latest'
  BY <1>2 DEF Attention, Latest, Informer
<1>4. Attentive'
  BY <1>2 DEF Attentive, Informer
<1>5. Remembered'
  BY <1>2 DEF Attention, Remembered, Forgotten
<1> QED
  BY <1>3, <1>4, <1>5 DEF Attention

\* The worker returns without a write, and asks to be called again if the
\* object in hand is due.
LEMMA ReturnAttend ==
  ASSUME KubeInv, Attention, pc # "idle", NEW again, Return(again),
         Due(obj) => again, UNCHANGED <<store, watch, cache>>
  PROVE  Attention'
<1>1. key \in CR /\ pc' = "idle" /\ queue \subseteq queue'
  BY DEF Return, KubeInv, KubeTypeOK
<1>2. Latest' /\ Attentive'
  BY <1>1 DEF Attention, Latest, Attentive, Informer
<1>3. ASSUME key \notin queue', watch[key] = {} PROVE ~Due(store[key])
  <2>1. ~again /\ key \notin queue
    BY <1>1, <1>3 DEF Return
  <2>2. obj = cache[key] /\ store[key] = cache[key]
    BY <1>1, <1>3, <2>1 DEF Attention, Attentive, Latest, Informer
  <2> QED
    BY <2>1, <2>2
<1>4. Remembered'
  BY <1>1, <1>3 DEF Attention, Remembered, Forgotten, Due
<1> QED
  BY <1>2, <1>4 DEF Attention

\* A step in which the worker keeps what it holds and nobody writes.
LEMMA StayAttends ==
  ASSUME Attention, UNCHANGED <<store, watch, cache, queue, key, obj>>,
         pc' # "idle" => pc # "idle"
  PROVE  Attention'
BY DEF Attention, Latest, Attentive, Remembered, Informer, Forgotten, Due

\* Nothing to do for the object in the cache.
LEMMA ReconcileNothingAttends ==
  ASSUME Attention, NEW cr \in CR, ReconcileNothing(cr), ~Due(cache[cr])
  PROVE  Attention'
<1>1. /\ UNCHANGED <<store, watch, cache, pc, key, obj>> /\ pc = "idle"
      /\ queue' = queue \ {cr}
  BY DEF ReconcileNothing, Get
<1>2. Latest' /\ Attentive'
  BY <1>1 DEF Attention, Latest, Attentive, Informer
<1>3. watch[cr] = {} => ~Due(store[cr])
  BY DEF Attention, Latest, Informer
<1>4. Remembered'
  BY <1>1, <1>3 DEF Attention, Remembered, Forgotten, Due
<1> QED
  BY <1>2, <1>4 DEF Attention

\* The worker takes a request.
LEMMA ReconcileObjectAttends ==
  ASSUME KubeInv, Attention, NEW cr \in CR, NEW next, ReconcileObject(cr, next)
  PROVE  Attention'
<1>1. /\ UNCHANGED <<store, watch, cache>> /\ key = NoCR
      /\ queue' = queue \ {cr} /\ key' = cr /\ obj' = cache[cr]
  BY DEF ReconcileObject, Get, KubeInv, KubeTypeOK
<1>2. Latest' /\ Attentive'
  BY <1>1 DEF Attention, Latest, Attentive, Informer
<1>3. Remembered'
  BY <1>1, KubeAssumption DEF Attention, Remembered, Forgotten, Due
<1> QED
  BY <1>2, <1>3 DEF Attention

\* The informer catches up without losing the current version.
LEMMA DeliverLatest ==
  ASSUME KubeTypeOK, Ordered, Latest, NEW cr \in CR, Deliver(cr)
  PROVE  Latest' /\ \A c \in CR \ {cr} : Informer(c)' = Informer(c) /\ watch'[c] = watch[c]
<1>1. PICK v \in watch[cr] :
        /\ cache' = [cache EXCEPT ![cr] = v]
        /\ watch' = [watch EXCEPT ![cr] = {w \in @ : w.rv > v.rv}]
  BY DEF Deliver
<1>2. store' = store
  BY DEF Deliver
<1>3. /\ cache'[cr] = v /\ watch'[cr] = {w \in watch[cr] : w.rv > v.rv}
      /\ \A c \in CR \ {cr} : cache'[c] = cache[c] /\ watch'[c] = watch[c]
  BY <1>1 DEF KubeTypeOK
<1>4. store[cr] \in Informer(cr)'
  <2>1. Precedes(v, store[cr]) /\ v \in Version /\ store[cr] \in Version
    BY DEF KubeTypeOK, Ordered, Informer
  <2>2. v.rv \in Nat /\ store[cr].rv \in Nat
    BY <2>1, Fields
  <2>3. v = store[cr] \/ store[cr].rv > v.rv
    BY <2>1, <2>2 DEF Precedes
  <2>4. store[cr] = cache[cr] \/ store[cr] \in watch[cr]
    BY DEF Latest, Informer
  <2>5. ~(store[cr] = cache[cr] /\ store[cr].rv > v.rv)
    <3>1. cache[cr].rv < v.rv
      BY DEF Ordered
    <3> QED
      BY <2>2, <3>1
  <2> QED
    BY <1>3, <2>3, <2>4, <2>5 DEF Informer
<1> QED
  BY <1>2, <1>3, <1>4 DEF Latest, Informer

\* The informer catches up, and a request is queued.
LEMMA DeliverAttends ==
  ASSUME KubeInv, Attention, NEW cr \in CR, Deliver(cr)
  PROVE  Attention'
<1>1. Latest' /\ \A c \in CR \ {cr} : Informer(c)' = Informer(c) /\ watch'[c] = watch[c]
  BY DeliverLatest DEF KubeInv, Attention
<1>2. UNCHANGED <<store, pc, key, obj>> /\ queue' = queue \cup {cr}
  BY DEF Deliver
<1>3. Attentive'
  <2>1. pc # "idle" => key \in CR
    BY DEF KubeInv, KubeTypeOK
  <2> QED
    BY <1>1, <1>2, <2>1 DEF Attention, Attentive
<1>4. Remembered'
  BY <1>1, <1>2 DEF Attention, Remembered, Forgotten, Due
<1> QED
  BY <1>1, <1>3, <1>4 DEF Attention

\* A new process lists every resource.
LEMMA RestartAttends ==
  ASSUME Restart
  PROVE  Attention'
<1>1. /\ store' = store /\ cache' = store /\ pc' = "idle"
      /\ queue' = {cr \in CR : store[cr].exists}
  BY DEF Restart
<1>2. Latest' /\ Attentive' /\ Remembered'
  BY <1>1 DEF Latest, Attentive, Remembered, Informer, Forgotten, Due
<1> QED
  BY <1>2 DEF Attention

\* The reconcile of a live object records its outcome.
LEMMA ReportAttends ==
  ASSUME KubeInv, Attention, pc # "idle", ~obj.deleting,
         NEW status, NEW message, NEW left, NEW after,
         Report(status, message, left, after),
         Sane(obj.spec) => \A d \in after : d > 0
  PROVE  Attention'
<1>1. PICK d \in after : Return(d > 0)
  BY DEF Report
<1>2. cache' = cache
  BY DEF Report
<1>3. CASE UNCHANGED <<store, watch>>
  BY <1>1, <1>2, <1>3, ReturnAttend DEF Due
<1>4. CASE Put(key, Patched(status, message))
  BY <1>1, <1>2, <1>4, WorkerAttend DEF Return
<1> QED
  BY <1>3, <1>4, ReportCases

\* Update with the finalizer added.
LEMMA AddFinalizerAttends ==
  ASSUME KubeInv, Attention, pc # "idle", NEW next, next # "idle",
         UpdateAddFinalizer(next)
  PROVE  Attention'
BY WorkerAttend DEF UpdateAddFinalizer

\* Every other outcome of an Update.
LEMMA UpdateAttends ==
  ASSUME KubeInv, Attention, pc # "idle",
         \/ UpdateRemoveFinalizer
         \/ UpdateConflict
         \/ UpdateError
         \/ \E n : UpdateReplyLost(n)
  PROVE  Attention'
<1>1. CASE UpdateRemoveFinalizer
  BY <1>1, WorkerAttend DEF UpdateRemoveFinalizer, Return
<1>2. CASE UpdateConflict \/ UpdateError
  BY <1>2, ReturnAttend DEF UpdateConflict, UpdateError
<1>3. ASSUME NEW n, UpdateReplyLost(n) PROVE Attention'
  BY <1>3, WorkerAttend DEF UpdateReplyLost, Return
<1> QED
  BY <1>1, <1>2, <1>3

\* The initial state.
LEMMA InitAttends ==
  ASSUME KubeInit
  PROVE  Attention
BY DEF KubeInit, Attention, Latest, Attentive, Remembered, Informer, Forgotten,
       Due, Never
==============================================================================
