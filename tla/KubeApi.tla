------------------------------ MODULE KubeApi ------------------------------
(***************************************************************************)
(* The Kubernetes side of a SQL resource controller: the API server's      *)
(* versions of its custom resources, the informer cache that lags behind   *)
(* them, the work queue, and the one worker of the controller (controller- *)
(* runtime runs one reconcile at a time unless MaxConcurrentReconciles is  *)
(* set, and no SetupWithManager of this operator sets it).                 *)
(*                                                                         *)
(* Time is abstracted: a request that is queued, delayed by RequeueAfter   *)
(* or delayed by the rate limiter is a member of `queue', and the worker   *)
(* may take any member.  Everything the operator does not control (users,  *)
(* other SQL clients, failing calls, crashes) draws on `quota', so a run   *)
(* covers every placement of at most MaxDisturbances such events.          *)
(***************************************************************************)
EXTENDS Requeue

CONSTANTS
  CR,               \* namespaced names: records with fields namespace, name
  NoCR,             \* the worker holds no request
  Specs,            \* every spec a resource may have
  SpecOf,           \* SpecOf[cr]: the specs users give to cr
  Holds,            \* whether a deletion may meet somebody else's finalizer
  MaxDisturbances   \* bound on user operations, faults and crashes

ASSUME KubeAssumption ==
  /\ NoCR \notin CR
  /\ SpecOf \in [CR -> SUBSET Specs]
  /\ Specs # {}
  /\ Holds \subseteq BOOLEAN /\ Holds # {}
  /\ MaxDisturbances \in Nat

VARIABLES
  store,   \* store[cr]: the API server's current version of cr
  watch,   \* watch[cr]: versions written but not yet in the informer cache
  cache,   \* cache[cr]: what client.Get returns
  queue,   \* requests waiting for the worker, now or after a delay
  pc,      \* where the worker is in Reconcile
  key,     \* the request the worker is handling
  obj,     \* the object the worker holds, as Get or Update returned it
  quota    \* disturbances left

kubeVars == <<store, watch, cache, queue, pc, key, obj, quota>>

---------------------------------------------------------------------------
(* Objects.  rv is the resourceVersion, unique and increasing per name;    *)
(* uid is the rv of the incarnation's first version; gen is                *)
(* metadata.generation.  finalizer says whether FinalizerName is among the *)
(* finalizers, held whether another one is (foreground deletion adds one). *)
(* A version with exists = FALSE is a tombstone.                           *)
(* cond is the Ready condition: status, observedGeneration and the part of *)
(* the message that tells outcomes apart.                                  *)
Message == {"none", "connect", "secret", "ping", "create", "exists"}

Condition == [status : {"Absent", "True", "False"}, gen : Nat,
              message : Message]

Version == [exists : BOOLEAN, uid : Nat, rv : Nat, gen : Nat, spec : Specs,
            deleting : BOOLEAN, finalizer : BOOLEAN, held : BOOLEAN,
            cond : Condition]

NoCondition == [status |-> "Absent", gen |-> 0, message |-> "none"]

\* The Ready condition says True, and says it of the current generation.
Ready(v) == v.exists /\ v.cond.status = "True" /\ v.cond.gen = v.gen

\* The version of a name that was never created (its spec is irrelevant).
Never == [exists |-> FALSE, uid |-> 0, rv |-> 0, gen |-> 0,
          spec |-> CHOOSE s \in Specs : TRUE, deleting |-> FALSE,
          finalizer |-> FALSE, held |-> FALSE, cond |-> NoCondition]

\* The phase of a resource in the terms of Lifecycle.
PhaseOf(v) ==
  CASE ~v.exists                    -> "absent"
    [] v.exists /\ ~v.deleting     -> IF v.finalizer THEN "guarded" ELSE "asked"
    [] v.exists /\ v.deleting      -> IF v.finalizer THEN "leaving" ELSE "held"

---------------------------------------------------------------------------
(* Writes.  Every write makes a new version, which the watch will deliver. *)
NextRv(cr) == store[cr].rv + 1

Put(cr, new) ==
  /\ store' = [store EXCEPT ![cr] = new]
  /\ watch' = [watch EXCEPT ![cr] = @ \cup {new}]

\* Users and the API server ------------------------------------------------

Disturb == quota > 0 /\ quota' = quota - 1

UserCreate(cr) ==
  /\ Disturb
  /\ ~store[cr].exists
  /\ \E s \in SpecOf[cr] :
       Put(cr, [exists |-> TRUE, uid |-> NextRv(cr), rv |-> NextRv(cr), gen |-> 1,
                spec |-> s, deleting |-> FALSE, finalizer |-> FALSE,
                held |-> FALSE, cond |-> NoCondition])
  /\ UNCHANGED <<cache, queue, pc, key, obj>>

UserEdit(cr) ==
  /\ Disturb
  /\ store[cr].exists
  /\ \E s \in SpecOf[cr] \ {store[cr].spec} :
       Put(cr, [store[cr] EXCEPT !.rv = NextRv(cr), !.spec = s, !.gen = @ + 1])
  /\ UNCHANGED <<cache, queue, pc, key, obj>>

\* An object with a finalizer stays, marked by its deletionTimestamp (which
\* also counts as a new generation); one without goes at once.
UserDelete(cr) ==
  /\ Disturb
  /\ store[cr].exists /\ ~store[cr].deleting
  /\ \E h \in Holds :
       IF store[cr].finalizer \/ h
         THEN Put(cr, [store[cr] EXCEPT !.rv = NextRv(cr), !.gen = @ + 1,
                                        !.deleting = TRUE, !.held = h])
         ELSE Put(cr, [store[cr] EXCEPT !.rv = NextRv(cr), !.exists = FALSE])
  /\ UNCHANGED <<cache, queue, pc, key, obj>>

\* The owner of the other finalizer removes it; nothing else keeps an object
\* that is being deleted once FinalizerName is gone too.
ReleaseHold(cr) ==
  /\ store[cr].exists /\ store[cr].held
  /\ Put(cr, [store[cr] EXCEPT !.rv = NextRv(cr), !.held = FALSE,
                                !.exists = store[cr].finalizer])
  /\ UNCHANGED <<cache, queue, pc, key, obj, quota>>

\* The informer moves the cache to a later version, skipping any number of
\* intermediate ones, and the watch set up by For(...) queues a request.
Deliver(cr) ==
  /\ \E v \in watch[cr] :
       /\ cache' = [cache EXCEPT ![cr] = v]
       /\ watch' = [watch EXCEPT ![cr] = {w \in @ : w.rv > v.rv}]
  /\ queue' = queue \cup {cr}
  /\ UNCHANGED <<store, pc, key, obj, quota>>

---------------------------------------------------------------------------
(* The worker's view of the API.                                           *)

\* The worker takes a request and finds that there is nothing to do.
Get(cr) == pc = "idle" /\ cr \in queue

ReconcileNothing(cr) ==
  /\ Get(cr)
  /\ queue' = queue \ {cr}
  /\ UNCHANGED <<store, watch, cache, pc, key, obj, quota>>

\* The worker takes a request and goes on with the object in the cache.
ReconcileObject(cr, next) ==
  /\ Get(cr) /\ cache[cr].exists
  /\ queue' = queue \ {cr}
  /\ pc' = next /\ key' = cr /\ obj' = cache[cr]
  /\ UNCHANGED <<store, watch, cache, quota>>

\* The worker moves on with what it holds.
GoTo(next) ==
  pc' = next /\ UNCHANGED <<store, watch, cache, queue, key, obj, quota>>

\* The reconcile returns; `again' says whether the request is queued again
\* (RequeueAfter > 0, or an error that goes to the rate limiter).
Return(again) ==
  /\ pc' = "idle" /\ key' = NoCR /\ obj' = Never
  /\ queue' = IF again THEN queue \cup {key} ELSE queue

\* client.Update sends the resourceVersion it read; the server refuses the
\* write when that version is no longer the current one.
Current == store[key].exists /\ store[key].rv = obj.rv

\* Update with FinalizerName added; the reply replaces the object in hand.
WithFinalizer == [obj EXCEPT !.rv = @ + 1, !.finalizer = TRUE]

UpdateAddFinalizer(next) ==
  /\ Current
  /\ Put(key, WithFinalizer)
  /\ obj' = WithFinalizer
  /\ pc' = next
  /\ UNCHANGED <<cache, queue, key, quota>>

\* Update with FinalizerName removed, after which only another finalizer
\* keeps the object.
WithoutFinalizer ==
  [obj EXCEPT !.rv = @ + 1, !.finalizer = FALSE, !.exists = obj.held]

UpdateRemoveFinalizer ==
  /\ Current
  /\ Put(key, WithoutFinalizer)
  /\ Return(FALSE)
  /\ UNCHANGED <<cache, quota>>

\* Update fails and the reconcile returns the error: the version in hand is
\* stale, the call failed, or it was applied and the reply was lost.
UpdateConflict ==
  /\ ~Current
  /\ Return(TRUE)
  /\ UNCHANGED <<store, watch, cache, quota>>

UpdateError ==
  /\ Disturb
  /\ Return(TRUE)
  /\ UNCHANGED <<store, watch, cache>>

UpdateReplyLost(new) ==
  /\ Disturb
  /\ Current /\ Put(key, new)
  /\ Return(TRUE)
  /\ UNCHANGED cache

\* Mutant: the condition is stamped with the generation the server has now
\* instead of the one the reconcile worked from.
patchConditionLatest(status, message, left) ==
  LET cond == [status |-> status, gen |-> store[key].gen, message |-> message]
  IN  /\ IF cond \in {obj.cond, store[key].cond} \/ ~store[key].exists
           THEN UNCHANGED <<store, watch>>
           ELSE Put(key, [store[key] EXCEPT !.rv = NextRv(key), !.cond = cond])
      /\ quota' = left

\* patchCondition: a merge patch computed against the object in hand and
\* sent without a resourceVersion.  It is empty when the condition in hand
\* already says the same; it fails when the object is gone; it changes
\* nothing when the server has the same already (lastTransitionTime is not
\* modelled); any other error is only logged.  `left' is the quota before
\* the call.
patchCondition(status, message, left) ==
  LET cond == [status |-> status, gen |-> obj.gen, message |-> message]
  IN  \/ /\ IF cond \in {obj.cond, store[key].cond} \/ ~store[key].exists
              THEN UNCHANGED <<store, watch>>
              ELSE Put(key, [store[key] EXCEPT !.rv = NextRv(key), !.cond = cond])
         /\ quota' = left
      \/ /\ left > 0 /\ quota' = left - 1
         /\ UNCHANGED <<store, watch>>

\* The reconcile records its outcome and asks to be called again after one of
\* the durations in `after'.
Report(status, message, left, after) ==
  /\ patchCondition(status, message, left)
  /\ \E d \in after : Return(d > 0)
  /\ UNCHANGED cache

\* The outcomes of a SQL resource, whose spec may set the intervals.
Failed(message, left) == Report("False", message, left, retryResult(obj.spec))

Succeeded == Report("True", "exists", quota, requeueResult(obj.spec))

\* A version of a SQL resource that asks the operator for something: it lives
\* (and its intervals let it be re-checked), or it waits for its cleanup.
Due(v) == v.exists /\ (IF v.deleting THEN v.finalizer ELSE Sane(v.spec))

\* Nothing will have the operator look at cr (again).
Forgotten(cr) == cr \notin queue /\ key # cr /\ watch[cr] = {}

\* The operator process dies and a new one starts: its informers list the
\* current objects and every one of them is queued.
Restart ==
  /\ Disturb
  /\ cache' = store
  /\ watch' = [cr \in CR |-> {}]
  /\ queue' = {cr \in CR : store[cr].exists}
  /\ pc' = "idle" /\ key' = NoCR /\ obj' = Never
  /\ UNCHANGED store

KubeInit ==
  /\ store = [cr \in CR |-> Never]
  /\ cache = store
  /\ watch = [cr \in CR |-> {}]
  /\ queue = {}
  /\ pc = "idle" /\ key = NoCR /\ obj = Never
  /\ quota = MaxDisturbances

KubeTypeOK ==
  /\ store \in [CR -> Version]
  /\ cache \in [CR -> Version]
  /\ watch \in [CR -> SUBSET Version]
  /\ queue \in SUBSET CR
  /\ key \in CR \cup {NoCR}
  /\ (pc = "idle") <=> (key = NoCR)
  /\ obj \in Version
  /\ quota \in 0 .. MaxDisturbances
============================================================================
