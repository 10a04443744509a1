------------------------- MODULE InstanceController -------------------------
(***************************************************************************)
(* The PostgreSQL controller: Reconcile of                                 *)
(* internal/controller/postgresql_controller.go, which only reads the      *)
(* superuser Secret, connects, pings and reports in the Ready condition.   *)
(* It knows no finalizer, so a resource goes whenever its user deletes it, *)
(* also while a reconcile holds it.                                        *)
(***************************************************************************)
EXTENDS Instances

CONSTANT Misdirected   \* the specs whose host, port or user are wrong

ASSUME InstanceAssumption ==
  /\ Misdirected \subseteq Specs
  /\ "noCR" \notin InstState

VARIABLE verified   \* history: <<cr, uid, gen>> that a ping succeeded for

instVars == <<inst, verified>>
vars == <<kubeVars, instVars>>

\* What the Secret and the server behind a resource are like.
SecretOk(cr) == inst[cr.namespace] \notin {"noSecret", "noKey"}

ServerUp(cr, s) == inst[cr.namespace] # "down" /\ s \notin Misdirected

---------------------------------------------------------------------------
ReconcileGone(cr) ==
  /\ ~cache[cr].exists
  /\ ReconcileNothing(cr)
  /\ UNCHANGED instVars

\* A resource that is being deleted is reconciled like any other.
ReconcileLive(cr) ==
  /\ ReconcileObject(cr, "secret")
  /\ UNCHANGED instVars

\* The two outcomes.  A PostgreSQL resource sets no intervals.
Unusable(message, left) == Report("False", message, left, {defaultRequeueInterval})

Usable == Report("True", "exists", quota, addJitter(defaultRequeueInterval))

getSecretValue ==
  /\ pc = "secret"
  /\ \/ SecretOk(key) /\ GoTo("connect")
     \/ ~SecretOk(key) /\ Unusable("secret", quota)
  /\ UNCHANGED instVars

\* Mutant: when the server does not answer, nothing is reported or retried.
ConnectSilent ==
  /\ pc = "connect"
  /\ \/ ServerUp(key, obj.spec) /\ GoTo("ping")
     \/ /\ ~ServerUp(key, obj.spec) /\ Return(FALSE)
        /\ UNCHANGED <<store, watch, cache, quota>>
  /\ UNCHANGED instVars

Connect ==
  /\ pc = "connect"
  /\ \/ ServerUp(key, obj.spec) /\ GoTo("ping")
     \/ ~ServerUp(key, obj.spec) /\ Unusable("connect", quota)
  /\ UNCHANGED instVars

\* The server may go between the connection and the ping; a ping may also
\* fail at the cost of a disturbance.
Ping ==
  /\ pc = "ping"
  /\ \/ /\ ServerUp(key, obj.spec) /\ GoTo("ready")
        /\ verified' = verified \cup {<<key, obj.uid, obj.gen>>}
     \/ ~ServerUp(key, obj.spec) /\ Unusable("ping", quota) /\ UNCHANGED verified
     \/ quota > 0 /\ Unusable("ping", quota - 1) /\ UNCHANGED verified
  /\ UNCHANGED inst

\* Mutant: the finalizer block of the other controllers.
MarkReadyFinalizes ==
  /\ pc = "ready"
  /\ UpdateAddFinalizer("ready") \/ Usable
  /\ UNCHANGED instVars

MarkReady ==
  /\ pc = "ready"
  /\ Usable
  /\ UNCHANGED instVars

---------------------------------------------------------------------------
Users(cr) ==
  \/ UserCreate(cr)
  \/ UserEdit(cr)
  \/ UserDelete(cr)

Init == KubeInit /\ InstInit /\ verified = {}

Take(cr) == ReconcileGone(cr) \/ ReconcileLive(cr)

Work == getSecretValue \/ Connect \/ Ping \/ MarkReady

Next ==
  \/ \E cr \in CR : Users(cr) /\ UNCHANGED instVars
  \/ \E cr \in CR : ReleaseHold(cr) /\ UNCHANGED instVars
  \/ \E cr \in CR : Deliver(cr) /\ UNCHANGED instVars
  \/ Restart /\ UNCHANGED instVars
  \/ \E ns \in Namespace : InstChange(ns) /\ UNCHANGED verified
  \/ \E cr \in CR : Take(cr)
  \/ Work

Spec == Init /\ [][Next]_vars

\* As for DatabaseController.
Fairness ==
  /\ WF_vars(Work)
  /\ \A cr \in CR : /\ SF_vars(Take(cr))
                    /\ WF_vars(Deliver(cr) /\ UNCHANGED instVars)
                    /\ WF_vars(ReleaseHold(cr) /\ UNCHANGED instVars)

FairSpec == Spec /\ Fairness

---------------------------------------------------------------------------
(* Properties.                                                             *)

\* Every variable has its type, and no step gives a PostgreSQL resource the
\* operator's finalizer.
TypeOK ==
  /\ KubeTypeOK
  /\ InstTypeOK
  /\ pc \in {"idle", "secret", "connect", "ping", "ready"}
  /\ \A cr \in CR : ~store[cr].finalizer
  /\ verified \in SUBSET (CR \X Nat \X Nat)

\* Ready=True for the current generation of the first resource of its name
\* follows a ping with the spec of that generation: an edit in the middle of
\* a reconcile is not reported as reachable.
ReadyEarned ==
  \A cr \in CR :
    Ready(store[cr]) /\ store[cr].uid = 1 => <<cr, 1, store[cr].gen>> \in verified

\* Nothing is ever forgotten: a resource that exists has a request queued, is
\* being reconciled, or has a version the informer is still to deliver.
NeverForgotten == \A cr \in CR : store[cr].exists => ~Forgotten(cr)

\* The condition ends up saying, of the current generation, whether the
\* instance can be used, once that no longer changes.
StatusFollows ==
  \A cr \in CR :
    LET usable == SecretOk(cr) /\ ServerUp(cr, store[cr].spec)
        says(status) == store[cr].cond.status = status /\ store[cr].cond.gen = store[cr].gen
    IN  /\ <>[](store[cr].exists /\ usable) => <>[]says("True")
        /\ <>[](store[cr].exists /\ ~usable) => <>[]says("False")
=============================================================================
