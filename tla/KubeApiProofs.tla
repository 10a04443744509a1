--------------------------- MODULE KubeApiProofs ---------------------------
(***************************************************************************)
(* What every controller built on KubeApi may rely on, whatever it does in *)
(* SQL: how stale the cache and the object in the worker's hand can be.    *)
(* Each lemma says that one operation of KubeApi keeps KubeInv.            *)
(***************************************************************************)
EXTENDS KubeApi, TLAPS

\* v is w or an earlier version of the same name.
Precedes(v, w) ==
  /\ v.rv <= w.rv
  /\ v.rv = w.rv => v = w
  /\ v.uid <= w.uid
  /\ v.uid = w.uid =>
       /\ v.gen <= w.gen
       /\ v.gen = w.gen => v.spec = w.spec /\ v.deleting = w.deleting
       /\ v.deleting => w.deleting
       /\ w.exists => v.exists

\* What may follow w in one write.
Follows(n, w) ==
  /\ n.rv = w.rv + 1
  /\ w.uid <= n.uid /\ n.uid <= n.rv
  /\ n.uid = w.uid =>
       /\ w.gen <= n.gen
       /\ w.gen = n.gen => w.spec = n.spec /\ w.deleting = n.deleting
       /\ w.deleting => n.deleting
       /\ n.exists => w.exists

\* Every version of cr that is still in use somewhere.
Informer(cr) == {cache[cr]} \cup watch[cr]

\* The cache, the watch and the worker only hold past versions, in order.
Ordered ==
  \A cr \in CR :
    /\ store[cr].uid <= store[cr].rv
    /\ store[cr].exists => store[cr].spec \in SpecOf[cr]
    /\ \A v \in Informer(cr) : /\ Precedes(v, store[cr])
                               /\ v.exists => v.spec \in SpecOf[cr]
    /\ \A v \in watch[cr] : cache[cr].rv < v.rv

\* While an incarnation has the finalizer, the informer knows no other, and
\* a live version with the finalizer is never outdated in these respects.
Finalized ==
  \A cr \in CR :
    /\ store[cr].finalizer => /\ store[cr].exists
                              /\ \A v \in Informer(cr) :
                                   v.exists /\ v.uid = store[cr].uid
    /\ \A v \in Informer(cr) :
         v.exists /\ v.finalizer /\ ~v.deleting
           => store[cr].finalizer /\ v.uid = store[cr].uid

\* Ready=True is never ahead of its resource, nor without the finalizer.
Conditions ==
  \A cr \in CR :
    store[cr].cond.status = "True" =>
      /\ store[cr].cond.gen <= store[cr].gen
      /\ store[cr].exists /\ ~store[cr].deleting => store[cr].finalizer

\* The object in the worker's hand.
InHand ==
  pc # "idle" =>
    /\ obj.exists /\ obj.spec \in SpecOf[key]
    /\ Precedes(obj, store[key])
    /\ pc # "ready" => obj.rv <= cache[key].rv
    /\ obj.finalizer /\ ~obj.deleting
         => store[key].finalizer /\ obj.uid = store[key].uid
    /\ obj.deleting => /\ obj.finalizer
                       /\ store[key].finalizer => obj.uid = store[key].uid
    /\ pc = "finalize" => ~obj.deleting
    /\ pc = "ready" => ~obj.deleting /\ obj.finalizer
    /\ pc = "release" => obj.deleting

KubeInv == KubeTypeOK /\ Ordered /\ Finalized /\ Conditions /\ InHand

---------------------------------------------------------------------------
(* Writes in general.                                                      *)

\* What n must satisfy for KubeInv to survive the write.
Sound(cr, n) ==
  /\ n \in Version
  /\ Follows(n, store[cr])
  /\ n.exists => n.spec \in SpecOf[cr]
  /\ n.finalizer =>
       n.exists /\ \A v \in Informer(cr) : v.exists /\ v.uid = n.uid
  /\ ~n.finalizer =>
       \A v \in Informer(cr) : ~(v.exists /\ v.finalizer /\ ~v.deleting)
  /\ n.cond.status = "True" =>
       /\ n.cond.gen <= n.gen
       /\ n.exists /\ ~n.deleting => n.finalizer

\* Every way in which KubeApi makes a version from another yields a version.
LEMMA Changed ==
  ASSUME NEW v \in Version, NEW r \in Nat, NEW g \in Nat, NEW s \in Specs,
         NEW b \in BOOLEAN, NEW c \in Condition
  PROVE  /\ [v EXCEPT !.rv = r, !.spec = s, !.gen = g] \in Version
         /\ [v EXCEPT !.rv = r, !.gen = g, !.deleting = TRUE, !.held = b] \in Version
         /\ [v EXCEPT !.rv = r, !.exists = FALSE] \in Version
         /\ [v EXCEPT !.rv = r, !.held = FALSE, !.exists = b] \in Version
         /\ [v EXCEPT !.rv = r, !.finalizer = TRUE] \in Version
         /\ [v EXCEPT !.rv = r, !.finalizer = FALSE, !.exists = b] \in Version
         /\ [v EXCEPT !.rv = r, !.cond = c] \in Version
BY DEF Version

\* The numbers of a version are natural numbers, its flags are Boolean.
LEMMA Fields ==
  ASSUME NEW v \in Version
  PROVE  /\ v.uid \in Nat /\ v.rv \in Nat /\ v.gen \in Nat /\ v.cond.gen \in Nat
         /\ v.rv + 1 \in Nat /\ v.gen + 1 \in Nat
         /\ v.exists \in BOOLEAN /\ v.deleting \in BOOLEAN
         /\ v.finalizer \in BOOLEAN /\ v.held \in BOOLEAN
         /\ v.spec \in Specs /\ v.cond \in Condition
BY DEF Version, Condition

\* A past version stays a past version when a new one is written.
LEMMA PrecedesStep ==
  ASSUME NEW v \in Version, NEW w \in Version, NEW n \in Version,
         Precedes(v, w), Follows(n, w)
  PROVE  Precedes(v, n)
BY DEF Precedes, Follows, Version

\* A write that keeps incarnation, generation and spec.
LEMMA FollowsSame ==
  ASSUME NEW n \in Version, NEW w \in Version, w.uid <= w.rv,
         n.rv = w.rv + 1, n.uid = w.uid, n.gen = w.gen, n.spec = w.spec,
         n.deleting = w.deleting, n.exists => w.exists
  PROVE  Follows(n, w)
BY Fields DEF Follows

\* A version precedes itself.
LEMMA PrecedesSelf ==
  ASSUME NEW v \in Version
  PROVE  Precedes(v, v)
BY DEF Precedes, Version

\* A write of a version that follows keeps the order of what the informer has.
LEMMA WriteOrders ==
  ASSUME KubeTypeOK, Ordered, NEW cr \in CR, NEW n, Put(cr, n), n \in Version,
         Follows(n, store[cr]), n.exists => n.spec \in SpecOf[cr], cache' = cache
  PROVE  /\ store' \in [CR -> Version] /\ watch' \in [CR -> SUBSET Version]
         /\ store'[cr] = n
         /\ \A c \in CR \ {cr} : store'[c] = store[c] /\ Informer(c)' = Informer(c)
         /\ Informer(cr)' = Informer(cr) \cup {n}
         /\ Ordered'
<1>1. store[cr] \in Version
  BY DEF KubeTypeOK
<1>2. /\ store' \in [CR -> Version] /\ watch' \in [CR -> SUBSET Version]
      /\ store'[cr] = n
      /\ \A c \in CR \ {cr} : store'[c] = store[c] /\ watch'[c] = watch[c]
      /\ watch'[cr] = watch[cr] \cup {n}
      /\ cache[cr] \in Version /\ watch[cr] \subseteq Version
  BY <1>1 DEF Put, KubeTypeOK
<1>3. /\ Informer(cr)' = Informer(cr) \cup {n}
      /\ \A c \in CR \ {cr} : Informer(c)' = Informer(c)
      /\ Informer(cr) \subseteq Version
  BY <1>2 DEF Informer
<1>4. ASSUME NEW v \in Informer(cr)'
      PROVE  Precedes(v, n) /\ (v.exists => v.spec \in SpecOf[cr])
  <2>1. CASE v = n
    BY <2>1, PrecedesSelf
  <2>2. CASE v \in Informer(cr)
    BY <2>2, <1>1, <1>3, PrecedesStep DEF Ordered
  <2> QED
    BY <1>3, <2>1, <2>2
<1>5. \A v \in watch'[cr] : cache'[cr].rv < v.rv
  <2>1. cache[cr].rv <= store[cr].rv /\ n.rv = store[cr].rv + 1
    BY DEF Ordered, Informer, Precedes, Follows
  <2>2. cache[cr].rv \in Nat /\ store[cr].rv \in Nat
    BY <1>1, <1>2 DEF Version
  <2> QED
    BY <1>2, <2>1, <2>2 DEF Ordered
<1>6. Ordered'
  BY <1>2, <1>3, <1>4, <1>5 DEF Ordered, Follows
<1> QED
  BY <1>2, <1>3, <1>6

\* A sound write by anybody keeps what relates the server and the informer.
LEMMA WriteKeeps ==
  ASSUME KubeTypeOK, Ordered, Finalized, Conditions,
         NEW cr \in CR, NEW n, Put(cr, n), Sound(cr, n), cache' = cache
  PROVE  /\ store' \in [CR -> Version] /\ watch' \in [CR -> SUBSET Version]
         /\ Ordered' /\ Finalized' /\ Conditions'
<1>1. /\ store' \in [CR -> Version] /\ watch' \in [CR -> SUBSET Version]
      /\ store'[cr] = n
      /\ \A c \in CR \ {cr} : store'[c] = store[c] /\ Informer(c)' = Informer(c)
      /\ Informer(cr)' = Informer(cr) \cup {n}
      /\ Ordered'
  BY WriteOrders DEF Sound
<1>2. Finalized'
  BY <1>1 DEF Finalized, Sound
<1>3. Conditions'
  BY <1>1 DEF Conditions, Sound
<1> QED
  BY <1>1, <1>2, <1>3

\* What a write by others than the worker leaves alone: it neither adds nor
\* removes the finalizer, and makes nothing Ready.
Quiet(cr, n) ==
  /\ n.finalizer = store[cr].finalizer
  /\ n.finalizer => n.uid = store[cr].uid
  /\ Ready(n) => /\ Ready(store[cr]) /\ n.uid = store[cr].uid
                 /\ n.spec = store[cr].spec /\ n.deleting = store[cr].deleting

\* Such a write keeps KubeInv.
LEMMA OthersWrite ==
  ASSUME KubeInv, NEW cr \in CR, NEW n, Put(cr, n), Sound(cr, n), Quiet(cr, n),
         quota' \in 0 .. MaxDisturbances,
         UNCHANGED <<cache, queue, pc, key, obj>>
  PROVE  KubeInv'
<1>1. /\ store' \in [CR -> Version] /\ watch' \in [CR -> SUBSET Version]
      /\ Ordered' /\ Finalized' /\ Conditions'
  BY WriteKeeps DEF KubeInv
<1>2. KubeTypeOK'
  BY <1>1 DEF KubeInv, KubeTypeOK
<1>3. InHand'
  <2>1. CASE pc = "idle"
    BY <2>1 DEF InHand
  <2>2. CASE pc # "idle" /\ key # cr
    BY <2>2 DEF InHand, KubeInv, KubeTypeOK, Put
  <2>3. CASE pc # "idle" /\ key = cr
    <3>1. store'[key] = n /\ n \in Version /\ store[key] \in Version /\ obj \in Version
      BY <2>3 DEF Put, Sound, KubeInv, KubeTypeOK
    <3>2. Precedes(obj, n)
      BY <2>3, <3>1, PrecedesStep DEF Sound, InHand, KubeInv
    <3>3. n.finalizer => n.uid = store[key].uid
      BY <2>3 DEF Quiet
    <3> QED
      BY <2>3, <3>1, <3>2, <3>3 DEF InHand, KubeInv, Quiet
  <2> QED
    BY <2>1, <2>2, <2>3
<1> QED
  BY <1>1, <1>2, <1>3 DEF KubeInv

---------------------------------------------------------------------------
(* Users, the garbage collector, the informer and crashes.                 *)

\* A disturbance keeps the quota within its bound.
LEMMA DisturbQuota ==
  ASSUME KubeTypeOK, Disturb
  PROVE  quota' \in 0 .. MaxDisturbances
BY KubeAssumption DEF KubeTypeOK, Disturb

\* What users and the garbage collector do to a resource: they create it, or
\* change neither its incarnation, nor its finalizer, nor its condition.
Touched(cr, n) ==
  /\ n \in Version /\ Follows(n, store[cr])
  /\ n.exists => n.spec \in SpecOf[cr]
  /\ \/ /\ ~store[cr].exists /\ n.exists /\ ~n.finalizer
        /\ n.uid = n.rv /\ n.cond = NoCondition
     \/ /\ store[cr].exists /\ n.uid = store[cr].uid
        /\ n.finalizer = store[cr].finalizer /\ n.cond = store[cr].cond
        /\ n.finalizer => n.exists

\* kubectl create.
LEMMA UserCreateTouches ==
  ASSUME KubeTypeOK, Ordered, NEW cr \in CR, UserCreate(cr)
  PROVE  \E n : Put(cr, n) /\ Touched(cr, n)
<1> DEFINE n(s) == [exists |-> TRUE, uid |-> NextRv(cr), rv |-> NextRv(cr),
                    gen |-> 1, spec |-> s, deleting |-> FALSE,
                    finalizer |-> FALSE, held |-> FALSE, cond |-> NoCondition]
<1>1. PICK s \in SpecOf[cr] : Put(cr, n(s))
  BY DEF UserCreate
<1>2. store[cr] \in Version /\ s \in Specs /\ ~store[cr].exists
  BY KubeAssumption DEF KubeTypeOK, UserCreate
<1>3. NoCondition \in Condition
  BY DEF Condition, NoCondition, Message
<1>4. n(s) \in Version
  BY <1>2, <1>3 DEF Version, NextRv
<1>5. Follows(n(s), store[cr])
  <2>1. /\ store[cr].uid \in Nat /\ store[cr].rv \in Nat
        /\ store[cr].uid <= store[cr].rv
    BY <1>2 DEF Version, Ordered
  <2>2. n(s).rv = store[cr].rv + 1 /\ n(s).uid = store[cr].rv + 1
    BY DEF NextRv
  <2> HIDE DEF n
  <2> QED
    BY <2>1, <2>2 DEF Follows
<1>6. /\ n(s).exists /\ n(s).spec = s /\ ~n(s).finalizer
      /\ n(s).uid = n(s).rv /\ n(s).cond = NoCondition
  OBVIOUS
<1> HIDE DEF n
<1>7. Touched(cr, n(s))
  BY <1>2, <1>4, <1>5, <1>6 DEF Touched
<1> QED
  BY <1>1, <1>7

\* kubectl edit: same incarnation, next generation.
LEMMA UserEditTouches ==
  ASSUME KubeTypeOK, Ordered, NEW cr \in CR, UserEdit(cr)
  PROVE  \E n : Put(cr, n) /\ Touched(cr, n)
<1> DEFINE n(s) == [store[cr] EXCEPT !.rv = NextRv(cr), !.spec = s, !.gen = @ + 1]
<1>1. PICK s \in SpecOf[cr] : Put(cr, n(s))
  BY DEF UserEdit
<1>2. store[cr] \in Version /\ s \in Specs /\ store[cr].exists
  BY KubeAssumption DEF KubeTypeOK, UserEdit
<1>3. n(s) \in Version
  <2>1. NextRv(cr) \in Nat /\ store[cr].gen + 1 \in Nat /\ store[cr].cond \in Condition
    BY <1>2, Fields DEF NextRv
  <2> QED
    BY <1>2, <2>1, Changed
<1>4. /\ n(s).rv = store[cr].rv + 1 /\ n(s).gen = store[cr].gen + 1
      /\ n(s).spec = s /\ n(s).exists
      /\ n(s).uid = store[cr].uid /\ n(s).deleting = store[cr].deleting
      /\ n(s).finalizer = store[cr].finalizer /\ n(s).cond = store[cr].cond
  BY <1>2 DEF Version, NextRv
<1> HIDE DEF n
<1>5. Follows(n(s), store[cr])
  <2>1. /\ store[cr].uid \in Nat /\ store[cr].rv \in Nat /\ store[cr].gen \in Nat
        /\ store[cr].uid <= store[cr].rv
    BY <1>2, Fields DEF Ordered
  <2> QED
    BY <1>2, <1>4, <2>1 DEF Follows
<1>6. Touched(cr, n(s))
  BY <1>2, <1>3, <1>4, <1>5 DEF Touched
<1> QED
  BY <1>1, <1>6

\* kubectl delete, with or without a finalizer in the way.
LEMMA UserDeleteTouches ==
  ASSUME KubeTypeOK, Ordered, NEW cr \in CR, UserDelete(cr)
  PROVE  \E n : Put(cr, n) /\ Touched(cr, n)
<1>1. store[cr] \in Version /\ store[cr].exists /\ store[cr].spec \in SpecOf[cr]
  BY DEF KubeTypeOK, UserDelete, Ordered
<1>2. /\ store[cr].uid \in Nat /\ store[cr].rv \in Nat /\ store[cr].gen \in Nat
      /\ store[cr].uid <= store[cr].rv
  BY <1>1, Fields DEF Ordered
<1>3. /\ NextRv(cr) \in Nat /\ store[cr].gen + 1 \in Nat
      /\ store[cr].cond \in Condition /\ store[cr].spec \in Specs
  BY <1>1, Fields DEF NextRv
<1> DEFINE d(h) == [store[cr] EXCEPT !.rv = NextRv(cr), !.gen = @ + 1,
                                     !.deleting = TRUE, !.held = h]
           e == [store[cr] EXCEPT !.rv = NextRv(cr), !.exists = FALSE]
<1>4. PICK h \in Holds : IF store[cr].finalizer \/ h THEN Put(cr, d(h))
                                                     ELSE Put(cr, e)
  BY DEF UserDelete
<1>5. CASE store[cr].finalizer \/ h
  <2>1. h \in BOOLEAN
    BY KubeAssumption
  <2>2. d(h) \in Version
    BY <1>1, <1>3, <2>1, Changed
  <2>3. /\ d(h).rv = store[cr].rv + 1 /\ d(h).gen = store[cr].gen + 1
        /\ d(h).spec = store[cr].spec /\ d(h).exists = store[cr].exists
        /\ d(h).uid = store[cr].uid /\ d(h).deleting = TRUE
        /\ d(h).finalizer = store[cr].finalizer /\ d(h).cond = store[cr].cond
    BY <1>1, <2>1 DEF Version, NextRv
  <2>4. Put(cr, d(h))
    BY <1>4, <1>5
  <2> HIDE DEF d
  <2>5. Follows(d(h), store[cr])
    BY <1>2, <2>3 DEF Follows
  <2>6. Touched(cr, d(h))
    BY <1>1, <2>2, <2>3, <2>5 DEF Touched
  <2> QED
    BY <2>4, <2>6
<1>6. CASE ~(store[cr].finalizer \/ h)
  <2>1. e \in Version
    BY <1>1, <1>3, Changed
  <2>2. /\ e.rv = store[cr].rv + 1 /\ e.gen = store[cr].gen
        /\ e.spec = store[cr].spec /\ ~e.exists
        /\ e.uid = store[cr].uid /\ e.deleting = store[cr].deleting
        /\ e.finalizer = store[cr].finalizer /\ e.cond = store[cr].cond
    BY <1>1 DEF Version, NextRv
  <2>3. Put(cr, e) /\ ~store[cr].finalizer
    BY <1>4, <1>6
  <2> HIDE DEF e
  <2>4. Follows(e, store[cr])
    BY <1>2, <2>2 DEF Follows
  <2>5. Touched(cr, e)
    BY <1>1, <2>1, <2>2, <2>3, <2>4 DEF Touched
  <2> QED
    BY <2>3, <2>5
<1> QED
  BY <1>5, <1>6

\* Another finalizer goes away.
LEMMA ReleaseHoldTouches ==
  ASSUME KubeTypeOK, Ordered, NEW cr \in CR, ReleaseHold(cr)
  PROVE  \E n : Put(cr, n) /\ Touched(cr, n)
<1>1. store[cr] \in Version /\ store[cr].exists /\ store[cr].spec \in SpecOf[cr]
  BY DEF KubeTypeOK, ReleaseHold, Ordered
<1>2. /\ store[cr].uid \in Nat /\ store[cr].rv \in Nat /\ store[cr].gen \in Nat
      /\ store[cr].uid <= store[cr].rv
  BY <1>1, Fields DEF Ordered
<1> DEFINE n == [store[cr] EXCEPT !.rv = NextRv(cr), !.held = FALSE,
                                  !.exists = store[cr].finalizer]
<1>3. n \in Version
  <2>1. /\ NextRv(cr) \in Nat /\ store[cr].gen + 1 \in Nat
        /\ store[cr].cond \in Condition /\ store[cr].spec \in Specs
        /\ store[cr].finalizer \in BOOLEAN
    BY <1>1, Fields DEF NextRv
  <2> QED
    BY <1>1, <2>1, Changed
<1>4. /\ n.rv = store[cr].rv + 1 /\ n.gen = store[cr].gen
      /\ n.spec = store[cr].spec /\ n.exists = store[cr].finalizer
      /\ n.uid = store[cr].uid /\ n.deleting = store[cr].deleting
      /\ n.finalizer = store[cr].finalizer /\ n.cond = store[cr].cond
  BY <1>1 DEF Version, NextRv
<1>5. Put(cr, n)
  BY DEF ReleaseHold
<1> HIDE DEF n
<1>6. Follows(n, store[cr])
  BY <1>1, <1>2, <1>4 DEF Follows
<1>7. Touched(cr, n)
  BY <1>1, <1>3, <1>4, <1>6 DEF Touched
<1> QED
  BY <1>5, <1>7

\* All of these writes.
LEMMA OthersTouch ==
  ASSUME KubeTypeOK, Ordered, NEW cr \in CR,
         UserCreate(cr) \/ UserEdit(cr) \/ UserDelete(cr) \/ ReleaseHold(cr)
  PROVE  /\ \E n : Put(cr, n) /\ Touched(cr, n)
         /\ quota' \in 0 .. MaxDisturbances
         /\ UNCHANGED <<cache, queue, pc, key, obj>>
<1>1. \E n : Put(cr, n) /\ Touched(cr, n)
  BY UserCreateTouches, UserEditTouches, UserDeleteTouches, ReleaseHoldTouches
<1>2. quota' \in 0 .. MaxDisturbances
  BY DisturbQuota DEF UserCreate, UserEdit, UserDelete, ReleaseHold, KubeTypeOK
<1>3. UNCHANGED <<cache, queue, pc, key, obj>>
  BY DEF UserCreate, UserEdit, UserDelete, ReleaseHold
<1> QED
  BY <1>1, <1>2, <1>3

\* They are sound and quiet.
LEMMA TouchedSound ==
  ASSUME KubeInv, NEW cr \in CR, NEW n, Touched(cr, n)
  PROVE  Sound(cr, n) /\ Quiet(cr, n)
<1>1. n \in Version /\ store[cr] \in Version /\ Follows(n, store[cr])
  BY DEF Touched, KubeInv, KubeTypeOK
<1>2. CASE ~store[cr].exists
  <2>1. /\ n.exists /\ ~n.finalizer /\ n.cond.status # "True"
        /\ n.spec \in SpecOf[cr]
    BY <1>2 DEF Touched, NoCondition
  <2>2. ~store[cr].finalizer
    BY <1>2 DEF KubeInv, Finalized
  <2>3. \A v \in Informer(cr) : ~(v.exists /\ v.finalizer /\ ~v.deleting)
    BY <2>2 DEF KubeInv, Finalized
  <2>4. n.finalizer = store[cr].finalizer
    BY <1>1, <2>1, <2>2, Fields
  <2> QED
    BY <1>1, <2>1, <2>3, <2>4 DEF Sound, Quiet, Ready
<1>3. CASE store[cr].exists
  <2>1. /\ n.uid = store[cr].uid /\ n.finalizer = store[cr].finalizer
        /\ n.cond = store[cr].cond /\ (n.finalizer => n.exists)
        /\ (n.exists => n.spec \in SpecOf[cr])
    BY <1>3 DEF Touched
  <2>2. /\ store[cr].gen <= n.gen
        /\ store[cr].gen = n.gen => /\ store[cr].spec = n.spec
                                    /\ store[cr].deleting = n.deleting
        /\ store[cr].deleting => n.deleting
    BY <1>1, <2>1 DEF Follows
  <2>3. /\ n.finalizer => \A v \in Informer(cr) : v.exists /\ v.uid = n.uid
        /\ ~n.finalizer => \A v \in Informer(cr) : ~(v.exists /\ v.finalizer /\ ~v.deleting)
    BY <2>1 DEF KubeInv, Finalized
  <2>4. n.cond.status = "True" => /\ store[cr].cond.gen <= store[cr].gen
                                  /\ ~n.deleting => n.finalizer
    BY <1>3, <2>1, <2>2 DEF KubeInv, Conditions
  <2>5. /\ store[cr].gen \in Nat /\ n.gen \in Nat /\ n.cond.gen \in Nat
        /\ n.cond.gen = store[cr].cond.gen
    BY <1>1, <2>1, Fields
  <2>6. n.cond.status = "True" => n.cond.gen <= n.gen
    BY <2>2, <2>4, <2>5
  <2>7. Sound(cr, n)
    BY <1>1, <2>1, <2>3, <2>4, <2>6 DEF Sound
  <2>8. Ready(n) => n.gen = store[cr].gen
    BY <2>2, <2>4, <2>5 DEF Ready
  <2>9. Quiet(cr, n)
    BY <1>3, <2>1, <2>2, <2>8 DEF Quiet, Ready
  <2> QED
    BY <2>7, <2>9
<1> QED
  BY <1>2, <1>3

\* So they keep KubeInv.
LEMMA OthersKeep ==
  ASSUME KubeInv, NEW cr \in CR,
         UserCreate(cr) \/ UserEdit(cr) \/ UserDelete(cr) \/ ReleaseHold(cr)
  PROVE  /\ KubeInv'
         /\ \E n : Put(cr, n) /\ Sound(cr, n) /\ Quiet(cr, n)
         /\ UNCHANGED <<cache, queue, pc, key, obj>>
<1>1. PICK n : Put(cr, n) /\ Touched(cr, n)
  BY OthersTouch DEF KubeInv
<1>2. Sound(cr, n) /\ Quiet(cr, n)
  BY <1>1, TouchedSound
<1>3. quota' \in 0 .. MaxDisturbances /\ UNCHANGED <<cache, queue, pc, key, obj>>
  BY OthersTouch DEF KubeInv
<1> QED
  BY <1>1, <1>2, <1>3, OthersWrite

\* The cache catches up, by one version or more, and stays in order.
LEMMA DeliverOrders ==
  ASSUME KubeTypeOK, Ordered, NEW cr \in CR, Deliver(cr)
  PROVE  /\ KubeTypeOK' /\ Ordered' /\ UNCHANGED <<store, pc, key, obj>>
         /\ \A c \in CR : Informer(c)' \subseteq Informer(c)
         /\ \A c \in CR : cache'[c] = cache[c] \/ cache[c].rv < cache'[c].rv
<1>1. PICK v \in watch[cr] :
        /\ cache' = [cache EXCEPT ![cr] = v]
        /\ watch' = [watch EXCEPT ![cr] = {w \in @ : w.rv > v.rv}]
  BY DEF Deliver
<1>2. /\ v \in Version /\ cache[cr] \in Version /\ cache[cr].rv < v.rv
      /\ watch[cr] \subseteq Version
  BY DEF KubeTypeOK, Ordered
<1>3. KubeTypeOK'
  BY <1>1, <1>2 DEF KubeTypeOK, Deliver
<1>4. /\ cache'[cr] = v /\ watch'[cr] = {w \in watch[cr] : w.rv > v.rv}
      /\ \A c \in CR \ {cr} : cache'[c] = cache[c] /\ watch'[c] = watch[c]
      /\ UNCHANGED <<store, pc, key, obj>>
  BY <1>1 DEF KubeTypeOK, Deliver
<1>5. \A c \in CR : Informer(c)' \subseteq Informer(c)
  BY <1>4 DEF Informer
<1>6. Ordered'
  <2>1. \A w \in watch'[cr] : cache'[cr].rv < w.rv
    BY <1>2, <1>4 DEF Version
  <2> QED
    BY <1>4, <1>5, <2>1 DEF Ordered
<1> QED
  BY <1>2, <1>3, <1>4, <1>5, <1>6

\* It keeps KubeInv.
LEMMA DeliverKeeps ==
  ASSUME KubeInv, NEW cr \in CR, Deliver(cr)
  PROVE  KubeInv'
<1>1. /\ KubeTypeOK' /\ Ordered' /\ UNCHANGED <<store, pc, key, obj>>
      /\ \A c \in CR : Informer(c)' \subseteq Informer(c)
      /\ \A c \in CR : cache'[c] = cache[c] \/ cache[c].rv < cache'[c].rv
  BY DeliverOrders DEF KubeInv
<1>2. Finalized' /\ Conditions'
  BY <1>1 DEF KubeInv, Finalized, Conditions
<1>3. pc # "idle" /\ pc # "ready" => obj.rv <= cache'[key].rv
  <2> SUFFICES ASSUME pc # "idle", pc # "ready" PROVE obj.rv <= cache'[key].rv
    OBVIOUS
  <2>1. key \in CR /\ obj.rv <= cache[key].rv
    BY DEF KubeInv, KubeTypeOK, InHand
  <2>2. obj.rv \in Nat /\ cache[key].rv \in Nat /\ cache'[key].rv \in Nat
    BY <1>1, <2>1, Fields DEF KubeInv, KubeTypeOK
  <2> QED
    BY <1>1, <2>1, <2>2
<1>4. InHand'
  BY <1>1, <1>3 DEF KubeInv, InHand
<1> QED
  BY <1>1, <1>2, <1>4 DEF KubeInv

\* The object an idle worker holds has the type of a version.
LEMMA NeverType == Never \in Version
<1>1. NoCondition \in Condition
  BY DEF Condition, NoCondition, Message
<1>2. (CHOOSE s \in Specs : TRUE) \in Specs
  BY KubeAssumption
<1> QED
  BY <1>1, <1>2 DEF Never, Version

\* A crash leaves the new process with the server's versions.
LEMMA RestartOrders ==
  ASSUME KubeTypeOK, Ordered, Restart
  PROVE  /\ KubeTypeOK' /\ Ordered' /\ store' = store /\ pc' = "idle"
         /\ \A c \in CR : Informer(c)' = {store[c]}
<1>1. KubeTypeOK'
  BY NeverType, DisturbQuota DEF KubeTypeOK, Restart
<1>2. \A c \in CR : Informer(c)' = {store[c]} /\ store[c] \in Version
  BY DEF Informer, Restart, KubeTypeOK
<1>3. Ordered'
  BY <1>2, PrecedesSelf DEF Restart, Ordered
<1> QED
  BY <1>1, <1>2, <1>3 DEF Restart

\* It keeps KubeInv.
LEMMA RestartKeeps ==
  ASSUME KubeInv, Restart
  PROVE  KubeInv'
<1>1. /\ KubeTypeOK' /\ Ordered' /\ store' = store /\ pc' = "idle"
      /\ \A c \in CR : Informer(c)' = {store[c]}
  BY RestartOrders DEF KubeInv
<1>2. Finalized' /\ Conditions' /\ InHand'
  BY <1>1 DEF KubeInv, Finalized, Conditions, InHand
<1> QED
  BY <1>1, <1>2 DEF KubeInv

---------------------------------------------------------------------------
(* The worker.                                                             *)

\* A request with nothing to do is dropped.
LEMMA ReconcileNothingKeeps ==
  ASSUME KubeInv, NEW cr \in CR, ReconcileNothing(cr)
  PROVE  KubeInv'
BY DEF ReconcileNothing, KubeInv, KubeTypeOK, Ordered, Finalized, Conditions,
       InHand, Informer

\* The worker starts with what the cache has.
LEMMA ReconcileObjectKeeps ==
  ASSUME KubeInv, NEW cr \in CR, NEW next, ReconcileObject(cr, next),
         next \notin {"idle", "finalize", "ready"},
         cache[cr].deleting => cache[cr].finalizer,
         next = "release" => cache[cr].deleting
  PROVE  KubeInv'
<1>1. /\ pc' = next /\ key' = cr /\ obj' = cache[cr] /\ cache[cr].exists
      /\ UNCHANGED <<store, watch, cache, quota>>
      /\ cache[cr] \in Informer(cr) /\ cache[cr] \in Version
  BY DEF ReconcileObject, Informer, KubeInv, KubeTypeOK
<1>2. KubeTypeOK'
  BY <1>1, KubeAssumption DEF ReconcileObject, KubeInv, KubeTypeOK
<1>3. Ordered' /\ Finalized' /\ Conditions'
  BY <1>1 DEF KubeInv, Ordered, Finalized, Conditions, Informer
<1>4. InHand'
  <2>1. cache[cr].rv <= cache[cr].rv
    BY <1>1, Fields
  <2> QED
    BY <1>1, <2>1 DEF KubeInv, Ordered, Finalized, InHand
<1> QED
  BY <1>2, <1>3, <1>4 DEF KubeInv

\* The worker moves on, with what InHand asks of the next place.
LEMMA GoToKeeps ==
  ASSUME KubeInv, NEW next, GoTo(next), pc \notin {"idle", "ready"},
         next # "idle",
         next = "finalize" => ~obj.deleting,
         next = "ready" => ~obj.deleting /\ obj.finalizer,
         next = "release" => obj.deleting
  PROVE  KubeInv'
BY DEF GoTo, KubeInv, KubeTypeOK, Ordered, Finalized, Conditions, InHand, Informer

\* The worker returns without having written.
LEMMA ReturnKeeps ==
  ASSUME KubeInv, pc # "idle", NEW again, Return(again),
         UNCHANGED <<store, watch, cache>>, quota' \in 0 .. MaxDisturbances
  PROVE  KubeInv'
<1>1. KubeTypeOK'
  BY NeverType DEF KubeInv, KubeTypeOK, Return
<1>2. Ordered' /\ Finalized' /\ Conditions' /\ InHand'
  BY DEF KubeInv, Ordered, Finalized, Conditions, InHand, Informer, Return
<1> QED
  BY <1>1, <1>2 DEF KubeInv

\* The worker writes and returns.
LEMMA WriteReturnKeeps ==
  ASSUME KubeInv, pc # "idle", NEW again, Return(again),
         NEW n, Put(key, n), Sound(key, n),
         cache' = cache, quota' \in 0 .. MaxDisturbances
  PROVE  KubeInv'
<1>1. key \in CR
  BY DEF KubeInv, KubeTypeOK
<1>2. /\ store' \in [CR -> Version] /\ watch' \in [CR -> SUBSET Version]
      /\ Ordered' /\ Finalized' /\ Conditions'
  BY <1>1, WriteKeeps DEF KubeInv
<1>3. KubeTypeOK' /\ InHand'
  BY <1>1, <1>2, NeverType DEF KubeInv, KubeTypeOK, InHand, Return
<1> QED
  BY <1>2, <1>3 DEF KubeInv

\* An Update that the server accepts was made from the current version, and
\* then neither the cache nor the watch holds any other.
LEMMA CurrentObject ==
  ASSUME KubeInv, pc \notin {"idle", "ready"}, Current
  PROVE  /\ key \in CR /\ obj = store[key] /\ obj \in Version
         /\ Informer(key) = {obj}
<1>1. key \in CR /\ obj \in Version /\ cache[key] \in Version
      /\ store[key] \in Version /\ watch[key] \subseteq Version
  BY DEF KubeInv, KubeTypeOK
<1>2. obj = store[key]
  BY DEF KubeInv, InHand, Precedes, Current
<1>3. /\ obj.rv <= cache[key].rv /\ cache[key].rv <= store[key].rv
      /\ cache[key].rv = store[key].rv => cache[key] = store[key]
  BY <1>1 DEF KubeInv, InHand, Ordered, Informer, Precedes
<1>4. cache[key] = obj
  BY <1>1, <1>2, <1>3, Fields
<1>5. ASSUME NEW v \in watch[key] PROVE FALSE
  <2>1. v \in Version /\ cache[key].rv < v.rv /\ v.rv <= store[key].rv
    BY <1>1 DEF KubeInv, Ordered, Informer, Precedes
  <2> QED
    BY <1>1, <1>2, <1>4, <2>1, Fields
<1> QED
  BY <1>1, <1>2, <1>4, <1>5 DEF Informer

\* The version that Update writes to add the finalizer is sound.
LEMMA WithFinalizerSound ==
  ASSUME KubeInv, pc = "finalize", Current
  PROVE  /\ Sound(key, WithFinalizer) /\ WithFinalizer \in Version
         /\ WithFinalizer.finalizer = TRUE
         /\ WithFinalizer.deleting = FALSE /\ WithFinalizer.exists = TRUE
         /\ WithFinalizer.spec = obj.spec /\ WithFinalizer.uid = obj.uid
         /\ WithFinalizer.gen = obj.gen /\ WithFinalizer.cond = obj.cond
         /\ WithFinalizer.rv = obj.rv + 1
<1>1. /\ key \in CR /\ obj = store[key] /\ obj \in Version /\ Informer(key) = {obj}
      /\ obj.exists = TRUE /\ obj.deleting = FALSE /\ obj.spec \in SpecOf[key]
  BY CurrentObject, Fields DEF KubeInv, InHand
<1>2. WithFinalizer \in Version
  <2>1. /\ obj.rv + 1 \in Nat /\ obj.gen \in Nat /\ obj.held \in BOOLEAN
        /\ obj.spec \in Specs /\ obj.cond \in Condition
    BY <1>1, Fields
  <2> QED
    BY <1>1, <2>1, Changed DEF WithFinalizer
<1>3. /\ WithFinalizer.finalizer = TRUE
      /\ WithFinalizer.deleting = FALSE /\ WithFinalizer.exists = TRUE
      /\ WithFinalizer.spec = obj.spec /\ WithFinalizer.uid = obj.uid
      /\ WithFinalizer.gen = obj.gen /\ WithFinalizer.cond = obj.cond
      /\ WithFinalizer.rv = obj.rv + 1
  <2>1. obj \in Version /\ obj.deleting = FALSE /\ obj.exists = TRUE
    BY <1>1
  <2> QED
    BY <2>1 DEF WithFinalizer, Version
<1>4. Follows(WithFinalizer, obj)
  <2>1. obj.uid <= obj.rv
    BY <1>1 DEF KubeInv, Ordered
  <2> QED
    BY <1>1, <1>2, <1>3, <2>1, FollowsSame
<1> QED
  BY <1>1, <1>2, <1>3, <1>4 DEF Sound, KubeInv, Conditions

\* AddFinalizer and Update.
LEMMA UpdateAddFinalizerKeeps ==
  ASSUME KubeInv, pc = "finalize", UpdateAddFinalizer("ready")
  PROVE  KubeInv'
<1>1. Current /\ Put(key, WithFinalizer) /\ obj' = WithFinalizer /\ pc' = "ready"
      /\ UNCHANGED <<cache, queue, key, quota>>
  BY DEF UpdateAddFinalizer
<1>2. /\ key \in CR /\ obj = store[key] /\ obj.spec \in SpecOf[key]
      /\ Sound(key, WithFinalizer) /\ WithFinalizer \in Version
      /\ WithFinalizer.finalizer = TRUE
      /\ WithFinalizer.deleting = FALSE /\ WithFinalizer.exists = TRUE
      /\ WithFinalizer.spec = obj.spec
  BY <1>1, CurrentObject, WithFinalizerSound DEF KubeInv, InHand
<1>3. /\ store' \in [CR -> Version] /\ watch' \in [CR -> SUBSET Version]
      /\ Ordered' /\ Finalized' /\ Conditions'
  BY <1>1, <1>2, WriteKeeps DEF KubeInv
<1>4. KubeTypeOK'
  BY <1>1, <1>2, <1>3 DEF KubeInv, KubeTypeOK
<1>5. store'[key] = WithFinalizer
  BY <1>1, <1>2 DEF Put, KubeInv, KubeTypeOK
<1>6. InHand'
  BY <1>1, <1>2, <1>5, PrecedesSelf DEF InHand
<1> QED
  BY <1>3, <1>4, <1>6 DEF KubeInv

\* What removing the finalizer does to the other fields: nothing.
LEMMA WithoutFields ==
  ASSUME obj \in Version
  PROVE  /\ WithoutFinalizer \in Version
         /\ WithoutFinalizer.finalizer = FALSE
         /\ WithoutFinalizer.rv = obj.rv + 1
         /\ WithoutFinalizer.deleting = obj.deleting
         /\ WithoutFinalizer.spec = obj.spec /\ WithoutFinalizer.uid = obj.uid
         /\ WithoutFinalizer.gen = obj.gen /\ WithoutFinalizer.cond = obj.cond
<1>1. WithoutFinalizer \in Version
  <2>1. obj.rv + 1 \in Nat /\ obj.held \in BOOLEAN
    BY Fields
  <2> QED
    BY <2>1 DEF WithoutFinalizer, Version
<1>2. WithoutFinalizer.finalizer = FALSE /\ WithoutFinalizer.rv = obj.rv + 1
  BY DEF WithoutFinalizer, Version
<1>3. WithoutFinalizer.deleting = obj.deleting /\ WithoutFinalizer.spec = obj.spec
  BY DEF WithoutFinalizer, Version
<1>4. /\ WithoutFinalizer.uid = obj.uid
      /\ WithoutFinalizer.gen = obj.gen /\ WithoutFinalizer.cond = obj.cond
  BY DEF WithoutFinalizer, Version
<1> QED
  BY <1>1, <1>2, <1>3, <1>4

\* The version that Update writes to remove the finalizer is sound.
LEMMA WithoutFinalizerSound ==
  ASSUME KubeInv, pc = "release", Current
  PROVE  /\ Sound(key, WithoutFinalizer)
         /\ WithoutFinalizer.finalizer = FALSE /\ WithoutFinalizer.deleting = TRUE
         /\ WithoutFinalizer.spec = obj.spec /\ WithoutFinalizer.uid = obj.uid
         /\ WithoutFinalizer.gen = obj.gen /\ WithoutFinalizer.cond = obj.cond
<1>1. /\ key \in CR /\ obj = store[key] /\ obj \in Version /\ Informer(key) = {obj}
      /\ obj.exists = TRUE /\ obj.deleting = TRUE /\ obj.spec \in SpecOf[key]
  BY CurrentObject, Fields DEF KubeInv, InHand
<1>2. /\ WithoutFinalizer \in Version
      /\ WithoutFinalizer.finalizer = FALSE
      /\ WithoutFinalizer.deleting = TRUE
      /\ WithoutFinalizer.spec = obj.spec /\ WithoutFinalizer.uid = obj.uid
      /\ WithoutFinalizer.gen = obj.gen /\ WithoutFinalizer.cond = obj.cond
      /\ WithoutFinalizer.rv = obj.rv + 1
  BY <1>1, WithoutFields
<1>3. Follows(WithoutFinalizer, obj)
  <2>1. obj.uid <= obj.rv
    BY <1>1 DEF KubeInv, Ordered
  <2> QED
    BY <1>1, <1>2, <2>1, FollowsSame
<1> QED
  BY <1>1, <1>2, <1>3 DEF Sound, KubeInv, Conditions

\* RemoveFinalizer and Update.
LEMMA UpdateRemoveFinalizerKeeps ==
  ASSUME KubeInv, pc = "release", UpdateRemoveFinalizer
  PROVE  KubeInv'
<1>1. quota' \in 0 .. MaxDisturbances
  BY DEF UpdateRemoveFinalizer, KubeInv, KubeTypeOK
<1> QED
  BY <1>1, WithoutFinalizerSound, WriteReturnKeeps DEF UpdateRemoveFinalizer

\* Update applied, but the worker learns of an error.
LEMMA UpdateReplyLostKeeps ==
  ASSUME KubeInv,
         \/ pc = "finalize" /\ UpdateReplyLost(WithFinalizer)
         \/ pc = "release" /\ UpdateReplyLost(WithoutFinalizer)
  PROVE  KubeInv'
<1>1. CASE pc = "finalize" /\ UpdateReplyLost(WithFinalizer)
  BY <1>1, WithFinalizerSound, WriteReturnKeeps, DisturbQuota DEF UpdateReplyLost, KubeInv
<1>2. CASE pc = "release" /\ UpdateReplyLost(WithoutFinalizer)
  BY <1>2, WithoutFinalizerSound, WriteReturnKeeps, DisturbQuota DEF UpdateReplyLost, KubeInv
<1> QED
  BY <1>1, <1>2

\* Update refused or failed.
LEMMA UpdateFailedKeeps ==
  ASSUME KubeInv, pc # "idle", UpdateConflict \/ UpdateError
  PROVE  KubeInv'
<1>1. CASE UpdateConflict
  <2>1. quota' \in 0 .. MaxDisturbances
    BY <1>1 DEF UpdateConflict, KubeInv, KubeTypeOK
  <2> QED
    BY <1>1, <2>1, ReturnKeeps DEF UpdateConflict
<1>2. CASE UpdateError
  BY <1>2, ReturnKeeps, DisturbQuota DEF UpdateError, KubeInv
<1> QED
  BY <1>1, <1>2

\* The condition patchCondition sends, and the version it makes.
Sent(status, message) == [status |-> status, gen |-> obj.gen, message |-> message]
Patched(status, message) ==
  [store[key] EXCEPT !.rv = NextRv(key), !.cond = Sent(status, message)]

\* What a report does to the server.
LEMMA ReportCases ==
  ASSUME NEW status, NEW message, NEW left, NEW after,
         Report(status, message, left, after)
  PROVE  /\ \E again : Return(again)
         /\ cache' = cache
         /\ quota' = left \/ (left > 0 /\ quota' = left - 1)
         /\ \/ UNCHANGED <<store, watch>>
            \/ store[key].exists /\ Put(key, Patched(status, message))
BY DEF Report, patchCondition, Patched, Sent

\* The patched version follows the current one, from which it only differs in
\* the condition.
LEMMA PatchedFollows ==
  ASSUME KubeTypeOK, Ordered, key \in CR, NEW status \in {"True", "False"},
         NEW message \in Message
  PROVE  LET n == Patched(status, message)
             w == store[key]
         IN  /\ n \in Version /\ Follows(n, w)
             /\ n.exists = w.exists /\ n.uid = w.uid /\ n.gen = w.gen
             /\ n.spec = w.spec /\ n.deleting = w.deleting
             /\ n.finalizer = w.finalizer
             /\ n.cond.status = status /\ n.cond.gen = obj.gen
<1> DEFINE n == Patched(status, message)
           w == store[key]
<1>1. w \in Version /\ obj \in Version
  BY DEF KubeTypeOK
<1>2. /\ Sent(status, message) \in Condition
      /\ Sent(status, message).status = status
      /\ Sent(status, message).gen = obj.gen
  BY <1>1, Fields DEF Sent, Condition
<1>3. n \in Version
  <2>1. NextRv(key) \in Nat /\ w.gen \in Nat /\ w.spec \in Specs /\ w.held \in BOOLEAN
    BY <1>1, Fields DEF NextRv
  <2> QED
    BY <1>1, <1>2, <2>1, Changed DEF Patched
<1>4. /\ n.rv = w.rv + 1 /\ n.exists = w.exists /\ n.uid = w.uid
      /\ n.gen = w.gen /\ n.spec = w.spec /\ n.deleting = w.deleting
      /\ n.finalizer = w.finalizer /\ n.cond = Sent(status, message)
  BY <1>1 DEF Patched, NextRv, Version
<1> HIDE DEF n
<1>5. Follows(n, w)
  <2>1. w.uid <= w.rv
    BY <1>1 DEF Ordered
  <2> QED
    BY <1>1, <1>3, <1>4, <2>1, FollowsSame
<1> QED
  BY <1>2, <1>3, <1>4, <1>5 DEF n

\* It is sound: True is only reported from "ready".
LEMMA PatchedSound ==
  ASSUME KubeInv, pc # "idle", NEW status \in {"True", "False"},
         NEW message \in Message, status = "True" => pc = "ready",
         store[key].exists
  PROVE  LET n == Patched(status, message)
         IN  /\ key \in CR /\ Sound(key, n)
             /\ n.exists /\ n.uid = store[key].uid /\ n.gen = store[key].gen
             /\ n.spec = store[key].spec /\ n.deleting = store[key].deleting
             /\ n.finalizer = store[key].finalizer
             /\ n.cond.status = status /\ n.cond.gen = obj.gen
<1> DEFINE n == Patched(status, message)
           w == store[key]
<1>1. key \in CR /\ w \in Version /\ obj \in Version
  BY DEF KubeInv, KubeTypeOK
<1>2. /\ n \in Version /\ Follows(n, w)
      /\ n.exists = w.exists /\ n.uid = w.uid /\ n.gen = w.gen
      /\ n.spec = w.spec /\ n.deleting = w.deleting
      /\ n.finalizer = w.finalizer
      /\ n.cond.status = status /\ n.cond.gen = obj.gen
  BY <1>1, PatchedFollows DEF KubeInv
<1> HIDE DEF n
<1>3. n.cond.status = "True" => n.cond.gen <= n.gen /\ n.finalizer
  <2>1. ASSUME status = "True" PROVE obj.gen <= w.gen /\ w.finalizer
    BY <2>1 DEF KubeInv, InHand, Precedes
  <2> QED
    BY <1>2, <2>1
<1>4. n.exists => n.spec \in SpecOf[key]
  BY <1>1, <1>2 DEF KubeInv, Ordered
<1>5. n.finalizer =>
        n.exists /\ \A v \in Informer(key) : v.exists /\ v.uid = n.uid
  BY <1>1, <1>2 DEF KubeInv, Finalized
<1>6. ~n.finalizer =>
        \A v \in Informer(key) : ~(v.exists /\ v.finalizer /\ ~v.deleting)
  BY <1>1, <1>2 DEF KubeInv, Finalized
<1>7. Sound(key, n)
  BY <1>2, <1>3, <1>4, <1>5, <1>6 DEF Sound
<1> QED
  BY <1>1, <1>2, <1>7 DEF n

\* patchCondition and return.
LEMMA ReportKeeps ==
  ASSUME KubeInv, pc # "idle", NEW status \in {"True", "False"},
         NEW message \in Message, status = "True" => pc = "ready",
         NEW left \in 0 .. MaxDisturbances, NEW after,
         Report(status, message, left, after)
  PROVE  KubeInv'
<1>1. quota' \in 0 .. MaxDisturbances
  <2>1. quota' = left \/ (left > 0 /\ quota' = left - 1)
    BY ReportCases
  <2> QED
    BY <2>1, KubeAssumption
<1>2. CASE UNCHANGED <<store, watch>>
  BY <1>1, <1>2, ReportCases, ReturnKeeps
<1>3. CASE store[key].exists /\ Put(key, Patched(status, message))
  BY <1>1, <1>3, ReportCases, PatchedSound, WriteReturnKeeps
<1> QED
  BY <1>2, <1>3, ReportCases

\* The initial state.
LEMMA KubeInitOrders ==
  ASSUME KubeInit
  PROVE  /\ KubeTypeOK /\ Ordered /\ pc = "idle"
         /\ Never \in Version /\ ~Never.exists /\ ~Never.finalizer
         /\ Never.uid = 0 /\ Never.cond.status # "True"
         /\ \A cr \in CR : store[cr] = Never /\ Informer(cr) = {Never}
<1>1. /\ Never \in Version /\ ~Never.exists /\ ~Never.finalizer
      /\ Never.uid = 0 /\ Never.rv = 0 /\ Never.cond.status # "True"
  BY NeverType DEF Never, NoCondition
<1>2. \A cr \in CR : /\ store[cr] = Never /\ watch[cr] = {}
                     /\ Informer(cr) = {Never}
  BY DEF KubeInit, Informer
<1> HIDE DEF Never
<1>3. KubeTypeOK /\ pc = "idle"
  BY <1>1, KubeAssumption DEF KubeInit, KubeTypeOK
<1>4. Ordered
  <2>1. Never.uid <= Never.rv
    BY <1>1
  <2>2. Precedes(Never, Never)
    BY <1>1, PrecedesSelf
  <2> QED
    BY <1>1, <1>2, <2>1, <2>2 DEF Ordered
<1> QED
  BY <1>1, <1>2, <1>3, <1>4

\* It satisfies KubeInv.
LEMMA KubeInitInv ==
  ASSUME KubeInit
  PROVE  KubeInv
<1> HIDE DEF Never
<1>1. Finalized /\ Conditions /\ InHand
  BY KubeInitOrders DEF Finalized, Conditions, InHand
<1> QED
  BY <1>1, KubeInitOrders DEF KubeInv

---------------------------------------------------------------------------
(* Phases: what each write is in the terms of Lifecycle.                   *)

\* Only deletions meet foreign finalizers, and Ready=True is never said of a
\* generation that is being deleted.
MarkedVersion(v) ==
  /\ v.held => v.deleting
  /\ Ready(v) => ~v.deleting

Marked == \A cr \in CR : MarkedVersion(store[cr])

\* The phases, by the version in the API server.
LEMMA PhaseCases ==
  ASSUME NEW v \in Version
  PROVE  /\ ~v.exists => PhaseOf(v) = "absent"
         /\ v.exists => PhaseOf(v) # "absent"
         /\ v.exists /\ ~v.deleting /\ ~v.finalizer => PhaseOf(v) = "asked"
         /\ v.exists /\ ~v.deleting /\ v.finalizer => PhaseOf(v) = "guarded"
         /\ v.exists /\ v.deleting /\ v.finalizer => PhaseOf(v) = "leaving"
         /\ v.exists /\ v.deleting /\ ~v.finalizer => PhaseOf(v) = "held"
BY Fields DEF PhaseOf

\* The store after a write.
LEMMA Written ==
  ASSUME KubeTypeOK, KubeTypeOK', NEW c \in CR, NEW n, Put(c, n)
  PROVE  /\ store'[c] = n /\ \A cr \in CR \ {c} : store'[cr] = store[cr]
         /\ store[c] \in Version /\ store'[c] \in Version
BY DEF Put, KubeTypeOK

\* A write of a version that is marked keeps Marked.
LEMMA MarkedWrite ==
  ASSUME Marked, NEW c \in CR, \A cr \in CR \ {c} : store'[cr] = store[cr],
         MarkedVersion(store'[c])
  PROVE  Marked'
BY DEF Marked

\* A new generation is not Ready: any Ready=True is about a former one.
LEMMA NewGeneration ==
  ASSUME KubeInv, NEW c \in CR, store'[c].cond = store[c].cond,
         store'[c].gen = store[c].gen + 1
  PROVE  ~Ready(store'[c])
<1>1. /\ store[c].cond.gen \in Nat /\ store[c].gen \in Nat
      /\ store[c].cond.status = "True" => store[c].cond.gen <= store[c].gen
  BY Fields DEF KubeInv, KubeTypeOK, Conditions
<1> QED
  BY <1>1 DEF Ready

\* The ways from v to n by a write of others than the worker: the resource
\* is made, has another spec in its phase, loses a foreign finalizer in its
\* deletion, or goes on in that, and is not Ready after it.
Redone(v, n) ==
  /\ MarkedVersion(n) /\ ~Ready(n)
  /\ \/ PhaseOf(v) = "absent" /\ PhaseOf(n) = "asked"
     \/ PhaseOf(v) # "absent" /\ PhaseOf(n) = PhaseOf(v) /\ n.spec # v.spec
     \/ /\ n.spec = v.spec /\ n.exists = v.exists
        /\ PhaseOf(n) = PhaseOf(v) /\ ~Ready(v)
     \/ /\ n.spec = v.spec /\ v.exists /\ n.exists
        /\ \/ PhaseOf(v) = "asked" /\ PhaseOf(n) = "held"
           \/ PhaseOf(v) = "guarded" /\ PhaseOf(n) = "leaving"
     \/ /\ n.spec = v.spec /\ ~n.exists /\ PhaseOf(n) = "absent"
        /\ PhaseOf(v) = "asked" \/ (PhaseOf(v) = "held" /\ ~Ready(v))

LEMMA UserCreateRedoes ==
  ASSUME KubeTypeOK, KubeTypeOK', NEW c \in CR, UserCreate(c)
  PROVE  Redone(store[c], store'[c]) /\ \A cr \in CR \ {c} : store'[cr] = store[cr]
<1>1. ~store[c].exists
  BY DEF UserCreate
<1>2. PICK s \in SpecOf[c] :
        Put(c, [exists |-> TRUE, uid |-> NextRv(c), rv |-> NextRv(c), gen |-> 1,
                spec |-> s, deleting |-> FALSE, finalizer |-> FALSE,
                held |-> FALSE, cond |-> NoCondition])
  BY DEF UserCreate
<1>3. /\ store[c] \in Version /\ store'[c] \in Version
      /\ \A cr \in CR \ {c} : store'[cr] = store[cr]
      /\ store'[c].exists /\ ~store'[c].deleting /\ ~store'[c].finalizer
      /\ ~store'[c].held /\ ~Ready(store'[c])
  BY <1>2, Written DEF NoCondition, Ready
<1>4. PhaseOf(store[c]) = "absent" /\ PhaseOf(store'[c]) = "asked"
  BY <1>1, <1>3, PhaseCases
<1> QED
  BY <1>3, <1>4 DEF Redone, MarkedVersion

LEMMA UserEditRedoes ==
  ASSUME KubeInv, KubeTypeOK', Marked, NEW c \in CR, UserEdit(c)
  PROVE  Redone(store[c], store'[c]) /\ \A cr \in CR \ {c} : store'[cr] = store[cr]
<1>1. store[c].exists /\ MarkedVersion(store[c])
  BY DEF UserEdit, Marked
<1>2. PICK s \in SpecOf[c] \ {store[c].spec} :
        Put(c, [store[c] EXCEPT !.rv = NextRv(c), !.spec = s, !.gen = @ + 1])
  BY DEF UserEdit
<1>3. /\ store[c] \in Version /\ store'[c] \in Version
      /\ \A cr \in CR \ {c} : store'[cr] = store[cr]
      /\ store'[c] = [store[c] EXCEPT !.rv = NextRv(c), !.spec = s, !.gen = @ + 1]
  BY <1>2, Written DEF KubeInv
<1>4. /\ store'[c].exists /\ store'[c].deleting = store[c].deleting
      /\ store'[c].finalizer = store[c].finalizer /\ store'[c].held = store[c].held
      /\ store'[c].cond = store[c].cond /\ store'[c].gen = store[c].gen + 1
      /\ store'[c].spec # store[c].spec
  BY <1>1, <1>2, <1>3 DEF Version
<1>5. ~Ready(store'[c])
  BY <1>4, NewGeneration
<1>6. PhaseOf(store[c]) # "absent" /\ PhaseOf(store'[c]) = PhaseOf(store[c])
  BY <1>1, <1>4 DEF PhaseOf
<1> QED
  BY <1>1, <1>3, <1>4, <1>5, <1>6 DEF Redone, MarkedVersion

LEMMA UserDeleteRedoes ==
  ASSUME KubeInv, KubeTypeOK', Marked, NEW c \in CR, UserDelete(c)
  PROVE  Redone(store[c], store'[c]) /\ \A cr \in CR \ {c} : store'[cr] = store[cr]
<1>1. store[c].exists /\ ~store[c].deleting /\ MarkedVersion(store[c])
  BY DEF UserDelete, Marked
<1>2. PICK h \in Holds :
        IF store[c].finalizer \/ h
          THEN Put(c, [store[c] EXCEPT !.rv = NextRv(c), !.gen = @ + 1,
                                       !.deleting = TRUE, !.held = h])
          ELSE Put(c, [store[c] EXCEPT !.rv = NextRv(c), !.exists = FALSE])
  BY DEF UserDelete
<1>3. /\ store[c] \in Version /\ store'[c] \in Version
      /\ \A cr \in CR \ {c} : store'[cr] = store[cr]
  BY <1>2, Written DEF KubeInv
<1>4. CASE store[c].finalizer \/ h
  <2>1. store'[c] = [store[c] EXCEPT !.rv = NextRv(c), !.gen = @ + 1,
                                     !.deleting = TRUE, !.held = h]
    BY <1>2, <1>4, Written DEF KubeInv
  <2>2. /\ store'[c].exists /\ store'[c].deleting /\ store'[c].spec = store[c].spec
        /\ store'[c].finalizer = store[c].finalizer
        /\ store'[c].cond = store[c].cond /\ store'[c].gen = store[c].gen + 1
    BY <1>1, <1>3, <2>1 DEF Version
  <2>3. ~Ready(store'[c])
    BY <2>2, NewGeneration
  <2>4. \/ PhaseOf(store[c]) = "asked" /\ PhaseOf(store'[c]) = "held"
        \/ PhaseOf(store[c]) = "guarded" /\ PhaseOf(store'[c]) = "leaving"
    BY <1>1, <1>3, <2>2, PhaseCases
  <2> QED
    BY <1>1, <1>3, <2>2, <2>3, <2>4 DEF Redone, MarkedVersion
<1>5. CASE ~(store[c].finalizer \/ h)
  <2>1. store'[c] = [store[c] EXCEPT !.rv = NextRv(c), !.exists = FALSE]
    BY <1>2, <1>5, Written DEF KubeInv
  <2>2. /\ ~store'[c].exists /\ store'[c].deleting = store[c].deleting
        /\ store'[c].spec = store[c].spec /\ store'[c].held = store[c].held
    BY <1>3, <2>1 DEF Version
  <2>3. ~Ready(store'[c])
    BY <2>2 DEF Ready
  <2>4. PhaseOf(store[c]) = "asked" /\ PhaseOf(store'[c]) = "absent"
    BY <1>1, <1>3, <1>5, <2>2, PhaseCases
  <2> QED
    BY <1>1, <1>3, <2>2, <2>3, <2>4 DEF Redone, MarkedVersion
<1> QED
  BY <1>4, <1>5

LEMMA ReleaseHoldRedoes ==
  ASSUME KubeTypeOK, KubeTypeOK', Marked, NEW c \in CR, ReleaseHold(c)
  PROVE  Redone(store[c], store'[c]) /\ \A cr \in CR \ {c} : store'[cr] = store[cr]
<1>1. /\ store[c].exists /\ store[c].held
      /\ Put(c, [store[c] EXCEPT !.rv = NextRv(c), !.held = FALSE,
                                 !.exists = store[c].finalizer])
  BY DEF ReleaseHold
<1>2. /\ store[c] \in Version /\ store'[c] \in Version
      /\ \A cr \in CR \ {c} : store'[cr] = store[cr]
      /\ store'[c] = [store[c] EXCEPT !.rv = NextRv(c), !.held = FALSE,
                                      !.exists = store[c].finalizer]
  BY <1>1, Written
<1>3. /\ store'[c].exists = store[c].finalizer /\ store'[c].held = FALSE
      /\ store'[c].finalizer = store[c].finalizer
      /\ store'[c].deleting = store[c].deleting /\ store'[c].spec = store[c].spec
      /\ store'[c].cond = store[c].cond /\ store'[c].gen = store[c].gen
  BY <1>2 DEF Version
<1>4. store[c].deleting /\ ~Ready(store[c])
  BY <1>1 DEF Marked, MarkedVersion
<1>5. ~Ready(store'[c]) /\ MarkedVersion(store'[c])
  BY <1>1, <1>3, <1>4 DEF Ready, MarkedVersion
<1>6. CASE store[c].finalizer
  <2>1. PhaseOf(store'[c]) = PhaseOf(store[c]) /\ store'[c].exists = store[c].exists
    BY <1>1, <1>3, <1>6 DEF PhaseOf
  <2> QED
    BY <1>2, <1>3, <1>4, <1>5, <2>1 DEF Redone
<1>7. CASE ~store[c].finalizer
  <2>1. PhaseOf(store[c]) = "held" /\ PhaseOf(store'[c]) = "absent"
    BY <1>1, <1>2, <1>3, <1>4, <1>7, PhaseCases
  <2> QED
    BY <1>2, <1>3, <1>4, <1>5, <1>7, <2>1 DEF Redone
<1> QED
  BY <1>6, <1>7

\* All of these writes.
LEMMA OthersRedo ==
  ASSUME KubeInv, KubeTypeOK', Marked, NEW c \in CR,
         UserCreate(c) \/ UserEdit(c) \/ UserDelete(c) \/ ReleaseHold(c)
  PROVE  /\ Redone(store[c], store'[c]) /\ Marked'
         /\ \A cr \in CR \ {c} : store'[cr] = store[cr]
         /\ UNCHANGED <<pc, key>>
<1>1. /\ Redone(store[c], store'[c])
      /\ \A cr \in CR \ {c} : store'[cr] = store[cr]
  BY UserCreateRedoes, UserEditRedoes, UserDeleteRedoes, ReleaseHoldRedoes DEF KubeInv
<1>2. Marked'
  BY <1>1, MarkedWrite DEF Redone
<1>3. UNCHANGED <<pc, key>>
  BY DEF UserCreate, UserEdit, UserDelete, ReleaseHold
<1> QED
  BY <1>1, <1>2, <1>3

\* A report changes the condition alone.  True of the current generation is
\* said of a resource that is guarded, and of its very spec.
LEMMA ReportRedoes ==
  ASSUME KubeInv, KubeTypeOK', Marked, pc # "idle",
         NEW status \in {"True", "False"}, NEW message \in Message,
         status = "True" => pc = "ready",
         store[key].exists, Put(key, Patched(status, message)),
         NEW c \in CR, c = key
  PROVE  /\ \A cr \in CR \ {c} : store'[cr] = store[cr]
         /\ Marked'
         /\ store'[c].exists = store[c].exists /\ store'[c].spec = store[c].spec
         /\ PhaseOf(store'[c]) = PhaseOf(store[c])
         /\ Ready(store'[c]) =>
              /\ status = "True" /\ PhaseOf(store[c]) = "guarded"
              /\ obj.uid = store[c].uid /\ obj.spec = store[c].spec
<1>1. /\ store'[c] = Patched(status, message)
      /\ store[c] \in Version /\ store'[c] \in Version
      /\ \A cr \in CR \ {c} : store'[cr] = store[cr]
  BY Written DEF KubeInv
<1>2. store'[c].held = store[c].held
  BY <1>1 DEF Patched, Version
<1> DEFINE n == Patched(status, message)
<1>3. /\ n.exists = store[key].exists
      /\ n.gen = store[key].gen /\ n.spec = store[key].spec
      /\ n.deleting = store[key].deleting /\ n.finalizer = store[key].finalizer
      /\ n.cond.status = status /\ n.cond.gen = obj.gen
  BY PatchedFollows DEF KubeInv
<1> HIDE DEF n
<1>4. store'[c] = n
  BY <1>1 DEF n
<1>5. PhaseOf(store'[c]) = PhaseOf(store[c])
  BY <1>3, <1>4 DEF PhaseOf
<1>6. ASSUME Ready(store'[c])
      PROVE  /\ status = "True" /\ ~store[c].deleting /\ store[c].finalizer
             /\ obj.uid = store[c].uid /\ obj.spec = store[c].spec
  <2>1. status = "True" /\ obj.gen = store[c].gen
    BY <1>3, <1>4, <1>6 DEF Ready
  <2>2. ~obj.deleting /\ obj.finalizer /\ Precedes(obj, store[c])
    BY <2>1 DEF KubeInv, InHand
  <2>3. store[c].finalizer /\ obj.uid = store[c].uid
    BY <2>2 DEF KubeInv, InHand
  <2> QED
    BY <2>1, <2>2, <2>3 DEF Precedes
<1>7. Ready(store'[c]) => PhaseOf(store[c]) = "guarded"
  BY <1>1, <1>6, PhaseCases
<1>8. MarkedVersion(store'[c])
  BY <1>2, <1>3, <1>4, <1>6 DEF Marked, MarkedVersion
<1>9. Marked'
  BY <1>1, <1>8, MarkedWrite
<1> QED
  BY <1>1, <1>3, <1>4, <1>5, <1>6, <1>7, <1>9

\* The finalizer is added to a live resource, of which the worker holds the
\* current version.
LEMMA WithFinalizerRedoes ==
  ASSUME KubeInv, KubeTypeOK', Marked, pc = "finalize", Current,
         Put(key, WithFinalizer), NEW c \in CR, c = key
  PROVE  /\ \A cr \in CR \ {c} : store'[cr] = store[cr]
         /\ Marked' /\ obj = store[c] /\ ~obj.deleting
         /\ store[c].exists /\ store'[c].exists /\ store'[c].spec = store[c].spec
         /\ PhaseOf(store[c]) \in {"asked", "guarded"}
         /\ PhaseOf(store'[c]) = "guarded"
         /\ Ready(store'[c]) <=> Ready(store[c])
<1>1. /\ store'[c] = WithFinalizer
      /\ store[c] \in Version /\ store'[c] \in Version
      /\ \A cr \in CR \ {c} : store'[cr] = store[cr]
  BY Written DEF KubeInv
<1>2. obj = store[c] /\ ~store[c].deleting /\ store[c].exists
  BY CurrentObject DEF KubeInv, InHand
<1>3. /\ store'[c].exists /\ store'[c].finalizer /\ ~store'[c].deleting
      /\ store'[c].spec = store[c].spec /\ store'[c].gen = store[c].gen
      /\ store'[c].cond = store[c].cond
  BY <1>1, <1>2, WithFinalizerSound
<1>4. store'[c].held = store[c].held
  BY <1>1, <1>2 DEF WithFinalizer, Version
<1>5. Ready(store'[c]) <=> Ready(store[c])
  BY <1>2, <1>3 DEF Ready
<1>6. Marked'
  BY <1>1, <1>2, <1>3, <1>4, MarkedWrite DEF Marked, MarkedVersion
<1>7. PhaseOf(store[c]) \in {"asked", "guarded"} /\ PhaseOf(store'[c]) = "guarded"
  BY <1>1, <1>2, <1>3, PhaseCases
<1> QED
  BY <1>1, <1>2, <1>3, <1>5, <1>6, <1>7

\* The finalizer is removed from a resource that is being deleted, of which
\* the worker holds the current version.
LEMMA WithoutFinalizerRedoes ==
  ASSUME KubeInv, KubeTypeOK', Marked, pc = "release", Current,
         Put(key, WithoutFinalizer), NEW c \in CR, c = key
  PROVE  /\ \A cr \in CR \ {c} : store'[cr] = store[cr]
         /\ Marked' /\ obj = store[c]
         /\ store[c].exists /\ store'[c].spec = store[c].spec
         /\ PhaseOf(store[c]) = "leaving"
         /\ \/ store'[c].exists /\ PhaseOf(store'[c]) = "held"
            \/ ~store'[c].exists /\ PhaseOf(store'[c]) = "absent"
         /\ ~Ready(store[c]) /\ ~Ready(store'[c])
<1>1. /\ store'[c] = WithoutFinalizer
      /\ store[c] \in Version /\ store'[c] \in Version
      /\ \A cr \in CR \ {c} : store'[cr] = store[cr]
  BY Written DEF KubeInv
<1>2. obj = store[c] /\ store[c].deleting /\ store[c].exists /\ store[c].finalizer
  BY CurrentObject DEF KubeInv, InHand
<1>3. /\ ~store'[c].finalizer /\ store'[c].deleting /\ store'[c].spec = store[c].spec
      /\ store'[c].cond = store[c].cond /\ store'[c].gen = store[c].gen
  BY <1>1, <1>2, WithoutFinalizerSound
<1>4. ~Ready(store[c]) /\ ~Ready(store'[c])
  BY <1>2, <1>3 DEF Marked, MarkedVersion, Ready
<1>5. Marked'
  BY <1>1, <1>3, <1>4, MarkedWrite DEF MarkedVersion
<1>6. PhaseOf(store[c]) = "leaving"
  BY <1>1, <1>2, PhaseCases
<1>7. \/ store'[c].exists /\ PhaseOf(store'[c]) = "held"
      \/ ~store'[c].exists /\ PhaseOf(store'[c]) = "absent"
  BY <1>1, <1>3, PhaseCases
<1> QED
  BY <1>1, <1>2, <1>3, <1>4, <1>5, <1>6, <1>7

\* The initial state is marked.
LEMMA InitMarked == KubeInit => Marked
BY NeverType DEF KubeInit, Marked, MarkedVersion, Never, Ready, NoCondition
---------------------------------------------------------------------------
(* Resources that have the finalizer while they live.                      *)

\* No version of a live resource that is in use anywhere lacks the finalizer.
Guarded ==
  /\ \A cr \in CR : \A v \in Informer(cr) \cup {store[cr]} :
       v.exists /\ ~v.deleting => v.finalizer
  /\ pc # "idle" => obj.deleting \/ obj.finalizer

\* A step that creates no resource.
NoneMade == \A cr \in CR : store'[cr].exists => store[cr].exists

\* A write keeps Guarded if the version it makes is guarded.
LEMMA WriteGuards ==
  ASSUME KubeTypeOK, Guarded, NEW cr \in CR, NEW n, Put(cr, n), cache' = cache,
         n.exists => store[cr].exists,
         n.exists /\ ~n.deleting => n.finalizer,
         pc' # "idle" => obj'.deleting \/ obj'.finalizer
  PROVE  Guarded' /\ NoneMade
<1>1. /\ store'[cr] = n /\ watch'[cr] = watch[cr] \cup {n}
      /\ \A c \in CR \ {cr} : store'[c] = store[c] /\ watch'[c] = watch[c]
  BY DEF Put, KubeTypeOK
<1> QED
  BY <1>1 DEF Guarded, NoneMade, Informer

\* So does a step without a write, after which the worker has what it had.
LEMMA StayGuards ==
  ASSUME Guarded, UNCHANGED <<store, watch, cache>>,
         pc' # "idle" => pc # "idle" /\ obj' = obj
  PROVE  Guarded' /\ NoneMade
BY DEF Guarded, NoneMade, Informer

\* Users who create nothing, and the owners of other finalizers.
LEMMA UsersGuard ==
  ASSUME KubeInv, Guarded, NEW cr \in CR,
         UserEdit(cr) \/ UserDelete(cr) \/ ReleaseHold(cr)
  PROVE  Guarded' /\ NoneMade
<1>1. KubeTypeOK /\ Ordered
  BY DEF KubeInv
<1>2. store[cr].exists
  BY DEF UserEdit, UserDelete, ReleaseHold
<1>3. UNCHANGED <<cache, pc, obj>>
  BY <1>1, OthersTouch
<1>4. PICK n : Put(cr, n) /\ Touched(cr, n)
  BY <1>1, OthersTouch
<1>5. /\ n.finalizer = store[cr].finalizer
      /\ store[cr].deleting => n.deleting
  BY <1>2, <1>4 DEF Touched, Follows
<1>6. /\ n.exists /\ ~n.deleting => n.finalizer
      /\ pc' # "idle" => obj'.deleting \/ obj'.finalizer
  BY <1>2, <1>3, <1>5 DEF Guarded
<1> QED
  BY <1>1, <1>2, <1>3, <1>4, <1>6, WriteGuards

\* The cache catches up.
LEMMA DeliverGuards ==
  ASSUME KubeInv, Guarded, NEW cr \in CR, Deliver(cr)
  PROVE  Guarded' /\ NoneMade
BY DeliverOrders DEF KubeInv, Guarded, NoneMade

\* The operator crashes and starts again.
LEMMA RestartGuards ==
  ASSUME KubeInv, Guarded, Restart
  PROVE  Guarded' /\ NoneMade
BY RestartOrders DEF KubeInv, Guarded, NoneMade

\* The worker starts with what the cache has.
LEMMA ReconcileObjectGuards ==
  ASSUME Guarded, NEW cr \in CR, NEW next, ReconcileObject(cr, next)
  PROVE  Guarded' /\ NoneMade
BY DEF ReconcileObject, Guarded, NoneMade, Informer

\* patchCondition and return.
LEMMA ReportGuards ==
  ASSUME KubeInv, Guarded, pc # "idle", NEW status \in {"True", "False"},
         NEW message \in Message, NEW left, NEW after,
         Report(status, message, left, after)
  PROVE  Guarded' /\ NoneMade
<1>1. pc' = "idle" /\ cache' = cache
  BY ReportCases DEF Return
<1>2. CASE UNCHANGED <<store, watch>>
  BY <1>1, <1>2, StayGuards
<1>3. CASE store[key].exists /\ Put(key, Patched(status, message))
  <2> DEFINE n == Patched(status, message)
  <2>1. /\ key \in CR /\ n.exists = store[key].exists
        /\ n.deleting = store[key].deleting /\ n.finalizer = store[key].finalizer
    BY PatchedFollows DEF KubeInv, KubeTypeOK
  <2> HIDE DEF n
  <2>2. Put(key, n)
    BY <1>3 DEF n
  <2> QED
    BY <1>1, <2>1, <2>2, WriteGuards DEF KubeInv, Guarded
<1> QED
  BY <1>2, <1>3, ReportCases

\* AddFinalizer and RemoveFinalizer with their Updates.
LEMMA UpdateGuards ==
  ASSUME KubeInv, Guarded,
         \/ /\ pc = "finalize"
            /\ UpdateAddFinalizer("ready") \/ UpdateReplyLost(WithFinalizer)
         \/ pc = "release" /\ (UpdateRemoveFinalizer \/ UpdateReplyLost(WithoutFinalizer))
         \/ UpdateConflict \/ UpdateError
  PROVE  Guarded' /\ NoneMade
<1>1. KubeTypeOK
  BY DEF KubeInv
<1>2. CASE /\ pc = "finalize"
           /\ UpdateAddFinalizer("ready") \/ UpdateReplyLost(WithFinalizer)
  <2>1. /\ Current /\ Put(key, WithFinalizer) /\ cache' = cache
        /\ pc' = "idle" \/ obj' = WithFinalizer
    BY <1>2 DEF UpdateAddFinalizer, UpdateReplyLost, Return
  <2>2. key \in CR /\ store[key].exists /\ WithFinalizer.finalizer = TRUE
    BY <1>2, <2>1, CurrentObject, WithFinalizerSound DEF Current
  <2> QED
    BY <1>1, <2>1, <2>2, WriteGuards
<1>3. CASE pc = "release" /\ (UpdateRemoveFinalizer \/ UpdateReplyLost(WithoutFinalizer))
  <2>1. Current /\ Put(key, WithoutFinalizer) /\ cache' = cache /\ pc' = "idle"
    BY <1>3 DEF UpdateRemoveFinalizer, UpdateReplyLost, Return
  <2>2. key \in CR /\ store[key].exists /\ WithoutFinalizer.deleting = TRUE
    BY <1>3, <2>1, CurrentObject, WithoutFinalizerSound DEF Current
  <2> QED
    BY <1>1, <2>1, <2>2, WriteGuards
<1>4. CASE UpdateConflict \/ UpdateError
  BY <1>4, StayGuards DEF UpdateConflict, UpdateError, Return
<1> QED
  BY <1>2, <1>3, <1>4

\* While every live resource is guarded, one that is not is not created for:
\* the worker has nothing of it in hand that lives.
LEMMA InHandGuarded ==
  ASSUME KubeInv, Guarded, pc # "idle", ~obj.deleting
  PROVE  key \in CR /\ store[key].finalizer /\ obj.spec \in SpecOf[key]
BY DEF KubeInv, KubeTypeOK, InHand, Guarded

\* The worker is idle, every resource lives with its finalizer, and the
\* informer knows.
AtRest ==
  /\ pc = "idle" /\ cache = store /\ watch = [cr \in CR |-> {}]
  /\ \A cr \in CR :
       LET v == store[cr]
       IN  /\ v.exists /\ ~v.deleting /\ v.finalizer /\ v.spec \in SpecOf[cr]
           /\ v.uid <= v.rv /\ v.cond.gen <= v.gen

LEMMA AtRestInv ==
  ASSUME KubeTypeOK, AtRest
  PROVE  KubeInv /\ Guarded
<1>1. \A cr \in CR : /\ Informer(cr) = {store[cr]} /\ watch[cr] = {}
                     /\ Precedes(store[cr], store[cr])
  BY PrecedesSelf DEF AtRest, Informer, KubeTypeOK
<1>2. Ordered /\ Finalized /\ Conditions /\ InHand
  BY <1>1 DEF AtRest, Ordered, Finalized, Conditions, InHand
<1> QED
  BY <1>1, <1>2 DEF AtRest, KubeInv, Guarded
============================================================================
