------------------------ MODULE GrantControllerProofs ------------------------
(***************************************************************************)
(* Proofs about the PostgreSQLGrant controller, for every set of           *)
(* resources, specs, instances, databases, tables, roles and privileges    *)
(* and any number of faults.  KubeInv (module KubeApiProofs) bounds how    *)
(* stale the worker's object can be; Given and Taken say what the          *)
(* statements that have run leave in the access control lists while other  *)
(* clients go on between them.                                             *)
(***************************************************************************)
EXTENDS GrantController, AttentionProofs

GrantPcs == {"grant1", "grant2", "grant3", "grant4", "grant5"}
RevokePcs == {"revoke1", "revoke2", "revoke3", "revoke4"}

LivePc == {"connect", "finalize", "ready"} \cup GrantPcs
DropPc == {"connectRevoke"} \cup RevokePcs

\* What a statement on the tables of a schema may name, now or ever.
AnyTable(o) ==
  Entries(o, {"table"} \X {o.spec.schema} \X Table,
             Expand(TablePrivilege, o.spec.privileges))

\* What GrantPrivileges has given so far is there, unless others took it.
Given ==
  ~tampered =>
    /\ pc \in {"grant2", "grant3", "grant4", "grant5", "finalize", "ready"}
         => OnDatabase(opts) \subseteq acl
    /\ pc \in {"grant4", "grant5", "finalize", "ready"} => OnDefault(opts) \subseteq acl
    /\ pc \in {"grant5", "finalize", "ready"} => OnSchema(opts, "USAGE") \subseteq acl
    /\ pc \in {"finalize", "ready"} => OnSchema(opts, "CREATE") \subseteq acl

\* RevokePrivileges was needed, and has run to its end.
Revoked ==
  pc = "release" /\ obj.spec.cleanupPolicy = "Delete" /\ cause # "notFound"

\* What RevokePrivileges has taken so far is gone: the default privileges
\* first, so that no new table brings the others back.
Taken ==
  /\ pc \in {"revoke2", "revoke3", "revoke4"} \/ Revoked => OnDefault(opts) \cap acl = {}
  /\ pc \in {"revoke3", "revoke4"} \/ Revoked => AnyTable(opts) \cap acl = {}
  /\ pc = "revoke4" \/ Revoked => OnSchema(opts, "CREATE") \cap acl = {}
  /\ Revoked => OnDatabase(opts) \cap acl = {}

\* Where the worker is, and what it has established there.
Phases ==
  /\ pc \in LivePc => ~obj.deleting
  /\ pc \in DropPc => obj.deleting /\ obj.spec.cleanupPolicy = "Delete"
  /\ pc \in GrantPcs => <<opts.ns, obj.spec.database>> \in dbs
  /\ pc \in {"finalize", "ready"} => <<key, obj.uid, obj.spec>> \in verified

\* Ready=True was earned, for the current spec of a resource that lives.
Verified ==
  \A cr \in CR : Ready(store[cr]) =>
    /\ ~store[cr].deleting
    /\ <<cr, store[cr].uid, store[cr].spec>> \in verified

\* What was given for a resource that is Ready is still there.
Kept ==
  \A cr \in CR :
    LET o == Opts(cr, store[cr].spec)
    IN  Ready(store[cr]) /\ ~tampered /\ Owned(cr, o) => Lasting(o) \subseteq acl

Earned == Verified /\ Kept

IInv == KubeInv /\ TypeOK /\ Phases /\ Given /\ Taken /\ Earned

---------------------------------------------------------------------------
(* Entries of the access control lists.                                    *)

\* What is in a set of entries.
LEMMA Member ==
  ASSUME NEW o, NEW items, NEW privs, NEW e \in Entry
  PROVE  e \in Entries(o, items, privs) <=>
           /\ e.ns = o.ns /\ e.db = o.spec.database /\ e.role = o.spec.role
           /\ e.item \in items /\ e.priv \in privs
BY DEF Entries, Entry

\* Sets of entries for parts that are different have nothing in common.
LEMMA Apart ==
  ASSUME NEW s, NEW s2, NEW t
  PROVE  /\ <<"database">> # <<"table", s, t>> /\ <<"default", s2>> # <<"table", s, t>>
         /\ <<"schema", s2>> # <<"table", s, t>> /\ <<"database">> # <<"default", s>>
         /\ <<"schema", s2>> # <<"default", s>>
OBVIOUS

\* What a spec says has its type.
LEMMA OptsType ==
  ASSUME NEW cr \in CR, NEW s \in Specs
  PROVE  /\ Opts(cr, s).spec = s /\ s \in GrantSpec /\ Opts(cr, s).ns \in Namespace
         /\ s.database \in Database /\ s.schema \in Schema /\ s.role \in Role
         /\ s.privileges \in SUBSET (Privilege \cup {"ALL"})
         /\ Expand(DatabasePrivilege, s.privileges) \subseteq Privilege
         /\ Expand(TablePrivilege, s.privileges) \subseteq Privilege
<1>1. s \in GrantSpec /\ cr.namespace \in Namespace
  BY GrantAssumption, InstancesAssumption
<1>2. /\ s.database \in Database /\ s.schema \in Schema /\ s.role \in Role
      /\ s.postgresRef \in Namespace \cup {""}
      /\ s.privileges \in (SUBSET Privilege \ {{}}) \cup {{"ALL"}}
  BY <1>1 DEF GrantSpec
<1>3. Opts(cr, s).spec = s /\ Opts(cr, s).ns \in Namespace
  BY <1>1, <1>2 DEF Opts, PgNamespace
<1>4. /\ Expand(DatabasePrivilege, s.privileges) \subseteq Privilege
      /\ Expand(TablePrivilege, s.privileges) \subseteq Privilege
  BY <1>2 DEF Expand, Privilege
<1> QED
  BY <1>1, <1>2, <1>3, <1>4

\* Entries of a proper spec for proper parts and privileges are proper.
LEMMA EntriesType ==
  ASSUME NEW cr \in CR, NEW s \in Specs, NEW items \in SUBSET Item,
         NEW privs \in SUBSET (Privilege \cup {"USAGE", "CREATE"})
  PROVE  Entries(Opts(cr, s), items, privs) \subseteq Entry
<1> DEFINE o == Opts(cr, s)
<1>1. /\ o.ns \in Namespace /\ o.spec = s
      /\ s.database \in Database /\ s.role \in Role
  BY OptsType
<1> HIDE DEF o
<1> QED
  BY <1>1 DEF Entries, Entry, o

\* What the statements are about.
LEMMA StatementsType ==
  ASSUME TypeOK, NEW cr \in CR, NEW s \in Specs, NEW o, o = Opts(cr, s)
  PROVE  /\ OnDatabase(o) \subseteq Entry /\ OnDefault(o) \subseteq Entry
         /\ OnTables(o) \subseteq Entry /\ AnyTable(o) \subseteq Entry
         /\ OnSchema(o, "USAGE") \subseteq Entry /\ OnSchema(o, "CREATE") \subseteq Entry
<1>1. /\ o.spec = s /\ s.schema \in Schema
      /\ Expand(DatabasePrivilege, s.privileges) \subseteq Privilege
      /\ Expand(TablePrivilege, s.privileges) \subseteq Privilege
  BY OptsType
<1>2. OnDatabase(o) \subseteq Entry /\ OnDefault(o) \subseteq Entry
  <2>1. {<<"database">>} \subseteq Item /\ {<<"default", o.spec.schema>>} \subseteq Item
    BY <1>1 DEF Item
  <2> QED
    BY <1>1, <2>1, EntriesType DEF OnDatabase, OnDefault
<1>3. AnyTable(o) \subseteq Entry
  <2>1. {"table"} \X {o.spec.schema} \X Table \subseteq Item
    BY <1>1 DEF Item
  <2> QED
    BY <1>1, <2>1, EntriesType DEF AnyTable
<1>4. OnTables(o) \subseteq Entry
  <2>1. TablesOf(o) \subseteq Item
    BY <1>1 DEF TablesOf, Item, TypeOK
  <2> QED
    BY <1>1, <2>1, EntriesType DEF OnTables
<1>5. OnSchema(o, "USAGE") \subseteq Entry /\ OnSchema(o, "CREATE") \subseteq Entry
  <2>1. {<<"schema", o.spec.schema>>} \subseteq Item
    BY <1>1 DEF Item
  <2> QED
    BY <1>1, <2>1, EntriesType DEF OnSchema
<1> QED
  BY <1>2, <1>3, <1>4, <1>5

\* Of the tables a statement may name, the lists only mention those that exist.
LEMMA TablesListed ==
  ASSUME TypeOK, NEW cr \in CR, NEW s \in Specs, NEW o, o = Opts(cr, s)
  PROVE  AnyTable(o) \cap acl \subseteq OnTables(o)
<1>1. o.spec = s /\ s.schema \in Schema
  BY OptsType
<1> SUFFICES ASSUME NEW e \in acl, e \in AnyTable(o) PROVE e \in OnTables(o)
  OBVIOUS
<1>2. e \in Entry
  BY DEF TypeOK
<1>3. /\ e.ns = o.ns /\ e.db = o.spec.database /\ e.role = o.spec.role
      /\ e.item \in {"table"} \X {o.spec.schema} \X Table
      /\ e.priv \in Expand(TablePrivilege, o.spec.privileges)
  BY <1>2, Member DEF AnyTable
<1>4. PICK t \in Table : e.item = <<"table", o.spec.schema, t>>
  BY <1>3
<1>5. <<e.ns, e.db, o.spec.schema, t>> \in tables
  BY <1>1, <1>4 DEF TypeOK
<1>6. e.item \in TablesOf(o)
  BY <1>3, <1>4, <1>5 DEF TablesOf
<1> QED
  BY <1>2, <1>3, <1>6, Member DEF OnTables

---------------------------------------------------------------------------
(* Lemmas.                                                                 *)

\* The names of the places where statements run.
LEMMA PcNames ==
  /\ GrantPcs = {GrantPc[n] : n \in 1 .. 5} /\ Len(GrantPc) = 5
  /\ RevokePcs = {RevokePc[n] : n \in 1 .. 4} /\ Len(RevokePc) = 4
<1>1. \A n \in 1 .. 5 : n = 1 \/ n = 2 \/ n = 3 \/ n = 4 \/ n = 5
  OBVIOUS
<1>2. \A n \in 1 .. 4 : n = 1 \/ n = 2 \/ n = 3 \/ n = 4
  OBVIOUS
<1>3. /\ GrantPc[1] = "grant1" /\ GrantPc[2] = "grant2" /\ GrantPc[3] = "grant3"
      /\ GrantPc[4] = "grant4" /\ GrantPc[5] = "grant5" /\ Len(GrantPc) = 5
  BY DEF GrantPc
<1>4. /\ RevokePc[1] = "revoke1" /\ RevokePc[2] = "revoke2" /\ RevokePc[3] = "revoke3"
      /\ RevokePc[4] = "revoke4" /\ Len(RevokePc) = 4
  BY DEF RevokePc
<1> QED
  BY <1>1, <1>2, <1>3, <1>4 DEF GrantPcs, RevokePcs

\* The options of a busy worker are those of its resource.
LEMMA optsType ==
  ASSUME IInv, pc # "idle"
  PROVE  /\ key \in CR /\ obj.uid \in Nat /\ obj.spec \in Specs
         /\ obj.spec \in SpecOf[key] /\ opts = Opts(key, obj.spec)
<1>1. key \in CR /\ obj \in Version /\ obj.spec \in SpecOf[key]
  BY DEF IInv, KubeInv, KubeTypeOK, InHand
<1> QED
  BY <1>1, Fields DEF opts

\* What a version asks for does not depend on the state.
LEMMA Rigid ==
  ASSUME NEW cr \in CR
  PROVE  LET o == Opts(cr, store[cr].spec)
         IN  /\ Lasting(o)' = Lasting(Opts(cr, store'[cr].spec))
             /\ Owned(cr, o)' <=> Owned(cr, Opts(cr, store'[cr].spec))
<1>1. Lasting(Opts(cr, store[cr].spec))' = Lasting(Opts(cr, store'[cr].spec))
  BY DEF Lasting, OnDatabase, OnDefault, OnSchema, Entries, Expand, Opts, PgNamespace
<1>2. Owned(cr, Opts(cr, store[cr].spec))' <=> Owned(cr, Opts(cr, store'[cr].spec))
  BY DEF Owned, Opts, PgNamespace
<1> QED
  BY <1>1, <1>2

\* A write to one resource keeps Earned if the new version has earned it.
LEMMA EarnedWrite ==
  ASSUME IInv, NEW cr \in CR, NEW n, store' = [store EXCEPT ![cr] = n],
         Ready(n) => ~n.deleting /\ <<cr, n.uid, n.spec>> \in verified,
         Ready(n) /\ ~tampered /\ Owned(cr, Opts(cr, n.spec))
           => Lasting(Opts(cr, n.spec)) \subseteq acl,
         UNCHANGED <<acl, tampered, verified>>
  PROVE  Earned'
<1>1. /\ store'[cr] = n
      /\ \A c \in CR \ {cr} : store'[c] = store[c]
  BY DEF IInv, KubeInv, KubeTypeOK
<1>2. Verified'
  BY <1>1 DEF IInv, Earned, Verified
<1>3. Kept'
  <2> SUFFICES ASSUME NEW c \in CR, Ready(store'[c]), ~tampered,
                      Owned(c, Opts(c, store'[c].spec))
               PROVE  Lasting(Opts(c, store'[c].spec)) \subseteq acl
    BY Rigid DEF Kept
  <2> QED
    BY <1>1 DEF IInv, Earned, Kept
<1> QED
  BY <1>2, <1>3 DEF Earned

\* So does a step that writes no resource and takes nothing from an owner
\* that is Ready.
LEMMA EarnedElse ==
  ASSUME IInv, store' = store, verified \subseteq verified', tampered => tampered',
         \A cr \in CR :
           LET o == Opts(cr, store[cr].spec)
           IN  Ready(store[cr]) /\ Owned(cr, o) /\ ~tampered'
                 /\ Lasting(o) \subseteq acl => Lasting(o) \subseteq acl'
  PROVE  Earned'
<1>1. Verified'
  BY DEF IInv, Earned, Verified
<1>2. Kept'
  <2> SUFFICES ASSUME NEW c \in CR, Ready(store[c]), ~tampered',
                      Owned(c, Opts(c, store[c].spec))
               PROVE  Lasting(Opts(c, store[c].spec)) \subseteq acl'
    BY Rigid DEF Kept
  <2> QED
    BY DEF IInv, Earned, Kept
<1> QED
  BY <1>1, <1>2 DEF Earned

\* A step that neither moves the worker nor changes what is granted.
LEMMA PhasesStay ==
  ASSUME IInv, UNCHANGED <<pc, key, obj, dbs, acl, tampered, verified, cause>>
  PROVE  Phases' /\ Given' /\ Taken'
<1>1. opts' = opts
  BY DEF opts, Opts, PgNamespace
<1>2. Phases'
  BY <1>1 DEF IInv, Phases, LivePc, DropPc
<1>3. Given'
  BY <1>1 DEF IInv, Given, OnDatabase, OnDefault, OnSchema, Entries, Expand
<1>4. Taken'
  BY <1>1 DEF IInv, Taken, Revoked, OnDatabase, OnDefault, OnSchema, AnyTable, Entries, Expand
<1> QED
  BY <1>2, <1>3, <1>4

---------------------------------------------------------------------------
(* Users, instances and other SQL clients.                                 *)

\* Users and the garbage collector.
LEMMA UsersStep ==
  ASSUME IInv, NEW cr \in CR, Users(cr) \/ ReleaseHold(cr), UNCHANGED grantVars
  PROVE  IInv'
<1>1. PICK n : Put(cr, n) /\ Quiet(cr, n)
  BY OthersKeep DEF Users, IInv
<1>2. KubeInv' /\ UNCHANGED <<cache, queue, pc, key, obj>>
  BY OthersKeep DEF Users, IInv
<1>3. UNCHANGED <<inst, dbs, roles, tables, acl, tampered, verified, cause>>
  BY DEF grantVars, sqlVars
<1>4. Earned'
  <2>1. Ready(n) => ~n.deleting /\ <<cr, n.uid, n.spec>> \in verified
    BY <1>1 DEF Quiet, IInv, Earned, Verified
  <2>2. Ready(n) /\ ~tampered /\ Owned(cr, Opts(cr, n.spec))
          => Lasting(Opts(cr, n.spec)) \subseteq acl
    BY <1>1 DEF Quiet, IInv, Earned, Kept
  <2> QED
    BY <1>1, <1>3, <2>1, <2>2, EarnedWrite DEF Put
<1>5. TypeOK'
  BY <1>2, <1>3 DEF IInv, KubeInv, TypeOK, InstTypeOK
<1>6. Phases' /\ Given' /\ Taken'
  BY <1>2, <1>3, PhasesStay
<1> QED
  BY <1>2, <1>4, <1>5, <1>6 DEF IInv

\* The cache catches up.
LEMMA DeliverStep ==
  ASSUME IInv, NEW cr \in CR, Deliver(cr), UNCHANGED grantVars
  PROVE  IInv'
<1>1. KubeInv'
  BY DeliverKeeps DEF IInv
<1>2. UNCHANGED <<store, pc, key, obj>>
  BY DEF Deliver
<1>3. UNCHANGED <<inst, dbs, roles, tables, acl, tampered, verified, cause>>
  BY DEF grantVars, sqlVars
<1>4. TypeOK'
  BY <1>1, <1>2, <1>3 DEF IInv, KubeInv, TypeOK, InstTypeOK
<1>5. Phases' /\ Given' /\ Taken'
  BY <1>2, <1>3, PhasesStay
<1> QED
  BY <1>1, <1>2, <1>3, <1>4, <1>5, EarnedElse DEF IInv

\* A worker that is idle has established nothing.
LEMMA IdlePhases ==
  ASSUME pc' = "idle"
  PROVE  Phases' /\ Given' /\ Taken'
BY DEF Phases, Given, Taken, Revoked, LivePc, DropPc, GrantPcs, RevokePcs

\* The operator crashes and starts again.
LEMMA RestartStep ==
  ASSUME IInv, Restart, cause' = "none", UNCHANGED <<sqlVars, verified>>
  PROVE  IInv'
<1>1. KubeInv'
  BY RestartKeeps DEF IInv
<1>2. store' = store /\ pc' = "idle"
  BY DEF Restart
<1>3. TypeOK'
  BY <1>1, <1>2 DEF IInv, KubeInv, TypeOK, InstTypeOK, sqlVars
<1> QED
  BY <1>1, <1>2, <1>3, IdlePhases, EarnedElse DEF IInv, sqlVars

\* An instance changes its state.
LEMMA InstChangeStep ==
  ASSUME IInv, NEW ns \in Namespace, InstChange(ns),
         UNCHANGED <<dbs, roles, tables, acl, tampered, verified, cause>>
  PROVE  IInv'
<1>1. UNCHANGED <<store, watch, cache, queue, pc, key, obj>>
  BY DEF InstChange
<1>2. quota' \in 0 .. MaxDisturbances
  BY DisturbQuota DEF InstChange, IInv, KubeInv
<1>3. KubeInv'
  BY <1>1, <1>2 DEF IInv, KubeInv, KubeTypeOK, Ordered, Finalized, Conditions,
                    InHand, Informer
<1>4. inst' \in [Namespace -> InstState]
  BY DEF InstChange, IInv, TypeOK, InstTypeOK
<1>5. TypeOK'
  BY <1>1, <1>3, <1>4 DEF IInv, KubeInv, TypeOK, InstTypeOK
<1>6. Phases' /\ Given' /\ Taken'
  BY <1>1, PhasesStay
<1> QED
  BY <1>1, <1>3, <1>5, <1>6, EarnedElse DEF IInv

\* What other clients never do: without being noted they take nothing but what
\* is on a table, and the only entries they bring about are those that the
\* default privileges have on a new table.
Passive ==
  /\ tampered => tampered'
  /\ ~tampered' => \A e \in acl : (\A s \in Schema, t \in Table : e.item # <<"table", s, t>>)
                                    => e \in acl'
  /\ \A e \in acl' \ acl :
       \E f \in acl, s \in Schema, t \in Table :
         /\ f.item = <<"default", s>>
         /\ e.item = <<"table", s, t>>
         /\ e.ns = f.ns /\ e.db = f.db /\ e.role = f.role /\ e.priv = f.priv

\* What the access control lists are about.
AclOK ==
  /\ dbs \in SUBSET (Namespace \X Database)
  /\ roles \in SUBSET (Namespace \X Role)
  /\ tables \in SUBSET (Namespace \X Database \X Schema \X Table)
  /\ acl \in SUBSET Entry
  /\ \A e \in acl : <<e.ns, e.db>> \in dbs /\ <<e.ns, e.role>> \in roles
  /\ \A e \in acl : \A s \in Schema, t \in Table :
       e.item = <<"table", s, t>> => <<e.ns, e.db, s, t>> \in tables
  /\ tampered \in BOOLEAN

LEMMA OtherTablePassive ==
  ASSUME AclOK, OtherTable
  PROVE  AclOK' /\ Passive /\ dbs' = dbs
<1>1. PICK d \in dbs, s \in Schema, t \in Table :
        LET table == <<d[1], d[2], s, t>>
            there(e) == e.ns = d[1] /\ e.db = d[2]
            granted == {[e EXCEPT !.item = <<"table", s, t>>] :
                          e \in {f \in acl : there(f) /\ f.item = <<"default", s>>}}
            lost == {e \in acl : there(e) /\ e.item = <<"table", s, t>>}
        IN  \/ /\ table \notin tables /\ tables' = tables \cup {table}
               /\ acl' \in {acl, acl \cup granted}
            \/ table \in tables /\ tables' = tables \ {table} /\ acl' = acl \ lost
  BY DEF OtherTable
<1>2. UNCHANGED <<dbs, roles, tampered>>
  BY DEF OtherTable
<1> DEFINE table == <<d[1], d[2], s, t>>
           there(e) == e.ns = d[1] /\ e.db = d[2]
           granted == {[e EXCEPT !.item = <<"table", s, t>>] :
                         e \in {f \in acl : there(f) /\ f.item = <<"default", s>>}}
           lost == {e \in acl : there(e) /\ e.item = <<"table", s, t>>}
<1>3. d = <<d[1], d[2]>> /\ table \in Namespace \X Database \X Schema \X Table
  BY DEF AclOK
<1>4. ASSUME NEW e \in granted
      PROVE  /\ e \in Entry /\ e.item = <<"table", s, t>> /\ there(e)
             /\ \E f \in acl : /\ f.item = <<"default", s>>
                               /\ e.ns = f.ns /\ e.db = f.db
                               /\ e.role = f.role /\ e.priv = f.priv
  <2>1. PICK f \in acl : /\ there(f) /\ f.item = <<"default", s>>
                         /\ e = [f EXCEPT !.item = <<"table", s, t>>]
    BY <1>4
  <2>2. f \in Entry /\ <<"table", s, t>> \in Item
    BY DEF AclOK, Item
  <2>3. /\ e \in Entry /\ e.item = <<"table", s, t>> /\ e.ns = f.ns /\ e.db = f.db
        /\ e.role = f.role /\ e.priv = f.priv
    BY <2>1, <2>2 DEF Entry
  <2> QED
    BY <2>1, <2>3
<1>5. ASSUME NEW e \in granted PROVE <<e.ns, e.db>> \in dbs /\ <<e.ns, e.role>> \in roles
  BY <1>3, <1>4 DEF AclOK
<1> HIDE DEF granted
<1>6. CASE tables' = tables \cup {table} /\ acl' \in {acl, acl \cup granted}
  <2>1. tables' \in SUBSET (Namespace \X Database \X Schema \X Table) /\ acl' \in SUBSET Entry
    BY <1>3, <1>4, <1>6 DEF AclOK
  <2>2. \A e \in acl' : <<e.ns, e.db>> \in dbs' /\ <<e.ns, e.role>> \in roles'
    BY <1>2, <1>5, <1>6 DEF AclOK
  <2>3. \A e \in acl' : \A s2 \in Schema, t2 \in Table :
          e.item = <<"table", s2, t2>> => <<e.ns, e.db, s2, t2>> \in tables'
    <3> SUFFICES ASSUME NEW e \in acl', NEW s2 \in Schema, NEW t2 \in Table,
                        e.item = <<"table", s2, t2>>
                 PROVE  <<e.ns, e.db, s2, t2>> \in tables'
      OBVIOUS
    <3>1. CASE e \in acl
      BY <1>6, <3>1 DEF AclOK
    <3>2. CASE e \in granted
      <4>1. s2 = s /\ t2 = t /\ e.ns = d[1] /\ e.db = d[2]
        BY <1>4, <3>2
      <4> QED
        BY <1>6, <4>1
    <3> QED
      BY <1>6, <3>1, <3>2
  <2>4. AclOK'
    BY <1>2, <2>1, <2>2, <2>3 DEF AclOK
  <2>5. Passive
    BY <1>2, <1>4, <1>6 DEF Passive
  <2> QED
    BY <1>2, <2>4, <2>5
<1>7. CASE tables' = tables \ {table} /\ acl' = acl \ lost
  <2>1. \A e \in acl' : \A s2 \in Schema, t2 \in Table :
          e.item = <<"table", s2, t2>> => <<e.ns, e.db, s2, t2>> \in tables'
    BY <1>7 DEF AclOK
  <2>2. AclOK'
    BY <1>2, <1>7, <2>1 DEF AclOK
  <2>3. Passive
    BY <1>2, <1>7 DEF Passive
  <2> QED
    BY <1>2, <2>2, <2>3
<1> QED
  BY <1>1, <1>6, <1>7 DEF granted

LEMMA OtherDatabasePassive ==
  ASSUME AclOK, OtherDatabase
  PROVE  AclOK' /\ Passive /\ \A d \in dbs : ConnectedTo(d) => d \in dbs'
<1>1. PICK d \in Namespace \X Database :
       \/ d \notin dbs /\ dbs' = dbs \cup {d} /\ UNCHANGED <<tables, acl>>
       \/ /\ d \in dbs /\ dbs' = dbs \ {d}
          /\ ~ConnectedTo(d)
          /\ tables' = {t \in tables : <<t[1], t[2]>> # d}
          /\ acl' = {e \in acl : <<e.ns, e.db>> # d}
  BY DEF OtherDatabase
<1>2. tampered' = TRUE /\ roles' = roles
  BY DEF OtherDatabase
<1>3. dbs' \in SUBSET (Namespace \X Database) /\ tables' \subseteq tables /\ acl' \subseteq acl
  BY <1>1 DEF AclOK
<1>4. \A e \in acl' : <<e.ns, e.db>> \in dbs'
  BY <1>1 DEF AclOK
<1>5. \A e \in acl' : \A s \in Schema, t \in Table :
        e.item = <<"table", s, t>> => <<e.ns, e.db, s, t>> \in tables'
  BY <1>1 DEF AclOK
<1>6. AclOK'
  BY <1>2, <1>3, <1>4, <1>5 DEF AclOK
<1>7. Passive
  BY <1>2, <1>3 DEF Passive
<1> QED
  BY <1>1, <1>6, <1>7

\* Other clients are passive in this sense, and leave the worker's connection.
LEMMA OtherClientPassive ==
  ASSUME AclOK, OtherTable \/ OtherDatabase \/ OtherRole \/ OtherRevoke
  PROVE  AclOK' /\ Passive /\ \A d \in dbs : ConnectedTo(d) => d \in dbs'
<1>1. CASE OtherTable
  BY <1>1, OtherTablePassive
<1>2. CASE OtherDatabase
  BY <1>2, OtherDatabasePassive
<1>3. CASE OtherRole
  <2>1. PICK r \in Namespace \X Role :
          \/ roles' = roles \cup {r}
          \/ roles' = roles \ {r} /\ \A e \in acl : <<e.ns, e.role>> # r
    BY <1>3 DEF OtherRole
  <2>2. UNCHANGED <<dbs, tables, acl, tampered>>
    BY <1>3 DEF OtherRole
  <2> QED
    BY <2>1, <2>2 DEF AclOK, Passive
<1>4. CASE OtherRevoke
  BY <1>4 DEF OtherRevoke, AclOK, Passive
<1> QED
  BY <1>1, <1>2, <1>3, <1>4

\* What passive steps leave of the entries of one spec: the lasting ones
\* unless noted, and none comes back once the default privileges are gone.
LEMMA PassiveKeeps ==
  ASSUME AclOK, AclOK', Passive, NEW cr \in CR, NEW s \in Specs, NEW o, o = Opts(cr, s)
  PROVE  /\ ~tampered' => \A E \in {OnDatabase(o), OnDefault(o), OnSchema(o, "USAGE"),
                                    OnSchema(o, "CREATE")} : E \subseteq acl => E \subseteq acl'
         /\ \A E \in {OnDatabase(o), OnDefault(o), OnSchema(o, "CREATE")} :
              E \cap acl = {} => E \cap acl' = {}
         /\ OnDefault(o) \cap acl = {} /\ AnyTable(o) \cap acl = {}
              => AnyTable(o) \cap acl' = {}
<1> DEFINE Lasts(e) == \/ e.item = <<"database">> \/ e.item = <<"default", o.spec.schema>>
                       \/ e.item = <<"schema", o.spec.schema>>
<1>1. \A e \in Entry : \/ e \in OnDatabase(o) \/ e \in OnDefault(o)
                       \/ e \in OnSchema(o, "USAGE") \/ e \in OnSchema(o, "CREATE")
                       => Lasts(e)
  BY Member DEF OnDatabase, OnDefault, OnSchema
<1>2. \A e : Lasts(e) => \A s2 \in Schema, t \in Table : e.item # <<"table", s2, t>>
  BY Apart
<1>3. acl \subseteq Entry /\ acl' \subseteq Entry
  BY DEF AclOK
<1> HIDE DEF Lasts
<1>4. ASSUME ~tampered', NEW e \in acl, Lasts(e) PROVE e \in acl'
  BY <1>2, <1>4 DEF Passive
<1>5. ASSUME NEW e \in acl', Lasts(e) PROVE e \in acl
  BY <1>2, <1>5 DEF Passive
<1>6. ~tampered' => \A E \in {OnDatabase(o), OnDefault(o), OnSchema(o, "USAGE"),
                              OnSchema(o, "CREATE")} : E \subseteq acl => E \subseteq acl'
  BY <1>1, <1>3, <1>4
<1>7. \A E \in {OnDatabase(o), OnDefault(o), OnSchema(o, "CREATE")} :
        E \cap acl = {} => E \cap acl' = {}
  BY <1>1, <1>3, <1>5
<1>8. ASSUME OnDefault(o) \cap acl = {}, AnyTable(o) \cap acl = {},
             NEW e \in AnyTable(o), e \in acl'
      PROVE  FALSE
  <2>1. PICK f \in acl, s2 \in Schema, t \in Table :
          /\ f.item = <<"default", s2>>
          /\ e.item = <<"table", s2, t>>
          /\ e.ns = f.ns /\ e.db = f.db /\ e.role = f.role /\ e.priv = f.priv
    BY <1>8 DEF Passive
  <2>2. /\ e.ns = o.ns /\ e.db = o.spec.database /\ e.role = o.spec.role
        /\ e.item \in {"table"} \X {o.spec.schema} \X Table
        /\ e.priv \in Expand(TablePrivilege, o.spec.privileges)
    BY <1>3, <1>8, Member DEF AnyTable
  <2>3. s2 = o.spec.schema
    BY <2>1, <2>2
  <2>4. f \in OnDefault(o)
    BY <1>3, <2>1, <2>2, <2>3, Member DEF OnDefault
  <2> QED
    BY <1>8, <2>4
<1> QED
  BY <1>6, <1>7, <1>8

\* A lasting privilege neither goes nor comes by a passive step, unless noted.
LEMMA PassiveLasting ==
  ASSUME AclOK, AclOK', Passive, NEW cr \in CR, NEW s \in Specs, NEW o, o = Opts(cr, s),
         ~tampered'
  PROVE  Lasting(o) \cap acl' = Lasting(o) \cap acl
<1>1. \A e \in Entry : e \in Lasting(o) =>
        \A s2 \in Schema, t \in Table : e.item # <<"table", s2, t>>
  <2>1. \A e \in Entry : e \in Lasting(o) =>
          \/ e.item = <<"database">> \/ e.item = <<"default", o.spec.schema>>
          \/ e.item = <<"schema", o.spec.schema>>
    BY Member DEF Lasting, OnDatabase, OnDefault, OnSchema
  <2> QED
    BY <2>1, Apart
<1>2. acl \subseteq Entry /\ acl' \subseteq Entry
  BY DEF AclOK
<1> QED
  BY <1>1, <1>2 DEF Passive

\* Every resource that is Ready keeps what it was given.
LEMMA EveryoneKeeps ==
  ASSUME IInv, AclOK, AclOK', Passive, store' = store, verified' = verified
  PROVE  Earned'
<1> SUFFICES ASSUME NEW cr \in CR, ~tampered',
                    Lasting(Opts(cr, store[cr].spec)) \subseteq acl
             PROVE  Lasting(Opts(cr, store[cr].spec)) \subseteq acl'
  BY EarnedElse DEF Passive
<1>1. store[cr].spec \in Specs
  BY Fields DEF IInv, KubeInv, KubeTypeOK
<1> QED
  BY <1>1, PassiveLasting

\* Passive steps of others keep the inductive invariant.
LEMMA OthersStep ==
  ASSUME IInv,
         UNCHANGED <<store, watch, cache, queue, pc, key, obj, inst, verified, cause>>,
         quota' \in 0 .. MaxDisturbances, AclOK', Passive,
         \A d \in dbs : ConnectedTo(d) => d \in dbs'
  PROVE  IInv'
<1>1. UNCHANGED <<store, watch, cache, queue, pc, key, obj, inst, verified, cause>>
  OBVIOUS
<1>2. quota' \in 0 .. MaxDisturbances
  OBVIOUS
<1>3. KubeInv'
  BY <1>1, <1>2 DEF IInv, KubeInv, KubeTypeOK, Ordered, Finalized, Conditions,
                    InHand, Informer
<1>4. AclOK
  BY DEF IInv, TypeOK, AclOK
<1>5. AclOK' /\ Passive /\ \A d \in dbs : ConnectedTo(d) => d \in dbs'
  OBVIOUS
<1>6. TypeOK'
  BY <1>1, <1>3, <1>5 DEF IInv, KubeInv, TypeOK, InstTypeOK, AclOK
<1>7. opts' = opts
  BY <1>1 DEF opts, Opts, PgNamespace
<1>8. Phases'
  <2>1. pc \in GrantPcs => ConnectedTo(<<opts.ns, obj.spec.database>>)
    BY DEF ConnectedTo, GrantPcs
  <2> QED
    BY <1>1, <1>5, <1>7, <2>1 DEF IInv, Phases, LivePc, DropPc
<1>9. CASE pc = "idle"
  <2>1. Given' /\ Taken'
    BY <1>1, <1>9, IdlePhases
  <2> QED
    BY <1>1, <1>3, <1>4, <1>5, <1>6, <1>8, <2>1, EveryoneKeeps DEF IInv
<1>10. CASE pc # "idle"
  <2>1. /\ ~tampered' => \A E \in {OnDatabase(opts), OnDefault(opts),
                                   OnSchema(opts, "USAGE"), OnSchema(opts, "CREATE")} :
                           E \subseteq acl => E \subseteq acl'
        /\ \A E \in {OnDatabase(opts), OnDefault(opts), OnSchema(opts, "CREATE")} :
             E \cap acl = {} => E \cap acl' = {}
        /\ OnDefault(opts) \cap acl = {} /\ AnyTable(opts) \cap acl = {}
             => AnyTable(opts) \cap acl' = {}
    BY <1>4, <1>5, <1>10, optsType, PassiveKeeps
  <2>2. /\ OnDatabase(opts)' = OnDatabase(opts) /\ OnDefault(opts)' = OnDefault(opts)
        /\ OnSchema(opts, "USAGE")' = OnSchema(opts, "USAGE")
        /\ OnSchema(opts, "CREATE")' = OnSchema(opts, "CREATE")
        /\ AnyTable(opts)' = AnyTable(opts)
    BY <1>7 DEF OnDatabase, OnDefault, OnSchema, AnyTable, Entries, Expand
  <2>3. Given'
    BY <1>1, <1>5, <2>1, <2>2 DEF IInv, Given, Passive
  <2>4. Taken'
    BY <1>1, <2>1, <2>2 DEF IInv, Taken, Revoked
  <2> QED
    BY <1>1, <1>3, <1>4, <1>5, <1>6, <1>8, <2>3, <2>4, EveryoneKeeps DEF IInv
<1> QED
  BY <1>9, <1>10

\* Another SQL client does something.
LEMMA OtherClientStep ==
  ASSUME IInv, OtherClient
  PROVE  IInv'
<1>1. /\ Disturb
      /\ UNCHANGED <<store, watch, cache, queue, pc, key, obj, inst, verified, cause>>
      /\ OtherTable \/ OtherDatabase \/ OtherRole \/ OtherRevoke
  BY DEF OtherClient
<1>2. quota' \in 0 .. MaxDisturbances
  BY <1>1, DisturbQuota DEF IInv, KubeInv
<1>3. AclOK
  BY DEF IInv, TypeOK, AclOK
<1> QED
  BY <1>1, <1>2, <1>3, OtherClientPassive, OthersStep

---------------------------------------------------------------------------
(* The worker's steps.                                                     *)

\* Whatever the worker does in SQL, it keeps the types.
LEMMA WorkTypes ==
  ASSUME IInv, KubeInv', AclOK', inst' = inst,
         pc' \in LivePc \cup DropPc \cup {"idle", "release"},
         verified' \in SUBSET (CR \X Nat \X Specs),
         cause' \in {"none", "policy", "revoked", "notFound"}
  PROVE  TypeOK'
BY PcNames DEF IInv, KubeInv, TypeOK, InstTypeOK, AclOK, LivePc, DropPc

LEMMA IInvAcl ==
  ASSUME IInv
  PROVE  /\ AclOK /\ quota \in 0 .. MaxDisturbances
         /\ verified \in SUBSET (CR \X Nat \X Specs)
         /\ cause \in {"none", "policy", "revoked", "notFound"}
BY DEF IInv, TypeOK, AclOK, KubeTypeOK

\* A reconcile that returns leaves nothing to establish.
LEMMA IdleStep ==
  ASSUME IInv, KubeInv', pc' = "idle", store' = store, UNCHANGED <<sqlVars, verified>>,
         cause' \in {"none", "policy", "revoked", "notFound"}
  PROVE  IInv'
<1>1. AclOK'
  BY IInvAcl DEF AclOK, sqlVars
<1>2. TypeOK'
  BY <1>1, IInvAcl, WorkTypes DEF sqlVars
<1> QED
  BY <1>2, IdlePhases, EarnedElse DEF IInv, sqlVars

\* A failure is reported, and no privilege is taken.
LEMMA FailedStep ==
  ASSUME IInv, pc # "idle", NEW message \in Message,
         NEW left \in 0 .. MaxDisturbances, Failed(message, left),
         UNCHANGED <<inst, tampered, verified, cause>>, AclOK', acl \subseteq acl'
  PROVE  IInv'
<1>1. KubeInv'
  BY ReportKeeps DEF IInv, Failed
<1>2. pc' = "idle"
  BY ReportCases DEF Return, Failed
<1>3. TypeOK'
  BY <1>1, <1>2, IInvAcl, WorkTypes
<1>4. Earned'
  <2>1. CASE store' = store
    BY <2>1, EarnedElse
  <2>2. CASE store[key].exists /\ Put(key, Patched("False", message))
    <3> DEFINE n == Patched("False", message)
    <3>1. key \in CR /\ n.cond.status = "False"
      BY <2>2, PatchedSound DEF IInv
    <3>2. store' = [store EXCEPT ![key] = n]
      BY <2>2 DEF Put
    <3> HIDE DEF n
    <3>3. store'[key] = n /\ \A c \in CR \ {key} : store'[c] = store[c]
      BY <3>1, <3>2 DEF IInv, KubeInv, KubeTypeOK
    <3>4. ~Ready(n)
      BY <3>1 DEF Ready
    <3>5. Verified'
      BY <3>3, <3>4 DEF IInv, Earned, Verified
    <3>6. Kept'
      <4> SUFFICES ASSUME NEW c \in CR, Ready(store'[c]), ~tampered,
                          Owned(c, Opts(c, store'[c].spec))
                   PROVE  Lasting(Opts(c, store'[c].spec)) \subseteq acl'
        BY Rigid DEF Kept
      <4>1. store'[c] = store[c]
        BY <3>3, <3>4
      <4> QED
        BY <4>1 DEF IInv, Earned, Kept
    <3> QED
      BY <3>5, <3>6 DEF Earned
  <2> QED
    BY <2>1, <2>2, ReportCases DEF Failed
<1> QED
  BY <1>1, <1>2, <1>3, <1>4, IdlePhases DEF IInv

\* Reconcile up to the first call that leaves the process.
LEMMA TakeStep ==
  ASSUME IInv, NEW cr \in CR, Take(cr)
  PROVE  IInv'
<1>1. CASE ReconcileGone(cr)
  <2>1. KubeInv' /\ UNCHANGED <<store, pc, key, obj>>
    BY <1>1, ReconcileNothingKeeps DEF ReconcileGone, ReconcileNothing, IInv
  <2>2. UNCHANGED <<inst, dbs, roles, tables, acl, tampered, verified, cause>>
    BY <1>1 DEF ReconcileGone, grantVars, sqlVars
  <2>3. TypeOK'
    BY <2>1, <2>2 DEF IInv, KubeInv, TypeOK, InstTypeOK
  <2>4. Phases' /\ Given' /\ Taken'
    BY <2>1, <2>2, PhasesStay
  <2> QED
    BY <2>1, <2>2, <2>3, <2>4, EarnedElse DEF IInv
<1>2. ASSUME NEW next \in {"connect", "connectRevoke", "release"},
             ReconcileObject(cr, next), UNCHANGED <<sqlVars, verified>>,
             next = "connect" <=> ~cache[cr].deleting,
             cache[cr].deleting => cache[cr].finalizer,
             cache[cr].deleting =>
               (next = "connectRevoke" <=> cache[cr].spec.cleanupPolicy = "Delete"),
             cause' \in {"none", "policy", "revoked", "notFound"}
      PROVE  IInv'
  <2>1. KubeInv'
    BY <1>2, ReconcileObjectKeeps DEF IInv
  <2>2. pc' = next /\ obj' = cache[cr] /\ store' = store
    BY <1>2 DEF ReconcileObject
  <2>3. AclOK' /\ inst' = inst
    BY <1>2, IInvAcl DEF AclOK, sqlVars
  <2>4. TypeOK'
    BY <1>2, <2>1, <2>2, <2>3, IInvAcl, WorkTypes DEF LivePc, DropPc
  <2>5. Phases'
    BY <1>2, <2>2 DEF Phases, LivePc, DropPc, GrantPcs, RevokePcs
  <2>6. Given' /\ Taken'
    BY <1>2, <2>2 DEF Given, Taken, Revoked
  <2>7. Earned'
    BY <1>2, <2>2, EarnedElse DEF sqlVars
  <2> QED
    BY <2>1, <2>4, <2>5, <2>6, <2>7 DEF IInv
<1>3. CASE ReconcileLive(cr)
  BY <1>2, <1>3, IInvAcl DEF ReconcileLive, grantVars
<1>4. CASE handleDeletion(cr)
  BY <1>2, <1>4, IInvAcl DEF handleDeletion
<1> QED
  BY <1>1, <1>3, <1>4 DEF Take

\* What the statements of a resource grant or revoke is about its own role
\* and database, and about parts that exist.
LEMMA StatementEntries ==
  ASSUME TypeOK, NEW cr \in CR, NEW s \in Specs, NEW o, o = Opts(cr, s),
         NEW E \in {OnDatabase(o), OnTables(o), OnDefault(o),
                    OnSchema(o, "USAGE"), OnSchema(o, "CREATE")}
  PROVE  /\ E \subseteq Entry
         /\ \A e \in E : /\ e.ns = o.ns /\ e.db = s.database /\ e.role = s.role
                         /\ \A s2 \in Schema, t \in Table :
                              e.item = <<"table", s2, t>> => <<e.ns, e.db, s2, t>> \in tables
<1>1. E \subseteq Entry
  BY StatementsType
<1>2. o.spec = s
  BY OptsType
<1>3. PICK items, privs : /\ E = Entries(o, items, privs)
                          /\ \/ items = {<<"database">>} \/ items = {<<"default", s.schema>>}
                             \/ items = {<<"schema", s.schema>>} \/ items = TablesOf(o)
  BY <1>2 DEF OnDatabase, OnTables, OnDefault, OnSchema
<1> SUFFICES ASSUME NEW e \in E
             PROVE  /\ e.ns = o.ns /\ e.db = s.database /\ e.role = s.role
                    /\ \A s2 \in Schema, t \in Table :
                         e.item = <<"table", s2, t>> => <<e.ns, e.db, s2, t>> \in tables
  BY <1>1
<1>4. e.ns = o.ns /\ e.db = s.database /\ e.role = s.role /\ e.item \in items
  BY <1>1, <1>2, <1>3, Member
<1>5. ASSUME NEW s2 \in Schema, NEW t \in Table, e.item = <<"table", s2, t>>
      PROVE  <<e.ns, e.db, s2, t>> \in tables
  <2>1. items = TablesOf(o)
    BY <1>3, <1>4, <1>5, Apart
  <2>2. PICK u \in tables : /\ u[1] = o.ns /\ u[2] = o.spec.database
                            /\ u[3] = o.spec.schema
                            /\ e.item = <<"table", o.spec.schema, u[4]>>
    BY <1>4, <2>1 DEF TablesOf
  <2>3. u \in Namespace \X Database \X Schema \X Table
    BY DEF TypeOK
  <2>4. u = <<u[1], u[2], u[3], u[4]>>
    BY <2>3
  <2>5. s2 = o.spec.schema /\ t = u[4]
    BY <1>5, <2>2
  <2> QED
    BY <1>2, <1>4, <2>2, <2>4, <2>5
<1> QED
  BY <1>4, <1>5

\* The statements, one by one.
LEMMA GrantTable ==
  ASSUME NEW o, NEW n \in 1 .. 5
  PROVE  LET stmt == GrantStatements(o)[n]
         IN  /\ stmt.ok => RoleThere(o)
             /\ \/ n = 1 /\ GrantPc[n] = "grant1" /\ stmt.entries = OnDatabase(o)
                   /\ GrantPc[n + 1] = "grant2"
                \/ n = 2 /\ GrantPc[n] = "grant2" /\ stmt.entries = OnTables(o)
                   /\ GrantPc[n + 1] = "grant3"
                \/ n = 3 /\ GrantPc[n] = "grant3" /\ stmt.entries = OnDefault(o)
                   /\ GrantPc[n + 1] = "grant4"
                \/ n = 4 /\ GrantPc[n] = "grant4" /\ stmt.entries = OnSchema(o, "USAGE")
                   /\ GrantPc[n + 1] = "grant5"
                \/ n = 5 /\ GrantPc[n] = "grant5" /\ stmt.entries = OnSchema(o, "CREATE")
<1>1. n = 1 \/ n = 2 \/ n = 3 \/ n = 4 \/ n = 5
  OBVIOUS
<1>2. /\ GrantPc[1] = "grant1" /\ GrantPc[2] = "grant2" /\ GrantPc[3] = "grant3"
      /\ GrantPc[4] = "grant4" /\ GrantPc[5] = "grant5"
  BY DEF GrantPc
<1>3. /\ GrantStatements(o)[1].entries = OnDatabase(o)
      /\ GrantStatements(o)[2].entries = OnTables(o)
      /\ GrantStatements(o)[3].entries = OnDefault(o)
      /\ GrantStatements(o)[4].entries = OnSchema(o, "USAGE")
      /\ GrantStatements(o)[5].entries = OnSchema(o, "CREATE")
  BY DEF GrantStatements, Statement
<1>4. /\ GrantStatements(o)[1].ok => RoleThere(o)
      /\ GrantStatements(o)[2].ok => RoleThere(o)
      /\ GrantStatements(o)[3].ok => RoleThere(o)
      /\ GrantStatements(o)[4].ok => RoleThere(o)
      /\ GrantStatements(o)[5].ok => RoleThere(o)
  BY DEF GrantStatements, Statement
<1> QED
  BY <1>1, <1>2, <1>3, <1>4

LEMMA RevokeTable ==
  ASSUME NEW o, NEW n \in 1 .. 4
  PROVE  LET stmt == RevokeStatements(o)[n]
         IN  \/ n = 1 /\ RevokePc[n] = "revoke1" /\ stmt.entries = OnDefault(o)
                /\ RevokePc[n + 1] = "revoke2"
             \/ n = 2 /\ RevokePc[n] = "revoke2" /\ stmt.entries = OnTables(o)
                /\ RevokePc[n + 1] = "revoke3"
             \/ n = 3 /\ RevokePc[n] = "revoke3" /\ stmt.entries = OnSchema(o, "CREATE")
                /\ RevokePc[n + 1] = "revoke4"
             \/ n = 4 /\ RevokePc[n] = "revoke4" /\ stmt.entries = OnDatabase(o)
<1>1. n = 1 \/ n = 2 \/ n = 3 \/ n = 4
  OBVIOUS
<1>2. /\ RevokePc[1] = "revoke1" /\ RevokePc[2] = "revoke2"
      /\ RevokePc[3] = "revoke3" /\ RevokePc[4] = "revoke4"
  BY DEF RevokePc
<1>3. /\ RevokeStatements(o)[1].entries = OnDefault(o)
      /\ RevokeStatements(o)[2].entries = OnTables(o)
      /\ RevokeStatements(o)[3].entries = OnSchema(o, "CREATE")
      /\ RevokeStatements(o)[4].entries = OnDatabase(o)
  BY DEF RevokeStatements, Statement
<1> QED
  BY <1>1, <1>2, <1>3

\* GrantPrivileges' statements keep the lists proper: the worker's connection
\* is to a database that exists, and the server checks the role.
LEMMA GrantAcl ==
  ASSUME IInv, NEW n \in 1 .. 5, pc = GrantPc[n], UNCHANGED <<dbs, roles, tables, tampered>>,
         LET stmt == GrantStatements(opts)[n]
         IN  acl' \in {acl, IF stmt.ok THEN acl \cup stmt.entries ELSE acl}
  PROVE  AclOK'
<1> DEFINE E == GrantStatements(opts)[n].entries
<1>1. pc \in GrantPcs /\ pc # "idle"
  BY PcNames DEF GrantPcs
<1>2. E \in {OnDatabase(opts), OnTables(opts), OnDefault(opts),
             OnSchema(opts, "USAGE"), OnSchema(opts, "CREATE")}
  BY GrantTable
<1>3. TypeOK /\ key \in CR /\ obj.spec \in Specs /\ opts = Opts(key, obj.spec)
  BY <1>1, optsType DEF IInv
<1>4. opts.spec = obj.spec
  BY <1>3, OptsType
<1> HIDE DEF E
<1>5. /\ E \subseteq Entry
      /\ \A e \in E : /\ e.ns = opts.ns /\ e.db = obj.spec.database /\ e.role = obj.spec.role
                      /\ \A s2 \in Schema, t \in Table :
                           e.item = <<"table", s2, t>> => <<e.ns, e.db, s2, t>> \in tables
  BY <1>2, <1>3, StatementEntries
<1>6. <<opts.ns, obj.spec.database>> \in dbs
  BY <1>1 DEF IInv, Phases
<1>7. CASE acl' = acl
  BY <1>7, IInvAcl DEF AclOK
<1>8. CASE GrantStatements(opts)[n].ok /\ acl' = acl \cup E
  <2>1. <<opts.ns, obj.spec.role>> \in roles
    BY <1>4, <1>8, GrantTable DEF RoleThere
  <2> QED
    BY <1>5, <1>6, <1>8, <2>1, IInvAcl DEF AclOK
<1> QED
  BY <1>7, <1>8 DEF E

\* connectToDatabase in Reconcile.
LEMMA ConnectStep ==
  ASSUME IInv, Connect
  PROVE  IInv'
<1>1. /\ pc = "connect"
      /\ UNCHANGED <<inst, dbs, roles, tables, acl, tampered, verified, cause>>
  BY DEF Connect, grantVars, sqlVars
<1>2. AclOK' /\ acl \subseteq acl'
  BY <1>1, IInvAcl DEF AclOK
<1>3. CASE Connection = "connected" /\ GoTo("grant1")
  <2>1. pc' = "grant1" /\ UNCHANGED <<store, key, obj>>
    BY <1>3 DEF GoTo
  <2>2. KubeInv'
    BY <1>1, <1>3, GoToKeeps DEF IInv
  <2>3. TypeOK'
    BY <1>1, <1>2, <2>1, <2>2, IInvAcl, WorkTypes DEF LivePc, GrantPcs
  <2>4. <<opts.ns, obj.spec.database>> \in dbs
    BY <1>3 DEF Connection, connectToDatabase, opts, Opts
  <2>5. opts' = opts
    BY <2>1 DEF opts, Opts, PgNamespace
  <2>6. Phases'
    BY <1>1, <2>1, <2>4, <2>5 DEF IInv, Phases, LivePc, DropPc, RevokePcs
  <2>7. Given' /\ Taken'
    BY <2>1 DEF Given, Taken, Revoked
  <2> QED
    BY <1>1, <2>1, <2>2, <2>3, <2>6, <2>7, EarnedElse DEF IInv
<1>4. CASE Failed("connect", quota)
  BY <1>1, <1>2, <1>4, IInvAcl, FailedStep DEF Message
<1> QED
  BY <1>3, <1>4, PcNames DEF Connect, GrantPc

\* A statement of GrantPrivileges.
LEMMA GrantStep ==
  ASSUME IInv, NEW n \in 1 .. 5, GrantPrivileges(n)
  PROVE  IInv'
<1> DEFINE stmt == GrantStatements(opts)[n]
           E == stmt.entries
<1>1. pc = GrantPc[n] /\ UNCHANGED <<inst, dbs, roles, tables, tampered, cause>>
  BY DEF GrantPrivileges
<1>2. pc \in GrantPcs /\ pc # "idle" /\ Len(GrantPc) = 5
  BY <1>1, PcNames DEF GrantPcs
<1>3. quota > 0 => quota - 1 \in 0 .. MaxDisturbances
  BY KubeAssumption, IInvAcl
<1>4. CASE ~stmt.ok /\ Failed("create", quota) /\ UNCHANGED <<acl, verified>>
  <2>1. AclOK'
    BY <1>1, <1>4, IInvAcl DEF AclOK
  <2> QED
    BY <1>1, <1>2, <1>4, <2>1, IInvAcl, FailedStep DEF Message
<1>5. CASE /\ quota > 0 /\ Failed("create", quota - 1)
           /\ acl' \in {acl, IF stmt.ok THEN acl \cup E ELSE acl}
           /\ UNCHANGED verified
  <2>1. AclOK'
    BY <1>1, <1>5, GrantAcl
  <2> QED
    BY <1>1, <1>2, <1>3, <1>5, <2>1, FailedStep DEF Message
<1>6. ASSUME stmt.ok, acl' = acl \cup E, NEW next, GoTo(next),
             \/ n < 5 /\ next = GrantPc[n + 1] /\ verified' = verified
             \/ /\ n = 5 /\ next = IF obj.finalizer THEN "ready" ELSE "finalize"
                /\ verified' = verified \cup {<<key, obj.uid, obj.spec>>}
      PROVE  IInv'
  <2>1. pc' = next /\ UNCHANGED <<store, key, obj>>
    BY <1>6 DEF GoTo
  <2>2. ~obj.deleting
    BY <1>2 DEF IInv, Phases, LivePc
  <2>3. \/ n = 1 /\ pc = "grant1" /\ E = OnDatabase(opts) /\ pc' = "grant2"
        \/ n = 2 /\ pc = "grant2" /\ E = OnTables(opts) /\ pc' = "grant3"
        \/ n = 3 /\ pc = "grant3" /\ E = OnDefault(opts) /\ pc' = "grant4"
        \/ n = 4 /\ pc = "grant4" /\ E = OnSchema(opts, "USAGE") /\ pc' = "grant5"
        \/ /\ n = 5 /\ pc = "grant5" /\ E = OnSchema(opts, "CREATE")
           /\ pc' = IF obj.finalizer THEN "ready" ELSE "finalize"
    BY <1>1, <1>6, <2>1, GrantTable
  <2> HIDE DEF E, stmt
  <2>4. KubeInv'
    BY <1>6, <2>1, <2>2, <2>3, GoToKeeps DEF IInv
  <2>5. AclOK'
    BY <1>1, <1>6, GrantAcl DEF stmt, E
  <2>6. key \in CR /\ obj.uid \in Nat /\ obj.spec \in Specs
    BY <1>2, optsType
  <2>7. TypeOK'
    BY <1>1, <1>6, <2>3, <2>4, <2>5, <2>6, IInvAcl, WorkTypes DEF LivePc, GrantPcs
  <2>8. opts' = opts
    BY <2>1 DEF opts, Opts, PgNamespace
  <2>9. Phases'
    BY <1>1, <1>2, <1>6, <2>1, <2>2, <2>3, <2>8
       DEF IInv, Phases, LivePc, DropPc, GrantPcs, RevokePcs
  <2>10. /\ OnDatabase(opts)' = OnDatabase(opts) /\ OnDefault(opts)' = OnDefault(opts)
         /\ OnSchema(opts, "USAGE")' = OnSchema(opts, "USAGE")
         /\ OnSchema(opts, "CREATE")' = OnSchema(opts, "CREATE")
    BY <2>8 DEF OnDatabase, OnDefault, OnSchema, Entries, Expand
  <2>11. Given'
    BY <1>1, <1>6, <2>3, <2>10 DEF IInv, Given
  <2>12. Taken'
    BY <2>3 DEF Taken, Revoked
  <2>13. Earned'
    BY <1>1, <1>6, <2>1, EarnedElse
  <2> QED
    BY <2>4, <2>7, <2>9, <2>11, <2>12, <2>13 DEF IInv
<1>7. CASE /\ stmt.ok /\ acl' = acl \cup E
           /\ IF n < 5
                THEN GoTo(GrantPc[n + 1]) /\ UNCHANGED verified
                ELSE /\ GoTo(IF obj.finalizer THEN "ready" ELSE "finalize")
                     /\ verified' = verified \cup {<<key, obj.uid, obj.spec>>}
  BY <1>6, <1>7
<1> QED
  BY <1>2, <1>4, <1>5, <1>7 DEF GrantPrivileges

\* The finalizer is added, whether or not the worker learns of it.
LEMMA AddFinalizerStep ==
  ASSUME IInv, AddFinalizer
  PROVE  IInv'
<1>1. /\ pc = "finalize" /\ UNCHANGED <<sqlVars, verified, cause>>
      /\ UNCHANGED <<inst, dbs, roles, tables, acl, tampered>>
  BY DEF AddFinalizer, grantVars, sqlVars
<1>2. AclOK'
  BY <1>1, IInvAcl DEF AclOK
<1>3. CASE UpdateConflict \/ UpdateError
  <2>1. KubeInv'
    BY <1>1, <1>3, UpdateFailedKeeps DEF IInv
  <2>2. pc' = "idle" /\ store' = store
    BY <1>3 DEF UpdateConflict, UpdateError, Return
  <2> QED
    BY <1>1, <2>1, <2>2, IInvAcl, IdleStep
<1>4. CASE UpdateAddFinalizer("ready") \/ UpdateReplyLost(WithFinalizer)
  <2>1. Current /\ Put(key, WithFinalizer)
    BY <1>4 DEF UpdateAddFinalizer, UpdateReplyLost
  <2>2. key \in CR /\ obj = store[key]
    BY <1>1, <2>1, CurrentObject DEF IInv
  <2>3. /\ WithFinalizer.uid = obj.uid /\ WithFinalizer.spec = obj.spec
        /\ WithFinalizer.deleting = FALSE
        /\ WithFinalizer.cond = obj.cond /\ WithFinalizer.gen = obj.gen
        /\ obj.exists
    BY <1>1, <2>1, WithFinalizerSound DEF IInv, KubeInv, InHand
  <2>4. Ready(WithFinalizer) => Ready(store[key])
    BY <2>2, <2>3 DEF Ready
  <2>5. Ready(WithFinalizer) => <<key, WithFinalizer.uid, WithFinalizer.spec>> \in verified
    BY <2>2, <2>3, <2>4 DEF IInv, Earned, Verified
  <2>6. Ready(WithFinalizer) /\ ~tampered /\ Owned(key, Opts(key, WithFinalizer.spec))
          => Lasting(Opts(key, WithFinalizer.spec)) \subseteq acl
    BY <2>2, <2>3, <2>4 DEF IInv, Earned, Kept
  <2>7. Earned'
    BY <1>1, <2>1, <2>2, <2>3, <2>5, <2>6, EarnedWrite DEF Put
  <2>8. CASE UpdateAddFinalizer("ready")
    <3>1. KubeInv'
      BY <1>1, <2>8, UpdateAddFinalizerKeeps DEF IInv
    <3>2. pc' = "ready" /\ key' = key /\ obj' = WithFinalizer
      BY <2>8 DEF UpdateAddFinalizer
    <3>3. opts' = opts
      BY <2>3, <3>2 DEF opts, Opts, PgNamespace
    <3>4. TypeOK'
      BY <1>1, <1>2, <3>1, <3>2, IInvAcl, WorkTypes DEF LivePc
    <3>5. Phases'
      BY <1>1, <2>3, <3>2 DEF IInv, Phases, LivePc, DropPc, GrantPcs, RevokePcs
    <3>6. /\ OnDatabase(opts)' = OnDatabase(opts) /\ OnDefault(opts)' = OnDefault(opts)
          /\ OnSchema(opts, "USAGE")' = OnSchema(opts, "USAGE")
          /\ OnSchema(opts, "CREATE")' = OnSchema(opts, "CREATE")
      BY <3>3 DEF OnDatabase, OnDefault, OnSchema, Entries, Expand
    <3>7. Given'
      BY <1>1, <3>2, <3>6 DEF IInv, Given
    <3>8. Taken'
      BY <3>2 DEF Taken, Revoked
    <3> QED
      BY <2>7, <3>1, <3>4, <3>5, <3>7, <3>8 DEF IInv
  <2>9. CASE UpdateReplyLost(WithFinalizer)
    <3>1. KubeInv'
      BY <1>1, <2>9, UpdateReplyLostKeeps DEF IInv
    <3>2. pc' = "idle"
      BY <2>9 DEF UpdateReplyLost, Return
    <3>3. TypeOK'
      BY <1>1, <1>2, <3>1, <3>2, IInvAcl, WorkTypes
    <3> QED
      BY <2>7, <3>1, <3>2, <3>3, IdlePhases DEF IInv
  <2> QED
    BY <1>4, <2>8, <2>9
<1> QED
  BY <1>3, <1>4 DEF AddFinalizer

\* Ready=True lands on the incarnation that earned it; if the generation is
\* still the one the worker read, so is the spec.
LEMMA MarkReadyStep ==
  ASSUME IInv, MarkReady
  PROVE  IInv'
<1>1. /\ pc = "ready"
      /\ Report("True", "exists", quota, requeueResult(obj.spec))
      /\ UNCHANGED <<inst, dbs, roles, tables, acl, tampered, verified, cause>>
  BY DEF MarkReady, Succeeded, grantVars, sqlVars
<1>2. KubeInv'
  BY <1>1, ReportKeeps, IInvAcl DEF IInv, Message
<1>3. pc' = "idle"
  BY <1>1, ReportCases DEF Return
<1>4. AclOK'
  BY <1>1, IInvAcl DEF AclOK
<1>5. TypeOK'
  BY <1>1, <1>2, <1>3, <1>4, IInvAcl, WorkTypes
<1>6. CASE store' = store
  BY <1>1, <1>2, <1>3, <1>5, <1>6, IdlePhases, EarnedElse DEF IInv
<1>7. CASE store[key].exists /\ Put(key, Patched("True", "exists"))
  <2> DEFINE n == Patched("True", "exists")
             w == store[key]
  <2>1. /\ key \in CR /\ n.uid = w.uid /\ n.deleting = w.deleting
        /\ n.spec = w.spec /\ n.gen = w.gen /\ n.cond.gen = obj.gen
    BY <1>1, <1>7, PatchedSound DEF IInv, Message
  <2>2. store' = [store EXCEPT ![key] = n]
    BY <1>7 DEF Put
  <2> HIDE DEF n
  <2>3. /\ obj.uid = w.uid /\ <<key, obj.uid, obj.spec>> \in verified
        /\ obj.gen = w.gen => obj.spec = w.spec /\ ~w.deleting
    BY <1>1 DEF IInv, KubeInv, InHand, Precedes, Phases
  <2>4. ~tampered => Lasting(opts) \subseteq acl
    BY <1>1 DEF IInv, Given, Lasting
  <2>5. Ready(n) => n.spec = obj.spec /\ ~n.deleting
    BY <2>1, <2>3 DEF Ready
  <2>6. Earned'
    BY <1>1, <2>1, <2>2, <2>3, <2>4, <2>5, EarnedWrite DEF opts
  <2> QED
    BY <1>2, <1>3, <1>5, <2>6, IdlePhases DEF IInv
<1> QED
  BY <1>1, <1>6, <1>7, ReportCases

---------------------------------------------------------------------------
(* handleDeletion.                                                         *)

\* What the worker's statements are about is no lasting privilege of another
\* resource that owns its role and database.
LEMMA OthersApart ==
  ASSUME IInv, pc # "idle", NEW cr \in CR \ {key},
         Owned(cr, Opts(cr, store[cr].spec)),
         NEW E \in {OnDatabase(opts), OnTables(opts), OnDefault(opts),
                    OnSchema(opts, "USAGE"), OnSchema(opts, "CREATE")}
  PROVE  E \cap Lasting(Opts(cr, store[cr].spec)) = {}
<1> DEFINE o == Opts(cr, store[cr].spec)
<1>1. /\ key \in CR /\ obj.spec \in SpecOf[key] /\ obj.spec \in Specs
      /\ opts = Opts(key, obj.spec) /\ TypeOK
  BY optsType DEF IInv
<1>2. store[cr].spec \in Specs /\ o.spec = store[cr].spec
  BY Fields, OptsType DEF IInv, KubeInv, KubeTypeOK
<1>3. <<opts.ns, obj.spec.role, obj.spec.database>>
        # <<o.ns, store[cr].spec.role, store[cr].spec.database>>
  BY <1>1, <1>2 DEF Owned
<1>4. \A e \in E : e.ns = opts.ns /\ e.role = obj.spec.role /\ e.db = obj.spec.database
  BY <1>1, StatementEntries
<1>5. \A e \in Lasting(o) : /\ e.ns = o.ns /\ e.role = store[cr].spec.role
                            /\ e.db = store[cr].spec.database
  BY <1>1, <1>2, StatementEntries DEF Lasting
<1> QED
  BY <1>3, <1>4, <1>5

\* What RevokePrivileges takes is nothing that an owner that is Ready was
\* given: not another resource, by ownership, and not a later incarnation of
\* this one, which would lack the finalizer.
LEMMA NoVictim ==
  ASSUME IInv, pc \in DropPc, NEW cr \in CR, Ready(store[cr]),
         Owned(cr, Opts(cr, store[cr].spec)),
         NEW E \in {OnDatabase(opts), OnTables(opts), OnDefault(opts),
                    OnSchema(opts, "USAGE"), OnSchema(opts, "CREATE")}
  PROVE  E \cap Lasting(Opts(cr, store[cr].spec)) = {}
<1>1. key \in CR /\ obj.deleting /\ pc # "idle"
  BY optsType DEF IInv, Phases, DropPc, RevokePcs
<1>2. cr # key
  <2> SUFFICES ASSUME cr = key PROVE FALSE
    OBVIOUS
  <2>1. ~store[key].deleting /\ store[key].finalizer
    BY DEF Ready, IInv, KubeInv, Conditions, Earned, Verified
  <2>2. obj.uid = store[key].uid /\ store[key].deleting
    BY <1>1, <2>1 DEF IInv, KubeInv, InHand, Precedes
  <2> QED
    BY <2>1, <2>2
<1> QED
  BY <1>1, <1>2, OthersApart

\* A statement of RevokePrivileges keeps the lists proper, and Earned.
LEMMA RevokeKeeps ==
  ASSUME IInv, NEW n \in 1 .. 4, pc = RevokePc[n], store' = store,
         acl' \in {acl, acl \ RevokeStatements(opts)[n].entries},
         UNCHANGED <<dbs, roles, tables, tampered, verified>>
  PROVE  AclOK' /\ Earned'
<1> DEFINE E == RevokeStatements(opts)[n].entries
<1>1. pc \in DropPc
  BY PcNames DEF DropPc
<1>2. E \in {OnDatabase(opts), OnTables(opts), OnDefault(opts),
             OnSchema(opts, "USAGE"), OnSchema(opts, "CREATE")}
  BY RevokeTable
<1> HIDE DEF E
<1>3. acl' \in {acl, acl \ E}
  BY DEF E
<1>4. AclOK'
  BY <1>3, IInvAcl DEF AclOK
<1>5. ASSUME NEW cr \in CR, Ready(store[cr]), Owned(cr, Opts(cr, store[cr].spec)),
             Lasting(Opts(cr, store[cr].spec)) \subseteq acl
      PROVE  Lasting(Opts(cr, store[cr].spec)) \subseteq acl'
  <2>1. E \cap Lasting(Opts(cr, store[cr].spec)) = {}
    BY <1>1, <1>2, <1>5, NoVictim
  <2> QED
    BY <1>3, <1>5, <2>1
<1> QED
  BY <1>4, <1>5, EarnedElse

\* An error of handleDeletion, possibly after a statement took effect.
LEMMA DeletionErrorStep ==
  ASSUME IInv, pc \in DropPc, NEW left, DeletionError(left),
         left = quota \/ (quota > 0 /\ left = quota - 1),
         UNCHANGED <<inst, verified>>, AclOK', Earned'
  PROVE  IInv'
<1>1. left \in 0 .. MaxDisturbances /\ pc # "idle"
  BY KubeAssumption, IInvAcl DEF DropPc, RevokePcs
<1>2. KubeInv'
  BY <1>1, ReturnKeeps DEF IInv, DeletionError
<1>3. pc' = "idle" /\ cause' = cause
  BY DEF DeletionError, Return
<1>4. TypeOK'
  BY <1>2, <1>3, IInvAcl, WorkTypes
<1> QED
  BY <1>2, <1>3, <1>4, IdlePhases DEF IInv

\* connectToDatabase in handleDeletion.
LEMMA ConnectRevokeStep ==
  ASSUME IInv, ConnectRevoke
  PROVE  IInv'
<1>1. /\ pc = "connectRevoke" /\ pc \in DropPc
      /\ UNCHANGED <<inst, dbs, roles, tables, acl, tampered, verified>>
  BY DEF ConnectRevoke, sqlVars, DropPc
<1>2. AclOK'
  BY <1>1, IInvAcl DEF AclOK
<1>3. obj.deleting /\ obj.spec.cleanupPolicy = "Delete"
  BY <1>1 DEF IInv, Phases
<1>4. ASSUME NEW next \in {"revoke1", "release"}, GoTo(next),
             cause' \in {"none", "policy", "revoked", "notFound"},
             next = "release" => cause' = "notFound"
      PROVE  IInv'
  <2>1. pc' = next /\ UNCHANGED <<store, key, obj>>
    BY <1>4 DEF GoTo
  <2>2. KubeInv'
    BY <1>1, <1>3, <1>4, GoToKeeps DEF IInv
  <2>3. TypeOK'
    BY <1>1, <1>2, <1>4, <2>1, <2>2, IInvAcl, WorkTypes DEF DropPc, RevokePcs
  <2>4. Phases'
    BY <1>3, <1>4, <2>1 DEF Phases, LivePc, DropPc, GrantPcs, RevokePcs
  <2>5. Given' /\ Taken'
    BY <1>4, <2>1 DEF Given, Taken, Revoked
  <2>6. Earned'
    BY <1>1, <2>1, EarnedElse
  <2> QED
    BY <2>2, <2>3, <2>4, <2>5, <2>6 DEF IInv
<1>5. CASE GoTo(RevokePc[1]) /\ UNCHANGED cause
  <2>1. RevokePc[1] = "revoke1"
    BY DEF RevokePc
  <2> QED
    BY <1>4, <1>5, <2>1, IInvAcl
<1>6. CASE GoTo("release") /\ cause' = "notFound"
  BY <1>4, <1>6
<1>7. CASE DeletionError(quota)
  <2>1. Earned'
    BY <1>1, <1>7, EarnedElse DEF DeletionError
  <2> QED
    BY <1>1, <1>2, <1>7, <2>1, DeletionErrorStep
<1> QED
  BY <1>5, <1>6, <1>7 DEF ConnectRevoke

\* A statement of RevokePrivileges.
LEMMA RevokeStep ==
  ASSUME IInv, NEW n \in 1 .. 4, RevokePrivileges(n)
  PROVE  IInv'
<1> DEFINE stmt == RevokeStatements(opts)[n]
           E == stmt.entries
<1>1. pc = RevokePc[n] /\ UNCHANGED <<inst, dbs, roles, tables, tampered, verified>>
  BY DEF RevokePrivileges
<1>2. pc \in RevokePcs /\ pc \in DropPc /\ pc # "idle" /\ Len(RevokePc) = 4
  BY <1>1, PcNames DEF RevokePcs, DropPc
<1>3. CASE ~stmt.ok /\ DeletionError(quota) /\ UNCHANGED acl
  BY <1>1, <1>2, <1>3, RevokeKeeps, DeletionErrorStep DEF DeletionError
<1>4. CASE /\ quota > 0 /\ DeletionError(quota - 1)
           /\ acl' \in {acl, IF stmt.ok THEN acl \ E ELSE acl}
  BY <1>1, <1>2, <1>4, RevokeKeeps, DeletionErrorStep DEF DeletionError
<1>5. ASSUME acl' = acl \ E, NEW next, GoTo(next),
             \/ n < 4 /\ next = RevokePc[n + 1] /\ cause' = cause
             \/ n = 4 /\ next = "release" /\ cause' = "revoked"
      PROVE  IInv'
  <2>1. pc' = next /\ UNCHANGED <<store, key, obj>>
    BY <1>5 DEF GoTo
  <2>2. obj.deleting /\ obj.spec.cleanupPolicy = "Delete"
    BY <1>2 DEF IInv, Phases
  <2>3. \/ n = 1 /\ pc = "revoke1" /\ E = OnDefault(opts) /\ pc' = "revoke2"
        \/ n = 2 /\ pc = "revoke2" /\ E = OnTables(opts) /\ pc' = "revoke3"
        \/ n = 3 /\ pc = "revoke3" /\ E = OnSchema(opts, "CREATE") /\ pc' = "revoke4"
        \/ n = 4 /\ pc = "revoke4" /\ E = OnDatabase(opts) /\ pc' = "release"
    BY <1>1, <1>5, <2>1, RevokeTable
  <2>4. AclOK' /\ Earned'
    BY <1>1, <1>5, <2>1, RevokeKeeps
  <2> HIDE DEF E, stmt
  <2>5. KubeInv'
    BY <1>5, <2>1, <2>2, <2>3, GoToKeeps DEF IInv
  <2>6. TypeOK'
    BY <1>1, <1>5, <2>3, <2>4, <2>5, IInvAcl, WorkTypes DEF DropPc, RevokePcs
  <2>7. Phases'
    BY <2>1, <2>2, <2>3 DEF Phases, LivePc, DropPc, GrantPcs, RevokePcs
  <2>8. opts' = opts
    BY <2>1 DEF opts, Opts, PgNamespace
  <2>9. /\ OnDatabase(opts)' = OnDatabase(opts) /\ OnDefault(opts)' = OnDefault(opts)
        /\ OnSchema(opts, "CREATE")' = OnSchema(opts, "CREATE")
        /\ AnyTable(opts)' = AnyTable(opts)
    BY <2>8 DEF OnDatabase, OnDefault, OnSchema, AnyTable, Entries, Expand
  <2>10. AnyTable(opts) \cap acl \subseteq OnTables(opts)
    BY <1>2, optsType, TablesListed DEF IInv
  <2>11. Given'
    BY <2>3 DEF Given
  <2>12. Taken'
    BY <1>5, <2>3, <2>9, <2>10 DEF IInv, Taken, Revoked
  <2> QED
    BY <2>4, <2>5, <2>6, <2>7, <2>11, <2>12 DEF IInv
<1>6. CASE /\ stmt.ok /\ acl' = acl \ E
           /\ IF n < 4
                THEN GoTo(RevokePc[n + 1]) /\ UNCHANGED cause
                ELSE GoTo("release") /\ cause' = "revoked"
  BY <1>5, <1>6
<1> QED
  BY <1>2, <1>3, <1>4, <1>6 DEF RevokePrivileges

\* The finalizer is removed, whether or not the worker learns of it.
LEMMA RemoveFinalizerStep ==
  ASSUME IInv, RemoveFinalizer
  PROVE  IInv'
<1>1. /\ pc = "release" /\ cause' = "none" /\ UNCHANGED <<sqlVars, verified>>
      /\ UNCHANGED <<inst, dbs, roles, tables, acl, tampered>>
  BY DEF RemoveFinalizer, sqlVars
<1>2. CASE UpdateConflict \/ UpdateError
  <2>1. KubeInv'
    BY <1>1, <1>2, UpdateFailedKeeps DEF IInv
  <2>2. pc' = "idle" /\ store' = store
    BY <1>2 DEF UpdateConflict, UpdateError, Return
  <2> QED
    BY <1>1, <2>1, <2>2, IdleStep
<1>3. CASE UpdateRemoveFinalizer \/ UpdateReplyLost(WithoutFinalizer)
  <2>1. Current /\ Put(key, WithoutFinalizer) /\ pc' = "idle"
    BY <1>3 DEF UpdateRemoveFinalizer, UpdateReplyLost, Return
  <2>2. KubeInv'
    BY <1>1, <1>3, UpdateRemoveFinalizerKeeps, UpdateReplyLostKeeps DEF IInv
  <2>3. AclOK'
    BY <1>1, IInvAcl DEF AclOK
  <2>4. TypeOK'
    BY <1>1, <2>1, <2>2, <2>3, IInvAcl, WorkTypes
  <2>5. /\ key \in CR /\ obj = store[key] /\ obj.exists /\ obj.deleting
        /\ WithoutFinalizer.gen = obj.gen /\ WithoutFinalizer.cond = obj.cond
    BY <1>1, <2>1, CurrentObject, WithoutFinalizerSound DEF IInv, KubeInv, InHand
  <2>6. ~Ready(WithoutFinalizer)
    BY <2>5 DEF Ready, IInv, Earned, Verified
  <2>7. Earned'
    BY <1>1, <2>1, <2>5, <2>6, EarnedWrite DEF Put
  <2> QED
    BY <2>1, <2>2, <2>4, <2>7, IdlePhases DEF IInv
<1> QED
  BY <1>2, <1>3 DEF RemoveFinalizer

---------------------------------------------------------------------------
(* The inductive invariant.                                                *)

\* The initial states.
LEMMA InitIInv == Init => IInv
<1> SUFFICES ASSUME Init PROVE IInv
  OBVIOUS
<1>1. KubeInv /\ pc = "idle" /\ store = [cr \in CR |-> Never]
  BY KubeInitInv DEF Init, KubeInit
<1>2. TypeOK
  BY <1>1 DEF Init, InstInit, KubeInv, TypeOK, InstTypeOK
<1>3. Phases /\ Given /\ Taken
  BY <1>1 DEF Phases, Given, Taken, Revoked, LivePc, DropPc, GrantPcs, RevokePcs
<1>4. ~Ready(Never)
  BY DEF Never, Ready
<1> HIDE DEF Never
<1>5. Earned
  BY <1>1, <1>4 DEF Earned, Verified, Kept
<1> QED
  BY <1>1, <1>2, <1>3, <1>5 DEF IInv

\* The worker's steps keep the inductive invariant.
LEMMA WorkStep ==
  ASSUME IInv, Work
  PROVE  IInv'
<1>1. ASSUME NEW n \in 1 .. Len(GrantPc), GrantPrivileges(n) PROVE IInv'
  BY <1>1, GrantStep, PcNames
<1>2. ASSUME NEW n \in 1 .. Len(RevokePc), RevokePrivileges(n) PROVE IInv'
  BY <1>2, RevokeStep, PcNames
<1> QED
  BY <1>1, <1>2, ConnectStep, AddFinalizerStep, MarkReadyStep, ConnectRevokeStep,
     RemoveFinalizerStep DEF Work

\* Every step keeps the inductive invariant.
LEMMA NextIInv == IInv /\ [Next]_vars => IInv'
<1> SUFFICES ASSUME IInv, [Next]_vars PROVE IInv'
  OBVIOUS
<1>1. ASSUME NEW cr \in CR, Users(cr), UNCHANGED grantVars PROVE IInv'
  BY <1>1, UsersStep
<1>2. ASSUME NEW cr \in CR, ReleaseHold(cr), UNCHANGED grantVars PROVE IInv'
  BY <1>2, UsersStep
<1>3. ASSUME NEW cr \in CR, Deliver(cr), UNCHANGED grantVars PROVE IInv'
  BY <1>3, DeliverStep
<1>4. ASSUME Restart, cause' = "none", UNCHANGED <<sqlVars, verified>> PROVE IInv'
  BY <1>4, RestartStep
<1>5. ASSUME NEW ns \in Namespace, InstChange(ns),
             UNCHANGED <<dbs, roles, tables, acl, tampered, verified, cause>>
      PROVE  IInv'
  BY <1>5, InstChangeStep
<1>6. CASE OtherClient
  BY <1>6, OtherClientStep
<1>7. ASSUME NEW cr \in CR, Take(cr) PROVE IInv'
  BY <1>7, TakeStep
<1>8. CASE Work
  BY <1>8, WorkStep
<1>9. CASE UNCHANGED vars
  <2>1. UNCHANGED <<store, watch, cache, queue, pc, key, obj, quota>>
    BY <1>9 DEF vars, kubeVars
  <2>2. UNCHANGED <<inst, dbs, roles, tables, acl, tampered, verified, cause>>
    BY <1>9 DEF vars, grantVars, sqlVars
  <2>3. KubeInv'
    BY <2>1 DEF IInv, KubeInv, KubeTypeOK, Ordered, Finalized, Conditions,
                InHand, Informer
  <2>4. TypeOK'
    BY <2>1, <2>2, <2>3 DEF IInv, KubeInv, TypeOK, InstTypeOK
  <2>5. Earned'
    BY <2>1, <2>2, EarnedElse
  <2>6. Phases' /\ Given' /\ Taken'
    BY <2>1, <2>2, PhasesStay
  <2> QED
    BY <2>3, <2>4, <2>5, <2>6 DEF IInv
<1> QED
  BY <1>1, <1>2, <1>3, <1>4, <1>5, <1>6, <1>7, <1>8, <1>9 DEF Next

---------------------------------------------------------------------------
(* Nothing is forgotten.                                                   *)

\* The worker's steps lose no resource that is due.
LEMMA WorkAttends ==
  ASSUME IInv, Attention, Work
  PROVE  Attention'
<1>1. KubeInv /\ (pc \in LivePc => ~obj.deleting)
  BY DEF IInv, Phases
<1>2. ASSUME NEW message, NEW left, Failed(message, left), pc \in LivePc
      PROVE  Attention'
  BY <1>1, <1>2, ReportAttends, SanePositive DEF Failed, LivePc, GrantPcs
<1>3. CASE MarkReady
  BY <1>1, <1>3, ReportAttends, SanePositive DEF MarkReady, Succeeded, LivePc
<1>4. ASSUME NEW next, next # "idle", pc # "idle", GoTo(next) PROVE Attention'
  BY <1>4, StayAttends DEF GoTo
<1>5. ASSUME NEW left, pc # "idle", DeletionError(left) PROVE Attention'
  <2>1. Return(TRUE) /\ UNCHANGED <<store, watch, cache>>
    BY <1>5, RequeueAssumption DEF DeletionError, Return
  <2> QED
    BY <1>1, <1>5, <2>1, ReturnAttend
<1>6. CASE Connect
  BY <1>2, <1>4, <1>6 DEF Connect, LivePc, GrantPc
<1>7. ASSUME NEW n \in 1 .. 5, GrantPrivileges(n) PROVE Attention'
  <2>1. pc = GrantPc[n] /\ pc \in LivePc /\ pc # "idle"
    BY <1>7, PcNames DEF GrantPrivileges, LivePc, GrantPcs
  <2>2. CASE \E next : next # "idle" /\ GoTo(next)
    BY <2>1, <2>2, <1>4
  <2>3. CASE \E left : Failed("create", left)
    BY <2>1, <2>3, <1>2
  <2>4. n < 5 => GrantPc[n + 1] # "idle"
    BY DEF GrantPc
  <2>5. Len(GrantPc) = 5
    BY PcNames
  <2> QED
    BY <1>7, <2>2, <2>3, <2>4, <2>5 DEF GrantPrivileges
<1>8. CASE ConnectRevoke
  BY <1>4, <1>5, <1>8 DEF ConnectRevoke, RevokePc
<1>9. ASSUME NEW n \in 1 .. 4, RevokePrivileges(n) PROVE Attention'
  <2>1. pc = RevokePc[n] /\ pc # "idle"
    BY <1>9, PcNames DEF RevokePrivileges, RevokePcs
  <2>2. CASE \E next : next # "idle" /\ GoTo(next)
    BY <2>1, <2>2, <1>4
  <2>3. CASE \E left : DeletionError(left)
    BY <2>1, <2>3, <1>5
  <2>4. n < 4 => RevokePc[n + 1] # "idle"
    BY DEF RevokePc
  <2>5. Len(RevokePc) = 4
    BY PcNames
  <2> QED
    BY <1>9, <2>2, <2>3, <2>4, <2>5 DEF RevokePrivileges
<1>10. CASE AddFinalizer
  <2>1. pc # "idle"
    BY <1>10 DEF AddFinalizer
  <2>2. CASE UpdateAddFinalizer("ready")
    BY <1>1, <2>1, <2>2, AddFinalizerAttends
  <2> QED
    BY <1>1, <1>10, <2>1, <2>2, UpdateAttends DEF AddFinalizer
<1>11. CASE RemoveFinalizer
  BY <1>1, <1>11, UpdateAttends DEF RemoveFinalizer
<1> QED
  BY <1>3, <1>6, <1>7, <1>8, <1>9, <1>10, <1>11, PcNames DEF Work

\* Neither do the other steps.
LEMMA NextAttends == IInv /\ Attention /\ [Next]_vars => Attention'
<1> SUFFICES ASSUME IInv, Attention, [Next]_vars PROVE Attention'
  OBVIOUS
<1>1. KubeInv
  BY DEF IInv
<1>2. ASSUME NEW cr \in CR, Users(cr) \/ ReleaseHold(cr) PROVE Attention'
  <2>1. PICK n : Put(cr, n)
    BY <1>1, <1>2, OthersKeep DEF Users
  <2>2. UNCHANGED <<cache, queue, pc, key, obj>>
    BY <1>2 DEF Users, UserCreate, UserEdit, UserDelete, ReleaseHold
  <2> QED
    BY <1>1, <2>1, <2>2, OthersAttend
<1>3. ASSUME NEW cr \in CR, Deliver(cr) PROVE Attention'
  BY <1>1, <1>3, DeliverAttends
<1>4. CASE Restart
  BY <1>4, RestartAttends
<1>5. CASE (\E ns \in Namespace : InstChange(ns)) \/ OtherClient \/ UNCHANGED vars
  <2>1. UNCHANGED <<store, watch, cache, queue, pc, key, obj>>
    BY <1>5 DEF InstChange, OtherClient, vars, kubeVars
  <2> QED
    BY <2>1, StayAttends
<1>6. ASSUME NEW cr \in CR, Take(cr) PROVE Attention'
  <2>1. CASE ReconcileGone(cr)
    BY <2>1, ReconcileNothingAttends DEF ReconcileGone, Due
  <2>2. CASE ReconcileLive(cr) \/ handleDeletion(cr)
    <3>1. \E next : ReconcileObject(cr, next)
      BY <2>2 DEF ReconcileLive, handleDeletion
    <3> QED
      BY <1>1, <3>1, ReconcileObjectAttends
  <2> QED
    BY <1>6, <2>1, <2>2 DEF Take
<1>7. CASE Work
  BY <1>7, WorkAttends
<1> QED
  BY <1>2, <1>3, <1>4, <1>5, <1>6, <1>7 DEF Next

---------------------------------------------------------------------------
(* Theorems.                                                               *)

\* The inductive invariant holds in every behaviour of the controller.
THEOREM Invariance == Spec => []IInv
BY InitIInv, NextIInv, PTL DEF Spec

\* Every variable of the controller keeps its type; in particular privileges
\* are only held by roles that exist, on databases and tables that exist.
THEOREM TypeCorrect == Spec => []TypeOK
<1>1. IInv => TypeOK
  BY DEF IInv
<1> QED
  BY <1>1, Invariance, PTL

\* Ready=True for the current generation of a live resource was earned for
\* its spec, comes with the finalizer, and means that its role holds every
\* lasting privilege unless another resource or client may take it.
THEOREM GrantedWhenReady == Spec => []ReadyMeansGranted
<1>1. ASSUME IInv PROVE ReadyMeansGranted
  <2> SUFFICES ASSUME NEW cr \in CR, Ready(store[cr]), ~store[cr].deleting
               PROVE  /\ store[cr].finalizer
                      /\ <<cr, store[cr].uid, store[cr].spec>> \in verified
                      /\ ~tampered /\ Owned(cr, Opts(cr, store[cr].spec))
                           => Lasting(Opts(cr, store[cr].spec)) \subseteq acl
    BY DEF ReadyMeansGranted
  <2>1. store[cr].finalizer
    BY <1>1 DEF IInv, KubeInv, Conditions, Ready
  <2>2. <<cr, store[cr].uid, store[cr].spec>> \in verified
    BY <1>1 DEF IInv, Earned, Verified
  <2>3. ~tampered /\ Owned(cr, Opts(cr, store[cr].spec))
          => Lasting(Opts(cr, store[cr].spec)) \subseteq acl
    BY <1>1 DEF IInv, Earned, Kept
  <2> QED
    BY <2>1, <2>2, <2>3
<1> QED
  BY <1>1, Invariance, PTL

\* No resource that lives with sane intervals, or that waits for its cleanup,
\* is ever without a request, a reconcile or an undelivered version.
THEOREM NothingForgotten == Spec => []NeverForgotten
<1>1. Init => Attention
  BY InitAttends DEF Init
<1>2. Attention => NeverForgotten
  BY DEF Attention, Remembered, NeverForgotten
<1> QED
  BY <1>1, <1>2, NextAttends, Invariance, PTL DEF Spec

\* Only handleDeletion's Update takes the finalizer off a resource, from the
\* version the worker holds.
LEMMA WhoReleases ==
  ASSUME IInv, [Next]_vars, NEW cr \in CR,
         store[cr].finalizer, ~store'[cr].finalizer
  PROVE  pc = "release" /\ cr = key /\ obj = store[cr] /\ acl' = acl
<1>1. store \in [CR -> Version]
  BY DEF IInv, KubeInv, KubeTypeOK
<1>2. store' # store
  OBVIOUS
<1>3. ASSUME NEW c \in CR, Users(c) \/ ReleaseHold(c) PROVE FALSE
  <2>1. PICK n : Put(c, n) /\ Quiet(c, n)
    BY <1>3, OthersKeep DEF Users, IInv
  <2> QED
    BY <1>1, <2>1 DEF Put, Quiet
<1>4. ASSUME NEW status \in {"True", "False"}, NEW message \in Message, NEW left,
             pc # "idle", status = "True" => pc = "ready", NEW after,
             Report(status, message, left, after)
      PROVE  FALSE
  <2>1. store[key].exists /\ Put(key, Patched(status, message))
    BY <1>2, <1>4, ReportCases
  <2>2. Patched(status, message).finalizer = store[key].finalizer /\ key \in CR
    BY <1>4, <2>1, PatchedSound DEF IInv
  <2> QED
    BY <1>1, <2>1, <2>2 DEF Put
<1>5. CASE AddFinalizer
  <2>1. pc = "finalize" /\ Current /\ Put(key, WithFinalizer)
    BY <1>2, <1>5 DEF AddFinalizer, UpdateAddFinalizer, UpdateReplyLost,
                      UpdateConflict, UpdateError
  <2>2. WithFinalizer.finalizer = TRUE /\ key \in CR
    BY <2>1, WithFinalizerSound, CurrentObject DEF IInv
  <2> QED
    BY <1>1, <2>1, <2>2 DEF Put
<1>6. CASE RemoveFinalizer
  <2>1. pc = "release" /\ Current /\ Put(key, WithoutFinalizer) /\ acl' = acl
    BY <1>2, <1>6 DEF RemoveFinalizer, UpdateRemoveFinalizer, UpdateReplyLost,
                      UpdateConflict, UpdateError, sqlVars
  <2>2. obj = store[key] /\ key \in CR
    BY <2>1, CurrentObject DEF IInv
  <2> QED
    BY <1>1, <2>1, <2>2 DEF Put
<1>7. ASSUME NEW n \in 1 .. 5, GrantPrivileges(n) PROVE FALSE
  <2>1. pc # "idle" /\ \E left : Failed("create", left)
    BY <1>2, <1>7, PcNames DEF GrantPrivileges, GoTo, GrantPcs
  <2> QED
    BY <1>4, <2>1 DEF Failed, Message
<1>8. ASSUME Connect \/ MarkReady PROVE FALSE
  BY <1>2, <1>4, <1>8 DEF Connect, MarkReady, GoTo, Message, Failed, Succeeded
<1>9. CASE Work
  BY <1>2, <1>5, <1>6, <1>7, <1>8, <1>9, PcNames
     DEF Work, ConnectRevoke, RevokePrivileges, GoTo, DeletionError
<1>10. ASSUME NEW c \in CR, Take(c) PROVE FALSE
  BY <1>2, <1>10 DEF Take, ReconcileGone, ReconcileLive, handleDeletion,
     ReconcileNothing, ReconcileObject
<1> QED
  BY <1>2, <1>3, <1>9, <1>10 DEF Next, Deliver, Restart, InstChange, OtherClient,
     vars, kubeVars

\* A resource with cleanupPolicy Delete loses its finalizer only when its role
\* holds none of what RevokePrivileges takes back, on any table there is now,
\* or when connectToDatabase met a missing PostgreSQL resource.
THEOREM RevocationPrecedesRelease == Spec => RevokedBeforeRelease
<1> DEFINE B == \A cr \in CR :
                  LET v == store[cr]
                      o == Opts(cr, v.spec)
                  IN  /\ v.finalizer /\ ~store'[cr].finalizer
                      /\ v.spec.cleanupPolicy = "Delete"
                      => Revocable(o) \cap acl' = {} \/ cause = "notFound"
<1>1. IInv /\ [Next]_vars => [B]_vars
  <2> SUFFICES ASSUME IInv, [Next]_vars, NEW cr \in CR,
                      store[cr].finalizer, ~store'[cr].finalizer,
                      store[cr].spec.cleanupPolicy = "Delete", cause # "notFound"
               PROVE  Revocable(Opts(cr, store[cr].spec)) \cap acl' = {}
    OBVIOUS
  <2> DEFINE o == Opts(cr, store[cr].spec)
  <2>1. pc = "release" /\ cr = key /\ obj = store[cr] /\ acl' = acl
    BY WhoReleases
  <2>2. opts = o /\ Revoked
    BY <2>1 DEF opts, Revoked
  <2>3. /\ OnDefault(o) \cap acl = {} /\ AnyTable(o) \cap acl = {}
        /\ OnSchema(o, "CREATE") \cap acl = {} /\ OnDatabase(o) \cap acl = {}
    BY <2>2 DEF IInv, Taken
  <2>4. OnTables(o) \subseteq AnyTable(o)
    BY DEF OnTables, AnyTable, TablesOf, Entries, IInv, TypeOK
  <2> QED
    BY <2>1, <2>3, <2>4 DEF Revocable
<1> QED
  BY <1>1, Invariance, PTL DEF Spec, RevokedBeforeRelease

---------------------------------------------------------------------------
(* What a composition of controllers relies on.                            *)

\* The steps of the controller and of its informer, and users who delete.
Calm ==
  \/ \E cr \in CR : (UserDelete(cr) \/ Deliver(cr)) /\ UNCHANGED grantVars
  \/ \E cr \in CR : Take(cr)
  \/ Work

\* The worker is connected to no database but one that exists.
Connected == \A d \in Namespace \X Database : ConnectedTo(d) => d \in dbs

\* Others drop databases with all that is in them, but none that the worker
\* is connected to.
LEMMA DatabasesGo ==
  IInv /\ UNCHANGED <<store, watch, cache, queue, pc, key, obj, inst, roles>>
       /\ UNCHANGED <<verified, cause>>
       /\ quota' \in 0 .. MaxDisturbances
       /\ dbs' \subseteq Namespace \X Database
       /\ (\A d \in dbs : ConnectedTo(d) => d \in dbs')
       /\ acl' = {e \in acl : <<e.ns, e.db>> \in dbs'}
       /\ tables' = {t \in tables : <<t[1], t[2]>> \in dbs'}
       /\ tampered' = (tampered \/ acl' # acl)
    => IInv'
<1> SUFFICES ASSUME IInv, UNCHANGED <<store, watch, cache, queue, pc, key, obj, inst, roles>>,
                    UNCHANGED <<verified, cause>>,
                    quota' \in 0 .. MaxDisturbances, dbs' \subseteq Namespace \X Database,
                    \A d \in dbs : ConnectedTo(d) => d \in dbs',
                    acl' = {e \in acl : <<e.ns, e.db>> \in dbs'},
                    tables' = {t \in tables : <<t[1], t[2]>> \in dbs'},
                    tampered' = (tampered \/ acl' # acl)
             PROVE  IInv'
  OBVIOUS
<1>1. AclOK
  BY IInvAcl
<1>2. tampered' \in BOOLEAN
  BY <1>1 DEF AclOK
<1>3. \A e \in acl' : \A s \in Schema, t \in Table :
        e.item = <<"table", s, t>> => <<e.ns, e.db, s, t>> \in tables'
  BY <1>1 DEF AclOK
<1>4. AclOK'
  BY <1>1, <1>2, <1>3 DEF AclOK
<1>5. Passive
  BY <1>1 DEF AclOK, Passive
<1> QED
  BY <1>4, <1>5, OthersStep

\* Others create roles, and drop those that hold no privilege.
LEMMA RolesGo ==
  IInv /\ UNCHANGED <<store, watch, cache, queue, pc, key, obj, inst, dbs, acl, tables>>
       /\ UNCHANGED <<tampered, verified, cause>>
       /\ quota' \in 0 .. MaxDisturbances
       /\ roles' \subseteq Namespace \X Role
       /\ (\A e \in acl : <<e.ns, e.role>> \in roles')
    => IInv'
<1> SUFFICES ASSUME IInv,
                    UNCHANGED <<store, watch, cache, queue, pc, key, obj, inst, dbs, acl, tables>>,
                    UNCHANGED <<tampered, verified, cause>>,
                    quota' \in 0 .. MaxDisturbances, roles' \subseteq Namespace \X Role,
                    \A e \in acl : <<e.ns, e.role>> \in roles'
             PROVE  IInv'
  OBVIOUS
<1>1. AclOK /\ AclOK'
  BY IInvAcl DEF AclOK
<1>2. Passive
  BY DEF Passive
<1> QED
  BY <1>1, <1>2, OthersStep

\* A crash.
LEMMA Recovers ==
  IInv /\ Restart /\ cause' = "none" /\ UNCHANGED <<sqlVars, verified>>
    => IInv' /\ Connected'
<1> SUFFICES ASSUME IInv, Restart, cause' = "none", UNCHANGED <<sqlVars, verified>>
             PROVE  IInv' /\ Connected'
  OBVIOUS
<1> QED
  BY RestartStep DEF Connected, ConnectedTo, Restart

\* The controller's own steps.
LEMMA CalmNext == Calm => Next
BY DEF Calm, Next, Users

LEMMA CalmLeaves == Calm => UNCHANGED <<inst, dbs, roles, tables, tampered>>
BY DEF Calm, grantVars, sqlVars, Take, ReconcileGone, ReconcileLive, handleDeletion, Work,
   Connect, GrantPrivileges, AddFinalizer, MarkReady, ConnectRevoke, RevokePrivileges,
   RemoveFinalizer

\* Where the worker starts or ends a reconcile, it is not connected; between
\* them it stays with its database.
LEMMA ConnectedStays ==
  ASSUME Connected, dbs' = dbs,
         \/ pc' \in {"idle", "connect", "connectRevoke"}
         \/ pc' = "release" /\ cause' # "revoked"
         \/ /\ key' = key /\ obj'.spec = obj.spec
            /\ \/ pc \notin {"idle", "connect", "connectRevoke", "release"}
               \/ Connection = "connected"
  PROVE  Connected'
<1> SUFFICES ASSUME NEW d \in Namespace \X Database, ConnectedTo(d)'
             PROVE  d \in dbs
  BY DEF Connected
<1>1. /\ pc' \notin {"idle", "connect", "connectRevoke"}
      /\ pc' = "release" => cause' = "revoked"
      /\ <<PgNamespace(key', obj'.spec.postgresRef), obj'.spec.database>> = d
  BY DEF ConnectedTo, opts, Opts, PgNamespace
<1>2. /\ key' = key /\ obj'.spec = obj.spec
      /\ \/ pc \notin {"idle", "connect", "connectRevoke", "release"}
         \/ Connection = "connected"
  BY <1>1
<1>3. CASE Connection = "connected"
  BY <1>1, <1>2, <1>3 DEF Connection, connectToDatabase, PgNamespace
<1>4. CASE pc \notin {"idle", "connect", "connectRevoke", "release"}
  <2>1. ConnectedTo(d)
    BY <1>1, <1>2, <1>4 DEF ConnectedTo, opts, Opts, PgNamespace
  <2> QED
    BY <2>1 DEF Connected
<1> QED
  BY <1>2, <1>3, <1>4

LEMMA CalmConnected == IInv /\ Connected /\ Calm => Connected'
<1> SUFFICES ASSUME IInv, Connected, Calm PROVE Connected'
  OBVIOUS
<1>1. dbs' = dbs
  BY CalmLeaves
<1>2. ASSUME NEW cr \in CR, UserDelete(cr) \/ Deliver(cr), UNCHANGED grantVars
      PROVE  Connected'
  BY <1>2 DEF UserDelete, Deliver, grantVars, sqlVars, Connected, ConnectedTo, opts, Opts,
     PgNamespace
<1>3. ASSUME NEW cr \in CR, Take(cr) PROVE Connected'
  <2>1. CASE ReconcileGone(cr)
    BY <1>1, <2>1, ConnectedStays DEF ReconcileGone, ReconcileNothing, Get
  <2>2. CASE ReconcileLive(cr)
    BY <1>1, <2>2, ConnectedStays DEF ReconcileLive, ReconcileObject
  <2>3. CASE handleDeletion(cr)
    BY <1>1, <2>3, ConnectedStays DEF handleDeletion, ReconcileObject
  <2> QED
    BY <1>3, <2>1, <2>2, <2>3 DEF Take
<1>4. ASSUME pc' = "idle" PROVE Connected'
  BY <1>1, <1>4, ConnectedStays
<1>5. ASSUME NEW next, GoTo(next),
             \/ pc \notin {"idle", "connect", "connectRevoke", "release"}
             \/ Connection = "connected"
      PROVE  Connected'
  BY <1>1, <1>5, ConnectedStays DEF GoTo
<1>6. ASSUME NEW message, NEW left, Failed(message, left) PROVE Connected'
  BY <1>4, <1>6, ReportCases DEF Failed, Return
<1>7. ASSUME NEW left, DeletionError(left) PROVE Connected'
  BY <1>4, <1>7 DEF DeletionError, Return
<1>8. CASE Connect
  BY <1>5, <1>6, <1>8 DEF Connect
<1>9. ASSUME NEW n \in 1 .. 5, GrantPrivileges(n) PROVE Connected'
  <2>1. pc \in GrantPcs
    BY <1>9, PcNames DEF GrantPrivileges
  <2>2. pc \notin {"idle", "connect", "connectRevoke", "release"}
    BY <2>1 DEF GrantPcs
  <2>3. (\E next : GoTo(next)) \/ (\E message, left : Failed(message, left))
    BY <1>9 DEF GrantPrivileges
  <2> QED
    BY <1>5, <1>6, <2>2, <2>3
<1>10. CASE AddFinalizer
  <2>1. CASE UpdateAddFinalizer("ready")
    BY <1>1, <1>10, <2>1, WithFinalizerSound, ConnectedStays
       DEF AddFinalizer, UpdateAddFinalizer, IInv
  <2> QED
    BY <1>4, <1>10, <2>1 DEF AddFinalizer, UpdateConflict, UpdateError, UpdateReplyLost, Return
<1>11. CASE MarkReady \/ RemoveFinalizer
  BY <1>4, <1>11, ReportCases DEF MarkReady, Succeeded, RemoveFinalizer,
     UpdateRemoveFinalizer, UpdateConflict, UpdateError, UpdateReplyLost, Return
<1>12. CASE ConnectRevoke
  <2>1. CASE GoTo("release") /\ cause' = "notFound"
    BY <1>1, <2>1, ConnectedStays DEF GoTo
  <2> QED
    BY <1>5, <1>7, <1>12, <2>1 DEF ConnectRevoke
<1>13. ASSUME NEW n \in 1 .. 4, RevokePrivileges(n) PROVE Connected'
  <2>1. pc \in RevokePcs
    BY <1>13, PcNames DEF RevokePrivileges
  <2>2. pc \notin {"idle", "connect", "connectRevoke", "release"}
    BY <2>1 DEF RevokePcs
  <2>3. (\E next : GoTo(next)) \/ (\E left : DeletionError(left))
    BY <1>13 DEF RevokePrivileges
  <2> QED
    BY <1>5, <1>7, <2>2, <2>3
<1>14. CASE Work
  BY <1>8, <1>9, <1>10, <1>11, <1>12, <1>13, <1>14, PcNames DEF Work
<1> QED
  BY <1>2, <1>3, <1>14 DEF Calm

\* All of this, for one step of the controller.
LEMMA CalmStep ==
  IInv /\ Connected /\ Calm
    => IInv' /\ Connected' /\ UNCHANGED <<inst, dbs, roles, tables, tampered>>
BY CalmNext, CalmLeaves, CalmConnected, NextIInv

\* A deletion does not end while the controller can connect to no database.
Unreachable ==
  \A cr \in CR : \A s \in SpecOf[cr] :
    s.cleanupPolicy = "Delete" /\ connectToDatabase(cr, s) = "error"

Waiting(cr) == store[cr].deleting /\ store[cr].finalizer

LEMMA CalmWaits ==
  ASSUME IInv, Calm, pc \in {"idle", "connect", "connectRevoke"}, NEW cr \in CR, Waiting(cr)
  PROVE  Waiting(cr)'
<1>1. store'[cr].finalizer
  BY CalmNext, WhoReleases DEF Waiting
<1>2. store'[cr].deleting
  <2>1. KubeTypeOK /\ Ordered
    BY DEF IInv, KubeInv
  <2>2. ASSUME NEW c \in CR, NEW n, Put(c, n), n.deleting = store[c].deleting
        PROVE  store'[cr].deleting
    BY <2>1, <2>2 DEF Put, KubeTypeOK, Waiting
  <2>3. CASE store' = store
    BY <2>3 DEF Waiting
  <2>4. ASSUME NEW c \in CR, UserDelete(c) PROVE store'[cr].deleting
    <3>1. store'[cr] = store[cr]
      BY <2>1, <2>4 DEF UserDelete, Put, KubeTypeOK, Waiting
    <3> QED
      BY <3>1 DEF Waiting
  <2>5. ASSUME NEW message \in Message, NEW left, pc # "idle", Failed(message, left)
        PROVE  store'[cr].deleting
    <3>1. key \in CR
      BY <2>1, <2>5 DEF KubeTypeOK
    <3>2. CASE store[key].exists /\ Put(key, Patched("False", message))
      BY <2>1, <2>2, <3>1, <3>2, PatchedFollows
    <3> QED
      BY <2>3, <2>5, <3>2, ReportCases DEF Failed
  <2>6. CASE Work
    <3>1. Connect \/ ConnectRevoke
      BY <2>6, PcNames DEF Work, GrantPrivileges, RevokePrivileges, AddFinalizer, MarkReady,
         RemoveFinalizer, GrantPcs, RevokePcs
    <3> QED
      BY <2>3, <2>5, <3>1 DEF Connect, ConnectRevoke, GoTo, DeletionError, Message
  <2> QED
    BY <2>3, <2>4, <2>6 DEF Calm, Deliver, Take, ReconcileGone, ReconcileLive,
       handleDeletion, ReconcileNothing, ReconcileObject
<1> QED
  BY <1>1, <1>2 DEF Waiting

LEMMA CalmStrays ==
  IInv /\ Calm /\ Unreachable /\ pc \in {"idle", "connect", "connectRevoke"}
    => /\ pc' \in {"idle", "connect", "connectRevoke"}
       /\ \A cr \in CR : Waiting(cr) => Waiting(cr)'
<1> SUFFICES ASSUME IInv, Calm, Unreachable, pc \in {"idle", "connect", "connectRevoke"}
             PROVE  pc' \in {"idle", "connect", "connectRevoke"}
  BY CalmWaits
<1>1. ASSUME NEW cr \in CR, Take(cr) PROVE pc' \in {"idle", "connect", "connectRevoke"}
  <2>1. cache[cr].exists => cache[cr].spec \in SpecOf[cr]
    BY DEF IInv, KubeInv, Ordered, Informer
  <2> QED
    BY <1>1, <2>1 DEF Unreachable, Take, ReconcileGone, ReconcileLive, handleDeletion,
       ReconcileNothing, ReconcileObject
<1>2. CASE Work
  <2>1. Connect \/ ConnectRevoke
    BY <1>2, PcNames DEF Work, GrantPrivileges, RevokePrivileges, AddFinalizer, MarkReady,
       RemoveFinalizer, GrantPcs, RevokePcs
  <2>2. Connection = "error"
    BY <2>1, optsType DEF Connect, ConnectRevoke, Unreachable, Connection
  <2> QED
    BY <2>1, <2>2, ReportCases DEF Connect, ConnectRevoke, Failed, DeletionError, Return
<1> QED
  BY <1>1, <1>2 DEF Calm, UserDelete, Deliver

\* The lasting privileges of a resource are about its own role and database,
\* and not about tables.
LEMMA LastingEntries ==
  \A cr \in CR : \A s \in Specs : \A e \in Lasting(Opts(cr, s)) :
    /\ e \in Entry
    /\ e.ns = Opts(cr, s).ns /\ e.db = s.database /\ e.role = s.role
    /\ \A s2 \in Schema, t \in Table : e.item # <<"table", s2, t>>
<1> SUFFICES ASSUME NEW cr \in CR, NEW s \in Specs, NEW e \in Lasting(Opts(cr, s))
             PROVE  /\ e \in Entry
                    /\ e.ns = Opts(cr, s).ns /\ e.db = s.database /\ e.role = s.role
                    /\ \A s2 \in Schema, t \in Table : e.item # <<"table", s2, t>>
  OBVIOUS
<1> DEFINE o == Opts(cr, s)
           items == {<<"database">>, <<"default", s.schema>>, <<"schema", s.schema>>}
<1>1. /\ o.spec = s /\ s.schema \in Schema
      /\ Expand(DatabasePrivilege, s.privileges) \subseteq Privilege
      /\ Expand(TablePrivilege, s.privileges) \subseteq Privilege
  BY OptsType
<1> HIDE DEF o
<1>2. e \in Entries(o, items, Privilege \cup {"USAGE", "CREATE"})
  BY <1>1 DEF Lasting, OnDatabase, OnDefault, OnSchema, Entries, o
<1>3. items \subseteq Item
  BY <1>1 DEF Item
<1> HIDE DEF items
<1>4. e \in Entry
  BY <1>2, <1>3, EntriesType DEF o
<1>5. e.ns = o.ns /\ e.db = s.database /\ e.role = s.role /\ e.item \in items
  BY <1>1, <1>2, <1>4, Member
<1> QED
  BY <1>4, <1>5, Apart DEF o, items

\* Where every resource is Ready and nothing is under way, the invariants hold.
AllReady ==
  /\ AtRest /\ cause = "none"
  /\ \A cr \in CR :
       LET s == store[cr].spec
       IN  <<cr, store[cr].uid, s>> \in verified /\ Lasting(Opts(cr, s)) \subseteq acl

LEMMA AllReadyInv == TypeOK /\ AllReady => IInv /\ Connected
<1> SUFFICES ASSUME TypeOK, AllReady PROVE IInv /\ Connected
  OBVIOUS
<1>1. KubeInv /\ pc = "idle"
  BY AtRestInv DEF TypeOK, AllReady, AtRest
<1>2. Phases /\ Given /\ Taken
  BY <1>1 DEF Phases, Given, Taken, Revoked, LivePc, DropPc, GrantPcs, RevokePcs
<1>3. Earned
  BY DEF AllReady, AtRest, Earned, Verified, Kept
<1>4. Connected
  BY <1>1 DEF Connected, ConnectedTo
<1> QED
  BY <1>1, <1>2, <1>3, <1>4 DEF IInv

---------------------------------------------------------------------------
(* The implementation of Lifecycle.                                        *)

\* The refinement mapping of ImplementsLifecycle.
phase   == [cr \in CR |-> PhaseOf(store[cr])]
ready   == [cr \in CR |-> Ready(store[cr])]
spec    == [cr \in CR |-> store[cr].spec]
object  == [cr \in CR |-> ObjectOf(cr)]
givenUp == [cr \in CR |-> key = cr /\ cause = "notFound"]

Shown == INSTANCE LifecycleProofs

\* What the mapping needs to know besides IInv: a cleanup is finished or given
\* up only before the finalizer goes.
Marks == Marked /\ (cause # "none" => pc = "release")

Implemented == Shown!Next \/ UNCHANGED Shown!vars

\* What Lasting gives and RevokePrivileges takes back.
Returned(o) == Lasting(o) \ OnSchema(o, "USAGE")

\* No lasting privilege of cr alone comes or goes, and others take no hand.
Untouched(cr) ==
  LET o == Opts(cr, store[cr].spec)
  IN  /\ tampered' = tampered
      /\ Owned(cr, o) /\ ~tampered => Lasting(o) \cap acl' = Lasting(o) \cap acl

\* CREATE on the schema is among what lasts.
LEMMA CreateLasts ==
  ASSUME NEW o, OnSchema(o, "CREATE") \cap acl = {}
  PROVE  ~(Lasting(o) \subseteq acl)
<1>1. [ns |-> o.ns, db |-> o.spec.database, item |-> <<"schema", o.spec.schema>>,
       role |-> o.spec.role, priv |-> "CREATE"] \in OnSchema(o, "CREATE")
  BY DEF OnSchema, Entries
<1> QED
  BY <1>1 DEF Lasting

LEMMA IsMapped == Shown!Mapped /\ Shown!Mapped'
BY DEF Shown!Mapped, phase, ready, spec, object, givenUp

\* If no privilege changes, none of note does.
LEMMA ListsStay ==
  ASSUME acl' = acl, tampered' = tampered
  PROVE  \A cr \in CR : Untouched(cr)
BY DEF Untouched

\* The privileges of a resource, before and after a step.
LEMMA ObjectCases ==
  ASSUME NEW cr \in CR
  PROVE  LET o == Opts(cr, store[cr].spec)
             n == Opts(cr, store'[cr].spec)
         IN  /\ ObjectOf(cr) =
                  IF ~store[cr].exists \/ ~Owned(cr, o) \/ tampered THEN "any"
                  ELSE IF Lasting(o) \subseteq acl THEN "there"
                  ELSE IF Returned(o) \cap acl = {} THEN "missing" ELSE "partly"
             /\ ObjectOf(cr)' =
                  IF ~store'[cr].exists \/ ~Owned(cr, n) \/ tampered' THEN "any"
                  ELSE IF Lasting(n) \subseteq acl' THEN "there"
                  ELSE IF Returned(n) \cap acl' = {} THEN "missing" ELSE "partly"
<1> DEFINE o == Opts(cr, store[cr].spec)
           n == Opts(cr, store'[cr].spec)
<1>1. o' = n
  BY DEF Opts, PgNamespace
<1>2. Lasting(o)' = Lasting(n) /\ (Owned(cr, o)' <=> Owned(cr, n))
  BY Rigid
<1>3. OnSchema(o, "USAGE")' = OnSchema(n, "USAGE")
  BY <1>1 DEF OnSchema, Entries
<1> HIDE DEF n
<1>4. ObjectOf(cr)' =
        IF ~store'[cr].exists \/ ~Owned(cr, n) \/ tampered' THEN "any"
        ELSE IF Lasting(n) \subseteq acl' THEN "there"
        ELSE IF Returned(n) \cap acl' = {} THEN "missing" ELSE "partly"
  BY <1>2, <1>3 DEF ObjectOf, Returned
<1> QED
  BY <1>4 DEF ObjectOf, Returned, n

\* The privileges of a resource whose spec stays, and that nobody touches.
LEMMA ObjectStays ==
  ASSUME IInv, NEW cr \in CR, store'[cr].exists = store[cr].exists,
         store'[cr].spec = store[cr].spec, Untouched(cr)
  PROVE  ObjectOf(cr)' = ObjectOf(cr)
<1> DEFINE o == Opts(cr, store[cr].spec)
<1>1. tampered' = tampered
  BY DEF Untouched
<1>2. CASE ~Owned(cr, o) \/ tampered
  BY <1>1, <1>2, ObjectCases
<1>3. CASE Owned(cr, o) /\ ~tampered
  <2>1. Lasting(o) \cap acl' = Lasting(o) \cap acl
    BY <1>3 DEF Untouched
  <2>2. Returned(o) \cap acl' = Returned(o) \cap acl
    BY <2>1 DEF Returned
  <2>3. Lasting(o) \subseteq acl' <=> Lasting(o) \subseteq acl
    BY <2>1
  <2> HIDE DEF o
  <2> QED
    BY <1>1, <2>2, <2>3, ObjectCases DEF o
<1> QED
  BY <1>2, <1>3

\* A statement of GrantPrivileges gives all or a part of what is missing,
LEMMA ObjectGrows ==
  ASSUME NEW c \in CR, acl \subseteq acl', tampered' = tampered,
         store'[c].exists = store[c].exists, store'[c].spec = store[c].spec
  PROVE  \/ ObjectOf(c)' = ObjectOf(c)
         \/ ObjectOf(c) = "missing" /\ ObjectOf(c)' \in {"partly", "there"}
         \/ ObjectOf(c) = "partly" /\ ObjectOf(c)' = "there"
BY ObjectCases

\* one of RevokePrivileges takes all or a part of what is there.
LEMMA ObjectShrinks ==
  ASSUME NEW c \in CR, acl' \subseteq acl, tampered' = tampered,
         store'[c].exists = store[c].exists, store'[c].spec = store[c].spec
  PROVE  \/ ObjectOf(c)' = ObjectOf(c)
         \/ ObjectOf(c) = "there" /\ ObjectOf(c)' \in {"partly", "missing"}
         \/ ObjectOf(c) = "partly" /\ ObjectOf(c)' = "missing"
BY ObjectCases

\* A step in which nobody writes, and no privilege of note comes or goes.
LEMMA Unseen ==
  ASSUME IInv, store' = store,
         \A cr \in CR : Untouched(cr),
         \A cr \in CR : key' = cr /\ cause' = "notFound" <=> key = cr /\ cause = "notFound"
  PROVE  Implemented
<1>1. \A cr \in CR : ObjectOf(cr)' = ObjectOf(cr)
  BY ObjectStays
<1>2. \A cr \in CR : Shown!Same(cr)
  BY <1>1 DEF Shown!Same, phase, ready, spec, object, givenUp
<1> QED
  BY <1>2, IsMapped, Shown!NothingShown DEF Implemented

\* A step that writes no resource but c, and touches no privilege but c's.
LEMMA OneSeen ==
  ASSUME IInv, NEW c \in CR, \A cr \in CR \ {c} : store'[cr] = store[cr],
         \A cr \in CR \ {c} : Untouched(cr),
         \A cr \in CR \ {c} :
           key' = cr /\ cause' = "notFound" <=> key = cr /\ cause = "notFound"
  PROVE  Shown!Only(c)
<1>1. \A cr \in CR \ {c} : ObjectOf(cr)' = ObjectOf(cr)
  BY ObjectStays
<1>2. \A cr \in CR \ {c} : Shown!Same(cr)
  BY <1>1 DEF Shown!Same, phase, ready, spec, object, givenUp
<1> QED
  BY <1>2, IsMapped DEF Shown!Only

\* What Lifecycle sees of c, before and after a step: its phase and privileges,
LEMMA SeenThing ==
  ASSUME NEW c \in CR
  PROVE  /\ phase[c] = PhaseOf(store[c]) /\ phase'[c] = PhaseOf(store'[c])
         /\ object[c] = ObjectOf(c) /\ object'[c] = ObjectOf(c)'
         /\ object'[c] \in Shown!Object
<1>1. ObjectOf(c)' \in Shown!Object
  BY DEF ObjectOf, Shown!Object
<1> QED
  BY <1>1 DEF phase, object

\* its Ready condition,
LEMMA SeenReady ==
  ASSUME NEW c \in CR
  PROVE  /\ Ready(store'[c]) => ready'[c] = TRUE
         /\ ~Ready(store'[c]) => ready'[c] = FALSE
         /\ (Ready(store'[c]) <=> Ready(store[c])) => ready'[c] = ready[c]
<1>1. ready[c] = Ready(store[c]) /\ ready'[c] = Ready(store'[c])
  BY DEF ready
<1> QED
  BY <1>1 DEF Ready

\* its spec,
LEMMA SeenSpec ==
  ASSUME NEW c \in CR
  PROVE  /\ store'[c] \in Version => spec'[c] \in Specs
         /\ spec'[c] = store'[c].spec /\ spec[c] = store[c].spec
         /\ store[c].spec.cleanupPolicy # "Delete" => spec[c] \notin Cleaned
<1>1. spec'[c] = store'[c].spec /\ spec[c] = store[c].spec
  BY DEF spec
<1> QED
  BY <1>1, Fields DEF Cleaned

\* and whether the cleanup was given up.
LEMMA SeenGivenUp ==
  ASSUME NEW c \in CR
  PROVE  /\ key' = key /\ cause' = cause => givenUp'[c] = givenUp[c]
         /\ (key' = c /\ cause' = "notFound" <=> key = c /\ cause = "notFound")
              => givenUp'[c] = givenUp[c]
         /\ (key' = c /\ cause' = "notFound" <=> ~(key = c /\ cause = "notFound"))
              => givenUp'[c] = ~givenUp[c]
         /\ key = c /\ cause = "notFound" => givenUp[c]
         /\ cause' # "notFound" => givenUp'[c] = FALSE
<1>1. /\ givenUp[c] = (key = c /\ cause = "notFound")
      /\ givenUp'[c] = (key' = c /\ cause' = "notFound")
  BY DEF givenUp
<1> QED
  BY <1>1

---------------------------------------------------------------------------
(* Users and the API server.                                               *)

LEMMA UsersShown ==
  ASSUME IInv, IInv', Marks, NEW c \in CR, Users(c) \/ ReleaseHold(c),
         UNCHANGED grantVars
  PROVE  Marks' /\ Implemented
<1>1. UNCHANGED <<acl, tampered, cause>>
  BY DEF grantVars, sqlVars
<1>2. /\ Redone(store[c], store'[c]) /\ Marked' /\ UNCHANGED <<pc, key>>
      /\ \A cr \in CR \ {c} : store'[cr] = store[cr]
  BY OthersRedo DEF Users, IInv, KubeInv, Marks
<1>3. Marks'
  BY <1>1, <1>2 DEF Marks, Marked
<1>4. Shown!Only(c)
  BY <1>1, <1>2, OneSeen, ListsStay
<1>5. ready'[c] = FALSE /\ givenUp'[c] = givenUp[c]
  BY <1>1, <1>2, SeenReady, SeenGivenUp DEF Redone
<1>6. object'[c] \in Shown!Object /\ spec'[c] \in Specs
  BY SeenThing, SeenSpec DEF IInv, KubeInv, KubeTypeOK
<1>7. CASE PhaseOf(store[c]) = "absent" /\ PhaseOf(store'[c]) = "asked"
  <2>1. phase[c] = "absent" /\ phase'[c] = "asked"
    BY <1>7, SeenThing
  <2>2. Shown!Next
    BY <1>4, <1>5, <1>6, <2>1, Shown!CreateShown
  <2> QED
    BY <1>3, <2>2 DEF Implemented
<1>8. CASE /\ PhaseOf(store[c]) # "absent" /\ PhaseOf(store'[c]) = PhaseOf(store[c])
           /\ store'[c].spec # store[c].spec
  <2>1. phase[c] # "absent" /\ phase'[c] = phase[c]
    BY <1>8, SeenThing
  <2>2. spec'[c] # spec[c]
    BY <1>8, SeenSpec
  <2>3. Shown!Next
    BY <1>4, <1>5, <1>6, <2>1, <2>2, Shown!EditShown
  <2> QED
    BY <1>3, <2>3 DEF Implemented
<1>9. CASE /\ store'[c].spec = store[c].spec /\ store'[c].exists = store[c].exists
           /\ PhaseOf(store'[c]) = PhaseOf(store[c]) /\ ~Ready(store[c])
  <2>1. ObjectOf(c)' = ObjectOf(c)
    BY <1>1, <1>9, ObjectStays, ListsStay
  <2>2. phase'[c] = phase[c] /\ object'[c] = object[c] /\ spec'[c] = spec[c]
    BY <1>9, <2>1, SeenThing, SeenSpec
  <2>3. ready'[c] = ready[c]
    BY <1>2, <1>9, SeenReady DEF Redone
  <2>4. Shown!Same(c)
    BY <1>5, <2>2, <2>3 DEF Shown!Same
  <2> QED
    BY <1>3, <1>4, <2>4, IsMapped, Shown!NothingShown DEF Shown!Only, Implemented
<1>10. CASE /\ store'[c].spec = store[c].spec /\ store[c].exists /\ store'[c].exists
           /\ \/ PhaseOf(store[c]) = "asked" /\ PhaseOf(store'[c]) = "held"
              \/ PhaseOf(store[c]) = "guarded" /\ PhaseOf(store'[c]) = "leaving"
  <2>1. ObjectOf(c)' = ObjectOf(c)
    BY <1>1, <1>10, ObjectStays, ListsStay
  <2>2. object'[c] = object[c]
    BY <2>1, SeenThing
  <2>3. \/ phase[c] = "asked" /\ phase'[c] = "held"
        \/ phase[c] = "guarded" /\ phase'[c] = "leaving"
    BY <1>10, SeenThing
  <2>4. spec'[c] = spec[c]
    BY <1>10, SeenSpec
  <2>5. Shown!Next
    BY <1>4, <1>5, <2>2, <2>3, <2>4, Shown!DeleteShown
  <2> QED
    BY <1>3, <2>5 DEF Implemented
<1>11. CASE /\ store'[c].spec = store[c].spec /\ ~store'[c].exists
            /\ PhaseOf(store'[c]) = "absent"
            /\ PhaseOf(store[c]) = "asked" \/ (PhaseOf(store[c]) = "held" /\ ~Ready(store[c]))
  <2>1. ObjectOf(c)' = "any"
    BY <1>11 DEF ObjectOf
  <2>2. phase'[c] = "absent" /\ object'[c] = "any"
    BY <1>11, <2>1, SeenThing
  <2>3. spec'[c] = spec[c]
    BY <1>11, SeenSpec
  <2>4. CASE PhaseOf(store[c]) = "asked"
    <3>1. phase[c] = "asked"
      BY <2>4, SeenThing
    <3> QED
      BY <1>4, <1>5, <2>2, <2>3, <3>1, Shown!DeleteShown, <1>3 DEF Implemented
  <2>5. CASE PhaseOf(store[c]) = "held" /\ ~Ready(store[c])
    <3>1. phase[c] = "held"
      BY <2>5, SeenThing
    <3>2. ready'[c] = ready[c]
      BY <1>2, <2>5, SeenReady DEF Redone
    <3> QED
      BY <1>4, <1>5, <2>2, <2>3, <3>1, <3>2, Shown!LetGoShown, <1>3 DEF Implemented
  <2> QED
    BY <1>11, <2>4, <2>5
<1> QED
  BY <1>2, <1>7, <1>8, <1>9, <1>10, <1>11 DEF Redone

\* The worker leaves "release", with or without having been there.
LEMMA Forgets ==
  ASSUME IInv, store' = store, UNCHANGED <<acl, tampered>>, cause' = "none"
  PROVE  Implemented
<1>1. CASE key \in CR /\ cause = "notFound"
  <2>1. PICK c \in CR : c = key
    BY <1>1
  <2>2. Shown!Only(c)
    BY <1>1, <2>1, OneSeen, ListsStay
  <2>3. ObjectOf(c)' = ObjectOf(c)
    BY <2>1, ObjectStays, ListsStay
  <2>4. phase'[c] = phase[c] /\ object'[c] = object[c]
    BY <2>3, SeenThing
  <2>5. ready'[c] = ready[c] /\ spec'[c] = spec[c]
    BY SeenReady, SeenSpec
  <2>6. givenUp'[c] = ~givenUp[c]
    BY <1>1, <2>1, SeenGivenUp
  <2>7. Shown!Next
    BY <2>1, <2>2, <2>4, <2>5, <2>6, Shown!GiveUpShown
  <2> QED
    BY <2>7 DEF Implemented
<1>2. CASE ~(key \in CR /\ cause = "notFound")
  BY <1>2, Unseen, ListsStay
<1> QED
  BY <1>1, <1>2

LEMMA RestartShown ==
  ASSUME IInv, Marks, Restart, UNCHANGED <<acl, tampered>>, cause' = "none"
  PROVE  Marks' /\ Implemented
<1>1. store' = store
  BY DEF Restart
<1> QED
  BY <1>1, Forgets DEF Marks, Marked

\* The informer, instances and other clients: either no lasting privilege
\* changes, or others take a hand and nothing is promised any more.
LEMMA ClientsCases ==
  ASSUME IInv, OtherClient
  PROVE  (\A cr \in CR : Untouched(cr)) \/ tampered' = TRUE
<1>1. AclOK /\ AclOK' /\ Passive
  BY IInvAcl, OtherClientPassive DEF OtherClient
<1>2. tampered' \in {tampered, TRUE}
  BY DEF OtherClient, OtherTable, OtherDatabase, OtherRole, OtherRevoke
<1>3. CASE tampered' = TRUE
  BY <1>3
<1>4. CASE tampered' = tampered /\ tampered' # TRUE
  <2>1. ~tampered'
    BY <1>1, <1>4 DEF AclOK
  <2> SUFFICES ASSUME NEW cr \in CR
               PROVE  LET o == Opts(cr, store[cr].spec)
                      IN  Lasting(o) \cap acl' = Lasting(o) \cap acl
    BY <1>4 DEF Untouched
  <2>2. store[cr].spec \in Specs
    BY Fields DEF IInv, KubeInv, KubeTypeOK
  <2> QED
    BY <1>1, <2>1, <2>2, PassiveLasting
<1> QED
  BY <1>2, <1>3, <1>4

LEMMA OthersShown ==
  ASSUME IInv, Marks,
         \/ \E c \in CR : Deliver(c) /\ UNCHANGED grantVars
         \/ \E ns \in Namespace : InstChange(ns) /\ UNCHANGED <<acl, tampered, cause>>
         \/ OtherClient
  PROVE  Marks' /\ Implemented
<1>1. UNCHANGED <<store, pc, key, cause>>
  BY DEF Deliver, InstChange, OtherClient, grantVars
<1>2. Marks'
  BY <1>1 DEF Marks, Marked
<1>3. (\A cr \in CR : Untouched(cr)) \/ tampered' = TRUE
  BY ClientsCases, ListsStay DEF grantVars, sqlVars
<1>4. CASE \A cr \in CR : Untouched(cr)
  BY <1>1, <1>2, <1>4, Unseen
<1>5. CASE tampered' = TRUE
  <2>1. \A cr \in CR : ObjectOf(cr)' = "any"
    BY <1>5, ObjectCases
  <2>2. \A cr \in CR : phase'[cr] = phase[cr] /\ object'[cr] = "any"
    BY <1>1, <2>1, SeenThing
  <2>3. \A cr \in CR : ready'[cr] = ready[cr] /\ spec'[cr] = spec[cr]
    BY <1>1, SeenReady, SeenSpec
  <2>4. \A cr \in CR : givenUp'[cr] = givenUp[cr]
    BY <1>1, SeenGivenUp
  <2>5. Shown!Next
    BY <2>2, <2>3, <2>4, IsMapped, Shown!TamperShown
  <2> QED
    BY <1>2, <2>5 DEF Implemented
<1> QED
  BY <1>3, <1>4, <1>5

---------------------------------------------------------------------------
(* The worker shows its hand.                                              *)

\* The worker is about one resource, and has not finished its cleanup before
\* "release".
LEMMA Busy ==
  ASSUME IInv, Marks, pc # "idle"
  PROVE  /\ key \in CR /\ obj.spec \in SpecOf[key]
         /\ pc # "release" => cause = "none"
BY optsType DEF Marks, Marked

\* Once GrantPrivileges has succeeded, every lasting privilege is there.
LEMMA HasAll ==
  ASSUME IInv, pc \in {"finalize", "ready"}, ~tampered
  PROVE  Lasting(opts) \subseteq acl
BY DEF IInv, Given, Lasting

\* What the worker grants and revokes is no other resource's business.
LEMMA Elsewhere ==
  ASSUME IInv, pc # "idle", tampered' = tampered,
         NEW E \in {OnDatabase(opts), OnTables(opts), OnDefault(opts),
                    OnSchema(opts, "USAGE"), OnSchema(opts, "CREATE")},
         acl' \in {acl, acl \cup E, acl \ E}
  PROVE  \A cr \in CR \ {key} : Untouched(cr)
<1> SUFFICES ASSUME NEW cr \in CR \ {key}, Owned(cr, Opts(cr, store[cr].spec))
             PROVE  LET o == Opts(cr, store[cr].spec)
                    IN  Lasting(o) \cap acl' = Lasting(o) \cap acl
  BY DEF Untouched
<1> DEFINE o == Opts(cr, store[cr].spec)
<1>1. E \cap Lasting(o) = {}
  BY OthersApart
<1> HIDE DEF o
<1> QED
  BY <1>1 DEF o

\* A statement of GrantPrivileges may give privileges, and a failure may be
\* reported.
LEMMA MakesShown ==
  ASSUME IInv, Marks, pc \notin {"idle", "release"},
         UNCHANGED <<tampered, cause>>, acl \subseteq acl',
         \A cr \in CR \ {key} : Untouched(cr),
         \/ store' = store
         \/ /\ store[key].exists
            /\ \E message \in Message : Put(key, Patched("False", message)),
         IInv'
  PROVE  Marks' /\ Implemented
<1>1. PICK c \in CR : c = key
  BY Busy
<1>2. cause = "none"
  BY Busy
<1>3. /\ \A cr \in CR \ {c} : store'[cr] = store[cr]
      /\ store'[c].exists = store[c].exists /\ store'[c].spec = store[c].spec
      /\ PhaseOf(store'[c]) = PhaseOf(store[c])
      /\ Ready(store'[c]) => store' = store
      /\ Marked'
  <2>1. CASE store' = store
    BY <2>1 DEF Marks, Marked
  <2>2. ASSUME NEW message \in Message, store[key].exists,
               Put(key, Patched("False", message))
        PROVE  /\ \A cr \in CR \ {c} : store'[cr] = store[cr]
               /\ store'[c].exists = store[c].exists /\ store'[c].spec = store[c].spec
               /\ PhaseOf(store'[c]) = PhaseOf(store[c])
               /\ ~Ready(store'[c]) /\ Marked'
    BY <1>1, <2>2, ReportRedoes DEF IInv, KubeInv, Marks
  <2> QED
    BY <2>1, <2>2
<1>4. Marks'
  BY <1>2, <1>3 DEF Marks, Marked
<1>5. Shown!Only(c)
  BY <1>1, <1>2, <1>3, OneSeen
<1>6. phase'[c] = phase[c] /\ spec'[c] = spec[c] /\ givenUp'[c] = givenUp[c]
  <2>1. phase'[c] = phase[c]
    BY <1>3, SeenThing
  <2>2. spec'[c] = spec[c]
    BY <1>3, SeenSpec
  <2>3. givenUp'[c] = givenUp[c]
    BY <1>2, SeenGivenUp
  <2> QED
    BY <2>1, <2>2, <2>3
<1>7. CASE ObjectOf(c)' = ObjectOf(c)
  <2>1. object'[c] = object[c]
    BY <1>7, SeenThing
  <2>2. CASE Ready(store'[c])
    <3>1. ready'[c] = ready[c]
      BY <1>3, <2>2, SeenReady
    <3>2. \A cr \in CR : Shown!Same(cr)
      BY <1>5, <1>6, <2>1, <3>1 DEF Shown!Only, Shown!Same
    <3> QED
      BY <1>4, <3>2, IsMapped, Shown!NothingShown DEF Implemented
  <2>3. CASE ~Ready(store'[c])
    <3>1. ready'[c] = FALSE
      BY <2>3, SeenReady
    <3>2. Shown!Next
      BY <1>5, <1>6, <2>1, <3>1, Shown!ReportShown
    <3> QED
      BY <1>4, <3>2 DEF Implemented
  <2> QED
    BY <2>2, <2>3
<1>8. CASE ObjectOf(c)' # ObjectOf(c)
  <2>1. \/ ObjectOf(c) = "missing" /\ ObjectOf(c)' \in {"partly", "there"}
        \/ ObjectOf(c) = "partly" /\ ObjectOf(c)' = "there"
    BY <1>3, <1>8, ObjectGrows
  <2>2. ~Ready(store[c])
    <3>1. ObjectOf(c) \notin {"any", "there"}
      BY <2>1
    <3>2. LET o == Opts(c, store[c].spec)
          IN  Owned(c, o) /\ ~tampered /\ ~(Lasting(o) \subseteq acl)
      BY <3>1, ObjectCases
    <3> QED
      BY <3>2 DEF IInv, Earned, Kept
  <2>3. ~Ready(store'[c])
    BY <1>3, <2>2
  <2>4. ready'[c] = ready[c]
    BY <2>2, <2>3, SeenReady
  <2>5. \/ object[c] = "missing" /\ object'[c] \in {"partly", "there"}
        \/ object[c] = "partly" /\ object'[c] = "there"
    BY <2>1, SeenThing
  <2>6. Shown!Next
    BY <1>5, <1>6, <2>4, <2>5, Shown!MakeShown
  <2> QED
    BY <1>4, <2>6 DEF Implemented
<1> QED
  BY <1>7, <1>8

\* Ready=True lands on a guarded resource whose privileges are there.
LEMMA MarkReadyShown ==
  ASSUME IInv, IInv', Marks, MarkReady
  PROVE  Marks' /\ Implemented
<1>1. /\ pc = "ready" /\ UNCHANGED <<acl, tampered, cause>>
      /\ Report("True", "exists", quota, requeueResult(obj.spec))
  BY DEF MarkReady, Succeeded, grantVars, sqlVars
<1>2. PICK c \in CR : c = key
  BY <1>1, Busy
<1>3. cause = "none"
  BY <1>1, Busy
<1>4. CASE store' = store
  BY <1>1, <1>3, <1>4, Unseen, ListsStay DEF Marks, Marked
<1>5. CASE store[key].exists /\ Put(key, Patched("True", "exists"))
  <2>1. /\ \A cr \in CR \ {c} : store'[cr] = store[cr]
        /\ Marked'
        /\ store'[c].exists = store[c].exists /\ store'[c].spec = store[c].spec
        /\ PhaseOf(store'[c]) = PhaseOf(store[c])
        /\ Ready(store'[c]) =>
             /\ PhaseOf(store[c]) = "guarded" /\ obj.spec = store[c].spec
    BY <1>1, <1>2, <1>5, ReportRedoes DEF Message, IInv, KubeInv, Marks
  <2>2. ~tampered => Lasting(opts) \subseteq acl
    BY <1>1, HasAll
  <2>3. Marks'
    BY <1>1, <1>3, <2>1 DEF Marks, Marked
  <2>4. Shown!Only(c)
    BY <1>1, <1>3, <2>1, OneSeen, ListsStay
  <2>5. phase'[c] = phase[c] /\ object'[c] = object[c]
    <3>1. ObjectOf(c)' = ObjectOf(c)
      BY <1>1, <2>1, ObjectStays, ListsStay
    <3> QED
      BY <2>1, <3>1, SeenThing
  <2>6. spec'[c] = spec[c] /\ givenUp'[c] = givenUp[c]
    BY <1>1, <1>3, <2>1, SeenSpec, SeenGivenUp
  <2>7. CASE Ready(store'[c])
    <3>1. phase[c] = "guarded"
      BY <2>1, <2>7, SeenThing
    <3>2. opts = Opts(c, store[c].spec)
      BY <1>2, <2>1, <2>7 DEF opts
    <3>3. ObjectOf(c) \in {"any", "there"}
      BY <2>2, <3>2, ObjectCases
    <3>4. Shown!Whole(c) /\ ready'[c] = TRUE
      BY <2>7, <3>3, SeenThing, SeenReady DEF Shown!Whole
    <3>5. Shown!Next
      BY <2>4, <2>5, <2>6, <3>1, <3>4, Shown!ReportShown
    <3> QED
      BY <2>3, <3>5 DEF Implemented
  <2>8. CASE ~Ready(store'[c])
    <3>1. ready'[c] = FALSE
      BY <2>8, SeenReady
    <3>2. Shown!Next
      BY <2>4, <2>5, <2>6, <3>1, Shown!ReportShown
    <3> QED
      BY <2>3, <3>2 DEF Implemented
  <2> QED
    BY <2>7, <2>8
<1> QED
  BY <1>1, <1>4, <1>5, ReportCases

\* The worker moves on, or takes or returns a request, and nothing is seen.
LEMMA MovesShown ==
  ASSUME IInv, Marks, store' = store, UNCHANGED <<acl, tampered>>,
         cause # "notFound", cause' # "notFound",
         cause' # "none" => pc' = "release"
  PROVE  Marks' /\ Implemented
BY Unseen, ListsStay DEF Marks, Marked

LEMMA TakesShown ==
  ASSUME IInv, Marks, NEW c \in CR, Take(c)
  PROVE  Marks' /\ Implemented
<1>1. cause = "none"
  BY DEF Take, ReconcileGone, ReconcileNothing, ReconcileLive, handleDeletion,
         ReconcileObject, Get, Marks
<1>2. CASE ReconcileGone(c) \/ ReconcileLive(c)
  <2>1. UNCHANGED <<store, acl, tampered, cause>>
    BY <1>2 DEF ReconcileGone, ReconcileNothing, ReconcileLive, ReconcileObject,
               grantVars, sqlVars
  <2> QED
    BY <1>1, <2>1, MovesShown
<1>3. CASE handleDeletion(c)
  <2>1. UNCHANGED <<store, acl, tampered>>
    BY <1>3 DEF handleDeletion, ReconcileObject, sqlVars
  <2>2. cause' = cause \/ (cause' = "policy" /\ pc' = "release")
    BY <1>3 DEF handleDeletion, ReconcileObject
  <2> QED
    BY <1>1, <2>1, <2>2, MovesShown
<1> QED
  BY <1>2, <1>3 DEF Take

\* RevokePrivileges takes the privileges of a resource that is not guarded.
LEMMA DropsShown ==
  ASSUME IInv, Marks, pc \in DropPc, store' = store, key' \in {key, NoCR},
         tampered' = tampered, acl' \subseteq acl,
         \A cr \in CR \ {key} : Untouched(cr),
         cause' \in {"none", "revoked"}, cause' = "revoked" => pc' = "release"
  PROVE  Marks' /\ Implemented
<1>1. PICK c \in CR : c = key
  BY Busy DEF DropPc, RevokePcs
<1>2. cause = "none"
  BY Busy DEF DropPc, RevokePcs
<1>3. Marks'
  BY DEF Marks, Marked
<1>4. Shown!Only(c)
  BY <1>1, <1>2, OneSeen
<1>5. phase'[c] = phase[c] /\ ready'[c] = ready[c]
  BY SeenThing, SeenReady
<1>6. spec'[c] = spec[c] /\ givenUp'[c] = givenUp[c]
  BY <1>2, SeenSpec, SeenGivenUp
<1>7. CASE ObjectOf(c)' = ObjectOf(c)
  <2>1. \A cr \in CR : Shown!Same(cr)
    BY <1>4, <1>5, <1>6, <1>7, SeenThing DEF Shown!Only, Shown!Same
  <2> QED
    BY <1>3, <2>1, IsMapped, Shown!NothingShown DEF Implemented
<1>8. CASE ObjectOf(c)' # ObjectOf(c)
  <2>1. \/ ObjectOf(c) = "there" /\ ObjectOf(c)' \in {"partly", "missing"}
        \/ ObjectOf(c) = "partly" /\ ObjectOf(c)' = "missing"
    BY <1>8, ObjectShrinks
  <2>2. store[c].exists
    BY <2>1, ObjectCases
  <2>3. store[c].finalizer => store[c].deleting
    BY <1>1, <2>2 DEF IInv, KubeInv, InHand, Precedes, Phases, DropPc, RevokePcs
  <2>4. PhaseOf(store[c]) # "guarded"
    BY <2>2, <2>3 DEF PhaseOf
  <2>5. phase[c] # "guarded"
    BY <2>4, SeenThing
  <2>6. \/ object[c] = "there" /\ object'[c] \in {"partly", "missing"}
        \/ object[c] = "partly" /\ object'[c] = "missing"
    BY <2>1, SeenThing
  <2>7. Shown!Next
    BY <1>4, <1>5, <1>6, <2>5, <2>6, Shown!DropShown
  <2> QED
    BY <1>3, <2>7 DEF Implemented
<1> QED
  BY <1>7, <1>8

\* The cleanup is given up.
LEMMA GivesUpShown ==
  ASSUME IInv, Marks, pc = "connectRevoke", GoTo("release"),
         cause' = "notFound", UNCHANGED <<acl, tampered>>
  PROVE  Marks' /\ Implemented
<1>1. PICK c \in CR : c = key
  BY Busy
<1>2. cause = "none" /\ cause' = "notFound" /\ pc' = "release"
      /\ UNCHANGED <<store, key>>
  BY Busy DEF GoTo
<1>3. Shown!Only(c)
  BY <1>1, <1>2, OneSeen, ListsStay
<1>4. ObjectOf(c)' = ObjectOf(c)
  BY <1>2, ObjectStays, ListsStay
<1>5. phase'[c] = phase[c] /\ object'[c] = object[c] /\ ready'[c] = ready[c]
  BY <1>2, <1>4, SeenThing, SeenReady
<1>6. spec'[c] = spec[c] /\ givenUp'[c] = ~givenUp[c]
  BY <1>1, <1>2, SeenSpec, SeenGivenUp
<1>7. Shown!Next
  BY <1>3, <1>5, <1>6, Shown!GiveUpShown
<1> QED
  BY <1>2, <1>7 DEF Implemented, Marks, Marked

\* The finalizer is added once the privileges are there.
LEMMA GuardsShown ==
  ASSUME IInv, IInv', Marks, pc = "finalize", Current, Put(key, WithFinalizer),
         UNCHANGED <<acl, tampered, cause>>
  PROVE  Marks' /\ Implemented
<1>1. PICK c \in CR : c = key
  BY Busy
<1>2. cause = "none"
  BY Busy
<1>3. /\ \A cr \in CR \ {c} : store'[cr] = store[cr]
      /\ Marked' /\ obj = store[c]
      /\ store[c].exists /\ store'[c].exists /\ store'[c].spec = store[c].spec
      /\ PhaseOf(store[c]) \in {"asked", "guarded"}
      /\ PhaseOf(store'[c]) = "guarded"
      /\ Ready(store'[c]) <=> Ready(store[c])
  BY <1>1, WithFinalizerRedoes DEF IInv, KubeInv, Marks
<1>4. Marks'
  BY <1>2, <1>3 DEF Marks, Marked
<1>5. Shown!Only(c)
  BY <1>2, <1>3, OneSeen, ListsStay
<1>6. ObjectOf(c)' = ObjectOf(c)
  BY <1>3, ObjectStays, ListsStay
<1>7. object'[c] = object[c] /\ ready'[c] = ready[c]
  BY <1>3, <1>6, SeenThing, SeenReady
<1>8. spec'[c] = spec[c] /\ givenUp'[c] = givenUp[c]
  BY <1>2, <1>3, SeenSpec, SeenGivenUp
<1>9. CASE PhaseOf(store[c]) = "guarded"
  <2>1. phase'[c] = phase[c]
    BY <1>3, <1>9, SeenThing
  <2>2. \A cr \in CR : Shown!Same(cr)
    BY <1>5, <1>7, <1>8, <2>1 DEF Shown!Only, Shown!Same
  <2> QED
    BY <1>4, <2>2, IsMapped, Shown!NothingShown DEF Implemented
<1>10. CASE PhaseOf(store[c]) = "asked"
  <2>1. phase[c] = "asked" /\ phase'[c] = "guarded"
    BY <1>3, <1>10, SeenThing
  <2>2. ObjectOf(c) \in {"any", "there"}
    <3>1. opts = Opts(c, store[c].spec)
      BY <1>1, <1>3 DEF opts
    <3> QED
      BY <3>1, HasAll, ObjectCases
  <2>3. Shown!Whole(c)
    BY <2>2, SeenThing DEF Shown!Whole
  <2>4. Shown!Next
    BY <1>5, <1>7, <1>8, <2>1, <2>3, Shown!GuardShown
  <2> QED
    BY <1>4, <2>4 DEF Implemented
<1> QED
  BY <1>3, <1>9, <1>10

\* The finalizer is removed once the privileges are gone, if they have to.
LEMMA ReleasesShown ==
  ASSUME IInv, IInv', Marks, pc = "release", Current, Put(key, WithoutFinalizer),
         UNCHANGED <<acl, tampered>>, cause' = "none"
  PROVE  Marks' /\ Implemented
<1>1. PICK c \in CR : c = key
  BY Busy
<1>2. /\ \A cr \in CR \ {c} : store'[cr] = store[cr]
      /\ Marked' /\ obj = store[c]
      /\ store[c].exists /\ store'[c].spec = store[c].spec
      /\ PhaseOf(store[c]) = "leaving"
      /\ \/ store'[c].exists /\ PhaseOf(store'[c]) = "held"
         \/ ~store'[c].exists /\ PhaseOf(store'[c]) = "absent"
      /\ ~Ready(store[c]) /\ ~Ready(store'[c])
  BY <1>1, WithoutFinalizerRedoes DEF IInv, KubeInv, Marks
<1>3. Marks'
  BY <1>2 DEF Marks, Marked
<1>4. Shown!Only(c)
  BY <1>1, <1>2, OneSeen, ListsStay
<1>5. ready'[c] = ready[c] /\ spec'[c] = spec[c] /\ givenUp'[c] = FALSE
  BY <1>2, SeenReady, SeenSpec, SeenGivenUp
<1>6. phase[c] = "leaving"
  BY <1>2, SeenThing
<1>7. spec[c] \notin Cleaned \/ object[c] \in {"any", "missing"} \/ givenUp[c]
  <2>1. CASE store[c].spec.cleanupPolicy # "Delete"
    BY <2>1, SeenSpec
  <2>2. CASE cause = "notFound"
    BY <1>1, <2>2, SeenGivenUp
  <2>3. CASE store[c].spec.cleanupPolicy = "Delete" /\ cause # "notFound"
    <3>1. Returned(opts) \cap acl = {} /\ OnSchema(opts, "CREATE") \cap acl = {}
      BY <1>2, <2>3 DEF IInv, Taken, Revoked, Returned, Lasting
    <3>2. opts = Opts(c, store[c].spec) /\ ~(Lasting(opts) \subseteq acl)
      BY <1>1, <1>2, <3>1, CreateLasts DEF opts
    <3>3. ObjectOf(c) \in {"any", "missing"}
      BY <3>1, <3>2, ObjectCases
    <3> QED
      BY <3>3, SeenThing
  <2> QED
    BY <2>1, <2>2, <2>3
<1>8. \/ phase'[c] = "held" /\ object'[c] = object[c]
      \/ phase'[c] = "absent" /\ object'[c] = "any"
  <2>1. CASE store'[c].exists /\ PhaseOf(store'[c]) = "held"
    <3>1. ObjectOf(c)' = ObjectOf(c)
      BY <1>2, <2>1, ObjectStays, ListsStay
    <3> QED
      BY <2>1, <3>1, SeenThing
  <2>2. CASE ~store'[c].exists /\ PhaseOf(store'[c]) = "absent"
    <3>1. ObjectOf(c)' = "any"
      BY <2>2 DEF ObjectOf
    <3> QED
      BY <2>2, <3>1, SeenThing
  <2> QED
    BY <1>2, <2>1, <2>2
<1>9. Shown!Next
  BY <1>4, <1>5, <1>6, <1>7, <1>8, Shown!ReleaseShown
<1> QED
  BY <1>3, <1>9 DEF Implemented

\* What a failure changes.
LEMMA FailedCases ==
  ASSUME NEW message \in Message, NEW left, Failed(message, left)
  PROVE  \/ store' = store
         \/ /\ store[key].exists
            /\ \E m \in Message : Put(key, Patched("False", m))
BY ReportCases DEF Failed

\* Reconcile, from "connect" to the last statement of GrantPrivileges.
LEMMA ConnectShown ==
  ASSUME IInv, IInv', Marks, Connect
  PROVE  Marks' /\ Implemented
<1>1. pc = "connect" /\ UNCHANGED <<acl, tampered, cause>>
  BY DEF Connect, grantVars, sqlVars
<1>2. \/ store' = store
      \/ /\ store[key].exists
         /\ \E m \in Message : Put(key, Patched("False", m))
  BY FailedCases DEF Connect, GoTo, Message
<1> QED
  BY <1>1, <1>2, MakesShown, ListsStay

LEMMA GrantsShown ==
  ASSUME IInv, IInv', Marks, NEW n \in 1 .. 5, GrantPrivileges(n)
  PROVE  Marks' /\ Implemented
<1> DEFINE stmt == GrantStatements(opts)[n]
           E == stmt.entries
<1>1. pc = GrantPc[n] /\ UNCHANGED <<tampered, cause>>
  BY DEF GrantPrivileges
<1>2. pc \in GrantPcs
  BY <1>1, PcNames
<1>3. E \in {OnDatabase(opts), OnTables(opts), OnDefault(opts),
             OnSchema(opts, "USAGE"), OnSchema(opts, "CREATE")}
  BY GrantTable
<1>4. acl' \in {acl, acl \cup E}
  BY DEF GrantPrivileges
<1>5. \/ store' = store
      \/ \E left : Failed("create", left)
  BY DEF GrantPrivileges, GoTo
<1> HIDE DEF E, stmt
<1>6. \/ store' = store
      \/ /\ store[key].exists
         /\ \E m \in Message : Put(key, Patched("False", m))
  BY <1>5, FailedCases DEF Message
<1>7. pc \notin {"idle", "release"}
  BY <1>2 DEF GrantPcs
<1>8. \A cr \in CR \ {key} : Untouched(cr)
  BY <1>1, <1>3, <1>4, <1>7, Elsewhere
<1> QED
  BY <1>1, <1>4, <1>6, <1>7, <1>8, MakesShown

LEMMA AddFinalizerShown ==
  ASSUME IInv, IInv', Marks, AddFinalizer
  PROVE  Marks' /\ Implemented
<1>1. pc = "finalize" /\ UNCHANGED <<acl, tampered, cause>>
  BY DEF AddFinalizer, grantVars, sqlVars
<1>2. CASE UpdateConflict \/ UpdateError
  <2>1. store' = store /\ cause = "none"
    BY <1>1, <1>2, Busy DEF UpdateConflict, UpdateError
  <2> QED
    BY <1>1, <2>1, MovesShown
<1>3. CASE UpdateAddFinalizer("ready") \/ UpdateReplyLost(WithFinalizer)
  BY <1>1, <1>3, GuardsShown DEF UpdateAddFinalizer, UpdateReplyLost
<1> QED
  BY <1>2, <1>3 DEF AddFinalizer

LEMMA RemoveFinalizerShown ==
  ASSUME IInv, IInv', Marks, RemoveFinalizer
  PROVE  Marks' /\ Implemented
<1>1. pc = "release" /\ UNCHANGED <<acl, tampered>> /\ cause' = "none"
  BY DEF RemoveFinalizer, sqlVars
<1>2. CASE UpdateConflict \/ UpdateError
  <2>1. store' = store
    BY <1>2 DEF UpdateConflict, UpdateError
  <2> QED
    BY <1>1, <2>1, Forgets DEF Marks, Marked
<1>3. CASE UpdateRemoveFinalizer \/ UpdateReplyLost(WithoutFinalizer)
  BY <1>1, <1>3, ReleasesShown DEF UpdateRemoveFinalizer, UpdateReplyLost
<1> QED
  BY <1>2, <1>3 DEF RemoveFinalizer

\* handleDeletion, from "connectRevoke" to the last statement.
LEMMA ConnectRevokeShown ==
  ASSUME IInv, Marks, ConnectRevoke
  PROVE  Marks' /\ Implemented
<1>1. pc = "connectRevoke" /\ UNCHANGED <<acl, tampered>>
  BY DEF ConnectRevoke, sqlVars
<1>2. cause = "none"
  BY <1>1, Busy
<1>3. CASE GoTo(RevokePc[1]) /\ UNCHANGED cause
  BY <1>1, <1>2, <1>3, MovesShown DEF GoTo
<1>4. CASE GoTo("release") /\ cause' = "notFound"
  BY <1>1, <1>4, GivesUpShown
<1>5. CASE DeletionError(quota)
  BY <1>1, <1>2, <1>5, MovesShown DEF DeletionError
<1> QED
  BY <1>3, <1>4, <1>5 DEF ConnectRevoke

LEMMA RevokesShown ==
  ASSUME IInv, Marks, NEW n \in 1 .. 4, RevokePrivileges(n)
  PROVE  Marks' /\ Implemented
<1> DEFINE stmt == RevokeStatements(opts)[n]
           E == stmt.entries
<1>1. pc = RevokePc[n] /\ tampered' = tampered
  BY DEF RevokePrivileges
<1>2. pc \in DropPc /\ pc # "idle" /\ pc # "release"
  BY <1>1, PcNames DEF DropPc, RevokePcs
<1>3. E \in {OnDatabase(opts), OnTables(opts), OnDefault(opts),
             OnSchema(opts, "USAGE"), OnSchema(opts, "CREATE")}
  BY RevokeTable
<1>4. acl' \in {acl, acl \ E}
  BY DEF RevokePrivileges
<1>5. store' = store /\ key' \in {key, NoCR}
  BY DEF RevokePrivileges, GoTo, DeletionError, Return
<1>6. cause' = cause \/ (cause' = "revoked" /\ pc' = "release")
  BY DEF RevokePrivileges, GoTo, DeletionError
<1> HIDE DEF E, stmt
<1>7. cause = "none"
  BY <1>2, Busy
<1>8. \A cr \in CR \ {key} : Untouched(cr)
  BY <1>1, <1>2, <1>3, <1>4, Elsewhere
<1> QED
  BY <1>1, <1>2, <1>4, <1>5, <1>6, <1>7, <1>8, DropsShown

---------------------------------------------------------------------------
(* The whole system.                                                       *)

LEMMA InitMarks == Init => Marks
BY InitMarked DEF Init, Marks

LEMMA InitImplemented == Init => Shown!Init
<1> SUFFICES ASSUME Init PROVE Shown!Init
  OBVIOUS
<1>1. \A cr \in CR : /\ store[cr] = Never /\ ~Never.exists
                     /\ ~(key = cr /\ cause = "notFound")
  BY DEF Init, KubeInit, Never
<1>2. phase = [cr \in CR |-> "absent"]
  BY <1>1 DEF phase, PhaseOf
<1>3. ready = [cr \in CR |-> FALSE]
  BY <1>1 DEF ready, Ready
<1>4. object = [cr \in CR |-> "any"]
  BY <1>1 DEF object, ObjectOf
<1>5. spec \in [CR -> Specs]
  BY <1>1, NeverType DEF spec, Version
<1>6. givenUp = [cr \in CR |-> FALSE]
  BY <1>1 DEF givenUp
<1> QED
  BY <1>2, <1>3, <1>4, <1>5, <1>6 DEF Shown!Init

LEMMA NextImplemented ==
  IInv /\ IInv' /\ Marks /\ [Next]_vars => Marks' /\ Implemented
<1> SUFFICES ASSUME IInv, IInv', Marks, [Next]_vars PROVE Marks' /\ Implemented
  OBVIOUS
<1>1. ASSUME NEW cr \in CR, Users(cr), UNCHANGED grantVars PROVE Marks' /\ Implemented
  BY <1>1, UsersShown
<1>2. ASSUME NEW cr \in CR, ReleaseHold(cr), UNCHANGED grantVars PROVE Marks' /\ Implemented
  BY <1>2, UsersShown
<1>3. ASSUME NEW cr \in CR, Deliver(cr), UNCHANGED grantVars PROVE Marks' /\ Implemented
  BY <1>3, OthersShown
<1>4. ASSUME Restart, cause' = "none", UNCHANGED <<sqlVars, verified>>
      PROVE  Marks' /\ Implemented
  BY <1>4, RestartShown DEF sqlVars
<1>5. ASSUME NEW ns \in Namespace, InstChange(ns),
             UNCHANGED <<dbs, roles, tables, acl, tampered, verified, cause>>
      PROVE  Marks' /\ Implemented
  BY <1>5, OthersShown
<1>6. CASE OtherClient
  BY <1>6, OthersShown
<1>7. ASSUME NEW cr \in CR, Take(cr) PROVE Marks' /\ Implemented
  BY <1>7, TakesShown
<1>8. ASSUME NEW n \in 1 .. Len(GrantPc), GrantPrivileges(n) PROVE Marks' /\ Implemented
  BY <1>8, GrantsShown, PcNames
<1>9. ASSUME NEW n \in 1 .. Len(RevokePc), RevokePrivileges(n) PROVE Marks' /\ Implemented
  BY <1>9, RevokesShown, PcNames
<1>10. CASE Work
  BY <1>8, <1>9, <1>10, ConnectShown, AddFinalizerShown, MarkReadyShown,
     ConnectRevokeShown, RemoveFinalizerShown DEF Work
<1>11. CASE UNCHANGED vars
  <2>1. UNCHANGED <<store, pc, key, acl, tampered, cause>>
    BY <1>11 DEF vars, kubeVars, grantVars, sqlVars
  <2> QED
    BY <2>1, Unseen, ListsStay DEF Marks, Marked
<1> QED
  BY <1>1, <1>2, <1>3, <1>4, <1>5, <1>6, <1>7, <1>10, <1>11 DEF Next

\* The mapping is that of ImplementsLifecycle.
LEMMA SameInit == Shown!Init => Promise!Init
BY DEF Shown!Init, Promise!Init, phase, ready, spec, object, givenUp

LEMMA SameNext == Implemented => [Promise!Next]_(Promise!vars)
BY DEF Implemented,
       phase, ready, spec, object, givenUp, Shown!Next, Shown!Create,
       Shown!Edit, Shown!Ask, Shown!Delete, Shown!Forget, Shown!Make,
       Shown!Drop, Shown!Tamper, Shown!Guard, Shown!Report, Shown!Retract,
       Shown!GiveUp, Shown!Release, Shown!LetGo, Shown!Enter, Shown!Whole,
       Shown!Object, Shown!vars, Promise!Next, Promise!Create,
       Promise!Edit, Promise!Ask, Promise!Delete, Promise!Forget,
       Promise!Make, Promise!Drop, Promise!Tamper, Promise!Guard,
       Promise!Report, Promise!Retract, Promise!GiveUp, Promise!Release,
       Promise!LetGo, Promise!Enter, Promise!Whole, Promise!Object,
       Promise!vars

\* Every behaviour of the controller is one that Lifecycle allows.  Through
\* stale caches, lost replies and crashes between statements, while other
\* clients make and drop tables and roles, of a role and database that no
\* other resource is about: the finalizer comes when the role holds every
\* lasting privilege; while the resource lives with the finalizer and its spec
\* stays, none of those goes, whether the resource is Ready or not (Drop);
\* Ready=True is reported of one that has them all; and the finalizer goes when
\* the role holds none of those that RevokePrivileges takes, is to keep them,
\* or that is given up.  Once another client has revoked a privilege, or has
\* made or dropped a database (tampered), nothing is said of privileges any
\* more, and the rest still is: the phases, Ready and givenUp.
THEOREM LifecycleImplemented == Spec => ImplementsLifecycle
<1>1. Init => Promise!Init
  BY InitImplemented, SameInit
<1>2. IInv /\ IInv' /\ Marks /\ [Next]_vars => Marks' /\ [Promise!Next]_(Promise!vars)
  BY NextImplemented, SameNext
<1> QED
  BY <1>1, <1>2, InitMarks, Invariance, PTL DEF Spec, ImplementsLifecycle, Promise!Spec
==============================================================================
