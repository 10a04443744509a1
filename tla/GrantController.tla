--------------------------- MODULE GrantController ---------------------------
(***************************************************************************)
(* The PostgreSQLGrant controller: Reconcile and handleDeletion of         *)
(* internal/controller/postgresqlgrant_controller.go with GrantPrivileges  *)
(* (five statements) and RevokePrivileges (four) of internal/sql/grant.go, *)
(* one action for each call that reads or writes state outside the         *)
(* process.  The statements are not in a transaction: any of them may be   *)
(* the last, and tables, roles and databases come and go between them.     *)
(***************************************************************************)
EXTENDS Instances, Sequences

CONSTANTS
  Database, Schema, Role,   \* names
  Table,                    \* tables a schema may have
  DatabasePrivilege,        \* what may be granted on a database
  TablePrivilege            \* what may be granted on a table

Privilege == DatabasePrivilege \cup TablePrivilege

\* spec.privileges: {"ALL"} stands for ["ALL PRIVILEGES"].
GrantSpec == [privileges : (SUBSET Privilege \ {{}}) \cup {{"ALL"}}, database : Database,
              schema : Schema, role : Role, postgresRef : Namespace \cup {""},
              cleanupPolicy : {"Skip", "Delete"},
              requeueInterval : Interval, retryInterval : Interval]

\* The objects of a database that carry privileges: the database itself, its
\* schemas, their default privileges for tables to come, and their tables.
Item == {<<"database">>} \cup ({"schema", "default"} \X Schema)
          \cup ({"table"} \X Schema \X Table)

\* An entry of an access control list: role holds priv on item, which is
\* part of the database db of the instance of namespace ns.
Entry == [ns : Namespace, db : Database, item : Item, role : Role,
          priv : Privilege \cup {"USAGE", "CREATE"}]

ASSUME GrantAssumption ==
  /\ DatabasePrivilege \cap TablePrivilege = {}
  /\ "ALL" \notin Privilege
  /\ Specs \subseteq GrantSpec

VARIABLES
  dbs,        \* the databases that exist: pairs of an instance and a name
  roles,      \* the roles that exist: pairs of an instance and a name
  tables,     \* the tables that exist: <<ns, database, schema, table>>
  acl,        \* what is granted: a set of entries
  tampered,   \* history: others dropped a database or revoked a privilege
  verified,   \* history: <<cr, uid, spec>> that GrantPrivileges succeeded for
  cause       \* history: why handleDeletion removes the finalizer

sqlVars == <<inst, dbs, roles, tables, acl, tampered>>
grantVars == <<sqlVars, verified, cause>>
vars == <<kubeVars, grantVars>>

---------------------------------------------------------------------------
(* The statements.  o is the resource's spec with ns, the namespace of the *)
(* instance, for what GrantOpts and the connection say together.           *)

Opts(cr, s) == [spec |-> s, ns |-> PgNamespace(cr, s.postgresRef)]

opts == Opts(key, obj.spec)

RoleThere(o) == <<o.ns, o.spec.role>> \in roles

\* A privilege list is accepted if every member applies to the kind of
\* object; ALL PRIVILEGES applies to any.
Accepts(kinds, privileges) == privileges = {"ALL"} \/ privileges \subseteq kinds

Expand(kinds, privileges) == IF privileges = {"ALL"} THEN kinds ELSE privileges

Entries(o, items, privs) ==
  {[ns |-> o.ns, db |-> o.spec.database, item |-> i, role |-> o.spec.role, priv |-> p] :
     i \in items, p \in privs}

TablesOf(o) ==
  {<<"table", o.spec.schema, t[4]>> :
     t \in {u \in tables : u[1] = o.ns /\ u[2] = o.spec.database /\ u[3] = o.spec.schema}}

OnDatabase(o) ==
  Entries(o, {<<"database">>}, Expand(DatabasePrivilege, o.spec.privileges))

OnTables(o) == Entries(o, TablesOf(o), Expand(TablePrivilege, o.spec.privileges))

OnDefault(o) ==
  Entries(o, {<<"default", o.spec.schema>>}, Expand(TablePrivilege, o.spec.privileges))

OnSchema(o, priv) == Entries(o, {<<"schema", o.spec.schema>>}, {priv})

\* A statement fails unless its role exists and its privilege list applies.
Statement(o, kinds, privileges, entries) ==
  [ok |-> RoleThere(o) /\ Accepts(kinds, privileges), entries |-> entries]

\* Mutant: default privileges for tables to come are left out.
GrantStatementsNoDefault(o) ==
  LET privs == o.spec.privileges
  IN  << Statement(o, DatabasePrivilege, privs, OnDatabase(o)),
         Statement(o, TablePrivilege, privs, OnTables(o)),
         Statement(o, TablePrivilege, privs, {}),
         Statement(o, {}, {}, OnSchema(o, "USAGE")),
         Statement(o, {}, {}, OnSchema(o, "CREATE")) >>

\* GrantPrivileges.
GrantStatements(o) ==
  LET privs == o.spec.privileges
  IN  << Statement(o, DatabasePrivilege, privs, OnDatabase(o)),
         Statement(o, TablePrivilege, privs, OnTables(o)),
         Statement(o, TablePrivilege, privs, OnDefault(o)),
         Statement(o, {}, {}, OnSchema(o, "USAGE")),
         Statement(o, {}, {}, OnSchema(o, "CREATE")) >>

\* Mutant: the existing tables before the default privileges.
RevokeStatementsSwapped(o) ==
  LET privs == o.spec.privileges
  IN  << Statement(o, TablePrivilege, privs, OnTables(o)),
         Statement(o, TablePrivilege, privs, OnDefault(o)),
         Statement(o, {}, {}, OnSchema(o, "CREATE")),
         Statement(o, DatabasePrivilege, privs, OnDatabase(o)) >>

\* RevokePrivileges.
RevokeStatements(o) ==
  LET privs == o.spec.privileges
  IN  << Statement(o, TablePrivilege, privs, OnDefault(o)),
         Statement(o, TablePrivilege, privs, OnTables(o)),
         Statement(o, {}, {}, OnSchema(o, "CREATE")),
         Statement(o, DatabasePrivilege, privs, OnDatabase(o)) >>

\* Where the worker is when a statement is next.
GrantPc == <<"grant1", "grant2", "grant3", "grant4", "grant5">>
RevokePc == <<"revoke1", "revoke2", "revoke3", "revoke4">>

\* Mutant: the connection goes to the admin database instead.
connectToDatabaseAdmin(cr, s) == connectToPostgres(cr, s.postgresRef)

\* Connection to the target database: unlike connectToPostgres it also fails
\* (with an error that is not NotFound) when there is no such database.
connectToDatabase(cr, s) ==
  LET reply == connectToPostgres(cr, s.postgresRef)
  IN  IF reply = "connected" /\ <<PgNamespace(cr, s.postgresRef), s.database>> \notin dbs
        THEN "error"
        ELSE reply

Connection == connectToDatabase(key, obj.spec)

---------------------------------------------------------------------------
(* Reconcile.                                                              *)

\* Mutant: a resource that is being deleted is left alone.
ReconcileGoneDeleting(cr) ==
  /\ ~cache[cr].exists \/ cache[cr].deleting
  /\ ReconcileNothing(cr)
  /\ UNCHANGED grantVars

ReconcileGone(cr) ==
  /\ ~cache[cr].exists \/ (cache[cr].deleting /\ ~cache[cr].finalizer)
  /\ ReconcileNothing(cr)
  /\ UNCHANGED grantVars

ReconcileLive(cr) ==
  /\ ~cache[cr].deleting
  /\ ReconcileObject(cr, "connect")
  /\ UNCHANGED grantVars

Connect ==
  /\ pc = "connect"
  /\ \/ Connection = "connected" /\ GoTo(GrantPc[1])
     \/ Connection # "connected" /\ Failed("connect", quota)
  /\ UNCHANGED grantVars

\* GrantPrivileges: the n-th statement takes effect and the next one follows,
\* or the finalizer, unless it is there; the server refuses the statement; or
\* it fails at the cost of a disturbance, with or without effect.
GrantPrivileges(n) ==
  /\ pc = GrantPc[n]
  /\ LET stmt == GrantStatements(opts)[n]
     IN  \/ /\ stmt.ok /\ acl' = acl \cup stmt.entries
            /\ IF n < Len(GrantPc)
                 THEN GoTo(GrantPc[n + 1]) /\ UNCHANGED verified
                 ELSE /\ GoTo(IF obj.finalizer THEN "ready" ELSE "finalize")
                      /\ verified' = verified \cup {<<key, obj.uid, obj.spec>>}
         \/ ~stmt.ok /\ Failed("create", quota) /\ UNCHANGED <<acl, verified>>
         \/ /\ quota > 0 /\ Failed("create", quota - 1)
            /\ acl' \in {acl, IF stmt.ok THEN acl \cup stmt.entries ELSE acl}
            /\ UNCHANGED verified
  /\ UNCHANGED <<inst, dbs, roles, tables, tampered, cause>>

\* Mutant: when the Update meets a conflict, what the statements gave for
\* good is taken back.
AddFinalizerUndo ==
  /\ pc = "finalize"
  /\ \/ (UpdateAddFinalizer("ready") \/ UpdateReplyLost(WithFinalizer)) /\ UNCHANGED acl
     \/ /\ UpdateConflict
        /\ acl' = acl \ (OnDatabase(opts) \cup OnDefault(opts) \cup OnSchema(opts, "CREATE"))
  /\ UNCHANGED <<inst, dbs, roles, tables, tampered, verified, cause>>

AddFinalizer ==
  /\ pc = "finalize"
  /\ \/ UpdateAddFinalizer("ready")
     \/ UpdateConflict
     \/ UpdateError
     \/ UpdateReplyLost(WithFinalizer)
  /\ UNCHANGED grantVars

MarkReady ==
  /\ pc = "ready"
  /\ Succeeded
  /\ UNCHANGED grantVars

---------------------------------------------------------------------------
(* handleDeletion.                                                         *)

handleDeletion(cr) ==
  /\ cache[cr].deleting /\ cache[cr].finalizer
  /\ IF cache[cr].spec.cleanupPolicy = "Delete"
       THEN ReconcileObject(cr, "connectRevoke") /\ UNCHANGED cause
       ELSE ReconcileObject(cr, "release") /\ cause' = "policy"
  /\ UNCHANGED <<sqlVars, verified>>

\* Mutant: a failed cleanup is not queued again.
DeletionErrorNoRetry(left) ==
  /\ Return(FALSE)
  /\ quota' = left
  /\ UNCHANGED <<store, watch, cache, cause>>

\* An error while cleaning up: try again after defaultRetryInterval, whatever
\* interval the spec sets.
DeletionError(left) ==
  /\ Return(defaultRetryInterval > 0)
  /\ quota' = left
  /\ UNCHANGED <<store, watch, cache, cause>>

ConnectRevoke ==
  /\ pc = "connectRevoke"
  /\ \/ Connection = "connected" /\ GoTo(RevokePc[1]) /\ UNCHANGED cause
     \/ Connection = "notFound" /\ GoTo("release") /\ cause' = "notFound"
     \/ Connection = "error" /\ DeletionError(quota)
  /\ UNCHANGED <<sqlVars, verified>>

\* RevokePrivileges, likewise; after the last statement the finalizer goes.
RevokePrivileges(n) ==
  /\ pc = RevokePc[n]
  /\ LET stmt == RevokeStatements(opts)[n]
     IN  \/ /\ stmt.ok /\ acl' = acl \ stmt.entries
            /\ IF n < Len(RevokePc)
                 THEN GoTo(RevokePc[n + 1]) /\ UNCHANGED cause
                 ELSE GoTo("release") /\ cause' = "revoked"
         \/ ~stmt.ok /\ DeletionError(quota) /\ UNCHANGED acl
         \/ /\ quota > 0 /\ DeletionError(quota - 1)
            /\ acl' \in {acl, IF stmt.ok THEN acl \ stmt.entries ELSE acl}
  /\ UNCHANGED <<inst, dbs, roles, tables, tampered, verified>>

RemoveFinalizer ==
  /\ pc = "release"
  /\ \/ UpdateRemoveFinalizer
     \/ UpdateConflict
     \/ UpdateError
     \/ UpdateReplyLost(WithoutFinalizer)
  /\ cause' = "none"
  /\ UNCHANGED <<sqlVars, verified>>

---------------------------------------------------------------------------
(* Other SQL clients, and the whole system.                                *)

\* A table is created, by the operator's superuser (then default privileges
\* apply to it: ALTER DEFAULT PRIVILEGES without FOR ROLE is about the
\* tables of the role that ran it) or by another role; or it is dropped.
OtherTable ==
  /\ \E d \in dbs, s \in Schema, t \in Table :
       LET table == <<d[1], d[2], s, t>>
           there(e) == e.ns = d[1] /\ e.db = d[2]
           granted == {[e EXCEPT !.item = <<"table", s, t>>] :
                         e \in {f \in acl : there(f) /\ f.item = <<"default", s>>}}
           lost == {e \in acl : there(e) /\ e.item = <<"table", s, t>>}
       IN  \/ /\ table \notin tables /\ tables' = tables \cup {table}
              /\ acl' \in {acl, acl \cup granted}
           \/ table \in tables /\ tables' = tables \ {table} /\ acl' = acl \ lost
  /\ UNCHANGED <<dbs, roles, tampered>>

\* The connection lasts until the reconcile returns.
ConnectedTo(d) ==
  /\ pc \notin {"idle", "connect", "connectRevoke"}
  /\ pc = "release" => cause = "revoked"
  /\ <<opts.ns, obj.spec.database>> = d

\* A database is created, or dropped with all that is in it; the server
\* refuses to drop the one the worker is connected to.
OtherDatabase ==
  /\ \E d \in Namespace \X Database :
       \/ d \notin dbs /\ dbs' = dbs \cup {d} /\ UNCHANGED <<tables, acl>>
       \/ /\ d \in dbs /\ dbs' = dbs \ {d}
          /\ ~ConnectedTo(d)
          /\ tables' = {t \in tables : <<t[1], t[2]>> # d}
          /\ acl' = {e \in acl : <<e.ns, e.db>> # d}
  /\ tampered' = TRUE
  /\ UNCHANGED roles

\* A role is created, or dropped if it holds no privilege.
OtherRole ==
  /\ \E r \in Namespace \X Role :
       \/ r \notin roles /\ roles' = roles \cup {r}
       \/ /\ r \in roles /\ roles' = roles \ {r}
          /\ \A e \in acl : <<e.ns, e.role>> # r
  /\ UNCHANGED <<dbs, tables, acl, tampered>>

\* Somebody revokes one privilege.
OtherRevoke ==
  /\ \E e \in acl : acl' = acl \ {e}
  /\ tampered' = TRUE
  /\ UNCHANGED <<dbs, roles, tables>>

OtherClient ==
  /\ Disturb
  /\ OtherTable \/ OtherDatabase \/ OtherRole \/ OtherRevoke
  /\ UNCHANGED <<store, watch, cache, queue, pc, key, obj, inst, verified, cause>>

Users(cr) ==
  \/ UserCreate(cr)
  \/ UserEdit(cr)
  \/ UserDelete(cr)

Init ==
  /\ KubeInit
  /\ InstInit
  /\ dbs = Namespace \X Database
  /\ roles = Namespace \X Role
  /\ tables = {}
  /\ acl = {}
  /\ tampered = FALSE
  /\ verified = {}
  /\ cause = "none"

Take(cr) == ReconcileGone(cr) \/ ReconcileLive(cr) \/ handleDeletion(cr)

Work ==
  \/ Connect
  \/ \E n \in 1 .. Len(GrantPc) : GrantPrivileges(n)
  \/ AddFinalizer \/ MarkReady
  \/ ConnectRevoke
  \/ \E n \in 1 .. Len(RevokePc) : RevokePrivileges(n)
  \/ RemoveFinalizer

Next ==
  \/ \E cr \in CR : Users(cr) /\ UNCHANGED grantVars
  \/ \E cr \in CR : ReleaseHold(cr) /\ UNCHANGED grantVars
  \/ \E cr \in CR : Deliver(cr) /\ UNCHANGED grantVars
  \/ Restart /\ cause' = "none" /\ UNCHANGED <<sqlVars, verified>>
  \/ \E ns \in Namespace :
       InstChange(ns) /\ UNCHANGED <<dbs, roles, tables, acl, tampered, verified, cause>>
  \/ OtherClient
  \/ \E cr \in CR : Take(cr)
  \/ Work

Spec == Init /\ [][Next]_vars

\* As for DatabaseController.
Fairness ==
  /\ WF_vars(Work)
  /\ \A cr \in CR : /\ SF_vars(Take(cr))
                    /\ WF_vars(Deliver(cr) /\ UNCHANGED grantVars)
                    /\ WF_vars(ReleaseHold(cr) /\ UNCHANGED grantVars)

FairSpec == Spec /\ Fairness

---------------------------------------------------------------------------
(* Properties.                                                             *)

\* Every variable has its type, and privileges exist only on databases and
\* tables that exist and for roles that exist.
TypeOK ==
  /\ KubeTypeOK
  /\ InstTypeOK
  /\ pc \in {"idle", "connect", "finalize", "ready", "connectRevoke", "release"}
          \cup {GrantPc[n] : n \in 1 .. 5} \cup {RevokePc[n] : n \in 1 .. 4}
  /\ dbs \in SUBSET (Namespace \X Database)
  /\ roles \in SUBSET (Namespace \X Role)
  /\ tables \in SUBSET (Namespace \X Database \X Schema \X Table)
  /\ acl \in SUBSET Entry
  /\ \A e \in acl : <<e.ns, e.db>> \in dbs /\ <<e.ns, e.role>> \in roles
  /\ \A e \in acl : \A s \in Schema, t \in Table :
       e.item = <<"table", s, t>> => <<e.ns, e.db, s, t>> \in tables
  /\ tampered \in BOOLEAN
  /\ verified \in SUBSET (CR \X Nat \X Specs)
  /\ cause \in {"none", "policy", "revoked", "notFound"}

\* What GrantPrivileges gives for good, and with it what is given on the
\* tables that exist.
Lasting(o) ==
  OnDatabase(o) \cup OnDefault(o) \cup OnSchema(o, "USAGE") \cup OnSchema(o, "CREATE")

Wanted(o) == Lasting(o) \cup OnTables(o)

\* No other resource is about the same role and database.
Owned(cr, o) ==
  \A other \in CR \ {cr} : \A s \in SpecOf[other] :
    <<Opts(other, s).ns, s.role, s.database>> # <<o.ns, o.spec.role, o.spec.database>>

\* Ready=True for the current generation of a live resource comes with the
\* finalizer and means that its role holds every lasting privilege, while
\* others at most create and drop tables and roles: no revocation for a
\* former incarnation or from a stale cache takes the privileges back.
ReadyMeansGranted ==
  \A cr \in CR :
    LET v == store[cr]
        o == Opts(cr, v.spec)
    IN  Ready(v) /\ ~v.deleting =>
          /\ v.finalizer /\ <<cr, v.uid, v.spec>> \in verified
          /\ ~tampered /\ Owned(cr, o) => Lasting(o) \subseteq acl

\* Nothing is ever forgotten: a resource with something to do (it lives, or it
\* waits for its cleanup) has a request queued, is being reconciled, or has a
\* version the informer is still to deliver.  A live one is re-checked for
\* ever only if its intervals are sane; a cleanup is retried whatever they
\* are.
NeverForgotten == \A cr \in CR : Due(store[cr]) => ~Forgotten(cr)

\* What a resource with cleanupPolicy Delete has RevokePrivileges take back.
Revocable(o) ==
  OnDatabase(o) \cup OnDefault(o) \cup OnTables(o) \cup OnSchema(o, "CREATE")

\* A resource with cleanupPolicy Delete loses its finalizer only when its
\* role holds none of what RevokePrivileges takes back, on tables created in
\* the middle of the revocation either ("Revoke default privileges first"),
\* or when connectToDatabase reported that there is no PostgreSQL resource.
RevokedBeforeRelease ==
  [][\A cr \in CR :
       LET v == store[cr]
           o == Opts(cr, v.spec)
       IN  /\ v.finalizer /\ ~store'[cr].finalizer
           /\ v.spec.cleanupPolicy = "Delete"
           => Revocable(o) \cap acl' = {} \/ cause = "notFound"]_vars

\* "RevokePrivileges revokes privileges previously granted": after it the
\* role holds nothing of what GrantPrivileges gave.
AllRevoked ==
  [][pc = RevokePc[4] /\ pc' = "release" /\ Owned(key, opts)
       => Wanted(opts) \cap acl' = {}]_vars

Reach(cr) == connectToDatabase(cr, store[cr].spec)

\* A live resource with sane intervals, its database and role there for good.
Grantable(cr) ==
  /\ store[cr].exists /\ ~store[cr].deleting /\ Sane(store[cr].spec)
  /\ Reach(cr) = "connected"
  /\ RoleThere(Opts(cr, store[cr].spec))

Granted(cr) ==
  Ready(store[cr]) /\ Wanted(Opts(cr, store[cr].spec)) \subseteq acl

\* With ALL PRIVILEGES, such a resource is eventually Ready for good and its
\* role holds every privilege, on each table that exists too: what others
\* revoke, and the tables created between GrantPrivileges' second and third
\* statement, are caught by the requeues.
EventuallyGranted ==
  \A cr \in CR :
    <>[](Grantable(cr) /\ store[cr].spec.privileges = {"ALL"}) => <>[]Granted(cr)

\* 'Example: ["ALL PRIVILEGES"], ["SELECT", "INSERT", "UPDATE", "DELETE"]':
\* lists of table privileges are granted as well.
TablePrivilegesGranted ==
  \A cr \in CR :
    <>[](Grantable(cr) /\ store[cr].spec.privileges \subseteq TablePrivilege)
      => <>[]Granted(cr)

\* No resource hangs in deletion on this finalizer while its database is
\* reachable, its role is there and it names ALL PRIVILEGES, or the instance
\* is known to be gone, or cleanup is not asked for.
DeletionCompletes ==
  \A cr \in CR :
    ~<>[](/\ store[cr].deleting /\ store[cr].finalizer
          /\ \/ /\ Reach(cr) = "connected"
                /\ RoleThere(Opts(cr, store[cr].spec))
                /\ store[cr].spec.privileges = {"ALL"}
             \/ Reach(cr) = "notFound"
             \/ store[cr].spec.cleanupPolicy = "Skip")

---------------------------------------------------------------------------
(* The promise.                                                            *)

\* What is on the server of the lasting privileges that the current spec of
\* cr asks for, USAGE aside, which is never revoked.
ObjectOf(cr) ==
  LET o == Opts(cr, store[cr].spec)
      revoked == Lasting(o) \ OnSchema(o, "USAGE")
  IN  IF ~store[cr].exists \/ ~Owned(cr, o) \/ tampered THEN "any"
      ELSE IF Lasting(o) \subseteq acl THEN "there"
      ELSE IF revoked \cap acl = {} THEN "missing" ELSE "partly"

\* The specs whose deletion asks for cleanup.
Cleaned == {s \in Specs : s.cleanupPolicy = "Delete"}

Promise == INSTANCE Lifecycle WITH
  phase   <- [cr \in CR |-> PhaseOf(store[cr])],
  ready   <- [cr \in CR |-> Ready(store[cr])],
  spec    <- [cr \in CR |-> store[cr].spec],
  object  <- [cr \in CR |-> ObjectOf(cr)],
  givenUp <- [cr \in CR |-> key = cr /\ cause = "notFound"]

\* As for databases, every step of the controller is a step that Lifecycle
\* allows.  Of the privileges of a role on a database that are its alone,
\* until some other client revokes any privilege, or makes or drops any
\* database: the finalizer comes when every statement of GrantPrivileges took
\* effect; while the resource lives with the finalizer and its spec stays,
\* they never go, whole or in part, Ready or not; and the finalizer goes
\* after all of them.
ImplementsLifecycle == Promise!Spec
==============================================================================
