# A TLA+ model of postgresql-access-operator

The operator manages databases, roles and grants on existing PostgreSQL servers
from Kubernetes custom resources. This directory models its controllers as
TLA+ state machines, alone and together, checks them with TLC, and proves with
TLAPS the safety properties of each of the four controllers and that the three
that work on SQL objects implement the abstract `Lifecycle`.

## The system

| Part | State it keeps | Operations |
|---|---|---|
| PostgreSQLDatabase controller (`internal/controller/postgresqldatabase_controller.go`, `internal/sql/database.go`) | none in memory; finalizer and Ready condition of the resource, the database on the server | `Reconcile`, `handleDeletion`, `CreateDatabase`, `DropDatabase` |
| PostgreSQLUser controller (`postgresqluser_controller.go`, `internal/sql/user.go`) | the same, with a role and its password | `Reconcile`, `handleDeletion`, `CreateOrUpdateRole`, `DropRole` |
| PostgreSQLGrant controller (`postgresqlgrant_controller.go`, `internal/sql/grant.go`) | the same, with entries of access control lists | `Reconcile`, `handleDeletion`, `GrantPrivileges` (five statements), `RevokePrivileges` (four) |
| SQL client (`internal/sql/client.go`) | one connection per reconcile | `Connect` (the connection string), `Ping` |
| PostgreSQL controller (`postgresql_controller.go`) | the Ready condition of the resource; no finalizer | `Reconcile` |
| Helpers (`helpers.go`) | none | `connectToPostgres`, `connectToDatabase`, `getSecretValue`, `patchCondition`, `requeueResult`, `retryResult`, `addJitter` |
| Kubernetes (external) | versions of resources, informer caches, work queues | watch, `Get`, `Update`, status `Patch`, deletion with finalizers |

The controllers do not call each other. They meet on the API server (through
`PostgreSQL` resources and Secrets) and on the PostgreSQL server (a role that
holds privileges cannot be dropped, a grant needs its database and role). Each
controller runs one reconcile at a time, but every call it makes leaves room for
users, other SQL clients, the informer and crashes.

What is hard here: `Get` reads a cache that lags; `Update` is guarded by a
resourceVersion, the status patch by nothing; the finalizer is stored after the
SQL statement; existence checks and statements are separate; nine GRANT and
REVOKE statements run without a transaction; any reply may be lost; nothing but
requeues repairs drift, and only as long as `RequeueAfter` is positive. What one
controller holds on the server (a connection, a privilege) makes statements of
another fail. `hazards` in `PROJECT.json` lists these at their lines.

What makes each part correct: Ready=True tells the truth about the current
generation of this very resource; the finalizer is there whenever there is
something to clean up and goes only after the cleanup; nothing is dropped or
revoked for a resource that lives; after finitely many faults, live resources
converge and deleted ones go.

## Modules

`KubeApi` is the Kubernetes side that all controllers share. `store[cr]` is the
API server's version of a resource, `cache[cr]` what `Get` returns, `watch[cr]`
the versions in between, `queue` the requests that wait for the worker, now or
after `RequeueAfter` or the rate limiter; `pc`, `key` and `obj` are the worker's
position, request and object. Versions carry resourceVersion, uid (the
resourceVersion of the first version), generation, spec, deletion mark,
`FinalizerName`, a foreign finalizer (`held`) and the Ready condition. Its
operators are the calls of the controllers: `ReconcileObject` (`Get`),
`UpdateAddFinalizer`, `UpdateRemoveFinalizer`, `UpdateConflict`, `UpdateError`,
`UpdateReplyLost` (`Update`), `patchCondition`, `Report` (`patchCondition`, then
a requeue), `Return`, `Restart`.

`Requeue` is the arithmetic of `requeueResult`, `retryResult` and `addJitter` in
an integer that wraps around: `Report` asks to be called again only if the
duration it picks is positive, as controller-runtime does. `Sane` intervals are
those for which every duration is.

`Instances` adds the PostgreSQL resources and servers as `connectToPostgres`
meets them: `ok`, `noCR`, `noSecret`, `noKey`, `down`; those of `Steady` stay
`ok`.

| Module | Extends | Models |
|---|---|---|
| `Lifecycle` | | the promise that the three SQL controllers implement |
| `DatabaseController` | `Instances` | the PostgreSQLDatabase controller; `dbs` are the databases that exist, `sessions` those that other clients are connected to, which DROP DATABASE refuses |
| `UserController` | `Instances` | the PostgreSQLUser controller; `roles[t]` is what the server stores as password, `secret` what the cached client reads, `pinned` the roles that DROP ROLE refuses |
| `GrantController` | `Instances` | the PostgreSQLGrant controller; `acl` is the set of access control entries, `tables`, `roles`, `dbs` what exists |
| `InstanceController` | `Instances` | the PostgreSQL controller |
| `Operator` | instances of the three SQL controllers | the three in one process, on one server |
| `Quoting` | `ConnString` | `escapeString` and `quoteLiteral`, against PostgreSQL's reading of string constants |
| `ConnString` | | the connection string of `Connect`, against pgx's reading of it |
| `KubeApiProofs`, `AttentionProofs` | `KubeApi` | lemmas on staleness and on lost requests, for any controller |
| `DatabaseControllerProofs`, `UserControllerProofs`, `GrantControllerProofs` | the controller, `AttentionProofs`, an instance of `LifecycleProofs` | the theorems on its properties, and that it implements `Lifecycle` |
| `InstanceControllerProofs` | `InstanceController`, `AttentionProofs` | the theorems on its properties |
| `OperatorProofs` | `Operator`, instances of the controllers' proof modules | the theorems on the three together |
| `LifecycleProofs` | `Lifecycle` | by which values of one resource a step is an action of `Lifecycle`, for any controller |
| `MCDatabase`, `MCUser`, `MCGrant`, `MCInstance`, `MCOperator` | the module checked | small instances |

Each action of a controller is one call that reads or writes state outside the
process together with the computation up to the next one; its name is the
function's where there is one. An early return is the disjunct of the action
that ends with `Return` or `Report`. A statement that fails or whose reply is
lost is a disjunct that costs one disturbance; a statement that the server
refuses (the database exists already, the role is gone, the privilege does not
apply) costs nothing, since it follows from the state. `verified` and `cause`
are history variables: what SQL succeeded for which incarnation, and why
`handleDeletion` goes on to remove the finalizer. Definitions marked as mutants
are never used by the specifications; each is a plausible bug that one of the
properties detects.

### The promise

`Lifecycle` knows nothing of workers, caches, replies or statements. A resource
is `absent`, `asked` for (alive without the finalizer), `guarded` (alive with
it), `leaving` (being deleted with it) or `held` (being deleted, kept by somebody
else's finalizer); what its spec asks for is on the server (`there`), not
(`missing`), or `partly` (some of several privileges). The promise is in the
guards: `Guard` and `Report` (of Ready=True) need the thing to be there, `Drop`
never happens to a guarded resource, whether it is Ready or not, `Release` needs
it to be gone, unless the policy is Skip or the cleanup was `givenUp`.

`spec` is part of the abstract state, because the thing is what the spec names.
When the spec changes, the thing is another one and anything may be the case
with it; `Create` and `Edit` are the only actions that let `object` change that
way, and `Edit` must change the spec, as in the code only a user's write does.
While the spec stays, the thing comes by `Make` and goes by `Drop` alone, and the
guard of `Drop` has nothing to hide behind.

`any` is the thing of which others (another resource that asks for it, another
client, nobody once the resource is gone) have a say; nothing is promised of it.
Whether a database or a role is `any` does not depend on the state but on the
specs users may give and on `OutOfBand`. The privileges of a grant become `any`
for good when another client revokes any privilege, or makes or drops any database
(`tampered`). `Tamper` takes a set of resources, since one database that others
drop takes the privileges of many grants along; databases and roles do without it.

Each controller instantiates it as `Promise`, with a mapping from its own state:
`PhaseOf`, `Ready` and `spec` read the version in the API server, `ObjectOf`
compares the server with what that spec asks for, `Cleaned` are the specs with
`cleanupPolicy: Delete`, `givenUp` is the history variable `cause` of the worker.
`ImplementsLifecycle` says that every step is a step of `Lifecycle`, or none. The
mutants of the three (`AddFinalizerUndo`) break the guard of `Drop`: after a lost
reply of the `Update` that stores the finalizer, a reconcile with a stale cache
meets a conflict and undoes what it believes to be its own work, for a resource
that is guarded and was never Ready, so that what Ready=True means is not
concerned.

### The composition

`Operator` takes the three controllers by `INSTANCE`, each with its own worker,
queue and cache, and keeps the views they have of the server in step: the
databases the grant's worker is connected to are the `sessions` that DROP
DATABASE meets; the roles that hold an entry of `acl` are the `pinned` ones that
DROP ROLE meets; a dropped database takes its `acl` entries and tables along;
`dbs` and the roles `present` are what the grant controller meets. It starts with
a database, a role and a grant of the one on the other, all Ready, and lets users
delete the three in any order, with a crash.

What it shows: the server is always cleared (`ServerCleared`, `NothingLeft`), but
the order matters to the resources. The role waits for the database, since
USAGE on the schema is never revoked and pins it. A grant whose database is
dropped before its own cleanup cannot connect any more; `connectToDatabase` fails
with an error that is not NotFound, and its resource stays in deletion for good
(`StrandedForGood`), while a grant whose database stays is always released
(`GrantReleased`).

## Runs

Every run bounds user operations, faults, crashes and acts of other clients
together by `MaxDisturbances` (`quota`), placed anywhere. The other bounds are
one or two resources and one or two instances and names. Two resources in two
namespaces are enough for sharing a target across namespaces; the instance of
the namespace of the second is `Steady`, which costs no case, since both
resources use the one of the first. Three disturbances cover create, delete and
recreate, or create, fault and delete; the scenarios behind the properties (a
stale cache on a recreated resource, a lost reply before a deletion, a table
created in the middle of a revocation) take no more. For the database
controller, whose safety is proved for any number of them, three also suffice
for liveness. `instance` has four, to add an edit or a fault. In `operator` four
are the three deletions and a crash, or another client's; its calls do not fail
of themselves (the runs of the single controllers cover that), and names are not
used again. Durations are scaled to `MaxDuration = 15`, with defaults of 12 and 2
and a jitter below 2, so that an interval may be negative, sane, or large enough
for its sum with the jitter to wrap around: each of these is in the specs of the
instances.

| Run | Checks |
|---|---|
| `database` | `TypeOK`, `FinalizerEarned`, `ReadyEarned`, `ReadyMeansExists`, `NeverForgotten`, `DropIsWanted`, `CleanupBeforeRelease`, `ImplementsLifecycle`, and under fairness `EventuallyReady`, `DeletionCompletes`, with two resources that may share a database |
| `user_safe` | `TypeOK`, `ReadyIsGuarded`, `ReadyMeansRole`, `NeverForgotten`, `ReportedPasswordApplied`, `CleanupBeforeRelease`, `ImplementsLifecycle` with two resources and Secrets in two namespaces |
| `user_live` | `PasswordConverges`, `DeletionCompletes` |
| `grant` | `TypeOK`, `ReadyMeansGranted`, `NeverForgotten`, `RevokedBeforeRelease`, `ImplementsLifecycle`, `EventuallyGranted`, `DeletionCompletes` |
| `instance` | `TypeOK`, `ReadyEarned`, `NeverForgotten`, `StatusFollows` |
| `quoting` | `LiteralIsWhole`, `LiteralIsExact`, `ConnectionExact` for all strings of up to five bytes |
| `operator` | `TypeOK`, `NothingLeft`, `ServerCleared`, `GrantReleased`, `StrandedForGood` |

`NeverForgotten` says that a resource with something to do has a request queued,
is being reconciled, or has a version the informer will deliver. For a live
resource it needs `Sane` intervals, which no rule of the CRDs ensures: a zero,
negative or overflowing interval makes the operator lose sight of a resource
after a success or a failure. A cleanup is retried whatever the intervals are,
because `handleDeletion` uses `defaultRetryInterval` and not the spec's
`retryInterval` (`README.md:135`: "configure `retryInterval` on each CR for error
backoff").

`ConnectionExact` says that host, database, user or password reach the server
exactly when they contain nothing that needs quoting (`Verbatim`): not empty, no
space, quote or backslash where pgx gives it a meaning. `Connect` quotes nothing,
so other values, which PostgreSQL allows, are read as something else.

Deadlock is not checked: with no resource left and the quota spent, an operator
rightly does nothing, and the loop of `escapeString` ends.

Five runs expect a violation; each property states what the repository says and
TLC shows a behaviour of the code that contradicts it:

| Run | What the code does |
|---|---|
| `database_orphan` | a resource with `cleanupPolicy: Delete` deleted before its finalizer is stored leaves its database |
| `database_giveup` | a missing superuser Secret makes `handleDeletion` give up the cleanup like a missing PostgreSQL resource |
| `grant_usage` | `RevokePrivileges` leaves USAGE on the schema |
| `grant_select` | the documented list of table privileges fails in `GRANT ... ON DATABASE` for ever |
| `quoting_backslash` | a password with backslashes is stored with each of them doubled |

### Fairness

`FairSpec` assumes: the worker goes on (`WF` of `Work`; each call returns, which
the code does not ensure for a server that never answers, as its contexts have
no deadline); the watch delivers (`WF` of `Deliver`); foreign finalizers are
removed (`WF` of `ReleaseHold`); and the work queue, first in first out,
eventually hands out every request that keeps being queued (`SF` of `Take`).
Nothing is assumed of users, faults or other clients, except that a run has
finitely many of them. The convergence properties are conditional on the
environment (`<>[]` reachable and so on), never on the operator.

## Proofs

The proof modules state, for all sets of resources, specs, instances, databases,
roles, Secrets, tables and privileges and any `MaxDisturbances`, from the named
assumptions of the modules (`RequeueAssumption`, `KubeAssumption` and so on:
constants have their types, the specs of a resource are specs, what the server
stores for a password is not the absence of a role):

| Theorem | Statement | Controllers |
|---|---|---|
| `Invariance` | `Spec => []IInv` | all four, each with its `IInv` |
| `TypeCorrect` | `Spec => []TypeOK` | all four |
| `NothingForgotten` | `Spec => []NeverForgotten` | all four |
| `FinalizerIsEarned`, `ReadyIsEarned`, `ReadyExists` | `FinalizerEarned`, `ReadyEarned`, `ReadyMeansExists` always | Database |
| `DropsAreWanted` | `DropIsWanted` | Database |
| `CleanupPrecedesRelease` | `CleanupBeforeRelease` | Database, User |
| `GuardedWhenReady`, `RoleExistsWhenReady` | `ReadyIsGuarded`, `ReadyMeansRole` always | User |
| `PasswordApplied` | `ReportedPasswordApplied` | User |
| `GrantedWhenReady` | `ReadyMeansGranted` always | Grant |
| `RevocationPrecedesRelease` | `RevokedBeforeRelease` | Grant |
| `PingedWhenReady` | `ReadyEarned` always | PostgreSQL |
| `LifecycleImplemented` | `Spec => ImplementsLifecycle` | Database, User, Grant |
| `Invariance`, `TypeCorrect` | `IInv`, `TypeOK` always | the three together (`Operator`) |
| `NothingIsLeft` | `NothingLeft` always | the three together |
| `NeverRescued` | `Spec => StrandedForGood` | the three together |

These are all the invariants and action properties that the runs check of the
four controllers and of `Operator`.

### The controllers with a finalizer

None of the properties is inductive: they hold because the worker's object,
however stale, is a version the store once had. `IInv` therefore has four parts.

- `KubeInv` (module `KubeApiProofs`), the same for the three: `Ordered` and
  `InHand` relate the object in hand, the cache and the undelivered versions to
  the store by `Precedes`: an older version has a smaller resourceVersion and,
  within one incarnation, a smaller generation or the same spec and deletion
  mark; a deletion mark is never taken back. `Finalized` says that a version with
  the finalizer that is not being deleted belongs to the incarnation the store
  has, because only the worker removes the finalizer, and that while the store
  has the finalizer neither cache nor watch knows another incarnation.
  `Conditions` says that Ready=True is never ahead of the generation nor, on a
  live resource, without the finalizer.
- `TypeOK`.
- `Phases`: what the worker has established at its program counter.
- `Earned`: what the properties say of resources that are Ready or have the
  finalizer.

One lemma per operator of `KubeApi` shows that it keeps `KubeInv`; one lemma per
action of the controller adds the rest. `Phases` is where the controllers differ:

- Database: the object is or is not being deleted; `CreateDatabase` succeeded for
  it and the database, if unshared, is still there; the database is gone before
  `release`.
- User: past `getSecretValue` the worker holds a password that the Secret had, and
  from `finalize` on an unshared role has it as the server stores it
  (`HasPassword`), whatever became of the Secret; that this is not the same as
  the absence of the role is `RoleAssumption`. A dependent that pins the role
  never lets `release` be reached with the role there.
- Grant: `Given` and `Taken` say what the statements that have run so far leave
  behind while tables, roles and databases come and go. No statement of
  `GrantPrivileges` undoes an earlier one, so `Given` only grows. `Taken` rests on
  the order of `RevokePrivileges`: the default privileges go first, so once the
  privileges on the tables are gone (`AnyTable`, of tables that exist or ever
  will) a new table brings nothing back. For `revoke2`, which names only the
  tables there are, `TypeOK` says that no entry names a table that does not exist.
  `RevokedBeforeRelease` holds of shared targets too: the one worker finishes a
  revocation before it grants for another resource, and other clients give
  privileges only through default privileges. `Kept` is `ReadyMeansGranted`
  without the finalizer, which `Conditions` provides.

`NeverForgotten` needs a second invariant on top, `Attention` (module
`AttentionProofs`): `Latest` says that the current version of a resource is in the
cache or among those that the watch will deliver, and `Attentive` that while no
further request for it waits, the object in the worker's hand is one the informer
still knows. So a reconcile that returns without asking to be called again
either held the current version, which then is not due, or leaves a version to
deliver. That a sane interval plus jitter is positive and does not wrap around
is `SanePositive`.

### The controller without a finalizer

A PostgreSQL resource may go, and come back under the same name, while the worker
holds the former incarnation, so `Finalized` and `Conditions` do not hold and
neither does `KubeInv`. `InstanceControllerProofs` uses its `Ordered` alone, with
`Numbered` (incarnations count from 1), `Held` (the object in hand exists and
precedes the store's; at `ready` its generation was pinged) and `Pinged` (in the
first incarnation Ready=True names a generation that was pinged and is not ahead
of the resource's). The status patch carries no resourceVersion, so a reconcile of a former
incarnation may mark a new one; hence `ReadyEarned` speaks of the first only. For
`NeverForgotten` `Latest` suffices, since every reconcile of a resource that
exists asks to be called again.

### The refinement

`LifecycleImplemented` needs `IInv` at both ends of a step and a small invariant
of its own, `Marks`: only a resource that is being deleted is held by others, none
that is being deleted is Ready (together `Marked`, in `KubeApiProofs`), and
`cause` is set only at `release`. What each write to the API server means for the
phase and the spec of its resource is the same for the three controllers; the
lemmas of `KubeApiProofs` that end in `Redoes` say it once. `Redone` tells an edit,
which changes the spec, from a foreign finalizer that goes, which `Lifecycle` does
not see. `Owned` does not depend on the
state, so a step shows something of one resource at most (`OneSeen`), or of none
(`Unseen`), and a lemma of `LifecycleProofs` names the action of `Lifecycle` that
the change is. The interesting cases, for each controller:

- a report of failure that also makes the thing (`MakesShown`): then the resource
  was not Ready before, by `Earned`;
- a drop or a revocation (`DropsShown`): then the resource is not guarded, since
  the object in hand is being deleted and belongs to the incarnation in the store
  if that has the finalizer (Ready plays no part in that argument);
- the removal of the finalizer (`ReleasesShown`): `Phases` or `Taken` says that
  the thing is gone.

For User the role may get another password, but it neither comes nor goes
(`Untouched`). For Grant the thing has parts: statements of `GrantPrivileges` only
add to it and those of `RevokePrivileges` only take from it (`ObjectGrows`,
`ObjectShrinks`), neither touches what another resource owns (`OthersApart`), and
other clients leave the lasting privileges alone or take a hand for good
(`ClientsCases`). That last case is a step of many resources at once, which an
instance with one resource does not show: the proof needs `Tamper` to take a set.

`KubeApiProofs`, `AttentionProofs` and `LifecycleProofs` mention neither
databases, roles nor privileges. The first has two layers: lemmas on the order of
versions that need only types (`WriteOrders`, `OthersTouch`, `DeliverOrders`,
`RestartOrders`, `PatchedFollows`), which serve the controller without a finalizer,
and on them the lemmas on `KubeInv`.

### The three together

The controllers do not keep their invariants in isolation in `Operator`: while one
stands still, the others drop its databases, take its roles or connect to what it
is about to drop. `OperatorProofs` proves nothing about a single controller again.
Each controller's proof module ends with a section that says, in terms of the
controller's own variables, what it relies on and what it guarantees:

- `CalmStep`: a step of its own that no fault disturbs (`Calm`) keeps `IInv`,
  leaves the shared state of others alone, and does no harm there: no database
  goes that somebody is connected to, no role that is pinned, and the grant's
  worker is only connected to databases that exist (`Connected`).
- `OthersGo` (Database, User), `DatabasesGo` and `RolesGo` (Grant): `IInv` survives
  what others do, if they keep to that.
- `Recovers`: a restart, and `AllReadyInv`: the state where all is Ready.

`IInv` of `Operator` is then `Controllers`, the three invariants; `Shared`, which
says that `sessions`, `present` and `pinned`, by which one controller sees another,
are what the other's state says; and `Owed`, that a live version in the store, the
cache or the worker's hand has the finalizer (`Guarded`) and that a database or a
role that exists belongs to a resource whose finalizer is there (`Anchored`).
`Guarded` needs the initial state, all Ready, and that nobody creates or edits a
resource in `Operator`: otherwise a reconcile makes the database before it adds
the finalizer. `Anchored` needs that the instances are there, since an instance
that is NotFound lets the finalizer go without the database. One lemma for the
steps of each controller combines that controller's `CalmStep` with what the other
two survive.

`NothingLeft` follows: a resource that is gone has no finalizer (`Finalized`), so
its database or role is gone, and with the database every entry of `acl`, since
the grant's `TypeOK` lets none outlive its database. `StrandedForGood`: once the
database's resource is gone no step of the composition brings database or resource
back (`StaysGone`), and while the database is missing every connection of the
grant's worker fails (`Unreachable`), so that it never gets as far as the removal
of the finalizer (`CalmStrays`).

`Operator` and the controllers' proof modules are different instances of the
controllers' modules; `SameDatabase`, `SameUser` and `SameGrant` show that their
actions and types are the same.

The theorems hold for all namespaces, names, specs, Secrets, tables and privileges,
from `OperatorAssumption` (the types of the constants), `SpecAssumption` (the three
specs are specs) and `ScenarioAssumption`: the grant is of that database on that
role, and all three ask for cleanup. The last one is the scenario that `Operator`
is about, and not a fact about the code.

### Only model-checked

- Liveness (`EventuallyReady`, `PasswordConverges`, `EventuallyGranted`,
  `DeletionCompletes`, `StatusFollows`, and of `Operator` `ServerCleared` and
  `GrantReleased`): fairness and
  `ENABLED` are out of the prover's reach.
- `Quoting` and `ConnString`: what their folds over bytes compute would need
  induction over sequences.

## Not modelled

- Calls that never return. No context has a deadline, so a server that accepts
  connections and does not answer blocks the worker, and with it every other
  resource of its controller; the fairness assumption excludes it.
- `Get` failing with an error other than NotFound (the request is queued again
  and nothing changes, a stuttering step), `lastTransitionTime`, the wording of
  messages beyond the outcome they tell.
- When a request comes due: intervals and jitter decide only whether there is
  one. (`common_types.go:43` says that errors are requeued "immediately";
  `retryResult` waits for the interval and the jitter.)
- The rate limiter's backoff.
- Former specs: after a rename, or an edit of a grant, nothing remembers what was
  there before, and the properties speak of the current spec.
- Two resources that ask for the same object: which one should win is nowhere
  said; the properties exclude it by `Owned`.
- Users who remove the operator's finalizer by hand; edits of a PostgreSQL
  resource's host while other resources use it (a change of `inst` stands for
  what they would meet); schemas that are missing; hand-made grants; DROP of the
  database that the superuser connects to, which the server always refuses.
- Two operators at once: with `--leader-elect`, which the manifests set, the lease
  of client-go prevents it.
- The rest of `main`: flags, metrics, webhooks, health checks; generated code,
  manifests, charts.

## Plan

Done, in this order: `KubeApi`, `Instances`, `DatabaseController` and its
proofs, `UserController`, `GrantController`, `InstanceController`, `Quoting`;
`Requeue`, `Lifecycle` and its three implementations, `ConnString`, `Operator`,
the proofs of `NeverForgotten`; the safety proofs of `UserController`,
`GrantController` and `InstanceController`; the proofs that the three SQL
controllers implement `Lifecycle`; the safety proofs of `Operator`, from the
invariants of the controllers it is composed of.

What could follow: several databases, roles and grants in `Operator`, with faults;
grants that are created while their database or role is still missing.
