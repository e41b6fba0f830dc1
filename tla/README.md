# A verification of the Iceyard control plane

Iceyard (`src/`) is a control plane for Apache Iceberg lakehouses: a FastAPI
service (`src/apps/api/iceyard_api`, about 13,400 lines of Python) with a React
client. It indexes the tables of a catalog, dry runs and queues maintenance
operations, asks for approvals, keeps restore points, and audits what it did.
No component executes queued jobs yet: a job row *is* the result.

This directory holds TLA+ modules translated from that code, TLC
configurations that check them on small instances, and proofs that TLAPS
checks for every value of the constants. File names below are relative to
`src/apps/api/iceyard_api` unless they start with `src/`.

## 1. Inventory of the system

Every handler is a synchronous function on a thread pool with a database
session of its own (`db/session.py`: no autoflush, nothing expires on commit,
rollback when the request ends without a commit). A request is one
transaction, with its audit event in it. There are no row locks and no version
columns, so two handlers that read before either commits overlap freely; what
protects the data is the constraints of the schema and the order of statements.
The service starts with an administrator and a workspace if there are none
(`main.py`); requests other than sign-in and bootstrap carry the session of a
user and are checked against the actions of the user's roles.

| component | state | operations | correct when |
|---|---|---|---|
| Operation registry `operations/registry.py` | 134 constant descriptors | `op`, `default_gates` derive flags and gates | flags and gates agree |
| Operation service `operations/service.py` | operation requests, restore points | dry run, execute, seed descriptors | only cleared work is queued, on an engine that fits, with its restore point |
| Approvals `approvals/router.py` | approval requests | decide, list | an approval is one reviewer's whole decision |
| Jobs `jobs/router.py` | jobs, runs, logs | list, read, cancel | a job and its run agree; ended work is final |
| Write-Audit-Publish `wap/` | a job per run | run | the verdict, the job and the command agree |
| Table index and sync `iceberg/service.py` | namespaces, tables, metrics, ten tables of cached details, sync runs | sync, refresh, read, preview | details belong to the pointer they are shown with |
| Parse pool `iceberg/service.py:367` | futures and threads of one sync | submit, wait, time out | one result per table, and it ends |
| Live metadata reader `iceberg/live_metadata.py` | none | parse, preview | the index counts one snapshot, or says that it could not |
| Connections `connections/service.py` | environments, catalogs, object stores, secrets, compute backends | create, update, delete, test | what a handler checks suffices for the schema; a deletion takes its own and no more; a shared store survives; a test tells what was reached |
| Rate limiter `core/ratelimit.py` | a deque per client, a lock | allow, reset | the limit holds; nobody is denied without cause |
| Authentication `auth/` | users, sessions | start-up, bootstrap, sign in and out | a new administrator may do everything |
| Users and RBAC `users/`, `rbac/` | users, roles, permissions | create, change, delete, check | roles stay in their workspace; a handler's checks suffice |
| Policies `policies/` | automation policies | CRUD, preview | not modelled |
| Retention `retention/` | none | simulate, preview | a simulation keeps its promise when it is applied |
| Layout, what-if, tuning, advisor, health | none | heuristics over the index | scores and projections follow the metrics |
| Editions, tenants, audit, schema sync, set-up | settings, events | read, rename, record | one event per change |
| Web client `src/apps/web`, `src/infra`, migrations | – | – | not modelled |

How they interact: the operation service reads the index and the compute
backends and writes requests, approvals, jobs and restore points; the
Write-Audit-Publish service reads the index and writes jobs; the jobs router
cancels the jobs of both; syncs and connection deletions remove the rows the
others refer to, through foreign keys that PostgreSQL enforces (the default
SQLite database does not, see section 2). A sync takes
the environment of its catalog at the time, reads metadata through the object
store the catalog names in its settings (a string, no foreign key), and leaves
what health, layout and retention compute from.

What is hard here: handlers that use at commit what they read at the start;
rows removed in between; flushes that write only changed columns, so that two
handlers leave a mixture; a pool whose threads may hang; a clock read before
the lock that orders its readers; retries and approvals that are remembered in
one place and consulted in another. `PROJECT.json` lists each hazard at its
line with the properties that would catch it.

## 2. Modules

| module | models | state and actions |
|---|---|---|
| `OperationRegistry` | descriptors | `Op` and `DefaultGates` compute the flags as `op()` and `default_gates()` do; one descriptor of each kind, overrides with EXCEPT |
| `TableIndex` | the index as others see it | `table`; a committed sync (`SyncTable`) and a removal are one step each |
| `JobStore` | jobs and runs, cancel | `job`, `run`, `cancelling`; `CancelBegin` reads, `CancelCommit` writes |
| `Operations` | operations, approvals, backends | `DryRun`; `ExecuteBegin`, then `RequestApproval`, `QueueJob` or `ExecuteAbort`; `DecideBegin`, `DecideCommit`, `DecideAbort`; what changes underneath |
| `WriteAuditPublish` | WAP runs | `WapBegin` (table row), `WapAudit` (metrics row, loaded lazily), `WapCommit`, `WapAbort` |
| `ControlPlane` | the five above as one system | `Next`, `Spec`, `FairSpec`; a thread serves one request at a time (`Idle`) |
| `JobLifecycle` | what is promised of a job | absent, then waiting or done; waiting can only become cancelled |
| `RequestLifecycle` | what is promised of an operation request | `Store`, then `Queue` or `Ask`: work never runs ahead of a reviewer, so a request that was put before one gets a job only once an approval of it is granted; `Decide` queues nothing by itself |
| `MetadataSync` | concurrent syncs of a catalog | `ListCatalog`, `Load`, `Apply` (parse and delete), `Commit` (insert), `Abort`, beside a catalog that moves on |
| `ParsePool` | the threads inside one sync | `Start`, `Finish` (threads), `Collect`, `Check` (the loop), `Tick` |
| `TableReading` | what is promised of the tables it reads | one verdict for each: `Report` of how its read ended or, after the `Deadline` of this table, `GiveUp`; one pass may report or give up several |
| `RateLimiter` | sign-in limiter | `Arrive` reads the clock; `Allow`, `Deny` hold the lock; `Reset`, `Tick` |
| `Connections` | environments, catalogs, stores, backends, secrets | one request per thread: a handler (`CreateCatalog`, `UpdateStore`, `DeleteEnvironment`, `TestCatalogRow`, `Sync`, ...) reads and decides what it writes (`req`), `Commit` writes it if the constraints hold, `Abort` |
| `ConnectionTests` | the tests of catalogs and stores | operators over settings and answers of the live system |
| `LiveMetadata` | what a parse derives and a sync stores | operators: `Current` entries, `Metrics`, partition summaries, marks |
| `Retention` | expiry simulation | operators over the index |
| `LayoutAdvice` | profile, what-if, tuning, clustering, health | operators over metrics, with reference definitions |
| `TableLifecycle` | the three above around one table | writers commit, compact, tag, expire; `Sync`, whole or in part, and `SyncFails`; `SimulateRetention` keeps what it found, to be applied later |
| `Workspaces` | users, roles, permissions, sessions, workspaces | the same shape as `Connections`: a request decides, `Commit` or `Abort`; start-up, bootstrap, sign-in, and the changes an administrator makes |
| `MCControlPlane`, `MCMetadataSync`, `MCRateLimiter`, `MCConnections`, `MCTableLifecycle`, `MCWorkspaces` | – | values of the constants, start databases, symmetry |
| `ControlPlaneProofs` (types, jobs), `OperationProofs` (operations, approvals), `RateLimiterProofs`, `ParsePoolProofs`, `MetadataSyncProofs`, `ConnectionProofs`, `LifecycleProofs`, `WorkspaceProofs` | – | theorems |

Conventions. A handler that uses at its commit what it read before is two
actions; one whose reads and writes cannot be told apart from a single step is
one. A request the service refuses changes nothing and is no step. An abort
may happen before every commit: it stands for an exception, a constraint error
or the death of the process, all of which end in a rollback. Operators whose
comment starts with "A wrong ..." are not part of any specification: each is a
plausible bug, put in the place of the right definition to see that the
property it is paired with in `PROJECT.json` notices.

Abstractions. SQL text, descriptions and log lines are dropped. A table row is
the few facts a gate, a check or a runtime reads. Of parameters only
`target_version` (with its type: string and number differ in Python) and
whether `location` names another authority are kept. `requested` and `decided`
are what the audit events say; `redecided`, `published`, `alone` and
`RateLimiter.decided` record history for properties and guard nothing, and so
do `files`, `used` and `synced` of `TableLifecycle`.
`MetadataSync` keeps, of the ten tables of cached details, the snapshot rows:
all ten are deleted and inserted alike, and this one has the unique constraint
that makes overlapping syncs fail. The reason of a decision
(`approvals/router.py:45`) is left out. Of the times that a cancel handler
writes only how often it wrote them is kept (`run.ended`). The engine that
`EngineFitsOperation` checks is the one `execute` read at its start; that its
backend may change before the commit is hazard `operations/service.py:365`.

Database semantics are those of PostgreSQL under read committed: a delete sees
what is committed when it runs, a flush writes the columns that differ from
what was loaded, foreign keys and unique constraints fail the commit. The
default database is SQLite (`core/config.py:17`), and no `PRAGMA foreign_keys`
turns foreign keys on there (`db/session.py`). What rests on them holds on
PostgreSQL only: `RestorePointHeld`, `NoDanglingTable`, and in
`LoneRequestsFit`, `DeletionTakesItsOwn` and `SyncedCatalogGoes` what is said
of references.

`Connections` keeps of a connection its name, environment, type and
capabilities, and the link of a catalog to its store; of the index which table
of a catalog is in which environment. Left out are the reference from a
connection to its inline secret, the provider and reference of a secret,
`last_tested_at` and `is_enabled`. A catalog has one namespace, a table is
known by its name, an identifier is used once, and every commit checks the
constraints of the schema. What a live catalog or bucket answers is an input of
`ConnectionTests`. The test of a compute backend writes nothing but its audit
row and is not modelled.

`TableLifecycle` computes with whole numbers of a named unit where the code
computes with binary floats and rounds, so results may differ in the last
digit. Where the code rounds twice and the results are compared, both
roundings are in the model: the clustering advisor starts from the ratio of
small files as the profile shows it, rounded to four digits, and so may project
a depth a hundredth above the one the profile shows later (252 files, 17 of
them small: 1.14 and 1.13). Snapshots are numbered in the order of their commits, taken to be that
of `committed_at`; the cutoff of an expiry is a day. Writers are outside
`src/`: only `main` may have a maximal age, and then named references have
none. Snapshots pinned by a property are left out because no reader writes it,
and of a partial sync only that it was partial is remembered. A negative target
file size is accepted by the code and so by the model: files stay in range, the
cut of bytes exceeds 100 percent, and `AdviceIsConsistent` says nothing of it.

`Workspaces` leaves out passwords, hashes, tokens, service accounts and display
names: a sign-in is one with the right password, and its limit is
`RateLimiter`. A session goes on to work for a user who was made inactive, as
`user_for_token` reads only the session. A payload changes one field and gives
at most one role; the workspace of a bootstrap never exists already, because a
bootstrap is refused once there is a user. Of the actions, the
instance keeps three; in it, `workspace.manage`, which renaming a workspace
needs, comes with "*" alone, while the code gives it to `workspace_admin` too.

## 3. Runs

| run | instance | what it shows |
|---|---|---|
| `operations` | one table with two possible rows, two threads, two jobs, one request, one approval, two reviewers, one backend of two types, four kinds of operation | `OnlyClearedWorkIsQueued`, `EngineFitsOperation`, `RestorePointHeld`, `NoDanglingTable`, `FirstDecisionIsWhole` under every interleaving with syncs, removals and backend changes, and the refinement of `RequestLifecycle` |
| `jobs` | two threads, two jobs, WAP payloads that hold, wait and publish | `RunFollowsJob`, `VerdictStands`, and the refinement of `JobLifecycle` |
| `rate_limiter` | four attempts of one client, limit 2, window 2, clock to 5 | `WithinLimit`, `DenialHasCause` with clock readings out of order |
| `parse_pool` | three tables, two threads, timeout 3, clock to 5; the clocks of the tables are read one after the other | `OneResultPerTable`, `ResultsAreTrue`, the refinement of `TableReading` with tables given up in different passes, and `LoopEnds` with threads that hang |
| `metadata_sync` | one table with three versions, the first and third without a common snapshot, two row identifiers, two overlapping syncs | `WholeParses`, `AloneSyncSettles` |
| `connections` | two threads, three requests, two environments, two catalogs of two tables, a store, two backends, two secrets; from one environment, and from two with catalogs that share the store, one of them synced by syncs that overlapped its move | `LoneRequestsFit`, `CapabilitiesMatchType`, `DeletionTakesItsOwn`, `SharedStoreKept`, `NewNamesFree`, `SyncPlaces` under every overlap; `CatalogTestCoversStore` over all bounded settings |
| `lifecycle` | two data files and a delete file, three commits, two days, at most one reference beside `main` (a tag on the first snapshot or a branch on the second), a target of 4 units, `retain_last` of -1, 1 and 2 | `IndexIsOneSnapshot`, `ExpiryKeepsItsPromise`, `PlanStaysValid`, `HealthFollowsMetrics`, and `AdviceIsConsistent` for every bounded shape, one of 252 files, and the one of the index |
| `workspaces` | two threads, three requests; from an empty database, one workspace, and two | `RolesOfOneWorkspace`, `LoneRequestSucceeds`, `NewAdminCanManage` |

Runs that are expected to be violated show where the code does something other
than what the repository says; each is a finding in `PROJECT.json`.

| run | what the repository says | what the code does |
|---|---|---|
| `approval_gate` | "Approval must be granted before execution." (`operations/service.py:454`) | `rewrite_table_path` has the gate but not the flag `execute` consults, and is queued |
| `approved_runs` | "approving runs this exact request." (`src/apps/web/features/governance/Governance.tsx:135`) | nothing runs it; executing again asks for another approval |
| `unchanged` | only the forced sync is said to "Ignore unchanged metadata pointers" (`src/apps/web/app/page.tsx:784`) | the test reads properties that were just overwritten, so every sync reads every table |
| `synced_catalog` | "Synced metadata for tables using it will be removed from Iceyard." (`src/apps/web/features/connections/Connections.tsx:174`) | the rows of sync runs, which refer to the catalog, are not: after one sync every deletion fails, or where foreign keys are not enforced leaves those rows behind |

What the repository leaves open is not a finding; three such behaviours are in
the models and noted under "hazards": an idempotency key is demanded but only
written to the audit event; the string "3" of the form is compared with the
number 3, so the reader compatibility gate passes; and the clock of a parse
runs from its submission, so a table nobody began to read times out.

Why the bounds are enough. Handlers interact through single rows, so two
threads, two jobs and one request are the smallest instance in which every pair
of handlers meets on one row; a second table or request repeats the same
interleavings on rows that do not interact. `BackendType` holds one type that
can run work and one that cannot. Three versions are what it takes for a sync
to be older than another and for two to share no snapshot; two row identifiers
allow duplicate rows of one name.
The limiter needs `MaxAttempts + 1` attempts for a denial and one more for the
deque to be out of order when it happens. Three requests are what it takes for
two to overlap on rows that a third left, and the richer start databases stand
for longer histories. Three commits let a snapshot be tagged or expired
between two others, and leave manifests that were rewritten and list removed
files. `MaxTime`, `MaxVersion` and `MaxRequests` bound counters for
TLC; the proofs hold for every value of them. `CHECK_DEADLOCK` is off because the system may stop: when
the identifiers of an instance are used up and no request is under way.

What overlapping syncs leave. Nothing is assumed of the snapshots of a version:
two versions of a table may share some or, after an expiry, none, and a table
may have none at all. Of two overlapping syncs that parsed versions with a
common snapshot one fails, on the unique constraint of snapshots, so the cached
snapshots are never some of one version beside those of another
(`WholeParses`). Versions without a common snapshot do end up side by side,
each whole: TLC reaches such rows in the instance, and the property excludes
them only where a constraint does. The other nine tables of details have no
such constraint and follow the snapshots; for a table without snapshots nothing
keeps theirs from being mixed. Syncs may also leave the newer pointer
with the older details (each writes only the columns it changed). Nothing in
the repository excludes any of this, so the property of a sync is the one that
does hold: one that runs alone repairs what it finds (`AloneSyncSettles`). That
it does rests on the finding `unchanged`: if skipping worked, such rows would
stay. The instance has one table; that a sync commits several at once is
covered by the theorems, which are for any number.

What a lone request may still fail on. `LoneRequestsFit` says which requests
that nothing overlaps the schema accepts: all but the deletion of a synced
catalog (finding `synced_catalog`), and that of an environment with a table
beside which the same catalog has a table in another environment. Overlapping
syncs of a catalog that moves leave such tables, and the deletion takes the
namespace that both share.

## 4. Fairness

Safety is checked under `Spec`, without fairness. `LoopEnds` assumes that time
passes and that the calling thread of the pool runs (`Tick`, `Collect`,
`Check`); nothing is assumed of the threads of the pool, which may hang with
their object store. `ApprovedRequestRuns` is refuted under `FairSpec`, in which
the thread pool finishes every handler it began and the client asks again for
its request to be executed.

## 5. Proofs

All proofs are for any number of threads, tables, jobs, requests, approvals,
backends, users and keys, any registry of descriptors (only their type is
assumed, `OperationsAssumption`), any rows a sync may write, any files,
manifests and days, any settings of connections, and any databases that earlier
runs left (`StartAssumption`, which TLC evaluates for those of the run: their
constraints hold and what they hold belongs to a workspace).

* `ControlPlaneProofs`: `TypeCorrect`, where `TypeOK` is inductive by itself;
  one lemma per module, one step per action. The inductive invariant `JobInv`
  adds to `RunFollowsJob` and `VerdictStands` what makes them stable: a job that
  a cancel handler has loaded exists and is queued or cancelled. A job becomes
  "succeeded" only in the transaction that inserts it, so a handler that read it
  queued never overwrites an end other than a cancellation. `EndedStaysFinal`
  says that no handler takes an end back, and that only the time of a
  cancellation is rewritten, by cancel handlers that had loaded the job before;
  the runs check the refinement that `ImplementsJobLifecycle` proves instead.
* `OperationProofs`: the inductive invariant `OperationInv` says what an
  execute handler in flight holds (`HandlersHold`: its request exists, is
  cleared, and still has the table it read or none), what every one-off job
  has (`OneOffsFit`), and `NoDanglingTable`. The foreign keys of restore points
  are what carries `RestorePointAlwaysHeld` across a concurrent removal. In
  `ApprovalInv` a decision handler that loaded a pending approval loaded no
  reviewer, so its flush writes both columns.

  `ImplementsRequestLifecycle` and three theorems make the findings about
  approvals precise, for any registry and any interleaving. From the stored
  gates and flags (`GateInv`): a request for which an approval was ever asked
  never gets a job, whoever decides what (`ApprovedNeverQueued`); a job holds a
  pending approval gate exactly if its descriptor has the gate and not the flag
  (`GatesEscapedByFlag`); so a registry in which the gate implies the flag
  honours it (`ConsistentRegistryHonoursGate`). What `op()` and
  `default_gates()` make of the descriptors of `OperationRegistry` leaves
  `rewrite_table_path` as the only one that escapes
  (`OnlyRewriteTablePathEscapes`).
* `RateLimiterProofs`: in `LimiterInv` each deque is sorted by when its calls
  were decided, which is never before the time they read (`DequeSorted`), and
  still holds every call that is recent (`RecentKept`): a call is popped only
  by a reading that is not after the present. `NeverOverLimit` counts the
  deque from above, `NobodyDeniedWithoutCause` from below; both take the
  cardinalities from the library's facts about surjections and injections.
* `ParsePoolProofs`: `PoolInv` says that a table that is still pending has no
  result (`PendingUnrecorded`), that every other one has exactly one
  (`OthersRecordedOnce`), and that the thread pool holds nothing of a loop that
  ended (`NothingLeftQueued`). The loop appends the results of a set of futures
  in any order; `RecordOnce` is the lemma about that, for any number of them.
  `ImplementsTableReading` maps what is said of a table to the kinds of its
  results: a `Collect` is one `Report` of all that the wait found, and a `Check`
  gives up the tables whose own clock has run out, if any.
* `MetadataSyncProofs`: `SyncInv` says that the details of a row are those of
  whole versions, no two of which share a snapshot (`RowsWhole`), and that what
  the deletes of a sync saw is whole versions too (`DeletesWhole`), for any
  sets of snapshots, empty ones included. So what such a delete leaves is whole
  (`DifferenceWhole`), and the constraint keeps apart from it what is inserted
  (`AcceptedApart`). For `AloneSyncsSettle`, `AloneInv` adds
  what a sync nothing overlaps relies on: the rows it chose are as it loaded
  them, one for each table, its deletes saw all there is, and the rows it found
  stale are all rows of tables it did not list. `NothingIsSkipped` is the
  finding `unchanged` for every instance: a sync parses all it listed, always.
* `ConnectionProofs`: `ConnectionsInv` says that what a request holds was
  decided by its handler from rows of the right kind (`HeldIsDecided`), that a
  request nothing overlapped still sees what it read (`LoneIsCurrent`), and
  that capabilities match types and the constraints of the schema hold. Secrets
  whose name is taken get a numbered label; that one is always free is the
  pigeonhole argument of `LabelFound`. `LoneRequestsAlwaysFit` goes through the
  handlers: what each looked up is what the constraints ask of its rows
  (`LoneUnique`, `LoneEnvironments`, `LoneWrites`), and a deletion leaves a
  reference behind exactly in the two cases of `Hindered` (`LoneDeletion`).
  So the finding `synced_catalog` is an equivalence: a deletion that nothing
  overlaps is accepted exactly if its catalog was never synced; overlapped or
  not, no request ever removes one that was (`SyncedCatalogsStay`).
  `DeletionsTakeTheirOwn` holds under overlaps because rows to delete are chosen
  by the identifiers of the deletion's own connection. `TestsCoverStores`
  follows the checks of `ConnectionTests` for any settings and answers: a store
  link that is followed adds the check that fails the test.
* `LifecycleProofs`: the model sums over sets with the fold of the community
  modules, and the provers cannot instantiate an induction about it. So a sum
  of weights is shown to be the number of its units, pairs of an element and a
  number up to its weight (`UnitsAreASum`, `SumsAgree`), and facts about
  cardinalities of the library carry over: partition summaries add up because
  their rows are disjoint (`SummariesAddUp`), and a whole sync counts each file
  once because one live entry names it (`NamedFilesAreCounted`).
  `LifecycleInv` says that commits are numbered without gaps and in the order
  of their days (`TableHolds`), that the manifests name the files there are,
  each once (`Names`), and that whoever read the table, an index (`IndexHolds`)
  or a simulation (`PlanHolds`), missed only snapshots newer than those seen.
  `PlansStayValid` is proved for every `retain_last`, also the negative one
  that the code accepts and slices with. `HealthStaysConsistent` is arithmetic:
  each share, rounded down, falls with its metric, and the weights add up to
  100. `AdviceStaysConsistent` combines `ProjectionsStayInRange`,
  `ProjectionsFollowTheirTarget` and `SortingNeverDeepens`, from lemmas about
  `Ceil` and `Round`, with what the simulation of several queries and the
  clustering advisor say (`SimulationsSumUp`; `AdviceAlwaysComesTrue`, up to a
  hundredth of depth), for every schema, sort order, change and list of
  queries. `sorted()` is modelled
  as a function and not by an operator of the community modules, of which no
  theorem says what it returns: `InOrder(S, key)` puts in place n the index that
  n - 1 others come before, equal keys as they come. That every place is taken
  once follows from the cardinalities of these sets of predecessors, and the
  median and the ranking of the advisor rest on it.
* `WorkspaceProofs`: `WorkspacesInv` consists of the constraints of the schema
  (`DatabaseHolds`, with identifiers that are not given out twice), what a
  request in flight was decided from (`RequestHolds`), that no two requests
  bring the same identifier (`Apart`), and that a request that nothing
  overlapped still sees what it read (`Lone`). `RolesStayInWorkspace` holds
  although no constraint demands it, because the role that a handler looked up
  in its workspace can be deleted while it works, but never moves, and an
  identifier is not given to another role. `LoneRequestsSucceed` shows that
  what handlers check is all that can fail a commit.

What the proofs found out about the model. `PlanStaysValid` used to be stated
for any later index; it does not hold for one read from a table that lost
snapshots of the plan to an expiry the index had missed, and is now stated for
indexes that have what the plan saw. The checks of `ConnectionTests` were once
written with overlapping CASE arms, of which TLA+ may choose any; their order in
the code is now in their guards. `DepthOf` takes the first candidate of the
column by its position, as the loop of the code does.

Every property of a passing run but one has its theorem. Only model-checked:
`LoopEnds`, because liveness, and anything under fairness, is out of the
prover's reach. The same holds of the finding `approved_runs`, a liveness
property that TLC refutes; its safety half is the theorem `ApprovedNeverQueued`.
What the fold of the community modules or a recursive definition computes is
never proved by induction, but through cardinalities, as described above.

## 6. Plan and what is not modelled

Done: operations, approvals, jobs, Write-Audit-Publish, the limiter, the parse
pool, the sync, connections with their tests, the life of a table with
retention, health and layout, and workspaces, each with its proofs. Next, in
this order:

1. The composition: that the steps of `MetadataSync` and `Connections` are, seen
   from the operations, steps of `TableIndex`. It is not a refinement as it
   stands, because one commit of a sync changes several rows at once while
   `SyncTable` changes one.
2. The registry in full, by category.

Partly modelled: the registry (twelve descriptors, one of each kind of flags
and gates; the other 122 differ in SQL and forms), the seeding of descriptor
rows, the rows of sync runs as history, the reader's schemas, logs and column
statistics, reclaimable bytes and cleanup previews, Parquet and
materialized-view advice.

Not modelled: automation policies (settings that nothing executes; each handler
reads and writes one row, and a preview filters the index by environment,
namespace, name pattern and size); the dashboard and other queries, which
change nothing; column additions at start-up (DDL); routing and settings; the
web client, containers and migrations (no state of the service); probes of
live catalogs and stores (I/O); password hashing and tokens (library code); the
text of SQL templates; and conversions of Iceberg metadata by the pyarrow and
pyiceberg libraries.
