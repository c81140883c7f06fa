# Verification of pg-embedded-setup-unpriv

TLA+ specifications of the crate's concurrent and failure-prone parts, the TLC
configurations that check them on small instances, and TLAPS proofs of the
properties that matter for every size of instance.

Paths are relative to the repository. `PROJECT.json` lists, for each definition,
the lines it models.

## 1. What the program does

`TestCluster` gives a test a PostgreSQL server. It prepares directories under
`/var/tmp/pg-embed-<uid>`, changes the process environment for the server's
tools, installs PostgreSQL, runs `initdb` and `pg_ctl start`, and undoes all of
that when the cluster is dropped. As root, the operations on the server are
delegated to a `pg_worker` subprocess that runs as `nobody`; otherwise a
`postgresql_embedded::PostgreSQL` value in the process performs them.

| Component | State | Operations | Hard because |
|---|---|---|---|
| Scoped environment (`src/env/`) | process environment, `ENV_LOCK`, per-thread `ThreadState {depth, lock, stack}` | `ScopedEnv::apply`, drop of a guard, the recovery of a confused thread | threads, nesting, drops in any order, panics, leaked guards, poisoning |
| Cluster lifecycle (`src/cluster/`) | guard: `PostgreSQL` value, bootstrap, environment guard; on disk: installation and data directory, server | `new`, `start_async`, drop, `stop_async`, cleanup | clusters of several threads share the directories; operations fail or time out half done, and go on after that; detached shutdowns, dropped futures |
| Operation dispatch, worker process (`src/cluster/worker_invoker`, `src/worker_process`) | child process, payload file | spawn, wait with timeout, kill, reap | a killed worker leaves its own children |
| `pg_worker` (`src/bin/pg_worker.rs`) | data directory, installation | Setup, Start, Stop, Cleanup, CleanupFull | interrupted `initdb`, stale `postmaster.pid` |
| Bootstrap (`src/bootstrap/`) | directories, ownership, settings | prepare for root or not | runs outside `ENV_LOCK`, on directories others use |
| Binary cache (`src/cache/`, `cache_integration.rs`) | cache entries, `.complete` markers, lock files | look up, copy, populate | several processes, crashes while copying |
| Shared cluster, exit hook (`test_support/shared_singleton.rs`, `shutdown_hook.rs`) | two singletons, one hook slot | get or initialise, `atexit` callback | mutex around `ENV_LOCK`, forgotten guards, PID reuse |
| Databases (`cluster/lifecycle.rs`, `temporary_database.rs`) | databases, per-template locks | create, clone, drop | concurrent creation of a template, half-initialised templates, double drops |
| Staging of the worker, fixtures (`test_support/`) | a copy of `pg_worker` that nobody may execute; `PG_EMBEDDED_WORKER` | stage, look up, set | processes copy to one path; a variable read before the lock |
| Privilege drop, file helpers, errors, logging, CLI | - | - | I/O or plumbing |

How they interact: a cluster calls bootstrap, applies a `ScopedEnv` and keeps it
for its whole life, asks the cache for binaries, dispatches Setup and Start to
the worker or to the `PostgreSQL` value, and on shutdown dispatches Stop, then
cleanup. `ENV_LOCK`, meant for the environment, is what keeps two clusters of
one process off the shared directories: the cluster holds it from before Setup
until after its shutdown.

What makes each part correct:

* scoped environment: the host's environment is back whenever the lock is free;
  a live guard implies the lock; nobody writes without it; it is given back;
* clusters: a returned cluster is usable; directories are changed, and a server
  started or stopped, only by the cluster that has the environment; nothing is
  left behind unless something failed, and then only what that failure explains;
  every cluster comes to its end;
* binary cache: what a look-up accepts is a whole tree; nobody changes an entry
  while it is read; no lock is waited for for ever;
* worker and data directory: a Setup that reports success has set up; a recovery
  destroys nothing that was complete; no server stays behind, and none loses its
  directory; every process comes to its end;
* shared clusters and databases: a test's database is there while the test has
  it; the start of a shared cluster fails only for a reason; the exit leaves
  nothing; the locks block nobody for ever.

Where the code does not guarantee one of these, the property names the
exception, so the list of exceptions is part of what is checked: section 3.

`PROJECT.json` lists every component and every hazard, the unmodelled ones too.

## 2. Modules

| Module | What it is |
|---|---|
| `EnvSnapshots` | abstract: one thread at a time owns the environment, each scope remembers a snapshot of all of it, closing the top scopes goes back to the oldest of their snapshots |
| `ScopedEnv` | `src/env/state.rs` and `mod.rs`, one action per step between two points where another thread can run |
| `ClusterLease` | abstract: one tenant at a time uses the data directory, and never changes what a server is running on |
| `ClusterLifecycle` | `src/cluster/` with the effects of bootstrap and `pg_worker`, for the threads of one process |
| `EntryCache` | abstract: a cache entry is read only while it is published and nobody writes it, and published by its writer alone |
| `BinaryCache` | `src/cache/`, `cache_integration.rs`, `installation.rs`, for processes of one user |
| `DataDirectory` | the shared directories, with `initdb` and the postmaster as external programs |
| `PgWorker` | `src/bin/pg_worker.rs` on top of it, one action per file-system step |
| `RootRun` | root test processes on top of that: staging, preparation of directories, calls of the worker |
| `TemplateDatabases` | `lifecycle.rs`, `temporary_database.rs`: templates, clones, their locks |
| `SharedCluster` | the tests of one process on top of it: singletons, fixtures, exit hook |
| `*Props` | the properties of a model, its refinement mapping, its fairness, its inductive invariants |
| `MC*` | instances for TLC |
| `*Proofs` | TLAPS proofs: `ScopedEnv`, `ClusterLifecycle`, `BinaryCache`, `RootRun`, `SharedCluster`; on a subject of their own `ScopedEnvSnapshotProofs` (the refinement), `RootRunSoloProofs` (one process at a time) and `SharedDatabaseProofs` (what a test may rely on) |

Definitions whose comment begins with "Mutant:" are variants of an action with a
plausible mistake; each property of a passing run is violated by one of them,
which shows that it depends on the code.

In all models `blame` is a history variable: which kinds of failure, or of
overlap, have happened. No action reads it to decide what the program does (a
bound on repeated faults in `BinaryCache` reads it). `Faults` says which kinds
an instance allows.

### ScopedEnv

`holder` is the thread whose `ThreadState.lock` is `Some`; `depth` and `stack` are
the fields of that name; `draft` is the vector `apply_env_vars` is filling;
`live[t][i]` counts undropped guards with index i; `pc` says where in `state.rs`
a thread is. A saved `Vec<(key, previous)>` is abstracted to what replaying it
backwards leaves: the value each key had before the scope first touched it.

`apply` is `EnterOutermost` (poison check), `AcquireLock` or `EnterNested`, any
number of `ApplySingleVar` or a panicking `RejectKey`, then `PushScope`. Dropping
a guard is `DropGuard` (up to the decision whether the index is accepted), then
one step per undone record (`RestoreFinishedScope`, or `RestoreAnyScope` in the
recovery path), then `ReleaseOutermostLock` or `ResetDepthAndUnlock`. Panics,
leaks and thread exit (which drops the thread-local, and the mutex guard in it)
are actions of their own.

### ClusterLifecycle

World: `dataDir` (absent, empty, partial, whole), `installed`, `server`,
`orphan` (a postmaster whose directory was removed), `late` (the operations that
were given up and go on: setup, start, stop). Per cluster: `pc`, `postgres` (a `PostgreSQL` value is
owned), and two possible shutdown jobs: `"call"`, which its own drop or
`stop_async()` waits for, and `"drop"`, which the drop of an async guard
detaches. `plan` fixes whether the worker manages servers and, per cluster, how
it is used and which cleanup mode it has.

| Code | Actions |
|---|---|
| `bootstrap_for_tests`, before the environment is applied | `Bootstrap` |
| `ScopedEnv::apply` (the lock part of `ScopedEnv`, one step here) | `ApplyEnv`, `ReleaseEnv` |
| Setup, Start, `refresh_worker_port` | `SetupOk/Fails`, `StartOk/Fails`, `RefreshPort` |
| what outlives a timeout or a dropped future | `LateSetup`, `LateStart`, `LateStop` |
| an error leaving a constructor | `Unwind` |
| end of a test body: drop, or `stop_async()` | `TestEnds`, `JobReturns`, `DropGuard` |
| the shutdown itself, run by whoever | `StopOk/Fails`, `CleanupViaWorker`, `CleanupInProcess` |
| a dropped `start_async` or `stop_async` future; a runtime that ends | `CancelStart`, `CancelStop`, `RuntimeEnds` |

An operation on the server is one step with several outcomes: during an awaited
operation its cluster has the environment, and what another thread can do then
(bootstrap its own cluster, or a detached job) is interleaved before and after
it. A failure leaves any prefix of the operation's effect that the tools allow.
What the steps of an operation are is in `PgWorker`.

A timeout ends the worker, or the future, and not the program it waits for. So an
operation that is given up puts its name into `late`: the `initdb` of a Setup then
writes, completes or empties the directory any number of times, under whatever
server runs there by then; a `pg_ctl start` brings a server up; a `pg_ctl stop`
brings one down. The same goes for the blocking worker call of a `start_async()`
future that is dropped at its `await` (`CancelStart`): the environment is given
back, and Setup and Start go on to a server nobody has a guard for.

The server's own library is external, modelled from how the code uses it and
from its documented behaviour: dropping a `PostgreSQL` value stops its server
and, unless `Settings::temporary` is cleared (only the root path does), removes
the data directory.

### BinaryCache

A tree (a cache entry, a version directory of an installation) is the set of its
pieces: the directory, its `bin/`, the regular files, the symbolic links, and the
completion marker. Files and links are apart because copying a file over another
one works, while `symlink()` on a link that is there is an error. A copy takes
one piece at a time (`left` is what it has not reached), so another process sees
what is there so far and a crash leaves it there.

| Code | Actions |
|---|---|
| `find_matching_cached_version`, `check_cache` | `Lookup`, `CheckCached` |
| `CacheLock` (`flock` on a file per version), the second check | `LockShared`, `LockExclusive`, `Lock*Fails` |
| `copy_from_cache`, `copy_dir_recursive`, and its failure | `CopyIn`, `CopyInDone`, `CopyInFails` |
| Setup and Start by library or worker, as far as the version goes; `resolve_installed_dir` | `SetupInstalled`, `SetupDownloads`, `SetupFails`, `Start`, `StartFails`, `Resolve` |
| `populate_cache` | `CopyOut`, `CopyOutFails`, `MarkComplete` |
| the removal of `CleanupMode::Full`, a killed process, a user who deletes an entry | `RemovePiece`, `Removed`, `Crash`, `Purge` |

### DataDirectory, PgWorker, RootRun

`disk` is the set of entries of the data and installation directories, down to
what decisions look at: `PG_VERSION`, `postgresql.conf`, `pg_filenode.map`,
`postmaster.pid`, `bin`. `initdb` and the postmaster are external and take their
own steps: `initdb` writes its files in its order, refuses a directory that is
not empty, cleans up when it fails by itself, and leaves everything when it is
killed; the postmaster writes its pid file first and removes it last. A worker's
timeout kills the worker alone, so both outlive it.

`PgWorker` has, per process, the operation its worker runs and where it is in it.
`CheckSetup`, `DataDirExists`, `Validate` and the removal (`RemoveEntry`,
`RemoveTop`, `RemoveFails`, `RemoveStopsShort`) are `is_setup_complete` and
`recover_invalid_data_dir`; `Install`, `StartInitdb`, `InitdbReturns` the library's
`setup()`; `CheckStatus`, `StartServer`, `ServerStarted` Start; `StopServer`,
`ServerStopped` Stop. Setup, Stop and a Start that fails drop their `PostgreSQL`
value before they return (`Ends`, `DropValue`, `ValueDropped`), and that stops
whatever server has its pid file in the directory; only a Start that succeeds
forgets it. The cleanup the test process does itself after the worker's
(`cleanup_in_process`) uses the same removal, as root.

`RootRun` adds the process: `Stage`, `BeginCopy`, `EndCopy` (`worker_env.rs`),
`EnsureDirs` (install directory made, then chowned, then the data directory),
`PrepareXdg`, `ListTree`, `ChownTree` (bootstrap and `privileges.rs`), `Spawn`,
`Return`, `Timeout` (`worker_process`), `TestEnds`, and `Kill`. Nothing keeps two
processes apart, so two may overlap at every step; that is recorded in `blame` as
"overlap".

### TemplateDatabases, SharedCluster

`db` says of each database whether it is absent, there, or a template whose
`setup_fn` has not run to its end; a clone gets what its template had. The
per-template mutex is reached through a `DashMap` entry guard that is held with
it, so what a thread holds is the whole shard (`shardLock`); which templates share
one is arbitrary (`PlanType`). `building` is the stack of templates a thread is
ensuring, for a `setup_fn` may ensure another template.

All clusters of a process have one data directory (`data`) and at most one server
in it (`server`), which has the port of the start that brought it up: `serves` says
which clusters' handles have that port. As root the Setup of another cluster stops
the server, with the `PostgreSQL` value its worker drops, and its Start brings one
up on a new port; the databases stay, out of reach of the handles that were there
before. A pid file that a dead server left makes such a Start succeed without a
server. In process a start fails where a server runs, and the dropped value then
stops that server and removes the data. A Setup or Start that fails or is given up
may leave a directory, half of one or a server, and no exit hook is registered
for it: that is `SharedCluster`'s `StartFails`, with `LateSetup` and `LateStart`.

| Code | Actions |
|---|---|
| `ensure_template_exists` | `LockTemplate`, `DatabaseExists`, `CreateTemplate`, `SetupBegins`, `SetupEnds` |
| `temporary_database_from_template`, connections | `CreateFromTemplate`, `Connect`, `Use` |
| `drop_database`, `force_drop` (two statements), `Drop` of the guard | `Terminate`, `DropDatabase`, `DropGuard` |
| `shared_cluster_handle`, `shared_cluster` | `TakeSlot`, `Publish`, `Fail` |
| `ensure_worker_env` (`fixtures.rs`) | `LookForWorker`, `SetWorker`, `DropWorkerGuard` |
| `bootstrap_for_tests`, the sandbox scope, Setup and Start | `Bootstrap`, `ApplySandbox`, `SetupServer`, `StartServer`, `StartFails` |
| the `test_cluster` fixture | kind `"own"` of the same actions, `Close` |
| `shutdown_hook.rs` | `RegisterHook`, `Exits`, `ExitsEarly`, `ReadPid`, `Stops`, `CleansUp` |

The forgotten guard of a shared cluster is a scope (`scopes`) its thread never
leaves; `ENV_LOCK` comes back when that thread ends (`Close`), and until then no
other thread can start a cluster. A cluster of a test's own is stopped and removed
in `Close`; where the server is dead the stop fails, the worker then removes nothing,
while in process the dropped value removes the data. The other failures of a stop
are `ClusterLifecycle`'s.

## 3. Runs

| Run | Instance | Shows |
|---|---|---|
| `scoped_env` | 2 threads, 2 variables, 2 scopes each, no misuse | the abstract specification is implemented, the lock excludes and is given back (liveness), the host's environment returns |
| `scoped_env_faults` | 2 threads, 1 variable, 2 scopes, all faults | depth, assertions and locking hold even with leaks, panics and stray indices |
| `scoped_env_invalid_key` | 1 scope, rejected names | violation: see findings |
| `cluster_lifecycle` | 2 clusters, modes DataOnly and Full, shutdowns awaited, every operation may fail or be given up and go on | a shutdown is over before the environment goes on; every cluster ends |
| `cluster_background` | 2 clusters, modes None and Full, every use and every fault | lease refinement, ready means up, what may be left behind after which failure, that nothing is without one, and which shutdowns may outlive their cluster |
| `stop_async_twice`, `cleanup_none` | 2 clusters, no faults | violations: see findings |
| `binary_cache` | 2 processes, 2 versions, cold and warm cache, 3 kinds of run, every fault once, a crash and any other together | the cache refines `EntryCache`, served trees are whole, runs fail only for a cause, every run ends |
| `cache_race` | 2 unpinned clusters, no faults | violation: see findings |
| `root_run` | 2 root processes, modes DataOnly and None or Full; one after the other with every fault any number of times, overlapping with timeouts and kills or timeouts and failing tools | the seven properties below, and that every process ends |
| `interrupted_setup` | the same, only kills | violation: see findings |
| `shared_cluster` | 3 tests in 8 combinations, 3 templates in 3 shards, every fault | what can fail a shared cluster, take a database away, leave a server behind or block the tests |

What the exceptions of the properties say.

`binary_cache`: without a fault, a run fails only when it takes the unfinished
copy of another process for an installation, or when root resolves its directory
to a higher version than the one it set up with (`installation.rs` takes the
highest version that has a `bin/`, whatever was required).

`cluster_background`: "what outlived" is an `initdb`, a start or a stop that went on
after its timeout, or what a dropped `start_async()` future left.

| Property | Excused by |
|---|---|
| `ReadyMeansUp`, the server | anything that outlived its operation, or a shutdown that overlapped a later cluster |
| `ImplementsLease` | what outlived its operation and a detached shutdown, only while they go on (`stray`) |
| `ServerLeftOnlyByFailure` | a stop that failed; a setup or start that outlived its operation; a dropped `start_async()` future; overlap with a detached shutdown; for the worker's clusters, a failed start or port look-up, a lost runtime |
| `OrphanOnlyByFailure` | a setup or start that outlived its operation, a dropped `start_async()` future, overlap; in process, a stop that failed |
| `NothingLeftBehind` | any failure |

`root_run`: a download, `initdb` or start that fails by itself excuses nothing.

| Property | Excused by |
|---|---|
| `ReadyHasServer`, a server that accepts connections | timeout, a postmaster killed (its pid file is trusted), overlap |
| `ReadyHasServer`, on a whole directory; `SetupLeavesWhole` | timeout, kill, a removal that failed, overlap |
| `ResetSparesMarker`, `CleanupLeavesNothing` | timeout (an `initdb` that lives on writes again), overlap |
| `NoStrayServer`, a server left | timeout, kill, overlap |
| `NoStrayServer`, a server without its directory | timeout, overlap |
| `StagedWorkerWhole` | kill |
| `FailureHasCause` | any failure, overlap, or a staging directory of another user |

`shared_cluster`:

| Property | Excused by |
|---|---|
| `StartFailureHasCause` | a Setup or Start that fails or is given up; a test with `test_cluster()` in the process; both singletons in an unprivileged process |
| `DatabaseIsUsable`, it is there and within reach | clusters of another kind in the process, unless all of the test's own are of one kind and its thread has `ENV_LOCK`; an operation that was given up and goes on; a postmaster killed; an early exit; for its being there, a test of the same name that drops its own explicitly, and so twice |
| `DatabaseIsUsable`, it is complete | a failed `setup_fn`; clusters of another kind in the process; given up, killed and early exit as above |
| `ExitLeavesNothing` | as root and without a hook, a start that failed or a server that died; an operation that was given up and goes on; an early exit |
| `EveryTestEnds` | the mutex of a singleton against `ENV_LOCK`; two shards, or one shard twice |

Each exception was seen to happen, in that TLC finds the property violated without
it, but for these. A late start in `ReadyMeansUp` matters to a third cluster only.
In `DatabaseIsUsable` the proof assumes more than three tests show to be needed: that
no postmaster was killed, for a database that is reached to be there; that none was
killed, nothing was given up and the process did not exit early, for it to be
complete; and that the clusters of the test itself are of one kind. These may be
superfluous.

Bounds. Two threads and two nested scopes already give all the relations between
scopes (nested, sibling, of another thread, dropped inside out and outside in);
`MaxScopes` also bounds how many leaked guards an index may have. Two variables
are needed to tell a whole snapshot from an undo record of one variable. Two
clusters give a cluster that fails or detaches and one that comes after it or
bootstraps meanwhile. Two processes with one cache give a reader and a writer, a
crash and the run that finds what it left; two versions are needed for a version
that is there and not wanted. `Repeat = FALSE` bounds each kind of fault to once,
and `Together` says which kinds may come together in one behaviour: a crash with
any other, or a copy that fails with an entry that is deleted.
Two root processes give one that fails and one that follows it, or both at once.
There too `Together` bounds what goes wrong in one behaviour. Processes one after
the other have every fault; in processes that overlap deadlines always pass, as
the fairness needs, and processes are killed or tools fail. A postmaster that is
killed and a removal that breaks off are left out under overlap: a property that
they could falsify excuses an overlap anyway, and they would triple the states.
Three tests are needed for one that holds a lock, one that waits for it, and one
that goes on; three templates for a template that needs one that needs one, with
the shards all apart, or two of them in one. `MCPlans` lists the combinations of
tests, because all of them would be too many; each is there for a reason that is
given beside it; where the shards are matters in the one with nested templates
only (there, all apart, or a template in the shard of the one it needs by way of
another). The run has 736,865 distinct states. The theorems hold for any number of all of these.

Left to TLC: the liveness properties (`LockIsReleased`, `EveryClusterEnds`,
`EveryRunEnds`, `EveryProcessEnds`, `EveryTestEnds`). Every other property of a
passing run is also stated by a theorem, under the same assumptions on the
constants as the run's.

Fairness. `LockIsReleased` assumes that test bodies end, drop the guards they
have, and that a step inside `state.rs` is taken; nothing is assumed about how
`ENV_LOCK` picks a waiter beyond what that property needs. `EveryClusterEnds`
assumes weak fairness of each cluster's steps and jobs: test bodies end, every
operation is bounded by a timeout in the code
(`worker_operation.rs::timeout`, `run_with_timeout`, `wait_timeout`), and a
thread waiting for `ENV_LOCK` gets it when it stays free. `EveryRunEnds` assumes
that a process that was not killed goes on. `EveryProcessEnds` assumes it of the
thread of the test process only, which has the timeout as one of its steps:
nothing is assumed of a worker, of `initdb` or of the postmaster, which may hang.
`EveryTestEnds` assumes that each thread goes on, and the exit. No fairness is
assumed of failures, of what goes on after it was given up, of a cancellation or
of an early exit.

`AllDone`, `Ended`, `AllOver` and `Gone` stutter when everything is over, so a
deadlock in the runs is a real one. Where locks are taken against each other in
`SharedCluster` the postmaster may still die or the process exit, so the blocked
tests are reported by `EveryTestEnds`, not as a deadlock.

## 4. Findings

* `scoped_env_invalid_key`: a variable name is rejected after earlier ones of
  the scope were set; the undo record is lost in the panic and the environment
  stays changed after the lock is free again.
* `stop_async_twice`: `stop_async()` on a worker-managed cluster is followed by
  a second, detached shutdown from the guard's drop, which may stop and delete
  the next cluster.
* `cleanup_none`: an unprivileged cluster with `CleanupMode::None` loses its
  data directory to the drop of its `PostgreSQL` value.
* `cache_race`: two clusters that hit the same cache entry copy it into the same
  installation directory; one breaks off on a link the other made, takes the
  unfinished directory for an installation, and fails.
* `interrupted_setup`: after an `initdb` that was killed between `PG_VERSION` and
  `pg_filenode.map`, Setup reports success without looking for the marker.

The quotations are in `PROJECT.json`.

Seen while modelling, and without a run of their own:

* `docs/zero-config-raii-postgres-test-fixture-design.md:626-633` speaks of
  separate data directories; all clusters of a user have
  `/var/tmp/pg-embed-<uid>/data` (`privileges.rs:232-235`), and the group
  "serial" of `.config/nextest.toml` keeps the tests of the repository apart.
* `lifecycle.rs:243` and ADR-002 say the lock is per template; the `DashMap`
  guard locks the shard.
* `users-guide.md:337` lets `test_cluster` and `shared_test_cluster` be used side
  by side; the former stops the latter's server, as root in its Setup and
  otherwise when its start fails, and removes the data.
* `cluster/mod.rs:201-206` resolves the cache directory before the sandbox
  environment is applied, but without `ENV_LOCK`: another thread's sandbox may be
  what it sees.

## 5. Proofs

TLAPS, with the SMT, Zenon and LS4 backends. Assumptions on the constants are
`ConstantsAssumption` (`ScopedEnv`), `ClusterAssumption` (`ClusterLifecycle`),
`CacheAssumption` (`BinaryCache`), `RunAssumption` (`RootRun`) and
`DatabaseAssumption` (`TemplateDatabases`): they say which sets the constants are
from, and that the requirement of a run matches some version. TLC evaluates them
in every run.

`ScopedEnvProofs`. `TypeCorrect` first. `ProtocolInv` relates pc, depth, stack
and lock of one thread and is inductive under every fault, because each recovery
path re-establishes it; from it follow `DepthCorrect`, `AssertionsHold` and
`WritesOnlyUnderLock`. Without faults a stronger invariant is inductive
(`CleanInv`): each live guard has exactly one open record, and undoing the
holder's records leads back to the host's environment. The latter is stated as
"for each variable, the lowest record that saved it has the host's value", which
needs no recursion over the stack. `GuardsExclusive` follows. The
part about the environment (`RestoreInv`) needs less, only that each open record
has a guard left to close it (`OpenIsGuarded`). A stray exit may close a record
early, through the recovery path, but leaves none open without a guard. So the
invariant is inductive under stray exits too, and `HostEnvRestored` and
`UndoComplete` exclude only the leaked guard and the rejected name: TLC finds the
environment changed under a free lock with either of them.
`ScopedEnvSnapshotProofs` has the refinement of `EnvSnapshots`. A variable's value
after the records from i on are undone (`UnwindTo`) is the one the lowest record
that saved it has, or what it is now if none did; the lowest is there because the
indices of the records are well-founded. Each way a stack and the environment
change, opening a record, noting a first change, pushing, marking a record
finished, undoing the top one, leaves what the records under it stand for. So
the base of the stack is kept under every fault (`BaseKept`), and without faults
each step is a step of `EnvSnapshots` or a stutter (`SnapshotsImplemented`).

`ClusterLifecycleProofs`. `GivesUp` is what every way of abandoning a server or a
directory has in common, with a lemma per helper, so that the long action proofs
never unfold them. `JobInv` (who has the environment, which jobs may outlive it)
is inductive under all faults and gives `DetachedOnly`. For clusters that wait for
their own shutdown (`AwaitedOnly`, an assumption of this theorem alone: no dropped
async guard, and no `stop_async` under the worker, which shuts down twice)
`AwaitedInv` adds that a pending job's cluster is still waiting for it:
`ShutdownKeepsLock`. It cannot be dropped there: `cluster_background` allows the
uses it excludes, and TLC finds the shutdowns that overlap. The rest holds for
every use and every fault. `FaultInv` says who may still have to stop a server
while nothing in `blame` explains that nobody has, that directories are wiped
after the server, that what goes on by itself was given up (`LateBlamed`), and
that a server runs on a whole directory (`ServerInv`), with its binaries, and is
up from the end of its start on, as long as nothing has come to its end in another
cluster's time (`UpInv`). `OrphanHasCause`, `ServerLeftHasCause` and `ReadyIsUp`
follow, and each step maps to a step of `ClusterLease` or a stutter, where the
lease is `stray` while something goes on by itself: `LeaseHonoured`. `CleanInv`,
of the removal of directories while nothing fails, gives `LeavesNothing`.
`ShutdownProtocol` (which uses have which job) and `KeptInv` (a cluster past its
setup has a whole directory) give `DuplicateHasCause` and `WorkerKeepsData`, under
every fault the one, on the strength of `CleanInv` the other.

`BinaryCacheProofs`. `LockInv` ties the lock of a process to its place and makes
the two modes exclude each other; `LocksExclude` and `ReadsStable` are its
consequences. `CacheInv` holds as long as nobody deletes: the marker is on whole
entries only, and until an entry is complete every installation of the version is
absent or downloaded, which is why a copy out of it cannot carry a marker along
(`MarkerMeansWhole`). With `ReaderInv` (what is being copied in is there to be
copied) each step maps to a step of `EntryCache` or a stutter: `CacheRefines`.
`ServedInv` says that what a server runs from lacks the regular files at most,
and then a process is rewriting them: `ServedWhole`. `FillInv` follows a copy
while nothing goes wrong: for each piece an installation lacks there is a process
that has still to bring it and that no other copy can make break off before it
has. So what a run takes for an installation is whole or being copied:
`FailureExplained`. A run whose installation directory nobody shares has one
version in it as long as nothing goes wrong (`OwnInv`), which leaves none of those
ways to fail: `OwnInstallNeverFails`.

`RootRunProofs`. `RootInv` adds to the types which places each operation of a
worker can be at, and that a process has a worker only in a call, for that call's
operation (`Shape`). `TypeCorrect`; and `StagedWhole`: of several processes that
write the copy, the last to end finds nobody else writing. `RootRunSoloProofs` has
the rest, each invariant as long as no worker timed out and no two processes
overlapped. `SoloTenant`: one process at a time is at work, and an `initdb` has a
worker that waits for it. `SoloRemoval`: what a removal has behind it is gone:
`CleanupRemoves` and `ResetSpares`. `SoloServer`: a server has what it runs on,
and whoever could take it away stops the server first. With `ServerKept`, the
process that brought a server up still has to stop it, that is `NoStray`.
`PidHonest`: as long as no postmaster was killed either, `postmaster.pid` tells
the truth, and after a Setup there is none, because the value that Setup drops has
stopped the server of whatever process was killed before; so Start brings one up.
`FilesInv` says that a data directory is absent, empty or whole, except in the
places where `initdb` fills it or a removal empties it: `SetupWhole` and
`ReadyServed`. `CauseInv` carries "nothing went wrong so far" from step to step
until no step that fails has any other way to be reached: `FailureExplained`.

`SharedClusterProofs`. `SharedInv` is types and the protocol of one thread.
`ExitInv` says that whatever server or directory is left has a test or the hook to
remove it, unless the exit came early, something was given up and goes on, or a
root process without a hook had a start that failed or a server that died:
`LeavesNothing`. `StartInv` needs that the thread that starts a singleton has its
mutex from the look for the worker variable to the publication (`Starter`), so that
the variable stays set, and that no server is in the way of one that starts:
`FailureExplained`.

The same module has the part of `EveryTestEnds` that is about states: who
waits for whom. `HolderInv` says of each lock who has it and where that thread is
(`SlotHeld`, `EnvHeld`, `ShardHeld`), `ShardInv` that a thread holds the shards of
the templates it is building and that each is needed by the one under it, and
`StackOrdered` that a thread takes its shards in whatever order the templates' needs
respect. Suppose every test that is left waits. A waiter for a mutex waits for a
thread that starts the singleton and so waits for `ENV_LOCK`; a waiter for `ENV_LOCK`
waits for a thread with a scope, which waits for a shard, or for a mutex, and then
the two were taken against each other. That leaves waiters for shards, among which
one waits for the lowest; its holder waits for a lower one. So `NoOtherDeadlock`; and
`InversionsExplained` says where such an inversion can come from at all.

`SharedDatabaseProofs` has `DatabaseUsable`. `ProgressInv`: a test that works got the
cluster it asked for last, and one that has a cluster to itself holds `ENV_LOCK`.
`ReachInv`: while nothing died or was given up, the test that holds `ENV_LOCK` and
asks for one kind of cluster is on the server that is up, for whoever starts another
one needs that lock; and where only one kind is used its server is up for all.
`NameInv`: one test at a time has a database of a name on that server, unless one of
them drops twice, and it is there. `TemplateInv`: a template that nobody is building
is absent or whole, for as long as no `setup_fn` failed, no server died or was
replaced, nothing was given up and nobody left early; a thread sets a template up
under the shard that keeps the others from it (`Builder`), which is where `ShardInv`
and the two before come in.

The theorems also say how far the findings reach:

| Finding | Confined by | To |
|---|---|---|
| `scoped_env_invalid_key` | `HostEnvRestored`, `BaseKept` | leaked guards and rejected names |
| `stop_async_twice` | `DuplicateHasCause` | `stop_async()` on worker-managed clusters |
| `cleanup_none` | `WorkerKeepsData` | clusters the worker does not manage |
| `cache_race` | `OwnInstallNeverFails` | processes that share an installation directory |
| `interrupted_setup` | `SetupWhole` | what a kill, a timeout, a removal that failed or an overlap left |

What these, `NoOtherDeadlock` and `InversionsExplained` state, and all the inductive
invariants, were model-checked on instances of the size of the runs before they
were proved; they are not listed with the runs, which check the properties the
project started from.

Out of the prover's reach, and left to TLC: liveness and ENABLED.

## 6. Not modelled, and the plan

* Errors, logging, CLI: conversions and wording. `env/summary.rs` too.
* Parsing (paths, timeouts, time zones, version requirements) and path
  resolution: pure functions without state, which unit tests reach.
* The choice of a port is one system call; that another process may take it
  is the failure `ServerFails`.
* `setgroups`, `setgid`, `setuid`: system calls. What follows from them, which
  directories a worker may change, is in `PgWorker` (`Allowed`).
* A test that calls `create_database` or `drop_database` by itself: each is one
  SQL statement and the program keeps no state of it.
* A pid that is reused by another process: the exit hook's check of the pid file
  is modelled, what the operating system gives the number to is not.
* The pipes of the worker are read after it exited. A worker that fills one
  blocks like one that hangs, which `EveryProcessEnds` covers.
* Several users: their directories are apart, but for the staging directory,
  whose foreign owner is a value of `staged`.

Left for later: the pure functions above as operators, each against a reference
definition; in `ClusterLifecycle`, the steps inside an operation on the server
(`PgWorker` has them for the root path only).
