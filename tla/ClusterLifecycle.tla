-------------------------- MODULE ClusterLifecycle --------------------------
(***************************************************************************)
(* The life of the TestClusters of one process (src/cluster/): bootstrap,  *)
(* the scoped environment, setup, start, the test body, and the several    *)
(* ways a cluster is shut down.  Each cluster lives in a thread of its own *)
(* and the clusters share the user's default data and installation         *)
(* directories.                                                            *)
(*                                                                         *)
(* An operation on the server is one step with several outcomes: success,  *)
(* or an error or timeout that may leave part of its effect behind.  It is *)
(* carried out by the pg_worker subprocess when the process is root, and   *)
(* in process, through a PostgreSQL value, otherwise.  A shutdown is a job *)
(* of the thread itself, of the future stop_async() awaits, or of a        *)
(* detached task that goes on after the guard is gone.                     *)
(*                                                                         *)
(* Giving an operation up does not end it.  A timeout kills the worker, or *)
(* drops the future, but not the initdb or pg_ctl it has started; and a    *)
(* constructor's future that is dropped leaves its blocking worker call to *)
(* run to its end.  What is still going on by itself is in "late".         *)
(***************************************************************************)
EXTENDS FiniteSets

CONSTANTS
  Clusters,      \* the TestClusters the process creates
  NoCluster,     \* nobody holds the scoped environment
  Cases,         \* allowed combinations of privileges and use
  CleanupModes,  \* CleanupMode values in use
  Faults         \* what may go wrong: see FaultKinds

\* "sync": TestCluster::new, then drop; "stop_async": start_async, then
\* stop_async; "drop_async": start_async, then drop.
Uses == {"sync", "stop_async", "drop_async"}

\* What may go on by itself after it was given up.
LateOps == {"setup", "start", "stop"}

\* An operation of that name fails or times out; one that timed out goes on; a
\* start_async or a stop_async future is dropped; an async cluster is dropped
\* outside a runtime, or its runtime ends before the detached task ran.
FaultKinds == {"bootstrap", "setup", "start", "port", "stop", "cleanup",
               "late_setup", "late_start", "late_stop", "cancel_start",
               "cancel", "no_runtime", "runtime_ends"}

ASSUME ClusterAssumption ==
  /\ NoCluster \notin Clusters
  /\ Cases \subseteq [worker : BOOLEAN, use : Uses]
  /\ CleanupModes \subseteq {"DataOnly", "Full", "None"}
  /\ Faults \subseteq FaultKinds

VARIABLES
  plan,       \* is_managed_via_worker, and each cluster's use and cleanup mode
  envOwner,   \* the cluster whose thread holds ENV_LOCK through its ScopedEnv
  dataDir,    \* what is in the data directory
  installed,  \* the installation directory holds PostgreSQL
  server,     \* a postmaster runs in the data directory
  orphan,     \* one runs whose directory was removed
  late,       \* the operations that were given up and still go on
  pc,         \* where each cluster is
  postgres,   \* the cluster, or its constructor, owns a PostgreSQL value
  job,        \* each cluster's shutdown jobs
  blame       \* what has gone wrong so far (history, read by no action)

world == <<dataDir, installed, server, orphan, late>>
vars == <<plan, envOwner, world, pc, postgres, job, blame>>

\* "partial": initdb or a removal did not finish.
DirContents == {"absent", "empty", "partial", "whole"}

PCs == {"new", "prepared", "setup", "start", "port", "unwind", "ready",
        "await", "drop", "release", "done"}

\* "call": in Drop of a sync cluster, or awaited by stop_async(); "drop":
\* detached by Drop of an async cluster.
JobKinds == {"call", "drop"}
JobStates == {"none", "stop", "wipe_worker", "wipe", "done"}

TypeOK ==
  /\ plan \in [worker : BOOLEAN, use : [Clusters -> Uses],
               cleanup : [Clusters -> CleanupModes]]
  /\ envOwner \in Clusters \union {NoCluster}
  /\ dataDir \in DirContents
  /\ installed \in BOOLEAN /\ late \subseteq LateOps
  /\ server \in BOOLEAN /\ orphan \in BOOLEAN
  /\ pc \in [Clusters -> PCs]
  /\ postgres \in [Clusters -> BOOLEAN]
  /\ job \in [Clusters -> [JobKinds -> JobStates]]
  /\ blame \subseteq FaultKinds \union {"overlap"}

Init ==
  /\ plan \in [worker : BOOLEAN, use : [Clusters -> Uses],
               cleanup : [Clusters -> CleanupModes]]
  /\ \A c \in Clusters : [worker |-> plan.worker, use |-> plan.use[c]] \in Cases
  /\ envOwner = NoCluster
  /\ dataDir = "absent"
  /\ installed = FALSE /\ late = {}
  /\ server = FALSE /\ orphan = FALSE
  /\ pc = [c \in Clusters |-> "new"]
  /\ postgres = [c \in Clusters |-> FALSE]
  /\ job = [c \in Clusters |-> [k \in JobKinds |-> "none"]]
  /\ blame = {}

-----------------------------------------------------------------------------
(* Helpers.                                                                *)

Goto(c, from, to) == pc[c] = from /\ pc' = [pc EXCEPT ![c] = to]

\* A failure of this kind happens, if the instance allows it.
Fault(kind) == kind \in Faults /\ blame' = blame \union {kind}

\* An operation that is given up goes on by itself.
GoesOn(op, kind) == Fault(kind) /\ late' = late \union {op}

JobPending(c, k) == job[c][k] \in {"stop", "wipe_worker", "wipe"}
BeginJob(c, k) == job' = [job EXCEPT ![c][k] = "stop"]
JobGoto(c, k, to) == job' = [job EXCEPT ![c][k] = to]

\* The server can come up: binaries and an initialised data directory.
Startable == installed /\ dataDir = "whole"

\* What a removal of the data directory that fails may leave.
Remnants == IF dataDir = "whole" THEN {"whole", "partial", "absent"}
                                 ELSE {dataDir, "absent"}

\* Removing the directory, or part of it, takes it from under a server that is
\* up; that postmaster goes on without it, or notices and exits.
Discard(left) ==
  /\ dataDir' = left
  /\ \/ left = dataDir /\ UNCHANGED <<server, orphan>>
     \/ /\ left # dataDir
        /\ server' = FALSE
        /\ orphan' \in {orphan, orphan \/ server}

\* A stop fails: the server is up or down, or goes down later.
StopFault ==
  \/ Fault("stop") /\ server' \in {server, FALSE} /\ UNCHANGED late
  \/ /\ {"stop", "late_stop"} \subseteq Faults
     /\ blame' = blame \union {"stop", "late_stop"}
     /\ late' = late \union {"stop"}
     /\ UNCHANGED server

\* Dropping the PostgreSQL value of a cluster that is not the worker's, after
\* these failures: it stops the server and, its settings being temporary,
\* removes the data directory; it ignores the errors of both.
DropPostgres(failures) ==
  \E more \in SUBSET (Faults \intersect {"stop", "late_stop", "cleanup"}),
     left \in Remnants :
    /\ "cleanup" \notin more => left = "absent"
    /\ "late_stop" \in more => "stop" \in more
    /\ late' = IF "late_stop" \in more THEN late \union {"stop"} ELSE late
    /\ \/ "stop" \notin more /\ dataDir' = left /\ server' = FALSE /\ UNCHANGED orphan
       \/ "stop" \in more /\ Discard(left)
    /\ blame' = blame \union failures \union more

-----------------------------------------------------------------------------
(* Starting a cluster: TestCluster::new_split, start_async_split.          *)

\* bootstrap_for_tests, outside ENV_LOCK: prepare the directories.
Bootstrap(c) ==
  /\ \/ Goto(c, "new", "prepared") /\ UNCHANGED blame
     \/ Goto(c, "new", "done") /\ Fault("bootstrap")
  /\ dataDir' = IF dataDir = "absent" THEN "empty" ELSE dataDir
  /\ UNCHANGED <<plan, envOwner, installed, server, orphan, late, postgres, job>>

\* ScopedEnv::apply returns once the thread has ENV_LOCK; a PostgreSQL value
\* is made unless the worker manages the server.
ApplyEnv(c) ==
  /\ Goto(c, "prepared", "setup")
  /\ envOwner = NoCluster
  /\ envOwner' = c
  /\ postgres' = [postgres EXCEPT ![c] = ~plan.worker]
  /\ blame' = IF \E d \in Clusters, k \in JobKinds : JobPending(d, k)
              THEN blame \union {"overlap"} ELSE blame
  /\ UNCHANGED <<plan, world, job>>

\* A setup that succeeds.  A directory that looks initialised is left as it is;
\* the worker then does not look for the binaries either.
SetUp ==
  /\ installed' \in IF plan.worker /\ dataDir \in {"partial", "whole"}
                    THEN {installed, TRUE} ELSE {TRUE}
  /\ dataDir' \in IF dataDir = "partial" THEN {"partial", "whole"} ELSE {"whole"}

\* One that does not.
SetUpInPart ==
  /\ installed' \in {installed, TRUE}
  /\ dataDir' \in IF dataDir = "whole" THEN {"whole"}
                                      ELSE {dataDir, "absent", "partial"}

\* The Setup operation.  The worker's PostgreSQL value stops a server it finds
\* up when it is dropped.
SetupOk(c) ==
  /\ Goto(c, "setup", "start")
  /\ SetUp
  /\ \/ server' = (server /\ ~plan.worker) /\ UNCHANGED <<late, blame>>
     \/ plan.worker /\ StopFault
  /\ UNCHANGED <<plan, envOwner, orphan, postgres, job>>

\* One that fails is over; one that is given up leaves its initdb behind, if the
\* directory needed one.
SetupFails(c) ==
  /\ Goto(c, "setup", "unwind")
  /\ SetUpInPart
  /\ \/ dataDir = "partial" /\ UNCHANGED <<late, blame>>
     \/ Fault("setup") /\ UNCHANGED late
     \/ dataDir # "whole" /\ GoesOn("setup", "late_setup")
  /\ server' \in {server, server /\ ~plan.worker}
  /\ UNCHANGED <<plan, envOwner, orphan, postgres, job>>

\* The worker's Start begins with the setup again.
StartSetUp ==
  IF plan.worker THEN SetUp ELSE UNCHANGED <<dataDir, installed>>

\* Mutant: a start is believed without looking whether the server can come up.
StartOkUnchecked(c) ==
  /\ Goto(c, "start", "port")
  /\ StartSetUp
  /\ plan.worker \/ ~server
  /\ server' = (server \/ Startable')
  /\ UNCHANGED <<plan, envOwner, orphan, late, postgres, job, blame>>

\* The Start operation: the worker is content with a server that is up
\* already; pg_ctl, in process, is not.
StartOk(c) ==
  /\ Goto(c, "start", "port")
  /\ StartSetUp
  /\ IF server THEN plan.worker ELSE Startable'
  /\ server' = TRUE
  /\ UNCHANGED <<plan, envOwner, orphan, late, postgres, job, blame>>

\* The worker that fails drops its PostgreSQL value, which stops a server; the
\* worker that is killed does not, and what it was doing goes on.
StartFails(c) ==
  /\ Goto(c, "start", "unwind")
  /\ \/ /\ StartSetUp
        /\ IF server THEN ~plan.worker ELSE ~Startable'
        /\ UNCHANGED <<server, late, blame>>
     \/ /\ plan.worker
        /\ SetUpInPart
        /\ \/ Fault("start") /\ server' \in {server, FALSE} /\ UNCHANGED late
           \/ dataDir # "whole" /\ GoesOn("setup", "late_setup") /\ UNCHANGED server
     \/ /\ StartSetUp
        /\ \/ /\ Fault("start")
              /\ server' \in {server, server \/ Startable', server /\ ~plan.worker}
              /\ UNCHANGED late
           \/ GoesOn("start", "late_start") /\ UNCHANGED server
  /\ UNCHANGED <<plan, envOwner, orphan, postgres, job>>

\* refresh_worker_port: only the worker's clusters read postmaster.pid.
RefreshPort(c) ==
  /\ \/ Goto(c, "port", "ready") /\ UNCHANGED blame
     \/ plan.worker /\ Goto(c, "port", "unwind") /\ Fault("port")
  /\ UNCHANGED <<plan, envOwner, world, postgres, job>>

\* What goes on when a constructor's future is dropped: the blocking worker call,
\* whose Start begins with the setup, or the program the future waited for.
Abandoned(place) ==
  CASE place = "setup" -> {"setup"}
    [] place = "start" -> IF plan.worker THEN {"setup", "start"} ELSE {"start"}
    [] OTHER -> {}

\* The start_async() future is dropped at one of its awaits; the wait for
\* postmaster.pid is one for the worker's clusters only.
CancelStart(c) ==
  /\ plan.use[c] # "sync"
  /\ pc[c] \in {"setup", "start"} \/ (plan.worker /\ pc[c] = "port")
  /\ Goto(c, pc[c], "unwind")
  /\ Fault("cancel_start")
  /\ late' = late \union Abandoned(pc[c])
  /\ UNCHANGED <<plan, envOwner, dataDir, installed, server, orphan, postgres, job>>

\* Mutant: a failed constructor forgets its environment guard.
UnwindAndForget(c) ==
  /\ Goto(c, "unwind", "done")
  /\ \/ postgres[c] /\ DropPostgres({})
     \/ ~postgres[c] /\ UNCHANGED <<dataDir, server, orphan, late, blame>>
  /\ postgres' = [postgres EXCEPT ![c] = FALSE]
  /\ UNCHANGED <<plan, envOwner, installed, job>>

\* An error leaves start_postgres: the PostgreSQL value is dropped.
Unwind(c) ==
  /\ Goto(c, "unwind", "release")
  /\ \/ postgres[c] /\ DropPostgres({})
     \/ ~postgres[c] /\ UNCHANGED <<dataDir, server, orphan, late, blame>>
  /\ postgres' = [postgres EXCEPT ![c] = FALSE]
  /\ UNCHANGED <<plan, envOwner, installed, job>>

\* The initdb or the worker nobody waits for any more writes the directory,
\* finishes it, or clears it after a failure of its own, whoever uses it by now;
\* the worker then drops its PostgreSQL value.
LateSetup ==
  /\ "setup" \in late
  /\ late' \in {late, late \ {"setup"}}
  /\ \/ \E left \in DirContents : Discard(left)
     \/ plan.worker /\ server' = FALSE /\ UNCHANGED <<dataDir, orphan>>
  /\ installed' \in {installed, TRUE}
  /\ UNCHANGED <<plan, envOwner, pc, postgres, job, blame>>

\* The pg_ctl nobody waits for any more brings the server up after all.
LateStart ==
  /\ "start" \in late
  /\ late' = late \ {"start"}
  /\ server' \in {server, server \/ Startable}
  /\ UNCHANGED <<plan, envOwner, dataDir, installed, orphan, pc, postgres, job, blame>>

\* Or it brings it down.
LateStop ==
  /\ "stop" \in late
  /\ late' = late \ {"stop"}
  /\ server' \in {server, FALSE}
  /\ UNCHANGED <<plan, envOwner, dataDir, installed, orphan, pc, postgres, job, blame>>

-----------------------------------------------------------------------------
(* Shutting a cluster down.                                                *)

\* The test body is over.  Drop of a sync cluster, and stop_async(), take the
\* PostgreSQL value and wait for the job.
TestEnds(c) ==
  /\ \/ /\ plan.use[c] # "drop_async"
        /\ Goto(c, "ready", "await")
        /\ BeginJob(c, "call")
        /\ postgres' = [postgres EXCEPT ![c] = FALSE]
     \/ /\ plan.use[c] = "drop_async"
        /\ Goto(c, "ready", "drop")
        /\ UNCHANGED <<job, postgres>>
  /\ UNCHANGED <<plan, envOwner, world, blame>>

\* Mutant: a stopped cluster's job takes one of the cluster's own states.
StopOkRelease(c, k) ==
  /\ job[c][k] = "stop"
  /\ plan.worker \/ server
  /\ server' = FALSE
  /\ JobGoto(c, k, "release")
  /\ UNCHANGED <<plan, envOwner, dataDir, installed, orphan, late, pc, postgres, blame>>

\* postgres.stop(), or the worker's Stop, which a missing postmaster.pid does
\* not make an error.
StopOk(c, k) ==
  /\ job[c][k] = "stop"
  /\ dataDir # "absent"
  /\ plan.worker \/ server
  /\ server' = FALSE
  /\ JobGoto(c, k, IF plan.worker THEN "wipe_worker" ELSE "wipe")
  /\ UNCHANGED <<plan, envOwner, dataDir, installed, orphan, late, pc, postgres, blame>>

\* Mutant: the directories are cleaned up whatever the stop returned.
StopFailsAndCleansUp(c, k) ==
  /\ job[c][k] = "stop"
  /\ Fault("stop") /\ server' \in {server, FALSE}
  /\ JobGoto(c, k, "wipe")
  /\ UNCHANGED <<plan, envOwner, dataDir, installed, orphan, late, pc, postgres>>

\* A failed or timed-out stop ends the job: the cleanup mode has no say, and in
\* process the PostgreSQL value is dropped.
StopFails(c, k) ==
  /\ job[c][k] = "stop"
  /\ \/ /\ plan.worker
        /\ \/ dataDir = "absent" /\ UNCHANGED <<server, late, blame>>
           \/ StopFault
        /\ UNCHANGED <<dataDir, orphan>>
     \/ ~plan.worker /\ ~server /\ DropPostgres({})
     \/ ~plan.worker /\ "stop" \in Faults /\ DropPostgres({"stop"})
  /\ JobGoto(c, k, "done")
  /\ UNCHANGED <<plan, envOwner, installed, pc, postgres>>

\* Mutant: CleanupMode::Full removes the installation but not the data.
RemoveForgettingData(mode) ==
  /\ dataDir' = IF mode = "DataOnly" THEN "absent" ELSE dataDir
  /\ installed' = (installed /\ mode # "Full")
  /\ UNCHANGED <<server, orphan, blame>>

\* Remove what the cleanup mode names; a failure is only logged.
Remove(mode) ==
  \/ mode = "None" /\ UNCHANGED <<dataDir, installed, server, orphan, blame>>
  \/ /\ mode # "None"
     /\ Discard("absent")
     /\ installed' = (installed /\ mode # "Full")
     /\ UNCHANGED blame
  \/ /\ mode # "None"
     /\ Fault("cleanup")
     /\ \E left \in Remnants : Discard(left)
     /\ installed' \in {installed, installed /\ mode # "Full"}

\* The worker's Cleanup or CleanupFull, as nobody.
CleanupViaWorker(c, k) ==
  /\ job[c][k] = "wipe_worker"
  /\ Remove(plan.cleanup[c])
  /\ JobGoto(c, k, "wipe")
  /\ UNCHANGED <<plan, envOwner, late, pc, postgres>>

\* cleanup_in_process, which root runs after the worker's.  Otherwise the
\* PostgreSQL value is dropped about now and removes the data in any mode.
CleanupInProcess(c, k) ==
  /\ job[c][k] = "wipe"
  /\ Remove(IF plan.cleanup[c] = "None" /\ ~plan.worker
            THEN "DataOnly" ELSE plan.cleanup[c])
  /\ JobGoto(c, k, "done")
  /\ UNCHANGED <<plan, envOwner, late, pc, postgres>>

\* Mutant: the shutdown is spawned and not waited for.
JobReturnsAtOnce(c) ==
  /\ Goto(c, "await", IF plan.use[c] = "sync" THEN "release" ELSE "drop")
  /\ UNCHANGED <<plan, envOwner, world, postgres, job, blame>>

\* Drop of a sync cluster is done; stop_async() returns, and its receiver's
\* guard is dropped.
JobReturns(c) ==
  /\ job[c]["call"] = "done"
  /\ Goto(c, "await", IF plan.use[c] = "sync" THEN "release" ELSE "drop")
  /\ UNCHANGED <<plan, envOwner, world, postgres, job, blame>>

\* The stop_async() future is dropped while it waits: a PostgreSQL value goes
\* with it, a blocking worker call goes on by itself.
CancelStop(c) ==
  /\ plan.use[c] = "stop_async"
  /\ Goto(c, "await", "drop")
  /\ \/ /\ plan.worker
        /\ JobPending(c, "call")
        /\ Fault("cancel")
        /\ UNCHANGED <<dataDir, server, orphan, late, job>>
     \/ /\ ~plan.worker
        /\ "cancel" \in Faults
        /\ job[c]["call"] = "stop"
        /\ JobGoto(c, "call", "done")
        /\ DropPostgres({"cancel"})
  /\ UNCHANGED <<plan, envOwner, installed, postgres>>

\* Mutant: a cluster without a PostgreSQL value has nothing to stop.
SkipShutdownWithoutValue(c) == ~postgres[c]

\* Mutant: the guard does not see that the cluster was stopped already.
SkipShutdownNever(c) == c \notin Clusters

\* ClusterGuard::should_skip_shutdown.
SkipShutdown(c) == ~postgres[c] /\ ~plan.worker

\* Drop of an async guard: skipped, detached, or given up without a runtime.
DropGuard(c) ==
  /\ Goto(c, "drop", "release")
  /\ postgres' = [postgres EXCEPT ![c] = FALSE]
  /\ \/ SkipShutdown(c) /\ UNCHANGED <<dataDir, server, orphan, late, job, blame>>
     \/ /\ ~SkipShutdown(c)
        /\ BeginJob(c, "drop")
        /\ UNCHANGED <<dataDir, server, orphan, late, blame>>
     \/ /\ ~SkipShutdown(c) /\ plan.use[c] = "drop_async"
        /\ "no_runtime" \in Faults
        /\ UNCHANGED job
        /\ \/ /\ plan.worker
              /\ Fault("no_runtime")
              /\ UNCHANGED <<dataDir, server, orphan, late>>
           \/ ~plan.worker /\ DropPostgres({"no_runtime"})
  /\ UNCHANGED <<plan, envOwner, installed>>

\* The runtime ends before the detached task has begun.
RuntimeEnds(c) ==
  /\ job[c]["drop"] = "stop"
  /\ JobGoto(c, "drop", "done")
  /\ "runtime_ends" \in Faults
  /\ \/ /\ plan.worker
        /\ Fault("runtime_ends")
        /\ UNCHANGED <<dataDir, server, orphan, late>>
     \/ ~plan.worker /\ DropPostgres({"runtime_ends"})
  /\ UNCHANGED <<plan, envOwner, installed, pc, postgres>>

\* The environment guard is dropped after the rest of the cluster.
ReleaseEnv(c) ==
  /\ Goto(c, "release", "done")
  /\ envOwner' = NoCluster
  /\ UNCHANGED <<plan, world, postgres, job, blame>>

-----------------------------------------------------------------------------
Job(c, k) ==
  StopOk(c, k) \/ StopFails(c, k) \/ CleanupViaWorker(c, k) \/ CleanupInProcess(c, k)

Advance(c) ==
  \/ Bootstrap(c) \/ ApplyEnv(c) \/ SetupOk(c) \/ SetupFails(c) \/ StartOk(c)
  \/ StartFails(c) \/ RefreshPort(c) \/ Unwind(c) \/ TestEnds(c)
  \/ JobReturns(c) \/ DropGuard(c) \/ ReleaseEnv(c)

LateStep == LateSetup \/ LateStart \/ LateStop

Settled ==
  /\ \A c \in Clusters : pc[c] = "done" /\ \A k \in JobKinds : ~JobPending(c, k)
  /\ late = {}

AllDone == Settled /\ UNCHANGED vars

Next ==
  \/ \E c \in Clusters :
       Advance(c) \/ CancelStart(c) \/ CancelStop(c) \/ RuntimeEnds(c)
  \/ \E c \in Clusters, k \in JobKinds : Job(c, k)
  \/ LateStep
  \/ AllDone

Spec == Init /\ [][Next]_vars
=============================================================================
