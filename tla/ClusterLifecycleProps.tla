----------------------- MODULE ClusterLifecycleProps -----------------------
(***************************************************************************)
(* What the clusters of one process are meant to guarantee.                *)
(***************************************************************************)
EXTENDS ClusterLifecycle

\* A shutdown job that its cluster does not wait for.
Detached(c, k) ==
  \/ k = "drop"
  \/ plan.worker /\ plan.use[c] = "stop_async" /\ pc[c] # "await"

\* Something is going on that no cluster waits for.
Stray ==
  late # {} \/ \E c \in Clusters, k \in JobKinds : JobPending(c, k) /\ Detached(c, k)

Lease == INSTANCE ClusterLease WITH
  tenant <- envOwner, contents <- dataDir, up <- server, stray <- Stray,
  Contents <- DirContents

\* The clusters share one data directory, and the ScopedEnv each of them holds
\* from before its setup until after its shutdown is a lease on it: nobody else
\* starts, stops or wipes a server, and nobody rewrites the directory under a
\* server that is up.  The lease is broken by what was given up or detached, for
\* as long as that goes on, and by nothing else; only the holder of the lease
\* gives up or detaches anything.
ImplementsLease == Lease!Spec

\* A program outlived the operation, or the constructor, it belonged to.
Unfinished == {"late_setup", "late_start", "cancel_start"}

\* What TestCluster::new and start_async return can be used: as long as the test
\* body runs, the environment is this cluster's and a server runs in a complete
\* data directory, whatever the clusters before it failed to do, unless what one
\* of them gave up or detached came to its end in this cluster's time.  (A late
\* start takes a third cluster: the server comes up while the second one removes its
\* directory, which fails half way and leaves data without an installation.)
ReadyMeansUp ==
  \A c \in Clusters : pc[c] = "ready" =>
    /\ envOwner = c
    /\ \/ server /\ Startable
       \/ blame \intersect (Unfinished \union {"late_stop", "overlap"}) # {}

\* A shutdown, wherever it was started from, is over before its cluster gives
\* the environment to the next one (ClusterGuard: "Environment guards drop
\* after this block").
ShutdownUnderLock ==
  \A c \in Clusters, k \in JobKinds : JobPending(c, k) => envOwner = c

\* Once every cluster is gone, and unless something failed on the way or was
\* asked to keep its data, nothing is left: no server, no data directory, and
\* no installation if every cluster had CleanupMode::Full.
NothingLeftBehind ==
  Settled /\ blame = {} =>
    /\ ~server /\ ~orphan
    /\ (\A c \in Clusters : plan.cleanup[c] # "None") => dataDir = "absent"
    /\ (\A c \in Clusters : plan.cleanup[c] = "Full") => ~installed

\* Failures a postmaster may outlive its cluster after.  In process the Drop of
\* the PostgreSQL value stops what a failed start left.  The worker's Start that
\* fails leaves nothing, but nobody stops the server of one that was killed.
MayLeaveServer ==
  Unfinished \union {"stop", "overlap"}
    \union (IF plan.worker THEN {"start", "port", "no_runtime", "runtime_ends"}
                           ELSE {})

\* The paths out of a cluster's life that leave a postmaster behind are these and
\* no others: a stop that failed, a program that outlived its timeout, a dropped
\* start_async() future, a shutdown that overlapped the next cluster, and, for
\* the worker's clusters, a failed start or port look-up or a lost runtime.  A
\* failed bootstrap, setup or cleanup and a cancelled stop_async() leave none.
ServerLeftOnlyByFailure ==
  Settled /\ (server \/ orphan) => blame \intersect MayLeaveServer # {}

\* No directory is removed from under a running postmaster: a stop that failed
\* or timed out keeps the cleanup from running.  Only a setup or start that goes on
\* after it was given up, a shutdown that outlived its cluster, or, in process,
\* the Drop of the PostgreSQL value after such a stop, gets around that.
OrphanOnlyByFailure ==
  orphan => blame \intersect
    (Unfinished \union {"overlap"} \union (IF plan.worker THEN {} ELSE {"stop"})) # {}

\* A shutdown that outlives its cluster is always one that was detached: by the
\* Drop of an async guard, or by a stop_async() future dropped half way.
OnlyDetachedJobsOverlap ==
  \A c \in Clusters, k \in JobKinds :
    JobPending(c, k) /\ envOwner # c =>
      \/ k = "drop" /\ (plan.worker \/ plan.use[c] = "drop_async")
      \/ k = "call" /\ plan.worker /\ "cancel" \in blame

\* stop_async() "consumes `self` to prevent the `Drop` implementation from
\* attempting duplicate shutdown" (src/cluster/mod.rs:344).
NoDuplicateShutdown ==
  \A c \in Clusters : job[c]["call"] # "none" => job[c]["drop"] = "none"

\* "`CleanupMode::None`: confirm directories are retained for inspection"
\* (docs/v0-5-0-migration-guide.md:411): if nothing fails, the data directory of
\* clusters that are not to be cleaned up is there when they are gone.
NoneRetainsData ==
  Settled /\ blame = {} /\ (\A c \in Clusters : plan.cleanup[c] = "None")
    => dataDir = "whole"

\* NoDuplicateShutdown fails only after a stop_async() through the worker.  In
\* process the PostgreSQL value that stop_async() took keeps the guard from a
\* second shutdown, whatever fails and wherever the future is dropped.
OnlyWorkerShutsDownTwice ==
  \A c \in Clusters : job[c]["call"] # "none" /\ job[c]["drop"] # "none" =>
    plan.worker /\ plan.use[c] = "stop_async"

\* NoneRetainsData fails only in process.  The worker's clusters keep the data
\* directory they were told to keep, duplicate and detached shutdowns included.
WorkerRetainsData ==
  plan.worker /\ Clusters # {} => NoneRetainsData

-----------------------------------------------------------------------------
(* The inductive strengthenings the proofs use.                            *)

\* Where a cluster has its ScopedEnv.
Holding == {"setup", "start", "port", "unwind", "ready", "await", "drop", "release"}

\* Under every fault and every use: who has the environment, and which jobs may
\* outlive it.
JobProtocol(c) ==
  /\ pc[c] \in Holding <=> envOwner = c
  /\ JobPending(c, "call") => \/ pc[c] = "await"
                              \/ /\ plan.worker /\ plan.use[c] = "stop_async"
                                 /\ "cancel" \in blame
  /\ JobPending(c, "drop") => plan.worker \/ plan.use[c] = "drop_async"
  /\ pc[c] = "await" => ~postgres[c]
  /\ pc[c] = "drop" /\ postgres[c] => plan.use[c] = "drop_async"

JobInv == TypeOK /\ \A c \in Clusters : JobProtocol(c)

\* Every cluster waits for its own shutdown.
AwaitedOnly ==
  \A x \in Cases : x.use # "drop_async" /\ (x.worker => x.use = "sync")

AwaitedProtocol(c) ==
  /\ plan.use[c] # "drop_async" /\ (plan.worker => plan.use[c] = "sync")
  /\ job[c]["drop"] = "none"
  /\ JobPending(c, "call") => pc[c] = "await"
  /\ pc[c] = "drop" => ~plan.worker /\ ~postgres[c]

AwaitedInv == JobInv /\ \A c \in Clusters : AwaitedProtocol(c)

\* A cluster has the environment, or a job that is not over.
Busy(c) == pc[c] \in Holding \/ \E k \in JobKinds : JobPending(c, k)

\* A cluster whose turn it still is to stop the server.
MustStop(c) ==
  \/ pc[c] \in {"port", "ready"}
  \/ pc[c] = "unwind" /\ postgres[c]
  \/ pc[c] = "drop" /\ ~SkipShutdown(c)
  \/ \E k \in JobKinds : job[c][k] = "stop"

\* Under every fault and every use: when jobs run, who owns a PostgreSQL value,
\* and that directories are wiped after the server.
LifeProtocol(c) ==
  /\ JobPending(c, "call") => pc[c] \in {"await", "drop", "release", "done"}
  /\ JobPending(c, "drop") => pc[c] \in {"release", "done"}
  /\ pc[c] \in {"setup", "start", "port", "unwind", "ready"}
       => postgres[c] = ~plan.worker
  /\ pc[c] = "await" => plan.use[c] # "drop_async"
  /\ pc[c] = "drop" /\ plan.use[c] = "drop_async" => postgres[c] = ~plan.worker
  /\ postgres[c] => ~plan.worker
  /\ \A k \in JobKinds : job[c][k] \in {"wipe_worker", "wipe"} =>
       ~server \/ blame \intersect (Unfinished \union {"overlap"}) # {}

\* Nothing has come to its end in another cluster's time.
InTime == blame \intersect (Unfinished \union {"late_stop", "overlap"}) = {}

\* What goes on by itself was given up.
LateBlamed ==
  /\ late \intersect {"setup", "start"} # {} => blame \intersect Unfinished # {}
  /\ "stop" \in late => {"stop", "late_stop"} \subseteq blame

\* And a server has the directory it runs in.
ServerInv == LateBlamed /\ (server => dataDir = "whole")

\* A server that is up has its binaries, and every cluster that is past its start
\* has one.
UpInv ==
  InTime => /\ server => installed
            /\ \A c \in Clusters : pc[c] \in {"port", "ready"} => server

\* Only one cluster at a time is busy, unless a job overlapped with the next one.
FaultInv ==
  /\ JobInv
  /\ ServerInv /\ UpInv
  /\ "overlap" \notin blame => \A c, d \in Clusters : Busy(c) /\ Busy(d) => c = d
  /\ \A c \in Clusters : LifeProtocol(c)
  /\ OrphanOnlyByFailure
  /\ server /\ blame \intersect MayLeaveServer = {} => \E c \in Clusters : MustStop(c)

\* A cluster that goes on to wipe the data directory.
MustWipe(c) ==
  \/ pc[c] \in {"prepared", "setup", "start", "port", "ready"}
  \/ pc[c] = "drop" /\ ~SkipShutdown(c)
  \/ \E k \in JobKinds : JobPending(c, k)

\* As long as nothing goes wrong: no cluster fails, a started server stays up until
\* its cluster stops it, and somebody wipes what there is.
SmoothProtocol(c) ==
  /\ pc[c] # "unwind"
  /\ pc[c] = "start" => dataDir = "whole"
  /\ pc[c] \in {"port", "ready"} => server
  /\ pc[c] = "drop" /\ plan.use[c] = "drop_async" => server
  /\ job[c]["call"] = "stop" => server
  /\ job[c]["drop"] = "stop" /\ ~plan.worker => server

CleanInv ==
  blame = {} =>
    /\ dataDir # "partial"
    /\ dataDir = "whole" => installed
    /\ \A c \in Clusters : SmoothProtocol(c)
    /\ (\A c \in Clusters : plan.cleanup[c] = "Full") /\ installed => dataDir = "whole"
    /\ (\A c \in Clusters : plan.cleanup[c] # "None") /\ dataDir # "absent"
         => \E c \in Clusters : MustWipe(c)

\* A guard shuts down only after a stop_async() that left it something to stop.
ShutdownProtocol(c) ==
  /\ job[c]["call"] # "none" => plan.use[c] # "drop_async"
  /\ job[c]["drop"] # "none" => \/ plan.use[c] = "drop_async"
                                \/ plan.worker /\ plan.use[c] = "stop_async"
  /\ pc[c] = "drop" => plan.use[c] # "sync"

\* Nobody takes away what the worker's clusters set up and are to keep.
KeptInv ==
  /\ plan.worker /\ blame = {} /\ \A c \in Clusters : plan.cleanup[c] = "None"
  => \A c \in Clusters : pc[c] \notin {"new", "prepared", "setup"} => dataDir = "whole"

-----------------------------------------------------------------------------
\* Test bodies end; every operation on the server has a timeout; a thread that
\* waits for ENV_LOCK gets it once it is free.
Fairness ==
  \A c \in Clusters :
    WF_vars(Advance(c)) /\ \A k \in JobKinds : WF_vars(Job(c, k))

FairSpec == Spec /\ Fairness

\* No failure keeps a cluster from giving the environment back, so every
\* cluster of the process gets its turn and comes to its end.
EveryClusterEnds == \A c \in Clusters : <>(pc[c] = "done")
=============================================================================
