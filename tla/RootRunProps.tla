---------------------------- MODULE RootRunProps ----------------------------
(***************************************************************************)
(* What holds of root test processes.  A property that allows exceptions   *)
(* names them by their causes: a failure, or processes that overlap, for   *)
(* the code has nothing that keeps two processes apart.                    *)
(***************************************************************************)
EXTENDS RootRun

TypeOK ==
  /\ disk \subseteq DataTree \cup InstallTree
  /\ rootOwned \subseteq {"data", "install"}
  /\ server \in {"down", "starting", "up", "stopping"}
  /\ orphan \in BOOLEAN
  /\ initdb \in [Procs -> InitdbRunning \cup {"none", "ok", "failed"}]
  /\ blame \subseteq Causes
  /\ worker \in [Procs -> [op : Ops \cup {"none"},
                           at : Running \cup {"none", "ok", "err"}, bad : BOOLEAN]]
  /\ pc \in [Procs -> PCs]
  /\ mode \in [Procs -> Modes]
  /\ staged \in {"absent", "foreign", "partial", "whole"}
  /\ binary \in [Procs -> {"original", "staged"}]
  /\ seen \in [Procs -> SUBSET (DataTree \cup InstallTree)]

After(causes) == blame \cap causes # {}

\* A cluster that was handed to its test has a server that accepts connections,
\* on a whole data directory.  Start trusts the pid file and Setup trusts PG_VERSION
\* (pg_worker.rs:220,296), so it is not so if a postmaster was killed and left its
\* pid file, or an initdb or a removal was interrupted.  A server that an earlier
\* process left, on its way up or down, is no excuse, nor is a failed download,
\* initdb or start.
ReadyHasServer ==
  \A p \in Procs : pc[p] = "ready" =>
    /\ server = "up" \/ After({"timeout", "server_dies", "overlap"})
    /\ Whole \/ After({"timeout", "kill", "remove", "overlap"})

\* A Setup that reports success leaves a whole data directory, unless something
\* was interrupted half way; an initdb that fails by itself is recovered from.
SetupLeavesWhole ==
  \A p \in Procs : worker[p].op = "setup" /\ worker[p].at = "ok" =>
    Whole \/ After({"timeout", "kill", "remove", "overlap"})

\* The recovery never empties a directory that has the marker, unless an initdb
\* nobody waits for, or another process, writes between the check and the
\* removal (pg_worker.rs:263-269).
ResetSparesMarker ==
  [][\A p \in Procs :
       worker[p].at = "reset" /\ "map" \in disk /\ "map" \notin disk'
         => After({"timeout", "overlap"})]_vars

\* A cleanup that found nothing to complain about has removed what its mode says.
\* An initdb that outlived its worker may write again behind its back.
CleanupLeavesNothing ==
  \A p \in Procs :
    worker[p].op \in {"wipe", "wipe_full"} /\ worker[p].at = "ok" =>
      \/ disk \cap (DataTree \cup IF mode[p] = "Full" THEN InstallTree ELSE {}) = {}
      \/ After({"timeout", "overlap"})

\* When all processes are gone so is the server, unless a process was killed or
\* gave an operation up, and a server never loses its directory, unless a
\* start that was given up brings one up late or processes overlap.
NoStrayServer ==
  /\ (\A p \in Procs : pc[p] \in Over) /\ server # "down"
       => After({"timeout", "kill", "overlap"})
  /\ orphan => After({"timeout", "overlap"})

\* A process that runs alone, and in which nothing fails, succeeds, unless
\* another user has staged the worker of the same source path before
\* (worker_env.rs:116): the original is then used, where nobody cannot execute it.
FailureHasCause ==
  (\E p \in Procs : pc[p] = "failed") => blame # {} \/ StagingDirRefused

\* The staged worker is whole whenever nobody copies it, however many copy it
\* at once; only a process that was killed leaves half a worker, for good.
StagedWorkerWhole ==
  staged = "partial" =>
    (\E p \in Procs : pc[p] = "copy" /\ binary[p] = "staged") \/ After({"kill"})

\* "running a setup operation after a failed or interrupted setup will succeed
\* without manual cleanup" (docs/execplans/data-directory-recovery-logic.md:24):
\* when Setup reports success a server can be started.
SetupRecovers ==
  \A p \in Procs : worker[p].op = "setup" /\ worker[p].at = "ok" =>
    Startable \/ After({"overlap"})

-----------------------------------------------------------------------------
(* The inductive strengthenings the proofs use.                            *)

SetupPlaces == {"check", "exists", "valid", "reset", "setup", "init", "initdb"}
Dropping == {"drop", "dropping"}
Ended == Dropping \cup {"ok", "err"}
Wipes == {"wipe", "wipe_full"}
Cleanups == Wipes \cup {"cleanup", "cleanup_full"}

\* A process runs a worker only in a call, for the operation of that call, and each
\* operation has its places.
Shape(p) ==
  LET w == worker[p] IN
  /\ w.op = "none" => w = NoWorker
  /\ w.op # "none" => pc[p] \in Calls /\ w.op = Op(p)
  /\ w.op = "setup" => w.at \in SetupPlaces \cup Ended
  /\ w.op = "start" => w.at \in SetupPlaces \cup {"status", "launch", "launching"} \cup Ended
  /\ w.op = "stop" => w.at \in {"stop", "stopping"} \cup Ended
  /\ w.op \in {"setup", "start", "stop"} /\ w.at \notin Dropping \cup {"err"} => ~w.bad
  /\ w.op = "start" /\ w.at \in Dropping => w.bad
  /\ w.op \in {"cleanup", "wipe"} => w.at \in {"rm_data", "ok", "err"}
  /\ w.op \in {"cleanup_full", "wipe_full"} => w.at \in {"rm_data", "rm_install", "ok", "err"}
  /\ w.op \in Cleanups /\ w.at = "ok" => ~w.bad

RootInv == TypeOK /\ \A p \in Procs : Shape(p)

\* One process at a time: only its worker is there, and the initdb of that worker.
Solo == ~After({"timeout", "overlap"})

SoloTenant ==
  Solo =>
    /\ \A p, q \in Procs : Live(p) /\ Live(q) => p = q
    /\ \A p \in Procs : initdb[p] # "none" <=> worker[p].at = "initdb"

\* A server has what it runs on, and nobody is about to take that away.
SoloServer ==
  Solo =>
    /\ ~orphan
    /\ server # "down" => Startable /\ {"pid", "bin"} \subseteq disk
    /\ \A p \in Procs :
         /\ server # "down" => /\ pc[p] \notin {"cleanup", "wipe"} /\ worker[p].at # "reset"
                               /\ initdb[p] \notin Pieces
         /\ worker[p].op = "stop" /\ worker[p].at \in Ended /\ ~worker[p].bad => "pid" \notin disk

\* What a removal has behind it is gone.
SoloRemoval ==
  Solo => \A p \in Procs :
    /\ worker[p].at = "reset" => "map" \notin disk
    /\ worker[p].at = "rm_install" /\ ~worker[p].bad => DataTree \cap disk = {}
    /\ worker[p].op \in Cleanups /\ worker[p].at = "ok" => DataTree \cap disk = {}
    /\ worker[p].op \in {"cleanup_full", "wipe_full"} /\ worker[p].at = "ok"
         => InstallTree \cap disk = {}

\* A process that will still stop the server.
Keeps(p) ==
  \/ pc[p] = "start" /\ worker[p].at \in {"launching", "ok"}
  \/ pc[p] = "ready"
  \/ pc[p] = "stop" /\ worker[p].at \in {"none", "stop", "stopping"}

Unkilled == ~After({"timeout", "kill", "overlap"})

\* A process that got as far as a server can execute the worker that stops it.
ServerKept ==
  Unkilled =>
    /\ \A p \in Procs : /\ pc[p] \in {"start", "ready", "stop"} => CanExecute(p)
                        /\ pc[p] = "setup" /\ worker[p].op # "none" => CanExecute(p)
    /\ server # "down" => \E p \in Procs : Keeps(p)

\* No postmaster was killed: the pid file tells the truth, and a server that an
\* earlier process left is stopped by the value that Setup drops, before Start.
PidHonest ==
  ~After({"timeout", "server_dies", "overlap"}) =>
    /\ "pid" \in disk => server # "down"
    /\ \A p \in Procs :
         /\ pc[p] = "start" /\ worker[p].at \notin {"launching", "ok"} \cup Dropping \cup {"err"}
              => "pid" \notin disk
         /\ worker[p].op = "setup" /\ worker[p].at = "ok" => "pid" \notin disk
         /\ pc[p] = "ready" \/ (worker[p].op = "start" /\ worker[p].at = "ok") => server = "up"

\* What initdb has written before it writes x.
Before(x) == CASE x = "subdirs" -> {}
               [] x = "PG_VERSION" -> {"subdirs"}
               [] x = "conf" -> {"subdirs", "PG_VERSION"}
               [] x = "map" -> {"subdirs", "PG_VERSION", "conf"}
               [] x = "rest" -> {"subdirs", "PG_VERSION", "conf", "map"}

Unhurt == ~After({"timeout", "kill", "remove", "overlap"})

\* Nothing stopped half way: a data directory is empty or whole, except while
\* initdb fills it or a cleanup empties it.
FilesInv ==
  Unhurt =>
    /\ \/ DataContents \cap disk = {} \/ Whole
       \/ \E p \in Procs : initdb[p] \in Pieces \/ worker[p].at = "rm_data"
    /\ \A p \in Procs :
         /\ initdb[p] \in Pieces => "data" \in disk /\ DataContents \cap disk = Before(initdb[p])
         /\ initdb[p] = "ok" => Whole
         /\ worker[p].at # "reset"
         /\ pc[p] = "ready" \/ worker[p].at \in {"status", "launch", "launching"} => Whole
         /\ worker[p].op \in {"setup", "start"} /\ worker[p].at \in Ended /\ ~worker[p].bad => Whole
         /\ pc[p] \in {"data", "own_data", "xdg"} => "install" \in disk /\ "install" \notin rootOwned
         /\ Live(p) /\ pc[p] \notin {"stage", "copy", "dirs", "own", "data", "own_data"}
              => rootOwned = {}

Faultless == blame = {} /\ ~StagingDirRefused

\* Nothing failed at all: everything is where the next step looks for it.
NothingWrong(p) ==
  /\ pc[p] # "failed" /\ initdb[p] # "failed" /\ worker[p].at # "err" /\ ~worker[p].bad
  /\ Live(p) /\ pc[p] \notin {"stage", "copy"} => CanExecute(p)
  /\ pc[p] = "own" => "install" \in disk
  /\ pc[p] = "own_data" => "data" \in disk
  /\ pc[p] = "chown" => seen[p] \subseteq disk
  /\ worker[p].at = "valid" => "data" \in disk
  /\ worker[p].at \in {"init", "initdb", "status", "launch"} => "bin" \in disk
  /\ initdb[p] = "check" => DataContents \cap disk = {}
  /\ worker[p].at = "launching" => server \in {"starting", "up"}

CauseInv ==
  /\ StagingDirRefused => \A p \in Procs : pc[p] # "copy"
  /\ Faultless =>
       /\ "PG_VERSION" \in disk => "bin" \in disk
       /\ \A p \in Procs : NothingWrong(p)

-----------------------------------------------------------------------------
\* The thread of a test process goes on: through its own steps, through the
\* removals it does itself, and past a worker that takes too long.  Nothing is
\* assumed of the worker, initdb or the postmaster, which may hang.
Fairness ==
  \A p \in Procs :
    WF_vars(Step(p) \/ Timeout(p) \/ (pc[p] = "wipe" /\ Work(p)))

FairSpec == Spec /\ Fairness

\* All processes come to their end, whatever their workers do.
EveryProcessEnds == <>(\A p \in Procs : pc[p] \in Over)
=============================================================================
