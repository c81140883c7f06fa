------------------------------ MODULE PgWorker ------------------------------
(***************************************************************************)
(* The pg_worker program (src/bin/pg_worker.rs): Setup, Start, Stop,       *)
(* Cleanup and CleanupFull as the sequences of file-system steps they are. *)
(* Workers of several processes may be at work in the same directories,    *)
(* and nothing but these steps coordinates them.                           *)
(***************************************************************************)
EXTENDS DataDirectory

VARIABLE worker   \* the worker each process runs: its operation, where it is,
                  \* and whether a removal failed

NoWorker == [op |-> "none", at |-> "none", bad |-> FALSE]

\* "wipe" is cleanup_in_process: the same removals, done by the test process.
Ops == {"setup", "start", "stop", "cleanup", "cleanup_full", "wipe", "wipe_full"}

Running == {"check", "exists", "valid", "reset", "setup", "init", "initdb",
            "status", "launch", "launching", "stop", "stopping",
            "drop", "dropping", "rm_data", "rm_install"}

\* run_worker: what each operation begins with.
Entry(op) == CASE op \in {"setup", "start"} -> "check"
               [] op = "stop" -> "stop"
               [] OTHER -> "rm_data"

Goto(p, at) == worker' = [worker EXCEPT ![p].at = at]

\* run_setup_op, run_start_op and run_stop_op end with the Drop of their PostgreSQL
\* value, whatever they return; only a start that succeeds forgets it.
Ends(p, well) == worker' = [worker EXCEPT ![p].at = "drop", ![p].bad = ~well]

\* ensure_postgres_started goes on where run_postgres_setup returns.
SetupReturns(p) ==
  IF worker[p].op = "setup" THEN Ends(p, TRUE) ELSE Goto(p, "status")

-----------------------------------------------------------------------------
(* Setup *)

\* PostgreSQL::status(): postmaster.pid, then postgresql.conf, then the binaries.
Installed == {"pid", "conf", "bin"} \cap disk # {}

\* "Setup complete"
SetupComplete == {"data", "PG_VERSION"} \subseteq disk /\ Installed

CheckSetup(p) ==
  /\ worker[p].at = "check"
  /\ IF SetupComplete THEN SetupReturns(p) ELSE Goto(p, "exists")
  /\ UNCHANGED <<disks, initdb, blame>>

\* recover_invalid_data_dir: a directory that is not there needs no recovery.
DataDirExists(p) ==
  /\ worker[p].at = "exists"
  /\ Goto(p, IF "data" \in disk THEN "valid" ELSE "setup")
  /\ UNCHANGED <<disks, initdb, blame>>

\* Mutant: anything that is not a complete directory is reset.
ValidateForgettingMarker(p) ==
  /\ worker[p].at = "valid"
  /\ IF "data" \notin disk THEN Ends(p, FALSE) ELSE Goto(p, "reset")
  /\ UNCHANGED <<disks, initdb, blame>>

\* One without the marker is reset, unless it is empty; one that went away
\* meanwhile cannot be read.
Validate(p) ==
  /\ worker[p].at = "valid"
  /\ IF "data" \notin disk THEN Ends(p, FALSE)
     ELSE Goto(p, IF "map" \in disk \/ DataContents \cap disk = {} THEN "setup"
                  ELSE "reset")
  /\ UNCHANGED <<disks, initdb, blame>>

\* PostgreSQL::setup: install unless the binaries are there,
Install(p) ==
  /\ worker[p].at = "setup"
  /\ \/ "bin" \in disk /\ Goto(p, "init") /\ UNCHANGED <<disks, blame>>
     \/ /\ "bin" \notin disk /\ "install" \notin rootOwned
        /\ Goto(p, "init") /\ Add({"install", "bin"}) /\ UNCHANGED blame
     \/ /\ "bin" \notin disk
        /\ IF "install" \in rootOwned THEN UNCHANGED blame ELSE Fault("tool")
        /\ Ends(p, FALSE) /\ UNCHANGED disks
  /\ UNCHANGED initdb

\* and run initdb unless there is a configuration file.
StartInitdb(p) ==
  /\ worker[p].at = "init"
  /\ \/ "conf" \in disk /\ SetupReturns(p) /\ UNCHANGED initdb
     \/ /\ "conf" \notin disk /\ "bin" \in disk
        /\ Goto(p, "initdb") /\ InitdbTo(p, "check")
     \/ {"conf", "bin"} \cap disk = {} /\ Ends(p, FALSE) /\ UNCHANGED initdb
  /\ UNCHANGED <<disks, blame>>

\* Mutant: the error of initdb is lost.
InitdbReturnsUnchecked(p) ==
  /\ worker[p].at = "initdb"
  /\ initdb[p] \in {"ok", "failed"}
  /\ SetupReturns(p)
  /\ InitdbTo(p, "none")
  /\ UNCHANGED <<disks, blame>>

InitdbReturns(p) ==
  /\ worker[p].at = "initdb"
  /\ \/ initdb[p] = "ok" /\ SetupReturns(p)
     \/ initdb[p] = "failed" /\ Ends(p, FALSE)
  /\ InitdbTo(p, "none")
  /\ UNCHANGED <<disks, blame>>

-----------------------------------------------------------------------------
(* Start and Stop *)

\* start_if_not_started: the status is Started whenever there is a pid file.
CheckStatus(p) ==
  /\ worker[p].at = "status"
  /\ Goto(p, IF "pid" \in disk THEN "ok" ELSE "launch")
  /\ UNCHANGED <<disks, initdb, blame>>

\* pg_ctl start
StartServer(p) ==
  /\ worker[p].at = "launch"
  /\ IF "bin" \in disk /\ Startable /\ server = "down"
     THEN Launch /\ Goto(p, "launching")
     ELSE Ends(p, FALSE) /\ UNCHANGED disks
  /\ UNCHANGED <<initdb, blame>>

\* pg_ctl waits.
ServerStarted(p) ==
  /\ worker[p].at = "launching"
  /\ \/ server = "up" /\ Goto(p, "ok")
     \/ server = "down" /\ Ends(p, FALSE)
  /\ UNCHANGED <<disks, initdb, blame>>

\* Status::Started is the pid file; pg_ctl cannot signal a process that is gone.
CanStop == "pid" \in disk /\ server # "down" /\ "bin" \in disk

SignalServer == server' = "stopping" /\ UNCHANGED <<disk, rootOwned, orphan>>

\* execute_stop: no pid file is as good as stopped.
StopServer(p) ==
  /\ worker[p].at = "stop"
  /\ IF CanStop THEN SignalServer /\ Goto(p, "stopping")
                ELSE Ends(p, "pid" \notin disk) /\ UNCHANGED disks
  /\ UNCHANGED <<initdb, blame>>

ServerStopped(p) ==
  /\ worker[p].at = "stopping"
  /\ "pid" \notin disk \/ server = "down"
  /\ Ends(p, "pid" \notin disk)
  /\ UNCHANGED <<disks, initdb, blame>>

Outcome(p) == Goto(p, IF worker[p].bad THEN "err" ELSE "ok")

\* Mutant: the value is forgotten, as after a start.
ForgetValue(p) ==
  /\ worker[p].at = "drop"
  /\ Outcome(p)
  /\ UNCHANGED <<disks, initdb, blame>>

\* Drop for PostgreSQL: a server that has its pid file is stopped, and the errors
\* of that are ignored.
DropValue(p) ==
  /\ worker[p].at = "drop"
  /\ IF CanStop THEN SignalServer /\ Goto(p, "dropping")
                ELSE Outcome(p) /\ UNCHANGED disks
  /\ UNCHANGED <<initdb, blame>>

ValueDropped(p) ==
  /\ worker[p].at = "dropping"
  /\ "pid" \notin disk \/ server = "down"
  /\ Outcome(p)
  /\ UNCHANGED <<disks, initdb, blame>>

\* A tool outlasts the worker's patience, and goes on without it.
WorkerGivesUp(p) ==
  /\ \/ worker[p].at \in {"initdb", "launching", "stopping"} /\ Ends(p, FALSE)
     \/ worker[p].at = "dropping" /\ Outcome(p)
  /\ Fault("timeout")
  /\ UNCHANGED <<disks, initdb>>

-----------------------------------------------------------------------------
(* Removals: reset_data_dir and execute_cleanup *)

Removing == {"reset", "rm_data", "rm_install"}

Tree(p) == IF worker[p].at = "rm_install" THEN InstallTree ELSE DataTree
Top(p) == IF worker[p].at = "rm_install" THEN "install" ELSE "data"

\* Where a removal leads: a failed reset ends the Setup, a failed cleanup goes
\* on to the next directory and is reported at the end.
Removed(p, well) ==
  LET bad == worker[p].bad \/ ~well
      w == worker[p]
  IN worker' = [worker EXCEPT ![p] =
       [w EXCEPT !.bad = bad,
                 !.at = CASE w.at = "reset" -> (IF well THEN "setup" ELSE "drop")
                          [] w.at = "rm_data" /\ w.op \in {"cleanup_full", "wipe_full"}
                               -> "rm_install"
                          [] OTHER -> (IF bad THEN "err" ELSE "ok")]]

\* A worker is nobody, and changes no directory of root's.
Allowed(p) == worker[p].op \in {"wipe", "wipe_full"} \/ Top(p) \notin rootOwned

\* The entries go one by one, in the order the directory lists them.
RemoveEntry(p) ==
  /\ worker[p].at \in Removing /\ Allowed(p)
  /\ \E x \in (Tree(p) \ {Top(p)}) \cap disk : Lose({x})
  /\ UNCHANGED <<worker, initdb, blame>>

\* Mutant: a removal is over when the top entry was looked at.
RemoveTopOnly(p) ==
  /\ worker[p].at \in Removing
  /\ Removed(p, TRUE)
  /\ UNCHANGED <<disks, initdb, blame>>

RemoveTop(p) ==
  /\ worker[p].at \in Removing
  /\ Tree(p) \cap disk \subseteq {Top(p)}
  /\ Lose({Top(p)})
  /\ Removed(p, TRUE)
  /\ UNCHANGED <<initdb, blame>>

\* Somebody else removes or writes in the same directory.
Disturbed(p) ==
  \/ \E q \in Procs : initdb[q] \in InitdbRunning
  \/ \E q \in Procs \ {p} : worker[q].at \in Removing

RemoveFails(p) ==
  /\ worker[p].at \in Removing
  /\ Tree(p) \cap disk # {}
  /\ IF Disturbed(p) \/ ~Allowed(p) THEN UNCHANGED blame ELSE Fault("remove")
  /\ Removed(p, FALSE)
  /\ UNCHANGED <<disks, initdb>>

\* An entry that somebody else removed first ends the walk, as NotFound, and
\* NotFound counts as removed.
RemoveStopsShort(p) ==
  /\ worker[p].at \in Removing
  /\ \E q \in Procs \ {p} : worker[q].at \in Removing
  /\ Removed(p, TRUE)
  /\ UNCHANGED <<disks, initdb, blame>>

WorkerStep(p) ==
  \/ CheckSetup(p) \/ DataDirExists(p) \/ Validate(p) \/ Install(p)
  \/ StartInitdb(p) \/ InitdbReturns(p)
  \/ CheckStatus(p) \/ StartServer(p) \/ ServerStarted(p)
  \/ StopServer(p) \/ ServerStopped(p) \/ DropValue(p) \/ ValueDropped(p)
  \/ WorkerGivesUp(p)
  \/ RemoveEntry(p) \/ RemoveTop(p) \/ RemoveFails(p) \/ RemoveStopsShort(p)
=============================================================================
