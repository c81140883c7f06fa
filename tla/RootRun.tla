------------------------------ MODULE RootRun ------------------------------
(***************************************************************************)
(* Test processes that run as root, from the staging of the worker binary  *)
(* to the cleanup (src/test_support/worker_env.rs, src/bootstrap/,         *)
(* src/privileges.rs, src/cluster/worker_invoker/, src/worker_process/).   *)
(* Each process creates one cluster.  ENV_LOCK keeps the threads of one    *)
(* process apart; between processes there is no lock, and all of them use  *)
(* the same directories, so they may run one after the other or overlap.   *)
(***************************************************************************)
EXTENDS PgWorker

CONSTANT Plans   \* the cleanup modes the processes may have

Modes == {"DataOnly", "Full", "None"}   \* CleanupMode

ASSUME RunAssumption == Together \subseteq SUBSET Causes /\ Plans \subseteq [Procs -> Modes]

VARIABLES
  pc,       \* where each process is
  mode,     \* its cleanup mode
  staged,   \* the copy of pg_worker in the temporary directory
  binary,   \* the pg_worker a process uses: the copy, or the original
  seen      \* entries ensure_tree_owned_by_user has listed and not yet chowned

parent == <<pc, mode, staged, binary, seen>>
vars == <<disks, initdb, blame, worker, parent>>

Calls == {"setup", "start", "stop", "cleanup", "wipe"}
Over == {"done", "failed", "killed"}
PCs == {"new", "stage", "copy", "dirs", "own", "data", "own_data", "xdg", "list", "chown", "ready"}
         \cup Calls \cup Over

Live(p) == pc[p] \notin {"new"} \cup Over

To(p, x) == pc' = [pc EXCEPT ![p] = x]

Init ==
  /\ disk = {} /\ rootOwned = {} /\ server = "down" /\ orphan = FALSE
  /\ initdb = [p \in Procs |-> "none"]
  /\ blame = {}
  /\ worker = [p \in Procs |-> NoWorker]
  /\ pc = [p \in Procs |-> "new"]
  /\ mode \in Plans
  /\ staged \in {"absent", "foreign"}
  /\ binary = [p \in Procs |-> "original"]
  /\ seen = [p \in Procs |-> {}]

\* A process that begins while another one is at work.
Begin(p) ==
  /\ pc[p] = "new"
  /\ To(p, "stage")
  /\ blame' = IF \E q \in Procs : Live(q) THEN blame \cup {"overlap"} ELSE blame
  /\ MayHappen(blame')
  /\ UNCHANGED <<disks, initdb, worker, mode, staged, binary, seen>>

-----------------------------------------------------------------------------
(* worker_env.rs: a copy of the worker that nobody may execute             *)

Unstaged == <<disks, initdb, blame, worker, mode, seen>>

\* A copy that is as new as the original is used as it is, finished or not.
ShouldRestage == staged = "absent"

\* create_staging_directory_secure: a directory another user made, by running
\* the same tests before, is refused.
StagingDirRefused == staged = "foreign"

\* A process that cannot stage the worker uses the original.
Stage(p) ==
  /\ pc[p] = "stage"
  /\ \/ StagingDirRefused /\ To(p, "dirs") /\ UNCHANGED binary
     \/ ~StagingDirRefused /\ ShouldRestage /\ To(p, "copy") /\ UNCHANGED binary
     \/ /\ ~StagingDirRefused /\ ~ShouldRestage
        /\ To(p, "dirs") /\ binary' = [binary EXCEPT ![p] = "staged"]
  /\ UNCHANGED <<Unstaged, staged>>

\* fs::copy truncates the file, gives it the mode of the original and then
\* writes it.  It cannot open a program that somebody executes.
BeginCopy(p) ==
  /\ pc[p] = "copy" /\ binary[p] = "original"
  /\ IF \E q \in Procs : binary[q] = "staged" /\ worker[q].op \notin {"none", "wipe", "wipe_full"}
     THEN To(p, "dirs") /\ UNCHANGED <<staged, binary>>
     ELSE /\ staged' = "partial"
          /\ binary' = [binary EXCEPT ![p] = "staged"]
          /\ UNCHANGED pc
  /\ UNCHANGED Unstaged

\* Mutant: the path is handed out before the copy is complete.
EndCopyEarly(p) ==
  /\ pc[p] = "copy" /\ binary[p] = "staged"
  /\ To(p, "dirs")
  /\ UNCHANGED <<Unstaged, staged, binary>>

EndCopy(p) ==
  /\ pc[p] = "copy" /\ binary[p] = "staged"
  /\ staged' = IF \E q \in Procs \ {p} : pc[q] = "copy" /\ binary[q] = "staged"
               THEN "partial" ELSE "whole"
  /\ To(p, "dirs")
  /\ UNCHANGED <<Unstaged, binary>>

-----------------------------------------------------------------------------
(* bootstrap_with_root                                                      *)

Unprepared == <<initdb, worker, blame, mode, staged, binary>>

\* ensure_dir_exists: what is missing is root's.
MakeAsRoot(dirs) ==
  /\ disk' = disk \cup dirs
  /\ rootOwned' = rootOwned \cup ((dirs \cap {"install", "data"}) \ disk)

\* ensure_dir_for_user makes a directory that is missing, as root,
MakeDir(p, from, dir, to) ==
  /\ pc[p] = from
  /\ MakeAsRoot({dir})
  /\ To(p, to)
  /\ UNCHANGED <<server, orphan, seen, Unprepared>>

\* and gives it to nobody.
OwnDir(p, from, dir, to) ==
  /\ pc[p] = from
  /\ IF dir \in disk THEN rootOwned' = rootOwned \ {dir} /\ To(p, to)
                      ELSE To(p, "failed") /\ UNCHANGED rootOwned
  /\ UNCHANGED <<disk, server, orphan, seen, Unprepared>>

\* Mutant: the directories stay root's.
EnsureDirsForgotten(p) ==
  \/ MakeDir(p, "dirs", "install", "data") \/ MakeDir(p, "data", "data", "xdg")

\* The installation directory comes first.
EnsureDirs(p) ==
  \/ MakeDir(p, "dirs", "install", "own") \/ OwnDir(p, "own", "install", "data")
  \/ MakeDir(p, "data", "data", "own_data") \/ OwnDir(p, "own_data", "data", "xdg")

\* prepare_xdg_dirs makes the cache and run directories, and with them an
\* installation directory that went away meanwhile.
PrepareXdg(p) ==
  /\ pc[p] = "xdg"
  /\ MakeAsRoot({"install", "xdg"})
  /\ To(p, "list")
  /\ UNCHANGED <<server, orphan, seen, Unprepared>>

\* ensure_tree_owned_by_user lists what is in the trees; one that has gone is
\* skipped,
ListTree(p) ==
  /\ pc[p] = "list"
  /\ seen' = [seen EXCEPT ![p] = disk \ {"install", "data"}]
  /\ To(p, "chown")
  /\ UNCHANGED <<disks, Unprepared>>

\* and chowns each entry; one that has gone is an error.
ChownTree(p) ==
  /\ pc[p] = "chown"
  /\ To(p, IF seen[p] \subseteq disk THEN "setup" ELSE "failed")
  /\ seen' = [seen EXCEPT ![p] = {}]
  /\ UNCHANGED <<disks, Unprepared>>

-----------------------------------------------------------------------------
(* Calls of the worker                                                      *)

\* Mutant: the cleanup mode is passed where the operation belongs.
OpByMode(p) == IF pc[p] \in {"cleanup", "wipe"} THEN mode[p] ELSE pc[p]

Op(p) == CASE pc[p] = "cleanup" -> (IF mode[p] = "Full" THEN "cleanup_full" ELSE "cleanup")
           [] pc[p] = "wipe" -> (IF mode[p] = "Full" THEN "wipe_full" ELSE "wipe")
           [] OTHER -> pc[p]

\* What follows a call.  A stop that fails ends the shutdown; the results of
\* the cleanups are only logged.
AfterOk(p) == CASE pc[p] = "setup" -> "start"
                [] pc[p] = "start" -> "ready"
                [] pc[p] = "stop" -> (IF mode[p] = "None" THEN "done" ELSE "cleanup")
                [] pc[p] = "cleanup" -> "wipe"
                [] OTHER -> "done"

AfterErr(p) == CASE pc[p] = "cleanup" -> "wipe"
                 [] pc[p] = "wipe" -> "done"
                 [] OTHER -> "failed"

\* Executing a copy that is being written, or was not finished, fails; so does
\* the original, which is in a directory nobody cannot read.
CanExecute(p) == binary[p] = "staged" /\ staged = "whole"

Spawn(p) ==
  /\ pc[p] \in Calls /\ worker[p] = NoWorker
  /\ \/ /\ pc[p] = "wipe" \/ CanExecute(p)
        /\ worker' = [worker EXCEPT ![p] =
                        [op |-> Op(p), at |-> Entry(Op(p)), bad |-> FALSE]]
        /\ UNCHANGED pc
     \/ /\ pc[p] # "wipe" /\ ~CanExecute(p)
        /\ To(p, AfterErr(p))
        /\ UNCHANGED worker
  /\ UNCHANGED <<disks, initdb, blame, mode, staged, binary, seen>>

\* handle_exit
Return(p) ==
  /\ worker[p].at \in {"ok", "err"}
  /\ To(p, IF worker[p].at = "ok" THEN AfterOk(p) ELSE AfterErr(p))
  /\ worker' = [worker EXCEPT ![p] = NoWorker]
  /\ UNCHANGED <<disks, initdb, blame, mode, staged, binary, seen>>

\* Mutant: the worker is not killed, and wait_with_output waits for it.
TimeoutWithoutKill(p) ==
  /\ pc[p] \in Calls \ {"wipe"} /\ worker[p].at \in Running
  /\ Fault("timeout")
  /\ UNCHANGED <<disks, initdb, worker, parent>>

\* wait_timeout runs out: the worker is killed and reaped, and what it started
\* is not.
Timeout(p) ==
  /\ pc[p] \in Calls \ {"wipe"} /\ worker[p].at \in Running
  /\ Fault("timeout")
  /\ To(p, AfterErr(p))
  /\ worker' = [worker EXCEPT ![p] = NoWorker]
  /\ UNCHANGED <<disks, initdb, mode, staged, binary, seen>>

\* Mutant: a cluster that keeps its directories is not stopped either.
KeepServer(p) ==
  /\ pc[p] = "ready"
  /\ To(p, IF mode[p] = "None" THEN "done" ELSE "stop")
  /\ UNCHANGED <<disks, initdb, blame, worker, mode, staged, binary, seen>>

TestEnds(p) ==
  /\ pc[p] = "ready"
  /\ To(p, "stop")
  /\ UNCHANGED <<disks, initdb, blame, worker, mode, staged, binary, seen>>

\* The process group is killed: the test, its worker and the worker's initdb.
\* The postmaster has a session of its own.
Kill(p) ==
  /\ Live(p)
  /\ Fault("kill")
  /\ To(p, "killed")
  /\ worker' = [worker EXCEPT ![p] = NoWorker]
  /\ initdb' = [initdb EXCEPT ![p] = "none"]
  /\ seen' = [seen EXCEPT ![p] = {}]
  /\ UNCHANGED <<disks, mode, staged, binary>>

-----------------------------------------------------------------------------
Work(p) == WorkerStep(p) /\ UNCHANGED parent

Step(p) ==
  \/ Begin(p) \/ Stage(p) \/ BeginCopy(p) \/ EndCopy(p)
  \/ EnsureDirs(p) \/ PrepareXdg(p) \/ ListTree(p) \/ ChownTree(p)
  \/ Spawn(p) \/ Return(p) \/ TestEnds(p)

AllOver == (\A p \in Procs : pc[p] \in Over) /\ UNCHANGED vars

Next ==
  \/ \E p \in Procs : Step(p) \/ Work(p) \/ Timeout(p) \/ Kill(p)
  \/ Tools /\ UNCHANGED <<worker, parent>>
  \/ AllOver

Spec == Init /\ [][Next]_vars
=============================================================================
