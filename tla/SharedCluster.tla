--------------------------- MODULE SharedCluster ---------------------------
(***************************************************************************)
(* The tests of one process and the clusters they share                    *)
(* (src/test_support/shared_singleton.rs, src/test_support/fixtures.rs,    *)
(* src/cluster/shutdown_hook.rs): the two singletons, each behind a mutex  *)
(* of its own; ENV_LOCK, which a shared cluster's thread keeps until it    *)
(* ends; test_cluster(), the fixture of a test that has a cluster to       *)
(* itself; and the hook that stops the server when the process exits.  All *)
(* clusters of a process have the same default directories.                *)
(***************************************************************************)
EXTENDS TemplateDatabases

VARIABLES
  root,        \* the process is privileged: its servers are started by pg_worker
  slot,        \* each singleton: "none" (uninitialised), "ready", "failed"
  slotLock,    \* the thread that holds its mutex
  envLock,     \* the thread that holds ENV_LOCK
  scopes,      \* how many scopes each thread has entered and not left
  workerVar,   \* PG_EMBEDDED_WORKER is set
  guard,       \* the worker guard of each thread: what it restores, or "none"
  pc,          \* where each thread is
  calls,       \* the clusters a test has still to ask for
  own,         \* the test has a cluster to itself
  data,        \* what is in the data directory: "absent", "partial", "whole"
  late,        \* what was given up and goes on: "setup", "start"
  hook,        \* SHUTDOWN_STATE is filled and the exit handler registered
  exit         \* how far the process is with its exit

locks == <<slotLock, envLock, scopes, workerVar, guard>>
tests == <<pc, calls, own>>
dbs == <<test, server, serves, db, shard, work, blame>>
files == <<data, late>>
vars == <<dbs, files, root, slot, locks, tests, hook, exit>>

Init ==
  /\ DbInit
  /\ root \in BOOLEAN
  /\ slot = [k \in Kinds |-> "none"]
  /\ slotLock = [k \in Kinds |-> None]
  /\ envLock = None
  /\ scopes = [t \in Threads |-> 0]
  /\ workerVar = FALSE
  /\ guard = [t \in Threads |-> "none"]
  /\ pc = [t \in Threads |-> IF test[t].calls = << >> THEN "over" ELSE "call"]
  /\ calls = [t \in Threads |-> test[t].calls]
  /\ own = [t \in Threads |-> FALSE]
  /\ data = "absent" /\ late = {}
  /\ hook = FALSE
  /\ exit = "no"

To(t, x) == pc' = [pc EXCEPT ![t] = x]
Kind(t) == Head(calls[t])
Served(t) == calls' = [calls EXCEPT ![t] = Tail(@)] /\ To(t, "call")

\* A server comes up, for these clusters; or it goes, and its connections with it.
Up(clusters) == server' = "up" /\ serves' = clusters /\ UNCHANGED conns
Down(how) == server' = how /\ serves' = {} /\ conns' = [n \in Names |-> {}]

-----------------------------------------------------------------------------
(* Asking for a cluster *)

\* A test asks for its clusters, then works in them, then ends.
Call(t) ==
  /\ pc[t] = "call"
  /\ IF calls[t] # << >>
     THEN To(t, IF Kind(t) = "own" THEN "var" ELSE "slot") /\ UNCHANGED <<building, at>>
     ELSE IF test[t].template # None
          THEN /\ To(t, "db") /\ Goto(t, "ensure")
               /\ building' = [building EXCEPT ![t] = <<test[t].template>>]
          ELSE To(t, "close") /\ UNCHANGED <<building, at>>
  /\ UNCHANGED <<test, server, serves, db, shard, conns, shardLock, blame, files,
                 root, slot, locks, calls, own, hook, exit>>

\* Mutant: the mutex is not held while the cluster starts.
TakeSlotBriefly(t) ==
  /\ pc[t] = "slot" /\ slotLock[Kind(t)] = None
  /\ CASE slot[Kind(t)] = "none" -> To(t, "var") /\ UNCHANGED calls
       [] slot[Kind(t)] = "ready" -> Served(t)
       [] slot[Kind(t)] = "failed" -> To(t, "close") /\ UNCHANGED calls
  /\ UNCHANGED <<dbs, files, root, slot, locks, own, hook, exit>>

\* The mutex of the singleton, held while the cluster starts.  A failure is
\* for ever: the fixture panics, and so does every later one.
TakeSlot(t) ==
  /\ pc[t] = "slot" /\ slotLock[Kind(t)] = None
  /\ CASE slot[Kind(t)] = "none" ->
            /\ slotLock' = [slotLock EXCEPT ![Kind(t)] = t]
            /\ To(t, "var") /\ UNCHANGED calls
       [] slot[Kind(t)] = "ready" -> Served(t) /\ UNCHANGED slotLock
       [] slot[Kind(t)] = "failed" -> To(t, "close") /\ UNCHANGED <<calls, slotLock>>
  /\ UNCHANGED <<dbs, files, root, slot, envLock, scopes, workerVar, guard, own, hook, exit>>

\* ensure_worker_env looks for the variable before it has ENV_LOCK.
LookForWorker(t) ==
  /\ pc[t] = "var"
  /\ To(t, IF root /\ ~workerVar THEN "worker" ELSE "boot")
  /\ UNCHANGED <<dbs, files, root, slot, locks, calls, own, hook, exit>>

\* ScopedEnv: the outermost scope of a thread takes ENV_LOCK.
EnterScope(t) ==
  /\ envLock \in {None, t}
  /\ envLock' = t
  /\ scopes' = [scopes EXCEPT ![t] = @ + 1]

SetWorker(t) ==
  /\ pc[t] = "worker"
  /\ EnterScope(t)
  /\ guard' = [guard EXCEPT ![t] = IF workerVar THEN "set" ELSE "unset"]
  /\ workerVar' = TRUE
  /\ To(t, "boot")
  /\ UNCHANGED <<dbs, files, root, slot, slotLock, calls, own, hook, exit>>

\* t leaves n scopes, and with the last of them ENV_LOCK.
LeaveScopes(t, n) ==
  /\ scopes' = [scopes EXCEPT ![t] = @ - n]
  /\ envLock' = IF envLock = t /\ scopes[t] = n THEN None ELSE envLock

DropWorkerGuard(t) ==
  /\ workerVar' = IF guard[t] = "none" THEN workerVar ELSE guard[t] = "set"
  /\ guard' = [guard EXCEPT ![t] = "none"]

DropGuards(t) ==
  LET guarded == guard[t] # "none" /\ ~own[t] IN
  /\ LeaveScopes(t, (IF guarded THEN 1 ELSE 0) + (IF pc[t] \in {"setup", "start"} THEN 1 ELSE 0))
  /\ IF guarded THEN DropWorkerGuard(t) ELSE UNCHANGED <<workerVar, guard>>

\* Mutant: the mutex of the singleton stays taken.
FailLocked(t) ==
  /\ DropGuards(t)
  /\ slot' = [k \in Kinds |-> IF k = Kind(t) THEN "failed" ELSE slot[k]]
  /\ To(t, "close") /\ UNCHANGED slotLock

\* No cluster: the guards are dropped, and a singleton remembers the failure.
Fail(t) ==
  /\ DropGuards(t)
  /\ slot' = [k \in Kinds |-> IF k = Kind(t) THEN "failed" ELSE slot[k]]
  /\ slotLock' = [k \in Kinds |-> IF k = Kind(t) THEN None ELSE slotLock[k]]
  /\ To(t, "close")

\* bootstrap_for_tests reads the environment before new_split has ENV_LOCK.
Bootstrap(t) ==
  /\ pc[t] = "boot"
  /\ IF root /\ ~workerVar
     THEN Fail(t)
     ELSE To(t, "sandbox") /\ UNCHANGED <<slot, locks>>
  /\ UNCHANGED <<dbs, files, root, calls, own, hook, exit>>

ApplySandbox(t) ==
  /\ pc[t] = "sandbox"
  /\ EnterScope(t)
  /\ To(t, "setup")
  /\ UNCHANGED <<dbs, files, root, slot, slotLock, workerVar, guard, calls, own, hook, exit>>

\* Drop of a PostgreSQL value stops the server in the directory, whoever uses it;
StopValue == IF server = "up" THEN Down("down") ELSE UNCHANGED <<server, serves, conns>>

\* unless it is the worker's, it then removes the directory.
RemoveData ==
  /\ Down("down")
  /\ data' = "absent"
  /\ db' = [d \in DOMAIN db |-> "absent"]

\* A setup that succeeds leaves what looks initialised as it is.
SetUp == data' \in IF data = "partial" THEN {"partial", "whole"} ELSE {"whole"}
SetUpInPart == data' \in IF data = "whole" THEN {"whole"} ELSE {"absent", "partial"}

\* The Setup of a cluster that is to be started: the worker drops a value of its own.
SetupServer(t) ==
  /\ pc[t] = "setup"
  /\ SetUp
  /\ IF root THEN StopValue ELSE UNCHANGED <<server, serves, conns>>
  /\ To(t, "start")
  /\ UNCHANGED <<test, db, shard, shardLock, building, at, blame, late, root, slot, locks,
                 calls, own, hook, exit>>

\* The server comes up with a port of its own.  The worker takes a pid file for a
\* started server, and its port for the cluster's.
StartServer(t) ==
  /\ pc[t] = "start"
  /\ IF root THEN SetUp ELSE UNCHANGED data
  /\ IF root /\ server # "down"
     THEN /\ serves' = IF server = "up" THEN serves \cup {ClusterOf(t, Kind(t))} ELSE serves
          /\ UNCHANGED <<server, conns>>
     ELSE server # "up" /\ data' = "whole" /\ Up({ClusterOf(t, Kind(t))})
  /\ IF Kind(t) = "own"
     THEN Served(t) /\ own' = [own EXCEPT ![t] = TRUE]
     ELSE To(t, "hook") /\ UNCHANGED <<calls, own>>
  /\ UNCHANGED <<test, db, shard, shardLock, building, at, blame, late, root, slot, locks,
                 hook, exit>>

\* What goes on when an operation is given up.
MayGoOn(t) ==
  (IF data # "whole" /\ (root \/ pc[t] = "setup") THEN {"setup"} ELSE {})
    \cup (IF pc[t] = "start" THEN {"start"} ELSE {})

\* Half a directory may be beyond repair; in process no server starts without a
\* directory, or where one runs.
CannotGoOn(t) ==
  \/ data = "partial"
  \/ ~root /\ pc[t] = "start" /\ (server = "up" \/ data = "absent")

\* Setup, Start or the look-up of the port fails, or is given up.
GoesWrong(t) ==
  \/ CannotGoOn(t) /\ UNCHANGED <<late, blame>>
  \/ Fault("start") /\ UNCHANGED late
  \/ Fault("late") /\ \E op \in MayGoOn(t) : late' = late \cup {op}

\* No cluster is returned.  In process the PostgreSQL value is dropped.  The worker
\* drops its own when it fails, but not when it cannot run or is killed; a server
\* that came up all the same stays.
StartFails(t) ==
  /\ pc[t] \in {"setup", "start"}
  /\ GoesWrong(t)
  /\ \/ ~root /\ RemoveData
     \/ /\ root /\ (SetUp \/ SetUpInPart)
        /\ \/ StopValue \/ UNCHANGED <<server, serves, conns>>
           \/ pc[t] = "start" /\ server = "down" /\ data' = "whole" /\ Up({})
        /\ UNCHANGED db
  /\ Fail(t)
  /\ UNCHANGED <<test, shard, shardLock, building, at, root, calls, own, hook, exit>>

\* The initdb nobody waits for writes the directory, or clears it after a failure of
\* its own, under whatever server runs there by now.
LateSetup ==
  /\ "setup" \in late
  /\ late' \in {late, late \ {"setup"}}
  /\ data' \in {"absent", "partial", "whole"}
  /\ IF data' = data THEN UNCHANGED <<server, serves, conns, db>>
     ELSE Down("down") /\ db' = [d \in DOMAIN db |-> "absent"]
  /\ UNCHANGED <<test, shard, shardLock, building, at, blame, root, slot, locks, tests,
                 hook, exit>>

\* The pg_ctl nobody waits for may bring a server up after all.
LateStart ==
  /\ "start" \in late
  /\ late' = late \ {"start"}
  /\ \/ UNCHANGED <<server, serves, conns>>
     \/ server # "up" /\ data = "whole" /\ Up({})
  /\ UNCHANGED <<test, db, data, shard, shardLock, building, at, blame, root, slot, locks,
                 tests, hook, exit>>

\* Only the first registration counts; all clusters have the same directories.
RegisterHook == hook' = TRUE

\* The hook is registered and the guard forgotten: its scopes stay entered, and
\* what is below them on the thread's stack is not restored any more.
Publish(t) ==
  /\ pc[t] = "hook"
  /\ RegisterHook
  /\ guard' = [guard EXCEPT ![t] = "none"]
  /\ slot' = [slot EXCEPT ![Kind(t)] = "ready"]
  /\ slotLock' = [slotLock EXCEPT ![Kind(t)] = None]
  /\ Served(t)
  /\ UNCHANGED <<dbs, files, root, envLock, scopes, workerVar, own, exit>>

-----------------------------------------------------------------------------
(* Working in it *)

Work(t) ==
  /\ pc[t] = "db"
  /\ DbStep(t)
  /\ UNCHANGED <<test, server, serves, files, shard, root, slot, locks, tests, hook, exit>>

WorkDone(t) ==
  /\ pc[t] = "db" /\ at[t] \in {"finished", "failed"}
  /\ To(t, "close")
  /\ UNCHANGED <<dbs, files, root, slot, locks, calls, own, hook, exit>>

\* The test ends.  A cluster of its own is stopped and its data removed.  To stop a
\* dead server fails; the worker then removes nothing, but a PostgreSQL value is
\* dropped.  With the thread goes ENV_LOCK, whatever scopes it forgot.
Close(t) ==
  /\ pc[t] = "close"
  /\ IF own[t] /\ ~(root /\ server = "dead")
     THEN RemoveData ELSE UNCHANGED <<server, serves, data, db, conns>>
  /\ LeaveScopes(t, scopes[t]) /\ DropWorkerGuard(t)
  /\ To(t, "over")
  /\ UNCHANGED <<test, shard, shardLock, building, at, blame, late, root, slot, slotLock,
                 calls, own, hook, exit>>

ServerDies ==
  /\ server = "up" /\ exit # "gone"
  /\ Fault("die")
  /\ Down("dead")
  /\ UNCHANGED <<test, db, files, shard, shardLock, building, at, root, slot, locks, tests, hook, exit>>

-----------------------------------------------------------------------------
(* The exit of the process *)

Exit(from, to) == exit = from /\ exit' = to

AllOver == \A t \in Threads : pc[t] = "over"

\* The process calls exit() when its tests are over, or before.
Exits ==
  /\ AllOver
  /\ Exit("no", IF hook THEN "pid" ELSE "gone")
  /\ UNCHANGED <<dbs, files, root, slot, locks, tests, hook>>

ExitsEarly ==
  /\ ~AllOver /\ Fault("early_exit")
  /\ Exit("no", IF hook THEN "pid" ELSE "gone")
  /\ UNCHANGED <<test, server, serves, db, files, shard, work, root, slot, locks, tests, hook>>

\* Mutant: the handler cleans up without looking for the server.
ReadPidNever ==
  /\ Exit("pid", "clean")
  /\ UNCHANGED <<dbs, files, root, slot, locks, tests, hook>>

PostmasterRuns == server = "up"

\* shutdown_callback: SIGTERM to the server in the pid file, if it runs.
ReadPid ==
  /\ Exit("pid", IF PostmasterRuns THEN "wait" ELSE "clean")
  /\ UNCHANGED <<dbs, files, root, slot, locks, tests, hook>>

\* SIGTERM lets the server wait for its connections; when the wait is over it is
\* killed.
Stops ==
  /\ Exit("wait", "clean")
  /\ \/ ~PostmasterRuns /\ UNCHANGED <<server, serves, conns>>
     \/ (\A n \in Names : conns[n] = {}) /\ Down("down")
     \/ PostmasterRuns /\ Down("dead")
  /\ UNCHANGED <<test, db, files, shard, shardLock, building, at, blame, root, slot, locks,
                 tests, hook>>

\* A server that came up meanwhile loses its directory.
CleansUp ==
  /\ Exit("clean", "gone")
  /\ data' = "absent" /\ db' = [d \in DOMAIN db |-> "absent"]
  /\ Down(IF server = "up" THEN "up" ELSE "down")
  /\ UNCHANGED <<test, late, shard, shardLock, building, at, blame, root, slot, locks, tests,
                 hook>>

ExitStep == Exits \/ ReadPid \/ Stops \/ CleansUp

-----------------------------------------------------------------------------
Step(t) ==
  /\ exit # "gone"
  /\ \/ Call(t) \/ TakeSlot(t) \/ LookForWorker(t) \/ SetWorker(t) \/ Bootstrap(t)
     \/ ApplySandbox(t) \/ SetupServer(t) \/ StartServer(t) \/ StartFails(t) \/ Publish(t)
     \/ Work(t) \/ WorkDone(t) \/ Close(t)

Gone == exit = "gone" /\ UNCHANGED vars

LateStep == LateSetup \/ LateStart

Next ==
  (\E t \in Threads : Step(t)) \/ LateStep \/ ServerDies \/ ExitsEarly \/ ExitStep \/ Gone

Spec == Init /\ [][Next]_vars
=============================================================================
