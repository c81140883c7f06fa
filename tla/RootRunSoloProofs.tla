------------------------- MODULE RootRunSoloProofs -------------------------
(***************************************************************************)
(* Proofs about root test processes that come one after the other and are  *)
(* given the time they need, for any processes, cleanup modes and the      *)
(* other faults: what the exceptions of the properties leave.              *)
(***************************************************************************)
EXTENDS RootRunProofs

-----------------------------------------------------------------------------
(* Helpers.                                                                *)

\* What happened has happened.
LEMMA BlameGrows ==
  ASSUME [Next]_vars
  PROVE  blame \subseteq blame'
<1>1. ASSUME NEW p \in Procs, Step(p) \/ Timeout(p) \/ Kill(p) PROVE blame \subseteq blame'
  BY <1>1 DEF Step, Begin, Stage, BeginCopy, EndCopy, Unstaged, EnsureDirs, MakeDir, OwnDir,
     PrepareXdg, ListTree, ChownTree, Unprepared, Spawn, Return, TestEnds, Timeout, Kill, Fault
<1>2. ASSUME NEW p \in Procs, Work(p) PROVE blame \subseteq blame'
  BY <1>2 DEF Work, WorkerStep, CheckSetup, DataDirExists, Validate, Install, StartInitdb,
     InitdbReturns, CheckStatus, StartServer, ServerStarted, StopServer, SignalServer,
     ServerStopped, DropValue, ValueDropped, WorkerGivesUp, RemoveEntry, RemoveTop, RemoveFails,
     RemoveStopsShort, Fault
<1>3. ASSUME Tools PROVE blame \subseteq blame'
  BY <1>3 DEF Tools, InitdbCheck, InitdbWrite, InitdbFails, InitdbKilled, ServerUp, ServerFails,
     ServerStops, ServerDies, Fault
<1>4. QED
  BY <1>1, <1>2, <1>3 DEF Next, AllOver, vars

\* The steps of a process leave the other processes alone.
LEMMA OthersStay ==
  ASSUME RootInv, NEW p \in Procs, Step(p) \/ Work(p) \/ Timeout(p) \/ Kill(p)
  PROVE  /\ \A q \in Procs \ {p} : /\ pc'[q] = pc[q] /\ worker'[q] = worker[q]
                                   /\ initdb'[q] = initdb[q] /\ binary'[q] = binary[q]
                                   /\ seen'[q] = seen[q]
         /\ mode' = mode
<1>0. TypeOK
  BY DEF RootInv
<1>1. CASE Step(p)
  <2>1. CASE Begin(p) \/ Stage(p) \/ BeginCopy(p) \/ EndCopy(p)
    BY <1>0, <2>1 DEF TypeOK, Begin, Stage, BeginCopy, EndCopy, Unstaged, To
  <2>2. CASE EnsureDirs(p) \/ PrepareXdg(p) \/ ListTree(p) \/ ChownTree(p)
    BY <1>0, <2>2 DEF TypeOK, EnsureDirs, MakeDir, OwnDir, PrepareXdg, ListTree, ChownTree,
       Unprepared, To
  <2>3. CASE Spawn(p) \/ Return(p) \/ TestEnds(p)
    BY <1>0, <2>3 DEF TypeOK, Spawn, Return, TestEnds, To
  <2>4. QED
    BY <1>1, <2>1, <2>2, <2>3 DEF Step
<1>2. CASE Timeout(p) \/ Kill(p)
  BY <1>0, <1>2 DEF TypeOK, Timeout, Kill, To
<1>3. CASE Work(p)
  <2>1. UNCHANGED <<pc, binary, seen, mode>>
    BY <1>3 DEF Work, parent
  <2>2. \A q \in Procs \ {p} : initdb'[q] = initdb[q]
    BY <1>0, <1>3 DEF TypeOK, Work, WorkerStep, CheckSetup, DataDirExists, Validate, Install,
       StartInitdb, InitdbReturns, CheckStatus, StartServer, ServerStarted, StopServer,
       SignalServer, ServerStopped, DropValue, ValueDropped, WorkerGivesUp, RemoveEntry, RemoveTop,
       RemoveFails, RemoveStopsShort, InitdbTo
  <2>3. \A q \in Procs \ {p} : worker'[q] = worker[q]
    BY <1>0, <1>3 DEF TypeOK, Work, WorkerStep, CheckSetup, DataDirExists, Validate, Install,
       StartInitdb, InitdbReturns, CheckStatus, StartServer, ServerStarted, StopServer,
       SignalServer, ServerStopped, DropValue, ValueDropped, WorkerGivesUp, RemoveEntry, RemoveTop,
       RemoveFails, RemoveStopsShort, Goto, Ends, Outcome, SetupReturns, Removed
  <2>4. QED
    BY <2>1, <2>2, <2>3
<1>4. QED
  BY <1>1, <1>2, <1>3

-----------------------------------------------------------------------------
(* One process at a time.                                                  *)

LEMMA TenantInductive ==
  ASSUME RootInv, SoloTenant, [Next]_vars
  PROVE  SoloTenant'
<1>0. TypeOK
  BY DEF RootInv
<1>1. SUFFICES ASSUME Solo'
      PROVE  /\ \A p, q \in Procs : Live(p)' /\ Live(q)' => p = q
             /\ \A p \in Procs : initdb'[p] # "none" <=> worker'[p].at = "initdb"
  BY DEF SoloTenant
<1>2. Solo /\ "timeout" \notin blame' /\ "overlap" \notin blame'
  BY <1>1, BlameGrows DEF Solo, After
<1>3. /\ \A p, q \in Procs : Live(p) /\ Live(q) => p = q
      /\ \A p \in Procs : initdb[p] # "none" <=> worker[p].at = "initdb"
  BY <1>2 DEF SoloTenant
<1>4. ASSUME NEW p \in Procs, Step(p) \/ Work(p) \/ Timeout(p) \/ Kill(p),
             Live(p)' => Live(p), initdb'[p] # "none" <=> worker'[p].at = "initdb"
      PROVE  /\ \A q, r \in Procs : Live(q)' /\ Live(r)' => q = r
             /\ \A q \in Procs : initdb'[q] # "none" <=> worker'[q].at = "initdb"
  BY <1>3, <1>4, OthersStay DEF Live
<1>5. ASSUME NEW p \in Procs, Step(p)
      PROVE  /\ \A q, r \in Procs : Live(q)' /\ Live(r)' => q = r
             /\ \A q \in Procs : initdb'[q] # "none" <=> worker'[q].at = "initdb"
  <2>1. CASE Begin(p)
    <3>1. \A q \in Procs : ~Live(q)
      BY <1>2, <2>1 DEF Begin
    <3>2. UNCHANGED <<initdb, worker>>
      BY <2>1 DEF Begin
    <3>3. QED
      BY <1>3, <1>5, <3>1, <3>2, OthersStay DEF Live
  <2>2. CASE ~Begin(p)
    <3>1. Live(p)
      BY <1>0, <1>5, <2>2 DEF RootInv, Shape, NoWorker, Live, Over, Calls, Step, Stage, BeginCopy,
         EndCopy, EnsureDirs, MakeDir, OwnDir, PrepareXdg, ListTree, ChownTree, Spawn, Return,
         TestEnds
    <3>2. initdb'[p] # "none" <=> worker'[p].at = "initdb"
      <4>1. CASE Spawn(p)
        BY <1>0, <1>3, <4>1 DEF Spawn, NoWorker, Entry, TypeOK
      <4>2. CASE Return(p)
        BY <1>0, <1>3, <4>2 DEF Return, NoWorker, TypeOK
      <4>3. CASE UNCHANGED <<initdb, worker>>
        BY <1>3, <4>3
      <4>4. QED
        BY <1>5, <2>2, <4>1, <4>2, <4>3 DEF Step, Stage, BeginCopy, EndCopy, Unstaged, EnsureDirs,
           MakeDir, OwnDir, PrepareXdg, ListTree, ChownTree, Unprepared, TestEnds
    <3>3. QED
      BY <1>4, <1>5, <3>1, <3>2
  <2>3. QED
    BY <2>1, <2>2
<1>6. ASSUME NEW p \in Procs, Timeout(p) PROVE FALSE
  BY <1>2, <1>6 DEF Timeout, Fault
<1>7. ASSUME NEW p \in Procs, Kill(p)
      PROVE  /\ \A q, r \in Procs : Live(q)' /\ Live(r)' => q = r
             /\ \A q \in Procs : initdb'[q] # "none" <=> worker'[q].at = "initdb"
  BY <1>0, <1>4, <1>7 DEF Kill, TypeOK, NoWorker
<1>8. ASSUME NEW p \in Procs, Work(p)
      PROVE  /\ \A q, r \in Procs : Live(q)' /\ Live(r)' => q = r
             /\ \A q \in Procs : initdb'[q] # "none" <=> worker'[q].at = "initdb"
  <2>1. Live(p)' => Live(p)
    BY <1>8 DEF Work, parent, Live
  <2>2. initdb'[p] # "none" <=> worker'[p].at = "initdb"
    <3>1. CASE StartInitdb(p) \/ InitdbReturns(p)
      BY <1>0, <1>3, <3>1 DEF StartInitdb, InitdbReturns, SetupReturns, Goto, Ends, Outcome,
         InitdbTo, TypeOK
    <3>2. CASE WorkerGivesUp(p)
      BY <1>2, <3>2 DEF WorkerGivesUp, Fault
    <3>3. CASE \/ CheckSetup(p) \/ DataDirExists(p) \/ Validate(p) \/ Install(p)
               \/ CheckStatus(p) \/ StartServer(p) \/ ServerStarted(p) \/ StopServer(p)
               \/ ServerStopped(p) \/ DropValue(p) \/ ValueDropped(p)
      BY <1>0, <1>3, <3>3 DEF CheckSetup, DataDirExists, Validate, Install, CheckStatus,
         StartServer, ServerStarted, StopServer, SignalServer, ServerStopped, DropValue,
         ValueDropped, SetupReturns, Goto, Ends, Outcome, TypeOK
    <3>4. CASE RemoveEntry(p)
      BY <1>3, <3>4 DEF RemoveEntry
    <3>5. CASE RemoveTop(p) \/ RemoveFails(p) \/ RemoveStopsShort(p)
      BY <1>0, <1>3, <3>5, RemovedEffect DEF RemoveTop, RemoveFails, RemoveStopsShort, Removing
    <3>6. QED
      BY <1>8, <3>1, <3>2, <3>3, <3>4, <3>5 DEF Work, WorkerStep
  <2>3. QED
    BY <1>4, <1>8, <2>1, <2>2
<1>9. CASE Tools /\ UNCHANGED <<worker, parent>>
  <2>1. \A p \in Procs : initdb'[p] = "none" <=> initdb[p] = "none"
    <3>1. CASE initdb' = initdb
      BY <3>1
    <3>2. ASSUME NEW p \in Procs,
       InitdbCheck(p) \/ InitdbWrite(p) \/ InitdbFails(p) \/ InitdbKilled(p)
          PROVE  \A q \in Procs : initdb'[q] = "none" <=> initdb[q] = "none"
      BY <1>0, <3>2, PieceNames DEF InitdbCheck, InitdbWrite, InitdbFails, InitdbKilled, InitdbTo,
         InitdbRunning, TypeOK
    <3>3. QED
      BY <1>9, <3>1, <3>2 DEF Tools, ServerUp, ServerFails, ServerStops, ServerDies
  <2>2. QED
    BY <1>3, <1>9, <2>1 DEF parent, Live
<1>10. CASE UNCHANGED vars
  BY <1>3, <1>10 DEF vars, parent, Live
<1>11. QED
  BY <1>5, <1>6, <1>7, <1>8, <1>9, <1>10 DEF Next, AllOver

LEMMA TenantHolds == Spec => []SoloTenant
<1>1. Init => SoloTenant
  BY DEF Init, SoloTenant, Live, NoWorker
<1>2. QED
  BY <1>1, TenantInductive, RootInvHolds, PTL DEF Spec

\* A process with a worker, or with an initdb, is alive.
LEMMA WorkingIsLive ==
  ASSUME RootInv, NEW p \in Procs, worker[p].at # "none" \/ worker[p].op # "none"
  PROVE  Live(p) /\ pc[p] \in Calls /\ worker[p].op = Op(p) /\ worker[p].op # "none"
<1>1. Shape(p)
  BY DEF RootInv
<1>2. worker[p].op # "none"
  BY <1>1 DEF Shape, NoWorker
<1>3. QED
  BY <1>1, <1>2 DEF Shape, Live, Calls, Over

\* What a worker is at is changed by its own process only.
LEMMA WorkerMoves ==
  ASSUME RootInv, NEW p \in Procs, [Next]_vars, worker'[p] # worker[p]
  PROVE  Spawn(p) \/ Return(p) \/ Timeout(p) \/ Kill(p) \/ WorkerStep(p)
<1>1. ASSUME NEW q \in Procs, Step(q) \/ Work(q) \/ Timeout(q) \/ Kill(q)
      PROVE  Spawn(p) \/ Return(p) \/ Timeout(p) \/ Kill(p) \/ WorkerStep(p)
  <2>1. q = p
    BY <1>1, OthersStay
  <2>2. CASE Step(q)
    BY <2>1, <2>2 DEF Step, Begin, Stage, BeginCopy, EndCopy, Unstaged, EnsureDirs, MakeDir,
       OwnDir, PrepareXdg, ListTree, ChownTree, Unprepared, TestEnds
  <2>3. QED
    BY <1>1, <2>1, <2>2 DEF Work
<1>2. QED
  BY <1>1 DEF Next, AllOver, vars

\* While a process is at work nobody else is, and nobody else begins.
LEMMA OneAtWork ==
  ASSUME RootInv, SoloTenant, Solo, Solo', [Next]_vars, NEW p \in Procs, Live(p)
  PROVE  /\ \A q \in Procs \ {p} : ~Live(q) /\ worker[q] = NoWorker /\ initdb[q] = "none"
         /\ \/ Step(p) \/ Kill(p)
            \/ WorkerStep(p) /\ UNCHANGED parent
            \/ Tools /\ UNCHANGED <<worker, parent>>
            \/ UNCHANGED vars
<1>1. ASSUME NEW q \in Procs \ {p} PROVE ~Live(q) /\ worker[q] = NoWorker /\ initdb[q] = "none"
  <2>1. ~Live(q) /\ worker[q].op = "none"
    BY WorkingIsLive DEF SoloTenant
  <2>2. worker[q] = NoWorker
    BY <2>1 DEF RootInv, Shape
  <2>3. QED
    BY <2>1, <2>2 DEF SoloTenant, NoWorker
<1>2. "timeout" \notin blame' /\ "overlap" \notin blame'
  BY DEF Solo, After
<1>3. ASSUME NEW q \in Procs, Step(q) \/ Kill(q) PROVE q = p
  <2>1. SUFFICES ASSUME q # p PROVE FALSE
    OBVIOUS
  <2>2. pc[q] \in {"new"} \cup Over /\ worker[q].at = "none"
    BY <1>1, <2>1 DEF Live, NoWorker
  <2>3. ~Begin(q)
    BY <1>2 DEF Begin
  <2>4. QED
    BY <1>1, <1>3, <2>1, <2>2, <2>3 DEF Step, Stage, BeginCopy, EndCopy, EnsureDirs, MakeDir,
       OwnDir, PrepareXdg, ListTree, ChownTree, Spawn, Return, TestEnds, Kill, Over, Calls
<1>4. ASSUME NEW q \in Procs, Timeout(q) PROVE FALSE
  BY <1>2, <1>4 DEF Timeout, Fault
<1>5. ASSUME NEW q \in Procs, WorkerStep(q) PROVE q = p
  <2>1. worker[q].at # "none"
    BY <1>5 DEF WorkerStep, CheckSetup, DataDirExists, Validate, Install, StartInitdb,
       InitdbReturns, CheckStatus, StartServer, ServerStarted, StopServer, SignalServer,
       ServerStopped, DropValue, ValueDropped, WorkerGivesUp, RemoveEntry, RemoveTop, RemoveFails,
       RemoveStopsShort, Removing
  <2>2. QED
    BY <1>1, <2>1 DEF NoWorker
<1>6. QED
  BY <1>1, <1>3, <1>4, <1>5 DEF Next, Work, AllOver

\* Whoever is not at work can only begin.
LEMMA IdleBegins ==
  ASSUME RootInv, [Next]_vars, NEW p \in Procs, ~Live(p)
  PROVE  pc'[p] \in {pc[p], "stage"} /\ pc[p] \in {"new"} \cup Over /\ worker'[p] = NoWorker
<1>0. TypeOK
  BY DEF RootInv
<1>1. pc[p] \in {"new"} \cup Over /\ worker[p] = NoWorker
  BY WorkingIsLive DEF RootInv, Shape, Live
<1>2. ASSUME NEW q \in Procs, Step(q) \/ Kill(q) \/ Timeout(q) \/ Work(q)
      PROVE  pc'[p] \in {pc[p], "stage"} /\ pc[p] \in {"new"} \cup Over /\ worker'[p] = NoWorker
  <2>1. CASE q # p
    BY <1>1, <1>2, <2>1, OthersStay
  <2>2. CASE q = p /\ (Step(q) \/ Kill(q) \/ Timeout(q))
    <3>1. CASE Begin(p)
      BY <1>0, <1>1, <3>1 DEF Begin, To, TypeOK
    <3>2. worker[p].at = "none"
      BY <1>1 DEF NoWorker
    <3>3. QED
      BY <1>1, <2>2, <3>1, <3>2 DEF Step, Stage, BeginCopy, EndCopy, EnsureDirs, MakeDir, OwnDir,
         PrepareXdg, ListTree, ChownTree, Spawn, Return, TestEnds, Timeout, Kill, Live, Over, Calls
  <2>3. CASE q = p /\ Work(q)
    <3>1. worker[p].at # "none"
      BY <2>3 DEF Work, WorkerStep, CheckSetup, DataDirExists, Validate, Install, StartInitdb,
         InitdbReturns, CheckStatus, StartServer, ServerStarted, StopServer, SignalServer,
         ServerStopped, DropValue, ValueDropped, WorkerGivesUp, RemoveEntry, RemoveTop,
         RemoveFails, RemoveStopsShort, Removing
    <3>2. QED
      BY <1>1, <3>1 DEF NoWorker
  <2>4. QED
    BY <1>2, <2>1, <2>2, <2>3
<1>3. QED
  BY <1>1, <1>2 DEF Next, AllOver, vars, parent

\* A worker keeps its operation.
LEMMA WorkKeepsOp ==
  ASSUME RootInv, NEW p \in Procs, WorkerStep(p)
  PROVE  worker'[p].op = worker[p].op
<1>0. TypeOK
  BY DEF RootInv
<1>1. CASE RemoveTop(p) \/ RemoveFails(p) \/ RemoveStopsShort(p)
  BY <1>0, <1>1, RemovedEffect DEF RemoveTop, RemoveFails, RemoveStopsShort
<1>2. QED
  BY <1>0, <1>1 DEF WorkerStep, CheckSetup, DataDirExists, Validate, Install, StartInitdb,
     InitdbReturns, CheckStatus, StartServer, ServerStarted, StopServer, SignalServer,
     ServerStopped, DropValue, ValueDropped, WorkerGivesUp, RemoveEntry, SetupReturns, Goto, Ends,
     Outcome, TypeOK

\* New entries come from a process that prepares or sets up directories.
LEMMA WhoWrites ==
  ASSUME RootInv, SoloTenant, Solo, [Next]_vars
  PROVE  \/ disk' \subseteq disk
         \/ \E p \in Procs : Live(p) /\ worker[p].at \in {"none", "setup", "initdb", "launch"}
<1>0. TypeOK
  BY DEF RootInv
<1>1. ASSUME NEW p \in Procs, Step(p) \/ Timeout(p) \/ Kill(p)
      PROVE  \/ disk' \subseteq disk
             \/ \E q \in Procs : Live(q) /\ worker[q].at \in {"none", "setup", "initdb", "launch"}
  <2>1. CASE EnsureDirs(p) \/ PrepareXdg(p)
    BY <2>1 DEF RootInv, Shape, NoWorker, EnsureDirs, MakeDir, OwnDir, PrepareXdg, Live, Over, Calls
  <2>3. CASE ~(EnsureDirs(p) \/ PrepareXdg(p))
    BY <1>1, <2>3 DEF Step, Begin, Stage, BeginCopy, EndCopy, Unstaged, ListTree, ChownTree, Spawn,
       Return, TestEnds, Timeout, Kill, disks
  <2>4. QED
    BY <2>1, <2>3
<1>2. ASSUME NEW p \in Procs, WorkerStep(p)
      PROVE  \/ disk' \subseteq disk
             \/ \E q \in Procs : Live(q) /\ worker[q].at \in {"none", "setup", "initdb", "launch"}
  <2>1. CASE Install(p) \/ StartServer(p)
    BY <2>1, WorkingIsLive DEF Install, StartServer
  <2>2. CASE RemoveEntry(p) \/ RemoveTop(p)
    BY <2>2 DEF RemoveEntry, RemoveTop, Lose
  <2>3. CASE ~(Install(p) \/ StartServer(p) \/ RemoveEntry(p) \/ RemoveTop(p))
    BY <1>2, <2>3 DEF WorkerStep, CheckSetup, DataDirExists, Validate, StartInitdb, InitdbReturns,
       CheckStatus, ServerStarted, StopServer, SignalServer, ServerStopped, DropValue,
       ValueDropped, WorkerGivesUp, RemoveFails, RemoveStopsShort, disks
  <2>4. QED
    BY <2>1, <2>2, <2>3
<1>3. ASSUME Tools
      PROVE  \/ disk' \subseteq disk
             \/ \E q \in Procs : Live(q) /\ worker[q].at \in {"none", "setup", "initdb", "launch"}
  <2>1. ASSUME NEW p \in Procs, InitdbCheck(p) \/ InitdbWrite(p)
        PROVE  Live(p) /\ worker[p].at = "initdb"
    <3>1. initdb[p] # "none"
      BY <2>1, PieceNames DEF InitdbCheck, InitdbWrite
    <3>2. QED
      BY <3>1, WorkingIsLive DEF SoloTenant
  <2>2. ASSUME NEW p \in Procs, InitdbFails(p) \/ InitdbKilled(p) PROVE disk' \subseteq disk
    BY <2>2 DEF InitdbFails, InitdbKilled, Lose, disks
  <2>3. CASE ServerUp \/ ServerFails \/ ServerStops \/ ServerDies
    BY <2>3 DEF ServerUp, ServerFails, ServerStops, ServerDies
  <2>4. QED
    BY <1>3, <2>1, <2>2, <2>3 DEF Tools
<1>4. QED
  BY <1>1, <1>2, <1>3 DEF Next, Work, AllOver, vars, disks

\* Entries other than the pid file go by a removal or an initdb that fails.
LEMMA WhoRemoves ==
  ASSUME RootInv, [Next]_vars
  PROVE  \/ disk \ {"pid"} \subseteq disk'
         \/ \E p \in Procs : worker[p].at \in Removing \/ initdb[p] \in Pieces
<1>1. ASSUME NEW p \in Procs, Step(p) \/ Timeout(p) \/ Kill(p) PROVE disk \subseteq disk'
  BY <1>1 DEF Step, Begin, Stage, BeginCopy, EndCopy, Unstaged, EnsureDirs, MakeDir, OwnDir,
     PrepareXdg, MakeAsRoot, ListTree, ChownTree, Spawn, Return, TestEnds, Timeout, Kill, disks
<1>2. ASSUME NEW p \in Procs, WorkerStep(p)
      PROVE  disk \subseteq disk' \/ worker[p].at \in Removing
  BY <1>2 DEF WorkerStep, CheckSetup, DataDirExists, Validate, Install, StartInitdb, InitdbReturns,
     CheckStatus, StartServer, ServerStarted, StopServer, SignalServer, ServerStopped, DropValue,
     ValueDropped, WorkerGivesUp, RemoveEntry, RemoveTop, RemoveFails, RemoveStopsShort, Launch,
     Add, disks
<1>3. ASSUME Tools
      PROVE  disk \ {"pid"} \subseteq disk' \/ \E p \in Procs : initdb[p] \in Pieces
  BY <1>3 DEF Tools, InitdbCheck, InitdbWrite, InitdbFails, InitdbKilled, ServerUp, ServerFails,
     ServerStops, ServerDies, Add, disks
<1>4. QED
  BY <1>1, <1>2, <1>3 DEF Next, Work, AllOver, vars, disks

\* So nothing new appears while a process empties a directory, or has done.
LEMMA NothingNew ==
  ASSUME RootInv, SoloTenant, Solo, [Next]_vars, NEW p \in Procs,
         worker[p].at \notin {"none", "setup", "initdb", "launch"}
  PROVE  disk' \subseteq disk
<1>1. Live(p)
  BY WorkingIsLive
<1>2. QED
  BY <1>1, WhoWrites DEF SoloTenant

\* Nobody else removes in the directory a process removes from.
LEMMA NobodyInterferes ==
  ASSUME RootInv, SoloTenant, Solo, NEW p \in Procs, worker[p].at \in Removing
  PROVE  ~Disturbed(p)
<1>1. Live(p) /\ worker[p].at # "initdb"
  BY WorkingIsLive DEF Removing
<1>2. ASSUME NEW q \in Procs \ {p} PROVE initdb[q] = "none" /\ worker[q].at = "none"
  BY <1>1, WorkingIsLive DEF SoloTenant
<1>3. initdb[p] = "none"
  BY <1>1 DEF SoloTenant
<1>4. QED
  BY <1>2, <1>3, PieceNames DEF Disturbed, Removing, InitdbRunning

-----------------------------------------------------------------------------
(* Removals.                                                               *)

LEMMA RemovalInductive ==
  ASSUME RootInv, SoloTenant, SoloRemoval, [Next]_vars
  PROVE  SoloRemoval'
<1>0. TypeOK
  BY DEF RootInv
<1> DEFINE R(w, d) ==
      /\ w.at = "reset" => "map" \notin d
      /\ w.at = "rm_install" /\ ~w.bad => DataTree \cap d = {}
      /\ w.op \in Cleanups /\ w.at = "ok" => DataTree \cap d = {}
      /\ w.op \in {"cleanup_full", "wipe_full"} /\ w.at = "ok" => InstallTree \cap d = {}
<1>1. SUFFICES ASSUME Solo', NEW p \in Procs PROVE R(worker'[p], disk')
  BY DEF SoloRemoval
<1>2. Solo /\ "timeout" \notin blame' /\ "overlap" \notin blame'
  BY <1>1, BlameGrows DEF Solo, After
<1>3. R(worker[p], disk) /\ Shape(p)
  BY <1>2 DEF SoloRemoval, RootInv
<1>4. CASE worker'[p] = worker[p]
  <2>1. worker[p].at \in {"reset", "rm_install", "ok"} => disk' \subseteq disk
    BY <1>2, NothingNew
  <2>2. QED
    BY <1>3, <1>4, <2>1
<1>5. CASE Spawn(p) \/ Return(p) \/ Timeout(p) \/ Kill(p)
  BY <1>0, <1>2, <1>5 DEF Spawn, Return, Timeout, Kill, Fault, NoWorker, Entry, TypeOK
<1>6. CASE WorkerStep(p) /\ worker'[p] # worker[p]
  <2>1. CASE \/ CheckSetup(p) \/ DataDirExists(p) \/ Install(p) \/ StartInitdb(p)
             \/ InitdbReturns(p) \/ CheckStatus(p) \/ StartServer(p) \/ ServerStarted(p)
             \/ StopServer(p) \/ ServerStopped(p) \/ DropValue(p) \/ ValueDropped(p)
    <3>1. worker[p].op \in {"setup", "start", "stop"}
      <4>1. worker[p].at \notin {"none", "rm_data", "rm_install", "ok", "err"}
        BY <2>1 DEF CheckSetup, DataDirExists, Install, StartInitdb, InitdbReturns, CheckStatus,
           StartServer, ServerStarted, StopServer, SignalServer, ServerStopped, DropValue,
           ValueDropped
      <4>2. worker[p].op \in Ops \cup {"none"}
        BY <1>0 DEF TypeOK
      <4>3. QED
        BY <1>3, <4>1, <4>2 DEF Shape, NoWorker, Ops
    <3>2. worker'[p].op = worker[p].op /\ worker'[p].at \notin {"reset", "rm_install"}
      BY <1>0, <2>1 DEF CheckSetup, DataDirExists, Install, StartInitdb, InitdbReturns,
         CheckStatus, StartServer, ServerStarted, StopServer, SignalServer, ServerStopped,
         DropValue, ValueDropped, SetupReturns, Goto, Ends, Outcome, TypeOK
    <3>3. QED
      BY <3>1, <3>2 DEF Cleanups, Wipes
  <2>2. CASE Validate(p)
    BY <1>0, <1>3, <2>2 DEF Validate, Goto, Ends, Outcome, TypeOK, disks, Shape, Cleanups, Wipes,
       SetupPlaces
  <2>3. CASE WorkerGivesUp(p) \/ RemoveEntry(p)
    BY <1>2, <1>6, <2>3 DEF WorkerGivesUp, Fault, RemoveEntry
  <2>4. CASE RemoveTop(p)
    <3>1. Tree(p) \cap disk' = {} /\ disk' \subseteq disk
      BY <2>4 DEF RemoveTop, Lose, Tree, Top
    <3>2. QED
      BY <1>0, <1>3, <2>4, <3>1, RemovedEffect DEF RemoveTop, Tree, Removing, Shape, Cleanups, Wipes
  <2>5. CASE RemoveFails(p)
    BY <1>0, <1>3, <2>5, RemovedEffect DEF RemoveFails, Removing
  <2>6. CASE RemoveStopsShort(p)
    BY <1>2, <2>6, NobodyInterferes DEF RemoveStopsShort, Disturbed
  <2>7. QED
    BY <1>6, <2>1, <2>2, <2>3, <2>4, <2>5, <2>6 DEF WorkerStep
<1>7. QED
  BY <1>4, <1>5, <1>6, WorkerMoves

LEMMA RemovalHolds == Spec => []SoloRemoval
<1>1. Init => SoloRemoval
  <2>1. ASSUME Init, NEW p \in Procs
        PROVE  worker[p].at = "none"
    <3>1. worker[p] = NoWorker
      BY <2>1 DEF Init
    <3>2. QED
      BY <3>1 DEF NoWorker
  <2>2. ASSUME Init, NEW p \in Procs
        PROVE  /\ worker[p].at # "reset" /\ worker[p].at # "rm_install"
               /\ worker[p].at # "ok"
    BY <2>1, <2>2
  <2>3. QED
    BY <2>2, Zenon DEF SoloRemoval
<1>2. QED
  BY <1>1, RemovalInductive, RootInvHolds, TenantHolds, PTL DEF Spec

\* A cleanup that succeeds leaves nothing of what its mode says, if it had the
\* time it needed and the directories for itself.
THEOREM CleanupRemoves == Spec => []CleanupLeavesNothing
<1>1. RootInv /\ SoloRemoval => CleanupLeavesNothing
  <2>1. SUFFICES ASSUME RootInv, SoloRemoval, NEW p \in Procs, worker[p].op \in {"wipe", "wipe_full"},
                        worker[p].at = "ok", Solo
                 PROVE  disk \cap (DataTree \cup IF mode[p] = "Full" THEN InstallTree ELSE {}) = {}
    BY DEF CleanupLeavesNothing, Solo
  <2>2. DataTree \cap disk = {}
    BY <2>1 DEF SoloRemoval, Cleanups, Wipes
  <2>3. mode[p] = "Full" => worker[p].op = "wipe_full"
    BY <2>1 DEF RootInv, Shape, Op, Calls
  <2>4. QED
    BY <2>1, <2>2, <2>3 DEF SoloRemoval
<1>2. QED
  BY <1>1, RootInvHolds, RemovalHolds, PTL

\* The recovery takes no marker away that was there when it began.
THEOREM ResetSpares == Spec => ResetSparesMarker
<1> DEFINE A == \A p \in Procs :
       worker[p].at = "reset" /\ "map" \in disk /\ "map" \notin disk'
         => After({"timeout", "overlap"})
<1>1. SoloRemoval => A
  BY DEF SoloRemoval, Solo
<1>2. QED
  BY <1>1, RemovalHolds, PTL DEF ResetSparesMarker

-----------------------------------------------------------------------------
(* The server has what it runs on.                                         *)

\* Only a Start brings a server up, a server loses nothing, and its pid file comes
\* and goes with it, unless it is killed.
LEMMA ServerIsSpared ==
  ASSUME RootInv, SoloTenant, SoloServer, Solo, [Next]_vars
  PROVE  /\ ~orphan'
         /\ server # "down" /\ server' # "down" => disk \subseteq disk'
         /\ server = "down" /\ server' # "down" => \E p \in Procs : StartServer(p) /\ Launch /\ UNCHANGED parent
         /\ server # "down" /\ server' = "down" => "pid" \notin disk' \/ ServerDies
         /\ "pid" \in disk' => "pid" \in disk \/ server' # "down"
<1>0. TypeOK /\ ~orphan
  BY DEF RootInv, SoloServer
<1> DEFINE G == /\ ~orphan'
                /\ server # "down" /\ server' # "down" => disk \subseteq disk'
                /\ server = "down" /\ server' # "down" => \E p \in Procs : StartServer(p) /\ Launch /\ UNCHANGED parent
                /\ server # "down" /\ server' = "down" => "pid" \notin disk' \/ ServerDies
                /\ "pid" \in disk' => "pid" \in disk \/ server' # "down"
<1>1. ASSUME disk \subseteq disk', "pid" \in disk' => "pid" \in disk, UNCHANGED <<server, orphan>>
      PROVE  G
  BY <1>0, <1>1
<1>2. ASSUME server = "down", NEW S, Lose(S) PROVE G
  BY <1>0, <1>2 DEF Lose
<1>3. ASSUME NEW p \in Procs, Step(p) \/ Timeout(p) \/ Kill(p) PROVE G
  <2>1. disk \subseteq disk' /\ ("pid" \in disk' => "pid" \in disk) /\ UNCHANGED <<server, orphan>>
    BY <1>3 DEF Step, Begin, Stage, BeginCopy, EndCopy, Unstaged, EnsureDirs, MakeDir, OwnDir,
       PrepareXdg, MakeAsRoot, ListTree, ChownTree, Spawn, Return, TestEnds, Timeout, Kill, disks
  <2>2. QED
    BY <1>1, <2>1
<1>4. ASSUME NEW p \in Procs, WorkerStep(p), UNCHANGED parent PROVE G
  <2>1. CASE RemoveEntry(p) \/ RemoveTop(p)
    <3>1. worker[p].at \in Removing /\ \E S : Lose(S)
      BY <2>1 DEF RemoveEntry, RemoveTop
    <3>2. worker[p].at = "reset" \/ pc[p] \in {"cleanup", "wipe"}
      <4>1. worker[p].op \in Ops /\ Shape(p)
        BY <1>0, <3>1, WorkingIsLive DEF Removing, RootInv, TypeOK
      <4>2. QED
        BY <3>1, <4>1 DEF Shape, Removing, Ops, SetupPlaces, Op, Calls, Ended, Dropping
    <3>3. server = "down"
      BY <3>2 DEF SoloServer
    <3>4. QED
      BY <1>2, <3>1, <3>3
  <2>2. CASE StartServer(p)
    <3>1. CASE Launch
      BY <1>0, <1>4, <2>2, <3>1 DEF Launch
    <3>2. CASE UNCHANGED disks
      BY <1>1, <3>2 DEF disks
    <3>3. QED
      BY <2>2, <3>1, <3>2 DEF StartServer
  <2>3. CASE Install(p)
    <3>1. UNCHANGED disks \/ Add({"install", "bin"})
      BY <2>3 DEF Install
    <3>2. QED
      BY <1>1, <3>1 DEF Add, disks
  <2>4. CASE StopServer(p) \/ DropValue(p)
    <3>1. CASE UNCHANGED disks
      BY <1>1, <3>1 DEF disks
    <3>2. CASE server # "down" /\ server' = "stopping" /\ UNCHANGED <<disk, rootOwned, orphan>>
      BY <1>0, <3>2
    <3>3. QED
      BY <2>4, <3>1, <3>2 DEF StopServer, DropValue, CanStop, SignalServer
  <2>5. CASE \/ CheckSetup(p) \/ DataDirExists(p) \/ Validate(p) \/ StartInitdb(p)
             \/ InitdbReturns(p) \/ CheckStatus(p) \/ ServerStarted(p) \/ ServerStopped(p)
             \/ ValueDropped(p) \/ WorkerGivesUp(p) \/ RemoveFails(p) \/ RemoveStopsShort(p)
    <3>1. UNCHANGED disks
      BY <2>5 DEF CheckSetup, DataDirExists, Validate, StartInitdb, InitdbReturns, CheckStatus,
         ServerStarted, ServerStopped, ValueDropped, WorkerGivesUp, RemoveFails, RemoveStopsShort
    <3>2. QED
      BY <1>1, <3>1 DEF disks
  <2>6. QED
    BY <1>4, <2>1, <2>2, <2>3, <2>4, <2>5 DEF WorkerStep
<1>5. ASSUME Tools PROVE G
  <2>1. ASSUME NEW p \in Procs, InitdbFails(p) PROVE G
    <3>1. server = "down" /\ \E S : Lose(S)
      BY <2>1 DEF InitdbFails, SoloServer
    <3>2. QED
      BY <1>2, <3>1
  <2>2. ASSUME NEW p \in Procs, InitdbCheck(p) \/ InitdbWrite(p) \/ InitdbKilled(p) PROVE G
    <3>1. UNCHANGED disks \/ \E S : "pid" \notin S /\ Add(S)
      BY <2>2, PieceNames DEF InitdbCheck, InitdbWrite, InitdbKilled
    <3>2. QED
      BY <1>1, <3>1 DEF Add, disks
  <2>3. CASE ServerUp \/ ServerFails \/ ServerStops \/ ServerDies
    BY <1>0, <2>3 DEF ServerUp, ServerFails, ServerStops, ServerDies
  <2>4. QED
    BY <1>5, <2>1, <2>2, <2>3 DEF Tools
<1>6. ASSUME UNCHANGED vars PROVE G
  <2>1. UNCHANGED <<disk, server, orphan>>
    BY <1>6 DEF vars, disks
  <2>2. QED
    BY <1>1, <2>1
<1>7. G
  <2> HIDE DEF G
  <2>1. QED
    BY <1>3, <1>4, <1>5, <1>6 DEF Next, Work, AllOver
<1>8. QED
  BY <1>7

LEMMA ServerInductive ==
  ASSUME RootInv, SoloTenant, SoloServer, [Next]_vars
  PROVE  SoloServer'
<1>0. TypeOK
  BY DEF RootInv
<1> DEFINE Off(p) == /\ pc[p] \notin {"cleanup", "wipe"} /\ worker[p].at # "reset"
                     /\ initdb[p] \notin Pieces
           Stopped(p) == worker[p].op = "stop" /\ worker[p].at \in Ended /\ ~worker[p].bad
<1>1. SUFFICES ASSUME Solo'
      PROVE  /\ ~orphan'
             /\ server' # "down" => Startable' /\ {"pid", "bin"} \subseteq disk'
             /\ \A p \in Procs : server' # "down" => Off(p)'
             /\ \A p \in Procs : Stopped(p)' => "pid" \notin disk'
  BY DEF SoloServer
<1>2. Solo /\ "timeout" \notin blame' /\ "overlap" \notin blame'
  BY <1>1, BlameGrows DEF Solo, After
<1>3. /\ server # "down" => Startable /\ {"pid", "bin"} \subseteq disk
      /\ \A p \in Procs : (server # "down" => Off(p)) /\ (Stopped(p) => "pid" \notin disk)
  BY <1>2 DEF SoloServer
<1>4. ASSUME NEW p \in Procs, StartServer(p), Launch, UNCHANGED parent
      PROVE  /\ Startable' /\ {"pid", "bin"} \subseteq disk'
             /\ \A q \in Procs : Off(q)'
  <2>1. worker[p].at = "launch" /\ "bin" \in disk /\ Startable /\ initdb' = initdb
    BY <1>4 DEF StartServer, Launch, disks
  <2>2. Live(p) /\ pc[p] = "start" /\ initdb[p] = "none"
    <3>1. Shape(p) /\ worker[p].op \in Ops
      BY <1>0, <2>1, WorkingIsLive DEF RootInv, TypeOK
    <3>2. QED
      BY <1>2, <2>1, <3>1, WorkingIsLive
         DEF Shape, Ops, SetupPlaces, Op, Calls, SoloTenant, Ended, Dropping
  <2>3. pc' = pc
    BY <1>4 DEF parent
  <2>4. ASSUME NEW q \in Procs \ {p} PROVE ~Live(q) /\ worker'[q] = worker[q] /\ worker[q].at = "none"
    BY <1>0, <1>2, <1>4, <2>2, WorkingIsLive DEF SoloTenant, StartServer, Goto, Ends, Outcome,
       TypeOK
  <2>5. worker'[p].at = "launching"
    BY <1>0, <1>4 DEF StartServer, Launch, disks, Goto, Ends, Outcome, TypeOK
  <2>6. \A q \in Procs : initdb[q] = "none"
    BY <1>2, <2>2, <2>4 DEF SoloTenant
  <2>7. \A q \in Procs : Off(q)'
    <3>1. \A q \in Procs : pc[q] \notin {"cleanup", "wipe"}
      BY <2>2, <2>4 DEF Live, Over
    <3>2. \A q \in Procs : worker'[q].at # "reset"
      BY <2>4, <2>5
    <3>3. \A q \in Procs : initdb'[q] \notin Pieces
      BY <2>1, <2>6, PieceNames
    <3>4. QED
      BY <2>3, <3>1, <3>2, <3>3
  <2>8. QED
    BY <1>4, <2>1, <2>7 DEF Launch, Startable
<1>5. server' # "down" => Startable' /\ {"pid", "bin"} \subseteq disk'
  BY <1>2, <1>3, <1>4, ServerIsSpared DEF Startable
<1>6. ASSUME NEW p \in Procs, server' # "down" PROVE Off(p)'
  <2>1. CASE server = "down"
    BY <1>2, <1>4, <1>6, <2>1, ServerIsSpared
  <2>2. CASE server # "down"
    <3>1. Off(p) /\ Startable /\ "pid" \in disk /\ ~Stopped(p)
      BY <1>3, <2>2
    <3>2. pc'[p] \notin {"cleanup", "wipe"}
      <4>1. ASSUME NEW q \in Procs, Step(q) \/ Timeout(q) \/ Kill(q), q = p
            PROVE  pc'[p] \notin {"cleanup", "wipe"}
        <5>1. CASE Return(p)
          BY <1>0, <3>1, <5>1 DEF Return, To, AfterOk, AfterErr, TypeOK, RootInv, Shape, NoWorker,
             Op, Ended, Dropping
        <5>2. CASE Spawn(p)
          BY <1>0, <3>1, <5>2 DEF Spawn, To, AfterErr, TypeOK
        <5>3. CASE ~(Return(p) \/ Spawn(p))
          BY <1>0, <1>2, <3>1, <4>1, <5>3 DEF Step, Begin, Stage, BeginCopy, EndCopy, EnsureDirs,
             MakeDir, OwnDir, PrepareXdg, ListTree, ChownTree, TestEnds, Timeout, Fault, Kill, To,
             TypeOK
        <5>4. QED
          BY <5>1, <5>2, <5>3
      <4>2. ASSUME NEW q \in Procs \ {p}, Step(q) \/ Timeout(q) \/ Kill(q)
            PROVE  pc'[p] \notin {"cleanup", "wipe"}
        BY <3>1, <4>2, OthersStay
      <4>3. QED
        BY <3>1, <4>1, <4>2 DEF Next, Work, parent, AllOver, vars
    <3>3. worker'[p].at # "reset"
      <4>1. CASE worker'[p] = worker[p]
        BY <3>1, <4>1
      <4>2. CASE Spawn(p) \/ Return(p) \/ Timeout(p) \/ Kill(p)
        BY <1>0, <1>2, <3>1, <4>2 DEF Spawn, Return, Timeout, Kill, Fault, NoWorker, Entry, TypeOK
      <4>3. CASE Validate(p)
        BY <1>0, <3>1, <4>3, PieceNames DEF Validate, Goto, Ends, Outcome, TypeOK, Startable
      <4>4. CASE RemoveEntry(p) \/ RemoveTop(p) \/ RemoveFails(p) \/ RemoveStopsShort(p)
        BY <1>0, <3>1, <4>4, RemovedEffect DEF RemoveEntry, RemoveTop, RemoveFails,
           RemoveStopsShort, Removing
      <4>5. CASE \/ CheckSetup(p) \/ DataDirExists(p) \/ Install(p) \/ StartInitdb(p)
                 \/ InitdbReturns(p) \/ CheckStatus(p) \/ StartServer(p) \/ ServerStarted(p)
                 \/ StopServer(p) \/ ServerStopped(p) \/ DropValue(p) \/ ValueDropped(p)
                 \/ WorkerGivesUp(p)
        BY <1>0, <4>5 DEF CheckSetup, DataDirExists, Install, StartInitdb, InitdbReturns,
           CheckStatus, StartServer, ServerStarted, StopServer, SignalServer, ServerStopped,
           DropValue, ValueDropped, WorkerGivesUp, SetupReturns, Goto, Ends, Outcome, TypeOK
      <4>6. QED
        BY <4>1, <4>2, <4>3, <4>4, <4>5, WorkerMoves DEF WorkerStep
    <3>4. initdb'[p] \notin Pieces
      <4>1. ASSUME NEW q \in Procs, InitdbCheck(q) \/ InitdbWrite(q) 
              PROVE  initdb'[p] = initdb[p] \/ initdb'[p] = "failed"
        BY <1>0, <3>1, <4>1 DEF InitdbCheck, InitdbWrite, InitdbTo, DataContents, TypeOK
      <4>2. ASSUME NEW q \in Procs, InitdbFails(q) \/ InitdbKilled(q)
            PROVE  initdb'[p] = initdb[p] \/ initdb'[p] = "failed"
        BY <1>0, <4>2 DEF InitdbFails, InitdbKilled, InitdbTo, TypeOK
      <4>3. CASE Tools
        BY <3>1, <4>1, <4>2, <4>3, PieceNames DEF Tools, ServerUp, ServerFails, ServerStops,
           ServerDies
      <4>4. ASSUME NEW q \in Procs, Step(q) \/ Timeout(q) \/ Kill(q)
            PROVE  initdb'[p] = initdb[p] \/ initdb'[p] = "none"
        BY <1>0, <4>4 DEF Step, Begin, Stage, BeginCopy, EndCopy, Unstaged, EnsureDirs, MakeDir,
           OwnDir, PrepareXdg, ListTree, ChownTree, Unprepared, Spawn, Return, TestEnds, Timeout,
           Kill, TypeOK
      <4>5. ASSUME NEW q \in Procs, WorkerStep(q)
            PROVE  initdb'[p] = initdb[p] \/ initdb'[p] \in {"none", "check"}
        BY <1>0, <4>5 DEF WorkerStep, CheckSetup, DataDirExists, Validate, Install, StartInitdb,
           InitdbReturns, CheckStatus, StartServer, ServerStarted, StopServer, SignalServer,
           ServerStopped, DropValue, ValueDropped, WorkerGivesUp, RemoveEntry, RemoveTop,
           RemoveFails, RemoveStopsShort, InitdbTo, TypeOK
      <4>6. QED
        BY <3>1, <4>3, <4>4, <4>5, PieceNames DEF Next, Work, AllOver, vars
    <3>5. QED
      BY <3>2, <3>3, <3>4
  <2>3. QED
    BY <2>1, <2>2
<1>7. ASSUME NEW p \in Procs, Stopped(p)' PROVE "pid" \notin disk'
  <2>1. CASE worker'[p] = worker[p]
    BY <1>2, <1>3, <1>7, <2>1, NothingNew DEF Ended, Dropping
  <2>2. CASE Spawn(p) \/ Return(p) \/ Timeout(p) \/ Kill(p)
    <3>1. worker'[p] = worker[p] \/ worker'[p] = NoWorker \/ worker'[p].at \in {"check", "stop", "rm_data"}
      BY <1>0, <1>2, <2>2 DEF Spawn, Return, Timeout, Kill, Fault, Entry, TypeOK
    <3>2. QED
      BY <1>7, <2>1, <3>1 DEF NoWorker, Ended, Dropping
  <2>3. CASE StopServer(p) \/ ServerStopped(p)
    BY <1>0, <1>7, <2>3 DEF StopServer, SignalServer, ServerStopped, Goto, Ends, TypeOK, disks,
       Ended, Dropping
  <2>8. CASE DropValue(p) \/ ValueDropped(p)
    <3>1. worker[p].at \in Dropping /\ disk' = disk
      BY <2>8 DEF DropValue, ValueDropped, SignalServer, Dropping, disks
    <3>2. worker'[p].op = worker[p].op /\ worker'[p].bad = worker[p].bad
      BY <1>0, <2>8 DEF DropValue, ValueDropped, Goto, Outcome, TypeOK
    <3>3. QED
      BY <1>3, <1>7, <3>1, <3>2 DEF Ended
  <2>4. CASE WorkerGivesUp(p) \/ RemoveEntry(p)
    BY <1>2, <1>3, <1>7, <2>1, <2>4 DEF WorkerGivesUp, Fault, RemoveEntry
  <2>5. CASE \/ CheckSetup(p) \/ DataDirExists(p) \/ Validate(p) \/ Install(p) \/ StartInitdb(p)
             \/ InitdbReturns(p) \/ CheckStatus(p) \/ StartServer(p) \/ ServerStarted(p)
    <3>1. worker'[p].op = worker[p].op
      BY <1>0, <2>5 DEF CheckSetup, DataDirExists, Validate, Install, StartInitdb, InitdbReturns,
         CheckStatus, StartServer, ServerStarted, SetupReturns, Goto, Ends, Outcome, TypeOK
    <3>2. worker[p].at \notin {"stop", "stopping"} \cup Ended
      BY <2>5 DEF CheckSetup, DataDirExists, Validate, Install, StartInitdb, InitdbReturns,
         CheckStatus, StartServer, ServerStarted, Ended, Dropping
    <3>3. QED
      BY <1>7, <3>1, <3>2 DEF RootInv, Shape
  <2>6. CASE RemoveTop(p) \/ RemoveFails(p) \/ RemoveStopsShort(p)
    <3>1. worker'[p].op = worker[p].op /\ worker[p].at \in Removing
      BY <1>0, <2>6, RemovedEffect DEF RemoveTop, RemoveFails, RemoveStopsShort
    <3>2. QED
      BY <1>7, <3>1 DEF RootInv, Shape, Removing, Ended, Dropping
  <2>7. QED
    BY <2>1, <2>2, <2>3, <2>4, <2>5, <2>6, <2>8, WorkerMoves DEF WorkerStep
<1>8. QED
  BY <1>2, <1>5, <1>6, <1>7, ServerIsSpared

LEMMA ServerHolds == Spec => []SoloServer
<1>1. Init => SoloServer
  BY PieceNames DEF Init, SoloServer, NoWorker
<1>2. QED
  BY <1>1, ServerInductive, RootInvHolds, TenantHolds, PTL DEF Spec

-----------------------------------------------------------------------------
(* Whoever brought a server up will stop it.                               *)

LEMMA KeptInductive ==
  ASSUME RootInv, SoloTenant, SoloServer, ServerKept, [Next]_vars
  PROVE  ServerKept'
<1>0. TypeOK
  BY DEF RootInv
<1> DEFINE Able(p) == /\ pc[p] \in {"start", "ready", "stop"} => CanExecute(p)
                      /\ pc[p] = "setup" /\ worker[p].op # "none" => CanExecute(p)
<1>1. SUFFICES ASSUME Unkilled'
      PROVE  /\ \A p \in Procs : Able(p)'
             /\ server' # "down" => \E p \in Procs : Keeps(p)'
  BY DEF ServerKept
<1>2. /\ Unkilled /\ Solo /\ Solo'
      /\ "timeout" \notin blame' /\ "kill" \notin blame' /\ "overlap" \notin blame'
  BY <1>1, BlameGrows DEF Unkilled, Solo, After
<1>3. (\A p \in Procs : Able(p)) /\ (server # "down" => \E p \in Procs : Keeps(p))
  BY <1>2 DEF ServerKept
<1>4. ASSUME NEW p \in Procs PROVE ~Kill(p)
  BY <1>2 DEF Kill, Fault
<1>5. ASSUME NEW p \in Procs PROVE Able(p)'
  <2>1. CASE ~Live(p)
    BY <2>1, IdleBegins DEF Over
  <2>2. CASE Live(p)
    <3>1. CASE Step(p)
      <4>1. CASE Return(p)
        BY <1>0, <1>3, <2>2, <4>1, WorkingIsLive DEF Return, To, AfterOk, AfterErr, CanExecute,
           TypeOK, NoWorker, Live, Over
      <4>2. CASE Spawn(p)
        BY <1>0, <1>3, <4>2 DEF Spawn, To, AfterErr, CanExecute, TypeOK, Calls
      <4>3. CASE TestEnds(p)
        BY <1>0, <1>3, <4>3 DEF TestEnds, To, CanExecute, TypeOK
      <4>4. CASE ~(Return(p) \/ Spawn(p) \/ TestEnds(p))
        <5>1. pc'[p] \notin {"start", "ready", "stop"}
          BY <1>0, <3>1, <4>4 DEF Step, Begin, Stage, BeginCopy, EndCopy, EnsureDirs, MakeDir,
             OwnDir, PrepareXdg, ListTree, ChownTree, To, TypeOK
        <5>2. pc[p] \notin Calls
          BY <3>1, <4>4 DEF Step, Begin, Stage, BeginCopy, EndCopy, EnsureDirs, MakeDir, OwnDir,
             PrepareXdg, ListTree, ChownTree, Calls
        <5>3. worker'[p].op = "none"
          <6>1. worker' = worker
            BY <3>1, <4>4 DEF Step, Begin, Stage, BeginCopy, EndCopy, EnsureDirs, MakeDir, OwnDir,
               PrepareXdg, ListTree, ChownTree, Unstaged, Unprepared
          <6>2. QED
            BY <5>2, <6>1, WorkingIsLive
        <5>4. QED
          BY <5>1, <5>3
      <4>5. QED
        BY <4>1, <4>2, <4>3, <4>4
    <3>2. CASE WorkerStep(p) /\ UNCHANGED parent
      BY <1>3, <3>2, WorkKeepsOp DEF parent, CanExecute
    <3>3. CASE Tools /\ UNCHANGED <<worker, parent>>
      BY <1>3, <3>3 DEF parent, CanExecute
    <3>4. CASE UNCHANGED vars
      BY <1>3, <3>4 DEF vars, parent, CanExecute
    <3>5. QED
      BY <1>2, <1>4, <2>2, <3>1, <3>2, <3>3, <3>4, OneAtWork
  <2>3. QED
    BY <2>1, <2>2
<1>6. ASSUME server' # "down" PROVE \E p \in Procs : Keeps(p)'
  <2>1. CASE server = "down"
    <3>1. PICK p \in Procs : StartServer(p) /\ Launch /\ UNCHANGED parent
      BY <1>2, <1>6, <2>1, ServerIsSpared
    <3>2. pc[p] = "start"
      <4>1. worker[p].at = "launch"
        BY <3>1 DEF StartServer
      <4>2. Shape(p) /\ worker[p].op \in Ops
        BY <1>0, <4>1, WorkingIsLive DEF RootInv, TypeOK
      <4>3. QED
        BY <4>1, <4>2 DEF Shape, Ops, SetupPlaces, Op, Calls, Ended, Dropping
    <3>3. worker'[p].at = "launching"
      BY <1>0, <3>1 DEF StartServer, Launch, Goto, Ends, Outcome, TypeOK, disks
    <3>4. QED
      BY <3>1, <3>2, <3>3 DEF Keeps, parent
  <2>2. CASE server # "down"
    <3>1. PICK p \in Procs : Keeps(p)
      BY <1>3, <2>2
    <3>2. Live(p) /\ CanExecute(p) /\ Shape(p)
      BY <1>3, <3>1 DEF Keeps, Live, Over, RootInv
    <3>3. {"pid", "bin"} \subseteq disk
      BY <1>2, <2>2 DEF SoloServer
    <3>4. CASE Step(p)
      <4>1. CASE Return(p)
        <5>1. pc[p] = "start" /\ worker[p].at = "ok"
          BY <3>1, <4>1 DEF Keeps, Return, Shape, RootInv, Calls, NoWorker
        <5>2. QED
          BY <1>0, <4>1, <5>1 DEF Return, To, AfterOk, Keeps, TypeOK
      <4>2. CASE Spawn(p)
        <5>1. pc[p] = "stop" /\ pc' = pc
          BY <3>1, <3>2, <4>2 DEF Keeps, Spawn, NoWorker, Calls
        <5>2. worker'[p].at = "stop"
          BY <1>0, <3>2, <4>2, <5>1 DEF Spawn, Op, Entry, TypeOK
        <5>3. QED
          BY <5>1, <5>2 DEF Keeps
      <4>3. CASE TestEnds(p)
        <5>1. worker[p].at = "none"
          BY <3>2, <4>3 DEF TestEnds, Shape, Calls, NoWorker
        <5>2. QED
          BY <1>0, <4>3, <5>1 DEF TestEnds, To, Keeps, TypeOK
      <4>4. QED
        BY <3>1, <3>4, <4>1, <4>2, <4>3 DEF Step, Keeps, Begin, Stage, BeginCopy, EndCopy,
           EnsureDirs, MakeDir, OwnDir, PrepareXdg, ListTree, ChownTree
    <3>5. CASE WorkerStep(p) /\ UNCHANGED parent
      <4>1. CASE StopServer(p)
        BY <1>0, <2>2, <3>1, <3>3, <3>5, <4>1 DEF StopServer, CanStop, Goto, Keeps, TypeOK, parent
      <4>2. CASE ServerStopped(p)
        BY <2>2, <3>3, <4>2 DEF ServerStopped
      <4>3. CASE ServerStarted(p)
        BY <1>0, <2>2, <3>1, <3>5, <4>3 DEF ServerStarted, Goto, Ends, Outcome, Keeps, TypeOK,
           parent
      <4>4. CASE WorkerGivesUp(p)
        BY <1>2, <4>4 DEF WorkerGivesUp, Fault
      <4>5. CASE ~(StopServer(p) \/ ServerStopped(p) \/ ServerStarted(p) \/ WorkerGivesUp(p))
        <5>1. worker[p].at \notin {"none", "launching", "ok", "stop", "stopping"}
          BY <3>5, <4>5 DEF WorkerStep, CheckSetup, DataDirExists, Validate, Install, StartInitdb,
             InitdbReturns, CheckStatus, StartServer, DropValue, ValueDropped, RemoveEntry,
             RemoveTop, RemoveFails, RemoveStopsShort, Removing
        <5>2. pc[p] = "ready"
          BY <3>1, <5>1 DEF Keeps
        <5>3. QED
          BY <5>1, <5>2, WorkingIsLive DEF Calls
      <4>6. QED
        BY <4>1, <4>2, <4>3, <4>4, <4>5
    <3>6. CASE UNCHANGED <<worker, parent>>
      BY <3>1, <3>6 DEF Keeps, parent
    <3>7. QED
      BY <1>2, <1>4, <3>2, <3>4, <3>5, <3>6, OneAtWork DEF vars
  <2>3. QED
    BY <2>1, <2>2
<1>7. QED
  BY <1>5, <1>6

LEMMA KeptHolds == Spec => []ServerKept
<1>1. Init => ServerKept
  BY DEF Init, ServerKept, NoWorker
<1>2. QED
  BY <1>1, KeptInductive, RootInvHolds, TenantHolds, ServerHolds, PTL DEF Spec

\* No server outlives the processes, and none loses its directory.
THEOREM NoStray == Spec => []NoStrayServer
<1>1. SoloServer /\ ServerKept => NoStrayServer
  <2>1. SUFFICES ASSUME SoloServer, ServerKept PROVE NoStrayServer
    OBVIOUS
  <2>2. (\A p \in Procs : pc[p] \in Over) /\ server # "down"
          => After({"timeout", "kill", "overlap"})
    BY <2>1 DEF ServerKept, Unkilled, Keeps, Over
  <2>3. orphan => After({"timeout", "overlap"})
    BY <2>1 DEF SoloServer, Solo
  <2>4. QED
    BY <2>2, <2>3 DEF NoStrayServer
<1>2. QED
  BY <1>1, ServerHolds, KeptHolds, PTL

-----------------------------------------------------------------------------
(* The pid file tells the truth.                                           *)

LEMMA PidInductive ==
  ASSUME RootInv, SoloTenant, SoloServer, PidHonest, [Next]_vars
  PROVE  PidHonest'
<1>0. TypeOK
  BY DEF RootInv
<1> DEFINE Early(p) == pc[p] = "start" /\ worker[p].at \notin {"launching", "ok"} \cup Dropping \cup {"err"}
           SetUp(p) == worker[p].op = "setup" /\ worker[p].at = "ok"
           Served(p) == pc[p] = "ready" \/ (worker[p].op = "start" /\ worker[p].at = "ok")
<1>1. SUFFICES ASSUME ~After({"timeout", "server_dies", "overlap"})'
      PROVE  /\ "pid" \in disk' => server' # "down"
             /\ \A p \in Procs : /\ Early(p)' => "pid" \notin disk'
                                 /\ SetUp(p)' => "pid" \notin disk'
                                 /\ Served(p)' => server' = "up"
  BY DEF PidHonest
<1>2. /\ Solo /\ Solo' /\ ~After({"timeout", "server_dies", "overlap"})
      /\ blame' \cap {"timeout", "server_dies", "overlap"} = {}
  BY <1>1, BlameGrows DEF Solo, After
<1>3. /\ "pid" \in disk => server # "down"
      /\ \A p \in Procs : /\ Early(p) => "pid" \notin disk
                          /\ SetUp(p) => "pid" \notin disk
                          /\ Served(p) => server = "up"
  BY <1>2 DEF PidHonest
<1>4. ~ServerDies
  BY <1>2 DEF ServerDies, Fault
<1>5. "pid" \in disk' => server' # "down"
  BY <1>2, <1>3, <1>4, ServerIsSpared
<1>6. ASSUME NEW p \in Procs, Early(p) \/ SetUp(p), Early(p)' \/ SetUp(p)' PROVE "pid" \notin disk'
  <2>1. SUFFICES ASSUME "pid" \in disk' PROVE FALSE
    OBVIOUS
  <2>2. "pid" \notin disk /\ server = "down" /\ server' # "down"
    BY <1>2, <1>3, <1>5, <1>6, <2>1 DEF SoloServer
  <2>3. PICK q \in Procs : StartServer(q) /\ Launch
    BY <1>2, <2>2, ServerIsSpared
  <2>4. worker[q].at = "launch" /\ worker'[q].at = "launching" /\ worker'[q].op = worker[q].op
    BY <1>0, <2>3 DEF StartServer, Launch, Goto, TypeOK, disks
  <2>5. q = p
    <3>1. Live(q)
      BY <2>4, WorkingIsLive
    <3>2. Live(p)
      BY <1>6, WorkingIsLive DEF Live, Over
    <3>3. QED
      BY <1>2, <3>1, <3>2 DEF SoloTenant
  <2>6. QED
    BY <1>6, <2>4, <2>5
<1>7. ASSUME NEW p \in Procs, ~Live(p) PROVE ~Early(p)' /\ ~SetUp(p)' /\ ~Served(p)'
  BY <1>7, IdleBegins DEF NoWorker, Over
<1>8. ASSUME NEW p \in Procs, Kill(p) PROVE ~Early(p)' /\ ~SetUp(p)' /\ ~Served(p)'
  BY <1>0, <1>8 DEF Kill, To, NoWorker, TypeOK
<1>9. ASSUME NEW p \in Procs, Step(p)
      PROVE  /\ Early(p)' \/ SetUp(p)' => Early(p) \/ SetUp(p)
             /\ Served(p)' => Served(p) /\ server' = server
  <2>1. server' = server
    BY <1>9 DEF Step, Begin, Stage, BeginCopy, EndCopy, Unstaged, EnsureDirs, MakeDir, OwnDir,
       PrepareXdg, ListTree, ChownTree, Spawn, Return, TestEnds, disks
  <2>2. CASE Return(p)
    <3>1. worker[p].op = pc[p] \/ pc[p] \in {"cleanup", "wipe"}
      BY <2>2, WorkingIsLive DEF Return, Op
    <3>2. worker'[p] = NoWorker
      BY <1>0, <2>2 DEF Return, TypeOK
    <3>3. pc'[p] = "start" => pc[p] = "setup" /\ worker[p].at = "ok"
      BY <1>0, <2>2 DEF Return, To, AfterOk, AfterErr, TypeOK
    <3>4. pc'[p] = "ready" => pc[p] = "start" /\ worker[p].at = "ok"
      BY <1>0, <2>2 DEF Return, To, AfterOk, AfterErr, TypeOK
    <3>5. QED
      BY <2>1, <3>1, <3>2, <3>3, <3>4 DEF NoWorker
  <2>3. CASE Spawn(p)
    <3>1. pc[p] \in Calls /\ worker[p].at = "none"
      BY <2>3 DEF Spawn, NoWorker
    <3>2. CASE pc' = pc /\ worker'[p].at \notin {"ok", "launching"}
      BY <2>1, <3>1, <3>2 DEF Dropping, Calls
    <3>3. CASE To(p, AfterErr(p)) /\ worker' = worker
      BY <1>0, <2>1, <3>1, <3>3 DEF To, AfterErr, TypeOK
    <3>4. QED
      BY <1>0, <2>3, <3>2, <3>3 DEF Spawn, Entry, TypeOK
  <2>4. CASE ~(Return(p) \/ Spawn(p))
    <3>1. worker' = worker
      BY <1>9, <2>4 DEF Step, Begin, Stage, BeginCopy, EndCopy, Unstaged, EnsureDirs, MakeDir,
         OwnDir, PrepareXdg, ListTree, ChownTree, Unprepared, TestEnds
    <3>2. pc'[p] \notin {"start", "ready"}
      BY <1>0, <1>9, <2>4 DEF Step, Begin, Stage, BeginCopy, EndCopy, EnsureDirs, MakeDir, OwnDir,
         PrepareXdg, ListTree, ChownTree, TestEnds, To, TypeOK
    <3>3. QED
      BY <2>1, <3>1, <3>2
  <2>5. QED
    BY <2>2, <2>3, <2>4
<1>10. ASSUME NEW p \in Procs, WorkerStep(p), UNCHANGED parent
       PROVE  /\ Early(p)' => Early(p)
              /\ SetUp(p)' => "pid" \notin disk'
              /\ Served(p)' => server' = "up"
  <2>1. worker'[p].op = worker[p].op /\ pc' = pc /\ Shape(p)
    BY <1>10, WorkKeepsOp DEF parent, RootInv
  <2>2. worker[p].at \notin {"none", "ok", "err"} /\ Live(p) /\ pc[p] \in Calls /\ worker[p].op = Op(p)
    <3>1. worker[p].at \notin {"none", "ok", "err"}
      BY <1>10 DEF WorkerStep, CheckSetup, DataDirExists, Validate, Install, StartInitdb,
         InitdbReturns, CheckStatus, StartServer, ServerStarted, StopServer, ServerStopped,
         DropValue, ValueDropped, WorkerGivesUp, RemoveEntry, RemoveTop, RemoveFails,
         RemoveStopsShort, Removing
    <3>2. QED
      BY <3>1, WorkingIsLive
  <2>3. CASE CheckStatus(p) \/ StartServer(p) \/ ServerStarted(p)
    <3>1. worker[p].op = "start" /\ pc[p] = "start"
      BY <1>0, <2>1, <2>2, <2>3 DEF CheckStatus, StartServer, ServerStarted, Shape, SetupPlaces,
         Ended, Dropping, TypeOK, Ops, Cleanups, Wipes, Op, Calls
    <3>2. worker'[p].at \in {"launch", "launching", "ok", "drop"}
      BY <1>0, <2>3 DEF CheckStatus, StartServer, ServerStarted, Goto, Ends, TypeOK
    <3>3. worker'[p].at = "launch" => Early(p)
      <4>1. worker[p].at = "launching" => worker'[p].at # "launch"
        BY <1>0, <2>3 DEF CheckStatus, StartServer, ServerStarted, Goto, Ends, TypeOK
      <4>2. worker[p].at \in {"status", "launch", "launching"}
        BY <2>3 DEF CheckStatus, StartServer, ServerStarted
      <4>3. QED
        BY <3>1, <4>1, <4>2 DEF Dropping
    <3>4. worker'[p].at = "ok" => server' = "up"
      <4>1. CASE CheckStatus(p)
        <5>1. "pid" \notin disk
          BY <1>3, <3>1, <4>1 DEF CheckStatus, Dropping
        <5>2. QED
          BY <1>0, <4>1, <5>1 DEF CheckStatus, Goto, TypeOK
      <4>2. CASE StartServer(p) \/ ServerStarted(p)
        BY <1>0, <4>2 DEF StartServer, ServerStarted, Goto, Ends, TypeOK, disks
      <4>3. QED
        BY <2>3, <4>1, <4>2
    <3>5. QED
      BY <2>1, <3>1, <3>2, <3>3, <3>4 DEF Dropping
  <2>4. CASE DropValue(p) \/ ValueDropped(p)
    <3>1. worker[p].at \in Dropping /\ disk' = disk
      BY <2>4 DEF DropValue, ValueDropped, SignalServer, Dropping, disks
    <3>2. worker[p].op = "start" => worker'[p].at # "ok"
      BY <1>0, <2>1, <2>4, <3>1 DEF Shape, DropValue, ValueDropped, Goto, Outcome, TypeOK
    <3>3. worker'[p].at \in {"dropping", "ok", "err"}
      BY <1>0, <2>4 DEF DropValue, ValueDropped, Goto, Outcome, TypeOK
    <3>4. worker'[p].at = "ok" => "pid" \notin disk
      <4>1. "pid" \in disk => CanStop
        BY <1>2, <1>3 DEF CanStop, SoloServer
      <4>2. CASE DropValue(p)
        BY <1>0, <4>1, <4>2 DEF DropValue, Goto, TypeOK
      <4>3. CASE ValueDropped(p)
        BY <1>3, <4>3 DEF ValueDropped
      <4>4. QED
        BY <2>4, <4>2, <4>3
    <3>5. pc[p] # "ready"
      BY <2>2 DEF Calls
    <3>6. QED
      BY <2>1, <3>1, <3>2, <3>3, <3>4, <3>5 DEF Dropping
  <2>5. CASE RemoveEntry(p) \/ RemoveTop(p) \/ RemoveFails(p) \/ RemoveStopsShort(p)
    <3>1. worker[p].at \in Removing
      BY <2>5 DEF RemoveEntry, RemoveTop, RemoveFails, RemoveStopsShort
    <3>2. pc[p] \in {"setup", "start"} => worker[p].at = "reset"
      BY <2>1, <2>2, <3>1 DEF Shape, Removing, Op, SetupPlaces, Ended, Dropping
    <3>3. worker[p].op \in {"setup", "start"} => worker[p].at = "reset"
      BY <2>1, <3>1 DEF Shape, Removing, SetupPlaces, Ended, Dropping
    <3>4. worker[p].at = "reset" => worker'[p].at # "ok"
      BY <1>0, <2>5, RemovedEffect DEF RemoveEntry, RemoveTop, RemoveFails, RemoveStopsShort
    <3>5. pc[p] # "ready"
      BY <2>2 DEF Calls
    <3>6. QED
      BY <2>1, <3>2, <3>3, <3>4, <3>5 DEF Dropping
  <2>6. CASE \/ CheckSetup(p) \/ DataDirExists(p) \/ Validate(p) \/ Install(p) \/ StartInitdb(p)
             \/ InitdbReturns(p) \/ StopServer(p) \/ ServerStopped(p)
    <3>1. worker'[p].at # "ok"
      BY <1>0, <2>6 DEF CheckSetup, DataDirExists, Validate, Install, StartInitdb, InitdbReturns,
         StopServer, ServerStopped, SetupReturns, Goto, Ends, TypeOK
    <3>2. worker[p].at \notin {"launching", "ok"} \cup Dropping \cup {"err"}
      BY <2>6 DEF CheckSetup, DataDirExists, Validate, Install, StartInitdb, InitdbReturns,
         StopServer, ServerStopped, Dropping
    <3>3. pc[p] # "ready"
      BY <2>2 DEF Calls
    <3>4. QED
      BY <2>1, <3>1, <3>2, <3>3
  <2>7. CASE WorkerGivesUp(p)
    BY <1>2, <2>7 DEF WorkerGivesUp, Fault
  <2>8. QED
    BY <1>10, <2>3, <2>4, <2>5, <2>6, <2>7 DEF WorkerStep
<1>11. ASSUME Tools, UNCHANGED <<worker, parent>>, NEW p \in Procs, Served(p)' PROVE server' = "up"
  <2>1. Served(p)
    BY <1>11 DEF parent
  <2>2. server = "up" /\ ~orphan'
    BY <1>2, <1>3, <2>1, ServerIsSpared
  <2>3. QED
    BY <1>4, <1>11, <2>2 DEF Tools, InitdbCheck, InitdbWrite, InitdbFails, InitdbKilled, Lose, Add,
       ServerUp, ServerFails, ServerStops, disks
<1>12. ASSUME NEW p \in Procs
       PROVE  /\ Early(p)' => "pid" \notin disk'
              /\ SetUp(p)' => "pid" \notin disk'
              /\ Served(p)' => server' = "up"
  <2>1. CASE ~Live(p) \/ Kill(p)
    BY <1>7, <1>8, <2>1
  <2>2. CASE Step(p)
    BY <1>3, <1>6, <1>9, <2>2
  <2>3. CASE WorkerStep(p) /\ UNCHANGED parent
    BY <1>6, <1>10, <2>3
  <2>4. CASE Tools /\ UNCHANGED <<worker, parent>>
    <3>1. Early(p)' \/ SetUp(p)' => Early(p) \/ SetUp(p)
      BY <2>4 DEF parent
    <3>2. QED
      BY <1>6, <1>11, <2>4, <3>1
  <2>5. CASE UNCHANGED vars
    BY <1>3, <2>5 DEF vars, parent, disks
  <2>6. QED
    BY <1>2, <2>1, <2>2, <2>3, <2>4, <2>5, OneAtWork
<1>13. QED
  BY <1>5, <1>12

LEMMA PidHolds == Spec => []PidHonest
<1>1. Init => PidHonest
  BY DEF Init, PidHonest, NoWorker
<1>2. QED
  BY <1>1, PidInductive, RootInvHolds, TenantHolds, ServerHolds, PTL DEF Spec

-----------------------------------------------------------------------------
(* A data directory is empty or whole, except where somebody is at work.   *)

LEMMA BeforeNames ==
  /\ Before("subdirs") = {} /\ Before("PG_VERSION") = {"subdirs"}
  /\ Before("conf") = {"subdirs", "PG_VERSION"}
  /\ Before("map") = {"subdirs", "PG_VERSION", "conf"}
  /\ Before("rest") = {"subdirs", "PG_VERSION", "conf", "map"}
  BY DEF Before

LEMMA FilesInductive ==
  ASSUME RootInv, SoloTenant, SoloTenant', FilesInv, [Next]_vars
  PROVE  FilesInv'
<1>0. TypeOK
  BY DEF RootInv
<1> DEFINE Settled == DataContents \cap disk = {} \/ Whole
           Files(p) ==
             /\ initdb[p] \in Pieces => "data" \in disk /\ DataContents \cap disk = Before(initdb[p])
             /\ initdb[p] = "ok" => Whole
             /\ worker[p].at # "reset"
             /\ pc[p] = "ready" \/ worker[p].at \in {"status", "launch", "launching"} => Whole
             /\ worker[p].op \in {"setup", "start"} /\ worker[p].at \in Ended /\ ~worker[p].bad => Whole
             /\ pc[p] \in {"data", "own_data", "xdg"} => "install" \in disk /\ "install" \notin rootOwned
             /\ Live(p) /\ pc[p] \notin {"stage", "copy", "dirs", "own", "data", "own_data"}
                  => rootOwned = {}
           Filling(p) == initdb[p] \in Pieces \/ worker[p].at = "rm_data"
<1>1. SUFFICES ASSUME Unhurt'
      PROVE  /\ Settled' \/ \E p \in Procs : Filling(p)'
             /\ \A p \in Procs : Files(p)'
  BY DEF FilesInv
<1>2. /\ Unhurt /\ Solo /\ Solo'
      /\ blame' \cap {"timeout", "kill", "remove", "overlap"} = {}
  BY <1>1, BlameGrows DEF Unhurt, Solo, After
<1>3. (Settled \/ \E p \in Procs : Filling(p)) /\ \A p \in Procs : Files(p)
  BY <1>2 DEF FilesInv
<1>4. \A p \in Procs : ~Kill(p)
  BY <1>2 DEF Kill, Fault
<1>5. ASSUME NEW p \in Procs, ~Live(p) PROVE Files(p)'
  <2>1. pc'[p] \in {"new", "stage"} \cup Over /\ worker'[p] = NoWorker
    BY <1>5, IdleBegins DEF Over
  <2>2. initdb'[p] = "none"
    BY <1>2, <2>1 DEF SoloTenant, NoWorker
  <2>3. QED
    BY <2>1, <2>2, PieceNames DEF NoWorker, Over, Live, Ended, Dropping
<1>6. ASSUME NEW p \in Procs, Live(p)
      PROVE  (Settled' \/ Filling(p)') /\ Files(p)'
  <2>1. \A q \in Procs \ {p} : ~Live(q) /\ worker[q] = NoWorker /\ initdb[q] = "none"
    BY <1>2, <1>6, OneAtWork
  <2>2. (Settled \/ Filling(p)) /\ Files(p) /\ (initdb[p] # "none" <=> worker[p].at = "initdb")
    BY <1>2, <1>3, <2>1, PieceNames DEF NoWorker, SoloTenant
  <2>3. CASE Step(p)
    <3>1. initdb[p] = "none" /\ initdb'[p] = "none" /\ Settled
      <4>1. worker[p].at \in {"none", "ok", "err"}
        BY <2>3 DEF Step, Begin, Stage, BeginCopy, EndCopy, EnsureDirs, MakeDir, OwnDir,
           PrepareXdg, ListTree, ChownTree, Spawn, Return, TestEnds, NoWorker, RootInv, Shape,
           Calls
      <4>2. initdb' = initdb
        BY <2>3 DEF Step, Begin, Stage, BeginCopy, EndCopy, Unstaged, EnsureDirs, MakeDir, OwnDir,
           PrepareXdg, ListTree, ChownTree, Unprepared, Spawn, Return, TestEnds
      <4>3. QED
        BY <2>2, <4>1, <4>2, PieceNames
    <3>2. CASE EnsureDirs(p) \/ PrepareXdg(p)
      <4>1. worker'[p] = worker[p] /\ worker[p] = NoWorker
        BY <3>2 DEF EnsureDirs, MakeDir, OwnDir, PrepareXdg, Unprepared, RootInv, Shape, Calls
      <4>2. DataContents \cap disk' = DataContents \cap disk /\ disk \subseteq disk'
        BY <3>2, PieceNames DEF EnsureDirs, MakeDir, OwnDir, PrepareXdg, MakeAsRoot, DataContents
      <4>3. Settled'
        BY <3>1, <4>2 DEF Whole
      <4>4. /\ pc'[p] \in {"own", "data", "own_data", "xdg", "list", "failed"}
            /\ pc'[p] \in {"data", "own_data", "xdg"}
                 => "install" \in disk' /\ "install" \notin rootOwned'
            /\ pc'[p] \in {"xdg", "list"} => rootOwned' = {}
        <5>1. CASE MakeDir(p, "dirs", "install", "own")
          BY <1>0, <5>1 DEF MakeDir, To, TypeOK
        <5>2. CASE OwnDir(p, "own", "install", "data")
          BY <1>0, <5>2 DEF OwnDir, To, TypeOK
        <5>3. CASE MakeDir(p, "data", "data", "own_data")
          <6>1. "install" \in disk /\ "install" \notin rootOwned
            BY <2>2, <5>3 DEF MakeDir
          <6>2. QED
            BY <1>0, <5>3, <6>1 DEF MakeDir, MakeAsRoot, To, TypeOK
        <5>4. CASE OwnDir(p, "own_data", "data", "xdg")
          <6>1. "install" \in disk /\ "install" \notin rootOwned
            BY <2>2, <5>4 DEF OwnDir
          <6>2. rootOwned \ {"data"} = {}
            BY <1>0, <6>1 DEF TypeOK
          <6>3. QED
            BY <1>0, <5>4, <6>1, <6>2 DEF OwnDir, To, TypeOK
        <5>5. CASE PrepareXdg(p)
          <6>1. rootOwned = {} /\ "install" \in disk
            BY <1>6, <2>2, <5>5 DEF PrepareXdg
          <6>2. QED
            BY <1>0, <5>5, <6>1 DEF PrepareXdg, MakeAsRoot, To, TypeOK
        <5>6. QED
          BY <3>2, <5>1, <5>2, <5>3, <5>4, <5>5 DEF EnsureDirs
      <4>5. QED
        BY <3>1, <4>1, <4>3, <4>4, PieceNames DEF NoWorker, Live, Over, Ended, Dropping
    <3>3. CASE ~(EnsureDirs(p) \/ PrepareXdg(p))
      <4>1. UNCHANGED <<disk, rootOwned>>
        BY <2>3, <3>3 DEF Step, Begin, Stage, BeginCopy, EndCopy, Unstaged, ListTree, ChownTree,
           Spawn, Return, TestEnds, disks
      <4>2. Settled' /\ (Whole => Whole')
        BY <3>1, <4>1 DEF Whole
      <4>3. worker'[p].at \in {"none", "check", "stop", "rm_data"}
        <5>1. CASE Spawn(p)
          BY <1>0, <5>1 DEF Spawn, Entry, NoWorker, TypeOK
        <5>2. CASE Return(p)
          BY <1>0, <5>2 DEF Return, NoWorker, TypeOK
        <5>3. CASE ~(Spawn(p) \/ Return(p))
          BY <2>3, <3>3, <5>3 DEF Step, Begin, Stage, BeginCopy, EndCopy, Unstaged, ListTree,
             ChownTree, Unprepared, TestEnds, RootInv, Shape, Calls, NoWorker
        <5>4. QED
          BY <5>1, <5>2, <5>3
      <4>4. pc'[p] = "ready" => Whole
        <5>1. CASE Return(p)
          <6>1. pc'[p] = "ready" => worker[p].op = "start" /\ worker[p].at = "ok"
            BY <1>0, <5>1, WorkingIsLive DEF Return, To, AfterOk, AfterErr, Op, TypeOK
          <6>2. worker[p].op = "start" /\ worker[p].at = "ok" => ~worker[p].bad
            BY DEF RootInv, Shape, Dropping
          <6>3. QED
            BY <2>2, <6>1, <6>2 DEF Ended
        <5>2. CASE ~Return(p)
          BY <1>0, <2>2, <2>3, <3>3, <5>2 DEF Step, Begin, Stage, BeginCopy, EndCopy, ListTree,
             ChownTree, Spawn, AfterErr, TestEnds, To, TypeOK, Calls
        <5>3. QED
          BY <5>1, <5>2
      <4>5. pc'[p] \notin {"data", "own_data", "xdg"}
        BY <1>0, <2>3, <3>3 DEF Step, Begin, Stage, BeginCopy, EndCopy, ListTree, ChownTree, Spawn,
           Return, AfterOk, AfterErr, TestEnds, To, TypeOK, Calls
      <4>6. Live(p)' /\ pc'[p] \notin {"stage", "copy", "dirs", "own", "data", "own_data"}
              => rootOwned' = {}
        <5>1. pc[p] \in {"new", "stage", "copy", "dirs", "own", "data", "own_data"} =>
                pc'[p] \in {"stage", "copy", "dirs"}
          BY <1>0, <2>3, <3>3 DEF Step, Begin, Stage, BeginCopy, EndCopy, ListTree, ChownTree,
             Spawn, Return, TestEnds, To, TypeOK, Calls, RootInv, Shape, NoWorker
        <5>2. QED
          BY <1>6, <2>2, <4>1, <5>1 DEF Live
      <4>7. QED
        BY <3>1, <4>2, <4>3, <4>4, <4>5, <4>6, PieceNames DEF Ended, Dropping
    <3>4. QED
      BY <3>2, <3>3
  <2>4. CASE WorkerStep(p) /\ UNCHANGED parent
    <3>1. worker[p].at \notin {"none", "ok", "err"} /\ Shape(p)
      BY <2>4 DEF WorkerStep, CheckSetup, DataDirExists, Validate, Install, StartInitdb,
         InitdbReturns, CheckStatus, StartServer, ServerStarted, StopServer, SignalServer,
         ServerStopped, DropValue, ValueDropped, WorkerGivesUp, RemoveEntry, RemoveTop,
         RemoveFails, RemoveStopsShort, Removing, RootInv
    <3>2. pc[p] \in Calls /\ pc'[p] = pc[p] /\ worker'[p].op = worker[p].op
      BY <2>4, <3>1, WorkingIsLive, WorkKeepsOp DEF parent
    <3>3. rootOwned = {}
      BY <1>6, <2>2, <3>2 DEF Calls
    <3>4. rootOwned' = {}
      BY <2>4, <3>3 DEF WorkerStep, CheckSetup, DataDirExists, Validate, Install, StartInitdb,
         InitdbReturns, CheckStatus, StartServer, ServerStarted, StopServer, SignalServer,
         ServerStopped, DropValue, ValueDropped, WorkerGivesUp, RemoveEntry, RemoveTop,
         RemoveFails, RemoveStopsShort, Launch, Lose, Add, disks
    <3> DEFINE Mine == /\ initdb'[p] \notin Pieces \cup {"ok"}
                       /\ worker'[p].at # "reset"
                       /\ worker'[p].at \in {"status", "launch", "launching"} => Whole'
                       /\ worker[p].op \in {"setup", "start"} /\ worker'[p].at \in Ended /\ ~worker'[p].bad
                            => Whole'
                       /\ Settled' \/ worker'[p].at = "rm_data"
    <3>5. Mine => (Settled' \/ Filling(p)') /\ Files(p)'
      BY <3>2, <3>4, PieceNames DEF Calls
    <3>6. worker[p].at # "initdb" => initdb[p] = "none"
      BY <2>2
    <3>7. worker[p].at \notin {"initdb", "rm_data"} => Settled
      BY <2>2, <3>6, PieceNames
    <3>8. CASE CheckSetup(p) \/ DataDirExists(p) \/ Validate(p) \/ Install(p) \/ StartInitdb(p)
      <4>1. Settled /\ initdb[p] = "none"
        BY <3>6, <3>7, <3>8 DEF CheckSetup, DataDirExists, Validate, Install, StartInitdb
      <4>2. disk \subseteq disk' /\ DataContents \cap disk' = DataContents \cap disk
        BY <3>8, PieceNames DEF CheckSetup, DataDirExists, Validate, Install, StartInitdb, Add,
           disks, DataContents
      <4>3. Settled' /\ (Whole => Whole')
        BY <4>1, <4>2 DEF Whole
      <4>4. initdb'[p] \in {"none", "check"}
        BY <1>0, <3>8, <4>1 DEF CheckSetup, DataDirExists, Validate, Install, StartInitdb,
           InitdbTo, TypeOK
      <4>5. CASE CheckSetup(p)
        <5>1. SetupComplete => Whole
          BY <4>1, PieceNames DEF SetupComplete, DataContents
        <5>2. worker'[p].at \in {"drop", "status", "exists"} /\ (worker'[p].at # "exists" => Whole)
          BY <1>0, <4>5, <5>1 DEF CheckSetup, SetupReturns, Goto, Ends, Outcome, TypeOK
        <5>3. QED
          BY <3>5, <4>3, <4>4, <5>2, PieceNames DEF Ended, Dropping
      <4>6. CASE DataDirExists(p) \/ Validate(p) \/ Install(p)
        <5>1. worker'[p].at \in {"valid", "setup", "init"} \/ (worker'[p].at = "drop" /\ worker'[p].bad)
          BY <1>0, <4>1, <4>6, PieceNames DEF DataDirExists, Validate, Install, Goto, Ends,
             Outcome, TypeOK, Whole
        <5>2. QED
          BY <3>5, <4>3, <4>4, <5>1, PieceNames DEF Ended, Dropping
      <4>7. CASE StartInitdb(p)
        <5>1. "conf" \in disk => Whole
          BY <4>1, PieceNames DEF DataContents
        <5>2. \/ worker'[p].at \in {"drop", "status"} /\ Whole
              \/ worker'[p].at = "initdb"
              \/ worker'[p].at = "drop" /\ worker'[p].bad
          BY <1>0, <4>7, <5>1 DEF StartInitdb, SetupReturns, Goto, Ends, Outcome, TypeOK
        <5>3. QED
          BY <3>5, <4>3, <4>4, <5>2, PieceNames DEF Ended, Dropping
      <4>8. QED
        BY <3>8, <4>5, <4>6, <4>7
    <3>9. CASE InitdbReturns(p)
      <4>1. initdb[p] \notin Pieces /\ initdb'[p] = "none" /\ UNCHANGED disk
        BY <1>0, <3>9, PieceNames DEF InitdbReturns, InitdbTo, TypeOK, disks
      <4>2. Settled
        BY <2>2, <3>9, <4>1 DEF InitdbReturns
      <4>3. \/ worker'[p].at \in {"drop", "status"} /\ Whole
            \/ worker'[p].at = "drop" /\ worker'[p].bad
        BY <1>0, <2>2, <3>9 DEF InitdbReturns, SetupReturns, Goto, Ends, Outcome, TypeOK
      <4>4. QED
        BY <3>5, <4>1, <4>2, <4>3, PieceNames DEF Whole, Ended, Dropping
    <3>10. CASE CheckStatus(p) \/ StartServer(p) \/ ServerStarted(p)
      <4>1. Whole /\ initdb'[p] = "none"
        BY <2>2, <3>6, <3>10 DEF CheckStatus, StartServer, ServerStarted
      <4>2. disk \subseteq disk'
        BY <3>10 DEF CheckStatus, StartServer, ServerStarted, Launch, disks
      <4>3. worker'[p].at \in {"ok", "launch", "launching", "drop"}
        BY <1>0, <3>10 DEF CheckStatus, StartServer, ServerStarted, Goto, Ends, Outcome, TypeOK
      <4>4. QED
        BY <3>5, <4>1, <4>2, <4>3, PieceNames DEF Whole
    <3>11. CASE StopServer(p) \/ ServerStopped(p)
      <4>1. /\ Settled /\ initdb'[p] = "none" /\ UNCHANGED disk
            /\ worker[p].op \notin {"setup", "start"}
        BY <3>1, <3>6, <3>7, <3>11 DEF StopServer, SignalServer, ServerStopped, disks, Shape,
           SetupPlaces, Ended, Dropping
      <4>2. worker'[p].at \in {"stopping", "drop"}
        BY <1>0, <3>11 DEF StopServer, ServerStopped, Goto, Ends, TypeOK
      <4>3. QED
        BY <3>5, <4>1, <4>2, PieceNames DEF Whole
    <3>15. CASE DropValue(p) \/ ValueDropped(p)
      <4>1. Settled /\ initdb'[p] = "none" /\ UNCHANGED disk /\ worker[p].at \in Dropping
        BY <3>6, <3>7, <3>15 DEF DropValue, ValueDropped, SignalServer, disks, Dropping
      <4>2. worker'[p].at \in {"dropping", "ok", "err"} /\ worker'[p].bad = worker[p].bad
        BY <1>0, <3>15 DEF DropValue, ValueDropped, Goto, Outcome, TypeOK
      <4>3. worker[p].op \in {"setup", "start"} /\ ~worker[p].bad => Whole
        BY <2>2, <4>1 DEF Ended
      <4>4. QED
        BY <3>5, <4>1, <4>2, <4>3, PieceNames DEF Whole
    <3>12. CASE WorkerGivesUp(p)
      BY <1>2, <3>12 DEF WorkerGivesUp, Fault
    <3>13. CASE RemoveEntry(p) \/ RemoveTop(p) \/ RemoveFails(p) \/ RemoveStopsShort(p)
      <4>1. worker[p].at \in {"rm_data", "rm_install"} /\ initdb[p] = "none" /\ initdb' = initdb
        BY <2>2, <3>6, <3>13 DEF RemoveEntry, RemoveTop, RemoveFails, RemoveStopsShort, Removing
      <4>2. worker[p].op \notin {"setup", "start"}
        BY <2>2, <3>1, <3>13, <4>1 DEF Shape, SetupPlaces, Ended, Dropping
      <4>3. ~Disturbed(p) /\ Allowed(p)
        BY <1>2, <3>3, <4>1, NobodyInterferes DEF Allowed, Removing
      <4>4. CASE RemoveEntry(p)
        <5>1. worker' = worker
          BY <4>4 DEF RemoveEntry
        <5>2. Settled' \/ worker[p].at = "rm_data"
          <6>1. SUFFICES ASSUME worker[p].at = "rm_install" PROVE Settled'
            BY <4>1
          <6>2. Settled
            BY <3>7, <6>1
          <6>3. PICK x \in InstallTree \ {"install"} : Lose({x})
            BY <4>4, <6>1 DEF RemoveEntry, Tree, Top
          <6>4. QED
            BY <6>2, <6>3, PieceNames DEF Lose, InstallTree, DataContents, Whole
        <5>3. QED
          BY <3>5, <4>1, <4>2, <5>1, <5>2, PieceNames
      <4>5. CASE RemoveTop(p)
        <5>1. worker'[p].at \in {"rm_install", "ok", "err"}
          BY <1>0, <4>1, <4>5, RemovedEffect DEF RemoveTop
        <5>2. Settled'
          <6>1. CASE worker[p].at = "rm_data"
            BY <4>5, <6>1, PieceNames DEF RemoveTop, Lose, Tree, Top, DataTree, DataContents
          <6>2. CASE worker[p].at = "rm_install"
            BY <3>7, <4>5, <6>2, PieceNames DEF RemoveTop, Lose, Top, DataContents, Whole
          <6>3. QED
            BY <4>1, <6>1, <6>2
        <5>3. QED
          BY <3>5, <4>1, <4>2, <5>1, <5>2, PieceNames
      <4>6. CASE RemoveFails(p)
        BY <1>2, <4>3, <4>6 DEF RemoveFails, Fault
      <4>7. CASE RemoveStopsShort(p)
        BY <4>3, <4>7 DEF RemoveStopsShort, Disturbed
      <4>8. QED
        BY <3>13, <4>4, <4>5, <4>6, <4>7
    <3>14. QED
      BY <2>4, <3>8, <3>9, <3>10, <3>11, <3>12, <3>13, <3>15
         DEF WorkerStep
  <2>5. CASE Tools /\ UNCHANGED <<worker, parent>>
    <3>1. pc' = pc /\ worker' = worker
      BY <2>5 DEF parent
    <3>2. CASE InitdbCheck(p) \/ InitdbWrite(p) \/ InitdbFails(p) \/ InitdbKilled(p)
      <4>1. worker[p].at = "initdb" /\ pc[p] \in Calls
        <5>1. initdb[p] # "none"
          BY <3>2, PieceNames DEF InitdbCheck, InitdbWrite, InitdbFails, InitdbKilled, InitdbRunning
        <5>2. QED
          BY <2>2, <5>1, WorkingIsLive
      <4>2. rootOwned' = {}
        <5>1. rootOwned = {}
          BY <1>6, <2>2, <4>1 DEF Calls
        <5>2. QED
          BY <3>2, <5>1 DEF InitdbCheck, InitdbWrite, InitdbFails, InitdbKilled, Lose, Add, disks
      <4> DEFINE Mine == /\ initdb'[p] \in Pieces
                              => "data" \in disk' /\ DataContents \cap disk' = Before(initdb'[p])
                         /\ initdb'[p] = "ok" => Whole'
                         /\ Settled' \/ initdb'[p] \in Pieces
      <4>3. SUFFICES Mine
        BY <3>1, <4>1, <4>2 DEF Calls, Ended, Dropping
      <4>4. CASE InitdbCheck(p)
        <5>1. CASE InitdbTo(p, "failed") /\ UNCHANGED disks
          <6>1. Settled /\ initdb'[p] = "failed" /\ UNCHANGED disk
            BY <1>0, <2>2, <4>1, <4>4, <5>1, PieceNames DEF InitdbCheck, InitdbTo, TypeOK, disks
          <6>2. QED
            BY <6>1, PieceNames DEF Whole
        <5>2. CASE DataContents \cap disk = {} /\ InitdbTo(p, "subdirs") /\ Add({"data"})
          <6>1. initdb'[p] = "subdirs" /\ disk' = disk \cup {"data"}
            BY <1>0, <5>2 DEF InitdbTo, Add, TypeOK
          <6>2. QED
            BY <5>2, <6>1, PieceNames, BeforeNames DEF DataContents
        <5>3. QED
          BY <4>4, <5>1, <5>2 DEF InitdbCheck
      <4>5. CASE InitdbWrite(p)
        <5>1. /\ initdb[p] \in Pieces /\ initdb'[p] = NextPiece(initdb[p])
              /\ disk' = disk \cup {initdb[p]}
          BY <1>0, <4>5 DEF InitdbWrite, InitdbTo, Add, TypeOK
        <5>2. "data" \in disk /\ DataContents \cap disk = Before(initdb[p])
          BY <2>2, <5>1
        <5>3. DataContents \cap disk' = Before(initdb[p]) \cup {initdb[p]}
          BY <5>1, <5>2 DEF DataContents
        <5>4. CASE initdb[p] = "rest"
          <6>1. initdb'[p] = "ok" /\ DataContents \cap disk' = Pieces
            BY <5>1, <5>3, <5>4, PieceNames, BeforeNames
          <6>2. Whole'
            BY <5>1, <5>2, <6>1 DEF Whole
          <6>3. QED
            BY <6>1, <6>2, PieceNames
        <5>5. CASE initdb[p] # "rest"
          <6>1. initdb'[p] \in Pieces /\ Before(initdb'[p]) = Before(initdb[p]) \cup {initdb[p]}
            BY <5>1, <5>5, PieceNames, BeforeNames
          <6>2. QED
            BY <5>1, <5>2, <5>3, <6>1, PieceNames
        <5>6. QED
          BY <5>4, <5>5
      <4>6. CASE InitdbFails(p)
        <5>1. initdb'[p] = "failed" /\ DataContents \cap disk' = {}
          BY <1>0, <4>6 DEF InitdbFails, InitdbTo, TypeOK, Lose, DataTree
        <5>2. QED
          BY <5>1, PieceNames
      <4>7. CASE InitdbKilled(p)
        BY <1>2, <4>7 DEF InitdbKilled, Fault
      <4>8. QED
        BY <3>2, <4>4, <4>5, <4>6, <4>7
    <3>3. ASSUME NEW q \in Procs \ {p},
                 InitdbCheck(q) \/ InitdbWrite(q) \/ InitdbFails(q) \/ InitdbKilled(q)
          PROVE  FALSE
      BY <2>1, <3>3, PieceNames DEF InitdbCheck, InitdbWrite, InitdbFails, InitdbKilled,
         InitdbRunning
    <3>4. CASE ServerUp \/ ServerFails \/ ServerStops \/ ServerDies
      <4>1. UNCHANGED <<rootOwned, initdb>> /\ (disk' = disk \/ disk' = disk \ {"pid"})
        BY <3>4 DEF ServerUp, ServerFails, ServerStops, ServerDies
      <4>2. (Whole => Whole') /\ (DataContents \cap disk = {} => DataContents \cap disk' = {})
        BY <4>1, PieceNames DEF Whole
      <4>3. initdb[p] \in Pieces => DataContents \cap disk' = Before(initdb[p])
        <5>1. SUFFICES ASSUME initdb[p] \in Pieces, DataContents \cap disk = Before(initdb[p])
                       PROVE  DataContents \cap disk' = Before(initdb[p])
          BY <2>2
        <5>2. "pid" \notin Before(initdb[p])
          BY <5>1, PieceNames, BeforeNames
        <5>3. QED
          BY <4>1, <5>1, <5>2
      <4>4. ("data" \in disk => "data" \in disk') /\ ("install" \in disk => "install" \in disk')
        BY <4>1
      <4>5. QED
        BY <2>2, <3>1, <4>1, <4>2, <4>3, <4>4 DEF Live
    <3>5. QED
      BY <2>5, <3>2, <3>3, <3>4 DEF Tools
  <2>6. CASE UNCHANGED vars
    BY <2>2, <2>6 DEF vars, parent, disks, Whole, Live
  <2>7. QED
    BY <1>2, <1>4, <1>6, <2>3, <2>4, <2>5, <2>6, OneAtWork
<1>7. Settled' \/ \E p \in Procs : Filling(p)'
  <2>1. CASE \E p \in Procs : Live(p)
    BY <1>6, <2>1
  <2>2. CASE \A p \in Procs : ~Live(p)
    <3>1. \A p \in Procs : worker[p].at = "none" /\ initdb[p] = "none"
      BY <1>2, <2>2, WorkingIsLive DEF SoloTenant
    <3>2. disk' \subseteq disk /\ disk \ {"pid"} \subseteq disk'
      BY <1>2, <2>2, <3>1, WhoWrites, WhoRemoves, PieceNames DEF Removing
    <3>3. Settled
      BY <1>3, <3>1, PieceNames
    <3>4. QED
      BY <3>2, <3>3, PieceNames DEF Whole
  <2>3. QED
    BY <2>1, <2>2
<1>8. QED
  BY <1>5, <1>6, <1>7

LEMMA FilesHold == Spec => []FilesInv
<1>1. Init => FilesInv
  BY PieceNames DEF Init, FilesInv, NoWorker, Live
<1>2. RootInv /\ SoloTenant /\ SoloTenant' /\ FilesInv /\ [Next]_vars => FilesInv'
  BY FilesInductive
<1>3. QED
  BY <1>1, <1>2, RootInvHolds, TenantHolds, PTL DEF Spec

\* A Setup that reports success has left a whole data directory.
THEOREM SetupWhole == Spec => []SetupLeavesWhole
<1>1. RootInv /\ FilesInv => SetupLeavesWhole
  <2>1. SUFFICES ASSUME RootInv, FilesInv, NEW p \in Procs, worker[p].op = "setup",
                        worker[p].at = "ok", Unhurt
                 PROVE  Whole
    BY DEF SetupLeavesWhole, Unhurt
  <2>2. ~worker[p].bad
    BY <2>1 DEF RootInv, Shape, Dropping
  <2>3. QED
    BY <2>1, <2>2 DEF FilesInv, Ended
<1>2. QED
  BY <1>1, RootInvHolds, FilesHold, PTL

\* A test that was handed a cluster has a server on a whole data directory.
THEOREM ReadyServed == Spec => []ReadyHasServer
<1>1. FilesInv /\ PidHonest => ReadyHasServer
  BY DEF FilesInv, PidHonest, ReadyHasServer, Unhurt
<1>2. QED
  BY <1>1, FilesHold, PidHolds, PTL

-----------------------------------------------------------------------------
(* Without a fault nothing fails.                                          *)

LEMMA CauseInductive ==
  ASSUME RootInv, SoloTenant, SoloTenant', SoloServer, SoloRemoval, ServerKept, PidHonest, FilesInv,
         StagedWorkerWhole, CauseInv, [Next]_vars
  PROVE  CauseInv'
<1>0. TypeOK
  BY DEF RootInv
<1> DEFINE Settled == DataContents \cap disk = {} \/ Whole
           Binaries == "PG_VERSION" \in disk => "bin" \in disk
<1>1. ASSUME staged = "foreign" PROVE staged' = staged
  <2>1. \A p \in Procs : pc[p] # "copy"
    BY <1>1 DEF CauseInv, StagingDirRefused
  <2>2. QED
    BY <2>1 DEF Next, Step, Begin, Stage, BeginCopy, EndCopy, EnsureDirs, MakeDir, OwnDir,
       PrepareXdg, ListTree, ChownTree, Unprepared, Spawn, Return, TestEnds, Timeout, Kill, Work,
       parent, AllOver, vars
<1>2. ASSUME staged' = "foreign", NEW p \in Procs PROVE pc'[p] # "copy"
  <2>1. staged = "foreign"
    BY <1>2 DEF Next, Step, Begin, Stage, BeginCopy, EndCopy, EnsureDirs, MakeDir, OwnDir,
       PrepareXdg, ListTree, ChownTree, Unprepared, Spawn, Return, TestEnds, Timeout, Kill, Work,
       parent, AllOver, vars
  <2>2. pc[p] # "copy"
    BY <2>1 DEF CauseInv, StagingDirRefused
  <2>3. ASSUME NEW q \in Procs, Step(q) \/ Timeout(q) \/ Kill(q) PROVE pc'[p] # "copy"
    BY <1>0, <2>1, <2>2, <2>3 DEF Step, Begin, Stage, BeginCopy, EndCopy, EnsureDirs, MakeDir,
       OwnDir, PrepareXdg, ListTree, ChownTree, Unprepared, Spawn, Return, TestEnds, Timeout, Kill,
       To, AfterOk, AfterErr, StagingDirRefused, TypeOK
  <2>4. QED
    BY <2>2, <2>3 DEF Next, Work, parent, AllOver, vars
<1>3. SUFFICES ASSUME Faultless' PROVE Binaries' /\ \A p \in Procs : NothingWrong(p)'
  BY <1>2 DEF CauseInv, StagingDirRefused
<1>4. blame = {} /\ blame' = {} /\ staged # "foreign" /\ staged' # "foreign"
  BY <1>1, <1>3, BlameGrows DEF Faultless, StagingDirRefused
<1>5. /\ Solo /\ Solo' /\ Unkilled /\ Unhurt /\ ~After({"timeout", "server_dies", "overlap"})
      /\ ~After({"kill"}) /\ Faultless
  BY <1>4 DEF Solo, Unkilled, Unhurt, After, Faultless, StagingDirRefused
<1>6. Binaries /\ \A p \in Procs : NothingWrong(p)
  BY <1>5 DEF CauseInv
<1>7. \A f : ~Fault(f)
  BY <1>4 DEF Fault
<1>8. ASSUME NEW p \in Procs, ~Live(p) PROVE NothingWrong(p)'
  <2>1. pc'[p] \in {pc[p], "stage"} /\ pc[p] \in {"new"} \cup Over /\ worker'[p] = NoWorker
    BY <1>8, IdleBegins
  <2>2. initdb'[p] = "none"
    BY <1>5, <2>1 DEF SoloTenant, NoWorker
  <2>3. pc'[p] # "failed" /\ (Live(p)' => pc'[p] = "stage")
    BY <1>6, <2>1 DEF NothingWrong, Live
  <2>4. QED
    BY <2>1, <2>2, <2>3 DEF NothingWrong, NoWorker, Over
<1>9. ASSUME NEW p \in Procs, Live(p) PROVE Binaries' /\ NothingWrong(p)'
  <2>1. \A q \in Procs \ {p} : ~Live(q) /\ worker[q] = NoWorker /\ initdb[q] = "none"
    BY <1>5, <1>9, OneAtWork
  <2>2. NothingWrong(p) /\ Shape(p) /\ (initdb[p] # "none" <=> worker[p].at = "initdb")
    BY <1>5, <1>6 DEF SoloTenant, RootInv
  <2>3. worker[p].at \notin {"initdb", "rm_data"} => Settled
    BY <1>5, <2>1, <2>2, PieceNames DEF FilesInv, NoWorker
  <2>4. server # "down" => Keeps(p)
    BY <1>5, <2>1 DEF ServerKept, Keeps, Live, Over
  <2>5. pc[p] \in Calls => CanExecute(p) /\ rootOwned = {}
    BY <1>5, <1>9, <2>2 DEF NothingWrong, FilesInv, Calls
  <2>6. CASE Step(p)
    <3>1. /\ initdb[p] = "none" /\ initdb' = initdb
          /\ worker[p].at \in {"none", "ok"} /\ ~worker[p].bad
      <4>1. worker[p].at \in {"none", "ok"} /\ ~worker[p].bad
        BY <2>2, <2>6 DEF Step, Begin, Stage, BeginCopy, EndCopy, EnsureDirs, MakeDir, OwnDir,
           PrepareXdg, ListTree, ChownTree, Spawn, Return, TestEnds, NoWorker, Shape, Calls,
           NothingWrong
      <4>2. initdb' = initdb
        BY <2>6 DEF Step, Begin, Stage, BeginCopy, EndCopy, Unstaged, EnsureDirs, MakeDir, OwnDir,
           PrepareXdg, ListTree, ChownTree, Unprepared, Spawn, Return, TestEnds
      <4>3. QED
        BY <2>2, <4>1, <4>2
    <3>2. worker'[p].at \in {"none", "check", "stop", "rm_data"} /\ ~worker'[p].bad
      <4>1. CASE Spawn(p)
        <5>1. \/ worker'[p].at = Entry(Op(p)) /\ ~worker'[p].bad
              \/ worker' = worker /\ worker[p] = NoWorker
          BY <1>0, <4>1 DEF Spawn, TypeOK
        <5>2. Entry(Op(p)) \in {"check", "stop", "rm_data"}
          BY DEF Entry
        <5>3. QED
          BY <5>1, <5>2 DEF NoWorker
      <4>2. CASE Return(p)
        BY <1>0, <4>2 DEF Return, NoWorker, TypeOK
      <4>3. CASE ~(Spawn(p) \/ Return(p))
        <5>1. worker' = worker /\ pc[p] \notin Calls
          BY <2>6, <4>3 DEF Step, Begin, Stage, BeginCopy, EndCopy, Unstaged, EnsureDirs, MakeDir,
             OwnDir, PrepareXdg, ListTree, ChownTree, Unprepared, TestEnds, Calls
        <5>2. QED
          BY <2>2, <5>1 DEF Shape, NoWorker
      <4>4. QED
        BY <4>1, <4>2, <4>3
    <3>3. Binaries'
      <4>1. disk \subseteq disk' /\ ("PG_VERSION" \in disk' => "PG_VERSION" \in disk)
        BY <2>6 DEF Step, Begin, Stage, BeginCopy, EndCopy, Unstaged, EnsureDirs, MakeDir, OwnDir,
           PrepareXdg, MakeAsRoot, ListTree, ChownTree, Unprepared, Spawn, Return, TestEnds, disks
      <4>2. QED
        BY <1>6, <4>1
    <3> DEFINE Fine == /\ pc'[p] # "failed"
                       /\ Live(p)' /\ pc'[p] \notin {"stage", "copy"} => CanExecute(p)'
                       /\ pc'[p] = "own" => "install" \in disk'
                       /\ pc'[p] = "own_data" => "data" \in disk'
                       /\ pc'[p] = "chown" => seen'[p] \subseteq disk'
    <3>4. Fine => NothingWrong(p)'
      BY <3>1, <3>2 DEF NothingWrong
    <3>5. CASE Begin(p)
      BY <1>9, <3>5 DEF Begin, Live
    <3>6. CASE Stage(p)
      <4>1. CASE ShouldRestage
        BY <1>0, <1>4, <3>4, <3>6, <4>1, <3>3 DEF Stage, To, StagingDirRefused, TypeOK, Live
      <4>2. CASE ~ShouldRestage
        <5>1. staged \in {"partial", "whole"}
          BY <1>0, <1>4, <4>2 DEF ShouldRestage, TypeOK
        <5>2. staged # "partial"
          <6>1. \A q \in Procs : pc[q] # "copy"
            BY <2>1, <3>6 DEF Stage, Live, Over
          <6>2. QED
            BY <1>5, <6>1 DEF StagedWorkerWhole
        <5>3. pc'[p] = "dirs" /\ CanExecute(p)'
          BY <1>0, <1>4, <3>6, <4>2, <5>1, <5>2 DEF Stage, To, StagingDirRefused, CanExecute, TypeOK
        <5>4. QED
          BY <3>3, <3>4, <5>3
      <4>3. QED
        BY <4>1, <4>2
    <3>7. CASE BeginCopy(p)
      <4>1. ASSUME NEW q \in Procs, worker[q].op # "none" PROVE FALSE
        <5>1. q = p
          BY <2>1, <4>1 DEF NoWorker
        <5>2. QED
          BY <3>7, <4>1, <5>1, WorkingIsLive DEF BeginCopy, Calls
      <4>2. pc' = pc
        BY <3>7, <4>1 DEF BeginCopy
      <4>3. QED
        BY <3>3, <3>4, <3>7, <4>2 DEF BeginCopy
    <3>8. CASE EndCopy(p)
      <4>1. ~\E q \in Procs \ {p} : pc[q] = "copy"
        BY <2>1 DEF Live, Over
      <4>2. pc'[p] = "dirs" /\ CanExecute(p)'
        BY <1>0, <3>8, <4>1 DEF EndCopy, To, CanExecute, TypeOK
      <4>3. QED
        BY <3>3, <3>4, <4>2
    <3>9. CASE EnsureDirs(p) \/ PrepareXdg(p) \/ ListTree(p) \/ ChownTree(p)
      <4>1. CanExecute(p)'
        <5>1. CanExecute(p)
          BY <1>9, <2>2, <3>9 DEF NothingWrong, EnsureDirs, MakeDir, OwnDir, PrepareXdg, ListTree,
             ChownTree
        <5>2. QED
          BY <3>9, <5>1 DEF EnsureDirs, MakeDir, OwnDir, PrepareXdg, ListTree, ChownTree,
             Unprepared, CanExecute
      <4>2. pc'[p] \in {"own", "data", "own_data", "xdg", "list", "chown", "setup"}
        BY <1>0, <2>2, <3>9 DEF EnsureDirs, MakeDir, OwnDir, PrepareXdg, ListTree, ChownTree, To,
           NothingWrong, TypeOK
      <4>3. /\ pc'[p] = "own" => "install" \in disk'
            /\ pc'[p] = "own_data" => "data" \in disk'
        BY <1>0, <2>2, <3>9 DEF EnsureDirs, MakeDir, OwnDir, PrepareXdg, ListTree, ChownTree,
           MakeAsRoot, To, NothingWrong, TypeOK
      <4>4. pc'[p] = "chown" => seen'[p] \subseteq disk'
        <5>1. CASE ListTree(p)
          BY <1>0, <5>1 DEF ListTree, disks, TypeOK
        <5>2. CASE ~ListTree(p)
          BY <1>0, <2>2, <3>9, <5>2 DEF EnsureDirs, MakeDir, OwnDir, PrepareXdg, ChownTree, To,
             NothingWrong, TypeOK
        <5>3. QED
          BY <5>1, <5>2
      <4>5. QED
        BY <3>3, <3>4, <4>1, <4>2, <4>3, <4>4
    <3>10. CASE Spawn(p)
      <4>1. CanExecute(p) /\ pc' = pc
        BY <2>5, <3>10 DEF Spawn
      <4>2. CanExecute(p)' /\ pc[p] \in Calls
        BY <3>10, <4>1 DEF Spawn, CanExecute
      <4>3. QED
        BY <3>3, <3>4, <4>1, <4>2 DEF Calls
    <3>11. CASE Return(p)
      <4>1. worker[p].at = "ok" /\ pc[p] \in Calls
        BY <2>2, <3>11, WorkingIsLive DEF Return, NothingWrong
      <4>2. pc'[p] \in Calls \cup {"ready", "done"}
        BY <1>0, <3>11, <4>1 DEF Return, To, AfterOk, Calls, TypeOK
      <4>3. CanExecute(p)'
        BY <2>5, <3>11, <4>1 DEF Return, CanExecute
      <4>4. QED
        BY <3>3, <3>4, <4>2, <4>3 DEF Calls
    <3>12. CASE TestEnds(p)
      <4>1. CanExecute(p)
        BY <1>9, <2>2, <3>12 DEF NothingWrong, TestEnds
      <4>2. CanExecute(p)' /\ pc'[p] = "stop"
        BY <1>0, <3>12, <4>1 DEF TestEnds, To, CanExecute, TypeOK
      <4>3. QED
        BY <3>3, <3>4, <4>2
    <3>13. QED
      BY <2>6, <3>5, <3>6, <3>7, <3>8, <3>9, <3>10, <3>11, <3>12 DEF Step
  <2>7. CASE WorkerStep(p) /\ UNCHANGED parent
    <3>1. worker[p].at \notin {"none", "ok", "err"}
      BY <2>7 DEF WorkerStep, CheckSetup, DataDirExists, Validate, Install, StartInitdb,
         InitdbReturns, CheckStatus, StartServer, ServerStarted, StopServer, SignalServer,
         ServerStopped, DropValue, ValueDropped, WorkerGivesUp, RemoveEntry, RemoveTop,
         RemoveFails, RemoveStopsShort, Removing
    <3>2. pc[p] \in Calls /\ CanExecute(p) /\ rootOwned = {} /\ ~worker[p].bad
      BY <2>2, <2>5, <3>1, WorkingIsLive DEF NothingWrong
    <3>3. worker[p].at # "initdb" => initdb[p] = "none"
      BY <2>2
    <3> DEFINE Mine == /\ initdb'[p] # "failed" /\ worker'[p].at # "err" /\ ~worker'[p].bad
                       /\ worker'[p].at = "valid" => "data" \in disk'
                       /\ worker'[p].at \in {"init", "initdb", "status", "launch"} => "bin" \in disk'
                       /\ initdb'[p] = "check" => DataContents \cap disk' = {}
                       /\ worker'[p].at = "launching" => server' \in {"starting", "up"}
    <3>4. Mine => NothingWrong(p)'
      BY <2>7, <3>2 DEF NothingWrong, parent, CanExecute, Calls
    <3>5. CASE CheckSetup(p) \/ DataDirExists(p) \/ Validate(p)
      <4>1. UNCHANGED <<disks, initdb>> /\ initdb[p] = "none"
        BY <3>3, <3>5 DEF CheckSetup, DataDirExists, Validate
      <4>2. /\ worker'[p].at \in {"drop", "status", "exists", "valid", "setup", "reset"}
            /\ ~worker'[p].bad
            /\ worker'[p].at = "valid" => "data" \in disk
            /\ worker'[p].at = "status" => "PG_VERSION" \in disk
        <5>1. CASE CheckSetup(p)
          BY <1>0, <3>2, <5>1 DEF CheckSetup, SetupComplete, SetupReturns, Goto, Ends, Outcome,
             TypeOK
        <5>2. CASE DataDirExists(p) \/ Validate(p)
          BY <1>0, <2>2, <3>2, <5>2 DEF DataDirExists, Validate, Goto, Ends, Outcome, TypeOK,
             NothingWrong
        <5>3. QED
          BY <3>5, <5>1, <5>2
      <4>3. QED
        BY <1>6, <3>4, <4>1, <4>2 DEF disks
    <3>6. CASE Install(p)
      <4>1. "bin" \in disk' /\ worker'[p].at = "init" /\ ~worker'[p].bad
        BY <1>0, <1>7, <3>2, <3>6 DEF Install, Goto, Ends, Outcome, Add, TypeOK, disks
      <4>2. initdb'[p] = "none"
        BY <3>3, <3>6 DEF Install
      <4>3. QED
        BY <3>4, <4>1, <4>2
    <3>7. CASE StartInitdb(p)
      <4>1. "bin" \in disk /\ UNCHANGED disk /\ initdb[p] = "none"
        BY <2>2, <3>3, <3>7 DEF StartInitdb, NothingWrong, disks
      <4>2. worker'[p].at \in {"drop", "status", "initdb"} /\ ~worker'[p].bad
        BY <1>0, <3>2, <3>7, <4>1 DEF StartInitdb, SetupReturns, Goto, Ends, Outcome, TypeOK
      <4>3. initdb'[p] = "none" \/ (initdb'[p] = "check" /\ "conf" \notin disk)
        BY <1>0, <3>7, <4>1 DEF StartInitdb, InitdbTo, TypeOK
      <4>4. "conf" \notin disk => DataContents \cap disk = {}
        BY <2>3, <3>7, PieceNames DEF StartInitdb, Whole
      <4>5. QED
        BY <1>6, <3>4, <4>1, <4>2, <4>3, <4>4
    <3>8. CASE InitdbReturns(p)
      <4>1. "bin" \in disk /\ UNCHANGED disk /\ initdb[p] = "ok" /\ initdb'[p] = "none"
        BY <1>0, <2>2, <3>8 DEF InitdbReturns, NothingWrong, InitdbTo, TypeOK, disks
      <4>2. worker'[p].at \in {"drop", "status"} /\ ~worker'[p].bad
        BY <1>0, <3>2, <3>8, <4>1 DEF InitdbReturns, SetupReturns, Goto, Ends, Outcome, TypeOK
      <4>3. QED
        BY <1>6, <3>4, <4>1, <4>2
    <3>9. CASE CheckStatus(p)
      <4>1. "bin" \in disk /\ UNCHANGED disk /\ initdb'[p] = "none"
        BY <2>2, <3>3, <3>9 DEF CheckStatus, NothingWrong, disks
      <4>2. worker'[p].at \in {"ok", "launch"} /\ ~worker'[p].bad
        BY <1>0, <3>2, <3>9 DEF CheckStatus, Goto, Ends, Outcome, TypeOK
      <4>3. QED
        BY <1>6, <3>4, <4>1, <4>2
    <3>10. CASE StartServer(p)
      <4>1. worker[p].at = "launch" /\ "bin" \in disk
        BY <2>2, <3>10 DEF StartServer, NothingWrong
      <4>2. Startable
        BY <1>5, <4>1 DEF FilesInv, Whole, Startable
      <4>3. server = "down"
        <5>1. worker[p].op \in Ops
          BY <1>0, <4>1, WorkingIsLive DEF TypeOK
        <5>2. pc[p] = "start"
          BY <2>2, <4>1, <5>1 DEF Shape, Ops, SetupPlaces, Op, Calls, Ended, Dropping
        <5>3. QED
          BY <2>4, <4>1, <5>2 DEF Keeps
      <4>4. Launch /\ worker'[p].at = "launching" /\ ~worker'[p].bad
        BY <1>0, <3>2, <3>10, <4>1, <4>2, <4>3 DEF StartServer, Goto, Ends, Outcome, TypeOK
      <4>5. initdb'[p] = "none" /\ server' = "starting" /\ disk' = disk \cup {"pid"}
        BY <3>3, <3>10, <4>4 DEF StartServer, Launch
      <4>6. QED
        BY <1>6, <3>4, <4>4, <4>5
    <3>11. CASE \/ ServerStarted(p) \/ StopServer(p) \/ ServerStopped(p) \/ DropValue(p)
                \/ ValueDropped(p)
      <4>1. UNCHANGED disk /\ initdb'[p] = "none"
        BY <3>3, <3>11 DEF ServerStarted, StopServer, SignalServer, ServerStopped, DropValue,
           ValueDropped, disks
      <4>2. ("pid" \in disk => server # "down") /\ (server # "down" => "bin" \in disk)
        BY <1>5 DEF PidHonest, SoloServer
      <4>3. worker'[p].at \in {"ok", "stopping", "drop", "dropping"} /\ ~worker'[p].bad
        <5>1. CASE ServerStarted(p)
          BY <1>0, <2>2, <3>2, <5>1 DEF ServerStarted, Goto, Ends, TypeOK, NothingWrong
        <5>2. CASE StopServer(p)
          BY <1>0, <3>2, <4>2, <5>2 DEF StopServer, CanStop, Goto, Ends, TypeOK
        <5>3. CASE ServerStopped(p)
          BY <1>0, <3>2, <4>2, <5>3 DEF ServerStopped, Ends, TypeOK
        <5>4. CASE DropValue(p) \/ ValueDropped(p)
          BY <1>0, <3>2, <5>4 DEF DropValue, ValueDropped, Goto, Outcome, TypeOK
        <5>5. QED
          BY <3>11, <5>1, <5>2, <5>3, <5>4
      <4>4. QED
        BY <1>6, <3>4, <4>1, <4>3
    <3>12. CASE WorkerGivesUp(p)
      BY <1>7, <3>12 DEF WorkerGivesUp
    <3>13. CASE RemoveEntry(p) \/ RemoveTop(p)
      <4>1. worker[p].at \in {"rm_data", "rm_install"}
        BY <1>5, <3>13 DEF RemoveEntry, RemoveTop, Removing, FilesInv
      <4>2. initdb'[p] = "none"
        BY <3>3, <3>13, <4>1 DEF RemoveEntry, RemoveTop
      <4>3. worker'[p].at \in {"rm_data", "rm_install", "ok"} /\ ~worker'[p].bad
        <5>1. CASE RemoveEntry(p)
          BY <3>2, <4>1, <5>1 DEF RemoveEntry
        <5>2. CASE RemoveTop(p)
          BY <1>0, <3>2, <4>1, <5>2, RemovedEffect DEF RemoveTop
        <5>3. QED
          BY <3>13, <5>1, <5>2
      <4>4. Binaries'
        <5>1. CASE worker[p].at = "rm_data"
          <6>1. \E S \in SUBSET DataTree : Lose(S)
            BY <3>13, <5>1 DEF RemoveEntry, RemoveTop, Tree, Top, DataTree
          <6>2. disk' \subseteq disk /\ ("bin" \in disk => "bin" \in disk')
            BY <6>1, PieceNames DEF Lose, DataTree, DataContents
          <6>3. QED
            BY <1>6, <6>2
        <5>2. CASE worker[p].at = "rm_install"
          <6>1. "PG_VERSION" \notin disk
            BY <1>5, <3>2, <5>2, PieceNames DEF SoloRemoval, DataTree, DataContents
          <6>2. QED
            BY <3>13, <6>1 DEF RemoveEntry, RemoveTop, Lose
        <5>3. QED
          BY <4>1, <5>1, <5>2
      <4>5. QED
        BY <3>4, <4>2, <4>3, <4>4
    <3>14. CASE RemoveFails(p) \/ RemoveStopsShort(p)
      <4>1. ~Disturbed(p) /\ Allowed(p)
        BY <1>5, <3>2, <3>14, NobodyInterferes DEF RemoveFails, RemoveStopsShort, Allowed
      <4>2. QED
        BY <1>7, <3>14, <4>1 DEF RemoveFails, RemoveStopsShort, Disturbed
    <3>15. QED
      BY <2>7, <3>5, <3>6, <3>7, <3>8, <3>9, <3>10, <3>11, <3>12, <3>13, <3>14 DEF WorkerStep
  <2>8. CASE Tools /\ UNCHANGED <<worker, parent>>
    <3>1. worker' = worker /\ pc' = pc /\ seen' = seen /\ CanExecute(p)' = CanExecute(p)
      BY <2>8 DEF parent, CanExecute
    <3>2. CASE InitdbCheck(p) \/ InitdbWrite(p) \/ InitdbFails(p) \/ InitdbKilled(p)
      <4>1. worker[p].at = "initdb" /\ pc[p] \in Calls
        <5>1. initdb[p] # "none"
          BY <3>2, PieceNames DEF InitdbCheck, InitdbWrite, InitdbFails, InitdbKilled, InitdbRunning
        <5>2. QED
          BY <2>2, <5>1, WorkingIsLive
      <4>2. "bin" \in disk /\ rootOwned = {} /\ CanExecute(p)
        BY <2>2, <2>5, <4>1 DEF NothingWrong
      <4>3. initdb'[p] \notin {"failed", "check"} /\ disk \subseteq disk' => Binaries' /\ NothingWrong(p)'
        BY <2>2, <3>1, <4>1, <4>2 DEF NothingWrong, Calls
      <4>4. CASE InitdbCheck(p)
        <5>1. DataContents \cap disk = {}
          BY <2>2, <4>4 DEF InitdbCheck, NothingWrong
        <5>2. initdb'[p] = "subdirs" /\ disk' = disk \cup {"data"}
          BY <1>0, <4>2, <4>4, <5>1 DEF InitdbCheck, InitdbTo, Add, TypeOK
        <5>3. QED
          BY <4>3, <5>2
      <4>5. CASE InitdbWrite(p)
        <5>1. initdb'[p] \in Pieces \cup {"ok"} /\ disk \subseteq disk'
          BY <1>0, <4>5, PieceNames DEF InitdbWrite, InitdbTo, Add, TypeOK
        <5>2. QED
          BY <4>3, <5>1, PieceNames
      <4>6. CASE InitdbFails(p)
        <5>1. "data" \in disk /\ DataContents \cap disk = Before(initdb[p]) /\ initdb[p] \in Pieces
          BY <1>5, <4>6 DEF InitdbFails, FilesInv
        <5>2. initdb[p] = "subdirs" <=> "subdirs" \notin disk
          <6>1. "subdirs" \in DataContents
            BY PieceNames DEF DataContents
          <6>2. initdb[p] = "subdirs" <=> "subdirs" \notin Before(initdb[p])
            BY <5>1, PieceNames, BeforeNames
          <6>3. QED
            BY <5>1, <6>1, <6>2
        <5>3. QED
          BY <1>7, <4>6, <5>1, <5>2 DEF InitdbFails, InitdbAtHome
      <4>7. CASE InitdbKilled(p)
        BY <1>7, <4>7 DEF InitdbKilled
      <4>8. QED
        BY <3>2, <4>4, <4>5, <4>6, <4>7
    <3>3. ASSUME NEW q \in Procs \ {p},
                 InitdbCheck(q) \/ InitdbWrite(q) \/ InitdbFails(q) \/ InitdbKilled(q)
          PROVE  FALSE
      BY <2>1, <3>3, PieceNames DEF InitdbCheck, InitdbWrite, InitdbFails, InitdbKilled,
         InitdbRunning
    <3>4. CASE ServerUp
      BY <1>6, <2>2, <3>1, <3>4 DEF ServerUp, NothingWrong, Live
    <3>5. CASE ServerStops
      <4>1. Keeps(p) /\ worker[p].at # "launching"
        BY <2>2, <2>4, <3>5 DEF ServerStops, NothingWrong
      <4>2. pc[p] # "chown"
        BY <4>1 DEF Keeps
      <4>3. disk' = disk \ {"pid"} /\ initdb' = initdb
        BY <3>5 DEF ServerStops
      <4>4. QED
        BY <1>6, <2>2, <3>1, <4>1, <4>2, <4>3 DEF NothingWrong, Live
    <3>6. CASE ServerFails
      <4>1. Startable
        BY <1>5, <3>6 DEF ServerFails, SoloServer
      <4>2. QED
        BY <1>7, <3>6, <4>1 DEF ServerFails
    <3>7. CASE ServerDies
      BY <1>7, <3>7 DEF ServerDies
    <3>8. QED
      BY <2>8, <3>2, <3>3, <3>4, <3>5, <3>6, <3>7 DEF Tools
  <2>9. CASE UNCHANGED vars
    BY <1>6, <2>2, <2>9 DEF vars, parent, disks, NothingWrong, CanExecute, Live
  <2>10. ~Kill(p)
    BY <1>7 DEF Kill
  <2>11. QED
    BY <1>5, <1>9, <2>6, <2>7, <2>8, <2>9, <2>10, OneAtWork
<1>10. Binaries'
  <2>1. CASE \E p \in Procs : Live(p)
    BY <1>9, <2>1
  <2>2. CASE \A p \in Procs : ~Live(p)
    <3>1. \A p \in Procs : worker[p].at = "none" /\ initdb[p] = "none"
      BY <1>5, <2>2, WorkingIsLive DEF SoloTenant
    <3>2. disk' \subseteq disk /\ disk \ {"pid"} \subseteq disk'
      BY <1>5, <2>2, <3>1, WhoWrites, WhoRemoves, PieceNames DEF Removing
    <3>3. QED
      BY <1>6, <3>2
  <2>3. QED
    BY <2>1, <2>2
<1>11. QED
  BY <1>8, <1>9, <1>10

\* A process alone, in which nothing goes wrong, succeeds.
THEOREM FailureExplained == Spec => []FailureHasCause
<1>1. Init => CauseInv
  BY DEF Init, CauseInv, NothingWrong, NoWorker, Live
<1>2. RootInv /\ SoloTenant /\ SoloTenant' /\ SoloServer /\ SoloRemoval /\ ServerKept /\ PidHonest
        /\ FilesInv /\ StagedWorkerWhole /\ CauseInv /\ [Next]_vars => CauseInv'
  BY CauseInductive
<1>3. CauseInv => FailureHasCause
  BY DEF CauseInv, NothingWrong, Faultless, FailureHasCause
<1>4. QED
  BY <1>1, <1>2, <1>3, RootInvHolds, TenantHolds, ServerHolds, RemovalHolds, KeptHolds, PidHolds,
     FilesHold, StagedWhole, PTL DEF Spec
=============================================================================
