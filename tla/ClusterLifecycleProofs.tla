----------------------- MODULE ClusterLifecycleProofs -----------------------
(***************************************************************************)
(* Proofs about the life of any number of clusters, under every fault and  *)
(* every use: types and jobs, what servers and directories are left, the   *)
(* lease on the data directory, and what the claims of the documentation   *)
(* come down to.                                                           *)
(***************************************************************************)
EXTENDS ClusterLifecycleProps, TLAPS

-----------------------------------------------------------------------------
(* Giving up a server or a directory.                                      *)

\* What the ways of giving up have in common: nothing is put in the directory,
\* and a server that is left is left in a directory that was not touched.
GivesUp ==
  /\ dataDir' \in {dataDir, "partial", "absent"}
  /\ server' \in BOOLEAN /\ orphan' \in BOOLEAN
  /\ server' => server /\ dataDir' = dataDir
  /\ blame \subseteq blame'
  /\ blame' \subseteq FaultKinds \union {"overlap"}

\* Nothing but a stop goes on by itself that did not do so before, and it is blamed.
LateKept ==
  /\ late' \subseteq LateOps
  /\ late' \ {"stop"} \subseteq late
  /\ "stop" \in late' => "stop" \in late \/ {"stop", "late_stop"} \subseteq blame'

\* Removing part of the directory, or all of it.
LEMMA DiscardGivesUp ==
  ASSUME TypeOK, NEW left \in Remnants \union {"absent"}, Discard(left)
  PROVE  /\ dataDir' \in {dataDir, "partial", "absent"}
         /\ server' \in BOOLEAN /\ orphan' \in BOOLEAN
         /\ server' => server /\ dataDir' = dataDir
<1>1. left \in {dataDir, "partial", "absent"} /\ dataDir' = left
  BY DEF Remnants, Discard
<1>2. CASE left = dataDir /\ UNCHANGED <<server, orphan>>
  BY <1>1, <1>2 DEF TypeOK
<1>3. CASE server' = FALSE /\ orphan' \in {orphan, orphan \/ server}
  <2>1. orphan' \in BOOLEAN
    BY <1>3 DEF TypeOK
  <2>2. QED
    BY <1>1, <1>3, <2>1
<1>4. QED
  BY <1>2, <1>3 DEF Discard

\* Dropping a PostgreSQL value.
LEMMA DropPostgresGivesUp ==
  ASSUME TypeOK, NEW failures \in SUBSET FaultKinds, DropPostgres(failures)
  PROVE  GivesUp /\ LateKept /\ failures \subseteq blame'
<1>1. PICK more \in SUBSET (Faults \intersect {"stop", "late_stop", "cleanup"}),
           left \in Remnants :
        /\ "late_stop" \in more => "stop" \in more
        /\ late' = IF "late_stop" \in more THEN late \union {"stop"} ELSE late
        /\ \/ dataDir' = left /\ server' = FALSE /\ UNCHANGED orphan
           \/ Discard(left)
        /\ blame' = blame \union failures \union more
  BY DEF DropPostgres
<1>2. blame' \subseteq FaultKinds \union {"overlap"}
  BY <1>1 DEF TypeOK, FaultKinds
<1>3. /\ dataDir' \in {dataDir, "partial", "absent"}
      /\ server' \in BOOLEAN /\ orphan' \in BOOLEAN
      /\ server' => server /\ dataDir' = dataDir
  BY <1>1, DiscardGivesUp DEF TypeOK, Remnants
<1>4. LateKept
  <2>1. late' \subseteq LateOps /\ late' \ {"stop"} \subseteq late
    BY <1>1 DEF TypeOK, LateOps
  <2>2. "stop" \in late' => "stop" \in late \/ {"stop", "late_stop"} \subseteq blame'
    BY <1>1
  <2>3. QED
    BY <2>1, <2>2 DEF LateKept
<1>5. QED
  BY <1>1, <1>2, <1>3, <1>4 DEF GivesUp

\* The same for the failures the model names, one at a time.
LEMMA DropPostgresAfter ==
  ASSUME TypeOK
  PROVE  /\ DropPostgres({}) => GivesUp /\ LateKept
         /\ \A f \in FaultKinds : DropPostgres({f}) => GivesUp /\ LateKept /\ f \in blame'
<1>1. DropPostgres({}) => GivesUp /\ LateKept
  <2>1. {} \in SUBSET FaultKinds
    OBVIOUS
  <2>2. QED
    BY <2>1, DropPostgresGivesUp
<1>2. ASSUME NEW f \in FaultKinds, DropPostgres({f})
      PROVE  GivesUp /\ LateKept /\ f \in blame'
  <2>1. {f} \in SUBSET FaultKinds
    OBVIOUS
  <2>2. QED
    BY <1>2, <2>1, DropPostgresGivesUp
<1>3. QED
  BY <1>1, <1>2

\* A stop that fails.
LEMMA StopFaultGivesUp ==
  ASSUME TypeOK, StopFault
  PROVE  /\ LateKept /\ server' \in {server, FALSE}
         /\ blame \subseteq blame' /\ "stop" \in blame'
         /\ blame' \subseteq FaultKinds \union {"overlap"}
<1>1. CASE Fault("stop") /\ server' \in {server, FALSE} /\ UNCHANGED late
  BY <1>1 DEF TypeOK, Fault, FaultKinds, LateKept
<1>2. CASE /\ blame' = blame \union {"stop", "late_stop"}
           /\ late' = late \union {"stop"}
           /\ UNCHANGED server
  BY <1>2 DEF TypeOK, FaultKinds, LateKept, LateOps
<1>3. QED
  BY <1>1, <1>2 DEF StopFault

\* Cleaning up.
LEMMA RemoveGivesUp ==
  ASSUME TypeOK, NEW mode, Remove(mode)
  PROVE  GivesUp /\ installed' \in BOOLEAN
<1>1. CASE mode = "None"
  BY <1>1 DEF TypeOK, Remove, GivesUp
<1>2. CASE Discard("absent") /\ UNCHANGED blame
           /\ installed' = (installed /\ mode # "Full")
  BY <1>2, DiscardGivesUp DEF TypeOK, GivesUp
<1>3. ASSUME NEW left \in Remnants, Discard(left), Fault("cleanup"),
             installed' \in {installed, installed /\ mode # "Full"}
      PROVE  GivesUp /\ installed' \in BOOLEAN
  <2>1. blame \subseteq blame' /\ blame' \subseteq FaultKinds \union {"overlap"}
    BY <1>3 DEF TypeOK, Fault, FaultKinds
  <2>2. QED
    BY <1>3, <2>1, DiscardGivesUp DEF TypeOK, GivesUp
<1>4. QED
  BY <1>1, <1>2, <1>3 DEF Remove

\* A setup, finished or not, takes nothing away that a server needs.
LEMMA SetUpKeeps ==
  ASSUME TypeOK, SetUp \/ SetUpInPart \/ StartSetUp
  PROVE  /\ installed' \in BOOLEAN /\ dataDir' \in DirContents
         /\ installed => installed'
         /\ dataDir = "whole" => dataDir' = "whole"
<1>1. CASE SetUp
  BY <1>1 DEF TypeOK, SetUp, DirContents
<1>2. CASE SetUpInPart
  <2>1. dataDir' \in DirContents /\ (dataDir = "whole" => dataDir' = "whole")
    BY <1>2 DEF TypeOK, SetUpInPart, DirContents
  <2>2. installed' \in BOOLEAN /\ (installed => installed')
    <3>1. installed' = installed \/ installed' = TRUE
      BY <1>2, ZenonT(40) DEF SetUpInPart
    <3>2. QED
      BY <3>1 DEF TypeOK
  <2>3. QED
    BY <2>1, <2>2
<1>3. CASE UNCHANGED <<dataDir, installed>>
  BY <1>3 DEF TypeOK
<1>4. QED
  BY <1>1, <1>2, <1>3 DEF StartSetUp

-----------------------------------------------------------------------------
(* Types.                                                                  *)

\* Moving a job to a state keeps the type of the jobs.
LEMMA JobUpdateType ==
  ASSUME TypeOK, NEW c \in Clusters, NEW k \in JobKinds, NEW s \in JobStates
  PROVE  [job EXCEPT ![c][k] = s] \in [Clusters -> [JobKinds -> JobStates]]
  BY DEF TypeOK

\* The steps of a cluster up to its test body keep the types.
LEMMA StartingTypes ==
  ASSUME TypeOK, NEW c \in Clusters,
         \/ Bootstrap(c) \/ ApplyEnv(c) \/ SetupOk(c) \/ SetupFails(c)
         \/ StartOk(c) \/ StartFails(c) \/ CancelStart(c) \/ RefreshPort(c) \/ Unwind(c)
  PROVE  TypeOK'
<1>1. CASE Bootstrap(c)
  BY <1>1 DEF TypeOK, Bootstrap, Goto, Fault, PCs, DirContents, FaultKinds
<1>2. CASE ApplyEnv(c)
  <2>1. blame' \subseteq FaultKinds \union {"overlap"}
    BY <1>2 DEF TypeOK, ApplyEnv
  <2>2. QED
    BY <1>2, <2>1 DEF TypeOK, ApplyEnv, Goto, PCs, world
<1>3. CASE SetupOk(c)
  <2>1. installed' \in BOOLEAN /\ dataDir' \in DirContents
    BY <1>3, SetUpKeeps DEF SetupOk
  <2>2. server' \in BOOLEAN /\ late' \subseteq LateOps
        /\ blame' \subseteq FaultKinds \union {"overlap"}
    BY <1>3, StopFaultGivesUp DEF TypeOK, SetupOk, LateKept
  <2>3. QED
    BY <1>3, <2>1, <2>2 DEF TypeOK, SetupOk, Goto, PCs
<1>4. CASE SetupFails(c)
  <2>1. installed' \in BOOLEAN /\ dataDir' \in DirContents
    BY <1>4, SetUpKeeps DEF SetupFails
  <2>2. late' \subseteq LateOps /\ blame' \subseteq FaultKinds \union {"overlap"}
    BY <1>4 DEF TypeOK, SetupFails, GoesOn, Fault, FaultKinds, LateOps
  <2>3. QED
    BY <1>4, <2>1, <2>2 DEF TypeOK, SetupFails, Goto, PCs
<1>5. CASE StartOk(c)
  <2>1. installed' \in BOOLEAN /\ dataDir' \in DirContents
    BY <1>5, SetUpKeeps DEF StartOk
  <2>2. QED
    BY <1>5, <2>1 DEF TypeOK, StartOk, Goto, PCs
<1>6. CASE StartFails(c)
  <2>1. installed' \in BOOLEAN /\ dataDir' \in DirContents
    BY <1>6, SetUpKeeps DEF StartFails
  <2>2. server' \in BOOLEAN
    BY <1>6, <2>1 DEF TypeOK, StartFails, GoesOn, Startable
  <2>3. late' \subseteq LateOps /\ blame' \subseteq FaultKinds \union {"overlap"}
    BY <1>6 DEF TypeOK, StartFails, GoesOn, Fault, FaultKinds, LateOps
  <2>4. QED
    BY <1>6, <2>1, <2>2, <2>3 DEF TypeOK, StartFails, Goto, PCs
<1>7. CASE RefreshPort(c)
  BY <1>7 DEF TypeOK, RefreshPort, Goto, Fault, PCs, FaultKinds, world
<1>8. CASE Unwind(c)
  <2>1. \/ GivesUp /\ LateKept
        \/ UNCHANGED <<dataDir, server, orphan, late, blame>>
    BY <1>8, DropPostgresAfter DEF Unwind
  <2>2. QED
    BY <1>8, <2>1 DEF TypeOK, Unwind, GivesUp, LateKept, Goto, PCs, DirContents
<1>9. CASE CancelStart(c)
  <2>1. Abandoned(pc[c]) \subseteq LateOps
    BY DEF Abandoned, LateOps
  <2>2. QED
    BY <1>9, <2>1 DEF TypeOK, CancelStart, Goto, Fault, PCs, FaultKinds
<1>10. QED
  BY <1>1, <1>2, <1>3, <1>4, <1>5, <1>6, <1>7, <1>8, <1>9

\* So do the steps of a cluster after its test body.
LEMMA EndingTypes ==
  ASSUME TypeOK, NEW c \in Clusters,
         \/ TestEnds(c) \/ JobReturns(c) \/ CancelStop(c) \/ DropGuard(c)
         \/ RuntimeEnds(c) \/ ReleaseEnv(c)
  PROVE  TypeOK'
<1>0. /\ "call" \in JobKinds /\ "drop" \in JobKinds
      /\ "stop" \in JobStates /\ "done" \in JobStates
  BY DEF JobKinds, JobStates
<1>a. ASSUME NEW k \in JobKinds
      PROVE  /\ BeginJob(c, k) => job' \in [Clusters -> [JobKinds -> JobStates]]
             /\ JobGoto(c, k, "done")
                  => job' \in [Clusters -> [JobKinds -> JobStates]]
  BY <1>0, JobUpdateType, SMTT(20) DEF BeginJob, JobGoto
<1>1. CASE TestEnds(c)
  <2>1. job' \in [Clusters -> [JobKinds -> JobStates]]
    BY <1>0, <1>a, <1>1 DEF TypeOK, TestEnds
  <2>2. QED
    BY <1>1, <2>1 DEF TypeOK, TestEnds, Goto, PCs, world
<1>2. CASE JobReturns(c)
  BY <1>2 DEF TypeOK, JobReturns, Goto, PCs, world
<1>3. CASE CancelStop(c)
  <2>1. job' \in [Clusters -> [JobKinds -> JobStates]]
    BY <1>0, <1>a, <1>3 DEF TypeOK, CancelStop
  <2>2. QED
    <3>1. \/ GivesUp /\ LateKept
          \/ Fault("cancel") /\ UNCHANGED <<dataDir, server, orphan, late>>
      BY <1>3, DropPostgresAfter DEF CancelStop, FaultKinds
    <3>2. QED
      BY <1>3, <2>1, <3>1
      DEF TypeOK, CancelStop, GivesUp, LateKept, Fault, Goto, PCs, DirContents, FaultKinds
<1>4. CASE DropGuard(c)
  <2>1. job' \in [Clusters -> [JobKinds -> JobStates]]
    BY <1>0, <1>a, <1>4 DEF TypeOK, DropGuard
  <2>2. QED
    <3>1. \/ GivesUp /\ LateKept
          \/ /\ Fault("no_runtime") \/ UNCHANGED blame
             /\ UNCHANGED <<dataDir, server, orphan, late>>
      BY <1>4, DropPostgresAfter DEF DropGuard, FaultKinds
    <3>2. QED
      BY <1>4, <2>1, <3>1
      DEF TypeOK, DropGuard, GivesUp, LateKept, Fault, Goto, PCs, DirContents, FaultKinds
<1>5. CASE RuntimeEnds(c)
  <2>1. job' \in [Clusters -> [JobKinds -> JobStates]]
    BY <1>0, <1>a, <1>5 DEF RuntimeEnds
  <2>2. \/ GivesUp /\ LateKept
        \/ Fault("runtime_ends") /\ UNCHANGED <<dataDir, server, orphan, late>>
    BY <1>5, DropPostgresAfter DEF RuntimeEnds, FaultKinds
  <2>3. QED
    BY <1>5, <2>1, <2>2
    DEF TypeOK, RuntimeEnds, GivesUp, LateKept, Fault, DirContents, FaultKinds
<1>6. CASE ReleaseEnv(c)
  BY <1>6 DEF TypeOK, ReleaseEnv, Goto, PCs, world
<1>7. QED
  BY <1>1, <1>2, <1>3, <1>4, <1>5, <1>6

\* And so do the steps of a shutdown job.
LEMMA JobTypes ==
  ASSUME TypeOK, NEW c \in Clusters, NEW k \in JobKinds, Job(c, k)
  PROVE  TypeOK'
<1>1. CASE StopOk(c, k)
  BY <1>1 DEF TypeOK, StopOk, JobGoto, JobStates
<1>2. CASE StopFails(c, k)
  <2>1. /\ dataDir' \in {dataDir, "partial", "absent"}
        /\ server' \in BOOLEAN /\ orphan' \in BOOLEAN
        /\ late' \subseteq LateOps
        /\ blame' \subseteq FaultKinds \union {"overlap"}
    BY <1>2, DropPostgresAfter, StopFaultGivesUp
    DEF TypeOK, StopFails, FaultKinds, GivesUp, LateKept
  <2>2. QED
    BY <1>2, <2>1 DEF TypeOK, StopFails, JobGoto, JobStates, DirContents
<1>3. CASE CleanupViaWorker(c, k)
  BY <1>3, RemoveGivesUp
  DEF TypeOK, CleanupViaWorker, GivesUp, JobGoto, JobStates, DirContents
<1>4. CASE CleanupInProcess(c, k)
  BY <1>4, RemoveGivesUp
  DEF TypeOK, CleanupInProcess, GivesUp, JobGoto, JobStates, DirContents
<1>5. QED
  BY <1>1, <1>2, <1>3, <1>4 DEF Job

\* What goes on by itself may do to the server and the directory.
LEMMA LateEffects ==
  ASSUME TypeOK, LateStep
  PROVE  /\ UNCHANGED <<plan, envOwner, pc, postgres, job, blame>>
         /\ late # {} /\ late' \subseteq late
         /\ dataDir' \in DirContents /\ installed' \in BOOLEAN
         /\ server' \in BOOLEAN /\ orphan' \in BOOLEAN
         /\ \/ late \intersect {"setup", "start"} # {}
            \/ "stop" \in late /\ UNCHANGED <<dataDir, installed, orphan>>
         /\ server' => dataDir' = "whole" \/ (server /\ dataDir' = dataDir)
<1>1. CASE LateSetup
  <2>0. /\ late' \subseteq late /\ installed' \in BOOLEAN
        /\ late \intersect {"setup", "start"} # {}
        /\ UNCHANGED <<plan, envOwner, pc, postgres, job, blame>>
    BY <1>1 DEF LateSetup, TypeOK
  <2>1. ASSUME NEW left \in DirContents, Discard(left)
        PROVE  /\ dataDir' \in DirContents
               /\ server' \in BOOLEAN /\ orphan' \in BOOLEAN
               /\ server' => server /\ dataDir' = dataDir
    <3>1. CASE left = dataDir /\ UNCHANGED <<server, orphan>>
      BY <2>1, <3>1 DEF Discard, TypeOK
    <3>2. CASE server' = FALSE /\ orphan' \in {orphan, orphan \/ server}
      <4>1. orphan' \in BOOLEAN
        BY <3>2 DEF TypeOK
      <4>2. QED
        BY <2>1, <3>2, <4>1 DEF Discard
    <3>3. QED
      BY <2>1, <3>1, <3>2 DEF Discard
  <2>2. CASE server' = FALSE /\ UNCHANGED <<dataDir, orphan>>
    BY <2>0, <2>2 DEF TypeOK
  <2>3. QED
    BY <1>1, <2>0, <2>1, <2>2 DEF LateSetup
<1>2. CASE LateStart
  <2>1. "start" \in late /\ late' = late \ {"start"}
    BY <1>2 DEF LateStart
  <2>2. /\ server' \in BOOLEAN /\ (server' => server \/ dataDir = "whole")
        /\ dataDir' = dataDir
    BY <1>2 DEF LateStart, Startable, TypeOK
  <2>3. /\ UNCHANGED <<plan, envOwner, dataDir, installed, orphan, pc, postgres, job, blame>>
        /\ installed \in BOOLEAN /\ orphan \in BOOLEAN /\ dataDir \in DirContents
    BY <1>2 DEF LateStart, TypeOK
  <2>4. QED
    BY <2>1, <2>2, <2>3
<1>3. CASE LateStop
  <2>1. "stop" \in late /\ late' = late \ {"stop"}
    BY <1>3 DEF LateStop
  <2>2. server' \in BOOLEAN /\ (server' => server)
    <3>1. server' = server \/ server' = FALSE
      BY <1>3 DEF LateStop
    <3>2. server \in BOOLEAN
      BY DEF TypeOK
    <3>3. CASE server' = server
      BY <3>2, <3>3
    <3>4. CASE server' = FALSE
      BY <3>4
    <3>5. QED
      BY <3>1, <3>3, <3>4
  <2>3. /\ UNCHANGED <<plan, envOwner, dataDir, installed, orphan, pc, postgres, job, blame>>
        /\ installed \in BOOLEAN /\ orphan \in BOOLEAN /\ dataDir \in DirContents
    BY <1>3 DEF LateStop, TypeOK
  <2>4. QED
    BY <2>1, <2>2, <2>3
<1>4. QED
  BY <1>1, <1>2, <1>3 DEF LateStep

\* A step that changes nothing, or is one of those, keeps the types.
LEMMA OtherTypes ==
  ASSUME TypeOK, LateStep \/ UNCHANGED vars
  PROVE  TypeOK'
<1>1. CASE LateStep
  BY <1>1, LateEffects DEF TypeOK
<1>2. CASE UNCHANGED vars
  BY <1>2 DEF TypeOK, vars, world
<1>3. QED
  BY <1>1, <1>2

\* Every step keeps the types.
LEMMA TypeInductive == TypeOK /\ [Next]_vars => TypeOK'
<1>. SUFFICES ASSUME TypeOK, [Next]_vars PROVE TypeOK'
  OBVIOUS
<1>1. CASE \E c \in Clusters : Advance(c) \/ CancelStart(c) \/ CancelStop(c) \/ RuntimeEnds(c)
  BY <1>1, StartingTypes, EndingTypes DEF Advance
<1>2. CASE \E c \in Clusters, k \in JobKinds : Job(c, k)
  BY <1>2, JobTypes
<1>3. CASE LateStep \/ UNCHANGED vars
  BY <1>3, OtherTypes
<1>4. QED
  BY <1>1, <1>2, <1>3 DEF Next, AllDone

\* The initial state is well typed.
LEMMA InitType == Init => TypeOK
<1>. SUFFICES ASSUME Init PROVE TypeOK
  OBVIOUS
<1>1. job \in [Clusters -> [JobKinds -> JobStates]]
  BY DEF Init, JobStates
<1>2. pc \in [Clusters -> PCs] /\ postgres \in [Clusters -> BOOLEAN]
  BY DEF Init, PCs
<1>3. QED
  BY <1>1, <1>2 DEF Init, TypeOK, DirContents

\* The state keeps its type, whatever the uses, modes and faults.
THEOREM TypeCorrect == Spec => []TypeOK
  BY InitType, TypeInductive, PTL DEF Spec

-----------------------------------------------------------------------------
(* Who has the environment, and which jobs may outlive it.                 *)

\* What moving a job does to every job.
LEMMA JobMoved ==
  ASSUME TypeOK, NEW c \in Clusters, NEW k \in JobKinds, NEW s,
         JobGoto(c, k, s), NEW d \in Clusters, NEW h \in JobKinds
  PROVE  job'[d][h] = IF d = c /\ h = k THEN s ELSE job[d][h]
  BY DEF TypeOK, JobGoto

\* The two kinds of jobs.
LEMMA TheJobKinds == /\ "call" \in JobKinds /\ "drop" \in JobKinds
                     /\ \A k \in JobKinds : k = "call" \/ k = "drop"
  BY DEF JobKinds

\* The steps of a cluster up to its test body keep the protocol.
LEMMA StartingProtocol ==
  ASSUME JobInv, NEW c \in Clusters, NEW d \in Clusters,
         \/ Bootstrap(c) \/ ApplyEnv(c) \/ SetupOk(c) \/ SetupFails(c)
         \/ StartOk(c) \/ StartFails(c) \/ CancelStart(c) \/ RefreshPort(c) \/ Unwind(c)
  PROVE  JobProtocol(d)'
<1>. USE DEF JobInv, JobProtocol, JobPending, TypeOK, Goto, Fault, Holding
<1>0. NoCluster \notin Clusters
  BY ClusterAssumption
<1>1. CASE Bootstrap(c)
  BY <1>1 DEF Bootstrap
<1>2. CASE ApplyEnv(c)
  BY <1>0, <1>2 DEF ApplyEnv, world
<1>3. CASE SetupOk(c)
  BY <1>3, StopFaultGivesUp DEF SetupOk
<1>4. CASE SetupFails(c)
  BY <1>4 DEF SetupFails, GoesOn
<1>5. CASE StartOk(c)
  BY <1>5 DEF StartOk
<1>6. CASE StartFails(c)
  BY <1>6 DEF StartFails, GoesOn
<1>7. CASE RefreshPort(c)
  BY <1>7 DEF RefreshPort, world
<1>8. CASE Unwind(c)
  BY <1>8, DropPostgresAfter DEF Unwind, GivesUp
<1>9. CASE CancelStart(c)
  BY <1>9 DEF CancelStart
<1>10. QED
  BY <1>1, <1>2, <1>3, <1>4, <1>5, <1>6, <1>7, <1>8, <1>9

\* So do its steps after the test body.
LEMMA EndingProtocol ==
  ASSUME JobInv, NEW c \in Clusters, NEW d \in Clusters,
         \/ TestEnds(c) \/ JobReturns(c) \/ CancelStop(c) \/ DropGuard(c)
         \/ RuntimeEnds(c) \/ ReleaseEnv(c)
  PROVE  JobProtocol(d)'
<1>. USE DEF JobInv, JobProtocol, JobPending, Goto, Fault, Holding
<1>0. NoCluster \notin Clusters
  BY ClusterAssumption
<1>1. CASE TestEnds(c)
  <2>1. CASE job' = job
    BY <1>1, <2>1 DEF TestEnds, BeginJob, TypeOK, world
  <2>2. CASE JobGoto(c, "call", "stop") /\ plan.use[c] # "drop_async"
    <3>1. \A h \in JobKinds :
            job'[d][h] = IF d = c /\ h = "call" THEN "stop" ELSE job[d][h]
      BY <2>2, JobMoved, TheJobKinds
    <3>2. QED
      BY <1>1, <3>1, TheJobKinds DEF TestEnds, BeginJob, TypeOK, world
  <2>3. QED
    BY <1>1, <2>1, <2>2 DEF TestEnds, BeginJob, JobGoto
<1>2. CASE JobReturns(c)
  BY <1>2 DEF JobReturns, TypeOK, world
<1>3. CASE CancelStop(c)
  BY <1>3, JobMoved, TheJobKinds DEF CancelStop, DropPostgres, TypeOK
<1>4. CASE DropGuard(c)
  <2>1. CASE job' = job
    BY <1>4, <2>1 DEF DropGuard, DropPostgres, SkipShutdown, TypeOK
  <2>2. CASE JobGoto(c, "drop", "stop") /\ ~SkipShutdown(c)
    <3>1. \A h \in JobKinds :
            job'[d][h] = IF d = c /\ h = "drop" THEN "stop" ELSE job[d][h]
      BY <2>2, JobMoved, TheJobKinds
    <3>2. QED
      BY <1>4, <2>2, <3>1, TheJobKinds DEF DropGuard, DropPostgres, SkipShutdown, TypeOK
  <2>3. QED
    BY <1>4, <2>1, <2>2 DEF DropGuard, BeginJob, JobGoto
<1>5. CASE RuntimeEnds(c)
  BY <1>5, JobMoved, TheJobKinds DEF RuntimeEnds, DropPostgres, TypeOK
<1>6. CASE ReleaseEnv(c)
  BY <1>0, <1>6 DEF ReleaseEnv, TypeOK, world
<1>7. QED
  BY <1>1, <1>2, <1>3, <1>4, <1>5, <1>6

\* So do the steps of the jobs, which begin none.
LEMMA JobProtocolKept ==
  ASSUME JobInv, NEW c \in Clusters, NEW k \in JobKinds, Job(c, k),
         NEW d \in Clusters
  PROVE  JobProtocol(d)'
<1>1. PICK s : JobGoto(c, k, s)
  BY DEF Job, StopOk, StopFails, CleanupViaWorker, CleanupInProcess, JobGoto
<1>2. JobPending(c, k) /\ blame \subseteq blame'
  <2>0. TypeOK
    BY DEF JobInv
  <2>1. CASE StopOk(c, k)
    BY <2>1 DEF StopOk, JobPending
  <2>2. CASE StopFails(c, k)
    BY <2>0, <2>2, DropPostgresAfter, StopFaultGivesUp
    DEF StopFails, JobPending, GivesUp, FaultKinds
  <2>3. CASE CleanupViaWorker(c, k) \/ CleanupInProcess(c, k)
    BY <2>0, <2>3, RemoveGivesUp
    DEF CleanupViaWorker, CleanupInProcess, JobPending, GivesUp
  <2>4. QED
    BY <2>1, <2>2, <2>3 DEF Job
<1>3. UNCHANGED <<plan, envOwner, pc, postgres>>
  BY DEF Job, StopOk, StopFails, CleanupViaWorker, CleanupInProcess
<1>4. \A h \in JobKinds : JobPending(d, h)' => JobPending(d, h)
  BY <1>1, <1>2, JobMoved DEF JobPending, JobInv
<1>5. JobProtocol(d)
  BY DEF JobInv
<1>6. QED
  BY <1>2, <1>3, <1>4, <1>5, TheJobKinds DEF JobProtocol

\* The protocol is inductive.
LEMMA JobInductive == JobInv /\ [Next]_vars => JobInv'
<1>. SUFFICES ASSUME JobInv, [Next]_vars, NEW d \in Clusters
              PROVE  JobProtocol(d)'
  BY TypeInductive DEF JobInv
<1>1. CASE \E c \in Clusters : Advance(c) \/ CancelStart(c) \/ CancelStop(c) \/ RuntimeEnds(c)
  BY <1>1, StartingProtocol, EndingProtocol DEF Advance
<1>2. CASE \E c \in Clusters, k \in JobKinds : Job(c, k)
  BY <1>2, JobProtocolKept
<1>3. CASE LateStep \/ UNCHANGED vars
  BY <1>3, LateEffects DEF JobInv, JobProtocol, JobPending, vars
<1>4. QED
  BY <1>1, <1>2, <1>3 DEF Next, AllDone

\* Every behaviour has the protocol.
LEMMA JobInvHolds == Spec => []JobInv
<1>1. Init => JobInv
  <2>. SUFFICES ASSUME Init PROVE JobInv
    OBVIOUS
  <2>1. TypeOK
    BY InitType
  <2>2. \A d \in Clusters : JobProtocol(d)
    BY ClusterAssumption, TheJobKinds DEF Init, JobProtocol, JobPending, Holding
  <2>3. QED
    BY <2>1, <2>2 DEF JobInv
<1>2. QED
  BY <1>1, JobInductive, PTL DEF Spec

\* Whatever fails, only a shutdown that was detached by the Drop of an async
\* guard, or by a dropped stop_async() future, goes on after its cluster gave
\* the environment back.
THEOREM DetachedOnly == Spec => []OnlyDetachedJobsOverlap
<1>1. JobInv => OnlyDetachedJobsOverlap
  BY TheJobKinds DEF JobInv, JobProtocol, OnlyDetachedJobsOverlap, Holding
<1>2. QED
  BY <1>1, JobInvHolds, PTL

-----------------------------------------------------------------------------
(* Clusters that wait for their own shutdown.                              *)

\* Starting a cluster.
LEMMA StartingAwaited ==
  ASSUME AwaitedInv, NEW c \in Clusters, NEW d \in Clusters,
         \/ Bootstrap(c) \/ ApplyEnv(c) \/ SetupOk(c) \/ SetupFails(c)
         \/ StartOk(c) \/ StartFails(c) \/ CancelStart(c) \/ RefreshPort(c) \/ Unwind(c)
  PROVE  AwaitedProtocol(d)'
<1>0. TypeOK /\ AwaitedProtocol(d)
  BY DEF AwaitedInv, JobInv
<1>1. UNCHANGED <<plan, job>>
  BY DEF Bootstrap, ApplyEnv, SetupOk, SetupFails, StartOk, StartFails, CancelStart,
         RefreshPort, Unwind
<1>2. /\ pc[d] = "await" => pc'[d] = "await"
      /\ pc'[d] = "drop" => pc[d] = "drop" /\ postgres'[d] = postgres[d]
  BY <1>0
  DEF TypeOK, Goto, Bootstrap, ApplyEnv, SetupOk, SetupFails, StartOk, StartFails, CancelStart,
      CancelStart, RefreshPort, Unwind
<1>3. QED
  BY <1>0, <1>1, <1>2 DEF AwaitedProtocol, JobPending

\* Ending a cluster: its guard finds nothing left to shut down.
LEMMA EndingAwaited ==
  ASSUME AwaitedInv, NEW c \in Clusters, NEW d \in Clusters,
         \/ TestEnds(c) \/ JobReturns(c) \/ CancelStop(c) \/ DropGuard(c)
         \/ RuntimeEnds(c) \/ ReleaseEnv(c)
  PROVE  AwaitedProtocol(d)'
<1>. USE DEF AwaitedInv, JobInv, AwaitedProtocol, JobPending, Goto
<1>1. CASE TestEnds(c)
  <2>1. JobGoto(c, "call", "stop")
    BY <1>1 DEF TestEnds, BeginJob, JobGoto
  <2>2. \A h \in JobKinds :
          job'[d][h] = IF d = c /\ h = "call" THEN "stop" ELSE job[d][h]
    BY <2>1, JobMoved, TheJobKinds
  <2>3. QED
    BY <1>1, <2>2, TheJobKinds DEF TestEnds, TypeOK
<1>2. CASE JobReturns(c)
  BY <1>2 DEF JobReturns, JobProtocol, TypeOK
<1>3. CASE CancelStop(c)
  <2>1. JobGoto(c, "call", "done")
    BY <1>3 DEF CancelStop
  <2>2. \A h \in JobKinds :
          job'[d][h] = IF d = c /\ h = "call" THEN "done" ELSE job[d][h]
    BY <2>1, JobMoved, TheJobKinds
  <2>3. QED
    BY <1>3, <2>2, TheJobKinds DEF CancelStop, JobProtocol, TypeOK
<1>4. CASE DropGuard(c)
  BY <1>4 DEF DropGuard, SkipShutdown, TypeOK
<1>5. CASE RuntimeEnds(c)
  BY <1>5 DEF RuntimeEnds
<1>6. CASE ReleaseEnv(c)
  BY <1>6 DEF ReleaseEnv, TypeOK
<1>7. QED
  BY <1>1, <1>2, <1>3, <1>4, <1>5, <1>6

\* A shutdown goes on only while its cluster waits for it.
LEMMA JobAwaited ==
  ASSUME AwaitedInv, NEW c \in Clusters, NEW k \in JobKinds, Job(c, k),
         NEW d \in Clusters
  PROVE  AwaitedProtocol(d)'
<1>1. JobPending(c, k) /\ UNCHANGED <<plan, pc, postgres>>
  BY DEF Job, StopOk, StopFails, CleanupViaWorker, CleanupInProcess, JobPending
<1>2. k = "call"
  BY <1>1, TheJobKinds DEF AwaitedInv, AwaitedProtocol, JobPending
<1>3. PICK s : JobGoto(c, "call", s)
  BY <1>2 DEF Job, StopOk, StopFails, CleanupViaWorker, CleanupInProcess, JobGoto
<1>4. /\ job'[d]["call"] = IF d = c THEN s ELSE job[d]["call"]
      /\ job'[d]["drop"] = job[d]["drop"]
  BY <1>3, JobMoved, TheJobKinds DEF AwaitedInv, JobInv
<1>5. JobPending(d, "call")' => JobPending(d, "call")
  BY <1>1, <1>2, <1>4 DEF JobPending
<1>6. QED
  BY <1>1, <1>4, <1>5 DEF AwaitedInv, AwaitedProtocol

\* The invariant of clusters that wait for their shutdown is inductive.
LEMMA AwaitedInductive == AwaitedInv /\ [Next]_vars => AwaitedInv'
<1>. SUFFICES ASSUME AwaitedInv, [Next]_vars, NEW d \in Clusters
              PROVE  AwaitedProtocol(d)'
  BY JobInductive DEF AwaitedInv
<1>1. CASE \E c \in Clusters :
             Advance(c) \/ CancelStart(c) \/ CancelStop(c) \/ RuntimeEnds(c)
  BY <1>1, StartingAwaited, EndingAwaited DEF Advance
<1>2. CASE \E c \in Clusters, k \in JobKinds : Job(c, k)
  BY <1>2, JobAwaited
<1>3. CASE LateStep \/ UNCHANGED vars
  <2>1. UNCHANGED <<plan, pc, postgres, job>>
    BY <1>3, LateEffects DEF AwaitedInv, JobInv, vars
  <2>2. QED
    BY <2>1 DEF AwaitedInv, AwaitedProtocol, JobPending
<1>4. QED
  BY <1>1, <1>2, <1>3 DEF Next, AllDone

\* A shutdown is over before its cluster gives the environment back.
THEOREM ShutdownKeepsLock ==
  ASSUME AwaitedOnly
  PROVE  Spec => []ShutdownUnderLock
<1>1. Init => AwaitedInv
  <2>. SUFFICES ASSUME Init PROVE AwaitedInv
    OBVIOUS
  <2>1. JobInv
    BY InitType, ClusterAssumption, TheJobKinds
    DEF Init, JobInv, JobProtocol, JobPending, Holding
  <2>2. \A d \in Clusters : AwaitedProtocol(d)
    BY TheJobKinds DEF Init, AwaitedOnly, AwaitedProtocol, JobPending
  <2>3. QED
    BY <2>1, <2>2 DEF AwaitedInv
<1>2. AwaitedInv => ShutdownUnderLock
  BY TheJobKinds DEF AwaitedInv, AwaitedProtocol, JobInv, JobProtocol,
     JobPending, ShutdownUnderLock, Holding
<1>3. QED
  BY <1>1, <1>2, AwaitedInductive, PTL DEF Spec

-----------------------------------------------------------------------------
(* Every fault and every use: what servers and directories are left.       *)

\* Dropping a PostgreSQL value stops the server and removes the data, unless that
\* fails.
Drops ==
  /\ GivesUp /\ LateKept
  /\ "stop" \notin blame' => ~server' /\ orphan' = orphan
  /\ blame' = {} => dataDir' = "absent"

LEMMA DropPostgresDrops ==
  ASSUME TypeOK, NEW failures \in SUBSET FaultKinds, DropPostgres(failures)
  PROVE  Drops /\ failures \subseteq blame'
<1>1. PICK more \in SUBSET (Faults \intersect {"stop", "late_stop", "cleanup"}),
           left \in Remnants :
        /\ "cleanup" \notin more => left = "absent"
        /\ \/ "stop" \notin more /\ dataDir' = left /\ server' = FALSE /\ UNCHANGED orphan
           \/ "stop" \in more /\ Discard(left)
        /\ blame' = blame \union failures \union more
  BY DEF DropPostgres
<1>2. GivesUp /\ LateKept /\ failures \subseteq blame'
  BY DropPostgresGivesUp
<1>3. "stop" \notin blame' => ~server' /\ orphan' = orphan
  BY <1>1
<1>4. blame' = {} => dataDir' = "absent"
  BY <1>1
<1>5. QED
  BY <1>2, <1>3, <1>4 DEF Drops

\* The same for the failures the model names, one at a time.
LEMMA DropsAfter ==
  ASSUME TypeOK
  PROVE  /\ DropPostgres({}) => Drops
         /\ \A f \in FaultKinds : DropPostgres({f}) => Drops /\ f \in blame'
<1>1. DropPostgres({}) => Drops
  <2>1. {} \in SUBSET FaultKinds
    OBVIOUS
  <2>2. QED
    BY <2>1, DropPostgresDrops
<1>2. ASSUME NEW f \in FaultKinds, DropPostgres({f})
      PROVE  Drops /\ f \in blame'
  <2>1. {f} \in SUBSET FaultKinds
    OBVIOUS
  <2>2. QED
    BY <1>2, <2>1, DropPostgresDrops
<1>3. QED
  BY <1>1, <1>2

\* What went wrong is not forgotten, and the plan is kept.
LEMMA BlameGrows ==
  ASSUME JobInv, [Next]_vars
  PROVE  blame \subseteq blame' /\ plan' = plan
<1>0. TypeOK
  BY DEF JobInv
<1>1. \A kind : Fault(kind) => blame \subseteq blame'
  BY DEF Fault
<1>2. \A f \in FaultKinds : DropPostgres({f}) => blame \subseteq blame'
  BY <1>0, DropsAfter DEF Drops, GivesUp
<1>3. DropPostgres({}) => blame \subseteq blame'
  BY <1>0, DropsAfter DEF Drops, GivesUp
<1>4. /\ \A mode : Remove(mode) => blame \subseteq blame'
      /\ StopFault => blame \subseteq blame'
      /\ \A op, kind : GoesOn(op, kind) => blame \subseteq blame'
  BY <1>0, <1>1, RemoveGivesUp, StopFaultGivesUp DEF GivesUp, GoesOn
<1>5. ASSUME NEW c \in Clusters, Advance(c) \/ CancelStart(c) \/ CancelStop(c) \/ RuntimeEnds(c)
      PROVE  blame \subseteq blame' /\ plan' = plan
  BY <1>1, <1>2, <1>3, <1>4, <1>5
  DEF Advance, Bootstrap, ApplyEnv, SetupOk, SetupFails, StartOk, StartFails, CancelStart,
      RefreshPort, Unwind, TestEnds, JobReturns, DropGuard, ReleaseEnv, CancelStop,
      RuntimeEnds, FaultKinds
<1>6. ASSUME NEW c \in Clusters, NEW k \in JobKinds, Job(c, k)
      PROVE  blame \subseteq blame' /\ plan' = plan
  BY <1>1, <1>2, <1>3, <1>4, <1>6
  DEF Job, StopOk, StopFails, CleanupViaWorker, CleanupInProcess, FaultKinds
<1>7. QED
  BY <1>0, <1>5, <1>6, LateEffects DEF Next, AllDone, vars

\* A cluster gets busy when it gets the environment.
LEMMA GetsBusy ==
  ASSUME JobInv, [Next]_vars, NEW d \in Clusters, Busy(d)', ~Busy(d)
  PROVE  ApplyEnv(d)
<1>0. TypeOK
  BY DEF JobInv
<1>1. ASSUME NEW c \in Clusters, NEW k \in JobKinds, Job(c, k)
      PROVE  FALSE
  <2>1. PICK s : JobGoto(c, k, s)
    BY <1>1 DEF Job, StopOk, StopFails, CleanupViaWorker, CleanupInProcess, JobGoto
  <2>2. JobPending(c, k) /\ pc' = pc
    BY <1>1 DEF Job, StopOk, StopFails, CleanupViaWorker, CleanupInProcess, JobPending
  <2>3. \A h \in JobKinds : JobPending(d, h)' => JobPending(d, h)
    BY <1>0, <2>1, <2>2, JobMoved DEF JobPending
  <2>4. QED
    BY <2>2, <2>3 DEF Busy
<1>2. ASSUME NEW c \in Clusters, Advance(c) \/ CancelStart(c) \/ CancelStop(c) \/ RuntimeEnds(c),
             job' = job
      PROVE  ApplyEnv(d)
  BY <1>0, <1>2
  DEF TypeOK, Goto, Busy, JobPending, Holding, Advance, Bootstrap, SetupOk,
      SetupFails, StartOk, StartFails, CancelStart, RefreshPort, Unwind, TestEnds, JobReturns,
      DropGuard, ReleaseEnv, CancelStop, RuntimeEnds, ApplyEnv
<1>3. ASSUME NEW c \in Clusters, NEW k \in JobKinds, NEW s, JobGoto(c, k, s),
             Busy(c), pc' = pc \/ (\E to : pc' = [pc EXCEPT ![c] = to])
      PROVE  FALSE
  <2>1. d # c
    BY <1>3
  <2>2. \A h \in JobKinds : job'[d][h] = job[d][h]
    BY <1>0, <1>3, <2>1, JobMoved
  <2>3. QED
    BY <1>0, <1>3, <2>1, <2>2 DEF TypeOK, Busy, JobPending
<1>4. ASSUME NEW c \in Clusters, Advance(c) \/ CancelStart(c) \/ CancelStop(c) \/ RuntimeEnds(c),
             job' # job
      PROVE  FALSE
  <2>1. PICK k, s : k \in JobKinds /\ JobGoto(c, k, s)
    BY <1>4, TheJobKinds
    DEF Advance, Bootstrap, ApplyEnv, SetupOk, SetupFails, StartOk, StartFails, CancelStart,
        RefreshPort, Unwind, TestEnds, JobReturns, DropGuard, ReleaseEnv, CancelStop,
        RuntimeEnds, BeginJob, JobGoto
  <2>2. Busy(c) /\ (pc' = pc \/ \E to : pc' = [pc EXCEPT ![c] = to])
    BY <1>4, TheJobKinds
    DEF Advance, Bootstrap, ApplyEnv, SetupOk, SetupFails, StartOk, StartFails, CancelStart,
        RefreshPort, Unwind, TestEnds, JobReturns, DropGuard, ReleaseEnv, CancelStop,
        RuntimeEnds, Goto, Busy, JobPending, Holding
  <2>3. QED
    BY <1>3, <2>1, <2>2
<1>5. CASE LateStep \/ UNCHANGED vars
  BY <1>0, <1>5, LateEffects DEF vars, Busy, JobPending
<1>6. QED
  BY <1>1, <1>2, <1>4, <1>5 DEF Next, AllDone

\* Unless a job overlaps with the next cluster, one cluster is busy at a time.
LEMMA OneBusy ==
  ASSUME FaultInv, [Next]_vars, "overlap" \notin blame',
         NEW c \in Clusters, NEW d \in Clusters, Busy(c)', Busy(d)'
  PROVE  c = d
<1>0. JobInv /\ TypeOK /\ "overlap" \notin blame
  BY BlameGrows DEF FaultInv, JobInv
<1>1. ASSUME NEW a \in Clusters, NEW b \in Clusters, ApplyEnv(a), Busy(b)', a # b
      PROVE  FALSE
  <2>1. ~Busy(b)
    <3>1. envOwner = NoCluster /\ \A k \in JobKinds : ~JobPending(b, k)
      BY <1>0, <1>1 DEF ApplyEnv
    <3>2. pc[b] \notin Holding
      BY <1>0, <3>1, ClusterAssumption DEF JobInv, JobProtocol
    <3>3. QED
      BY <3>1, <3>2 DEF Busy
  <2>2. pc'[b] = pc[b] /\ job' = job
    BY <1>0, <1>1 DEF ApplyEnv, Goto, TypeOK
  <2>3. QED
    BY <1>1, <2>1, <2>2 DEF Busy, JobPending
<1>2. CASE Busy(c) /\ Busy(d)
  BY <1>0, <1>2 DEF FaultInv
<1>3. QED
  BY <1>0, <1>1, <1>2, GetsBusy

\* The part of the invariant that is about the server, and about the directory.
ServerLife ==
  /\ ServerInv
  /\ OrphanOnlyByFailure
  /\ server /\ blame \intersect MayLeaveServer = {} => \E c \in Clusters : MustStop(c)

\* Two clusters with the environment, or jobs, mean that a job overlapped.
LEMMA BusyAlone ==
  ASSUME FaultInv, "overlap" \notin blame, NEW c \in Clusters, NEW d \in Clusters, c # d,
         Busy(c)
  PROVE  pc[d] \notin Holding /\ \A k \in JobKinds : ~JobPending(d, k)
  BY DEF FaultInv, Busy

\* A cluster that starts runs no job, and then nobody wipes anything.
LEMMA NoWipes ==
  ASSUME FaultInv, "overlap" \notin blame, NEW c \in Clusters,
         pc[c] \in {"setup", "start", "port", "unwind", "ready"}
  PROVE  \A d \in Clusters, k \in JobKinds : job[d][k] \notin {"stop", "wipe_worker", "wipe"}
<1>1. Busy(c)
  BY DEF Busy, Holding
<1>2. \A k \in JobKinds : ~JobPending(c, k)
  BY TheJobKinds DEF FaultInv, LifeProtocol
<1>3. QED
  BY <1>1, <1>2, BusyAlone DEF JobPending

\* What is still going on stays blamed.
LEMMA StaysBlamed ==
  ASSUME LateBlamed, blame \subseteq blame', LateKept \/ late' = late
  PROVE  LateBlamed'
  BY DEF LateBlamed, LateKept

\* A new one is blamed.
LEMMA GoesOnBlamed ==
  ASSUME LateBlamed, NEW op \in {"setup", "start"}, NEW kind \in Unfinished,
         GoesOn(op, kind)
  PROVE  LateBlamed'
  BY DEF LateBlamed, GoesOn, Fault

\* Starting a cluster, as far as the clusters are concerned.
LEMMA StartingLife ==
  ASSUME FaultInv, [Next]_vars, NEW c \in Clusters, NEW d \in Clusters,
         \/ Bootstrap(c) \/ ApplyEnv(c) \/ SetupOk(c) \/ SetupFails(c)
         \/ StartOk(c) \/ StartFails(c) \/ CancelStart(c) \/ RefreshPort(c) \/ Unwind(c)
  PROVE  LifeProtocol(d)'
<1>. USE DEF Goto
<1>0. /\ JobInv /\ TypeOK /\ LifeProtocol(c) /\ LifeProtocol(d)
      /\ blame \subseteq blame' /\ plan' = plan
  BY BlameGrows DEF FaultInv, JobInv
<1>1. job' = job
  BY DEF Bootstrap, ApplyEnv, SetupOk, SetupFails, StartOk, StartFails, CancelStart,
         RefreshPort, Unwind
<1>2. /\ JobPending(d, "call")' => pc'[d] \in {"await", "drop", "release", "done"}
      /\ JobPending(d, "drop")' => pc'[d] \in {"release", "done"}
  BY <1>0, <1>1
  DEF TypeOK, LifeProtocol, JobPending, Bootstrap, ApplyEnv, SetupOk, SetupFails,
      StartOk, StartFails, CancelStart, RefreshPort, Unwind
<1>3. /\ pc'[d] \in {"setup", "start", "port", "unwind", "ready"}
            => postgres'[d] = ~plan'.worker
      /\ pc'[d] = "await" => plan'.use[d] # "drop_async"
      /\ pc'[d] = "drop" /\ plan'.use[d] = "drop_async" => postgres'[d] = ~plan'.worker
      /\ postgres'[d] => ~plan'.worker
  BY <1>0
  DEF TypeOK, LifeProtocol, Bootstrap, ApplyEnv, SetupOk, SetupFails,
      StartOk, StartFails, CancelStart, RefreshPort, Unwind
<1>4. ASSUME NEW k \in JobKinds, job'[d][k] \in {"wipe_worker", "wipe"}, server'
      PROVE  blame' \intersect (Unfinished \union {"overlap"}) # {}
  <2>1. CASE server
    BY <1>0, <1>1, <1>4, <2>1 DEF LifeProtocol
  <2>2. CASE ~server
    <3>1. pc[c] = "start"
      <4>1. Unwind(c) => ~server'
        BY <1>0, <2>2, DropsAfter DEF Unwind, Drops, GivesUp
      <4>2. SetupOk(c) => ~server'
        BY <1>0, <2>2, StopFaultGivesUp DEF SetupOk
      <4>3. QED
        BY <1>4, <2>2, <4>1, <4>2
        DEF Bootstrap, ApplyEnv, SetupOk, SetupFails, StartOk, StartFails, CancelStart,
            RefreshPort, world
    <3>2. QED
      BY <1>0, <1>1, <1>4, <3>1, NoWipes
  <2>3. QED
    BY <1>0, <2>1, <2>2 DEF TypeOK
<1>5. QED
  BY <1>2, <1>3, <1>4 DEF LifeProtocol

\* And as far as the server is concerned.
LEMMA StartingServer ==
  ASSUME FaultInv, [Next]_vars, NEW c \in Clusters,
         \/ Bootstrap(c) \/ ApplyEnv(c) \/ SetupOk(c) \/ SetupFails(c)
         \/ StartOk(c) \/ StartFails(c) \/ CancelStart(c) \/ RefreshPort(c) \/ Unwind(c)
  PROVE  ServerLife'
<1>. USE DEF Goto
<1>0. /\ JobInv /\ TypeOK /\ LifeProtocol(c) /\ ServerLife
      /\ blame \subseteq blame' /\ plan' = plan
  BY BlameGrows DEF FaultInv, JobInv, ServerLife
<1>a. SetUp \/ SetUpInPart \/ StartSetUp => (dataDir = "whole" => dataDir' = "whole")
  BY <1>0, SetUpKeeps
<1>b. pc[c] = "unwind" /\ ~postgres[c] => plan.worker
  BY <1>0 DEF LifeProtocol, TypeOK
<1>1. LateBlamed'
  <2>0. LateBlamed
    BY <1>0 DEF ServerLife, ServerInv
  <2>1. CASE SetupFails(c) \/ StartFails(c)
    <3>1. \/ late' = late
          \/ GoesOn("setup", "late_setup") \/ GoesOn("start", "late_start")
      BY <2>1 DEF SetupFails, StartFails
    <3>2. QED
      BY <1>0, <2>0, <3>1, StaysBlamed, GoesOnBlamed DEF Unfinished
  <2>2. CASE CancelStart(c)
    <3>1. "cancel_start" \in blame' /\ ("stop" \in late' => "stop" \in late)
      BY <2>2 DEF CancelStart, Fault, Abandoned
    <3>2. QED
      BY <1>0, <2>0, <3>1 DEF LateBlamed, Unfinished
  <2>3. CASE \/ Bootstrap(c) \/ ApplyEnv(c) \/ SetupOk(c) \/ StartOk(c)
             \/ RefreshPort(c) \/ Unwind(c)
    <3>1. LateKept \/ late' = late
      BY <1>0, <2>3, StopFaultGivesUp, DropsAfter
      DEF Bootstrap, ApplyEnv, SetupOk, StartOk, RefreshPort, Unwind, world, Drops
    <3>2. QED
      BY <1>0, <2>0, <3>1, StaysBlamed
  <2>4. QED
    BY <2>1, <2>2, <2>3
<1>2. server' => dataDir' = "whole"
  <2>1. Unwind(c) => (server' => dataDir' = "whole")
    BY <1>0, DropsAfter DEF Unwind, Drops, GivesUp, ServerLife, ServerInv
  <2>2. SetupOk(c) => (server' => server)
    BY <1>0, StopFaultGivesUp DEF SetupOk
  <2>3. QED
    BY <1>0, <1>a, <2>1, <2>2
    DEF ServerLife, ServerInv, Bootstrap, ApplyEnv, SetupOk, SetupFails, StartOk, StartFails,
        CancelStart, Startable, RefreshPort, world
<1>3. OrphanOnlyByFailure'
  <2>1. CASE orphan' = orphan
    BY <1>0, <2>1 DEF ServerLife, OrphanOnlyByFailure
  <2>2. CASE orphan' # orphan
    <3>1. postgres[c] /\ Drops
      BY <1>0, <2>2, DropsAfter
      DEF Bootstrap, ApplyEnv, SetupOk, SetupFails, StartOk, StartFails, CancelStart, RefreshPort,
          Unwind, world
    <3>2. "stop" \in blame' /\ ~plan.worker
      BY <1>0, <2>2, <3>1 DEF Drops, LifeProtocol
    <3>3. QED
      BY <1>0, <3>2 DEF OrphanOnlyByFailure
  <2>3. QED
    BY <2>1, <2>2
<1>4. ASSUME server', blame' \intersect MayLeaveServer' = {}
      PROVE  \E d \in Clusters : MustStop(d)'
  <2>0. blame \intersect MayLeaveServer = {}
        /\ blame' \intersect {"stop", "late_setup", "late_start", "cancel_start"} = {}
        /\ (plan.worker => blame' \intersect {"start", "port"} = {})
    BY <1>0, <1>4 DEF MayLeaveServer, Unfinished
  <2>1. CASE StartOk(c)
    <3>1. pc'[c] = "port"
      BY <1>0, <2>1 DEF StartOk, TypeOK
    <3>2. QED
      BY <3>1 DEF MustStop
  <2>2. CASE StartFails(c)
    <3>1. ~plan.worker
      BY <1>0, <1>4, <2>0, <2>2 DEF StartFails, GoesOn, Fault
    <3>2. pc'[c] = "unwind" /\ postgres'[c]
      BY <1>0, <2>2, <3>1 DEF StartFails, TypeOK, LifeProtocol
    <3>3. QED
      BY <3>2 DEF MustStop
  <2>c. ~CancelStart(c)
    BY <2>0 DEF CancelStart, Fault
  <2>3. CASE ~StartOk(c) /\ ~StartFails(c)
    <3>1. server /\ job' = job
      BY <1>0, <1>4, <2>c, <2>3, StopFaultGivesUp, DropsAfter
      DEF Bootstrap, ApplyEnv, SetupOk, SetupFails, RefreshPort, Unwind, world, Drops,
          GivesUp, TypeOK
    <3>2. PICK d \in Clusters : MustStop(d)
      BY <1>0, <2>0, <3>1 DEF ServerLife
    <3>3. CASE d # c
      <4>1. pc'[d] = pc[d] /\ postgres'[d] = postgres[d]
        BY <1>0, <2>c, <2>3, <3>3
        DEF TypeOK, Bootstrap, ApplyEnv, SetupOk, SetupFails, RefreshPort, Unwind
      <4>2. QED
        BY <1>0, <3>1, <3>2, <4>1 DEF MustStop, SkipShutdown
    <3>4. CASE d = c /\ \E k \in JobKinds : job[d][k] = "stop"
      BY <3>1, <3>4 DEF MustStop
    <3>5. CASE d = c /\ pc[c] = "port"
      <4>1. pc'[c] = "ready"
        BY <1>0, <2>0, <2>c, <2>3, <3>5
        DEF Bootstrap, ApplyEnv, SetupOk, SetupFails, RefreshPort, Unwind, Fault, TypeOK
      <4>2. QED
        BY <4>1 DEF MustStop
    <3>6. ~(pc[c] = "unwind" /\ postgres[c])
      BY <1>0, <1>4, <2>0, <2>c, <2>3, DropsAfter
      DEF Bootstrap, ApplyEnv, SetupOk, SetupFails, RefreshPort, Unwind, Drops
    <3>7. pc[c] \notin {"ready", "drop"}
      BY <2>c, <2>3 DEF Bootstrap, ApplyEnv, SetupOk, SetupFails, RefreshPort, Unwind
    <3>8. QED
      BY <3>2, <3>3, <3>4, <3>5, <3>6, <3>7 DEF MustStop
  <2>4. QED
    BY <2>1, <2>2, <2>3
<1>5. QED
  BY <1>1, <1>2, <1>3, <1>4 DEF ServerLife, ServerInv

\* Ending a cluster: what it does to the jobs.
LEMMA EndingJobs ==
  ASSUME JobInv, NEW c \in Clusters,
         \/ TestEnds(c) \/ JobReturns(c) \/ CancelStop(c) \/ DropGuard(c)
         \/ RuntimeEnds(c) \/ ReleaseEnv(c)
  PROVE  \A d \in Clusters, k \in JobKinds :
           \/ job'[d][k] = job[d][k]
           \/ d = c /\ job'[d][k] = "done"
           \/ d = c /\ job'[d][k] = "stop" /\ k = "call" /\ pc[c] = "ready" /\ pc'[c] = "await"
           \/ d = c /\ job'[d][k] = "stop" /\ k = "drop" /\ pc[c] = "drop" /\ pc'[c] = "release"
<1>. SUFFICES ASSUME NEW d \in Clusters, NEW k \in JobKinds
              PROVE \/ job'[d][k] = job[d][k]
                    \/ d = c /\ job'[d][k] = "done"
                    \/ /\ d = c /\ job'[d][k] = "stop" /\ k = "call"
                       /\ pc[c] = "ready" /\ pc'[c] = "await"
                    \/ /\ d = c /\ job'[d][k] = "stop" /\ k = "drop"
                       /\ pc[c] = "drop" /\ pc'[c] = "release"
  OBVIOUS
<1>. USE DEF Goto, JobInv, BeginJob
<1>1. CASE job' = job
  BY <1>1
<1>2. CASE JobGoto(c, "call", "stop") /\ TestEnds(c)
  <2>1. job'[d][k] = IF d = c /\ k = "call" THEN "stop" ELSE job[d][k]
    BY <1>2, JobMoved, TheJobKinds
  <2>2. pc[c] = "ready" /\ (pc'[c] = "await" \/ job' = job)
    BY <1>2 DEF TestEnds, TypeOK
  <2>3. QED
    BY <2>1, <2>2
<1>3. CASE JobGoto(c, "drop", "stop") /\ DropGuard(c)
  <2>1. job'[d][k] = IF d = c /\ k = "drop" THEN "stop" ELSE job[d][k]
    BY <1>3, JobMoved, TheJobKinds
  <2>2. pc[c] = "drop" /\ pc'[c] = "release"
    BY <1>3 DEF DropGuard, TypeOK
  <2>3. QED
    BY <2>1, <2>2
<1>4. ASSUME NEW h \in JobKinds, JobGoto(c, h, "done")
      PROVE  job'[d][k] \in {job[d][k], "done"} /\ (d # c => job'[d][k] = job[d][k])
  BY <1>4, JobMoved
<1>5. QED
  BY <1>1, <1>2, <1>3, <1>4, TheJobKinds
  DEF TestEnds, JobReturns, CancelStop, DropGuard, RuntimeEnds, ReleaseEnv, JobGoto

\* Ending a cluster brings no server up.
LEMMA EndingEffects ==
  ASSUME FaultInv, NEW c \in Clusters,
         \/ TestEnds(c) \/ JobReturns(c) \/ CancelStop(c) \/ DropGuard(c)
         \/ RuntimeEnds(c) \/ ReleaseEnv(c)
  PROVE  /\ installed' = installed
         /\ \/ UNCHANGED <<dataDir, server, orphan, late>>
            \/ ~plan.worker /\ Drops
<1>1. TypeOK
  BY DEF FaultInv, JobInv
<1>2. QED
  BY <1>1, DropsAfter
  DEF TestEnds, JobReturns, CancelStop, DropGuard, RuntimeEnds, ReleaseEnv, world,
      FaultKinds

LEMMA EndingLife ==
  ASSUME FaultInv, [Next]_vars, NEW c \in Clusters, NEW d \in Clusters,
         \/ TestEnds(c) \/ JobReturns(c) \/ CancelStop(c) \/ DropGuard(c)
         \/ RuntimeEnds(c) \/ ReleaseEnv(c)
  PROVE  LifeProtocol(d)'
<1>. USE DEF Goto
<1>0. /\ JobInv /\ TypeOK /\ LifeProtocol(c) /\ LifeProtocol(d) /\ JobProtocol(c)
      /\ blame \subseteq blame' /\ plan' = plan
  BY BlameGrows DEF FaultInv, JobInv
<1>1. \A k \in JobKinds :
        \/ job'[d][k] = job[d][k]
        \/ d = c /\ job'[d][k] = "done"
        \/ d = c /\ job'[d][k] = "stop" /\ k = "call" /\ pc[c] = "ready" /\ pc'[c] = "await"
        \/ d = c /\ job'[d][k] = "stop" /\ k = "drop" /\ pc[c] = "drop" /\ pc'[c] = "release"
  BY <1>0, EndingJobs
<1>2. CASE d # c
  <2>1. pc'[d] = pc[d] /\ postgres'[d] = postgres[d] /\ \A k \in JobKinds : job'[d][k] = job[d][k]
    BY <1>0, <1>1, <1>2
    DEF TypeOK, TestEnds, JobReturns, CancelStop, DropGuard, RuntimeEnds, ReleaseEnv
  <2>2. server' => server
    BY <1>0, EndingEffects DEF Drops, GivesUp
  <2>3. QED
    BY <1>0, <2>1, <2>2, TheJobKinds DEF LifeProtocol, JobPending
<1>3. CASE d = c
  <2>1. server' => server
    BY <1>0, EndingEffects DEF Drops, GivesUp
  <2>2. \A k \in JobKinds : job'[c][k] \in {"wipe_worker", "wipe"} =>
           ~server' \/ blame' \intersect (Unfinished \union {"overlap"}) # {}
    BY <1>0, <1>1, <1>3, <2>1 DEF LifeProtocol
  <2>3. /\ JobPending(c, "call")' => pc'[c] \in {"await", "drop", "release", "done"}
        /\ JobPending(c, "drop")' => pc'[c] \in {"release", "done"}
    BY <1>0, <1>1, <1>3, TheJobKinds
    DEF TypeOK, LifeProtocol, JobPending, TestEnds, JobReturns, CancelStop, DropGuard,
        RuntimeEnds, ReleaseEnv
  <2>4. /\ pc'[c] \in {"setup", "start", "port", "unwind", "ready"}
              => postgres'[c] = ~plan'.worker
        /\ pc'[c] = "await" => plan'.use[c] # "drop_async"
        /\ pc'[c] = "drop" /\ plan'.use[c] = "drop_async" => postgres'[c] = ~plan'.worker
        /\ postgres'[c] => ~plan'.worker
    BY <1>0
    DEF TypeOK, LifeProtocol, TestEnds, JobReturns, CancelStop, DropGuard, RuntimeEnds,
        ReleaseEnv, JobProtocol
  <2>5. QED
    BY <1>3, <2>2, <2>3, <2>4 DEF LifeProtocol
<1>4. QED
  BY <1>2, <1>3

\* Who is to stop the server after the test body does it, hands it on, or fails.
LEMMA EndingServer ==
  ASSUME FaultInv, [Next]_vars, NEW c \in Clusters,
         \/ TestEnds(c) \/ JobReturns(c) \/ CancelStop(c) \/ DropGuard(c)
         \/ RuntimeEnds(c) \/ ReleaseEnv(c)
  PROVE  ServerLife'
<1>. USE DEF Goto
<1>0. /\ JobInv /\ TypeOK /\ LifeProtocol(c) /\ ServerLife /\ JobProtocol(c)
      /\ blame \subseteq blame' /\ plan' = plan
  BY BlameGrows DEF FaultInv, JobInv, ServerLife
<1>1. ServerInv'
  BY <1>0, EndingEffects, StaysBlamed DEF ServerLife, ServerInv, Drops, GivesUp
<1>2. OrphanOnlyByFailure'
  BY <1>0, EndingEffects DEF ServerLife, OrphanOnlyByFailure, Drops
<1>3. ASSUME server', blame' \intersect MayLeaveServer' = {}
      PROVE  \E d \in Clusters : MustStop(d)'
  <2>0. blame \intersect MayLeaveServer = {} /\ "stop" \notin blame'
        /\ (plan.worker => blame' \intersect {"no_runtime", "runtime_ends"} = {})
    BY <1>0, <1>3 DEF MayLeaveServer
  <2>1. ~Drops /\ server
    BY <1>3, <2>0, EndingEffects DEF Drops
  <2>2. PICK d \in Clusters : MustStop(d)
    BY <1>0, <2>0, <2>1 DEF ServerLife
  <2>3. CASE d # c
    <3>1. pc'[d] = pc[d] /\ postgres'[d] = postgres[d]
      BY <1>0, <2>3
      DEF TypeOK, TestEnds, JobReturns, CancelStop, DropGuard, RuntimeEnds, ReleaseEnv
    <3>2. \A k \in JobKinds : job'[d][k] = job[d][k]
      BY <1>0, <2>3, EndingJobs
    <3>3. QED
      BY <1>0, <2>2, <3>1, <3>2 DEF MustStop, SkipShutdown
  <2>4. CASE d = c /\ TestEnds(c)
    <3>1. CASE JobGoto(c, "call", "stop")
      <4>1. job'[c]["call"] = "stop"
        BY <1>0, <3>1, JobMoved, TheJobKinds
      <4>2. QED
        BY <4>1, TheJobKinds DEF MustStop
    <3>2. CASE ~JobGoto(c, "call", "stop")
      <4>1. pc'[c] = "drop" /\ plan'.use[c] = "drop_async" /\ pc[c] = "ready"
            /\ postgres'[c] = postgres[c]
        BY <1>0, <2>4, <3>2 DEF TestEnds, BeginJob, JobGoto, TypeOK
      <4>2. QED
        BY <1>0, <4>1 DEF MustStop, SkipShutdown, LifeProtocol
    <3>3. QED
      BY <3>1, <3>2
  <2>5. CASE d = c /\ DropGuard(c)
    <3>1. CASE SkipShutdown(c)
      <4>1. PICK k \in JobKinds : job[c][k] = "stop"
        BY <2>2, <2>5, <3>1 DEF MustStop, DropGuard
      <4>2. job' = job
        BY <2>5, <3>1 DEF DropGuard
      <4>3. QED
        BY <4>1, <4>2 DEF MustStop
    <3>2. CASE ~SkipShutdown(c)
      <4>1. ~Fault("no_runtime") \/ ~plan.worker
        BY <2>0 DEF Fault
      <4>2. ~DropPostgres({"no_runtime"})
        BY <1>0, <2>1, DropsAfter DEF FaultKinds
      <4>3. JobGoto(c, "drop", "stop")
        BY <2>5, <3>2, <4>1, <4>2 DEF DropGuard, BeginJob, JobGoto
      <4>4. job'[c]["drop"] = "stop"
        BY <1>0, <4>3, JobMoved, TheJobKinds
      <4>5. QED
        BY <4>4, TheJobKinds DEF MustStop
    <3>3. QED
      BY <3>1, <3>2
  <2>6. CASE d = c /\ (JobReturns(c) \/ CancelStop(c) \/ ReleaseEnv(c))
    <3>1. job' = job
      BY <1>0, <2>1, <2>6, DropsAfter DEF JobReturns, CancelStop, ReleaseEnv, FaultKinds
    <3>2. QED
      BY <2>2, <2>6, <3>1 DEF MustStop, JobReturns, CancelStop, ReleaseEnv
  <2>7. ~RuntimeEnds(c)
    BY <1>0, <2>0, <2>1, DropsAfter DEF RuntimeEnds, FaultKinds, Fault
  <2>8. QED
    BY <2>3, <2>4, <2>5, <2>6, <2>7
<1>4. QED
  BY <1>1, <1>2, <1>3 DEF ServerLife

\* The steps of a job: what they do to the cluster and to the jobs.
LEMMA JobEffects ==
  ASSUME FaultInv, NEW c \in Clusters, NEW k \in JobKinds, Job(c, k)
  PROVE  /\ UNCHANGED <<plan, envOwner, pc, postgres>>
         /\ LateKept \/ late' = late
         /\ JobPending(c, k)
         /\ \A d \in Clusters, h \in JobKinds : d # c \/ h # k => job'[d][h] = job[d][h]
         /\ job'[c][k] \in {"wipe_worker", "wipe", "done"}
         /\ job[c][k] = "stop" => ~server' \/ job'[c][k] = "done"
         /\ server' => server /\ dataDir' = dataDir
<1>0. TypeOK
  BY DEF FaultInv, JobInv
<1>1. UNCHANGED <<plan, envOwner, pc, postgres>> /\ JobPending(c, k)
  BY DEF Job, StopOk, StopFails, CleanupViaWorker, CleanupInProcess, JobPending
<1>a. LateKept \/ late' = late
  BY <1>0, DropsAfter, StopFaultGivesUp
  DEF Job, StopOk, StopFails, CleanupViaWorker, CleanupInProcess, Drops, FaultKinds
<1>2. PICK s : JobGoto(c, k, s) /\ s \in {"wipe_worker", "wipe", "done"}
               /\ (job[c][k] = "stop" => ~server' \/ s = "done")
  BY DEF Job, StopOk, StopFails, CleanupViaWorker, CleanupInProcess
<1>3. \A d \in Clusters, h \in JobKinds :
        job'[d][h] = IF d = c /\ h = k THEN s ELSE job[d][h]
  BY <1>0, <1>2, JobMoved
<1>4. server' => server /\ dataDir' = dataDir
  <2>1. CleanupViaWorker(c, k) \/ CleanupInProcess(c, k) => GivesUp
    BY <1>0, RemoveGivesUp DEF CleanupViaWorker, CleanupInProcess
  <2>2. StopFails(c, k) => (server' => server /\ dataDir' = dataDir)
    BY <1>0, DropsAfter, StopFaultGivesUp DEF StopFails, Drops, GivesUp, FaultKinds
  <2>3. QED
    BY <2>1, <2>2 DEF Job, StopOk, GivesUp
<1>5. QED
  BY <1>1, <1>a, <1>2, <1>3, <1>4

LEMMA JobLife ==
  ASSUME FaultInv, [Next]_vars, NEW c \in Clusters, NEW k \in JobKinds, Job(c, k),
         NEW d \in Clusters
  PROVE  LifeProtocol(d)'
<1>0. /\ LifeProtocol(d) /\ LifeProtocol(c)
      /\ blame \subseteq blame' /\ plan' = plan
  BY BlameGrows DEF FaultInv, JobInv
<1>1. \A h \in JobKinds : JobPending(d, h)' => JobPending(d, h)
  BY JobEffects DEF JobPending
<1>2. \A h \in JobKinds : job'[d][h] \in {"wipe_worker", "wipe"} =>
         ~server' \/ blame' \intersect (Unfinished \union {"overlap"}) # {}
  <2>1. ASSUME NEW h \in JobKinds, job'[d][h] \in {"wipe_worker", "wipe"}, server'
        PROVE  job[d][h] \in {"wipe_worker", "wipe"} /\ server
    BY <2>1, JobEffects DEF JobPending
  <2>2. QED
    BY <1>0, <2>1 DEF LifeProtocol
<1>3. QED
  BY <1>0, <1>1, <1>2, JobEffects, TheJobKinds DEF LifeProtocol

\* A removal takes a directory from under a server only if there is one.
LEMMA RemoveOrphans ==
  ASSUME NEW mode, Remove(mode), orphan'
  PROVE  orphan \/ server
  BY DEF Remove, Discard

LEMMA JobServer ==
  ASSUME FaultInv, [Next]_vars, NEW c \in Clusters, NEW k \in JobKinds, Job(c, k)
  PROVE  ServerLife'
<1>0. /\ JobInv /\ TypeOK /\ LifeProtocol(c) /\ ServerLife
      /\ blame \subseteq blame' /\ plan' = plan
  BY BlameGrows DEF FaultInv, JobInv, ServerLife
<1>1. ServerInv'
  BY <1>0, JobEffects, StaysBlamed DEF ServerLife, ServerInv
<1>2. OrphanOnlyByFailure'
  <2>1. CASE orphan' => orphan
    BY <1>0, <2>1 DEF ServerLife, OrphanOnlyByFailure
  <2>2. CASE orphan' /\ ~orphan
    <3>1. CASE job[c][k] = "stop"
      <4>1. ~plan.worker /\ Drops
        BY <1>0, <2>2, <3>1, DropsAfter
        DEF Job, StopOk, StopFails, CleanupViaWorker, CleanupInProcess, FaultKinds
      <4>2. "stop" \in blame'
        BY <2>2, <4>1 DEF Drops
      <4>3. QED
        BY <1>0, <4>1, <4>2 DEF OrphanOnlyByFailure
    <3>2. CASE job[c][k] # "stop"
      <4>1. job[c][k] \in {"wipe_worker", "wipe"} /\ server
        BY <2>2, <3>2, RemoveOrphans
        DEF Job, StopOk, StopFails, CleanupViaWorker, CleanupInProcess
      <4>2. QED
        BY <1>0, <4>1 DEF LifeProtocol, OrphanOnlyByFailure
    <3>3. QED
      BY <3>1, <3>2
  <2>3. QED
    BY <2>1, <2>2
<1>3. ASSUME server', blame' \intersect MayLeaveServer' = {}
      PROVE  \E d \in Clusters : MustStop(d)'
  <2>1. server /\ blame \intersect MayLeaveServer = {} /\ "stop" \notin blame'
    BY <1>0, <1>3, JobEffects DEF MayLeaveServer
  <2>2. PICK d \in Clusters : MustStop(d)
    BY <1>0, <2>1 DEF ServerLife
  <2>3. job[c][k] # "stop"
    <3>1. ~StopFails(c, k)
      <4>1. ~DropPostgres({}) /\ ~DropPostgres({"stop"})
        BY <1>0, <1>3, <2>1, DropsAfter DEF Drops, FaultKinds
      <4>2. dataDir = "whole"
        BY <1>0, <2>1 DEF ServerLife, ServerInv
      <4>3. QED
        BY <1>0, <2>1, <4>1, <4>2, StopFaultGivesUp DEF StopFails
    <3>2. QED
      BY <1>3, <3>1 DEF Job, StopOk, CleanupViaWorker, CleanupInProcess
  <2>4. \A h \in JobKinds : job[d][h] = "stop" => job'[d][h] = "stop"
    BY <2>3, JobEffects
  <2>5. QED
    BY <1>0, <2>2, <2>4, JobEffects DEF MustStop, SkipShutdown
<1>4. QED
  BY <1>1, <1>2, <1>3 DEF ServerLife

\* What goes on by itself does what it does to the next cluster, and is blamed.
LEMMA LateLife ==
  ASSUME FaultInv, LateStep
  PROVE  ServerLife' /\ \A d \in Clusters : LifeProtocol(d)'
<1>1. TypeOK /\ LateBlamed /\ OrphanOnlyByFailure /\ (server => dataDir = "whole")
  BY DEF FaultInv, JobInv, ServerInv
<1>2. /\ UNCHANGED <<plan, pc, postgres, job, blame>>
      /\ late' \subseteq late /\ late # {} /\ late \subseteq LateOps
      /\ server' => dataDir' = "whole" \/ (server /\ dataDir' = dataDir)
      /\ \/ late \intersect {"setup", "start"} # {}
         \/ "stop" \in late /\ UNCHANGED <<dataDir, installed, orphan>>
  BY <1>1, LateEffects DEF TypeOK
<1>3. LateBlamed'
  BY <1>1, <1>2 DEF LateBlamed
<1>4. server' => dataDir' = "whole"
  BY <1>1, <1>2
<1>5. OrphanOnlyByFailure'
  BY <1>1, <1>2 DEF LateBlamed, OrphanOnlyByFailure
<1>6. blame \intersect MayLeaveServer # {}
  BY <1>1, <1>2 DEF LateBlamed, MayLeaveServer, LateOps
<1>7. MayLeaveServer' = MayLeaveServer
  BY <1>2 DEF MayLeaveServer
<1>8. ServerLife'
  BY <1>2, <1>3, <1>4, <1>5, <1>6, <1>7 DEF ServerLife, ServerInv
<1>9. ASSUME NEW d \in Clusters PROVE LifeProtocol(d)'
  <2>1. LifeProtocol(d)
    BY DEF FaultInv
  <2>2. CASE late \intersect {"setup", "start"} # {}
    BY <1>1, <1>2, <2>1, <2>2 DEF LifeProtocol, JobPending, LateBlamed
  <2>3. CASE ~(late \intersect {"setup", "start"} # {})
    <3>1. LateStop
      BY <2>3 DEF LateStep, LateSetup, LateStart
    <3>2. QED
      <4>1. server' = server \/ server' = FALSE
        BY <3>1 DEF LateStop
      <4>2. QED
        BY <1>2, <2>1, <4>1 DEF LifeProtocol, JobPending
  <2>4. QED
    BY <2>2, <2>3
<1>10. QED
  BY <1>8, <1>9

\* In time: what is up has its binaries, and stays up until its own cluster stops it.
LEMMA UpInductive ==
  ASSUME FaultInv, [Next]_vars, InTime'
  PROVE  /\ server' => installed'
         /\ \A d \in Clusters : pc'[d] \in {"port", "ready"} => server'
<1>. USE DEF Goto
<1>0. /\ JobInv /\ TypeOK /\ blame \subseteq blame' /\ plan' = plan
      /\ server => installed
      /\ \A d \in Clusters : pc[d] \in {"port", "ready"} => server
      /\ "overlap" \notin blame /\ blame \intersect Unfinished = {}
      /\ late = {}
  <2>1. JobInv /\ TypeOK /\ blame \subseteq blame' /\ plan' = plan
    BY BlameGrows DEF FaultInv, JobInv
  <2>2. InTime
    BY <2>1 DEF InTime
  <2>3. late = {}
    BY <2>1, <2>2 DEF FaultInv, ServerInv, LateBlamed, InTime, TypeOK, LateOps
  <2>4. QED
    BY <2>1, <2>2, <2>3 DEF FaultInv, UpInv, InTime
<1>a. SetUp \/ SetUpInPart \/ StartSetUp => (installed => installed')
  BY <1>0 DEF SetUp, SetUpInPart, StartSetUp, TypeOK
<1>1. ASSUME NEW c \in Clusters,
             \/ Bootstrap(c) \/ ApplyEnv(c) \/ SetupOk(c) \/ SetupFails(c) \/ StartOk(c)
             \/ StartFails(c) \/ CancelStart(c) \/ RefreshPort(c) \/ Unwind(c)
      PROVE  /\ server' => installed'
             /\ \A d \in Clusters : pc'[d] \in {"port", "ready"} => server'
  <2>1. server' => installed'
    <3>1. Unwind(c) => (server' => server)
      BY <1>0, DropsAfter DEF Unwind, Drops, GivesUp
    <3>2. SetupOk(c) => (server' => server)
      BY <1>0, StopFaultGivesUp DEF SetupOk
    <3>3. CASE StartOk(c) \/ StartFails(c)
      BY <1>0, <1>a, <3>3 DEF StartOk, StartFails, Startable, TypeOK
    <3>4. QED
      BY <1>0, <1>1, <1>a, <3>1, <3>2, <3>3
      DEF Bootstrap, ApplyEnv, SetupOk, SetupFails, CancelStart, RefreshPort, Unwind, world
  <2>2. ASSUME NEW d \in Clusters, pc'[d] \in {"port", "ready"}, d # c
        PROVE  server'
    <3>1. pc[d] = pc'[d]
      BY <1>0, <1>1, <2>2
      DEF TypeOK, Bootstrap, ApplyEnv, SetupOk, SetupFails, StartOk, StartFails,
          CancelStart, RefreshPort, Unwind
    <3>2. Busy(d) /\ envOwner = d
      BY <1>0, <2>2, <3>1 DEF Busy, Holding, JobInv, JobProtocol
    <3>3. pc[c] \notin Holding
      BY <1>0, <2>2, <3>2, BusyAlone
    <3>4. Bootstrap(c)
      BY <1>1, <3>2, <3>3, ClusterAssumption
      DEF Holding, ApplyEnv, SetupOk, SetupFails, StartOk, StartFails, CancelStart,
          RefreshPort, Unwind
    <3>5. QED
      BY <1>0, <2>2, <3>1, <3>4 DEF Bootstrap
  <2>3. pc'[c] \in {"port", "ready"} => server'
    BY <1>0, <1>1
    DEF TypeOK, Bootstrap, ApplyEnv, SetupOk, SetupFails, StartOk, StartFails,
        CancelStart, RefreshPort, Unwind, world
  <2>4. QED
    BY <2>1, <2>2, <2>3
<1>2. ASSUME NEW c \in Clusters,
             \/ TestEnds(c) \/ JobReturns(c) \/ CancelStop(c) \/ DropGuard(c)
             \/ RuntimeEnds(c) \/ ReleaseEnv(c)
      PROVE  /\ server' => installed'
             /\ \A d \in Clusters : pc'[d] \in {"port", "ready"} => server'
  <2>1. server' => server /\ installed' = installed
    BY <1>0, <1>2, EndingEffects DEF Drops, GivesUp
  <2>2. Busy(c)
    BY <1>2, TheJobKinds
    DEF Busy, JobPending, Holding, TestEnds, JobReturns, CancelStop, DropGuard,
        RuntimeEnds, ReleaseEnv
  <2>3. ASSUME NEW d \in Clusters, pc'[d] \in {"port", "ready"}
        PROVE  FALSE
    <3>1. CASE d # c
      <4>1. pc[d] = pc'[d]
        BY <1>0, <1>2, <3>1
        DEF TypeOK, TestEnds, JobReturns, CancelStop, DropGuard, RuntimeEnds, ReleaseEnv
      <4>2. QED
        BY <1>0, <2>2, <2>3, <3>1, <4>1, BusyAlone DEF Holding
    <3>2. CASE d = c
      <4>1. RuntimeEnds(c) /\ pc'[c] = pc[c]
        BY <1>0, <1>2, <2>3, <3>2
        DEF TypeOK, TestEnds, JobReturns, CancelStop, DropGuard, RuntimeEnds, ReleaseEnv
      <4>2. JobPending(c, "drop") /\ LifeProtocol(c)
        BY <4>1 DEF RuntimeEnds, JobPending, FaultInv
      <4>3. QED
        BY <2>3, <3>2, <4>1, <4>2 DEF LifeProtocol
    <3>3. QED
      BY <3>1, <3>2
  <2>4. QED
    BY <1>0, <2>1, <2>3
<1>3. ASSUME NEW c \in Clusters, NEW k \in JobKinds, Job(c, k)
      PROVE  /\ server' => installed'
             /\ \A d \in Clusters : pc'[d] \in {"port", "ready"} => server'
  <2>1. server' => server /\ UNCHANGED pc /\ JobPending(c, k)
    BY <1>3, JobEffects
  <2>2. \A d \in Clusters : pc'[d] \notin {"port", "ready"}
    BY <1>0, <1>3, JobEffects, NoWipes DEF JobPending
  <2>3. server' => installed'
    <3>1. job[c][k] \in {"wipe_worker", "wipe"} => ~server
      BY <1>0 DEF FaultInv, LifeProtocol
    <3>2. job[c][k] = "stop" => installed' = installed
      BY <1>3 DEF Job, StopOk, StopFails, CleanupViaWorker, CleanupInProcess
    <3>3. QED
      BY <1>0, <1>3, <3>1, <3>2, JobEffects DEF JobPending
  <2>4. QED
    BY <2>2, <2>3
<1>4. ~LateStep
  BY <1>0 DEF LateStep, LateSetup, LateStart, LateStop
<1>5. CASE UNCHANGED vars
  BY <1>0, <1>5 DEF vars, world
<1>6. QED
  BY <1>1, <1>2, <1>3, <1>4, <1>5 DEF Next, Advance, AllDone

\* The invariant for every fault and every use is inductive.
LEMMA FaultInductive == FaultInv /\ [Next]_vars => FaultInv'
<1>. SUFFICES ASSUME FaultInv, [Next]_vars PROVE FaultInv'
  OBVIOUS
<1>1. JobInv'
  BY JobInductive DEF FaultInv
<1>2. "overlap" \notin blame' => \A c, d \in Clusters : Busy(c)' /\ Busy(d)' => c = d
  BY OneBusy
<1>u. UpInv'
  BY UpInductive DEF UpInv
<1>3. ServerLife' /\ \A d \in Clusters : LifeProtocol(d)'
  <2>1. ASSUME NEW c \in Clusters, Advance(c) \/ CancelStart(c) \/ CancelStop(c) \/ RuntimeEnds(c)
        PROVE  ServerLife' /\ \A d \in Clusters : LifeProtocol(d)'
    BY <2>1, StartingLife, StartingServer, EndingLife, EndingServer DEF Advance
  <2>2. ASSUME NEW c \in Clusters, NEW k \in JobKinds, Job(c, k)
        PROVE  ServerLife' /\ \A d \in Clusters : LifeProtocol(d)'
    BY <2>2, JobLife, JobServer
  <2>3. CASE LateStep
    BY <2>3, LateLife
  <2>4. CASE UNCHANGED vars
    BY <2>4
    DEF vars, world, FaultInv, ServerLife, ServerInv, LateBlamed, OrphanOnlyByFailure,
        MayLeaveServer, MustStop, SkipShutdown, LifeProtocol, JobPending
  <2>5. QED
    BY <2>1, <2>2, <2>3, <2>4 DEF Next, AllDone
<1>4. QED
  BY <1>1, <1>2, <1>3, <1>u DEF FaultInv, ServerLife

LEMMA FaultInvHolds == Spec => []FaultInv
<1>1. Init => FaultInv
  <2>. SUFFICES ASSUME Init PROVE FaultInv
    OBVIOUS
  <2>1. TypeOK
    BY InitType
  <2>2. \A d \in Clusters : JobProtocol(d)
    BY ClusterAssumption, TheJobKinds DEF Init, JobProtocol, JobPending, Holding
  <2>3. \A d \in Clusters : LifeProtocol(d) /\ ~Busy(d)
    BY TheJobKinds DEF Init, LifeProtocol, Busy, JobPending, Holding
  <2>4. QED
    BY <2>1, <2>2, <2>3
    DEF Init, FaultInv, JobInv, ServerInv, LateBlamed, UpInv, OrphanOnlyByFailure
<1>2. QED
  BY <1>1, FaultInductive, PTL DEF Spec

\* Whatever fails, no directory is removed from under a server unless a stop failed
\* in process, a setup or a start went on after it was given up, or a shutdown
\* outlived its cluster.
THEOREM OrphanHasCause == Spec => []OrphanOnlyByFailure
<1>1. FaultInv => OrphanOnlyByFailure
  BY DEF FaultInv
<1>2. QED
  BY <1>1, FaultInvHolds, PTL

\* Every path out of every cluster's life stops its server, unless one of the listed
\* failures happened.
THEOREM ServerLeftHasCause == Spec => []ServerLeftOnlyByFailure
<1>1. FaultInv => ServerLeftOnlyByFailure
  <2>. SUFFICES ASSUME FaultInv, Settled, server \/ orphan,
                       blame \intersect MayLeaveServer = {}
                PROVE  FALSE
    BY DEF ServerLeftOnlyByFailure
  <2>1. ~orphan
    BY DEF FaultInv, OrphanOnlyByFailure, MayLeaveServer
  <2>2. PICK d \in Clusters : MustStop(d)
    BY <2>1 DEF FaultInv
  <2>3. QED
    BY <2>2 DEF MustStop, Settled, JobPending
<1>2. QED
  BY <1>1, FaultInvHolds, PTL

\* A cluster that TestCluster::new or start_async has returned has the environment
\* and a server in a complete data directory, whatever failed before it, unless what
\* was given up or detached came to its end in its time.
THEOREM ReadyIsUp == Spec => []ReadyMeansUp
<1>1. FaultInv => ReadyMeansUp
  BY DEF FaultInv, JobInv, JobProtocol, Holding, ServerInv, UpInv, InTime, Startable,
         ReadyMeansUp
<1>2. QED
  BY <1>1, FaultInvHolds, PTL

-----------------------------------------------------------------------------
(* The environment is a lease on the data directory.                       *)

\* What is stray does not change with the tenant.
LEMMA SameStray ==
  ASSUME TypeOK, NEW c \in Clusters, UNCHANGED <<plan, job, late>>, NEW to \in PCs,
         pc' = [pc EXCEPT ![c] = to], pc[c] # "await", to # "await"
  PROVE  Stray' = Stray
<1>1. \A d \in Clusters : pc'[d] = "await" <=> pc[d] = "await"
  BY DEF TypeOK
<1>2. \A d \in Clusters, k \in JobKinds :
        (JobPending(d, k) /\ Detached(d, k))' <=> JobPending(d, k) /\ Detached(d, k)
  BY <1>1 DEF JobPending, Detached
<1>3. QED
  BY <1>2 DEF Stray

\* Something is stray or not.
LEMMA StrayType == Stray \in BOOLEAN /\ Stray' \in BOOLEAN
  BY DEF Stray

\* The environment changes hands, and nothing else does.
LEMMA TenantChanges ==
  ASSUME TypeOK, NEW c \in Clusters, ApplyEnv(c) \/ ReleaseEnv(c), pc[c] \in Holding => envOwner = c
  PROVE  Lease!Next
<1>1. CASE ApplyEnv(c)
  <2>1. Stray' = Stray
    BY <1>1, SameStray DEF ApplyEnv, Goto, world, PCs
  <2>2. Lease!Move(c)
    BY <1>1, <2>1 DEF ApplyEnv, world, Lease!Move
  <2>3. QED
    BY <2>2 DEF Lease!Next
<1>2. CASE ReleaseEnv(c)
  <2>1. Stray' = Stray
    BY <1>2, SameStray DEF ReleaseEnv, Goto, world, PCs
  <2>2. Lease!Leave
    BY <1>2, <2>1, ClusterAssumption DEF ReleaseEnv, Goto, Holding, world, Lease!Leave
  <2>3. QED
    BY <2>2 DEF Lease!Next
<1>3. QED
  BY <1>1, <1>2

\* Every other step leaves the environment where it is.
LEMMA TenantStays ==
  ASSUME TypeOK, [Next]_vars, \A c \in Clusters : ~ApplyEnv(c) /\ ~ReleaseEnv(c)
  PROVE  envOwner' = envOwner
<1>1. ASSUME NEW c \in Clusters, Advance(c) \/ CancelStart(c) \/ CancelStop(c) \/ RuntimeEnds(c)
      PROVE  envOwner' = envOwner
  BY <1>1
  DEF Advance, Bootstrap, SetupOk, SetupFails, StartOk, StartFails, CancelStart,
      RefreshPort, Unwind, TestEnds, JobReturns, DropGuard, CancelStop, RuntimeEnds
<1>2. ASSUME NEW c \in Clusters, NEW k \in JobKinds, Job(c, k)
      PROVE  envOwner' = envOwner
  BY <1>2 DEF Job, StopOk, StopFails, CleanupViaWorker, CleanupInProcess
<1>3. QED
  BY <1>1, <1>2, LateEffects DEF Next, AllDone, vars

\* As long as nothing is stray, whoever does something to the server or the
\* directory is the tenant.
LEMMA TenantActs ==
  ASSUME JobInv, ~Stray, [Next]_vars
  PROVE  \/ envOwner # NoCluster /\ ~LateStep
         \/ \E c \in Clusters : Bootstrap(c) \/ ApplyEnv(c)
         \/ UNCHANGED vars
<1>1. ~LateStep
  BY DEF Stray, LateStep, LateSetup, LateStart, LateStop
<1>2. ASSUME NEW c \in Clusters, pc[c] \in Holding
      PROVE  envOwner # NoCluster
  BY <1>2, ClusterAssumption DEF JobInv, JobProtocol
<1>3. ASSUME NEW c \in Clusters, NEW k \in JobKinds, JobPending(c, k)
      PROVE  pc[c] \in Holding
  <2>1. ~Detached(c, k)
    BY <1>3 DEF Stray
  <2>2. k = "call" /\ JobProtocol(c)
    BY <2>1 DEF Detached, JobInv, JobKinds
  <2>3. QED
    BY <1>3, <2>1, <2>2 DEF Detached, JobProtocol, Holding
<1>4. ASSUME NEW c \in Clusters, Advance(c) \/ CancelStart(c) \/ CancelStop(c)
      PROVE  pc[c] \in Holding \/ Bootstrap(c) \/ ApplyEnv(c)
  BY <1>4
  DEF Goto, Holding, Advance, SetupOk, SetupFails, StartOk, StartFails, CancelStart,
      RefreshPort, Unwind, TestEnds, JobReturns, DropGuard, ReleaseEnv, CancelStop
<1>5. ASSUME NEW c \in Clusters, RuntimeEnds(c)
      PROVE  JobPending(c, "drop")
  BY <1>5 DEF RuntimeEnds, JobPending
<1>6. ASSUME NEW c \in Clusters, NEW k \in JobKinds, Job(c, k)
      PROVE  JobPending(c, k)
  BY <1>6 DEF Job, StopOk, StopFails, CleanupViaWorker, CleanupInProcess, JobPending
<1>7. QED
  BY <1>1, <1>2, <1>3, <1>4, <1>5, <1>6, TheJobKinds DEF Next, AllDone

\* Only what is stray, and never an operation, empties a directory in use.
LEMMA NeverEmptied ==
  ASSUME FaultInv, [Next]_vars, ~LateStep, server
  PROVE  dataDir' # "empty"
<1>0. TypeOK /\ dataDir = "whole"
  BY DEF FaultInv, JobInv, ServerInv
<1>1. SetUp \/ SetUpInPart \/ StartSetUp => dataDir' = "whole"
  BY <1>0 DEF SetUp, SetUpInPart, StartSetUp
<1>2. Drops => dataDir' # "empty"
  BY <1>0 DEF Drops, GivesUp
<1>3. ASSUME NEW c \in Clusters,
             \/ Bootstrap(c) \/ ApplyEnv(c) \/ SetupOk(c) \/ SetupFails(c) \/ StartOk(c)
             \/ StartFails(c) \/ CancelStart(c) \/ RefreshPort(c) \/ Unwind(c)
      PROVE  dataDir' # "empty"
  BY <1>0, <1>1, <1>2, <1>3, DropsAfter
  DEF Bootstrap, ApplyEnv, SetupOk, SetupFails, StartOk, StartFails, CancelStart,
      RefreshPort, Unwind, world
<1>4. ASSUME NEW c \in Clusters,
             \/ TestEnds(c) \/ JobReturns(c) \/ CancelStop(c) \/ DropGuard(c)
             \/ RuntimeEnds(c) \/ ReleaseEnv(c)
      PROVE  dataDir' # "empty"
  BY <1>0, <1>2, <1>4, EndingEffects
<1>5. ASSUME NEW c \in Clusters, NEW k \in JobKinds, Job(c, k)
      PROVE  dataDir' # "empty"
  <2>1. CleanupViaWorker(c, k) \/ CleanupInProcess(c, k) => dataDir' # "empty"
    BY <1>0, RemoveGivesUp DEF CleanupViaWorker, CleanupInProcess, GivesUp
  <2>2. QED
    BY <1>0, <1>2, <1>5, <2>1, DropsAfter DEF Job, StopOk, StopFails, FaultKinds
<1>6. CASE UNCHANGED vars
  BY <1>0, <1>6 DEF vars, world
<1>7. QED
  BY <1>3, <1>4, <1>5, <1>6 DEF Next, Advance, AllDone

\* Whatever the clusters of a process are used for and whatever fails, the scoped
\* environment is a lease on the data directory: only its tenant starts or stops the
\* server or changes the directory, and never under a server that is up, unless
\* something a tenant gave up or detached is still going on.
THEOREM LeaseHonoured == Spec => ImplementsLease
<1>1. Init => Lease!Init
  BY TheJobKinds DEF Init, Lease!Init, Stray, JobPending
<1>2. FaultInv /\ FaultInv' /\ [Next]_vars => [Lease!Next]_Lease!vars
  <2>. SUFFICES ASSUME FaultInv, FaultInv', [Next]_vars
                PROVE  [Lease!Next]_Lease!vars
    OBVIOUS
  <2>0. /\ JobInv /\ TypeOK /\ dataDir' \in DirContents
        /\ server \in BOOLEAN /\ server' \in BOOLEAN
        /\ server => dataDir = "whole"
        /\ server' => dataDir' = "whole"
    BY DEF FaultInv, JobInv, TypeOK, ServerInv
  <2>1. CASE \E c \in Clusters : ApplyEnv(c) \/ ReleaseEnv(c)
    BY <2>0, <2>1, TenantChanges DEF JobInv, JobProtocol
  <2>2. CASE \A c \in Clusters : ~ApplyEnv(c) /\ ~ReleaseEnv(c)
    <3>1. envOwner' = envOwner
      BY <2>0, <2>2, TenantStays
    <3>2. CASE Stray
      BY <2>0, <3>1, <3>2, StrayType DEF Lease!Next, Lease!Intrude
    <3>3. CASE ~Stray /\ envOwner # NoCluster /\ ~LateStep
      <4>0. Stray' \in {Stray, TRUE}
        BY <3>3, StrayType
      <4>1. server => dataDir' \in {"whole", "partial", "absent"}
        BY <2>0, <3>3, NeverEmptied DEF DirContents
      <4>2. CASE server' = server /\ dataDir' = dataDir
        BY <3>1, <3>3, <4>0, <4>2 DEF Lease!Next, Lease!Act
      <4>3. CASE server /\ server'
        BY <2>0, <4>2, <4>3
      <4>4. CASE server /\ ~server'
        BY <2>0, <3>1, <3>3, <4>0, <4>1, <4>4 DEF Lease!Next, Lease!Act, Lease!Stop, Lease!Discard
      <4>5. CASE ~server /\ server'
        BY <2>0, <3>1, <3>3, <4>0, <4>5 DEF Lease!Next, Lease!Act, Lease!Start
      <4>6. CASE ~server /\ ~server'
        BY <2>0, <3>1, <3>3, <4>0, <4>6 DEF Lease!Next, Lease!Act, Lease!Rewrite
      <4>7. QED
        BY <2>0, <4>3, <4>4, <4>5, <4>6
    <3>4. ASSUME NEW c \in Clusters, Bootstrap(c), ~Stray
          PROVE  [Lease!Next]_Lease!vars
      <4>1. Stray' = Stray
        BY <2>0, <3>4, SameStray DEF Bootstrap, Goto, PCs
      <4>2. QED
        BY <3>1, <3>4, <4>1 DEF Bootstrap, Lease!Next, Lease!Create, Lease!vars
    <3>5. CASE UNCHANGED vars
      <4>1. Stray' = Stray
        BY <3>5 DEF vars, world, Stray, JobPending, Detached
      <4>2. QED
        BY <3>5, <4>1 DEF vars, world, Lease!vars
    <3>6. QED
      BY <2>0, <2>2, <3>2, <3>3, <3>4, <3>5, TenantActs
  <2>3. QED
    BY <2>1, <2>2
<1>3. QED
  BY <1>1, <1>2, FaultInvHolds, PTL DEF Spec, ImplementsLease, Lease!Spec

-----------------------------------------------------------------------------
(* As long as nothing goes wrong.                                          *)

\* The part of the invariant that is about the directories.
TidyDirs ==
  /\ dataDir # "partial"
  /\ dataDir = "whole" => installed
  /\ (\A c \in Clusters : plan.cleanup[c] = "Full") /\ installed => dataDir = "whole"
  /\ (\A c \in Clusters : plan.cleanup[c] # "None") /\ dataDir # "absent"
       => \E c \in Clusters : MustWipe(c)

\* An idle cluster has nothing to keep up.
LEMMA IdleIsSmooth ==
  ASSUME NEW d \in Clusters, ~Busy(d)
  PROVE  SmoothProtocol(d)
  BY TheJobKinds DEF Busy, Holding, JobPending, SmoothProtocol

\* A step of one cluster leaves the others alone.
LEMMA OtherClusters ==
  ASSUME FaultInv, NEW c \in Clusters,
         \/ Advance(c) \/ CancelStart(c) \/ CancelStop(c) \/ RuntimeEnds(c)
         \/ \E k \in JobKinds : Job(c, k),
         NEW d \in Clusters, d # c
  PROVE  /\ pc'[d] = pc[d] /\ postgres'[d] = postgres[d]
         /\ \A k \in JobKinds : job'[d][k] = job[d][k]
<1>0. TypeOK /\ JobInv
  BY DEF FaultInv, JobInv
<1>1. CASE \E k \in JobKinds : Job(c, k)
  BY <1>1, JobEffects
<1>2. CASE Advance(c) \/ CancelStart(c) \/ CancelStop(c) \/ RuntimeEnds(c)
  <2>1. pc'[d] = pc[d] /\ postgres'[d] = postgres[d]
    BY <1>0, <1>2
    DEF TypeOK, Goto, Advance, Bootstrap, ApplyEnv, SetupOk, SetupFails, StartOk,
        StartFails, CancelStart, RefreshPort, Unwind, TestEnds, JobReturns, DropGuard,
        ReleaseEnv, CancelStop, RuntimeEnds
  <2>2. CASE job' = job
    BY <2>1, <2>2
  <2>3. CASE \/ TestEnds(c) \/ JobReturns(c) \/ CancelStop(c) \/ DropGuard(c)
             \/ RuntimeEnds(c) \/ ReleaseEnv(c)
    BY <1>0, <2>1, <2>3, EndingJobs
  <2>4. QED
    BY <1>2, <2>2, <2>3
    DEF Advance, Bootstrap, ApplyEnv, SetupOk, SetupFails, StartOk, StartFails, CancelStart,
        RefreshPort, Unwind
<1>3. QED
  BY <1>1, <1>2

\* While one cluster is busy, the others stay idle.
LEMMA OthersStaySmooth ==
  ASSUME FaultInv, "overlap" \notin blame, NEW c \in Clusters, Busy(c),
         \/ Advance(c) \/ CancelStart(c) \/ CancelStop(c) \/ RuntimeEnds(c)
         \/ \E k \in JobKinds : Job(c, k),
         NEW d \in Clusters, d # c
  PROVE  SmoothProtocol(d)'
<1>1. pc[d] \notin Holding /\ \A k \in JobKinds : ~JobPending(d, k)
  BY BusyAlone
<1>2. ~Busy(d)'
  BY <1>1, OtherClusters DEF Busy, JobPending
<1>3. QED
  BY <1>2, TheJobKinds DEF Busy, Holding, JobPending, SmoothProtocol

\* Somebody still wipes the data, if one does who did not move.
LEMMA StillWiped ==
  ASSUME FaultInv, NEW c \in Clusters, plan' = plan,
         \/ Advance(c) \/ CancelStart(c) \/ CancelStop(c) \/ RuntimeEnds(c)
         \/ \E k \in JobKinds : Job(c, k),
         NEW d \in Clusters, d # c, MustWipe(d)
  PROVE  MustWipe(d)'
  BY OtherClusters DEF MustWipe, SkipShutdown, JobPending

\* A cluster about to start finds no server.
LEMMA NoServerYet ==
  ASSUME FaultInv, blame = {}, NEW c \in Clusters, pc[c] = "start"
  PROVE  ~server
<1>1. SUFFICES ASSUME server PROVE FALSE
  OBVIOUS
<1>2. PICK d \in Clusters : MustStop(d)
  BY <1>1 DEF FaultInv
<1>3. Busy(c)
  BY DEF Busy, Holding
<1>4. \A k \in JobKinds : job[d][k] # "stop"
  BY NoWipes
<1>5. d # c /\ pc[d] \in Holding
  BY <1>2, <1>4 DEF MustStop, Holding
<1>6. QED
  BY <1>3, <1>5, BusyAlone

\* Nothing goes on by itself.
LEMMA NothingLate ==
  ASSUME FaultInv, blame = {}
  PROVE  ~LateStep
<1>1. late = {}
  BY DEF FaultInv, JobInv, ServerInv, LateBlamed, TypeOK, LateOps
<1>2. QED
  BY <1>1 DEF LateStep, LateSetup, LateStart, LateStop

\* Starting a cluster.
LEMMA StartingClean ==
  ASSUME FaultInv, CleanInv, [Next]_vars, blame' = {}, NEW c \in Clusters,
         \/ Bootstrap(c) \/ ApplyEnv(c) \/ SetupOk(c) \/ SetupFails(c)
         \/ StartOk(c) \/ StartFails(c) \/ CancelStart(c) \/ RefreshPort(c) \/ Unwind(c)
  PROVE  TidyDirs' /\ \A d \in Clusters : SmoothProtocol(d)'
<1>. USE DEF Goto
<1>0. /\ JobInv /\ TypeOK /\ LifeProtocol(c) /\ plan' = plan
      /\ blame = {} /\ TidyDirs /\ \A d \in Clusters : SmoothProtocol(d)
      /\ job' = job
  <2>1. blame = {} /\ plan' = plan
    BY BlameGrows DEF FaultInv
  <2>2. job' = job
    BY DEF Bootstrap, ApplyEnv, SetupOk, SetupFails, StartOk, StartFails, CancelStart,
         RefreshPort, Unwind
  <2>3. TidyDirs /\ \A d \in Clusters : SmoothProtocol(d)
    BY <2>1 DEF CleanInv, TidyDirs
  <2>4. QED
    BY <2>1, <2>2, <2>3 DEF FaultInv, JobInv
<1>f. \A kind : ~Fault(kind)
  BY DEF Fault
<1>1. CASE Bootstrap(c) \/ ApplyEnv(c)
  <2>1. /\ UNCHANGED <<server, installed>>
        /\ dataDir' = dataDir \/ (dataDir = "absent" /\ dataDir' = "empty")
        /\ pc'[c] \in {"prepared", "setup"} /\ pc[c] \in {"new", "prepared"}
    BY <1>0, <1>1, <1>f DEF Bootstrap, ApplyEnv, TypeOK, world
  <2>2. \A d \in Clusters : d # c => pc'[d] = pc[d]
    BY <1>0, <1>1 DEF Bootstrap, ApplyEnv, TypeOK
  <2>3. \A d \in Clusters : SmoothProtocol(d)'
    BY <1>0, <2>1, <2>2 DEF SmoothProtocol
  <2>4. MustWipe(c)'
    BY <2>1 DEF MustWipe
  <2>5. QED
    BY <1>0, <2>1, <2>3, <2>4 DEF TidyDirs
<1>a. pc[c] \in {"setup", "start", "port"} =>
        /\ Busy(c) /\ \A k \in JobKinds : job[c][k] \notin {"stop", "wipe_worker", "wipe"}
        /\ \A d \in Clusters : d # c => SmoothProtocol(d)'
  <2>1. SUFFICES ASSUME pc[c] \in {"setup", "start", "port"}
                 PROVE /\ Busy(c)
                       /\ \A k \in JobKinds : job[c][k] \notin {"stop", "wipe_worker", "wipe"}
                       /\ \A d \in Clusters : d # c => SmoothProtocol(d)'
    OBVIOUS
  <2>2. Busy(c)
    BY <2>1 DEF Busy, Holding
  <2>3. QED
    BY <1>0, <2>1, <2>2, NoWipes, OthersStaySmooth DEF Advance
<1>2. CASE SetupOk(c)
  <2>1. dataDir' = "whole" /\ installed' = TRUE
    BY <1>0, <1>2 DEF SetupOk, SetUp, TidyDirs
  <2>2. pc'[c] = "start" /\ pc[c] = "setup"
    BY <1>0, <1>2 DEF SetupOk, TypeOK
  <2>3. SmoothProtocol(c)'
    BY <1>0, <1>a, <2>1, <2>2, TheJobKinds DEF SmoothProtocol
  <2>4. MustWipe(c)'
    BY <2>2 DEF MustWipe
  <2>5. QED
    BY <1>a, <2>1, <2>2, <2>3, <2>4 DEF TidyDirs
<1>b. pc[c] = "start" => dataDir = "whole" /\ installed = TRUE /\ ~server
  BY <1>0, NoServerYet DEF SmoothProtocol, TidyDirs, TypeOK
<1>c. (StartOk(c) \/ StartFails(c)) /\ StartSetUp => dataDir' = "whole" /\ installed' = TRUE
  BY <1>b DEF StartOk, StartFails, StartSetUp, SetUp
<1>3. CASE StartOk(c)
  <2>1. dataDir' = "whole" /\ installed' = TRUE /\ server'
    BY <1>3, <1>c DEF StartOk
  <2>2. pc'[c] = "port" /\ pc[c] = "start"
    BY <1>0, <1>3 DEF StartOk, TypeOK
  <2>3. SmoothProtocol(c)' /\ MustWipe(c)'
    BY <2>1, <2>2 DEF SmoothProtocol, MustWipe
  <2>4. QED
    BY <1>a, <2>1, <2>2, <2>3 DEF TidyDirs
<1>4. CASE RefreshPort(c)
  <2>1. pc'[c] = "ready" /\ pc[c] = "port" /\ UNCHANGED <<dataDir, installed, server>>
    BY <1>0, <1>4, <1>f DEF RefreshPort, TypeOK, world
  <2>2. SmoothProtocol(c)' /\ MustWipe(c)'
    BY <1>0, <2>1 DEF SmoothProtocol, MustWipe
  <2>3. QED
    BY <1>0, <1>a, <2>1, <2>2 DEF TidyDirs
<1>5. ~SetupFails(c)
  BY <1>0, <1>f DEF SetupFails, GoesOn, TidyDirs
<1>6. ~StartFails(c)
  BY <1>b, <1>c, <1>f DEF StartFails, GoesOn, Startable
<1>7. ~Unwind(c) /\ ~CancelStart(c)
  BY <1>0, <1>f DEF Unwind, CancelStart, SmoothProtocol
<1>8. QED
  BY <1>1, <1>2, <1>3, <1>4, <1>5, <1>6, <1>7

\* Ending it.
LEMMA EndingClean ==
  ASSUME FaultInv, CleanInv, [Next]_vars, blame' = {}, NEW c \in Clusters,
         \/ TestEnds(c) \/ JobReturns(c) \/ CancelStop(c) \/ DropGuard(c)
         \/ RuntimeEnds(c) \/ ReleaseEnv(c)
  PROVE  TidyDirs' /\ \A d \in Clusters : SmoothProtocol(d)'
<1>. USE DEF Goto
<1>0. /\ JobInv /\ TypeOK /\ LifeProtocol(c) /\ JobProtocol(c) /\ plan' = plan
      /\ blame = {} /\ TidyDirs /\ SmoothProtocol(c)
  <2>1. blame = {} /\ plan' = plan
    BY BlameGrows DEF FaultInv
  <2>2. TidyDirs /\ SmoothProtocol(c)
    BY <2>1 DEF CleanInv, TidyDirs
  <2>3. QED
    BY <2>1, <2>2 DEF FaultInv, JobInv
<1>f. /\ \A kind : ~Fault(kind)
      /\ \A kind \in FaultKinds : ~DropPostgres({kind})
  BY <1>0, DropsAfter DEF Fault
<1>1. /\ TestEnds(c) \/ JobReturns(c) \/ DropGuard(c) \/ ReleaseEnv(c)
      /\ UNCHANGED <<dataDir, installed, server>>
  BY <1>f
  DEF TestEnds, JobReturns, CancelStop, DropGuard, RuntimeEnds, ReleaseEnv, world, FaultKinds
<1>2. Busy(c)
  BY <1>1 DEF TestEnds, JobReturns, DropGuard, ReleaseEnv, Busy, Holding
<1>3. \A d \in Clusters : d # c => SmoothProtocol(d)'
  BY <1>0, <1>2, OthersStaySmooth DEF Advance
<1>4. CASE TestEnds(c) /\ JobGoto(c, "call", "stop")
  <2>1. /\ job'[c]["call"] = "stop" /\ job'[c]["drop"] = job[c]["drop"]
    BY <1>0, <1>4, JobMoved, TheJobKinds
  <2>2. pc[c] = "ready" /\ server /\ pc'[c] \in {"await", "drop"}
    BY <1>0, <1>4 DEF TestEnds, TypeOK, SmoothProtocol
  <2>3. SmoothProtocol(c)' /\ MustWipe(c)'
    BY <1>1, <2>1, <2>2, TheJobKinds DEF SmoothProtocol, MustWipe, JobPending
  <2>4. QED
    BY <1>0, <1>1, <1>3, <2>3 DEF TidyDirs
<1>5. CASE TestEnds(c) /\ ~JobGoto(c, "call", "stop")
  <2>1. /\ pc[c] = "ready" /\ server /\ pc'[c] = "drop" /\ job' = job
        /\ plan.use[c] = "drop_async" /\ postgres' = postgres
    BY <1>0, <1>5 DEF TestEnds, TypeOK, SmoothProtocol, BeginJob, JobGoto
  <2>2. ~SkipShutdown(c)'
    BY <1>0, <2>1 DEF SkipShutdown, LifeProtocol
  <2>3. SmoothProtocol(c)' /\ MustWipe(c)'
    BY <1>1, <2>1, <2>2 DEF SmoothProtocol, MustWipe
  <2>4. QED
    BY <1>0, <1>1, <1>3, <2>3 DEF TidyDirs
<1>6. CASE DropGuard(c) /\ ~SkipShutdown(c)
  <2>1. JobGoto(c, "drop", "stop")
    BY <1>6, <1>f DEF DropGuard, BeginJob, JobGoto, FaultKinds
  <2>2. job'[c]["drop"] = "stop" /\ job'[c]["call"] = job[c]["call"]
    BY <1>0, <2>1, JobMoved, TheJobKinds
  <2>3. pc[c] = "drop" /\ pc'[c] = "release"
    BY <1>0, <1>6 DEF DropGuard, TypeOK
  <2>4. ~plan.worker => server
    BY <1>0, <1>6, <2>3 DEF SkipShutdown, JobProtocol, SmoothProtocol
  <2>5. SmoothProtocol(c)' /\ MustWipe(c)'
    BY <1>0, <1>1, <2>2, <2>3, <2>4, TheJobKinds DEF SmoothProtocol, MustWipe, JobPending
  <2>6. QED
    BY <1>0, <1>1, <1>3, <2>5 DEF TidyDirs
<1>7. CASE \/ DropGuard(c) /\ SkipShutdown(c)
           \/ JobReturns(c) \/ ReleaseEnv(c)
  <2>1. job' = job /\ pc'[c] \in {"release", "drop", "done"}
        /\ (pc'[c] = "drop" => plan.use[c] # "drop_async")
    BY <1>0, <1>7 DEF DropGuard, JobReturns, ReleaseEnv, TypeOK, LifeProtocol
  <2>2. SmoothProtocol(c)'
    BY <1>0, <1>1, <2>1 DEF SmoothProtocol
  <2>3. MustWipe(c) => \E k \in JobKinds : JobPending(c, k)
    BY <1>7 DEF MustWipe, DropGuard, JobReturns, ReleaseEnv
  <2>4. MustWipe(c) => MustWipe(c)'
    BY <2>1, <2>3 DEF MustWipe, JobPending
  <2>5. \A d \in Clusters : MustWipe(d) => MustWipe(d)'
    BY <1>0, <1>1, <2>4, StillWiped DEF Advance
  <2>6. QED
    BY <1>0, <1>1, <1>3, <2>2, <2>5 DEF TidyDirs
<1>8. QED
  BY <1>1, <1>4, <1>5, <1>6, <1>7

\* Shutting it down.
LEMMA JobClean ==
  ASSUME FaultInv, CleanInv, [Next]_vars, blame' = {},
         NEW c \in Clusters, NEW k \in JobKinds, Job(c, k)
  PROVE  TidyDirs' /\ \A d \in Clusters : SmoothProtocol(d)'
<1>0. /\ JobInv /\ TypeOK /\ LifeProtocol(c) /\ JobProtocol(c) /\ plan' = plan
      /\ blame = {} /\ TidyDirs /\ SmoothProtocol(c)
  <2>1. blame = {} /\ plan' = plan
    BY BlameGrows DEF FaultInv
  <2>2. TidyDirs /\ SmoothProtocol(c)
    BY <2>1 DEF CleanInv, TidyDirs
  <2>3. QED
    BY <2>1, <2>2 DEF FaultInv, JobInv
<1>f. \A kind : ~Fault(kind)
  BY DEF Fault
<1>1. /\ pc' = pc /\ JobPending(c, k)
      /\ \A h \in JobKinds : h # k => job'[c][h] = job[c][h]
      /\ job'[c][k] \in {"wipe_worker", "wipe", "done"}
  BY JobEffects
<1>2. \A d \in Clusters : d # c => SmoothProtocol(d)'
  BY <1>0, <1>1, OthersStaySmooth DEF Busy
<1>3. \A h \in JobKinds : h # k => ~JobPending(c, h)
  BY <1>0, <1>1, TheJobKinds DEF LifeProtocol, JobProtocol
<1>4. pc[c] \in {"await", "release", "done"}
  BY <1>0, <1>1, TheJobKinds DEF LifeProtocol, JobProtocol
<1>5. SmoothProtocol(c)'
  BY <1>1, <1>3, <1>4, TheJobKinds DEF SmoothProtocol, JobPending
<1>6. \A d \in Clusters : d # c /\ MustWipe(d) => MustWipe(d)'
  BY <1>0, StillWiped
<1>7. CASE StopOk(c, k)
  <2>1. JobPending(c, k)' /\ UNCHANGED <<dataDir, installed>>
    <3>1. JobGoto(c, k, IF plan.worker THEN "wipe_worker" ELSE "wipe")
      BY <1>7 DEF StopOk
    <3>2. job'[c][k] = IF plan.worker THEN "wipe_worker" ELSE "wipe"
      BY <1>0, <3>1, JobMoved
    <3>3. QED
      BY <1>7, <3>2 DEF JobPending, StopOk
  <2>2. MustWipe(c)'
    BY <2>1 DEF MustWipe
  <2>3. QED
    BY <1>0, <1>2, <1>5, <2>1, <2>2 DEF TidyDirs
<1>8. CASE StopFails(c, k)
  <2>1. k = "call" \/ ~plan.worker => server
    BY <1>0, <1>8, TheJobKinds DEF StopFails, SmoothProtocol
  <2>2. ~DropPostgres({"stop"})
    BY <1>0, DropsAfter DEF FaultKinds
  <2>3. dataDir = "absent" /\ UNCHANGED <<dataDir, installed>>
    BY <1>0, <1>8, <1>f, <2>1, <2>2, StopFaultGivesUp DEF StopFails
  <2>4. QED
    BY <1>0, <1>2, <1>5, <2>3 DEF TidyDirs
<1>9. ASSUME NEW mode, Remove(mode)
      PROVE  \/ mode = "None" /\ UNCHANGED <<dataDir, installed>>
             \/ mode # "None" /\ dataDir' = "absent" /\ installed' = (installed /\ mode # "Full")
  BY <1>9, <1>f DEF Remove, Discard
<1>10. CASE CleanupViaWorker(c, k) \/ CleanupInProcess(c, k)
  <2>1. PICK mode \in {"None", "DataOnly", plan.cleanup[c]} :
          /\ Remove(mode)
          /\ mode = "None" => plan.cleanup[c] = "None"
          /\ plan.cleanup[c] = "Full" => mode = "Full"
    BY <1>10 DEF CleanupViaWorker, CleanupInProcess
  <2>2. CASE mode = "None"
    <3>1. plan.cleanup[c] = "None" /\ UNCHANGED <<dataDir, installed>>
      BY <1>9, <2>1, <2>2
    <3>2. QED
      BY <1>0, <1>2, <1>5, <3>1 DEF TidyDirs
  <2>3. CASE mode # "None"
    <3>1. dataDir' = "absent" /\ installed' = (installed /\ mode # "Full")
      BY <1>9, <2>1, <2>3
    <3>2. QED
      BY <1>0, <1>2, <1>5, <2>1, <3>1 DEF TidyDirs
  <2>4. QED
    BY <2>2, <2>3
<1>11. QED
  BY <1>7, <1>8, <1>10 DEF Job

LEMMA CleanInductive == FaultInv /\ CleanInv /\ [Next]_vars => CleanInv'
<1>. SUFFICES ASSUME FaultInv, CleanInv, [Next]_vars, blame' = {}
              PROVE  TidyDirs' /\ \A d \in Clusters : SmoothProtocol(d)'
  BY DEF CleanInv, TidyDirs
<1>1. ASSUME NEW c \in Clusters, Advance(c) \/ CancelStart(c) \/ CancelStop(c) \/ RuntimeEnds(c)
      PROVE  TidyDirs' /\ \A d \in Clusters : SmoothProtocol(d)'
  BY <1>1, StartingClean, EndingClean DEF Advance
<1>2. ASSUME NEW c \in Clusters, NEW k \in JobKinds, Job(c, k)
      PROVE  TidyDirs' /\ \A d \in Clusters : SmoothProtocol(d)'
  BY <1>2, JobClean
<1>3. ~LateStep
  BY BlameGrows, NothingLate DEF FaultInv
<1>4. CASE UNCHANGED vars
  BY <1>4 DEF vars, world, CleanInv, TidyDirs, SmoothProtocol, MustWipe, SkipShutdown, JobPending
<1>5. QED
  BY <1>1, <1>2, <1>3, <1>4 DEF Next, AllDone

\* However clusters are used, when all are gone and nothing went wrong on the way,
\* no server, no data directory and no installation is left that was to go.
THEOREM LeavesNothing == Spec => []NothingLeftBehind
<1>1. Init => CleanInv
  <2>. SUFFICES ASSUME Init PROVE CleanInv
    OBVIOUS
  <2>1. \A c \in Clusters : SmoothProtocol(c)
    BY TheJobKinds DEF Init, SmoothProtocol
  <2>2. QED
    BY <2>1 DEF Init, CleanInv
<1>2. FaultInv /\ CleanInv => NothingLeftBehind
  <2>. SUFFICES ASSUME FaultInv, CleanInv, Settled, blame = {}
                PROVE  /\ ~server /\ ~orphan
                       /\ (\A c \in Clusters : plan.cleanup[c] # "None") => dataDir = "absent"
                       /\ (\A c \in Clusters : plan.cleanup[c] = "Full") => ~installed
    BY DEF NothingLeftBehind
  <2>1. ~\E c \in Clusters : MustStop(c) \/ MustWipe(c)
    BY DEF Settled, MustStop, MustWipe, JobPending
  <2>2. ~server /\ ~orphan
    BY <2>1 DEF FaultInv, OrphanOnlyByFailure
  <2>3. (\A c \in Clusters : plan.cleanup[c] # "None") => dataDir = "absent"
    BY <2>1 DEF CleanInv
  <2>4. (\A c \in Clusters : plan.cleanup[c] = "Full") => ~installed
    BY <2>3 DEF CleanInv
  <2>5. QED
    BY <2>2, <2>3, <2>4
<1>3. QED
  BY <1>1, <1>2, FaultInvHolds, CleanInductive, PTL DEF Spec

-----------------------------------------------------------------------------
(* What the two claims of the documentation come down to.                  *)

\* Who has a shutdown job, and who may come to drop an async guard.
ShutdownInv == \A c \in Clusters : ShutdownProtocol(c)

\* A step of a cluster keeps to it.
LEMMA AdvanceShutdown ==
  ASSUME JobInv, ShutdownInv, NEW c \in Clusters,
         Advance(c) \/ CancelStart(c) \/ CancelStop(c) \/ RuntimeEnds(c), NEW d \in Clusters
  PROVE  ShutdownProtocol(d)'
<1>0. TypeOK /\ ShutdownProtocol(c) /\ ShutdownProtocol(d) /\ plan' = plan
  <2>1. plan' = plan
    BY DEF Advance, Bootstrap, ApplyEnv, SetupOk, SetupFails, StartOk, StartFails, CancelStart,
           RefreshPort, Unwind, TestEnds, JobReturns, DropGuard, ReleaseEnv,
           CancelStop, RuntimeEnds
  <2>2. QED
    BY <2>1 DEF JobInv, ShutdownInv
<1>1. CASE \/ Bootstrap(c) \/ ApplyEnv(c) \/ SetupOk(c) \/ SetupFails(c) \/ StartOk(c)
           \/ StartFails(c) \/ CancelStart(c) \/ RefreshPort(c) \/ Unwind(c)
           \/ ReleaseEnv(c)
  <2>1. job' = job /\ (pc'[d] = "drop" => pc[d] = "drop")
    BY <1>0, <1>1
    DEF Bootstrap, ApplyEnv, SetupOk, SetupFails, StartOk, StartFails, CancelStart, RefreshPort,
        Unwind, ReleaseEnv, Goto, TypeOK
  <2>2. QED
    BY <1>0, <2>1 DEF ShutdownProtocol
<1>2. CASE TestEnds(c)
  <2>1. CASE plan.use[c] # "drop_async"
    <3>1. JobGoto(c, "call", "stop") /\ (pc'[d] = "drop" => pc[d] = "drop")
      BY <1>0, <1>2, <2>1 DEF TestEnds, BeginJob, JobGoto, Goto, TypeOK
    <3>2. \A h \in JobKinds :
            job'[d][h] = IF d = c /\ h = "call" THEN "stop" ELSE job[d][h]
      BY <1>0, <3>1, JobMoved, TheJobKinds
    <3>3. QED
      BY <1>0, <2>1, <3>1, <3>2, TheJobKinds DEF ShutdownProtocol
  <2>2. CASE plan.use[c] = "drop_async"
    <3>1. job' = job /\ (pc'[d] = "drop" => pc[d] = "drop" \/ d = c)
      BY <1>0, <1>2, <2>2 DEF TestEnds, Goto, TypeOK
    <3>2. QED
      BY <1>0, <2>2, <3>1 DEF ShutdownProtocol
  <2>3. QED
    BY <2>1, <2>2
<1>3. CASE JobReturns(c)
  <2>1. job' = job
    BY <1>3 DEF JobReturns
  <2>2. CASE d = c
    <3>1. pc'[c] = "drop" => plan.use[c] # "sync"
      BY <1>0, <1>3 DEF JobReturns, Goto, TypeOK
    <3>2. QED
      BY <1>0, <2>1, <2>2, <3>1 DEF ShutdownProtocol
  <2>3. CASE d # c
    <3>1. pc'[d] = pc[d]
      BY <1>0, <1>3, <2>3 DEF JobReturns, Goto, TypeOK
    <3>2. QED
      BY <1>0, <2>1, <3>1 DEF ShutdownProtocol
  <2>4. QED
    BY <2>2, <2>3
<1>4. CASE CancelStop(c)
  <2>1. /\ plan.use[c] = "stop_async"
        /\ pc'[d] = "drop" => pc[d] = "drop" \/ d = c
    BY <1>0, <1>4 DEF CancelStop, Goto, TypeOK
  <2>2. \A h \in JobKinds : job'[d][h] # "none" => job[d][h] # "none"
    <3>1. CASE UNCHANGED job
      BY <3>1
    <3>2. CASE JobGoto(c, "call", "done") /\ job[c]["call"] = "stop"
      BY <1>0, <3>2, JobMoved, TheJobKinds
    <3>3. QED
      BY <1>4, <3>1, <3>2 DEF CancelStop
  <2>3. QED
    BY <1>0, <2>1, <2>2, TheJobKinds DEF ShutdownProtocol
<1>5. CASE DropGuard(c)
  <2>1. pc[c] = "drop" /\ (pc'[d] = "drop" => pc[d] = "drop")
    BY <1>0, <1>5 DEF DropGuard, Goto, TypeOK
  <2>2. CASE job' = job
    BY <1>0, <2>1, <2>2 DEF ShutdownProtocol
  <2>3. CASE JobGoto(c, "drop", "stop") /\ ~SkipShutdown(c)
    <3>1. \A h \in JobKinds :
            job'[d][h] = IF d = c /\ h = "drop" THEN "stop" ELSE job[d][h]
      BY <1>0, <2>3, JobMoved, TheJobKinds
    <3>2. plan.use[c] = "drop_async" \/ (plan.worker /\ plan.use[c] = "stop_async")
      <4>1. plan.use[c] \in Uses
        BY <1>0 DEF TypeOK
      <4>2. postgres[c] => plan.use[c] = "drop_async"
        BY <2>1 DEF JobInv, JobProtocol
      <4>3. plan.use[c] # "sync"
        BY <1>0, <2>1 DEF ShutdownProtocol
      <4>4. postgres[c] \/ plan.worker
        BY <2>3 DEF SkipShutdown
      <4>5. QED
        BY <4>1, <4>2, <4>3, <4>4 DEF Uses
    <3>3. QED
      BY <1>0, <2>1, <3>1, <3>2, TheJobKinds DEF ShutdownProtocol
  <2>4. QED
    BY <1>5, <2>2, <2>3 DEF DropGuard, BeginJob, JobGoto
<1>6. CASE RuntimeEnds(c)
  <2>1. JobGoto(c, "drop", "done") /\ job[c]["drop"] = "stop" /\ pc' = pc
    BY <1>6 DEF RuntimeEnds
  <2>2. \A h \in JobKinds : job'[d][h] # "none" => job[d][h] # "none"
    BY <1>0, <2>1, JobMoved, TheJobKinds
  <2>3. QED
    BY <1>0, <2>1, <2>2, TheJobKinds DEF ShutdownProtocol
<1>7. QED
  BY <1>1, <1>2, <1>3, <1>4, <1>5, <1>6 DEF Advance

\* So do the steps of the jobs, which begin none.
LEMMA JobShutdown ==
  ASSUME JobInv, ShutdownInv, NEW c \in Clusters, NEW k \in JobKinds, Job(c, k),
         NEW d \in Clusters
  PROVE  ShutdownProtocol(d)'
<1>1. PICK s : JobGoto(c, k, s)
  BY DEF Job, StopOk, StopFails, CleanupViaWorker, CleanupInProcess, JobGoto
<1>2. /\ job[c][k] # "none"
      /\ UNCHANGED <<plan, pc>>
  BY DEF Job, StopOk, StopFails, CleanupViaWorker, CleanupInProcess
<1>3. \A h \in JobKinds : job'[d][h] # "none" => job[d][h] # "none"
  BY <1>1, <1>2, JobMoved DEF JobInv
<1>4. QED
  BY <1>2, <1>3, TheJobKinds DEF ShutdownInv, ShutdownProtocol

\* In process, and whatever fails, a cluster that stop_async() shut down, or began
\* to, is not shut down again when its guard is dropped: it takes the worker for that.
THEOREM DuplicateHasCause == Spec => []OnlyWorkerShutsDownTwice
<1>1. Init => ShutdownInv
  BY TheJobKinds DEF Init, ShutdownInv, ShutdownProtocol
<1>2. JobInv /\ ShutdownInv /\ [Next]_vars => ShutdownInv'
  <2>. SUFFICES ASSUME JobInv, ShutdownInv, [Next]_vars, NEW d \in Clusters
                PROVE  ShutdownProtocol(d)'
    BY DEF ShutdownInv
  <2>1. CASE \E c \in Clusters : Advance(c) \/ CancelStart(c) \/ CancelStop(c) \/ RuntimeEnds(c)
    BY <2>1, AdvanceShutdown
  <2>2. CASE \E c \in Clusters, k \in JobKinds : Job(c, k)
    BY <2>2, JobShutdown
  <2>3. CASE LateStep \/ UNCHANGED vars
    BY <2>3, LateEffects DEF JobInv, ShutdownInv, ShutdownProtocol, vars
  <2>4. QED
    BY <2>1, <2>2, <2>3 DEF Next, AllDone
<1>3. ShutdownInv => OnlyWorkerShutsDownTwice
  BY DEF ShutdownInv, ShutdownProtocol, OnlyWorkerShutsDownTwice
<1>4. QED
  BY <1>1, <1>2, <1>3, JobInvHolds, PTL DEF Spec

\* The clusters of the worker that are all to keep their data, so far without
\* a failure.
Keeping ==
  plan.worker /\ blame = {} /\ \A c \in Clusters : plan.cleanup[c] = "None"

\* It has a directory to keep.
PastSetup(c) == pc[c] \notin {"new", "prepared", "setup"}

\* Once it is there, no step of such clusters takes the directory away.
LEMMA KeepsDir ==
  ASSUME FaultInv, CleanInv, [Next]_vars, Keeping, blame' = {}, dataDir = "whole"
  PROVE  dataDir' = "whole"
<1>0. ~LateStep
  BY NothingLate DEF Keeping
<1>1. ASSUME NEW c \in Clusters,
             \/ Bootstrap(c) \/ ApplyEnv(c) \/ SetupOk(c) \/ SetupFails(c) \/ StartOk(c)
             \/ StartFails(c) \/ CancelStart(c) \/ RefreshPort(c)
      PROVE  dataDir' = "whole"
  BY <1>1
  DEF Bootstrap, ApplyEnv, SetupOk, SetupFails, StartOk, StartFails, CancelStart, RefreshPort,
      StartSetUp, SetUp, SetUpInPart, world
<1>2. ASSUME NEW c \in Clusters,
             \/ Unwind(c) \/ TestEnds(c) \/ JobReturns(c) \/ DropGuard(c)
             \/ ReleaseEnv(c) \/ CancelStop(c) \/ RuntimeEnds(c)
      PROVE  dataDir' = "whole"
  <2>1. LifeProtocol(c)
    BY DEF FaultInv
  <2>2. QED
    BY <1>2, <2>1
    DEF Unwind, TestEnds, JobReturns, DropGuard, ReleaseEnv, CancelStop, RuntimeEnds,
        LifeProtocol, Keeping, Goto, world
<1>3. ASSUME NEW c \in Clusters, NEW k \in JobKinds, Job(c, k)
      PROVE  dataDir' = "whole"
  <2>1. plan.cleanup[c] = "None" /\ plan.worker
    BY DEF Keeping
  <2>2. QED
    BY <1>3, <2>1 DEF Job, StopOk, StopFails, CleanupViaWorker, CleanupInProcess, Remove
<1>4. CASE UNCHANGED vars
  BY <1>4 DEF vars, world
<1>5. QED
  BY <1>0, <1>1, <1>2, <1>3, <1>4 DEF Next, Advance, AllDone

\* A cluster that goes past its setup has a whole directory then.
LEMMA KeptInductive ==
  FaultInv /\ CleanInv /\ KeptInv /\ [Next]_vars => KeptInv'
<1>1. SUFFICES ASSUME FaultInv, CleanInv, KeptInv, [Next]_vars, Keeping',
                      NEW d \in Clusters, PastSetup(d)'
               PROVE  dataDir' = "whole"
  BY DEF KeptInv, Keeping, PastSetup
<1>2. blame' = {} /\ TypeOK /\ plan' = plan /\ blame = {}
  <2>1. blame \subseteq blame' /\ plan' = plan
    BY <1>1, BlameGrows DEF FaultInv
  <2>2. QED
    BY <1>1, <2>1 DEF Keeping, FaultInv, JobInv
<1>3. Keeping
  BY <1>1, <1>2 DEF Keeping
<1>4. CASE PastSetup(d)
  <2>1. dataDir = "whole"
    BY <1>1, <1>3, <1>4 DEF KeptInv, Keeping, PastSetup
  <2>2. QED
    BY <1>1, <1>2, <1>3, <2>1, KeepsDir
<1>5. CASE ~PastSetup(d)
  <2>1. PICK c \in Clusters : Advance(c) \/ CancelStart(c) \/ CancelStop(c) \/ RuntimeEnds(c)
    BY <1>1, <1>2, <1>5, NothingLate
    DEF Next, Job, StopOk, StopFails, CleanupViaWorker, CleanupInProcess, AllDone, vars,
        PastSetup
  <2>c. ~CancelStart(c)
    BY <1>2 DEF CancelStart, Fault
  <2>2. SetupOk(d) \/ SetupFails(d) \/ Bootstrap(d)
    BY <1>1, <1>2, <1>5, <2>1, <2>c
    DEF Advance, Bootstrap, ApplyEnv, SetupOk, SetupFails, StartOk, StartFails, CancelStart,
        RefreshPort, Unwind, TestEnds, JobReturns, DropGuard, ReleaseEnv, CancelStop,
        RuntimeEnds, Goto, TypeOK, PastSetup
  <2>3. dataDir # "partial"
    BY <1>1, <1>2 DEF CleanInv
  <2>4. CASE SetupOk(d)
    BY <2>3, <2>4 DEF SetupOk, SetUp
  <2>5. CASE SetupFails(d)
    BY <1>2, <2>3, <2>5 DEF SetupFails, GoesOn, Fault
  <2>6. CASE Bootstrap(d)
    BY <1>1, <1>2, <1>5, <2>6 DEF Bootstrap, Goto, Fault, TypeOK, PastSetup
  <2>7. QED
    BY <2>2, <2>4, <2>5, <2>6
<1>6. QED
  BY <1>4, <1>5

\* The worker's clusters keep the data they were told to keep: the directory is
\* there, whole, when all of them are gone and nothing failed.
THEOREM WorkerKeepsData == Spec => []WorkerRetainsData
<1>1. Init => KeptInv /\ CleanInv
  <2>. SUFFICES ASSUME Init PROVE KeptInv /\ CleanInv
    OBVIOUS
  <2>1. \A c \in Clusters : SmoothProtocol(c)
    BY TheJobKinds DEF Init, SmoothProtocol
  <2>2. QED
    BY <2>1 DEF Init, CleanInv, KeptInv
<1>2. KeptInv => WorkerRetainsData
  BY DEF KeptInv, WorkerRetainsData, NoneRetainsData, Settled
<1>3. QED
  BY <1>1, <1>2, FaultInvHolds, CleanInductive, KeptInductive, PTL DEF Spec
=============================================================================
