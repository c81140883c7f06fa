--------------------------- MODULE RootRunProofs ---------------------------
(***************************************************************************)
(* Proofs about root test processes, for any processes, cleanup modes and  *)
(* faults, however processes overlap: types and the staged worker.         *)
(***************************************************************************)
EXTENDS RootRunProps, TLAPS

-----------------------------------------------------------------------------
(* Helpers.                                                                *)

Places == Running \cup {"none", "ok", "err"}
Workers == [op : Ops \cup {"none"}, at : Places, bad : BOOLEAN]

\* What goes wrong is a known cause.
LEMMA FaultType ==
  \A f : Fault(f) => blame' \subseteq Causes
BY RunAssumption DEF Fault, MayHappen

\* What initdb writes, by name.
LEMMA PieceNames ==
  /\ Pieces = {"subdirs", "PG_VERSION", "conf", "map", "rest"}
  /\ NextPiece("subdirs") = "PG_VERSION" /\ NextPiece("PG_VERSION") = "conf"
  /\ NextPiece("conf") = "map" /\ NextPiece("map") = "rest" /\ NextPiece("rest") = "ok"
<1>1. /\ DOMAIN InitdbWrites = 1..5
      /\ InitdbWrites[1] = "subdirs" /\ InitdbWrites[2] = "PG_VERSION" /\ InitdbWrites[3] = "conf"
      /\ InitdbWrites[4] = "map" /\ InitdbWrites[5] = "rest"
  BY DEF InitdbWrites
<1>2. \A i \in DOMAIN InitdbWrites : i = 1 \/ i = 2 \/ i = 3 \/ i = 4 \/ i = 5
  BY <1>1
<1>3. Pieces = {"subdirs", "PG_VERSION", "conf", "map", "rest"}
  BY <1>1, <1>2 DEF Pieces
<1> DEFINE At(x) == CHOOSE j \in DOMAIN InitdbWrites : InitdbWrites[j] = x
<1>4. At("subdirs") = 1 /\ At("PG_VERSION") = 2 /\ At("conf") = 3 /\ At("map") = 4
  <2>1. \A j \in DOMAIN InitdbWrites : InitdbWrites[j] = "subdirs" <=> j = 1
    BY <1>1, <1>2
  <2>2. \A j \in DOMAIN InitdbWrites : InitdbWrites[j] = "PG_VERSION" <=> j = 2
    BY <1>1, <1>2
  <2>3. \A j \in DOMAIN InitdbWrites : InitdbWrites[j] = "conf" <=> j = 3
    BY <1>1, <1>2
  <2>4. \A j \in DOMAIN InitdbWrites : InitdbWrites[j] = "map" <=> j = 4
    BY <1>1, <1>2
  <2>5. 1 \in DOMAIN InitdbWrites /\ 2 \in DOMAIN InitdbWrites
        /\ 3 \in DOMAIN InitdbWrites /\ 4 \in DOMAIN InitdbWrites
    BY <1>1
  <2>6. At("subdirs") \in DOMAIN InitdbWrites /\ InitdbWrites[At("subdirs")] = "subdirs"
    BY <2>1, <2>5
  <2>7. At("PG_VERSION") \in DOMAIN InitdbWrites /\ InitdbWrites[At("PG_VERSION")] = "PG_VERSION"
    BY <2>2, <2>5
  <2>8. At("conf") \in DOMAIN InitdbWrites /\ InitdbWrites[At("conf")] = "conf"
    BY <2>3, <2>5
  <2>9. At("map") \in DOMAIN InitdbWrites /\ InitdbWrites[At("map")] = "map"
    BY <2>4, <2>5
  <2>10. QED
    BY <2>1, <2>2, <2>3, <2>4, <2>6, <2>7, <2>8, <2>9
<1>5. \A x : x # "rest" => NextPiece(x) = InitdbWrites[At(x) + 1]
  BY DEF NextPiece
<1>6. NextPiece("rest") = "ok"
  BY DEF NextPiece
<1>. HIDE DEF At
<1>7. 1 + 1 = 2 /\ 2 + 1 = 3 /\ 3 + 1 = 4 /\ 4 + 1 = 5
  OBVIOUS
<1>8. QED
  BY <1>1, <1>3, <1>4, <1>5, <1>6, <1>7

\* A worker goes on.
LEMMA GotoEffect ==
  ASSUME TypeOK, NEW p \in Procs, NEW x \in Places, Goto(p, x)
  PROVE  /\ worker' \in [Procs -> Workers]
         /\ worker'[p].op = worker[p].op /\ worker'[p].bad = worker[p].bad
         /\ worker'[p].at = x
         /\ \A q \in Procs \ {p} : worker'[q] = worker[q]
  BY DEF TypeOK, Goto, Places, Workers

\* An operation is over, but for the drop of its value.
LEMMA EndsEffect ==
  ASSUME TypeOK, NEW p \in Procs, NEW well \in BOOLEAN, Ends(p, well)
  PROVE  /\ worker' \in [Procs -> Workers]
         /\ worker'[p].op = worker[p].op /\ worker'[p].bad = ~well
         /\ worker'[p].at = "drop"
         /\ \A q \in Procs \ {p} : worker'[q] = worker[q]
  BY DEF TypeOK, Ends, Places, Workers, Running

\* Setup returns, by itself or to Start.
LEMMA SetupReturnsEffect ==
  ASSUME TypeOK, NEW p \in Procs, SetupReturns(p)
  PROVE  /\ worker' \in [Procs -> Workers]
         /\ worker'[p].op = worker[p].op
         /\ worker[p].op = "setup" => worker'[p].at = "drop" /\ ~worker'[p].bad
         /\ worker[p].op # "setup" => worker'[p].at = "status" /\ worker'[p].bad = worker[p].bad
         /\ \A q \in Procs \ {p} : worker'[q] = worker[q]
<1>1. "status" \in Places
  BY DEF Places, Running
<1>2. CASE worker[p].op = "setup"
  BY <1>2, EndsEffect DEF SetupReturns
<1>3. CASE worker[p].op # "setup"
  BY <1>1, <1>3, GotoEffect DEF SetupReturns
<1>4. QED
  BY <1>2, <1>3

\* A removal is over.
LEMMA RemovedEffect ==
  ASSUME TypeOK, NEW p \in Procs, NEW well \in BOOLEAN, Removed(p, well)
  PROVE  /\ worker' \in [Procs -> Workers]
         /\ worker'[p].op = worker[p].op /\ worker'[p].bad = (worker[p].bad \/ ~well)
         /\ worker'[p].at =
              IF worker[p].at = "reset" THEN (IF well THEN "setup" ELSE "drop")
              ELSE IF worker[p].at = "rm_data" /\ worker[p].op \in {"cleanup_full", "wipe_full"}
                   THEN "rm_install"
              ELSE IF worker[p].bad \/ ~well THEN "err" ELSE "ok"
         /\ \A q \in Procs \ {p} : worker'[q] = worker[q]
<1> DEFINE x == IF worker[p].at = "reset" THEN (IF well THEN "setup" ELSE "drop")
                ELSE IF worker[p].at = "rm_data" /\ worker[p].op \in {"cleanup_full", "wipe_full"}
                     THEN "rm_install"
                ELSE IF worker[p].bad \/ ~well THEN "err" ELSE "ok"
           b == worker[p].bad \/ ~well
           w == [worker[p] EXCEPT !.bad = b, !.at = x]
<1>1. worker' = [worker EXCEPT ![p] = w]
  BY DEF Removed
<1>2. x \in Places /\ b \in BOOLEAN
  BY DEF Places, Running, TypeOK
<1>3. worker[p] \in Workers
  BY DEF TypeOK, Workers, Places
<1>4. w \in Workers /\ w.op = worker[p].op /\ w.bad = b /\ w.at = x
  <2>. HIDE DEF x, b
  <2>1. QED
    BY <1>2, <1>3 DEF Workers
<1>5. worker' \in [Procs -> Workers] /\ worker'[p] = w
      /\ \A q \in Procs \ {p} : worker'[q] = worker[q]
  <2>. HIDE DEF w
  <2>1. QED
    BY <1>1, <1>4 DEF TypeOK, Workers, Places
<1>6. QED
  BY <1>4, <1>5

\* What a worker goes on with keeps the shape of its process.
LEMMA ShapeOfWorkers ==
  ASSUME RootInv, NEW p \in Procs, UNCHANGED <<pc, mode>>,
         worker' \in [Procs -> Workers], worker'[p].op = worker[p].op,
         \A q \in Procs \ {p} : worker'[q] = worker[q],
         worker[p].op # "none",
         worker[p].op = "setup" => worker'[p].at \in SetupPlaces \cup Ended,
         worker[p].op = "start"
           => worker'[p].at \in SetupPlaces \cup {"status", "launch", "launching"} \cup Ended,
         worker[p].op = "stop" => worker'[p].at \in {"stop", "stopping"} \cup Ended,
         worker[p].op \in {"setup", "start", "stop"} /\ worker'[p].at \notin Dropping \cup {"err"}
           => ~worker'[p].bad,
         worker[p].op = "start" /\ worker'[p].at \in Dropping => worker'[p].bad,
         worker[p].op \in {"cleanup", "wipe"} => worker'[p].at \in {"rm_data", "ok", "err"},
         worker[p].op \in {"cleanup_full", "wipe_full"}
           => worker'[p].at \in {"rm_data", "rm_install", "ok", "err"},
         worker[p].op \in Cleanups /\ worker'[p].at = "ok" => ~worker'[p].bad
  PROVE  \A q \in Procs : Shape(q)'
<1>1. Shape(p)'
  BY DEF RootInv, Shape, Op
<1>2. ASSUME NEW q \in Procs \ {p} PROVE Shape(q)'
  BY <1>2 DEF RootInv, Shape, Op
<1>3. QED
  BY <1>1, <1>2

-----------------------------------------------------------------------------
(* Types.                                                                  *)

DiskTypes ==
  /\ disk \subseteq DataTree \cup InstallTree
  /\ rootOwned \subseteq {"data", "install"}
  /\ server \in {"down", "starting", "up", "stopping"}
  /\ orphan \in BOOLEAN

LEMMA LoseTypes ==
  ASSUME DiskTypes, NEW S, Lose(S)
  PROVE  DiskTypes'
  BY DEF DiskTypes, Lose

\* The steps of a worker.
LEMMA WorkTypes ==
  ASSUME RootInv, NEW p \in Procs, WorkerStep(p), UNCHANGED parent
  PROVE  RootInv'
<1>0. TypeOK /\ Shape(p) /\ DiskTypes
  BY DEF RootInv, TypeOK, DiskTypes
<1>1. SUFFICES ASSUME TRUE
      PROVE  /\ DiskTypes' /\ worker' \in [Procs -> Workers]
             /\ initdb' \in [Procs -> InitdbRunning \cup {"none", "ok", "failed"}]
             /\ blame' \subseteq Causes
             /\ \A q \in Procs : Shape(q)'
  BY <1>0 DEF RootInv, TypeOK, DiskTypes, Workers, Places, parent
<1>2. UNCHANGED <<pc, mode>>
  BY DEF parent
<1>3. ASSUME UNCHANGED disks PROVE DiskTypes'
  BY <1>0, <1>3 DEF DiskTypes, disks
<1>4. CASE CheckSetup(p) \/ DataDirExists(p) \/ Validate(p) \/ StartInitdb(p) \/ InitdbReturns(p)
  <2>1. /\ UNCHANGED <<disks, blame>>
        /\ worker[p].at \in {"check", "exists", "valid", "init", "initdb"}
        /\ initdb' = initdb \/ \E x \in {"check", "none"} : InitdbTo(p, x)
        /\ \/ SetupReturns(p) \/ Ends(p, FALSE)
           \/ \E x \in {"exists", "valid", "setup", "reset", "initdb"} : Goto(p, x)
    <3>1. CASE CheckSetup(p) \/ DataDirExists(p)
      BY <3>1 DEF CheckSetup, DataDirExists
    <3>2. CASE Validate(p)
      BY <3>2 DEF Validate
    <3>3. CASE StartInitdb(p)
      BY <3>3 DEF StartInitdb
    <3>4. CASE InitdbReturns(p)
      BY <3>4 DEF InitdbReturns
    <3>5. QED
      BY <1>4, <3>1, <3>2, <3>3, <3>4
  <2>2. worker[p].op \in {"setup", "start"} /\ ~worker[p].bad
    BY <1>0, <2>1 DEF Shape, TypeOK, Ops, NoWorker, Cleanups, Wipes, Ended, Dropping
  <2>3. /\ worker' \in [Procs -> Workers] /\ worker'[p].op = worker[p].op
        /\ \A q \in Procs \ {p} : worker'[q] = worker[q]
        /\ \/ worker'[p].at \in SetupPlaces /\ ~worker'[p].bad
           \/ worker[p].op = "start" /\ worker'[p].at = "status" /\ ~worker'[p].bad
           \/ worker[p].op = "setup" /\ worker'[p].at = "drop"
           \/ worker'[p].at = "drop" /\ worker'[p].bad
    <3>1. CASE SetupReturns(p)
      BY <1>0, <2>2, <3>1, SetupReturnsEffect
    <3>2. CASE Ends(p, FALSE)
      BY <1>0, <3>2, EndsEffect
    <3>3. CASE \E x \in {"exists", "valid", "setup", "reset", "initdb"} : Goto(p, x)
      BY <1>0, <2>2, <3>3, GotoEffect DEF Places, Running, SetupPlaces
    <3>4. QED
      BY <2>1, <3>1, <3>2, <3>3
  <2>4. \A q \in Procs : Shape(q)'
    BY <1>2, <2>2, <2>3, ShapeOfWorkers DEF SetupPlaces, Cleanups, Wipes, Ended, Dropping
  <2>5. initdb' \in [Procs -> InitdbRunning \cup {"none", "ok", "failed"}]
    BY <1>0, <2>1 DEF TypeOK, InitdbTo, InitdbRunning
  <2>6. QED
    BY <1>0, <1>3, <2>1, <2>3, <2>4, <2>5 DEF TypeOK
<1>5. CASE Install(p)
  <2>1. /\ worker[p].at = "setup" /\ UNCHANGED initdb
        /\ disks' = disks \/ Add({"install", "bin"})
        /\ blame' = blame \/ Fault("tool")
        /\ Goto(p, "init") \/ Ends(p, FALSE)
    BY <1>5 DEF Install
  <2>2. worker[p].op \in {"setup", "start"} /\ ~worker[p].bad
    BY <1>0, <2>1 DEF Shape, TypeOK, Ops, NoWorker, Cleanups, Wipes, Ended, Dropping
  <2>3. DiskTypes'
    BY <1>0, <2>1 DEF DiskTypes, disks, Add, InstallTree
  <2>4. /\ worker' \in [Procs -> Workers] /\ worker'[p].op = worker[p].op
        /\ \A q \in Procs \ {p} : worker'[q] = worker[q]
        /\ \/ worker'[p].at = "init" /\ ~worker'[p].bad
           \/ worker'[p].at = "drop" /\ worker'[p].bad
    BY <1>0, <2>1, <2>2, GotoEffect, EndsEffect DEF Places, Running
  <2>5. \A q \in Procs : Shape(q)'
    BY <1>2, <2>2, <2>4, ShapeOfWorkers DEF SetupPlaces, Cleanups, Wipes, Ended, Dropping
  <2>6. QED
    BY <1>0, <2>1, <2>3, <2>4, <2>5, FaultType DEF TypeOK
<1>6. CASE CheckStatus(p) \/ StartServer(p) \/ ServerStarted(p)
  <2>1. /\ worker[p].at \in {"status", "launch", "launching"} /\ UNCHANGED <<initdb, blame>>
        /\ disks' = disks \/ Launch
        /\ Ends(p, FALSE) \/ \E x \in {"launch", "launching", "ok"} : Goto(p, x)
    BY <1>6 DEF CheckStatus, StartServer, ServerStarted
  <2>2. worker[p].op = "start" /\ ~worker[p].bad
    BY <1>0, <2>1 DEF Shape, TypeOK, Ops, NoWorker, Cleanups, Wipes, SetupPlaces, Ended, Dropping
  <2>3. DiskTypes'
    BY <1>0, <2>1 DEF DiskTypes, disks, Launch, DataTree, DataContents
  <2>4. /\ worker' \in [Procs -> Workers] /\ worker'[p].op = worker[p].op
        /\ \A q \in Procs \ {p} : worker'[q] = worker[q]
        /\ \/ worker'[p].at \in {"launch", "launching", "ok"} /\ ~worker'[p].bad
           \/ worker'[p].at = "drop" /\ worker'[p].bad
    BY <1>0, <2>1, <2>2, GotoEffect, EndsEffect DEF Places, Running
  <2>5. \A q \in Procs : Shape(q)'
    BY <1>2, <2>2, <2>4, ShapeOfWorkers DEF SetupPlaces, Cleanups, Wipes, Ended, Dropping
  <2>6. QED
    BY <1>0, <2>1, <2>3, <2>4, <2>5 DEF TypeOK
<1>7. ASSUME UNCHANGED <<disk, rootOwned, orphan>>, server' = server \/ server' = "stopping"
      PROVE  DiskTypes'
  BY <1>0, <1>7 DEF DiskTypes
<1>8. CASE StopServer(p) \/ ServerStopped(p)
  <2>1. /\ worker[p].at \in {"stop", "stopping"} /\ UNCHANGED <<initdb, blame>>
        /\ UNCHANGED <<disk, rootOwned, orphan>> /\ (server' = server \/ server' = "stopping")
        /\ Goto(p, "stopping") \/ Ends(p, "pid" \notin disk)
    BY <1>8 DEF StopServer, ServerStopped, SignalServer, disks
  <2>2. worker[p].op = "stop" /\ ~worker[p].bad
    BY <1>0, <2>1 DEF Shape, TypeOK, Ops, NoWorker, Cleanups, Wipes, SetupPlaces, Ended, Dropping
  <2>3. /\ worker' \in [Procs -> Workers] /\ worker'[p].op = worker[p].op
        /\ \A q \in Procs \ {p} : worker'[q] = worker[q]
        /\ \/ worker'[p].at = "stopping" /\ ~worker'[p].bad
           \/ worker'[p].at = "drop"
    BY <1>0, <2>1, <2>2, GotoEffect, EndsEffect DEF Places, Running
  <2>4. \A q \in Procs : Shape(q)'
    BY <1>2, <2>2, <2>3, ShapeOfWorkers DEF SetupPlaces, Cleanups, Wipes, Ended, Dropping
  <2>5. QED
    BY <1>0, <1>7, <2>1, <2>3, <2>4 DEF TypeOK
<1>11. ASSUME worker[p].at \in Dropping, Outcome(p) \/ Goto(p, "dropping")
       PROVE  /\ worker' \in [Procs -> Workers] /\ \A q \in Procs : Shape(q)'
  <2>1. worker[p].op \in {"setup", "start", "stop"}
    BY <1>0, <1>11 DEF Shape, TypeOK, Ops, NoWorker, Cleanups, Wipes, Dropping
  <2>2. PICK x \in {"ok", "err", "dropping"} :
          /\ Goto(p, x)
          /\ x = "ok" => ~worker[p].bad
          /\ x = "dropping" /\ worker[p].op = "start" => worker[p].bad
    BY <1>0, <1>11 DEF Outcome, Shape
  <2>3. /\ worker' \in [Procs -> Workers] /\ worker'[p].op = worker[p].op
        /\ \A q \in Procs \ {p} : worker'[q] = worker[q]
        /\ worker'[p].at = x /\ worker'[p].bad = worker[p].bad
    BY <1>0, <2>2, GotoEffect DEF Places, Running
  <2>4. \A q \in Procs : Shape(q)'
    BY <1>2, <2>1, <2>2, <2>3, ShapeOfWorkers DEF SetupPlaces, Cleanups, Wipes, Ended, Dropping
  <2>5. QED
    BY <2>3, <2>4
<1>12. CASE DropValue(p) \/ ValueDropped(p)
  <2>1. /\ worker[p].at \in Dropping /\ UNCHANGED <<initdb, blame>>
        /\ UNCHANGED <<disk, rootOwned, orphan>> /\ (server' = server \/ server' = "stopping")
        /\ Outcome(p) \/ Goto(p, "dropping")
    BY <1>12 DEF DropValue, ValueDropped, SignalServer, disks, Dropping
  <2>2. QED
    BY <1>0, <1>7, <1>11, <2>1 DEF TypeOK
<1>13. CASE WorkerGivesUp(p)
  <2>1. Fault("timeout") /\ UNCHANGED <<disks, initdb>>
    BY <1>13 DEF WorkerGivesUp
  <2>2. /\ worker' \in [Procs -> Workers] /\ \A q \in Procs : Shape(q)'
    <3>1. CASE worker[p].at \in {"initdb", "launching", "stopping"} /\ Ends(p, FALSE)
      <4>1. worker[p].op \in {"setup", "start", "stop"}
        BY <1>0, <3>1 DEF Shape, TypeOK, Ops, NoWorker, Cleanups, Wipes
      <4>2. /\ worker' \in [Procs -> Workers] /\ worker'[p].op = worker[p].op
            /\ \A q \in Procs \ {p} : worker'[q] = worker[q]
            /\ worker'[p].at = "drop" /\ worker'[p].bad
        BY <1>0, <3>1, EndsEffect
      <4>3. \A q \in Procs : Shape(q)'
        BY <1>2, <4>1, <4>2, ShapeOfWorkers DEF SetupPlaces, Cleanups, Wipes, Ended, Dropping
      <4>4. QED
        BY <4>2, <4>3
    <3>2. CASE worker[p].at = "dropping" /\ Outcome(p)
      BY <1>11, <3>2 DEF Dropping
    <3>3. QED
      BY <1>13, <3>1, <3>2 DEF WorkerGivesUp
  <2>3. QED
    BY <1>0, <1>3, <2>1, <2>2, FaultType DEF TypeOK
<1>14. CASE RemoveEntry(p)
  <2>1. DiskTypes'
    BY <1>0, <1>14, LoseTypes DEF RemoveEntry
  <2>2. UNCHANGED <<worker, initdb, blame>>
    BY <1>14 DEF RemoveEntry
  <2>3. \A q \in Procs : Shape(q)'
    BY <1>2, <2>2 DEF RootInv, Shape, Op
  <2>4. QED
    BY <1>0, <2>1, <2>2, <2>3 DEF TypeOK, Workers, Places
<1>15. CASE RemoveTop(p) \/ RemoveFails(p) \/ RemoveStopsShort(p)
  <2>1. /\ worker[p].at \in Removing /\ UNCHANGED initdb
        /\ blame' = blame \/ Fault("remove")
        /\ Removed(p, TRUE) \/ Removed(p, FALSE)
        /\ disks' = disks \/ Lose({Top(p)})
    BY <1>15 DEF RemoveTop, RemoveFails, RemoveStopsShort
  <2>2. /\ worker[p].op \in {"setup", "start"} \cup Cleanups
        /\ worker[p].op \in {"setup", "start"} => worker[p].at = "reset" /\ ~worker[p].bad
        /\ worker[p].op \in Cleanups => worker[p].at # "reset"
    BY <1>0, <2>1 DEF Shape, TypeOK, Ops, NoWorker, Cleanups, Wipes, SetupPlaces, Removing,
       Ended, Dropping
  <2>3. DiskTypes'
    <3>1. CASE disks' = disks
      BY <1>0, <3>1 DEF DiskTypes, disks
    <3>2. QED
      BY <1>0, <2>1, <3>1, LoseTypes
  <2>4. PICK well \in BOOLEAN : Removed(p, well)
    BY <2>1
  <2>5. /\ worker' \in [Procs -> Workers] /\ worker'[p].op = worker[p].op
        /\ \A q \in Procs \ {p} : worker'[q] = worker[q]
        /\ worker'[p].bad = (worker[p].bad \/ ~well)
        /\ worker'[p].at =
             IF worker[p].at = "reset" THEN (IF well THEN "setup" ELSE "drop")
             ELSE IF worker[p].at = "rm_data" /\ worker[p].op \in {"cleanup_full", "wipe_full"}
                  THEN "rm_install"
             ELSE IF worker[p].bad \/ ~well THEN "err" ELSE "ok"
    BY <1>0, <2>4, RemovedEffect
  <2>6. \A q \in Procs : Shape(q)'
    <3>1. worker[p].op \in {"setup", "start"} =>
            \/ worker'[p].at = "drop" /\ worker'[p].bad
            \/ worker'[p].at = "setup" /\ ~worker'[p].bad
      BY <2>2, <2>5
    <3>2. worker[p].op \in {"cleanup", "wipe"} => worker'[p].at \in {"ok", "err"}
      BY <2>2, <2>5 DEF Cleanups, Wipes
    <3>3. worker[p].op \in {"cleanup_full", "wipe_full"}
            => worker'[p].at \in {"rm_install", "ok", "err"}
      BY <2>2, <2>5 DEF Cleanups, Wipes
    <3>4. worker[p].op \in Cleanups /\ worker'[p].at = "ok" => ~worker'[p].bad
      BY <2>2, <2>5
    <3>5. QED
      BY <1>2, <2>2, <2>5, <3>1, <3>2, <3>3, <3>4, ShapeOfWorkers
        DEF SetupPlaces, Cleanups, Wipes, Ended, Dropping
  <2>7. QED
    BY <1>0, <2>1, <2>3, <2>5, <2>6, FaultType DEF TypeOK
<1>16. QED
  BY <1>4, <1>5, <1>6, <1>8, <1>12, <1>13, <1>14, <1>15 DEF WorkerStep


\* The steps of a process of its own.
LEMMA StepTypes ==
  ASSUME RootInv, NEW p \in Procs, Step(p) \/ Timeout(p) \/ Kill(p)
  PROVE  RootInv'
<1>0. TypeOK /\ Shape(p) /\ DiskTypes
  BY DEF RootInv, TypeOK, DiskTypes
<1>1. ASSUME worker[p] = NoWorker, UNCHANGED <<worker, initdb, mode>>, DiskTypes',
             blame' \subseteq Causes,
             staged' \in {"absent", "foreign", "partial", "whole"},
             binary' \in [Procs -> {"original", "staged"}],
             seen' \in [Procs -> SUBSET (DataTree \cup InstallTree)],
             pc' = pc \/ \E x \in PCs : To(p, x)
      PROVE  RootInv'
  <2>1. pc' \in [Procs -> PCs] /\ \A q \in Procs \ {p} : pc'[q] = pc[q]
    BY <1>0, <1>1 DEF TypeOK, To
  <2>2. TypeOK'
    BY <1>0, <1>1, <2>1 DEF TypeOK, DiskTypes
  <2>3. Shape(p)'
    BY <1>1 DEF Shape, NoWorker, Cleanups, Wipes
  <2>4. ASSUME NEW q \in Procs \ {p} PROVE Shape(q)'
    BY <1>1, <2>1, <2>4 DEF RootInv, Shape, Op
  <2>5. QED
    BY <2>2, <2>3, <2>4 DEF RootInv
<1>2. ASSUME pc[p] \notin Calls PROVE worker[p] = NoWorker
  BY <1>0, <1>2 DEF Shape
<1>3. ASSUME UNCHANGED disks PROVE DiskTypes'
  BY <1>0, <1>3 DEF DiskTypes, disks
<1>4. CASE Begin(p) \/ TestEnds(p)
  <2>1. /\ pc[p] \in {"new", "ready"} /\ UNCHANGED <<disks, initdb, worker, mode, staged, binary, seen>>
        /\ \E x \in {"stage", "stop"} : To(p, x)
        /\ blame' = blame \/ blame' = blame \cup {"overlap"}
    BY <1>4 DEF Begin, TestEnds
  <2>2. QED
    BY <1>0, <1>1, <1>2, <1>3, <2>1 DEF TypeOK, Calls, PCs, Causes
<1>5. CASE Stage(p) \/ BeginCopy(p) \/ EndCopy(p)
  <2>1. /\ pc[p] \in {"stage", "copy"} /\ UNCHANGED Unstaged
        /\ pc' = pc \/ \E x \in {"copy", "dirs"} : To(p, x)
        /\ binary' = binary \/ binary' = [binary EXCEPT ![p] = "staged"]
        /\ staged' = staged \/ staged' \in {"partial", "whole"}
    BY <1>5 DEF Stage, BeginCopy, EndCopy
  <2>2. QED
    BY <1>0, <1>1, <1>2, <1>3, <2>1 DEF TypeOK, Calls, PCs, Unstaged
<1>6. CASE EnsureDirs(p) \/ PrepareXdg(p)
  <2>1. /\ pc[p] \in {"dirs", "own", "data", "own_data", "xdg"}
        /\ UNCHANGED <<server, orphan, seen, Unprepared>>
        /\ \E x \in {"own", "data", "own_data", "xdg", "failed", "list"} : To(p, x)
        /\ \/ rootOwned' \subseteq rootOwned /\ disk' = disk
           \/ MakeAsRoot({"install"}) \/ MakeAsRoot({"data"}) \/ MakeAsRoot({"install", "xdg"})
    <3>1. CASE EnsureDirs(p)
      BY <3>1 DEF EnsureDirs, MakeDir, OwnDir
    <3>2. CASE PrepareXdg(p)
      BY <3>2 DEF PrepareXdg
    <3>3. QED
      BY <1>6, <3>1, <3>2
  <2>2. DiskTypes'
    BY <1>0, <2>1 DEF DiskTypes, MakeAsRoot, DataTree, InstallTree
  <2>3. QED
    BY <1>0, <1>1, <1>2, <2>1, <2>2 DEF TypeOK, Calls, PCs, Over, Unprepared
<1>7. CASE ListTree(p) \/ ChownTree(p)
  <2>1. /\ pc[p] \in {"list", "chown"} /\ UNCHANGED <<disks, Unprepared>>
        /\ \E x \in {"chown", "setup", "failed"} : To(p, x)
        /\ \E S \in SUBSET (DataTree \cup InstallTree) : seen' = [seen EXCEPT ![p] = S]
    <3>1. disk \ {"install", "data"} \in SUBSET (DataTree \cup InstallTree)
      BY <1>0 DEF DiskTypes
    <3>2. QED
      BY <1>7, <3>1 DEF ListTree, ChownTree
  <2>2. QED
    BY <1>0, <1>1, <1>2, <1>3, <2>1 DEF TypeOK, Calls, PCs, Over, Unprepared
<1>8. CASE Spawn(p)
  <2>1. /\ pc[p] \in Calls /\ worker[p] = NoWorker
        /\ UNCHANGED <<disks, initdb, blame, mode, staged, binary, seen>>
    BY <1>8 DEF Spawn
  <2>2. CASE To(p, AfterErr(p)) /\ UNCHANGED worker
    <3>1. AfterErr(p) \in PCs
      BY DEF AfterErr, PCs, Over, Calls
    <3>2. QED
      BY <1>0, <1>1, <1>3, <2>1, <2>2, <3>1 DEF TypeOK
  <2>3. CASE /\ worker' = [worker EXCEPT ![p] = [op |-> Op(p), at |-> Entry(Op(p)), bad |-> FALSE]]
             /\ UNCHANGED pc
    <3> DEFINE w == [op |-> Op(p), at |-> Entry(Op(p)), bad |-> FALSE]
    <3>1. /\ Op(p) \in Ops
          /\ Entry(Op(p)) = IF Op(p) \in {"setup", "start"} THEN "check"
                            ELSE IF Op(p) = "stop" THEN "stop" ELSE "rm_data"
      BY <2>1 DEF Op, Ops, Entry, Calls
    <3>2. /\ w \in Workers /\ w.op = Op(p) /\ w.at = Entry(Op(p)) /\ w.bad = FALSE
      BY <3>1 DEF Workers, Places, Running
    <3>. HIDE DEF w
    <3>3. /\ worker' = [worker EXCEPT ![p] = w] /\ worker \in [Procs -> Workers]
      BY <1>0, <2>3 DEF w, TypeOK, Workers, Places
    <3>4. /\ worker' \in [Procs -> Workers] /\ worker'[p] = w
          /\ \A q \in Procs \ {p} : worker'[q] = worker[q]
      BY <3>2, <3>3
    <3>5. Shape(p)'
      <4>1. Op(p)' = Op(p)
        BY <2>1, <2>3 DEF Op
      <4>2. Op(p) # "none"
        BY <3>1 DEF Ops
      <4>3. QED
        BY <2>1, <2>3, <3>1, <3>2, <3>4, <4>1, <4>2 DEF Shape, SetupPlaces, Ops, Cleanups, Wipes,
             Dropping, Ended
    <3>6. ASSUME NEW q \in Procs \ {p} PROVE Shape(q)'
      BY <2>1, <2>3, <3>4, <3>6 DEF RootInv, Shape, Op
    <3>7. TypeOK'
      BY <1>0, <1>3, <2>1, <2>3, <3>4 DEF TypeOK, DiskTypes, Workers, Places
    <3>8. QED
      BY <3>5, <3>6, <3>7 DEF RootInv
  <2>4. QED
    BY <1>8, <2>2, <2>3 DEF Spawn
<1>9. ASSUME worker' = [worker EXCEPT ![p] = NoWorker], UNCHANGED <<disks, mode, staged, binary>>,
             initdb' = initdb \/ initdb' = [initdb EXCEPT ![p] = "none"],
             seen' = seen \/ seen' = [seen EXCEPT ![p] = {}],
             blame' \subseteq Causes,
             NEW x \in PCs, To(p, x)
      PROVE  RootInv'
  <2>1. NoWorker \in Workers
    BY DEF NoWorker, Workers, Places
  <2>2. /\ worker' \in [Procs -> Workers] /\ worker'[p] = NoWorker
        /\ \A q \in Procs \ {p} : worker'[q] = worker[q]
    BY <1>0, <1>9, <2>1 DEF TypeOK, Workers, Places
  <2>3. pc' \in [Procs -> PCs] /\ \A q \in Procs \ {p} : pc'[q] = pc[q]
    BY <1>0, <1>9 DEF TypeOK, To
  <2>4. TypeOK'
    BY <1>0, <1>3, <1>9, <2>2, <2>3 DEF TypeOK, DiskTypes, Workers, Places
  <2>5. Shape(p)'
    BY <2>2 DEF Shape, NoWorker, Cleanups, Wipes
  <2>6. ASSUME NEW q \in Procs \ {p} PROVE Shape(q)'
    BY <1>9, <2>2, <2>3, <2>6 DEF RootInv, Shape, Op
  <2>7. QED
    BY <2>4, <2>5, <2>6 DEF RootInv
<1>10. CASE Return(p)
  <2>1. /\ worker' = [worker EXCEPT ![p] = NoWorker]
        /\ UNCHANGED <<disks, initdb, blame, mode, staged, binary, seen>>
        /\ To(p, IF worker[p].at = "ok" THEN AfterOk(p) ELSE AfterErr(p))
    BY <1>10 DEF Return
  <2>2. (IF worker[p].at = "ok" THEN AfterOk(p) ELSE AfterErr(p)) \in PCs
    BY DEF AfterOk, AfterErr, PCs, Over, Calls
  <2>3. QED
    BY <1>0, <1>9, <2>1, <2>2 DEF TypeOK
<1>11. CASE Timeout(p) \/ Kill(p)
  <2>1. /\ worker' = [worker EXCEPT ![p] = NoWorker] /\ UNCHANGED <<disks, mode, staged, binary>>
        /\ initdb' = initdb \/ initdb' = [initdb EXCEPT ![p] = "none"]
        /\ seen' = seen \/ seen' = [seen EXCEPT ![p] = {}]
        /\ Fault("timeout") \/ Fault("kill")
        /\ To(p, AfterErr(p)) \/ To(p, "killed")
    BY <1>11 DEF Timeout, Kill
  <2>2. AfterErr(p) \in PCs /\ "killed" \in PCs
    BY DEF AfterErr, PCs, Over, Calls
  <2>3. blame' \subseteq Causes
    BY <1>0, <2>1, FaultType DEF TypeOK
  <2>4. QED
    BY <1>9, <2>1, <2>2, <2>3
<1>12. QED
  BY <1>4, <1>5, <1>6, <1>7, <1>8, <1>10, <1>11 DEF Step

\* initdb and the postmaster.
LEMMA ToolTypes ==
  ASSUME RootInv, Tools, UNCHANGED <<worker, parent>>
  PROVE  RootInv'
<1>0. TypeOK /\ DiskTypes
  BY DEF RootInv, TypeOK, DiskTypes
<1>1. SUFFICES ASSUME TRUE
      PROVE  /\ DiskTypes' /\ initdb' \in [Procs -> InitdbRunning \cup {"none", "ok", "failed"}]
             /\ blame' \subseteq Causes
  BY <1>0 DEF RootInv, TypeOK, DiskTypes, Shape, Op, parent
<1>2. ASSUME NEW p \in Procs, InitdbCheck(p) \/ InitdbKilled(p)
      PROVE  /\ DiskTypes' /\ initdb' \in [Procs -> InitdbRunning \cup {"none", "ok", "failed"}]
             /\ blame' \subseteq Causes
  <2>1. /\ disks' = disks \/ Add({"data"})
        /\ \E x \in {"failed", "subdirs"} : InitdbTo(p, x)
        /\ blame' = blame \/ Fault("kill")
    BY <1>2 DEF InitdbCheck, InitdbKilled
  <2>2. DiskTypes'
    BY <1>0, <2>1 DEF DiskTypes, disks, Add, DataTree
  <2>3. QED
    BY <1>0, <2>1, <2>2, PieceNames, FaultType DEF TypeOK, InitdbTo, InitdbRunning
<1>3. ASSUME NEW p \in Procs, InitdbWrite(p)
      PROVE  /\ DiskTypes' /\ initdb' \in [Procs -> InitdbRunning \cup {"none", "ok", "failed"}]
             /\ blame' \subseteq Causes
  <2>1. /\ Add({initdb[p]}) /\ initdb[p] \in Pieces /\ InitdbTo(p, NextPiece(initdb[p]))
        /\ blame' = blame
    BY <1>3 DEF InitdbWrite
  <2>2. NextPiece(initdb[p]) \in Pieces \cup {"ok"}
    BY <2>1, PieceNames
  <2>3. DiskTypes'
    BY <1>0, <2>1 DEF DiskTypes, Add, DataTree, DataContents
  <2>4. QED
    BY <1>0, <2>1, <2>2, <2>3 DEF TypeOK, InitdbTo, InitdbRunning
<1>4. ASSUME NEW p \in Procs, InitdbFails(p)
      PROVE  /\ DiskTypes' /\ initdb' \in [Procs -> InitdbRunning \cup {"none", "ok", "failed"}]
             /\ blame' \subseteq Causes
  <2>1. /\ Lose(DataContents) \/ Lose(DataTree)
        /\ InitdbTo(p, "failed")
        /\ blame' = blame \/ Fault("tool")
    BY <1>4 DEF InitdbFails
  <2>2. DiskTypes'
    BY <1>0, <2>1, LoseTypes
  <2>3. QED
    BY <1>0, <2>1, <2>2, FaultType DEF TypeOK, InitdbTo, InitdbRunning
<1>5. ASSUME ServerUp \/ ServerFails \/ ServerStops \/ ServerDies
      PROVE  /\ DiskTypes' /\ initdb' \in [Procs -> InitdbRunning \cup {"none", "ok", "failed"}]
             /\ blame' \subseteq Causes
  BY <1>0, <1>5, FaultType DEF DiskTypes, TypeOK, ServerUp, ServerFails, ServerStops, ServerDies
<1>6. QED
  BY <1>2, <1>3, <1>4, <1>5 DEF Tools

LEMMA RootInvHolds == Spec => []RootInv
<1>1. ASSUME Init PROVE RootInv
  <2>1. mode \in [Procs -> Modes]
    BY <1>1, RunAssumption DEF Init
  <2>2. worker \in [Procs -> Workers]
    BY <1>1 DEF Init, NoWorker, Workers, Places
  <2>3. TypeOK
    BY <1>1, <2>1, <2>2 DEF Init, TypeOK, PCs, Workers, Places
  <2>4. \A p \in Procs : Shape(p)
    BY <1>1, ZenonT(40) DEF Init, Shape, NoWorker, Cleanups, Wipes
  <2>5. QED
    BY <2>3, <2>4 DEF RootInv
<1>2. RootInv /\ [Next]_vars => RootInv'
  <2>1. ASSUME RootInv, UNCHANGED vars PROVE RootInv'
    BY <2>1 DEF RootInv, TypeOK, Shape, Op, vars, disks, parent
  <2>2. QED
    BY <2>1, WorkTypes, StepTypes, ToolTypes DEF Next, Work, AllOver
<1>3. QED
  BY <1>1, <1>2, PTL DEF Spec

\* The state keeps its type, whatever fails and however processes overlap.
THEOREM TypeCorrect == Spec => []TypeOK
<1>1. RootInv => TypeOK
  BY DEF RootInv
<1>2. QED
  BY <1>1, RootInvHolds, PTL

-----------------------------------------------------------------------------
(* The staged worker.                                                      *)

\* However many processes copy the worker at once, the one that ends last leaves it
\* whole; only a process that was killed leaves half a worker.
THEOREM StagedWhole == Spec => []StagedWorkerWhole
<1>1. Init => StagedWorkerWhole
  BY DEF Init, StagedWorkerWhole
<1>2. RootInv /\ StagedWorkerWhole /\ [Next]_vars => StagedWorkerWhole'
  <2>1. SUFFICES ASSUME RootInv, TypeOK, StagedWorkerWhole, [Next]_vars, staged' = "partial",
                        ~After({"kill"})'
                 PROVE  \E p \in Procs : pc'[p] = "copy" /\ binary'[p] = "staged"
    BY DEF StagedWorkerWhole, RootInv
  <2> DEFINE Copying(p) == pc[p] = "copy" /\ binary[p] = "staged"
  <2>2. ASSUME NEW p \in Procs, EndCopy(p)
        PROVE  \E q \in Procs : pc'[q] = "copy" /\ binary'[q] = "staged"
    <3>1. PICK q \in Procs \ {p} : Copying(q)
      BY <2>1, <2>2 DEF EndCopy
    <3>2. pc'[q] = pc[q] /\ binary' = binary
      BY <2>1, <2>2 DEF EndCopy, To, TypeOK
    <3>3. QED
      BY <3>1, <3>2
  <2>3. ASSUME NEW p \in Procs, BeginCopy(p)
        PROVE  \E q \in Procs : pc'[q] = "copy" /\ binary'[q] = "staged"
    <3>1. CASE staged' = "partial" /\ binary' = [binary EXCEPT ![p] = "staged"] /\ UNCHANGED pc
      BY <2>1, <2>3, <3>1 DEF BeginCopy, TypeOK
    <3>2. CASE To(p, "dirs") /\ UNCHANGED <<staged, binary, blame>>
      <4>1. PICK q \in Procs : Copying(q)
        BY <2>1, <3>2 DEF StagedWorkerWhole, After
      <4>2. q # p
        BY <2>3, <4>1 DEF BeginCopy
      <4>3. pc'[q] = pc[q]
        BY <2>1, <3>2, <4>2 DEF To, TypeOK
      <4>4. binary'[q] = binary[q]
        BY <3>2
      <4>5. QED
        BY <4>1, <4>3, <4>4
    <3>3. QED
      BY <2>3, <3>1, <3>2 DEF BeginCopy, Unstaged
  <2>4. ASSUME NEW p \in Procs, Stage(p)
        PROVE  \E q \in Procs : pc'[q] = "copy" /\ binary'[q] = "staged"
    <3>1. PICK q \in Procs : Copying(q)
      BY <2>1, <2>4 DEF Stage, Unstaged, StagedWorkerWhole, After
    <3>2. pc[p] = "stage" /\ binary' \in {binary, [binary EXCEPT ![p] = "staged"]}
          /\ \E x : To(p, x)
      BY <2>4 DEF Stage
    <3>3. q # p
      BY <3>1, <3>2
    <3>4. QED
      BY <2>1, <3>1, <3>2, <3>3 DEF To, TypeOK
  <2>5. ASSUME NEW p \in Procs,
               \/ Begin(p) \/ EnsureDirs(p) \/ PrepareXdg(p) \/ ListTree(p)
               \/ ChownTree(p) \/ Spawn(p) \/ Return(p) \/ TestEnds(p) \/ Timeout(p)
        PROVE  \E q \in Procs : pc'[q] = "copy" /\ binary'[q] = "staged"
    <3>1. /\ UNCHANGED <<staged, binary>> /\ blame \subseteq blame'
      BY <2>5 DEF Begin, EnsureDirs, MakeDir, OwnDir, PrepareXdg, ListTree, ChownTree, Spawn, Return,
                  TestEnds, Timeout, Unprepared, Fault
    <3>2. PICK q \in Procs : Copying(q)
      BY <2>1, <3>1 DEF StagedWorkerWhole, After
    <3>3. pc'[q] = pc[q]
      <4>1. pc' = pc \/ \E x : To(p, x)
        BY <2>5 DEF Begin, EnsureDirs, MakeDir, OwnDir, PrepareXdg, ListTree, ChownTree, Spawn, Return,
                    TestEnds, Timeout
      <4>2. ASSUME Return(p) PROVE pc[p] # "copy"
        BY <2>1, <4>2 DEF Return, RootInv, Shape, NoWorker, Calls
      <4>3. pc[p] # "copy"
        BY <2>5, <4>2 DEF Begin, EnsureDirs, MakeDir, OwnDir, PrepareXdg, ListTree, ChownTree, Spawn,
                    TestEnds, Timeout, Calls
      <4>4. QED
        BY <2>1, <3>2, <4>1, <4>3 DEF To, TypeOK
    <3>4. QED
      BY <3>1, <3>2, <3>3
  <2>6. ASSUME UNCHANGED <<pc, staged, binary>>, blame \subseteq blame'
        PROVE  \E q \in Procs : pc'[q] = "copy" /\ binary'[q] = "staged"
    BY <2>1, <2>6 DEF StagedWorkerWhole, After
  <2>7. ASSUME NEW p \in Procs, Kill(p) PROVE FALSE
    BY <2>1, <2>7 DEF Kill, Fault, After
  <2>8. ASSUME NEW p \in Procs, Work(p) PROVE UNCHANGED <<pc, staged, binary>> /\ blame \subseteq blame'
    BY <2>8 DEF Work, parent, WorkerStep, CheckSetup, DataDirExists, Validate, Install, StartInitdb,
       InitdbReturns, CheckStatus, StartServer, ServerStarted, StopServer, ServerStopped,
       DropValue, ValueDropped, WorkerGivesUp, RemoveEntry, RemoveTop, RemoveFails, RemoveStopsShort, Fault
  <2>9. ASSUME Tools, UNCHANGED <<worker, parent>>
        PROVE  UNCHANGED <<pc, staged, binary>> /\ blame \subseteq blame'
    BY <2>9 DEF parent, Tools, InitdbCheck, InitdbWrite, InitdbFails, InitdbKilled,
       ServerUp, ServerFails, ServerStops, ServerDies, Fault
  <2>10. ASSUME UNCHANGED vars PROVE UNCHANGED <<pc, staged, binary>> /\ blame \subseteq blame'
    BY <2>10 DEF vars, parent
  <2>11. QED
    BY <2>1, <2>2, <2>3, <2>4, <2>5, <2>6, <2>7, <2>8, <2>9, <2>10 DEF Next, Step, AllOver
<1>3. QED
  BY <1>1, <1>2, RootInvHolds, PTL DEF Spec
=============================================================================
