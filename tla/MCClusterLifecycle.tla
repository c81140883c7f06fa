------------------------- MODULE MCClusterLifecycle -------------------------
EXTENDS ClusterLifecycleProps, TLC

Use(worker, uses) == [worker : {worker}, use : uses]

\* Every way of using a cluster whose shutdown is awaited by the cluster itself.
MCAwaited == Use(TRUE, {"sync"}) \union Use(FALSE, {"sync", "stop_async"})
MCAllCases == Use(TRUE, Uses) \union Use(FALSE, Uses)
MCInProcessSync == Use(FALSE, {"sync"})
MCWorkerStopAsync == Use(TRUE, {"stop_async"})

\* The clusters are alike.
MCSymmetry == Permutations(Clusters)

MCAwaitedFaults ==
  FaultKinds \ {"no_runtime", "runtime_ends"}
MCAllFaults == FaultKinds
MCNoFaults == {}
MCFullOrNone == {"Full", "None"}
MCNone == {"None"}
MCTwoModes == {"DataOnly", "Full"}
=============================================================================
