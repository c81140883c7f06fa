----------------------------- MODULE MCRootRun -----------------------------
(* Two root test processes, in either order or overlapping. *)
EXTENDS RootRunProps, TLC

CONSTANTS p1, p2

TwoProcs == {p1, p2}

MCPlans == {p1 :> "DataOnly" @@ p2 :> "None", p1 :> "DataOnly" @@ p2 :> "Full"}
\* Everything may go wrong in processes that run one after the other, and
\* deadlines pass, processes are killed and tools fail in processes that overlap.
MCTogether == {FaultKinds, {"overlap", "timeout", "kill"}, {"overlap", "timeout", "tool"}}
=============================================================================
