--------------------------- MODULE MCBinaryCache ---------------------------
EXTENDS BinaryCacheProps, TLC

CONSTANTS p1, p2

TwoProcs == {p1, p2}

Plan(kind, root, req, full) ==
  [kind |-> kind, root |-> root, req |-> req, home |-> "h1", full |-> full]

MCVersions == {1, 2}
\* The setup command, an unprivileged cluster that takes any version, and one of
\* root that is pinned to the older version and removes its installation.
Command == Plan("setup_only", FALSE, {1, 2}, FALSE)
Cluster == Plan("cluster", FALSE, {1, 2}, FALSE)
Pinned == Plan("cluster", TRUE, {1}, TRUE)
\* Every pair of them; the two processes may be exchanged.
MCPlans == {p1 :> a @@ p2 :> a : a \in {Command, Cluster, Pinned}}
           \union {p1 :> Command @@ p2 :> Cluster, p1 :> Command @@ p2 :> Pinned,
                   p1 :> Cluster @@ p2 :> Pinned}
\* Any version will do, nothing is removed.
MCUnpinned == {p1 :> Cluster @@ p2 :> Cluster}
MCWarm == {{}, {2}}
\* A crash and any other fault, or the two others that leave less than a tree.
MCTogether == {{"crash", f} : f \in FaultKinds} \union {{"copy", "purge"}}
MCNoFaults == {}
=============================================================================
