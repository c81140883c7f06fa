---------------------------- MODULE ClusterLease ----------------------------
(***************************************************************************)
(* What the clusters of one user promise each other: they all use the same *)
(* data directory, so one cluster at a time is its tenant; only the tenant *)
(* starts and stops the server or touches what the directory contains, and *)
(* it never touches the contents and leaves the server up in them.         *)
(* Anybody may create the directory when there is none.  A tenant may      *)
(* abandon something it has begun; until that is over, it acts as it will. *)
(***************************************************************************)
CONSTANTS Clusters, NoCluster, Contents

VARIABLES tenant,    \* the cluster that may use the data directory
          contents,  \* what the data directory holds
          up,        \* a server runs in it
          stray      \* something abandoned is still going on

vars == <<tenant, contents, up, stray>>

Init == /\ tenant = NoCluster
        /\ contents = "absent"
        /\ up = FALSE
        /\ stray = FALSE

Move(c) == /\ tenant = NoCluster
           /\ tenant' = c
           /\ UNCHANGED <<contents, up, stray>>

\* A server that could not be stopped may stay behind.
Leave == /\ tenant # NoCluster
         /\ tenant' = NoCluster
         /\ UNCHANGED <<contents, up, stray>>

Create == /\ contents = "absent"
          /\ contents' = "empty"
          /\ UNCHANGED <<tenant, up, stray>>

Rewrite == /\ ~up
           /\ contents' \in Contents
           /\ UNCHANGED up

Start == /\ ~up
         /\ up' = TRUE
         /\ contents' = "whole"

Stop == /\ up' = FALSE
        /\ UNCHANGED contents

\* A server that would not stop loses its directory.
Discard == /\ up
           /\ up' = FALSE
           /\ contents' \in {"absent", "partial"}

\* Only the tenant acts, and only the tenant abandons.
Act == /\ tenant # NoCluster
       /\ Rewrite \/ Start \/ Stop \/ Discard \/ UNCHANGED <<contents, up>>
       /\ stray' \in {stray, TRUE}
       /\ UNCHANGED tenant

Intrude == /\ stray
           /\ contents' \in Contents
           /\ up' \in BOOLEAN
           /\ stray' \in BOOLEAN
           /\ UNCHANGED tenant

Next == \/ \E c \in Clusters : Move(c)
        \/ Leave \/ Create \/ Act \/ Intrude

Spec == Init /\ [][Next]_vars
=============================================================================
