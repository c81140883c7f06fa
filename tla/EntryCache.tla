----------------------------- MODULE EntryCache -----------------------------
(***************************************************************************)
(* What the locks of the binary cache promise: an entry is read only while *)
(* it is published and nobody writes it, written only while it is not      *)
(* published and nobody reads it, and published by its writer alone.  A    *)
(* user may delete an entry at any time: nothing locks that.               *)
(***************************************************************************)
CONSTANTS Procs, Versions

VARIABLES
  readers,    \* the processes that copy the entry into an installation
  writers,    \* the processes that fill the entry
  published   \* lookups accept the entry

vars == <<readers, writers, published>>

Init ==
  /\ readers = [v \in Versions |-> {}]
  /\ writers = [v \in Versions |-> {}]
  /\ published \in [Versions -> BOOLEAN]

BeginRead(p, v) ==
  /\ published[v] /\ writers[v] = {}
  /\ readers' = [readers EXCEPT ![v] = @ \union {p}]
  /\ UNCHANGED <<writers, published>>

EndRead(p, v) ==
  /\ p \in readers[v]
  /\ readers' = [readers EXCEPT ![v] = @ \ {p}]
  /\ UNCHANGED <<writers, published>>

BeginWrite(p, v) ==
  /\ ~published[v] /\ readers[v] = {} /\ writers[v] = {}
  /\ writers' = [writers EXCEPT ![v] = {p}]
  /\ UNCHANGED <<readers, published>>

\* The writer finishes, gives up or dies.
EndWrite(p, v) ==
  /\ p \in writers[v]
  /\ writers' = [writers EXCEPT ![v] = @ \ {p}]
  /\ published' \in {published, [published EXCEPT ![v] = TRUE]}
  /\ UNCHANGED readers

Delete(v) ==
  /\ published' = [published EXCEPT ![v] = FALSE]
  /\ UNCHANGED <<readers, writers>>

Next ==
  \E v \in Versions :
    \/ Delete(v)
    \/ \E p \in Procs : \/ BeginRead(p, v) \/ EndRead(p, v)
                        \/ BeginWrite(p, v) \/ EndWrite(p, v)

Spec == Init /\ [][Next]_vars
=============================================================================
