--------------------------- MODULE ScopedEnvProps ---------------------------
(* The properties of ScopedEnv, and the environment it promises.           *)
EXTENDS ScopedEnv

-----------------------------------------------------------------------------
(* The refinement: undo records stand for snapshots.                       *)

\* Record j is the lowest of `records` from i upwards that saved k.
IsLowest(j, i, records, k) ==
  /\ j \in i..Len(records)
  /\ records[j].saved[k] # Untouched
  /\ \A h \in i..(j - 1) : records[h].saved[k] = Untouched

\* No record from i upwards saved k.
NoneSaved(i, records, k) ==
  \A j \in i..Len(records) : records[j].saved[k] = Untouched

\* What k is when the records i, i+1, ... of `records` are undone, top first:
\* the record lowest in the stack has the last word.
Unwound(i, records, e, k) ==
  IF NoneSaved(i, records, k)
  THEN e[k]
  ELSE records[CHOOSE j \in i..Len(records) : IsLowest(j, i, records, k)].saved[k]

\* The environment this leaves.
UnwindTo(i, records, e) == [k \in Keys |-> Unwound(i, records, e, k)]

\* The records of t, the one apply_env_vars is filling included.
Records(t) ==
  IF pc[t] = "applying"
  THEN Append(stack[t], [saved |-> draft[t], finished |-> FALSE])
  ELSE stack[t]

\* The snapshots the records stand for: the environment after undoing a record
\* and everything above it.
SnapshotsFrom(records, e) ==
  [i \in DOMAIN records |->
     [before |-> UnwindTo(i, records, e), closed |-> records[i].finished]]

\* The snapshots of whoever holds ENV_LOCK.
HeldScopes ==
  IF holder = NoThread THEN << >> ELSE SnapshotsFrom(Records(holder), env)

Snapshots == INSTANCE EnvSnapshots WITH
  owner  <- holder,
  scopes <- HeldScopes

\* Undo records that hold only the touched variables (env/state.rs,
\* apply_env_vars and restore_finished_scopes) are as good as whole
\* snapshots of the environment, whatever order the guards are dropped in.
ImplementsSnapshots == Snapshots!Spec

-----------------------------------------------------------------------------
(* Safety.                                                                 *)

\* While nobody holds ENV_LOCK the environment is the host's: no scope of any
\* thread outlives its guard (env/mod.rs, "Restores the process environment
\* when dropped").
HostEnvWhenUnlocked == holder = NoThread => env = HostEnv

\* A thread with a live guard holds ENV_LOCK, and each of its guards has a
\* record of its own that is still open; so guards of two threads never
\* coexist (env/mod.rs, "Different threads are still serialized").
LiveGuardHoldsLock ==
  \A t \in Threads : \A i \in LiveIndices(t) :
    /\ holder = t
    /\ live[t][i] = 1
    /\ i \in DOMAIN stack[t]
    /\ ~stack[t][i].finished

\* The records of a stack whose guards have not been dropped.
OpenIn(records) == {i \in DOMAIN records : ~records[i].finished}

\* Open records of t, plus the one being filled.
OpenRecords(t) ==
  Cardinality(OpenIn(stack[t])) + (IF pc[t] = "applying" THEN 1 ELSE 0)

\* depth never undercounts the open scopes of a thread, outside the reset: so
\* the lock is not given back early (state.rs, exit_scope).
DepthCovers(t) == pc[t] # "resetting" => depth[t] >= OpenRecords(t)

DepthCoversOpenRecords == \A t \in Threads : DepthCovers(t)

\* The assertions of the code: the mutex is not held at depth 0
\* (acquire_lock_if_needed, "ScopedEnv depth desynchronised"), is held while
\* variables are applied, and when depth returns to 0 the stack is empty and
\* the mutex guard present (the two debug_asserts of release_outermost_lock).
CodeAssertions ==
  \A t \in Threads :
    /\ (depth[t] = 0 /\ pc[t] \in {"run", "blocked"}) => holder # t
    /\ pc[t] = "applying" => holder = t
    /\ (pc[t] = "restoring" /\ ~TopFinished(t) /\ depth[t] = 0)
         => (stack[t] = << >> /\ holder = t)

\* Undoing the records of t, the draft included, would give `target`: for each
\* variable, the record lowest in the stack that saved it has the last word.
UndoLeadsTo(t, target) ==
  \A k \in Keys :
    \/ \E i \in DOMAIN stack[t] :
         /\ stack[t][i].saved[k] = target[k]
         /\ \A h \in 1..(i - 1) : stack[t][h].saved[k] = Untouched
    \/ /\ \A i \in DOMAIN stack[t] : stack[t][i].saved[k] = Untouched
       /\ \/ draft[t][k] = target[k]
          \/ draft[t][k] = Untouched /\ env[k] = target[k]

\* Whatever is applied, nested, and dropped in whatever order, what remains to
\* be undone leads back to the host's environment (env/mod.rs, "environment
\* restoration still occurs in reverse order").
UnwindsToHost ==
  \A t \in Threads : holder = t => UndoLeadsTo(t, HostEnv)

\* Variables change only in steps that leave ENV_LOCK with its holder.
WritesUnderLock ==
  [][env' # env => holder' # NoThread /\ holder \in {holder', NoThread}]_vars

\* While a thread keeps ENV_LOCK, what its undo records lead back to does not
\* change, however guards are dropped, leaked or dropped twice; only a panic
\* inside apply_env_vars loses it.
BaseOnlyLostToPanic ==
  [][\A t \in Threads :
       (holder = t /\ holder' = t /\ (pc[t] = "applying" => ~panicking'[t]))
         => UnwindTo(1, Records(t), env)' = UnwindTo(1, Records(t), env)]_vars

-----------------------------------------------------------------------------
(* The inductive strengthenings the proofs use.                            *)

\* How pc, depth, the stack and the mutex of one thread go together; it holds
\* under every fault.
ThreadProtocol(t) ==
  /\ pc[t] \in {"applying", "restoring"} => holder = t
  /\ depth[t] > 0 /\ pc[t] # "resetting" => holder = t
  /\ stack[t] # << >> => holder = t
  /\ depth[t] = 0 /\ pc[t] \in {"run", "blocked", "exited"} => holder # t
  /\ pc[t] \in {"blocked", "exited"} => depth[t] = 0
  /\ pc[t] \in {"blocked", "applying"} => Len(stack[t]) < MaxScopes
  /\ pc[t] \in {"run", "applying"} => ~TopFinished(t)
  /\ pc[t] # "applying" => draft[t] = NothingSaved

LockProtocol == \A t \in Threads : ThreadProtocol(t)

ProtocolInv == TypeOK /\ LockProtocol /\ DepthCoversOpenRecords

\* A record is open only as long as its thread has a guard with its index: so one
\* that no guard is left for will be undone.  Only a leaked guard breaks that.
OpenIsGuarded == \A t \in Threads : OpenIn(stack[t]) \subseteq LiveIndices(t)

RestoreInv == ProtocolInv /\ OpenIsGuarded /\ UnwindsToHost /\ HostEnvWhenUnlocked

\* Without faults, the guards a thread has are exactly its open records, and
\* force_restore_and_reset is never reached.
GuardsMatch(t) ==
  /\ pc[t] # "resetting"
  /\ \A i \in 1..MaxScopes :
       live[t][i] = IF i \in OpenIn(stack[t]) THEN 1 ELSE 0
  /\ OpenIn(stack[t]) \subseteq 1..MaxScopes

GuardsMatchRecords == \A t \in Threads : GuardsMatch(t)

CleanInv == RestoreInv /\ GuardsMatchRecords

-----------------------------------------------------------------------------
(* Liveness.                                                               *)

\* A call into ScopedEnv runs to its end, lock() returns once the mutex stays
\* free, and whoever has a guard drops it in the end.
Fairness ==
  \A t \in Threads :
    /\ WF_vars(AcquireLock(t))
    /\ WF_vars(PushScope(t))
    /\ WF_vars(RestoreFinishedScope(t))
    /\ WF_vars(ReleaseOutermostLock(t))
    /\ WF_vars(RestoreAnyScope(t))
    /\ WF_vars(ResetDepthAndUnlock(t))
    /\ WF_vars(Caught(t))
    /\ \A i \in 1..MaxScopes : SF_vars(DropGuard(t, i))

FairSpec == Spec /\ Fairness

\* A holder gives ENV_LOCK back once its guards are dropped, in any order and
\* through panics too.
LockIsReleased == \A t \in Threads : holder = t ~> holder # t
=============================================================================
