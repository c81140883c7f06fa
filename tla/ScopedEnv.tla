------------------------------ MODULE ScopedEnv ------------------------------
(***************************************************************************)
(* The scoped process environment of the crate (src/env/): a process-wide  *)
(* mutex ENV_LOCK, and in each thread a ThreadState {depth, lock, stack}.  *)
(* A ScopedEnv guard is an index into its thread's stack; guards may be    *)
(* dropped in any order, and an undo record is replayed only when every    *)
(* record above it has been.                                               *)
(*                                                                         *)
(* ThreadState.lock is Some(_) exactly when holder is the thread.  A scope *)
(* saves each variable it touches; Vec<(key, previous)> is abstracted to   *)
(* the value each key had before the scope first touched it, which is what *)
(* replaying the vector backwards leaves behind.                           *)
(***************************************************************************)
EXTENDS Naturals, Sequences, FiniteSets

CONSTANTS
  Threads,     \* threads of the test process
  Keys,        \* names of environment variables
  Values,      \* what a variable can be; a removed variable is one of them
  HostEnv,     \* the environment the process was started with
  NoThread,    \* ENV_LOCK is free
  Untouched,   \* a scope has not saved this variable
  MaxScopes,   \* bound: scopes a thread may have at once
  Faults       \* what may go wrong: see FaultKinds

\* "leak": a guard is forgotten (the shared test clusters do this);
\* "invalid_key": a caller passes a variable name that is rejected;
\* "stray_exit": exit_scope is called with an index of no guard.
FaultKinds == {"leak", "invalid_key", "stray_exit"}

ASSUME ConstantsAssumption ==
  /\ HostEnv \in [Keys -> Values]
  /\ NoThread \notin Threads
  /\ Untouched \notin Values
  /\ MaxScopes \in Nat
  /\ Faults \subseteq FaultKinds

VARIABLES
  env,        \* the process environment
  holder,     \* the thread whose ThreadState holds the guard of ENV_LOCK
  poisoned,   \* ENV_LOCK's poison flag
  pc,         \* where each thread is
  depth,      \* ThreadState.depth
  stack,      \* ThreadState.stack
  draft,      \* the undo record apply_env_vars is filling
  live,       \* how many undropped guards of the thread have each index
  panicking   \* the thread is unwinding

vars == <<env, holder, poisoned, pc, depth, stack, draft, live, panicking>>

Saved == [Keys -> Values \union {Untouched}]
Scope == [saved : Saved, finished : BOOLEAN]
NothingSaved == [k \in Keys |-> Untouched]

\* "run": outside ScopedEnv; "blocked": in ENV_LOCK.lock(); "applying": in
\* apply_env_vars; "restoring": in exit_scope after the index was accepted;
\* "resetting": in force_restore_and_reset; "exited": the thread has ended.
PCs == {"run", "blocked", "applying", "restoring", "resetting", "exited"}

TypeOK ==
  /\ env \in [Keys -> Values]
  /\ holder \in Threads \union {NoThread}
  /\ poisoned \in BOOLEAN
  /\ pc \in [Threads -> PCs]
  /\ depth \in [Threads -> Nat]
  /\ stack \in [Threads -> Seq(Scope)]
  /\ draft \in [Threads -> Saved]
  /\ live \in [Threads -> [1..MaxScopes -> Nat]]
  /\ panicking \in [Threads -> BOOLEAN]

Init ==
  /\ env = HostEnv
  /\ holder = NoThread
  /\ poisoned = FALSE
  /\ pc = [t \in Threads |-> "run"]
  /\ depth = [t \in Threads |-> 0]
  /\ stack = [t \in Threads |-> << >>]
  /\ draft = [t \in Threads |-> NothingSaved]
  /\ live = [t \in Threads |-> [i \in 1..MaxScopes |-> 0]]
  /\ panicking = [t \in Threads |-> FALSE]

-----------------------------------------------------------------------------
(* Helpers.                                                                *)

Goto(t, label) == pc' = [pc EXCEPT ![t] = label]

\* restore_saved: put back what one undo record saved.
RestoreSaved(e, saved) ==
  [k \in Keys |-> IF saved[k] = Untouched THEN e[k] ELSE saved[k]]

\* The record at the top of t's stack exists and belongs to a dropped guard.
TopFinished(t) ==
  /\ stack[t] # << >>
  /\ stack[t][Len(stack[t])].finished

\* Dropping the MutexGuard: poisons when the thread is unwinding.
Unlock(t) ==
  /\ holder' = IF holder = t THEN NoThread ELSE holder
  /\ poisoned' = (poisoned \/ (holder = t /\ panicking[t]))

\* The indices some undropped guard of t has.
LiveIndices(t) == {i \in 1..MaxScopes : live[t][i] > 0}

\* Bound on the next scope t enters: its record, and the guards its index has.
RoomForScope(t) ==
  /\ Len(stack[t]) < MaxScopes
  /\ live[t][Len(stack[t]) + 1] < MaxScopes

-----------------------------------------------------------------------------
(* Entering a scope: ScopedEnv::apply.                                     *)

\* acquire_lock_if_needed at depth 0: clear a poisoned mutex, then lock().
EnterOutermost(t) ==
  /\ pc[t] = "run" /\ ~panicking[t]
  /\ depth[t] = 0
  /\ RoomForScope(t)
  /\ poisoned' = FALSE
  /\ Goto(t, "blocked")
  /\ UNCHANGED <<env, holder, depth, stack, draft, live, panicking>>

\* Mutant: the MutexGuard is dropped at once instead of kept in the state.
AcquireLockAndForget(t) ==
  /\ pc[t] = "blocked"
  /\ holder = NoThread
  /\ depth' = [depth EXCEPT ![t] = 1]
  /\ Goto(t, "applying")
  /\ UNCHANGED <<env, holder, poisoned, stack, draft, live, panicking>>

\* lock() returns; a poison set meanwhile is ignored (into_inner).
AcquireLock(t) ==
  /\ pc[t] = "blocked"
  /\ holder = NoThread
  /\ holder' = t
  /\ depth' = [depth EXCEPT ![t] = 1]
  /\ Goto(t, "applying")
  /\ UNCHANGED <<env, poisoned, stack, draft, live, panicking>>

\* Mutant: only the outermost scope is counted.
EnterNestedUncounted(t) ==
  /\ pc[t] = "run" /\ ~panicking[t]
  /\ depth[t] > 0
  /\ RoomForScope(t)
  /\ Goto(t, "applying")
  /\ UNCHANGED <<env, holder, poisoned, depth, stack, draft, live, panicking>>

\* A nested scope of the same thread does not lock again.
EnterNested(t) ==
  /\ pc[t] = "run" /\ ~panicking[t]
  /\ depth[t] > 0
  /\ depth[t] < MaxScopes /\ RoomForScope(t)
  /\ depth' = [depth EXCEPT ![t] = @ + 1]
  /\ Goto(t, "applying")
  /\ UNCHANGED <<env, holder, poisoned, stack, draft, live, panicking>>

\* Mutant: the saved values are replayed forwards, so the last one wins.
ApplySingleVarKeepLast(t, k, v) ==
  /\ pc[t] = "applying"
  /\ env' = [env EXCEPT ![k] = v]
  /\ draft' = [draft EXCEPT ![t][k] = env[k]]
  /\ UNCHANGED <<holder, poisoned, pc, depth, stack, live, panicking>>

\* Mutant: a variable an enclosing scope has saved is not saved again.
ApplySingleVarSaveOnce(t, k, v) ==
  /\ pc[t] = "applying"
  /\ env' = [env EXCEPT ![k] = v]
  /\ draft' = [draft EXCEPT ![t][k] =
                 IF \A i \in DOMAIN stack[t] : stack[t][i].saved[k] = Untouched
                 THEN IF @ = Untouched THEN env[k] ELSE @
                 ELSE Untouched]
  /\ UNCHANGED <<holder, poisoned, pc, depth, stack, live, panicking>>

\* One round of the loop in apply_env_vars, for a key that passes validation.
ApplySingleVar(t, k, v) ==
  /\ pc[t] = "applying"
  /\ env' = [env EXCEPT ![k] = v]
  /\ draft' = [draft EXCEPT ![t][k] = IF @ = Untouched THEN env[k] ELSE @]
  /\ UNCHANGED <<holder, poisoned, pc, depth, stack, live, panicking>>

\* validate_env_key panics: the record being filled is lost with the frame,
\* while depth, the lock and the variables already set stay as they are.
RejectKey(t) ==
  /\ "invalid_key" \in Faults
  /\ pc[t] = "applying"
  /\ draft' = [draft EXCEPT ![t] = NothingSaved]
  /\ panicking' = [panicking EXCEPT ![t] = TRUE]
  /\ Goto(t, "run")
  /\ UNCHANGED <<env, holder, poisoned, depth, stack, live>>

\* The record is pushed and its index becomes the caller's guard.
PushScope(t) ==
  /\ pc[t] = "applying"
  /\ stack' = [stack EXCEPT ![t] =
                 Append(@, [saved |-> draft[t], finished |-> FALSE])]
  /\ live' = [live EXCEPT ![t][Len(stack[t]) + 1] = @ + 1]
  /\ draft' = [draft EXCEPT ![t] = NothingSaved]
  /\ Goto(t, "run")
  /\ UNCHANGED <<env, holder, poisoned, depth, panicking>>

-----------------------------------------------------------------------------
(* Leaving a scope: Drop for ScopedEnv.                                    *)

\* Mutant: depth is decremented without looking whether it is zero.
ExitScopeUnderflow(t, i) ==
  LET accepted == i \in DOMAIN stack[t] /\ ~stack[t][i].finished
  IN /\ depth' = [depth EXCEPT ![t] = @ - 1]
     /\ IF accepted THEN stack' = [stack EXCEPT ![t][i].finished = TRUE]
                    ELSE UNCHANGED stack
     /\ Goto(t, IF accepted THEN "restoring" ELSE "resetting")
     /\ UNCHANGED <<env, holder, poisoned, draft, panicking>>

\* Mutant: a refused index is ignored once depth has been decremented.
ExitScopeRefusalIgnored(t, i) ==
  LET accepted == /\ depth[t] > 0
                  /\ i \in DOMAIN stack[t]
                  /\ ~stack[t][i].finished
  IN /\ depth' = [depth EXCEPT ![t] = IF @ = 0 THEN 0 ELSE @ - 1]
     /\ IF accepted THEN stack' = [stack EXCEPT ![t][i].finished = TRUE]
                    ELSE UNCHANGED stack
     /\ Goto(t, IF accepted THEN "restoring" ELSE "run")
     /\ UNCHANGED <<env, holder, poisoned, draft, panicking>>

\* exit_scope up to the point where the index is accepted or refused.
ExitScope(t, i) ==
  LET accepted == /\ depth[t] > 0
                  /\ i \in DOMAIN stack[t]
                  /\ ~stack[t][i].finished
  IN /\ depth' = [depth EXCEPT ![t] = IF @ = 0 THEN 0 ELSE @ - 1]
     /\ \/ /\ accepted
           /\ stack' = [stack EXCEPT ![t][i].finished = TRUE]
           /\ Goto(t, "restoring")
        \/ /\ ~accepted
           /\ Goto(t, "resetting")
           /\ UNCHANGED stack
     /\ UNCHANGED <<env, holder, poisoned, draft, panicking>>

DropGuard(t, i) ==
  /\ pc[t] = "run"
  /\ live[t][i] > 0
  /\ live' = [live EXCEPT ![t][i] = @ - 1]
  /\ ExitScope(t, i)

StrayExit(t, i) ==
  /\ "stray_exit" \in Faults
  /\ pc[t] = "run"
  /\ ExitScope(t, i)
  /\ UNCHANGED live

\* Mutant: only the records of dropped guards are replayed.
PopScopeIfFinished(t) ==
  LET top == stack[t][Len(stack[t])]
  IN /\ holder \in {t, NoThread}
     /\ holder' = t
     /\ env' = IF top.finished THEN RestoreSaved(env, top.saved) ELSE env
     /\ stack' = [stack EXCEPT ![t] = SubSeq(@, 1, Len(@) - 1)]

\* Pop the top record and undo it, the lock being taken first if the thread
\* does not have it (ensure_lock_for_restore).
PopScope(t) ==
  /\ holder \in {t, NoThread}
  /\ holder' = t
  /\ env' = RestoreSaved(env, stack[t][Len(stack[t])].saved)
  /\ stack' = [stack EXCEPT ![t] = SubSeq(@, 1, Len(@) - 1)]

\* restore_finished_scopes: one round of its loop.
RestoreFinishedScope(t) ==
  /\ pc[t] = "restoring"
  /\ TopFinished(t)
  /\ PopScope(t)
  /\ UNCHANGED <<poisoned, pc, depth, draft, live, panicking>>

\* Mutant: the lock is given back without waiting for the restoration.
ReleaseBeforeRestoring(t) ==
  /\ pc[t] = "restoring"
  /\ \/ depth[t] = 0 /\ Unlock(t)
     \/ depth[t] > 0 /\ UNCHANGED <<holder, poisoned>>
  /\ Goto(t, "run")
  /\ UNCHANGED <<env, depth, stack, draft, live, panicking>>

\* Mutant: the lock is not given back while the thread unwinds.
ReleaseUnlessPanicking(t) ==
  /\ pc[t] = "restoring"
  /\ ~TopFinished(t)
  /\ IF depth[t] = 0 /\ ~panicking[t] THEN Unlock(t)
                                      ELSE UNCHANGED <<holder, poisoned>>
  /\ Goto(t, "run")
  /\ UNCHANGED <<env, depth, stack, draft, live, panicking>>

\* exit_scope returns, giving the lock back when the outermost scope is gone.
ReleaseOutermostLock(t) ==
  /\ pc[t] = "restoring"
  /\ ~TopFinished(t)
  /\ \/ depth[t] = 0 /\ Unlock(t)
     \/ depth[t] > 0 /\ UNCHANGED <<holder, poisoned>>
  /\ Goto(t, "run")
  /\ UNCHANGED <<env, depth, stack, draft, live, panicking>>

\* force_restore_and_reset, restore_all_scopes: undo every record, finished or
\* not, one per step.
RestoreAnyScope(t) ==
  /\ pc[t] = "resetting"
  /\ stack[t] # << >>
  /\ PopScope(t)
  /\ UNCHANGED <<poisoned, pc, depth, draft, live, panicking>>

\* Mutant: depth is reset and the lock kept.
ResetDepthOnly(t) ==
  /\ pc[t] = "resetting"
  /\ stack[t] = << >>
  /\ depth' = [depth EXCEPT ![t] = 0]
  /\ Goto(t, "run")
  /\ UNCHANGED <<env, holder, poisoned, stack, draft, live, panicking>>

\* reset_depth_and_unlock.
ResetDepthAndUnlock(t) ==
  /\ pc[t] = "resetting"
  /\ stack[t] = << >>
  /\ depth' = [depth EXCEPT ![t] = 0]
  /\ Unlock(t)
  /\ Goto(t, "run")
  /\ UNCHANGED <<env, stack, draft, live, panicking>>

-----------------------------------------------------------------------------
(* What the program around the guards may do.                              *)

\* mem::forget of a guard: its exit_scope never runs.
LeakGuard(t, i) ==
  /\ "leak" \in Faults
  /\ pc[t] = "run" /\ ~panicking[t]
  /\ live[t][i] > 0
  /\ live' = [live EXCEPT ![t][i] = @ - 1]
  /\ UNCHANGED <<env, holder, poisoned, pc, depth, stack, draft, panicking>>

\* A test body panics; unwinding drops its guards and then stops.
Panic(t) ==
  /\ pc[t] = "run" /\ ~panicking[t]
  /\ LiveIndices(t) # {}
  /\ panicking' = [panicking EXCEPT ![t] = TRUE]
  /\ UNCHANGED <<env, holder, poisoned, pc, depth, stack, draft, live>>

Caught(t) ==
  /\ pc[t] = "run" /\ panicking[t]
  /\ LiveIndices(t) = {}
  /\ panicking' = [panicking EXCEPT ![t] = FALSE]
  /\ UNCHANGED <<env, holder, poisoned, pc, depth, stack, draft, live>>

\* The thread ends: THREAD_STATE is destroyed, and with it the mutex guard if
\* it still has one.  Nothing is restored.
ThreadExit(t) ==
  /\ pc[t] = "run" /\ ~panicking[t]
  /\ LiveIndices(t) = {}
  /\ Unlock(t)
  /\ depth' = [depth EXCEPT ![t] = 0]
  /\ stack' = [stack EXCEPT ![t] = << >>]
  /\ Goto(t, "exited")
  /\ UNCHANGED <<env, draft, live, panicking>>

Step(t) ==
  \/ EnterOutermost(t)
  \/ AcquireLock(t)
  \/ EnterNested(t)
  \/ \E k \in Keys, v \in Values : ApplySingleVar(t, k, v)
  \/ RejectKey(t)
  \/ PushScope(t)
  \/ \E i \in 1..MaxScopes : DropGuard(t, i)
  \/ \E i \in 1..(MaxScopes + 1) : StrayExit(t, i)
  \/ RestoreFinishedScope(t)
  \/ ReleaseOutermostLock(t)
  \/ RestoreAnyScope(t)
  \/ ResetDepthAndUnlock(t)
  \/ \E i \in 1..MaxScopes : LeakGuard(t, i)
  \/ Panic(t)
  \/ Caught(t)
  \/ ThreadExit(t)

\* Every thread has ended: the process has nothing left to do.
AllExited == (\A t \in Threads : pc[t] = "exited") /\ UNCHANGED vars

Next == (\E t \in Threads : Step(t)) \/ AllExited

Spec == Init /\ [][Next]_vars
=============================================================================
