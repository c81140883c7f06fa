--------------------------- MODULE ScopedEnvProofs ---------------------------
(***************************************************************************)
(* Theorems about ScopedEnv, for any threads, variables, values and bound. *)
(* The first part holds under every fault: types, the protocol of ENV_LOCK *)
(* and the assertions of the code.  The second is about threads that leak  *)
(* no guard and pass valid names, whatever indices they give back: the     *)
(* host's environment is put back.  The last is about no faults at all:    *)
(* exclusion.                                                              *)
(***************************************************************************)
EXTENDS ScopedEnvProps, FiniteSetTheorems, SequenceTheorems, TLAPS

-----------------------------------------------------------------------------
(* Sequences of records.                                                   *)

\* Popping a record.
LEMMA PopRecord ==
  ASSUME NEW s \in Seq(Scope), s # << >>
  PROVE  /\ Len(s) \in Nat \ {0}
         /\ s[Len(s)] \in Scope
         /\ SubSeq(s, 1, Len(s) - 1) \in Seq(Scope)
         /\ Len(SubSeq(s, 1, Len(s) - 1)) = Len(s) - 1
         /\ \A i \in 1..(Len(s) - 1) : SubSeq(s, 1, Len(s) - 1)[i] = s[i]
<1>1. Len(s) \in Nat \ {0}
  BY EmptySeq
<1>2. \A i \in 1..Len(s) : s[i] \in Scope
  BY ElementOfSeq
<1> DEFINE n == Len(s) - 1
           p == SubSeq(s, 1, n)
<1>3. n \in Nat
  BY <1>1
<1>4. \A i \in 1..n : s[i] \in Scope
  BY <1>1, <1>2
<1> HIDE DEF n, p
<1>5. /\ p \in Seq(Scope)
      /\ Len(p) = IF 1 <= n THEN n - 1 + 1 ELSE 0
      /\ \A i \in 1..(n - 1 + 1) : p[i] = s[1 + i - 1]
  <2>1. 1 \in Int /\ n \in Int
    BY <1>3
  <2>2. QED
    <3>1. \A a, b \in Int : (\A i \in a..b : s[i] \in Scope) =>
             /\ SubSeq(s, a, b) \in Seq(Scope)
             /\ Len(SubSeq(s, a, b)) = IF a <= b THEN b - a + 1 ELSE 0
             /\ \A i \in 1..(b - a + 1) : SubSeq(s, a, b)[i] = s[a + i - 1]
      BY SubSeqProperties
    <3>2. QED
      BY <1>4, <2>1, <3>1, Zenon DEF p
<1>6. Len(p) = n
  BY <1>3, <1>5
<1>7. \A i \in 1..n : p[i] = s[i]
  <2>1. n - 1 + 1 = n /\ \A i \in 1..n : 1 + i - 1 = i
    BY <1>3
  <2>2. QED
    BY <1>5, <2>1, Zenon
<1>8. QED
  BY <1>1, <1>2, <1>5, <1>6, <1>7 DEF n, p

\* Pushing a record.
LEMMA PushRecord ==
  ASSUME NEW s \in Seq(Scope), NEW r \in Scope
  PROVE  /\ Append(s, r) \in Seq(Scope)
         /\ Len(Append(s, r)) = Len(s) + 1
         /\ Append(s, r)[Len(s) + 1] = r
         /\ \A i \in 1..Len(s) : Append(s, r)[i] = s[i]
  OBVIOUS

\* Marking a record finished.
LEMMA MarkRecord ==
  ASSUME NEW s \in Seq(Scope), NEW i \in DOMAIN s
  PROVE  LET m == [s EXCEPT ![i].finished = TRUE]
         IN /\ m \in Seq(Scope)
            /\ Len(m) = Len(s)
            /\ m[i].finished
            /\ m[i].saved = s[i].saved
            /\ \A j \in 1..Len(s) : j # i => m[j] = s[j]
<1> DEFINE r == [s[i] EXCEPT !.finished = TRUE]
           m == [s EXCEPT ![i] = r]
<1>1. i \in 1..Len(s)
  BY LenProperties
<1>2. s[i] \in Scope
  BY <1>1, ElementOfSeq
<1>3. r \in Scope /\ r.finished /\ r.saved = s[i].saved
  BY <1>2 DEF Scope
<1> HIDE DEF r
<1>4. /\ m \in Seq(Scope)
      /\ Len(m) = Len(s)
      /\ \A j \in 1..Len(s) : m[j] = IF j = i THEN r ELSE s[j]
  BY <1>1, <1>3, ExceptSeq
<1>5. m = [s EXCEPT ![i].finished = TRUE]
  BY DEF m, r
<1> HIDE DEF m
<1>6. QED
  BY <1>1, <1>3, <1>4, <1>5

-----------------------------------------------------------------------------
(* Types.                                                                  *)

\* Undoing a record gives an environment.
LEMMA RestoreSavedType ==
  ASSUME NEW e \in [Keys -> Values], NEW saved \in Saved
  PROVE  RestoreSaved(e, saved) \in [Keys -> Values]
  BY DEF RestoreSaved, Saved

\* Popping a record keeps the types of what it changes.
LEMMA PopScopeType ==
  ASSUME TypeOK, NEW t \in Threads, stack[t] # << >>, PopScope(t)
  PROVE  /\ env' \in [Keys -> Values]
         /\ holder' \in Threads \union {NoThread}
         /\ stack' \in [Threads -> Seq(Scope)]
<1>1. stack[t] \in Seq(Scope)
  BY DEF TypeOK
<1>2. /\ stack[t][Len(stack[t])] \in Scope
      /\ SubSeq(stack[t], 1, Len(stack[t]) - 1) \in Seq(Scope)
  BY <1>1, PopRecord
<1>3. stack[t][Len(stack[t])].saved \in Saved
  BY <1>2 DEF Scope
<1>4. env' \in [Keys -> Values]
  BY <1>3, RestoreSavedType DEF PopScope, TypeOK
<1>5. QED
  BY <1>2, <1>4 DEF PopScope, TypeOK

\* exit_scope keeps the types of what it changes.
LEMMA ExitScopeType ==
  ASSUME TypeOK, NEW t \in Threads, NEW i \in Nat, ExitScope(t, i)
  PROVE  /\ depth' \in [Threads -> Nat]
         /\ stack' \in [Threads -> Seq(Scope)]
         /\ pc' \in [Threads -> PCs]
<1>1. depth' \in [Threads -> Nat]
  BY DEF ExitScope, TypeOK
<1>2. CASE stack' = stack /\ Goto(t, "resetting")
  BY <1>1, <1>2 DEF TypeOK, Goto, PCs
<1>3. CASE /\ i \in DOMAIN stack[t]
           /\ stack' = [stack EXCEPT ![t][i].finished = TRUE]
           /\ Goto(t, "restoring")
  <2>1. stack[t] \in Seq(Scope)
    BY DEF TypeOK
  <2>2. [stack[t] EXCEPT ![i].finished = TRUE] \in Seq(Scope)
    BY <1>3, <2>1, MarkRecord, Zenon
  <2>3. QED
    BY <1>1, <1>3, <2>2 DEF TypeOK, Goto, PCs
<1>4. QED
  BY <1>2, <1>3 DEF ExitScope

\* Every step keeps the types.
LEMMA StepType ==
  ASSUME TypeOK, NEW t \in Threads, Step(t)
  PROVE  TypeOK'
<1> USE ConstantsAssumption
<1>1. CASE EnterOutermost(t)
  BY <1>1 DEF EnterOutermost, TypeOK, Goto, PCs
<1>2. CASE AcquireLock(t)
  BY <1>2 DEF AcquireLock, TypeOK, Goto, PCs
<1>3. CASE EnterNested(t)
  <2>1. depth' \in [Threads -> Nat]
    BY <1>3 DEF EnterNested, TypeOK
  <2>2. pc' \in [Threads -> PCs]
    BY <1>3 DEF EnterNested, TypeOK, Goto, PCs
  <2>3. QED
    BY <1>3, <2>1, <2>2 DEF EnterNested, TypeOK
<1>4. ASSUME NEW k \in Keys, NEW v \in Values, ApplySingleVar(t, k, v)
      PROVE  TypeOK'
  BY <1>4 DEF ApplySingleVar, TypeOK, Saved
<1>5. CASE RejectKey(t)
  BY <1>5 DEF RejectKey, TypeOK, Goto, PCs, Saved, NothingSaved
<1>6. CASE PushScope(t)
  <2>1. stack[t] \in Seq(Scope) /\ [saved |-> draft[t], finished |-> FALSE] \in Scope
    BY DEF TypeOK, Scope
  <2>2. Append(stack[t], [saved |-> draft[t], finished |-> FALSE]) \in Seq(Scope)
    BY <2>1, PushRecord
  <2>3. stack' \in [Threads -> Seq(Scope)]
    BY <1>6, <2>2 DEF PushScope, TypeOK
  <2>4. live' \in [Threads -> [1..MaxScopes -> Nat]]
    <3> DEFINE n == Len(stack[t]) + 1
    <3>1. live' = [live EXCEPT ![t][n] = live[t][n] + 1]
      BY <1>6 DEF PushScope
    <3>2. live \in [Threads -> [1..MaxScopes -> Nat]]
      BY DEF TypeOK
    <3> HIDE DEF n
    <3>3. [live[t] EXCEPT ![n] = live[t][n] + 1] \in [1..MaxScopes -> Nat]
      <4>1. live[t] \in [1..MaxScopes -> Nat]
        BY <3>2
      <4>2. CASE n \in 1..MaxScopes
        BY <4>1, <4>2
      <4>3. CASE n \notin 1..MaxScopes
        BY <4>1, <4>3
      <4>4. QED
        BY <4>2, <4>3
    <3>4. QED
      BY <3>1, <3>2, <3>3
  <2>5. QED
    BY <1>6, <2>3, <2>4 DEF PushScope, TypeOK, Goto, PCs, NothingSaved, Saved
<1>7. ASSUME NEW i \in 1..MaxScopes, DropGuard(t, i)
      PROVE  TypeOK'
  <2>1. live' \in [Threads -> [1..MaxScopes -> Nat]]
    BY <1>7, SMTT(20) DEF DropGuard, TypeOK
  <2>2. ExitScope(t, i)
    BY <1>7 DEF DropGuard
  <2>3. i \in Nat
    BY <1>7
  <2>4. UNCHANGED <<env, holder, poisoned, draft, panicking>>
    BY <2>2 DEF ExitScope
  <2>5. QED
    BY <2>1, <2>2, <2>3, <2>4, ExitScopeType DEF TypeOK
<1>8. ASSUME NEW i \in 1..(MaxScopes + 1), StrayExit(t, i)
      PROVE  TypeOK'
  <2>1. ExitScope(t, i) /\ live' = live
    BY <1>8 DEF StrayExit
  <2>2. i \in Nat
    BY <1>8
  <2>3. UNCHANGED <<env, holder, poisoned, draft, panicking>>
    BY <2>1 DEF ExitScope
  <2>4. QED
    BY <2>1, <2>2, <2>3, ExitScopeType DEF TypeOK
<1>9. CASE RestoreFinishedScope(t)
  <2>1. stack[t] # << >> /\ PopScope(t)
    BY <1>9 DEF RestoreFinishedScope, TopFinished
  <2>2. QED
    BY <1>9, <2>1, PopScopeType DEF RestoreFinishedScope, TypeOK
<1>10. CASE ReleaseOutermostLock(t)
  BY <1>10 DEF ReleaseOutermostLock, Unlock, TypeOK, Goto, PCs
<1>11. CASE RestoreAnyScope(t)
  <2>1. stack[t] # << >> /\ PopScope(t)
    BY <1>11 DEF RestoreAnyScope
  <2>2. QED
    BY <1>11, <2>1, PopScopeType DEF RestoreAnyScope, TypeOK
<1>12. CASE ResetDepthAndUnlock(t)
  BY <1>12 DEF ResetDepthAndUnlock, Unlock, TypeOK, Goto, PCs
<1>13. ASSUME NEW i \in 1..MaxScopes, LeakGuard(t, i)
       PROVE  TypeOK'
  BY <1>13, SMTT(20) DEF LeakGuard, TypeOK
<1>14. CASE Panic(t)
  BY <1>14 DEF Panic, TypeOK
<1>15. CASE Caught(t)
  BY <1>15 DEF Caught, TypeOK
<1>16. CASE ThreadExit(t)
  <2>1. << >> \in Seq(Scope)
    BY EmptySeq
  <2>2. QED
    BY <1>16, <2>1 DEF ThreadExit, Unlock, TypeOK, Goto, PCs
<1>17. QED
  BY <1>1, <1>2, <1>3, <1>4, <1>5, <1>6, <1>7, <1>8, <1>9, <1>10, <1>11,
     <1>12, <1>13, <1>14, <1>15, <1>16 DEF Step

\* The initial state is well typed.
LEMMA InitType == Init => TypeOK
<1>1. << >> \in Seq(Scope)
  BY EmptySeq
<1>2. NothingSaved \in Saved
  BY DEF NothingSaved, Saved
<1>3. ASSUME Init
      PROVE  /\ stack \in [Threads -> Seq(Scope)]
             /\ draft \in [Threads -> Saved]
             /\ live \in [Threads -> [1..MaxScopes -> Nat]]
  BY <1>1, <1>2, <1>3 DEF Init
<1>4. ASSUME Init
      PROVE  /\ env \in [Keys -> Values]
             /\ holder \in Threads \union {NoThread}
             /\ pc \in [Threads -> PCs]
             /\ depth \in [Threads -> Nat]
             /\ panicking \in [Threads -> BOOLEAN]
             /\ poisoned \in BOOLEAN
  BY <1>4, ConstantsAssumption DEF Init, PCs
<1>5. QED
  BY <1>3, <1>4 DEF TypeOK

\* The state of the environment, the mutex and the thread states keeps its
\* type, under every fault.
THEOREM TypeCorrect == Spec => []TypeOK
<1>1. Init => TypeOK
  BY InitType
<1>2. TypeOK /\ [Next]_vars => TypeOK'
  <2>1. ASSUME TypeOK, UNCHANGED vars
        PROVE  TypeOK'
    BY <2>1 DEF TypeOK, vars
  <2>2. QED
    BY <2>1, StepType DEF Next, AllExited
<1>3. QED
  BY <1>1, <1>2, PTL DEF Spec

-----------------------------------------------------------------------------
(* Counting open records.                                                  *)

\* The open records of a stack are finitely many.
LEMMA OpenInFinite ==
  ASSUME NEW s \in Seq(Scope)
  PROVE  /\ OpenIn(s) \subseteq 1..Len(s)
         /\ IsFiniteSet(OpenIn(s))
         /\ Cardinality(OpenIn(s)) \in Nat
<1>1. OpenIn(s) \subseteq 1..Len(s) /\ Len(s) \in Nat
  BY LenProperties DEF OpenIn
<1>2. IsFiniteSet(1..Len(s))
  BY <1>1, FS_Interval
<1>3. QED
  BY <1>1, <1>2, FS_Subset, FS_CardinalityType

\* A pushed record is one more open record.
LEMMA OpenInPush ==
  ASSUME NEW s \in Seq(Scope), NEW r \in Scope, ~r.finished
  PROVE  /\ OpenIn(Append(s, r)) = OpenIn(s) \union {Len(s) + 1}
         /\ Cardinality(OpenIn(Append(s, r))) = Cardinality(OpenIn(s)) + 1
<1> DEFINE a == Append(s, r)
<1>1. /\ a \in Seq(Scope)
      /\ Len(a) = Len(s) + 1
      /\ a[Len(s) + 1] = r
      /\ \A i \in 1..Len(s) : a[i] = s[i]
  BY PushRecord
<1> HIDE DEF a
<1>2. DOMAIN a = 1..Len(a) /\ DOMAIN s = 1..Len(s) /\ Len(s) \in Nat
  BY <1>1, LenProperties
<1>3. OpenIn(a) = OpenIn(s) \union {Len(s) + 1}
  BY <1>1, <1>2 DEF OpenIn
<1>4. IsFiniteSet(OpenIn(s)) /\ Len(s) + 1 \notin OpenIn(s)
  BY <1>2, OpenInFinite
<1>5. Cardinality(OpenIn(a)) = Cardinality(OpenIn(s)) + 1
  BY <1>3, <1>4, FS_AddElement
<1>6. QED
  BY <1>3, <1>5 DEF a

\* A finished record is one open record fewer.
LEMMA OpenInMark ==
  ASSUME NEW s \in Seq(Scope), NEW i \in OpenIn(s)
  PROVE  LET m == [s EXCEPT ![i].finished = TRUE]
         IN /\ OpenIn(m) = OpenIn(s) \ {i}
            /\ Cardinality(OpenIn(m)) = Cardinality(OpenIn(s)) - 1
<1> DEFINE m == [s EXCEPT ![i].finished = TRUE]
<1>1. i \in DOMAIN s
  BY DEF OpenIn
<1>2. /\ m \in Seq(Scope)
      /\ Len(m) = Len(s)
      /\ m[i].finished
      /\ \A j \in 1..Len(s) : j # i => m[j] = s[j]
  BY <1>1, MarkRecord
<1> HIDE DEF m
<1>3. DOMAIN m = 1..Len(m) /\ DOMAIN s = 1..Len(s)
  BY <1>2, LenProperties
<1>4. OpenIn(m) = OpenIn(s) \ {i}
  BY <1>2, <1>3 DEF OpenIn
<1>5. IsFiniteSet(OpenIn(s))
  BY OpenInFinite
<1>6. Cardinality(OpenIn(m)) = Cardinality(OpenIn(s)) - 1
  BY <1>4, <1>5, FS_RemoveElement
<1>7. QED
  BY <1>4, <1>6 DEF m

\* Popping a record opens none.
LEMMA OpenInPopAny ==
  ASSUME NEW s \in Seq(Scope), s # << >>
  PROVE  OpenIn(SubSeq(s, 1, Len(s) - 1)) \subseteq OpenIn(s)
<1> DEFINE p == SubSeq(s, 1, Len(s) - 1)
<1>1. /\ Len(s) \in Nat \ {0}
      /\ p \in Seq(Scope)
      /\ Len(p) = Len(s) - 1
      /\ \A i \in 1..(Len(s) - 1) : p[i] = s[i]
  BY PopRecord
<1> HIDE DEF p
<1>2. DOMAIN p = 1..Len(p) /\ DOMAIN s = 1..Len(s)
  BY <1>1, LenProperties
<1>3. OpenIn(p) \subseteq OpenIn(s)
  BY <1>1, <1>2 DEF OpenIn
<1>4. QED
  BY <1>3 DEF p

\* Popping a finished record leaves the open ones.
LEMMA OpenInPop ==
  ASSUME NEW s \in Seq(Scope), s # << >>, s[Len(s)].finished
  PROVE  OpenIn(SubSeq(s, 1, Len(s) - 1)) = OpenIn(s)
<1> DEFINE p == SubSeq(s, 1, Len(s) - 1)
<1>1. /\ Len(s) \in Nat \ {0}
      /\ p \in Seq(Scope)
      /\ Len(p) = Len(s) - 1
      /\ \A i \in 1..(Len(s) - 1) : p[i] = s[i]
  BY PopRecord
<1> HIDE DEF p
<1>2. DOMAIN p = 1..Len(p) /\ DOMAIN s = 1..Len(s)
  BY <1>1, LenProperties
<1>3. OpenIn(p) = OpenIn(s)
  BY <1>1, <1>2 DEF OpenIn
<1>4. QED
  BY <1>3 DEF p

-----------------------------------------------------------------------------
(* The protocol of the mutex.                                              *)

\* A step of one thread leaves the other threads' states alone, and takes the
\* mutex from none of them.
LEMMA StepFrame ==
  ASSUME TypeOK, NEW t \in Threads, Step(t), NEW u \in Threads, u # t
  PROVE  /\ pc'[u] = pc[u] /\ depth'[u] = depth[u] /\ stack'[u] = stack[u]
         /\ draft'[u] = draft[u] /\ live'[u] = live[u]
         /\ holder' = u <=> holder = u
<1> USE ConstantsAssumption
<1> DEFINE Frame == /\ pc'[u] = pc[u] /\ depth'[u] = depth[u]
                    /\ stack'[u] = stack[u] /\ draft'[u] = draft[u]
                    /\ live'[u] = live[u]
                    /\ holder' = u <=> holder = u
<1>1. CASE EnterOutermost(t)
  BY <1>1 DEF EnterOutermost, TypeOK, Goto
<1>2. CASE AcquireLock(t)
  BY <1>2 DEF AcquireLock, TypeOK, Goto
<1>3. CASE EnterNested(t)
  BY <1>3 DEF EnterNested, TypeOK, Goto
<1>4. ASSUME NEW k \in Keys, NEW v \in Values, ApplySingleVar(t, k, v)
      PROVE  Frame
  BY <1>4 DEF ApplySingleVar, TypeOK
<1>5. CASE RejectKey(t)
  BY <1>5 DEF RejectKey, TypeOK, Goto
<1>6. CASE PushScope(t)
  BY <1>6 DEF PushScope, TypeOK, Goto
<1>7. ASSUME NEW i \in 1..MaxScopes, DropGuard(t, i)
      PROVE  Frame
  BY <1>7 DEF DropGuard, ExitScope, TypeOK, Goto
<1>8. ASSUME NEW i \in 1..(MaxScopes + 1), StrayExit(t, i)
      PROVE  Frame
  BY <1>8 DEF StrayExit, ExitScope, TypeOK, Goto
<1>9. CASE RestoreFinishedScope(t)
  BY <1>9 DEF RestoreFinishedScope, PopScope, TypeOK
<1>10. CASE ReleaseOutermostLock(t)
  BY <1>10 DEF ReleaseOutermostLock, Unlock, TypeOK, Goto
<1>11. CASE RestoreAnyScope(t)
  BY <1>11 DEF RestoreAnyScope, PopScope, TypeOK
<1>12. CASE ResetDepthAndUnlock(t)
  BY <1>12 DEF ResetDepthAndUnlock, Unlock, TypeOK, Goto
<1>13. ASSUME NEW i \in 1..MaxScopes, LeakGuard(t, i)
       PROVE  Frame
  BY <1>13 DEF LeakGuard, TypeOK
<1>14. CASE Panic(t)
  BY <1>14 DEF Panic, TypeOK
<1>15. CASE Caught(t)
  BY <1>15 DEF Caught, TypeOK
<1>16. CASE ThreadExit(t)
  BY <1>16 DEF ThreadExit, Unlock, TypeOK, Goto
<1>17. QED
  BY <1>1, <1>2, <1>3, <1>4, <1>5, <1>6, <1>7, <1>8, <1>9, <1>10, <1>11,
     <1>12, <1>13, <1>14, <1>15, <1>16 DEF Step

\* One thread's part of the inductive invariant.
Good(t) == ThreadProtocol(t) /\ DepthCovers(t)

\* Counting with pc and the stack as they are.
LEMMA StackFacts ==
  ASSUME TypeOK, NEW t \in Threads
  PROVE  /\ stack[t] \in Seq(Scope)
         /\ depth[t] \in Nat
         /\ pc[t] \in PCs
         /\ Len(stack[t]) \in Nat
         /\ Cardinality(OpenIn(stack[t])) \in Nat
         /\ OpenIn(stack[t]) \subseteq 1..Len(stack[t])
         /\ OpenIn(<< >>) = {}
         /\ Cardinality(OpenIn(<< >>)) = 0
<1>1. stack[t] \in Seq(Scope) /\ depth[t] \in Nat /\ pc[t] \in PCs
  BY DEF TypeOK
<1>2. OpenIn(<< >>) = {}
  BY DEF OpenIn
<1>3. Cardinality(OpenIn(<< >>)) = 0
  BY <1>2, FS_EmptySet
<1>4. QED
  BY <1>1, <1>2, <1>3, OpenInFinite, LenProperties

\* A thread whose records are all finished, the top one popped, has none.
LEMMA NoOpenMeansEmpty ==
  ASSUME TypeOK, NEW t \in Threads, ~TopFinished(t),
         Cardinality(OpenIn(stack[t])) = 0
  PROVE  stack[t] = << >>
<1>1. stack[t] \in Seq(Scope) /\ IsFiniteSet(OpenIn(stack[t]))
  BY OpenInFinite DEF TypeOK
<1>2. OpenIn(stack[t]) = {}
  BY <1>1, FS_EmptySet
<1>3. SUFFICES ASSUME stack[t] # << >> PROVE FALSE
  OBVIOUS
<1>4. Len(stack[t]) \in DOMAIN stack[t]
  BY <1>1, <1>3, EmptySeq, LenProperties
<1>5. QED
  BY <1>2, <1>3, <1>4 DEF OpenIn, TopFinished

\* Entering: the lock is taken at depth 0, and every scope adds to depth.
LEMMA EnterGood ==
  ASSUME TypeOK, NEW t \in Threads, Good(t),
         \/ EnterOutermost(t) \/ AcquireLock(t) \/ EnterNested(t)
         \/ \E k \in Keys, v \in Values : ApplySingleVar(t, k, v)
         \/ RejectKey(t) \/ PushScope(t)
  PROVE  Good(t)'
<1> USE ConstantsAssumption, StackFacts
    DEF Good, ThreadProtocol, DepthCovers, OpenRecords, TopFinished
<1>1. CASE EnterOutermost(t)
  BY <1>1 DEF EnterOutermost, RoomForScope, Goto, TypeOK
<1>2. CASE AcquireLock(t)
  BY <1>2, SMTT(20) DEF AcquireLock, Goto, TypeOK
<1>3. CASE EnterNested(t)
  <2>1. /\ pc[t] = "run" /\ pc'[t] = "applying"
        /\ depth[t] > 0 /\ depth'[t] = depth[t] + 1
        /\ Len(stack[t]) < MaxScopes
        /\ stack' = stack /\ holder' = holder /\ draft' = draft
    BY <1>3 DEF EnterNested, RoomForScope, Goto, TypeOK
  <2>2. QED
    BY <2>1
<1>4. ASSUME NEW k \in Keys, NEW v \in Values, ApplySingleVar(t, k, v)
      PROVE  Good(t)'
  BY <1>4 DEF ApplySingleVar, TypeOK
<1>5. CASE RejectKey(t)
  <2>1. /\ pc[t] = "applying" /\ pc'[t] = "run"
        /\ depth' = depth /\ draft'[t] = NothingSaved
        /\ stack' = stack /\ holder' = holder
    BY <1>5 DEF RejectKey, Goto, TypeOK
  <2>2. QED
    BY <2>1
<1>6. CASE PushScope(t)
  <2> DEFINE r == [saved |-> draft[t], finished |-> FALSE]
  <2>1. r \in Scope /\ ~r.finished
    BY DEF TypeOK, Scope
  <2>2. /\ stack'[t] = Append(stack[t], r)
        /\ pc'[t] = "run" /\ pc[t] = "applying"
        /\ depth' = depth /\ holder' = holder
        /\ draft'[t] = NothingSaved
    BY <1>6 DEF PushScope, Goto, TypeOK
  <2>3. ~stack'[t][Len(stack'[t])].finished
    BY <2>1, <2>2, PushRecord
  <2>4. Cardinality(OpenIn(stack'[t])) = Cardinality(OpenIn(stack[t])) + 1
    BY <2>1, <2>2, OpenInPush
  <2>5. QED
    BY <2>2, <2>3, <2>4
<1>7. QED
  BY <1>1, <1>2, <1>3, <1>4, <1>5, <1>6

\* exit_scope: one open record and one unit of depth go together.
LEMMA ExitGood ==
  ASSUME TypeOK, NEW t \in Threads, Good(t), pc[t] = "run",
         NEW i \in Nat, ExitScope(t, i)
  PROVE  Good(t)'
<1> USE StackFacts DEF Good, ThreadProtocol, DepthCovers, OpenRecords
<1>1. CASE /\ depth[t] > 0
           /\ i \in OpenIn(stack[t])
           /\ stack' = [stack EXCEPT ![t][i].finished = TRUE]
           /\ Goto(t, "restoring")
  <2>1. /\ stack'[t] = [stack[t] EXCEPT ![i].finished = TRUE]
        /\ pc'[t] = "restoring"
        /\ depth'[t] = depth[t] - 1
        /\ holder' = holder /\ draft' = draft
    BY <1>1 DEF ExitScope, Goto, TypeOK
  <2>2. Cardinality(OpenIn(stack'[t])) = Cardinality(OpenIn(stack[t])) - 1
    BY <1>1, <2>1, OpenInMark
  <2>3. QED
    BY <1>1, <2>1, <2>2
<1>2. CASE stack' = stack /\ Goto(t, "resetting")
  <2>1. /\ pc'[t] = "resetting"
        /\ stack' = stack /\ holder' = holder /\ draft' = draft
        /\ depth'[t] \in Nat
    BY <1>2, ExitScopeType DEF ExitScope, Goto, TypeOK
  <2>2. QED
    BY <2>1
<1>3. QED
  BY <1>1, <1>2 DEF ExitScope, OpenIn

\* Restoring and resetting: the mutex goes only when the stack is empty.
LEMMA RestoreGood ==
  ASSUME TypeOK, NEW t \in Threads, Good(t),
         \/ RestoreFinishedScope(t) \/ ReleaseOutermostLock(t)
         \/ RestoreAnyScope(t) \/ ResetDepthAndUnlock(t)
  PROVE  Good(t)'
<1> USE ConstantsAssumption, StackFacts
    DEF Good, ThreadProtocol, DepthCovers, OpenRecords
<1>1. CASE RestoreFinishedScope(t)
  <2>1. /\ stack[t] # << >> /\ stack[t][Len(stack[t])].finished
        /\ stack'[t] = SubSeq(stack[t], 1, Len(stack[t]) - 1)
        /\ holder' = t /\ pc' = pc /\ pc[t] = "restoring"
        /\ depth' = depth /\ draft' = draft
    BY <1>1 DEF RestoreFinishedScope, PopScope, TopFinished, TypeOK
  <2>2. OpenIn(stack'[t]) = OpenIn(stack[t])
    BY <2>1, OpenInPop
  <2>3. QED
    BY <2>1, <2>2
<1>2. CASE ReleaseOutermostLock(t)
  <2>1. /\ pc[t] = "restoring" /\ pc'[t] = "run"
        /\ ~TopFinished(t) /\ stack' = stack
        /\ depth' = depth /\ draft' = draft
        /\ holder' = IF depth[t] = 0 THEN NoThread ELSE holder
    BY <1>2 DEF ReleaseOutermostLock, Unlock, Goto, TypeOK
  <2>2. depth[t] = 0 => stack[t] = << >>
    BY <2>1, NoOpenMeansEmpty
  <2>3. QED
    BY <2>1, <2>2 DEF TopFinished
<1>3. CASE RestoreAnyScope(t)
  BY <1>3 DEF RestoreAnyScope, PopScope, TypeOK
<1>4. CASE ResetDepthAndUnlock(t)
  <2>1. /\ pc'[t] = "run" /\ depth'[t] = 0 /\ pc[t] = "resetting"
        /\ stack[t] = << >> /\ stack' = stack /\ draft' = draft
        /\ holder' # t
    BY <1>4 DEF ResetDepthAndUnlock, Unlock, Goto, TypeOK
  <2>2. QED
    BY <2>1 DEF TopFinished
<1>5. QED
  BY <1>1, <1>2, <1>3, <1>4

\* The end of a thread gives the mutex back.
LEMMA OtherGood ==
  ASSUME TypeOK, NEW t \in Threads, Good(t),
         \/ \E i \in 1..MaxScopes : LeakGuard(t, i)
         \/ Panic(t) \/ Caught(t) \/ ThreadExit(t)
  PROVE  Good(t)'
<1> USE ConstantsAssumption, StackFacts
    DEF Good, ThreadProtocol, DepthCovers, OpenRecords, TopFinished
<1>1. CASE \/ \E i \in 1..MaxScopes : LeakGuard(t, i)
           \/ Panic(t) \/ Caught(t)
  BY <1>1 DEF LeakGuard, Panic, Caught
<1>2. CASE ThreadExit(t)
  <2>1. /\ pc'[t] = "exited" /\ pc[t] = "run" /\ depth'[t] = 0
        /\ stack'[t] = << >> /\ draft' = draft /\ holder' # t
    BY <1>2 DEF ThreadExit, Unlock, Goto, TypeOK
  <2>2. QED
    BY <2>1
<1>3. QED
  BY <1>1, <1>2

\* The protocol is inductive.
LEMMA ProtocolInductive ==
  /\ Init => ProtocolInv
  /\ ProtocolInv /\ [Next]_vars => ProtocolInv'
<1>1. Init => LockProtocol /\ DepthCoversOpenRecords
  <2> SUFFICES ASSUME Init, NEW t \in Threads
               PROVE  ThreadProtocol(t) /\ DepthCovers(t)
    BY DEF LockProtocol, DepthCoversOpenRecords
  <2>1. /\ pc[t] = "run" /\ depth[t] = 0 /\ stack[t] = << >>
        /\ draft[t] = NothingSaved /\ holder # t
    BY ConstantsAssumption DEF Init
  <2>2. Cardinality(OpenIn(stack[t])) = 0
    <3>1. OpenIn(stack[t]) = {}
      BY <2>1 DEF OpenIn
    <3>2. QED
      BY <3>1, FS_EmptySet, Zenon
  <2>3. OpenRecords(t) = 0
    <3> DEFINE c == Cardinality(OpenIn(stack[t]))
    <3>1. OpenRecords(t) = c + 0
      BY <2>1 DEF OpenRecords
    <3> HIDE DEF c
    <3>2. c = 0
      BY <2>2 DEF c
    <3>3. QED
      BY <3>1, <3>2
  <2>4. QED
    BY <2>1, <2>3 DEF ThreadProtocol, DepthCovers, TopFinished
<1>2. Init => TypeOK
  BY InitType
<1>3. ASSUME ProtocolInv, NEW t \in Threads, Step(t)
      PROVE  ProtocolInv'
  <2>1. TypeOK /\ Good(t)
    BY <1>3 DEF ProtocolInv, LockProtocol, DepthCoversOpenRecords, Good
  <2>2. Good(t)'
    <3>1. ASSUME NEW i \in Nat, ExitScope(t, i), pc[t] = "run"
          PROVE  Good(t)'
      BY <2>1, <3>1, ExitGood
    <3>2. ASSUME NEW i \in 1..MaxScopes, DropGuard(t, i)
          PROVE  Good(t)'
      BY <3>1, <3>2 DEF DropGuard
    <3>3. ASSUME NEW i \in 1..(MaxScopes + 1), StrayExit(t, i)
          PROVE  Good(t)'
      BY <3>1, <3>3 DEF StrayExit
    <3>4. QED
      BY <1>3, <2>1, <3>2, <3>3, EnterGood, RestoreGood, OtherGood DEF Step
  <2>3. ASSUME NEW u \in Threads, u # t
        PROVE  Good(u)'
    <3>1. Good(u)
      BY <1>3 DEF ProtocolInv, LockProtocol, DepthCoversOpenRecords, Good
    <3>2. /\ pc'[u] = pc[u] /\ depth'[u] = depth[u] /\ stack'[u] = stack[u]
          /\ draft'[u] = draft[u]
          /\ holder' = u <=> holder = u
      BY <1>3, <2>1, <2>3, StepFrame
    <3>3. QED
      BY <3>1, <3>2
      DEF Good, ThreadProtocol, DepthCovers, OpenRecords, TopFinished
  <2>4. TypeOK'
    BY <1>3, <2>1, StepType
  <2>5. QED
    BY <2>2, <2>3, <2>4
    DEF ProtocolInv, LockProtocol, DepthCoversOpenRecords, Good
<1>4. ASSUME ProtocolInv, UNCHANGED vars
      PROVE  ProtocolInv'
  BY <1>4
  DEF vars, ProtocolInv, TypeOK, LockProtocol, DepthCoversOpenRecords,
      ThreadProtocol, DepthCovers, OpenRecords, TopFinished
<1>5. QED
  BY <1>1, <1>2, <1>3, <1>4 DEF Next, AllExited, ProtocolInv

\* Under every fault, pc, depth, the stack and the mutex of each thread go
\* together as the protocol of env/state.rs has it.
THEOREM ProtocolCorrect == Spec => []ProtocolInv
  BY ProtocolInductive, PTL DEF Spec

\* Under every fault, depth never undercounts the open scopes, so the mutex is
\* kept as long as any of them is open.
THEOREM DepthCorrect == Spec => []DepthCoversOpenRecords
<1>1. ProtocolInv => DepthCoversOpenRecords
  BY DEF ProtocolInv
<1>2. QED
  BY <1>1, ProtocolCorrect, PTL

\* Under every fault, none of the assertions of env/state.rs can fail.
THEOREM AssertionsHold == Spec => []CodeAssertions
<1>1. ASSUME ProtocolInv, NEW t \in Threads
      PROVE  /\ (depth[t] = 0 /\ pc[t] \in {"run", "blocked"}) => holder # t
             /\ pc[t] = "applying" => holder = t
             /\ (pc[t] = "restoring" /\ ~TopFinished(t) /\ depth[t] = 0)
                  => (stack[t] = << >> /\ holder = t)
  <2>1. TypeOK /\ ThreadProtocol(t) /\ DepthCovers(t)
    BY <1>1 DEF ProtocolInv, LockProtocol, DepthCoversOpenRecords
  <2>2. ASSUME pc[t] = "restoring", ~TopFinished(t), depth[t] = 0
        PROVE  stack[t] = << >>
    <3>1. Cardinality(OpenIn(stack[t])) = 0
      BY <2>1, <2>2, StackFacts DEF DepthCovers, OpenRecords
    <3>2. QED
      BY <2>1, <2>2, <3>1, NoOpenMeansEmpty
  <2>3. QED
    BY <2>1, <2>2 DEF ThreadProtocol
<1>2. ProtocolInv => CodeAssertions
  BY <1>1 DEF CodeAssertions
<1>3. QED
  BY <1>2, ProtocolCorrect, PTL

\* Under every fault, the environment is written only by the thread that holds
\* the mutex, in a step that keeps it.
THEOREM WritesOnlyUnderLock == Spec => WritesUnderLock
<1> DEFINE Write == env' # env => holder' # NoThread /\ holder \in {holder', NoThread}
<1>1. ASSUME ProtocolInv, NEW t \in Threads, Step(t)
      PROVE  Write
  <2>1. /\ pc[t] \in {"applying", "restoring"} => holder = t
        /\ t # NoThread
    BY <1>1, ConstantsAssumption DEF ProtocolInv, LockProtocol, ThreadProtocol
  <2>2. ASSUME NEW k \in Keys, NEW v \in Values, ApplySingleVar(t, k, v)
        PROVE  Write
    BY <2>1, <2>2 DEF ApplySingleVar
  <2>3. CASE RestoreFinishedScope(t) \/ RestoreAnyScope(t)
    BY <2>1, <2>3 DEF RestoreFinishedScope, RestoreAnyScope, PopScope
  <2>4. CASE env' = env
    BY <2>4
  <2>5. QED
    BY <1>1, <2>2, <2>3, <2>4
    DEF Step, EnterOutermost, AcquireLock, EnterNested, RejectKey, PushScope,
        DropGuard, StrayExit, ExitScope, ReleaseOutermostLock,
        ResetDepthAndUnlock, LeakGuard, Panic, Caught, ThreadExit
<1>2. ProtocolInv /\ [Next]_vars => [Write]_vars
  BY <1>1 DEF Next, AllExited
<1>3. QED
  BY <1>2, ProtocolCorrect, PTL DEF Spec, WritesUnderLock

-----------------------------------------------------------------------------
(* Threads that leak no guard and pass valid names.                        *)

\* When nothing is left to undo, the environment is where the records lead.
LEMMA NothingToUndo ==
  ASSUME TypeOK, NEW t \in Threads, UndoLeadsTo(t, HostEnv),
         stack[t] = << >>, draft[t] = NothingSaved
  PROVE  env = HostEnv
<1>1. ASSUME NEW k \in Keys
      PROVE  env[k] = HostEnv[k]
  <2>1. draft[t][k] = Untouched /\ HostEnv[k] # Untouched
    BY ConstantsAssumption DEF NothingSaved
  <2>2. DOMAIN stack[t] = {}
    OBVIOUS
  <2>3. QED
    BY <2>1, <2>2 DEF UndoLeadsTo
<1>2. QED
  BY <1>1, ConstantsAssumption DEF TypeOK

\* Applying a variable: the draft remembers the value first replaced.
LEMMA ApplyUndo ==
  ASSUME TypeOK, NEW t \in Threads, NEW k \in Keys, NEW v \in Values,
         UndoLeadsTo(t, HostEnv), ApplySingleVar(t, k, v)
  PROVE  UndoLeadsTo(t, HostEnv)'
<1>1. /\ stack' = stack
      /\ env' = [env EXCEPT ![k] = v]
      /\ draft'[t] = [draft[t] EXCEPT ![k] = IF draft[t][k] = Untouched
                                             THEN env[k] ELSE draft[t][k]]
      /\ draft[t] \in Saved /\ env \in [Keys -> Values]
  BY DEF ApplySingleVar, TypeOK
<1>2. ASSUME NEW q \in Keys,
             \A i \in DOMAIN stack[t] : stack[t][i].saved[q] = Untouched
      PROVE  \/ draft'[t][q] = HostEnv[q]
             \/ draft'[t][q] = Untouched /\ env'[q] = HostEnv[q]
  <2>1. \/ draft[t][q] = HostEnv[q]
        \/ draft[t][q] = Untouched /\ env[q] = HostEnv[q]
    BY <1>2, ConstantsAssumption DEF UndoLeadsTo
  <2>2. HostEnv[q] # Untouched
    BY ConstantsAssumption
  <2>3. CASE q = k
    BY <1>1, <2>1, <2>2, <2>3 DEF Saved
  <2>4. CASE q # k
    BY <1>1, <2>1, <2>4 DEF Saved
  <2>5. QED
    BY <2>3, <2>4
<1>3. QED
  BY <1>1, <1>2 DEF UndoLeadsTo

\* Pushing the draft leaves everything to be undone where it was.
LEMMA PushUndo ==
  ASSUME TypeOK, NEW t \in Threads,
         UndoLeadsTo(t, HostEnv), PushScope(t)
  PROVE  UndoLeadsTo(t, HostEnv)'
<1> DEFINE r == [saved |-> draft[t], finished |-> FALSE]
           n == Len(stack[t]) + 1
<1>1. /\ stack'[t] = Append(stack[t], r) /\ draft'[t] = NothingSaved
      /\ env' = env
  BY DEF PushScope, TypeOK
<1>2. stack[t] \in Seq(Scope) /\ r \in Scope
  BY DEF TypeOK, Scope
<1>3. /\ DOMAIN stack[t] = 1..Len(stack[t]) /\ Len(stack[t]) \in Nat
      /\ DOMAIN stack'[t] = 1..n
      /\ stack'[t][n].saved = draft[t]
      /\ \A i \in 1..Len(stack[t]) : stack'[t][i] = stack[t][i]
  BY <1>1, <1>2, PushRecord, LenProperties
<1> SUFFICES ASSUME NEW k \in Keys
             PROVE  \/ \E i \in DOMAIN stack'[t] :
                         /\ stack'[t][i].saved[k] = HostEnv[k]
                         /\ \A h \in 1..(i - 1) : stack'[t][h].saved[k] = Untouched
                    \/ /\ \A i \in DOMAIN stack'[t] :
                            stack'[t][i].saved[k] = Untouched
                       /\ \/ draft'[t][k] = HostEnv[k]
                          \/ draft'[t][k] = Untouched /\ env'[k] = HostEnv[k]
  BY DEF UndoLeadsTo
<1>4. CASE \E i \in DOMAIN stack[t] :
             /\ stack[t][i].saved[k] = HostEnv[k]
             /\ \A h \in 1..(i - 1) : stack[t][h].saved[k] = Untouched
  <2>1. PICK i \in DOMAIN stack[t] :
             /\ stack[t][i].saved[k] = HostEnv[k]
             /\ \A h \in 1..(i - 1) : stack[t][h].saved[k] = Untouched
    BY <1>4
  <2>2. /\ i \in DOMAIN stack'[t]
        /\ stack'[t][i].saved[k] = HostEnv[k]
        /\ \A h \in 1..(i - 1) : stack'[t][h].saved[k] = Untouched
    BY <1>3, <2>1, SMTT(20)
  <2>3. QED
    BY <2>2
<1>5. CASE /\ \A i \in DOMAIN stack[t] : stack[t][i].saved[k] = Untouched
           /\ draft[t][k] = HostEnv[k]
  <2>1. /\ n \in DOMAIN stack'[t]
        /\ stack'[t][n].saved[k] = HostEnv[k]
        /\ \A h \in 1..(n - 1) : stack'[t][h].saved[k] = Untouched
    BY <1>3, <1>5
  <2>2. QED
    BY <2>1
<1>6. CASE /\ \A i \in DOMAIN stack[t] : stack[t][i].saved[k] = Untouched
           /\ draft[t][k] = Untouched /\ env[k] = HostEnv[k]
  <2>1. \A i \in DOMAIN stack'[t] : stack'[t][i].saved[k] = Untouched
    BY <1>3, <1>6, SMTT(20)
  <2>2. QED
    BY <1>1, <1>6, <2>1 DEF NothingSaved
<1>7. QED
  BY <1>4, <1>5, <1>6 DEF UndoLeadsTo

\* Marking a record finished changes nothing it saved.
LEMMA MarkUndo ==
  ASSUME TypeOK, NEW t \in Threads, NEW i \in DOMAIN stack[t],
         UndoLeadsTo(t, HostEnv),
         stack'[t] = [stack[t] EXCEPT ![i].finished = TRUE],
         env' = env, draft' = draft
  PROVE  UndoLeadsTo(t, HostEnv)'
<1>1. stack[t] \in Seq(Scope)
  BY DEF TypeOK
<1>2. /\ DOMAIN stack[t] = 1..Len(stack[t]) /\ Len(stack[t]) \in Nat
      /\ DOMAIN stack'[t] = 1..Len(stack[t])
      /\ \A j \in 1..Len(stack[t]) : stack'[t][j].saved = stack[t][j].saved
  BY <1>1, MarkRecord, LenProperties
<1>3. ASSUME NEW k \in Keys, NEW j \in 1..Len(stack[t]),
             stack[t][j].saved[k] = HostEnv[k],
             \A h \in 1..(j - 1) : stack[t][h].saved[k] = Untouched
      PROVE  /\ stack'[t][j].saved[k] = HostEnv[k]
             /\ \A h \in 1..(j - 1) : stack'[t][h].saved[k] = Untouched
  <2>1. \A h \in 1..(j - 1) : h \in 1..Len(stack[t])
    BY <1>2
  <2>2. QED
    BY <1>2, <1>3, <2>1
<1>4. ASSUME NEW k \in Keys,
             \A j \in 1..Len(stack[t]) : stack[t][j].saved[k] = Untouched
      PROVE  \A j \in 1..Len(stack[t]) : stack'[t][j].saved[k] = Untouched
  BY <1>2, <1>4
<1> SUFFICES ASSUME NEW k \in Keys
             PROVE  \/ \E j \in DOMAIN stack'[t] :
                         /\ stack'[t][j].saved[k] = HostEnv[k]
                         /\ \A h \in 1..(j - 1) : stack'[t][h].saved[k] = Untouched
                    \/ /\ \A j \in DOMAIN stack'[t] :
                            stack'[t][j].saved[k] = Untouched
                       /\ \/ draft'[t][k] = HostEnv[k]
                          \/ draft'[t][k] = Untouched /\ env'[k] = HostEnv[k]
  BY DEF UndoLeadsTo
<1>5. QED
  BY <1>2, <1>3, <1>4 DEF UndoLeadsTo

\* Popping a record while nothing is being applied: what it saved is what the
\* records below it leave to be undone.
LEMMA PopUndo ==
  ASSUME TypeOK, NEW t \in Threads, stack[t] # << >>,
         draft[t] = NothingSaved, UndoLeadsTo(t, HostEnv),
         PopScope(t), draft' = draft
  PROVE  UndoLeadsTo(t, HostEnv)'
<1> DEFINE n == Len(stack[t])
<1>1. stack[t] \in Seq(Scope)
  BY DEF TypeOK
<1>2. /\ n \in Nat \ {0}
      /\ DOMAIN stack[t] = 1..n
      /\ stack'[t] = SubSeq(stack[t], 1, n - 1)
      /\ stack[t][n].saved \in Saved
      /\ env' = RestoreSaved(env, stack[t][n].saved)
  BY <1>1, PopRecord, LenProperties DEF PopScope, TypeOK, Scope
<1>3. /\ DOMAIN stack'[t] = 1..(n - 1)
      /\ \A i \in 1..(n - 1) : stack'[t][i] = stack[t][i]
  BY <1>1, <1>2, PopRecord, LenProperties
<1> HIDE DEF n
<1> SUFFICES ASSUME NEW k \in Keys
             PROVE  \/ \E i \in DOMAIN stack'[t] :
                         /\ stack'[t][i].saved[k] = HostEnv[k]
                         /\ \A h \in 1..(i - 1) : stack'[t][h].saved[k] = Untouched
                    \/ /\ \A i \in DOMAIN stack'[t] :
                            stack'[t][i].saved[k] = Untouched
                       /\ \/ draft'[t][k] = HostEnv[k]
                          \/ draft'[t][k] = Untouched /\ env'[k] = HostEnv[k]
  BY DEF UndoLeadsTo
<1>4. /\ env'[k] = IF stack[t][n].saved[k] = Untouched
                   THEN env[k] ELSE stack[t][n].saved[k]
      /\ draft[t][k] = Untouched /\ draft'[t][k] = Untouched
      /\ HostEnv[k] # Untouched
  BY <1>2, ConstantsAssumption DEF RestoreSaved, NothingSaved
<1>5. CASE \E i \in 1..(n - 1) :
             /\ stack[t][i].saved[k] = HostEnv[k]
             /\ \A h \in 1..(i - 1) : stack[t][h].saved[k] = Untouched
  <2>1. PICK i \in 1..(n - 1) :
             /\ stack[t][i].saved[k] = HostEnv[k]
             /\ \A h \in 1..(i - 1) : stack[t][h].saved[k] = Untouched
    BY <1>5
  <2>2. /\ i \in DOMAIN stack'[t]
        /\ stack'[t][i] = stack[t][i]
        /\ \A h \in 1..(i - 1) : stack'[t][h] = stack[t][h]
    BY <1>2, <1>3
  <2>3. QED
    BY <2>1, <2>2
<1>6. CASE /\ stack[t][n].saved[k] = HostEnv[k]
           /\ \A h \in 1..(n - 1) : stack[t][h].saved[k] = Untouched
  BY <1>2, <1>3, <1>4, <1>6
<1>7. CASE /\ \A i \in 1..n : stack[t][i].saved[k] = Untouched
           /\ env[k] = HostEnv[k]
  BY <1>2, <1>3, <1>4, <1>7
<1>8. QED
  <2>1. \/ \E i \in 1..n :
             /\ stack[t][i].saved[k] = HostEnv[k]
             /\ \A h \in 1..(i - 1) : stack[t][h].saved[k] = Untouched
        \/ /\ \A i \in 1..n : stack[t][i].saved[k] = Untouched
           /\ env[k] = HostEnv[k]
    BY <1>2, <1>4 DEF UndoLeadsTo
  <2>2. 1..n = (1..(n - 1)) \union {n}
    BY <1>2
  <2>3. QED
    BY <1>5, <1>6, <1>7, <2>1, <2>2

\* What exit_scope does: it marks the record of an open scope, or changes no record.
LEMMA ExitEffect ==
  ASSUME ProtocolInv, NEW t \in Threads, pc[t] = "run", NEW i \in Nat, ExitScope(t, i)
  PROVE  /\ UNCHANGED <<env, holder, draft>>
         /\ \/ /\ i \in OpenIn(stack[t]) /\ i \in DOMAIN stack[t] /\ holder = t
               /\ stack'[t] = [stack[t] EXCEPT ![i].finished = TRUE]
               /\ OpenIn(stack'[t]) = OpenIn(stack[t]) \ {i}
            \/ i \notin OpenIn(stack[t]) /\ stack' = stack
<1>1. TypeOK /\ ThreadProtocol(t) /\ DepthCovers(t) /\ stack[t] \in Seq(Scope)
  BY DEF ProtocolInv, LockProtocol, DepthCoversOpenRecords, TypeOK
<1>2. UNCHANGED <<env, holder, draft>>
  BY DEF ExitScope
<1>3. CASE depth[t] > 0 /\ i \in DOMAIN stack[t] /\ ~stack[t][i].finished
  <2>1. i \in OpenIn(stack[t]) /\ holder = t
    BY <1>1, <1>3 DEF OpenIn, ThreadProtocol
  <2>2. stack' = [stack EXCEPT ![t][i].finished = TRUE]
    BY <1>3 DEF ExitScope
  <2>3. stack'[t] = [stack[t] EXCEPT ![i].finished = TRUE]
    BY <1>1, <2>2 DEF TypeOK
  <2>4. OpenIn(stack'[t]) = OpenIn(stack[t]) \ {i}
    BY <1>1, <2>1, <2>3, OpenInMark
  <2>5. QED
    BY <1>2, <1>3, <2>1, <2>3, <2>4
<1>4. CASE ~(depth[t] > 0 /\ i \in DOMAIN stack[t] /\ ~stack[t][i].finished)
  <2>1. stack' = stack
    BY <1>4 DEF ExitScope
  <2>2. depth[t] = 0 => OpenIn(stack[t]) = {}
    <3>1. depth[t] = 0 => Cardinality(OpenIn(stack[t])) = 0
      BY <1>1, StackFacts DEF DepthCovers, OpenRecords
    <3>2. IsFiniteSet(OpenIn(stack[t]))
      BY <1>1, OpenInFinite
    <3>3. QED
      BY <3>1, <3>2, FS_EmptySet
  <2>3. i \notin OpenIn(stack[t])
    <3>1. ASSUME i \in OpenIn(stack[t]) PROVE FALSE
      <4>1. i \in DOMAIN stack[t] /\ ~stack[t][i].finished
        BY <3>1 DEF OpenIn
      <4>2. depth[t] = 0
        BY <1>1, <1>4, <4>1, StackFacts
      <4>3. QED
        BY <2>2, <3>1, <4>2
    <3>2. QED
      BY <3>1
  <2>4. QED
    BY <1>2, <2>1, <2>3
<1>5. QED
  BY <1>3, <1>4

\* An open record keeps its guard.
LEMMA OpenStaysGuarded ==
  ASSUME ProtocolInv, Faults \subseteq {"stray_exit"}, NEW t \in Threads, Step(t),
         OpenIn(stack[t]) \subseteq LiveIndices(t)
  PROVE  OpenIn(stack'[t]) \subseteq LiveIndices(t)'
<1>1. TypeOK /\ ThreadProtocol(t) /\ stack[t] \in Seq(Scope)
      /\ live[t] \in [1..MaxScopes -> Nat]
  BY DEF ProtocolInv, LockProtocol, TypeOK
<1>2. ASSUME OpenIn(stack'[t]) \subseteq OpenIn(stack[t]), live' = live
      PROVE  OpenIn(stack'[t]) \subseteq LiveIndices(t)'
  BY <1>2 DEF LiveIndices
<1>3. CASE \/ EnterOutermost(t) \/ AcquireLock(t) \/ EnterNested(t)
           \/ \E k \in Keys, v \in Values : ApplySingleVar(t, k, v)
           \/ ReleaseOutermostLock(t) \/ ResetDepthAndUnlock(t) \/ Panic(t) \/ Caught(t)
  <2>1. stack' = stack /\ live' = live
    BY <1>3
    DEF EnterOutermost, AcquireLock, EnterNested, ApplySingleVar,
        ReleaseOutermostLock, ResetDepthAndUnlock, Panic, Caught
  <2>2. QED
    BY <1>2, <2>1
<1>4. CASE PushScope(t)
  <2> DEFINE r == [saved |-> draft[t], finished |-> FALSE]
             n == Len(stack[t]) + 1
  <2>1. r \in Scope /\ ~r.finished
    BY <1>1 DEF TypeOK, Scope
  <2>2. /\ stack'[t] = Append(stack[t], r)
        /\ live'[t] = [live[t] EXCEPT ![n] = live[t][n] + 1]
        /\ Len(stack[t]) < MaxScopes
    BY <1>1, <1>4 DEF PushScope, TypeOK, ThreadProtocol
  <2>3. OpenIn(stack'[t]) = OpenIn(stack[t]) \union {n}
    BY <1>1, <2>1, <2>2, OpenInPush
  <2>4. n \in 1..MaxScopes
    BY <1>1, <2>2, LenProperties, ConstantsAssumption
  <2> HIDE DEF n
  <2>5. live'[t][n] > 0 /\ \A j \in 1..MaxScopes \ {n} : live'[t][j] = live[t][j]
    <3> DEFINE f == live[t]
    <3>1. f \in [1..MaxScopes -> Nat] /\ live'[t] = [f EXCEPT ![n] = f[n] + 1] /\ f[n] \in Nat
      BY <1>1, <2>2, <2>4
    <3> HIDE DEF f
    <3>2. live'[t][n] = f[n] + 1 /\ \A j \in 1..MaxScopes \ {n} : live'[t][j] = f[j]
      BY <2>4, <3>1
    <3>3. QED
      BY <3>1, <3>2 DEF f
  <2>6. QED
    BY <2>3, <2>4, <2>5 DEF LiveIndices
<1>5. ASSUME NEW i \in 1..MaxScopes, DropGuard(t, i)
      PROVE  OpenIn(stack'[t]) \subseteq LiveIndices(t)'
  <2>1. pc[t] = "run" /\ ExitScope(t, i) /\ live' = [live EXCEPT ![t][i] = @ - 1]
    BY <1>5 DEF DropGuard
  <2>2. i \notin OpenIn(stack'[t]) /\ OpenIn(stack'[t]) \subseteq OpenIn(stack[t])
    <3>1. i \in Nat
      BY <1>5
    <3>2. CASE OpenIn(stack'[t]) = OpenIn(stack[t]) \ {i}
      BY <3>2
    <3>3. CASE i \notin OpenIn(stack[t]) /\ stack' = stack
      BY <3>3
    <3>4. QED
      BY <2>1, <3>1, <3>2, <3>3, ExitEffect
  <2>3. \A j \in 1..MaxScopes : j # i => live'[t][j] = live[t][j]
    BY <1>1, <2>1 DEF TypeOK
  <2>4. QED
    BY <2>2, <2>3 DEF LiveIndices
<1>6. ASSUME NEW i \in 1..(MaxScopes + 1), StrayExit(t, i)
      PROVE  OpenIn(stack'[t]) \subseteq LiveIndices(t)'
  <2>1. pc[t] = "run" /\ ExitScope(t, i) /\ live' = live /\ i \in Nat
    BY <1>6 DEF StrayExit
  <2>2. OpenIn(stack'[t]) \subseteq OpenIn(stack[t])
    BY <2>1, ExitEffect
  <2>3. QED
    BY <1>2, <2>1, <2>2
<1>7. CASE RestoreFinishedScope(t) \/ RestoreAnyScope(t)
  <2>1. /\ stack[t] # << >> /\ live' = live
        /\ stack'[t] = SubSeq(stack[t], 1, Len(stack[t]) - 1)
    BY <1>1, <1>7 DEF RestoreFinishedScope, RestoreAnyScope, PopScope, TopFinished, TypeOK
  <2>2. QED
    BY <1>1, <1>2, <2>1, OpenInPopAny
<1>8. CASE ThreadExit(t)
  <2>1. stack'[t] = << >>
    BY <1>1, <1>8 DEF ThreadExit, TypeOK
  <2>2. QED
    BY <2>1, StackFacts, <1>1
<1>9. QED
  BY <1>3, <1>4, <1>5, <1>6, <1>7, <1>8 DEF Step, RejectKey, LeakGuard

\* Whoever holds the mutex after a step can still undo to the host's
\* environment, and gives the mutex back only there.
LEMMA UndoStep ==
  ASSUME RestoreInv, Faults \subseteq {"stray_exit"}, NEW t \in Threads, Step(t)
  PROVE  UnwindsToHost' /\ HostEnvWhenUnlocked'
<1>1. /\ TypeOK /\ ThreadProtocol(t) /\ ProtocolInv
      /\ OpenIn(stack[t]) \subseteq LiveIndices(t)
      /\ holder = t => UndoLeadsTo(t, HostEnv)
      /\ holder = NoThread => env = HostEnv
      /\ t # NoThread
  BY ConstantsAssumption
  DEF RestoreInv, ProtocolInv, LockProtocol, OpenIsGuarded, UnwindsToHost,
      HostEnvWhenUnlocked
<1>2. ASSUME holder' = t, UndoLeadsTo(t, HostEnv)'
      PROVE  UnwindsToHost' /\ HostEnvWhenUnlocked'
  <2>1. \A u \in Threads : holder' = u => u = t
    BY <1>2
  <2>2. UnwindsToHost'
    BY <1>2, <2>1 DEF UnwindsToHost
  <2>3. HostEnvWhenUnlocked'
    BY <1>1, <1>2 DEF HostEnvWhenUnlocked
  <2>4. QED
    BY <2>2, <2>3
<1>3. ASSUME holder' = NoThread, env' = HostEnv
      PROVE  UnwindsToHost' /\ HostEnvWhenUnlocked'
  BY <1>3, ConstantsAssumption DEF UnwindsToHost, HostEnvWhenUnlocked
<1>4. ASSUME UNCHANGED <<env, holder>>,
             \A u \in Threads : holder = u =>
                stack'[u] = stack[u] /\ draft'[u] = draft[u]
      PROVE  UnwindsToHost' /\ HostEnvWhenUnlocked'
  BY <1>4 DEF RestoreInv, UnwindsToHost, UndoLeadsTo, HostEnvWhenUnlocked
<1>5. CASE EnterOutermost(t) \/ EnterNested(t) \/ Panic(t) \/ Caught(t)
  BY <1>4, <1>5 DEF EnterOutermost, EnterNested, Panic, Caught
<1>6. CASE AcquireLock(t)
  <2>1. /\ holder' = t /\ env' = HostEnv /\ stack' = stack /\ draft' = draft
        /\ stack[t] = << >> /\ draft[t] = NothingSaved
    BY <1>1, <1>6 DEF AcquireLock, ThreadProtocol
  <2>2. UndoLeadsTo(t, HostEnv)'
    BY <2>1, ConstantsAssumption DEF UndoLeadsTo, NothingSaved
  <2>3. QED
    BY <1>2, <2>1, <2>2
<1>7. ASSUME NEW k \in Keys, NEW v \in Values, ApplySingleVar(t, k, v)
      PROVE  UnwindsToHost' /\ HostEnvWhenUnlocked'
  <2>1. holder = t /\ holder' = t
    BY <1>1, <1>7 DEF ApplySingleVar, ThreadProtocol
  <2>2. QED
    BY <1>1, <1>2, <1>7, <2>1, ApplyUndo
<1>8. CASE PushScope(t)
  <2>1. holder = t /\ holder' = t
    BY <1>1, <1>8 DEF PushScope, ThreadProtocol
  <2>2. QED
    BY <1>1, <1>2, <1>8, <2>1, PushUndo
<1>9. ASSUME NEW i \in Nat, pc[t] = "run", ExitScope(t, i)
      PROVE  UnwindsToHost' /\ HostEnvWhenUnlocked'
  <2>1. CASE /\ i \in DOMAIN stack[t] /\ holder = t
             /\ stack'[t] = [stack[t] EXCEPT ![i].finished = TRUE]
    <3>1. holder' = t /\ env' = env /\ draft' = draft
      BY <1>1, <1>9, <2>1, ExitEffect
    <3>2. QED
      BY <1>1, <1>2, <2>1, <3>1, MarkUndo
  <2>2. CASE stack' = stack
    <3>1. UNCHANGED <<env, holder, draft>>
      BY <1>1, <1>9, ExitEffect
    <3>2. QED
      BY <1>4, <2>2, <3>1
  <2>3. QED
    BY <1>1, <1>9, <2>1, <2>2, ExitEffect
<1>10. CASE RestoreFinishedScope(t) \/ RestoreAnyScope(t)
  <2>1. /\ stack[t] # << >> /\ PopScope(t) /\ draft' = draft
        /\ holder = t /\ holder' = t /\ draft[t] = NothingSaved
    BY <1>1, <1>10
    DEF RestoreFinishedScope, RestoreAnyScope, PopScope, TopFinished, ThreadProtocol
  <2>2. QED
    BY <1>1, <1>2, <2>1, PopUndo
<1>11. CASE ReleaseOutermostLock(t)
  <2>1. CASE depth[t] = 0
    <3>1. /\ stack[t] = << >> /\ draft[t] = NothingSaved /\ holder = t
      <4>1. Cardinality(OpenIn(stack[t])) = 0
        BY <1>1, <1>11, <2>1, StackFacts
        DEF ReleaseOutermostLock, ProtocolInv, DepthCoversOpenRecords,
            DepthCovers, OpenRecords
      <4>2. QED
        BY <1>1, <1>11, <4>1, NoOpenMeansEmpty
        DEF ReleaseOutermostLock, ThreadProtocol
    <3>2. env = HostEnv
      BY <1>1, <3>1, NothingToUndo
    <3>3. holder' = NoThread /\ env' = env
      BY <1>11, <2>1, <3>1 DEF ReleaseOutermostLock, Unlock
    <3>4. QED
      BY <1>3, <3>2, <3>3
  <2>2. CASE depth[t] > 0
    BY <1>4, <1>11, <2>2 DEF ReleaseOutermostLock
  <2>3. QED
    BY <1>11, <2>1, <2>2 DEF ReleaseOutermostLock
<1>12. CASE ThreadExit(t) \/ ResetDepthAndUnlock(t)
  <2>1. stack[t] = << >> /\ draft[t] = NothingSaved
    <3>1. CASE ThreadExit(t)
      <4>1. OpenIn(stack[t]) = {}
        BY <1>1, <3>1 DEF ThreadExit
      <4>2. Cardinality(OpenIn(stack[t])) = 0
        BY <4>1, FS_EmptySet, Zenon
      <4>3. QED
        BY <1>1, <3>1, <4>2, NoOpenMeansEmpty DEF ThreadExit, ThreadProtocol
    <3>2. CASE ResetDepthAndUnlock(t)
      BY <1>1, <3>2 DEF ResetDepthAndUnlock, ThreadProtocol
    <3>3. QED
      BY <1>12, <3>1, <3>2
  <2>2. Unlock(t) /\ env' = env /\ draft' = draft
        /\ \A u \in Threads : u # t => stack'[u] = stack[u]
    BY <1>1, <1>12 DEF ThreadExit, ResetDepthAndUnlock, TypeOK
  <2>3. CASE holder = t
    <3>1. env = HostEnv
      BY <1>1, <2>1, <2>3, NothingToUndo
    <3>2. holder' = NoThread
      BY <2>2, <2>3 DEF Unlock
    <3>3. QED
      BY <1>3, <2>2, <3>1, <3>2
  <2>4. CASE holder # t
    <3>1. UNCHANGED <<env, holder>>
      BY <2>2, <2>4 DEF Unlock
    <3>2. QED
      BY <1>4, <2>2, <2>4, <3>1
  <2>5. QED
    BY <2>3, <2>4
<1>13. ASSUME NEW i \in 1..(MaxScopes + 1), DropGuard(t, i) \/ StrayExit(t, i)
       PROVE  UnwindsToHost' /\ HostEnvWhenUnlocked'
  BY <1>9, <1>13 DEF DropGuard, StrayExit
<1>14. QED
  <2>1. 1..MaxScopes \subseteq 1..(MaxScopes + 1)
    BY ConstantsAssumption
  <2>2. QED
    BY <1>5, <1>6, <1>7, <1>8, <1>10, <1>11, <1>12, <1>13, <2>1
    DEF Step, RejectKey, LeakGuard

\* The invariant of threads that leak no guard and pass valid names is inductive.
LEMMA RestoreInductive ==
  ASSUME Faults \subseteq {"stray_exit"}
  PROVE  /\ Init => RestoreInv
         /\ RestoreInv /\ [Next]_vars => RestoreInv'
<1>1. ASSUME Init
      PROVE  RestoreInv
  <2>1. ProtocolInv
    BY <1>1, ProtocolInductive
  <2>2. HostEnvWhenUnlocked /\ UnwindsToHost
    BY <1>1, ConstantsAssumption
    DEF Init, HostEnvWhenUnlocked, UnwindsToHost
  <2>3. OpenIsGuarded
    BY <1>1 DEF Init, OpenIsGuarded, OpenIn
  <2>4. QED
    BY <2>1, <2>2, <2>3 DEF RestoreInv
<1>2. ASSUME RestoreInv, NEW t \in Threads, Step(t)
      PROVE  RestoreInv'
  <2>1. ProtocolInv /\ TypeOK
    BY <1>2 DEF RestoreInv, ProtocolInv
  <2>2. ProtocolInv'
    BY <1>2, <2>1, ProtocolInductive DEF Next
  <2>3. ASSUME NEW u \in Threads
        PROVE  OpenIn(stack'[u]) \subseteq LiveIndices(u)'
    <3>1. OpenIn(stack[u]) \subseteq LiveIndices(u)
      BY <1>2 DEF RestoreInv, OpenIsGuarded
    <3>2. CASE u = t
      BY <1>2, <2>1, <3>1, <3>2, OpenStaysGuarded
    <3>3. CASE u # t
      <4>1. stack'[u] = stack[u] /\ live'[u] = live[u]
        BY <1>2, <2>1, <3>3, StepFrame
      <4>2. QED
        BY <3>1, <4>1 DEF LiveIndices
    <3>4. QED
      BY <3>2, <3>3
  <2>4. OpenIsGuarded'
    BY <2>3 DEF OpenIsGuarded, OpenIn
  <2>5. UnwindsToHost' /\ HostEnvWhenUnlocked'
    BY <1>2, UndoStep
  <2>6. QED
    BY <2>2, <2>4, <2>5 DEF RestoreInv
<1>3. ASSUME RestoreInv, UNCHANGED vars
      PROVE  RestoreInv'
  <2>1. ProtocolInv'
    BY <1>3, ProtocolInductive DEF RestoreInv
  <2>2. UnwindsToHost' /\ HostEnvWhenUnlocked'
    BY <1>3
    DEF vars, RestoreInv, UnwindsToHost, UndoLeadsTo, HostEnvWhenUnlocked
  <2>3. OpenIsGuarded'
    BY <1>3 DEF vars, RestoreInv, OpenIsGuarded, OpenIn, LiveIndices
  <2>4. QED
    BY <2>1, <2>2, <2>3 DEF RestoreInv
<1>4. QED
  BY <1>1, <1>2, <1>3 DEF Next, AllExited

\* As long as no guard is leaked and names are valid, the environment is the host's
\* whenever the mutex is free, even if indices of no guard are given to exit_scope:
\* force_restore_and_reset (env/state.rs) puts back what it finds.
THEOREM HostEnvRestored ==
  ASSUME Faults \subseteq {"stray_exit"}
  PROVE  Spec => []HostEnvWhenUnlocked
<1>1. RestoreInv => HostEnvWhenUnlocked
  BY DEF RestoreInv
<1>2. QED
  BY <1>1, RestoreInductive, PTL DEF Spec

\* Under the same assumption, what is left to undo always leads back to the
\* host's environment.
THEOREM UndoComplete ==
  ASSUME Faults \subseteq {"stray_exit"}
  PROVE  Spec => []UnwindsToHost
<1>1. RestoreInv => UnwindsToHost
  BY DEF RestoreInv
<1>2. QED
  BY <1>1, RestoreInductive, PTL DEF Spec

-----------------------------------------------------------------------------
(* Threads that keep their guards: no faults.                              *)

\* A guard that is live has an open record, and its thread has the mutex.
LEMMA LiveMeansOpen ==
  ASSUME ProtocolInv, NEW t \in Threads, GuardsMatch(t),
         NEW i \in 1..MaxScopes, live[t][i] > 0
  PROVE  /\ i \in OpenIn(stack[t])
         /\ stack[t] # << >>
         /\ live[t][i] = 1
         /\ pc[t] = "run" => depth[t] > 0
<1>1. i \in OpenIn(stack[t]) /\ live[t][i] = 1
  BY DEF GuardsMatch
<1>2. TypeOK /\ DepthCovers(t)
  BY DEF ProtocolInv, DepthCoversOpenRecords
<1>3. Cardinality(OpenIn(stack[t])) # 0 /\ Cardinality(OpenIn(stack[t])) \in Nat
  BY <1>1, <1>2, OpenInFinite, FS_EmptySet DEF TypeOK
<1>4. pc[t] = "run" => depth[t] > 0
  BY <1>2, <1>3, StackFacts DEF DepthCovers, OpenRecords
<1>5. stack[t] # << >>
  BY <1>1 DEF OpenIn
<1>6. QED
  BY <1>1, <1>4, <1>5

\* Without faults, a dropped guard's index is always accepted.
LEMMA DropAccepted ==
  ASSUME ProtocolInv, NEW t \in Threads, GuardsMatch(t),
         NEW i \in 1..MaxScopes, DropGuard(t, i)
  PROVE  /\ i \in OpenIn(stack[t]) /\ i \in DOMAIN stack[t]
         /\ stack'[t] = [stack[t] EXCEPT ![i].finished = TRUE]
         /\ pc'[t] = "restoring"
         /\ holder = t /\ holder' = holder /\ env' = env /\ draft' = draft
         /\ live'[t] = [live[t] EXCEPT ![i] = 0]
<1>1. live[t][i] > 0 /\ pc[t] = "run"
  BY DEF DropGuard
<1>2. /\ i \in OpenIn(stack[t]) /\ stack[t] # << >> /\ live[t][i] = 1
      /\ depth[t] > 0
  BY <1>1, LiveMeansOpen
<1>3. holder = t /\ TypeOK
  BY <1>2 DEF ProtocolInv, LockProtocol, ThreadProtocol
<1>4. i \in DOMAIN stack[t] /\ ~stack[t][i].finished
  BY <1>2 DEF OpenIn
<1>5. /\ stack' = [stack EXCEPT ![t][i].finished = TRUE]
      /\ Goto(t, "restoring")
      /\ UNCHANGED <<env, holder, draft>>
  BY <1>2, <1>4 DEF DropGuard, ExitScope
<1>6. live'[t] = [live[t] EXCEPT ![i] = 0]
  BY <1>2, <1>3 DEF DropGuard, TypeOK
<1>7. QED
  BY <1>2, <1>3, <1>4, <1>5, <1>6 DEF Goto, TypeOK

\* Guards keep matching records.
LEMMA GuardsStep ==
  ASSUME ProtocolInv, Faults = {}, NEW t \in Threads, GuardsMatch(t), Step(t)
  PROVE  GuardsMatch(t)'
<1>1. TypeOK /\ ThreadProtocol(t)
  BY DEF ProtocolInv, LockProtocol
<1> USE DEF GuardsMatch
<1>2. CASE \/ EnterOutermost(t) \/ AcquireLock(t) \/ EnterNested(t)
           \/ \E k \in Keys, v \in Values : ApplySingleVar(t, k, v)
           \/ ReleaseOutermostLock(t) \/ Panic(t) \/ Caught(t)
  <2>1. stack' = stack /\ live' = live /\ pc'[t] # "resetting"
    BY <1>1, <1>2
    DEF EnterOutermost, AcquireLock, EnterNested, ApplySingleVar,
        ReleaseOutermostLock, Panic, Caught, Goto, TypeOK
  <2>2. QED
    BY <2>1
<1>3. CASE PushScope(t)
  <2> DEFINE r == [saved |-> draft[t], finished |-> FALSE]
             n == Len(stack[t]) + 1
  <2>1. r \in Scope /\ ~r.finished /\ stack[t] \in Seq(Scope)
    BY <1>1 DEF TypeOK, Scope
  <2>2. /\ stack'[t] = Append(stack[t], r)
        /\ pc'[t] = "run"
        /\ live'[t] = [live[t] EXCEPT ![n] = live[t][n] + 1]
        /\ Len(stack[t]) < MaxScopes
    BY <1>1, <1>3 DEF PushScope, Goto, TypeOK, ThreadProtocol
  <2>3. OpenIn(stack'[t]) = OpenIn(stack[t]) \union {n}
    BY <2>1, <2>2, OpenInPush
  <2>4. n \in 1..MaxScopes /\ n \notin OpenIn(stack[t])
    BY <2>1, <2>2, OpenInFinite, LenProperties, ConstantsAssumption
  <2>5. live[t] \in [1..MaxScopes -> Nat] /\ live[t][n] = 0
    BY <1>1, <2>4 DEF TypeOK
  <2> HIDE DEF n
  <2>6. \A j \in 1..MaxScopes :
          live'[t][j] = IF j = n THEN 1 ELSE live[t][j]
    <3> DEFINE f == live[t]
    <3>1. f \in [1..MaxScopes -> Nat] /\ f[n] = 0
      BY <2>5
    <3>2. live'[t] = [f EXCEPT ![n] = f[n] + 1]
      BY <2>2
    <3> HIDE DEF f
    <3>3. live'[t] = [f EXCEPT ![n] = 1]
      BY <3>1, <3>2
    <3>4. \A j \in 1..MaxScopes : live'[t][j] = IF j = n THEN 1 ELSE f[j]
      BY <3>1, <3>3
    <3>5. QED
      BY <3>4 DEF f
  <2>7. \A j \in 1..MaxScopes :
          live'[t][j] = IF j \in OpenIn(stack'[t]) THEN 1 ELSE 0
    BY <2>3, <2>6
  <2>8. OpenIn(stack'[t]) \subseteq 1..MaxScopes
    BY <2>3, <2>4
  <2>9. QED
    BY <2>2, <2>7, <2>8
<1>4. ASSUME NEW i \in 1..MaxScopes, DropGuard(t, i)
      PROVE  GuardsMatch(t)'
  <2>1. /\ i \in OpenIn(stack[t])
        /\ stack'[t] = [stack[t] EXCEPT ![i].finished = TRUE]
        /\ pc'[t] = "restoring"
        /\ live'[t] = [live[t] EXCEPT ![i] = 0]
    BY <1>4, DropAccepted
  <2>2. OpenIn(stack'[t]) = OpenIn(stack[t]) \ {i}
    BY <1>1, <2>1, OpenInMark DEF TypeOK
  <2>3. live[t] \in [1..MaxScopes -> Nat]
    BY <1>1 DEF TypeOK
  <2>4. QED
    BY <2>1, <2>2, <2>3
<1>5. CASE RestoreFinishedScope(t)
  <2>1. /\ stack[t] # << >> /\ stack[t][Len(stack[t])].finished
        /\ stack'[t] = SubSeq(stack[t], 1, Len(stack[t]) - 1)
        /\ pc' = pc /\ live' = live /\ pc[t] = "restoring"
    BY <1>1, <1>5 DEF RestoreFinishedScope, PopScope, TopFinished, TypeOK
  <2>2. OpenIn(stack'[t]) = OpenIn(stack[t])
    BY <1>1, <2>1, OpenInPop DEF TypeOK
  <2>3. QED
    BY <2>1, <2>2
<1>6. CASE ThreadExit(t)
  <2>1. /\ pc'[t] = "exited" /\ live' = live /\ stack'[t] = << >>
        /\ \A i \in 1..MaxScopes : ~(live[t][i] > 0)
    BY <1>1, <1>6 DEF ThreadExit, Goto, TypeOK, LiveIndices
  <2>2. OpenIn(stack[t]) = {}
    BY <2>1
  <2>3. OpenIn(stack'[t]) = {}
    BY <2>1 DEF OpenIn
  <2>4. QED
    BY <2>1, <2>2, <2>3
<1>7. QED
  BY <1>2, <1>3, <1>4, <1>5, <1>6
  DEF Step, RejectKey, StrayExit, LeakGuard, RestoreAnyScope,
      ResetDepthAndUnlock

\* The whole invariant of fault-free threads is inductive.
LEMMA CleanInductive ==
  ASSUME Faults = {}
  PROVE  /\ Init => CleanInv
         /\ CleanInv /\ [Next]_vars => CleanInv'
<1>1. ASSUME Init
      PROVE  CleanInv
  <2>1. ASSUME NEW t \in Threads
        PROVE  GuardsMatch(t)
    <3>1. /\ pc[t] = "run" /\ stack[t] = << >>
          /\ \A i \in 1..MaxScopes : live[t][i] = 0
      BY <1>1 DEF Init
    <3>2. OpenIn(stack[t]) = {}
      BY <3>1 DEF OpenIn
    <3>3. QED
      BY <3>1, <3>2 DEF GuardsMatch
  <2>2. QED
    BY <1>1, <2>1, RestoreInductive DEF CleanInv, GuardsMatchRecords
<1>2. ASSUME CleanInv, NEW t \in Threads, Step(t)
      PROVE  CleanInv'
  <2>1. ProtocolInv /\ TypeOK /\ RestoreInv
    BY <1>2 DEF CleanInv, RestoreInv, ProtocolInv
  <2>2. RestoreInv'
    BY <1>2, <2>1, RestoreInductive DEF Next
  <2>3. ASSUME NEW u \in Threads
        PROVE  GuardsMatch(u)'
    <3>1. GuardsMatch(u)
      BY <1>2 DEF CleanInv, GuardsMatchRecords
    <3>2. CASE u = t
      BY <1>2, <2>1, <3>1, <3>2, GuardsStep
    <3>3. CASE u # t
      <4>1. pc'[u] = pc[u] /\ stack'[u] = stack[u] /\ live'[u] = live[u]
        BY <1>2, <2>1, <3>3, StepFrame
      <4>2. QED
        BY <3>1, <4>1 DEF GuardsMatch
    <3>4. QED
      BY <3>2, <3>3
  <2>4. QED
    BY <2>2, <2>3 DEF CleanInv, GuardsMatchRecords
<1>3. ASSUME CleanInv, UNCHANGED vars
      PROVE  CleanInv'
  <2>1. RestoreInv'
    BY <1>3, RestoreInductive DEF CleanInv
  <2>2. GuardsMatchRecords'
    BY <1>3 DEF vars, CleanInv, GuardsMatchRecords, GuardsMatch
  <2>3. QED
    BY <2>1, <2>2 DEF CleanInv
<1>4. QED
  BY <1>1, <1>2, <1>3 DEF Next, AllExited

\* Without faults, guards and open records match, and what the records undo
\* leads back to the host's environment.
THEOREM CleanCorrect ==
  ASSUME Faults = {}
  PROVE  Spec => []CleanInv
  BY CleanInductive, PTL DEF Spec

\* Without faults, a live guard's thread holds the mutex and the
\* guard's record is open, so that two threads never have guards at once.
THEOREM GuardsExclusive ==
  ASSUME Faults = {}
  PROVE  Spec => []LiveGuardHoldsLock
<1>1. ASSUME CleanInv, NEW t \in Threads, NEW i \in LiveIndices(t)
      PROVE  /\ holder = t
             /\ live[t][i] = 1
             /\ i \in DOMAIN stack[t]
             /\ ~stack[t][i].finished
  <2>1. ProtocolInv /\ GuardsMatch(t) /\ i \in 1..MaxScopes /\ live[t][i] > 0
    BY <1>1 DEF CleanInv, RestoreInv, GuardsMatchRecords, LiveIndices
  <2>2. i \in OpenIn(stack[t]) /\ stack[t] # << >> /\ live[t][i] = 1
    BY <2>1, LiveMeansOpen
  <2>3. holder = t
    BY <2>1, <2>2 DEF ProtocolInv, LockProtocol, ThreadProtocol
  <2>4. QED
    BY <2>2, <2>3 DEF OpenIn
<1>2. CleanInv => LiveGuardHoldsLock
  BY <1>1 DEF LiveGuardHoldsLock
<1>3. QED
  BY <1>2, CleanCorrect, PTL

=============================================================================
