---------------------- MODULE ScopedEnvSnapshotProofs ----------------------
(***************************************************************************)
(* ScopedEnv's undo records stand for whole snapshots.  First what UnwindTo *)
(* computes and how each way of changing a stack of records changes it;    *)
(* then the two theorems: what the records of a holder lead back to stays  *)
(* the same under every fault (BaseKept), and without faults each step is  *)
(* one of EnvSnapshots or a stutter (SnapshotsImplemented).                *)
(***************************************************************************)
EXTENDS ScopedEnvProofs, WellFoundedInduction

-----------------------------------------------------------------------------
(* What UnwindTo computes.                                                 *)

NatLess == {p \in Nat \X Nat : p[1] < p[2]}

\* A set of numbers that is not empty has a least one.
LEMMA Least ==
  ASSUME NEW S \in SUBSET Nat, S # {}
  PROVE  \E m \in S : \A k \in S : m <= k
<1>1. IsWellFoundedOn(NatLess, Nat)
  BY NatLessThanWellFounded DEF OpToRel, NatLess
<1>2. PICK m \in S : \A k \in S : ~(<<k, m>> \in NatLess)
  BY <1>1, WFMin
<1>3. ASSUME NEW k \in S
      PROVE  m <= k
  <2>1. m \in Nat /\ k \in Nat
    OBVIOUS
  <2>2. ~(<<k, m>> \in NatLess)
    BY <1>2
  <2>3. ~(k < m)
    BY <2>1, <2>2 DEF NatLess
  <2>4. QED
    BY <2>1, <2>3
<1>4. QED
  BY <1>3

\* One of the two is the case.
LEMMA LowestOrNone ==
  ASSUME NEW records \in Seq(Scope), NEW i \in Nat \ {0}, NEW k \in Keys
  PROVE  NoneSaved(i, records, k) \/ \E j \in Nat : IsLowest(j, i, records, k)
<1> DEFINE S == {j \in i..Len(records) : records[j].saved[k] # Untouched}
<1>1. Len(records) \in Nat
  BY LenProperties
<1>2. CASE S = {}
  BY <1>2 DEF NoneSaved
<1>3. CASE S # {}
  <2>1. S \in SUBSET Nat
    BY <1>1
  <2>2. PICK m \in S : \A j \in S : m <= j
    <3> HIDE DEF S
    <3>1. QED
      BY <1>3, <2>1, Least
  <2>3. m \in i..Len(records) /\ m \in Nat /\ records[m].saved[k] # Untouched
    BY <2>1, <2>2
  <2>4. ASSUME NEW h \in i..(m - 1)
        PROVE  records[h].saved[k] = Untouched
    <3>1. h \in i..Len(records) /\ ~(m <= h)
      BY <1>1, <2>3
    <3>2. h \notin S
      BY <2>2, <3>1
    <3>3. QED
      BY <3>1, <3>2
  <2>5. IsLowest(m, i, records, k)
    BY <2>3, <2>4 DEF IsLowest
  <2>6. QED
    BY <2>3, <2>5
<1>4. QED
  BY <1>2, <1>3

\* The lowest record has the last word.
LEMMA UnwindLowest ==
  ASSUME NEW records \in Seq(Scope), NEW i \in Nat \ {0}, NEW k \in Keys,
         NEW e, NEW j \in Nat, IsLowest(j, i, records, k)
  PROVE  UnwindTo(i, records, e)[k] = records[j].saved[k]
<1> DEFINE lowest == CHOOSE c \in i..Len(records) : IsLowest(c, i, records, k)
<1>1. j \in i..Len(records) /\ ~NoneSaved(i, records, k)
  BY DEF IsLowest, NoneSaved
<1>2. lowest \in i..Len(records) /\ IsLowest(lowest, i, records, k)
  BY <1>1, Zenon
<1> HIDE DEF lowest
<1>3. lowest = j
  <2>1. lowest \in Int /\ j \in Int /\ i \in Int
    BY <1>1, <1>2, LenProperties
  <2>2. ~(lowest < j)
    BY <1>2, <2>1 DEF IsLowest
  <2>3. ~(j < lowest)
    BY <1>1, <1>2, <2>1 DEF IsLowest
  <2>4. QED
    BY <2>1, <2>2, <2>3
<1>4. UnwindTo(i, records, e)[k] = records[lowest].saved[k]
  BY <1>1, Zenon DEF UnwindTo, Unwound, lowest
<1>5. QED
  BY <1>3, <1>4

\* A variable nobody saved is left alone.
LEMMA UnwindNone ==
  ASSUME NEW records, NEW i, NEW k \in Keys, NEW e, NoneSaved(i, records, k)
  PROVE  UnwindTo(i, records, e)[k] = e[k]
  BY DEF UnwindTo, Unwound

\* Two environments UnwindTo computes are equal when they agree everywhere.
LEMMA UnwindEqual ==
  ASSUME NEW r1, NEW r2, NEW e1, NEW e2, NEW i, NEW j,
         \A k \in Keys : UnwindTo(i, r1, e1)[k] = UnwindTo(j, r2, e2)[k]
  PROVE  UnwindTo(i, r1, e1) = UnwindTo(j, r2, e2)
<1>1. \A k \in Keys : Unwound(i, r1, e1, k) = Unwound(j, r2, e2, k)
  BY Zenon DEF UnwindTo
<1>2. QED
  BY <1>1, Zenon DEF UnwindTo

\* UnwindTo is an environment.
LEMMA UnwindType ==
  ASSUME NEW records \in Seq(Scope), NEW i \in Nat \ {0},
         NEW e \in [Keys -> Values]
  PROVE  UnwindTo(i, records, e) \in [Keys -> Values]
<1> DEFINE f == UnwindTo(i, records, e)
<1>1. f = [k \in Keys |-> Unwound(i, records, e, k)]
  BY DEF UnwindTo
<1>2. ASSUME NEW k \in Keys
      PROVE  f[k] \in Values
  <2>1. CASE NoneSaved(i, records, k)
    BY <2>1, UnwindNone
  <2>2. ASSUME NEW j \in Nat, IsLowest(j, i, records, k)
        PROVE  f[k] \in Values
    <3>1. j \in 1..Len(records) /\ records[j].saved[k] # Untouched
      BY <2>2, LenProperties DEF IsLowest
    <3>2. records[j] \in Scope
      BY <3>1, ElementOfSeq
    <3>3. records[j].saved[k] \in Values
      BY <3>1, <3>2 DEF Scope, Saved
    <3>4. QED
      BY <2>2, <3>3, UnwindLowest
  <2>3. QED
    BY <2>1, <2>2, LowestOrNone
<1>3. ASSUME NEW k \in Keys
      PROVE  Unwound(i, records, e, k) \in Values
  BY <1>1, <1>2
<1>4. QED
  BY <1>1, <1>3

-----------------------------------------------------------------------------
(* How UnwindTo changes with the records.                                  *)

\* Two stacks lead back to the same environment when what decides about a
\* variable in the one gives what the other leads back to.
LEMMA UnwindSame ==
  ASSUME NEW r1 \in Seq(Scope), NEW r2, NEW e1, NEW e2,
         NEW i \in Nat \ {0},
         \A k \in Keys, j \in Nat :
           IsLowest(j, i, r1, k) => UnwindTo(i, r2, e2)[k] = r1[j].saved[k],
         \A k \in Keys :
           NoneSaved(i, r1, k) => UnwindTo(i, r2, e2)[k] = e1[k]
  PROVE  UnwindTo(i, r2, e2) = UnwindTo(i, r1, e1)
<1>1. ASSUME NEW k \in Keys
      PROVE  UnwindTo(i, r2, e2)[k] = UnwindTo(i, r1, e1)[k]
  <2>1. CASE NoneSaved(i, r1, k)
    BY <2>1, UnwindNone
  <2>2. ASSUME NEW j \in Nat, IsLowest(j, i, r1, k)
        PROVE  UnwindTo(i, r2, e2)[k] = UnwindTo(i, r1, e1)[k]
    BY <2>2, UnwindLowest
  <2>3. QED
    BY <2>1, <2>2, LowestOrNone
<1>2. QED
  BY <1>1, UnwindEqual

\* Above the stack there is nothing to undo.
LEMMA UnwindAbove ==
  ASSUME NEW r \in Seq(Scope), NEW e \in [Keys -> Values]
  PROVE  UnwindTo(Len(r) + 1, r, e) = e
<1>1. ASSUME NEW k \in Keys
      PROVE  Unwound(Len(r) + 1, r, e, k) = e[k]
  <2>1. NoneSaved(Len(r) + 1, r, k)
    BY LenProperties DEF NoneSaved
  <2>2. QED
    BY <2>1 DEF Unwound
<1>2. QED
  BY <1>1 DEF UnwindTo

\* A record that has saved nothing yet makes no difference.
LEMMA UnwindFresh ==
  ASSUME NEW r \in Seq(Scope), NEW x \in Scope, x.saved = NothingSaved,
         NEW e, NEW i \in Nat \ {0}, i <= Len(r) + 1
  PROVE  UnwindTo(i, Append(r, x), e) = UnwindTo(i, r, e)
<1> DEFINE r2 == Append(r, x)
<1>1. /\ Len(r) \in Nat /\ r2 \in Seq(Scope) /\ Len(r2) = Len(r) + 1
      /\ r2[Len(r) + 1] = x
      /\ \A j \in 1..Len(r) : r2[j] = r[j]
  BY PushRecord, LenProperties
<1> HIDE DEF r2
<1>2. ASSUME NEW k \in Keys, NEW j \in Nat, IsLowest(j, i, r, k)
      PROVE  UnwindTo(i, r2, e)[k] = r[j].saved[k]
  <2>1. IsLowest(j, i, r2, k) /\ r2[j] = r[j]
    BY <1>1, <1>2 DEF IsLowest
  <2>2. QED
    BY <1>1, <2>1, UnwindLowest
<1>3. ASSUME NEW k \in Keys, NoneSaved(i, r, k)
      PROVE  UnwindTo(i, r2, e)[k] = e[k]
  <2>1. \A j \in i..(Len(r) + 1) : j = Len(r) + 1 \/ j \in i..Len(r)
    BY <1>1
  <2>2. \A j \in i..Len(r) : r2[j] = r[j]
    BY <1>1
  <2>3. x.saved[k] = Untouched
    BY DEF NothingSaved
  <2>4. NoneSaved(i, r2, k)
    BY <1>1, <1>3, <2>1, <2>2, <2>3 DEF NoneSaved
  <2>5. QED
    BY <2>4, UnwindNone
<1>4. UnwindTo(i, r2, e) = UnwindTo(i, r, e)
  BY <1>2, <1>3, UnwindSame
<1>5. QED
  BY <1>4 DEF r2

\* Setting a variable after noting what it was makes no difference.
LEMMA UnwindApply ==
  ASSUME NEW r \in Seq(Scope), NEW x1 \in Scope, NEW x2 \in Scope,
         NEW e \in [Keys -> Values], NEW e2,
         NEW i \in Nat \ {0}, i <= Len(r) + 1,
         \A k \in Keys :
           \/ x1.saved[k] # Untouched /\ x2.saved[k] = x1.saved[k]
           \/ x1.saved[k] = Untouched /\ x2.saved[k] = e[k]
           \/ /\ x1.saved[k] = Untouched
              /\ x2.saved[k] = Untouched /\ e2[k] = e[k]
  PROVE  UnwindTo(i, Append(r, x2), e2) = UnwindTo(i, Append(r, x1), e)
<1> DEFINE d == x1.saved
           f == x2.saved
           r1 == Append(r, x1)
           r2 == Append(r, x2)
           n == Len(r) + 1
<1>3. \A k \in Keys :
        /\ e[k] # Untouched
        /\ d[k] # Untouched => f[k] = d[k]
        /\ d[k] = Untouched =>
             f[k] = e[k] \/ (f[k] = Untouched /\ e2[k] = e[k])
  BY ConstantsAssumption
<1>4. /\ r1 \in Seq(Scope) /\ Len(r1) = n /\ r1[n] = x1
      /\ \A j \in 1..Len(r) : r1[j] = r[j]
  BY PushRecord
<1>5. /\ r2 \in Seq(Scope) /\ Len(r2) = n /\ r2[n] = x2
      /\ \A j \in 1..Len(r) : r2[j] = r[j]
  BY PushRecord
<1>6. Len(r) \in Nat /\ n \in Nat /\ i <= n
  BY LenProperties
<1>7. \A j \in i..n : j # n => r1[j] = r2[j]
  BY <1>4, <1>5, <1>6
<1>8. r1[n].saved = d /\ r2[n].saved = f
  BY <1>4, <1>5
<1> HIDE DEF d, f, r1, r2, n
<1>9. ASSUME NEW k \in Keys, NEW j \in Nat, IsLowest(j, i, r1, k)
      PROVE  UnwindTo(i, r2, e2)[k] = r1[j].saved[k]
  <2>1. /\ j \in i..n /\ r1[j].saved[k] # Untouched
        /\ \A h \in i..(j - 1) : r1[h].saved[k] = Untouched
    BY <1>4, <1>9 DEF IsLowest
  <2>2. \A h \in i..(j - 1) : h \in i..n /\ h # n
    BY <1>6, <2>1
  <2>3. \A h \in i..(j - 1) : r2[h].saved[k] = Untouched
    BY <1>7, <2>1, <2>2
  <2>4. r2[j].saved[k] = r1[j].saved[k]
    BY <1>3, <1>7, <1>8, <2>1
  <2>5. IsLowest(j, i, r2, k)
    BY <1>5, <2>1, <2>3, <2>4 DEF IsLowest
  <2>6. QED
    BY <1>5, <2>4, <2>5, UnwindLowest
<1>10. ASSUME NEW k \in Keys, NoneSaved(i, r1, k)
       PROVE  UnwindTo(i, r2, e2)[k] = e[k]
  <2>1. \A j \in i..n : r1[j].saved[k] = Untouched
    BY <1>4, <1>10 DEF NoneSaved
  <2>2. n \in i..n /\ d[k] = Untouched
    BY <1>6, <1>8, <2>1
  <2>3. \A j \in i..n : j # n => r2[j].saved[k] = Untouched
    BY <1>7, <2>1
  <2>4. CASE f[k] = e[k]
    <3>1. r2[n].saved[k] = e[k] /\ e[k] # Untouched
      BY <1>3, <1>8, <2>2, <2>4
    <3>2. \A h \in i..(n - 1) : h \in i..n /\ h # n
      BY <1>6
    <3>3. IsLowest(n, i, r2, k)
      BY <1>5, <2>2, <2>3, <3>1, <3>2 DEF IsLowest
    <3>4. QED
      BY <1>5, <1>6, <3>1, <3>3, UnwindLowest
  <2>5. CASE f[k] = Untouched /\ e2[k] = e[k]
    <3>1. r2[n].saved[k] = Untouched /\ e2[k] = e[k]
      BY <1>8, <2>5
    <3>2. NoneSaved(i, r2, k)
      BY <1>5, <2>3, <3>1 DEF NoneSaved
    <3>3. QED
      BY <3>1, <3>2, UnwindNone
  <2>6. QED
    BY <1>3, <2>2, <2>4, <2>5
<1>11. UnwindTo(i, r2, e2) = UnwindTo(i, r1, e)
  BY <1>4, <1>9, <1>10, UnwindSame
<1>12. QED
  BY <1>11 DEF r1, r2

\* Stacks that saved the same lead back to the same.
LEMMA UnwindMark ==
  ASSUME NEW r \in Seq(Scope), NEW r2 \in Seq(Scope), NEW e,
         NEW i \in Nat \ {0}, Len(r2) = Len(r),
         \A j \in 1..Len(r) : r2[j].saved = r[j].saved
  PROVE  UnwindTo(i, r2, e) = UnwindTo(i, r, e)
<1>1. Len(r) \in Nat
  BY LenProperties
<1>2. \A j \in i..Len(r) : r2[j].saved = r[j].saved
  BY <1>1
<1>3. ASSUME NEW k \in Keys, NEW j \in Nat, IsLowest(j, i, r, k)
      PROVE  UnwindTo(i, r2, e)[k] = r[j].saved[k]
  <2>1. j \in i..Len(r) /\ \A h \in i..(j - 1) : h \in i..Len(r)
    BY <1>1, <1>3 DEF IsLowest
  <2>2. IsLowest(j, i, r2, k)
    BY <1>1, <1>2, <1>3, <2>1 DEF IsLowest
  <2>3. QED
    BY <1>1, <1>2, <2>1, <2>2, UnwindLowest
<1>4. ASSUME NEW k \in Keys, NoneSaved(i, r, k)
      PROVE  UnwindTo(i, r2, e)[k] = e[k]
  <2>1. NoneSaved(i, r2, k)
    BY <1>1, <1>2, <1>4 DEF NoneSaved
  <2>2. QED
    BY <2>1, UnwindNone
<1>5. QED
  BY <1>3, <1>4, UnwindSame

\* Undoing the top record gives the environment it stands for, and leaves the
\* records below it standing for what they stood for.
LEMMA UnwindPop ==
  ASSUME NEW r \in Seq(Scope), r # << >>, NEW e \in [Keys -> Values],
         NEW i \in Nat \ {0}, i <= Len(r)
  PROVE  UnwindTo(i, SubSeq(r, 1, Len(r) - 1),
                  RestoreSaved(e, r[Len(r)].saved)) = UnwindTo(i, r, e)
<1> DEFINE n == Len(r)
           r2 == SubSeq(r, 1, n - 1)
           e2 == RestoreSaved(e, r[n].saved)
<1>1. /\ n \in Nat \ {0} /\ r2 \in Seq(Scope) /\ Len(r2) = n - 1
      /\ \A j \in 1..(n - 1) : r2[j] = r[j]
  BY PopRecord
<1>2. \A k \in Keys : e2[k] = IF r[n].saved[k] = Untouched
                              THEN e[k] ELSE r[n].saved[k]
  BY DEF RestoreSaved
<1>3. i <= n
  OBVIOUS
<1> HIDE DEF n, r2, e2
<1>4. \A j \in i..(n - 1) : r2[j] = r[j]
  BY <1>1
<1>5. ASSUME NEW k \in Keys, NEW j \in Nat, IsLowest(j, i, r, k)
      PROVE  UnwindTo(i, r2, e2)[k] = r[j].saved[k]
  <2>1. /\ j \in i..n /\ r[j].saved[k] # Untouched
        /\ \A h \in i..(j - 1) : r[h].saved[k] = Untouched
    BY <1>5 DEF IsLowest, n
  <2>2. \A h \in i..(j - 1) : h \in i..(n - 1)
    BY <1>1, <2>1
  <2>3. \A h \in i..(j - 1) : r2[h].saved[k] = Untouched
    BY <1>4, <2>1, <2>2
  <2>4. CASE j = n
    <3>1. NoneSaved(i, r2, k)
      BY <1>1, <2>3, <2>4 DEF NoneSaved
    <3>2. e2[k] = r[j].saved[k]
      BY <1>2, <2>1, <2>4
    <3>3. QED
      BY <3>1, <3>2, UnwindNone
  <2>5. CASE j # n
    <3>1. j \in i..(n - 1)
      BY <1>1, <2>1, <2>5
    <3>2. r2[j] = r[j]
      BY <1>4, <3>1
    <3>3. IsLowest(j, i, r2, k)
      BY <1>1, <2>1, <2>3, <3>1, <3>2 DEF IsLowest
    <3>4. QED
      BY <1>1, <3>2, <3>3, UnwindLowest
  <2>6. QED
    BY <2>4, <2>5
<1>6. ASSUME NEW k \in Keys, NoneSaved(i, r, k)
      PROVE  UnwindTo(i, r2, e2)[k] = e[k]
  <2>1. \A j \in i..n : r[j].saved[k] = Untouched
    BY <1>6 DEF NoneSaved, n
  <2>2. n \in i..n /\ \A j \in i..(n - 1) : j \in i..n
    BY <1>1, <1>3
  <2>3. NoneSaved(i, r2, k)
    BY <1>1, <1>4, <2>1, <2>2 DEF NoneSaved
  <2>4. e2[k] = e[k]
    BY <1>2, <2>1, <2>2
  <2>5. QED
    BY <2>3, <2>4, UnwindNone
<1>7. UnwindTo(i, r2, e2) = UnwindTo(i, r, e)
  BY <1>5, <1>6, UnwindSame
<1>8. QED
  BY <1>7 DEF r2, e2, n

-----------------------------------------------------------------------------
(* How the records of a thread change with its steps.                      *)

\* The records of a thread are its stack, with the draft on top.
LEMMA RecordsType ==
  ASSUME TypeOK, NEW t \in Threads
  PROVE  /\ Records(t) \in Seq(Scope)
         /\ stack[t] \in Seq(Scope)
         /\ pc[t] # "applying" => Records(t) = stack[t]
<1>1. stack[t] \in Seq(Scope)
  BY DEF TypeOK
<1>2. [saved |-> draft[t], finished |-> FALSE] \in Scope
  BY DEF TypeOK, Scope
<1>3. Append(stack[t], [saved |-> draft[t], finished |-> FALSE]) \in Seq(Scope)
  BY <1>1, <1>2, PushRecord
<1>4. QED
  BY <1>1, <1>3 DEF Records

\* Entering a scope adds a record that has saved nothing.
LEMMA RecordsEnter ==
  ASSUME ProtocolInv, NEW t \in Threads, AcquireLock(t) \/ EnterNested(t)
  PROVE  LET x == [saved |-> NothingSaved, finished |-> FALSE]
         IN /\ x \in Scope
            /\ Records(t)' = Append(Records(t), x)
            /\ Records(t) = stack[t]
            /\ env' = env
<1>1. TypeOK /\ ThreadProtocol(t)
  BY DEF ProtocolInv, LockProtocol
<1>2. pc[t] # "applying" /\ pc'[t] = "applying"
  BY <1>1 DEF AcquireLock, EnterNested, Goto, TypeOK
<1>3. stack' = stack /\ draft' = draft /\ env' = env /\ draft[t] = NothingSaved
  BY <1>1, <1>2 DEF AcquireLock, EnterNested, ThreadProtocol
<1>4. NothingSaved \in Saved
  BY DEF NothingSaved, Saved
<1>5. QED
  BY <1>2, <1>3, <1>4 DEF Records, Scope

\* Setting a variable notes what it was in the draft.
LEMMA RecordsApply ==
  ASSUME TypeOK, NEW t \in Threads, NEW k \in Keys, NEW v \in Values,
         ApplySingleVar(t, k, v)
  PROVE  LET d == draft[t]
             f == [d EXCEPT ![k] = IF d[k] = Untouched THEN env[k] ELSE d[k]]
         IN /\ Records(t) = Append(stack[t], [saved |-> d, finished |-> FALSE])
            /\ Records(t)' = Append(stack[t], [saved |-> f, finished |-> FALSE])
            /\ env' = [env EXCEPT ![k] = v]
            /\ d \in Saved
<1>1. pc[t] = "applying" /\ pc' = pc /\ stack' = stack
  BY DEF ApplySingleVar
<1>2. /\ draft[t] \in Saved
      /\ draft'[t] = [draft[t] EXCEPT ![k] =
                        IF draft[t][k] = Untouched THEN env[k] ELSE draft[t][k]]
  BY DEF ApplySingleVar, TypeOK
<1>3. env' = [env EXCEPT ![k] = v]
  BY DEF ApplySingleVar
<1>4. QED
  BY <1>1, <1>2, <1>3 DEF Records

\* Pushing the draft changes nothing.
LEMMA RecordsPush ==
  ASSUME TypeOK, NEW t \in Threads, PushScope(t)
  PROVE  Records(t)' = Records(t) /\ env' = env
<1>1. /\ pc[t] = "applying" /\ pc'[t] = "run" /\ env' = env
      /\ stack'[t] = Append(stack[t], [saved |-> draft[t], finished |-> FALSE])
  BY DEF PushScope, Goto, TypeOK
<1>2. QED
  BY <1>1 DEF Records

\* Undoing the top record.
LEMMA RecordsPop ==
  ASSUME TypeOK, NEW t \in Threads,
         RestoreFinishedScope(t) \/ RestoreAnyScope(t)
  PROVE  LET r == stack[t]
         IN /\ r # << >> /\ r \in Seq(Scope)
            /\ Records(t) = r
            /\ Records(t)' = SubSeq(r, 1, Len(r) - 1)
            /\ env' = RestoreSaved(env, r[Len(r)].saved)
            /\ holder' = t
<1>1. /\ stack[t] # << >> /\ pc[t] # "applying" /\ pc' = pc /\ PopScope(t)
      /\ stack[t] \in Seq(Scope)
  BY DEF RestoreFinishedScope, RestoreAnyScope, TopFinished, TypeOK
<1>2. /\ stack'[t] = SubSeq(stack[t], 1, Len(stack[t]) - 1)
      /\ env' = RestoreSaved(env, stack[t][Len(stack[t])].saved)
      /\ holder' = t
  BY <1>1 DEF PopScope, TypeOK
<1>3. QED
  BY <1>1, <1>2 DEF Records

\* Accepting an index marks its record; refusing it changes no record.
LEMMA RecordsExit ==
  ASSUME TypeOK, NEW t \in Threads, NEW i \in Nat, pc[t] = "run", ExitScope(t, i)
  PROVE  /\ env' = env /\ Records(t) = stack[t]
         /\ \/ /\ i \in DOMAIN stack[t]
               /\ Records(t)' = [stack[t] EXCEPT ![i].finished = TRUE]
            \/ Records(t)' = stack[t]
<1>1. env' = env /\ Records(t) = stack[t]
  BY DEF ExitScope, Records
<1>2. \/ /\ i \in DOMAIN stack[t] /\ pc'[t] = "restoring"
         /\ stack'[t] = [stack[t] EXCEPT ![i].finished = TRUE]
      \/ pc'[t] = "resetting" /\ stack'[t] = stack[t]
  BY DEF ExitScope, Goto, TypeOK
<1>3. QED
  BY <1>1, <1>2 DEF Records

\* The other steps change no record and no variable.
LEMMA RecordsOther ==
  ASSUME TypeOK, NEW t \in Threads,
         \/ EnterOutermost(t) \/ ReleaseOutermostLock(t) \/ Panic(t) \/ Caught(t)
         \/ \E i \in 1..MaxScopes : LeakGuard(t, i)
  PROVE  Records(t)' = Records(t) /\ env' = env
<1>1. /\ stack' = stack /\ env' = env
      /\ pc[t] # "applying" /\ pc'[t] # "applying"
  BY DEF EnterOutermost, ReleaseOutermostLock, Panic, Caught, LeakGuard, Goto,
         TypeOK
<1>2. QED
  BY <1>1 DEF Records

\* The steps of a thread leave the records of the others alone.
LEMMA RecordsFrame ==
  ASSUME TypeOK, NEW t \in Threads, Step(t), NEW u \in Threads, u # t
  PROVE  Records(u)' = Records(u)
<1>1. pc'[u] = pc[u] /\ stack'[u] = stack[u] /\ draft'[u] = draft[u]
  BY StepFrame
<1>2. QED
  BY <1>1 DEF Records

-----------------------------------------------------------------------------
(* What is to be undone is lost to a panic only.                           *)

\* The step of a holder that keeps the mutex, under any fault.
LEMMA HolderKeepsBase ==
  ASSUME ProtocolInv, NEW t \in Threads, Step(t), holder = t, holder' = t,
         pc[t] = "applying" => ~panicking'[t]
  PROVE  UnwindTo(1, Records(t)', env') = UnwindTo(1, Records(t), env)
<1> DEFINE Kept == UnwindTo(1, Records(t)', env') = UnwindTo(1, Records(t), env)
<1>1. TypeOK /\ t # NoThread
  BY ConstantsAssumption DEF ProtocolInv
<1>2. /\ Records(t) \in Seq(Scope) /\ stack[t] \in Seq(Scope)
      /\ Len(stack[t]) \in Nat /\ env \in [Keys -> Values]
      /\ 1 \in Nat \ {0} /\ 1 <= Len(stack[t]) + 1
  BY <1>1, RecordsType, LenProperties DEF TypeOK
<1>3. ASSUME Records(t)' = Records(t), env' = env
      PROVE  Kept
  BY <1>3
<1>4. CASE AcquireLock(t) \/ EnterNested(t)
  <2> DEFINE x == [saved |-> NothingSaved, finished |-> FALSE]
  <2>1. /\ x \in Scope /\ x.saved = NothingSaved
        /\ Records(t)' = Append(stack[t], x) /\ Records(t) = stack[t]
        /\ env' = env
    BY <1>4, RecordsEnter
  <2> HIDE DEF x
  <2>2. UnwindTo(1, Append(stack[t], x), env) = UnwindTo(1, stack[t], env)
    BY <1>2, <2>1, UnwindFresh
  <2>3. QED
    BY <2>1, <2>2
<1>5. ASSUME NEW k \in Keys, NEW v \in Values, ApplySingleVar(t, k, v)
      PROVE  Kept
  <2> DEFINE d == draft[t]
             f == [d EXCEPT ![k] = IF d[k] = Untouched THEN env[k] ELSE d[k]]
  <2>1. /\ Records(t) = Append(stack[t], [saved |-> d, finished |-> FALSE])
        /\ Records(t)' = Append(stack[t], [saved |-> f, finished |-> FALSE])
        /\ env' = [env EXCEPT ![k] = v]
        /\ d \in Saved
    BY <1>1, <1>5, RecordsApply, Zenon
  <2> DEFINE x1 == [saved |-> d, finished |-> FALSE]
             x2 == [saved |-> f, finished |-> FALSE]
  <2>2. d \in Saved /\ f \in Saved
    BY <1>2, <2>1 DEF Saved
  <2>3. x1 \in Scope /\ x2 \in Scope /\ x1.saved = d /\ x2.saved = f
    BY <2>2 DEF Scope
  <2>4. \A c \in Keys :
          \/ d[c] # Untouched /\ f[c] = d[c]
          \/ d[c] = Untouched /\ f[c] = env[c]
          \/ d[c] = Untouched /\ f[c] = Untouched /\ env'[c] = env[c]
    BY <1>2, <2>1 DEF Saved
  <2>5. Records(t)' = Append(stack[t], x2) /\ Records(t) = Append(stack[t], x1)
    BY <2>1
  <2> HIDE DEF d, f, x1, x2
  <2>6. UnwindTo(1, Append(stack[t], x2), env')
          = UnwindTo(1, Append(stack[t], x1), env)
    BY <1>2, <2>3, <2>4, UnwindApply
  <2>7. QED
    BY <2>5, <2>6
<1>6. CASE PushScope(t)
  BY <1>1, <1>3, <1>6, RecordsPush
<1>7. ASSUME NEW i \in Nat, pc[t] = "run", ExitScope(t, i)
      PROVE  Kept
  <2>1. /\ env' = env /\ Records(t) = stack[t]
        /\ \/ /\ i \in DOMAIN stack[t]
              /\ Records(t)' = [stack[t] EXCEPT ![i].finished = TRUE]
           \/ Records(t)' = stack[t]
    BY <1>1, <1>7, RecordsExit
  <2>2. CASE Records(t)' = stack[t]
    BY <2>1, <2>2
  <2>3. CASE /\ i \in DOMAIN stack[t]
             /\ Records(t)' = [stack[t] EXCEPT ![i].finished = TRUE]
    <3>1. /\ Records(t)' \in Seq(Scope) /\ Len(Records(t)') = Len(stack[t])
          /\ \A j \in 1..Len(stack[t]) :
               Records(t)'[j].saved = stack[t][j].saved
      BY <1>2, <2>3, MarkRecord
    <3>2. UnwindTo(1, Records(t)', env) = UnwindTo(1, stack[t], env)
      BY <1>2, <3>1, UnwindMark
    <3>3. QED
      BY <2>1, <3>2
  <2>4. QED
    BY <2>1, <2>2, <2>3
<1>8. CASE RestoreFinishedScope(t) \/ RestoreAnyScope(t)
  <2> DEFINE r == stack[t]
  <2>1. /\ r # << >> /\ r \in Seq(Scope) /\ Records(t) = r
        /\ Records(t)' = SubSeq(r, 1, Len(r) - 1)
        /\ env' = RestoreSaved(env, r[Len(r)].saved)
    BY <1>1, <1>8, RecordsPop
  <2>2. 1 <= Len(r)
    BY <2>1, PopRecord
  <2> HIDE DEF r
  <2>3. UnwindTo(1, SubSeq(r, 1, Len(r) - 1), RestoreSaved(env, r[Len(r)].saved))
          = UnwindTo(1, r, env)
    BY <1>2, <2>1, <2>2, UnwindPop
  <2>4. QED
    BY <2>1, <2>3
<1>9. CASE \/ EnterOutermost(t) \/ ReleaseOutermostLock(t) \/ Panic(t)
           \/ Caught(t) \/ \E i \in 1..MaxScopes : LeakGuard(t, i)
  BY <1>1, <1>3, <1>9, RecordsOther
<1>10. ~ResetDepthAndUnlock(t) /\ ~ThreadExit(t)
  BY <1>1 DEF ResetDepthAndUnlock, ThreadExit, Unlock
<1>11. ~RejectKey(t)
  BY <1>1 DEF RejectKey, TypeOK
<1>12. ASSUME NEW i \in 1..MaxScopes, DropGuard(t, i)
       PROVE  Kept
  BY <1>7, <1>12 DEF DropGuard
<1>13. ASSUME NEW i \in 1..(MaxScopes + 1), StrayExit(t, i)
       PROVE  Kept
  BY <1>7, <1>13 DEF StrayExit
<1>14. QED
  BY <1>4, <1>5, <1>6, <1>8, <1>9, <1>10, <1>11, <1>12, <1>13 DEF Step

\* Under every fault, while a thread keeps the mutex, what its records lead
\* back to stays the same, unless it panics in apply_env_vars.
THEOREM BaseKept == Spec => BaseOnlyLostToPanic
<1> DEFINE Kept(t) ==
      (holder = t /\ holder' = t /\ (pc[t] = "applying" => ~panicking'[t]))
        => UnwindTo(1, Records(t), env)' = UnwindTo(1, Records(t), env)
<1>1. ASSUME ProtocolInv, NEW u \in Threads, Step(u), NEW t \in Threads
      PROVE  Kept(t)
  <2>1. CASE t = u
    BY <1>1, <2>1, HolderKeepsBase
  <2>2. CASE t # u
    <3> SUFFICES ASSUME holder = t, holder' = t
                 PROVE  UnwindTo(1, Records(t), env)' = UnwindTo(1, Records(t), env)
      OBVIOUS
    <3>1. TypeOK
      BY <1>1 DEF ProtocolInv
    <3>2. Records(t)' = Records(t)
      BY <1>1, <2>2, <3>1, RecordsFrame
    <3>3. env' = env
      <4>1. t # NoThread /\ (pc[u] = "applying" => holder = u)
        BY <1>1, ConstantsAssumption
        DEF ProtocolInv, LockProtocol, ThreadProtocol
      <4>2. QED
        BY <1>1, <2>2, <4>1
        DEF Step, EnterOutermost, AcquireLock, EnterNested, ApplySingleVar,
            RejectKey, PushScope, DropGuard, StrayExit, ExitScope,
            RestoreFinishedScope, RestoreAnyScope, PopScope,
            ReleaseOutermostLock, ResetDepthAndUnlock, LeakGuard, Panic, Caught,
            ThreadExit
    <3>4. QED
      BY <3>2, <3>3
  <2>3. QED
    BY <2>1, <2>2
<1>2. ASSUME UNCHANGED vars, NEW t \in Threads
      PROVE  Kept(t)
  BY <1>2 DEF vars, Records
<1>3. ProtocolInv /\ [Next]_vars => [\A t \in Threads : Kept(t)]_vars
  BY <1>1 DEF Next, AllExited
<1>4. QED
  BY <1>3, ProtocolCorrect, PTL DEF Spec, BaseOnlyLostToPanic

-----------------------------------------------------------------------------
(* Snapshots.                                                              *)

WholeScope == [before : [Keys -> Values], closed : BOOLEAN]

\* The snapshots of a stack, one per record.
LEMMA SnapshotsType ==
  ASSUME NEW r \in Seq(Scope), NEW e \in [Keys -> Values]
  PROVE  /\ SnapshotsFrom(r, e) \in Seq(WholeScope)
         /\ Len(SnapshotsFrom(r, e)) = Len(r)
         /\ \A i \in 1..Len(r) :
              SnapshotsFrom(r, e)[i] = [before |-> UnwindTo(i, r, e),
                                        closed |-> r[i].finished]
<1>1. Len(r) \in Nat /\ DOMAIN r = 1..Len(r)
  BY LenProperties
<1>2. SnapshotsFrom(r, e) = [i \in 1..Len(r) |-> [before |-> UnwindTo(i, r, e),
                                                   closed |-> r[i].finished]]
  BY <1>1, Zenon DEF SnapshotsFrom
<1>3. ASSUME NEW i \in 1..Len(r)
      PROVE  [before |-> UnwindTo(i, r, e), closed |-> r[i].finished] \in WholeScope
  <2>1. i \in Nat \ {0} /\ r[i] \in Scope
    BY <1>1, <1>3, ElementOfSeq
  <2>2. UnwindTo(i, r, e) \in [Keys -> Values] /\ r[i].finished \in BOOLEAN
    BY <2>1, UnwindType DEF Scope
  <2>3. QED
    BY <2>2 DEF WholeScope
<1>4. QED
  BY <1>1, <1>2, <1>3

\* Stacks of one height that lead back to the same, with the same records
\* finished, have the same snapshots.
LEMMA SnapshotsSame ==
  ASSUME NEW r1 \in Seq(Scope), NEW r2 \in Seq(Scope), Len(r1) = Len(r2),
         NEW e1 \in [Keys -> Values], NEW e2 \in [Keys -> Values],
         \A i \in 1..Len(r1) : /\ UnwindTo(i, r1, e1) = UnwindTo(i, r2, e2)
                               /\ r1[i].finished = r2[i].finished
  PROVE  SnapshotsFrom(r1, e1) = SnapshotsFrom(r2, e2)
<1>1. ASSUME NEW i \in 1..Len(r1)
      PROVE  SnapshotsFrom(r1, e1)[i] = SnapshotsFrom(r2, e2)[i]
  <2>1. SnapshotsFrom(r1, e1)[i] = [before |-> UnwindTo(i, r1, e1),
                                    closed |-> r1[i].finished]
    BY SnapshotsType
  <2>2. SnapshotsFrom(r2, e2)[i] = [before |-> UnwindTo(i, r2, e2),
                                    closed |-> r2[i].finished]
    BY SnapshotsType
  <2>3. QED
    BY <2>1, <2>2
<1>2. SnapshotsFrom(r1, e1) \in Seq(WholeScope) /\ Len(SnapshotsFrom(r1, e1)) = Len(r1)
  BY SnapshotsType
<1>3. SnapshotsFrom(r2, e2) \in Seq(WholeScope) /\ Len(SnapshotsFrom(r2, e2)) = Len(r1)
  BY SnapshotsType
<1> DEFINE s1 == SnapshotsFrom(r1, e1)
           s2 == SnapshotsFrom(r2, e2)
<1> HIDE DEF s1, s2
<1>4. /\ s1 \in Seq(WholeScope) /\ s2 \in Seq(WholeScope) /\ Len(s1) = Len(s2)
      /\ \A i \in 1..Len(s1) : s1[i] = s2[i]
  BY <1>1, <1>2, <1>3 DEF s1, s2
<1>5. s1 = s2
  BY ONLY <1>4, SeqEqual
<1>6. QED
  BY <1>5 DEF s1, s2

\* A record that has saved nothing stands for the environment as it is.
LEMMA SnapshotsEnter ==
  ASSUME NEW r \in Seq(Scope), NEW e \in [Keys -> Values],
         NEW x \in Scope, x.saved = NothingSaved, x.finished = FALSE
  PROVE  SnapshotsFrom(Append(r, x), e)
           = Append(SnapshotsFrom(r, e), [before |-> e, closed |-> FALSE])
<1> DEFINE r2 == Append(r, x)
           n == Len(r) + 1
           s == SnapshotsFrom(r, e)
           w == [before |-> e, closed |-> FALSE]
<1>1. /\ r2 \in Seq(Scope) /\ Len(r2) = n /\ r2[n] = x /\ Len(r) \in Nat
      /\ \A i \in 1..Len(r) : r2[i] = r[i]
  BY PushRecord, LenProperties
<1>2. /\ s \in Seq(WholeScope) /\ Len(s) = Len(r)
      /\ \A i \in 1..Len(r) : s[i] = [before |-> UnwindTo(i, r, e),
                                      closed |-> r[i].finished]
  BY SnapshotsType
<1>3. /\ SnapshotsFrom(r2, e) \in Seq(WholeScope) /\ Len(SnapshotsFrom(r2, e)) = n
      /\ \A i \in 1..n :
           SnapshotsFrom(r2, e)[i] = [before |-> UnwindTo(i, r2, e),
                                      closed |-> r2[i].finished]
  BY <1>1, SnapshotsType
<1>4. w \in WholeScope
  BY DEF WholeScope
<1>5. \A i \in 1..n : i \in Nat \ {0} /\ i <= n /\ (i = n \/ i \in 1..Len(r))
  BY <1>1
<1>6. \A i \in 1..n : UnwindTo(i, r2, e) = UnwindTo(i, r, e)
  BY <1>5, UnwindFresh
<1>7. UnwindTo(n, r, e) = e
  BY UnwindAbove
<1> HIDE DEF s, w, n, r2
<1>8. /\ Append(s, w) \in Seq(WholeScope) /\ Len(Append(s, w)) = n
      /\ \A i \in 1..Len(r) : Append(s, w)[i] = s[i]
      /\ Append(s, w)[n] = w
  BY <1>1, <1>2, <1>4 DEF n
<1>9. ASSUME NEW i \in 1..n
      PROVE  SnapshotsFrom(r2, e)[i] = Append(s, w)[i]
  <2>1. CASE i = n
    <3>1. SnapshotsFrom(r2, e)[n] = [before |-> UnwindTo(n, r2, e),
                                     closed |-> r2[n].finished]
      BY <1>3, <2>1
    <3>2. UnwindTo(n, r2, e) = e /\ r2[n].finished = FALSE
      BY <1>1, <1>6, <1>7, <2>1
    <3>3. QED
      BY <1>8, <2>1, <3>1, <3>2 DEF w
  <2>2. CASE i # n
    <3>1. i \in 1..Len(r)
      BY <1>5, <2>2
    <3>2. UnwindTo(i, r2, e) = UnwindTo(i, r, e) /\ r2[i] = r[i]
      BY <1>1, <1>6, <3>1
    <3>3. QED
      BY <1>2, <1>3, <1>8, <3>1, <3>2
  <2>3. QED
    BY <2>1, <2>2
<1>10. SnapshotsFrom(r2, e) = Append(s, w)
  BY <1>3, <1>8, <1>9, SeqEqual
<1>11. QED
  BY <1>10 DEF r2, s, w

\* Closing a snapshot leaves the environment it remembers.
LEMMA CloseWhole ==
  ASSUME NEW x \in WholeScope
  PROVE  /\ [x EXCEPT !.closed = TRUE] \in WholeScope
         /\ [x EXCEPT !.closed = TRUE] = [before |-> x.before, closed |-> TRUE]
<1> DEFINE y == [x EXCEPT !.closed = TRUE]
<1>1. y \in WholeScope /\ y.before = x.before /\ y.closed = TRUE
  BY DEF WholeScope
<1> HIDE DEF y
<1>2. y = [before |-> y.before, closed |-> y.closed]
  BY <1>1 DEF WholeScope
<1>3. QED
  BY <1>1, <1>2 DEF y

\* A sequence that differs from another in one place.
LEMMA PointUpdate ==
  ASSUME NEW S, NEW s \in Seq(S), NEW s2 \in Seq(S), NEW m \in DOMAIN s,
         NEW w \in S, Len(s2) = Len(s), s2[m] = w,
         \A j \in 1..Len(s) : j # m => s2[j] = s[j]
  PROVE  s2 = [s EXCEPT ![m] = w]
<1> DEFINE c == [s EXCEPT ![m] = w]
<1>1. m \in 1..Len(s)
  BY LenProperties
<1>2. /\ c \in Seq(S) /\ Len(c) = Len(s)
      /\ \A j \in 1..Len(s) : c[j] = IF j = m THEN w ELSE s[j]
  BY <1>1, ExceptSeq
<1>3. \A j \in 1..Len(s) : c[j] = s2[j]
  BY <1>2
<1>4. QED
  BY <1>2, <1>3, SeqEqual

\* Stack r2 is r with record m finished.
Marks(r, r2, m) ==
  /\ r2 \in Seq(Scope) /\ Len(r2) = Len(r) /\ r2[m].saved = r[m].saved
  /\ r2[m].finished = TRUE
  /\ \A j \in 1..Len(r) : j # m => r2[j] = r[j]

\* Sequence s2 is s with snapshot m closed.
Closes(s, s2, m) ==
  /\ s \in Seq(WholeScope) /\ s2 \in Seq(WholeScope) /\ Len(s2) = Len(s)
  /\ m \in DOMAIN s
  /\ s2[m] = [before |-> s[m].before, closed |-> TRUE]
  /\ \A j \in 1..Len(s) : j # m => s2[j] = s[j]

\* Marking a record closes the snapshot it stands for, and only that.
LEMMA SnapshotsMark ==
  ASSUME NEW r \in Seq(Scope), NEW e \in [Keys -> Values], NEW m \in DOMAIN r,
         NEW r2, Marks(r, r2, m)
  PROVE  /\ Closes(SnapshotsFrom(r, e), SnapshotsFrom(r2, e), m)
         /\ SnapshotsFrom(r, e)[m].closed = r[m].finished
<1> DEFINE s == SnapshotsFrom(r, e)
           s2 == SnapshotsFrom(r2, e)
<1>1. /\ Len(r) \in Nat /\ m \in 1..Len(r)
      /\ r2 \in Seq(Scope) /\ Len(r2) = Len(r)
      /\ r2[m].saved = r[m].saved /\ r2[m].finished = TRUE
      /\ \A j \in 1..Len(r) : j # m => r2[j] = r[j]
  BY LenProperties DEF Marks
<1>2. /\ s \in Seq(WholeScope) /\ Len(s) = Len(r)
      /\ \A i \in 1..Len(r) : s[i] = [before |-> UnwindTo(i, r, e),
                                      closed |-> r[i].finished]
  BY SnapshotsType
<1>3. /\ s2 \in Seq(WholeScope) /\ Len(s2) = Len(r)
      /\ \A i \in 1..Len(r) : s2[i] = [before |-> UnwindTo(i, r2, e),
                                       closed |-> r2[i].finished]
  BY <1>1, SnapshotsType
<1>4. \A i \in 1..Len(r) : UnwindTo(i, r2, e) = UnwindTo(i, r, e)
  <2>1. \A j \in 1..Len(r) : r2[j].saved = r[j].saved
    BY <1>1
  <2>2. QED
    BY <1>1, <2>1, UnwindMark
<1> HIDE DEF s, s2
<1>5. /\ s[m] = [before |-> UnwindTo(m, r, e), closed |-> r[m].finished]
      /\ s2[m] = [before |-> UnwindTo(m, r, e), closed |-> TRUE]
  BY <1>1, <1>2, <1>3, <1>4
<1>6. ASSUME NEW j \in 1..Len(s), j # m
      PROVE  s2[j] = s[j]
  <2>1. /\ s2[j] = [before |-> UnwindTo(j, r2, e), closed |-> r2[j].finished]
        /\ s[j] = [before |-> UnwindTo(j, r, e), closed |-> r[j].finished]
        /\ UnwindTo(j, r2, e) = UnwindTo(j, r, e)
        /\ r2[j] = r[j]
    BY <1>1, <1>2, <1>3, <1>4, <1>6
  <2>2. QED
    BY <2>1
<1>7. m \in DOMAIN s
  BY <1>1, <1>2, LenProperties
<1>8. s[m].closed = r[m].finished /\ s2[m] = [before |-> s[m].before, closed |-> TRUE]
  BY <1>5
<1>9. Closes(s, s2, m)
  BY <1>2, <1>3, <1>6, <1>7, <1>8 DEF Closes
<1>10. QED
  BY <1>8, <1>9 DEF s, s2

\* Undoing the top record goes back to the snapshot it stands for.
LEMMA SnapshotsPop ==
  ASSUME NEW r \in Seq(Scope), r # << >>, NEW e \in [Keys -> Values]
  PROVE  LET s == SnapshotsFrom(r, e)
             e2 == RestoreSaved(e, r[Len(r)].saved)
         IN /\ SnapshotsFrom(SubSeq(r, 1, Len(r) - 1), e2) = SubSeq(s, 1, Len(s) - 1)
            /\ e2 = s[Len(s)].before
            /\ s[Len(s)].closed = r[Len(r)].finished
            /\ s # << >>
<1> DEFINE n == Len(r)
           p == SubSeq(r, 1, n - 1)
           e2 == RestoreSaved(e, r[n].saved)
           s == SnapshotsFrom(r, e)
           s2 == SnapshotsFrom(p, e2)
           q == SubSeq(s, 1, n - 1)
<1>1. /\ n \in Nat \ {0} /\ p \in Seq(Scope) /\ Len(p) = n - 1
      /\ r[n] \in Scope
      /\ \A i \in 1..(n - 1) : p[i] = r[i]
  BY PopRecord
<1>2. e2 \in [Keys -> Values]
  BY <1>1, RestoreSavedType DEF Scope
<1>3. /\ s \in Seq(WholeScope) /\ Len(s) = n
      /\ \A i \in 1..n : s[i] = [before |-> UnwindTo(i, r, e),
                                 closed |-> r[i].finished]
  BY SnapshotsType
<1>4. \A i \in 1..n : UnwindTo(i, p, e2) = UnwindTo(i, r, e)
  <2>1. \A i \in 1..n : i \in Nat \ {0} /\ i <= Len(r)
    BY <1>1
  <2>2. QED
    BY <2>1, UnwindPop
<1> HIDE DEF n, p, e2
<1>5. /\ s2 \in Seq(WholeScope) /\ Len(s2) = n - 1
      /\ \A i \in 1..(n - 1) : s2[i] = [before |-> UnwindTo(i, p, e2),
                                        closed |-> p[i].finished]
  BY <1>1, <1>2, SnapshotsType
<1>6. UnwindTo(n, p, e2) = e2
  <2>1. n = Len(p) + 1
    BY <1>1
  <2>2. QED
    BY <1>1, <1>2, <2>1, UnwindAbove
<1> HIDE DEF s, s2
<1>7. /\ q \in Seq(WholeScope) /\ Len(q) = n - 1
      /\ \A i \in 1..(n - 1) : q[i] = s[i]
  BY <1>1, <1>3
<1> HIDE DEF q
<1>8. ASSUME NEW i \in 1..(n - 1)
      PROVE  s2[i] = q[i]
  <2>1. i \in 1..n
    BY <1>1
  <2>2. /\ s2[i] = [before |-> UnwindTo(i, p, e2), closed |-> p[i].finished]
        /\ s[i] = [before |-> UnwindTo(i, r, e), closed |-> r[i].finished]
        /\ UnwindTo(i, p, e2) = UnwindTo(i, r, e)
        /\ p[i] = r[i] /\ q[i] = s[i]
    BY <1>1, <1>3, <1>4, <1>5, <1>7, <2>1
  <2>3. QED
    BY <2>2
<1>9. s2 = q
  BY <1>5, <1>7, <1>8, SeqEqual
<1>10. n \in 1..n
  BY <1>1
<1>11. e2 = s[n].before /\ s[n].closed = r[n].finished /\ s # << >>
  BY <1>1, <1>3, <1>4, <1>6, <1>10
<1>12. QED
  BY <1>3, <1>9, <1>11 DEF n, p, e2, s, s2, q

-----------------------------------------------------------------------------
(* Each step is a step of EnvSnapshots.                                    *)

\* The snapshots before and after a step, when a thread holds the mutex.
LEMMA HeldBefore ==
  ASSUME NEW t \in Threads, holder = t
  PROVE  HeldScopes = SnapshotsFrom(Records(t), env)
  BY ConstantsAssumption DEF HeldScopes

LEMMA HeldAfter ==
  ASSUME NEW t \in Threads, holder' = t
  PROVE  HeldScopes' = SnapshotsFrom(Records(t)', env')
<1>1. t # NoThread
  BY ConstantsAssumption
<1>2. Records(holder)' = Records(t)'
  BY DEF Records
<1>3. HeldScopes' = IF holder' = NoThread THEN << >>
                    ELSE SnapshotsFrom(Records(holder)', env')
  BY DEF HeldScopes, SnapshotsFrom
<1>4. QED
  BY <1>1, <1>2, <1>3

\* Without faults, a step of a thread is one of EnvSnapshots or a stutter.
LEMMA StepImplements ==
  ASSUME CleanInv, Faults = {}, NEW t \in Threads, Step(t)
  PROVE  Snapshots!Next \/ UNCHANGED Snapshots!vars
<1> DEFINE Mapped == Snapshots!Next \/ UNCHANGED Snapshots!vars
<1>1. /\ TypeOK /\ ThreadProtocol(t) /\ GuardsMatch(t) /\ ProtocolInv
      /\ t # NoThread
  BY ConstantsAssumption
  DEF CleanInv, RestoreInv, ProtocolInv, LockProtocol, GuardsMatchRecords
<1>2. /\ Records(t) \in Seq(Scope) /\ stack[t] \in Seq(Scope)
      /\ env \in [Keys -> Values] /\ TypeOK'
  BY <1>1, RecordsType, StepType DEF TypeOK
<1>3. env' \in [Keys -> Values]
  BY <1>2 DEF TypeOK
<1>4. ASSUME env' = env, holder' = holder, HeldScopes' = HeldScopes
      PROVE  Mapped
  BY <1>4 DEF Snapshots!vars
<1>5. ASSUME env' = env, holder' = holder, holder = t => Records(t)' = Records(t)
      PROVE  Mapped
  <2>1. CASE holder = t
    <3>1. HeldScopes' = HeldScopes
      BY <1>5, <2>1, HeldBefore, HeldAfter
    <3>2. QED
      BY <1>4, <1>5, <3>1
  <2>2. CASE holder # t
    <3>1. holder \in Threads \union {NoThread}
      BY <1>1 DEF TypeOK
    <3>2. HeldScopes' = HeldScopes
      <4>1. CASE holder = NoThread
        BY <1>5, <4>1 DEF HeldScopes
      <4>2. ASSUME NEW u \in Threads, holder = u
            PROVE  HeldScopes' = HeldScopes
        <5>1. Records(u)' = Records(u)
          BY <1>1, <2>2, <4>2, RecordsFrame
        <5>2. QED
          BY <1>5, <4>2, <5>1, HeldBefore, HeldAfter
      <4>3. QED
        BY <3>1, <4>1, <4>2
    <3>3. QED
      BY <1>4, <1>5, <3>2
  <2>3. QED
    BY <2>1, <2>2
<1>6. CASE AcquireLock(t)
  <2> DEFINE x == [saved |-> NothingSaved, finished |-> FALSE]
  <2>1. /\ x \in Scope /\ x.saved = NothingSaved /\ x.finished = FALSE
        /\ Records(t)' = Append(Records(t), x) /\ Records(t) = stack[t]
        /\ env' = env
    BY <1>1, <1>6, RecordsEnter
  <2>2. holder = NoThread /\ holder' = t /\ stack[t] = << >>
    BY <1>1, <1>6 DEF AcquireLock, ThreadProtocol
  <2> HIDE DEF x
  <2>3. HeldScopes' = Append(SnapshotsFrom(stack[t], env),
                             [before |-> env, closed |-> FALSE])
    BY <1>2, <2>1, <2>2, HeldAfter, SnapshotsEnter
  <2>4. SnapshotsFrom(stack[t], env) = << >>
    <3>1. /\ SnapshotsFrom(stack[t], env) \in Seq(WholeScope)
          /\ Len(SnapshotsFrom(stack[t], env)) = 0
      BY <1>2, <2>2, SnapshotsType
    <3>2. QED
      BY <3>1, EmptySeq
  <2>5. HeldScopes' = << [before |-> env, closed |-> FALSE] >>
    BY <2>3, <2>4
  <2>6. Snapshots!Own(t)
    BY <2>1, <2>2, <2>5 DEF Snapshots!Own
  <2>7. QED
    BY <2>6 DEF Snapshots!Next
<1>7. CASE EnterNested(t)
  <2> DEFINE x == [saved |-> NothingSaved, finished |-> FALSE]
  <2>1. /\ x \in Scope /\ x.saved = NothingSaved /\ x.finished = FALSE
        /\ Records(t)' = Append(Records(t), x)
        /\ env' = env
    BY <1>1, <1>7, RecordsEnter
  <2>2. holder = t /\ holder' = t
    BY <1>1, <1>7 DEF EnterNested, ThreadProtocol
  <2> HIDE DEF x
  <2>3. HeldScopes' = Append(HeldScopes, [before |-> env, closed |-> FALSE])
    BY <1>2, <2>1, <2>2, HeldBefore, HeldAfter, SnapshotsEnter
  <2>4. Snapshots!Open
    BY <1>1, <2>1, <2>2, <2>3 DEF Snapshots!Open
  <2>5. QED
    BY <2>4 DEF Snapshots!Next
<1>8. ASSUME NEW k \in Keys, NEW v \in Values, ApplySingleVar(t, k, v)
      PROVE  Mapped
  <2> DEFINE d == draft[t]
             f == [d EXCEPT ![k] = IF d[k] = Untouched THEN env[k] ELSE d[k]]
             x1 == [saved |-> d, finished |-> FALSE]
             x2 == [saved |-> f, finished |-> FALSE]
             r1 == Append(stack[t], x1)
             r2 == Append(stack[t], x2)
             n == Len(stack[t]) + 1
  <2>1. /\ Records(t) = r1 /\ Records(t)' = r2
        /\ env' = [env EXCEPT ![k] = v]
        /\ d \in Saved
    BY <1>1, <1>8, RecordsApply, Zenon
  <2>2. holder = t /\ holder' = t
    BY <1>1, <1>8 DEF ApplySingleVar, ThreadProtocol
  <2>3. f \in Saved
    BY <1>2, <2>1 DEF Saved
  <2>4. /\ x1 \in Scope /\ x2 \in Scope /\ x1.saved = d /\ x2.saved = f
        /\ x1.finished = FALSE /\ x2.finished = FALSE
    BY <2>1, <2>3 DEF Scope
  <2>5. \A c \in Keys :
          \/ d[c] # Untouched /\ f[c] = d[c]
          \/ d[c] = Untouched /\ f[c] = env[c]
          \/ d[c] = Untouched /\ f[c] = Untouched /\ env'[c] = env[c]
    BY <1>2, <2>1 DEF Saved
  <2> HIDE DEF d, f, x1, x2
  <2>6. /\ r1 \in Seq(Scope) /\ Len(r1) = n /\ r1[n] = x1 /\ n \in Nat \ {0}
        /\ \A j \in 1..Len(stack[t]) : r1[j] = stack[t][j]
    BY <1>2, <2>4, PushRecord, LenProperties
  <2>7. /\ r2 \in Seq(Scope) /\ Len(r2) = n /\ r2[n] = x2
        /\ \A j \in 1..Len(stack[t]) : r2[j] = stack[t][j]
    BY <1>2, <2>4, PushRecord
  <2>8. \A i \in 1..n : i \in Nat \ {0} /\ i <= n
                        /\ (i = n \/ i \in 1..Len(stack[t]))
    BY <1>2, LenProperties
  <2>9. \A i \in 1..n : UnwindTo(i, r2, env') = UnwindTo(i, r1, env)
    BY <1>2, <2>4, <2>5, <2>8, UnwindApply
  <2>10. \A i \in 1..n : r1[i].finished = r2[i].finished
    BY <2>4, <2>6, <2>7, <2>8
  <2> HIDE DEF r1, r2, n
  <2>11. SnapshotsFrom(r2, env') = SnapshotsFrom(r1, env)
    <3>1. \A i \in 1..Len(r2) : /\ UnwindTo(i, r2, env') = UnwindTo(i, r1, env)
                                /\ r2[i].finished = r1[i].finished
      BY <2>7, <2>9, <2>10
    <3>2. r1 \in Seq(Scope) /\ r2 \in Seq(Scope) /\ Len(r2) = Len(r1)
      BY <2>6, <2>7
    <3>3. QED
      BY <1>2, <1>3, <3>1, <3>2, SnapshotsSame, ZenonT(40)
  <2>12. HeldScopes' = HeldScopes /\ HeldScopes = SnapshotsFrom(r1, env)
    <3>1. HeldScopes = SnapshotsFrom(r1, env)
      BY <2>1, <2>2, HeldBefore
    <3>2. HeldScopes' = SnapshotsFrom(r2, env')
      BY <2>1, <2>2, HeldAfter
    <3>3. QED
      BY <2>11, <3>1, <3>2
  <2>13. /\ HeldScopes \in Seq(WholeScope) /\ Len(HeldScopes) = n
         /\ HeldScopes[n] = [before |-> UnwindTo(n, r1, env),
                             closed |-> r1[n].finished]
    BY <1>2, <2>6, <2>12, SnapshotsType
  <2>14. HeldScopes # << >> /\ HeldScopes[Len(HeldScopes)].closed = FALSE
    BY <2>4, <2>6, <2>13
  <2>15. Snapshots!Set(k, v)
    BY <2>1, <2>2, <2>12, <2>14 DEF Snapshots!Set
  <2>16. QED
    BY <2>15 DEF Snapshots!Next
<1>9. CASE PushScope(t)
  <2>1. Records(t)' = Records(t) /\ env' = env
    BY <1>1, <1>9, RecordsPush
  <2>2. holder' = holder
    BY <1>9 DEF PushScope
  <2>3. QED
    BY <1>5, <2>1, <2>2
<1>10. ASSUME NEW i \in 1..MaxScopes, DropGuard(t, i)
       PROVE  Mapped
  <2>1. /\ i \in OpenIn(stack[t]) /\ i \in DOMAIN stack[t]
        /\ stack'[t] = [stack[t] EXCEPT ![i].finished = TRUE]
        /\ pc'[t] = "restoring"
        /\ holder = t /\ holder' = holder /\ env' = env
    BY <1>1, <1>10, DropAccepted
  <2>2. /\ Records(t) = stack[t] /\ Records(t)' = stack'[t]
        /\ ~stack[t][i].finished
    BY <1>10, <2>1 DEF Records, DropGuard, OpenIn
  <2>3. HeldScopes = SnapshotsFrom(stack[t], env)
    BY <2>1, <2>2, HeldBefore
  <2>4. HeldScopes' = SnapshotsFrom(stack'[t], env)
    BY <2>1, <2>2, HeldAfter
  <2>5. /\ HeldScopes' = [HeldScopes EXCEPT ![i].closed = TRUE]
        /\ i \in DOMAIN HeldScopes
        /\ HeldScopes[i].closed = stack[t][i].finished
    <3>1. /\ stack'[t] \in Seq(Scope) /\ Len(stack'[t]) = Len(stack[t])
          /\ stack'[t][i].saved = stack[t][i].saved /\ stack'[t][i].finished
          /\ \A j \in 1..Len(stack[t]) : j # i => stack'[t][j] = stack[t][j]
      BY <1>2, <2>1, MarkRecord
    <3>2. i \in 1..Len(stack'[t])
      BY <1>2, <2>1, <3>1, LenProperties
    <3>3. stack'[t][i] \in Scope
      BY <3>1, <3>2, ElementOfSeq
    <3>4. Marks(stack[t], stack'[t], i)
      BY <3>1, <3>3 DEF Marks, Scope
    <3>5. QED
      <4> DEFINE s == SnapshotsFrom(stack[t], env)
                 s2 == SnapshotsFrom(stack'[t], env)
                 w == s2[i]
      <4>1. Closes(s, s2, i) /\ s[i].closed = stack[t][i].finished
        BY <1>2, <2>1, <3>4, SnapshotsMark
      <4>2. /\ s \in Seq(WholeScope) /\ s2 \in Seq(WholeScope)
            /\ Len(s2) = Len(s) /\ i \in DOMAIN s
            /\ s[i].closed = stack[t][i].finished
            /\ s2[i] = [before |-> s[i].before, closed |-> TRUE]
            /\ \A j \in 1..Len(s) : j # i => s2[j] = s[j]
        BY <4>1 DEF Closes
      <4> HIDE DEF s, s2
      <4>3. i \in 1..Len(s) /\ s[i] \in WholeScope
        BY <4>2, LenProperties, ElementOfSeq
      <4>4. w \in WholeScope /\ w = [s[i] EXCEPT !.closed = TRUE]
        BY <4>2, <4>3, CloseWhole
      <4>5. s2 = [s EXCEPT ![i] = w]
        <5>1. s2[i] = w
          OBVIOUS
        <5> HIDE DEF w
        <5>2. QED
          BY <4>2, <4>4, <5>1, PointUpdate
      <4>6. HeldScopes = s /\ HeldScopes' = s2
        BY <2>3, <2>4 DEF s, s2
      <4> HIDE DEF w
      <4>7. HeldScopes' = [HeldScopes EXCEPT ![i] = w]
        BY <4>5, <4>6
      <4>8. HeldScopes' = [HeldScopes EXCEPT ![i].closed = TRUE]
        BY <4>4, <4>6, <4>7, Zenon
      <4>9. QED
        BY <4>2, <4>6, <4>8
  <2>6. Snapshots!Close(i)
    BY <2>1, <2>2, <2>5 DEF Snapshots!Close
  <2>7. QED
    BY <2>5, <2>6 DEF Snapshots!Next
<1>11. CASE RestoreFinishedScope(t)
  <2> DEFINE r == stack[t]
             e2 == RestoreSaved(env, r[Len(r)].saved)
             s == SnapshotsFrom(r, env)
  <2>1. /\ r # << >> /\ r \in Seq(Scope) /\ Records(t) = r
        /\ Records(t)' = SubSeq(r, 1, Len(r) - 1)
        /\ env' = e2 /\ holder' = t
    BY <1>1, <1>11, RecordsPop
  <2>2. holder = t /\ r[Len(r)].finished
    BY <1>1, <1>11 DEF RestoreFinishedScope, TopFinished, ThreadProtocol
  <2>3. /\ SnapshotsFrom(SubSeq(r, 1, Len(r) - 1), e2) = SubSeq(s, 1, Len(s) - 1)
        /\ e2 = s[Len(s)].before
        /\ s[Len(s)].closed = r[Len(r)].finished
        /\ s # << >>
    BY <1>2, <2>1, SnapshotsPop
  <2>4. HeldScopes = s /\ HeldScopes' = SnapshotsFrom(SubSeq(r, 1, Len(r) - 1), e2)
    BY <2>1, <2>2, HeldBefore, HeldAfter
  <2> HIDE DEF r, e2, s
  <2>5. Snapshots!Undo
    BY <2>1, <2>2, <2>3, <2>4 DEF Snapshots!Undo
  <2>6. QED
    BY <2>5 DEF Snapshots!Next
<1>12. ASSUME env' = env, holder = t, holder' = NoThread, stack[t] = << >>,
              pc[t] # "applying"
       PROVE  Mapped
  <2>1. HeldScopes = SnapshotsFrom(<< >>, env)
    BY <1>12, HeldBefore DEF Records
  <2>2. /\ SnapshotsFrom(<< >>, env) \in Seq(WholeScope)
        /\ Len(SnapshotsFrom(<< >>, env)) = 0
    BY <1>2, <1>12, SnapshotsType
  <2>3. HeldScopes = << >> /\ HeldScopes' = << >>
    BY <1>12, <2>1, <2>2, EmptySeq DEF HeldScopes
  <2>4. Snapshots!Disown
    BY <1>1, <1>12, <2>3 DEF Snapshots!Disown
  <2>5. QED
    BY <2>4 DEF Snapshots!Next
<1>13. CASE ReleaseOutermostLock(t)
  <2>1. Records(t)' = Records(t) /\ env' = env
    BY <1>1, <1>13, RecordsOther
  <2>2. CASE depth[t] = 0
    <3>1. Cardinality(OpenIn(stack[t])) = 0
      BY <1>1, <1>13, <2>2, StackFacts
      DEF ReleaseOutermostLock, ProtocolInv, DepthCoversOpenRecords,
          DepthCovers, OpenRecords
    <3>2. stack[t] = << >> /\ holder = t /\ pc[t] # "applying"
      BY <1>1, <1>13, <3>1, NoOpenMeansEmpty
      DEF ReleaseOutermostLock, ThreadProtocol
    <3>3. holder' = NoThread
      BY <1>13, <2>2, <3>2 DEF ReleaseOutermostLock, Unlock
    <3>4. QED
      BY <1>12, <2>1, <3>2, <3>3
  <2>3. CASE depth[t] > 0
    <3>1. holder' = holder
      BY <1>13, <2>3 DEF ReleaseOutermostLock
    <3>2. QED
      BY <1>5, <2>1, <3>1
  <2>4. QED
    BY <1>13, <2>2, <2>3 DEF ReleaseOutermostLock
<1>14. CASE ThreadExit(t)
  <2>1. env' = env /\ pc[t] = "run"
    BY <1>14 DEF ThreadExit
  <2>2. CASE holder = t
    <3>1. OpenIn(stack[t]) = {}
      BY <1>1, <1>14 DEF ThreadExit, LiveIndices, GuardsMatch
    <3>2. Cardinality(OpenIn(stack[t])) = 0
      BY <3>1, FS_EmptySet, Zenon
    <3>3. stack[t] = << >>
      BY <1>1, <2>1, <3>2, NoOpenMeansEmpty DEF ThreadProtocol
    <3>4. holder' = NoThread
      BY <1>14, <2>2 DEF ThreadExit, Unlock
    <3>5. QED
      BY <1>12, <2>1, <2>2, <3>3, <3>4
  <2>3. CASE holder # t
    <3>1. holder' = holder
      BY <1>14, <2>3 DEF ThreadExit, Unlock
    <3>2. QED
      BY <1>5, <2>1, <2>3, <3>1
  <2>4. QED
    BY <2>2, <2>3
<1>15. CASE EnterOutermost(t) \/ Panic(t) \/ Caught(t)
  <2>1. Records(t)' = Records(t) /\ env' = env
    BY <1>1, <1>15, RecordsOther
  <2>2. holder' = holder
    BY <1>15 DEF EnterOutermost, Panic, Caught
  <2>3. QED
    BY <1>5, <2>1, <2>2
<1>16. QED
  BY <1>6, <1>7, <1>8, <1>9, <1>10, <1>11, <1>13, <1>14, <1>15, <1>1
  DEF Step, RejectKey, StrayExit, LeakGuard, RestoreAnyScope,
      ResetDepthAndUnlock, GuardsMatch

\* Without faults, undo records that hold only the touched variables do what
\* snapshots of the whole environment would.
THEOREM SnapshotsImplemented ==
  ASSUME Faults = {}
  PROVE  Spec => ImplementsSnapshots
<1>1. Init => Snapshots!Init
  BY DEF Init, Snapshots!Init, HeldScopes
<1>2. CleanInv /\ [Next]_vars => [Snapshots!Next]_(Snapshots!vars)
  <2>1. ASSUME CleanInv, UNCHANGED vars
        PROVE  UNCHANGED Snapshots!vars
    BY <2>1 DEF vars, Snapshots!vars, HeldScopes, Records, SnapshotsFrom
  <2>2. QED
    BY <2>1, StepImplements DEF Next, AllExited
<1>3. QED
  BY <1>1, <1>2, CleanCorrect, PTL
  DEF Spec, ImplementsSnapshots, Snapshots!Spec

=============================================================================
