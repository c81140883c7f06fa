------------------------ MODULE SharedDatabaseProofs ------------------------
(***************************************************************************)
(* That a test finds the database it cloned: the server it works in is the *)
(* one it was given, a name has one owner at a time, and a template that   *)
(* is found is whole.                                                      *)
(***************************************************************************)
EXTENDS SharedClusterProofs

-----------------------------------------------------------------------------
(* What a test was given.                                                  *)

\* A test of another kind or with a cluster to itself asked for it.
LEMMA LastCall ==
  ASSUME SharedInv, NEW t \in Threads, test[t].calls # << >>
  PROVE  /\ Last(t) \in Kinds \cup {"own"} /\ Asks(t, Last(t))
         /\ OneKind(t) => \A i \in DOMAIN test[t].calls : test[t].calls[i] = Last(t)
<1> DEFINE c == test[t].calls
<1>1. c \in Seq(Kinds \cup {"own"}) /\ c # << >>
  BY TestParts DEF SharedInv
<1>2. Len(c) \in DOMAIN c /\ c[Len(c)] \in Kinds \cup {"own"}
  BY <1>1, EmptySeq
<1>3. QED
  BY <1>2 DEF Last, Asks, OneKind

\* The last of a sequence is the last without its head, or its head.
LEMMA LastOfTail ==
  ASSUME NEW S, NEW c \in Seq(S), c # << >>
  PROVE  /\ Tail(c) # << >> => Tail(c)[Len(Tail(c))] = c[Len(c)]
         /\ Tail(c) = << >> => c[1] = c[Len(c)]
<1> DEFINE n == Len(c)
           d == Tail(c)
<1>1. n \in Nat \ {0} /\ Len(d) = n - 1 /\ DOMAIN d = 1..(n - 1)
  BY TailParts
<1>2. \A i \in DOMAIN d : d[i] = c[i + 1]
  BY TailParts
<1>3. d \in Seq(S)
  OBVIOUS
<1>. HIDE DEF n, d
<1>4. ASSUME d # << >> PROVE d[Len(d)] = c[n]
  <2>1. Len(d) # 0
    BY <1>3, <1>4, EmptySeq
  <2>2. Len(d) \in DOMAIN d /\ Len(d) + 1 = n
    BY <1>1, <2>1
  <2>3. QED
    BY <1>2, <2>2
<1>5. ASSUME d = << >> PROVE n = 1
  <2>1. Len(d) = 0
    BY <1>5
  <2>2. QED
    BY <1>1, <2>1
<1>6. QED
  BY <1>4, <1>5 DEF n, d

\* A cluster that is served is no longer asked for; the last one asked for stays last.
LEMMA ServedKeepsLast ==
  ASSUME SharedInv, ProgressInv, NEW t \in Threads, calls[t] # << >>,
         calls' = [calls EXCEPT ![t] = Tail(@)], test' = test
  PROVE  /\ calls'[t] # << >> => calls'[t][Len(calls'[t])] = Last(t)'
         /\ calls'[t] = << >> => Kind(t) = Last(t)
<1>1. calls[t] \in Seq(Kinds \cup {"own"}) /\ calls'[t] = Tail(calls[t])
  BY DEF SharedInv, TypeOK
<1>2. calls[t][Len(calls[t])] = Last(t) /\ Last(t)' = Last(t)
  BY DEF ProgressInv, Progress, Last
<1>3. Kind(t) = calls[t][1]
  BY KindType DEF SharedInv
<1>4. /\ Tail(calls[t]) # << >> => Tail(calls[t])[Len(Tail(calls[t]))] = calls[t][Len(calls[t])]
      /\ Tail(calls[t]) = << >> => calls[t][1] = calls[t][Len(calls[t])]
  BY <1>1, LastOfTail
<1>5. QED
  BY <1>1, <1>2, <1>3, <1>4

LEMMA StepKeepsTest ==
  ASSUME NEW t \in Threads, Step(t)
  PROVE  test' = test
  BY DEF Step, Call, TakeSlot, LookForWorker, SetWorker, Bootstrap, ApplySandbox, SetupServer,
         StartServer, StartFails, Publish, Work, WorkDone, Close, dbs

LEMMA ProgressStays ==
  ASSUME NEW t \in Threads, Progress(t), UNCHANGED test,
         calls'[t] = calls[t], own'[t] = own[t], pc'[t] = pc[t], scopes'[t] = scopes[t],
         \A k \in Kinds : slot[k] = "ready" => slot'[k] = "ready",
         test[t].calls # << >> => Last(t) \in Kinds \cup {"own"}
  PROVE  Progress(t)'
<1>1. Last(t)' = Last(t)
  BY DEF Last
<1>2. QED
  BY <1>1 DEF Progress

\* What a step does to what its thread asks for.
LEMMA ProgressOfStep ==
  ASSUME SharedInv, ProgressInv, NEW t \in Threads, Step(t)
  PROVE  Progress(t)'
<1>0. /\ TypeOK /\ Protocol(t) /\ Progress(t) /\ scopes[t] \in Nat /\ pc[t] # "over"
      /\ test' = test /\ Last(t)' = Last(t) /\ test[t].calls # << >>
  <2>1. TypeOK /\ Protocol(t) /\ Progress(t) /\ scopes[t] \in Nat
    BY DEF SharedInv, ProgressInv, TypeOK
  <2>2. pc[t] # "over"
    BY DEF Step, Call, TakeSlot, LookForWorker, SetWorker, Bootstrap, ApplySandbox, SetupServer,
           StartServer, StartFails, Publish, Work, WorkDone, Close
  <2>3. test' = test
    BY <2>2, StepKeepsTest
  <2>4. QED
    BY <2>1, <2>2, <2>3 DEF Progress, Last
<1>1. pc[t] \in Asking => calls[t] # << >>
  BY <1>0 DEF Protocol
<1>2. ASSUME calls' = calls, own' = own, slot' = slot, scopes' = scopes,
             pc'[t] \notin {"setup", "start", "hook", "over"},
             pc'[t] = "db" => calls[t] = << >>
      PROVE  Progress(t)'
  <2>1. own[t] => scopes[t] > 0
    BY <1>0 DEF Progress
  <2>2. QED
    BY <1>0, <1>2, <2>1 DEF Progress, Starting
<1>3. ASSUME calls' = calls, own' = own, pc'[t] = "close", calls[t] # << >>,
             own[t] => scopes'[t] > 0
      PROVE  Progress(t)'
  BY <1>0, <1>3 DEF Progress, Starting
<1>4. ASSUME Served(t), calls[t] # << >>, own'[t] => scopes'[t] > 0,
             Kind(t) = Last(t) => IF Last(t) = "own" THEN own'[t] ELSE slot'[Last(t)] = "ready"
      PROVE  Progress(t)'
  <2>1. pc'[t] = "call"
    BY <1>0, <1>4 DEF Served, To, TypeOK
  <2>2. /\ calls'[t] # << >> => calls'[t][Len(calls'[t])] = Last(t)'
        /\ calls'[t] = << >> => Kind(t) = Last(t)
    BY <1>0, <1>4, ServedKeepsLast DEF Served
  <2>3. QED
    BY <1>0, <1>4, <2>1, <2>2 DEF Progress, Starting
<1>5. CASE Call(t)
  <2>1. pc[t] = "call" /\ UNCHANGED <<calls, own, slot, scopes>>
    BY <1>5 DEF Call, locks
  <2>2. pc'[t] \in {"slot", "var", "db", "close"} /\ (pc'[t] = "db" => calls[t] = << >>)
    BY <1>0, <1>5 DEF Call, To, TypeOK
  <2>3. QED
    BY <1>2, <2>1, <2>2
<1>6. CASE TakeSlot(t)
  <2>1. pc[t] = "slot" /\ UNCHANGED <<own, slot, scopes>> /\ Kind(t) \in Kinds
    BY <1>0, <1>1, <1>6, KindType DEF TakeSlot, Protocol, Asking
  <2>2. slot[Kind(t)] \in {"none", "ready", "failed"}
    BY <1>0, <2>1 DEF TypeOK
  <2>3. CASE slot[Kind(t)] = "ready"
    <3>1. Served(t)
      BY <1>6, <2>3 DEF TakeSlot
    <3>2. own[t] => scopes[t] > 0
      BY <1>0 DEF Progress
    <3>3. Kind(t) # "own"
      BY <2>1 DEF Kinds
    <3>4. QED
      BY <1>0, <1>1, <1>4, <2>1, <2>3, <3>1, <3>2, <3>3 DEF Asking
  <2>4. CASE slot[Kind(t)] # "ready"
    <3>1. calls' = calls /\ pc'[t] \in {"var", "close"}
      BY <1>0, <1>6, <2>2, <2>4 DEF TakeSlot, To, TypeOK
    <3>2. QED
      BY <1>2, <2>1, <3>1
  <2>5. QED
    BY <2>3, <2>4
<1>7. CASE LookForWorker(t)
  <2>1. UNCHANGED <<calls, own, slot, scopes>> /\ pc'[t] \in {"worker", "boot"}
    BY <1>0, <1>7 DEF LookForWorker, To, TypeOK, locks
  <2>2. QED
    BY <1>2, <2>1
<1>8. CASE SetWorker(t)
  <2>1. UNCHANGED <<calls, own, slot>> /\ pc[t] = "worker" /\ pc'[t] = "boot"
        /\ scopes'[t] = scopes[t] + 1
    BY <1>0, <1>8 DEF SetWorker, EnterScope, To, TypeOK
  <2>2. QED
    BY <1>0, <1>1, <2>1 DEF Progress, Starting, Asking
<1>9. CASE ApplySandbox(t)
  <2>1. UNCHANGED <<calls, own, slot>> /\ pc[t] = "sandbox" /\ pc'[t] = "setup"
        /\ scopes'[t] = scopes[t] + 1
    BY <1>0, <1>9 DEF ApplySandbox, EnterScope, To, TypeOK
  <2>2. QED
    BY <1>0, <1>1, <2>1 DEF Progress, Starting, Asking
<1>10. ASSUME Fail(t), calls' = calls, own' = own, pc[t] \in {"boot", "setup", "start"}
       PROVE  Progress(t)'
  <2>1. pc'[t] = "close"
    BY <1>0, <1>10, FailTypes DEF TypeOK
  <2>2. ASSUME own[t] PROVE scopes'[t] > 0
    <3>1. scopes'[t] = scopes[t] - (IF pc[t] \in {"setup", "start"} THEN 1 ELSE 0)
      BY <1>0, <1>10, <2>2 DEF Fail, DropGuards, LeaveScopes, TypeOK
    <3>2. scopes[t] > IF pc[t] \in {"setup", "start"} THEN 1 ELSE 0
      BY <1>0, <2>2 DEF Progress, Starting
    <3>3. QED
      BY <1>0, <3>1, <3>2
  <2>3. QED
    BY <1>1, <1>3, <1>10, <2>1, <2>2 DEF Asking
<1>11. CASE Bootstrap(t)
  <2>1. pc[t] = "boot" /\ UNCHANGED <<calls, own>>
    BY <1>11 DEF Bootstrap
  <2>2. CASE Fail(t)
    BY <1>10, <2>1, <2>2
  <2>3. CASE To(t, "sandbox") /\ UNCHANGED <<slot, locks>>
    <3>1. pc'[t] = "sandbox" /\ UNCHANGED <<slot, scopes>>
      BY <1>0, <2>3 DEF To, TypeOK, locks
    <3>2. QED
      BY <1>2, <2>1, <3>1
  <2>4. QED
    BY <1>11, <2>2, <2>3 DEF Bootstrap
<1>12. CASE SetupServer(t)
  <2>1. UNCHANGED <<calls, own, slot, scopes>> /\ pc[t] = "setup" /\ pc'[t] = "start"
    BY <1>0, <1>12 DEF SetupServer, To, TypeOK, locks
  <2>2. QED
    BY <1>0, <1>1, <2>1 DEF Progress, Starting, Asking
<1>13. CASE StartServer(t)
  <2>1. pc[t] = "start" /\ UNCHANGED <<slot, scopes>>
    BY <1>13 DEF StartServer, locks
  <2>2. scopes[t] > 0
    BY <1>0, <2>1 DEF Protocol, Starting
  <2>3. CASE Kind(t) = "own"
    <3>1. Served(t) /\ own'[t] = TRUE
      BY <1>0, <1>13, <2>3 DEF StartServer, TypeOK
    <3>2. QED
      BY <1>1, <1>4, <2>1, <2>2, <2>3, <3>1 DEF Asking
  <2>4. CASE Kind(t) # "own"
    <3>1. pc'[t] = "hook" /\ UNCHANGED <<calls, own>>
      BY <1>0, <1>13, <2>4 DEF StartServer, To, TypeOK
    <3>2. QED
      BY <1>0, <1>1, <2>1, <2>2, <3>1 DEF Progress, Starting, Asking
  <2>5. QED
    BY <2>3, <2>4
<1>14. CASE StartFails(t)
  <2>1. Fail(t) /\ pc[t] \in {"setup", "start"} /\ UNCHANGED <<calls, own>>
    BY <1>14 DEF StartFails
  <2>2. QED
    BY <1>10, <2>1
<1>15. CASE Publish(t)
  <2>1. pc[t] = "hook" /\ UNCHANGED <<own, scopes>> /\ Served(t) /\ Kind(t) \in Kinds
    BY <1>0, <1>1, <1>15, KindType DEF Publish, Protocol, Asking
  <2>2. slot'[Kind(t)] = "ready" /\ Kind(t) # "own"
    BY <1>0, <1>15, <2>1 DEF Publish, TypeOK, Kinds
  <2>3. scopes[t] > 0
    BY <1>0, <2>1 DEF Progress
  <2>4. QED
    BY <1>1, <1>4, <2>1, <2>2, <2>3 DEF Asking
<1>16. CASE Work(t)
  <2>1. UNCHANGED <<pc, calls, own, slot, scopes>> /\ pc[t] = "db"
    BY <1>16 DEF Work, tests, locks
  <2>2. QED
    BY <1>0, <2>1 DEF Progress, Starting
<1>17. CASE WorkDone(t)
  <2>1. UNCHANGED <<calls, own, slot, scopes>> /\ pc'[t] = "close"
    BY <1>0, <1>17 DEF WorkDone, To, TypeOK, locks
  <2>2. QED
    BY <1>2, <2>1
<1>18. CASE Close(t)
  <2>1. pc'[t] = "over" /\ calls' = calls
    BY <1>0, <1>18 DEF Close, To, TypeOK
  <2>2. QED
    BY <1>0, <2>1 DEF Progress, Starting
<1>19. QED
  BY <1>5, <1>6, <1>7, <1>8, <1>9, <1>11, <1>12, <1>13, <1>14, <1>15, <1>16, <1>17, <1>18 DEF Step

\* A singleton was started for a test that asked for it.
LEMMA ReadyIsUsed ==
  ASSUME SharedInv, ProgressInv, NEW t \in Threads, Step(t), NEW k \in Kinds, slot'[k] = "ready"
  PROVE  Used(k)
<1>0. TypeOK /\ Protocol(t)
  BY DEF SharedInv
<1>1. ASSUME slot'[k] = slot[k] \/ slot' = [j \in Kinds |-> IF j = Kind(t) THEN "failed" ELSE slot[j]]
      PROVE  Used(k)
  BY <1>1 DEF ProgressInv
<1>2. CASE Publish(t)
  <2>1. calls[t] # << >>
    BY <1>0, <1>2 DEF Publish, Protocol, Asking
  <2>2. Asks(t, Kind(t))
    BY <1>0, <2>1, KindType DEF Protocol
  <2>3. k # Kind(t) => slot'[k] = slot[k]
    BY <1>0, <1>2 DEF Publish, TypeOK
  <2>4. QED
    BY <1>1, <2>2, <2>3 DEF Used
<1>3. CASE StartFails(t) \/ Bootstrap(t)
  <2>1. slot' = slot \/ Fail(t)
    BY <1>3 DEF StartFails, Bootstrap
  <2>2. QED
    BY <1>1, <2>1 DEF Fail
<1>4. CASE ~Publish(t) /\ ~StartFails(t) /\ ~Bootstrap(t)
  <2>1. slot' = slot
    BY <1>4 DEF Step, Call, TakeSlot, LookForWorker, SetWorker, ApplySandbox, SetupServer,
                StartServer, Work, WorkDone, Close
  <2>2. QED
    BY <1>1, <2>1
<1>5. QED
  BY <1>2, <1>3, <1>4

LEMMA ProgressInvHolds == Spec => []ProgressInv
<1>1. ASSUME Init PROVE ProgressInv
  <2>1. ASSUME NEW t \in Threads PROVE Progress(t)
    <3>1. /\ pc[t] = IF test[t].calls = << >> THEN "over" ELSE "call"
          /\ calls[t] = test[t].calls /\ own[t] = FALSE
      BY <1>1 DEF Init
    <3>2. QED
      BY <3>1 DEF Progress, Last
  <2>2. \A k \in Kinds : slot[k] = "none"
    BY <1>1 DEF Init
  <2>3. QED
    BY <2>1, <2>2 DEF ProgressInv
<1>2. ASSUME SharedInv, ProgressInv, UNCHANGED <<test, calls, own, pc, scopes, slot>>
      PROVE  ProgressInv'
  <2>1. ASSUME NEW t \in Threads PROVE Progress(t)'
    BY <1>2, LastCall, ProgressStays DEF ProgressInv
  <2>2. QED
    BY <1>2, <2>1 DEF ProgressInv, Used, Asks
<1>3. ASSUME SharedInv, HolderInv, ProgressInv, NEW t \in Threads, Step(t) PROVE ProgressInv'
  <2>1. test' = test /\ \A k \in Kinds : slot[k] = "ready" => slot'[k] = "ready"
    BY <1>3, SlotKept, StepKeepsTest
  <2>2. ASSUME NEW u \in Threads \ {t} PROVE Progress(u)'
    <3>1. /\ pc'[u] = pc[u] /\ calls'[u] = calls[u] /\ own'[u] = own[u]
          /\ scopes'[u] = scopes[u]
      BY <1>3, StepIsOwn
    <3>2. QED
      BY <1>3, <2>1, <3>1, LastCall, ProgressStays DEF ProgressInv
  <2>3. Progress(t)'
    BY <1>3, ProgressOfStep
  <2>4. \A k \in Kinds : slot'[k] = "ready" => Used(k)'
    <3>1. \A k : Used(k)' <=> Used(k)
      BY <2>1 DEF Used, Asks
    <3>2. QED
      BY <1>3, <3>1, ReadyIsUsed
  <2>5. QED
    BY <2>2, <2>3, <2>4 DEF ProgressInv
<1>4. SharedInv /\ HolderInv /\ ProgressInv /\ [Next]_vars => ProgressInv'
  <2>1. ASSUME SharedInv, ProgressInv, Others PROVE ProgressInv'
    <3>1. UNCHANGED <<test, tests, slot, locks>>
      BY <2>1, OthersTypes
    <3>2. QED
      BY <1>2, <2>1, <3>1 DEF tests, locks
  <2>2. ASSUME SharedInv, ProgressInv, UNCHANGED vars PROVE ProgressInv'
    BY <1>2, <2>2 DEF vars, dbs, tests, locks
  <2>3. QED
    BY <1>3, <2>1, <2>2 DEF Next, Others, Gone
<1>5. QED
  BY <1>1, <1>4, SharedHolds, HolderInvHolds, PTL DEF Spec

-----------------------------------------------------------------------------
(* The server a test works in.                                             *)

\* What a step does to the server and, but for work in it, to the databases: nothing; or
\* its thread starts a cluster, or ends one it has to itself.
LEMMA ServesEffect ==
  ASSUME SharedInv, NEW t \in Threads, Step(t)
  PROVE  \/ serves' = serves /\ (Work(t) \/ db' = db)
         \/ /\ pc[t] \in Starting
            /\ db' = db \/ (serves' = {} /\ db' = [d \in DOMAIN db |-> "absent"])
            /\ serves' \subseteq serves \cup {ClusterOf(t, Kind(t))}
         \/ /\ pc[t] = "close" /\ own[t]
            /\ serves' = {} /\ db' = [d \in DOMAIN db |-> "absent"]
<1>1. CASE Quiet(t)
  BY <1>1, QuietEffect
<1>2. CASE SetupServer(t)
  BY <1>2 DEF SetupServer, StopValue, Down, Starting
<1>3. CASE StartServer(t)
  BY <1>3 DEF StartServer, Up, Starting
<1>4. CASE StartFails(t)
  <2>1. pc[t] \in Starting
    BY <1>4 DEF StartFails, Starting
  <2>2. CASE RemoveData
    BY <2>1, <2>2 DEF RemoveData, Down
  <2>3. CASE UNCHANGED db /\ (serves' = serves \/ serves' = {})
    BY <2>1, <2>3
  <2>4. QED
    BY <1>4, <2>2, <2>3 DEF StartFails, StopValue, Down, Up
<1>5. CASE Publish(t)
  BY <1>5 DEF Publish, dbs
<1>6. CASE Close(t)
  <2>1. pc[t] = "close"
    BY <1>6 DEF Close
  <2>2. CASE own[t] /\ RemoveData
    BY <2>1, <2>2 DEF RemoveData, Down
  <2>3. CASE UNCHANGED <<serves, db>>
    BY <2>3
  <2>4. QED
    BY <1>6, <2>2, <2>3 DEF Close
<1>7. QED
  BY <1>1, <1>2, <1>3, <1>4, <1>5, <1>6, StepKinds

\* Nobody but its holder touches the server while a test holds ENV_LOCK.
LEMMA Undisturbed ==
  ASSUME SharedInv, HolderInv, ProgressInv, NEW t \in Threads, Step(t),
         NEW u \in Threads \ {t}, envLock = u
  PROVE  serves' = serves
<1>1. /\ scopes[t] \in Nat /\ Protocol(t) /\ Progress(t)
      /\ scopes[t] > 0 <=> envLock = t
  BY DEF SharedInv, TypeOK, ProgressInv, HolderInv, EnvHeld
<1>2. pc[t] \notin Starting
  BY <1>1 DEF Protocol
<1>3. ~(pc[t] = "close" /\ own[t])
  BY <1>1 DEF Progress, Starting
<1>4. QED
  BY <1>2, <1>3, ServesEffect

\* Where nobody is harmed, only the tests go on.
LEMMA OnlyTests ==
  ASSUME SharedInv, ExitInv, Others, Unharmed, Unharmed'
  PROVE  FALSE
<1>1. late = {}
  BY DEF ExitInv, Unharmed, After
<1>2. ~LateStep
  BY <1>1 DEF LateStep, LateSetup, LateStart
<1>3. ~ServerDies /\ ~ExitsEarly
  BY DEF ServerDies, ExitsEarly, Fault, Unharmed, After
<1>4. ~ExitStep
  BY DEF ExitStep, Exits, ReadPid, Stops, CleansUp, Exit, Unharmed
<1>5. QED
  BY <1>2, <1>3, <1>4 DEF Others

LEMMA StepBlames ==
  ASSUME SharedInv, NEW t \in Threads, Step(t)
  PROVE  blame \subseteq blame'
<1>1. CASE Work(t)
  BY <1>1, DbTypes DEF Work
<1>2. CASE StartFails(t)
  BY <1>2 DEF StartFails, GoesWrong, Fault
<1>3. CASE ~Work(t) /\ ~StartFails(t)
  BY <1>3 DEF Step, Call, TakeSlot, LookForWorker, SetWorker, Bootstrap, ApplySandbox, SetupServer,
              StartServer, Publish, WorkDone, Close, dbs
<1>4. QED
  BY <1>1, <1>2, <1>3

\* Harm is not undone.
LEMMA HarmStays ==
  ASSUME SharedInv, Next, Unharmed'
  PROVE  Unharmed
<1>1. CASE \E t \in Threads : Step(t)
  <2>1. PICK t \in Threads : Step(t)
    BY <1>1
  <2>2. blame \subseteq blame' /\ exit' = exit
    BY <2>1, StepBlames, StepKinds
  <2>3. QED
    BY <2>2 DEF Unharmed, After
<1>2. CASE Others
  <2>1. blame \subseteq blame'
    BY <1>2, OthersTypes
  <2>2. exit = "no"
    BY <1>2 DEF Others, LateStep, LateSetup, LateStart, ServerDies, ExitsEarly, ExitStep, Exits,
                ReadPid, Stops, CleansUp, Exit, Unharmed
  <2>3. QED
    BY <2>1, <2>2 DEF Unharmed, After
<1>3. CASE Gone
  BY <1>3 DEF Gone, vars, dbs, Unharmed, After
<1>4. QED
  BY <1>1, <1>2, <1>3 DEF Next, Others

\* A test that holds ENV_LOCK is served: nobody else starts or stops a server.
LEMMA HolderReaches ==
  ASSUME SharedInv, ExitInv, HolderInv, ProgressInv, ReachInv, Unharmed, NEW t \in Threads, Step(t),
         NEW u \in Threads, envLock' = u, OneKind(u),
         pc'[u] \in {"call", "slot", "hook", "db"}
  PROVE  Reached(u)'
<1>0. /\ TypeOK /\ Protocol(t) /\ test' = test /\ u # None
      /\ Cluster(u)' = Cluster(u)
      /\ \A v \in Threads : envLock = v /\ OneKind(v) /\ pc[v] \in {"call", "slot", "hook", "db"}
           => Reached(v)
  BY StepKeepsTest, DatabaseAssumption
     DEF SharedInv, ReachInv, Cluster, ClusterOf, Last
<1>1. CASE u # t
  <2>1. scopes[u] > 0 /\ pc'[u] = pc[u]
    BY <1>0, <1>1, ScopesHoldEnv, StepIsOwn
  <2>2. envLock = u
    BY <2>1 DEF HolderInv, EnvHeld
  <2>3. serves' = serves
    BY <1>1, <2>2, Undisturbed
  <2>4. QED
    BY <1>0, <2>1, <2>2, <2>3 DEF Reached
<1>2. CASE u = t
  <2>1. CASE StartServer(t)
    <3>1. pc[t] = "start" /\ calls[t] # << >> /\ server # "dead"
      <4>1. pc[t] = "start" /\ calls[t] # << >>
        BY <1>0, <2>1 DEF StartServer, Protocol, Asking
      <4>2. server # "dead"
        BY DEF ExitInv, Unharmed, After
      <4>3. QED
        BY <4>1, <4>2
    <3>2. Kind(t) = Last(t)
      <4>1. Asks(t, Kind(t)) /\ test[t].calls # << >>
        <5>1. Asks(t, Kind(t))
          BY <1>0, <3>1, KindType DEF Protocol
        <5>2. QED
          BY <3>1, <5>1 DEF ProgressInv, Progress
      <4>2. QED
        BY <1>2, <4>1, LastCall DEF Asks
    <3>3. ClusterOf(t, Kind(t)) \in serves'
      BY <1>0, <2>1, <3>1 DEF StartServer, Up, TypeOK
    <3>4. QED
      BY <1>0, <1>2, <3>2, <3>3 DEF Reached, Cluster
  <2>2. CASE ~StartServer(t)
    <3>1. /\ pc[t] \in {"call", "slot", "hook", "db"} /\ envLock = t /\ serves' = serves
      <4>1. CASE Call(t)
        BY <1>2, <4>1 DEF Call, locks
      <4>2. CASE TakeSlot(t)
        BY <1>2, <4>2 DEF TakeSlot, dbs
      <4>3. CASE LookForWorker(t) \/ SetWorker(t) \/ ApplySandbox(t) \/ SetupServer(t)
                 \/ WorkDone(t) \/ Close(t)
        <5>1. pc'[t] \in {"worker", "boot", "setup", "start", "close", "over"}
          BY <1>0, <4>3 DEF LookForWorker, SetWorker, ApplySandbox, SetupServer, WorkDone,
                            Close, To, TypeOK
        <5>2. QED
          BY <1>2, <5>1
      <4>4. CASE Bootstrap(t) \/ StartFails(t)
        <5>1. pc'[t] \in {"sandbox", "close"}
          BY <1>0, <4>4, FailTypes DEF Bootstrap, StartFails, To, TypeOK
        <5>2. QED
          BY <1>2, <5>1
      <4>5. CASE Publish(t)
        BY <1>2, <4>5 DEF Publish, dbs
      <4>6. CASE Work(t)
        BY <1>2, <4>6 DEF Work, tests, locks
      <4>7. QED
        BY <2>2, <4>1, <4>2, <4>3, <4>4, <4>5, <4>6 DEF Step
    <3>2. QED
      BY <1>0, <1>2, <3>1 DEF Reached
  <2>3. QED
    BY <2>1, <2>2
<1>3. QED
  BY <1>1, <1>2

\* Where one singleton is used and nothing else, its server stays once it was started.
LEMMA SingletonReached ==
  ASSUME SharedInv, ExitInv, HolderInv, ProgressInv, ReachInv, Unharmed, ~Mixed,
         NEW t \in Threads, Step(t), NEW k \in Kinds, slot'[k] = "ready"
  PROVE  k \in serves'
<1>0. /\ TypeOK /\ Protocol(t) /\ Progress(t) /\ Used(k)
  BY ReadyIsUsed DEF SharedInv, ProgressInv
<1>1. /\ k \in Kinds \cup {"own"} /\ k # "own"
      /\ \A j \in Kinds \cup {"own"} : Used(j) => j = k
  BY <1>0 DEF Mixed, Kinds
<1>2. calls[t] # << >> => Kind(t) = k
  <2>1. calls[t] # << >> => Kind(t) \in Kinds \cup {"own"} /\ Used(Kind(t))
    BY <1>0, KindType DEF Protocol, Used
  <2>2. QED
    BY <1>1, <2>1
<1>3. CASE slot[k] = "ready"
  <2>1. k \in serves
    BY <1>3 DEF ReachInv
  <2>2. pc[t] \notin Starting
    <3>1. ASSUME pc[t] \in Starting PROVE FALSE
      <4>1. Starts(t, k)
        BY <1>0, <1>2, <3>1 DEF Starts, Protocol, Asking, Starting
      <4>2. QED
        BY <1>3, <4>1, DatabaseAssumption DEF HolderInv, SlotHeld
    <3>2. QED
      BY <3>1
  <2>3. ~own[t]
    BY <1>0, <1>1 DEF Protocol, Used
  <2>4. QED
    BY <2>1, <2>2, <2>3, ServesEffect
<1>4. CASE slot[k] # "ready"
  <2>1. Publish(t) /\ Kind(t) = k
    <3>1. slot' # slot
      BY <1>4
    <3>2. CASE Bootstrap(t) \/ StartFails(t)
      <4>1. Fail(t)
        BY <3>1, <3>2 DEF Bootstrap, StartFails
      <4>2. QED
        BY <1>4, <4>1 DEF Fail
    <3>3. CASE Publish(t)
      <4>1. k # Kind(t) => slot'[k] = slot[k]
        BY <1>0, <3>3 DEF Publish, TypeOK
      <4>2. QED
        BY <1>4, <3>3, <4>1
    <3>4. QED
      BY <3>1, <3>2, <3>3 DEF Step, Call, TakeSlot, LookForWorker, SetWorker, ApplySandbox,
                              SetupServer, StartServer, Work, WorkDone, Close
  <2>2. pc[t] = "hook" /\ serves' = serves /\ calls[t] # << >>
    BY <1>0, <2>1 DEF Publish, dbs, Protocol, Asking
  <2>3. OneKind(t) /\ Last(t) = k
    <3>1. test[t].calls # << >>
      BY <2>2 DEF ProgressInv, Progress
    <3>2. \A i \in DOMAIN test[t].calls : test[t].calls[i] \in Kinds \cup {"own"} /\ Asks(t, test[t].calls[i])
      <4>1. test[t].calls \in Seq(Kinds \cup {"own"})
        BY <1>0, TestParts
      <4>2. QED
        BY <4>1 DEF Asks
    <3>3. \A i \in DOMAIN test[t].calls : test[t].calls[i] = k
      BY <1>1, <3>2 DEF Used
    <3>4. Last(t) \in Kinds \cup {"own"} /\ Used(Last(t))
      BY <3>1, LastCall DEF Used
    <3>5. QED
      BY <1>1, <3>3, <3>4 DEF OneKind
  <2>4. envLock = t
    BY <1>0, <2>2 DEF Progress, HolderInv, EnvHeld
  <2>5. Reached(t)
    BY <2>2, <2>3, <2>4 DEF ReachInv
  <2>6. Cluster(t) = k
    BY <1>1, <2>3 DEF Cluster, ClusterOf
  <2>7. QED
    BY <2>2, <2>5, <2>6 DEF Reached
<1>5. QED
  BY <1>3, <1>4

LEMMA ReachInvHolds == Spec => []ReachInv
<1>1. ASSUME Init PROVE ReachInv
  <2>1. envLock = None /\ \A k \in Kinds : slot[k] = "none"
    BY <1>1 DEF Init
  <2>2. QED
    BY <2>1, DatabaseAssumption DEF ReachInv
<1>2. SharedInv /\ ExitInv /\ HolderInv /\ ProgressInv /\ ReachInv /\ [Next]_vars => ReachInv'
  <2>1. ASSUME ReachInv, UNCHANGED vars PROVE ReachInv'
    BY <2>1 DEF ReachInv, Unharmed, After, OneKind, Reached, Cluster, ClusterOf, Last, Mixed, Used,
                Asks, vars, dbs, tests, locks
  <2>2. ASSUME SharedInv, ExitInv, HolderInv, ProgressInv, ReachInv, Next, Unharmed'
        PROVE  ReachInv'
    <3>1. Unharmed
      BY <2>2, HarmStays
    <3>2. CASE Others
      BY <2>2, <3>1, <3>2, OnlyTests
    <3>3. CASE Gone
      BY <2>1, <2>2, <3>3 DEF Gone
    <3>4. ASSUME NEW t \in Threads, Step(t) PROVE ReachInv'
      <4>1. /\ \A u \in Threads : OneKind(u)' <=> OneKind(u)
            /\ Mixed' <=> Mixed
        BY <3>4, StepKeepsTest DEF OneKind, Mixed, Used, Asks
      <4>2. \A u \in Threads : envLock' = u /\ OneKind(u) /\ pc'[u] \in {"call", "slot", "hook", "db"}
                                 => Reached(u)'
        BY <2>2, <3>1, <3>4, HolderReaches
      <4>3. ~Mixed => \A k \in Kinds : slot'[k] = "ready" => k \in serves'
        BY <2>2, <3>1, <3>4, SingletonReached
      <4>4. QED
        BY <4>1, <4>2, <4>3 DEF ReachInv
    <3>5. QED
      BY <2>2, <3>2, <3>3, <3>4 DEF Next, Others
  <2>3. QED
    BY <2>1, <2>2 DEF ReachInv
<1>3. QED
  BY <1>1, <1>2, SharedHolds, ExitInvHolds, HolderInvHolds, ProgressInvHolds, PTL DEF Spec

\* A test that works in a database was served, and either holds ENV_LOCK or has it of a
\* singleton.
LEMMA WorksInServed ==
  ASSUME SharedInv, HolderInv, ProgressInv, NEW t \in Threads, pc[t] = "db"
  PROVE  /\ test[t].calls # << >> /\ Last(t) \in Kinds \cup {"own"} /\ Used(Last(t))
         /\ Last(t) = "own" => own[t] /\ envLock = t /\ Cluster(t) = t
         /\ Last(t) # "own" => slot[Last(t)] = "ready" /\ Cluster(t) = Last(t)
<1>1. Progress(t) /\ EnvHeld(t)
  BY DEF ProgressInv, HolderInv
<1>2. test[t].calls # << >> /\ IF Last(t) = "own" THEN own[t] ELSE slot[Last(t)] = "ready"
  BY <1>1 DEF Progress
<1>3. Last(t) \in Kinds \cup {"own"} /\ Used(Last(t))
  BY <1>2, LastCall DEF Used
<1>4. own[t] => envLock = t
  BY <1>1 DEF Progress, EnvHeld, Starting
<1>5. QED
  BY <1>2, <1>3, <1>4 DEF Cluster, ClusterOf

\* As long as nothing harms it, it reaches its server.
LEMMA WorkerReaches ==
  ASSUME SharedInv, ExitInv, HolderInv, ProgressInv, ReachInv, NEW t \in Threads, pc[t] = "db",
         ~Exposed(t), ~After({"late", "die", "early_exit"})
  PROVE  Reached(t) /\ exit = "no"
<1>1. Unharmed
  BY DEF ExitInv, AllOver, Unharmed, After
<1>2. CASE OneKind(t) /\ envLock = t
  BY <1>1, <1>2 DEF ReachInv, Unharmed
<1>3. CASE ~Mixed /\ Last(t) # "own"
  BY <1>1, <1>3, WorksInServed DEF ReachInv, Reached, Unharmed
<1>4. CASE ~Mixed /\ Last(t) = "own"
  <2>1. envLock = t /\ Used("own") /\ test[t].calls # << >>
    BY <1>4, WorksInServed
  <2>2. test[t].calls \in Seq(Kinds \cup {"own"})
    BY TestParts DEF SharedInv
  <2>3. \A i \in DOMAIN test[t].calls : test[t].calls[i] \in Kinds \cup {"own"} /\ Used(test[t].calls[i])
    BY <2>2 DEF Used, Asks
  <2>4. \A i \in DOMAIN test[t].calls : test[t].calls[i] = "own"
    BY <1>4, <2>1, <2>3 DEF Mixed
  <2>5. QED
    BY <1>2, <2>1, <2>4 DEF OneKind
<1>5. QED
  BY <1>2, <1>3, <1>4 DEF Exposed

\* Nobody starts a cluster that a test works in.
LEMMA StartsAnother ==
  ASSUME SharedInv, HolderInv, ProgressInv, NEW t \in Threads, pc[t] = "db",
         NEW u \in Threads, pc[u] \in Starting
  PROVE  ClusterOf(u, Kind(u)) # Cluster(t)
<1>1. /\ u # t /\ Kind(u) \in Kinds \cup {"own"}
      /\ Threads \cap Kinds = {} /\ u # None
  BY KindType, DatabaseAssumption DEF SharedInv, Protocol, Asking, Starting
<1>2. CASE Kind(u) = "own"
  <2>1. ClusterOf(u, Kind(u)) = u
    BY <1>2 DEF ClusterOf
  <2>2. QED
    BY <1>1, <2>1, WorksInServed
<1>3. CASE Kind(u) # "own"
  <2>1. Kind(u) \in Kinds /\ ClusterOf(u, Kind(u)) = Kind(u)
    BY <1>1, <1>3 DEF ClusterOf
  <2>2. slot[Kind(u)] = "none"
    <3>1. Starts(u, Kind(u))
      BY DEF Starts, Asking, Starting
    <3>2. QED
      BY <1>1, <2>1, <3>1 DEF HolderInv, SlotHeld
  <2>3. QED
    BY <1>1, <2>1, <2>2, WorksInServed
<1>4. QED
  BY <1>2, <1>3

-----------------------------------------------------------------------------
(* Names.                                                                  *)

\* No step of a test gives the server back to another test that works in it, or to the
\* test itself; and where the server stays, only work in it touches its databases.
LEMMA ReachShrinks ==
  ASSUME SharedInv, HolderInv, ProgressInv, NEW t \in Threads, Step(t),
         NEW u \in Threads, pc[u] = "db", Reached(u)'
  PROVE  Reached(u) /\ (Work(t) \/ db' = db)
<1>1. Cluster(u)' = Cluster(u)
  BY StepKeepsTest DEF Cluster, ClusterOf, Last
<1>2. Cluster(u) \in serves'
  BY <1>1 DEF Reached
<1>3. QED
  BY <1>2, ServesEffect, StartsAnother DEF Reached

LEMMA OthersShrink ==
  ASSUME SharedInv, ExitInv, Others, ~After({"late", "early_exit"})', NEW u \in Threads, Reached(u)'
  PROVE  Reached(u) /\ db' = db
<1>1. Cluster(u)' = Cluster(u) /\ blame \subseteq blame'
  BY OthersTypes DEF Cluster, ClusterOf, Last
<1>2. Cluster(u) \in serves' /\ serves' # {}
  BY <1>1 DEF Reached
<1>3. late = {}
  BY <1>1 DEF ExitInv, After
<1>4. ~LateStep
  BY <1>3 DEF LateStep, LateSetup, LateStart
<1>5. ~ServerDies /\ ~CleansUp
  BY <1>2 DEF ServerDies, CleansUp, Down
<1>6. ~ExitsEarly
  BY DEF ExitsEarly, Fault, After
<1>7. CASE Exits \/ ReadPid
  BY <1>2, <1>7 DEF Exits, ReadPid, dbs, Reached
<1>8. CASE Stops
  BY <1>2, <1>8 DEF Stops, Down, Reached
<1>9. QED
  BY <1>4, <1>5, <1>6, <1>7, <1>8 DEF Others, ExitStep

\* Where a test has a clone.
Cloned == {"connect", "using", "drop", "terminated", "unwind"}

\* A test touches no database of another name.
LEMMA NameEffect ==
  ASSUME SharedInv, NEW t \in Threads, DbStep(t)
  PROVE  /\ \A n \in Names \ {Name(t)} : db'[n] = db[n]
         /\ \/ db'[Name(t)] = db[Name(t)] /\ (at'[t] \in Cloned => at[t] \in Cloned)
            \/ db[Name(t)] = "absent" /\ db'[Name(t)] # "absent" /\ at[t] = "clone"
            \/ at[t] \in Cloned /\ at'[t] \notin Cloned /\ (Reached(t) \/ db' = db)
            \/ at[t] = "drop_again" /\ at'[t] = "finished"
         /\ at'[t] = "drop_again" => test[t].ending # "scope_end"
         /\ at[t] = "drop_again" => at'[t] = "finished"
<1>0. /\ TypeOK /\ Protocol(t) /\ Name(t) \in Names
      /\ at[t] \in Ensuring => building[t] # << >> /\ Top(t) \in Templates
      /\ Templates \cap Names = {}
  BY TestParts, TopType, DatabaseAssumption DEF SharedInv, Protocol
<1>1. CASE LockTemplate(t)
  BY <1>0, <1>1 DEF LockTemplate, Goto, TypeOK, Cloned
<1>2. CASE DatabaseExists(t)
  <2>1. at[t] = "exists" /\ db' = db
    BY <1>2 DEF DatabaseExists
  <2>2. at'[t] \notin Cloned \cup {"drop_again"}
    BY <1>0, <1>2, <2>1 DEF DatabaseExists, Ensured, GiveUp, Goto, TypeOK, Cloned
  <2>3. QED
    BY <2>1, <2>2
<1>3. CASE CreateTemplate(t)
  <2>1. at[t] = "create" /\ Top(t) \in Templates
    BY <1>0, <1>3 DEF CreateTemplate, Ensuring
  <2>2. at'[t] \notin Cloned \cup {"drop_again"}
    BY <1>0, <1>3, <2>1 DEF CreateTemplate, GiveUp, Goto, TypeOK, Cloned
  <2>3. \A n \in Names : db'[n] = db[n]
    BY <1>0, <1>3, <2>1 DEF CreateTemplate, TypeOK
  <2>4. QED
    BY <1>0, <2>1, <2>2, <2>3
<1>4. CASE SetupBegins(t)
  <2>1. at[t] = "needs" /\ db' = db
    BY <1>4 DEF SetupBegins
  <2>2. PICK x \in {"setup", "ensure"} : at' = [at EXCEPT ![t] = x]
    BY <1>4 DEF SetupBegins, Goto
  <2>3. QED
    BY <1>0, <2>1, <2>2 DEF TypeOK, Cloned
<1>5. CASE SetupEnds(t)
  <2>1. at[t] = "setup" /\ Top(t) \in Templates
    BY <1>0, <1>5 DEF SetupEnds, Ensuring
  <2>2. PICK x \in {"setup", "clone", "failed"} : at' = [at EXCEPT ![t] = x]
    BY <1>5 DEF SetupEnds, Ensured, GiveUp, Goto
  <2>3. at'[t] \notin Cloned \cup {"drop_again"}
    BY <1>0, <2>2 DEF TypeOK, Cloned
  <2>4. db' = db \/ \E y : db' = [db EXCEPT ![Top(t)] = y]
    BY <1>5 DEF SetupEnds
  <2>5. \A n \in Names : db'[n] = db[n]
    BY <1>0, <2>1, <2>4 DEF TypeOK
  <2>6. QED
    BY <1>0, <2>1, <2>3, <2>5
<1>6. CASE CreateFromTemplate(t)
  <2>0. at[t] = "clone"
    BY <1>6 DEF CreateFromTemplate
  <2>1. CASE /\ db[test[t].template] # "absent" /\ db[Name(t)] = "absent"
             /\ db' = [db EXCEPT ![Name(t)] = db[test[t].template]] /\ Goto(t, "connect")
    BY <1>0, <2>0, <2>1 DEF Goto, TypeOK
  <2>2. CASE Goto(t, "failed") /\ UNCHANGED db
    BY <1>0, <2>0, <2>2 DEF Goto, TypeOK, Cloned
  <2>3. QED
    BY <1>6, <2>1, <2>2 DEF CreateFromTemplate
<1>7. CASE Connect(t)
  <2>1. at[t] = "connect" /\ db' = db
    BY <1>7 DEF Connect
  <2>2. PICK x \in {"using", "unwind"} : at' = [at EXCEPT ![t] = x]
    BY <1>7 DEF Connect, Goto
  <2>3. QED
    BY <1>0, <2>1, <2>2 DEF TypeOK, Cloned
<1>8. CASE Use(t)
  <2>1. at[t] = "using" /\ db' = db /\ at' = [at EXCEPT ![t] = "drop"]
    BY <1>8 DEF Use, Goto
  <2>2. QED
    BY <1>0, <2>1 DEF TypeOK, Cloned
<1>9. CASE Terminate(t)
  <2>1. at[t] = "drop" /\ db' = db /\ test[t].ending = "force_drop"
        /\ at' = [at EXCEPT ![t] = IF Reached(t) THEN "terminated" ELSE "drop_again"]
    BY <1>9 DEF Terminate, Goto
  <2>2. QED
    BY <1>0, <2>1 DEF TypeOK, Cloned
<1>10. ASSUME TryDrop(t)
       PROVE  /\ \A n \in Names \ {Name(t)} : db'[n] = db[n]
              /\ Reached(t) \/ db' = db
  BY <1>0, <1>10 DEF TryDrop, TypeOK
<1>11. CASE DropDatabase(t)
  <2>1. TryDrop(t) /\ at[t] \in {"drop", "terminated"}
        /\ at' = [at EXCEPT ![t] = IF test[t].ending = "scope_end" THEN "finished" ELSE "drop_again"]
    BY <1>11 DEF DropDatabase, Goto
  <2>2. QED
    BY <1>0, <1>10, <2>1 DEF TypeOK, Cloned
<1>12. CASE DropGuard(t)
  <2>1. TryDrop(t) /\ at[t] \in {"drop_again", "unwind"}
        /\ at' = [at EXCEPT ![t] = IF at[t] = "unwind" THEN "failed" ELSE "finished"]
    BY <1>12 DEF DropGuard, Goto
  <2>2. QED
    BY <1>0, <1>10, <2>1 DEF TypeOK, Cloned
<1>13. QED
  BY <1>1, <1>2, <1>3, <1>4, <1>5, <1>6, <1>7, <1>8, <1>9, <1>11, <1>12 DEF DbStep

\* A name that is dropped at most once has at most one owner in reach, who finds it.
LEMMA NameKeptByTests ==
  ASSUME SharedInv, HolderInv, ProgressInv, NameInv, NEW t \in Threads, Step(t)
  PROVE  NameInv'
<1>0. TypeOK /\ Protocol(t) /\ test' = test /\ blame \subseteq blame'
  BY StepKeepsTest, StepBlames DEF SharedInv
<1>2. \A u : Name(u)' = Name(u)
  BY <1>0 DEF Name
<1>3. ASSUME NEW u \in Threads \ {t} PROVE at'[u] = at[u]
  BY <1>3, StepIsOwn
<1>4. /\ at'[t] = "drop_again" => test[t].ending # "scope_end"
      /\ at[t] \in {"drop_again", "finished", "failed"}
           => at'[t] \in {"drop_again", "finished", "failed"}
      /\ at'[t] \in Cloned => at[t] \in Cloned \/ at[t] = "clone"
  <2>1. CASE Work(t)
    <3>1. DbStep(t)
      BY <2>1 DEF Work
    <3>2. at[t] \notin {"finished", "failed"}
      BY <3>1, DbTypes
    <3>3. QED
      BY <3>1, <3>2, NameEffect DEF Cloned
  <2>2. CASE ~Work(t)
    <3>1. at' = at \/ (at[t] = "idle" /\ at' = [at EXCEPT ![t] = "ensure"])
      BY <2>2, OutsideWork
    <3>2. QED
      BY <1>0, <3>1 DEF TypeOK, NameInv, Cloned
  <2>3. QED
    BY <2>1, <2>2
<1>5. \A u \in Threads : at'[u] = "drop_again" => test'[u].ending # "scope_end"
  BY <1>0, <1>3, <1>4 DEF NameInv
<1>6. SUFFICES ASSUME NEW u \in Threads, NEW v \in Threads, Name(u) = Name(v),
                      at'[u] \in Cloned, at'[v] \in Cloned, Reached(u)', Reached(v)',
                      DroppedOnce(Name(u))', ~After({"late", "early_exit"})'
               PROVE  db'[Name(u)] # "absent" /\ u = v
  BY <1>2, <1>5 DEF NameInv, HasClone, Cloned
<1>7. DroppedOnce(Name(u)) /\ ~After({"late", "early_exit"})
  <2>1. /\ ~After({"late", "early_exit"})
        /\ \A w \in Threads : Name(w) = Name(u) /\ test[w].ending # "scope_end"
                                => at'[w] \notin {"drop_again", "finished", "failed"}
    BY <1>0, <1>2, <1>6 DEF DroppedOnce, After
  <2>2. QED
    BY <1>3, <1>4, <2>1 DEF DroppedOnce
<1>8. \A w, x \in Threads :
        Name(w) = Name(u) /\ Name(x) = Name(u) /\ at[w] \in Cloned /\ at[x] \in Cloned
          /\ Reached(w) /\ Reached(x)
          => db[Name(u)] # "absent" /\ w = x
  BY <1>7 DEF NameInv, HasClone, Cloned
<1>9. \A w \in {u, v} : /\ at[w] \in Cloned \/ (w = t /\ at[w] = "clone")
                        /\ Reached(w) /\ (Work(t) \/ db' = db)
  <2>1. ASSUME NEW w \in {u, v} PROVE at[w] \in Cloned \/ (w = t /\ at[w] = "clone")
    BY <1>3, <1>4, <1>6
  <2>2. ASSUME NEW w \in {u, v} PROVE pc[w] = "db"
    BY <2>1, <2>2 DEF SharedInv, Protocol, Cloned
  <2>3. QED
    BY <1>6, <2>1, <2>2, ReachShrinks
<1>10. CASE ~Work(t)
  <2>1. at' = at \/ (at[t] = "idle" /\ at' = [at EXCEPT ![t] = "ensure"])
    BY <1>10, OutsideWork
  <2>2. \A w \in {u, v} : at[w] \in Cloned
    BY <1>0, <1>6, <2>1 DEF TypeOK, Cloned
  <2>3. QED
    BY <1>6, <1>8, <1>9, <1>10, <2>2
<1>11. CASE Work(t)
  <2>1. DbStep(t)
    BY <1>11 DEF Work
  <2>2. Name(u) \in Names /\ Name(t) \in Names
    BY <1>0, TestParts
  <2>3. CASE Name(u) # Name(t)
    <3>1. db'[Name(u)] = db[Name(u)] /\ u # t /\ v # t
      BY <1>6, <2>1, <2>2, <2>3, NameEffect
    <3>2. QED
      BY <1>6, <1>8, <1>9, <3>1
  <2>4. CASE Name(u) = Name(t)
    <3>1. CASE db'[Name(t)] = db[Name(t)] /\ (at'[t] \in Cloned => at[t] \in Cloned)
      <4>1. at[u] \in Cloned /\ at[v] \in Cloned
        BY <1>6, <1>9, <3>1
      <4>2. QED
        BY <1>6, <1>8, <1>9, <2>4, <3>1, <4>1
    <3>2. CASE db[Name(t)] = "absent" /\ db'[Name(t)] # "absent" /\ at[t] = "clone"
      <4>1. u = t /\ v = t
        BY <1>6, <1>8, <1>9, <2>4, <3>2
      <4>2. QED
        BY <2>4, <3>2, <4>1
    <3>3. CASE at[t] \in Cloned /\ at'[t] \notin Cloned /\ (Reached(t) \/ db' = db)
      <4>1. u # t /\ v # t /\ at[u] \in Cloned /\ at[v] \in Cloned
        BY <1>6, <1>9, <3>3
      <4>2. ~Reached(t)
        BY <1>8, <1>9, <2>4, <3>3, <4>1
      <4>3. QED
        BY <1>6, <1>8, <1>9, <3>3, <4>1, <4>2
    <3>4. CASE at[t] = "drop_again"
      BY <1>7, <2>4, <3>4 DEF NameInv, DroppedOnce
    <3>5. QED
      BY <2>1, <3>1, <3>2, <3>3, <3>4, NameEffect
  <2>5. QED
    BY <2>3, <2>4
<1>12. QED
  BY <1>10, <1>11

LEMMA NameInvHolds == Spec => []NameInv
<1>1. Init => NameInv
  BY DEF Init, DbInit, NameInv, HasClone
<1>2. SharedInv /\ ExitInv /\ HolderInv /\ ProgressInv /\ NameInv /\ [Next]_vars => NameInv'
  <2>1. ASSUME SharedInv, ExitInv, NameInv, Others PROVE NameInv'
    <3>1. UNCHANGED <<test, at>> /\ blame \subseteq blame'
      BY <2>1, OthersTypes
    <3>2. /\ \A u : Name(u)' = Name(u) /\ (HasClone(u)' <=> HasClone(u))
          /\ \A n : DroppedOnce(n)' => DroppedOnce(n)
      BY <3>1 DEF Name, HasClone, DroppedOnce
    <3>3. ~After({"late", "early_exit"})' => ~After({"late", "early_exit"})
      BY <3>1 DEF After
    <3>4. ASSUME ~After({"late", "early_exit"})', NEW u \in Threads, Reached(u)'
          PROVE  Reached(u) /\ db' = db
      BY <2>1, <3>4, OthersShrink
    <3>5. QED
      BY <2>1, <3>1, <3>2, <3>3, <3>4 DEF NameInv
  <2>2. ASSUME NameInv, UNCHANGED vars PROVE NameInv'
    BY <2>2 DEF NameInv, HasClone, DroppedOnce, Name, Reached, Cluster, ClusterOf, Last, After,
                vars, dbs, work
  <2>3. QED
    BY <2>1, <2>2, NameKeptByTests DEF Next, Others, Gone
<1>3. QED
  BY <1>1, <1>2, SharedHolds, ExitInvHolds, HolderInvHolds, ProgressInvHolds, PTL DEF Spec

-----------------------------------------------------------------------------
(* The templates.                                                          *)

\* While tests run, the process does not exit.
LEMMA NotYetExiting ==
  ASSUME SharedInv, ExitInv, Calm, NEW t \in Threads, pc[t] # "over"
  PROVE  exit = "no"
  BY DEF ExitInv, AllOver, Calm, After

\* Two threads hold no shard together, and one holds a shard for one template.
LEMMA HeldOnce ==
  ASSUME SharedInv, ShardInv, NEW t \in Threads, NEW u \in Threads,
         NEW i \in DOMAIN building[t], NEW j \in DOMAIN building[u],
         i = 1 => at[t] # "ensure", j = 1 => at[u] # "ensure",
         building[t][i] = building[u][j]
  PROVE  t = u /\ i = j
  BY DEF ShardInv, ShardProtocol, Holds

\* What work in a database may do to the templates.
LEMMA TemplateEffect ==
  ASSUME SharedInv, TemplateInv, Calm, NEW t \in Threads, DbStep(t)
  PROVE  /\ \A m \in Templates :
              db'[m] = db[m] \/ (at[t] \in {"create", "setup"} /\ m = Top(t) /\ db[m] # "whole")
         /\ \A n \in Names : db'[n] # "partial"
<1>0. /\ TypeOK /\ Protocol(t) /\ Name(t) \in Names /\ Templates \cap Names = {}
      /\ at[t] \in Ensuring => building[t] # << >> /\ Top(t) \in Templates
      /\ at[t] # "idle" => test[t].template \in Templates
  BY TestParts, TopType, DatabaseAssumption DEF SharedInv, Protocol
<1>1. (\A n \in Names : db[n] # "partial") /\ Builder(t)
  BY DEF TemplateInv
<1>3. CASE db' = db
  BY <1>1, <1>3
<1>4. CASE CreateTemplate(t) /\ db' # db
  <2>1. at[t] = "create" /\ Top(t) \in Templates /\ db' = [db EXCEPT ![Top(t)] = "partial"]
        /\ db[Top(t)] = "absent"
    BY <1>0, <1>1, <1>4 DEF CreateTemplate, Ensuring, Builder
  <2>2. /\ \A m \in Templates : m # Top(t) => db'[m] = db[m]
        /\ \A n \in Names : db'[n] = db[n]
    BY <1>0, <2>1 DEF TypeOK
  <2>3. QED
    BY <1>1, <2>1, <2>2
<1>5. CASE SetupEnds(t) /\ db' # db
  <2>1. at[t] = "setup" /\ Top(t) \in Templates /\ 1 \in DOMAIN building[t]
        /\ Top(t) = building[t][1]
    BY <1>0, <1>5, TopType DEF SetupEnds, Ensuring
  <2>2. db[Top(t)] = "partial"
    BY <1>1, <2>1 DEF Builder, SettingUp
  <2>3. \E x : db' = [db EXCEPT ![Top(t)] = x]
    BY <1>5 DEF SetupEnds
  <2>4. /\ \A m \in Templates : m # Top(t) => db'[m] = db[m]
        /\ \A n \in Names : db'[n] = db[n]
    BY <1>0, <2>1, <2>3 DEF TypeOK
  <2>5. QED
    BY <1>1, <2>1, <2>2, <2>4
<1>6. CASE CreateFromTemplate(t) /\ db' # db
  <2>1. at[t] = "clone" /\ db' = [db EXCEPT ![Name(t)] = db[test[t].template]]
    BY <1>6 DEF CreateFromTemplate
  <2>2. db[test[t].template] = "whole"
    BY <1>1, <2>1 DEF Builder
  <2>3. /\ \A m \in Templates : db'[m] = db[m]
        /\ \A n \in Names : db'[n] \in {db[n], "whole"}
    BY <1>0, <2>1, <2>2 DEF TypeOK
  <2>4. QED
    BY <1>1, <2>3
<1>7. CASE DropDatabase(t) \/ DropGuard(t)
  <2>1. db' = db \/ db' = [db EXCEPT ![Name(t)] = "absent"]
    BY <1>7 DEF DropDatabase, DropGuard, TryDrop
  <2>2. /\ \A m \in Templates : db'[m] = db[m]
        /\ \A n \in Names : db'[n] \in {db[n], "absent"}
    BY <1>0, <2>1 DEF TypeOK
  <2>3. QED
    BY <1>1, <2>2
<1>8. QED
  <2>1. LockTemplate(t) \/ DatabaseExists(t) \/ SetupBegins(t) \/ Connect(t) \/ Use(t)
          \/ Terminate(t) => db' = db
    BY DEF LockTemplate, DatabaseExists, SetupBegins, Connect, Use, Terminate
  <2>2. QED
    BY <1>3, <1>4, <1>5, <1>6, <1>7, <2>1 DEF DbStep

\* The others go on with templates that do not change under them.
LEMMA BuilderStays ==
  ASSUME SharedInv, ShardInv, TemplateInv, Calm, NEW t \in Threads, Step(t), Work(t),
         NEW u \in Threads \ {t}
  PROVE  Builder(u)'
<1>0. /\ TypeOK /\ DbStep(t) /\ pc[t] = "db" /\ test' = test
      /\ at'[u] = at[u] /\ building'[u] = building[u]
  <2>1. DbStep(t) /\ pc[t] = "db" /\ test' = test
    BY DEF Work
  <2>2. QED
    BY <2>1, DbTypes DEF SharedInv
<1>1. Builder(u)
  BY <1>0 DEF TemplateInv
<1>2. \A m \in Templates :
        db'[m] = db[m] \/ (at[t] \in {"create", "setup"} /\ m = Top(t) /\ db[m] # "whole")
  BY <1>0, TemplateEffect
<1>3. at[t] \in {"create", "setup"} =>
        building[t] # << >> /\ 1 \in DOMAIN building[t] /\ Top(t) = building[t][1]
  BY <1>0, TopType DEF SharedInv, Protocol, Ensuring
<1>4. ASSUME NEW i \in DOMAIN building[u], i = 1 => at[u] # "ensure"
      PROVE  building[u][i] \in Templates /\ db'[building[u][i]] = db[building[u][i]]
  <2>1. building[u][i] \in Templates
    BY <1>0 DEF TypeOK
  <2>2. CASE at[t] \in {"create", "setup"} /\ building[u][i] = Top(t)
    BY <1>3, <1>4, <2>2, HeldOnce
  <2>3. QED
    BY <1>2, <2>1, <2>2
<1>5. \A i \in DOMAIN building[u] : SettingUp(u, i) => db'[building[u][i]] = "partial"
  BY <1>1, <1>4 DEF Builder, SettingUp
<1>6. at[u] \in Ensuring => /\ Top(u) \in Templates /\ 1 \in DOMAIN building[u]
                            /\ Top(u) = building[u][1]
  BY <1>0, TopType DEF SharedInv, Protocol
<1>7. at[u] = "create" => db'[Top(u)] = "absent"
  BY <1>1, <1>4, <1>6 DEF Builder, Ensuring
<1>8. at[u] = "setup" /\ Needs[Top(u)] # None => db'[Needs[Top(u)]] = "whole"
  <2>1. ASSUME at[u] = "setup", Needs[Top(u)] # None PROVE Needs[Top(u)] \in Templates
    BY <1>6, <2>1, DatabaseAssumption DEF Ensuring
  <2>2. QED
    BY <1>1, <1>2, <2>1 DEF Builder
<1>9. at[u] = "clone" => db'[test[u].template] = "whole"
  <2>1. at[u] = "clone" => test[u].template \in Templates
    BY <1>0, TestParts DEF SharedInv, Protocol
  <2>2. QED
    BY <1>1, <1>2, <2>1 DEF Builder
<1>10. QED
  BY <1>0, <1>5, <1>7, <1>8, <1>9 DEF Builder, SettingUp, Top

\* A template that is found is whole: whoever is setting it up has the lock.
LEMMA FoundWhole ==
  ASSUME SharedInv, ShardInv, TemplateInv, Calm, NEW t \in Threads, at[t] = "exists",
         db[Top(t)] # "absent"
  PROVE  db[Top(t)] = "whole"
<1>1. /\ Top(t) \in Templates /\ 1 \in DOMAIN building[t] /\ Top(t) = building[t][1]
      /\ db[Top(t)] \in {"absent", "partial", "whole"}
  <2>1. Top(t) \in Templates /\ 1 \in DOMAIN building[t] /\ Top(t) = building[t][1]
    BY TopType DEF SharedInv, Protocol, Ensuring
  <2>2. QED
    BY <2>1 DEF SharedInv, TypeOK
<1>2. ASSUME db[Top(t)] = "partial" PROVE FALSE
  <2>1. PICK u \in Threads, i \in Nat : SettingUp(u, i) /\ building[u][i] = Top(t)
    BY <1>1, <1>2 DEF TemplateInv
  <2>2. i \in DOMAIN building[u] /\ (i = 1 => at[u] \in {"needs", "setup"})
    BY <2>1 DEF SettingUp
  <2>3. t = u /\ i = 1
    BY <1>1, <2>1, <2>2, HeldOnce
  <2>4. QED
    BY <2>2, <2>3
<1>3. QED
  BY <1>1, <1>2

\* Where nothing fails no thread gives up: the server is there, and so is what it needs.
LEMMA NeverGivesUp ==
  ASSUME SharedInv, ExitInv, HolderInv, ProgressInv, ReachInv, TemplateInv, Calm, ~After({"setup"})',
         NEW t \in Threads, pc[t] = "db",
         \/ ~Reached(t)
         \/ "setup" \in blame'
         \/ at[t] = "create" /\ db[Top(t)] # "absent"
         \/ at[t] = "setup" /\ \/ db[Top(t)] = "absent"
                               \/ Needs[Top(t)] # None /\ db[Needs[Top(t)]] = "absent"
  PROVE  FALSE
<1>1. "setup" \notin blame'
  BY DEF After
<1>2. Builder(t)
  BY DEF TemplateInv
<1>3. at[t] = "setup" => 1 \in DOMAIN building[t] /\ Top(t) = building[t][1]
  BY TopType DEF SharedInv, Protocol, Ensuring
<1>4. at[t] = "setup" => db[Top(t)] = "partial"
  BY <1>2, <1>3 DEF Builder, SettingUp
<1>5. /\ at[t] = "setup" /\ Needs[Top(t)] # None => db[Needs[Top(t)]] = "whole"
      /\ at[t] = "create" => db[Top(t)] = "absent"
  BY <1>2 DEF Builder
<1>6. Reached(t)
  <2>1. ~Exposed(t) /\ ~After({"late", "die", "early_exit"})
    BY DEF Exposed, Calm, After
  <2>2. QED
    BY <2>1, WorkerReaches
<1>7. QED
  BY <1>1, <1>4, <1>5, <1>6

\* The thread itself builds on whole templates, and clones a whole one.
LEMMA BuilderMoves ==
  ASSUME SharedInv, ShardInv, TemplateInv, Calm, NEW t \in Threads, Step(t), Work(t)
  PROVE  Builder(t)'
<1>0. /\ TypeOK /\ Protocol(t) /\ DbStep(t) /\ pc[t] = "db" /\ test' = test
      /\ building[t] \in Seq(Templates)
  BY DEF Work, SharedInv, TypeOK
<1>1. Builder(t)
  BY DEF TemplateInv
<1>2. \A m \in Templates :
        db'[m] = db[m] \/ (at[t] \in {"create", "setup"} /\ m = Top(t) /\ db[m] # "whole")
  BY <1>0, TemplateEffect
<1>3. at[t] \in Ensuring => /\ building[t] # << >> /\ 1 \in DOMAIN building[t]
                            /\ Top(t) = building[t][1] /\ Top(t) \in Templates
  BY <1>0, TopType DEF Protocol
<1>4. ASSUME NEW i \in DOMAIN building[t], i # 1
      PROVE  /\ building[t][i] \in Templates /\ db[building[t][i]] = "partial"
             /\ at[t] # "ensure" => db'[building[t][i]] = "partial"
  <2>1. building[t][i] \in Templates
    BY <1>0
  <2>2. at[t] # "ensure" /\ 1 \in DOMAIN building[t] => building[t][i] # building[t][1]
    BY <1>4, HeldOnce
  <2>3. db[building[t][i]] = "partial"
    BY <1>1, <1>4 DEF Builder, SettingUp
  <2>4. QED
    BY <1>2, <1>3, <2>1, <2>2, <2>3 DEF Ensuring
<1>5. SUFFICES ASSUME NEW c, c = building'[t], NEW here, here = at'[t]
      PROVE  /\ \A i \in DOMAIN c : (i = 1 => here \in {"needs", "setup"}) => db'[c[i]] = "partial"
             /\ here = "create" => db'[Head(c)] = "absent"
             /\ here = "setup" /\ Needs[Head(c)] # None => db'[Needs[Head(c)]] = "whole"
             /\ here = "clone" => db'[test[t].template] = "whole"
  BY <1>0 DEF Builder, SettingUp, Top
<1>6. CASE LockTemplate(t)
  <2>1. at[t] = "ensure" /\ here = "exists" /\ c = building[t] /\ db' = db
    BY <1>0, <1>5, <1>6 DEF LockTemplate, Goto, TypeOK
  <2>2. QED
    BY <1>4, <2>1
<1>7. CASE /\ at[t] \in {"exists", "setup"} /\ Ensured(t)
           /\ at[t] = "exists" => db' = db /\ db[Top(t)] # "absent"
           /\ at[t] = "setup" =>
                db' = [db EXCEPT ![Top(t)] = IF Needs[Top(t)] = None THEN "whole"
                                             ELSE db[Needs[Top(t)]]]
  <2> DEFINE b == building[t]
  <2>1. /\ b # << >> /\ Top(t) = b[1] /\ 1 \in DOMAIN b /\ Top(t) \in Templates
        /\ at[t] # "ensure"
    BY <1>3, <1>7 DEF Ensuring
  <2>2. db'[b[1]] = "whole"
    <3>1. CASE at[t] = "exists"
      BY <1>7, <2>1, <3>1, FoundWhole
    <3>2. CASE at[t] = "setup"
      BY <1>0, <1>1, <1>7, <2>1, <3>2 DEF Builder, TypeOK
    <3>3. QED
      BY <1>7, <3>1, <3>2
  <2>3. /\ c = Tail(b)
        /\ \/ here = "clone" /\ c = << >> /\ Len(b) = 1
           \/ here = "setup" /\ c # << >> /\ Len(b) > 1
    BY <1>0, <1>5, <1>7, EnsuredEffect DEF Ensuring, TypeOK
  <2>4. /\ \A i \in DOMAIN c : i + 1 \in DOMAIN b /\ i + 1 # 1 /\ c[i] = b[i + 1]
        /\ Tail(b) \in Seq(Templates) /\ DOMAIN << >> = {}
        /\ DOMAIN c = 1..(Len(b) - 1) /\ Len(b) \in Nat /\ DOMAIN b = 1..Len(b)
    BY <1>0, <2>1, <2>3, TailParts
  <2>5. \A i, j \in DOMAIN b : j = i + 1 => Needs[b[j]] = b[i]
    BY DEF ShardInv, ShardProtocol
  <2>6. b[Len(b)] = test[t].template
    BY <2>1 DEF ShardInv, ShardProtocol
  <2>7. \A i \in DOMAIN b : i # 1 => db'[b[i]] = "partial"
    BY <1>4, <2>1
  <2>. HIDE DEF b
  <2>8. CASE here = "clone" /\ c = << >> /\ Len(b) = 1
    BY <2>2, <2>4, <2>6, <2>8
  <2>9. CASE here = "setup" /\ c # << >> /\ Len(b) > 1
    <3>1. 1 \in DOMAIN c /\ Head(c) = c[1]
      <4> DEFINE n == Len(b)
      <4>1. n \in Nat /\ n > 1 /\ DOMAIN c = 1..(n - 1)
        BY <2>4, <2>9
      <4>2. Head(c) = c[1]
        BY <2>3, <2>4, <2>9
      <4>. HIDE DEF n
      <4>3. QED
        BY <4>1, <4>2
    <3>2. c[1] = b[2] /\ 2 \in DOMAIN b
      <4>1. 1 + 1 = 2
        OBVIOUS
      <4>2. QED
        BY <2>4, <3>1, <4>1
    <3>3. Needs[Head(c)] = b[1]
      <4>1. 2 = 1 + 1
        OBVIOUS
      <4>2. Needs[b[2]] = b[1]
        BY <2>1, <2>5, <3>2, <4>1
      <4>3. QED
        BY <3>1, <3>2, <4>2
    <3>4. QED
      BY <2>2, <2>4, <2>7, <2>9, <3>3
  <2>10. QED
    BY <2>3, <2>8, <2>9
<1>8. CASE GiveUp(t)
  <2>1. c = << >> /\ here = "failed" /\ DOMAIN << >> = {}
    BY <1>5, <1>8, GiveUpEffect
  <2>2. QED
    BY <2>1
<1>9. CASE /\ at[t] = "needs" /\ Needs[Top(t)] \in Templates
           /\ building' = [building EXCEPT ![t] = <<Needs[Top(t)]>> \o building[t]]
           /\ at' = [at EXCEPT ![t] = "ensure"] /\ shardLock' = shardLock /\ db' = db
  <2> DEFINE d == <<Needs[Top(t)]>> \o building[t]
  <2>1. building' = [building EXCEPT ![t] = d] /\ d = <<Needs[Top(t)]>> \o building[t]
    BY <1>9
  <2>. HIDE DEF d
  <2>2. c = d /\ here = "ensure"
    BY <1>0, <1>5, <1>9, <2>1 DEF TypeOK
  <2>3. \A j \in DOMAIN c : j # 1 => j - 1 \in DOMAIN building[t] /\ c[j] = building[t][j - 1]
    BY <1>0, <1>9, <2>1, <2>2, PushParts
  <2>4. \A i \in DOMAIN building[t] : db[building[t][i]] = "partial"
    BY <1>1, <1>9 DEF Builder, SettingUp
  <2>5. QED
    BY <1>9, <2>2, <2>3, <2>4
<1>10. CASE /\ UNCHANGED <<building, shardLock>>
            /\ at[t] \notin {"ensure", "setup"} /\ at'[t] \notin {"ensure", "clone"}
            /\ at[t] = "needs" => at'[t] = "setup"
            /\ at[t] = "create" => at'[t] = "needs"
            /\ at'[t] = "setup" => at[t] = "needs" /\ Needs[Top(t)] = None
            /\ at'[t] = "needs" => at[t] = "create" /\ db' = [db EXCEPT ![Top(t)] = "partial"]
            /\ at'[t] = "create" => at[t] = "exists" /\ db[Top(t)] = "absent" /\ db' = db
  <2>1. c = building[t] /\ Head(c) = Top(t) /\ here = at'[t]
    BY <1>5, <1>10 DEF Top
  <2>2. \A i \in DOMAIN c : i # 1 => db'[c[i]] = "partial"
    BY <1>4, <1>10, <2>1
  <2>3. ASSUME here = "needs" PROVE db'[c[1]] = "partial"
    BY <1>0, <1>3, <1>10, <2>1, <2>3 DEF TypeOK, Ensuring
  <2>4. ASSUME here = "setup" PROVE db'[c[1]] = "partial" /\ Needs[Head(c)] = None
    <3>1. at[t] = "needs" /\ Needs[Top(t)] = None
      BY <1>10, <2>1, <2>4
    <3>2. db[building[t][1]] = "partial"
      BY <1>1, <1>3, <3>1 DEF Builder, SettingUp, Ensuring
    <3>3. QED
      BY <1>2, <1>3, <2>1, <3>1, <3>2 DEF Ensuring
  <2>5. QED
    BY <1>10, <2>1, <2>2, <2>3, <2>4
<1>11. QED
  BY <1>0, <1>6, <1>7, <1>8, <1>9, <1>10, EnsuringEffect

\* Whatever is not whole is being set up by somebody.
LEMMA PartialIsBuilt ==
  ASSUME SharedInv, ExitInv, HolderInv, ProgressInv, ReachInv, ShardInv, TemplateInv, Calm,
         ~After({"setup"})', NEW t \in Threads, Step(t), Work(t), NEW m \in Templates, db'[m] = "partial"
  PROVE  \E u \in Threads, i \in Nat : SettingUp(u, i)' /\ building'[u][i] = m
<1>0. /\ TypeOK /\ Protocol(t) /\ DbStep(t) /\ pc[t] = "db"
      /\ building[t] \in Seq(Templates)
  <2>1. DbStep(t) /\ pc[t] = "db"
    BY DEF Work
  <2>2. QED
    BY <2>1 DEF SharedInv, TypeOK
<1>1. Builder(t)
  BY DEF TemplateInv
<1>2. \A x \in Templates :
        db'[x] = db[x] \/ (at[t] \in {"create", "setup"} /\ x = Top(t) /\ db[x] # "whole")
  BY <1>0, TemplateEffect
<1>3. at[t] \in Ensuring => /\ building[t] # << >> /\ 1 \in DOMAIN building[t]
                            /\ Top(t) = building[t][1] /\ Top(t) \in Templates
  BY <1>0, TopType DEF Protocol
<1>4. \A u \in Threads \ {t} : at'[u] = at[u] /\ building'[u] = building[u]
  BY <1>0, DbTypes
<1>6. ~(\/ ~Reached(t)
        \/ "setup" \in blame'
        \/ at[t] = "create" /\ db[Top(t)] # "absent"
        \/ at[t] = "setup" /\ \/ db[Top(t)] = "absent"
                              \/ Needs[Top(t)] # None /\ db[Needs[Top(t)]] = "absent")
  BY <1>0, NeverGivesUp
<1>7. CASE db'[m] # db[m]
  <2>1. at[t] \in {"create", "setup"} /\ m = Top(t) /\ 1 \in DOMAIN building[t]
        /\ m = building[t][1]
    BY <1>2, <1>3, <1>7 DEF Ensuring
  <2>2. CASE at[t] = "create"
    <3>1. at'[t] = "needs" /\ building' = building
      BY <1>0, <1>6, <1>7, <2>2, EnsuringEffect DEF LockTemplate
    <3>2. SettingUp(t, 1)' /\ building'[t][1] = m
      BY <2>1, <3>1 DEF SettingUp
    <3>3. QED
      BY <3>2
  <2>3. CASE at[t] = "setup"
    <3>1. db' = [db EXCEPT ![Top(t)] = IF Needs[Top(t)] = None THEN "whole"
                                       ELSE db[Needs[Top(t)]]]
      BY <1>0, <1>6, <2>3, EnsuringEffect DEF LockTemplate
    <3>2. db'[m] = "whole"
      BY <1>0, <1>1, <2>1, <2>3, <3>1 DEF Builder, TypeOK
    <3>3. QED
      BY <3>2
  <2>4. QED
    BY <2>1, <2>2, <2>3
<1>8. CASE db'[m] = db[m]
  <2>1. PICK u \in Threads, i \in Nat : SettingUp(u, i) /\ building[u][i] = m
    BY <1>8 DEF TemplateInv
  <2>2. i \in DOMAIN building[u] /\ (i = 1 => at[u] \in {"needs", "setup"})
    BY <2>1 DEF SettingUp
  <2>3. CASE u # t
    <3>1. SettingUp(u, i)' /\ building'[u][i] = m
      BY <1>4, <2>1, <2>2, <2>3 DEF SettingUp
    <3>2. QED
      BY <3>1
  <2>4. CASE u = t
    <3>1. CASE LockTemplate(t)
      <4>1. at[t] = "ensure" /\ building' = building
        BY <3>1 DEF LockTemplate
      <4>2. SettingUp(t, i)' /\ building'[t][i] = m
        BY <2>1, <2>2, <2>4, <4>1 DEF SettingUp
      <4>3. QED
        BY <4>2
    <3>2. CASE /\ at[t] \in {"exists", "setup"} /\ Ensured(t)
               /\ at[t] = "setup" =>
                    db' = [db EXCEPT ![Top(t)] = IF Needs[Top(t)] = None THEN "whole"
                                                 ELSE db[Needs[Top(t)]]]
      <4>1. i # 1
        <5>1. ASSUME i = 1 PROVE at[t] = "setup" /\ m = Top(t)
          BY <1>3, <2>1, <2>2, <2>4, <3>2, <5>1 DEF Ensuring
        <5>2. ASSUME at[t] = "setup", m = Top(t) PROVE db'[m] = "whole"
          BY <1>0, <1>1, <3>2, <5>2 DEF Builder, TypeOK
        <5>3. QED
          BY <5>1, <5>2
      <4>2. building[t] # << >>
        BY <1>3, <3>2 DEF Ensuring
      <4>3. /\ i - 1 \in DOMAIN Tail(building[t]) /\ Tail(building[t])[i - 1] = m
            /\ DOMAIN Tail(building[t]) \subseteq Nat /\ DOMAIN << >> = {}
        BY <1>0, <2>1, <2>2, <2>4, <4>1, <4>2, TailParts
      <4>4. /\ building'[t] = Tail(building[t])
            /\ (at'[t] = "clone" /\ building'[t] = << >>) \/ at'[t] = "setup"
        BY <1>0, <3>2, EnsuredEffect DEF Ensuring, TypeOK
      <4> DEFINE j == i - 1
      <4>5. j \in Nat /\ j \in DOMAIN building'[t] /\ building'[t][j] = m /\ at'[t] = "setup"
        BY <4>3, <4>4
      <4>. HIDE DEF j
      <4>6. SettingUp(t, j)'
        BY <4>5 DEF SettingUp
      <4>7. QED
        BY <4>5, <4>6
    <3>3. CASE /\ at[t] = "needs" /\ Needs[Top(t)] \in Templates
               /\ building' = [building EXCEPT ![t] = <<Needs[Top(t)]>> \o building[t]]
      <4> DEFINE d == <<Needs[Top(t)]>> \o building[t]
      <4>1. building' = [building EXCEPT ![t] = d] /\ d = <<Needs[Top(t)]>> \o building[t]
        BY <3>3
      <4>. HIDE DEF d
      <4>2. i + 1 \in DOMAIN d /\ i + 1 # 1 /\ d[i + 1] = m
        BY <1>0, <2>1, <2>2, <2>4, <3>3, <4>1, PushParts
      <4> DEFINE j == i + 1
      <4>3. j \in Nat /\ j # 1 /\ j \in DOMAIN building'[t] /\ building'[t][j] = m
        BY <1>0, <4>1, <4>2 DEF TypeOK
      <4>. HIDE DEF j
      <4>4. SettingUp(t, j)'
        BY <4>3 DEF SettingUp
      <4>5. QED
        BY <4>3, <4>4
    <3>4. CASE /\ building' = building /\ at[t] \notin {"ensure", "setup"}
               /\ at[t] = "needs" => at'[t] = "setup"
      <4>1. SettingUp(t, i)' /\ building'[t][i] = m
        BY <2>1, <2>2, <2>4, <3>4 DEF SettingUp
      <4>2. QED
        BY <4>1
    <3>5. QED
      BY <1>0, <1>6, <3>1, <3>2, <3>3, <3>4, EnsuringEffect
  <2>5. QED
    BY <2>3, <2>4
<1>9. QED
  BY <1>7, <1>8

\* Where one kind of cluster is used, nobody works in a database while a cluster is
\* started or ended.
LEMMA NobodyWorks ==
  ASSUME SharedInv, HolderInv, ProgressInv, ~Mixed, NEW t \in Threads,
         pc[t] \in Starting \/ (pc[t] = "close" /\ own[t]), NEW u \in Threads, pc[u] = "db"
  PROVE  FALSE
<1>1. u # t /\ Protocol(t) /\ Progress(t) /\ EnvHeld(t) /\ scopes[t] \in Nat
  BY DEF Starting, SharedInv, TypeOK, ProgressInv, HolderInv
<1>2. envLock = t
  BY <1>1 DEF Protocol, Progress, EnvHeld, Starting
<1>3. /\ Last(u) \in Kinds /\ Used(Last(u)) /\ Last(u) # "own" /\ slot[Last(u)] = "ready"
  BY <1>1, <1>2, WorksInServed
<1>4. \A j \in Kinds \cup {"own"} : Used(j) => j = Last(u)
  BY <1>3 DEF Mixed
<1>5. ~own[t]
  BY <1>1, <1>3, <1>4 DEF Protocol, Used
<1>6. pc[t] \in Starting /\ calls[t] # << >>
  BY <1>1, <1>5 DEF Protocol, Asking, Starting
<1>7. Kind(t) = Last(u)
  <2>1. Kind(t) \in Kinds \cup {"own"} /\ Used(Kind(t))
    BY <1>1, <1>6, KindType DEF SharedInv, Protocol, Used
  <2>2. QED
    BY <1>4, <2>1
<1>8. Starts(t, Last(u))
  BY <1>6, <1>7 DEF Starts, Asking, Starting
<1>9. QED
  BY <1>3, <1>8, DatabaseAssumption DEF HolderInv, SlotHeld

\* An empty server has no templates, and nobody works in it.
LEMMA NothingThere ==
  ASSUME SharedInv, \A u \in Threads : pc[u] # "db", UNCHANGED <<test, building, at>>,
         db' = [d \in DOMAIN db |-> "absent"]
  PROVE  TemplateInv'
<1>1. ASSUME NEW u \in Threads
      PROVE  /\ at[u] \in {"idle", "finished", "failed"}
             /\ building[u] = << >> /\ DOMAIN building[u] = {}
  BY DEF SharedInv, Protocol, Ensuring
<1>2. \A u \in Threads : Builder(u)'
  BY <1>1 DEF Builder
<1>3. \A d \in Templates \cup Names : db'[d] = "absent"
  BY DEF SharedInv, TypeOK
<1>4. QED
  BY <1>2, <1>3 DEF TemplateInv

LEMMA TemplateStays ==
  ASSUME TemplateInv, Calm, UNCHANGED <<test, building, at, db>>
  PROVE  TemplateInv'
<1>1. \A u, i : (SettingUp(u, i)' <=> SettingUp(u, i)) /\ Top(u)' = Top(u)
  BY DEF SettingUp, Top
<1>2. \A u \in Threads : Builder(u)'
  BY <1>1 DEF Builder, TemplateInv
<1>3. QED
  BY <1>1, <1>2 DEF TemplateInv

LEMMA TemplateKeptByTests ==
  ASSUME SharedInv, ExitInv, HolderInv, ProgressInv, ReachInv, ShardInv, TemplateInv, Calm, Calm',
         NEW t \in Threads, Step(t)
  PROVE  TemplateInv'
<1>0. TypeOK /\ DOMAIN db = Templates \cup Names
  BY DEF SharedInv, TypeOK
<1>1. /\ \A n \in Names : db[n] # "partial"
      /\ \A m \in Templates : db[m] = "partial" =>
           \E u \in Threads, i \in Nat : SettingUp(u, i) /\ building[u][i] = m
      /\ \A u \in Threads : Builder(u)
  BY DEF TemplateInv
<1>2. CASE Work(t)
  <2>1. DbStep(t)
    BY <1>2 DEF Work
  <2>2. ~After({"setup"})'
    BY DEF Calm, After
  <2>3. \A n \in Names : db'[n] # "partial"
    BY <2>1, TemplateEffect
  <2>4. \A m \in Templates : db'[m] = "partial" =>
          \E u \in Threads, i \in Nat : SettingUp(u, i)' /\ building'[u][i] = m
    BY <1>2, <2>2, PartialIsBuilt
  <2>5. \A u \in Threads : Builder(u)'
    <3>1. Builder(t)'
      BY <1>2, <2>2, BuilderMoves
    <3>2. ASSUME NEW u \in Threads \ {t} PROVE Builder(u)'
      BY <1>2, BuilderStays
    <3>3. QED
      BY <3>1, <3>2
  <2>6. QED
    BY <2>3, <2>4, <2>5 DEF TemplateInv
<1>3. CASE ~Work(t) /\ db' = db
  <2>1. /\ test' = test
        /\ \/ UNCHANGED <<building, at>>
           \/ /\ at[t] = "idle" /\ at' = [at EXCEPT ![t] = "ensure"]
              /\ test[t].template \in Templates
              /\ building' = [building EXCEPT ![t] = <<test[t].template>>]
    BY <1>3, OutsideWork
  <2>2. CASE UNCHANGED <<building, at>>
    BY <1>3, <2>1, <2>2, TemplateStays
  <2>3. CASE /\ at[t] = "idle" /\ at' = [at EXCEPT ![t] = "ensure"]
             /\ building' = [building EXCEPT ![t] = <<test[t].template>>]
    <3> DEFINE c == <<test[t].template>>
    <3>1. DOMAIN c = {1} /\ building' = [building EXCEPT ![t] = c]
      BY <2>3
    <3>. HIDE DEF c
    <3>2. /\ at'[t] = "ensure" /\ building'[t] = c /\ DOMAIN c = {1}
          /\ \A u \in Threads \ {t} : at'[u] = at[u] /\ building'[u] = building[u]
      BY <1>0, <2>3, <3>1 DEF TypeOK
    <3>3. building[t] = << >> /\ DOMAIN building[t] = {}
      BY <2>3 DEF SharedInv, Protocol, Ensuring
    <3>4. \A u \in Threads \ {t} : /\ \A i : SettingUp(u, i)' <=> SettingUp(u, i)
                                  /\ Top(u)' = Top(u)
      BY <3>2 DEF SettingUp, Top
    <3>5. ASSUME NEW u \in Threads, NEW i \in Nat, SettingUp(u, i)
          PROVE  SettingUp(u, i)' /\ building'[u][i] = building[u][i]
      BY <3>2, <3>3, <3>4, <3>5 DEF SettingUp
    <3>6. \A m \in Templates : db'[m] = "partial" =>
            \E u \in Threads, i \in Nat : SettingUp(u, i)' /\ building'[u][i] = m
      BY <1>1, <1>3, <3>5
    <3>7. Builder(t)'
      BY <3>2 DEF Builder, SettingUp
    <3>8. ASSUME NEW u \in Threads \ {t} PROVE Builder(u)'
      BY <1>1, <1>3, <2>1, <3>2, <3>4 DEF Builder
    <3>9. QED
      BY <1>1, <1>3, <3>6, <3>7, <3>8 DEF TemplateInv
  <2>4. QED
    BY <2>1, <2>2, <2>3
<1>4. CASE ~Work(t) /\ db' # db
  <2>1. /\ pc[t] \in Starting \/ (pc[t] = "close" /\ own[t])
        /\ db' = [d \in DOMAIN db |-> "absent"]
    BY <1>4, ServesEffect
  <2>2. ASSUME NEW u \in Threads PROVE pc[u] # "db"
    <3>1. ~Mixed
      BY DEF Calm
    <3>2. CASE pc[t] \in Starting
      BY <3>1, <3>2, NobodyWorks
    <3>3. CASE pc[t] = "close" /\ own[t]
      BY <3>1, <3>3, NobodyWorks
    <3>4. QED
      BY <2>1, <3>2, <3>3
  <2>3. UNCHANGED <<test, building, at>>
    <3>1. ~Call(t)
      BY <2>1 DEF Call, Starting
    <3>2. QED
      BY <1>4, <2>1, <3>1 DEF Step, SetupServer, StartServer, StartFails, Close, TakeSlot,
           LookForWorker, SetWorker, Bootstrap, ApplySandbox, Publish, WorkDone, dbs, work
  <2>4. QED
    BY <2>1, <2>2, <2>3, NothingThere
<1>5. QED
  BY <1>2, <1>3, <1>4

LEMMA TemplateInvHolds == Spec => []TemplateInv
<1>1. ASSUME Init PROVE TemplateInv
  <2>1. /\ db = [d \in Templates \cup Names |-> "absent"] /\ DOMAIN << >> = {}
        /\ building = [u \in Threads |-> << >>] /\ at = [u \in Threads |-> "idle"]
    BY <1>1 DEF Init, DbInit
  <2>2. QED
    BY <2>1 DEF TemplateInv, Builder
<1> DEFINE Invs == /\ SharedInv /\ ExitInv /\ HolderInv /\ ProgressInv /\ ReachInv /\ ShardInv
                   /\ TemplateInv
<1>2. Invs /\ [Next]_vars => TemplateInv'
  <2>1. ASSUME Invs, Calm, Calm', Others PROVE TemplateInv'
    <3>1. UNCHANGED <<test, building, at>>
      BY <2>1, OthersTypes
    <3>2. ~LateStep
      BY <2>1 DEF ExitInv, Calm, After, LateStep, LateSetup, LateStart
    <3>3. ~ServerDies /\ ~ExitsEarly
      BY <2>1 DEF ServerDies, ExitsEarly, Fault, Calm, After
    <3>4. CASE Exits \/ ReadPid \/ Stops
      <4>1. db' = db
        BY <3>4 DEF Exits, ReadPid, Stops, dbs
      <4>2. QED
        BY <2>1, <3>1, <4>1, TemplateStays
    <3>5. CASE CleansUp
      <4>1. exit = "clean" /\ db' = [d \in DOMAIN db |-> "absent"]
        BY <3>5 DEF CleansUp, Exit
      <4>2. exit # "no"
        BY <4>1
      <4>3. ASSUME NEW u \in Threads, pc[u] = "db" PROVE FALSE
        BY <2>1, <4>2, <4>3, NotYetExiting
      <4>4. QED
        BY <2>1, <3>1, <4>1, <4>3, NothingThere
    <3>6. QED
      BY <2>1, <3>2, <3>3, <3>4, <3>5 DEF Others, ExitStep
  <2>2. ASSUME Invs, Calm, Calm', UNCHANGED vars PROVE TemplateInv'
    BY <2>2, TemplateStays DEF vars, dbs, work
  <2>3. ASSUME Invs, [Next]_vars PROVE Calm' => Calm
    <3>1. ASSUME test' = test, blame \subseteq blame' PROVE Calm' => Calm
      BY <3>1 DEF Calm, Mixed, Used, Asks, After
    <3>2. ASSUME NEW t \in Threads, Step(t) PROVE Calm' => Calm
      BY <2>3, <3>1, <3>2, StepKeepsTest, StepBlames
    <3>3. ASSUME Others PROVE Calm' => Calm
      BY <2>3, <3>1, <3>3, OthersTypes
    <3>4. ASSUME UNCHANGED vars PROVE Calm' => Calm
      BY <3>1, <3>4 DEF vars, dbs
    <3>5. QED
      BY <2>3, <3>2, <3>3, <3>4 DEF Next, Others, Gone
  <2>4. ASSUME Invs, [Next]_vars, Calm, Calm' PROVE TemplateInv'
    BY <2>1, <2>2, <2>4, TemplateKeptByTests DEF Next, Others, Gone
  <2>5. QED
    BY <2>3, <2>4 DEF TemplateInv
<1>3. QED
  BY <1>1, <1>2, SharedHolds, ExitInvHolds, HolderInvHolds, ProgressInvHolds, ReachInvHolds,
     ShardInvHolds, PTL DEF Spec

-----------------------------------------------------------------------------
\* The clone of a test is within its reach, there and whole, with the exceptions the
\* property names: the server by ENV_LOCK and the mutexes of the singletons, names by
\* NameInv, templates by the locks of their shards.
THEOREM DatabaseUsable == Spec => []DatabaseIsUsable
<1>1. ASSUME SharedInv, ExitInv, HolderInv, ProgressInv, ReachInv, NameInv, TemplateInv
      PROVE  DatabaseIsUsable
  <2>1. SUFFICES ASSUME NEW t \in Threads, at[t] \in {"connect", "using"}
        PROVE  /\ Reached(t) \/ Exposed(t) \/ After({"late", "die", "early_exit"})
               /\ \/ db[Name(t)] # "absent"
                  \/ \E u \in Threads \ {t} :
                       Name(u) = Name(t) /\ test[u].template # None /\ test[u].ending # "scope_end"
                  \/ Exposed(t) \/ After({"late", "die", "early_exit"})
               /\ db[Name(t)] # "partial" \/ Mixed \/ After({"late", "setup", "die", "early_exit"})
    BY DEF DatabaseIsUsable
  <2>2. pc[t] = "db"
    BY <1>1, <2>1 DEF SharedInv, Protocol
  <2>3. Reached(t) \/ Exposed(t) \/ After({"late", "die", "early_exit"})
    BY <1>1, <2>2, WorkerReaches
  <2>4. ASSUME Reached(t), DroppedOnce(Name(t)), ~After({"late", "early_exit"})
        PROVE  db[Name(t)] # "absent"
    BY <1>1, <2>1, <2>4 DEF NameInv, HasClone
  <2>5. ASSUME ~DroppedOnce(Name(t))
        PROVE  \E u \in Threads \ {t} :
                 Name(u) = Name(t) /\ test[u].template # None /\ test[u].ending # "scope_end"
    <3>1. PICK u \in Threads : /\ Name(u) = Name(t) /\ test[u].ending # "scope_end"
                               /\ at[u] \in {"drop_again", "finished", "failed"}
      BY <2>5 DEF DroppedOnce
    <3>2. u # t /\ test[u].template # None
      BY <1>1, <2>1, <3>1 DEF SharedInv, Protocol
    <3>3. QED
      BY <3>1, <3>2
  <2>6. ~After({"late", "die", "early_exit"}) => ~After({"late", "early_exit"})
    BY DEF After
  <2>7. db[Name(t)] # "partial" \/ Mixed \/ After({"late", "setup", "die", "early_exit"})
    BY <1>1, TestParts DEF TemplateInv, Calm, SharedInv
  <2>8. QED
    BY <2>3, <2>4, <2>5, <2>6, <2>7
<1>2. QED
  BY <1>1, SharedHolds, ExitInvHolds, HolderInvHolds, ProgressInvHolds, ReachInvHolds,
     NameInvHolds, TemplateInvHolds, PTL
=============================================================================
