------------------------ MODULE SharedClusterProofs ------------------------
(***************************************************************************)
(* Proofs about the clusters the tests of one process share, for any       *)
(* tests, templates and faults: types, what a process leaves, what makes a *)
(* shared cluster fail; who holds the locks, in what order a thread takes  *)
(* the shards, and that the tests come to a standstill only by an          *)
(* inversion, of a singleton and ENV_LOCK or of the shards.                *)
(***************************************************************************)
EXTENDS SharedClusterProps, SequenceTheorems, WellFoundedInduction, TLAPS

-----------------------------------------------------------------------------
(* Helpers.                                                                *)

\* A test's parts.
LEMMA TestParts ==
  ASSUME TypeOK, NEW t \in Threads
  PROVE  /\ test[t] \in Test
         /\ Name(t) \in Names
         /\ test[t].template \in Templates \cup {None}
         /\ test[t].template # None => test[t].calls # << >>
         /\ test[t].calls \in Seq(Kinds \cup {"own"})
  BY DatabaseAssumption DEF TypeOK, Test, Name

\* The cluster a test asks for.
LEMMA KindType ==
  ASSUME TypeOK, NEW t \in Threads, calls[t] # << >>
  PROVE  /\ Kind(t) \in Kinds \cup {"own"}
         /\ Tail(calls[t]) \in Seq(Kinds \cup {"own"})
         /\ 1 \in DOMAIN calls[t] /\ Kind(t) = calls[t][1]
<1>1. calls[t] \in Seq(Kinds \cup {"own"})
  BY DEF TypeOK
<1>2. QED
  BY <1>1 DEF Kind

\* The template a thread ensures.
LEMMA TopType ==
  ASSUME TypeOK, NEW t \in Threads, building[t] # << >>
  PROVE  /\ Top(t) \in Templates
         /\ Tail(building[t]) \in Seq(Templates)
         /\ shard[Top(t)] \in Shards
         /\ 1 \in DOMAIN building[t] /\ Top(t) = building[t][1]
<1>1. building[t] \in Seq(Templates) /\ shard \in [Templates -> Shards]
  BY DEF TypeOK
<1>2. Top(t) \in Templates /\ 1 \in DOMAIN building[t] /\ Top(t) = building[t][1]
  BY <1>1 DEF Top
<1>3. QED
  BY <1>1, <1>2

\* A fault is remembered.
LEMMA FaultType ==
  ASSUME TypeOK, NEW f, Fault(f)
  PROVE  blame' \subseteq Faults /\ blame \subseteq blame' /\ f \in blame'
  BY DEF TypeOK, Fault

-----------------------------------------------------------------------------
(* Types.                                                                  *)

\* Dropping the guards of a failed start.
LEMMA DropGuardsTypes ==
  ASSUME SharedInv, NEW t \in Threads, DropGuards(t), pc[t] \in {"boot", "setup", "start"}
  PROVE  /\ envLock' \in Threads \cup {None}
         /\ scopes' \in [Threads -> Nat]
         /\ workerVar' \in BOOLEAN
         /\ guard' \in [Threads -> {"none", "set", "unset"}]
         /\ \A u \in Threads \ {t} : scopes'[u] = scopes[u] /\ guard'[u] = guard[u]
         /\ guard'[t] # "none" => own[t]
<1> DEFINE guarded == guard[t] # "none" /\ ~own[t]
           n == (IF guarded THEN 1 ELSE 0) + (IF pc[t] \in {"setup", "start"} THEN 1 ELSE 0)
<1>1. TypeOK /\ Protocol(t)
  BY DEF SharedInv
<1>2. n \in Nat /\ n <= scopes[t]
  BY <1>1 DEF TypeOK, Protocol, Starting
<1>3. LeaveScopes(t, n) /\ IF guarded THEN DropWorkerGuard(t) ELSE UNCHANGED <<workerVar, guard>>
  BY DEF DropGuards
<1>4. scopes' \in [Threads -> Nat] /\ \A u \in Threads \ {t} : scopes'[u] = scopes[u]
  <2>. HIDE DEF n
  <2>1. scopes' = [scopes EXCEPT ![t] = scopes[t] - n] /\ scopes[t] - n \in Nat
    BY <1>1, <1>2, <1>3 DEF LeaveScopes, TypeOK
  <2>2. QED
    BY <1>1, <2>1 DEF TypeOK
<1>5. envLock' \in Threads \cup {None}
  BY <1>1, <1>3 DEF LeaveScopes, TypeOK
<1>6. /\ workerVar' \in BOOLEAN /\ guard' \in [Threads -> {"none", "set", "unset"}]
      /\ \A u \in Threads \ {t} : guard'[u] = guard[u]
      /\ guard'[t] # "none" => own[t]
  <2>1. CASE guarded
    BY <1>1, <1>3, <2>1 DEF DropWorkerGuard, TypeOK
  <2>2. CASE ~guarded
    BY <1>1, <1>3, <2>2 DEF TypeOK
  <2>3. QED
    BY <2>1, <2>2
<1>7. QED
  BY <1>4, <1>5, <1>6

\* A failed start.
LEMMA FailTypes ==
  ASSUME SharedInv, NEW t \in Threads, Fail(t), pc[t] \in {"boot", "setup", "start"}
  PROVE  /\ slot' \in [Kinds -> {"none", "ready", "failed"}]
         /\ slotLock' \in [Kinds -> Threads \cup {None}]
         /\ pc' = [pc EXCEPT ![t] = "close"]
         /\ DropGuards(t)
  BY DEF SharedInv, TypeOK, Fail, To

\* Asking for a cluster.
LEMMA AskingTypes ==
  ASSUME SharedInv, NEW t \in Threads,
         \/ Call(t) \/ TakeSlot(t) \/ LookForWorker(t) \/ SetWorker(t)
         \/ Bootstrap(t) \/ ApplySandbox(t) \/ Publish(t)
  PROVE  TypeOK'
<1>0. TypeOK /\ Protocol(t)
  BY DEF SharedInv
<1>1. CASE Call(t)
  <2>1. pc' \in [Threads -> {"call", "slot", "var", "worker", "boot", "sandbox", "setup", "start",
                             "hook", "db", "close", "over"}]
    BY <1>0, <1>1, ZenonT(40) DEF TypeOK, Call, To
  <2>2. test[t].template # None => <<test[t].template>> \in Seq(Templates)
    BY <1>0, TestParts
  <2>3. building' \in [Threads -> Seq(Templates)]
    BY <1>0, <1>1, <2>2 DEF TypeOK, Call
  <2>4. at' = at \/ at' = [at EXCEPT ![t] = "ensure"]
    BY <1>1 DEF Call, Goto
  <2>5. QED
    BY <1>0, <1>1, <2>1, <2>3, <2>4, ZenonT(40) DEF TypeOK, Call, files, locks
<1>2. CASE TakeSlot(t)
  <2>1. Kind(t) \in Kinds /\ Tail(calls[t]) \in Seq(Kinds \cup {"own"})
    BY <1>0, <1>2, KindType DEF TakeSlot, Protocol, Asking
  <2>2. slot[Kind(t)] \in {"none", "ready", "failed"}
    BY <1>0, <2>1 DEF TypeOK
  <2>3. /\ pc' \in [Threads -> {"call", "slot", "var", "worker", "boot", "sandbox", "setup", "start",
                                "hook", "db", "close", "over"}]
        /\ slotLock' \in [Kinds -> Threads \cup {None}]
        /\ calls' \in [Threads -> Seq(Kinds \cup {"own"})]
    <3>1. CASE slot[Kind(t)] = "none"
      BY <1>0, <1>2, <2>1, <3>1, ZenonT(40) DEF TypeOK, TakeSlot, To
    <3>2. CASE slot[Kind(t)] = "ready"
      BY <1>0, <1>2, <2>1, <3>2, ZenonT(40) DEF TypeOK, TakeSlot, Served, To
    <3>3. CASE slot[Kind(t)] = "failed"
      BY <1>0, <1>2, <2>1, <3>3 DEF TypeOK, TakeSlot, To
    <3>4. QED
      BY <2>2, <3>1, <3>2, <3>3
  <2>4. QED
    BY <1>0, <1>2, <2>3 DEF TypeOK, TakeSlot, dbs, files, work
<1>3. CASE LookForWorker(t)
  BY <1>0, <1>3 DEF TypeOK, LookForWorker, To, dbs, files, work, locks
<1>4. CASE SetWorker(t)
  <2>1. scopes' \in [Threads -> Nat] /\ envLock' \in Threads \cup {None}
    BY <1>0, <1>4 DEF TypeOK, SetWorker, EnterScope
  <2>2. QED
    BY <1>0, <1>4, <2>1 DEF TypeOK, SetWorker, To, dbs, files, work
<1>5. CASE Bootstrap(t)
  <2>1. CASE Fail(t)
    <3>1. pc[t] = "boot"
      BY <1>5 DEF Bootstrap
    <3>2. /\ slot' \in [Kinds -> {"none", "ready", "failed"}]
          /\ slotLock' \in [Kinds -> Threads \cup {None}]
          /\ pc' = [pc EXCEPT ![t] = "close"]
          /\ DropGuards(t)
      BY <2>1, <3>1, FailTypes
    <3>3. /\ envLock' \in Threads \cup {None}
          /\ scopes' \in [Threads -> Nat]
          /\ workerVar' \in BOOLEAN
          /\ guard' \in [Threads -> {"none", "set", "unset"}]
      BY <3>1, <3>2, DropGuardsTypes
    <3>4. QED
      BY <1>0, <1>5, <3>2, <3>3 DEF TypeOK, Bootstrap, dbs, files, work
  <2>2. CASE To(t, "sandbox") /\ UNCHANGED <<slot, locks>>
    BY <1>0, <1>5, <2>2 DEF TypeOK, Bootstrap, To, dbs, files, work, locks
  <2>3. QED
    BY <1>5, <2>1, <2>2 DEF Bootstrap
<1>6. CASE ApplySandbox(t)
  <2>1. scopes' \in [Threads -> Nat] /\ envLock' \in Threads \cup {None}
    BY <1>0, <1>6 DEF TypeOK, ApplySandbox, EnterScope
  <2>2. QED
    BY <1>0, <1>6, <2>1 DEF TypeOK, ApplySandbox, To, dbs, files, work
<1>8. CASE Publish(t)
  <2>1. Kind(t) \in Kinds /\ Tail(calls[t]) \in Seq(Kinds \cup {"own"})
    BY <1>0, <1>8, KindType DEF Publish, Protocol, Asking
  <2>2. calls' \in [Threads -> Seq(Kinds \cup {"own"})]
    BY <1>0, <1>8, <2>1 DEF TypeOK, Publish, Served
  <2>3. slot' \in [Kinds -> {"none", "ready", "failed"}]
        /\ slotLock' \in [Kinds -> Threads \cup {None}]
    BY <1>0, <1>8, <2>1 DEF TypeOK, Publish
  <2>4. QED
    BY <1>0, <1>8, <2>2, <2>3 DEF TypeOK, Publish, Served, To, RegisterHook, dbs, files, work
<1>9. QED
  BY <1>1, <1>2, <1>3, <1>4, <1>5, <1>6, <1>8

\* A server comes up, or goes.
LEMMA ServerTypes ==
  ASSUME TypeOK,
         \/ UNCHANGED <<server, serves, conns>>
         \/ \E clusters \in SUBSET (Kinds \cup Threads) : Up(clusters)
         \/ \E how \in {"down", "dead"} : Down(how)
  PROVE  /\ server' \in {"down", "up", "dead"}
         /\ serves' \subseteq Kinds \cup Threads
         /\ serves' # {} => server' = "up"
         /\ conns' \in [Names -> SUBSET Threads]
  BY DEF TypeOK, Up, Down

\* Starting a server, or failing to.
LEMMA StartingTypes ==
  ASSUME SharedInv, NEW t \in Threads, SetupServer(t) \/ StartServer(t) \/ StartFails(t)
  PROVE  TypeOK'
<1>0. /\ TypeOK /\ pc[t] \in {"setup", "start"} /\ calls[t] # << >>
      /\ data \in {"absent", "partial", "whole"}
  BY DEF SharedInv, Protocol, Asking, SetupServer, StartServer, StartFails, TypeOK
<1>1. CASE SetupServer(t)
  <2>1. data' \in {"absent", "partial", "whole"}
    BY <1>0, <1>1 DEF SetupServer, SetUp
  <2>2. UNCHANGED <<server, serves, conns>> \/ Down("down")
    BY <1>1 DEF SetupServer, StopValue
  <2>3. /\ server' \in {"down", "up", "dead"} /\ serves' \subseteq Kinds \cup Threads
        /\ serves' # {} => server' = "up"
        /\ conns' \in [Names -> SUBSET Threads]
    BY <1>0, <2>2, ServerTypes
  <2>4. QED
    BY <1>0, <1>1, <2>1, <2>3 DEF SetupServer, To, TypeOK, locks
<1>2. CASE StartServer(t)
  <2>1. data' \in {"absent", "partial", "whole"}
    BY <1>0, <1>2 DEF StartServer, SetUp
  <2>2. Tail(calls[t]) \in Seq(Kinds \cup {"own"}) /\ ClusterOf(t, Kind(t)) \in Kinds \cup Threads
    BY <1>0, KindType DEF ClusterOf
  <2>3. /\ server' \in {"down", "up", "dead"} /\ serves' \subseteq Kinds \cup Threads
        /\ serves' # {} => server' = "up"
        /\ conns' \in [Names -> SUBSET Threads]
    <3>1. CASE root /\ server # "down"
      BY <1>0, <1>2, <2>2, <3>1 DEF StartServer, TypeOK
    <3>2. CASE ~(root /\ server # "down")
      <4>1. Up({ClusterOf(t, Kind(t))})
        BY <1>2, <3>2 DEF StartServer
      <4>2. QED
        BY <1>0, <2>2, <4>1, ServerTypes
    <3>3. QED
      BY <3>1, <3>2
  <2>4. calls' \in [Threads -> Seq(Kinds \cup {"own"})]
    BY <1>0, <1>2, <2>2 DEF TypeOK, StartServer, Served
  <2>5. own' \in [Threads -> BOOLEAN]
    BY <1>0, <1>2 DEF TypeOK, StartServer
  <2>6. pc' \in [Threads -> {"call", "slot", "var", "worker", "boot", "sandbox", "setup", "start",
                             "hook", "db", "close", "over"}]
    BY <1>0, <1>2 DEF TypeOK, StartServer, Served, To
  <2>7. QED
    BY <1>0, <1>2, <2>1, <2>3, <2>4, <2>5, <2>6 DEF TypeOK, StartServer, locks
<1>3. CASE StartFails(t)
  <2>1. blame' \subseteq Faults /\ late' \subseteq {"setup", "start"}
    <3>1. MayGoOn(t) \subseteq {"setup", "start"}
      BY DEF MayGoOn
    <3>2. GoesWrong(t)
      BY <1>3 DEF StartFails
    <3>3. QED
      BY <1>0, <3>1, <3>2 DEF GoesWrong, Fault, TypeOK
  <2>2. /\ slot' \in [Kinds -> {"none", "ready", "failed"}]
        /\ slotLock' \in [Kinds -> Threads \cup {None}]
        /\ pc' = [pc EXCEPT ![t] = "close"]
        /\ DropGuards(t)
    BY <1>0, <1>3, FailTypes DEF StartFails
  <2>3. /\ envLock' \in Threads \cup {None}
        /\ scopes' \in [Threads -> Nat]
        /\ workerVar' \in BOOLEAN
        /\ guard' \in [Threads -> {"none", "set", "unset"}]
    BY <1>0, <2>2, DropGuardsTypes
  <2>4. /\ data' \in {"absent", "partial", "whole"}
        /\ db' \in [Templates \cup Names -> {"absent", "partial", "whole"}]
    BY <1>0, <1>3 DEF StartFails, RemoveData, SetUp, SetUpInPart, TypeOK
  <2>5. UNCHANGED <<server, serves, conns>> \/ Down("down") \/ Up({})
    BY <1>3 DEF StartFails, RemoveData, StopValue
  <2>6. /\ server' \in {"down", "up", "dead"} /\ serves' \subseteq Kinds \cup Threads
        /\ serves' # {} => server' = "up"
        /\ conns' \in [Names -> SUBSET Threads]
    BY <1>0, <2>5, ServerTypes
  <2>7. QED
    BY <1>0, <1>3, <2>1, <2>2, <2>3, <2>4, <2>6 DEF StartFails, TypeOK
<1>4. QED
  BY <1>1, <1>2, <1>3

\* A template is ensured, or given up.
LEMMA EnsuredEffect ==
  ASSUME SharedInv, NEW t \in Threads, at[t] \in Ensuring, Ensured(t)
  PROVE  /\ building[t] # << >> /\ Top(t) \in Templates
         /\ shardLock' = [shardLock EXCEPT ![shard[Top(t)]] = None]
         /\ shardLock' \in [Shards -> Threads \cup {None}]
         /\ building' = [building EXCEPT ![t] = Tail(building[t])]
         /\ building' \in [Threads -> Seq(Templates)]
         /\ at' \in [Threads -> {at[u] : u \in Threads} \cup {"clone", "setup"}]
         /\ \A u \in Threads \ {t} : at'[u] = at[u] /\ building'[u] = building[u]
         /\ \/ at'[t] = "clone" /\ building'[t] = << >> /\ Len(building[t]) = 1
            \/ at'[t] = "setup" /\ building'[t] # << >> /\ Len(building[t]) > 1
<1>1. TypeOK /\ building[t] # << >>
  BY DEF SharedInv, Protocol
<1>2. Top(t) \in Templates /\ Tail(building[t]) \in Seq(Templates) /\ shard[Top(t)] \in Shards
  BY <1>1, TopType
<1>3. building[t] \in Seq(Templates)
  BY <1>1 DEF TypeOK
<1>4. shardLock' = [shardLock EXCEPT ![shard[Top(t)]] = None]
      /\ shardLock' \in [Shards -> Threads \cup {None}]
  BY <1>1 DEF Ensured, TypeOK
<1>5. building' = [building EXCEPT ![t] = Tail(building[t])]
      /\ building' \in [Threads -> Seq(Templates)]
      /\ building'[t] = Tail(building[t])
      /\ \A u \in Threads \ {t} : building'[u] = building[u]
  BY <1>1, <1>2 DEF Ensured, TypeOK
<1>6. at' = [at EXCEPT ![t] = IF Len(building[t]) = 1 THEN "clone" ELSE "setup"]
  BY DEF Ensured, Goto
<1>6a. /\ Len(building[t]) \in Nat \ {0}
       /\ Len(Tail(building[t])) = Len(building[t]) - 1
  BY <1>1, <1>3, EmptySeq, HeadTailProperties
<1>6b. Len(<< >>) = 0 /\ \A q \in Seq(Templates) : q # << >> => Len(q) \in Nat \ {0}
  BY EmptySeq
<1>7. Len(building[t]) = 1 => Tail(building[t]) = << >>
  <2>1. ASSUME Len(building[t]) = 1 PROVE Len(Tail(building[t])) = 0
    BY <1>6a, <2>1
  <2>2. QED
    BY <1>2, <1>6b, <2>1
<1>8. Len(building[t]) # 1 => Tail(building[t]) # << >> /\ Len(building[t]) > 1
  <2> DEFINE n == Len(building[t])
             m == Len(Tail(building[t]))
  <2>0. n \in Nat /\ n # 0 /\ m = n - 1
    BY <1>6a
  <2>1. ASSUME n # 1 PROVE m # 0 /\ n > 1
    <3>. HIDE DEF n, m
    <3>1. QED
      BY <2>0, <2>1
  <2>2. QED
    BY <1>6b, <2>1
<1>9. /\ at' \in [Threads -> {at[u] : u \in Threads} \cup {"clone", "setup"}]
      /\ \A u \in Threads \ {t} : at'[u] = at[u]
      /\ at'[t] = IF Len(building[t]) = 1 THEN "clone" ELSE "setup"
  BY <1>1, <1>6 DEF TypeOK
<1>10. QED
  BY <1>1, <1>2, <1>4, <1>5, <1>7, <1>8, <1>9

LEMMA GiveUpEffect ==
  ASSUME SharedInv, NEW t \in Threads, GiveUp(t)
  PROVE  /\ shardLock' = [s \in Shards |-> IF shardLock[s] = t THEN None ELSE shardLock[s]]
         /\ shardLock' \in [Shards -> Threads \cup {None}]
         /\ building' = [building EXCEPT ![t] = << >>]
         /\ building' \in [Threads -> Seq(Templates)]
         /\ at' = [at EXCEPT ![t] = "failed"]
         /\ at'[t] = "failed" /\ building'[t] = << >>
         /\ \A u \in Threads \ {t} : at'[u] = at[u] /\ building'[u] = building[u]
<1>1. << >> \in Seq(Templates)
  OBVIOUS
<1>2. building' = [building EXCEPT ![t] = << >>]
  BY DEF GiveUp
<1>3. /\ building' \in [Threads -> Seq(Templates)] /\ building'[t] = << >>
      /\ \A u \in Threads \ {t} : building'[u] = building[u]
  BY <1>1, <1>2 DEF SharedInv, TypeOK
<1>4. QED
  BY <1>2, <1>3 DEF SharedInv, TypeOK, GiveUp, Goto

\* Working in a database.
LEMMA DbTypes ==
  ASSUME SharedInv, NEW t \in Threads, DbStep(t)
  PROVE  /\ db' \in [Templates \cup Names -> {"absent", "partial", "whole"}]
         /\ conns' \in [Names -> SUBSET Threads]
         /\ shardLock' \in [Shards -> Threads \cup {None}]
         /\ building' \in [Threads -> Seq(Templates)]
         /\ at' \in [Threads -> {"idle", "ensure", "exists", "create", "needs",
                                 "setup", "clone", "connect", "using", "drop",
                                 "terminated", "drop_again", "unwind", "finished", "failed"}]
         /\ blame' \subseteq Faults
         /\ \A u \in Threads \ {t} : at'[u] = at[u] /\ building'[u] = building[u]
         /\ at[t] \notin {"idle", "finished", "failed"}
         /\ at'[t] # "idle"
         /\ at'[t] \in Ensuring <=> building'[t] # << >>
         /\ blame \subseteq blame'
         /\ ~Reached(t) => \A d \in Templates \cup Names : db'[d] \in {db[d], "absent"}
<1> DEFINE Places == {"idle", "ensure", "exists", "create", "needs", "setup", "clone", "connect",
                      "using", "drop", "terminated", "drop_again", "unwind", "finished", "failed"}
<1>0. /\ TypeOK /\ Protocol(t)
      /\ at[t] \in Ensuring => /\ building[t] # << >> /\ Top(t) \in Templates
                               /\ shard[Top(t)] \in Shards
      /\ at[t] # "idle" => test[t].template \in Templates
      /\ Name(t) \in Names
  BY TopType, TestParts DEF SharedInv, Protocol
<1>a. ASSUME Ensured(t), at[t] \in Ensuring
      PROVE  /\ shardLock' \in [Shards -> Threads \cup {None}]
             /\ building' \in [Threads -> Seq(Templates)]
             /\ at' \in [Threads -> Places]
             /\ \A u \in Threads \ {t} : at'[u] = at[u] /\ building'[u] = building[u]
             /\ at'[t] # "idle"
             /\ at'[t] \in Ensuring <=> building'[t] # << >>
  BY <1>0, <1>a, EnsuredEffect DEF TypeOK, Ensuring
<1>b. ASSUME GiveUp(t)
      PROVE  /\ shardLock' \in [Shards -> Threads \cup {None}]
             /\ building' \in [Threads -> Seq(Templates)]
             /\ at' \in [Threads -> Places]
             /\ \A u \in Threads \ {t} : at'[u] = at[u] /\ building'[u] = building[u]
             /\ at'[t] # "idle"
             /\ at'[t] \in Ensuring <=> building'[t] # << >>
  BY <1>0, <1>b, GiveUpEffect, ZenonT(40) DEF TypeOK, Ensuring
<1>1. CASE LockTemplate(t)
  BY <1>0, <1>1 DEF LockTemplate, Goto, TypeOK, Protocol, Ensuring
<1>2. CASE DatabaseExists(t)
  <2>1. CASE /\ Goto(t, "create") /\ UNCHANGED <<shardLock, building>>
    BY <1>0, <1>2, <2>1 DEF DatabaseExists, Goto, TypeOK, Protocol, Ensuring
  <2>2. CASE GiveUp(t) \/ Ensured(t)
    <3>1. at[t] = "exists" /\ UNCHANGED <<db, conns, blame>>
      BY <1>2 DEF DatabaseExists
    <3>2. QED
      BY <1>0, <1>a, <1>b, <2>2, <3>1 DEF TypeOK, Ensuring
  <2>3. QED
    BY <1>2, <2>1, <2>2 DEF DatabaseExists
<1>3. CASE CreateTemplate(t)
  <2>0. at[t] = "create" /\ UNCHANGED <<conns, blame>>
    BY <1>3 DEF CreateTemplate
  <2>1. CASE GiveUp(t) /\ UNCHANGED db
    BY <1>0, <1>b, <2>0, <2>1 DEF TypeOK, Ensuring
  <2>2. CASE /\ Reached(t) /\ db' = [db EXCEPT ![Top(t)] = "partial"]
             /\ Goto(t, "needs") /\ UNCHANGED <<shardLock, building>>
    BY <1>0, <2>0, <2>2 DEF Goto, TypeOK, Protocol, Ensuring
  <2>3. QED
    BY <1>3, <2>1, <2>2 DEF CreateTemplate
<1>4. CASE SetupBegins(t)
  <2>0. at[t] = "needs" /\ UNCHANGED <<db, conns, shardLock, blame>>
    BY <1>4 DEF SetupBegins
  <2>1. CASE Goto(t, "setup") /\ UNCHANGED building
    BY <1>0, <2>0, <2>1 DEF Goto, TypeOK, Protocol, Ensuring
  <2>2. CASE /\ Needs[Top(t)] # None
             /\ building' = [building EXCEPT ![t] = <<Needs[Top(t)]>> \o building[t]]
             /\ Goto(t, "ensure")
    <3>1. Needs[Top(t)] \in Templates
      BY <1>0, <2>0, <2>2, DatabaseAssumption DEF Ensuring
    <3>2. building[t] \in Seq(Templates)
      BY <1>0 DEF TypeOK
    <3>3. <<Needs[Top(t)]>> \o building[t] \in Seq(Templates)
      BY <3>1, <3>2
    <3>4. <<Needs[Top(t)]>> \o building[t] # << >>
      BY <3>1, <3>2
    <3>5. /\ building' \in [Threads -> Seq(Templates)] /\ building'[t] # << >>
          /\ \A u \in Threads \ {t} : building'[u] = building[u]
      <4> DEFINE longer == <<Needs[Top(t)]>> \o building[t]
      <4>1. longer \in Seq(Templates) /\ longer # << >> /\ building' = [building EXCEPT ![t] = longer]
        BY <2>2, <3>3, <3>4
      <4>. HIDE DEF longer
      <4>2. QED
        BY <1>0, <4>1 DEF TypeOK
    <3>6. QED
      BY <1>0, <2>0, <2>2, <3>5 DEF Goto, TypeOK, Ensuring
  <2>3. QED
    BY <1>4, <2>1, <2>2 DEF SetupBegins
<1>5. CASE SetupEnds(t)
  <2>0. at[t] = "setup" /\ UNCHANGED conns
    BY <1>5 DEF SetupEnds
  <2> DEFINE result == IF Needs[Top(t)] = None THEN "whole" ELSE db[Needs[Top(t)]]
  <2>1. CASE Reached(t) /\ db' = [db EXCEPT ![Top(t)] = result] /\ Ensured(t) /\ UNCHANGED blame
    <3>1. Needs[Top(t)] \in Templates \cup {None}
      BY <1>0, <2>0, DatabaseAssumption DEF Ensuring
    <3>2. result \in {"absent", "partial", "whole"}
      BY <1>0, <3>1 DEF TypeOK
    <3>3. db' \in [Templates \cup Names -> {"absent", "partial", "whole"}]
      <4>. HIDE DEF result
      <4>1. QED
        BY <1>0, <2>1, <3>2 DEF TypeOK
    <3>4. QED
      BY <1>0, <1>a, <2>0, <2>1, <3>3 DEF TypeOK, Ensuring
  <2>2. CASE GiveUp(t) /\ UNCHANGED db /\ (Fault("setup") \/ UNCHANGED blame)
    <3>1. blame' \subseteq Faults /\ blame \subseteq blame'
      BY <1>0, <2>2, FaultType DEF TypeOK
    <3>2. QED
      BY <1>0, <1>b, <2>0, <2>2, <3>1 DEF TypeOK, Ensuring
  <2>3. QED
    BY <1>5, <2>1, <2>2 DEF SetupEnds
<1>6. CASE CreateFromTemplate(t)
  <2>1. /\ db' \in [Templates \cup Names -> {"absent", "partial", "whole"}]
        /\ conns' \in [Names -> SUBSET Threads]
        /\ ~Reached(t) => db' = db
    BY <1>0, <1>6 DEF CreateFromTemplate, TypeOK
  <2>2. UNCHANGED <<shardLock, building, blame>>
    BY <1>6 DEF CreateFromTemplate
  <2>3. /\ at' \in [Threads -> Places] /\ at'[t] \notin {"idle"} \cup Ensuring
        /\ \A u \in Threads \ {t} : at'[u] = at[u]
        /\ at[t] \notin {"idle", "finished", "failed"} \cup Ensuring
    BY <1>0, <1>6, ZenonT(40) DEF CreateFromTemplate, Goto, TypeOK, Ensuring
  <2>4. building[t] = << >>
    BY <1>0, <2>3 DEF Protocol
  <2>5. QED
    BY <1>0, <2>1, <2>2, <2>3, <2>4 DEF TypeOK
<1>7. CASE Connect(t)
  <2>0. /\ at[t] = "connect" /\ UNCHANGED <<db, shardLock, building, blame>>
        /\ \/ conns' = [conns EXCEPT ![Name(t)] = conns[Name(t)] \cup {t}] /\ Goto(t, "using")
           \/ UNCHANGED conns /\ Goto(t, "unwind")
    BY <1>7, Zenon DEF Connect
  <2>1. conns' \in [Names -> SUBSET Threads]
    <3>1. CASE conns' = [conns EXCEPT ![Name(t)] = conns[Name(t)] \cup {t}]
      <4>1. conns[Name(t)] \cup {t} \in SUBSET Threads
        BY <1>0 DEF TypeOK
      <4>2. QED
        BY <1>0, <3>1, <4>1 DEF TypeOK
    <3>2. QED
      BY <1>0, <2>0, <3>1 DEF TypeOK
  <2>2. db' = db /\ UNCHANGED <<shardLock, building, blame>>
    BY <2>0
  <2>3. /\ at' \in [Threads -> Places] /\ at'[t] \in {"using", "unwind"}
        /\ \A u \in Threads \ {t} : at'[u] = at[u]
    <3>1. PICK x \in {"using", "unwind"} : at' = [at EXCEPT ![t] = x]
      BY <2>0 DEF Goto
    <3>2. QED
      BY <1>0, <3>1 DEF TypeOK
  <2>4. at[t] \notin Ensuring /\ building[t] = << >>
    BY <1>0, <2>0 DEF Protocol, Ensuring
  <2>5. QED
    BY <1>0, <2>0, <2>1, <2>2, <2>3, <2>4 DEF TypeOK, Ensuring
<1>8. CASE Use(t)
  <2>1. blame' \subseteq Faults /\ blame \subseteq blame'
    BY <1>0, <1>8, FaultType DEF Use, TypeOK
  <2>2. QED
    BY <1>0, <1>8, <2>1, ZenonT(40) DEF Use, Goto, TypeOK, Protocol, Ensuring
<1>9. CASE DropDatabase(t)
  <2>1. /\ db' \in [Templates \cup Names -> {"absent", "partial", "whole"}]
        /\ conns' \in [Names -> SUBSET Threads]
        /\ \A d \in Templates \cup Names : db'[d] \in {db[d], "absent"}
    BY <1>0, <1>9 DEF DropDatabase, TryDrop, TypeOK
  <2>2. QED
    BY <1>0, <1>9, <2>1 DEF DropDatabase, Goto, TypeOK, Protocol, Ensuring
<1>10. CASE DropGuard(t)
  <2>1. /\ db' \in [Templates \cup Names -> {"absent", "partial", "whole"}]
        /\ \A d \in Templates \cup Names : db'[d] \in {db[d], "absent"}
    BY <1>0, <1>10 DEF DropGuard, TryDrop, TypeOK
  <2>2. QED
    BY <1>0, <1>10, <2>1 DEF DropGuard, Goto, TypeOK, Protocol, Ensuring
<1>11. CASE Terminate(t)
  <2>1. conns' \in [Names -> SUBSET Threads]
    BY <1>0, <1>11 DEF Terminate, TypeOK
  <2>2. /\ at' \in [Threads -> Places] /\ at'[t] \notin {"idle"} \cup Ensuring
        /\ \A u \in Threads \ {t} : at'[u] = at[u]
        /\ at[t] \notin {"idle", "finished", "failed"} \cup Ensuring
    BY <1>0, <1>11 DEF Terminate, Goto, TypeOK, Ensuring
  <2>3. building[t] = << >>
    BY <1>0, <2>2 DEF Protocol
  <2>4. QED
    BY <1>0, <1>11, <2>1, <2>2, <2>3 DEF Terminate, TypeOK
<1>12. QED
  BY <1>1, <1>2, <1>3, <1>4, <1>5, <1>6, <1>7, <1>8, <1>9, <1>10, <1>11 DEF DbStep

\* The end of a test.
LEMMA ClosingTypes ==
  ASSUME SharedInv, NEW t \in Threads, Work(t) \/ WorkDone(t) \/ Close(t)
  PROVE  TypeOK'
<1>0. TypeOK
  BY DEF SharedInv
<1>1. CASE Work(t)
  <2>1. /\ DbStep(t)
        /\ UNCHANGED <<test, server, serves, data, late, shard, root, slot, slotLock, envLock,
                       scopes, workerVar, guard, pc, calls, own, hook, exit>>
    BY <1>1 DEF Work, files, locks, tests
  <2>2. QED
    BY <1>0, <2>1, DbTypes DEF TypeOK
<1>2. CASE WorkDone(t)
  BY <1>0, <1>2 DEF WorkDone, To, TypeOK, dbs, files, work, locks
<1>3. CASE Close(t)
  <2>1. /\ server' \in {"down", "up", "dead"} /\ serves' \subseteq Kinds \cup Threads
        /\ serves' # {} => server' = "up"
        /\ conns' \in [Names -> SUBSET Threads]
    BY <1>0, <1>3, ServerTypes DEF Close, RemoveData
  <2>1a. /\ db' \in [Templates \cup Names -> {"absent", "partial", "whole"}]
         /\ data' \in {"absent", "partial", "whole"}
    BY <1>0, <1>3 DEF Close, RemoveData, TypeOK
  <2>2. scopes' \in [Threads -> Nat] /\ envLock' \in Threads \cup {None}
    BY <1>0, <1>3 DEF Close, LeaveScopes, TypeOK
  <2>3. /\ workerVar' \in BOOLEAN
        /\ guard' \in [Threads -> {"none", "set", "unset"}]
        /\ pc' = [pc EXCEPT ![t] = "over"]
    BY <1>0, <1>3 DEF Close, DropWorkerGuard, To, TypeOK
  <2>4. QED
    BY <1>0, <1>3, <2>1, <2>1a, <2>2, <2>3 DEF Close, TypeOK
<1>4. QED
  BY <1>1, <1>2, <1>3

\* What no test does: what goes on by itself, and the exit of the process.
Others == LateStep \/ ServerDies \/ ExitsEarly \/ ExitStep

LEMMA OthersTypes ==
  ASSUME SharedInv, Others
  PROVE  /\ TypeOK' /\ blame \subseteq blame'
         /\ UNCHANGED <<test, root, slot, locks, tests, hook, at, building, shard, shardLock>>
<1>0. TypeOK
  BY DEF SharedInv
<1>1. CASE LateSetup
  <2>1. /\ server' \in {"down", "up", "dead"} /\ serves' \subseteq Kinds \cup Threads
        /\ serves' # {} => server' = "up"
        /\ conns' \in [Names -> SUBSET Threads]
    BY <1>0, <1>1, ServerTypes DEF LateSetup
  <2>2. /\ db' \in [Templates \cup Names -> {"absent", "partial", "whole"}]
        /\ data' \in {"absent", "partial", "whole"} /\ late' \subseteq {"setup", "start"}
    BY <1>0, <1>1 DEF LateSetup, TypeOK
  <2>3. QED
    BY <1>0, <1>1, <2>1, <2>2 DEF LateSetup, TypeOK, locks, tests
<1>2. CASE LateStart
  <2>1. /\ server' \in {"down", "up", "dead"} /\ serves' \subseteq Kinds \cup Threads
        /\ serves' # {} => server' = "up"
        /\ conns' \in [Names -> SUBSET Threads]
    BY <1>0, <1>2, ServerTypes DEF LateStart
  <2>2. QED
    BY <1>0, <1>2, <2>1 DEF LateStart, TypeOK, locks, tests
<1>3. CASE ServerDies
  <2>1. blame' \subseteq Faults /\ blame \subseteq blame'
    BY <1>0, <1>3, FaultType DEF ServerDies
  <2>2. /\ server' \in {"down", "up", "dead"} /\ serves' \subseteq Kinds \cup Threads
        /\ serves' # {} => server' = "up"
        /\ conns' \in [Names -> SUBSET Threads]
    BY <1>0, <1>3, ServerTypes DEF ServerDies
  <2>3. QED
    BY <1>0, <1>3, <2>1, <2>2 DEF ServerDies, TypeOK, files, locks, tests
<1>4. CASE ExitsEarly
  <2>1. blame' \subseteq Faults /\ blame \subseteq blame'
    BY <1>0, <1>4, FaultType DEF ExitsEarly
  <2>2. QED
    BY <1>0, <1>4, <2>1 DEF ExitsEarly, Exit, TypeOK, files, work, locks, tests
<1>5. CASE Exits \/ ReadPid
  <2>1. exit' \in {"no", "pid", "wait", "clean", "gone"}
    BY <1>5 DEF Exits, ReadPid, Exit
  <2>2. UNCHANGED <<dbs, files, root, slot, locks, tests, hook>>
    BY <1>5 DEF Exits, ReadPid
  <2>3. QED
    BY <1>0, <2>1, <2>2 DEF TypeOK, dbs, files, work, locks, tests
<1>6. CASE Stops
  <2>1. /\ server' \in {"down", "up", "dead"} /\ serves' \subseteq Kinds \cup Threads
        /\ serves' # {} => server' = "up"
        /\ conns' \in [Names -> SUBSET Threads]
    BY <1>0, <1>6, ServerTypes DEF Stops
  <2>2. QED
    BY <1>0, <1>6, <2>1 DEF Stops, Exit, TypeOK, files, locks, tests
<1>7. CASE CleansUp
  <2>1. /\ server' \in {"down", "up", "dead"} /\ serves' = {}
        /\ conns' \in [Names -> SUBSET Threads]
    BY <1>0, <1>7 DEF CleansUp, Down
  <2>2. QED
    BY <1>0, <1>7, <2>1 DEF CleansUp, Exit, TypeOK, locks, tests
<1>8. QED
  BY <1>1, <1>2, <1>3, <1>4, <1>5, <1>6, <1>7 DEF Others, LateStep, ExitStep

-----------------------------------------------------------------------------
(* The protocol of a test.                                                 *)

\* A step of a test changes no other.
LEMMA StepIsOwn ==
  ASSUME SharedInv, NEW t \in Threads, Step(t), NEW u \in Threads \ {t}
  PROVE  /\ test' = test /\ root' = root /\ hook \in {hook', FALSE} /\ exit' = exit
         /\ pc'[u] = pc[u] /\ calls'[u] = calls[u] /\ own'[u] = own[u]
         /\ at'[u] = at[u] /\ building'[u] = building[u]
         /\ guard'[u] = guard[u] /\ scopes'[u] = scopes[u]
         /\ shard' = shard /\ blame \subseteq blame'
<1>0. TypeOK
  BY DEF SharedInv
<1>1. CASE Call(t)
  BY <1>0, <1>1 DEF TypeOK, Call, To, Goto, files, locks
<1>2. CASE TakeSlot(t)
  <2>1. Kind(t) \in Kinds
    BY <1>0, <1>2, KindType DEF SharedInv, TakeSlot, Protocol, Asking
  <2>2. slot[Kind(t)] \in {"none", "ready", "failed"}
    BY <1>0, <2>1 DEF TypeOK
  <2>3. pc'[u] = pc[u] /\ calls'[u] = calls[u]
    BY <1>0, <1>2, <2>2 DEF TypeOK, TakeSlot, Served, To
  <2>4. QED
    BY <1>2, <2>3 DEF TakeSlot, dbs, files, work
<1>3. CASE LookForWorker(t)
  BY <1>0, <1>3 DEF TypeOK, LookForWorker, To, dbs, files, work, locks
<1>4. CASE SetWorker(t)
  BY <1>0, <1>4 DEF TypeOK, SetWorker, EnterScope, To, dbs, files, work
<1>5. CASE Bootstrap(t)
  <2>1. CASE Fail(t)
    <3>1. pc[t] = "boot"
      BY <1>5 DEF Bootstrap
    <3>2. QED
      BY <1>0, <1>5, <2>1, <3>1, FailTypes, DropGuardsTypes DEF TypeOK, Bootstrap, dbs, files, work
  <2>2. CASE To(t, "sandbox") /\ UNCHANGED <<slot, locks>>
    BY <1>0, <1>5, <2>2 DEF TypeOK, Bootstrap, To, dbs, files, work, locks
  <2>3. QED
    BY <1>5, <2>1, <2>2 DEF Bootstrap
<1>6. CASE ApplySandbox(t)
  BY <1>0, <1>6 DEF TypeOK, ApplySandbox, EnterScope, To, dbs, files, work
<1>7. CASE SetupServer(t)
  BY <1>0, <1>7 DEF TypeOK, SetupServer, To, locks
<1>7a. CASE StartServer(t)
  BY <1>0, <1>7a DEF TypeOK, StartServer, Served, To, locks
<1>7b. CASE StartFails(t)
  <2>1. pc[t] \in {"setup", "start"} /\ Fail(t) /\ blame \subseteq blame'
    BY <1>7b DEF StartFails, GoesWrong, Fault
  <2>2. pc' = [pc EXCEPT ![t] = "close"] /\ guard'[u] = guard[u] /\ scopes'[u] = scopes[u]
    BY <2>1, FailTypes, DropGuardsTypes
  <2>3. QED
    BY <1>0, <1>7b, <2>1, <2>2 DEF TypeOK, StartFails
<1>8. CASE Publish(t)
  BY <1>0, <1>8 DEF TypeOK, Publish, Served, To, RegisterHook, dbs, files, work
<1>9. CASE Work(t)
  BY <1>9, DbTypes DEF Work, locks, tests
<1>10. CASE WorkDone(t)
  BY <1>0, <1>10 DEF TypeOK, WorkDone, To, dbs, files, work, locks
<1>11. CASE Close(t)
  BY <1>0, <1>11 DEF TypeOK, Close, LeaveScopes, DropWorkerGuard, To
<1>12. QED
  BY <1>1, <1>2, <1>3, <1>4, <1>5, <1>6, <1>7, <1>7a, <1>7b, <1>8, <1>9, <1>10, <1>11 DEF Step

\* What a test has still to ask for, it asks for.
LEMMA AsksOn ==
  ASSUME SharedInv, NEW t \in Threads, test' = test,
         \/ calls'[t] = calls[t]
         \/ calls[t] # << >> /\ calls'[t] = Tail(calls[t])
  PROVE  /\ (\A i \in DOMAIN calls[t] : Asks(t, calls[t][i]))'
         /\ \A k : Asks(t, k)' <=> Asks(t, k)
<1>1. \A k : Asks(t, k)' <=> Asks(t, k)
  BY DEF Asks
<1>2. \A i \in DOMAIN calls[t] : Asks(t, calls[t][i])
  BY DEF SharedInv, Protocol
<1>3. CASE calls'[t] = calls[t]
  BY <1>1, <1>2, <1>3 DEF Asks
<1>4. CASE calls[t] # << >> /\ calls'[t] = Tail(calls[t])
  <2>1. calls[t] \in Seq(Kinds \cup {"own"})
    BY DEF SharedInv, TypeOK
  <2>2. /\ Tail(calls[t]) \in Seq(Kinds \cup {"own"})
        /\ Len(Tail(calls[t])) = Len(calls[t]) - 1
        /\ \A i \in 1 .. Len(Tail(calls[t])) : Tail(calls[t])[i] = calls[t][i + 1]
    BY <1>4, <2>1, HeadTailProperties
  <2>3. DOMAIN calls[t] = 1 .. Len(calls[t]) /\ Len(calls[t]) \in Nat
    BY <2>1
  <2>4. DOMAIN Tail(calls[t]) = 1 .. Len(Tail(calls[t]))
    BY <2>2
  <2>5. ASSUME NEW i \in DOMAIN Tail(calls[t])
        PROVE  Asks(t, Tail(calls[t])[i])
    <3>1. i + 1 \in DOMAIN calls[t] /\ Tail(calls[t])[i] = calls[t][i + 1]
      BY <2>2, <2>3, <2>4, <2>5
    <3>2. QED
      BY <1>2, <3>1
  <2>6. QED
    BY <1>1, <1>4, <2>5 DEF Asks
<1>5. QED
  BY <1>1, <1>3, <1>4

\* The protocol of one that takes no step.
LEMMA ProtocolStays ==
  ASSUME SharedInv, NEW u \in Threads, test' = test,
         pc'[u] = pc[u], calls'[u] = calls[u], own'[u] = own[u], at'[u] = at[u],
         building'[u] = building[u], guard'[u] = guard[u], scopes'[u] = scopes[u]
  PROVE  Protocol(u)'
<1>1. Protocol(u)
  BY DEF SharedInv
<1>2. (\A i \in DOMAIN calls[u] : Asks(u, calls[u][i]))'
      /\ \A k : Asks(u, k)' <=> Asks(u, k)
  BY AsksOn
<1>3. QED
  BY <1>1, <1>2 DEF Protocol, Kind

\* The protocol of one that takes a step.
LEMMA ProtocolKept ==
  ASSUME SharedInv, TypeOK', NEW t \in Threads, Step(t)
  PROVE  Protocol(t)'
<1>0. TypeOK /\ Protocol(t)
  BY DEF SharedInv
<1> DEFINE Rest == /\ building'[t] = building[t] /\ at'[t] = at[t] /\ test' = test
           Scopes == guard'[t] = guard[t] /\ scopes'[t] = scopes[t]
<1>1. CASE Call(t)
  <2>1. at[t] = "idle" /\ building[t] = << >>
    BY <1>0, <1>1 DEF Call, Protocol, Ensuring
  <2>2. calls' = calls /\ own' = own /\ test' = test /\ Scopes
    BY <1>1 DEF Call, files, locks
  <2>3. (\A i \in DOMAIN calls[t] : Asks(t, calls[t][i]))'
        /\ \A k : Asks(t, k)' <=> Asks(t, k)
    BY <2>2, AsksOn
  <2>4. CASE calls[t] # << >>
    <3>1. pc'[t] = (IF Kind(t) = "own" THEN "var" ELSE "slot") /\ UNCHANGED <<building, at>>
      BY <1>0, <1>1, <2>4 DEF Call, To, TypeOK
    <3>2. QED
      BY <1>0, <2>1, <2>2, <2>3, <2>4, <3>1 DEF Protocol, Kind, Asking, Starting, Ensuring
  <2>5. CASE calls[t] = << >> /\ test[t].template # None
    <3>1. pc'[t] = "db" /\ at'[t] = "ensure" /\ building'[t] = <<test[t].template>>
      BY <1>0, <1>1, <2>5 DEF Call, To, Goto, TypeOK
    <3>2. building'[t] # << >>
      BY <3>1
    <3>3. QED
      BY <1>0, <2>2, <2>3, <2>5, <3>1, <3>2 DEF Protocol, Kind, Asking, Starting, Ensuring
  <2>6. CASE calls[t] = << >> /\ test[t].template = None
    <3>1. pc'[t] = "close" /\ UNCHANGED <<building, at>>
      BY <1>0, <1>1, <2>6 DEF Call, To, TypeOK
    <3>2. QED
      BY <1>0, <2>1, <2>2, <2>3, <2>6, <3>1 DEF Protocol, Kind, Asking, Starting, Ensuring
  <2>7. QED
    BY <2>4, <2>5, <2>6
<1>2. CASE TakeSlot(t)
  <2>1. Kind(t) \in Kinds /\ calls[t] # << >> /\ pc[t] = "slot"
    BY <1>0, <1>2, KindType DEF TakeSlot, Protocol, Asking
  <2>2. slot[Kind(t)] \in {"none", "ready", "failed"}
    BY <1>0, <2>1 DEF TypeOK
  <2>3. \/ pc'[t] \in {"var", "close"} /\ calls' = calls
        \/ pc'[t] = "call" /\ calls'[t] = Tail(calls[t])
    <3>1. CASE slot[Kind(t)] = "none"
      BY <1>0, <1>2, <3>1 DEF TypeOK, TakeSlot, To
    <3>2. CASE slot[Kind(t)] = "ready"
      BY <1>0, <1>2, <3>2 DEF TypeOK, TakeSlot, Served, To
    <3>3. CASE slot[Kind(t)] = "failed"
      BY <1>0, <1>2, <3>3 DEF TypeOK, TakeSlot, To
    <3>4. QED
      BY <2>2, <3>1, <3>2, <3>3
  <2>4. own' = own /\ Rest /\ Scopes
    BY <1>2 DEF TakeSlot, dbs, files, work
  <2>5. (\A i \in DOMAIN calls[t] : Asks(t, calls[t][i]))'
        /\ \A k : Asks(t, k)' <=> Asks(t, k)
    BY <2>1, <2>3, <2>4, AsksOn
  <2>6. QED
    BY <1>0, <2>1, <2>3, <2>4, <2>5 DEF Protocol, Kind, Asking, Starting, Ensuring
<1>3. ASSUME pc[t] \in {"var", "worker", "boot", "sandbox", "setup", "start"},
             pc'[t] \in {"worker", "boot", "sandbox", "setup", "start", "close"},
             calls' = calls, own' = own, Rest,
             guard'[t] # "none" /\ ~own'[t] => scopes'[t] > 0,
             pc'[t] \in Starting => scopes'[t] > IF guard'[t] # "none" /\ ~own'[t] THEN 1 ELSE 0
      PROVE  Protocol(t)'
  <2>1. (\A i \in DOMAIN calls[t] : Asks(t, calls[t][i]))'
        /\ \A k : Asks(t, k)' <=> Asks(t, k)
    BY <1>3, AsksOn
  <2>2. calls[t] # << >> /\ at[t] = "idle" /\ building[t] = << >>
    BY <1>0, <1>3 DEF Protocol, Asking, Ensuring
  <2>3. QED
    BY <1>0, <1>3, <2>1, <2>2 DEF Protocol, Kind, Asking, Starting, Ensuring
<1>4. CASE LookForWorker(t)
  <2>1. pc'[t] \in {"worker", "boot"} /\ calls' = calls /\ own' = own /\ Rest /\ Scopes
    BY <1>0, <1>4 DEF LookForWorker, To, TypeOK, dbs, files, work, locks
  <2>2. QED
    BY <1>0, <1>3, <1>4, <2>1 DEF Protocol, Starting, LookForWorker
<1>5. CASE SetWorker(t)
  <2>1. pc'[t] = "boot" /\ calls' = calls /\ own' = own /\ Rest
    BY <1>0, <1>5 DEF SetWorker, To, TypeOK, dbs, files, work
  <2>2. scopes'[t] = scopes[t] + 1 /\ scopes[t] \in Nat
    BY <1>0, <1>5 DEF SetWorker, EnterScope, TypeOK
  <2>3. pc[t] = "worker"
    BY <1>5 DEF SetWorker
  <2>4. QED
    BY <1>3, <2>1, <2>2, <2>3 DEF Starting
<1>6. ASSUME Fail(t), pc[t] \in {"boot", "setup", "start"}, calls' = calls, own' = own, Rest
      PROVE  Protocol(t)'
  <2>1. pc'[t] = "close"
    BY <1>0, <1>6, FailTypes DEF TypeOK
  <2>2. guard'[t] # "none" => own[t]
    BY <1>6, FailTypes, DropGuardsTypes
  <2>3. QED
    BY <1>3, <1>6, <2>1, <2>2 DEF Starting
<1>7. CASE Bootstrap(t)
  <2>1. pc[t] = "boot" /\ calls' = calls /\ own' = own /\ Rest
    BY <1>7 DEF Bootstrap, dbs, files, work
  <2>2. CASE Fail(t)
    BY <1>6, <2>1, <2>2
  <2>3. CASE To(t, "sandbox") /\ UNCHANGED <<slot, locks>>
    <3>1. pc'[t] = "sandbox" /\ Scopes
      BY <1>0, <2>3 DEF To, TypeOK, locks
    <3>2. QED
      BY <1>0, <1>3, <2>1, <3>1 DEF Protocol, Starting
  <2>4. QED
    BY <1>7, <2>2, <2>3 DEF Bootstrap
<1>8. CASE ApplySandbox(t)
  <2>1. pc[t] = "sandbox" /\ pc'[t] = "setup" /\ calls' = calls /\ own' = own /\ Rest
    BY <1>0, <1>8 DEF ApplySandbox, To, TypeOK, dbs, files, work
  <2>2. scopes'[t] = scopes[t] + 1 /\ scopes[t] \in Nat /\ guard' = guard
    BY <1>0, <1>8 DEF ApplySandbox, EnterScope, TypeOK
  <2>3. QED
    BY <1>0, <1>3, <2>1, <2>2 DEF Protocol, Starting
<1>9. CASE SetupServer(t)
  <2>1. /\ pc[t] = "setup" /\ pc'[t] = "start" /\ calls' = calls /\ own' = own /\ Rest /\ Scopes
    BY <1>0, <1>9 DEF SetupServer, To, TypeOK, locks
  <2>2. QED
    BY <1>0, <1>3, <2>1 DEF Protocol, Starting
<1>9a. CASE StartFails(t)
  <2>1. /\ pc[t] \in {"setup", "start"} /\ Fail(t) /\ calls' = calls /\ own' = own /\ Rest
    BY <1>9a DEF StartFails
  <2>2. QED
    BY <1>6, <2>1
<1>9b. CASE StartServer(t)
  <2>0. pc[t] = "start" /\ Rest
    BY <1>9b DEF StartServer
  <2>1. /\ calls[t] # << >> /\ at[t] = "idle" /\ building[t] = << >>
        /\ \A i \in DOMAIN calls[t] : Asks(t, calls[t][i])
        /\ 1 \in DOMAIN calls[t] /\ Kind(t) = calls[t][1]
    BY <1>0, <2>0, KindType DEF Protocol, Asking, Ensuring
  <2>2. Scopes
    BY <1>9b DEF StartServer, locks
  <2>3. CASE Kind(t) = "own"
    <3>1. pc'[t] = "call" /\ calls'[t] = Tail(calls[t]) /\ own'[t]
      BY <1>0, <1>9b, <2>3 DEF StartServer, Served, To, TypeOK
    <3>2. (\A i \in DOMAIN calls[t] : Asks(t, calls[t][i]))'
          /\ \A k : Asks(t, k)' <=> Asks(t, k)
      BY <2>0, <2>1, <3>1, AsksOn
    <3>3. Asks(t, "own")
      BY <2>1, <2>3
    <3>4. QED
      BY <1>0, <2>0, <2>1, <2>2, <3>1, <3>2, <3>3 DEF Protocol, Kind, Asking, Starting, Ensuring
  <2>4. CASE Kind(t) # "own"
    <3>1. pc'[t] = "hook" /\ calls' = calls /\ own' = own
      BY <1>0, <1>9b, <2>4 DEF StartServer, To, TypeOK
    <3>2. (\A i \in DOMAIN calls[t] : Asks(t, calls[t][i]))'
          /\ \A k : Asks(t, k)' <=> Asks(t, k)
      BY <2>0, <3>1, AsksOn
    <3>3. QED
      BY <1>0, <2>0, <2>1, <2>2, <2>4, <3>1, <3>2 DEF Protocol, Kind, Asking, Starting, Ensuring
  <2>5. QED
    BY <2>3, <2>4
<1>10. CASE Publish(t)
  <2>1. /\ pc[t] = "hook" /\ pc'[t] = "call" /\ calls'[t] = Tail(calls[t]) /\ own' = own /\ Rest
        /\ guard'[t] = "none"
    BY <1>0, <1>10 DEF Publish, Served, To, TypeOK, dbs, files, work
  <2>2. calls[t] # << >> /\ at[t] = "idle" /\ building[t] = << >>
    BY <1>0, <2>1 DEF Protocol, Asking, Ensuring
  <2>3. (\A i \in DOMAIN calls[t] : Asks(t, calls[t][i]))'
        /\ \A k : Asks(t, k)' <=> Asks(t, k)
    BY <2>1, <2>2, AsksOn
  <2>4. QED
    BY <1>0, <2>1, <2>2, <2>3 DEF Protocol, Kind, Asking, Starting, Ensuring
<1>11. CASE Work(t)
  <2>1. /\ pc[t] = "db" /\ pc' = pc /\ calls' = calls /\ own' = own /\ test' = test /\ Scopes
    BY <1>11 DEF Work, locks, tests
  <2>2. /\ at[t] # "idle" /\ at'[t] # "idle"
        /\ at'[t] \in Ensuring <=> building'[t] # << >>
    BY <1>11, DbTypes DEF Work
  <2>3. (\A i \in DOMAIN calls[t] : Asks(t, calls[t][i]))'
        /\ \A k : Asks(t, k)' <=> Asks(t, k)
    BY <2>1, AsksOn
  <2>4. QED
    BY <1>0, <2>1, <2>2, <2>3 DEF Protocol, Kind, Asking, Starting
<1>12. CASE WorkDone(t)
  <2>1. /\ at[t] \in {"finished", "failed"} /\ pc'[t] = "close" /\ calls' = calls /\ own' = own
        /\ Rest /\ Scopes
    BY <1>0, <1>12 DEF WorkDone, To, TypeOK, dbs, files, work, locks
  <2>2. (\A i \in DOMAIN calls[t] : Asks(t, calls[t][i]))'
        /\ \A k : Asks(t, k)' <=> Asks(t, k)
    BY <2>1, AsksOn
  <2>3. QED
    BY <1>0, <2>1, <2>2 DEF Protocol, Kind, Asking, Starting, Ensuring
<1>13. CASE Close(t)
  <2>1. /\ pc[t] = "close" /\ pc'[t] = "over" /\ calls' = calls /\ own' = own /\ Rest
        /\ guard'[t] = "none"
    BY <1>0, <1>13 DEF Close, To, DropWorkerGuard, TypeOK
  <2>2. (\A i \in DOMAIN calls[t] : Asks(t, calls[t][i]))'
        /\ \A k : Asks(t, k)' <=> Asks(t, k)
    BY <2>1, AsksOn
  <2>3. QED
    BY <1>0, <2>1, <2>2 DEF Protocol, Kind, Asking, Starting, Ensuring
<1>14. QED
  BY <1>1, <1>2, <1>4, <1>5, <1>7, <1>8, <1>9, <1>9a, <1>9b, <1>10, <1>11, <1>12, <1>13 DEF Step

\* Types and protocol are inductive.
LEMMA SharedInductive ==
  ASSUME SharedInv, [Next]_vars
  PROVE  SharedInv'
<1>1. CASE UNCHANGED vars
  <2>1. ASSUME NEW u \in Threads PROVE Protocol(u)'
    BY <1>1, ProtocolStays DEF vars, dbs, files, locks, tests, work
  <2>2. TypeOK'
    BY <1>1 DEF SharedInv, TypeOK, vars, dbs, files, locks, tests, work
  <2>3. QED
    BY <2>1, <2>2 DEF SharedInv
<1>2. ASSUME NEW t \in Threads, Step(t) PROVE SharedInv'
  <2>1. TypeOK'
    BY <1>2, AskingTypes, StartingTypes, ClosingTypes DEF Step
  <2>2. Protocol(t)'
    BY <1>2, <2>1, ProtocolKept
  <2>3. ASSUME NEW u \in Threads \ {t} PROVE Protocol(u)'
    BY <1>2, StepIsOwn, ProtocolStays
  <2>4. QED
    BY <2>1, <2>2, <2>3 DEF SharedInv
<1>3. ASSUME Others PROVE SharedInv'
  <2>1. TypeOK' /\ UNCHANGED <<test, pc, calls, own, at, building, guard, scopes, shard, shardLock>>
    BY <1>3, OthersTypes DEF locks, tests
  <2>2. ASSUME NEW u \in Threads PROVE Protocol(u)'
    BY <2>1, ProtocolStays
  <2>3. QED
    BY <2>1, <2>2 DEF SharedInv
<1>4. QED
  BY <1>1, <1>2, <1>3 DEF Next, Others, Gone

\* A process begins well.
LEMMA InitShared ==
  ASSUME Init
  PROVE  SharedInv
<1>1. test \in [Threads -> Test]
  BY DatabaseAssumption DEF Init, DbInit, PlanType
<1>2. ASSUME NEW t \in Threads
      PROVE  calls[t] = test[t].calls /\ calls[t] \in Seq(Kinds \cup {"own"})
  <2>1. test[t].calls \in Seq({"handle", "legacy", "own"})
    BY <1>1 DEF Test, Kinds
  <2>2. {"handle", "legacy", "own"} = Kinds \cup {"own"}
    BY DEF Kinds
  <2>3. test[t].calls \in Seq(Kinds \cup {"own"})
    BY <2>1, <2>2
  <2>4. QED
    BY <2>3 DEF Init
<1>3. TypeOK
  <2>1. shard \in [Templates -> Shards]
    BY DatabaseAssumption DEF Init, DbInit, PlanType
  <2>2. building \in [Threads -> Seq(Templates)]
    <3>1. << >> \in Seq(Templates)
      OBVIOUS
    <3>2. QED
      BY <3>1 DEF Init, DbInit
  <2>3. calls \in [Threads -> Seq(Kinds \cup {"own"})]
    BY <1>2 DEF Init
  <2>4. QED
    BY <1>1, <2>1, <2>2, <2>3 DEF Init, DbInit, TypeOK
<1>4. ASSUME NEW t \in Threads PROVE Protocol(t)
  <2>1. \A i \in DOMAIN calls[t] : Asks(t, calls[t][i])
    BY <1>2 DEF Asks
  <2>2. /\ building[t] = << >> /\ at[t] = "idle" /\ pc[t] \in {"call", "over"}
        /\ ~own[t] /\ guard[t] = "none"
    BY DEF Init, DbInit
  <2>3. QED
    BY <2>1, <2>2 DEF Protocol, Asking, Starting, Ensuring
<1>5. QED
  BY <1>3, <1>4 DEF SharedInv

LEMMA SharedHolds == Spec => []SharedInv
  BY InitShared, SharedInductive, PTL DEF Spec

\* The state keeps its type, whatever the tests are and whatever fails.
THEOREM TypeCorrect == Spec => []TypeOK
<1>1. SharedInv => TypeOK
  BY DEF SharedInv
<1>2. QED
  BY <1>1, SharedHolds, PTL

-----------------------------------------------------------------------------
(* What the process leaves.                                                *)

\* The steps of a test that touch neither its server nor the hook.
Quiet(t) ==
  \/ Call(t) \/ TakeSlot(t) \/ LookForWorker(t) \/ SetWorker(t) \/ Bootstrap(t)
  \/ ApplySandbox(t) \/ Work(t) \/ WorkDone(t)

LEMMA StepKinds ==
  ASSUME NEW t \in Threads, Step(t)
  PROVE  /\ exit # "gone" /\ exit' = exit
         /\ Quiet(t) \/ SetupServer(t) \/ StartServer(t) \/ StartFails(t) \/ Publish(t) \/ Close(t)
  BY DEF Step, Quiet, Call, TakeSlot, LookForWorker, SetWorker, Bootstrap, ApplySandbox,
         SetupServer, StartServer, StartFails, Publish, Work, WorkDone, Close

LEMMA QuietEffect ==
  ASSUME SharedInv, NEW t \in Threads, Quiet(t)
  PROVE  /\ UNCHANGED <<test, shard, root, server, serves, data, late, own, hook, exit>>
         /\ pc[t] \notin {"setup", "start", "hook", "close", "over"} /\ pc'[t] # "over"
         /\ pc' = [pc EXCEPT ![t] = pc'[t]]
         /\ ~Work(t) => UNCHANGED <<db, conns, shardLock, blame>>
<1>0. TypeOK
  BY DEF SharedInv
<1>1. CASE Call(t)
  BY <1>0, <1>1, ZenonT(40) DEF Call, To, TypeOK, files
<1>2. CASE TakeSlot(t)
  <2>1. Kind(t) \in Kinds
    BY <1>0, <1>2, KindType DEF SharedInv, TakeSlot, Protocol, Asking
  <2>2. slot[Kind(t)] \in {"none", "ready", "failed"}
    BY <1>0, <2>1 DEF TypeOK
  <2>3. pc[t] = "slot" /\ UNCHANGED <<dbs, files, root, slot, own, hook, exit>>
    BY <1>2 DEF TakeSlot
  <2>4. PICK x \in {"var", "call", "close"} : pc' = [pc EXCEPT ![t] = x]
    <3>1. CASE slot[Kind(t)] = "none"
      BY <1>0, <1>2, <3>1 DEF TypeOK, TakeSlot, To
    <3>2. CASE slot[Kind(t)] = "ready"
      BY <1>0, <1>2, <3>2 DEF TypeOK, TakeSlot, Served, To
    <3>3. CASE slot[Kind(t)] = "failed"
      BY <1>0, <1>2, <3>3 DEF TypeOK, TakeSlot, To
    <3>4. QED
      BY <2>2, <3>1, <3>2, <3>3
  <2>5. QED
    BY <1>0, <2>3, <2>4 DEF TypeOK, dbs, files, work
<1>3. CASE LookForWorker(t) \/ SetWorker(t) \/ ApplySandbox(t) \/ WorkDone(t)
  BY <1>0, <1>3 DEF LookForWorker, SetWorker, ApplySandbox, WorkDone, To, TypeOK, dbs, files, work
<1>4. CASE Bootstrap(t)
  BY <1>0, <1>4 DEF Bootstrap, Fail, To, TypeOK, dbs, files, work
<1>5. CASE Work(t)
  BY <1>0, <1>5 DEF Work, TypeOK, files, tests
<1>6. QED
  BY <1>1, <1>2, <1>3, <1>4, <1>5 DEF Quiet

\* No test and no hook leaves what nobody will remove.
LEMMA ExitKeptByTests ==
  ASSUME SharedInv, SharedInv', ExitInv, NEW t \in Threads, Step(t)
  PROVE  ExitInv'
<1>0. /\ TypeOK /\ pc[t] # "over"
  BY DEF SharedInv, TypeOK, Step, Call, TakeSlot, LookForWorker, SetWorker, Bootstrap,
         ApplySandbox, SetupServer, StartServer, StartFails, Publish, Work, WorkDone, Close
<1>1. /\ exit' = exit /\ blame \subseteq blame' /\ (hook => hook') /\ root' = root
      /\ \A u \in Threads \ {t} : pc'[u] = pc[u] /\ own'[u] = own[u]
  <2>1. blame \subseteq blame' /\ (hook => hook') /\ root' = root
    <3>1. CASE Quiet(t) /\ ~Work(t)
      BY <3>1, QuietEffect
    <3>2. CASE Work(t)
      BY <3>2, DbTypes DEF Work
    <3>3. CASE SetupServer(t) \/ StartServer(t) \/ Close(t)
      BY <3>3 DEF SetupServer, StartServer, Close
    <3>4. CASE StartFails(t)
      BY <3>4 DEF StartFails, GoesWrong, Fault
    <3>5. CASE Publish(t)
      BY <3>5 DEF Publish, RegisterHook, dbs
    <3>6. QED
      BY <3>1, <3>2, <3>3, <3>4, <3>5, StepKinds
  <2>2. \A u \in Threads \ {t} : pc'[u] = pc[u] /\ own'[u] = own[u]
    BY StepIsOwn
  <2>3. QED
    BY <2>1, <2>2, StepKinds
<1>2. late' # {} => After({"late"})'
  <2>1. CASE StartFails(t)
    BY <1>1, <2>1 DEF StartFails, GoesWrong, Fault, ExitInv, After
  <2>2. CASE ~StartFails(t)
    <3>1. late' = late
      BY <2>2, StepKinds, QuietEffect DEF SetupServer, StartServer, Publish, Close, files
    <3>2. QED
      BY <1>1, <3>1 DEF ExitInv, After
  <2>3. QED
    BY <2>1, <2>2
<1>3. SUFFICES ASSUME ~After({"late", "early_exit"})'
               PROVE  ExitInv'
  BY <1>0, <1>1, <1>2 DEF ExitInv, After, AllOver
<1>4. exit = "no" /\ ~After({"late", "early_exit"})
  BY <1>0, <1>1, <1>3 DEF ExitInv, After, AllOver
<1>5. SUFFICES /\ data' = "partial" => root /\ After({"start"})'
               /\ server' = "dead" => After({"die"})'
               /\ ~hook' /\ (server' # "down" \/ data' # "absent") =>
                    \/ root /\ After({"start", "die"})'
                    \/ \E u \in Threads : (own'[u] /\ pc'[u] # "over") \/ pc'[u] \in {"start", "hook"}
  BY <1>1, <1>2, <1>4 DEF ExitInv
<1>6. /\ data = "partial" => root /\ After({"start"})'
      /\ server = "dead" => After({"die"})'
      /\ ~hook /\ (server # "down" \/ data # "absent") =>
           \/ root /\ After({"start", "die"})'
           \/ \E u \in Threads : (own[u] /\ pc[u] # "over") \/ pc[u] \in {"start", "hook"}
  BY <1>1, <1>4 DEF ExitInv, After
<1>7. CASE Quiet(t)
  BY <1>0, <1>1, <1>6, <1>7, QuietEffect
<1>8. CASE SetupServer(t)
  <2>1. pc'[t] = "start" /\ data' \in {data, "whole"} /\ server' \in {server, "down"}
    BY <1>0, <1>8 DEF SetupServer, SetUp, StopValue, Down, To, TypeOK
  <2>2. QED
    BY <1>6, <2>1
<1>9. CASE StartServer(t)
  <2>1. data' \in {data, "whole"} /\ server' \in {server, "up"}
    BY <1>0, <1>9 DEF StartServer, SetUp, Up, TypeOK
  <2>2. (own'[t] /\ pc'[t] # "over") \/ pc'[t] = "hook"
    BY <1>0, <1>9 DEF StartServer, Served, To, TypeOK
  <2>3. QED
    BY <1>6, <2>1, <2>2
<1>10. CASE StartFails(t)
  <2>1. CASE ~root /\ RemoveData
    BY <2>1 DEF RemoveData, Down
  <2>2. CASE root
    <3>1. After({"start"})'
      <4>1. GoesWrong(t)
        BY <1>10 DEF StartFails
      <4>2. ~Fault("late")
        BY <1>3 DEF Fault, After
      <4>3. data = "partial" \/ Fault("start")
        BY <2>2, <4>1, <4>2 DEF GoesWrong, CannotGoOn
      <4>4. QED
        BY <1>6, <4>3 DEF Fault, After
    <3>2. server' \in {server, "down", "up"}
      BY <1>10, <2>2 DEF StartFails, StopValue, Down, Up
    <3>3. QED
      BY <1>6, <2>2, <3>1, <3>2 DEF After
  <2>3. QED
    BY <1>10, <2>1, <2>2 DEF StartFails
<1>11. CASE Publish(t)
  BY <1>6, <1>11 DEF Publish, RegisterHook, dbs, files
<1>12. CASE Close(t)
  <2>1. pc[t] = "close" /\ UNCHANGED <<own, hook>>
    BY <1>12 DEF Close
  <2>2. CASE own[t] /\ ~(root /\ server = "dead")
    BY <1>12, <2>2 DEF Close, RemoveData, Down
  <2>3. CASE own[t] /\ root /\ server = "dead"
    BY <1>6, <1>12, <2>3 DEF Close, After
  <2>4. CASE ~own[t]
    <3>1. UNCHANGED <<server, data>>
      BY <1>12, <2>4 DEF Close
    <3>2. QED
      BY <1>1, <1>6, <2>1, <2>4, <3>1
  <2>5. QED
    BY <2>2, <2>3, <2>4
<1>13. QED
  BY <1>7, <1>8, <1>9, <1>10, <1>11, <1>12, StepKinds

\* Nor does the exit, or what goes on by itself.
LEMMA ExitKeptByOthers ==
  ASSUME SharedInv, SharedInv', ExitInv, Others
  PROVE  ExitInv'
<1>1. UNCHANGED <<pc, own, root, hook>> /\ AllOver' = AllOver /\ blame \subseteq blame'
  <2>1. UNCHANGED <<pc, own, root, hook>> /\ blame \subseteq blame'
    BY OthersTypes DEF tests
  <2>2. QED
    BY <2>1 DEF AllOver
<1>2. CASE LateStep
  <2>1. "late" \in blame /\ UNCHANGED <<blame, exit>>
    <3>1. late # {} /\ UNCHANGED <<blame, exit>>
      BY <1>2 DEF LateStep, LateSetup, LateStart
    <3>2. QED
      BY <3>1 DEF ExitInv, After
  <2>2. QED
    BY <1>1, <2>1 DEF ExitInv, After
<1>3. CASE ServerDies
  <2>1. /\ "die" \in blame' /\ exit' = exit /\ exit # "gone" /\ UNCHANGED <<data, late>>
        /\ server = "up" /\ server' = "dead"
    BY <1>3 DEF ServerDies, Fault, Down, files
  <2>2. QED
    BY <1>1, <2>1 DEF ExitInv, After
<1>4. CASE ExitsEarly
  <2>1. "early_exit" \in blame' /\ late' = late
    BY <1>4 DEF ExitsEarly, Fault, files
  <2>2. QED
    BY <1>1, <2>1 DEF ExitInv, After
<1>5. CASE Exits
  <2>1. /\ AllOver /\ exit = "no" /\ exit' = IF hook THEN "pid" ELSE "gone"
        /\ UNCHANGED <<server, data, late, blame>>
    BY <1>5 DEF Exits, Exit, dbs, files, work
  <2>2. ASSUME ~hook, ~After({"late", "early_exit"})
        PROVE  (server = "down" /\ data = "absent") \/ (root /\ After({"start", "die"}))
    <3>1. \A u \in Threads : pc[u] = "over"
      BY <2>1 DEF AllOver
    <3>2. QED
      BY <2>2, <3>1 DEF ExitInv
  <2>3. QED
    BY <1>1, <2>1, <2>2 DEF ExitInv, After
<1>6. CASE ReadPid
  <2>1. /\ exit = "pid" /\ exit' = IF server = "up" THEN "wait" ELSE "clean"
        /\ UNCHANGED <<server, data, late, blame>>
    BY <1>6 DEF ReadPid, Exit, PostmasterRuns, dbs, files, work
  <2>2. QED
    BY <1>1, <2>1 DEF ExitInv, After
<1>7. CASE Stops
  <2>1. /\ exit = "wait" /\ exit' = "clean" /\ UNCHANGED <<data, late, blame>>
        /\ server' # "up"
        /\ server # "down" \/ server' = "down"
    BY <1>7 DEF Stops, Exit, PostmasterRuns, Down, files
  <2>2. QED
    BY <1>1, <2>1 DEF ExitInv, After
<1>8. CASE CleansUp
  <2>1. /\ exit = "clean" /\ exit' = "gone" /\ UNCHANGED <<late, blame>> /\ data' = "absent"
        /\ server # "up" => server' = "down"
    BY <1>8 DEF CleansUp, Exit, Down
  <2>2. QED
    BY <1>1, <2>1 DEF ExitInv, After
<1>9. QED
  BY <1>2, <1>3, <1>4, <1>5, <1>6, <1>7, <1>8 DEF Others, ExitStep

LEMMA ExitInvHolds == Spec => []ExitInv
<1>1. Init => ExitInv
  BY DEF Init, DbInit, ExitInv
<1>2. SharedInv /\ SharedInv' /\ ExitInv /\ [Next]_vars => ExitInv'
  <2>1. ASSUME SharedInv, SharedInv', ExitInv, UNCHANGED vars PROVE ExitInv'
    BY <2>1 DEF ExitInv, After, AllOver, vars, dbs, files, tests
  <2>2. QED
    BY <2>1, ExitKeptByTests, ExitKeptByOthers DEF Next, Others, Gone
<1>3. QED
  BY <1>1, <1>2, SharedHolds, PTL DEF Spec

\* A process that exits when its tests are over leaves no server and no data, whatever
\* failed or died, if a singleton has registered the hook: whoever has a cluster of his
\* own, or the hook, removes it. A failed start of the worker's leaves what it started.
THEOREM LeavesNothing == Spec => []ExitLeavesNothing
<1>1. ExitInv => ExitLeavesNothing
  BY DEF ExitInv, ExitLeavesNothing
<1>2. QED
  BY <1>1, ExitInvHolds, PTL

-----------------------------------------------------------------------------
(* What makes a shared cluster fail.                                       *)

\* Without test_cluster() every cluster a test asks for is a singleton.
LEMMA AsksForSingletons ==
  ASSUME SharedInv, ~Used("own"), NEW t \in Threads
  PROVE  /\ ~own[t]
         /\ calls[t] # << >> => Kind(t) \in Kinds /\ Used(Kind(t))
<1>1. TypeOK /\ Protocol(t)
  BY DEF SharedInv
<1>2. ~own[t]
  BY <1>1 DEF Protocol, Used
<1>3. ASSUME calls[t] # << >> PROVE Kind(t) \in Kinds /\ Used(Kind(t))
  <2>1. Kind(t) \in Kinds \cup {"own"} /\ 1 \in DOMAIN calls[t] /\ Kind(t) = calls[t][1]
    BY <1>1, <1>3, KindType
  <2>2. Asks(t, Kind(t))
    BY <1>1, <2>1 DEF Protocol
  <2>3. QED
    BY <2>1, <2>2 DEF Used
<1>4. QED
  BY <1>2, <1>3

\* Whoever starts a singleton finds no server in the way.
LEMMA NothingInTheWay ==
  ASSUME SharedInv, StartInv, OneServer, ~After({"start", "late"}), NEW t \in Threads,
         pc[t] = "start", ~root
  PROVE  server # "up"
<1>1. calls[t] # << >>
  BY DEF SharedInv, Protocol, Asking
<1>2. Kind(t) \in Kinds /\ Used(Kind(t)) /\ ~Used("own")
  BY <1>1, AsksForSingletons DEF OneServer
<1>3. slotLock[Kind(t)] = t /\ slot[Kind(t)] = "none"
  BY DEF StartInv, Starter, Asking
<1>4. ASSUME NEW k \in Kinds, Used(k) PROVE k = Kind(t)
  BY <1>2, <1>4 DEF OneServer, Kinds
<1>5. ASSUME NEW u \in Threads, pc[u] = "hook" PROVE FALSE
  <2>1. calls[u] # << >>
    BY <1>5 DEF SharedInv, Protocol, Asking
  <2>2. Kind(u) \in Kinds /\ Used(Kind(u))
    BY <1>2, <2>1, AsksForSingletons
  <2>3. slotLock[Kind(u)] = u /\ Kind(u) = Kind(t)
    BY <1>4, <1>5, <2>2 DEF StartInv, Starter, Asking
  <2>4. QED
    BY <1>3, <1>5, <2>3
<1>6. ASSUME NEW k \in Kinds, Used(k), slot[k] = "ready" PROVE FALSE
  BY <1>3, <1>4, <1>6
<1>7. QED
  BY <1>5, <1>6 DEF StartInv

\* No test makes a singleton fail.
LEMMA StartKeptByTests ==
  ASSUME SharedInv, SharedInv', StartInv, NEW t \in Threads, Step(t)
  PROVE  StartInv'
<1>0. TypeOK /\ Protocol(t)
  BY DEF SharedInv
<1>1. /\ test' = test /\ root' = root /\ blame \subseteq blame' /\ exit' = exit /\ exit # "gone"
      /\ \A u \in Threads \ {t} : /\ pc'[u] = pc[u] /\ calls'[u] = calls[u] /\ guard'[u] = guard[u]
                                  /\ Kind(u)' = Kind(u)
  <2>1. ASSUME Quiet(t), ~Work(t) PROVE test' = test /\ root' = root /\ blame \subseteq blame'
    BY <2>1, QuietEffect
  <2>2. ASSUME Work(t) PROVE test' = test /\ root' = root /\ blame \subseteq blame'
    BY <2>2, DbTypes DEF Work
  <2>3. ASSUME ~Quiet(t) PROVE test' = test /\ root' = root /\ blame \subseteq blame'
    BY <2>3, StepKinds DEF SetupServer, StartServer, StartFails, GoesWrong, Fault, Publish,
                           Close, dbs, work
  <2>3a. test' = test /\ root' = root /\ blame \subseteq blame' /\ exit' = exit /\ exit # "gone"
    BY <2>1, <2>2, <2>3, StepKinds
  <2>4. \A u \in Threads \ {t} : pc'[u] = pc[u] /\ calls'[u] = calls[u] /\ guard'[u] = guard[u]
    BY StepIsOwn
  <2>5. QED
    BY <2>3a, <2>4 DEF Kind
<1>2. OneServer' <=> OneServer
  BY <1>1 DEF OneServer, Used, Asks
<1>3. \A k : Used(k)' <=> Used(k)
  BY <1>1 DEF Used, Asks
<1>4. SUFFICES ASSUME OneServer, ~After({"start", "late"})'
               PROVE  /\ \A k \in Kinds : slot'[k] # "failed"
                      /\ \A u \in Threads : Starter(u)'
                      /\ data' # "partial"
                      /\ \A u \in Threads : pc'[u] = "start" => data' = "whole"
                      /\ server' = "up" =>
                           \/ \E u \in Threads : pc'[u] = "hook"
                           \/ \E k \in Kinds : Used(k) /\ slot'[k] = "ready"
  BY <1>2, <1>3 DEF StartInv, Starter
<1>5. /\ \A k \in Kinds : slot[k] # "failed"
      /\ \A u \in Threads : Starter(u)
      /\ data # "partial"
      /\ \A u \in Threads : pc[u] = "start" => data = "whole"
      /\ server = "up" =>
           \/ \E u \in Threads : pc[u] = "hook"
           \/ \E k \in Kinds : Used(k) /\ slot[k] = "ready"
      /\ ~After({"start", "late"}) /\ ~Used("own")
  BY <1>1, <1>4 DEF StartInv, Starter, After, OneServer
<1>6. calls[t] # << >> => Kind(t) \in Kinds /\ Used(Kind(t))
  BY <1>5, AsksForSingletons
<1>7. None \notin Threads
  BY DatabaseAssumption
<1> DEFINE G == {"boot", "sandbox", "setup", "start", "hook"}
\* A step with which nothing changes but where t is.
<1>8. ASSUME UNCHANGED <<slot, slotLock, data>>, server' = "up" => server = "up",
             workerVar => workerVar', pc[t] # "hook", pc'[t] # "start",
             pc'[t] \in Asking \ {"slot"} => pc[t] \in Asking \ {"slot"} /\ calls' = calls,
             guard'[t] # "none" => pc'[t] \in G,
             root /\ pc'[t] \in G => workerVar'
      PROVE  /\ \A k \in Kinds : slot'[k] # "failed"
             /\ \A u \in Threads : Starter(u)'
             /\ data' # "partial"
             /\ \A u \in Threads : pc'[u] = "start" => data' = "whole"
             /\ server' = "up" =>
                  \/ \E u \in Threads : pc'[u] = "hook"
                  \/ \E k \in Kinds : Used(k) /\ slot'[k] = "ready"
  <2>1. ASSUME NEW u \in Threads \ {t} PROVE Starter(u)'
    BY <1>1, <1>5, <1>8, <2>1 DEF Starter
  <2>2. Starter(t)'
    BY <1>1, <1>5, <1>8 DEF Starter, Kind
  <2>3. server' = "up" =>
          \/ \E u \in Threads : pc'[u] = "hook"
          \/ \E k \in Kinds : Used(k) /\ slot'[k] = "ready"
    BY <1>1, <1>5, <1>8
  <2>4. data' # "partial" /\ \A u \in Threads : pc'[u] = "start" => data' = "whole"
    BY <1>1, <1>5, <1>8
  <2>5. QED
    BY <1>5, <1>8, <2>1, <2>2, <2>3, <2>4
<1>9. CASE Call(t)
  <2>1. pc[t] = "call" /\ UNCHANGED <<slot, slotLock, data, server, workerVar, calls, guard>>
    BY <1>9 DEF Call, files, locks
  <2>2. guard[t] = "none"
    BY <1>5, <2>1 DEF Starter
  <2>3. pc'[t] \notin (Asking \ {"slot"}) \cup G
    <3>1. calls[t] # << >> => Kind(t) # "own"
      BY <1>6 DEF Kinds
    <3>2. pc'[t] \in {"slot", "db", "close"}
      BY <1>0, <1>9, <3>1 DEF Call, To, TypeOK
    <3>3. QED
      BY <3>2 DEF Asking
  <2>4. QED
    BY <1>8, <2>1, <2>2, <2>3
<1>10. CASE TakeSlot(t)
  <2>1. calls[t] # << >> /\ pc[t] = "slot"
    BY <1>0, <1>10 DEF TakeSlot, Protocol, Asking
  <2>2. /\ slot[Kind(t)] \in {"none", "ready"} /\ guard[t] = "none"
        /\ UNCHANGED <<slot, data, server, workerVar, guard>>
    <3>1. slot[Kind(t)] \in {"none", "ready", "failed"} /\ slot[Kind(t)] # "failed"
      BY <1>0, <1>5, <1>6, <2>1 DEF TypeOK
    <3>2. guard[t] = "none"
      BY <1>5, <2>1 DEF Starter
    <3>3. UNCHANGED <<slot, data, server, workerVar, guard>>
      BY <1>10 DEF TakeSlot, dbs, files
    <3>4. QED
      BY <3>1, <3>2, <3>3
  <2>3. CASE slot[Kind(t)] = "ready"
    <3>1. pc'[t] = "call" /\ UNCHANGED slotLock
      BY <1>0, <1>10, <2>3 DEF TakeSlot, Served, To, TypeOK
    <3>2. QED
      BY <1>8, <2>1, <2>2, <3>1 DEF Asking
  <2>4. CASE slot[Kind(t)] = "none"
    <3>1. /\ pc'[t] = "var" /\ slotLock[Kind(t)] = None
          /\ slotLock' = [slotLock EXCEPT ![Kind(t)] = t] /\ calls' = calls
      BY <1>0, <1>10, <2>4 DEF TakeSlot, To, TypeOK
    <3>2. Kind(t)' = Kind(t)
      BY <3>1 DEF Kind
    <3>3. Starter(t)'
      BY <1>0, <1>6, <2>1, <2>2, <2>4, <3>1, <3>2 DEF Starter, TypeOK
    <3>4. ASSUME NEW u \in Threads \ {t} PROVE Starter(u)'
      <4>1. pc[u] \in Asking \ {"slot"} => slotLock[Kind(u)] = u /\ slot[Kind(u)] = "none"
        BY <1>5 DEF Starter
      <4>2. slotLock[Kind(u)] = u => slotLock'[Kind(u)] = u
        BY <1>0, <1>7, <3>1 DEF TypeOK
      <4>3. QED
        BY <1>1, <1>5, <2>2, <4>1, <4>2 DEF Starter
    <3>5. data' # "partial" /\ \A u \in Threads : pc'[u] = "start" => data' = "whole"
      BY <1>1, <1>5, <2>2, <3>1
    <3>6. QED
      BY <1>1, <1>5, <2>1, <2>2, <3>3, <3>4, <3>5
  <2>5. QED
    BY <2>2, <2>3, <2>4
<1>11. CASE LookForWorker(t)
  <2>1. /\ pc[t] = "var" /\ pc'[t] = IF root /\ ~workerVar THEN "worker" ELSE "boot"
        /\ UNCHANGED <<slot, slotLock, data, server, workerVar, calls, guard>>
    BY <1>0, <1>11 DEF LookForWorker, To, TypeOK, dbs, files, locks
  <2>2. guard[t] = "none"
    BY <1>5, <2>1 DEF Starter
  <2>3. QED
    BY <1>8, <2>1, <2>2 DEF Asking
<1>12. CASE SetWorker(t)
  <2>1. /\ pc[t] = "worker" /\ pc'[t] = "boot" /\ workerVar'
        /\ UNCHANGED <<slot, slotLock, data, server, calls>>
    BY <1>0, <1>12 DEF SetWorker, To, TypeOK, dbs, files
  <2>2. QED
    BY <1>8, <2>1 DEF Asking
<1>13. CASE Bootstrap(t)
  <2>1. pc[t] = "boot" /\ ~(root /\ ~workerVar)
    BY <1>5, <1>13 DEF Bootstrap, Starter
  <2>2. pc'[t] = "sandbox" /\ UNCHANGED <<slot, slotLock, data, server, workerVar, calls, guard>>
    BY <1>0, <1>13, <2>1 DEF Bootstrap, To, TypeOK, dbs, files, locks
  <2>3. QED
    BY <1>8, <2>1, <2>2 DEF Asking
<1>14. CASE ApplySandbox(t)
  <2>1. /\ pc[t] = "sandbox" /\ pc'[t] = "setup"
        /\ UNCHANGED <<slot, slotLock, data, server, workerVar, calls, guard>>
    BY <1>0, <1>14 DEF ApplySandbox, To, TypeOK, dbs, files
  <2>2. root => workerVar
    BY <1>5, <2>1 DEF Starter
  <2>3. QED
    BY <1>8, <2>1, <2>2 DEF Asking
<1>15. CASE SetupServer(t)
  <2>1. /\ pc[t] = "setup" /\ pc'[t] = "start" /\ data' = "whole"
        /\ server' = "up" => server = "up"
        /\ UNCHANGED <<slot, slotLock, workerVar, calls, guard>>
    BY <1>0, <1>5, <1>15 DEF SetupServer, SetUp, StopValue, Down, To, TypeOK, locks
  <2>2. Starter(t)'
    BY <1>1, <1>5, <2>1 DEF Starter, Asking, Kind
  <2>3. ASSUME NEW u \in Threads \ {t} PROVE Starter(u)'
    BY <1>1, <1>5, <2>1, <2>3 DEF Starter
  <2>4. server' = "up" => \/ \E u \in Threads : pc'[u] = "hook"
                          \/ \E k \in Kinds : Used(k) /\ slot'[k] = "ready"
    BY <1>1, <1>5, <2>1
  <2>5. QED
    BY <1>5, <2>1, <2>2, <2>3, <2>4
<1>15a. CASE StartFails(t)
  <2>1. pc[t] \in {"setup", "start"} /\ GoesWrong(t)
    BY <1>15a DEF StartFails
  <2>2. ~CannotGoOn(t)
    BY <1>4, <1>5, <2>1, NothingInTheWay DEF CannotGoOn
  <2>3. QED
    BY <1>4, <2>1, <2>2 DEF GoesWrong, Fault, After
<1>15b. CASE StartServer(t)
  <2>1. pc[t] = "start" /\ Kind(t) # "own" /\ data = "whole"
    BY <1>0, <1>5, <1>6, <1>15b DEF StartServer, Protocol, Asking, Kinds
  <2>2. /\ data' = "whole" /\ pc'[t] = "hook"
        /\ UNCHANGED <<slot, slotLock, workerVar, calls, guard>>
    BY <1>0, <1>15b, <2>1 DEF StartServer, SetUp, To, TypeOK, locks
  <2>3. Starter(t)'
    BY <1>1, <1>5, <2>1, <2>2 DEF Starter, Asking, Kind
  <2>4. ASSUME NEW u \in Threads \ {t} PROVE Starter(u)'
    BY <1>1, <1>5, <2>2, <2>4 DEF Starter
  <2>5. QED
    BY <1>5, <2>2, <2>3, <2>4
<1>16. CASE Publish(t)
  <2>1. calls[t] # << >> /\ pc[t] = "hook"
    BY <1>0, <1>16 DEF Publish, Protocol, Asking
  <2>2. /\ pc'[t] = "call" /\ guard'[t] = "none" /\ UNCHANGED <<data, server, workerVar>>
        /\ slot' = [slot EXCEPT ![Kind(t)] = "ready"]
        /\ slotLock' = [slotLock EXCEPT ![Kind(t)] = None]
    BY <1>0, <1>16 DEF Publish, Served, To, TypeOK, dbs, files
  <2>3. slotLock[Kind(t)] = t
    BY <1>5, <2>1 DEF Starter, Asking
  <2>4. Starter(t)'
    BY <2>2 DEF Starter, Asking
  <2>5. ASSUME NEW u \in Threads \ {t} PROVE Starter(u)'
    <3>1. pc[u] \in Asking \ {"slot"} => slotLock[Kind(u)] = u /\ slot[Kind(u)] = "none"
      BY <1>5 DEF Starter
    <3>2. slotLock[Kind(u)] = u => slotLock'[Kind(u)] = u /\ slot'[Kind(u)] = slot[Kind(u)]
      BY <1>0, <2>2, <2>3 DEF TypeOK
    <3>3. QED
      BY <1>1, <1>5, <2>2, <3>1, <3>2 DEF Starter
  <2>6. slot'[Kind(t)] = "ready" /\ Used(Kind(t)) /\ Kind(t) \in Kinds
        /\ \A k \in Kinds : slot'[k] # "failed"
    BY <1>0, <1>5, <1>6, <2>1, <2>2 DEF TypeOK
  <2>7. data' # "partial" /\ \A u \in Threads : pc'[u] = "start" => data' = "whole"
    BY <1>1, <1>5, <2>2
  <2>8. QED
    BY <2>4, <2>5, <2>6, <2>7
<1>17. CASE Work(t)
  <2>1. pc[t] = "db" /\ UNCHANGED <<pc, slot, slotLock, data, server, workerVar, calls, guard>>
    BY <1>17 DEF Work, files, locks, tests
  <2>2. guard[t] = "none"
    BY <1>5, <2>1 DEF Starter
  <2>3. QED
    BY <1>8, <2>1, <2>2 DEF Asking
<1>18. CASE WorkDone(t)
  <2>1. pc[t] = "db" /\ pc'[t] = "close" /\ UNCHANGED <<slot, slotLock, data, server, workerVar, guard>>
    BY <1>0, <1>18 DEF WorkDone, To, TypeOK, dbs, files, locks
  <2>2. guard[t] = "none"
    BY <1>5, <2>1 DEF Starter
  <2>3. QED
    BY <1>8, <2>1, <2>2 DEF Asking
<1>19. CASE Close(t)
  <2>1. pc[t] = "close" /\ ~own[t]
    BY <1>5, <1>19, AsksForSingletons DEF Close
  <2>2. guard[t] = "none"
    BY <1>5, <2>1 DEF Starter
  <2>3. /\ pc'[t] = "over" /\ guard'[t] = "none"
        /\ UNCHANGED <<slot, slotLock, data, server, workerVar>>
    BY <1>0, <1>19, <2>1, <2>2 DEF Close, DropWorkerGuard, To, TypeOK
  <2>4. QED
    BY <1>8, <2>1, <2>3 DEF Asking
<1>20. QED
  BY <1>9, <1>10, <1>11, <1>12, <1>13, <1>14, <1>15, <1>15a, <1>15b, <1>16, <1>17, <1>18, <1>19 DEF Step

LEMMA StartInvHolds == Spec => []StartInv
<1>1. Init => StartInv
  BY DEF Init, DbInit, StartInv, Starter, Asking
<1>2. SharedInv /\ SharedInv' /\ ExitInv /\ StartInv /\ [Next]_vars => StartInv'
  <2>1. ASSUME SharedInv, StartInv,
               UNCHANGED <<test, root, pc, calls, slot, slotLock, guard, workerVar>>,
               blame \subseteq blame',
               ~After({"late"}) => /\ server' = "up" => server = "up"
                                   /\ data' = data \/ (data' = "absent" /\ exit' = "gone")
                                   /\ exit = "gone" => exit' = "gone"
        PROVE  StartInv'
    <3>1. (\A k : Used(k)' <=> Used(k)) /\ (OneServer' <=> OneServer)
      BY <2>1 DEF OneServer, Used, Asks
    <3>2. \A u : Kind(u)' = Kind(u)
      BY <2>1 DEF Kind
    <3>3. QED
      BY <2>1, <3>1, <3>2 DEF StartInv, Starter, After
  <2>2. ASSUME SharedInv, ExitInv, Others
        PROVE  /\ UNCHANGED <<test, root, pc, calls, slot, slotLock, guard, workerVar>>
               /\ blame \subseteq blame'
               /\ ~After({"late"}) => /\ server' = "up" => server = "up"
                                      /\ data' = data \/ (data' = "absent" /\ exit' = "gone")
                                      /\ exit = "gone" => exit' = "gone"
    <3>1. /\ UNCHANGED <<test, root, pc, calls, slot, slotLock, guard, workerVar>>
          /\ blame \subseteq blame'
      BY <2>2, OthersTypes DEF locks, tests
    <3>2. ASSUME ~After({"late"})
          PROVE  /\ server' = "up" => server = "up"
                 /\ data' = data \/ (data' = "absent" /\ exit' = "gone")
                 /\ exit = "gone" => exit' = "gone"
      <4>1. ~LateStep
        BY <2>2, <3>2 DEF ExitInv, LateStep, LateSetup, LateStart
      <4>2. CASE ServerDies \/ ExitsEarly
        BY <4>2 DEF ServerDies, ExitsEarly, Exit, Down, files
      <4>3. CASE Exits \/ ReadPid
        BY <4>3 DEF Exits, ReadPid, Exit, dbs, files
      <4>4. CASE Stops \/ CleansUp
        BY <4>4 DEF Stops, CleansUp, Exit, Down, files
      <4>5. QED
        BY <2>2, <4>1, <4>2, <4>3, <4>4 DEF Others, ExitStep
    <3>3. QED
      BY <3>1, <3>2
  <2>3. ASSUME SharedInv, StartInv, UNCHANGED vars PROVE StartInv'
    BY <2>1, <2>3 DEF vars, dbs, files, work, locks, tests
  <2>4. ASSUME SharedInv, ExitInv, StartInv, Others PROVE StartInv'
    BY <2>1, <2>2, <2>4
  <2>5. ASSUME SharedInv, SharedInv', StartInv, NEW t \in Threads, Step(t)
        PROVE  StartInv'
    BY <2>5, StartKeptByTests
  <2>6. QED
    BY <2>3, <2>4, <2>5 DEF Next, Others, Gone
<1>3. QED
  BY <1>1, <1>2, SharedHolds, ExitInvHolds, PTL DEF Spec

\* However many tests ask for a shared cluster at once, it fails only because a start
\* failed, or a test_cluster() or the other singleton was there.
THEOREM FailureExplained == Spec => []StartFailureHasCause
<1>1. StartInv => StartFailureHasCause
  BY DEF StartInv, OneServer, StartFailureHasCause
<1>2. QED
  BY <1>1, StartInvHolds, PTL

-----------------------------------------------------------------------------
(* The databases of a name.                                                *)

-----------------------------------------------------------------------------
(* The shards a thread holds.                                              *)

\* What is not work in a database leaves the shards alone; a test begins by ensuring its
\* template.
LEMMA OutsideWork ==
  ASSUME SharedInv, NEW t \in Threads, Step(t), ~Work(t)
  PROVE  /\ UNCHANGED <<test, shard, shardLock>>
         /\ \/ UNCHANGED <<building, at>>
            \/ /\ at[t] = "idle" /\ at' = [at EXCEPT ![t] = "ensure"]
               /\ test[t].template \in Templates
               /\ building' = [building EXCEPT ![t] = <<test[t].template>>]
<1>0. TypeOK /\ Protocol(t)
  BY DEF SharedInv
<1>1. CASE Call(t)
  <2>1. at[t] = "idle" /\ test[t].template \in Templates \cup {None}
    BY <1>0, <1>1, TestParts DEF Call, Protocol
  <2>2. UNCHANGED <<test, shard, shardLock>>
    BY <1>1 DEF Call
  <2>3. \/ UNCHANGED <<building, at>>
        \/ /\ at' = [at EXCEPT ![t] = "ensure"]
           /\ test[t].template # None
           /\ building' = [building EXCEPT ![t] = <<test[t].template>>]
    BY <1>1 DEF Call, Goto
  <2>4. QED
    BY <2>1, <2>2, <2>3
<1>2. CASE ~Call(t)
  BY <1>2 DEF Step, TakeSlot, LookForWorker, SetWorker, Bootstrap, ApplySandbox, SetupServer,
              StartServer, StartFails, Publish, WorkDone, Close, dbs, work
<1>3. QED
  BY <1>1, <1>2

\* What is left of a sequence without its head.
LEMMA TailParts ==
  ASSUME NEW S, NEW b \in Seq(S), b # << >>
  PROVE  /\ Len(b) \in Nat \ {0} /\ DOMAIN b = 1..Len(b)
         /\ Len(Tail(b)) = Len(b) - 1 /\ DOMAIN Tail(b) = 1..(Len(b) - 1)
         /\ \A i \in DOMAIN Tail(b) : i + 1 \in DOMAIN b /\ i + 1 # 1 /\ Tail(b)[i] = b[i + 1]
         /\ \A j \in DOMAIN b : j # 1 => j - 1 \in DOMAIN Tail(b) /\ Tail(b)[j - 1] = b[j]
<1>1. Len(b) \in Nat \ {0} /\ DOMAIN b = 1..Len(b)
  BY EmptySeq
<1>2. /\ Tail(b) \in Seq(S) /\ Len(Tail(b)) = Len(b) - 1
      /\ \A i \in 1..Len(Tail(b)) : Tail(b)[i] = b[i + 1]
  BY HeadTailProperties
<1> DEFINE n == Len(b)
           r == Tail(b)
<1>3. n \in Nat \ {0} /\ DOMAIN b = 1..n /\ Len(r) = n - 1 /\ DOMAIN r = 1..(n - 1)
      /\ \A i \in 1..(n - 1) : r[i] = b[i + 1]
  BY <1>1, <1>2
<1>. HIDE DEF n, r
<1>4. \A i \in DOMAIN r : i + 1 \in DOMAIN b /\ i + 1 # 1 /\ r[i] = b[i + 1]
  BY <1>3
<1>5. ASSUME NEW j \in DOMAIN b, j # 1 PROVE j - 1 \in DOMAIN r /\ r[j - 1] = b[j]
  <2>1. j - 1 \in 1..(n - 1) /\ (j - 1) + 1 = j
    BY <1>3, <1>5
  <2>2. QED
    BY <1>3, <2>1
<1>6. QED
  BY <1>3, <1>4, <1>5 DEF n, r

\* A sequence with one more in front.
LEMMA PushParts ==
  ASSUME NEW S, NEW b \in Seq(S), NEW x \in S, NEW c, c = <<x>> \o b
  PROVE  /\ c \in Seq(S) /\ c # << >> /\ DOMAIN b = 1..Len(b) /\ Len(b) \in Nat
         /\ Len(c) = Len(b) + 1 /\ DOMAIN c = 1..(Len(b) + 1) /\ c[1] = x /\ Head(c) = x
         /\ \A i \in DOMAIN b : i + 1 \in DOMAIN c /\ i + 1 # 1 /\ c[i + 1] = b[i]
         /\ \A j \in DOMAIN c : j # 1 => j - 1 \in DOMAIN b /\ c[j] = b[j - 1]
<1>1. <<x>> \in Seq(S) /\ Len(<<x>>) = 1 /\ <<x>>[1] = x
  OBVIOUS
<1> DEFINE a == <<x>>
           n == Len(b)
<1>2. n \in Nat /\ DOMAIN b = 1..n /\ Len(a) = 1 /\ a[1] = x /\ a \in Seq(S) /\ c = a \o b
  BY <1>1
<1>. HIDE DEF a, n
<1>3. c \in Seq(S) /\ Len(c) = 1 + n
  BY <1>2 DEF n
<1>4. \A i \in 1..(1 + n) : c[i] = IF i <= 1 THEN a[i] ELSE b[i - 1]
  BY <1>2 DEF n
<1>5. DOMAIN c = 1..(n + 1) /\ c # << >> /\ c[1] = x
  BY <1>2, <1>3, <1>4
<1>6. Head(c) = x
  BY <1>3, <1>5
<1>7. ASSUME NEW i \in DOMAIN b PROVE i + 1 \in DOMAIN c /\ i + 1 # 1 /\ c[i + 1] = b[i]
  <2>1. i + 1 \in 1..(1 + n) /\ i + 1 # 1 /\ ~(i + 1 <= 1) /\ (i + 1) - 1 = i
    BY <1>2
  <2>2. c[i + 1] = b[(i + 1) - 1]
    BY <1>4, <2>1
  <2>3. QED
    BY <1>2, <1>5, <2>1, <2>2
<1>8. ASSUME NEW j \in DOMAIN c, j # 1 PROVE j - 1 \in DOMAIN b /\ c[j] = b[j - 1]
  BY <1>2, <1>4, <1>5, <1>8
<1>9. QED
  BY <1>2, <1>3, <1>5, <1>6, <1>7, <1>8 DEF n

\* What work in a database does to the templates being ensured, their locks and
\* themselves.
LEMMA EnsuringEffect ==
  ASSUME SharedInv, NEW t \in Threads, DbStep(t)
  PROVE  \/ LockTemplate(t)
         \/ /\ at[t] \in {"exists", "setup"} /\ Ensured(t)
            /\ at[t] = "exists" => db' = db /\ db[Top(t)] # "absent"
            /\ at[t] = "setup" =>
                 db' = [db EXCEPT ![Top(t)] = IF Needs[Top(t)] = None THEN "whole"
                                              ELSE db[Needs[Top(t)]]]
         \/ /\ GiveUp(t) /\ db' = db /\ at[t] \in {"exists", "create", "setup"}
            /\ \/ ~Reached(t)
               \/ "setup" \in blame'
               \/ at[t] = "create" /\ db[Top(t)] # "absent"
               \/ at[t] = "setup" /\ \/ db[Top(t)] = "absent"
                                     \/ Needs[Top(t)] # None /\ db[Needs[Top(t)]] = "absent"
         \/ /\ at[t] = "needs" /\ Needs[Top(t)] \in Templates
            /\ building' = [building EXCEPT ![t] = <<Needs[Top(t)]>> \o building[t]]
            /\ at' = [at EXCEPT ![t] = "ensure"] /\ shardLock' = shardLock /\ db' = db
         \/ /\ UNCHANGED <<building, shardLock>>
            /\ at[t] \notin {"ensure", "setup"} /\ at'[t] \notin {"ensure", "clone"}
            /\ at[t] = "needs" => at'[t] = "setup"
            /\ at[t] = "create" => at'[t] = "needs"
            /\ at'[t] = "setup" => at[t] = "needs" /\ Needs[Top(t)] = None
            /\ at'[t] = "needs" => at[t] = "create" /\ db' = [db EXCEPT ![Top(t)] = "partial"]
            /\ at'[t] = "create" => at[t] = "exists" /\ db[Top(t)] = "absent" /\ db' = db
<1>0. TypeOK /\ Protocol(t)
  BY DEF SharedInv
<1>1. CASE LockTemplate(t)
  BY <1>1
<1>2. CASE DatabaseExists(t)
  BY <1>0, <1>2 DEF DatabaseExists, Goto, TypeOK
<1>3. CASE CreateTemplate(t)
  BY <1>0, <1>3 DEF CreateTemplate, Goto, TypeOK
<1>4. CASE SetupBegins(t)
  <2>1. /\ at[t] = "needs" /\ shardLock' = shardLock /\ db' = db
        /\ Top(t) \in Templates
    BY <1>0, <1>4, TopType DEF SetupBegins, Protocol, Ensuring
  <2>2. \/ Needs[Top(t)] = None /\ Goto(t, "setup") /\ UNCHANGED building
        \/ /\ Needs[Top(t)] # None
           /\ building' = [building EXCEPT ![t] = <<Needs[Top(t)]>> \o building[t]]
           /\ Goto(t, "ensure")
    BY <1>4 DEF SetupBegins
  <2>3. Needs[Top(t)] \in Templates \cup {None}
    BY <2>1, DatabaseAssumption
  <2>4. QED
    BY <1>0, <2>1, <2>2, <2>3 DEF Goto, TypeOK
<1>5. CASE SetupEnds(t)
  <2>1. at[t] = "setup"
    BY <1>5 DEF SetupEnds
  <2>2. CASE /\ db' = [db EXCEPT ![Top(t)] = IF Needs[Top(t)] = None THEN "whole"
                                             ELSE db[Needs[Top(t)]]]
             /\ Ensured(t)
    BY <2>1, <2>2
  <2>3. CASE GiveUp(t) /\ db' = db
    BY <1>5, <2>1, <2>3 DEF SetupEnds, Fault
  <2>4. QED
    BY <1>5, <2>2, <2>3 DEF SetupEnds
<1>6. CASE CreateFromTemplate(t)
  BY <1>0, <1>6 DEF CreateFromTemplate, Goto, TypeOK
<1>7. CASE Connect(t)
  <2>1. PICK x \in {"using", "unwind"} : at' = [at EXCEPT ![t] = x]
    BY <1>7 DEF Connect, Goto
  <2>2. at[t] = "connect" /\ UNCHANGED <<building, shardLock>>
    BY <1>7 DEF Connect
  <2>3. QED
    BY <1>0, <2>1, <2>2 DEF TypeOK
<1>8. CASE Use(t)
  BY <1>0, <1>8 DEF Use, Goto, TypeOK
<1>9. CASE DropDatabase(t)
  BY <1>0, <1>9 DEF DropDatabase, Goto, TypeOK
<1>10. CASE DropGuard(t)
  BY <1>0, <1>10 DEF DropGuard, Goto, TypeOK
<1>11. CASE Terminate(t)
  BY <1>0, <1>11 DEF Terminate, Goto, TypeOK
<1>12. QED
  BY <1>1, <1>2, <1>3, <1>4, <1>5, <1>6, <1>7, <1>8, <1>9, <1>10, <1>11 DEF DbStep

\* Nobody takes the shard of another thread.
LEMMA LocksOfOthers ==
  ASSUME SharedInv, ShardInv, NEW t \in Threads, DbStep(t), NEW u \in Threads \ {t},
         NEW s \in Shards, shardLock[s] = u
  PROVE  shardLock'[s] = u
<1>0. TypeOK /\ Protocol(t) /\ u # None
  BY DatabaseAssumption DEF SharedInv
<1>1. CASE LockTemplate(t)
  BY <1>0, <1>1 DEF LockTemplate, TypeOK
<1>2. CASE at[t] \in {"exists", "setup"} /\ Ensured(t)
  <2>1. building[t] # << >> /\ shard[Top(t)] \in Shards /\ 1 \in DOMAIN building[t]
        /\ Top(t) = building[t][1]
    BY <1>0, <1>2, TopType DEF Protocol, Ensuring
  <2>2. shardLock[shard[Top(t)]] = t
    BY <1>2, <2>1 DEF ShardInv, ShardProtocol, Holds
  <2>3. shardLock' = [shardLock EXCEPT ![shard[Top(t)]] = None]
    BY <1>2 DEF Ensured
  <2>4. QED
    BY <1>0, <2>1, <2>2, <2>3 DEF TypeOK
<1>3. CASE GiveUp(t)
  BY <1>0, <1>3 DEF GiveUp
<1>4. CASE shardLock' = shardLock
  BY <1>4
<1>5. QED
  BY <1>1, <1>2, <1>3, <1>4, EnsuringEffect

\* A thread holds the shards of what it builds on.
LEMMA ShardKeptByWork ==
  ASSUME SharedInv, ShardInv, NEW t \in Threads, DbStep(t), shard' = shard, test' = test
  PROVE  ShardProtocol(t)'
<1>0. TypeOK /\ Protocol(t) /\ building[t] \in Seq(Templates) /\ t # None
  BY DatabaseAssumption DEF SharedInv, TypeOK
<1> DEFINE b == building[t]
<1>1. /\ \A i \in DOMAIN b : (i = 1 => at[t] # "ensure") => shardLock[shard[b[i]]] = t
      /\ \A i, j \in DOMAIN b : i # j /\ (i = 1 => at[t] # "ensure") /\ (j = 1 => at[t] # "ensure")
           => shard[b[i]] # shard[b[j]]
      /\ \A i, j \in DOMAIN b : j = i + 1 => Needs[b[j]] = b[i]
      /\ b # << >> => b[Len(b)] = test[t].template
  BY DEF ShardInv, ShardProtocol, Holds
<1>2. SUFFICES ASSUME NEW c, c = building'[t]
      PROVE  /\ \A i \in DOMAIN c : (i = 1 => at'[t] # "ensure") => shardLock'[shard[c[i]]] = t
             /\ \A i, j \in DOMAIN c :
                  i # j /\ (i = 1 => at'[t] # "ensure") /\ (j = 1 => at'[t] # "ensure")
                    => shard[c[i]] # shard[c[j]]
             /\ \A i, j \in DOMAIN c : j = i + 1 => Needs[c[j]] = c[i]
             /\ c # << >> => c[Len(c)] = test[t].template
  BY DEF ShardProtocol, Holds
<1>3. DOMAIN b = 1..Len(b) /\ \A i \in DOMAIN b : b[i] \in Templates /\ shard[b[i]] \in Shards
  BY <1>0 DEF TypeOK
<1>4. CASE LockTemplate(t)
  <2>1. /\ at[t] = "ensure" /\ b # << >> /\ Top(t) = b[1] /\ 1 \in DOMAIN b
        /\ shard[Top(t)] \in Shards
    BY <1>0, <1>4, TopType DEF LockTemplate, Protocol, Ensuring
  <2>2. /\ shardLock[shard[b[1]]] = None /\ c = b /\ at'[t] = "exists"
        /\ shardLock' = [shardLock EXCEPT ![shard[b[1]]] = t]
    BY <1>0, <1>2, <1>4, <2>1 DEF LockTemplate, Goto, TypeOK
  <2>3. ASSUME NEW i \in DOMAIN b, i # 1
        PROVE  shardLock[shard[b[i]]] = t /\ shard[b[i]] # shard[b[1]]
    BY <1>0, <1>1, <2>2, <2>3
  <2>. HIDE DEF b
  <2>4. \A i \in DOMAIN b : shardLock'[shard[b[i]]] = t
    BY <1>0, <1>3, <2>1, <2>2, <2>3 DEF TypeOK
  <2>5. \A i, j \in DOMAIN b : i # j => shard[b[i]] # shard[b[j]]
    BY <1>1, <2>3
  <2>6. QED
    BY <1>1, <2>2, <2>4, <2>5
<1>5. CASE at[t] \in {"exists", "setup"} /\ Ensured(t)
  <2>1. /\ b # << >> /\ Top(t) = b[1] /\ 1 \in DOMAIN b /\ shard[Top(t)] \in Shards
        /\ c = Tail(b) /\ shardLock' = [shardLock EXCEPT ![shard[b[1]]] = None]
    BY <1>0, <1>2, <1>5, EnsuredEffect, TopType, SMTT(20) DEF Protocol, Ensuring, TypeOK
  <2>2. /\ Len(b) \in Nat \ {0} /\ Len(c) = Len(b) - 1 /\ DOMAIN c = 1..(Len(b) - 1)
        /\ \A i \in DOMAIN c : i + 1 \in DOMAIN b /\ i + 1 # 1 /\ c[i] = b[i + 1]
    BY <1>0, <2>1, TailParts
  <2> DEFINE n == Len(b)
  <2>. HIDE DEF b, n
  <2>3. ASSUME NEW i \in DOMAIN c PROVE shardLock'[shard[c[i]]] = t
    <3>1. shardLock[shard[b[i + 1]]] = t /\ shard[b[i + 1]] # shard[b[1]]
      BY <1>1, <1>5, <2>1, <2>2, <2>3
    <3>2. QED
      BY <1>0, <1>3, <2>1, <2>2, <3>1 DEF TypeOK
  <2>4. ASSUME NEW i \in DOMAIN c, NEW j \in DOMAIN c
        PROVE  /\ i # j => shard[c[i]] # shard[c[j]]
               /\ j = i + 1 => Needs[c[j]] = c[i]
    <3>1. i \in Nat /\ j \in Nat
      BY <2>2
    <3>2. (i # j => i + 1 # j + 1) /\ (j = i + 1 => j + 1 = (i + 1) + 1)
      BY <3>1
    <3>3. QED
      BY <1>1, <1>5, <2>2, <3>2
  <2>5. c # << >> => c[Len(c)] = test[t].template
    <3>1. ASSUME c # << >> PROVE Len(c) \in DOMAIN c
      <4>1. c \in Seq(Templates)
        BY <1>0, <2>1, TopType DEF b
      <4>2. Len(c) \in Nat \ {0} /\ DOMAIN c = 1..Len(c)
        BY <3>1, <4>1, EmptySeq
      <4>3. QED
        BY <4>2
    <3>2. Len(c) + 1 = Len(b)
      <4>1. n \in Nat \ {0} /\ Len(c) = n - 1
        BY <2>2 DEF n
      <4>2. QED
        BY <4>1 DEF n
    <3>3. QED
      BY <1>1, <2>1, <2>2, <3>1, <3>2
  <2>6. QED
    BY <2>3, <2>4, <2>5
<1>6. CASE GiveUp(t)
  BY <1>2, <1>6, GiveUpEffect
<1>7. CASE /\ at[t] = "needs" /\ Needs[Top(t)] \in Templates
           /\ building' = [building EXCEPT ![t] = <<Needs[Top(t)]>> \o building[t]]
           /\ at' = [at EXCEPT ![t] = "ensure"] /\ shardLock' = shardLock
  <2>1. b # << >> /\ Top(t) = b[1] /\ 1 \in DOMAIN b
    BY <1>0, <1>7, TopType DEF Protocol, Ensuring
  <2> DEFINE d == <<Needs[Top(t)]>> \o b
  <2>2. building' = [building EXCEPT ![t] = d] /\ d = <<Needs[Top(t)]>> \o b
    BY <1>7
  <2>. HIDE DEF d
  <2>3. c = d /\ at'[t] = "ensure"
    BY <1>0, <1>2, <1>7, <2>2 DEF TypeOK
  <2>4. /\ Len(b) \in Nat /\ Len(c) = Len(b) + 1 /\ c[1] = Needs[b[1]]
        /\ DOMAIN c = 1..(Len(b) + 1) /\ DOMAIN b = 1..Len(b)
        /\ \A j \in DOMAIN c : j # 1 => j - 1 \in DOMAIN b /\ c[j] = b[j - 1]
    BY <1>0, <1>7, <2>1, <2>2, <2>3, PushParts
  <2> DEFINE n == Len(b)
  <2>5. n \in Nat \ {0} /\ Len(c) = n + 1 /\ DOMAIN c = 1..(n + 1) /\ DOMAIN b = 1..n
    BY <1>0, <2>1, <2>4, EmptySeq
  <2>. HIDE DEF b, n
  <2>6. ASSUME NEW i \in DOMAIN c, i # 1 PROVE shardLock'[shard[c[i]]] = t
    BY <1>1, <1>7, <2>4, <2>6
  <2>7. ASSUME NEW i \in DOMAIN c, NEW j \in DOMAIN c, i # j, i # 1, j # 1
        PROVE  shard[c[i]] # shard[c[j]]
    <3>1. i - 1 # j - 1
      BY <2>5, <2>7
    <3>2. QED
      BY <1>1, <1>7, <2>4, <2>7, <3>1
  <2>8. ASSUME NEW i \in DOMAIN c, NEW j \in DOMAIN c, j = i + 1 PROVE Needs[c[j]] = c[i]
    <3>1. j # 1 /\ j - 1 = i /\ (i # 1 => j - 1 = (i - 1) + 1)
      BY <2>5, <2>8
    <3>2. QED
      BY <1>1, <2>4, <3>1
  <2>9. c[Len(c)] = test[t].template
    <3>1. Len(c) \in DOMAIN c /\ Len(c) # 1 /\ Len(c) - 1 = n
      BY <2>5
    <3>2. QED
      BY <1>1, <2>1, <2>4, <3>1 DEF n
  <2>10. QED
    BY <2>3, <2>6, <2>7, <2>8, <2>9
<1>8. CASE UNCHANGED <<building, shardLock>> /\ at[t] # "ensure" /\ at'[t] # "ensure"
  BY <1>1, <1>2, <1>8
<1>9. QED
  BY <1>4, <1>5, <1>6, <1>7, <1>8, EnsuringEffect

LEMMA ShardInvHolds == Spec => []ShardInv
<1>1. ASSUME Init PROVE ShardInv
  <2>1. ASSUME NEW t \in Threads PROVE building[t] = << >> /\ DOMAIN building[t] = {}
    BY <1>1 DEF Init, DbInit
  <2>2. QED
    BY <2>1, ZenonT(40) DEF ShardInv, ShardProtocol
<1>2. SharedInv /\ ShardInv /\ [Next]_vars => ShardInv'
  <2>1. ASSUME ShardInv, UNCHANGED <<test, shard, shardLock, building, at>> PROVE ShardInv'
    BY <2>1 DEF ShardInv, ShardProtocol, Holds
  <2>2. ASSUME SharedInv, ShardInv, NEW t \in Threads, Step(t), Work(t) PROVE ShardInv'
    <3>1. DbStep(t) /\ shard' = shard /\ test' = test
      BY <2>2 DEF Work
    <3>2. ShardProtocol(t)'
      BY <2>2, <3>1, ShardKeptByWork
    <3>3. ASSUME NEW u \in Threads \ {t} PROVE ShardProtocol(u)'
      <4>1. at'[u] = at[u] /\ building'[u] = building[u]
        BY <2>2, <3>1, DbTypes
      <4>2. \A i \in DOMAIN building[u] : shard[building[u][i]] \in Shards
        BY <2>2 DEF SharedInv, TypeOK
      <4>3. \A s \in Shards : shardLock[s] = u => shardLock'[s] = u
        BY <2>2, <3>1, LocksOfOthers
      <4>4. QED
        BY <2>2, <3>1, <4>1, <4>2, <4>3 DEF ShardInv, ShardProtocol, Holds
    <3>4. QED
      BY <3>2, <3>3 DEF ShardInv
  <2>3. ASSUME SharedInv, ShardInv, NEW t \in Threads, Step(t), ~Work(t) PROVE ShardInv'
    <3>1. UNCHANGED <<test, shard, shardLock>>
      BY <2>3, OutsideWork
    <3>2. CASE UNCHANGED <<building, at>>
      BY <2>1, <2>3, <3>1, <3>2
    <3>3. CASE /\ at' = [at EXCEPT ![t] = "ensure"]
               /\ test[t].template \in Templates
               /\ building' = [building EXCEPT ![t] = <<test[t].template>>]
      <4> DEFINE c == <<test[t].template>>
      <4>1. DOMAIN c = {1} /\ Len(c) = 1 /\ c[1] = test[t].template /\ c # << >>
        OBVIOUS
      <4>2. building' = [building EXCEPT ![t] = c]
        BY <3>3
      <4>. HIDE DEF c
      <4>3. building'[t] = c /\ at'[t] = "ensure"
            /\ \A u \in Threads \ {t} : building'[u] = building[u] /\ at'[u] = at[u]
        BY <2>3, <3>3, <4>2 DEF SharedInv, TypeOK
      <4>4. ShardProtocol(t)'
        <5>1. /\ \A i \in DOMAIN c : i = 1 /\ at'[t] = "ensure"
              /\ \A i, j \in DOMAIN c : i = j /\ j # i + 1
              /\ c[Len(c)] = test'[t].template
          BY <3>1, <4>1, <4>3
        <5>2. QED
          BY <4>3, <5>1 DEF ShardProtocol, Holds
      <4>5. ASSUME NEW u \in Threads \ {t} PROVE ShardProtocol(u)'
        BY <2>3, <3>1, <4>3 DEF ShardInv, ShardProtocol, Holds
      <4>6. QED
        BY <4>4, <4>5 DEF ShardInv
    <3>4. QED
      BY <2>3, <3>2, <3>3, OutsideWork
  <2>4. ASSUME SharedInv, ShardInv, Others PROVE ShardInv'
    BY <2>1, <2>4, OthersTypes
  <2>5. ASSUME ShardInv, UNCHANGED vars PROVE ShardInv'
    BY <2>1, <2>5 DEF vars, dbs, work
  <2>6. QED
    BY <2>2, <2>3, <2>4, <2>5 DEF Next, Others, Gone
<1>3. QED
  BY <1>1, <1>2, SharedHolds, PTL DEF Spec

-----------------------------------------------------------------------------
(* The mutexes of the singletons.                                          *)

\* What a step does to the mutex of a singleton: nothing; its thread takes it, to start
\* the cluster; or gives it back.
SlotMove(t, k) ==
  \/ slotLock'[k] = slotLock[k] /\ slot'[k] = slot[k] /\ (Starts(t, k)' <=> Starts(t, k))
  \/ /\ slotLock[k] = None /\ slotLock'[k] = t /\ Starts(t, k)'
     /\ slot[k] = "none" /\ slot'[k] = "none"
  \/ Starts(t, k) /\ slotLock'[k] = None /\ ~Starts(t, k)'

\* A failed start gives back its mutex.
LEMMA FailMovesSlot ==
  ASSUME SharedInv, NEW t \in Threads, Fail(t), pc[t] \in {"boot", "setup", "start"},
         calls' = calls,
         NEW k \in Kinds
  PROVE  SlotMove(t, k)
<1>1. TypeOK
  BY DEF SharedInv
<1>2. pc'[t] = "close"
  BY <1>1, FailTypes DEF TypeOK
<1>3. ~Starts(t, k)'
  BY <1>2 DEF Starts, Asking
<1>4. CASE k = Kind(t)
  <2>1. Starts(t, k) /\ slotLock'[k] = None
    BY <1>4 DEF Fail, Starts, Asking
  <2>2. QED
    BY <1>3, <2>1 DEF SlotMove
<1>5. CASE k # Kind(t)
  <2>1. slotLock'[k] = slotLock[k] /\ slot'[k] = slot[k] /\ ~Starts(t, k)
    BY <1>5 DEF Fail, Starts
  <2>2. QED
    BY <1>3, <2>1 DEF SlotMove
<1>6. QED
  BY <1>4, <1>5

LEMMA StepMovesSlot ==
  ASSUME SharedInv, NEW t \in Threads, Step(t), NEW k \in Kinds
  PROVE  SlotMove(t, k)
<1>0. TypeOK /\ Protocol(t)
  BY DEF SharedInv
<1>1. ASSUME UNCHANGED <<slot, slotLock>>, Starts(t, k)' <=> Starts(t, k)
      PROVE  SlotMove(t, k)
  BY <1>1 DEF SlotMove
<1>2. CASE Call(t) \/ Work(t) \/ WorkDone(t) \/ Close(t)
  <2>1. UNCHANGED <<slot, slotLock>>
    BY <1>2 DEF Call, Work, WorkDone, Close, locks
  <2>2. pc[t] \in {"call", "db", "close"}
    BY <1>2 DEF Call, Work, WorkDone, Close
  <2>3. \/ pc'[t] \in {"slot", "db", "close", "over"}
        \/ pc'[t] = "var" /\ Kind(t)' = "own"
    <3>1. CASE Call(t)
      BY <1>0, <3>1 DEF Call, To, TypeOK, Kind
    <3>2. CASE Work(t)
      BY <3>2 DEF Work, tests
    <3>3. CASE WorkDone(t) \/ Close(t)
      BY <1>0, <3>3 DEF WorkDone, Close, To, TypeOK
    <3>4. QED
      BY <1>2, <3>1, <3>2, <3>3
  <2>4. k # "own"
    BY DEF Kinds
  <2>5. QED
    BY <1>1, <2>1, <2>2, <2>3, <2>4 DEF Starts, Asking
<1>3. CASE TakeSlot(t)
  <2>1. Kind(t) \in Kinds /\ pc[t] = "slot" /\ slotLock[Kind(t)] = None /\ slot' = slot
    BY <1>0, <1>3, KindType DEF TakeSlot, Protocol, Asking
  <2>2. ~Starts(t, k)
    BY <2>1 DEF Starts
  <2>3. CASE slot[Kind(t)] = "none"
    <3>1. /\ slotLock' = [slotLock EXCEPT ![Kind(t)] = t] /\ pc'[t] = "var"
          /\ calls' = calls
      BY <1>0, <1>3, <2>3 DEF TakeSlot, To, TypeOK
    <3>2. Starts(t, k)' <=> Kind(t) = k
      BY <3>1 DEF Starts, Asking, Kind
    <3>3. QED
      BY <1>0, <2>1, <2>2, <2>3, <3>1, <3>2 DEF SlotMove, TypeOK
  <2>4. CASE slot[Kind(t)] # "none"
    <3>1. slot[Kind(t)] \in {"ready", "failed"}
      BY <1>0, <2>1, <2>4 DEF TypeOK
    <3>2. pc'[t] \in {"call", "close"} /\ slotLock' = slotLock
      BY <1>0, <1>3, <3>1 DEF TakeSlot, Served, To, TypeOK
    <3>3. ~Starts(t, k)'
      BY <3>2 DEF Starts, Asking
    <3>4. QED
      BY <1>1, <2>1, <2>2, <3>2, <3>3
  <2>5. QED
    BY <2>3, <2>4
<1>4. ASSUME pc[t] \in Asking \ {"slot"}, pc'[t] \in Asking \ {"slot"}, calls' = calls,
             UNCHANGED <<slot, slotLock>>
      PROVE  SlotMove(t, k)
  BY <1>1, <1>4 DEF Starts, Kind
<1>5. CASE LookForWorker(t) \/ SetWorker(t) \/ ApplySandbox(t)
  <2>1. calls' = calls /\ UNCHANGED <<slot, slotLock>>
    BY <1>5 DEF LookForWorker, SetWorker, ApplySandbox, locks
  <2>2. pc[t] \in {"var", "worker", "sandbox"} /\ pc'[t] \in {"worker", "boot", "setup"}
    BY <1>0, <1>5 DEF LookForWorker, SetWorker, ApplySandbox, To, TypeOK
  <2>3. QED
    BY <1>4, <2>1, <2>2 DEF Asking
<1>6. CASE Bootstrap(t)
  <2>1. pc[t] = "boot" /\ calls' = calls
    BY <1>6 DEF Bootstrap
  <2>2. CASE Fail(t)
    BY <2>1, <2>2, FailMovesSlot
  <2>3. CASE To(t, "sandbox") /\ UNCHANGED <<slot, locks>>
    <3>1. pc'[t] = "sandbox" /\ UNCHANGED <<slot, slotLock>>
      BY <1>0, <2>3 DEF To, TypeOK, locks
    <3>2. QED
      BY <1>4, <2>1, <3>1 DEF Asking
  <2>4. QED
    BY <1>6, <2>2, <2>3 DEF Bootstrap
<1>7. CASE StartServer(t)
  <2>0. pc[t] = "start" /\ UNCHANGED <<slot, slotLock>>
    BY <1>7 DEF StartServer, locks
  <2>1. CASE Kind(t) = "own"
    <3>1. pc'[t] = "call"
      BY <1>0, <1>7, <2>1 DEF StartServer, Served, To, TypeOK
    <3>2. ~Starts(t, k) /\ ~Starts(t, k)'
      BY <2>1, <3>1 DEF Starts, Asking, Kinds
    <3>3. QED
      BY <1>1, <2>0, <3>2
  <2>2. CASE Kind(t) # "own"
    <3>1. pc'[t] = "hook" /\ calls' = calls
      BY <1>0, <1>7, <2>2 DEF StartServer, To, TypeOK
    <3>2. QED
      BY <1>4, <2>0, <3>1 DEF Asking
  <2>3. QED
    BY <2>1, <2>2
<1>7a. CASE SetupServer(t)
  <2>1. pc[t] = "setup" /\ calls' = calls /\ UNCHANGED <<slot, slotLock>>
    BY <1>7a DEF SetupServer, locks
  <2>2. pc'[t] = "start"
    BY <1>0, <1>7a DEF SetupServer, To, TypeOK
  <2>3. QED
    BY <1>4, <2>1, <2>2 DEF Asking
<1>7b. CASE StartFails(t)
  <2>1. Fail(t) /\ pc[t] \in {"setup", "start"} /\ calls' = calls
    BY <1>7b DEF StartFails
  <2>2. QED
    BY <2>1, FailMovesSlot
<1>8. CASE Publish(t)
  <2>1. /\ pc[t] = "hook" /\ pc'[t] = "call" /\ Kind(t) \in Kinds
        /\ slot' = [slot EXCEPT ![Kind(t)] = "ready"]
        /\ slotLock' = [slotLock EXCEPT ![Kind(t)] = None]
    BY <1>0, <1>8, KindType DEF Publish, Served, To, TypeOK, Protocol, Asking
  <2>2. ~Starts(t, k)' /\ (Starts(t, k) <=> Kind(t) = k)
    BY <2>1 DEF Starts, Asking
  <2>3. QED
    BY <1>0, <2>1, <2>2 DEF SlotMove, TypeOK
<1>9. QED
  BY <1>2, <1>3, <1>5, <1>6, <1>7, <1>7a, <1>7b, <1>8 DEF Step

\* A singleton that was started stays started.
LEMMA SlotKept ==
  ASSUME SharedInv, HolderInv, NEW t \in Threads, Step(t), NEW k \in Kinds
  PROVE  SlotHeld(k)' /\ (slot[k] = "ready" => slot'[k] = "ready")
<1>1. SlotHeld(k) /\ TypeOK /\ t # None /\ SlotMove(t, k)
  BY StepMovesSlot, DatabaseAssumption DEF HolderInv, SharedInv
<1>2. ASSUME NEW u \in Threads \ {t} PROVE Starts(u, k)' <=> Starts(u, k)
  <2>1. pc'[u] = pc[u] /\ calls'[u] = calls[u]
    BY StepIsOwn
  <2>2. QED
    BY <2>1 DEF Starts, Kind
<1>3. \A u \in Threads : u # None
  BY DatabaseAssumption
<1>4. CASE slotLock'[k] = slotLock[k] /\ slot'[k] = slot[k] /\ (Starts(t, k)' <=> Starts(t, k))
  <2>1. \A u \in Threads : slotLock'[k] = u <=> Starts(u, k)'
    BY <1>1, <1>2, <1>4 DEF SlotHeld
  <2>2. slotLock'[k] # None => slot'[k] = "none"
    BY <1>1, <1>4 DEF SlotHeld
  <2>3. QED
    BY <1>4, <2>1, <2>2 DEF SlotHeld
<1>5. CASE /\ slotLock[k] = None /\ slotLock'[k] = t /\ Starts(t, k)'
           /\ slot[k] = "none" /\ slot'[k] = "none"
  <2>1. \A u \in Threads : ~Starts(u, k)
    BY <1>1, <1>3, <1>5 DEF SlotHeld
  <2>2. \A u \in Threads : slotLock'[k] = u <=> Starts(u, k)'
    BY <1>2, <1>5, <2>1
  <2>3. QED
    BY <1>5, <2>2 DEF SlotHeld
<1>6. CASE Starts(t, k) /\ slotLock'[k] = None /\ ~Starts(t, k)'
  <2>1. slotLock[k] = t
    BY <1>1, <1>6 DEF SlotHeld
  <2>2. \A u \in Threads \ {t} : ~Starts(u, k)
    BY <1>1, <2>1 DEF SlotHeld
  <2>3. \A u \in Threads : slotLock'[k] = u <=> Starts(u, k)'
    BY <1>2, <1>3, <1>6, <2>2
  <2>4. slot[k] = "none"
    BY <1>1, <2>1 DEF SlotHeld
  <2>5. QED
    BY <1>6, <2>3, <2>4 DEF SlotHeld
<1>7. QED
  BY <1>1, <1>4, <1>5, <1>6 DEF SlotMove

-----------------------------------------------------------------------------
(* ENV_LOCK.                                                               *)

\* What a step does to ENV_LOCK: nothing; its thread enters a scope, or leaves some.
EnvMove(t) ==
  \/ UNCHANGED <<envLock, scopes>>
  \/ EnterScope(t)
  \/ \E n \in Nat : n <= scopes[t] /\ LeaveScopes(t, n)

\* A failed start leaves its scopes.
LEMMA FailMovesEnv ==
  ASSUME SharedInv, NEW t \in Threads, Fail(t), pc[t] \in {"boot", "setup", "start"}
  PROVE  \E n \in Nat : n <= scopes[t] /\ LeaveScopes(t, n)
<1> DEFINE n == (IF guard[t] # "none" /\ ~own[t] THEN 1 ELSE 0)
                + (IF pc[t] \in {"setup", "start"} THEN 1 ELSE 0)
<1>1. n \in Nat /\ n <= scopes[t]
  BY DEF SharedInv, Protocol, Starting, TypeOK
<1>2. LeaveScopes(t, n)
  BY DEF Fail, DropGuards
<1>3. QED
  BY <1>1, <1>2

\* A thread that keeps its scopes is over only if it has none, and asks for no cluster
\* that it did not already ask for.
LEMMA StepMovesEnv ==
  ASSUME SharedInv, NEW t \in Threads, Step(t)
  PROVE  /\ EnvMove(t)
         /\ pc'[t] = "over" => scopes'[t] = 0
         /\ pc'[t] \in {"call", "slot", "var"} =>
              \/ pc[t] \in {"call", "slot"} /\ slot' = slot /\ scopes' = scopes
              \/ pc[t] = "start" /\ Kind(t) = "own"
              \/ pc[t] = "hook" /\ slot'[Kind(t)] = "ready"
<1>0. TypeOK /\ Protocol(t) /\ scopes[t] \in Nat
  BY DEF SharedInv, TypeOK
<1>1. CASE Call(t) \/ TakeSlot(t)
  <2>1. pc[t] \in {"call", "slot"} /\ slot' = slot /\ scopes' = scopes /\ envLock' = envLock
    BY <1>1 DEF Call, TakeSlot, locks
  <2>2. pc'[t] # "over"
    <3>1. CASE Call(t)
      BY <1>0, <3>1 DEF Call, To, TypeOK
    <3>2. CASE TakeSlot(t)
      <4>1. slot[Kind(t)] \in {"none", "ready", "failed"}
        BY <1>0, <3>2, KindType DEF TakeSlot, TypeOK, Protocol, Asking
      <4>2. QED
        BY <1>0, <3>2, <4>1 DEF TakeSlot, Served, To, TypeOK
    <3>3. QED
      BY <1>1, <3>1, <3>2
  <2>3. QED
    BY <2>1, <2>2 DEF EnvMove
<1>2. CASE LookForWorker(t)
  <2>1. pc'[t] \in {"worker", "boot"} /\ UNCHANGED <<envLock, scopes>>
    BY <1>0, <1>2 DEF LookForWorker, To, TypeOK, locks
  <2>2. QED
    BY <2>1 DEF EnvMove
<1>3. CASE SetWorker(t) \/ ApplySandbox(t)
  <2>1. pc'[t] \in {"boot", "setup"} /\ EnterScope(t)
    BY <1>0, <1>3 DEF SetWorker, ApplySandbox, To, TypeOK
  <2>2. QED
    BY <2>1 DEF EnvMove
<1>4. ASSUME Fail(t), pc[t] \in {"boot", "setup", "start"}
      PROVE  EnvMove(t) /\ pc'[t] = "close"
  BY <1>0, <1>4, FailMovesEnv, FailTypes DEF EnvMove, TypeOK
<1>5. CASE Bootstrap(t)
  <2>1. CASE Fail(t)
    BY <1>4, <1>5, <2>1 DEF Bootstrap
  <2>2. CASE To(t, "sandbox") /\ UNCHANGED <<slot, locks>>
    <3>1. pc'[t] = "sandbox" /\ UNCHANGED <<envLock, scopes>>
      BY <1>0, <2>2 DEF To, TypeOK, locks
    <3>2. QED
      BY <3>1 DEF EnvMove
  <2>3. QED
    BY <1>5, <2>1, <2>2 DEF Bootstrap
<1>6. CASE StartServer(t)
  <2>0. pc[t] = "start" /\ UNCHANGED <<envLock, scopes>>
    BY <1>6 DEF StartServer, locks
  <2>1. CASE Kind(t) = "own"
    <3>1. pc'[t] = "call"
      BY <1>0, <1>6, <2>1 DEF StartServer, Served, To, TypeOK
    <3>2. QED
      BY <2>0, <2>1, <3>1 DEF EnvMove
  <2>2. CASE Kind(t) # "own"
    <3>1. pc'[t] = "hook"
      BY <1>0, <1>6, <2>2 DEF StartServer, To, TypeOK
    <3>2. QED
      BY <2>0, <3>1 DEF EnvMove
  <2>3. QED
    BY <2>1, <2>2
<1>6a. CASE SetupServer(t)
  <2>1. pc'[t] = "start" /\ UNCHANGED <<envLock, scopes>>
    BY <1>0, <1>6a DEF SetupServer, To, TypeOK, locks
  <2>2. QED
    BY <2>1 DEF EnvMove
<1>6b. CASE StartFails(t)
  <2>1. Fail(t) /\ pc[t] \in {"setup", "start"}
    BY <1>6b DEF StartFails
  <2>2. QED
    BY <1>4, <2>1
<1>7. CASE Publish(t)
  <2>1. Kind(t) \in Kinds
    BY <1>0, <1>7, KindType DEF Publish, Protocol, Asking
  <2>2. pc[t] = "hook" /\ pc'[t] = "call" /\ slot'[Kind(t)] = "ready"
        /\ UNCHANGED <<envLock, scopes>>
    BY <1>0, <1>7, <2>1 DEF Publish, Served, To, TypeOK
  <2>3. QED
    BY <2>2 DEF EnvMove
<1>8. CASE Work(t) \/ WorkDone(t)
  <2>1. pc'[t] \in {"db", "close"} /\ UNCHANGED <<envLock, scopes>>
    BY <1>0, <1>8 DEF Work, WorkDone, To, TypeOK, locks, tests
  <2>2. QED
    BY <2>1 DEF EnvMove
<1>9. CASE Close(t)
  <2>1. pc'[t] = "over" /\ LeaveScopes(t, scopes[t])
    BY <1>0, <1>9 DEF Close, To, TypeOK
  <2>2. scopes'[t] = 0
    BY <1>0, <2>1 DEF LeaveScopes, TypeOK
  <2>3. QED
    BY <1>0, <2>1, <2>2 DEF EnvMove
<1>10. QED
  BY <1>1, <1>2, <1>3, <1>5, <1>6, <1>6a, <1>6b, <1>7, <1>8, <1>9 DEF Step

\* Whoever has entered a scope has ENV_LOCK.
LEMMA ScopesHoldEnv ==
  ASSUME SharedInv, HolderInv, NEW t \in Threads, Step(t), NEW u \in Threads
  PROVE  scopes'[u] > 0 <=> envLock' = u
<1>1. /\ scopes \in [Threads -> Nat] /\ EnvMove(t)
      /\ \A v \in Threads : (scopes[v] > 0 <=> envLock = v) /\ v # None
  BY StepMovesEnv, DatabaseAssumption DEF SharedInv, TypeOK, HolderInv, EnvHeld
<1>2. CASE UNCHANGED <<envLock, scopes>>
  BY <1>1, <1>2
<1>3. CASE EnterScope(t)
  <2>1. scopes'[t] = scopes[t] + 1 /\ envLock' = t /\ envLock \in {None, t}
    BY <1>1, <1>3 DEF EnterScope
  <2>2. u # t => scopes'[u] = scopes[u]
    BY <1>1, <1>3 DEF EnterScope
  <2>3. QED
    BY <1>1, <2>1, <2>2
<1>4. CASE \E n \in Nat : n <= scopes[t] /\ LeaveScopes(t, n)
  <2>1. PICK n \in Nat : n <= scopes[t] /\ LeaveScopes(t, n)
    BY <1>4
  <2>2. scopes'[t] = scopes[t] - n /\ (u # t => scopes'[u] = scopes[u])
    BY <1>1, <2>1 DEF LeaveScopes
  <2>3. envLock' = IF envLock = t /\ scopes[t] = n THEN None ELSE envLock
    BY <2>1 DEF LeaveScopes
  <2>4. CASE u = t
    BY <1>1, <2>1, <2>2, <2>3, <2>4
  <2>5. CASE u # t
    BY <1>1, <2>2, <2>3, <2>5
  <2>6. QED
    BY <2>4, <2>5
<1>5. QED
  BY <1>1, <1>2, <1>3, <1>4 DEF EnvMove

LEMMA EnvKept ==
  ASSUME SharedInv, HolderInv, NEW t \in Threads, Step(t), NEW u \in Threads
  PROVE  EnvHeld(u)'
<1>1. TypeOK /\ Protocol(u) /\ EnvHeld(u) /\ (scopes'[u] > 0 <=> envLock' = u)
  BY ScopesHoldEnv DEF SharedInv, HolderInv
<1>2. \A k \in Kinds : slot[k] = "ready" => slot'[k] = "ready"
  BY SlotKept
<1>3. test' = test
  <2>1. CASE Work(t)
    BY <2>1 DEF Work
  <2>2. CASE ~Work(t)
    BY <2>2, OutsideWork
  <2>3. QED
    BY <2>1, <2>2
<1>4. OneKind(u)' <=> OneKind(u)
  BY <1>3 DEF OneKind
<1> DEFINE Shared(i) == test[u].calls[i] \in Kinds => slot[test[u].calls[i]] = "ready"
           SharedNext(i) == test[u].calls[i] \in Kinds => slot'[test[u].calls[i]] = "ready"
<1>5. \A i \in DOMAIN test[u].calls : Shared(i) => SharedNext(i)
  BY <1>2
<1>6. CASE u # t
  <2>1. pc'[u] = pc[u] /\ scopes'[u] = scopes[u]
    BY <1>6, StepIsOwn
  <2>2. QED
    BY <1>1, <1>3, <1>4, <1>5, <2>1 DEF EnvHeld
<1>7. CASE u = t
  <2>1. pc'[u] = "over" => scopes'[u] = 0
    BY <1>7, StepMovesEnv
  <2>2. ASSUME OneKind(u), scopes'[u] > 0, pc'[u] \in {"call", "slot", "var"}
        PROVE  \A i \in DOMAIN test[u].calls : SharedNext(i)
    <3>1. CASE pc[u] \in {"call", "slot"} /\ slot' = slot /\ scopes' = scopes
      BY <1>1, <1>5, <2>2, <3>1 DEF EnvHeld
    <3>2. CASE pc[u] \in {"start", "hook"} /\ (Kind(u) = "own" \/ slot'[Kind(u)] = "ready")
      <4>1. Asks(u, Kind(u))
        BY <1>1, <3>2, KindType DEF Protocol, Asking
      <4>2. \A i \in DOMAIN test[u].calls : test[u].calls[i] = Kind(u)
        BY <2>2, <4>1 DEF Asks, OneKind
      <4>3. "own" \notin Kinds
        BY DEF Kinds
      <4>4. QED
        BY <3>2, <4>2, <4>3
    <3>3. QED
      BY <1>7, <2>2, <3>1, <3>2, StepMovesEnv
  <2>3. QED
    BY <1>1, <1>3, <1>4, <2>1, <2>2 DEF EnvHeld
<1>8. QED
  BY <1>6, <1>7

-----------------------------------------------------------------------------
(* The shards.                                                             *)

\* Work in a database: a thread's shards are those of what it is ensuring.
LEMMA ShardHeldByWorker ==
  ASSUME SharedInv, ShardInv, HolderInv, NEW t \in Threads, DbStep(t), shard' = shard,
         NEW s \in Shards, shardLock'[s] = t
  PROVE  (\E i \in DOMAIN building[t] : Holds(t, i) /\ shard[building[t][i]] = s)'
<1>0. /\ TypeOK /\ Protocol(t) /\ building[t] \in Seq(Templates) /\ t # None
      /\ ShardHeld(s)
  BY DatabaseAssumption DEF SharedInv, TypeOK, HolderInv
<1> DEFINE b == building[t]
           c == building'[t]
<1>1. shardLock[s] = t =>
        \E i \in DOMAIN b : (i = 1 => at[t] # "ensure") /\ shard[b[i]] = s
  BY <1>0 DEF ShardHeld, Holds
<1>2. SUFFICES \E i \in DOMAIN c : (i = 1 => at'[t] # "ensure") /\ shard[c[i]] = s
  BY DEF Holds
<1>3. CASE LockTemplate(t)
  <2>1. b # << >> /\ Top(t) = b[1] /\ 1 \in DOMAIN b /\ c = b
    BY <1>0, <1>3, TopType DEF LockTemplate, Protocol, Ensuring
  <2>2. at'[t] = "exists" /\ shardLock' = [shardLock EXCEPT ![shard[b[1]]] = t]
    BY <1>0, <1>3, <2>1 DEF LockTemplate, Goto, TypeOK
  <2>3. CASE s = shard[b[1]]
    BY <2>1, <2>2, <2>3
  <2>4. CASE s # shard[b[1]]
    <3>1. shardLock[s] = t
      BY <1>0, <2>2, <2>4 DEF TypeOK
    <3>2. QED
      BY <1>1, <2>1, <2>2, <3>1
  <2>5. QED
    BY <2>3, <2>4
<1>4. CASE at[t] \in {"exists", "setup"} /\ Ensured(t)
  <2>1. /\ b # << >> /\ Top(t) = b[1] /\ 1 \in DOMAIN b /\ shard[b[1]] \in Shards
        /\ shardLock' = [shardLock EXCEPT ![shard[b[1]]] = None]
    BY <1>0, <1>4, EnsuredEffect, TopType DEF Protocol, Ensuring
  <2>2. c = Tail(b) /\ at'[t] # "ensure"
    <3>1. at[t] \in Ensuring
      BY <1>4 DEF Ensuring
    <3>2. building' = [building EXCEPT ![t] = Tail(building[t])] /\ at'[t] \in {"clone", "setup"}
      BY <1>4, <3>1, EnsuredEffect
    <3>3. QED
      BY <1>0, <3>2 DEF TypeOK
  <2>3. s # shard[b[1]] /\ shardLock[s] = t
    BY <1>0, <2>1 DEF TypeOK
  <2>4. PICK i \in DOMAIN b : shard[b[i]] = s
    BY <1>1, <2>3
  <2>5. i # 1
    BY <2>3, <2>4
  <2>6. i - 1 \in DOMAIN Tail(b) /\ Tail(b)[i - 1] = b[i]
    BY <1>0, <2>1, <2>5, TailParts
  <2>7. QED
    BY <2>2, <2>4, <2>6
<1>5. CASE GiveUp(t)
  BY <1>0, <1>5 DEF GiveUp
<1>6. CASE /\ at[t] = "needs" /\ Needs[Top(t)] \in Templates
           /\ building' = [building EXCEPT ![t] = <<Needs[Top(t)]>> \o building[t]]
           /\ shardLock' = shardLock
  <2>1. c = <<Needs[Top(t)]>> \o b
    BY <1>0, <1>6 DEF TypeOK
  <2>2. PICK i \in DOMAIN b : shard[b[i]] = s
    BY <1>1, <1>6
  <2>3. i + 1 \in DOMAIN c /\ i + 1 # 1 /\ c[i + 1] = b[i]
    BY <1>0, <1>6, <2>1, PushParts
  <2>4. QED
    BY <2>2, <2>3
<1>7. CASE UNCHANGED <<building, shardLock>> /\ at'[t] # "ensure"
  BY <1>1, <1>7
<1>8. QED
  BY <1>3, <1>4, <1>5, <1>6, <1>7, EnsuringEffect

\* Nobody is given a shard by another thread.
LEMMA NoGifts ==
  ASSUME SharedInv, NEW t \in Threads, DbStep(t), NEW u \in Threads \ {t},
         NEW s \in Shards, shardLock'[s] = u
  PROVE  shardLock[s] = u
<1>0. TypeOK /\ Protocol(t) /\ u # None
  BY DatabaseAssumption DEF SharedInv
<1>1. CASE LockTemplate(t)
  BY <1>0, <1>1 DEF LockTemplate, TypeOK
<1>2. CASE at[t] \in {"exists", "setup"} /\ Ensured(t)
  BY <1>0, <1>2 DEF Ensured, TypeOK
<1>3. CASE GiveUp(t)
  BY <1>0, <1>3 DEF GiveUp
<1>4. CASE shardLock' = shardLock
  BY <1>4
<1>5. QED
  BY <1>1, <1>2, <1>3, <1>4, EnsuringEffect

LEMMA ShardsKept ==
  ASSUME SharedInv, ShardInv, HolderInv, NEW t \in Threads, Step(t), NEW s \in Shards
  PROVE  ShardHeld(s)'
<1>0. TypeOK /\ Protocol(t) /\ ShardHeld(s)
  BY DEF SharedInv, HolderInv
<1>1. CASE Work(t)
  <2>1. DbStep(t) /\ shard' = shard
    BY <1>1 DEF Work
  <2>2. ASSUME NEW u \in Threads, shardLock'[s] = u
        PROVE  (\E i \in DOMAIN building[u] : Holds(u, i) /\ shard[building[u][i]] = s)'
    <3>1. CASE u = t
      BY <2>1, <2>2, <3>1, ShardHeldByWorker
    <3>2. CASE u # t
      <4>1. at'[u] = at[u] /\ building'[u] = building[u]
        BY <2>1, <3>2, DbTypes
      <4>2. shardLock[s] = u
        BY <2>1, <2>2, <3>2, NoGifts
      <4>3. QED
        BY <1>0, <2>1, <4>1, <4>2 DEF ShardHeld, Holds
    <3>3. QED
      BY <3>1, <3>2
  <2>3. QED
    BY <2>2 DEF ShardHeld
<1>2. CASE ~Work(t)
  <2>1. UNCHANGED <<shard, shardLock>>
    BY <1>2, OutsideWork
  <2>2. CASE UNCHANGED <<building, at>>
    BY <1>0, <2>1, <2>2 DEF ShardHeld, Holds
  <2>3. CASE at[t] = "idle"
    <3>1. building[t] = << >> /\ DOMAIN building[t] = {}
      BY <1>0, <2>3 DEF Protocol, Ensuring
    <3>2. \A u \in Threads : shardLock'[s] = u => u # t /\ at'[u] = at[u] /\ building'[u] = building[u]
      <4>1. shardLock[s] # t
        BY <1>0, <3>1 DEF ShardHeld
      <4>2. \A u \in Threads \ {t} : at'[u] = at[u] /\ building'[u] = building[u]
        BY StepIsOwn
      <4>3. QED
        BY <2>1, <4>1, <4>2
    <3>3. QED
      BY <1>0, <2>1, <3>2 DEF ShardHeld, Holds
  <2>4. QED
    BY <1>2, <2>2, <2>3, OutsideWork
<1>3. QED
  BY <1>1, <1>2

LEMMA HolderInvHolds == Spec => []HolderInv
<1>1. ASSUME Init PROVE HolderInv
  <2>1. \A t \in Threads : t # None
    BY DatabaseAssumption
  <2>2. \A k \in Kinds : SlotHeld(k)
    <3>1. /\ \A t \in Threads : pc[t] \in {"call", "over"}
          /\ \A k \in Kinds : slotLock[k] = None
      BY <1>1 DEF Init
    <3>2. QED
      BY <2>1, <3>1 DEF SlotHeld, Starts, Asking
  <2>3. ASSUME NEW u \in Threads PROVE EnvHeld(u)
    <3>1. scopes[u] = 0 /\ envLock # u
      BY <1>1, <2>1 DEF Init
    <3>2. QED
      BY <3>1 DEF EnvHeld
  <2>4. \A s \in Shards : ShardHeld(s)
    BY <1>1, <2>1 DEF Init, DbInit, ShardHeld
  <2>5. QED
    BY <2>2, <2>3, <2>4 DEF HolderInv
<1>2. ASSUME HolderInv,
             UNCHANGED <<test, pc, calls, slot, slotLock, envLock, scopes,
                         shard, shardLock, building, at>>
      PROVE  HolderInv'
  <2>1. ASSUME NEW k \in Kinds PROVE SlotHeld(k)'
    BY <1>2, <2>1 DEF HolderInv, SlotHeld, Starts, Kind
  <2>2. ASSUME NEW t \in Threads PROVE EnvHeld(t)'
    BY <1>2, <2>2 DEF HolderInv, EnvHeld, OneKind
  <2>3. ASSUME NEW s \in Shards PROVE ShardHeld(s)'
    BY <1>2, <2>3 DEF HolderInv, ShardHeld, Holds
  <2>4. QED
    BY <2>1, <2>2, <2>3 DEF HolderInv
<1>3. ASSUME SharedInv, ShardInv, HolderInv, NEW t \in Threads, Step(t) PROVE HolderInv'
  BY <1>3, SlotKept, EnvKept, ShardsKept DEF HolderInv
<1>4. ASSUME SharedInv, HolderInv, Others PROVE HolderInv'
  <2>1. UNCHANGED <<slot, locks, test, tests, shard, shardLock, building, at>>
    BY <1>4, OthersTypes
  <2>2. QED
    BY <1>2, <1>4, <2>1 DEF locks, tests
<1>5. SharedInv /\ ShardInv /\ HolderInv /\ [Next]_vars => HolderInv'
  <2>1. ASSUME HolderInv, UNCHANGED vars PROVE HolderInv'
    BY <1>2, <2>1 DEF vars, dbs, work, locks, tests
  <2>2. QED
    BY <1>3, <1>4, <2>1 DEF Next, Others, Gone
<1>6. QED
  BY <1>1, <1>5, SharedHolds, ShardInvHolds, PTL DEF Spec

-----------------------------------------------------------------------------
(* The order of the shards.                                                *)

Downwards(rank, b) ==
  \A i, j \in DOMAIN b : i < j => rank[shard[b[i]]] < rank[shard[b[j]]]

\* A template on top of those that need it.
LEMMA PushOrdered ==
  ASSUME TypeOK, NEW rank \in [Shards -> Nat], Respects(rank),
         NEW b \in Seq(Templates), b # << >>, Downwards(rank, b), Needs[b[1]] \in Templates,
         NEW c, c = <<Needs[b[1]]>> \o b
  PROVE  Downwards(rank, c)
<1>1. /\ c[1] = Needs[b[1]] /\ DOMAIN c = 1..(Len(b) + 1) /\ DOMAIN b = 1..Len(b) /\ Len(b) \in Nat
      /\ \A j \in DOMAIN c : j # 1 => j - 1 \in DOMAIN b /\ c[j] = b[j - 1]
  BY PushParts
<1>2. 1 \in DOMAIN b /\ \A i \in DOMAIN b : b[i] \in Templates /\ i \in Nat
  BY <1>1, EmptySeq
<1>3. \A m \in Templates : rank[shard[m]] \in Nat
  BY DEF TypeOK
<1>4. Needs[b[1]] # None
  BY DatabaseAssumption
<1>5. rank[shard[c[1]]] < rank[shard[b[1]]]
  BY <1>1, <1>2, <1>4 DEF Respects
<1>6. ASSUME NEW i \in DOMAIN c, NEW j \in DOMAIN c, i < j
      PROVE  rank[shard[c[i]]] < rank[shard[c[j]]]
  <2>1. i \in Nat /\ j \in Nat /\ 1 <= i /\ j # 1 /\ j - 1 \in DOMAIN b /\ c[j] = b[j - 1]
    BY <1>1, <1>6
  <2>2. CASE i = 1
    <3>1. b[1] = b[j - 1] \/ rank[shard[b[1]]] < rank[shard[b[j - 1]]]
      <4>1. j - 1 = 1 \/ 1 < j - 1
        BY <1>6, <2>1, <2>2
      <4>2. QED
        BY <1>2, <2>1, <4>1 DEF Downwards
    <3>2. rank[shard[c[1]]] \in Nat /\ rank[shard[b[1]]] \in Nat /\ rank[shard[b[j - 1]]] \in Nat
      BY <1>1, <1>2, <1>3, <2>1
    <3>3. QED
      <4> DEFINE x == rank[shard[c[1]]]
                 y == rank[shard[b[1]]]
                 z == rank[shard[b[j - 1]]]
      <4>1. x < y /\ (y = z \/ y < z) /\ x \in Nat /\ y \in Nat /\ z \in Nat
        BY <1>5, <3>1, <3>2
      <4>. HIDE DEF x, y, z
      <4>2. x < z
        BY <4>1
      <4>3. QED
        BY <2>1, <2>2, <4>2 DEF x, z
  <2>3. CASE i # 1
    <3>1. i - 1 \in DOMAIN b /\ c[i] = b[i - 1] /\ i - 1 < j - 1
      BY <1>1, <1>6, <2>1, <2>3
    <3>2. QED
      BY <2>1, <3>1 DEF Downwards
  <2>4. QED
    BY <2>2, <2>3
<1>7. QED
  BY <1>6 DEF Downwards

\* And without it.
LEMMA TailOrdered ==
  ASSUME NEW rank, NEW b \in Seq(Templates), b # << >>, Downwards(rank, b)
  PROVE  Downwards(rank, Tail(b))
<1>1. \A i \in DOMAIN Tail(b) : i + 1 \in DOMAIN b /\ Tail(b)[i] = b[i + 1] /\ i \in Nat
  BY TailParts
<1>2. ASSUME NEW i \in DOMAIN Tail(b), NEW j \in DOMAIN Tail(b), i < j
      PROVE  rank[shard[Tail(b)[i]]] < rank[shard[Tail(b)[j]]]
  <2>1. i + 1 < j + 1
    BY <1>1, <1>2
  <2>2. QED
    BY <1>1, <2>1 DEF Downwards
<1>3. QED
  BY <1>2 DEF Downwards

\* What a step does to the templates a thread is ensuring.
LEMMA StackMove ==
  ASSUME SharedInv, NEW t \in Threads, Step(t)
  PROVE  /\ shard' = shard
         /\ \A u \in Threads \ {t} : building'[u] = building[u]
         /\ \/ building'[t] = building[t]
            \/ building'[t] = << >>
            \/ building'[t] = <<test[t].template>>
            \/ building[t] # << >> /\ building'[t] = Tail(building[t])
            \/ /\ building[t] # << >> /\ Needs[building[t][1]] \in Templates
               /\ building'[t] = <<Needs[building[t][1]]>> \o building[t]
<1>0. TypeOK /\ Protocol(t)
  BY DEF SharedInv
<1>1. shard' = shard /\ \A u \in Threads \ {t} : building'[u] = building[u]
  <2>1. CASE Work(t)
    BY <2>1, DbTypes DEF Work
  <2>2. CASE ~Work(t)
    <3>1. \A u \in Threads \ {t} : building'[u] = building[u]
      BY StepIsOwn
    <3>2. QED
      BY <2>2, <3>1, OutsideWork
  <2>3. QED
    BY <2>1, <2>2
<1>2. CASE Work(t)
  <2>1. DbStep(t)
    BY <1>2 DEF Work
  <2>2. CASE LockTemplate(t) \/ UNCHANGED <<building, shardLock>>
    BY <1>1, <2>2 DEF LockTemplate
  <2>3. CASE at[t] \in {"exists", "setup"} /\ Ensured(t)
    <3>1. building[t] # << >> /\ building' = [building EXCEPT ![t] = Tail(building[t])]
      BY <2>3, EnsuredEffect DEF Ensuring
    <3>2. building'[t] = Tail(building[t])
      BY <1>0, <3>1 DEF TypeOK
    <3>3. QED
      BY <1>1, <3>1, <3>2
  <2>4. CASE GiveUp(t)
    BY <1>1, <2>4, GiveUpEffect
  <2>5. CASE /\ at[t] = "needs" /\ Needs[Top(t)] \in Templates
             /\ building' = [building EXCEPT ![t] = <<Needs[Top(t)]>> \o building[t]]
    <3>1. building[t] # << >> /\ Top(t) = building[t][1]
      BY <1>0, <2>5, TopType DEF Protocol, Ensuring
    <3>2. building'[t] = <<Needs[Top(t)]>> \o building[t]
      BY <1>0, <2>5 DEF TypeOK
    <3>3. QED
      BY <1>1, <2>5, <3>1, <3>2
  <2>6. QED
    BY <2>1, <2>2, <2>3, <2>4, <2>5, EnsuringEffect
<1>3. CASE ~Work(t)
  <2>1. CASE UNCHANGED building
    BY <1>1, <2>1
  <2>2. CASE building' = [building EXCEPT ![t] = <<test[t].template>>]
    <3>1. building'[t] = <<test[t].template>>
      BY <1>0, <2>2 DEF TypeOK
    <3>2. QED
      BY <1>1, <3>1
  <2>3. QED
    BY <1>3, <2>1, <2>2, OutsideWork
<1>4. QED
  BY <1>2, <1>3

LEMMA StackOrderedHolds == Spec => []StackOrdered
<1>1. ASSUME Init PROVE StackOrdered
  <2>1. ASSUME NEW u \in Threads PROVE DOMAIN building[u] = {}
    <3>1. building[u] = << >>
      BY <1>1 DEF Init, DbInit
    <3>2. QED
      BY <3>1
  <2>2. QED
    BY <2>1 DEF StackOrdered
<1>2. ASSUME StackOrdered, UNCHANGED <<shard, building>> PROVE StackOrdered'
  BY <1>2 DEF StackOrdered, Respects
<1>3. ASSUME SharedInv, StackOrdered, NEW t \in Threads, Step(t) PROVE StackOrdered'
  <2>0. TypeOK /\ shard' = shard /\ building[t] \in Seq(Templates)
    BY <1>3, StackMove DEF SharedInv, TypeOK
  <2>1. SUFFICES ASSUME NEW rank \in [Shards -> Nat], Respects(rank), NEW u \in Threads
                 PROVE  Downwards(rank, building'[u])
    BY <2>0 DEF StackOrdered, Respects, Downwards
  <2>2. Downwards(rank, building[u]) /\ Downwards(rank, building[t])
    BY <1>3, <2>1 DEF StackOrdered, Downwards
  <2>3. CASE u # t
    BY <1>3, <2>2, <2>3, StackMove
  <2>4. CASE u = t
    <3>1. CASE building'[t] = building[t]
      BY <2>2, <2>4, <3>1
    <3>2. CASE building'[t] = << >>
      BY <2>4, <3>2 DEF Downwards
    <3>3. CASE building'[t] = <<test[t].template>>
      <4>1. DOMAIN building'[t] = {1}
        BY <3>3
      <4>2. QED
        BY <2>4, <4>1 DEF Downwards
    <3>4. CASE building[t] # << >> /\ building'[t] = Tail(building[t])
      BY <2>0, <2>2, <2>4, <3>4, TailOrdered
    <3>5. CASE /\ building[t] # << >> /\ Needs[building[t][1]] \in Templates
               /\ building'[t] = <<Needs[building[t][1]]>> \o building[t]
      BY <2>0, <2>1, <2>2, <2>4, <3>5, PushOrdered
    <3>6. QED
      BY <1>3, <3>1, <3>2, <3>3, <3>4, <3>5, StackMove
  <2>5. QED
    BY <2>3, <2>4
<1>4. ASSUME SharedInv, StackOrdered, Others PROVE StackOrdered'
  BY <1>2, <1>4, OthersTypes
<1>5. SharedInv /\ StackOrdered /\ [Next]_vars => StackOrdered'
  <2>1. ASSUME StackOrdered, UNCHANGED vars PROVE StackOrdered'
    BY <1>2, <2>1 DEF vars, dbs, work
  <2>2. QED
    BY <1>3, <1>4, <2>1 DEF Next, Others, Gone
<1>6. QED
  BY <1>1, <1>5, SharedHolds, PTL DEF Spec

-----------------------------------------------------------------------------
(* No other standstill.                                                    *)

\* A thread that waits for a template works in a database and holds what it builds on.
LEMMA EnsuringThread ==
  ASSUME SharedInv, NEW t \in Threads, building[t] # << >> \/ at[t] = "ensure"
  PROVE  /\ pc[t] = "db" /\ building[t] # << >>
         /\ 1 \in DOMAIN building[t] /\ Top(t) = building[t][1] /\ shard[Top(t)] \in Shards
         /\ \A i \in DOMAIN building[t] : i \in Nat /\ (i # 1 => 1 < i)
<1>1. TypeOK /\ Protocol(t) /\ building[t] \in Seq(Templates)
  BY DEF SharedInv, TypeOK
<1>2. building[t] # << >> /\ pc[t] = "db"
  BY <1>1 DEF Protocol, Ensuring
<1>3. DOMAIN building[t] = 1..Len(building[t]) /\ Len(building[t]) \in Nat
  BY <1>1
<1>4. QED
  BY <1>1, <1>2, <1>3, TopType

\* Of two threads that wait for shards, the one that holds what the other waits for, waits
\* for a lower one.
LEMMA WaitsLower ==
  ASSUME SharedInv, HolderInv, StackOrdered, NEW rank \in [Shards -> Nat], Respects(rank),
         NEW t \in Threads, at[t] = "ensure",
         NEW u \in Threads, shardLock[shard[Top(t)]] = u, at[u] = "ensure"
  PROVE  rank[shard[Top(u)]] < rank[shard[Top(t)]]
<1>1. shard[Top(t)] \in Shards
  BY EnsuringThread
<1>2. PICK i \in DOMAIN building[u] : Holds(u, i) /\ shard[building[u][i]] = shard[Top(t)]
  BY <1>1 DEF HolderInv, ShardHeld
<1>3. i # 1 /\ 1 < i /\ 1 \in DOMAIN building[u] /\ Top(u) = building[u][1]
  BY <1>2, EnsuringThread DEF Holds
<1>4. QED
  BY <1>2, <1>3 DEF StackOrdered

NatLess == {p \in Nat \X Nat : p[1] < p[2]}

\* Among those that wait for shards in an order, one waits for a thread that does not.
LEMMA ShardsLetGo ==
  ASSUME SharedInv, HolderInv, StackOrdered, ShardsOrdered,
         NEW t \in Threads, WaitsForTemplate(t)
  PROVE  \E u \in Threads : pc[u] = "db" /\ ~WaitsForTemplate(u)
<1>1. PICK rank \in [Shards -> Nat] : Respects(rank)
  BY DEF ShardsOrdered
<1> DEFINE W == {u \in Threads : WaitsForTemplate(u)}
           R == {rank[shard[Top(u)]] : u \in W}
<1>2. R \in SUBSET Nat /\ R # {}
  BY EnsuringThread DEF WaitsForTemplate
<1>3. PICK m \in R : \A r \in R : ~(r < m)
  <2>1. IsWellFoundedOn(NatLess, Nat)
    BY NatLessThanWellFounded DEF OpToRel, NatLess
  <2>2. PICK m \in R : \A r \in R : ~(<<r, m>> \in NatLess)
    BY <1>2, <2>1, WFMin
  <2>3. ASSUME NEW r \in R, r < m PROVE FALSE
    <3>1. <<r, m>> \in NatLess
      BY <1>2, <2>3 DEF NatLess
    <3>2. QED
      BY <2>2, <3>1
  <2>4. QED
    BY <2>3
<1>4. PICK w \in W : rank[shard[Top(w)]] = m
  BY <1>3
<1> DEFINE u == shardLock[shard[Top(w)]]
<1>5. u \in Threads /\ shard[Top(w)] \in Shards
  <2>1. shard[Top(w)] \in Shards
    BY <1>4, EnsuringThread DEF WaitsForTemplate
  <2>2. shardLock \in [Shards -> Threads \cup {None}] /\ u # None
    BY <1>4 DEF WaitsForTemplate, SharedInv, TypeOK
  <2>3. QED
    BY <2>1, <2>2
<1>6. pc[u] = "db"
  <2>0. ShardHeld(shard[Top(w)])
    BY <1>5 DEF HolderInv
  <2>1. PICK i \in DOMAIN building[u] : TRUE
    BY <1>5, <2>0 DEF ShardHeld
  <2>1a. building[u] # << >>
    BY <2>1
  <2>2. QED
    BY <1>5, <2>1a, EnsuringThread
<1>7. CASE WaitsForTemplate(u)
  <2>1. rank[shard[Top(u)]] < rank[shard[Top(w)]]
    BY <1>1, <1>4, <1>5, <1>7, WaitsLower DEF WaitsForTemplate
  <2>2. rank[shard[Top(u)]] \in R
    BY <1>5, <1>7
  <2>3. QED
    BY <1>3, <1>4, <2>1, <2>2
<1>8. QED
  BY <1>5, <1>6, <1>7

\* A test that holds ENV_LOCK and waits for a singleton asked for clusters of two kinds.
LEMMA EnvHolderWaits ==
  ASSUME SharedInv, HolderInv, NEW u \in Threads, envLock = u, WaitsForSlot(u)
  PROVE  ~OneKind(u)
<1>1. TypeOK /\ Protocol(u) /\ EnvHeld(u) /\ pc[u] = "slot"
  BY DEF SharedInv, HolderInv, WaitsForSlot
<1>2. Kind(u) \in Kinds /\ Asks(u, Kind(u))
  BY <1>1, KindType DEF Protocol, Asking
<1>3. slot[Kind(u)] = "none"
  BY <1>2 DEF HolderInv, SlotHeld, WaitsForSlot
<1>4. QED
  BY <1>1, <1>2, <1>3 DEF EnvHeld, Asks

\* When every test that is left waits, two of them have taken a singleton and ENV_LOCK
\* against each other, or the shards have templates that need each other in no order
\* (shared_singleton.rs:78,93, lifecycle.rs:283).
THEOREM NoOtherDeadlock == Spec => []OnlyInversionsBlock
<1>1. ASSUME SharedInv, HolderInv, StackOrdered PROVE OnlyInversionsBlock
  <2>1. SUFFICES ASSUME NEW t \in Threads, pc[t] # "over",
                        \A u \in Threads : pc[u] = "over" \/ Waiting(u), ShardsOrdered
                 PROVE  SingletonInversion
    BY DEF OnlyInversionsBlock, AllOver
  <2>2. \A u \in Threads : u # None
    BY DatabaseAssumption
  <2>3. ASSUME NEW u \in Threads PROVE ~WaitsForTemplate(u)
    <3>1. SUFFICES ASSUME WaitsForTemplate(u) PROVE FALSE
      OBVIOUS
    <3>2. PICK v \in Threads : pc[v] = "db" /\ ~WaitsForTemplate(v)
      BY <1>1, <2>1, <3>1, ShardsLetGo
    <3>3. pc[v] # "over" /\ ~WaitsForSlot(v) /\ ~WaitsForEnv(v)
      BY <3>2 DEF WaitsForSlot, WaitsForEnv
    <3>4. QED
      BY <2>1, <3>2, <3>3 DEF Waiting
  <2>4. PICK w \in Threads : WaitsForEnv(w)
    <3>1. CASE WaitsForEnv(t)
      BY <3>1
    <3>2. CASE WaitsForSlot(t)
      <4>1. Kind(t) \in Kinds /\ slotLock[Kind(t)] \in Threads
        <5>1. Kind(t) \in Kinds
          BY <1>1, <3>2, KindType DEF WaitsForSlot, SharedInv, Protocol, Asking
        <5>2. QED
          BY <1>1, <3>2, <5>1 DEF WaitsForSlot, SharedInv, TypeOK
      <4>2. PICK v \in Threads : v = slotLock[Kind(t)]
        BY <4>1
      <4>3. pc[v] \in Asking \ {"slot"}
        BY <1>1, <4>1, <4>2 DEF HolderInv, SlotHeld, Starts
      <4>4. WaitsForEnv(v)
        BY <2>1, <2>3, <4>3 DEF Waiting, WaitsForSlot, Asking
      <4>5. QED
        BY <4>4
    <3>3. QED
      BY <2>1, <2>3, <3>1, <3>2 DEF Waiting
  <2>5. PICK u \in Threads : u = envLock
    BY <1>1, <2>4 DEF WaitsForEnv, SharedInv, TypeOK
  <2>6. WaitsForSlot(u)
    <3>1. pc[u] # "over"
      BY <1>1, <2>5 DEF HolderInv, EnvHeld, SharedInv, TypeOK
    <3>2. ~WaitsForEnv(u)
      BY <2>5 DEF WaitsForEnv
    <3>3. QED
      BY <2>1, <2>3, <3>1, <3>2 DEF Waiting
  <2>7. Kind(u) \in Kinds
    BY <1>1, <2>6, KindType DEF WaitsForSlot, SharedInv, Protocol, Asking
  <2>8. PICK v \in Threads : v = slotLock[Kind(u)]
    BY <1>1, <2>6, <2>7 DEF WaitsForSlot, SharedInv, TypeOK
  <2>9. pc[v] \in Asking \ {"slot"}
    BY <1>1, <2>7, <2>8 DEF HolderInv, SlotHeld, Starts
  <2>10. WaitsForEnv(v)
    BY <2>1, <2>3, <2>9 DEF Waiting, WaitsForSlot, Asking
  <2>11. v # u
    BY <2>5, <2>10 DEF WaitsForEnv
  <2>12. QED
    BY <2>5, <2>6, <2>8, <2>10, <2>11 DEF SingletonInversion, WaitsForEnv, WaitsForSlot
<1>2. QED
  BY <1>1, SharedHolds, HolderInvHolds, StackOrderedHolds, PTL

\* The two inversions need tests that mix clusters, or shards that mix templates.
THEOREM InversionsExplained == Spec => []InversionsHaveCause
<1>1. ASSUME SharedInv, HolderInv, SingletonInversion
      PROVE  \E t \in Threads : ~OneKind(t)
  <2>1. PICK t \in Threads, u \in Threads :
          envLock = u /\ pc[u] = "slot" /\ slotLock[Kind(u)] = t
    BY <1>1 DEF SingletonInversion
  <2>2. WaitsForSlot(u)
    BY <2>1, DatabaseAssumption DEF WaitsForSlot
  <2>3. QED
    BY <1>1, <2>1, <2>2, EnvHolderWaits
<1>2. ASSUME SharedInv, HolderInv, StackOrdered, ShardInversion, ShardsOrdered
      PROVE  FALSE
  <2>1. PICK t \in Threads, u \in Threads : WaitsForShard(t, u) /\ WaitsForShard(u, t)
    BY <1>2 DEF ShardInversion
  <2>2. PICK rank \in [Shards -> Nat] : Respects(rank)
    BY <1>2 DEF ShardsOrdered
  <2>3. /\ rank[shard[Top(u)]] < rank[shard[Top(t)]]
        /\ rank[shard[Top(t)]] < rank[shard[Top(u)]]
    BY <1>2, <2>1, <2>2, WaitsLower DEF WaitsForShard
  <2>4. shard[Top(u)] \in Shards /\ shard[Top(t)] \in Shards
    BY <1>2, <2>1, EnsuringThread DEF WaitsForShard
  <2>5. QED
    BY <2>2, <2>3, <2>4
<1>3. SharedInv /\ HolderInv /\ StackOrdered => InversionsHaveCause
  BY <1>1, <1>2 DEF InversionsHaveCause
<1>4. QED
  BY <1>3, SharedHolds, HolderInvHolds, StackOrderedHolds, PTL

=============================================================================
