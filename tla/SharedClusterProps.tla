-------------------------- MODULE SharedClusterProps --------------------------
(***************************************************************************)
(* What the tests of one process may rely on.  An exception is named by    *)
(* what must have gone wrong, or by how the tests mix the fixtures.        *)
(***************************************************************************)
EXTENDS SharedCluster

TypeOK ==
  /\ test \in [Threads -> Test]
  /\ server \in {"down", "up", "dead"}
  /\ serves \subseteq Kinds \cup Threads /\ (serves # {} => server = "up")
  /\ db \in [Templates \cup Names -> {"absent", "partial", "whole"}]
  /\ conns \in [Names -> SUBSET Threads]
  /\ shard \in [Templates -> Shards]
  /\ shardLock \in [Shards -> Threads \cup {None}]
  /\ building \in [Threads -> Seq(Templates)]
  /\ at \in [Threads -> {"idle", "ensure", "exists", "create", "needs", "setup", "clone",
                         "connect", "using", "drop", "terminated", "drop_again", "unwind",
                         "finished", "failed"}]
  /\ blame \subseteq Faults
  /\ root \in BOOLEAN
  /\ slot \in [Kinds -> {"none", "ready", "failed"}]
  /\ slotLock \in [Kinds -> Threads \cup {None}]
  /\ envLock \in Threads \cup {None}
  /\ scopes \in [Threads -> Nat]
  /\ workerVar \in BOOLEAN
  /\ guard \in [Threads -> {"none", "set", "unset"}]
  /\ pc \in [Threads -> {"call", "slot", "var", "worker", "boot", "sandbox", "setup",
                         "start", "hook", "db", "close", "over"}]
  /\ calls \in [Threads -> Seq(Kinds \cup {"own"})]
  /\ own \in [Threads -> BOOLEAN]
  /\ data \in {"absent", "partial", "whole"} /\ late \subseteq {"setup", "start"}
  /\ hook \in BOOLEAN
  /\ exit \in {"no", "pid", "wait", "clean", "gone"}

After(causes) == blame \cap causes # {}

Asks(t, kind) == \E i \in DOMAIN test[t].calls : test[t].calls[i] = kind
Used(kind) == \E t \in Threads : Asks(t, kind)

\* The clusters of a test are all of one kind.
OneKind(t) == \A i, j \in DOMAIN test[t].calls : test[t].calls[i] = test[t].calls[j]

\* The tests of this process use clusters of more than one kind.
Mixed == \E j, k \in Kinds \cup {"own"} : j # k /\ Used(j) /\ Used(k)

\* A shared cluster that failed to start failed because a start did, however
\* many tests asked for it at once.  Not so in a process with test_cluster(): its
\* server may be in the way, and a worker variable it set may be gone between
\* the look for it (fixtures.rs:119) and its use (bootstrap/env.rs:153).  Nor in
\* an unprivileged process that uses both singletons: one server is in the way
\* of the other.
StartFailureHasCause ==
  \A k \in Kinds : slot[k] = "failed" =>
    \/ After({"start", "late"})
    \/ Used("own")
    \/ ~root /\ \A j \in Kinds : Used(j)

\* Another test may start a cluster of another kind while t works in its own: the
\* second Setup, or the failure of a second start, stops the server, whoever uses it.
\* It has to wait for ENV_LOCK, which the test that started the server keeps.
Exposed(t) == Mixed /\ ~(OneKind(t) /\ envLock = t)

\* A test's clone is there, within its reach, from its creation to its drop, also that
\* of a test that shares the process with clusters of every kind, as long as it has
\* started its own and uses no other.  Another test with the same name may drop its own
\* twice (temporary_database.rs:97,175).  And the clone is one of a template whose
\* setup was done: what a setup_fn left that failed, or lost its server, is taken for a
\* template (lifecycle.rs:290), also on the server of another cluster.
DatabaseIsUsable ==
  \A t \in Threads : at[t] \in {"connect", "using"} =>
    /\ Reached(t) \/ Exposed(t) \/ After({"late", "die", "early_exit"})
    /\ \/ db[Name(t)] # "absent"
       \/ \E u \in Threads \ {t} :
            Name(u) = Name(t) /\ test[u].template # None /\ test[u].ending # "scope_end"
       \/ Exposed(t) \/ After({"late", "die", "early_exit"})
    /\ db[Name(t)] # "partial" \/ Mixed \/ After({"late", "setup", "die", "early_exit"})

\* A process that exits when its tests are over leaves no server and no data,
\* whatever connections were forgotten and whatever failed or died before, once a
\* singleton has registered the hook; and without a hook if it is unprivileged, or no
\* start failed and no server died.  What was given up and goes on may come late.
ExitLeavesNothing ==
  exit = "gone" =>
    \/ server = "down" /\ data = "absent"
    \/ root /\ ~hook /\ After({"start", "die"})
    \/ After({"late", "early_exit"})

-----------------------------------------------------------------------------
(* The inductive strengthenings the proofs use.                            *)

\* From the request for a cluster to its publication.
Asking == {"slot", "var", "worker", "boot", "sandbox", "setup", "start", "hook"}

Starting == {"setup", "start"}

\* From the call of ensure_template_exists to its return.
Ensuring == {"ensure", "exists", "create", "needs", "setup"}

Protocol(t) ==
  /\ pc[t] \in Asking => calls[t] # << >>
  /\ pc[t] \in {"slot", "hook"} => Kind(t) # "own"
  /\ \A i \in DOMAIN calls[t] : Asks(t, calls[t][i])
  /\ own[t] => Asks(t, "own")
  /\ pc[t] \notin {"db", "close", "over"} => at[t] = "idle"
  /\ pc[t] # "db" => at[t] \in {"idle", "finished", "failed"}
  /\ at[t] # "idle" => test[t].template # None
  /\ at[t] \in Ensuring <=> building[t] # << >>
  /\ guard[t] # "none" /\ ~own[t] => scopes[t] > 0
  /\ pc[t] \in Starting => scopes[t] > IF guard[t] # "none" /\ ~own[t] THEN 1 ELSE 0

SharedInv == TypeOK /\ \A t \in Threads : Protocol(t)

\* Nothing runs and nothing is left that neither a test nor the hook will remove.
ExitInv ==
  /\ exit # "no" /\ ~After({"early_exit"}) => AllOver
  /\ late # {} => After({"late"})
  /\ ~After({"late", "early_exit"}) =>
       /\ data = "partial" => root /\ After({"start"})
       /\ server = "dead" /\ exit = "no" => After({"die"})
       /\ exit = "clean" => server # "up"
       /\ exit = "gone" =>
            \/ server = "down" /\ data = "absent"
            \/ root /\ ~hook /\ After({"start", "die"})
       /\ ~hook /\ (server # "down" \/ data # "absent") =>
            \/ root /\ After({"start", "die"})
            \/ \E t \in Threads : (own[t] /\ pc[t] # "over") \/ pc[t] \in {"start", "hook"}

\* Only singletons, and one of them unless servers are started by the worker.
OneServer == ~Used("own") /\ (root \/ \E j \in Kinds : ~Used(j))

\* One thread at a time starts a singleton; the worker variable, once it was found
\* or set, stays set.
Starter(t) ==
  /\ pc[t] \in Asking \ {"slot"} => slotLock[Kind(t)] = t /\ slot[Kind(t)] = "none"
  /\ guard[t] # "none" => pc[t] \in {"boot", "sandbox", "setup", "start", "hook"}
  /\ root /\ pc[t] \in {"boot", "sandbox", "setup", "start", "hook"} => workerVar

\* Nothing fails, the directory is whole before the server is started, and a server is
\* up only for a singleton.
StartInv ==
  OneServer /\ ~After({"start", "late"}) =>
    /\ \A k \in Kinds : slot[k] # "failed"
    /\ \A t \in Threads : Starter(t)
    /\ data # "partial"
    /\ exit # "gone" => \A t \in Threads : pc[t] = "start" => data = "whole"
    /\ server = "up" =>
         \/ \E t \in Threads : pc[t] = "hook"
         \/ \E k \in Kinds : Used(k) /\ slot[k] = "ready"

\* A test that asks for no more clusters got the last one, and holds ENV_LOCK while
\* it has one to itself.
Progress(t) ==
  /\ pc[t] # "over" => test[t].calls # << >>
  /\ pc[t] = "db" => calls[t] = << >>
  /\ calls[t] # << >> => calls[t][Len(calls[t])] = Last(t)
  /\ calls[t] = << >> /\ pc[t] # "over" =>
       IF Last(t) = "own" THEN own[t] ELSE slot[Last(t)] = "ready"
  /\ pc[t] = "hook" => scopes[t] > 0
  /\ own[t] /\ pc[t] # "over" => scopes[t] > IF pc[t] \in Starting THEN 1 ELSE 0

ProgressInv ==
  /\ \A t \in Threads : Progress(t)
  /\ \A k \in Kinds : slot[k] = "ready" => Used(k)

\* The server of a singleton is up from its start on, for its tests, where only that
\* one is used; and that of a test which holds ENV_LOCK, where its clusters are of one
\* kind.
Unharmed == exit = "no" /\ ~After({"late", "die", "early_exit"})

ReachInv ==
  Unharmed =>
    /\ \A t \in Threads :
         envLock = t /\ OneKind(t) /\ pc[t] \in {"call", "slot", "hook", "db"} => Reached(t)
    /\ ~Mixed => \A k \in Kinds : slot[k] = "ready" => k \in serves

\* A test that is to find the clone it made, or to drop it.
HasClone(t) == at[t] \in {"connect", "using", "drop", "terminated", "unwind"}

\* No guard of a database of this name was dropped twice.  As long as that is so, one
\* test at a time has a database of the name on the server that is up, and it is there.
DroppedOnce(n) ==
  \A t \in Threads : Name(t) = n /\ test[t].ending # "scope_end"
                        => at[t] \notin {"drop_again", "finished", "failed"}

NameInv ==
  /\ \A t \in Threads : at[t] = "drop_again" => test[t].ending # "scope_end"
  /\ ~After({"late", "early_exit"}) =>
     \A t, u \in Threads :
       Name(t) = Name(u) /\ HasClone(t) /\ HasClone(u) /\ Reached(t) /\ Reached(u)
         /\ DroppedOnce(Name(t))
         => db[Name(t)] # "absent" /\ t = u

\* A thread keeps the shards of what it builds on, which are different.
Holds(t, i) == i \in DOMAIN building[t] /\ (i = 1 => at[t] # "ensure")

ShardProtocol(t) ==
  /\ \A i \in DOMAIN building[t] : Holds(t, i) => shardLock[shard[building[t][i]]] = t
  /\ \A i, j \in DOMAIN building[t] : i # j /\ Holds(t, i) /\ Holds(t, j)
       => shard[building[t][i]] # shard[building[t][j]]
  /\ \A i, j \in DOMAIN building[t] : j = i + 1 => Needs[building[t][j]] = building[t][i]
  /\ building[t] # << >> => building[t][Len(building[t])] = test[t].template

ShardInv == \A t \in Threads : ShardProtocol(t)

\* The i-th of the templates a thread ensures was created and is not set up yet.
SettingUp(t, i) ==
  i \in DOMAIN building[t] /\ (i = 1 => at[t] \in {"needs", "setup"})

\* A template is set up from whole ones, and what is cloned is whole.
Builder(t) ==
  /\ \A i \in DOMAIN building[t] : SettingUp(t, i) => db[building[t][i]] = "partial"
  /\ at[t] = "create" => db[Top(t)] = "absent"
  /\ at[t] = "setup" /\ Needs[Top(t)] # None => db[Needs[Top(t)]] = "whole"
  /\ at[t] = "clone" => db[test[t].template] = "whole"

Calm == ~Mixed /\ ~After({"late", "setup", "die", "early_exit"})

\* As long as nothing interferes, templates that are not whole are being set up.
TemplateInv ==
  Calm =>
    /\ \A n \in Names : db[n] # "partial"
    /\ \A m \in Templates : db[m] = "partial" =>
         \E t \in Threads, i \in Nat : SettingUp(t, i) /\ building[t][i] = m
    /\ \A t \in Threads : Builder(t)

-----------------------------------------------------------------------------
(* Who waits for whom.                                                     *)

WaitsForSlot(t) == pc[t] = "slot" /\ slotLock[Kind(t)] # None
WaitsForEnv(t) == pc[t] \in {"worker", "sandbox"} /\ envLock \notin {None, t}
WaitsForTemplate(t) == at[t] = "ensure" /\ shardLock[shard[Top(t)]] # None

Waiting(t) == WaitsForSlot(t) \/ WaitsForEnv(t) \/ WaitsForTemplate(t)

\* The starter of a singleton waits for ENV_LOCK, and its holder for the singleton
\* (shared_singleton.rs:78,93).
SingletonInversion ==
  \E t, u \in Threads : t # u
    /\ pc[t] \in {"worker", "sandbox"} /\ envLock = u
    /\ pc[u] = "slot" /\ slotLock[Kind(u)] = t

WaitsForShard(t, u) == at[t] = "ensure" /\ shardLock[shard[Top(t)]] = u

\* A setup_fn ensures a template of a shard that its own template is in, or that
\* waits for it (lifecycle.rs:283).
ShardInversion == \E t, u \in Threads : WaitsForShard(t, u) /\ WaitsForShard(u, t)

\* The shards are in an order in which a template comes after the one it needs.
Respects(rank) ==
  \A m \in Templates : Needs[m] # None => rank[shard[Needs[m]]] < rank[shard[m]]

ShardsOrdered == \E rank \in [Shards -> Nat] : Respects(rank)

\* When every test that is left waits, two of them have taken a singleton and ENV_LOCK
\* against each other, or the shards have templates that need each other in no order:
\* the mutexes, ENV_LOCK and the shards deadlock in no other way.
OnlyInversionsBlock ==
  ~AllOver /\ (\A t \in Threads : pc[t] = "over" \/ Waiting(t))
    => SingletonInversion \/ ~ShardsOrdered

\* Neither happens where each test asks for one kind of cluster, and templates that need
\* each other are in shards with an order.
InversionsHaveCause ==
  /\ SingletonInversion => \E t \in Threads : ~OneKind(t)
  /\ ShardInversion => ~ShardsOrdered

\* A thread holds the mutex of a singleton only to start it.
Starts(t, k) == pc[t] \in Asking \ {"slot"} /\ Kind(t) = k

SlotHeld(k) ==
  /\ slotLock[k] # None => slot[k] = "none"
  /\ \A t \in Threads : slotLock[k] = t <=> Starts(t, k)

\* A thread holds ENV_LOCK as long as it has entered a scope.  If it then asks for
\* another cluster of the same kind, that is a singleton that was started.
EnvHeld(t) ==
  /\ scopes[t] > 0 <=> envLock = t
  /\ pc[t] = "over" => scopes[t] = 0
  /\ OneKind(t) /\ scopes[t] > 0 /\ pc[t] \in {"call", "slot", "var"} =>
       \A i \in DOMAIN test[t].calls :
         test[t].calls[i] \in Kinds => slot[test[t].calls[i]] = "ready"

\* A thread holds a shard only for a template that it is ensuring.
ShardHeld(s) ==
  \A t \in Threads : shardLock[s] = t =>
    \E i \in DOMAIN building[t] : Holds(t, i) /\ shard[building[t][i]] = s

HolderInv ==
  /\ \A k \in Kinds : SlotHeld(k)
  /\ \A t \in Threads : EnvHeld(t)
  /\ \A s \in Shards : ShardHeld(s)

\* A thread takes the shards downwards in their order.
StackOrdered ==
  \A rank \in [Shards -> Nat] : Respects(rank) =>
    \A t \in Threads : \A i, j \in DOMAIN building[t] :
      i < j => rank[shard[building[t][i]]] < rank[shard[building[t][j]]]

-----------------------------------------------------------------------------
\* Every thread goes on, and the process exits when they are over; nothing is
\* assumed of failures.
FairSpec ==
  Spec /\ WF_vars(ExitStep) /\ \A t \in Threads : WF_vars(Step(t))

\* The tests end, and the process, unless locks are taken against each other; the
\* mutexes, the shards and the scopes deadlock in no other way.
EveryTestEnds == <>(exit = "gone" \/ SingletonInversion \/ ShardInversion)
=============================================================================
