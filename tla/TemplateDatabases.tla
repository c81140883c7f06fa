------------------------- MODULE TemplateDatabases -------------------------
(***************************************************************************)
(* What the tests of one process do in a running cluster                   *)
(* (src/cluster/lifecycle.rs, src/cluster/temporary_database.rs): each     *)
(* ensures that a template database exists, clones it, uses the clone and  *)
(* drops it.  CREATE DATABASE and DROP DATABASE are atomic in the server.  *)
(***************************************************************************)
EXTENDS Naturals, Sequences

CONSTANTS
  Threads,     \* one for each test
  Templates,   \* names of template databases
  Names,       \* names of temporary databases
  Shards,      \* of the DashMap that holds the template locks
  Needs,       \* the template a template's setup_fn ensures first, or None
  Plans,       \* what the tests of a process may be: see PlanType
  None,        \* no thread, no template
  Faults       \* what may go wrong: see FaultKinds

\* A Setup or Start of a server fails; it is given up, and what it had started goes
\* on; a setup_fn fails; the postmaster is killed; a test leaves a connection open;
\* the process exits while tests run.
FaultKinds == {"start", "late", "setup", "die", "leak", "early_exit"}

Kinds == {"handle", "legacy"}   \* SHARED_CLUSTER_HANDLE, SHARED_CLUSTER

\* How a test gets rid of its database: the guard goes out of scope, or one of
\* the guard's methods is called.
Endings == {"scope_end", "drop_database", "force_drop"}

\* The clusters a test asks for, in order, then the template, the name of its
\* clone, and how that ends.
Test ==
  {x \in [calls : Seq(Kinds \cup {"own"}), template : Templates \cup {None},
          name : Names, ending : Endings] :
     x.template # None => x.calls # << >>}

\* The hasher of the DashMap, seeded at random, may put the templates anywhere.
PlanType == [tests : [Threads -> Test], shards : [Templates -> Shards]]

ASSUME DatabaseAssumption ==
  /\ None \notin Threads \cup Templates
  /\ Threads \cap Kinds = {}
  /\ Templates \cap Names = {}
  /\ Needs \in [Templates -> Templates \cup {None}]
  /\ Plans \subseteq PlanType
  /\ Faults \subseteq FaultKinds

VARIABLES
  test,        \* the tests of this process
  server,      \* "down"; "up"; or "dead": gone, with its pid file left behind
  serves,      \* the clusters whose handles have the port of the server that is up
  db,          \* each database: "absent", "partial" (setup_fn not done), "whole"
  conns,       \* the tests that have a connection to each temporary database
  shard,       \* the shard of each template
  shardLock,   \* the thread that holds each shard
  building,    \* the templates a thread is ensuring, innermost first
  at,          \* where each thread is
  blame        \* what has gone wrong so far (history, read by no action)

work == <<conns, shardLock, building, at>>

Fault(f) == f \in Faults /\ blame' = blame \cup {f}

Goto(t, x) == at' = [at EXCEPT ![t] = x]
Name(t) == test[t].name

\* A test works in the cluster it asked for last.
ClusterOf(t, kind) == IF kind = "own" THEN t ELSE kind
Last(t) == test[t].calls[Len(test[t].calls)]
Cluster(t) == ClusterOf(t, Last(t))
Reached(t) == Cluster(t) \in serves
Top(t) == Head(building[t])

DbInit ==
  /\ \E plan \in Plans : test = plan.tests /\ shard = plan.shards
  /\ server = "down" /\ serves = {}
  /\ db = [d \in Templates \cup Names |-> "absent"]
  /\ conns = [n \in Names |-> {}]
  /\ shardLock = [s \in Shards |-> None]
  /\ building = [t \in Threads |-> << >>]
  /\ at = [t \in Threads |-> "idle"]
  /\ blame = {}

-----------------------------------------------------------------------------
(* ensure_template_exists *)

\* Mutant: nothing is locked.
LockTemplateUnlocked(t) ==
  /\ at[t] = "ensure"
  /\ Goto(t, "exists")
  /\ UNCHANGED <<db, conns, shardLock, building, blame>>

\* The entry of the template is a guard of its whole shard, and is kept as long
\* as the mutex in it.
LockTemplate(t) ==
  /\ at[t] = "ensure"
  /\ shardLock[shard[Top(t)]] = None
  /\ shardLock' = [shardLock EXCEPT ![shard[Top(t)]] = t]
  /\ Goto(t, "exists")
  /\ UNCHANGED <<db, conns, building, blame>>

\* The template is there: its lock goes, and the thread is back where it called.
Ensured(t) ==
  /\ shardLock' = [shardLock EXCEPT ![shard[Top(t)]] = None]
  /\ building' = [building EXCEPT ![t] = Tail(@)]
  /\ Goto(t, IF Len(building[t]) = 1 THEN "clone" ELSE "setup")

\* An error goes through all the calls, and drops their guards.
GiveUp(t) ==
  /\ shardLock' = [s \in Shards |-> IF shardLock[s] = t THEN None ELSE shardLock[s]]
  /\ building' = [building EXCEPT ![t] = << >>]
  /\ Goto(t, "failed")

DatabaseExists(t) ==
  /\ at[t] = "exists"
  /\ \/ ~Reached(t) /\ GiveUp(t)
     \/ Reached(t) /\ db[Top(t)] # "absent" /\ Ensured(t)
     \/ /\ Reached(t) /\ db[Top(t)] = "absent"
        /\ Goto(t, "create") /\ UNCHANGED <<shardLock, building>>
  /\ UNCHANGED <<db, conns, blame>>

CreateTemplate(t) ==
  /\ at[t] = "create"
  /\ \/ (~Reached(t) \/ db[Top(t)] # "absent") /\ GiveUp(t) /\ UNCHANGED db
     \/ /\ Reached(t) /\ db[Top(t)] = "absent"
        /\ db' = [db EXCEPT ![Top(t)] = "partial"]
        /\ Goto(t, "needs") /\ UNCHANGED <<shardLock, building>>
  /\ UNCHANGED <<conns, blame>>

\* setup_fn may build on another template.
SetupBegins(t) ==
  /\ at[t] = "needs"
  /\ LET needed == Needs[Top(t)] IN
     \/ needed = None /\ Goto(t, "setup") /\ UNCHANGED building
     \/ /\ needed # None
        /\ building' = [building EXCEPT ![t] = <<needed>> \o @]
        /\ Goto(t, "ensure")
  /\ UNCHANGED <<db, conns, shardLock, blame>>

\* What a template builds on half done is half done itself.  One whose setup_fn
\* fails stays as it is, and the next caller finds that it exists.
SetupEnds(t) ==
  /\ at[t] = "setup"
  /\ LET needed == Needs[Top(t)]
         result == IF needed = None THEN "whole" ELSE db[needed] IN
     \/ /\ Reached(t) /\ db[Top(t)] # "absent" /\ result # "absent"
        /\ db' = [db EXCEPT ![Top(t)] = result]
        /\ Ensured(t) /\ UNCHANGED blame
     \/ /\ ~Reached(t) \/ db[Top(t)] = "absent" \/ result = "absent"
        /\ GiveUp(t) /\ UNCHANGED <<db, blame>>
     \/ Fault("setup") /\ GiveUp(t) /\ UNCHANGED db
  /\ UNCHANGED conns

-----------------------------------------------------------------------------
(* TemporaryDatabase *)

\* Mutant: the clone is recorded by the name of its template.
CloneByName(t) ==
  /\ at[t] = "clone"
  /\ \/ /\ Reached(t) /\ db[Name(t)] = "absent"
        /\ db' = [db EXCEPT ![Name(t)] = test[t].template] /\ Goto(t, "connect")
     \/ (~Reached(t) \/ db[Name(t)] # "absent") /\ Goto(t, "failed") /\ UNCHANGED db
  /\ UNCHANGED <<conns, shardLock, building, blame>>

\* CREATE DATABASE ... TEMPLATE: the template exists, and the name is free.
CreateFromTemplate(t) ==
  /\ at[t] = "clone"
  /\ LET possible == Reached(t) /\ db[test[t].template] # "absent" /\ db[Name(t)] = "absent"
     IN \/ possible /\ db' = [db EXCEPT ![Name(t)] = db[test[t].template]] /\ Goto(t, "connect")
        \/ ~possible /\ Goto(t, "failed") /\ UNCHANGED db
  /\ UNCHANGED <<conns, shardLock, building, blame>>

Connect(t) ==
  /\ at[t] = "connect"
  /\ LET possible == Reached(t) /\ db[Name(t)] # "absent"
     IN \/ possible /\ conns' = [conns EXCEPT ![Name(t)] = @ \cup {t}] /\ Goto(t, "using")
        \/ ~possible /\ Goto(t, "unwind") /\ UNCHANGED conns
  /\ UNCHANGED <<db, shardLock, building, blame>>

\* The test is done; it closes its connection, or forgets to.
Use(t) ==
  /\ at[t] = "using"
  /\ \/ conns' = [conns EXCEPT ![Name(t)] = @ \ {t}] /\ UNCHANGED blame
     \/ Fault("leak") /\ UNCHANGED conns
  /\ Goto(t, "drop")
  /\ UNCHANGED <<db, shardLock, building>>

\* DROP DATABASE: refused while anybody is connected.
TryDrop(t) ==
  db' = IF Reached(t) /\ conns[Name(t)] = {} THEN [db EXCEPT ![Name(t)] = "absent"] ELSE db

\* force_drop closes the connections of the others first; a test may connect again
\* before its second statement.
Terminate(t) ==
  /\ at[t] = "drop" /\ test[t].ending = "force_drop"
  /\ conns' = IF Reached(t) THEN [conns EXCEPT ![Name(t)] = {}] ELSE conns
  /\ Goto(t, IF Reached(t) THEN "terminated" ELSE "drop_again")
  /\ UNCHANGED <<db, shardLock, building, blame>>

\* drop_database and force_drop take the guard, which is dropped when they return.
DropDatabase(t) ==
  /\ at[t] = "terminated" \/ (at[t] = "drop" /\ test[t].ending # "force_drop")
  /\ TryDrop(t)
  /\ Goto(t, IF test[t].ending = "scope_end" THEN "finished" ELSE "drop_again")
  /\ UNCHANGED <<conns, shardLock, building, blame>>

\* The guard's Drop, also when the test unwinds; its failure is only logged.
DropGuard(t) ==
  /\ at[t] \in {"drop_again", "unwind"}
  /\ TryDrop(t)
  /\ Goto(t, IF at[t] = "unwind" THEN "failed" ELSE "finished")
  /\ UNCHANGED <<conns, shardLock, building, blame>>

DbStep(t) ==
  \/ LockTemplate(t) \/ DatabaseExists(t) \/ CreateTemplate(t) \/ SetupBegins(t)
  \/ SetupEnds(t) \/ CreateFromTemplate(t) \/ Connect(t) \/ Use(t)
  \/ Terminate(t) \/ DropDatabase(t) \/ DropGuard(t)
=============================================================================
