---------------------------- MODULE BinaryCache ----------------------------
(***************************************************************************)
(* The binary cache (src/cache/, src/cluster/cache_integration.rs) and the *)
(* installation directories it fills, shared by the test processes and the *)
(* setup command of one user.  A run looks for a cached version, copies it *)
(* into its installation directory under a shared lock, sets PostgreSQL    *)
(* up, starts it, and after a miss copies what was installed back into the *)
(* cache under an exclusive lock.                                          *)
(*                                                                         *)
(* A copy takes one piece of the tree at a time, so another process sees   *)
(* what is there so far and a crash leaves it there.                       *)
(***************************************************************************)
EXTENDS Integers

CONSTANTS
  Procs,      \* processes, one run each
  Versions,   \* PostgreSQL versions, ordered; all of them can be downloaded
  Homes,      \* base installation directories
  Plans,      \* how each process runs, a PlanType each: the combinations there may be
  Warm,       \* the sets of versions earlier runs may have left in the cache
  Together,   \* the sets of faults that may come together in one behaviour
  Repeat      \* a bound: FALSE when a fault of each kind happens once at most

NoVersion == 0

\* kind: a TestCluster, or setup_postgres_only; root: setup and start through
\* pg_worker; req: the versions the requirement matches; full: CleanupMode::Full.
PlanType == [kind : {"cluster", "setup_only"}, root : BOOLEAN,
             req : SUBSET Versions, home : Homes, full : BOOLEAN]

\* A process is killed; a lock file, a copy or a download fails; the user
\* deletes a cache entry.
FaultKinds == {"crash", "lock", "copy", "download", "purge"}

ASSUME CacheAssumption ==
  /\ Versions \subseteq Nat \ {0}
  /\ \A vs \in SUBSET Versions : vs # {} => \E v \in vs : \A w \in vs : w <= v
  /\ Plans \subseteq [Procs -> PlanType]
  /\ \A pl \in Plans, p \in Procs : pl[p].req # {}
  /\ Warm \subseteq SUBSET Versions
  /\ Together \subseteq SUBSET FaultKinds /\ Repeat \in BOOLEAN

VARIABLES
  plan,      \* how each process runs
  cache,     \* the tree of each cache entry
  install,   \* the tree of each version directory of each home
  pc,        \* where each process is
  holds,     \* its lock on the entry it looks at
  ver,       \* the entry it looks at
  left,      \* what its copy has not reached yet
  conf,      \* its installation_dir (NoVersion: the base) and trust flag
  used,      \* the version its data directory was initialised with
  serving,   \* its server runs
  blame      \* what has gone wrong so far (history, read by no action)

trees == <<cache, install>>
vars == <<plan, trees, pc, holds, ver, left, conf, used, serving, blame>>

\* A tree: the directory, its bin/, the regular files, the symbolic links
\* among the libraries, and the completion marker.
Pieces == {"dir", "bin", "files", "links", "marker"}

Whole(tree) == {"dir", "bin", "files", "links"} \subseteq tree

\* is_cache_entry_complete.
Complete(tree) == {"marker", "bin"} \subseteq tree

PCs == {"lookup", "lock_shared", "copy_in", "setup", "start", "check",
        "lock_exclusive", "copy_out", "mark", "up", "removing",
        "ended", "failed", "dead"}

TypeOK ==
  /\ plan \in Plans
  /\ cache \in [Versions -> SUBSET Pieces]
  /\ install \in [Homes -> [Versions -> SUBSET Pieces]]
  /\ pc \in [Procs -> PCs]
  /\ holds \in [Procs -> {"none", "shared", "exclusive"}]
  /\ ver \in [Procs -> Versions \union {NoVersion}]
  /\ left \in [Procs -> SUBSET Pieces]
  /\ conf \in [Procs -> [dir : Versions \union {NoVersion}, trusted : BOOLEAN]]
  /\ used \in [Procs -> Versions \union {NoVersion}]
  /\ serving \in [Procs -> BOOLEAN]
  /\ blame \subseteq FaultKinds \union {"removed"}

\* The installations are new.
Init ==
  /\ plan \in Plans
  /\ \E warm \in Warm : cache = [v \in Versions |-> IF v \in warm THEN Pieces ELSE {}]
  /\ install = [h \in Homes |-> [v \in Versions |-> {}]]
  /\ pc = [p \in Procs |-> "lookup"]
  /\ holds = [p \in Procs |-> "none"]
  /\ ver = [p \in Procs |-> NoVersion]
  /\ left = [p \in Procs |-> {}]
  /\ conf = [p \in Procs |-> [dir |-> NoVersion, trusted |-> FALSE]]
  /\ used = [p \in Procs |-> NoVersion]
  /\ serving = [p \in Procs |-> FALSE]
  /\ blame = {}

-----------------------------------------------------------------------------
(* Helpers.                                                                *)

Goto(p, from, to) == pc[p] = from /\ pc' = [pc EXCEPT ![p] = to]

Fault(kind) ==
  /\ \E mix \in Together : (blame \cap FaultKinds) \union {kind} \subseteq mix
  /\ Repeat \/ kind \notin blame
  /\ blame' = blame \union {kind}

\* The highest of these versions, NoVersion when there is none.
Highest(vs) == IF vs = {} THEN NoVersion
               ELSE CHOOSE v \in vs : \A w \in vs : w <= v

Installed(p, v) == install[plan[p].home][v]
SetInstalled(p, v, tree) ==
  install' = [install EXCEPT ![plan[p].home][v] = tree]

\* flock(2), one lock file per version.
Take(p, mode) == holds' = [holds EXCEPT ![p] = mode]
Release(p) == holds' = [holds EXCEPT ![p] = "none"]
Holders(v, modes) == {q \in Procs : ver[q] = v /\ holds[q] \in modes}

\* The server of some process runs from this tree.
InUse(h, v) == \E q \in Procs :
  plan[q].home = h /\ conf[q].dir = v /\ serving[q]

\* postgresql_embedded: the directory itself when it is trusted, else the
\* highest version directory the requirement matches, whatever is in it.
InstalledDir(p) ==
  IF conf[p].trusted THEN conf[p].dir
  ELSE Highest({v \in plan[p].req : "dir" \in Installed(p, v)})

\* resolve_installed_dir: the directory itself when it has a bin/ or is
\* trusted, else the highest version with a bin/, whatever was required.
Resolve(p, tree) ==
  LET candidates == IF conf[p].dir = NoVersion THEN Versions ELSE {conf[p].dir}
  IN  IF conf[p].trusted THEN conf[p].dir
      ELSE Highest({v \in candidates : "bin" \in tree[v]})

-----------------------------------------------------------------------------
(* Copying a tree.                                                         *)

\* Once the copy is inside bin/ it rewrites the files before anything else.
Rewriting(p) == "files" \in left[p] /\ "bin" \notin left[p]

\* The copy may take piece f next.  A symbolic link cannot be made twice, and a
\* piece that is gone by now may never have been listed.
MayCopy(p, f, src, dst) ==
  /\ f \in left[p]
  /\ f = "files" => "bin" \notin left[p]
  /\ Rewriting(p) => f = "files"
  /\ f \in src => "dir" \in dst /\ ~(f = "links" /\ f \in dst)

\* What is there afterwards: existing files are truncated and written again.
Copied(f, src, dst) ==
  IF f \notin src THEN dst
  ELSE IF f = "bin" THEN (dst \union {f}) \ {"files"}
  ELSE dst \union {f}

Passed(p, f) == left' = [left EXCEPT ![p] = @ \ {f}]

\* The copy gives up: a listed piece is gone, or the place it goes to, a
\* symbolic link is there already, a program of the tree is running, or the
\* disk fails.
CopyFails(p, src, dst, busy) ==
  /\ left[p] # {}
  /\ \/ /\ \/ ~(left[p] \subseteq src)
           \/ "dir" \notin dst
           \/ "links" \in left[p] \intersect dst /\ ~Rewriting(p)
           \/ "bin" \in left[p] /\ busy
        /\ UNCHANGED blame
     \/ Fault("copy")

-----------------------------------------------------------------------------
(* Looking a version up: try_use_binary_cache.                             *)

\* find_matching_cached_version, without a lock.
Lookup(p) ==
  LET found == Highest({v \in plan[p].req : Complete(cache[v])})
  IN  /\ ver' = [ver EXCEPT ![p] = found]
      /\ IF found = NoVersion THEN Goto(p, "lookup", "setup")
                              ELSE Goto(p, "lookup", "lock_shared")
      /\ UNCHANGED <<plan, trees, holds, left, conf, used, serving, blame>>

\* Mutant: the entry is not checked again once the lock is there.
LockSharedUnchecked(p) ==
  LET v == ver[p] IN
  /\ pc[p] = "lock_shared"
  /\ Holders(v, {"exclusive"}) = {}
  /\ /\ Goto(p, "lock_shared", "copy_in")
     /\ Take(p, "shared")
     /\ left' = [left EXCEPT ![p] = cache[v] \ {"dir"}]
     /\ SetInstalled(p, v, Installed(p, v) \union {"dir"})
  /\ UNCHANGED <<plan, cache, ver, conf, used, serving, blame>>

\* The lock may be long in coming, so the entry is checked again.
LockShared(p) ==
  LET v == ver[p] IN
  /\ pc[p] = "lock_shared"
  /\ Holders(v, {"exclusive"}) = {}
  /\ IF Complete(cache[v])
     THEN /\ Goto(p, "lock_shared", "copy_in")
          /\ Take(p, "shared")
          /\ left' = [left EXCEPT ![p] = cache[v] \ {"dir"}]
          /\ SetInstalled(p, v, Installed(p, v) \union {"dir"})
     ELSE Goto(p, "lock_shared", "setup") /\ UNCHANGED <<holds, left, install>>
  /\ UNCHANGED <<plan, cache, ver, conf, used, serving, blame>>

LockSharedFails(p) ==
  /\ Goto(p, "lock_shared", "setup")
  /\ Fault("lock")
  /\ UNCHANGED <<plan, trees, holds, ver, left, conf, used, serving>>

CopyIn(p) ==
  /\ pc[p] = "copy_in"
  /\ \E f \in left[p] :
       /\ MayCopy(p, f, cache[ver[p]], Installed(p, ver[p]))
       /\ SetInstalled(p, ver[p], Copied(f, cache[ver[p]], Installed(p, ver[p])))
       /\ Passed(p, f)
  /\ UNCHANGED <<plan, cache, pc, holds, ver, conf, used, serving, blame>>

\* Mutant: a copy that is not finished counts as a hit.
CopyInDoneEarly(p) ==
  /\ Goto(p, "copy_in", "setup")
  /\ Release(p)
  /\ conf' = [conf EXCEPT ![p] = [dir |-> ver[p], trusted |-> TRUE]]
  /\ UNCHANGED <<plan, trees, ver, left, used, serving, blame>>

\* A hit: the copy becomes the installation directory, and is trusted.
CopyInDone(p) ==
  /\ Goto(p, "copy_in", "setup")
  /\ left[p] = {}
  /\ Release(p)
  /\ conf' = [conf EXCEPT ![p] = [dir |-> ver[p], trusted |-> TRUE]]
  /\ UNCHANGED <<plan, trees, ver, left, used, serving, blame>>

\* A miss after all; what was copied stays.
CopyInFails(p) ==
  LET v == ver[p] IN
  /\ Goto(p, "copy_in", "setup")
  /\ CopyFails(p, cache[v], Installed(p, v), InUse(plan[p].home, v))
  /\ Release(p)
  /\ UNCHANGED <<plan, trees, ver, left, conf, used, serving>>

-----------------------------------------------------------------------------
(* Setup and start.                                                        *)

\* initdb has run from version v.  An in-process setup leaves its directory in
\* the settings of a cluster; after the worker's it is resolved again.
SetUpWith(p, v, tree) ==
  LET dir == IF plan[p].root
             THEN IF Resolve(p, tree) = NoVersion THEN conf[p].dir ELSE Resolve(p, tree)
             ELSE IF plan[p].kind = "cluster" THEN v ELSE conf[p].dir
  IN  /\ Goto(p, "setup", IF plan[p].kind = "cluster" THEN "start" ELSE "check")
      /\ used' = [used EXCEPT ![p] = v]
      /\ conf' = [conf EXCEPT ![p].dir = dir]
      /\ UNCHANGED <<plan, cache, holds, ver, left, serving, blame>>

SetupInstalled(p) ==
  LET v == InstalledDir(p) IN
  /\ pc[p] = "setup"
  /\ v # NoVersion
  /\ Whole(Installed(p, v))
  /\ SetUpWith(p, v, install[plan[p].home])
  /\ UNCHANGED install

\* The archive is unpacked beside its place and renamed into it.
SetupDownloads(p) ==
  LET v == Highest(plan[p].req) IN
  /\ pc[p] = "setup"
  /\ InstalledDir(p) = NoVersion
  /\ SetInstalled(p, v, Pieces \ {"marker"})
  /\ SetUpWith(p, v, install'[plan[p].home])

\* What is taken for an installation cannot run, or the download fails.
SetupFails(p) ==
  /\ Goto(p, "setup", "failed")
  /\ IF InstalledDir(p) = NoVersion THEN Fault("download")
     ELSE ~Whole(Installed(p, InstalledDir(p))) /\ UNCHANGED blame
  /\ UNCHANGED <<plan, trees, holds, ver, left, conf, used, serving>>

\* A server of one major version cannot use the data directory of another.
CanStart(p) ==
  /\ conf[p].dir = used[p]
  /\ Whole(Installed(p, conf[p].dir))

Start(p) ==
  /\ Goto(p, "start", "check")
  /\ CanStart(p)
  /\ serving' = [serving EXCEPT ![p] = TRUE]
  /\ UNCHANGED <<plan, trees, holds, ver, left, conf, used, blame>>

StartFails(p) ==
  /\ Goto(p, "start", "failed")
  /\ ~CanStart(p)
  /\ UNCHANGED <<plan, trees, holds, ver, left, conf, used, serving, blame>>

-----------------------------------------------------------------------------
(* Filling the cache after a miss: try_populate_binary_cache.              *)

\* Nothing to do after a hit, when nothing is installed, or when the version
\* is cached already.
CheckCached(p) ==
  LET v == Resolve(p, install[plan[p].home])
      needed == ~conf[p].trusted /\ v # NoVersion /\ ~Complete(cache[v])
  IN  /\ Goto(p, "check", IF needed THEN "lock_exclusive" ELSE "up")
      /\ ver' = [ver EXCEPT ![p] = IF needed THEN v ELSE @]
      /\ UNCHANGED <<plan, trees, holds, left, conf, used, serving, blame>>

\* Mutant: the entry is filled while others read it.
LockExclusiveAmongReaders(p) ==
  LET v == ver[p] IN
  /\ pc[p] = "lock_exclusive"
  /\ Holders(v, {"exclusive"}) = {}
  /\ IF ~Complete(cache[v]) /\ "dir" \in Installed(p, v)
     THEN /\ Goto(p, "lock_exclusive", "copy_out")
          /\ Take(p, "exclusive")
          /\ left' = [left EXCEPT ![p] = Installed(p, v) \ {"dir"}]
          /\ cache' = [cache EXCEPT ![v] = @ \union {"dir"}]
     ELSE Goto(p, "lock_exclusive", "up") /\ UNCHANGED <<holds, left, cache>>
  /\ UNCHANGED <<plan, install, ver, conf, used, serving, blame>>

\* Another process may have filled the entry while this one waited.
LockExclusive(p) ==
  LET v == ver[p] IN
  /\ pc[p] = "lock_exclusive"
  /\ Holders(v, {"shared", "exclusive"}) = {}
  /\ IF ~Complete(cache[v]) /\ "dir" \in Installed(p, v)
     THEN /\ Goto(p, "lock_exclusive", "copy_out")
          /\ Take(p, "exclusive")
          /\ left' = [left EXCEPT ![p] = Installed(p, v) \ {"dir"}]
          /\ cache' = [cache EXCEPT ![v] = @ \union {"dir"}]
     ELSE Goto(p, "lock_exclusive", "up") /\ UNCHANGED <<holds, left, cache>>
  /\ UNCHANGED <<plan, install, ver, conf, used, serving, blame>>

LockExclusiveFails(p) ==
  /\ Goto(p, "lock_exclusive", "up")
  /\ Fault("lock")
  /\ UNCHANGED <<plan, trees, holds, ver, left, conf, used, serving>>

CopyOut(p) ==
  /\ pc[p] = "copy_out"
  /\ \E f \in left[p] :
       /\ MayCopy(p, f, Installed(p, ver[p]), cache[ver[p]])
       /\ cache' = [cache EXCEPT ![ver[p]] = Copied(f, Installed(p, ver[p]), @)]
       /\ Passed(p, f)
  /\ UNCHANGED <<plan, install, pc, holds, ver, conf, used, serving, blame>>

\* Mutant: the lock outlives a copy that failed.
CopyOutFailsHolding(p) ==
  /\ Goto(p, "copy_out", "up")
  /\ CopyFails(p, Installed(p, ver[p]), cache[ver[p]], FALSE)
  /\ UNCHANGED <<plan, trees, holds, ver, left, conf, used, serving>>

CopyOutFails(p) ==
  /\ Goto(p, "copy_out", "up")
  /\ CopyFails(p, Installed(p, ver[p]), cache[ver[p]], FALSE)
  /\ Release(p)
  /\ UNCHANGED <<plan, trees, ver, left, conf, used, serving>>

\* Mutant: the marker is written before the copy is finished.
MarkCompleteFirst(p) ==
  /\ Goto(p, "copy_out", "up")
  /\ cache' = [cache EXCEPT ![ver[p]] =
                 IF "dir" \in @ THEN @ \union {"marker"} ELSE @]
  /\ Release(p)
  /\ UNCHANGED <<plan, install, ver, left, conf, used, serving, blame>>

\* Mutant: the marker is written under a name lookups do not know.
MarkCompleteAmiss(p) ==
  /\ Goto(p, "copy_out", "up")
  /\ left[p] = {}
  /\ cache' = [cache EXCEPT ![ver[p]] =
                 IF "dir" \in @ THEN @ \union {"done"} ELSE @]
  /\ Release(p)
  /\ UNCHANGED <<plan, install, ver, left, conf, used, serving, blame>>

\* write_completion_marker, after everything else.
MarkComplete(p) ==
  /\ Goto(p, "copy_out", "up")
  /\ left[p] = {}
  /\ cache' = [cache EXCEPT ![ver[p]] =
                 IF "dir" \in @ THEN @ \union {"marker"} ELSE @]
  /\ Release(p)
  /\ UNCHANGED <<plan, install, ver, left, conf, used, serving, blame>>

-----------------------------------------------------------------------------
(* The end of a run, and what comes from outside.                          *)

\* The server is stopped; CleanupMode::Full goes on to remove its tree.
Close(p) ==
  /\ Goto(p, "up", IF plan[p].full /\ plan[p].kind = "cluster"
                   THEN "removing" ELSE "ended")
  /\ serving' = [serving EXCEPT ![p] = FALSE]
  /\ UNCHANGED <<plan, trees, holds, ver, left, conf, used, blame>>

\* remove_dir_all: bit by bit, the directory itself last.
RemovePiece(p) ==
  /\ pc[p] = "removing"
  /\ \E f \in Installed(p, conf[p].dir) :
       /\ f = "dir" => Installed(p, conf[p].dir) = {"dir"}
       /\ f = "bin" => "files" \notin Installed(p, conf[p].dir)
       /\ SetInstalled(p, conf[p].dir, Installed(p, conf[p].dir) \ {f})
  /\ blame' = blame \union {"removed"}
  /\ UNCHANGED <<plan, cache, pc, holds, ver, left, conf, used, serving>>

Removed(p) ==
  /\ Goto(p, "removing", "ended")
  /\ Installed(p, conf[p].dir) = {}
  /\ UNCHANGED <<plan, trees, holds, ver, left, conf, used, serving, blame>>

\* The kernel drops the lock of a process that is killed; its server lives on.
Crash(p) ==
  /\ pc[p] \notin {"ended", "failed", "dead"}
  /\ pc' = [pc EXCEPT ![p] = "dead"]
  /\ Fault("crash")
  /\ Release(p)
  /\ UNCHANGED <<plan, trees, ver, left, conf, used, serving>>

\* rm -rf of an entry, which takes no lock.
Purge(v) ==
  /\ cache[v] # {}
  /\ cache' = [cache EXCEPT ![v] = {}]
  /\ Fault("purge")
  /\ UNCHANGED <<plan, install, pc, holds, ver, left, conf, used, serving>>

Ended == \A p \in Procs : pc[p] \in {"ended", "failed", "dead"}

Step(p) ==
  \/ Lookup(p) \/ LockShared(p) \/ LockSharedFails(p)
  \/ CopyIn(p) \/ CopyInDone(p) \/ CopyInFails(p)
  \/ SetupInstalled(p) \/ SetupDownloads(p) \/ SetupFails(p)
  \/ Start(p) \/ StartFails(p)
  \/ CheckCached(p) \/ LockExclusive(p) \/ LockExclusiveFails(p)
  \/ CopyOut(p) \/ CopyOutFails(p) \/ MarkComplete(p)
  \/ Close(p) \/ RemovePiece(p) \/ Removed(p)

Next ==
  \/ \E p \in Procs : Step(p) \/ Crash(p)
  \/ \E v \in Versions : Purge(v)
  \/ Ended /\ UNCHANGED vars

Spec == Init /\ [][Next]_vars

\* A process that is not killed goes on; flock wakes its waiters.
FairSpec == Spec /\ \A p \in Procs : WF_vars(Step(p))
=============================================================================
