------------------------- MODULE BinaryCacheProofs -------------------------
(***************************************************************************)
(* Proofs about the binary cache for any number of processes, versions and *)
(* installation directories, under every fault: types, the locks, what a   *)
(* completion marker promises, and the EntryCache that the entries are.    *)
(***************************************************************************)
EXTENDS BinaryCacheProps, TLAPS

-----------------------------------------------------------------------------
(* Helpers.                                                                *)

\* The highest of some versions is one of them.
LEMMA HighestIsOne ==
  ASSUME NEW vs \in SUBSET Versions
  PROVE  /\ Highest(vs) \in vs \union {NoVersion}
         /\ Highest(vs) \in Versions \union {NoVersion}
<1>1. CASE vs = {}
  BY <1>1 DEF Highest
<1>2. CASE vs # {}
  <2>1. \E v \in vs : \A w \in vs : w <= v
    BY <1>2, CacheAssumption
  <2>2. Highest(vs) \in vs
    BY <1>2, <2>1 DEF Highest
  <2>3. QED
    BY <2>2
<1>3. QED
  BY <1>1, <1>2

\* A plan's parts.
LEMMA PlanParts ==
  ASSUME TypeOK, NEW p \in Procs
  PROVE  plan[p].home \in Homes /\ plan[p].req \in SUBSET Versions
  BY CacheAssumption DEF TypeOK, PlanType

\* Giving a version directory a tree.
LEMMA InstallType ==
  ASSUME TypeOK, NEW p \in Procs, NEW v, NEW tree,
         v \in Versions => tree \in SUBSET Pieces, SetInstalled(p, v, tree)
  PROVE  /\ install' \in [Homes -> [Versions -> SUBSET Pieces]]
         /\ \A h \in Homes, w \in Versions :
              install'[h][w] = IF h = plan[p].home /\ w = v THEN tree ELSE install[h][w]
  BY PlanParts, ZenonT(40) DEF TypeOK, SetInstalled

\* The version directory a setup takes, and the one it leaves in the settings.
LEMMA DirType ==
  ASSUME TypeOK, NEW p \in Procs
  PROVE  /\ InstalledDir(p) \in Versions \union {NoVersion}
         /\ \A tree : Resolve(p, tree) \in Versions \union {NoVersion}
<1>1. conf[p].dir \in Versions \union {NoVersion}
  BY DEF TypeOK
<1>2. {v \in plan[p].req : "dir" \in Installed(p, v)} \in SUBSET Versions
  BY PlanParts
<1>3. InstalledDir(p) \in Versions \union {NoVersion}
  BY <1>1, <1>2, HighestIsOne DEF InstalledDir
<1>4. ASSUME NEW tree PROVE Resolve(p, tree) \in Versions \union {NoVersion}
  <2>. DEFINE candidates == IF conf[p].dir = NoVersion THEN Versions ELSE {conf[p].dir}
  <2>1. {v \in candidates : "bin" \in tree[v]} \in SUBSET Versions
    BY <1>1
  <2>. HIDE DEF candidates
  <2>2. Highest({v \in candidates : "bin" \in tree[v]}) \in Versions \union {NoVersion}
    BY <2>1, HighestIsOne
  <2>3. QED
    BY <1>1, <2>2 DEF Resolve, candidates
<1>5. QED
  BY <1>3, <1>4

\* A fault is remembered.
LEMMA FaultType ==
  ASSUME TypeOK, NEW kind, Fault(kind)
  PROVE  /\ blame' \subseteq FaultKinds \union {"removed"}
         /\ blame \subseteq blame' /\ kind \in blame'
  BY CacheAssumption DEF TypeOK, Fault

\* A copied piece is a piece.
LEMMA CopiedType ==
  ASSUME NEW dst \in SUBSET Pieces, NEW src, NEW f \in Pieces
  PROVE  Copied(f, src, dst) \in SUBSET Pieces
  BY DEF Copied

-----------------------------------------------------------------------------
(* Types.                                                                  *)

\* Looking an entry up and copying it keep the types.
LEMMA LookupTypes ==
  ASSUME LockInv, NEW p \in Procs,
         \/ Lookup(p) \/ LockShared(p) \/ LockSharedFails(p)
         \/ CopyIn(p) \/ CopyInDone(p) \/ CopyInFails(p)
  PROVE  TypeOK'
<1>0. TypeOK /\ (pc[p] = "lock_shared" => ver[p] \in Versions)
  BY DEF LockInv, LockProtocol
<1>1. CASE Lookup(p)
  <2>1. {v \in plan[p].req : Complete(cache[v])} \in SUBSET Versions
    BY <1>0, PlanParts
  <2>2. Highest({v \in plan[p].req : Complete(cache[v])}) \in Versions \union {NoVersion}
    BY <1>0, <2>1, HighestIsOne
  <2>3. pc' \in [Procs -> PCs] /\ ver' \in [Procs -> Versions \union {NoVersion}]
    BY <1>0, <1>1, <2>2 DEF TypeOK, Lookup, Goto, PCs
  <2>4. QED
    BY <1>0, <1>1, <2>3 DEF TypeOK, Lookup, trees
<1>2. CASE LockShared(p)
  <2>1. ver[p] \in Versions => Installed(p, ver[p]) \union {"dir"} \in SUBSET Pieces
    BY <1>0, PlanParts DEF TypeOK, Installed, Pieces
  <2>2. install' \in [Homes -> [Versions -> SUBSET Pieces]]
    BY <1>0, <1>2, <2>1, InstallType DEF LockShared, TypeOK
  <2>3. left' \in [Procs -> SUBSET Pieces]
    <3>1. cache[ver[p]] \ {"dir"} \in SUBSET Pieces
      BY <1>0, <1>2 DEF TypeOK, LockShared
    <3>2. left' \in {left, [left EXCEPT ![p] = cache[ver[p]] \ {"dir"}]}
      BY <1>2 DEF LockShared
    <3>3. QED
      BY <1>0, <3>1, <3>2 DEF TypeOK
  <2>4. pc' \in [Procs -> PCs] /\ holds' \in [Procs -> {"none", "shared", "exclusive"}]
    BY <1>0, <1>2 DEF TypeOK, LockShared, Goto, Take, PCs
  <2>5. QED
    BY <1>0, <1>2, <2>2, <2>3, <2>4 DEF TypeOK, LockShared
<1>3. CASE LockSharedFails(p)
  BY <1>0, <1>3, FaultType DEF TypeOK, LockSharedFails, Goto, PCs, trees
<1>4. CASE CopyIn(p)
  <2>1. PICK f \in left[p] :
          /\ SetInstalled(p, ver[p], Copied(f, cache[ver[p]], Installed(p, ver[p])))
          /\ Passed(p, f)
    BY <1>0, <1>4 DEF CopyIn
  <2>2. f \in Pieces
    BY <1>0 DEF TypeOK
  <2>3. ver[p] \in Versions => Installed(p, ver[p]) \in SUBSET Pieces
    BY <1>0, PlanParts DEF TypeOK, Installed
  <2>4. install' \in [Homes -> [Versions -> SUBSET Pieces]]
    BY <1>0, <2>1, <2>2, <2>3, CopiedType, InstallType
  <2>5. QED
    BY <1>0, <1>4, <2>1, <2>4 DEF TypeOK, CopyIn, Passed
<1>5. CASE CopyInDone(p)
  BY <1>0, <1>5 DEF TypeOK, CopyInDone, Goto, Release, PCs, trees
<1>6. CASE CopyInFails(p)
  <2>1. blame' \subseteq FaultKinds \union {"removed"}
    BY <1>0, <1>6, FaultType DEF TypeOK, CopyInFails, CopyFails
  <2>2. QED
    BY <1>0, <1>6, <2>1 DEF TypeOK, CopyInFails, Goto, Release, PCs, trees
<1>7. QED
  BY <1>1, <1>2, <1>3, <1>4, <1>5, <1>6

\* So do setting up and starting.
LEMMA SetupTypes ==
  ASSUME TypeOK, NEW p \in Procs,
         \/ SetupInstalled(p) \/ SetupDownloads(p) \/ SetupFails(p)
         \/ Start(p) \/ StartFails(p)
  PROVE  TypeOK'
<1>1. ASSUME NEW v \in Versions \union {NoVersion}, NEW tree, SetUpWith(p, v, tree),
             install' \in [Homes -> [Versions -> SUBSET Pieces]]
      PROVE  TypeOK'
  <2>1. conf[p].dir \in Versions \union {NoVersion}
    BY DEF TypeOK
  <2>d. PICK dir \in Versions \union {NoVersion} : conf' = [conf EXCEPT ![p].dir = dir]
    BY <1>1, <2>1, DirType DEF SetUpWith
  <2>2. conf' \in [Procs -> [dir : Versions \union {NoVersion}, trusted : BOOLEAN]]
    <3>. DEFINE Settings == [dir : Versions \union {NoVersion}, trusted : BOOLEAN]
    <3>1. conf \in [Procs -> Settings]
      BY DEF TypeOK
    <3>2. [conf[p] EXCEPT !.dir = dir] \in Settings
      BY <3>1
    <3>3. conf' = [conf EXCEPT ![p] = [conf[p] EXCEPT !.dir = dir]]
      BY <2>d
    <3>. HIDE DEF Settings
    <3>4. conf' \in [Procs -> Settings]
      BY <3>1, <3>2, <3>3
    <3>5. QED
      BY <3>4 DEF Settings
  <2>3. pc' \in [Procs -> PCs] /\ used' \in [Procs -> Versions \union {NoVersion}]
    BY <1>1 DEF TypeOK, SetUpWith, Goto, PCs
  <2>4. QED
    BY <1>1, <2>2, <2>3 DEF TypeOK, SetUpWith
<1>2. CASE SetupInstalled(p)
  BY <1>1, <1>2, DirType DEF SetupInstalled, TypeOK
<1>3. CASE SetupDownloads(p)
  <2>1. Highest(plan[p].req) \in Versions \union {NoVersion}
    BY PlanParts, HighestIsOne
  <2>2. Pieces \ {"marker"} \in SUBSET Pieces
    OBVIOUS
  <2>3. install' \in [Homes -> [Versions -> SUBSET Pieces]]
    BY <1>3, <2>2, InstallType DEF SetupDownloads
  <2>4. QED
    BY <1>1, <1>3, <2>1, <2>3 DEF SetupDownloads
<1>4. CASE SetupFails(p)
  <2>1. blame' \subseteq FaultKinds \union {"removed"}
    BY <1>4, FaultType DEF TypeOK, SetupFails
  <2>2. QED
    BY <1>4, <2>1 DEF TypeOK, SetupFails, Goto, PCs, trees
<1>5. CASE Start(p) \/ StartFails(p)
  BY <1>5 DEF TypeOK, Start, StartFails, Goto, PCs, trees
<1>6. QED
  BY <1>2, <1>3, <1>4, <1>5

\* So does filling an entry.
LEMMA PopulateTypes ==
  ASSUME LockInv, NEW p \in Procs,
         \/ CheckCached(p) \/ LockExclusive(p) \/ LockExclusiveFails(p)
         \/ CopyOut(p) \/ CopyOutFails(p) \/ MarkComplete(p)
  PROVE  TypeOK'
<1>0. TypeOK /\ (pc[p] = "lock_exclusive" => ver[p] \in Versions)
  BY DEF LockInv, LockProtocol
<1>1. CASE CheckCached(p)
  <2>1. Resolve(p, install[plan[p].home]) \in Versions \union {NoVersion}
    BY <1>0, DirType
  <2>2. pc' \in [Procs -> PCs] /\ ver' \in [Procs -> Versions \union {NoVersion}]
    BY <1>0, <1>1, <2>1 DEF TypeOK, CheckCached, Goto, PCs
  <2>3. QED
    BY <1>0, <1>1, <2>2 DEF TypeOK, CheckCached, trees
<1>2. CASE LockExclusive(p)
  <2>1. "dir" \in Pieces
    BY <1>0 DEF Pieces
  <2>2. cache' \in [Versions -> SUBSET Pieces]
    BY <1>0, <1>2, <2>1 DEF TypeOK, LockExclusive
  <2>3. ver[p] \in Versions => Installed(p, ver[p]) \in SUBSET Pieces
    BY <1>0, PlanParts DEF TypeOK, Installed
  <2>4. left' \in [Procs -> SUBSET Pieces]
    <3>1. Installed(p, ver[p]) \ {"dir"} \in SUBSET Pieces
      BY <1>0, <1>2, <2>3 DEF LockExclusive
    <3>2. left' \in {left, [left EXCEPT ![p] = Installed(p, ver[p]) \ {"dir"}]}
      BY <1>2 DEF LockExclusive
    <3>3. QED
      BY <1>0, <3>1, <3>2 DEF TypeOK
  <2>5. pc' \in [Procs -> PCs] /\ holds' \in [Procs -> {"none", "shared", "exclusive"}]
    BY <1>0, <1>2 DEF TypeOK, LockExclusive, Goto, Take, PCs
  <2>6. QED
    BY <1>0, <1>2, <2>2, <2>4, <2>5 DEF TypeOK, LockExclusive
<1>3. CASE LockExclusiveFails(p)
  BY <1>0, <1>3, FaultType DEF TypeOK, LockExclusiveFails, Goto, PCs, trees
<1>4. CASE CopyOut(p)
  <2>1. PICK f \in left[p] :
          /\ cache' = [cache EXCEPT ![ver[p]] = Copied(f, Installed(p, ver[p]), @)]
          /\ Passed(p, f)
    BY <1>0, <1>4 DEF CopyOut
  <2>2. f \in Pieces
    BY <1>0 DEF TypeOK
  <2>3. cache' \in [Versions -> SUBSET Pieces]
    BY <1>0, <2>1, <2>2, CopiedType DEF TypeOK
  <2>4. QED
    BY <1>0, <1>4, <2>1, <2>3 DEF TypeOK, CopyOut, Passed
<1>5. CASE CopyOutFails(p)
  <2>1. blame' \subseteq FaultKinds \union {"removed"}
    BY <1>0, <1>5, FaultType DEF TypeOK, CopyOutFails, CopyFails
  <2>2. QED
    BY <1>0, <1>5, <2>1 DEF TypeOK, CopyOutFails, Goto, Release, PCs, trees
<1>6. CASE MarkComplete(p)
  <2>1. cache' \in [Versions -> SUBSET Pieces]
    BY <1>0, <1>6 DEF TypeOK, MarkComplete, Pieces
  <2>2. QED
    BY <1>0, <1>6, <2>1 DEF TypeOK, MarkComplete, Goto, Release, PCs
<1>7. QED
  BY <1>1, <1>2, <1>3, <1>4, <1>5, <1>6

\* So do the end of a run and what comes from outside.
LEMMA EndTypes ==
  ASSUME TypeOK,
         \/ \E p \in Procs : Close(p) \/ RemovePiece(p) \/ Removed(p) \/ Crash(p)
         \/ \E v \in Versions : Purge(v)
  PROVE  TypeOK'
<1>1. ASSUME NEW p \in Procs, Close(p) \/ Removed(p)
      PROVE  TypeOK'
  BY <1>1 DEF TypeOK, Close, Removed, Goto, PCs, trees
<1>2. ASSUME NEW p \in Procs, RemovePiece(p)
      PROVE  TypeOK'
  <2>1. PICK f : SetInstalled(p, conf[p].dir, Installed(p, conf[p].dir) \ {f})
    BY <1>2 DEF RemovePiece
  <2>2. conf[p].dir \in Versions => Installed(p, conf[p].dir) \ {f} \in SUBSET Pieces
    BY PlanParts DEF TypeOK, Installed
  <2>3. install' \in [Homes -> [Versions -> SUBSET Pieces]]
    BY <2>1, <2>2, InstallType
  <2>4. QED
    BY <1>2, <2>3 DEF TypeOK, RemovePiece
<1>3. ASSUME NEW p \in Procs, Crash(p)
      PROVE  TypeOK'
  BY <1>3, FaultType DEF TypeOK, Crash, Release, PCs, trees
<1>4. ASSUME NEW v \in Versions, Purge(v)
      PROVE  TypeOK'
  BY <1>4, FaultType DEF TypeOK, Purge
<1>5. QED
  BY <1>1, <1>2, <1>3, <1>4

LEMMA TypeStep == LockInv /\ [Next]_vars => TypeOK'
<1>. SUFFICES ASSUME LockInv, [Next]_vars PROVE TypeOK'
  OBVIOUS
<1>0. TypeOK
  BY DEF LockInv
<1>1. CASE UNCHANGED vars
  BY <1>0, <1>1 DEF vars, trees, TypeOK
<1>2. QED
  BY <1>0, <1>1, LookupTypes, SetupTypes, PopulateTypes, EndTypes DEF Next, Step

-----------------------------------------------------------------------------
(* The locks.                                                              *)

\* Where a step of a process may lead to: it is about p alone, and the lock of p
\* follows its place.
LEMMA LockStep ==
  ASSUME LockInv, NEW p \in Procs, Step(p) \/ Crash(p)
  PROVE  /\ \A q \in Procs \ {p} : /\ pc'[q] = pc[q] /\ ver'[q] = ver[q]
                                   /\ holds'[q] = holds[q]
         /\ LockProtocol(p)'
         /\ holds'[p] \in {"shared", "exclusive"} => ver'[p] = ver[p]
         /\ holds'[p] = "shared" => \/ holds[p] = "shared"
                                    \/ Holders(ver[p], {"exclusive"}) = {}
         /\ holds'[p] = "exclusive" => \/ holds[p] = "exclusive"
                                       \/ Holders(ver[p], {"shared", "exclusive"}) = {}
<1>. USE DEF Goto, LockProtocol
<1>0. TypeOK /\ LockProtocol(p) /\ pc \in [Procs -> PCs]
      /\ ver \in [Procs -> Versions \union {NoVersion}]
      /\ holds \in [Procs -> {"none", "shared", "exclusive"}]
  BY DEF LockInv, TypeOK
<1>1. CASE Lookup(p)
  <2>1. {v \in plan[p].req : Complete(cache[v])} \in SUBSET Versions
    BY <1>0, PlanParts
  <2>2. Highest({v \in plan[p].req : Complete(cache[v])}) \in Versions \union {NoVersion}
    BY <2>1, HighestIsOne
  <2>3. QED
    BY <1>0, <1>1, <2>2 DEF Lookup
<1>2. CASE LockShared(p)
  BY <1>0, <1>2 DEF LockShared, Take
<1>3. CASE LockSharedFails(p)
  BY <1>0, <1>3 DEF LockSharedFails
<1>4. CASE CopyIn(p) \/ CopyOut(p)
  BY <1>0, <1>4 DEF CopyIn, CopyOut
<1>5. CASE CopyInDone(p)
  BY <1>0, <1>5 DEF CopyInDone, Release
<1>6. CASE CopyInFails(p)
  BY <1>0, <1>6 DEF CopyInFails, Release
<1>7. CASE SetupInstalled(p) \/ SetupDownloads(p)
  BY <1>0, <1>7 DEF SetupInstalled, SetupDownloads, SetUpWith
<1>8. CASE SetupFails(p) \/ Start(p) \/ StartFails(p)
  BY <1>0, <1>8 DEF SetupFails, Start, StartFails
<1>9. CASE CheckCached(p)
  <2>1. Resolve(p, install[plan[p].home]) \in Versions \union {NoVersion}
    BY <1>0, DirType
  <2>2. QED
    BY <1>0, <1>9, <2>1 DEF CheckCached
<1>10. CASE LockExclusive(p)
  BY <1>0, <1>10 DEF LockExclusive, Take
<1>11. CASE LockExclusiveFails(p)
  BY <1>0, <1>11 DEF LockExclusiveFails
<1>12. CASE CopyOutFails(p) \/ MarkComplete(p)
  BY <1>0, <1>12 DEF CopyOutFails, MarkComplete, Release
<1>13. CASE Close(p) \/ RemovePiece(p) \/ Removed(p)
  BY <1>0, <1>13 DEF Close, RemovePiece, Removed
<1>14. CASE Crash(p)
  BY <1>0, <1>14 DEF Crash, Release
<1>15. QED
  BY <1>1, <1>2, <1>3, <1>4, <1>5, <1>6, <1>7, <1>8, <1>9, <1>10, <1>11, <1>12,
     <1>13, <1>14 DEF Step

LEMMA LockInductive == LockInv /\ [Next]_vars => LockInv'
<1>. SUFFICES ASSUME LockInv, [Next]_vars PROVE LockInv'
  OBVIOUS
<1>1. TypeOK'
  BY TypeStep
<1>2. CASE UNCHANGED <<pc, ver, holds>>
  BY <1>1, <1>2 DEF LockInv, LockProtocol
<1>3. ASSUME NEW p \in Procs, Step(p) \/ Crash(p)
      PROVE  LockInv'
  <2>1. \A q \in Procs : LockProtocol(q)'
    BY <1>3, LockStep DEF LockInv, LockProtocol
  <2>2. ASSUME NEW q \in Procs, NEW r \in Procs, q # r,
               ver'[q] = ver'[r], holds'[q] = "exclusive"
        PROVE  holds'[r] = "none"
    <3>0. holds[r] \in {"none", "shared", "exclusive"}
          /\ holds'[r] \in {"none", "shared", "exclusive"}
      BY <1>1 DEF LockInv, TypeOK
    <3>1. CASE q # p /\ r # p
      BY <1>3, <2>2, <3>1, LockStep DEF LockInv
    <3>2. CASE q = p
      BY <1>3, <2>2, <3>0, <3>2, LockStep DEF LockInv, Holders
    <3>3. CASE r = p
      BY <1>3, <2>2, <3>0, <3>3, LockStep DEF LockInv, Holders
    <3>4. QED
      BY <3>1, <3>2, <3>3
  <2>3. QED
    BY <1>1, <2>1, <2>2 DEF LockInv
<1>4. QED
  BY <1>2, <1>3 DEF Next, Purge, vars

LEMMA LockInvHolds == Spec => []LockInv
<1>1. Init => LockInv
  <2>. SUFFICES ASSUME Init PROVE LockInv
    OBVIOUS
  <2>1. cache \in [Versions -> SUBSET Pieces]
    BY DEF Init
  <2>2. TypeOK
    BY <2>1 DEF Init, TypeOK, PCs
  <2>3. QED
    BY <2>2 DEF Init, LockInv, LockProtocol
<1>2. QED
  BY <1>1, LockInductive, PTL DEF Spec

\* The state keeps its type, whatever is killed, fails or is deleted.
THEOREM TypeCorrect == Spec => []TypeOK
<1>1. LockInv => TypeOK
  BY DEF LockInv
<1>2. QED
  BY <1>1, LockInvHolds, PTL

\* However processes are killed and locks fail, an entry has one holder of its
\* exclusive lock and then no other holder.
THEOREM LocksExclude == Spec => []LockInv
  BY LockInvHolds

-----------------------------------------------------------------------------
(* What changes an entry.                                                  *)

\* An entry changes only under its exclusive lock, except that a user deletes it.
LEMMA EntryChanges ==
  ASSUME LockInv, [Next]_vars, NEW v \in Versions, cache'[v] # cache[v]
  PROVE  \/ Holders(v, {"shared", "exclusive"}) = {} /\ cache'[v] = cache[v] \union {"dir"}
         \/ \E p \in Procs : ver[p] = v /\ holds[p] = "exclusive"
         \/ cache'[v] = {} /\ "purge" \in blame'
<1>0. TypeOK /\ cache \in [Versions -> SUBSET Pieces]
  BY DEF LockInv, TypeOK
<1>1. CASE UNCHANGED cache
  BY <1>1
<1>2. ASSUME NEW p \in Procs, LockExclusive(p)
      PROVE  Holders(v, {"shared", "exclusive"}) = {} /\ cache'[v] = cache[v] \union {"dir"}
  BY <1>0, <1>2 DEF LockExclusive
<1>3. ASSUME NEW p \in Procs, CopyOut(p) \/ MarkComplete(p)
      PROVE  ver[p] = v /\ holds[p] = "exclusive"
  BY <1>0, <1>3 DEF LockInv, LockProtocol, CopyOut, MarkComplete, Goto
<1>4. ASSUME NEW w \in Versions, Purge(w)
      PROVE  cache'[v] = {} /\ "purge" \in blame'
  BY <1>0, <1>4, FaultType DEF Purge
<1>5. QED
  BY <1>1, <1>2, <1>3, <1>4
  DEF Next, Step, vars, trees, Lookup, LockShared, LockSharedFails, CopyIn, CopyInDone,
      CopyInFails, SetupInstalled, SetupDownloads, SetUpWith, SetupFails, Start, StartFails,
      CheckCached, LockExclusiveFails, CopyOutFails, Close, RemovePiece, Removed, Crash

\* Nobody but a user that deletes it changes an entry under a reader.
THEOREM ReadsStable == Spec => ReadsAreStable
<1>1. LockInv /\ [Next]_vars =>
        [\A v \in Versions :
           Holders(v, {"shared"}) # {} => cache'[v] \in {cache[v], {}}]_vars
  <2>. SUFFICES ASSUME LockInv, [Next]_vars, NEW v \in Versions,
                       Holders(v, {"shared"}) # {}, cache'[v] # cache[v]
                PROVE  cache'[v] = {}
    OBVIOUS
  <2>1. PICK q \in Procs : ver[q] = v /\ holds[q] = "shared"
    BY DEF Holders
  <2>2. ASSUME NEW p \in Procs, ver[p] = v, holds[p] = "exclusive"
        PROVE  FALSE
    BY <2>1, <2>2 DEF LockInv
  <2>3. Holders(v, {"shared", "exclusive"}) # {}
    BY <2>1 DEF Holders
  <2>4. \/ Holders(v, {"shared", "exclusive"}) = {}
        \/ \E p \in Procs : ver[p] = v /\ holds[p] = "exclusive"
        \/ cache'[v] = {}
    BY EntryChanges
  <2>5. QED
    BY <2>2, <2>3, <2>4
<1>2. QED
  BY <1>1, LockInvHolds, PTL DEF Spec, ReadsAreStable

-----------------------------------------------------------------------------
(* What the marker promises.                                               *)

CacheParts ==
  /\ \A v \in Versions : EntryInv(v)
  /\ \A p \in Procs : CopyInv(p)

\* Steps that change no entry: an installation changes only when the entry of its
\* version is complete, or by a download.
LEMMA InstallsKeepParts ==
  ASSUME LockInv, CacheParts, cache' = cache, plan' = plan,
         \A h \in Homes, w \in Versions : install'[h][w] # install[h][w] =>
           Complete(cache[w]) \/ install'[h][w] = Downloaded,
         \A q \in Procs : pc'[q] = "copy_in" =>
           /\ ver'[q] = ver[q]
           /\ pc[q] = "copy_in" \/ Complete(cache[ver[q]]),
         \A q \in Procs : pc'[q] = "copy_out" =>
           pc[q] = "copy_out" /\ ver'[q] = ver[q] /\ left'[q] = left[q]
  PROVE  CacheParts'
<1>1. ASSUME NEW v \in Versions
      PROVE  EntryInv(v)'
  BY <1>1 DEF CacheParts, EntryInv, Complete, Whole
<1>2. ASSUME NEW q \in Procs
      PROVE  CopyInv(q)'
  <2>1. CASE pc'[q] = "copy_in"
    BY <1>2, <2>1 DEF CacheParts, CopyInv, Complete
  <2>2. CASE pc'[q] = "copy_out"
    <3>1. ver[q] \in Versions /\ plan[q].home \in Homes
      BY <2>2, PlanParts DEF LockInv, LockProtocol
    <3>2. CopyInv(q) /\ pc[q] = "copy_out" /\ ver'[q] = ver[q] /\ left'[q] = left[q]
      BY <2>2 DEF CacheParts
    <3>3. install'[plan[q].home][ver[q]] = Downloaded
      BY <3>1, <3>2 DEF CopyInv, Installed
    <3>4. QED
      BY <2>2, <3>2, <3>3 DEF CopyInv, Complete, Installed
  <2>3. QED
    BY <2>1, <2>2 DEF CopyInv
<1>3. QED
  BY <1>1, <1>2 DEF CacheParts

\* Steps of one process that change an entry which is not complete.
LEMMA EntryKeepsParts ==
  ASSUME LockInv, CacheParts, install' = install, plan' = plan,
         NEW p \in Procs, NEW tree, ver[p] \in Versions,
         cache' = [cache EXCEPT ![ver[p]] = tree],
         ~Complete(cache[ver[p]]), "marker" \in tree => Whole(tree),
         CopyInv(p)',
         \A q \in Procs \ {p} :
           /\ pc'[q] = pc[q] /\ ver'[q] = ver[q] /\ left'[q] = left[q]
           /\ pc[q] = "copy_out" => ver[q] # ver[p]
  PROVE  CacheParts'
<1>0. cache \in [Versions -> SUBSET Pieces]
  BY DEF LockInv, TypeOK
<1>1. ASSUME NEW v \in Versions
      PROVE  EntryInv(v)'
  <2>1. CASE v = ver[p]
    BY <1>0, <2>1 DEF CacheParts, EntryInv, Complete, Whole
  <2>2. CASE v # ver[p]
    BY <1>0, <2>2 DEF CacheParts, EntryInv, Complete, Whole
  <2>3. QED
    BY <2>1, <2>2
<1>2. ASSUME NEW q \in Procs, q # p
      PROVE  CopyInv(q)'
  <2>1. CopyInv(q) /\ q \in Procs \ {p}
    BY <1>2 DEF CacheParts
  <2>2. pc[q] \in {"copy_in", "copy_out"} =>
          ver[q] \in Versions /\ cache'[ver[q]] = cache[ver[q]]
    BY <1>0, <2>1 DEF CopyInv, LockInv, LockProtocol
  <2>3. QED
    BY <2>1, <2>2 DEF CopyInv, Complete, Installed
<1>3. QED
  BY <1>1, <1>2 DEF CacheParts

\* Copying in: the entry is complete.
LEMMA CopyInKeepsParts ==
  ASSUME LockInv, CacheParts, NEW p \in Procs, LockShared(p) \/ CopyIn(p)
  PROVE  CacheParts'
<1>0. TypeOK /\ LockProtocol(p)
  BY DEF LockInv
<1>1. ASSUME NEW tree, SetInstalled(p, ver[p], tree), Complete(cache[ver[p]]),
             ver[p] \in Versions
      PROVE  \A h \in Homes, w \in Versions : install'[h][w] # install[h][w] =>
               Complete(cache[w]) \/ install'[h][w] = Downloaded
  BY <1>0, <1>1, PlanParts DEF TypeOK, SetInstalled
<1>2. CASE LockShared(p)
  <2>1. \A h \in Homes, w \in Versions : install'[h][w] # install[h][w] =>
          Complete(cache[w]) \/ install'[h][w] = Downloaded
    BY <1>0, <1>1, <1>2 DEF LockShared, LockProtocol
  <2>2. /\ cache' = cache /\ plan' = plan /\ ver' = ver
        /\ \A q \in Procs : pc'[q] = "copy_in" => pc[q] = "copy_in" \/ Complete(cache[ver[q]])
        /\ \A q \in Procs : pc'[q] = "copy_out" => pc[q] = "copy_out" /\ left'[q] = left[q]
    BY <1>0, <1>2 DEF TypeOK, LockShared, Goto
  <2>3. QED
    BY <2>1, <2>2, InstallsKeepParts
<1>3. CASE CopyIn(p)
  <2>1. Complete(cache[ver[p]]) /\ ver[p] \in Versions
    BY <1>0, <1>3 DEF CopyIn, CacheParts, CopyInv, LockProtocol
  <2>2. \A h \in Homes, w \in Versions : install'[h][w] # install[h][w] =>
          Complete(cache[w]) \/ install'[h][w] = Downloaded
    BY <1>1, <1>3, <2>1 DEF CopyIn
  <2>3. /\ cache' = cache /\ plan' = plan /\ ver' = ver /\ pc' = pc
        /\ \A q \in Procs : pc'[q] = "copy_out" => left'[q] = left[q]
    BY <1>0, <1>3 DEF TypeOK, CopyIn, Passed
  <2>4. QED
    BY <2>2, <2>3, InstallsKeepParts
<1>4. QED
  BY <1>2, <1>3

\* A download.
LEMMA DownloadKeepsParts ==
  ASSUME LockInv, CacheParts, NEW p \in Procs, SetupDownloads(p)
  PROVE  CacheParts'
<1>0. TypeOK
  BY DEF LockInv
<1>1. \A h \in Homes, w \in Versions : install'[h][w] # install[h][w] =>
        Complete(cache[w]) \/ install'[h][w] = Downloaded
  BY <1>0, PlanParts DEF TypeOK, SetupDownloads, SetInstalled, Downloaded
<1>2. /\ cache' = cache /\ plan' = plan /\ ver' = ver /\ left' = left
      /\ \A q \in Procs : pc'[q] \in {"copy_in", "copy_out"} => pc[q] = pc'[q]
  BY <1>0 DEF TypeOK, SetupDownloads, SetUpWith, Goto
<1>3. QED
  BY <1>1, <1>2, InstallsKeepParts

\* Copying out: what is copied was downloaded, and nobody else is at the entry.
LEMMA CopyOutKeepsParts ==
  ASSUME LockInv, CacheParts, NEW p \in Procs,
         LockExclusive(p) \/ CopyOut(p) \/ MarkComplete(p)
  PROVE  CacheParts'
<1>0. TypeOK /\ LockProtocol(p) /\ CopyInv(p) /\ plan[p].home \in Homes
  BY PlanParts DEF LockInv, CacheParts
<1>a. ver[p] \in Versions
  BY <1>0 DEF LockProtocol, LockExclusive, CopyOut, MarkComplete, Goto
<1>b. EntryInv(ver[p]) /\ cache[ver[p]] \in SUBSET Pieces
  BY <1>0, <1>a DEF CacheParts, TypeOK
<1>c. ~Complete(cache[ver[p]]) => "marker" \notin cache[ver[p]]
  BY <1>b DEF EntryInv, Complete, Whole
<1>d. ASSUME NEW q \in Procs \ {p}, pc[q] = "copy_out", ver[q] = ver[p]
      PROVE  Holders(ver[p], {"exclusive"}) # {} /\ pc[p] # "copy_out"
  BY <1>d DEF LockInv, LockProtocol, Holders
<1>e. \A q \in Procs \ {p} : /\ pc'[q] = pc[q] /\ ver'[q] = ver[q] /\ left'[q] = left[q]
  BY <1>0 DEF TypeOK, LockExclusive, CopyOut, MarkComplete, Goto, Passed
<1>1. CASE LockExclusive(p) /\ pc'[p] = "up"
  <2>1. /\ cache' = cache /\ plan' = plan /\ ver' = ver /\ left' = left /\ install' = install
        /\ \A q \in Procs : pc'[q] \in {"copy_in", "copy_out"} => pc[q] = pc'[q]
    BY <1>0, <1>1 DEF TypeOK, LockExclusive, Goto
  <2>2. QED
    BY <2>1, InstallsKeepParts
<1>2. CASE LockExclusive(p) /\ pc'[p] # "up"
  <2>1. /\ ~Complete(cache[ver[p]]) /\ "dir" \in Installed(p, ver[p])
        /\ pc'[p] = "copy_out" /\ ver' = ver /\ plan' = plan /\ install' = install
        /\ left'[p] = Installed(p, ver[p]) \ {"dir"}
        /\ cache' = [cache EXCEPT ![ver[p]] = cache[ver[p]] \union {"dir"}]
        /\ Holders(ver[p], {"shared", "exclusive"}) = {}
    BY <1>0, <1>2 DEF TypeOK, LockExclusive, Goto
  <2>2. Installed(p, ver[p]) = Downloaded
    BY <1>0, <1>a, <1>b, <2>1 DEF EntryInv, Installed
  <2>3. cache'[ver[p]] = cache[ver[p]] \union {"dir"}
    BY <1>0, <1>a, <2>1 DEF TypeOK
  <2>4. CopyInv(p)'
    BY <1>c, <2>1, <2>2, <2>3 DEF CopyInv, Complete, Installed, Downloaded, Pieces
  <2>5. \A q \in Procs \ {p} : pc[q] = "copy_out" => ver[q] # ver[p]
    BY <1>d, <2>1 DEF Holders
  <2>6. "marker" \notin cache[ver[p]] \union {"dir"}
    BY <1>c, <2>1
  <2>7. QED
    BY <1>a, <1>e, <2>1, <2>4, <2>5, <2>6, EntryKeepsParts
<1>3. CASE CopyOut(p)
  <2>1. /\ pc[p] = "copy_out" /\ pc' = pc /\ ver' = ver /\ plan' = plan /\ install' = install
        /\ ~Complete(cache[ver[p]]) /\ Installed(p, ver[p]) = Downloaded
        /\ Downloaded \subseteq cache[ver[p]] \union left[p]
        /\ "marker" \notin left[p] /\ ("bin" \in left[p] => "files" \in left[p])
    BY <1>0, <1>3 DEF CopyOut, CopyInv
  <2>2. PICK f \in left[p] :
          /\ MayCopy(p, f, Installed(p, ver[p]), cache[ver[p]])
          /\ cache' = [cache EXCEPT ![ver[p]] = Copied(f, Installed(p, ver[p]), cache[ver[p]])]
          /\ Passed(p, f)
    BY <1>3 DEF CopyOut
  <2>3. f \in Downloaded /\ left'[p] = left[p] \ {f}
    BY <1>0, <2>1, <2>2 DEF TypeOK, Passed, Downloaded
  <2>4. cache'[ver[p]] = IF f = "bin" THEN (cache[ver[p]] \union {f}) \ {"files"}
                         ELSE cache[ver[p]] \union {f}
    BY <1>0, <1>a, <2>1, <2>2, <2>3 DEF TypeOK, Copied
  <2>5. "marker" \notin cache'[ver[p]]
    BY <1>c, <2>1, <2>3, <2>4 DEF Downloaded
  <2>6. Downloaded \subseteq cache'[ver[p]] \union left'[p]
    BY <2>1, <2>3, <2>4
  <2>7. "bin" \in left'[p] => "files" \in left'[p]
    BY <2>1, <2>2, <2>3 DEF MayCopy
  <2>8. CopyInv(p)'
    BY <2>1, <2>3, <2>5, <2>6, <2>7 DEF CopyInv, Complete, Installed
  <2>9. \A q \in Procs \ {p} : pc[q] = "copy_out" => ver[q] # ver[p]
    BY <1>d, <2>1
  <2>10. QED
    BY <1>0, <1>a, <1>e, <2>1, <2>2, <2>5, <2>8, <2>9, EntryKeepsParts DEF TypeOK
<1>4. CASE MarkComplete(p)
  <2>1. /\ pc[p] = "copy_out" /\ pc'[p] = "up" /\ plan' = plan /\ install' = install
        /\ ~Complete(cache[ver[p]]) /\ left[p] = {}
        /\ Downloaded \subseteq cache[ver[p]] \union left[p]
    BY <1>0, <1>4 DEF TypeOK, MarkComplete, Goto, CopyInv
  <2>2. Downloaded \subseteq cache[ver[p]]
    BY <2>1
  <2>3. cache' = [cache EXCEPT ![ver[p]] = cache[ver[p]] \union {"marker"}]
    BY <1>4, <2>2 DEF MarkComplete, Downloaded, Pieces
  <2>4. Whole(cache[ver[p]] \union {"marker"})
    BY <2>2 DEF Whole, Downloaded, Pieces
  <2>5. CopyInv(p)'
    BY <2>1 DEF CopyInv
  <2>6. \A q \in Procs \ {p} : pc[q] = "copy_out" => ver[q] # ver[p]
    BY <1>d, <2>1
  <2>7. QED
    BY <1>a, <1>e, <2>1, <2>3, <2>4, <2>5, <2>6, EntryKeepsParts
<1>5. QED
  BY <1>1, <1>2, <1>3, <1>4

\* All other steps leave entries, installations and copies alone.
LEMMA OthersKeepParts ==
  ASSUME LockInv, CacheParts, Undisturbed', [Next]_vars,
         ~\E p \in Procs : \/ LockShared(p) \/ CopyIn(p) \/ SetupDownloads(p)
                           \/ LockExclusive(p) \/ CopyOut(p) \/ MarkComplete(p)
  PROVE  CacheParts'
<1>0. TypeOK
  BY DEF LockInv
<1>1. ASSUME NEW p \in Procs,
             \/ Lookup(p) \/ LockSharedFails(p) \/ CopyInDone(p) \/ CopyInFails(p)
             \/ SetupInstalled(p) \/ SetupFails(p) \/ Start(p) \/ StartFails(p)
             \/ CheckCached(p) \/ LockExclusiveFails(p) \/ CopyOutFails(p)
             \/ Close(p) \/ Removed(p) \/ Crash(p)
      PROVE  /\ cache' = cache /\ plan' = plan /\ install' = install /\ left' = left
             /\ \A q \in Procs : pc'[q] \in {"copy_in", "copy_out"} =>
                  pc[q] = pc'[q] /\ ver'[q] = ver[q]
  BY <1>0, <1>1, ZenonT(40)
  DEF TypeOK, Goto, trees, Lookup, LockSharedFails, CopyInDone, CopyInFails, SetupInstalled,
      SetUpWith, SetupFails, Start, StartFails, CheckCached, LockExclusiveFails,
      CopyOutFails, Close, Removed, Crash
<1>2. ASSUME NEW p \in Procs, RemovePiece(p)
      PROVE  FALSE
  BY <1>2 DEF RemovePiece, Undisturbed
<1>3. ASSUME NEW v \in Versions, Purge(v)
      PROVE  FALSE
  BY <1>0, <1>3, FaultType DEF Purge, Undisturbed
<1>4. CASE UNCHANGED vars
  BY <1>4, InstallsKeepParts DEF vars, trees
<1>5. CASE \E p \in Procs : Step(p) \/ Crash(p)
  BY <1>1, <1>2, <1>5, InstallsKeepParts DEF Step
<1>6. QED
  BY <1>3, <1>4, <1>5 DEF Next

\* What went wrong is not forgotten.
LEMMA BlameGrows ==
  ASSUME LockInv, [Next]_vars
  PROVE  blame \subseteq blame'
<1>0. TypeOK
  BY DEF LockInv
<1>1. \A kind : Fault(kind) => blame \subseteq blame'
  BY <1>0, FaultType
<1>2. QED
  BY <1>1, ZenonT(40)
  DEF Next, Step, vars, Lookup, LockShared, LockSharedFails, CopyIn, CopyInDone,
      CopyInFails, CopyFails, SetupInstalled, SetupDownloads, SetUpWith, SetupFails, Start,
      StartFails, CheckCached, LockExclusive, LockExclusiveFails, CopyOut, CopyOutFails,
      MarkComplete, Close, RemovePiece, Removed, Crash, Purge

LEMMA CacheInductive == LockInv /\ CacheInv /\ [Next]_vars => CacheInv'
<1>. SUFFICES ASSUME LockInv, CacheInv, [Next]_vars, Undisturbed'
              PROVE  CacheParts'
  BY DEF CacheInv, CacheParts
<1>1. Undisturbed
  BY BlameGrows DEF Undisturbed
<1>2. CacheParts
  BY <1>1 DEF CacheInv, CacheParts
<1>3. QED
  BY <1>2, CopyInKeepsParts, DownloadKeepsParts, CopyOutKeepsParts, OthersKeepParts

LEMMA CacheInvHolds == Spec => []CacheInv
<1>1. Init => CacheInv
  <2>. SUFFICES ASSUME Init PROVE CacheInv
    OBVIOUS
  <2>1. \A v \in Versions : cache[v] \in {{}, Pieces}
    BY DEF Init
  <2>2. \A v \in Versions : EntryInv(v)
    BY <2>1 DEF Init, EntryInv, Whole, Pieces
  <2>3. QED
    BY <2>2 DEF Init, CacheInv, CopyInv
<1>2. QED
  BY <1>1, LockInvHolds, CacheInductive, PTL DEF Spec

\* As long as nobody deletes an entry or an installation, an entry that lookups
\* accept is whole, however many processes fill, read and are killed at once.
THEOREM MarkerMeansWhole == Spec => []CompleteIsWhole
<1>1. CacheInv => CompleteIsWhole
  BY DEF CacheInv, CompleteIsWhole, EntryInv, Undisturbed, Complete
<1>2. QED
  BY <1>1, CacheInvHolds, PTL

-----------------------------------------------------------------------------
(* The entries are an EntryCache.                                          *)

\* Taking or releasing a lock changes the holders of one entry by one process.
LEMMA HoldersChange ==
  ASSUME LockInv, NEW p \in Procs, NEW mode \in {"none", "shared", "exclusive"},
         holds' = [holds EXCEPT ![p] = mode], ver' = ver, NEW m
  PROVE  \A v : Holders(v, {m})' =
           IF v # ver[p] THEN Holders(v, {m})
           ELSE IF m = mode THEN Holders(v, {m}) \union {p} ELSE Holders(v, {m}) \ {p}
  BY DEF LockInv, TypeOK, Holders

\* Nothing happens to the entries when no lock changes hands and entries change
\* under an exclusive lock only.
LEMMA EntriesStutter ==
  ASSUME LockInv, holds' = holds,
         \A q \in Procs : holds[q] = "none" \/ ver[q] = ver'[q],
         \A v \in Versions : cache'[v] = cache[v] \/ Holders(v, {"exclusive"}) # {}
  PROVE  UNCHANGED Entries!vars
<1>1. \A v : /\ Holders(v, {"shared"})' = Holders(v, {"shared"})
             /\ Holders(v, {"exclusive"})' = Holders(v, {"exclusive"})
  BY DEF Holders
<1>2. \A v \in Versions :
        (Complete(cache'[v]) /\ Holders(v, {"exclusive"}) = {}) =
          (Complete(cache[v]) /\ Holders(v, {"exclusive"}) = {})
  BY DEF Complete
<1>3. QED
  BY <1>1, <1>2 DEF Entries!vars, Complete

\* A shared lock is given back.
LEMMA ReleaseShared ==
  ASSUME LockInv, NEW p \in Procs, holds[p] = "shared", Release(p), ver' = ver, cache' = cache
  PROVE  [Entries!Next]_Entries!vars
<1>0. ver[p] \in Versions /\ p \in Holders(ver[p], {"shared"})
      /\ p \notin Holders(ver[p], {"exclusive"})
  BY DEF LockInv, LockProtocol, Holders
<1>1. /\ \A v : Holders(v, {"shared"})' = IF v # ver[p] THEN Holders(v, {"shared"})
                                         ELSE Holders(v, {"shared"}) \ {p}
      /\ \A v : Holders(v, {"exclusive"})' = Holders(v, {"exclusive"})
  <2>1. \A v : /\ Holders(v, {"shared"})' = IF v # ver[p] THEN Holders(v, {"shared"})
                                           ELSE Holders(v, {"shared"}) \ {p}
               /\ Holders(v, {"exclusive"})' = IF v # ver[p] THEN Holders(v, {"exclusive"})
                                              ELSE Holders(v, {"exclusive"}) \ {p}
    BY HoldersChange DEF Release
  <2>2. QED
    BY <1>0, <2>1
<1>2. Entries!EndRead(p, ver[p])
  BY <1>0, <1>1 DEF Entries!EndRead, Complete
<1>3. QED
  BY <1>0, <1>2 DEF Entries!Next

\* An exclusive lock is given back, whatever was done to the entry.
LEMMA ReleaseExclusive ==
  ASSUME LockInv, NEW p \in Procs, holds[p] = "exclusive", Release(p), ver' = ver,
         \A v \in Versions : v # ver[p] => cache'[v] = cache[v]
  PROVE  [Entries!Next]_Entries!vars
<1>0. ver[p] \in Versions /\ Holders(ver[p], {"exclusive"}) = {p}
      /\ p \notin Holders(ver[p], {"shared"})
  BY DEF LockInv, LockProtocol, Holders
<1>1. /\ \A v : Holders(v, {"exclusive"})' = IF v # ver[p] THEN Holders(v, {"exclusive"})
                                            ELSE {}
      /\ \A v : Holders(v, {"shared"})' = Holders(v, {"shared"})
  <2>1. \A v : /\ Holders(v, {"shared"})' = IF v # ver[p] THEN Holders(v, {"shared"})
                                           ELSE Holders(v, {"shared"}) \ {p}
               /\ Holders(v, {"exclusive"})' = IF v # ver[p] THEN Holders(v, {"exclusive"})
                                              ELSE Holders(v, {"exclusive"}) \ {p}
    BY HoldersChange DEF Release
  <2>2. Holders(ver[p], {"exclusive"}) \ {p} = {}
    BY <1>0
  <2>3. \A v : Holders(v, {"exclusive"})' = IF v # ver[p] THEN Holders(v, {"exclusive"}) ELSE {}
    BY <2>1, <2>2
  <2>4. Holders(ver[p], {"shared"}) \ {p} = Holders(ver[p], {"shared"})
    BY <1>0
  <2>5. \A v : Holders(v, {"shared"})' = Holders(v, {"shared"})
    BY <2>1, <2>4
  <2>6. QED
    BY <2>3, <2>5
<1>2. Entries!EndWrite(p, ver[p])
  <2>1. CASE Complete(cache'[ver[p]])
    BY <1>0, <1>1, <2>1 DEF Entries!EndWrite, Complete
  <2>2. CASE ~Complete(cache'[ver[p]])
    BY <1>0, <1>1, <2>2 DEF Entries!EndWrite, Complete
  <2>3. QED
    BY <2>1, <2>2
<1>3. QED
  BY <1>0, <1>2 DEF Entries!Next

\* A lock is taken.
LEMMA TakeLock ==
  ASSUME LockInv, NEW p \in Procs, LockShared(p) \/ LockExclusive(p)
  PROVE  [Entries!Next]_Entries!vars
<1>0. ver[p] \in Versions /\ holds[p] = "none" /\ TypeOK
  BY DEF LockInv, LockProtocol, TypeOK, LockShared, LockExclusive
<1>1. CASE holds' = holds
  BY <1>0, <1>1, EntriesStutter DEF LockShared, LockExclusive, Take, TypeOK
<1>2. CASE LockShared(p) /\ Take(p, "shared")
  <2>1. /\ \A v : Holders(v, {"shared"})' = IF v # ver[p] THEN Holders(v, {"shared"})
                                           ELSE Holders(v, {"shared"}) \union {p}
        /\ \A v : Holders(v, {"exclusive"})' = IF v # ver[p] THEN Holders(v, {"exclusive"})
                                              ELSE Holders(v, {"exclusive"}) \ {p}
    BY <1>2, HoldersChange DEF LockShared, Take
  <2>2. /\ Holders(ver[p], {"exclusive"}) = {} /\ Complete(cache[ver[p]]) /\ cache' = cache
    BY <1>0, <1>2 DEF LockShared, TypeOK, Take
  <2>3. \A v : Holders(v, {"exclusive"})' = Holders(v, {"exclusive"})
    BY <2>1, <2>2
  <2>4. Entries!BeginRead(p, ver[p])
    BY <1>0, <2>1, <2>2, <2>3 DEF Entries!BeginRead, Complete
  <2>5. QED
    BY <1>0, <2>4 DEF Entries!Next
<1>3. CASE LockExclusive(p) /\ Take(p, "exclusive")
  <2>1. /\ \A v : Holders(v, {"exclusive"})' = IF v # ver[p] THEN Holders(v, {"exclusive"})
                                              ELSE Holders(v, {"exclusive"}) \union {p}
        /\ \A v : Holders(v, {"shared"})' = IF v # ver[p] THEN Holders(v, {"shared"})
                                           ELSE Holders(v, {"shared"}) \ {p}
    BY <1>3, HoldersChange DEF LockExclusive, Take
  <2>2. /\ Holders(ver[p], {"exclusive"}) = {} /\ Holders(ver[p], {"shared"}) = {}
        /\ ~Complete(cache[ver[p]])
        /\ \A v \in Versions : v # ver[p] => cache'[v] = cache[v]
    BY <1>0, <1>3 DEF LockExclusive, TypeOK, Take, Holders
  <2>3. \A v : Holders(v, {"shared"})' = Holders(v, {"shared"})
    BY <2>1, <2>2
  <2>4. Entries!BeginWrite(p, ver[p])
    BY <1>0, <2>1, <2>2, <2>3 DEF Entries!BeginWrite, Complete
  <2>5. QED
    BY <1>0, <2>4 DEF Entries!Next
<1>4. QED
  BY <1>1, <1>2, <1>3 DEF LockShared, LockExclusive

\* A user deletes an entry.
LEMMA PurgeDeletes ==
  ASSUME LockInv, NEW v \in Versions, Purge(v)
  PROVE  [Entries!Next]_Entries!vars
<1>1. /\ \A w : /\ Holders(w, {"shared"})' = Holders(w, {"shared"})
                /\ Holders(w, {"exclusive"})' = Holders(w, {"exclusive"})
  BY DEF Purge, Holders
<1>2. \A w \in Versions : cache'[w] = IF w = v THEN {} ELSE cache[w]
  BY DEF LockInv, TypeOK, Purge
<1>3. Entries!Delete(v)
  BY <1>1, <1>2 DEF Entries!Delete, Complete
<1>4. QED
  BY <1>3 DEF Entries!Next

\* Whatever the processes do, the entries are used as the abstract cache allows:
\* read while published, filled alone and unread, published by their writer.
THEOREM CacheRefines == Spec => ImplementsEntryCache
<1>1. Init => Entries!Init
  <2>. SUFFICES ASSUME Init PROVE Entries!Init
    OBVIOUS
  <2>1. \A v : Holders(v, {"shared"}) = {} /\ Holders(v, {"exclusive"}) = {}
    BY DEF Init, Holders
  <2>2. QED
    BY <2>1 DEF Entries!Init
<1>2. LockInv /\ [Next]_vars => [Entries!Next]_Entries!vars
  <2>. SUFFICES ASSUME LockInv, [Next]_vars
                PROVE  [Entries!Next]_Entries!vars
    OBVIOUS
  <2>0. TypeOK /\ \A p \in Procs : LockProtocol(p)
    BY DEF LockInv
  <2>1. ASSUME NEW p \in Procs, LockShared(p) \/ LockExclusive(p)
        PROVE  [Entries!Next]_Entries!vars
    BY <2>1, TakeLock
  <2>2. ASSUME NEW p \in Procs, CopyInDone(p) \/ CopyInFails(p)
        PROVE  [Entries!Next]_Entries!vars
    BY <2>0, <2>2, ReleaseShared DEF CopyInDone, CopyInFails, LockProtocol, Goto, trees
  <2>3. ASSUME NEW p \in Procs, CopyOutFails(p) \/ MarkComplete(p)
        PROVE  [Entries!Next]_Entries!vars
    <3>1. \A v \in Versions : v # ver[p] => cache'[v] = cache[v]
      BY <2>0, <2>3 DEF TypeOK, CopyOutFails, MarkComplete, trees
    <3>2. QED
      BY <2>0, <2>3, <3>1, ReleaseExclusive DEF CopyOutFails, MarkComplete, LockProtocol, Goto
  <2>4. ASSUME NEW p \in Procs, Crash(p)
        PROVE  [Entries!Next]_Entries!vars
    <3>1. /\ Release(p) /\ ver' = ver /\ cache' = cache
          /\ holds[p] \in {"none", "shared", "exclusive"}
      BY <2>0, <2>4 DEF Crash, TypeOK, trees
    <3>2. CASE holds[p] = "none"
      <4>1. holds' = holds
        BY <2>0, <3>1, <3>2 DEF Release, TypeOK
      <4>2. QED
        BY <3>1, <4>1, EntriesStutter
    <3>3. QED
      BY <3>1, <3>2, ReleaseShared, ReleaseExclusive
  <2>5. ASSUME NEW p \in Procs, CopyOut(p)
        PROVE  [Entries!Next]_Entries!vars
    <3>1. \A v \in Versions : cache'[v] = cache[v] \/ Holders(v, {"exclusive"}) # {}
      BY <2>0, <2>5 DEF CopyOut, LockProtocol, TypeOK, Holders
    <3>2. QED
      BY <2>5, <3>1, EntriesStutter DEF CopyOut
  <2>6. ASSUME NEW p \in Procs,
               \/ Lookup(p) \/ LockSharedFails(p) \/ CopyIn(p)
               \/ SetupInstalled(p) \/ SetupDownloads(p) \/ SetupFails(p)
               \/ Start(p) \/ StartFails(p)
               \/ CheckCached(p) \/ LockExclusiveFails(p)
               \/ Close(p) \/ RemovePiece(p) \/ Removed(p)
        PROVE  [Entries!Next]_Entries!vars
    <3>1. holds' = holds /\ cache' = cache
      BY <2>6
      DEF Lookup, LockSharedFails, CopyIn, SetupInstalled, SetupDownloads, SetUpWith,
          SetupFails, Start, StartFails, CheckCached, LockExclusiveFails, Close,
          RemovePiece, Removed, trees
    <3>2. \A q \in Procs : holds[q] = "none" \/ ver[q] = ver'[q]
      BY <2>0, <2>6
      DEF TypeOK, LockProtocol, Goto, Lookup, LockSharedFails, CopyIn, SetupInstalled,
          SetupDownloads, SetUpWith, SetupFails, Start, StartFails, CheckCached,
          LockExclusiveFails, Close, RemovePiece, Removed
    <3>3. QED
      BY <3>1, <3>2, EntriesStutter
  <2>7. CASE \E v \in Versions : Purge(v)
    BY <2>7, PurgeDeletes
  <2>8. CASE UNCHANGED vars
    BY <2>8, EntriesStutter DEF vars, trees
  <2>9. QED
    BY <2>1, <2>2, <2>3, <2>4, <2>5, <2>6, <2>7, <2>8 DEF Next, Step
<1>3. QED
  BY <1>1, <1>2, LockInvHolds, PTL DEF Spec, ImplementsEntryCache, Entries!Spec

-----------------------------------------------------------------------------
(* What servers run from.                                                  *)

\* A set of versions that is not empty has a highest one.
LEMMA HighestExists ==
  ASSUME NEW vs \in SUBSET Versions, vs # {}
  PROVE  Highest(vs) \in Versions
<1>1. \E v \in vs : \A w \in vs : w <= v
  BY CacheAssumption
<1>2. QED
  BY <1>1 DEF Highest

\* A setup from a tree with programs leaves a version directory in the settings.
LEMMA SetUpFindsDir ==
  ASSUME LockInv, NEW p \in Procs, ServingProtocol(p), NEW v \in Versions, NEW tree,
         "bin" \in tree[v], SetUpWith(p, v, tree)
  PROVE  /\ conf'[p].trusted = conf[p].trusted
         /\ conf'[p].trusted \/ pc'[p] = "start" => conf'[p].dir \in Versions
         /\ pc'[p] \in {"start", "check"} /\ pc[p] = "setup"
<1>0. TypeOK /\ NoVersion \notin Versions
  BY CacheAssumption DEF LockInv, NoVersion
<1>1. conf[p].dir \in Versions \union {NoVersion}
  BY <1>0 DEF TypeOK
<1>2. CASE conf[p].dir \in Versions
  <2>1. Resolve(p, tree) \in Versions \union {NoVersion}
    BY <1>0, DirType
  <2>2. PICK dir \in Versions : conf' = [conf EXCEPT ![p].dir = dir]
    BY <1>2, <2>1 DEF SetUpWith
  <2>3. conf'[p].dir \in Versions /\ conf'[p].trusted = conf[p].trusted
    BY <1>0, <2>2 DEF TypeOK
  <2>4. QED
    BY <1>0, <2>3 DEF SetUpWith, Goto, TypeOK
<1>3. CASE conf[p].dir = NoVersion
  <2>1. ~conf[p].trusted
    BY <1>0, <1>3 DEF ServingProtocol
  <2>2. {w \in Versions : "bin" \in tree[w]} \in SUBSET Versions
        /\ v \in {w \in Versions : "bin" \in tree[w]}
    OBVIOUS
  <2>3. Highest({w \in Versions : "bin" \in tree[w]}) \in Versions
    BY <2>2, HighestExists
  <2>4. Resolve(p, tree) \in Versions
    BY <1>3, <2>1, <2>3 DEF Resolve
  <2>5. PICK dir : conf' = [conf EXCEPT ![p].dir = dir]
                   /\ (plan[p].root \/ plan[p].kind = "cluster" => dir \in Versions)
    BY <1>0, <2>4 DEF SetUpWith
  <2>6. conf'[p].dir = dir /\ conf'[p].trusted = conf[p].trusted
    BY <1>0, <2>5 DEF TypeOK
  <2>7. QED
    BY <1>0, <2>1, <2>5, <2>6 DEF SetUpWith, Goto, TypeOK
<1>4. QED
  BY <1>1, <1>2, <1>3

\* A process that starts a server has a version directory.
LEMMA ServingInductive ==
  ASSUME LockInv, [Next]_vars, \A p \in Procs : ServingProtocol(p)
  PROVE  \A p \in Procs : ServingProtocol(p)'
<1>0. TypeOK /\ \A p \in Procs : LockProtocol(p)
  BY DEF LockInv
<1>1. ASSUME NEW p \in Procs, SetupInstalled(p) \/ SetupDownloads(p), NEW q \in Procs
      PROVE  ServingProtocol(q)'
  <2>1. PICK v, tree : v \in Versions /\ "bin" \in tree[v] /\ SetUpWith(p, v, tree)
    <3>1. CASE SetupInstalled(p)
      BY <1>0, <3>1, DirType DEF SetupInstalled, Whole, Installed
    <3>2. CASE SetupDownloads(p)
      <4>1. plan[p].req \in SUBSET Versions /\ plan[p].req # {} /\ plan[p].home \in Homes
        BY <1>0, PlanParts, CacheAssumption DEF TypeOK
      <4>2. Highest(plan[p].req) \in Versions
        BY <4>1, HighestExists
      <4>3. install'[plan[p].home][Highest(plan[p].req)] = Pieces \ {"marker"}
        BY <1>0, <3>2, <4>1, <4>2 DEF SetupDownloads, SetInstalled, TypeOK
      <4>4. QED
        BY <3>2, <4>2, <4>3 DEF SetupDownloads, Pieces
    <3>3. QED
      BY <1>1, <3>1, <3>2
  <2>2. CASE q = p
    BY <1>1, <2>1, <2>2, SetUpFindsDir DEF ServingProtocol, SetUpWith
  <2>3. CASE q # p
    <3>1. conf'[q] = conf[q] /\ pc'[q] = pc[q] /\ serving'[q] = serving[q]
      BY <1>0, <2>1, <2>3 DEF TypeOK, SetUpWith, Goto
    <3>2. QED
      BY <3>1 DEF ServingProtocol
  <2>4. QED
    BY <2>2, <2>3
<1>2. ASSUME NEW p \in Procs, CopyInDone(p), NEW q \in Procs
      PROVE  ServingProtocol(q)'
  BY <1>0, <1>2 DEF TypeOK, LockProtocol, CopyInDone, Goto, ServingProtocol
<1>3. ASSUME NEW p \in Procs, Start(p) \/ Close(p), NEW q \in Procs
      PROVE  ServingProtocol(q)'
  BY <1>0, <1>3 DEF TypeOK, Start, Close, Goto, ServingProtocol
<1>4. ASSUME NEW p \in Procs, NEW q \in Procs,
             \/ Lookup(p) \/ LockShared(p) \/ LockSharedFails(p)
             \/ CopyIn(p) \/ CopyInFails(p) \/ SetupFails(p) \/ StartFails(p)
             \/ CheckCached(p) \/ LockExclusive(p) \/ LockExclusiveFails(p)
             \/ CopyOut(p) \/ CopyOutFails(p) \/ MarkComplete(p)
             \/ RemovePiece(p) \/ Removed(p) \/ Crash(p)
      PROVE  ServingProtocol(q)'
  <2>1. conf' = conf /\ serving' = serving
    BY <1>4
    DEF Lookup, LockShared, LockSharedFails, CopyIn, CopyInFails, SetupFails, StartFails,
        CheckCached, LockExclusive, LockExclusiveFails, CopyOut, CopyOutFails, MarkComplete,
        RemovePiece, Removed, Crash
  <2>2. /\ pc'[q] = "start" => pc[q] = "start"
        /\ pc[q] \in {"check", "lock_exclusive", "copy_out", "up", "dead"} =>
             pc'[q] \in {"check", "lock_exclusive", "copy_out", "up", "dead"}
    BY <1>0, <1>4
    DEF TypeOK, Goto, Lookup, LockShared, LockSharedFails, CopyIn, CopyInFails, SetupFails,
        StartFails, CheckCached, LockExclusive, LockExclusiveFails, CopyOut, CopyOutFails,
        MarkComplete, RemovePiece, Removed, Crash
  <2>3. QED
    BY <2>1, <2>2 DEF ServingProtocol
<1>5. CASE UNCHANGED <<pc, conf, serving>>
  BY <1>5 DEF ServingProtocol
<1>6. QED
  BY <1>1, <1>2, <1>3, <1>4, <1>5 DEF Next, Step, Purge, vars

\* An entry stays as it is while it is copied in.
LEMMA ReaderInductive == LockInv /\ CacheInv /\ ReaderInv /\ [Next]_vars => ReaderInv'
<1>. SUFFICES ASSUME LockInv, CacheInv, ReaderInv, [Next]_vars, Undisturbed',
                     NEW q \in Procs, pc'[q] = "copy_in"
              PROVE  /\ left'[q] \subseteq cache'[ver'[q]]
                     /\ "bin" \in left'[q] => "files" \in left'[q]
  BY DEF ReaderInv
<1>0. TypeOK /\ Undisturbed
  BY BlameGrows DEF LockInv, Undisturbed
<1>1. CASE pc[q] # "copy_in"
  <2>1. LockShared(q)
    <3>1. Step(q)
      BY <1>0, <1>1, LockStep DEF TypeOK, Next, vars, Purge, Crash
    <3>2. QED
      BY <1>0, <1>1, <3>1
      DEF TypeOK, Goto, Step, Lookup, LockSharedFails, CopyIn, CopyInDone, CopyInFails,
          SetupInstalled, SetupDownloads, SetUpWith, SetupFails, Start, StartFails,
          CheckCached, LockExclusive, LockExclusiveFails, CopyOut, CopyOutFails,
          MarkComplete, Close, RemovePiece, Removed
  <2>2. /\ ver[q] \in Versions /\ Complete(cache[ver[q]]) /\ cache' = cache
        /\ ver' = ver /\ left'[q] = cache[ver[q]] \ {"dir"}
    BY <1>0, <1>1, <2>1 DEF TypeOK, LockInv, LockProtocol, LockShared, Goto
  <2>3. Whole(cache[ver[q]])
    BY <1>0, <2>2 DEF CacheInv, EntryInv, Complete
  <2>4. QED
    BY <2>2, <2>3 DEF Whole
<1>2. CASE pc[q] = "copy_in"
  <2>1. ver[q] \in Versions /\ holds[q] = "shared"
    BY <1>2 DEF LockInv, LockProtocol
  <2>2. cache'[ver[q]] = cache[ver[q]]
    <3>1. ~\E p \in Procs : ver[p] = ver[q] /\ holds[p] = "exclusive"
      BY <2>1 DEF LockInv
    <3>2. Holders(ver[q], {"shared", "exclusive"}) # {}
      BY <2>1 DEF Holders
    <3>3. "purge" \notin blame'
      BY DEF Undisturbed
    <3>4. QED
      BY <2>1, <3>1, <3>2, <3>3, EntryChanges
  <2>3. left[q] \subseteq cache[ver[q]] /\ ("bin" \in left[q] => "files" \in left[q])
    BY <1>0, <1>2 DEF ReaderInv
  <2>4. CASE CopyIn(q)
    <3>1. PICK f \in left[q] : /\ MayCopy(q, f, cache[ver[q]], Installed(q, ver[q]))
                               /\ Passed(q, f)
      BY <2>4 DEF CopyIn
    <3>2. left'[q] = left[q] \ {f} /\ ver' = ver
      BY <1>0, <2>4, <3>1 DEF TypeOK, Passed, CopyIn
    <3>3. QED
      BY <2>2, <2>3, <3>1, <3>2 DEF MayCopy
  <2>5. CASE ~CopyIn(q)
    <3>1. ASSUME NEW p \in Procs, Step(p) \/ Crash(p), p # q
          PROVE  ver'[q] = ver[q] /\ left'[q] = left[q]
      <4>1. ver'[q] = ver[q]
        BY <3>1, LockStep
      <4>2. left'[q] = left[q]
        BY <1>0, <3>1
        DEF TypeOK, Passed, Step, Lookup, LockShared, LockSharedFails, CopyIn, CopyInDone,
            CopyInFails, SetupInstalled, SetupDownloads, SetUpWith, SetupFails, Start,
            StartFails, CheckCached, LockExclusive, LockExclusiveFails, CopyOut,
            CopyOutFails, MarkComplete, Close, RemovePiece, Removed, Crash
      <4>3. QED
        BY <4>1, <4>2
    <3>2. ~Step(q) /\ ~Crash(q)
      BY <1>0, <1>2, <2>5
      DEF TypeOK, Goto, Step, Lookup, LockShared, LockSharedFails, CopyInDone, CopyInFails,
          SetupInstalled, SetupDownloads, SetUpWith, SetupFails, Start, StartFails,
          CheckCached, LockExclusive, LockExclusiveFails, CopyOut, CopyOutFails,
          MarkComplete, Close, RemovePiece, Removed, Crash
    <3>3. ver'[q] = ver[q] /\ left'[q] = left[q]
      BY <3>1, <3>2 DEF Next, vars, Purge
    <3>4. QED
      BY <2>2, <2>3, <3>3
  <2>6. QED
    BY <2>4, <2>5
<1>3. QED
  BY <1>1, <1>2

\* A step of one process leaves the copy of another alone.
LEMMA OtherCopies ==
  ASSUME LockInv, NEW p \in Procs, Step(p) \/ Crash(p), NEW q \in Procs, q # p
  PROVE  pc'[q] = pc[q] /\ ver'[q] = ver[q] /\ left'[q] = left[q]
<1>0. TypeOK
  BY DEF LockInv
<1>1. pc'[q] = pc[q] /\ ver'[q] = ver[q]
  BY LockStep
<1>2. left'[q] = left[q]
  BY <1>0
  DEF TypeOK, Passed, Step, Lookup, LockShared, LockSharedFails, CopyIn, CopyInDone,
      CopyInFails, SetupInstalled, SetupDownloads, SetUpWith, SetupFails, Start,
      StartFails, CheckCached, LockExclusive, LockExclusiveFails, CopyOut,
      CopyOutFails, MarkComplete, Close, RemovePiece, Removed, Crash
<1>3. QED
  BY <1>1, <1>2

\* Nobody changes what kind of run it is.
LEMMA PlansStay == [Next]_vars => plan' = plan
  BY ZenonT(40)
  DEF Next, vars, Step, Lookup, LockShared, LockSharedFails, CopyIn, CopyInDone,
      CopyInFails, SetupInstalled, SetupDownloads, SetUpWith, SetupFails, Start,
      StartFails, CheckCached, LockExclusive, LockExclusiveFails, CopyOut,
      CopyOutFails, MarkComplete, Close, RemovePiece, Removed, Crash, Purge

\* What every tree keeps as long as nothing is removed.
Lasting == {"dir", "bin", "links"}

\* A step of a process that removes nothing takes at most the regular files from
\* a tree, and then it has begun to rewrite them.
LEMMA TreeKept ==
  ASSUME LockInv, ReaderInv, Undisturbed', [Next]_vars, NEW h \in Homes, NEW v \in Versions
  PROVE  /\ Lasting \intersect install[h][v] \subseteq install'[h][v]
         /\ "files" \in install[h][v] =>
              \/ "files" \in install'[h][v]
              \/ \E q \in Procs : RewrittenBy(q, h, v)'
<1>0. TypeOK /\ Undisturbed /\ plan' = plan
  BY BlameGrows, PlansStay DEF LockInv, Undisturbed
<1>1. CASE install' = install
  BY <1>1
<1>2. ASSUME NEW p \in Procs, CopyIn(p)
      PROVE  /\ Lasting \intersect install[h][v] \subseteq install'[h][v]
             /\ "files" \in install[h][v] =>
                  \/ "files" \in install'[h][v]
                  \/ RewrittenBy(p, h, v)'
  <2>1. PICK f \in left[p] :
          /\ SetInstalled(p, ver[p], Copied(f, cache[ver[p]], Installed(p, ver[p])))
          /\ Passed(p, f)
    BY <1>2 DEF CopyIn
  <2>2. /\ ver[p] \in Versions /\ pc[p] = "copy_in" /\ pc' = pc /\ ver' = ver
        /\ left'[p] = left[p] \ {f}
        /\ "bin" \in left[p] => "files" \in left[p]
    BY <1>0, <1>2, <2>1 DEF CopyIn, Passed, LockInv, LockProtocol, ReaderInv, TypeOK
  <2>3. install'[h][v] = IF h = plan[p].home /\ v = ver[p]
                         THEN Copied(f, cache[ver[p]], Installed(p, ver[p]))
                         ELSE install[h][v]
    <3>1. f \in Pieces /\ Installed(p, ver[p]) \in SUBSET Pieces
      BY <1>0, <2>2, PlanParts DEF TypeOK, Installed
    <3>2. Copied(f, cache[ver[p]], Installed(p, ver[p])) \in SUBSET Pieces
      BY <3>1, CopiedType
    <3>3. QED
      BY <1>0, <2>1, <3>2, InstallType
  <2>4. CASE h = plan[p].home /\ v = ver[p]
    BY <1>0, <2>2, <2>3, <2>4 DEF Copied, Installed, Lasting, RewrittenBy, Rewriting
  <2>5. QED
    BY <2>3, <2>4
<1>3. ASSUME NEW p \in Procs, LockShared(p)
      PROVE  install[h][v] \subseteq install'[h][v]
  <2>1. CASE install' = install
    BY <2>1
  <2>2. CASE SetInstalled(p, ver[p], Installed(p, ver[p]) \union {"dir"})
    <3>1. ver[p] \in Versions => Installed(p, ver[p]) \union {"dir"} \in SUBSET Pieces
      BY <1>0, PlanParts DEF TypeOK, Installed, Pieces
    <3>2. install'[h][v] = IF h = plan[p].home /\ v = ver[p]
                           THEN Installed(p, ver[p]) \union {"dir"} ELSE install[h][v]
      BY <1>0, <2>2, <3>1, InstallType
    <3>3. QED
      BY <3>2 DEF Installed
  <2>3. QED
    BY <1>3, <2>1, <2>2 DEF LockShared
<1>4. ASSUME NEW p \in Procs, SetupDownloads(p)
      PROVE  (Lasting \union {"files"}) \intersect install[h][v] \subseteq install'[h][v]
  <2>1. install'[h][v] \in {install[h][v], Downloaded}
    <3>1. Downloaded \in SUBSET Pieces
      BY DEF Downloaded
    <3>2. SetInstalled(p, Highest(plan[p].req), Downloaded)
      BY <1>4 DEF SetupDownloads, Downloaded
    <3>3. QED
      BY <1>0, <3>1, <3>2, InstallType
  <2>2. QED
    BY <2>1 DEF Downloaded, Pieces, Lasting
<1>5. ASSUME NEW p \in Procs
      PROVE  ~RemovePiece(p)
  BY DEF RemovePiece, Undisturbed
<1>6. ASSUME NEW p \in Procs, Step(p) \/ Crash(p)
      PROVE  \/ install' = install \/ CopyIn(p) \/ LockShared(p) \/ SetupDownloads(p)
  BY <1>5, <1>6
  DEF trees, Step, Lookup, LockSharedFails, CopyInDone, CopyInFails, SetupInstalled,
      SetupFails, Start, StartFails, CheckCached, LockExclusive, LockExclusiveFails,
      CopyOut, CopyOutFails, MarkComplete, Close, Removed, Crash
<1>7. ASSUME NEW p \in Procs, Step(p) \/ Crash(p)
      PROVE  /\ Lasting \intersect install[h][v] \subseteq install'[h][v]
             /\ "files" \in install[h][v] =>
                  \/ "files" \in install'[h][v]
                  \/ \E q \in Procs : RewrittenBy(q, h, v)'
  BY <1>1, <1>2, <1>3, <1>4, <1>6, <1>7
<1>8. QED
  BY <1>1, <1>7 DEF Next, vars, trees, Purge

\* Who rewrites the files of a tree that is whole otherwise goes on until they
\* are there again.
LEMMA RewriterGoesOn ==
  ASSUME LockInv, ReaderInv, Unhurt', [Next]_vars,
         NEW h \in Homes, NEW v \in Versions, Lasting \subseteq install[h][v],
         NEW q \in Procs, RewrittenBy(q, h, v)
  PROVE  "files" \in install'[h][v] \/ RewrittenBy(q, h, v)'
<1>0. /\ TypeOK /\ Undisturbed /\ plan' = plan /\ {"crash", "copy"} \intersect blame' = {}
      /\ pc[q] = "copy_in" /\ ver[q] = v /\ plan[q].home = h /\ Rewriting(q)
  BY BlameGrows, PlansStay DEF LockInv, Undisturbed, Unhurt, RewrittenBy
<1>1. left[q] \subseteq cache[v]
  BY <1>0 DEF ReaderInv
<1>2. CASE pc'[q] = pc[q] /\ ver'[q] = ver[q] /\ left'[q] = left[q]
  BY <1>0, <1>2 DEF RewrittenBy, Rewriting
<1>3. CASE CopyIn(q)
  <2>1. PICK f \in left[q] :
          /\ MayCopy(q, f, cache[v], Installed(q, v))
          /\ SetInstalled(q, v, Copied(f, cache[v], Installed(q, v)))
    BY <1>0, <1>3 DEF CopyIn
  <2>2. f = "files" /\ f \in cache[v]
    BY <1>0, <1>1, <2>1 DEF MayCopy
  <2>3. Copied(f, cache[v], Installed(q, v)) = Installed(q, v) \union {"files"}
    BY <2>2 DEF Copied
  <2>4. Installed(q, v) \union {"files"} \in SUBSET Pieces
    BY <1>0 DEF Installed, TypeOK, Pieces
  <2>5. install'[h][v] = Installed(q, v) \union {"files"}
    BY <1>0, <2>1, <2>3, <2>4, InstallType
  <2>6. QED
    BY <2>5
<1>4. ~CopyInDone(q) /\ ~Crash(q)
  BY <1>0 DEF CopyInDone, Crash, Fault, Rewriting
<1>5. ~CopyInFails(q)
  <2>1. SUFFICES ~CopyFails(q, cache[v], Installed(q, v), InUse(plan[q].home, v))
    BY <1>0 DEF CopyInFails
  <2>2. QED
    BY <1>0, <1>1 DEF CopyFails, Fault, Rewriting, Installed, Lasting
<1>6. Step(q) => CopyIn(q)
  BY <1>0, <1>4, <1>5
  DEF TypeOK, Goto, Step, Lookup, LockShared, LockSharedFails, SetupInstalled,
      SetupDownloads, SetUpWith, SetupFails, Start, StartFails, CheckCached, LockExclusive,
      LockExclusiveFails, CopyOut, CopyOutFails, MarkComplete, Close, RemovePiece, Removed
<1>7. ASSUME NEW p \in Procs, Step(p) \/ Crash(p), p # q
      PROVE  pc'[q] = pc[q] /\ ver'[q] = ver[q] /\ left'[q] = left[q]
  BY <1>7, OtherCopies
<1>8. QED
  BY <1>2, <1>3, <1>4, <1>6, <1>7 DEF Next, vars, Purge

\* A server runs on with the installation directory it has; a new one starts from
\* a whole tree.
LEMMA ServerStep ==
  ASSUME LockInv, \A p \in Procs : ServingProtocol(p), [Next]_vars,
         NEW p \in Procs, serving'[p]
  PROVE  \/ serving[p] /\ conf'[p] = conf[p]
         \/ conf'[p] = conf[p] /\ install' = install /\ Whole(Installed(p, conf[p].dir))
<1>0. TypeOK /\ (serving[p] => pc[p] \notin {"copy_in", "setup"})
  BY DEF LockInv, ServingProtocol
<1>1. ASSUME NEW q \in Procs, SetupInstalled(q) \/ SetupDownloads(q) \/ CopyInDone(q)
      PROVE  serving[p] /\ conf'[p] = conf[p]
  <2>1. /\ serving' = serving /\ pc[q] \in {"copy_in", "setup"}
    BY <1>1 DEF SetupInstalled, SetupDownloads, CopyInDone, SetUpWith, Goto
  <2>2. p # q
    BY <1>0, <2>1
  <2>3. conf'[p] = conf[p]
    BY <1>0, <1>1, <2>2 DEF SetupInstalled, SetupDownloads, CopyInDone, SetUpWith, TypeOK
  <2>4. QED
    BY <2>1, <2>3
<1>2. ASSUME NEW q \in Procs, Close(q)
      PROVE  serving[p] /\ conf'[p] = conf[p]
  BY <1>0, <1>2 DEF Close, TypeOK
<1>3. ASSUME NEW q \in Procs, Start(q)
      PROVE  \/ serving[p] /\ conf'[p] = conf[p]
             \/ conf'[p] = conf[p] /\ install' = install /\ Whole(Installed(p, conf[p].dir))
  BY <1>0, <1>3 DEF Start, CanStart, TypeOK, trees
<1>4. ASSUME NEW q \in Procs,
             \/ Lookup(q) \/ LockShared(q) \/ LockSharedFails(q)
             \/ CopyIn(q) \/ CopyInFails(q) \/ SetupFails(q) \/ StartFails(q)
             \/ CheckCached(q) \/ LockExclusive(q) \/ LockExclusiveFails(q)
             \/ CopyOut(q) \/ CopyOutFails(q) \/ MarkComplete(q)
             \/ RemovePiece(q) \/ Removed(q) \/ Crash(q)
      PROVE  serving[p] /\ conf'[p] = conf[p]
  BY <1>4
  DEF Lookup, LockShared, LockSharedFails, CopyIn, CopyInFails, SetupFails, StartFails,
      CheckCached, LockExclusive, LockExclusiveFails, CopyOut, CopyOutFails, MarkComplete,
      RemovePiece, Removed, Crash
<1>5. QED
  BY <1>1, <1>2, <1>3, <1>4 DEF Next, Step, Purge, vars

LEMMA ServedInductive == LockInv /\ ReaderInv /\ ServedInv /\ [Next]_vars => ServedInv'
<1>. SUFFICES ASSUME LockInv, ReaderInv, ServedInv, [Next]_vars PROVE ServedInv'
  OBVIOUS
<1>0. \A p \in Procs : ServingProtocol(p)
  BY DEF ServedInv
<1>1. \A p \in Procs : ServingProtocol(p)'
  BY <1>0, ServingInductive
<1>2. ASSUME Unhurt', NEW p \in Procs, serving'[p]
      PROVE  /\ Lasting \subseteq Installed(p, conf[p].dir)'
             /\ \/ "files" \in Installed(p, conf[p].dir)'
                \/ \E q \in Procs : RewrittenBy(q, plan[p].home, conf[p].dir)'
  <2>0. /\ Unhurt /\ Undisturbed' /\ plan' = plan /\ TypeOK
        /\ plan[p].home \in Homes
    BY <1>2, BlameGrows, PlansStay, PlanParts DEF LockInv, Unhurt, Undisturbed
  <2>1. CASE serving[p] /\ conf'[p] = conf[p]
    <3>0. conf[p].dir \in Versions
      BY <2>1, <1>0 DEF ServingProtocol
    <3>. PICK h \in Homes, v \in Versions : h = plan[p].home /\ v = conf[p].dir
      BY <2>0, <3>0
    <3>1. /\ Lasting \subseteq install[h][v]
          /\ "files" \in install[h][v] \/ \E q \in Procs : RewrittenBy(q, h, v)
      BY <2>0, <2>1 DEF ServedInv, Installed, Lasting
    <3>2. Lasting \subseteq install'[h][v]
      BY <2>0, <3>1, TreeKept
    <3>3. "files" \in install'[h][v] \/ \E q \in Procs : RewrittenBy(q, h, v)'
      <4>1. CASE "files" \in install[h][v]
        BY <2>0, <3>1, <4>1, TreeKept
      <4>2. ASSUME NEW q \in Procs, RewrittenBy(q, h, v)
            PROVE  "files" \in install'[h][v] \/ RewrittenBy(q, h, v)'
        BY <1>2, <2>0, <3>1, <4>2, RewriterGoesOn
      <4>3. QED
        BY <3>1, <4>1, <4>2
    <3>4. QED
      BY <2>0, <2>1, <3>2, <3>3 DEF Installed, RewrittenBy, Rewriting
  <2>2. CASE conf'[p] = conf[p] /\ install' = install /\ Whole(Installed(p, conf[p].dir))
    BY <2>0, <2>2 DEF Installed, Whole, Lasting
  <2>3. QED
    BY <1>0, <1>2, <2>1, <2>2, ServerStep
<1>3. QED
  BY <1>1, <1>2 DEF ServedInv, Lasting

LEMMA ServedInvHolds == Spec => [](ReaderInv /\ ServedInv)
<1>1. Init => ReaderInv /\ ServedInv
  BY DEF Init, ReaderInv, ServedInv, ServingProtocol
<1>2. LockInv /\ CacheInv /\ ReaderInv /\ ServedInv /\ [Next]_vars
        => ReaderInv' /\ ServedInv'
  BY ReaderInductive, ServedInductive
<1>3. QED
  BY <1>1, <1>2, LockInvHolds, CacheInvHolds, PTL DEF Spec

\* However copies, setups and servers overlap, a server's tree is whole unless
\* another process copies over it, a copy broke off or something was removed.
THEOREM ServedWhole == Spec => []ServedTreeIsWhole
<1>1. ServedInv => ServedTreeIsWhole
  <2>. SUFFICES ASSUME ServedInv, NEW p \in Procs, serving[p],
                       ~Whole(Installed(p, conf[p].dir)), Unhurt
                PROVE  BeingCopied(p, conf[p].dir)
    BY DEF ServedTreeIsWhole, Unhurt
  <2>1. PICK q \in Procs : RewrittenBy(q, plan[p].home, conf[p].dir)
    BY DEF ServedInv, Whole
  <2>2. q # p
    BY <2>1 DEF ServedInv, ServingProtocol, RewrittenBy
  <2>3. QED
    BY <2>1, <2>2 DEF BeingCopied, RewrittenBy
<1>2. QED
  BY <1>1, ServedInvHolds, PTL

-----------------------------------------------------------------------------
(* Why a run fails.                                                        *)

\* The highest of some versions is not below any of them.
LEMMA HighestIsMost ==
  ASSUME NEW vs \in SUBSET Versions, NEW v \in vs
  PROVE  Highest(vs) \in vs /\ v <= Highest(vs)
<1>1. \E w \in vs : \A x \in vs : x <= w
  BY CacheAssumption
<1>2. QED
  BY <1>1 DEF Highest

\* What one process copies is nothing that a step of another changes.
LEMMA OtherCopiers ==
  ASSUME LockInv, [Next]_vars, NEW p \in Procs, Step(p) \/ Crash(p),
         NEW q \in Procs, q # p, NEW h, NEW v
  PROVE  /\ CopiesInto(q, h, v)' = CopiesInto(q, h, v) /\ left'[q] = left[q]
         /\ RewrittenBy(q, h, v) => RewrittenBy(q, h, v)'
  BY OtherCopies, PlansStay DEF CopiesInto, RewrittenBy, Rewriting

\* Steps that change no installation and no copy into one.
LEMMA FillStays ==
  ASSUME FillParts, plan' = plan, install' = install,
         \A q \in Procs : pc[q] = "copy_in" \/ pc'[q] = "copy_in" =>
           pc'[q] = pc[q] /\ ver'[q] = ver[q] /\ left'[q] = left[q]
  PROVE  /\ \A h \in Homes, v \in Versions : TreeInv(h, v)'
         /\ \A q \in Procs : CopierInv(q)'
<1>1. \A q \in Procs, h \in Homes, v \in Versions :
        /\ CopiesInto(q, h, v) => CopiesInto(q, h, v)' /\ left'[q] = left[q]
        /\ RewrittenBy(q, h, v) => RewrittenBy(q, h, v)'
  BY DEF CopiesInto, RewrittenBy, Rewriting
<1>2. ASSUME NEW h \in Homes, NEW v \in Versions
      PROVE  TreeInv(h, v)'
  BY <1>1 DEF FillParts, TreeInv
<1>3. ASSUME NEW q \in Procs
      PROVE  CopierInv(q)'
  BY DEF FillParts, CopierInv, Installed
<1>4. QED
  BY <1>2, <1>3

\* A copy begins with everything still to be brought.
LEMMA LockSharedFills ==
  ASSUME LockInv, CacheInv, FillParts, Undisturbed, [Next]_vars,
         NEW p \in Procs, LockShared(p)
  PROVE  /\ \A h \in Homes, v \in Versions : TreeInv(h, v)'
         /\ \A q \in Procs : CopierInv(q)'
<1>0. TypeOK /\ plan' = plan /\ Step(p)
  BY PlansStay DEF LockInv, Step
<1>1. CASE ~Complete(cache[ver[p]])
  <2>1. \A q \in Procs : pc[q] = "copy_in" \/ pc'[q] = "copy_in" =>
           pc'[q] = pc[q] /\ ver'[q] = ver[q] /\ left'[q] = left[q]
    BY <1>0, <1>1 DEF LockShared, Goto, TypeOK
  <2>2. install' = install
    BY <1>1 DEF LockShared
  <2>3. QED
    BY <1>0, <2>1, <2>2, FillStays
<1>2. CASE Complete(cache[ver[p]])
  <2>0. PICK home \in Homes, ve \in Versions : home = plan[p].home /\ ve = ver[p]
    BY <1>0, PlanParts DEF LockInv, LockProtocol, LockShared
  <2>1. /\ pc[p] = "lock_shared" /\ pc'[p] = "copy_in" /\ ver' = ver
        /\ left'[p] = cache[ve] \ {"dir"}
    BY <1>0, <1>2, <2>0 DEF LockShared, Goto, TypeOK
  <2>2. {"bin", "files", "links"} \subseteq left'[p] /\ "dir" \notin left'[p]
    BY <1>2, <2>0, <2>1 DEF CacheInv, EntryInv, Complete, Whole
  <2>3. \A h \in Homes, v \in Versions :
          install'[h][v] = IF h = home /\ v = ve
                           THEN install[h][v] \union {"dir"} ELSE install[h][v]
    <3>1. Installed(p, ve) \union {"dir"} \in SUBSET Pieces
      BY <1>0, <2>0 DEF TypeOK, Installed, Pieces
    <3>2. SetInstalled(p, ve, Installed(p, ve) \union {"dir"})
      BY <1>2, <2>0 DEF LockShared
    <3>3. \A h \in Homes, v \in Versions :
            install'[h][v] = IF h = plan[p].home /\ v = ve
                             THEN Installed(p, ve) \union {"dir"} ELSE install[h][v]
      BY <1>0, <3>1, <3>2, InstallType
    <3>4. Installed(p, ve) = install[home][ve]
      BY <2>0 DEF Installed
    <3>5. QED
      BY <2>0, <3>3, <3>4
  <2>4. \A q \in Procs, h \in Homes, v \in Versions :
          /\ CopiesInto(q, h, v) => CopiesInto(q, h, v)' /\ left'[q] = left[q]
          /\ RewrittenBy(q, h, v) => RewrittenBy(q, h, v)'
    <3>1. ~CopiesInto(p, home, ve) /\ \A h, v : ~CopiesInto(p, h, v) /\ ~RewrittenBy(p, h, v)
      BY <2>1 DEF CopiesInto, RewrittenBy
    <3>2. QED
      BY <1>0, <3>1, OtherCopiers
  <2>5. ASSUME NEW h \in Homes, NEW v \in Versions
        PROVE  TreeInv(h, v)'
    <3>1. CASE install'[h][v] = install[h][v]
      BY <2>4, <3>1 DEF FillParts, TreeInv
    <3>2. CASE install'[h][v] # install[h][v]
      <4>0. install[h][v] # {} => "dir" \in install[h][v]
        BY DEF FillParts, TreeInv
      <4>1. h = home /\ v = ve /\ install'[h][v] = {"dir"}
        <5>1. h = home /\ v = ve /\ install'[h][v] = install[h][v] \union {"dir"}
          BY <2>3, <3>2
        <5>2. install[h][v] = {}
          BY <3>2, <4>0, <5>1
        <5>3. QED
          BY <5>1, <5>2
      <4>2. CopiesInto(p, h, v)'
        BY <1>0, <2>0, <2>1, <4>1 DEF CopiesInto
      <4>3. QED
        BY <2>2, <4>1, <4>2 DEF TreeInv
    <3>3. QED
      BY <3>1, <3>2
  <2>6. ASSUME NEW q \in Procs
        PROVE  CopierInv(q)'
    <3>1. CASE q = p
      <4>1. "dir" \in install'[home][ve]
        BY <2>3
      <4>2. Installed(p, ver[p])' = install'[home][ve]
        BY <1>0, <2>0, <2>1 DEF Installed
      <4>3. QED
        BY <2>2, <3>1, <4>1, <4>2 DEF CopierInv
    <3>2. CASE q # p /\ pc[q] = "copy_in"
      <4>1. pc'[q] = pc[q] /\ ver'[q] = ver[q] /\ left'[q] = left[q]
        BY <1>0, <3>2, OtherCopies
      <4>2. plan[q].home \in Homes /\ ver[q] \in Versions
        BY <1>0, <3>2, PlanParts DEF LockInv, LockProtocol
      <4>3. Installed(q, ver[q]) \subseteq Installed(q, ver[q])'
        BY <1>0, <2>1, <2>3, <4>2 DEF Installed
      <4>4. QED
        BY <3>2, <4>1, <4>3 DEF FillParts, CopierInv
    <3>3. CASE q # p /\ pc[q] # "copy_in"
      BY <1>0, <3>3, OtherCopies DEF CopierInv
    <3>4. QED
      BY <3>1, <3>2, <3>3
  <2>7. QED
    BY <2>5, <2>6
<1>3. QED
  BY <1>1, <1>2

\* What is copied next is what was still to be brought.
LEMMA CopyInFills ==
  ASSUME LockInv, ReaderInv, FillParts, Undisturbed, [Next]_vars,
         NEW p \in Procs, CopyIn(p)
  PROVE  /\ \A h \in Homes, v \in Versions : TreeInv(h, v)'
         /\ \A q \in Procs : CopierInv(q)'
<1>0. TypeOK /\ plan' = plan /\ Step(p)
  BY PlansStay DEF LockInv, Step
<1>1. PICK home \in Homes, ve \in Versions : home = plan[p].home /\ ve = ver[p]
  BY <1>0, PlanParts DEF LockInv, LockProtocol, CopyIn
<1>2. PICK f \in left[p] :
        /\ MayCopy(p, f, cache[ve], Installed(p, ve))
        /\ SetInstalled(p, ve, Copied(f, cache[ve], Installed(p, ve)))
        /\ Passed(p, f)
  BY <1>1 DEF CopyIn
<1>3. /\ pc[p] = "copy_in" /\ pc'[p] = "copy_in" /\ ver'[p] = ver[p]
      /\ left'[p] = left[p] \ {f}
      /\ f \in cache[ve] /\ ("bin" \in left[p] => "files" \in left[p])
  BY <1>0, <1>1, <1>2 DEF CopyIn, Passed, TypeOK, ReaderInv
<1>4. /\ f # "dir" /\ "dir" \notin left[p]
      /\ {"dir", "bin", "links"} \ left[p] \subseteq install[home][ve]
  BY <1>1, <1>2, <1>3 DEF FillParts, CopierInv, Installed
<1>5. \A h \in Homes, v \in Versions :
        install'[h][v] = IF h = home /\ v = ve
                         THEN IF f = "bin" THEN (install[h][v] \union {f}) \ {"files"}
                              ELSE install[h][v] \union {f}
                         ELSE install[h][v]
  <2>1. f \in Pieces /\ Installed(p, ve) \in SUBSET Pieces
    BY <1>0, <1>1 DEF TypeOK, Installed
  <2>2. Copied(f, cache[ve], Installed(p, ve)) \in SUBSET Pieces
    BY <2>1, CopiedType
  <2>3. \A h \in Homes, v \in Versions :
          install'[h][v] = IF h = plan[p].home /\ v = ve
                           THEN Copied(f, cache[ve], Installed(p, ve)) ELSE install[h][v]
    BY <1>0, <1>2, <2>2, InstallType
  <2>4. Copied(f, cache[ve], Installed(p, ve))
          = IF f = "bin" THEN (install[home][ve] \union {f}) \ {"files"}
            ELSE install[home][ve] \union {f}
    BY <1>1, <1>3 DEF Copied, Installed
  <2>5. QED
    BY <1>1, <2>3, <2>4
<1>6. \A q \in Procs, h \in Homes, v \in Versions : q # p =>
        /\ CopiesInto(q, h, v) => CopiesInto(q, h, v)' /\ left'[q] = left[q]
        /\ RewrittenBy(q, h, v) => RewrittenBy(q, h, v)'
  BY <1>0, OtherCopiers
<1>7. CopiesInto(p, home, ve) /\ CopiesInto(p, home, ve)'
  BY <1>0, <1>1, <1>3 DEF CopiesInto
<1>8. TreeInv(home, ve)'
  <2>. DEFINE tree == install[home][ve]
              new == install'[home][ve]
  <2>1. TreeInv(home, ve) /\ "dir" \in tree /\ "dir" \in new
    BY <1>4, <1>5 DEF FillParts
  <2>2. ASSUME "bin" \notin new
        PROVE  \E q \in Procs : /\ CopiesInto(q, home, ve)' /\ "bin" \in left'[q]
                                /\ "links" \in new => "links" \notin left'[q]
    <3>1. f # "bin" /\ "bin" \notin tree /\ "bin" \in left[p]
      BY <1>4, <1>5, <2>2
    <3>2. CASE f = "links"
      BY <1>3, <1>7, <3>1, <3>2
    <3>3. CASE f # "links"
      <4>1. PICK q \in Procs : /\ CopiesInto(q, home, ve) /\ "bin" \in left[q]
                               /\ "links" \in tree => "links" \notin left[q]
        BY <2>1, <3>1 DEF TreeInv
      <4>2. "links" \in new => "links" \in tree
        BY <1>5, <3>3
      <4>3. CASE q = p
        BY <1>3, <1>7, <3>1, <4>1, <4>2, <4>3
      <4>4. CASE q # p
        BY <1>6, <4>1, <4>2, <4>4
      <4>5. QED
        BY <4>3, <4>4
    <3>4. QED
      BY <3>2, <3>3
  <2>3. ASSUME "links" \notin new
        PROVE  \E q \in Procs : CopiesInto(q, home, ve)' /\ "links" \in left'[q]
    <3>1. f # "links" /\ "links" \notin tree
      BY <1>5, <2>3
    <3>2. PICK q \in Procs : CopiesInto(q, home, ve) /\ "links" \in left[q]
      BY <2>1, <3>1 DEF TreeInv
    <3>3. QED
      BY <1>3, <1>6, <1>7, <3>1, <3>2
  <2>4. ASSUME "bin" \in new, "files" \notin new
        PROVE  \E q \in Procs : RewrittenBy(q, home, ve)'
    <3>1. CASE f = "bin"
      BY <1>3, <1>7, <3>1 DEF CopiesInto, RewrittenBy, Rewriting
    <3>2. CASE f # "bin"
      <4>1. f # "files" /\ "bin" \in tree /\ "files" \notin tree
        BY <1>5, <2>4, <3>2
      <4>2. PICK q \in Procs : RewrittenBy(q, home, ve)
        BY <2>1, <4>1 DEF TreeInv
      <4>3. q # p
        BY <1>2, <4>1, <4>2 DEF RewrittenBy, MayCopy
      <4>4. QED
        BY <1>6, <4>2, <4>3
    <3>3. QED
      BY <3>1, <3>2
  <2>5. QED
    BY <2>1, <2>2, <2>3, <2>4 DEF TreeInv
<1>9. ASSUME NEW h \in Homes, NEW v \in Versions, h # home \/ v # ve
      PROVE  TreeInv(h, v)'
  <2>1. ~CopiesInto(p, h, v) /\ ~RewrittenBy(p, h, v)
    BY <1>1, <1>9 DEF CopiesInto, RewrittenBy
  <2>2. install'[h][v] = install[h][v]
    BY <1>5, <1>9
  <2>3. QED
    BY <1>6, <2>1, <2>2 DEF FillParts, TreeInv
<1>10. ASSUME NEW q \in Procs
       PROVE  CopierInv(q)'
  <2>1. CASE q = p
    <3>1. Installed(p, ver[p])' = install'[home][ve]
      BY <1>0, <1>1, <1>3 DEF Installed
    <3>2. {"dir", "bin", "links"} \ (left[p] \ {f}) \subseteq install'[home][ve]
      BY <1>4, <1>5
    <3>3. QED
      BY <1>3, <1>4, <2>1, <3>1, <3>2 DEF CopierInv
  <2>2. CASE q # p /\ pc[q] = "copy_in"
    <3>1. pc'[q] = pc[q] /\ ver'[q] = ver[q] /\ left'[q] = left[q]
      BY <1>0, <2>2, OtherCopies
    <3>2. plan[q].home \in Homes /\ ver[q] \in Versions
      BY <1>0, <2>2, PlanParts DEF LockInv, LockProtocol
    <3>3. {"dir", "bin", "links"} \intersect Installed(q, ver[q])
            \subseteq install'[plan[q].home][ver[q]]
      BY <1>5, <3>2 DEF Installed
    <3>4. QED
      BY <1>0, <2>2, <3>1, <3>3 DEF FillParts, CopierInv, Installed
  <2>3. CASE q # p /\ pc[q] # "copy_in"
    BY <1>0, <2>3, OtherCopies DEF CopierInv
  <2>4. QED
    BY <2>1, <2>2, <2>3
<1>11. QED
  BY <1>8, <1>9, <1>10

\* A copy that is over had nothing to bring that nobody else brings: it breaks off
\* on links another copy made, or on a tree that a server runs from.
LEMMA CopyEndFills ==
  ASSUME LockInv, ReaderInv, ServedInv, FillParts, Unhurt', [Next]_vars,
         NEW p \in Procs, CopyInDone(p) \/ CopyInFails(p)
  PROVE  /\ \A h \in Homes, v \in Versions : TreeInv(h, v)'
         /\ \A q \in Procs : CopierInv(q)'
<1>0. TypeOK /\ plan' = plan /\ Step(p) /\ Unhurt /\ Undisturbed /\ "copy" \notin blame'
  BY PlansStay, BlameGrows DEF LockInv, Step, Unhurt, Undisturbed
<1>1. PICK home \in Homes, ve \in Versions : home = plan[p].home /\ ve = ver[p]
  BY <1>0, PlanParts DEF LockInv, LockProtocol, CopyInDone, CopyInFails, Goto
<1>2. pc[p] = "copy_in" /\ pc'[p] = "setup" /\ install' = install /\ ver' = ver
  BY <1>0 DEF CopyInDone, CopyInFails, Goto, trees, TypeOK
<1>3. /\ left[p] \subseteq cache[ve] /\ "dir" \in install[home][ve]
  BY <1>0, <1>1, <1>2 DEF ReaderInv, FillParts, CopierInv, Installed
<1>4. \/ left[p] = {}
      \/ "links" \in left[p] \intersect install[home][ve] /\ ~Rewriting(p)
      \/ "bin" \in left[p] /\ {"bin", "links"} \subseteq install[home][ve]
  <2>1. CASE CopyInDone(p)
    BY <2>1 DEF CopyInDone
  <2>2. CASE CopyInFails(p)
    <3>1. \/ "links" \in left[p] \intersect install[home][ve] /\ ~Rewriting(p)
          \/ "bin" \in left[p] /\ InUse(home, ve)
      BY <1>0, <1>1, <1>3, <2>2 DEF CopyInFails, CopyFails, Fault, Installed
    <3>2. InUse(home, ve) => {"bin", "links"} \subseteq install[home][ve]
      BY <1>0 DEF InUse, ServedInv, Installed
    <3>3. QED
      BY <3>1, <3>2
  <2>3. QED
    BY <2>1, <2>2
<1>5. \A q \in Procs, h \in Homes, v \in Versions : q # p =>
        /\ CopiesInto(q, h, v) => CopiesInto(q, h, v)' /\ left'[q] = left[q]
        /\ RewrittenBy(q, h, v) => RewrittenBy(q, h, v)'
  BY <1>0, OtherCopiers
<1>6. ASSUME NEW h \in Homes, NEW v \in Versions
      PROVE  TreeInv(h, v)'
  <2>. DEFINE tree == install[h][v]
  <2>0. TreeInv(h, v) /\ install'[h][v] = tree
    BY <1>2 DEF FillParts
  <2>1. \A q \in Procs : CopiesInto(q, h, v) /\ q = p => h = home /\ v = ve
    BY <1>1 DEF CopiesInto
  <2>2. ASSUME "dir" \in tree, "bin" \notin tree
        PROVE  \E q \in Procs : /\ CopiesInto(q, h, v)' /\ "bin" \in left'[q]
                                /\ "links" \in tree => "links" \notin left'[q]
    <3>1. PICK q \in Procs : /\ CopiesInto(q, h, v) /\ "bin" \in left[q]
                             /\ "links" \in tree => "links" \notin left[q]
      BY <2>0, <2>2 DEF TreeInv
    <3>2. q # p
      BY <1>4, <2>1, <2>2, <3>1
    <3>3. QED
      BY <1>5, <3>1, <3>2
  <2>3. ASSUME "dir" \in tree, "links" \notin tree
        PROVE  \E q \in Procs : CopiesInto(q, h, v)' /\ "links" \in left'[q]
    <3>1. PICK q \in Procs : CopiesInto(q, h, v) /\ "links" \in left[q]
      BY <2>0, <2>3 DEF TreeInv
    <3>2. q # p
      BY <1>4, <2>1, <2>3, <3>1
    <3>3. QED
      BY <1>5, <3>1, <3>2
  <2>4. ASSUME "bin" \in tree, "files" \notin tree
        PROVE  \E q \in Procs : RewrittenBy(q, h, v)'
    <3>1. PICK q \in Procs : RewrittenBy(q, h, v)
      BY <2>0, <2>4 DEF TreeInv
    <3>2. q # p
      BY <1>4, <3>1 DEF RewrittenBy, Rewriting
    <3>3. QED
      BY <1>5, <3>1, <3>2
  <2>5. QED
    BY <2>0, <2>2, <2>3, <2>4 DEF TreeInv
<1>7. ASSUME NEW q \in Procs
      PROVE  CopierInv(q)'
  <2>1. CASE q = p
    BY <1>2, <2>1 DEF CopierInv
  <2>2. CASE q # p
    BY <1>0, <1>2, <2>2, OtherCopies DEF FillParts, CopierInv, Installed
  <2>3. QED
    BY <2>1, <2>2
<1>8. QED
  BY <1>6, <1>7

\* A download leaves nothing to be brought.
LEMMA DownloadFills ==
  ASSUME LockInv, FillParts, [Next]_vars, NEW p \in Procs, SetupDownloads(p)
  PROVE  /\ \A h \in Homes, v \in Versions : TreeInv(h, v)'
         /\ \A q \in Procs : CopierInv(q)'
<1>0. TypeOK /\ plan' = plan /\ Step(p)
  BY PlansStay DEF LockInv, Step
<1>1. \A h \in Homes, v \in Versions : install'[h][v] \in {install[h][v], Downloaded}
  <2>1. Downloaded \in SUBSET Pieces
    BY DEF Downloaded
  <2>2. SetInstalled(p, Highest(plan[p].req), Downloaded)
    BY DEF SetupDownloads, Downloaded
  <2>3. QED
    BY <1>0, <2>1, <2>2, InstallType
<1>2. {"dir", "bin", "files", "links"} \subseteq Downloaded
  BY DEF Downloaded, Pieces
<1>3. pc[p] = "setup" /\ pc'[p] # "copy_in"
  BY <1>0 DEF SetupDownloads, SetUpWith, Goto, TypeOK
<1>4. \A q \in Procs, h \in Homes, v \in Versions :
        /\ CopiesInto(q, h, v) => CopiesInto(q, h, v)' /\ left'[q] = left[q]
        /\ RewrittenBy(q, h, v) => RewrittenBy(q, h, v)'
  <2>1. \A h, v : ~CopiesInto(p, h, v) /\ ~RewrittenBy(p, h, v)
    BY <1>3 DEF CopiesInto, RewrittenBy
  <2>2. QED
    BY <1>0, <2>1, OtherCopiers
<1>5. ASSUME NEW h \in Homes, NEW v \in Versions
      PROVE  TreeInv(h, v)'
  <2>1. CASE install'[h][v] = install[h][v]
    BY <1>4, <2>1 DEF FillParts, TreeInv
  <2>2. CASE install'[h][v] = Downloaded
    BY <1>2, <2>2 DEF TreeInv
  <2>3. QED
    BY <1>1, <2>1, <2>2
<1>6. ASSUME NEW q \in Procs
      PROVE  CopierInv(q)'
  <2>1. CASE q = p
    BY <1>3, <2>1 DEF CopierInv
  <2>2. CASE q # p /\ pc[q] = "copy_in"
    <3>1. pc'[q] = pc[q] /\ ver'[q] = ver[q] /\ left'[q] = left[q]
      BY <1>0, <2>2, OtherCopies
    <3>2. plan[q].home \in Homes /\ ver[q] \in Versions
      BY <1>0, <2>2, PlanParts DEF LockInv, LockProtocol
    <3>3. install'[plan[q].home][ver[q]] \in {Installed(q, ver[q]), Downloaded}
      BY <1>1, <3>2 DEF Installed
    <3>4. QED
      BY <1>0, <1>2, <2>2, <3>1, <3>3 DEF FillParts, CopierInv, Installed
  <2>3. CASE q # p /\ pc[q] # "copy_in"
    BY <1>0, <2>3, OtherCopies DEF CopierInv
  <2>4. QED
    BY <2>1, <2>2, <2>3
<1>7. QED
  BY <1>5, <1>6

\* What an installation lacks stays somebody's to bring.
LEMMA TreesStep ==
  ASSUME LockInv, CacheInv, ReaderInv, ServedInv, FillParts, Unhurt', [Next]_vars
  PROVE  /\ \A h \in Homes, v \in Versions : TreeInv(h, v)'
         /\ \A q \in Procs : CopierInv(q)'
<1>0. TypeOK /\ plan' = plan /\ Undisturbed /\ {"crash", "removed"} \intersect blame' = {}
  BY PlansStay, BlameGrows DEF LockInv, Unhurt, Undisturbed
<1>1. ASSUME NEW p \in Procs, Step(p),
             ~LockShared(p), ~CopyIn(p), ~CopyInDone(p), ~CopyInFails(p), ~SetupDownloads(p)
      PROVE  /\ \A h \in Homes, v \in Versions : TreeInv(h, v)'
             /\ \A q \in Procs : CopierInv(q)'
  <2>1. install' = install /\ pc[p] # "copy_in" /\ pc'[p] # "copy_in"
    BY <1>0, <1>1
    DEF trees, Goto, TypeOK, Step, Lookup, LockSharedFails, SetupInstalled, SetUpWith,
        SetupFails, Start, StartFails, CheckCached, LockExclusive, LockExclusiveFails,
        CopyOut, CopyOutFails, MarkComplete, Close, RemovePiece, Removed
  <2>2. \A q \in Procs : pc[q] = "copy_in" \/ pc'[q] = "copy_in" =>
          pc'[q] = pc[q] /\ ver'[q] = ver[q] /\ left'[q] = left[q]
    BY <1>1, <2>1, OtherCopies
  <2>3. QED
    BY <1>0, <2>1, <2>2, FillStays
<1>2. ASSUME NEW p \in Procs PROVE ~Crash(p)
  BY <1>0 DEF Crash, Fault
<1>3. CASE UNCHANGED <<install, pc, ver, left>>
  BY <1>0, <1>3, FillStays
<1>4. QED
  BY <1>0, <1>1, <1>2, <1>3, LockSharedFills, CopyInFills, CopyEndFills, DownloadFills
  DEF Next, Purge, vars, trees

\* A setup leaves the version it set up with in the settings, or a higher one.
LEMMA SetUpSettings ==
  ASSUME LockInv, NEW p \in Procs, ServingProtocol(p), SettingsInv(p), plan' = plan,
         NEW v \in Versions, NEW tree, tree = install'[plan[p].home], "bin" \in tree[v],
         \A w \in Versions : "bin" \in tree[w] => "dir" \in tree[w],
         conf[p].trusted => conf[p].dir = v, SetUpWith(p, v, tree)
  PROVE  SettingsInv(p)'
<1>0. TypeOK /\ NoVersion \notin Versions /\ pc[p] = "setup" /\ pc'[p] \in {"start", "check"}
  BY CacheAssumption DEF LockInv, NoVersion, SetUpWith, Goto, TypeOK
<1>. DEFINE dir == conf'[p].dir
<1>1. /\ conf'[p].trusted = conf[p].trusted /\ used'[p] = v
      /\ dir = IF plan[p].root
               THEN IF Resolve(p, tree) = NoVersion THEN conf[p].dir ELSE Resolve(p, tree)
               ELSE IF plan[p].kind = "cluster" THEN v ELSE conf[p].dir
      /\ pc'[p] = "start" => plan[p].kind = "cluster"
  BY <1>0 DEF SetUpWith, Goto, TypeOK
<1>. HIDE DEF dir
<1>2. CASE conf[p].trusted
  <2>1. dir = v
    BY <1>1, <1>2 DEF Resolve
  <2>2. QED
    BY <1>0, <1>1, <2>1 DEF SettingsInv, Installed, dir
<1>3. CASE ~conf[p].trusted
  <2>1. conf[p].dir = NoVersion
    BY <1>0, <1>3 DEF SettingsInv
  <2>. DEFINE found == {w \in Versions : "bin" \in tree[w]}
  <2>2. found \in SUBSET Versions /\ v \in found
    OBVIOUS
  <2>3. Highest(found) \in found /\ v <= Highest(found)
    BY <2>2, HighestIsMost
  <2>4. Resolve(p, tree) = Highest(found)
    BY <1>3, <2>1 DEF Resolve
  <2>5. CASE plan[p].root
    <3>1. dir = Highest(found)
      BY <1>0, <1>1, <2>3, <2>4, <2>5
    <3>2. dir \in Nat /\ v \in Nat /\ v <= dir
      BY <2>3, <3>1, CacheAssumption
    <3>3. dir = v \/ dir > v
      BY <3>2
    <3>4. "dir" \in tree[dir]
      BY <2>3, <3>1
    <3>5. QED
      BY <1>0, <1>1, <1>3, <2>5, <3>3, <3>4 DEF SettingsInv, Installed, dir
  <2>6. CASE ~plan[p].root
    <3>1. pc'[p] = "start" => dir = v
      BY <1>1, <2>6
    <3>2. QED
      BY <1>0, <1>1, <1>3, <3>1 DEF SettingsInv, Installed, dir
  <2>7. QED
    BY <2>5, <2>6
<1>4. QED
  BY <1>2, <1>3

\* So the settings of a process name a directory that is there.
LEMMA SettingsStep ==
  ASSUME LockInv, CacheInv, ReaderInv, ServedInv, FillParts, Unhurt', [Next]_vars,
         NEW q \in Procs
  PROVE  SettingsInv(q)'
<1>0. /\ TypeOK /\ plan' = plan /\ Undisturbed' /\ plan[q].home \in Homes
      /\ SettingsInv(q) /\ ServingProtocol(q) /\ "crash" \notin blame'
  BY PlansStay, PlanParts DEF LockInv, Unhurt, Undisturbed, FillParts, ServedInv
<1>. DEFINE before == {"lookup", "lock_shared", "copy_in", "setup"}
<1>1. ASSUME conf'[q] = conf[q], used'[q] = used[q], pc'[q] \in before => pc[q] \in before,
             pc'[q] = "start" => pc[q] = "start"
      PROVE  SettingsInv(q)'
  <2>1. conf[q].trusted \/ pc[q] = "start" => "dir" \in install'[plan[q].home][conf[q].dir]
    <3>1. SUFFICES ASSUME conf[q].trusted \/ pc[q] = "start"
                   PROVE  "dir" \in install'[plan[q].home][conf[q].dir]
      OBVIOUS
    <3>2. conf[q].dir \in Versions /\ "dir" \in install[plan[q].home][conf[q].dir]
      BY <1>0, <3>1 DEF ServingProtocol, SettingsInv, Installed
    <3>3. QED
      BY <1>0, <3>2, TreeKept DEF Lasting
  <2>2. QED
    BY <1>0, <1>1, <2>1 DEF SettingsInv, Installed
<1>2. \A w \in Versions : "bin" \in install'[plan[q].home][w]
                            => "dir" \in install'[plan[q].home][w]
  BY <1>0, TreesStep DEF TreeInv
<1>3. CASE SetupInstalled(q)
  <2>1. InstalledDir(q) \in Versions /\ "bin" \in install'[plan[q].home][InstalledDir(q)]
    BY <1>0, <1>3, DirType DEF SetupInstalled, Whole, Installed
  <2>2. conf[q].trusted => conf[q].dir = InstalledDir(q)
    BY DEF InstalledDir
  <2>3. SetUpWith(q, InstalledDir(q), install'[plan[q].home])
    BY <1>3 DEF SetupInstalled
  <2>4. QED
    BY <1>0, <1>2, <2>1, <2>2, <2>3, SetUpSettings
<1>4. CASE SetupDownloads(q)
  <2>1. Highest(plan[q].req) \in Versions
    BY <1>0, PlanParts, HighestExists, CacheAssumption DEF TypeOK
  <2>2. "bin" \in install'[plan[q].home][Highest(plan[q].req)]
    BY <1>0, <1>4, <2>1 DEF SetupDownloads, SetInstalled, TypeOK, Pieces
  <2>3. ~conf[q].trusted
    <3>1. NoVersion \notin Versions
      BY CacheAssumption DEF NoVersion
    <3>2. QED
      BY <1>0, <1>4, <3>1 DEF SetupDownloads, InstalledDir, ServingProtocol
  <2>4. QED
    BY <1>0, <1>2, <1>4, <2>1, <2>2, <2>3, SetUpSettings DEF SetupDownloads
<1>5. CASE CopyInDone(q)
  <2>1. /\ install' = install /\ pc[q] = "copy_in" /\ pc'[q] = "setup" /\ left[q] = {}
        /\ conf'[q] = [dir |-> ver[q], trusted |-> TRUE]
    BY <1>0, <1>5 DEF CopyInDone, Goto, trees, TypeOK
  <2>2. "dir" \in Installed(q, ver[q])
    BY <2>1 DEF FillParts, CopierInv
  <2>3. QED
    BY <1>0, <2>1, <2>2 DEF SettingsInv, Installed
<1>6. ASSUME Step(q), ~SetupInstalled(q), ~SetupDownloads(q), ~CopyInDone(q)
      PROVE  SettingsInv(q)'
  <2>1. /\ conf'[q] = conf[q] /\ used'[q] = used[q]
        /\ pc'[q] \in before => pc[q] \in before
        /\ pc'[q] = "start" => pc[q] = "start"
    BY <1>0, <1>6, ZenonT(40)
    DEF TypeOK, Goto, Step, Lookup, LockShared, LockSharedFails, CopyIn, CopyInFails,
        SetupFails, Start, StartFails, CheckCached, LockExclusive, LockExclusiveFails,
        CopyOut, CopyOutFails, MarkComplete, Close, RemovePiece, Removed
  <2>2. QED
    BY <1>1, <2>1
<1>7. ASSUME NEW p \in Procs, Step(p), p # q
      PROVE  SettingsInv(q)'
  <2>1. pc'[q] = pc[q]
    BY <1>7, LockStep
  <2>2. conf'[q] = conf[q] /\ used'[q] = used[q]
    BY <1>0, <1>7
    DEF TypeOK, Step, Lookup, LockShared, LockSharedFails, CopyIn, CopyInDone, CopyInFails,
        SetupInstalled, SetupDownloads, SetUpWith, SetupFails, Start, StartFails,
        CheckCached, LockExclusive, LockExclusiveFails, CopyOut, CopyOutFails,
        MarkComplete, Close, RemovePiece, Removed
  <2>3. QED
    BY <1>1, <2>1, <2>2
<1>8. ASSUME NEW p \in Procs PROVE ~Crash(p)
  BY <1>0 DEF Crash, Fault
<1>9. CASE UNCHANGED <<pc, conf, used>>
  BY <1>1, <1>9
<1>10. QED
  BY <1>3, <1>4, <1>5, <1>6, <1>7, <1>8, <1>9 DEF Next, Purge, vars

LEMMA FillInductive ==
  LockInv /\ CacheInv /\ ReaderInv /\ ServedInv /\ FillInv /\ [Next]_vars => FillInv'
<1>. SUFFICES ASSUME LockInv, CacheInv, ReaderInv, ServedInv, FillInv, [Next]_vars, Unhurt'
              PROVE  FillParts'
  BY DEF FillInv
<1>1. FillParts
  BY BlameGrows DEF FillInv, Unhurt
<1>2. /\ \A h \in Homes, v \in Versions : TreeInv(h, v)'
      /\ \A q \in Procs : CopierInv(q)'
  BY <1>1, TreesStep
<1>3. \A q \in Procs : SettingsInv(q)'
  BY <1>1, SettingsStep
<1>4. QED
  BY <1>2, <1>3 DEF FillParts

LEMMA FillInvHolds == Spec => []FillInv
<1>1. Init => FillInv
  <2>1. SUFFICES ASSUME Init PROVE FillParts
    BY DEF FillInv
  <2>2. QED
    BY <2>1 DEF Init, FillParts, TreeInv, CopierInv, SettingsInv
<1>2. QED
  BY <1>1, FillInductive, LockInvHolds, CacheInvHolds, ServedInvHolds, PTL DEF Spec

\* A tree that is there and not whole is being copied.
LEMMA UnfinishedIsCopied ==
  ASSUME TypeOK, FillParts, NEW p \in Procs, pc[p] # "copy_in",
         NEW v \in Versions, "dir" \in Installed(p, v), ~Whole(Installed(p, v))
  PROVE  BeingCopied(p, v)
<1>1. plan[p].home \in Homes /\ TreeInv(plan[p].home, v)
  BY PlanParts DEF FillParts
<1>2. \E q \in Procs : CopiesInto(q, plan[p].home, v)
  BY <1>1 DEF TreeInv, Whole, Installed, CopiesInto, RewrittenBy
<1>3. QED
  BY <1>2 DEF CopiesInto, BeingCopied

\* Whatever overlaps, a run in which nothing goes wrong or is removed fails only
\* for what another process is in the middle of copying, or because root took a
\* higher version than it had set up with.
THEOREM FailureExplained == Spec => FailureHasCause
<1>. DEFINE Inv == LockInv /\ CacheInv /\ ReaderInv /\ ServedInv /\ FillInv
<1>1. ASSUME Inv, [Next]_vars, NEW p \in Procs, pc'[p] = "failed", pc[p] # "failed",
             blame' = {}
      PROVE  \/ pc[p] = "setup" /\ BeingCopied(p, InstalledDir(p))
             \/ pc[p] = "start" /\ BeingCopied(p, conf[p].dir)
             \/ pc[p] = "start" /\ plan[p].root /\ conf[p].dir > used[p]
  <2>0. TypeOK /\ FillParts /\ ServingProtocol(p) /\ SettingsInv(p)
    BY <1>1, BlameGrows DEF LockInv, FillInv, Unhurt, ServedInv, FillParts
  <2>1. SetupFails(p) \/ StartFails(p)
    <3>1. Step(p) \/ Crash(p)
      BY <1>1, <2>0, LockStep DEF Next, vars, Purge
    <3>2. QED
      BY <1>1, <2>0, <3>1
      DEF TypeOK, Goto, Step, Lookup, LockShared, LockSharedFails, CopyIn, CopyInDone,
          CopyInFails, SetupInstalled, SetupDownloads, SetUpWith, Start, CheckCached,
          LockExclusive, LockExclusiveFails, CopyOut, CopyOutFails, MarkComplete, Close,
          RemovePiece, Removed, Crash
  <2>2. CASE SetupFails(p)
    <3>1. /\ pc[p] = "setup" /\ InstalledDir(p) # NoVersion
          /\ ~Whole(Installed(p, InstalledDir(p)))
      BY <1>1, <2>2 DEF SetupFails, Goto, Fault
    <3>2. InstalledDir(p) \in Versions
      BY <2>0, <3>1, DirType
    <3>3. "dir" \in Installed(p, InstalledDir(p))
      <4>1. CASE conf[p].trusted
        BY <2>0, <4>1 DEF SettingsInv, InstalledDir
      <4>2. CASE ~conf[p].trusted
        <5>. DEFINE there == {v \in plan[p].req : "dir" \in Installed(p, v)}
        <5>1. there \in SUBSET Versions
          BY <2>0, PlanParts
        <5>2. Highest(there) \in there \union {NoVersion}
          BY <5>1, HighestIsOne
        <5>3. InstalledDir(p) = Highest(there)
          BY <4>2 DEF InstalledDir
        <5>4. InstalledDir(p) \in there
          BY <3>1, <5>2, <5>3
        <5>5. QED
          BY <5>4
      <4>3. QED
        BY <4>1, <4>2
    <3>4. QED
      BY <2>0, <3>1, <3>2, <3>3, UnfinishedIsCopied
  <2>3. CASE StartFails(p)
    <3>1. pc[p] = "start" /\ (conf[p].dir = used[p] => ~Whole(Installed(p, conf[p].dir)))
      BY <2>3 DEF StartFails, CanStart, Goto
    <3>2. conf[p].dir \in Versions /\ "dir" \in Installed(p, conf[p].dir)
      BY <2>0, <3>1 DEF ServingProtocol, SettingsInv
    <3>3. CASE conf[p].dir = used[p]
      BY <2>0, <3>1, <3>2, <3>3, UnfinishedIsCopied
    <3>4. CASE conf[p].dir # used[p]
      BY <2>0, <3>1, <3>4 DEF SettingsInv
    <3>5. QED
      BY <3>3, <3>4
  <2>4. QED
    BY <2>1, <2>2, <2>3
<1>2. Inv /\ [Next]_vars =>
        [\A p \in Procs : pc'[p] = "failed" /\ pc[p] # "failed" =>
           \/ blame' # {}
           \/ pc[p] = "setup" /\ BeingCopied(p, InstalledDir(p))
           \/ pc[p] = "start" /\ BeingCopied(p, conf[p].dir)
           \/ pc[p] = "start" /\ plan[p].root /\ conf[p].dir > used[p]]_vars
  BY <1>1
<1>3. QED
  BY <1>2, FillInvHolds, LockInvHolds, CacheInvHolds, ServedInvHolds, PTL
  DEF Spec, FailureHasCause

-----------------------------------------------------------------------------
(* A run with installations of its own.                                    *)

\* A fault shows in blame.
LEMMA NoFault ==
  ASSUME LockInv, NEW kind, blame' = {}
  PROVE  ~Fault(kind)
  BY FaultType DEF LockInv

\* What the others do is nothing to it.
LEMMA OthersElsewhere ==
  ASSUME LockInv, NEW p \in Procs, OwnHome(p), OwnInv(p),
         NEW q \in Procs, q # p, Step(q) \/ Crash(q)
  PROVE  OwnInv(p)'
<1>0. TypeOK /\ plan' = plan /\ plan[q].home # plan[p].home
  BY PlansStay DEF LockInv, OwnHome, Next
<1>1. pc'[p] = pc[p] /\ ver'[p] = ver[p] /\ left'[p] = left[p]
  BY OtherCopies
<1>2. conf'[p] = conf[p] /\ used'[p] = used[p]
  BY <1>0
  DEF TypeOK, Step, Lookup, LockShared, LockSharedFails, CopyIn, CopyInDone,
      CopyInFails, SetupInstalled, SetupDownloads, SetUpWith, SetupFails, Start,
      StartFails, CheckCached, LockExclusive, LockExclusiveFails, CopyOut,
      CopyOutFails, MarkComplete, Close, RemovePiece, Removed, Crash
<1>3. install'[plan[p].home] = install[plan[p].home]
  <2>1. \A v, tree : SetInstalled(q, v, tree) =>
          install'[plan[p].home] = install[plan[p].home]
    BY <1>0, PlanParts DEF TypeOK, SetInstalled
  <2>2. install' = install \/ \E v, tree : SetInstalled(q, v, tree)
    BY ZenonT(40)
    DEF Step, Lookup, LockShared, LockSharedFails, CopyIn, CopyInDone, trees,
        CopyInFails, SetupInstalled, SetupDownloads, SetUpWith, SetupFails, Start,
        StartFails, CheckCached, LockExclusive, LockExclusiveFails, CopyOut,
        CopyOutFails, MarkComplete, Close, RemovePiece, Removed, Crash
  <2>3. QED
    BY <2>1, <2>2
<1>4. \A v : Installed(p, v)' = Installed(p, v)
  BY <1>0, <1>3 DEF Installed
<1>5. QED
  BY <1>1, <1>2, <1>4 DEF OwnInv

\* It finds a version in the cache, and copies it in.
LEMMA OwnLookup ==
  ASSUME LockInv, NEW p \in Procs, OwnInv(p), blame' = {},
         \/ Lookup(p) \/ LockShared(p) \/ LockSharedFails(p) \/ CopyIn(p) \/ CopyInDone(p)
  PROVE  OwnInv(p)'
<1>0. TypeOK /\ LockProtocol(p) /\ plan' = plan
  BY DEF LockInv, Lookup, LockShared, LockSharedFails, CopyIn, CopyInDone
<1>. USE DEF Goto
<1>1. CASE Lookup(p)
  <2>1. pc[p] = "lookup" /\ pc'[p] \in {"setup", "lock_shared"}
    BY <1>0, <1>1 DEF TypeOK, Lookup
  <2>2. \A v \in Versions : Installed(p, v)' = {}
    BY <1>0, <1>1, <2>1 DEF Lookup, trees, Installed, OwnInv
  <2>3. QED
    BY <2>1, <2>2 DEF OwnInv
<1>2. CASE LockShared(p)
  <2>0. pc[p] = "lock_shared" /\ ver[p] \in Versions /\ ver' = ver
    BY <1>0, <1>2 DEF LockShared, LockProtocol
  <2>1. \A v \in Versions : Installed(p, v) = {}
    BY <2>0 DEF OwnInv
  <2>2. CASE pc'[p] = "setup"
    <3>1. install' = install
      BY <1>0, <1>2, <2>2 DEF TypeOK, LockShared
    <3>2. \A v \in Versions : Installed(p, v)' = {}
      BY <1>0, <2>1, <3>1 DEF Installed
    <3>3. QED
      BY <2>2, <3>2 DEF OwnInv
  <2>3. CASE pc'[p] # "setup"
    <3>1. pc'[p] = "copy_in" /\ SetInstalled(p, ver[p], Installed(p, ver[p]) \union {"dir"})
      BY <1>0, <1>2, <2>3 DEF TypeOK, LockShared
    <3>2. Installed(p, ver[p]) \union {"dir"} = {"dir"} /\ {"dir"} \in SUBSET Pieces
      BY <2>0, <2>1 DEF Pieces
    <3>3. SetInstalled(p, ver[p], {"dir"})
      BY <3>1, <3>2
    <3>4. \A v \in Versions :
            install'[plan[p].home][v] = IF v = ver[p] THEN {"dir"} ELSE Installed(p, v)
      BY <1>0, <3>2, <3>3, InstallType, PlanParts DEF Installed
    <3>5. \A v \in Versions : Installed(p, v)' = IF v = ver[p] THEN {"dir"} ELSE {}
      BY <1>0, <2>1, <3>4 DEF Installed
    <3>6. QED
      BY <2>0, <3>1, <3>5 DEF OwnInv
  <2>4. QED
    BY <2>2, <2>3
<1>3. CASE LockSharedFails(p)
  BY <1>3, NoFault DEF LockSharedFails
<1>4. CASE CopyIn(p)
  <2>0. pc[p] = "copy_in" /\ pc' = pc /\ ver' = ver /\ ver[p] \in Versions
    BY <1>0, <1>4 DEF CopyIn, LockProtocol
  <2>1. PICK f \in left[p] :
          /\ SetInstalled(p, ver[p], Copied(f, cache[ver[p]], Installed(p, ver[p])))
          /\ Passed(p, f)
    BY <1>4 DEF CopyIn
  <2>. DEFINE copy == Copied(f, cache[ver[p]], Installed(p, ver[p]))
  <2>2. f \in Pieces /\ Installed(p, ver[p]) \in SUBSET Pieces
    BY <1>0, <2>0, PlanParts DEF TypeOK, Installed
  <2>3. copy \in SUBSET Pieces
    BY <2>2, CopiedType
  <2>4. f # "links" /\ "links" \notin Installed(p, ver[p]) => "links" \notin copy
    BY DEF Copied
  <2>. HIDE DEF copy
  <2>5. SetInstalled(p, ver[p], copy)
    BY <2>1 DEF copy
  <2>6. \A v \in Versions :
          install'[plan[p].home][v] = IF v = ver[p] THEN copy ELSE install[plan[p].home][v]
    BY <1>0, <2>3, <2>5, InstallType, PlanParts
  <2>7. \A v \in Versions : Installed(p, v)' = IF v = ver[p] THEN copy ELSE Installed(p, v)
    BY <1>0, <2>6 DEF Installed
  <2>8. left'[p] = left[p] \ {f}
    BY <1>0, <2>1 DEF TypeOK, Passed
  <2>9. QED
    BY <2>0, <2>4, <2>7, <2>8 DEF OwnInv
<1>5. CASE CopyInDone(p)
  <2>1. /\ pc[p] = "copy_in" /\ pc'[p] = "setup"
        /\ conf'[p] = [dir |-> ver[p], trusted |-> TRUE]
    BY <1>0, <1>5 DEF TypeOK, CopyInDone
  <2>2. \A v : Installed(p, v)' = Installed(p, v)
    BY <1>0, <1>5 DEF CopyInDone, trees, Installed
  <2>3. \A v \in Versions : Installed(p, v)' # {} => v = ver[p]
    BY <2>1, <2>2 DEF OwnInv
  <2>4. QED
    BY <2>1, <2>3 DEF OwnInv
<1>6. QED
  BY <1>1, <1>2, <1>3, <1>4, <1>5

\* Nothing is in the way of its copy.
LEMMA OwnCopyGoesOn ==
  ASSUME LockInv, ReaderInv, FillParts, NEW p \in Procs, ServingProtocol(p),
         OwnHome(p), OwnInv(p), blame = {}, blame' = {}
  PROVE  ~CopyInFails(p)
<1>. SUFFICES ASSUME CopyInFails(p) PROVE FALSE
  OBVIOUS
<1>1. pc[p] = "copy_in" /\ ver[p] \in Versions
  BY DEF CopyInFails, Goto, LockInv, LockProtocol
<1>2. /\ left[p] \subseteq cache[ver[p]]
      /\ "dir" \in Installed(p, ver[p])
      /\ "links" \notin left[p] \intersect Installed(p, ver[p])
  BY <1>1 DEF ReaderInv, Undisturbed, FillParts, CopierInv, OwnInv
<1>3. ~InUse(plan[p].home, ver[p])
  BY <1>1 DEF InUse, OwnHome, ServingProtocol
<1>4. QED
  BY <1>2, <1>3, NoFault DEF CopyInFails, CopyFails

\* It sets up with the one version it has, or with the one it downloads, and
\* that is the one it starts.
LEMMA OwnSetup ==
  ASSUME LockInv, FillParts, NEW p \in Procs, ServingProtocol(p), OwnInv(p),
         SetupInstalled(p) \/ SetupDownloads(p)
  PROVE  OwnInv(p)'
<1>0. /\ TypeOK /\ NoVersion \notin Versions /\ SettingsInv(p) /\ pc[p] = "setup"
      /\ conf[p] \in [dir : Versions \union {NoVersion}, trusted : BOOLEAN]
  BY CacheAssumption DEF LockInv, TypeOK, NoVersion, FillParts, SetupInstalled, SetupDownloads
<1>1. ASSUME NEW v \in Versions, NEW tree, SetUpWith(p, v, tree), Resolve(p, tree) = v
      PROVE  OwnInv(p)'
  <2>1. /\ pc'[p] = IF plan[p].kind = "cluster" THEN "start" ELSE "check"
        /\ used'[p] = v
    BY <1>0, <1>1 DEF TypeOK, SetUpWith, Goto
  <2>2. PICK dir : /\ conf' = [conf EXCEPT ![p].dir = dir]
                   /\ plan[p].kind = "cluster" => dir = v
    BY <1>0, <1>1 DEF SetUpWith
  <2>3. conf'[p].dir = dir
    BY <1>0, <2>2 DEF TypeOK
  <2>4. QED
    BY <2>1, <2>2, <2>3 DEF OwnInv
<1>2. CASE SetupInstalled(p)
  <2>1. InstalledDir(p) \in Versions /\ "dir" \in Installed(p, InstalledDir(p))
    BY <1>0, <1>2, DirType DEF SetupInstalled, Whole
  <2>2. conf[p] = [dir |-> InstalledDir(p), trusted |-> TRUE]
    BY <1>0, <2>1 DEF OwnInv
  <2>3. \A tree : Resolve(p, tree) = InstalledDir(p)
    BY <2>2 DEF Resolve
  <2>4. QED
    BY <1>1, <1>2, <2>1, <2>3 DEF SetupInstalled
<1>3. CASE SetupDownloads(p)
  <2>. DEFINE v == Highest(plan[p].req)
              home == plan[p].home
  <2>1. v \in Versions /\ home \in Homes
    <3>1. plan[p].req \in SUBSET Versions /\ plan[p].req # {} /\ home \in Homes
      BY <1>0, PlanParts, CacheAssumption DEF TypeOK
    <3>2. QED
      BY <3>1, HighestExists
  <2>2. InstalledDir(p) = NoVersion /\ SetInstalled(p, v, Pieces \ {"marker"})
        /\ SetUpWith(p, v, install'[home])
    BY <1>3 DEF SetupDownloads
  <2>. HIDE DEF v
  <2>3. \A w \in Versions : Installed(p, w) = {}
    <3>. SUFFICES ASSUME NEW w \in Versions, Installed(p, w) # {} PROVE FALSE
      OBVIOUS
    <3>1. conf[p] = [dir |-> w, trusted |-> TRUE]
      BY <1>0 DEF OwnInv
    <3>2. QED
      BY <1>0, <2>2, <3>1 DEF InstalledDir
  <2>4. ~conf[p].trusted /\ conf[p].dir = NoVersion
    BY <1>0, <2>2 DEF InstalledDir, ServingProtocol, SettingsInv
  <2>5. \A w \in Versions :
          install'[home][w] = IF w = v THEN Pieces \ {"marker"} ELSE Installed(p, w)
    BY <1>0, <2>1, <2>2, InstallType DEF Installed
  <2>6. {w \in Versions : "bin" \in install'[home][w]} = {v}
    BY <2>1, <2>3, <2>5 DEF Pieces
  <2>7. {v} \in SUBSET Versions
    BY <2>1
  <2>8. Highest({v}) = v
    BY <2>7, HighestIsMost
  <2>9. Resolve(p, install'[home]) = v
    BY <2>4, <2>6, <2>8 DEF Resolve
  <2>10. QED
    BY <1>1, <2>1, <2>2, <2>9
<1>4. QED
  BY <1>2, <1>3

\* A step that makes nothing fail keeps such a run in order.
LEMMA OwnStep ==
  ASSUME LockInv, ReaderInv, ServedInv, FillParts, [Next]_vars,
         NEW p \in Procs, OwnHome(p), OwnInv(p), pc'[p] # "failed",
         blame = {}, blame' = {}
  PROVE  OwnInv(p)'
<1>0. TypeOK /\ ServingProtocol(p)
  BY DEF LockInv, ServedInv
<1>1. ASSUME NEW q \in Procs, Step(q) \/ Crash(q)
      PROVE  OwnInv(p)'
  <2>1. CASE q # p
    BY <1>1, <2>1, OthersElsewhere
  <2>2. CASE q = p
    <3>1. CASE \/ Lookup(p) \/ LockShared(p) \/ LockSharedFails(p)
               \/ CopyIn(p) \/ CopyInDone(p)
      BY <3>1, OwnLookup
    <3>2. CASE CopyInFails(p)
      BY <1>0, <3>2, OwnCopyGoesOn
    <3>3. CASE SetupInstalled(p) \/ SetupDownloads(p)
      BY <1>0, <3>3, OwnSetup
    <3>4. CASE SetupFails(p) \/ StartFails(p)
      BY <1>0, <3>4 DEF SetupFails, StartFails, Goto, TypeOK
    <3>5. CASE \/ Start(p) \/ CheckCached(p) \/ LockExclusive(p) \/ LockExclusiveFails(p)
               \/ CopyOut(p) \/ CopyOutFails(p) \/ MarkComplete(p)
               \/ Close(p) \/ RemovePiece(p) \/ Removed(p) \/ Crash(p)
      <4>1. pc'[p] \in {"check", "lock_exclusive", "copy_out", "up", "removing",
                        "ended", "dead"}
        BY <1>0, <3>5
        DEF TypeOK, Goto, Start, CheckCached, LockExclusive, LockExclusiveFails, CopyOut,
            CopyOutFails, MarkComplete, Close, RemovePiece, Removed, Crash
      <4>2. QED
        BY <4>1 DEF OwnInv
    <3>6. QED
      BY <1>1, <2>2, <3>1, <3>2, <3>3, <3>4, <3>5 DEF Step
  <2>3. QED
    BY <2>1, <2>2
<1>2. CASE \E v \in Versions : Purge(v)
  BY <1>2, NoFault DEF Purge
<1>3. CASE UNCHANGED vars
  BY <1>3 DEF vars, trees, OwnInv, Installed
<1>4. QED
  BY <1>1, <1>2, <1>3 DEF Next

\* However many processes share the cache, one that has its installation directory
\* to itself fails only after a fault or a removal.
THEOREM OwnInstallNeverFails == Spec => []OwnInstallNeverBlocks
<1>. DEFINE Inv == LockInv /\ ReaderInv /\ ServedInv /\ FillInv
            Explained == \A p \in Procs : pc'[p] = "failed" /\ pc[p] # "failed" =>
              \/ blame' # {}
              \/ pc[p] = "setup" /\ BeingCopied(p, InstalledDir(p))
              \/ pc[p] = "start" /\ BeingCopied(p, conf[p].dir)
              \/ pc[p] = "start" /\ plan[p].root /\ conf[p].dir > used[p]
<1>1. Init => OwnInstallInv
  <2>. SUFFICES ASSUME Init, NEW p \in Procs PROVE OwnInv(p)
    BY DEF OwnInstallInv
  <2>1. plan[p].home \in Homes
    BY CacheAssumption DEF Init, PlanType
  <2>2. \A v \in Versions : Installed(p, v) = {}
    BY <2>1 DEF Init, Installed
  <2>3. QED
    BY <2>2 DEF Init, OwnInv
<1>2. Inv /\ OwnInstallInv /\ [Next]_vars /\ [Explained]_vars => OwnInstallInv'
  <2>. SUFFICES ASSUME Inv, OwnInstallInv, [Next]_vars, [Explained]_vars, blame' = {},
                       NEW p \in Procs, OwnHome(p)'
                PROVE  OwnInv(p)'
    BY DEF OwnInstallInv
  <2>1. blame = {} /\ FillParts
    BY BlameGrows DEF FillInv, Unhurt
  <2>2. OwnHome(p) /\ OwnInv(p)
    BY <2>1, PlansStay DEF OwnHome, OwnInstallInv
  <2>3. pc'[p] # "failed"
    <3>1. \A v : ~BeingCopied(p, v)
      BY <2>2 DEF OwnHome, BeingCopied
    <3>2. pc[p] = "start" => ~(conf[p].dir > used[p])
      <4>1. ASSUME pc[p] = "start" PROVE conf[p].dir = used[p] /\ conf[p].dir \in Nat
        BY <2>2, <4>1, CacheAssumption DEF OwnInv, ServedInv, ServingProtocol
      <4>2. QED
        BY <4>1
    <3>3. pc[p] # "failed"
      BY <2>2 DEF OwnInv
    <3>4. CASE Explained
      BY <3>1, <3>2, <3>3, <3>4
    <3>5. CASE UNCHANGED vars
      BY <3>3, <3>5 DEF vars
    <3>6. QED
      BY <3>4, <3>5
  <2>4. QED
    BY <2>1, <2>2, <2>3, OwnStep
<1>3. OwnInstallInv => OwnInstallNeverBlocks
  BY DEF OwnInstallInv, OwnInstallNeverBlocks, OwnInv
<1>4. QED
  BY <1>1, <1>2, <1>3, FailureExplained, FillInvHolds, LockInvHolds, ServedInvHolds, PTL
  DEF Spec, FailureHasCause
=============================================================================
