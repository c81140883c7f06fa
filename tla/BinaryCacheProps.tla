-------------------------- MODULE BinaryCacheProps --------------------------
(***************************************************************************)
(* What the binary cache must guarantee, and the abstract EntryCache it    *)
(* implements.                                                             *)
(***************************************************************************)
EXTENDS BinaryCache

\* An entry that lookups accept is whole, however many processes fill, read
\* and are killed, as long as nobody deletes entries or installations under
\* them: the marker is written last, under the exclusive lock.
CompleteIsWhole ==
  blame \intersect {"purge", "removed"} = {} =>
    \A v \in Versions : Complete(cache[v]) => Whole(cache[v])

\* While a process copies an entry into an installation, nobody but a user
\* that deletes it changes the entry.
ReadsAreStable ==
  [][\A v \in Versions :
       Holders(v, {"shared"}) # {} => cache'[v] \in {cache[v], {}}]_vars

\* Another process is in the middle of copying version v into the home of p.
BeingCopied(p, v) ==
  \E q \in Procs \ {p} :
    pc[q] = "copy_in" /\ ver[q] = v /\ plan[q].home = plan[p].home

\* Without a fault or a removal, a run fails only in two ways: what it takes for
\* its installation is the unfinished copy of another process, or root resolved
\* its directory to a higher version than the one it set up with.
FailureHasCause ==
  [][\A p \in Procs : pc'[p] = "failed" /\ pc[p] # "failed" =>
       \/ blame' # {}
       \/ pc[p] = "setup" /\ BeingCopied(p, InstalledDir(p))
       \/ pc[p] = "start" /\ BeingCopied(p, conf[p].dir)
       \/ pc[p] = "start" /\ plan[p].root /\ conf[p].dir > used[p]]_vars

\* docs/cache.md:92: "Cache operations are best-effort: failures log warnings
\* and fall back to normal downloads without blocking test execution".
CacheNeverBlocks ==
  blame = {} => \A p \in Procs : pc[p] # "failed"

\* No other process has the base installation directory of p.
OwnHome(p) == \A q \in Procs : plan[q].home = plan[p].home => q = p

\* What it takes for CacheNeverBlocks to fail is an installation directory that
\* two processes share.  With one of its own, and whatever the others do to the
\* cache they all share, a run fails only after a fault or a removal.
OwnInstallNeverBlocks ==
  blame = {} => \A p \in Procs : OwnHome(p) => pc[p] # "failed"

\* The tree a running server came from is whole, except while another process
\* copies over it, and after such a copy broke off or a removal began.
ServedTreeIsWhole ==
  \A p \in Procs : serving[p] /\ ~Whole(Installed(p, conf[p].dir)) =>
    \/ BeingCopied(p, conf[p].dir)
    \/ blame \intersect {"crash", "copy", "purge", "removed"} # {}

\* Every run that is not killed comes to its end: no process waits for a lock
\* for ever.
EveryRunEnds ==
  \A p \in Procs : <>(pc[p] \in {"ended", "failed", "dead"})

-----------------------------------------------------------------------------
(* Refinement.                                                             *)

Entries == INSTANCE EntryCache WITH
  readers <- [v \in Versions |-> Holders(v, {"shared"})],
  writers <- [v \in Versions |-> Holders(v, {"exclusive"})],
  published <- [v \in Versions |-> /\ Complete(cache[v])
                                   /\ Holders(v, {"exclusive"}) = {}]

\* The locks and the double checks make the entries an EntryCache.
ImplementsEntryCache == Entries!Spec

-----------------------------------------------------------------------------
(* The inductive strengthenings the proofs use.                            *)

\* Which lock a process has where, and what it is about.
LockProtocol(p) ==
  /\ holds[p] = "shared" <=> pc[p] = "copy_in"
  /\ holds[p] = "exclusive" <=> pc[p] = "copy_out"
  /\ pc[p] \in {"lock_shared", "copy_in", "lock_exclusive", "copy_out"}
       => ver[p] \in Versions

LockInv ==
  /\ TypeOK
  /\ \A p \in Procs : LockProtocol(p)
  /\ \A p, q \in Procs : p # q /\ ver[p] = ver[q] /\ holds[p] = "exclusive"
       => holds[q] = "none"

\* What only a user's deletion or CleanupMode::Full takes away.
Undisturbed == blame \intersect {"purge", "removed"} = {}

\* What a tree that is copied out has: no part of it is unfinished, and no marker.
Downloaded == Pieces \ {"marker"}

\* The marker is on whole entries only, and got nowhere before the entry was
\* complete; until then an installation of the version is one that was downloaded.
EntryInv(v) ==
  /\ "marker" \in cache[v] => Whole(cache[v])
  /\ ~Complete(cache[v]) => \A h \in Homes : install[h][v] \in {{}, Downloaded}

\* What a process copies in is complete; what it copies out is not yet, and what
\* it has not reached is still to be had.
CopyInv(p) ==
  /\ pc[p] = "copy_in" => Complete(cache[ver[p]])
  /\ pc[p] = "copy_out" =>
       /\ ~Complete(cache[ver[p]])
       /\ Installed(p, ver[p]) = Downloaded
       /\ Downloaded \subseteq cache[ver[p]] \union left[p]
       /\ "marker" \notin left[p]
       /\ "bin" \in left[p] => "files" \in left[p]

CacheInv ==
  Undisturbed => /\ \A v \in Versions : EntryInv(v)
                 /\ \A p \in Procs : CopyInv(p)

\* What a process copies in is there to be copied, and the files come after bin/.
ReaderInv ==
  Undisturbed => \A p \in Procs : pc[p] = "copy_in" =>
    /\ left[p] \subseteq cache[ver[p]]
    /\ "bin" \in left[p] => "files" \in left[p]

\* A process that starts a server has a version directory, and serves after that.
ServingProtocol(p) ==
  /\ conf[p].trusted \/ pc[p] = "start" \/ serving[p] => conf[p].dir \in Versions
  /\ serving[p] => pc[p] \in {"check", "lock_exclusive", "copy_out", "up", "dead"}

\* Nothing that leaves a tree unfinished has happened.
Unhurt == blame \intersect {"crash", "copy", "purge", "removed"} = {}

RewrittenBy(q, h, v) ==
  pc[q] = "copy_in" /\ plan[q].home = h /\ ver[q] = v /\ Rewriting(q)

\* What a server runs from lacks the regular files at most, and then somebody is
\* rewriting them and has to go on.
ServedInv ==
  /\ \A p \in Procs : ServingProtocol(p)
  /\ Unhurt => \A p \in Procs : serving[p] =>
       /\ {"dir", "bin", "links"} \subseteq Installed(p, conf[p].dir)
       /\ \/ "files" \in Installed(p, conf[p].dir)
          \/ \E q \in Procs : RewrittenBy(q, plan[p].home, conf[p].dir)

CopiesInto(q, h, v) == pc[q] = "copy_in" /\ plan[q].home = h /\ ver[q] = v

\* A process with installations of its own: as long as nothing goes wrong it has
\* one version, the one it copied in or downloaded, and starts the one it set
\* up with.
OwnInv(p) ==
  /\ pc[p] \in {"lookup", "lock_shared"} => \A v \in Versions : Installed(p, v) = {}
  /\ pc[p] = "copy_in" => /\ \A v \in Versions \ {ver[p]} : Installed(p, v) = {}
                          /\ "links" \in left[p] => "links" \notin Installed(p, ver[p])
  /\ pc[p] = "setup" => \A v \in Versions :
       Installed(p, v) # {} => conf[p] = [dir |-> v, trusted |-> TRUE]
  /\ pc[p] = "start" => conf[p].dir = used[p]
  /\ pc[p] # "failed"

OwnInstallInv == blame = {} => \A p \in Procs : OwnHome(p) => OwnInv(p)

\* What an installation lacks, a process that copies into it has still to bring.
\* Who brings bin/ is not the one to break off on a link that is there, and who
\* has taken the regular files away is writing them again.
TreeInv(h, v) ==
  LET tree == install[h][v]
  IN  /\ tree # {} => "dir" \in tree
      /\ "dir" \in tree /\ "bin" \notin tree =>
           \E q \in Procs : /\ CopiesInto(q, h, v) /\ "bin" \in left[q]
                            /\ "links" \in tree => "links" \notin left[q]
      /\ "dir" \in tree /\ "links" \notin tree =>
           \E q \in Procs : CopiesInto(q, h, v) /\ "links" \in left[q]
      /\ "bin" \in tree /\ "files" \notin tree =>
           \E q \in Procs : RewrittenBy(q, h, v)

\* What a process has copied in is there, but for the files.
CopierInv(q) ==
  pc[q] = "copy_in" => /\ "dir" \notin left[q]
                       /\ {"dir", "bin", "links"} \ left[q] \subseteq Installed(q, ver[q])

\* Before its setup a process has no version directory unless it copied it in;
\* afterwards it has the one it set up with, or root a higher one.
SettingsInv(p) ==
  /\ pc[p] \in {"lookup", "lock_shared", "copy_in", "setup"} /\ ~conf[p].trusted
       => conf[p].dir = NoVersion
  /\ conf[p].trusted \/ pc[p] = "start" => "dir" \in Installed(p, conf[p].dir)
  /\ pc[p] = "start" => \/ conf[p].dir = used[p]
                        \/ plan[p].root /\ conf[p].dir > used[p]

FillParts ==
  /\ \A h \in Homes, v \in Versions : TreeInv(h, v)
  /\ \A p \in Procs : CopierInv(p) /\ SettingsInv(p)

FillInv == Unhurt => FillParts
=============================================================================
