--------------------------- MODULE DataDirectory ---------------------------
(***************************************************************************)
(* The directories the root test processes of one machine share, under     *)
(* /var/tmp/pg-embed-<uid of nobody>, and the PostgreSQL programs that     *)
(* write in them: initdb and the postmaster.  The programs are external:   *)
(* they are described by what src/ relies on, the order in which initdb    *)
(* writes, what it does when it fails, and when postmaster.pid is there.   *)
(***************************************************************************)
EXTENDS Naturals, Sequences

CONSTANTS
  Procs,     \* the test processes
  Together   \* the sets of Causes that may come together in one behaviour

\* A deadline passes before the work is done; a process is killed with all it
\* runs; the postmaster is killed; a download, initdb or a start fails by itself; a
\* removal stops half way.
FaultKinds == {"timeout", "kill", "server_dies", "tool", "remove"}
Causes == FaultKinds \cup {"overlap"}

VARIABLES
  disk,       \* the entries of both directories
  rootOwned,  \* those of the two directories that are not nobody's (yet)
  server,     \* the postmaster whose postmaster.pid is in the data directory
  orphan,     \* a postmaster lost its directory while it ran
  initdb,     \* the initdb that each process's worker started
  blame       \* what has gone wrong so far (history, read by no action)

disks == <<disk, rootOwned, server, orphan>>

\* What initdb writes, in its order: the subdirectories, PG_VERSION, an empty
\* postgresql.conf, then global/pg_filenode.map while it bootstraps the first
\* database, and the other databases.
InitdbWrites == <<"subdirs", "PG_VERSION", "conf", "map", "rest">>

Pieces == {InitdbWrites[i] : i \in DOMAIN InitdbWrites}

DataContents == Pieces \cup {"pid"}
DataTree == DataContents \cup {"data"}
\* "xdg" are the cache and run directories the bootstrap makes in it.
InstallTree == {"install", "bin", "xdg"}

NextPiece(x) ==
  IF x = "rest" THEN "ok"
  ELSE LET i == CHOOSE j \in DOMAIN InitdbWrites : InitdbWrites[j] = x
       IN InitdbWrites[i + 1]

InitdbRunning == Pieces \cup {"check"}

Whole == Pieces \cup {"data"} \subseteq disk
\* A postmaster comes up without the databases initdb makes last.
Startable == (Pieces \ {"rest"}) \cup {"data"} \subseteq disk

\* The bound of a run: all that went wrong is in one of its sets.
MayHappen(causes) == \E mix \in Together : causes \subseteq mix

Fault(f) == blame' = blame \cup {f} /\ MayHappen(blame')

\* Entries go; a postmaster whose pid file goes is on its own.
Lose(entries) ==
  /\ disk' = disk \ entries
  /\ rootOwned' = rootOwned \ entries
  /\ IF "pid" \in entries \cap disk /\ server # "down"
     THEN server' = "down" /\ orphan' = TRUE
     ELSE UNCHANGED <<server, orphan>>

Add(entries) == disk' = disk \cup entries /\ UNCHANGED <<rootOwned, server, orphan>>

-----------------------------------------------------------------------------
(* initdb *)

InitdbTo(p, x) == initdb' = [initdb EXCEPT ![p] = x]

\* It takes a missing or an empty directory, and leaves any other alone.
InitdbCheck(p) ==
  /\ initdb[p] = "check"
  /\ IF DataContents \cap disk # {} \/ "data" \in rootOwned
     THEN InitdbTo(p, "failed") /\ UNCHANGED disks
     ELSE InitdbTo(p, "subdirs") /\ Add({"data"})
  /\ UNCHANGED blame

\* Its directory is still the one it began with.
InitdbAtHome(p) ==
  /\ "data" \in disk
  /\ initdb[p] = "subdirs" <=> "subdirs" \notin disk

InitdbWrite(p) ==
  /\ initdb[p] \in Pieces
  /\ InitdbAtHome(p)
  /\ Add({initdb[p]})
  /\ InitdbTo(p, NextPiece(initdb[p]))
  /\ UNCHANGED blame

\* When it fails it removes what is in the directory, and the directory too if
\* it made it.
InitdbFails(p) ==
  /\ initdb[p] \in Pieces
  /\ IF InitdbAtHome(p) THEN Fault("tool") ELSE UNCHANGED blame
  /\ Lose(DataContents) \/ Lose(DataTree)
  /\ InitdbTo(p, "failed")

InitdbKilled(p) ==
  /\ initdb[p] \in InitdbRunning
  /\ Fault("kill")
  /\ InitdbTo(p, "failed")
  /\ UNCHANGED disks

-----------------------------------------------------------------------------
(* The postmaster *)

\* It writes postmaster.pid first, over one that a dead postmaster left.
Launch ==
  /\ server = "down" /\ Startable
  /\ server' = "starting"
  /\ disk' = disk \cup {"pid"}
  /\ UNCHANGED <<rootOwned, orphan>>

ServerUp ==
  /\ server = "starting" /\ Startable
  /\ server' = "up"
  /\ UNCHANGED <<disk, rootOwned, orphan, initdb, blame>>

\* Somebody took the port that was free when it was chosen, or the files it
\* needs.
ServerFails ==
  /\ server = "starting"
  /\ IF Startable THEN Fault("tool") ELSE UNCHANGED blame
  /\ server' = "down"
  /\ disk' = disk \ {"pid"}
  /\ UNCHANGED <<rootOwned, orphan, initdb>>

ServerStops ==
  /\ server = "stopping"
  /\ server' = "down"
  /\ disk' = disk \ {"pid"}
  /\ UNCHANGED <<rootOwned, orphan, initdb, blame>>

\* Killed, it leaves its pid file.
ServerDies ==
  /\ server # "down"
  /\ Fault("server_dies")
  /\ server' = "down"
  /\ UNCHANGED <<disk, rootOwned, orphan, initdb>>

Tools ==
  \/ \E p \in Procs :
       InitdbCheck(p) \/ InitdbWrite(p) \/ InitdbFails(p) \/ InitdbKilled(p)
  \/ ServerUp \/ ServerFails \/ ServerStops \/ ServerDies
=============================================================================
