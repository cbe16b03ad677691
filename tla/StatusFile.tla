----------------------------- MODULE StatusFile -----------------------------
(***************************************************************************)
(* Publication of the status file by temporary file and rename:            *)
(* OWSLIPCWriter.write of src/owsl_ipc.py, whose temporary path is fixed   *)
(* and so shared by the daemon and `owsl_ipc.py test', and                 *)
(* publish_status_atomic of owsl_bridge.rs, whose temporary path is unique *)
(* to each call.  TmpOf says which writer uses which path.                 *)
(*                                                                         *)
(* Files are inodes: an open file stays the same inode after a rename, so  *)
(* a writer may go on writing into the file that was just published.       *)
(***************************************************************************)
EXTENDS Naturals, FiniteSets

CONSTANTS
  Writers,       \* calls of write(), one at a time per writer
  Paths,         \* temporary paths
  TmpOf,         \* [Writers -> Paths]
  Statuses,      \* the complete statuses that may be written
  Inodes,        \* enough for every path and every open file
  OneShot,       \* writers that write once and exit: owsl_ipc.py test
  NoInode,       \* no inode
  Empty, Torn    \* a file of no bytes / whose bytes are no complete status

ASSUME PathAssumption == TmpOf \in [Writers -> Paths]

ASSUME ValueAssumption ==
  /\ Torn \notin Statuses /\ Empty \notin Statuses /\ NoInode \notin Statuses
  /\ NoInode # Torn /\ NoInode # Empty
  /\ NoInode \notin Inodes
  /\ OneShot \subseteq Writers

VARIABLES
  place,     \* where a writer is: idle, opened, written, failed, done
  fd,        \* the inode a writer has open
  val,       \* the status a writer is about to publish
  tmp,       \* the inode at each temporary path
  target,    \* the inode at the path of the status file
  bytes      \* what each inode holds

fileVars == <<place, fd, val, tmp, target, bytes>>

FileInit ==
  /\ place = [w \in Writers |-> "idle"]
  /\ fd = [w \in Writers |-> NoInode]
  /\ val \in [Writers -> Statuses]
  /\ tmp = [p \in Paths |-> NoInode]
  /\ target = NoInode
  /\ bytes = [i \in Inodes |-> Empty]

InUse == {fd[w] : w \in Writers} \cup {tmp[p] : p \in Paths} \cup {target}

\* Mutant of Open: the temporary file is opened without truncation.
OpenNoTruncate(w, s, i) ==
  LET path == TmpOf[w] IN
  /\ place[w] = "idle"
  /\ IF tmp[path] = NoInode THEN i \in Inodes \ InUse ELSE i = tmp[path]
  /\ place' = [place EXCEPT ![w] = "opened"]
  /\ val' = [val EXCEPT ![w] = s]
  /\ fd' = [fd EXCEPT ![w] = i]
  /\ tmp' = [tmp EXCEPT ![path] = i]
  /\ bytes' = [bytes EXCEPT ![i] = IF tmp[path] = NoInode THEN Empty ELSE @]
  /\ UNCHANGED target

\* Mutant of Open: one fixed path, whatever path is renamed afterwards.
OpenFixedPath(w, s, i) ==
  LET path == CHOOSE p \in Paths : TRUE IN
  /\ place[w] = "idle"
  /\ IF tmp[path] = NoInode THEN i \in Inodes \ InUse ELSE i = tmp[path]
  /\ place' = [place EXCEPT ![w] = "opened"]
  /\ val' = [val EXCEPT ![w] = s]
  /\ fd' = [fd EXCEPT ![w] = i]
  /\ tmp' = [tmp EXCEPT ![path] = i]
  /\ bytes' = [bytes EXCEPT ![i] = Empty]
  /\ UNCHANGED target

\* open(tmp, "w"): a new empty file, or the one that is there, truncated.
Open(w, s, i) ==
  LET path == TmpOf[w] IN
  /\ place[w] = "idle"
  /\ IF tmp[path] = NoInode THEN i \in Inodes \ InUse ELSE i = tmp[path]
  /\ place' = [place EXCEPT ![w] = "opened"]
  /\ val' = [val EXCEPT ![w] = s]
  /\ fd' = [fd EXCEPT ![w] = i]
  /\ tmp' = [tmp EXCEPT ![path] = i]
  /\ bytes' = [bytes EXCEPT ![i] = Empty]
  /\ UNCHANGED target

\* write, flush, fsync and close.  The bytes go over the start of the file:
\* if another writer has put a longer status there, its tail stays behind.
WriteBytes(w) ==
  /\ place[w] = "opened"
  /\ \E b \in {val[w]} \cup (IF bytes[fd[w]] = Empty THEN {} ELSE {Torn}) :
       bytes' = [bytes EXCEPT ![fd[w]] = b]
  /\ place' = [place EXCEPT ![w] = "written"]
  /\ fd' = [fd EXCEPT ![w] = NoInode]
  /\ UNCHANGED <<val, tmp, target>>

\* Mutant of Replace: the temporary file is copied and stays where it is.
ReplaceKeepsTmp(w) ==
  LET path == TmpOf[w] IN
  /\ place[w] = "written"
  /\ tmp[path] # NoInode
  /\ target' = tmp[path]
  /\ place' = [place EXCEPT ![w] = IF w \in OneShot THEN "done" ELSE "idle"]
  /\ UNCHANGED <<fd, val, tmp, bytes>>

\* os.replace / fs::rename: whatever is at the temporary path now.
Replace(w) ==
  LET path == TmpOf[w] IN
  /\ place[w] = "written"
  /\ tmp[path] # NoInode
  /\ target' = tmp[path]
  /\ tmp' = [tmp EXCEPT ![path] = NoInode]
  /\ place' = [place EXCEPT ![w] = IF w \in OneShot THEN "done" ELSE "idle"]
  /\ UNCHANGED <<fd, val, bytes>>

\* os.replace raises FileNotFoundError: another writer has renamed the file
\* away.  Nothing in run() or cmd_test catches it.
ReplaceFails(w) ==
  /\ place[w] = "written"
  /\ tmp[TmpOf[w]] = NoInode
  /\ place' = [place EXCEPT ![w] = "failed"]
  /\ UNCHANGED <<fd, val, tmp, target, bytes>>

\* The process dies; the temporary file stays.
Crash(w) ==
  /\ place[w] \in {"opened", "written"}
  /\ place' = [place EXCEPT ![w] = "failed"]
  /\ fd' = [fd EXCEPT ![w] = NoInode]
  /\ UNCHANGED <<val, tmp, target, bytes>>

\* The service manager starts the process again.
Restart(w) ==
  /\ place[w] = "failed" /\ w \notin OneShot
  /\ place' = [place EXCEPT ![w] = "idle"]
  /\ UNCHANGED <<fd, val, tmp, target, bytes>>

Step(w) ==
  \/ \E s \in Statuses, i \in Inodes : Open(w, s, i)
  \/ WriteBytes(w) \/ Replace(w) \/ ReplaceFails(w) \/ Crash(w) \/ Restart(w)

FileNext == \E w \in Writers : Step(w)

FileSpec == FileInit /\ [][FileNext]_fileVars

\* The daemon's loop goes on, its service manager restarts it, and crashes do
\* not hit every single attempt to write.
FairFileSpec ==
  /\ FileSpec
  /\ \A w \in Writers :
       /\ WF_fileVars(\E s \in Statuses, i \in Inodes : Open(w, s, i))
       /\ SF_fileVars(WriteBytes(w)) /\ SF_fileVars(Replace(w))
       /\ WF_fileVars(ReplaceFails(w)) /\ WF_fileVars(Restart(w))
-----------------------------------------------------------------------------
FileTypeOK ==
  /\ place \in [Writers -> {"idle", "opened", "written", "failed", "done"}]
  /\ fd \in [Writers -> Inodes \cup {NoInode}]
  /\ val \in [Writers -> Statuses]
  /\ tmp \in [Paths -> Inodes \cup {NoInode}]
  /\ target \in Inodes \cup {NoInode}
  /\ bytes \in [Inodes -> Statuses \cup {Empty, Torn}]

\* What a reader finds: nothing, one complete status, or else.
Published == IF target = NoInode THEN NoInode ELSE bytes[target]

\* A reader never finds an incomplete status ("a concurrent reader never
\* observes a partial file", "status is written atomically").
NeverTorn == Published \in Statuses \cup {NoInode}

\* A writer that is alive and did not crash finds the file it has written:
\* os.replace never fails, so publishing never kills the daemon.
ReplaceFindsFile == \A w \in Writers : place[w] = "written" => tmp[TmpOf[w]] # NoInode

\* Publication by rename implements the register: every step is one
\* overwrite of the whole status, or invisible to the reader.
Register == INSTANCE StatusRegister WITH file <- Published, NoFile <- NoInode
RegisterSpec == Register!Spec

\* With writers on one path, what a one-shot writer broke is repaired: from
\* some time on the published file is, and stays, a complete status.
Repaired == <>[](Published \in Statuses)
=============================================================================
