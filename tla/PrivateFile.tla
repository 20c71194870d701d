---------------------------- MODULE PrivateFile ----------------------------
(***************************************************************************)
(* How files with secrets, and the audit log, are opened: the passphrase   *)
(* file and the systemd credential (config.rs), the audit log (audit.rs)   *)
(* and the cache key and the cache files (cache.rs).  Each is several      *)
(* system calls on a path whose file something else may replace, relink or *)
(* chmod in between.                                                       *)
(*                                                                         *)
(* The code opens without following a symbolic link and then examines the  *)
(* file it opened, never the path again; only cache files are simply read. *)
(* New files are written under a fresh name, created exclusively, and      *)
(* renamed into place.                                                     *)
(***************************************************************************)
EXTENDS Naturals, FiniteSets

CONSTANTS Old,      \* inodes that the program did not make
          New,      \* inodes that it may make
          None

ASSUME InodesAssumption == Old \cap New = {} /\ None \notin Old \cup New

VARIABLES
  inode,       \* inode[i] = the kind, the mode and, of a link, the target of i
  dir,         \* dir[name] = the inode at that path, or None
  job,         \* what the program is doing
  wasPrivate,  \* history: files that were 0600 at some time since job opened one
  full         \* history: inodes that the program wrote, completely

vars == <<inode, dir, job, wasPrivate, full>>

Inodes == Old \cup New
Paths == {"input", "key", "log"}
Kinds == {"regular", "link", "other"}       \* other: a directory
Attributes == [kind : Kinds \cup {"none"}, private : BOOLEAN,
               to : Inodes \cup {None}]

Unmade == [kind |-> "none", private |-> TRUE, to |-> None]

\* One path stands for the three files that the program only reads here: the
\* passphrase file, the systemd credential and a cache file.
Tasks == {"passphrase", "credential", "key", "log", "cache"}
PathOf(task) == IF task \in {"key", "log"} THEN task ELSE "input"

Idle == [task |-> "log", pc |-> "idle", fd |-> None]
Jobs == [task : Tasks,
         pc : {"idle", "exists", "open", "stat", "read", "chmod", "append",
               "create", "write", "rename", "used", "failed"},
         fd : Inodes \cup {None}]

TypeOK ==
  /\ inode \in [Inodes -> Attributes]
  /\ dir \in [Paths \cup {"tmp"} -> Inodes \cup {None}]
  /\ job \in Jobs
  /\ job.fd # None => inode[job.fd].kind \in {"regular", "other"}
  /\ wasPrivate \in SUBSET Inodes
  /\ full \in SUBSET Inodes

Init ==
  /\ inode \in [Inodes -> Attributes]
  /\ \A i \in New : inode[i] = Unmade
  /\ \A i \in Old :
       /\ inode[i].kind # "none"
       /\ IF inode[i].kind = "link"
            THEN /\ inode[i].to \in Old \cup {None}
                 /\ inode[i].to # None => inode[inode[i].to].kind # "link"
                 /\ inode[i].private
            ELSE inode[i].to = None
  /\ dir = [path \in Paths \cup {"tmp"} |-> None]
  /\ job = Idle
  /\ wasPrivate = {} /\ full = {}

IsLink(i) == inode[i].kind = "link"
IsFile(i) == inode[i].kind = "regular"
Private(i) == {j \in {i} : inode[j].private}

Goto(pc) == job' = [job EXCEPT !.pc = pc]
At(tasks, pc) == job.pc = pc /\ job.task \in tasks

-----------------------------------------------------------------------------
Start(task) ==
  /\ job.pc \in {"idle", "used", "failed"}
  /\ job' = [task |-> task, pc |-> IF task = "key" THEN "exists" ELSE "open",
             fd |-> None]
  /\ dir' = [dir EXCEPT !["tmp"] = None]     \* another random name
  /\ UNCHANGED <<inode, wasPrivate, full>>

\* Path::exists follows links.
KeyExists ==
  LET i == dir["key"]
      there == i # None /\ (IsLink(i) => inode[i].to # None)
  IN  /\ At({"key"}, "exists")
      /\ Goto(IF there THEN "open" ELSE "create")
      /\ UNCHANGED <<inode, dir, wasPrivate, full>>

Readers == {"passphrase", "credential", "key"}

\* Mutant: O_NOFOLLOW is left out.
OpenForRead_Follows ==
  LET i == dir[PathOf(job.task)]
      j == IF i # None /\ IsLink(i) THEN inode[i].to ELSE i
  IN  /\ At(Readers, "open")
      /\ job' = IF j = None THEN [job EXCEPT !.pc = "failed"]
                            ELSE [job EXCEPT !.pc = "stat", !.fd = j]
      /\ wasPrivate' = IF j = None THEN {} ELSE Private(j)
      /\ UNCHANGED <<inode, dir, full>>

\* open(O_NOFOLLOW): nothing there, or a link, is an error.
OpenForRead ==
  LET i == dir[PathOf(job.task)]
      fails == i = None \/ IsLink(i)
  IN  /\ At(Readers, "open")
      /\ job' = IF fails THEN [job EXCEPT !.pc = "failed"]
                         ELSE [job EXCEPT !.pc = "stat", !.fd = i]
      /\ wasPrivate' = IF fails THEN {} ELSE Private(i)
      /\ UNCHANGED <<inode, dir, full>>

\* The checks on the opened file.  The mode of a credential is systemd's affair.
Acceptable(i) == IsFile(i) /\ (inode[i].private \/ job.task = "credential")

\* Mutant: the file is examined by its path.
StatForRead_ByPath ==
  LET i == dir[PathOf(job.task)]
  IN  /\ At(Readers, "stat")
      /\ Goto(IF i # None /\ Acceptable(i) THEN "read" ELSE "failed")
      /\ UNCHANGED <<inode, dir, wasPrivate, full>>

StatForRead ==
  /\ At(Readers, "stat")
  /\ Goto(IF Acceptable(job.fd) THEN "read" ELSE "failed")
  /\ UNCHANGED <<inode, dir, wasPrivate, full>>

Read ==
  /\ At(Readers, "read")
  /\ Goto("used")
  /\ UNCHANGED <<inode, dir, wasPrivate, full>>

\* CacheStore::load: fs::read, which follows links.  What it reads still has to
\* decrypt (module OfflineCache).
LoadCache ==
  LET i == dir["input"]
      j == IF i # None /\ IsLink(i) THEN inode[i].to ELSE i
  IN  /\ At({"cache"}, "open")
      /\ job' = IF j # None /\ IsFile(j)
                  THEN [job EXCEPT !.pc = "used", !.fd = j]
                  ELSE [job EXCEPT !.pc = "failed"]
      /\ UNCHANGED <<inode, dir, wasPrivate, full>>

-----------------------------------------------------------------------------
(***************************************************************************)
(* AuditLog::open                                                          *)
(***************************************************************************)
Make(i) == inode' = [inode EXCEPT ![i] = [Unmade EXCEPT !.kind = "regular"]]

\* open(O_CREAT|O_APPEND|O_NOFOLLOW, 0600); a directory cannot be written to.
OpenLog ==
  LET i == dir["log"]
  IN  /\ At({"log"}, "open")
      /\ \/ /\ i = None
            /\ \E n \in New : /\ inode[n] = Unmade
                              /\ Make(n)
                              /\ dir' = [dir EXCEPT !["log"] = n]
                              /\ job' = [job EXCEPT !.pc = "stat", !.fd = n]
                              /\ wasPrivate' = {n}
         \/ /\ i # None
            /\ job' = IF IsFile(i) THEN [job EXCEPT !.pc = "stat", !.fd = i]
                                   ELSE [job EXCEPT !.pc = "failed"]
            /\ wasPrivate' = Private(i)
            /\ UNCHANGED <<inode, dir>>
      /\ UNCHANGED full

\* ensure_private
StatLog ==
  /\ At({"log"}, "stat")
  /\ Goto(IF ~IsFile(job.fd) THEN "failed"
          ELSE IF inode[job.fd].private THEN "append" ELSE "chmod")
  /\ UNCHANGED <<inode, dir, wasPrivate, full>>

ChmodLog ==
  /\ At({"log"}, "chmod")
  /\ inode' = [inode EXCEPT ![job.fd].private = TRUE]
  /\ wasPrivate' = wasPrivate \cup {job.fd}
  /\ Goto("append")
  /\ UNCHANGED <<dir, full>>

Append == /\ At({"log"}, "append")
          /\ Goto("used")
          /\ UNCHANGED <<inode, dir, wasPrivate, full>>

-----------------------------------------------------------------------------
(***************************************************************************)
(* write_private_file, for a cache key that is not there                   *)
(***************************************************************************)
\* Mutant: the file is created under its own name.
CreateTemp_InPlace ==
  /\ At({"key"}, "create")
  /\ \E n \in New : /\ inode[n] = Unmade
                    /\ Make(n)
                    /\ dir' = [dir EXCEPT !["tmp"] = n, !["key"] = n]
                    /\ job' = [job EXCEPT !.pc = "write", !.fd = n]
                    /\ wasPrivate' = {n}
  /\ UNCHANGED full

\* create_new: something at the temporary name is an error, and is removed.
CreateTemp ==
  /\ At({"key"}, "create")
  /\ IF dir["tmp"] # None
       THEN /\ dir' = [dir EXCEPT !["tmp"] = None]
            /\ Goto("failed")
            /\ UNCHANGED <<inode, wasPrivate>>
       ELSE \E n \in New : /\ inode[n] = Unmade
                           /\ Make(n)
                           /\ dir' = [dir EXCEPT !["tmp"] = n]
                           /\ job' = [job EXCEPT !.pc = "write", !.fd = n]
                           /\ wasPrivate' = {n}
  /\ UNCHANGED full

WriteTemp ==
  /\ At({"key"}, "write")
  /\ full' = full \cup {job.fd}
  /\ Goto("rename")
  /\ UNCHANGED <<inode, dir, wasPrivate>>

\* A failed write or rename removes the temporary file.
WriteTempFails ==
  /\ At({"key"}, "write") \/ At({"key"}, "rename")
  /\ dir' = [dir EXCEPT !["tmp"] = None]
  /\ Goto("failed")
  /\ UNCHANGED <<inode, wasPrivate, full>>

Rename ==
  /\ At({"key"}, "rename")
  /\ IF dir["key"] # None /\ inode[dir["key"]].kind = "other"
       THEN dir' = [dir EXCEPT !["tmp"] = None] /\ Goto("failed")
       ELSE dir' = [dir EXCEPT !["key"] = job.fd, !["tmp"] = None] /\ Goto("used")
  /\ UNCHANGED <<inode, wasPrivate, full>>

\* The process dies; a temporary file stays behind.
Crash == /\ job.pc \notin {"idle", "used", "failed"}
         /\ job' = Idle
         /\ UNCHANGED <<inode, dir, wasPrivate, full>>

-----------------------------------------------------------------------------
(***************************************************************************)
(* Everybody else                                                          *)
(***************************************************************************)
Replace(path, i) == /\ dir[path] # i
                    /\ dir' = [dir EXCEPT ![path] = i]
                    /\ UNCHANGED <<inode, job, wasPrivate, full>>

\* Something is put at the temporary name before the program gets there.
Plant(i) == /\ dir["tmp"] = None
            /\ dir' = [dir EXCEPT !["tmp"] = i]
            /\ UNCHANGED <<inode, job, wasPrivate, full>>

Chmod(i) == /\ inode[i].kind \in {"regular", "other"}
            /\ inode' = [inode EXCEPT ![i].private = ~@]
            /\ wasPrivate' = wasPrivate \cup Private(i)
                               \cup {j \in {i} : ~inode[j].private}
            /\ UNCHANGED <<dir, job, full>>

Program == \/ KeyExists \/ OpenForRead \/ StatForRead \/ Read \/ LoadCache
           \/ OpenLog \/ StatLog \/ ChmodLog \/ Append
           \/ CreateTemp \/ WriteTemp \/ WriteTempFails \/ Rename

Next ==
  \/ \E task \in Tasks : Start(task)
  \/ Program \/ Crash
  \/ \E path \in Paths, i \in Old \cup {None} : Replace(path, i)
  \/ \E i \in Old : Plant(i) \/ Chmod(i)

Spec == Init /\ [][Next]_vars

-----------------------------------------------------------------------------
(***************************************************************************)
(* Properties                                                              *)
(***************************************************************************)

\* What a passphrase or a cache key is read from, and what audit records go to,
\* is a regular file that only its owner could use at some time after it was
\* opened, whatever is done to the path and to file modes meanwhile (config.rs:
\* "cannot be raced against the read (no TOCTOU)"; audit.rs likewise).
UsedIsVetted ==
  job.pc = "used" /\ job.fd # None /\ job.task # "cache" =>
    IsFile(job.fd) /\ (job.task = "credential" \/ job.fd \in wasPrivate)

\* The step opens something that was not itself at the path or made by the program.
FollowsLink == /\ job'.fd \notin {job.fd, None} \cup New
               /\ job'.fd # dir[PathOf(job.task)]

\* No symbolic link is followed to a passphrase, to the cache key or to the log:
\* what is read or written was itself at the path when it was opened.
NoLinkFollowed == [][job.task # "cache" => ~FollowsLink]_vars

\* Bytes of a key go only into files that this program created, and whatever
\* else stands at the path "key", a file of this program there is complete, also
\* after a crash in the middle of write_private_file (cache.rs).
KeyFilesWhole == /\ full \subseteq New
                 /\ dir["key"] \in New => dir["key"] \in full
=============================================================================
