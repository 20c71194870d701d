------------------------- MODULE PrivateFileProofs -------------------------
(***************************************************************************)
(* Proofs about how files are opened and written (module PrivateFile), for *)
(* any set of files and whatever others do to the paths and the modes.     *)
(***************************************************************************)
EXTENDS PrivateFile, TLAPS

\* What is at a path exists, and what others may put there exists too.
NamesExist ==
  /\ \A path \in Paths \cup {"tmp"} :
       dir[path] # None => inode[dir[path]].kind # "none"
  /\ \A i \in Old : inode[i].kind # "none"

\* The descriptor in the hands of the program is the file it examined: what it
\* knows of that file by the place it has reached, whatever the path names now.
Descriptor ==
  /\ job.pc \in {"exists", "create", "open"} => job.fd = None
  /\ job.pc = "stat" =>
       /\ job.fd # None
       /\ job.task # "cache"
       /\ inode[job.fd].private => job.fd \in wasPrivate
  /\ job.pc \in {"read", "append"} =>
       /\ job.fd # None
       /\ IsFile(job.fd)
       /\ job.task = "credential" \/ job.fd \in wasPrivate
  /\ job.pc = "chmod" => job.fd # None /\ IsFile(job.fd)
  /\ job.pc \in {"write", "rename"} =>
       job.fd \in New /\ IsFile(job.fd) /\ job.fd \in wasPrivate
  /\ job.pc = "rename" => job.fd \in full

Inv == TypeOK /\ NamesExist /\ Descriptor /\ UsedIsVetted /\ KeyFilesWhole

-----------------------------------------------------------------------------
\* Nothing is open and nothing is written at first.
LEMMA InitInv == Init => Inv
<1> SUFFICES ASSUME Init PROVE Inv
  OBVIOUS
<1>1. TypeOK BY DEF Init, TypeOK, Idle, Jobs, Tasks
<1>2. NamesExist BY DEF Init, NamesExist
<1>3. Descriptor BY DEF Init, Idle, Descriptor
<1>4. UsedIsVetted BY DEF Init, Idle, UsedIsVetted
<1>5. KeyFilesWhole
  BY InodesAssumption DEF Init, KeyFilesWhole, Paths
<1> QED BY <1>1, <1>2, <1>3, <1>4, <1>5 DEF Inv

\* A new job has nothing open.
LEMMA StartInv == ASSUME Inv, NEW task \in Tasks, Start(task) PROVE Inv'
<1>1. TypeOK' BY DEF Inv, TypeOK, Start, Jobs
<1>2. NamesExist' BY DEF Inv, TypeOK, NamesExist, Start
<1>3. Descriptor' BY DEF Start, Descriptor
<1>4. UsedIsVetted' BY DEF Start, UsedIsVetted
<1>5. KeyFilesWhole' BY DEF Inv, TypeOK, KeyFilesWhole, Start, Paths
<1> QED BY <1>1, <1>2, <1>3, <1>4, <1>5 DEF Inv

\* A step that only moves the program on, or ends its process.
LEMMA MoveInv ==
  ASSUME Inv, KeyExists \/ StatForRead \/ Read \/ StatLog \/ Append \/ Crash
  PROVE  Inv'
<1>1. UNCHANGED <<inode, dir, wasPrivate, full>>
  BY DEF KeyExists, StatForRead, Read, StatLog, Append, Crash
<1>2. NamesExist' /\ KeyFilesWhole'
  BY <1>1 DEF Inv, NamesExist, KeyFilesWhole
<1>3. ASSUME KeyExists PROVE TypeOK' /\ Descriptor' /\ UsedIsVetted'
  BY <1>1, <1>3 DEF Inv, TypeOK, Descriptor, UsedIsVetted, KeyExists, At, Goto, Jobs
<1>4. ASSUME StatForRead PROVE TypeOK' /\ Descriptor' /\ UsedIsVetted'
  BY <1>1, <1>4 DEF Inv, TypeOK, Descriptor, UsedIsVetted, StatForRead, At, Goto,
                    Jobs, Acceptable, IsFile, Readers
<1>5. ASSUME Read PROVE TypeOK' /\ Descriptor' /\ UsedIsVetted'
  BY <1>1, <1>5 DEF Inv, TypeOK, Descriptor, UsedIsVetted, Read, At, Goto, Jobs,
                    IsFile
<1>6. ASSUME StatLog PROVE TypeOK' /\ Descriptor' /\ UsedIsVetted'
  <2>1. \/ job' = [job EXCEPT !.pc = "failed"]
        \/ IsFile(job.fd) /\ inode[job.fd].private
             /\ job' = [job EXCEPT !.pc = "append"]
        \/ IsFile(job.fd) /\ job' = [job EXCEPT !.pc = "chmod"]
    <3>1. CASE ~IsFile(job.fd) BY <1>6, <3>1 DEF StatLog, Goto
    <3>2. CASE IsFile(job.fd) /\ inode[job.fd].private
      BY <1>6, <3>2 DEF StatLog, Goto
    <3>3. CASE IsFile(job.fd) /\ ~inode[job.fd].private
      BY <1>6, <3>3 DEF StatLog, Goto
    <3> QED BY <3>1, <3>2, <3>3
  <2> QED
    BY <1>1, <1>6, <2>1 DEF Inv, TypeOK, Descriptor, UsedIsVetted, StatLog, At,
                            Jobs, IsFile
<1>7. ASSUME Append PROVE TypeOK' /\ Descriptor' /\ UsedIsVetted'
  BY <1>1, <1>7 DEF Inv, TypeOK, Descriptor, UsedIsVetted, Append, At, Goto, Jobs,
                    IsFile
<1>8. ASSUME Crash PROVE TypeOK' /\ Descriptor' /\ UsedIsVetted'
  BY <1>1, <1>8 DEF Inv, TypeOK, Descriptor, UsedIsVetted, Crash, Idle, Jobs, Tasks
<1> QED BY <1>2, <1>3, <1>4, <1>5, <1>6, <1>7, <1>8 DEF Inv

\* What O_NOFOLLOW lets through is at the path itself, and its mode is noted.
LEMMA OpenForReadInv == ASSUME Inv, OpenForRead PROVE Inv'
<1> DEFINE i == dir[PathOf(job.task)]
<1>1. /\ UNCHANGED <<inode, dir, full>>
      /\ job \in Jobs /\ job.pc = "open" /\ job.fd = None
      /\ job.task \in Readers /\ PathOf(job.task) \in Paths
      /\ i \in Inodes \cup {None}
  BY DEF Inv, TypeOK, Descriptor, OpenForRead, At, PathOf, Readers, Paths
<1>2. NamesExist' /\ KeyFilesWhole'
  BY <1>1 DEF Inv, NamesExist, KeyFilesWhole
<1>3. CASE i = None \/ IsLink(i)
  <2>1. job' = [job EXCEPT !.pc = "failed"] /\ wasPrivate' = {}
    BY <1>3 DEF OpenForRead
  <2>2. TypeOK' /\ Descriptor' /\ UsedIsVetted'
    BY <1>1, <2>1 DEF Inv, TypeOK, Descriptor, UsedIsVetted, Jobs
  <2> QED BY <1>2, <2>2 DEF Inv
<1>4. CASE ~(i = None \/ IsLink(i))
  <2>1. job' = [job EXCEPT !.pc = "stat", !.fd = i] /\ wasPrivate' = Private(i)
    BY <1>4 DEF OpenForRead
  <2>2. i \in Inodes /\ inode[i].kind \in {"regular", "other"}
    BY <1>1, <1>4 DEF Inv, TypeOK, NamesExist, IsLink, Attributes, Kinds
  <2>3. TypeOK'
    BY <1>1, <2>1, <2>2 DEF Inv, TypeOK, Jobs, Private
  <2>4. Descriptor'
    BY <1>1, <1>4, <2>1, <2>2 DEF Descriptor, Jobs, Private, Readers
  <2>5. UsedIsVetted' BY <1>1, <2>1 DEF UsedIsVetted, Jobs
  <2> QED BY <1>2, <2>3, <2>4, <2>5 DEF Inv
<1> QED BY <1>3, <1>4

\* A cache file is read through links, but only if it is a file.
LEMMA LoadCacheInv == ASSUME Inv, LoadCache PROVE Inv'
<1>1. UNCHANGED <<inode, dir, wasPrivate, full>> BY DEF LoadCache
<1>2. NamesExist' /\ KeyFilesWhole'
  BY <1>1 DEF Inv, NamesExist, KeyFilesWhole
<1>3. dir["input"] \in Inodes \cup {None} BY DEF Inv, TypeOK, Paths
<1>4. \A i \in Inodes : inode[i].to \in Inodes \cup {None}
  BY DEF Inv, TypeOK, Attributes
<1>5. job.task = "cache" /\ job.pc = "open" /\ job \in Jobs /\ job.fd = None
  BY DEF Inv, TypeOK, Descriptor, LoadCache, At
<1>6. \/ job' = [job EXCEPT !.pc = "failed"]
      \/ \E j \in Inodes : IsFile(j) /\ job' = [job EXCEPT !.pc = "used", !.fd = j]
  BY <1>3, <1>4 DEF LoadCache
<1>7. TypeOK' /\ Descriptor' /\ UsedIsVetted'
  BY <1>1, <1>5, <1>6 DEF Inv, TypeOK, Descriptor, UsedIsVetted, IsFile, Jobs
<1> QED BY <1>2, <1>7 DEF Inv

-----------------------------------------------------------------------------
\* Making a file touches nothing that exists.
LEMMA MakeKeeps ==
  ASSUME Inv, NEW n \in New, inode[n] = Unmade, Make(n)
  PROVE  /\ inode' \in [Inodes -> Attributes]
         /\ inode'[n].kind = "regular" /\ inode'[n].private
         /\ \A i \in Inodes : inode[i].kind # "none" => inode'[i] = inode[i]
<1>1. n \in Inodes BY DEF Inodes
<1> DEFINE made == [Unmade EXCEPT !.kind = "regular"]
<1>2. inode' = [inode EXCEPT ![n] = made]
  BY DEF Make
<1>3. made \in Attributes /\ made.kind = "regular" /\ made.private
  BY DEF Attributes, Kinds, Unmade
<1>4. inode[n].kind = "none" BY DEF Unmade
<1> HIDE DEF made
<1>5. /\ inode' \in [Inodes -> Attributes] /\ inode'[n] = made
      /\ \A i \in Inodes : i # n => inode'[i] = inode[i]
  BY <1>1, <1>2, <1>3 DEF Inv, TypeOK
<1> QED BY <1>3, <1>4, <1>5

\* The log is a new file of the program, or one that was at the path.
LEMMA OpenLogInv == ASSUME Inv, OpenLog PROVE Inv'
<1> DEFINE i == dir["log"]
<1>1. /\ full' = full /\ job.pc = "open" /\ job.task = "log" /\ job \in Jobs
      /\ job.fd = None /\ dir \in [Paths \cup {"tmp"} -> Inodes \cup {None}]
      /\ i \in Inodes \cup {None}
  BY DEF Inv, TypeOK, Descriptor, OpenLog, At, Paths
<1>2. ASSUME NEW n \in New, inode[n] = Unmade, Make(n),
             dir' = [dir EXCEPT !["log"] = n],
             job' = [job EXCEPT !.pc = "stat", !.fd = n], wasPrivate' = {n}
      PROVE  Inv'
  <2>1. /\ inode' \in [Inodes -> Attributes]
        /\ inode'[n].kind = "regular" /\ inode'[n].private
        /\ \A j \in Inodes : inode[j].kind # "none" => inode'[j] = inode[j]
    BY <1>2, MakeKeeps
  <2>2. n \in Inodes /\ n # None BY InodesAssumption DEF Inodes
  <2>3. TypeOK' BY <1>1, <1>2, <2>1, <2>2 DEF Inv, TypeOK, Jobs
  <2>4. NamesExist' BY <1>1, <1>2, <2>1, <2>2 DEF Inv, NamesExist, Inodes
  <2>5. Descriptor' BY <1>1, <1>2, <2>2 DEF Descriptor, Jobs
  <2>6. UsedIsVetted' BY <1>1, <1>2 DEF UsedIsVetted, Jobs
  <2>7. KeyFilesWhole' BY <1>1, <1>2 DEF Inv, KeyFilesWhole, Paths
  <2> QED BY <2>3, <2>4, <2>5, <2>6, <2>7 DEF Inv
<1>3. ASSUME i # None,
             job' = IF IsFile(i) THEN [job EXCEPT !.pc = "stat", !.fd = i]
                                 ELSE [job EXCEPT !.pc = "failed"],
             wasPrivate' = Private(i), UNCHANGED <<inode, dir>>
      PROVE  Inv'
  <2>1. TypeOK' BY <1>1, <1>3 DEF Inv, TypeOK, Jobs, IsFile, Private
  <2>2. NamesExist' /\ KeyFilesWhole'
    BY <1>1, <1>3 DEF Inv, NamesExist, KeyFilesWhole
  <2>3. Descriptor' BY <1>1, <1>3 DEF Descriptor, Jobs, Private
  <2>4. UsedIsVetted' BY <1>1, <1>3 DEF UsedIsVetted, Jobs
  <2> QED BY <2>1, <2>2, <2>3, <2>4 DEF Inv
<1> QED BY <1>2, <1>3 DEF OpenLog

\* ensure_private changes the mode of the file that was opened.
LEMMA ChmodLogInv == ASSUME Inv, ChmodLog PROVE Inv'
<1>1. /\ job.fd \in Inodes /\ IsFile(job.fd) /\ job \in Jobs /\ job.task = "log"
      /\ UNCHANGED <<dir, full>> /\ job' = [job EXCEPT !.pc = "append"]
      /\ wasPrivate' = wasPrivate \cup {job.fd}
  BY DEF Inv, TypeOK, Descriptor, ChmodLog, At, Goto, Jobs
<1>2. /\ inode' \in [Inodes -> Attributes]
      /\ \A i \in Inodes : inode'[i].kind = inode[i].kind
  BY <1>1 DEF Inv, TypeOK, ChmodLog, Attributes
<1>3. TypeOK' BY <1>1, <1>2 DEF Inv, TypeOK, Jobs
<1>4. NamesExist' BY <1>1, <1>2 DEF Inv, TypeOK, NamesExist, Inodes
<1>5. Descriptor' BY <1>1, <1>2, InodesAssumption DEF Descriptor, Jobs, IsFile, Inodes
<1>6. UsedIsVetted' BY <1>1 DEF UsedIsVetted, Jobs
<1>7. KeyFilesWhole' BY <1>1 DEF Inv, KeyFilesWhole
<1> QED BY <1>3, <1>4, <1>5, <1>6, <1>7 DEF Inv

-----------------------------------------------------------------------------
\* The temporary file is new, or the write has failed.
LEMMA CreateTempInv == ASSUME Inv, CreateTemp PROVE Inv'
<1>1. /\ full' = full /\ job.pc = "create" /\ job.task = "key" /\ job \in Jobs
      /\ job.fd = None /\ dir \in [Paths \cup {"tmp"} -> Inodes \cup {None}]
  BY DEF Inv, TypeOK, Descriptor, CreateTemp, At
<1>2. ASSUME NEW n \in New, inode[n] = Unmade, Make(n),
             dir' = [dir EXCEPT !["tmp"] = n],
             job' = [job EXCEPT !.pc = "write", !.fd = n], wasPrivate' = {n}
      PROVE  Inv'
  <2>1. /\ inode' \in [Inodes -> Attributes]
        /\ inode'[n].kind = "regular" /\ inode'[n].private
        /\ \A j \in Inodes : inode[j].kind # "none" => inode'[j] = inode[j]
    BY <1>2, MakeKeeps
  <2>2. n \in Inodes /\ n # None BY InodesAssumption DEF Inodes
  <2>3. TypeOK' BY <1>1, <1>2, <2>1, <2>2 DEF Inv, TypeOK, Jobs
  <2>4. NamesExist' BY <1>1, <1>2, <2>1, <2>2 DEF Inv, NamesExist, Inodes
  <2>5. Descriptor' BY <1>1, <1>2, <2>1, <2>2 DEF Descriptor, Jobs, IsFile
  <2>6. UsedIsVetted' BY <1>1, <1>2 DEF UsedIsVetted, Jobs
  <2>7. KeyFilesWhole' BY <1>1, <1>2 DEF Inv, KeyFilesWhole, Paths
  <2> QED BY <2>3, <2>4, <2>5, <2>6, <2>7 DEF Inv
<1>3. ASSUME dir' = [dir EXCEPT !["tmp"] = None],
             job' = [job EXCEPT !.pc = "failed"], UNCHANGED <<inode, wasPrivate>>
      PROVE  Inv'
  <2>1. TypeOK' BY <1>1, <1>3 DEF Inv, TypeOK, Jobs
  <2>2. NamesExist' BY <1>1, <1>3 DEF Inv, NamesExist
  <2>3. Descriptor' /\ UsedIsVetted'
    BY <1>1, <1>3 DEF Descriptor, UsedIsVetted, Jobs
  <2>4. KeyFilesWhole' BY <1>1, <1>3 DEF Inv, KeyFilesWhole, Paths
  <2> QED BY <2>1, <2>2, <2>3, <2>4 DEF Inv
<1> QED BY <1>2, <1>3 DEF CreateTemp, Goto

\* The key is written to the file that was made, completely or not at all.
LEMMA WriteTempInv == ASSUME Inv, WriteTemp \/ WriteTempFails PROVE Inv'
<1>1. /\ job.fd \in New /\ job.fd \in Inodes /\ job \in Jobs
      /\ UNCHANGED <<inode, wasPrivate>>
      /\ dir \in [Paths \cup {"tmp"} -> Inodes \cup {None}]
  BY DEF Inv, TypeOK, Descriptor, WriteTemp, WriteTempFails, At, Inodes
<1>2. CASE WriteTemp
  <2>1. /\ job' = [job EXCEPT !.pc = "rename"] /\ dir' = dir
        /\ full' = full \cup {job.fd} /\ job.pc = "write"
    BY <1>2 DEF WriteTemp, At, Goto
  <2>2. TypeOK' BY <1>1, <2>1 DEF Inv, TypeOK, Jobs
  <2>3. NamesExist' BY <1>1, <2>1 DEF Inv, NamesExist
  <2>4. Descriptor' BY <1>1, <2>1 DEF Inv, Descriptor, Jobs, IsFile
  <2>5. UsedIsVetted' BY <1>1, <2>1 DEF UsedIsVetted, Jobs
  <2>6. KeyFilesWhole' BY <1>1, <2>1 DEF Inv, KeyFilesWhole
  <2> QED BY <2>2, <2>3, <2>4, <2>5, <2>6 DEF Inv
<1>3. CASE WriteTempFails
  <2>1. /\ job' = [job EXCEPT !.pc = "failed"] /\ full' = full
        /\ dir' = [dir EXCEPT !["tmp"] = None]
    BY <1>3 DEF WriteTempFails, Goto
  <2>2. TypeOK' BY <1>1, <2>1 DEF Inv, TypeOK, Jobs
  <2>3. NamesExist' BY <1>1, <2>1 DEF Inv, NamesExist
  <2>4. Descriptor' /\ UsedIsVetted'
    BY <1>1, <2>1 DEF Descriptor, UsedIsVetted, Jobs
  <2>5. KeyFilesWhole' BY <1>1, <2>1 DEF Inv, KeyFilesWhole, Paths
  <2> QED BY <2>2, <2>3, <2>4, <2>5 DEF Inv
<1> QED BY <1>2, <1>3

\* What is renamed to the path of the key is complete.
LEMMA RenameInv == ASSUME Inv, Rename PROVE Inv'
<1>1. /\ job.fd \in New /\ job.fd \in Inodes /\ job.fd \in full
      /\ IsFile(job.fd) /\ job.fd \in wasPrivate
      /\ job \in Jobs /\ UNCHANGED <<inode, wasPrivate, full>>
      /\ dir \in [Paths \cup {"tmp"} -> Inodes \cup {None}]
  BY DEF Inv, TypeOK, Descriptor, Rename, At, Inodes
<1>2. \/ /\ dir' = [dir EXCEPT !["tmp"] = None]
         /\ job' = [job EXCEPT !.pc = "failed"]
      \/ /\ dir' = [dir EXCEPT !["key"] = job.fd, !["tmp"] = None]
         /\ job' = [job EXCEPT !.pc = "used"]
  BY DEF Rename, Goto
<1>3. TypeOK' BY <1>1, <1>2 DEF Inv, TypeOK, Jobs
<1>4. NamesExist' BY <1>1, <1>2 DEF Inv, NamesExist, IsFile
<1>5. Descriptor' BY <1>1, <1>2 DEF Descriptor, Jobs
<1>6. UsedIsVetted' BY <1>1, <1>2 DEF UsedIsVetted, Jobs, IsFile
<1>7. KeyFilesWhole' BY <1>1, <1>2 DEF Inv, KeyFilesWhole, Paths
<1> QED BY <1>3, <1>4, <1>5, <1>6, <1>7 DEF Inv

-----------------------------------------------------------------------------
\* Others put files that are not the program's at the paths: what the program
\* has open stays what it is.
LEMMA ReplaceInv ==
  ASSUME Inv, NEW path \in Paths \cup {"tmp"}, NEW i \in Old \cup {None},
         dir' = [dir EXCEPT ![path] = i],
         i # None => inode[i].kind # "none",
         UNCHANGED <<inode, job, wasPrivate, full>>
  PROVE  Inv'
<1>1. TypeOK' BY DEF Inv, TypeOK, Inodes
<1>2. NamesExist' BY DEF Inv, TypeOK, NamesExist
<1>3. Descriptor' /\ UsedIsVetted'
  BY DEF Inv, Descriptor, UsedIsVetted, IsFile
<1>4. i \notin New BY InodesAssumption
<1>5. KeyFilesWhole' BY <1>4 DEF Inv, TypeOK, KeyFilesWhole, Paths
<1> QED BY <1>1, <1>2, <1>3, <1>5 DEF Inv

\* Others change modes: that a file was private is noted whenever it was.
LEMMA ChmodInv == ASSUME Inv, NEW i \in Old, Chmod(i) PROVE Inv'
<1>1. i \in Inodes BY DEF Inodes
<1>2. /\ inode' \in [Inodes -> Attributes]
      /\ \A j \in Inodes : inode'[j].kind = inode[j].kind
      /\ \A j \in Inodes \ {i} : inode'[j] = inode[j]
      /\ UNCHANGED <<dir, job, full>>
  <2> DEFINE a == [inode[i] EXCEPT !.private = ~inode[i].private]
  <2>1. inode[i] \in Attributes /\ inode \in [Inodes -> Attributes]
    BY <1>1 DEF Inv, TypeOK
  <2>2. inode' = [inode EXCEPT ![i] = a] /\ UNCHANGED <<dir, job, full>>
    BY DEF Chmod
  <2>3. a \in Attributes /\ a.kind = inode[i].kind BY <2>1 DEF Attributes
  <2> HIDE DEF a
  <2> QED BY <1>1, <2>1, <2>2, <2>3
<1>3. wasPrivate' = wasPrivate \cup {i}
  BY DEF Chmod, Private
<1>4. TypeOK' BY <1>1, <1>2, <1>3 DEF Inv, TypeOK, Jobs
<1>5. NamesExist' BY <1>2 DEF Inv, TypeOK, NamesExist, Inodes
<1>6. Descriptor'
  BY <1>2, <1>3, InodesAssumption DEF Inv, TypeOK, Descriptor, IsFile, Jobs, Inodes
<1>7. UsedIsVetted'
  BY <1>2, <1>3 DEF Inv, TypeOK, UsedIsVetted, IsFile, Jobs
<1>8. KeyFilesWhole' BY <1>2 DEF Inv, KeyFilesWhole
<1> QED BY <1>4, <1>5, <1>6, <1>7, <1>8 DEF Inv

\* Every step of the program and of others keeps the invariant.
LEMMA NextInv == Inv /\ [Next]_vars => Inv'
<1> SUFFICES ASSUME Inv, [Next]_vars PROVE Inv'
  OBVIOUS
<1>1. ASSUME NEW task \in Tasks, Start(task) PROVE Inv'
  BY <1>1, StartInv
<1>2. ASSUME Program \/ Crash PROVE Inv'
  BY <1>2, MoveInv, OpenForReadInv, LoadCacheInv, OpenLogInv, ChmodLogInv,
     CreateTempInv, WriteTempInv, RenameInv DEF Program
<1>3. ASSUME NEW path \in Paths, NEW i \in Old \cup {None}, Replace(path, i)
      PROVE  Inv'
  BY <1>3, ReplaceInv DEF Replace, Inv, NamesExist
<1>4. ASSUME NEW i \in Old, Plant(i) PROVE Inv'
  BY <1>4, ReplaceInv DEF Plant, Inv, NamesExist
<1>5. ASSUME NEW i \in Old, Chmod(i) PROVE Inv'
  BY <1>5, ChmodInv
<1>6. CASE UNCHANGED vars
  BY <1>6 DEF vars, Inv, TypeOK, NamesExist, Descriptor, UsedIsVetted,
              KeyFilesWhole, IsFile
<1> QED BY <1>1, <1>2, <1>3, <1>4, <1>5, <1>6 DEF Next

\* The invariant holds whatever is done to the paths and to file modes between
\* any two system calls of the program, and wherever it is killed.
THEOREM Invariance == Spec => []Inv
  BY InitInv, NextInv, PTL DEF Spec

\* The variables have their types: a descriptor is never of a link.
THEOREM TypeCorrect == Spec => []TypeOK
<1>1. Inv => TypeOK BY DEF Inv
<1> QED BY <1>1, Invariance, PTL

\* A secret is read from, and audit records go to, a regular file that was
\* private at some time after it was opened (config.rs, audit.rs, cache.rs: the
\* checks are made on the descriptor, so the path cannot be raced).
THEOREM OnlyVettedFilesUsed == Spec => []UsedIsVetted
<1>1. Inv => UsedIsVetted BY DEF Inv
<1> QED BY <1>1, Invariance, PTL

\* Key bytes go only to files of the program's own making, and one of these is
\* at the path of the key only when it is complete (cache.rs, create_new, write
\* and rename), wherever the process dies.
THEOREM NoTornKeyFile == Spec => []KeyFilesWhole
<1>1. Inv => KeyFilesWhole BY DEF Inv
<1> QED BY <1>1, Invariance, PTL

\* One step opens nothing but what is itself at the path of its job, or new.
LEMMA StepFollowsNoLink ==
  Inv /\ [Next]_vars => [job.task # "cache" => ~FollowsLink]_vars
<1> SUFFICES ASSUME Inv, Next, job.task # "cache", FollowsLink
             PROVE  FALSE
  BY DEF vars, FollowsLink
<1>1. job \in Jobs /\ job'.fd \notin {job.fd, None} \cup New
      /\ job'.fd # dir[PathOf(job.task)]
  BY DEF FollowsLink, Inv, TypeOK
<1>2. ASSUME NEW task \in Tasks, Start(task) PROVE FALSE
  BY <1>1, <1>2 DEF Start
<1>3. ASSUME OpenForRead PROVE FALSE
  BY <1>1, <1>3 DEF OpenForRead, Jobs
<1>4. ASSUME OpenLog PROVE FALSE
  BY <1>1, <1>4 DEF OpenLog, At, PathOf, Jobs
<1>5. ASSUME CreateTemp PROVE FALSE
  BY <1>1, <1>5 DEF CreateTemp, Goto, Jobs
<1>6. ASSUME LoadCache PROVE FALSE
  BY <1>6 DEF LoadCache, At
<1>7. ASSUME \/ KeyExists \/ StatForRead \/ Read \/ StatLog \/ ChmodLog \/ Append
             \/ WriteTemp \/ WriteTempFails \/ Rename
      PROVE  FALSE
  <2>1. \E pc : Goto(pc)
    BY <1>7, Zenon DEF KeyExists, StatForRead, Read, StatLog, ChmodLog, Append,
                       WriteTemp, WriteTempFails, Rename
  <2> QED BY <1>1, <2>1 DEF Jobs, Goto
<1>8. ASSUME Crash PROVE FALSE
  BY <1>1, <1>8 DEF Crash, Idle
<1>9. ASSUME job' = job PROVE FALSE
  BY <1>1, <1>9
<1> QED
  BY <1>2, <1>3, <1>4, <1>5, <1>6, <1>7, <1>8, <1>9
     DEF Next, Program, Replace, Plant, Chmod

\* No symbolic link is followed to a passphrase, the cache key or the log,
\* whenever the path is relinked (config.rs, audit.rs, cache.rs: O_NOFOLLOW and
\* create_new).
THEOREM LinksNotFollowed == Spec => NoLinkFollowed
  BY Invariance, StepFollowsNoLink, PTL DEF Spec, NoLinkFollowed
=============================================================================
