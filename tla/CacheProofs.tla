---------------------------- MODULE CacheProofs ----------------------------
(***************************************************************************)
(* Proofs about the client's offline cache (module OfflineCache): what     *)
(* holds of any number of client processes, and what holds when commands   *)
(* run one at a time.                                                      *)
(***************************************************************************)
EXTENDS OfflineCache, TLAPS

\* What a process holds by the place it has reached.
Holds(p) ==
  /\ cl[p].pc # "off" => cl[p].id \in Ids
  /\ cl[p].pc # "done" => cl[p].res = NoAnswer
  /\ cl[p].pc \in {"newkey", "store", "load"} => cl[p].key # None

Inv == TypeOK /\ \A p \in Procs : Holds(p)

\* Commands run one at a time.
OneAtATime == \A p, q \in Procs : p = q

\* Then the cache has one key, once it has any, and every file is under it;
\* a file that a set did not miss is no older than the last acknowledged set;
\* and what a process has in hand is as good.
KeyInHand(r) ==
  /\ r.pc = "newkey" => cachekey = None
  /\ r.pc \in {"ready", "store", "load", "remove"} /\ r.key # None =>
       r.key = cachekey
ValueInHand(r) ==
  /\ r.pc = "store" => r.val >= acked[r.id]
  /\ r.pc = "remove" => r.val <= srv[r.id[2]]
FileInOrder(id) ==
  /\ files[id] # None => files[id].key = cachekey
  /\ files[id] # None /\ id \notin unsure => files[id].val >= acked[id]
  /\ acked[id] <= srv[id[2]]

Sole == /\ \A p \in Procs : KeyInHand(cl[p]) /\ ValueInHand(cl[p])
        /\ \A id \in Ids : FileInOrder(id)

-----------------------------------------------------------------------------
(***************************************************************************)
(* The state of one process                                                *)
(***************************************************************************)

\* An idle process and the answers have their types.
LEMMA IdleType == Idle \in ClientStates /\ NoAnswer \in Answers
BY CacheNumbersAssumption DEF Idle, ClientStates, NoAnswer, Answers, Writes

\* A process moves to a state r of its own.
Becomes(p, r) == cl' = [cl EXCEPT ![p] = r]

\* What r must be for the invariant to go on.
Good(r) ==
  /\ r \in ClientStates
  /\ r.pc # "off" => r.id \in Ids
  /\ r.pc # "done" => r.res = NoAnswer
  /\ r.pc \in {"newkey", "store", "load"} => r.key # None

\* A process that moves to a good state, while everything else keeps its type,
\* keeps the invariant.
LEMMA BecomesInv ==
  ASSUME Inv, NEW p \in Procs, NEW r, Good(r), Becomes(p, r),
         srv' \in [Projects -> Writes], cachekey' \in Keys \cup {None},
         keys' \in 0..MaxKeys, files' \in [Ids -> Files \cup {None}],
         now' \in Times, acked' \in [Ids -> Writes], unsure' \in SUBSET Ids
  PROVE  Inv'
<1>1. cl \in [Procs -> ClientStates] BY DEF Inv, TypeOK
<1>2. TypeOK' BY <1>1 DEF TypeOK, Good, Becomes
<1>3. ASSUME NEW q \in Procs PROVE Holds(q)'
  <2>1. CASE q = p
    <3>1. cl'[q] = r BY <1>1, <2>1 DEF Becomes
    <3> QED BY <3>1 DEF Holds, Good
  <2>2. CASE q # p
    <3>1. cl'[q] = cl[q] BY <1>1, <2>2 DEF Becomes
    <3> QED BY <3>1 DEF Inv, Holds
  <2> QED BY <2>1, <2>2
<1> QED BY <1>2, <1>3 DEF Inv

\* A process that is done has its answer.
LEMMA DoneGood ==
  ASSUME Inv, NEW p \in Procs, cl[p].pc # "off", NEW kind, NEW val \in Writes,
         kind \in {"live", "cached", "ok", "error", "unreadable", "unusable"},
         Done(p, kind, val)
  PROVE  \E r : /\ Good(r) /\ Becomes(p, r) /\ r.pc = "done" /\ r.id = cl[p].id
                /\ r.key = cl[p].key /\ r.res = [kind |-> kind, val |-> val]
<1> DEFINE r == [cl[p] EXCEPT !.pc = "done", !.res = [kind |-> kind, val |-> val]]
<1>1. cl[p] \in ClientStates /\ cl \in [Procs -> ClientStates] /\ Holds(p)
  BY DEF Inv, TypeOK
<1>2. [kind |-> kind, val |-> val] \in Answers BY DEF Answers
<1>3. r \in ClientStates BY <1>1, <1>2 DEF ClientStates
<1>4. /\ r.pc = "done" /\ r.id = cl[p].id /\ r.key = cl[p].key
      /\ r.res = [kind |-> kind, val |-> val]
  BY <1>1 DEF ClientStates
<1>5. Becomes(p, r) BY DEF Done, Becomes
<1> HIDE DEF r
<1>6. Good(r) BY <1>1, <1>3, <1>4 DEF Good, Holds
<1> QED BY <1>4, <1>5, <1>6

\* With one process, what it becomes and what it leaves are all there is.
LEMMA BecomesSole ==
  ASSUME OneAtATime, Inv, NEW p \in Procs, NEW r, Becomes(p, r),
         KeyInHand(r)', ValueInHand(r)', \A id \in Ids : FileInOrder(id)'
  PROVE  Sole'
<1>1. \A q \in Procs : cl'[q] = r
  BY DEF OneAtATime, Becomes, Inv, TypeOK
<1> QED BY <1>1 DEF Sole, KeyInHand, ValueInHand

\* The parts of an id.
LEMMA IdParts == \A id \in Ids : id[1] \in Tokens /\ id[2] \in Projects
BY DEF Ids

\* A step of process p that changes nothing outside it.
LEMMA AloneStep ==
  ASSUME Inv, NEW p \in Procs, NEW r, Good(r), Becomes(p, r),
         UNCHANGED <<srv, cachekey, keys, files, now, acked, unsure>>
  PROVE  /\ Inv'
         /\ OneAtATime /\ Sole /\ KeyInHand(r) /\ ValueInHand(r) => Sole'
<1>1. Inv' BY BecomesInv DEF Inv, TypeOK
<1>2. ASSUME OneAtATime, Sole, KeyInHand(r), ValueInHand(r) PROVE Sole'
  <2>1. KeyInHand(r)' /\ ValueInHand(r)'
    BY <1>2 DEF KeyInHand, ValueInHand
  <2>2. \A id \in Ids : FileInOrder(id)' BY <1>2 DEF Sole, FileInOrder
  <2> QED BY <1>2, <2>1, <2>2, BecomesSole
<1> QED BY <1>1, <1>2

-----------------------------------------------------------------------------
(***************************************************************************)
(* The steps of a command that change nothing outside its process          *)
(***************************************************************************)

\* A command starts.
LEMMA StartStep ==
  ASSUME Inv, NEW p \in Procs, NEW op \in {"get", "set", "token"}, NEW id \in Ids,
         NEW cached \in BOOLEAN, Start(p, op, id, cached)
  PROVE  Inv' /\ (OneAtATime /\ Sole => Sole')
<1> DEFINE r == [Idle EXCEPT !.pc = IF cached THEN "open" ELSE "ready",
                             !.op = op, !.id = id]
<1>1. UNCHANGED <<srv, cachekey, keys, files, now, acked, unsure>>
  BY DEF Start
<1>2. Becomes(p, r) BY DEF Start, Becomes
<1>3. r \in ClientStates
  <2>1. (IF cached THEN "open" ELSE "ready") \in {"open", "ready"} OBVIOUS
  <2> QED BY <2>1, IdleType DEF ClientStates
<1>4. r.pc \in {"open", "ready"} /\ r.id = id /\ r.key = None /\ r.res = NoAnswer
  BY DEF Idle
<1> HIDE DEF r
<1>5. Good(r) /\ KeyInHand(r) /\ ValueInHand(r)
  BY <1>3, <1>4 DEF Good, KeyInHand, ValueInHand
<1> QED BY <1>1, <1>2, <1>5, AloneStep

\* A process dies in the middle of its command.
LEMMA CrashStep ==
  ASSUME Inv, NEW p \in Procs, Crash(p)
  PROVE  Inv' /\ (OneAtATime /\ Sole => Sole')
<1>1. UNCHANGED <<srv, cachekey, keys, files, now, acked, unsure>>
  BY DEF Crash
<1>2. Becomes(p, Idle) BY DEF Crash, Becomes
<1>3. Idle.pc = "off" /\ Idle.res = NoAnswer BY DEF Idle
<1>4. Good(Idle) /\ KeyInHand(Idle) /\ ValueInHand(Idle)
  BY <1>3, IdleType DEF Good, KeyInHand, ValueInHand
<1> QED BY <1>1, <1>2, <1>4, AloneStep

\* A command ends and changes nothing outside its process.
LEMMA DoneStep ==
  ASSUME Inv, NEW p \in Procs,
         \/ Refused(p) \/ StoreFails(p) \/ Load(p) \/ LoadFails(p) \/ TokenCall(p)
         \/ FetchOk(p) /\ cl[p].key = None
         \/ FetchUnreachable(p) /\ cl[p].key = None
  PROVE  Inv' /\ (OneAtATime /\ Sole => Sole')
<1>1. /\ UNCHANGED <<srv, cachekey, keys, files, now, acked, unsure>>
      /\ cl[p].pc \notin {"off", "done"}
  BY DEF Refused, StoreFails, Load, LoadFails, TokenCall, FetchOk, FetchUnreachable,
         At
<1>2. /\ cl[p] \in ClientStates /\ cl[p].id \in Ids /\ cl[p].val \in Writes
      /\ 0 \in Writes /\ srv \in [Projects -> Writes]
      /\ files[cl[p].id] \in Files \cup {None}
  BY <1>1, CacheNumbersAssumption DEF Inv, TypeOK, Holds, ClientStates, Writes
<1>3. \E kind \in {"live", "cached", "ok", "error", "unreadable", "unusable"}, val \in Writes :
        Done(p, kind, val)
  <2>1. CASE Refused(p) BY <1>2, <2>1 DEF Refused
  <2>2. CASE StoreFails(p) BY <1>2, <2>2 DEF StoreFails
  <2>3. CASE Load(p)
    <3>1. files[cl[p].id] # None => files[cl[p].id].val \in Writes
      BY <1>2 DEF Files
    <3> QED BY <1>2, <2>3, <3>1 DEF Load
  <2>4. CASE TokenCall(p) BY <1>2, <2>4 DEF TokenCall
  <2>5. CASE FetchOk(p) /\ cl[p].key = None
    BY <1>2, <2>5, IdParts DEF FetchOk
  <2>6. CASE FetchUnreachable(p) /\ cl[p].key = None
    BY <1>2, <2>6 DEF FetchUnreachable
  <2>7. CASE LoadFails(p) BY <1>2, <2>7 DEF LoadFails
  <2> QED BY <2>1, <2>2, <2>3, <2>4, <2>5, <2>6, <2>7
<1>4. PICK r : Good(r) /\ Becomes(p, r) /\ r.pc = "done"
  BY <1>1, <1>3, DoneGood
<1>5. KeyInHand(r) /\ ValueInHand(r) BY <1>4 DEF KeyInHand, ValueInHand
<1> QED BY <1>1, <1>4, <1>5, AloneStep

\* A fetch succeeds, or fails on the way, for a process with a cache; or there
\* is no cache after all.
LEMMA GoOnStep ==
  ASSUME Inv, NEW p \in Procs,
         \/ FetchOk(p) /\ cl[p].key # None
         \/ FetchUnreachable(p) /\ cl[p].key # None
         \/ OpenFails(p)
  PROVE  Inv' /\ (OneAtATime /\ Sole => Sole')
<1>1. /\ UNCHANGED <<srv, cachekey, keys, files, now, acked, unsure>>
      /\ cl[p].pc \in {"ready", "open", "newkey"}
  BY DEF FetchOk, FetchUnreachable, OpenFails, At
<1>2. /\ cl[p] \in ClientStates /\ cl[p].id \in Ids /\ cl[p].res = NoAnswer
      /\ srv[cl[p].id[2]] \in Writes /\ Writes \subseteq Int
      /\ \A id \in Ids : acked[id] \in Writes
  BY <1>1, IdParts, CacheNumbersAssumption DEF Inv, TypeOK, Holds, Writes
<1>3. CASE FetchOk(p) /\ cl[p].key # None
  <2> DEFINE r == [cl[p] EXCEPT !.pc = "store", !.val = srv[cl[p].id[2]]]
  <2>1. Becomes(p, r) BY <1>3 DEF FetchOk, Becomes
  <2>2. r \in ClientStates BY <1>2 DEF ClientStates
  <2>3. /\ r.pc = "store" /\ r.val = srv[cl[p].id[2]] /\ r.id = cl[p].id
        /\ r.key = cl[p].key /\ r.res = NoAnswer
    BY <1>2 DEF ClientStates
  <2> HIDE DEF r
  <2>4. Good(r) BY <1>2, <1>3, <2>2, <2>3 DEF Good
  <2>5. Sole => KeyInHand(r) /\ ValueInHand(r)
    <3> SUFFICES ASSUME Sole PROVE KeyInHand(r) /\ ValueInHand(r)
      OBVIOUS
    <3>1. KeyInHand(r)
      BY <1>3, <2>3 DEF Sole, KeyInHand, FetchOk, At
    <3>2. ValueInHand(r) BY <1>2, <2>3 DEF Sole, FileInOrder, ValueInHand
    <3> QED BY <3>1, <3>2
  <2> QED BY <1>1, <2>1, <2>4, <2>5, AloneStep
<1>4. CASE FetchUnreachable(p) /\ cl[p].key # None
  <2> DEFINE r == [cl[p] EXCEPT !.pc = "load"]
  <2>1. Becomes(p, r) BY <1>4 DEF FetchUnreachable, Goto, Becomes
  <2>2. r \in ClientStates BY <1>2 DEF ClientStates
  <2>3. r.pc = "load" /\ r.id = cl[p].id /\ r.key = cl[p].key /\ r.res = NoAnswer
    BY <1>2 DEF ClientStates
  <2> HIDE DEF r
  <2>4. Good(r) BY <1>2, <1>4, <2>2, <2>3 DEF Good
  <2>5. Sole => KeyInHand(r) /\ ValueInHand(r)
    BY <1>4, <2>3 DEF Sole, KeyInHand, ValueInHand, FetchUnreachable, At
  <2> QED BY <1>1, <2>1, <2>4, <2>5, AloneStep
<1>5. CASE OpenFails(p)
  <2> DEFINE r == [cl[p] EXCEPT !.pc = "ready", !.key = None]
  <2>1. Becomes(p, r) BY <1>5 DEF OpenFails, Becomes
  <2>2. r \in ClientStates BY <1>2 DEF ClientStates
  <2>3. r.pc = "ready" /\ r.id = cl[p].id /\ r.key = None /\ r.res = NoAnswer
    BY <1>2 DEF ClientStates
  <2> HIDE DEF r
  <2>4. Good(r) /\ KeyInHand(r) /\ ValueInHand(r)
    BY <1>2, <2>2, <2>3 DEF Good, KeyInHand, ValueInHand
  <2> QED BY <1>1, <2>1, <2>4, AloneStep
<1> QED BY <1>3, <1>4, <1>5

-----------------------------------------------------------------------------
(***************************************************************************)
(* The steps of a command that change the key, the files or the server     *)
(***************************************************************************)

\* A key is read, or generated and not yet stored.
LEMMA OpenKeyStep ==
  ASSUME Inv, NEW p \in Procs, OpenKey(p)
  PROVE  Inv' /\ (OneAtATime /\ Sole => Sole')
<1>1. /\ UNCHANGED <<srv, cachekey, files, now, acked, unsure>>
      /\ cl[p] \in ClientStates /\ cl[p].id \in Ids /\ cl[p].res = NoAnswer
      /\ cachekey \in Keys \cup {None} /\ keys \in 0..MaxKeys
  BY DEF Inv, TypeOK, Holds, OpenKey, At
<1>2. PICK pc, key :
        /\ cl' = [cl EXCEPT ![p].pc = pc, ![p].key = key]
        /\ \/ pc = "ready" /\ cachekey # None /\ key = cachekey /\ keys' = keys
           \/ /\ pc = "newkey" /\ cachekey = None /\ keys < MaxKeys
              /\ key = keys + 1 /\ keys' = keys + 1
  BY DEF OpenKey
<1>3. key \in Keys /\ key # None /\ keys' \in 0..MaxKeys
  BY <1>1, <1>2, CacheNumbersAssumption, CacheNoneAssumption DEF Keys
<1>4. PICK r : Good(r) /\ Becomes(p, r) /\ r.pc = pc /\ r.key = key
  <2> DEFINE r == [cl[p] EXCEPT !.pc = pc, !.key = key]
  <2>1. Becomes(p, r) BY <1>2 DEF Becomes
  <2>2. r \in ClientStates BY <1>1, <1>2, <1>3 DEF ClientStates
  <2>3. r.pc = pc /\ r.id = cl[p].id /\ r.key = key /\ r.res = NoAnswer
    BY <1>1 DEF ClientStates
  <2> HIDE DEF r
  <2>4. Good(r) BY <1>1, <1>3, <2>2, <2>3 DEF Good
  <2> QED BY <2>1, <2>3, <2>4
<1>5. Inv' BY <1>1, <1>3, <1>4, BecomesInv DEF Inv, TypeOK
<1>6. KeyInHand(r)' /\ ValueInHand(r)'
  BY <1>1, <1>2, <1>4 DEF KeyInHand, ValueInHand
<1>7. Sole => \A id \in Ids : FileInOrder(id)' BY <1>1 DEF Sole, FileInOrder
<1> QED BY <1>4, <1>5, <1>6, <1>7, BecomesSole

\* The generated key is stored: when commands run one at a time there was none.
LEMMA WriteKeyStep ==
  ASSUME Inv, NEW p \in Procs, WriteKey(p)
  PROVE  Inv' /\ (OneAtATime /\ Sole => Sole')
<1>1. /\ UNCHANGED <<srv, keys, files, now, acked, unsure>>
      /\ cl[p] \in ClientStates /\ cl[p].id \in Ids /\ cl[p].res = NoAnswer
      /\ cachekey' = cl[p].key /\ cl[p].pc = "newkey" /\ cl[p].key \in Keys
      /\ files \in [Ids -> Files \cup {None}]
  BY DEF Inv, TypeOK, Holds, WriteKey, At, ClientStates
<1>2. PICK r : Good(r) /\ Becomes(p, r) /\ r.pc = "ready" /\ r.key = cachekey'
  <2> DEFINE r == [cl[p] EXCEPT !.pc = "ready"]
  <2>1. Becomes(p, r) BY DEF WriteKey, Goto, Becomes
  <2>2. r \in ClientStates BY <1>1 DEF ClientStates
  <2>3. /\ r.pc = "ready" /\ r.id = cl[p].id /\ r.key = cl[p].key
        /\ r.res = NoAnswer
    BY <1>1 DEF ClientStates
  <2> HIDE DEF r
  <2>4. Good(r) BY <1>1, <2>2, <2>3 DEF Good
  <2> QED BY <1>1, <2>1, <2>3, <2>4
<1>3. Inv' BY <1>1, <1>2, BecomesInv DEF Inv, TypeOK
<1>4. KeyInHand(r)' /\ ValueInHand(r)' BY <1>2 DEF KeyInHand, ValueInHand
<1>5. ASSUME Sole PROVE \A id \in Ids : FileInOrder(id)'
  <2> TAKE id \in Ids
  <2>1. cachekey = None BY <1>1, <1>5 DEF Sole, KeyInHand
  <2>2. FileInOrder(id) BY <1>5 DEF Sole
  <2>3. files[id] = None
    BY <1>1, <2>1, <2>2, CacheNoneAssumption, CacheNumbersAssumption
       DEF FileInOrder, Files, Keys
  <2> QED BY <1>1, <2>2, <2>3 DEF FileInOrder
<1> QED BY <1>2, <1>3, <1>4, <1>5, BecomesSole

\* A file is stored under the key in hand, with the value that was fetched.
LEMMA StoreStep ==
  ASSUME Inv, NEW p \in Procs, Store(p)
  PROVE  Inv' /\ (OneAtATime /\ Sole => Sole')
<1> DEFINE c == cl[p]
           f == encrypt(c.key, c.id, c.val, now)
<1>1. /\ UNCHANGED <<srv, cachekey, keys, now, acked>>
      /\ c \in ClientStates /\ c.id \in Ids /\ c.pc = "store" /\ c.key # None
      /\ files' = [files EXCEPT ![c.id] = f] /\ unsure' = unsure \ {c.id}
      /\ Done(p, "live", c.val)
      /\ files \in [Ids -> Files \cup {None}] /\ now \in Times
      /\ unsure \in SUBSET Ids
  BY DEF Inv, TypeOK, Holds, Store, At
<1>2. c.val \in Writes /\ c.key \in Keys BY <1>1 DEF ClientStates
<1>3. f \in Files /\ f.key = c.key /\ f.val = c.val
  BY <1>1, <1>2 DEF encrypt, Files
<1> HIDE DEF f
<1>4. PICK r : Good(r) /\ Becomes(p, r) /\ r.pc = "done"
  <2>1. PICK v \in Writes : Done(p, "live", v) BY <1>1, <1>2
  <2>2. cl[p].pc # "off" BY <1>1
  <2> QED BY <2>1, <2>2, DoneGood
<1>5. files' \in [Ids -> Files \cup {None}] BY <1>1, <1>3
<1>6. Inv' BY <1>1, <1>4, <1>5, BecomesInv DEF Inv, TypeOK
<1>7. KeyInHand(r)' /\ ValueInHand(r)' BY <1>4 DEF KeyInHand, ValueInHand
<1>8. ASSUME Sole PROVE \A id \in Ids : FileInOrder(id)'
  <2> TAKE id \in Ids
  <2>1. FileInOrder(id) /\ KeyInHand(c) /\ ValueInHand(c) BY <1>8 DEF Sole
  <2>2. CASE id = c.id
    <3>1. files'[id] = f BY <1>1, <2>2
    <3> QED
      BY <1>1, <1>3, <2>1, <2>2, <3>1 DEF FileInOrder, KeyInHand, ValueInHand
  <2>3. CASE id # c.id
    BY <1>1, <2>1, <2>3 DEF FileInOrder
  <2> QED BY <2>2, <2>3
<1> QED BY <1>4, <1>6, <1>7, <1>8, BecomesSole

\* The server's counts only grow.
LEMMA WriteGrows ==
  ASSUME Inv, NEW x \in Projects, Write(x)
  PROVE  /\ srv' \in [Projects -> Writes] /\ srv'[x] = srv[x] + 1
         /\ \A y \in Projects : srv[y] <= srv'[y]
BY CacheNumbersAssumption DEF Inv, TypeOK, Write, Writes

\* A set is applied, and its answer arrives or does not.
LEMMA SetStep ==
  ASSUME Inv, NEW p \in Procs, SetOk(p) \/ SetUnreachable(p)
  PROVE  Inv' /\ (OneAtATime /\ Sole => Sole')
<1> DEFINE c == cl[p]
           x == c.id[2]
<1>1. /\ UNCHANGED <<cachekey, keys, files, now, acked, unsure>>
      /\ c \in ClientStates /\ c.id \in Ids /\ c.pc = "ready" /\ c.res = NoAnswer
      /\ x \in Projects /\ Writes \subseteq Int /\ 0 \in Writes
      /\ srv \in [Projects -> Writes] /\ acked \in [Ids -> Writes]
  BY IdParts, CacheNumbersAssumption
     DEF Inv, TypeOK, Holds, SetOk, SetUnreachable, At, Writes
<1>2. /\ srv' \in [Projects -> Writes]
      /\ \A y \in Projects : srv[y] <= srv'[y]
  BY <1>1, WriteGrows DEF SetOk, SetUnreachable
<1>3. PICK r : /\ Good(r) /\ Becomes(p, r)
               /\ \/ r.pc = "done"
                  \/ /\ r.pc = "remove" /\ r.id = c.id /\ r.key = c.key
                     /\ r.val = srv'[x]
  <2>1. CASE SetOk(p)
    <3>1. srv'[x] = srv[x] + 1 /\ srv'[x] \in Writes
      BY <1>1, <2>1, WriteGrows DEF SetOk
    <3> DEFINE r == [c EXCEPT !.pc = "remove", !.val = srv[x] + 1]
    <3>2. Becomes(p, r) BY <2>1 DEF SetOk, Becomes
    <3>3. r \in ClientStates BY <1>1, <3>1 DEF ClientStates
    <3>4. /\ r.pc = "remove" /\ r.id = c.id /\ r.key = c.key
          /\ r.val = srv'[x] /\ r.res = NoAnswer
      BY <1>1, <3>1 DEF ClientStates
    <3> HIDE DEF r
    <3>5. Good(r) BY <1>1, <3>3, <3>4 DEF Good
    <3> QED BY <3>2, <3>4, <3>5
  <2>2. CASE SetUnreachable(p)
    <3>1. PICK v \in Writes : Done(p, "error", v)
      BY <1>1, <2>2 DEF SetUnreachable
    <3>2. cl[p].pc # "off" BY <1>1
    <3>3. \E r : Good(r) /\ Becomes(p, r) /\ r.pc = "done"
      BY <3>1, <3>2, DoneGood
    <3> QED BY <3>3
  <2> QED BY <2>1, <2>2
<1>4. Inv' BY <1>1, <1>2, <1>3, BecomesInv DEF Inv, TypeOK
<1>5. ASSUME Sole PROVE \A id \in Ids : FileInOrder(id)'
  <2> TAKE id \in Ids
  <2>1. FileInOrder(id) BY <1>5 DEF Sole
  <2>2. srv[id[2]] <= srv'[id[2]] /\ srv[id[2]] \in Int /\ srv'[id[2]] \in Int
        /\ acked[id] \in Int
    BY <1>1, <1>2, IdParts
  <2> QED BY <1>1, <2>1, <2>2 DEF FileInOrder
<1>6. ASSUME Sole PROVE KeyInHand(r)' /\ ValueInHand(r)'
  <2>1. KeyInHand(c) BY <1>6 DEF Sole
  <2>2. CASE r.pc = "done" BY <2>2 DEF KeyInHand, ValueInHand
  <2>3. CASE /\ r.pc = "remove" /\ r.id = c.id /\ r.key = c.key
             /\ r.val = srv'[x]
    <3>1. r.key # None => r.key = cachekey BY <1>1, <2>1, <2>3 DEF KeyInHand
    <3>2. r.val = srv'[r.id[2]] /\ r.val \in Int BY <1>1, <1>2, <2>3
    <3> HIDE DEF c, x
    <3>3. KeyInHand(r)' BY <1>1, <2>3, <3>1 DEF KeyInHand
    <3>4. ValueInHand(r)' BY <2>3, <3>2 DEF ValueInHand
    <3> QED BY <3>3, <3>4
  <2> QED BY <1>3, <2>2, <2>3
<1> QED BY <1>3, <1>4, <1>5, <1>6, BecomesSole

\* A set is acknowledged: its file is gone, or the id is noted as unsure.
LEMMA RemoveStep ==
  ASSUME Inv, NEW p \in Procs, Remove(p) \/ RemoveFails(p)
  PROVE  Inv' /\ (OneAtATime /\ Sole => Sole')
<1> DEFINE c == cl[p]
<1>1. /\ UNCHANGED <<srv, cachekey, keys, now>>
      /\ c \in ClientStates /\ c.id \in Ids /\ c.pc = "remove"
      /\ acked' = [acked EXCEPT ![c.id] = c.val] /\ Done(p, "ok", c.val)
      /\ acked \in [Ids -> Writes] /\ unsure \in SUBSET Ids
      /\ files \in [Ids -> Files \cup {None}]
  BY DEF Inv, TypeOK, Holds, Remove, RemoveFails, At
<1>2. c.val \in Writes BY <1>1 DEF ClientStates
<1>3. \/ files' = [files EXCEPT ![c.id] = None] /\ unsure' = unsure \ {c.id}
      \/ files' = files /\ unsure' = unsure \cup {c.id}
  BY DEF Remove, RemoveFails
<1>4. PICK r : Good(r) /\ Becomes(p, r) /\ r.pc = "done"
  <2>1. PICK v \in Writes : Done(p, "ok", v) BY <1>1, <1>2
  <2>2. cl[p].pc # "off" BY <1>1
  <2> QED BY <2>1, <2>2, DoneGood
<1>5. /\ files' \in [Ids -> Files \cup {None}] /\ unsure' \in SUBSET Ids
      /\ acked' \in [Ids -> Writes]
  BY <1>1, <1>2, <1>3
<1>6. Inv' BY <1>1, <1>4, <1>5, BecomesInv DEF Inv, TypeOK
<1>7. KeyInHand(r)' /\ ValueInHand(r)' BY <1>4 DEF KeyInHand, ValueInHand
<1>8. ASSUME Sole PROVE \A id \in Ids : FileInOrder(id)'
  <2> TAKE id \in Ids
  <2>1. FileInOrder(id) /\ ValueInHand(c) BY <1>8 DEF Sole
  <2>2. CASE id = c.id
    BY <1>1, <1>3, <2>1, <2>2 DEF FileInOrder, ValueInHand
  <2>3. CASE id # c.id
    BY <1>1, <1>3, <2>1, <2>3 DEF FileInOrder
  <2> QED BY <2>2, <2>3
<1> QED BY <1>4, <1>6, <1>7, <1>8, BecomesSole

-----------------------------------------------------------------------------
(***************************************************************************)
(* The rest of the world                                                   *)
(***************************************************************************)

\* Others write to the server.
LEMMA RemoteWriteStep ==
  ASSUME Inv, NEW x \in Projects, RemoteWrite(x)
  PROVE  Inv' /\ (Sole => Sole')
<1>1. /\ UNCHANGED <<cachekey, keys, files, now, cl, acked, unsure>>
      /\ srv' \in [Projects -> Writes]
      /\ \A y \in Projects : srv[y] <= srv'[y]
  BY WriteGrows DEF RemoteWrite
<1>2. Inv' BY <1>1 DEF Inv, TypeOK, Holds
<1>3. /\ Writes \subseteq Int /\ srv \in [Projects -> Writes]
      /\ acked \in [Ids -> Writes] /\ cl \in [Procs -> ClientStates]
  BY CacheNumbersAssumption DEF Inv, TypeOK, Writes
<1>4. ASSUME Sole, NEW id \in Ids PROVE FileInOrder(id)'
  <2>1. /\ srv[id[2]] <= srv'[id[2]] /\ srv[id[2]] \in Int
        /\ srv'[id[2]] \in Int /\ acked[id] \in Int
    BY <1>1, <1>3, IdParts
  <2> QED BY <1>1, <1>4, <2>1 DEF Sole, FileInOrder
<1>5. ASSUME Sole, NEW p \in Procs PROVE KeyInHand(cl[p])' /\ ValueInHand(cl[p])'
  <2>1. KeyInHand(cl[p]) /\ ValueInHand(cl[p]) BY <1>5 DEF Sole
  <2>2. cl[p].val \in Int BY <1>3 DEF ClientStates
  <2>3. cl[p].pc = "remove" =>
          /\ srv[cl[p].id[2]] <= srv'[cl[p].id[2]]
          /\ srv[cl[p].id[2]] \in Int /\ srv'[cl[p].id[2]] \in Int
    BY <1>1, <1>3, IdParts DEF Inv, Holds
  <2> QED BY <1>1, <2>1, <2>2, <2>3 DEF KeyInHand, ValueInHand
<1> QED BY <1>2, <1>4, <1>5 DEF Sole

\* The clock moves, or nothing does.
LEMMA ClockStep ==
  ASSUME Inv, now' \in Times,
         UNCHANGED <<srv, cachekey, keys, files, cl, acked, unsure>>
  PROVE  Inv' /\ (Sole => Sole')
<1>1. Inv' BY DEF Inv, TypeOK, Holds
<1>2. Sole => Sole' BY DEF Sole, FileInOrder, KeyInHand, ValueInHand
<1> QED BY <1>1, <1>2

\* A file is overwritten with another one, and noted as unsure.
LEMMA FileEditedStep ==
  ASSUME Inv, NEW id \in Ids, NEW from \in Ids, NEW t \in Times,
         FileEdited(id, from, t)
  PROVE  Inv' /\ (Sole => Sole')
<1> DEFINE f == [files[from] EXCEPT !.at = t]
<1>1. /\ UNCHANGED <<srv, cachekey, keys, now, cl, acked>>
      /\ files[from] \in Files /\ files \in [Ids -> Files \cup {None}]
      /\ files' = [files EXCEPT ![id] = f] /\ unsure' = unsure \cup {id}
  BY DEF Inv, TypeOK, FileEdited
<1>2. f \in Files /\ f.key = files[from].key BY <1>1 DEF Files
<1>3. files[from] # None BY DEF FileEdited
<1> HIDE DEF f
<1>4. Inv' BY <1>1, <1>2 DEF Inv, TypeOK, Holds
<1>5. ASSUME Sole, NEW i \in Ids PROVE FileInOrder(i)'
  BY <1>1, <1>2, <1>3, <1>5 DEF Sole, FileInOrder
<1>6. ASSUME Sole, NEW p \in Procs PROVE KeyInHand(cl[p])' /\ ValueInHand(cl[p])'
  BY <1>1, <1>6 DEF Sole, KeyInHand, ValueInHand
<1> QED BY <1>4, <1>5, <1>6 DEF Sole

-----------------------------------------------------------------------------
(***************************************************************************)
(* The theorems                                                            *)
(***************************************************************************)

\* Nothing is cached and nobody runs at first.
LEMMA InitInv == Init => Inv /\ Sole
<1> SUFFICES ASSUME Init PROVE Inv /\ Sole OBVIOUS
<1>1. 0 \in Writes /\ 0 \in Times /\ 0 \in 0..MaxKeys
  BY CacheNumbersAssumption DEF Writes, Times
<1>2. TypeOK BY <1>1, IdleType DEF Init, TypeOK
<1>3. \A p \in Procs : cl[p].pc = "off" /\ cl[p].res = NoAnswer
  BY DEF Init, Idle
<1>4. Inv BY <1>2, <1>3 DEF Inv, Holds
<1>5. \A p \in Procs : KeyInHand(cl[p]) /\ ValueInHand(cl[p])
  BY <1>3 DEF KeyInHand, ValueInHand
<1>6. \A id \in Ids : FileInOrder(id) BY IdParts DEF Init, FileInOrder
<1> QED BY <1>4, <1>5, <1>6 DEF Sole

\* Every step keeps the invariant and, when commands run one at a time, the
\* order of key, files and values.
LEMMA NextInv ==
  ASSUME Inv, [Next]_vars
  PROVE  Inv' /\ (OneAtATime /\ Sole => Sole')
<1>1. ASSUME NEW p \in Procs, NEW op \in {"get", "set", "token"},
             NEW id \in Ids, NEW cached \in BOOLEAN, Start(p, op, id, cached)
      PROVE  Inv' /\ (OneAtATime /\ Sole => Sole')
  BY <1>1, StartStep
<1>2. ASSUME NEW p \in Procs, Command(p)
      PROVE  Inv' /\ (OneAtATime /\ Sole => Sole')
  <2>1. CASE OpenKey(p) BY <2>1, OpenKeyStep
  <2>2. CASE WriteKey(p) BY <2>2, WriteKeyStep
  <2>3. CASE OpenFails(p) \/ FetchOk(p) \/ FetchUnreachable(p)
    BY <2>3, GoOnStep, DoneStep
  <2>4. CASE Refused(p) \/ StoreFails(p) \/ Load(p) \/ LoadFails(p) \/ TokenCall(p)
    BY <2>4, DoneStep
  <2>5. CASE Store(p) BY <2>5, StoreStep
  <2>6. CASE SetOk(p) \/ SetUnreachable(p) BY <2>6, SetStep
  <2>7. CASE Remove(p) \/ RemoveFails(p) BY <2>7, RemoveStep
  <2> QED BY <1>2, <2>1, <2>2, <2>3, <2>4, <2>5, <2>6, <2>7 DEF Command
<1>3. ASSUME NEW p \in Procs, Crash(p)
      PROVE  Inv' /\ (OneAtATime /\ Sole => Sole')
  BY <1>3, CrashStep
<1>4. ASSUME NEW x \in Projects, RemoteWrite(x)
      PROVE  Inv' /\ (OneAtATime /\ Sole => Sole')
  BY <1>4, RemoteWriteStep
<1>5. ASSUME NEW t \in Times, ClockSet(t)
      PROVE  Inv' /\ (OneAtATime /\ Sole => Sole')
  BY <1>5, ClockStep DEF ClockSet
<1>6. ASSUME NEW id \in Ids, NEW from \in Ids, NEW t \in Times,
             FileEdited(id, from, t)
      PROVE  Inv' /\ (OneAtATime /\ Sole => Sole')
  BY <1>6, FileEditedStep
<1>7. CASE UNCHANGED vars
  BY <1>7, ClockStep DEF vars, Inv, TypeOK
<1> QED BY <1>1, <1>2, <1>3, <1>4, <1>5, <1>6, <1>7 DEF Next

\* The invariant holds of any number of client processes.
THEOREM Invariance == Spec => []Inv
<1>1. Init => Inv BY InitInv
<1>2. Inv /\ [Next]_vars => Inv' BY NextInv
<1> QED BY <1>1, <1>2, PTL DEF Spec

\* Every variable keeps its type: the cache key, the files, the clients and the
\* server's counts (the fields of cache.rs's envelope and of api.rs's commands).
THEOREM TypeCorrect == Spec => []TypeOK
<1>1. Inv => TypeOK BY DEF Inv
<1> QED BY <1>1, Invariance, PTL

\* An answer appears at a process that is loading only by its own Load, or because
\* it cannot read: nobody else writes it, and it has none before.
LEMMA ServedByLoad ==
  ASSUME Inv, [Next]_vars, NEW p \in Procs, cl[p].pc = "load"
  PROVE  Load(p) \/ cl'[p].res.kind \in {"none", "unreadable"}
<1>1. /\ cl[p].res.kind = "none" /\ cl \in [Procs -> ClientStates]
      /\ cl[p] \in ClientStates
  BY DEF Inv, TypeOK, Holds, NoAnswer
<1>2. CASE UNCHANGED cl BY <1>1, <1>2
<1>3. ASSUME NEW q \in Procs, q # p, NEW r, Becomes(q, r)
      PROVE  cl'[p].res.kind = "none"
  BY <1>1, <1>3 DEF Becomes
<1>4. ASSUME NEW q \in Procs, Command(q)
      PROVE  Load(p) \/ cl'[p].res.kind \in {"none", "unreadable"}
  <2>1. CASE LoadFails(p) BY <1>1, <2>1 DEF LoadFails, Done, ClientStates
  <2>3. CASE q = p /\ ~LoadFails(p)
    BY <1>4, <2>3
       DEF Command, OpenKey, WriteKey, OpenFails, FetchOk, Refused,
           FetchUnreachable, Store, StoreFails, SetOk, SetUnreachable, Remove,
           RemoveFails, TokenCall, At
  <2>2. CASE q # p
    <3>1. \E r : cl' = [cl EXCEPT ![q] = r]
      BY <1>4
         DEF Command, OpenKey, WriteKey, OpenFails, FetchOk, Refused,
             FetchUnreachable, Store, StoreFails, Load, LoadFails, SetOk,
             SetUnreachable, Remove, RemoveFails, TokenCall, Goto, Done
    <3> QED BY <1>3, <2>2, <3>1 DEF Becomes
  <2> QED BY <2>1, <2>2, <2>3
<1>5. ASSUME NEW q \in Procs, NEW op, NEW id, NEW cached, Start(q, op, id, cached)
      PROVE  cl'[p].res.kind = "none"
  BY <1>3, <1>5 DEF Start, Becomes
<1>6. ASSUME NEW q \in Procs, Crash(q) PROVE cl'[p].res.kind = "none"
  <2>1. CASE q = p BY <1>1, <1>6, <2>1 DEF Crash, Idle, NoAnswer
  <2>2. CASE q # p BY <1>3, <1>6, <2>2 DEF Crash, Becomes
  <2> QED BY <2>1, <2>2
<1> QED
  BY <1>2, <1>4, <1>5, <1>6
     DEF Next, RemoteWrite, ClockSet, FileEdited, vars

\* The file of a process that is loading passes every check.
Usable(p) ==
  LET f == files[cl[p].id]
  IN  f # None /\ InTime(f.at) /\ decrypts(f, cl[p].key, cl[p].id)

\* What a Load answers with and when.
LEMMA LoadAnswers ==
  ASSUME Inv, NEW p \in Procs, Load(p)
  PROVE  /\ Usable(p) =>
              cl'[p].res = [kind |-> "cached", val |-> files[cl[p].id].val]
         /\ ~Usable(p) => cl'[p].res = [kind |-> "unusable", val |-> 0]
<1>1. cl[p] \in ClientStates /\ cl \in [Procs -> ClientStates]
  BY DEF Inv, TypeOK
<1>2. ASSUME NEW k, NEW v, Done(p, k, v)
      PROVE  cl'[p].res = [kind |-> k, val |-> v]
  BY <1>1, <1>2 DEF Done, ClientStates
<1>3. Usable(p) => Done(p, "cached", files[cl[p].id].val) BY DEF Load, Usable
<1>4. ~Usable(p) => Done(p, "unusable", 0) BY DEF Load, Usable
<1> QED BY <1>2, <1>3, <1>4

\* A file that serves was sealed for its id and is in time.
LEMMA ServedIsBound ==
  ASSUME Inv, [Next]_vars, NEW p \in Procs, Serves(p)
  PROVE  LET f == files[cl[p].id]
         IN  /\ f.id = cl[p].id
             /\ f.sealed <= now + Skew
             /\ now - f.sealed <= TTL
<1> DEFINE f == files[cl[p].id]
<1>1. cl[p].pc = "load" /\ cl'[p].res.kind = "cached" BY DEF Serves, At
<1>2. Load(p) BY <1>1, ServedByLoad
<1>3. f # None /\ InTime(f.at) /\ decrypts(f, cl[p].key, cl[p].id)
  <2>1. [kind |-> "unusable", val |-> 0].kind # "cached" OBVIOUS
  <2>2. Usable(p) BY <1>1, <1>2, <2>1, LoadAnswers
  <2> QED BY <2>2 DEF Usable
<1>4. f \in Files /\ now \in Int /\ Skew \in Int /\ TTL \in Int
  BY <1>1, <1>3, CacheNumbersAssumption DEF Inv, TypeOK, Holds, Times
<1>5. f.sealed \in Int /\ f.sealed = f.at /\ f.id = cl[p].id
  BY <1>3, <1>4 DEF Files, Times, decrypts
<1> HIDE DEF f
<1>6. f.sealed <= now + Skew /\ now - f.sealed <= TTL
  BY <1>3, <1>4, <1>5, CacheNumbersAssumption DEF InTime
<1> QED BY <1>5, <1>6 DEF f

\* A value comes out of the cache only for the token and project it was fetched
\* with and within the TTL of its sealing, for any number of processes, any edits
\* of the cache files and any clock (CacheStore::load).
THEOREM CacheBound == Spec => CacheIsBound
<1>1. Inv /\ [Next]_vars =>
        [\A p \in Procs : Serves(p) =>
           LET f == files[cl[p].id]
           IN  /\ f.id = cl[p].id
               /\ f.sealed <= now + Skew
               /\ now - f.sealed <= TTL]_vars
  BY ServedIsBound
<1> QED BY <1>1, Invariance, PTL DEF Spec, CacheIsBound

\* When commands run one at a time, the order of key, files and values is kept.
LEMMA SoleAlways == ASSUME OneAtATime PROVE Spec => [](Inv /\ Sole)
<1>1. Init => Inv /\ Sole BY InitInv
<1>2. Inv /\ Sole /\ [Next]_vars => (Inv /\ Sole)' BY NextInv
<1> QED BY <1>1, <1>2, PTL DEF Spec

\* What is served from a file that no set missed is no older than the last
\* acknowledged set.
LEMMA ServedIsCurrent ==
  ASSUME Inv, Sole, [Next]_vars, NEW p \in Procs, Serves(p),
         cl[p].id \notin unsure
  PROVE  cl'[p].res.val >= acked[cl[p].id]
<1>1. cl[p].pc = "load" /\ cl'[p].res.kind = "cached" BY DEF Serves, At
<1>2. Load(p) BY <1>1, ServedByLoad
<1>3. /\ files[cl[p].id] # None
      /\ cl'[p].res = [kind |-> "cached", val |-> files[cl[p].id].val]
  <2>1. [kind |-> "unusable", val |-> 0].kind # "cached" OBVIOUS
  <2>2. Usable(p) BY <1>1, <1>2, <2>1, LoadAnswers
  <2> QED BY <1>2, <2>2, LoadAnswers DEF Usable
<1>4. FileInOrder(cl[p].id) BY <1>1 DEF Sole, Inv, Holds
<1> QED BY <1>3, <1>4 DEF FileInOrder

\* When commands run one at a time, the cache never answers with what an
\* acknowledged set replaced, except through the files in unsure, whatever
\* crashes, lost answers, edits and writes by others come between (api.rs,
\* set_secret; cache.rs, remove).
THEOREM OwnWritesRead == ASSUME OneAtATime PROVE Spec => ReadYourWrites
<1>1. Inv /\ Sole /\ [Next]_vars =>
        [\A p \in Procs : Serves(p) /\ cl[p].id \notin unsure
                            => cl'[p].res.val >= acked[cl[p].id]]_vars
  BY ServedIsCurrent
<1> QED BY <1>1, SoleAlways, PTL DEF Spec, ReadYourWrites

\* An intact file in time is under the key in hand, and is served.
LEMMA FreshIsServed ==
  ASSUME Inv, Sole, [Next]_vars, NEW p \in Procs, At(p, "load"),
         Intact(cl[p].id), Fresh(files[cl[p].id].at)
  PROVE  cl'[p].res.kind \in {"cached", "none", "unreadable"}
<1> DEFINE f == files[cl[p].id]
<1>1. cl[p].pc = "load" BY DEF At
<1>2. CASE cl'[p].res.kind \in {"none", "unreadable"} BY <1>2
<1>3. CASE Load(p)
  <2>1. /\ cl[p].id \in Ids /\ f # None /\ f.id = cl[p].id
        /\ f.sealed = f.at /\ cl[p].key # None
    BY <1>1 DEF Inv, Holds, Intact
  <2>2. f.key = cl[p].key
    BY <1>1, <2>1 DEF Sole, KeyInHand, FileInOrder
  <2>3. f.at \in Int /\ now \in Int /\ Skew \in Nat /\ TTL \in Nat
    BY <2>1, CacheNumbersAssumption DEF Inv, TypeOK, Files, Times
  <2>4. InTime(f.at) BY <2>3 DEF Fresh, InTime
  <2>5. decrypts(f, cl[p].key, cl[p].id) BY <2>1, <2>2 DEF decrypts
  <2>6. cl'[p].res = [kind |-> "cached", val |-> f.val]
    BY <1>3, <2>1, <2>4, <2>5, LoadAnswers DEF Usable
  <2> QED BY <2>6
<1> QED BY <1>1, <1>2, <1>3, ServedByLoad

\* When commands run one at a time, an intact cache file that is in time, and that
\* can be read, is used: it is never taken for expired or for sealed with another
\* key, since no client has replaced the key (CacheStore::open, CacheStore::load).
THEOREM FreshEntriesServed == ASSUME OneAtATime PROVE Spec => FreshEntryUsed
<1>1. Inv /\ Sole /\ [Next]_vars =>
        [\A p \in Procs :
           At(p, "load") /\ Intact(cl[p].id) /\ Fresh(files[cl[p].id].at)
             => cl'[p].res.kind \in {"cached", "none", "unreadable"}]_vars
  BY FreshIsServed
<1> QED BY <1>1, SoleAlways, PTL DEF Spec, FreshEntryUsed
=============================================================================
