---------------------------- MODULE OfflineCache ----------------------------
(***************************************************************************)
(* The client's encrypted offline cache: the cache key and the cache files *)
(* of one user on one host, and the "secrets" processes that use them.     *)
(*                                                                         *)
(* A cache file belongs to a server, a token and a project; here the       *)
(* server is fixed.  The secrets of a project are one number, the count of *)
(* the writes made to it, so that a larger number is a later state.  A     *)
(* file's ciphertext is [key, id, sealed, val]: it opens under that key as *)
(* the file of that id with that creation time, which is bound as          *)
(* associated data.  at is the creation time that the envelope shows.      *)
(*                                                                         *)
(* Files are replaced by rename, so a reader never sees half of one.       *)
(***************************************************************************)
EXTENDS Integers, FiniteSets

CONSTANTS Procs,      \* client processes
          Tokens,     \* the tokens this user works with
          Projects,
          None,
          TTL,        \* CACHE_TTL
          Skew,       \* MAX_FUTURE_SKEW_SECS
          Faults,     \* whether operations on the cache directory may fail
          Edits,      \* whether something else may rewrite the cache files
          MaxTime,    \* bound on the clock
          MaxKeys,    \* bound on the cache keys generated
          MaxWrites   \* bound on the writes to a project

ASSUME CacheNumbersAssumption ==
  /\ TTL \in Nat /\ Skew \in Nat /\ MaxTime \in Nat
  /\ MaxKeys \in Nat /\ MaxWrites \in Nat

ASSUME CacheFlagsAssumption == Faults \in BOOLEAN /\ Edits \in BOOLEAN

ASSUME CacheNoneAssumption == None \notin Nat

VARIABLES
  srv,       \* srv[project] = the writes the server has applied to it
  cachekey,  \* the stored cache key, or None
  keys,      \* cache keys generated so far
  files,     \* files[id] = the cache file of id, or None
  now,       \* the host's clock
  cl,        \* cl[p] = what client process p is doing
  acked,     \* history: acked[id] = the last set acknowledged to the user of id
  unsure     \* history: ids whose file a set did not remove, or others rewrote

vars == <<srv, cachekey, keys, files, now, cl, acked, unsure>>

Ids == Tokens \X Projects
Keys == 1..MaxKeys
Writes == 0..MaxWrites
Times == 0..MaxTime

Files == [key : Keys, id : Ids, sealed : Times, val : Writes, at : Times]

NoAnswer == [kind |-> "none", val |-> 0]
\* The cache's own errors say why: the file (or the clock) was "unreadable", or
\* the entry "unusable", out of time or not decrypting.
Answers == [kind : {"none", "live", "cached", "ok", "error",
                    "unreadable", "unusable"},
            val : Writes]

Idle == [pc |-> "off", op |-> "get", id |-> None, key |-> None, val |-> 0,
         res |-> NoAnswer]

ClientStates ==
  [pc : {"off", "open", "newkey", "ready", "store", "load", "remove", "done"},
   op : {"get", "set", "token"},
   id : Ids \cup {None},
   key : Keys \cup {None},     \* the open CacheStore's key; None: no cache
   val : Writes,               \* what was fetched or written
   res : Answers]

TypeOK ==
  /\ srv \in [Projects -> Writes]
  /\ cachekey \in Keys \cup {None}
  /\ keys \in 0..MaxKeys
  /\ files \in [Ids -> Files \cup {None}]
  /\ now \in Times
  /\ cl \in [Procs -> ClientStates]
  /\ acked \in [Ids -> Writes]
  /\ unsure \in SUBSET Ids

Init ==
  /\ srv = [x \in Projects |-> 0]
  /\ cachekey = None
  /\ keys = 0
  /\ files = [id \in Ids |-> None]
  /\ now = 0
  /\ cl = [p \in Procs |-> Idle]
  /\ acked = [id \in Ids |-> 0]
  /\ unsure = {}

At(p, pc) == cl[p].pc = pc
Goto(p, pc) == cl' = [cl EXCEPT ![p].pc = pc]
Done(p, kind, val) ==
  cl' = [cl EXCEPT ![p].pc = "done", ![p].res = [kind |-> kind, val |-> val]]

-----------------------------------------------------------------------------
(***************************************************************************)
(* Starting a command and opening the cache                                *)
(***************************************************************************)

\* "get" stands for run, get, list and export, the commands with --no-cache.
Start(p, op, id, cached) ==
  /\ cl[p].pc \in {"off", "done"}
  /\ op # "get" => cached
  /\ cl' = [cl EXCEPT ![p] = [Idle EXCEPT !.pc = IF cached THEN "open" ELSE "ready",
                                          !.op = op, !.id = id]]
  /\ UNCHANGED <<srv, cachekey, keys, files, now, acked, unsure>>

\* A key that is there is used; otherwise one is generated ...
OpenKey(p) ==
  /\ At(p, "open")
  /\ \/ /\ cachekey # None
        /\ cl' = [cl EXCEPT ![p].pc = "ready", ![p].key = cachekey]
        /\ UNCHANGED keys
     \/ /\ cachekey = None /\ keys < MaxKeys
        /\ cl' = [cl EXCEPT ![p].pc = "newkey", ![p].key = keys + 1]
        /\ keys' = keys + 1
  /\ UNCHANGED <<srv, cachekey, files, now, acked, unsure>>

\* ... and stored, over whatever has been stored since the look.
WriteKey(p) ==
  /\ At(p, "newkey")
  /\ cachekey' = cl[p].key
  /\ Goto(p, "ready")
  /\ UNCHANGED <<srv, keys, files, now, acked, unsure>>

\* The directory or the key cannot be used: a warning, and no cache.
OpenFails(p) ==
  /\ Faults
  /\ At(p, "open") \/ At(p, "newkey")
  /\ cl' = [cl EXCEPT ![p].pc = "ready", ![p].key = None]
  /\ UNCHANGED <<srv, cachekey, keys, files, now, acked, unsure>>

-----------------------------------------------------------------------------
(***************************************************************************)
(* Api::get_secrets                                                        *)
(***************************************************************************)
FetchOk(p) ==
  LET val == srv[cl[p].id[2]]
  IN  /\ At(p, "ready") /\ cl[p].op = "get"
      /\ IF cl[p].key = None
           THEN Done(p, "live", val)
           ELSE cl' = [cl EXCEPT ![p].pc = "store", ![p].val = val]
      /\ UNCHANGED <<srv, cachekey, keys, files, now, acked, unsure>>

\* An HTTP error status, or a body that is too large, malformed or cut off: the
\* error is reported and the cache is left alone, whatever the command.
Refused(p) ==
  /\ At(p, "ready") /\ cl[p].op # "token"
  /\ Done(p, "error", 0)
  /\ UNCHANGED <<srv, cachekey, keys, files, now, acked, unsure>>

\* A transport error (is_transport), the only way into the cache.
FetchUnreachable(p) ==
  /\ At(p, "ready") /\ cl[p].op = "get"
  /\ IF cl[p].key = None THEN Done(p, "error", 0) ELSE Goto(p, "load")
  /\ UNCHANGED <<srv, cachekey, keys, files, now, acked, unsure>>

encrypt(key, id, val, t) ==
  [key |-> key, id |-> id, sealed |-> t, val |-> val, at |-> t]

\* CacheStore::store: the creation time is taken now, not at the fetch.
Store(p) ==
  LET c == cl[p]
  IN  /\ At(p, "store")
      /\ files' = [files EXCEPT ![c.id] = encrypt(c.key, c.id, c.val, now)]
      /\ Done(p, "live", c.val)
      /\ unsure' = unsure \ {c.id}
      /\ UNCHANGED <<srv, cachekey, keys, now, acked>>

\* The fetched secrets are used even if they cannot be cached.
StoreFails(p) ==
  /\ Faults
  /\ At(p, "store")
  /\ Done(p, "live", cl[p].val)
  /\ UNCHANGED <<srv, cachekey, keys, files, now, acked, unsure>>

\* Mutant: an entry of exactly the age TTL is taken for expired.
InTime_OffByOne(t) == /\ ~(t > now + Skew)
                      /\ ~((IF t > now THEN 0 ELSE now - t) >= TTL)

\* The two time checks of CacheStore::load.  The age is a saturating difference.
InTime(t) == /\ ~(t > now + Skew)
             /\ ~((IF t > now THEN 0 ELSE now - t) > TTL)

\* Mutant: the creation time is not part of the associated data.
decrypts_AnyTime(f, key, id) == f.key = key /\ f.id = id

\* The associated data is rebuilt from the reader's id and the envelope's time.
decrypts(f, key, id) == f.key = key /\ f.id = id /\ f.sealed = f.at

Load(p) ==
  LET c == cl[p]
      f == files[c.id]
  IN  /\ At(p, "load")
      /\ f # None
      /\ IF InTime(f.at) /\ decrypts(f, c.key, c.id)
           THEN Done(p, "cached", f.val)
           ELSE Done(p, "unusable", 0)
      /\ UNCHANGED <<srv, cachekey, keys, files, now, acked, unsure>>

\* fs::read fails, also because there is no file; or the clock cannot be read.
LoadFails(p) ==
  /\ At(p, "load")
  /\ Faults \/ files[cl[p].id] = None
  /\ Done(p, "unreadable", 0)
  /\ UNCHANGED <<srv, cachekey, keys, files, now, acked, unsure>>

-----------------------------------------------------------------------------
(***************************************************************************)
(* Api::set_secret and the token commands                                  *)
(***************************************************************************)
Write(x) == srv[x] < MaxWrites /\ srv' = [srv EXCEPT ![x] = @ + 1]

\* The server has applied the write and its answer has arrived.
SetOk(p) ==
  LET x == cl[p].id[2]
  IN  /\ At(p, "ready") /\ cl[p].op = "set"
      /\ Write(x)
      /\ cl' = [cl EXCEPT ![p].pc = "remove", ![p].val = srv[x] + 1]
      /\ UNCHANGED <<cachekey, keys, files, now, acked, unsure>>

\* No answer: the write was applied, or was not, or will be (RemoteWrite).
SetUnreachable(p) ==
  /\ At(p, "ready") /\ cl[p].op = "set"
  /\ Write(cl[p].id[2]) \/ UNCHANGED srv
  /\ Done(p, "error", 0)
  /\ UNCHANGED <<cachekey, keys, files, now, acked, unsure>>

\* Mutant: a set leaves the cached secrets alone.
Remove_Keeps(p) ==
  /\ At(p, "remove")
  /\ acked' = [acked EXCEPT ![cl[p].id] = cl[p].val]
  /\ Done(p, "ok", cl[p].val)
  /\ UNCHANGED <<srv, cachekey, keys, files, now, unsure>>

\* CacheStore::remove, if there is a cache; then the command reports success.
Remove(p) ==
  LET c == cl[p]
  IN  /\ At(p, "remove")
      /\ files' = IF c.key = None THEN files ELSE [files EXCEPT ![c.id] = None]
      /\ unsure' = IF c.key = None THEN unsure \cup {c.id} ELSE unsure \ {c.id}
      /\ acked' = [acked EXCEPT ![c.id] = c.val]
      /\ Done(p, "ok", c.val)
      /\ UNCHANGED <<srv, cachekey, keys, now>>

\* An error of remove_file is ignored.
RemoveFails(p) ==
  /\ Faults
  /\ At(p, "remove")
  /\ unsure' = unsure \cup {cl[p].id}
  /\ acked' = [acked EXCEPT ![cl[p].id] = cl[p].val]
  /\ Done(p, "ok", cl[p].val)
  /\ UNCHANGED <<srv, cachekey, keys, files, now>>

\* Token commands open the cache like the others and do not use it.
TokenCall(p) ==
  /\ At(p, "ready") /\ cl[p].op = "token"
  /\ \E kind \in {"ok", "error"} : Done(p, kind, 0)
  /\ UNCHANGED <<srv, cachekey, keys, files, now, acked, unsure>>

-----------------------------------------------------------------------------
(***************************************************************************)
(* The rest of the world                                                   *)
(***************************************************************************)

\* Somebody else's write, or a late one of ours.
RemoteWrite(x) ==
  /\ Write(x)
  /\ UNCHANGED <<cachekey, keys, files, now, cl, acked, unsure>>

\* Time passes, or the clock is set, back as well as forward.
ClockSet(t) ==
  /\ t # now
  /\ now' = t
  /\ UNCHANGED <<srv, cachekey, keys, files, cl, acked, unsure>>

\* A cache file is copied over another, or its creation time is rewritten.
FileEdited(id, from, t) ==
  /\ Edits
  /\ files[from] # None
  /\ files' = [files EXCEPT ![id] = [files[from] EXCEPT !.at = t]]
  /\ unsure' = unsure \cup {id}
  /\ UNCHANGED <<srv, cachekey, keys, now, cl, acked>>

Crash(p) ==
  /\ cl[p].pc \notin {"off", "done"}
  /\ cl' = [cl EXCEPT ![p] = Idle]
  /\ UNCHANGED <<srv, cachekey, keys, files, now, acked, unsure>>

Command(p) ==
  \/ OpenKey(p) \/ WriteKey(p) \/ OpenFails(p)
  \/ FetchOk(p) \/ Refused(p) \/ FetchUnreachable(p)
  \/ Store(p) \/ StoreFails(p) \/ Load(p) \/ LoadFails(p)
  \/ SetOk(p) \/ SetUnreachable(p) \/ Remove(p) \/ RemoveFails(p)
  \/ TokenCall(p)

Next ==
  \/ \E p \in Procs :
       \/ \E op \in {"get", "set", "token"}, id \in Ids, cached \in BOOLEAN :
            Start(p, op, id, cached)
       \/ Command(p) \/ Crash(p)
  \/ \E x \in Projects : RemoteWrite(x)
  \/ \E t \in Times : ClockSet(t)
  \/ \E id, from \in Ids, t \in Times : FileEdited(id, from, t)

Spec == Init /\ [][Next]_vars

-----------------------------------------------------------------------------
(***************************************************************************)
(* Properties                                                              *)
(***************************************************************************)
Serves(p) == At(p, "load") /\ cl'[p].res.kind = "cached"

\* A value comes out of the cache only for the token and project it was fetched
\* with, and only within the TTL (and the skew) of the moment it was sealed,
\* whatever was done to the cache files (cache.rs; docs/SECURITY.md: "a cache-file
\* writer cannot extend the 24 h TTL or replay stale ciphertext").
CacheIsBound == [][
  \A p \in Procs : Serves(p) =>
    LET f == files[cl[p].id]
    IN  /\ f.id = cl[p].id
        /\ f.sealed <= now + Skew
        /\ now - f.sealed <= TTL]_vars

\* Once a set is acknowledged, the cache never again answers with what it
\* replaced, through crashes between the write and the removal, lost answers and
\* writes by others, as long as the commands run one at a time.  The two ways
\* around it are the ones in unsure: a removal that was skipped or whose error
\* was ignored, until the file is next stored or removed, and a file put there
\* by something else (api.rs, cache.rs).
ReadYourWrites == [][
  \A p \in Procs : Serves(p) /\ cl[p].id \notin unsure
                      => cl'[p].res.val >= acked[cl[p].id]]_vars

\* README: "If the server is unreachable, `run` / `get` / `list` / `export` fall
\* back to a fresh encrypted cache entry": a file that a client stored, that
\* nothing else rewrote and that is in time, is used.  The command may die first,
\* or fail to read the file or the clock, and says so; it never finds that the
\* entry is too old, from the future, or sealed with another key.
Fresh(t) == t - now <= Skew /\ now - t <= TTL
Intact(id) == files[id] # None /\ files[id].id = id /\ files[id].sealed = files[id].at

FreshEntryUsed == [][
  \A p \in Procs :
    At(p, "load") /\ Intact(cl[p].id) /\ Fresh(files[cl[p].id].at)
      => cl'[p].res.kind \in {"cached", "none", "unreadable"}]_vars
=============================================================================
