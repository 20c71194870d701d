------------------------------- MODULE Vault -------------------------------
(***************************************************************************)
(* The encrypted store of secrets-server: the SQLite file, the processes   *)
(* that open it ("serve" and "rekey"), the lock file that keeps them apart *)
(* and the HTTP handlers that read and write projects and secrets.         *)
(*                                                                         *)
(* Cryptography is symbolic.  A master key is the pair of the passphrase   *)
(* and the salt it was derived from; a ciphertext records the key and the  *)
(* associated data it was sealed with, and opens only under both.          *)
(*                                                                         *)
(* meta, projects and secrets are the COMMITTED database: a transaction    *)
(* works on a private copy and changes them in the step that commits it,   *)
(* so a crash leaves them alone.  Authentication is in module Access.      *)
(***************************************************************************)
EXTENDS Naturals, FiniteSets

CONSTANTS Projects, SecretKeys, Values, Passphrases, Salts,
          Procs,         \* operating-system processes, started and restarted
          Slots,         \* concurrent HTTP requests
          None,
          MaxVersion     \* bound: no PUT is sent that could pass this version

ASSUME MaxVersionAssumption == MaxVersion \in Nat

VARIABLES
  meta,      \* table meta: the KDF salt and the key the verifier is sealed with
  projects,  \* table projects
  secrets,   \* table secrets: secrets[<<project, key>>] is a row or None
  lock,      \* the process holding the lock file, or None
  proc,      \* proc[p] = what process p is doing
  rq         \* rq[c] = the HTTP request in slot c

vars == <<meta, projects, secrets, lock, proc, rq>>

Ids == Projects \X SecretKeys
Ops == {"create", "get", "put", "delete"}

(***************************************************************************)
(* Cryptography                                                            *)
(***************************************************************************)
MasterKeys == Passphrases \X Salts
derive_key(pw, salt) == <<pw, salt>>

Ciphertexts == [key : MasterKeys, aad : Ids, plain : Values]
encrypt(k, v, aad) == [key |-> k, aad |-> aad, plain |-> v]
opens(k, ct, aad) == ct.key = k /\ ct.aad = aad

(***************************************************************************)
(* The database                                                            *)
(***************************************************************************)
Rows == [ct : Ciphertexts, ver : Nat]

ASSUME NoneAssumption ==
  /\ None \notin Projects \cup SecretKeys \cup Values \cup Passphrases
  /\ None \notin Salts \cup Procs \cup MasterKeys \cup Ids \cup Rows

Tables == [Ids -> Rows \cup {None}]
EmptyTable == [id \in Ids |-> None]
NoMeta == [salt |-> None, verifier |-> None]
MetaFor(k) == [salt |-> k[2], verifier |-> k]

\* Mutant: ON CONFLICT DO NOTHING.
Upserted_DoNothing(table, id, ct) ==
  [table EXCEPT ![id] = IF @ = None THEN [ct |-> ct, ver |-> 1] ELSE @]

\* INSERT ... ON CONFLICT DO UPDATE: a new row has version 1.
Upserted(table, id, ct) ==
  [table EXCEPT ![id] = [ct |-> ct,
                         ver |-> IF table[id] = None THEN 1
                                                     ELSE table[id].ver + 1]]

(***************************************************************************)
(* Processes                                                               *)
(***************************************************************************)
\* A process that "asks" has the lock file and waits for a passphrase.
ServePCs == {"serve_asks", "serve_locked", "serve_salt", "keyed", "serving"}
RekeyPCs == {"rekey_asks", "rekey_locked", "rekey_salt", "rekey_verified",
             "snapshot", "rewriting"}

Off == [pc |-> "off", pw |-> None, npw |-> None, salt |-> None,
        key |-> None, nkey |-> None,
        todo |-> {}, work |-> EmptyTable, stale |-> FALSE]

ProcStates ==
  [pc : {"off"} \cup ServePCs \cup RekeyPCs,
   pw : Passphrases \cup {None}, npw : Passphrases \cup {None},
   salt : Salts \cup {None},
   key : MasterKeys \cup {None}, nkey : MasterKeys \cup {None},
   todo : SUBSET Ids,         \* rows the rekey loop has still to rewrite
   work : Tables,             \* the rekey transaction's view of secrets
   stale : BOOLEAN]           \* another commit came after the snapshot

\* SQLite has one writer at a time; only the rekey transaction stays open
\* across steps.
CanWrite(p) == \A q \in Procs \ {p} : proc[q].pc # "rewriting"

\* A commit by another connection invalidates the snapshots of the
\* transactions that have read and not yet written (SQLITE_BUSY_SNAPSHOT).
Invalidate(ps) ==
  [q \in Procs |-> IF ps[q].pc = "snapshot" THEN [ps[q] EXCEPT !.stale = TRUE]
                                            ELSE ps[q]]

(***************************************************************************)
(* Requests                                                                *)
(***************************************************************************)
Requests == [op : {"create", "get"}, id : Projects \X {None}, val : {None}]
              \cup [op : {"put"}, id : Ids, val : Values]
              \cup [op : {"delete"}, id : Ids, val : {None}]

NoMap == [k \in SecretKeys |-> None]
NoResult == [code |-> 0, ver |-> 0, map |-> NoMap]
Code(n) == [NoResult EXCEPT !.code = n]
Results == [code : {0, 200, 201, 204, 404, 409, 500}, ver : Nat,
            map : [SecretKeys -> Values \cup {None}]]

FreeSlot == [st |-> "free", op |-> "get", id |-> None, val |-> None,
             by |-> None, res |-> NoResult]

\* "looked" and "written" are inside the handler, with the mutex held.
InHandler == {"looked", "written"}

RequestStates ==
  [st : {"free", "sent", "done"} \cup InHandler, op : Ops,
   id : Projects \X (SecretKeys \cup {None}) \cup {None},
   val : Values \cup {None}, by : Procs \cup {None},
   res : Results]

\* Mutant: the handlers share the connection without locking it.
MutexFree_Always(p) == TRUE

\* The Mutex around the connection of server p.
MutexFree(p) == \A c \in Slots : ~(rq[c].st \in InHandler /\ rq[c].by = p)

Answered(c, r) == [rq EXCEPT ![c].st = "done", ![c].res = r]

TypeOK ==
  /\ meta \in [salt : Salts \cup {None}, verifier : MasterKeys \cup {None}]
  /\ projects \in SUBSET Projects
  /\ secrets \in Tables
  /\ lock \in Procs \cup {None}
  /\ proc \in [Procs -> ProcStates]
  /\ rq \in [Slots -> RequestStates]

Init ==
  /\ meta = NoMeta
  /\ projects = {}
  /\ secrets = EmptyTable
  /\ lock = None
  /\ proc = [p \in Procs |-> Off]
  /\ rq = [c \in Slots |-> FreeSlot]

database == <<meta, projects, secrets>>

-----------------------------------------------------------------------------
(***************************************************************************)
(* secrets-server serve                                                    *)
(***************************************************************************)

\* lock::acquire never waits: a process that finds the lock taken exits, which
\* leaves everything as it was.
Acquire(p) == /\ proc[p].pc = "off"
              /\ lock = None
              /\ lock' = p

ServeLock(p) ==
  /\ Acquire(p)
  /\ proc' = [proc EXCEPT ![p] = [Off EXCEPT !.pc = "serve_asks"]]
  /\ UNCHANGED <<database, rq>>

\* acquire_passphrase comes after the lock: at a terminal it waits, with the
\* lock file held, until somebody types.
ServePassphrase(p, pw) ==
  /\ proc[p].pc = "serve_asks"
  /\ proc' = [proc EXCEPT ![p].pc = "serve_locked", ![p].pw = pw]
  /\ UNCHANGED <<database, lock, rq>>

ServeReadSalt(p) ==
  /\ proc[p].pc = "serve_locked"
  /\ proc' = [proc EXCEPT ![p].pc = "serve_salt", ![p].salt = meta.salt]
  /\ UNCHANGED <<database, lock, rq>>

\* The process ends: the OS closes its files, SQLite rolls its transaction back.
Exit(p) ==
  /\ proc' = [proc EXCEPT ![p] = Off]
  /\ lock' = IF lock = p THEN None ELSE lock

\* There is no passphrase, or not one that rekey takes (empty, not confirmed, the
\* current one): the process goes before it opens the database.
NoPassphrase(p) ==
  /\ proc[p].pc \in {"serve_asks", "rekey_asks"}
  /\ Exit(p)
  /\ UNCHANGED <<database, rq>>

Keyed(k) == [Off EXCEPT !.pc = "keyed", !.key = k]

\* Mutant: the verifier is not opened, so any passphrase is accepted.
ServeVerify_Unchecked(p) ==
  /\ proc[p].pc = "serve_salt" /\ proc[p].salt # None
  /\ proc' = [proc EXCEPT ![p] = Keyed(derive_key(proc[p].pw, proc[p].salt))]
  /\ UNCHANGED <<database, lock, rq>>

\* A wrong passphrase, or missing metadata, stops the server before it serves.
ServeVerify(p) ==
  LET k == derive_key(proc[p].pw, proc[p].salt)
  IN  /\ proc[p].pc = "serve_salt" /\ proc[p].salt # None
      /\ IF meta.verifier = k
           THEN /\ proc' = [proc EXCEPT ![p] = Keyed(k)]
                /\ UNCHANGED lock
           ELSE Exit(p)
      /\ UNCHANGED <<database, rq>>

\* Mutant: the key is derived from the salt that was looked up, and not found.
ServeInitialize_NoSalt(p, salt) ==
  LET k == derive_key(proc[p].pw, proc[p].salt)
  IN  /\ proc[p].pc = "serve_salt" /\ proc[p].salt = None
      /\ CanWrite(p)
      /\ meta' = [salt |-> salt, verifier |-> k]
      /\ proc' = [Invalidate(proc) EXCEPT ![p] = Keyed(k)]
      /\ UNCHANGED <<projects, secrets, lock, rq>>

ServeInitialize(p, salt) ==
  LET k == derive_key(proc[p].pw, salt)
  IN  /\ proc[p].pc = "serve_salt" /\ proc[p].salt = None
      /\ CanWrite(p)
      /\ meta' = MetaFor(k)
      /\ proc' = [Invalidate(proc) EXCEPT ![p] = Keyed(k)]
      /\ UNCHANGED <<projects, secrets, lock, rq>>

ServeBind(p) ==
  /\ proc[p].pc = "keyed"
  /\ proc' = [proc EXCEPT ![p].pc = "serving"]
  /\ UNCHANGED <<database, lock, rq>>

\* ctrl-C: handlers that are running finish first.
ServeStop(p) ==
  /\ proc[p].pc = "serving"
  /\ MutexFree(p)
  /\ Exit(p)
  /\ UNCHANGED <<database, rq>>

-----------------------------------------------------------------------------
(***************************************************************************)
(* secrets-server rekey                                                    *)
(***************************************************************************)
\* Mutant: rekey does not take the lock file.
RekeyLock_NoLock(p) ==
  /\ proc[p].pc = "off"
  /\ proc' = [proc EXCEPT ![p] = [Off EXCEPT !.pc = "rekey_asks"]]
  /\ UNCHANGED <<database, lock, rq>>

RekeyLock(p) ==
  /\ Acquire(p)
  /\ proc' = [proc EXCEPT ![p] = [Off EXCEPT !.pc = "rekey_asks"]]
  /\ UNCHANGED <<database, rq>>

\* Here too both passphrases are asked for with the lock file held.
RekeyPassphrases(p, cur, new) ==
  /\ cur # new
  /\ proc[p].pc = "rekey_asks"
  /\ proc' = [proc EXCEPT ![p].pc = "rekey_locked",
                          ![p].pw = cur, ![p].npw = new]
  /\ UNCHANGED <<database, lock, rq>>

RekeyReadSalt(p) ==
  /\ proc[p].pc = "rekey_locked"
  /\ IF meta.salt = None
       THEN Exit(p)
       ELSE /\ proc' = [proc EXCEPT ![p].pc = "rekey_salt",
                                    ![p].salt = meta.salt]
            /\ UNCHANGED lock
  /\ UNCHANGED <<database, rq>>

RekeyVerify(p, newSalt) ==
  LET k == derive_key(proc[p].pw, proc[p].salt)
  IN  /\ proc[p].pc = "rekey_salt"
      /\ IF meta.verifier = k
           THEN /\ proc' = [proc EXCEPT ![p] =
                     [Off EXCEPT !.pc = "rekey_verified", !.key = k,
                                 !.nkey = derive_key(proc[p].npw, newSalt)]]
                /\ UNCHANGED lock
           ELSE Exit(p)
      /\ UNCHANGED <<database, rq>>

\* BEGIN (deferred) and SELECT: the transaction has a snapshot, no write lock.
RekeySelect(p) ==
  /\ proc[p].pc = "rekey_verified"
  /\ proc' = [proc EXCEPT ![p].pc = "snapshot",
                          ![p].todo = {id \in Ids : secrets[id] # None},
                          ![p].work = secrets]
  /\ UNCHANGED <<database, lock, rq>>

\* A transaction that holds the write lock keeps it; one that holds only a
\* snapshot gets it if nobody has it and nobody has committed since.
MayWrite(p) == \/ proc[p].pc = "rewriting"
               \/ proc[p].pc = "snapshot" /\ ~proc[p].stale /\ CanWrite(p)

\* Mutant: the row is written again as a new one, with version 1.
Rewritten_NewRow(q, id) ==
  [q EXCEPT !.pc = "rewriting",
            !.todo = q.todo \ {id},
            !.work = [q.work EXCEPT ![id] =
                        [ct |-> encrypt(q.nkey, q.work[id].ct.plain, id),
                         ver |-> 1]]]

\* One turn of the loop: decrypt, encrypt under the new key, UPDATE.
Rewritten(q, id) ==
  LET row == q.work[id]
      new == [ct |-> encrypt(q.nkey, row.ct.plain, id), ver |-> row.ver]
  IN  [q EXCEPT !.pc = "rewriting",
                !.todo = q.todo \ {id},
                !.work = [q.work EXCEPT ![id] = new]]

RekeyRow(p, id) ==
  /\ MayWrite(p)
  /\ id \in proc[p].todo
  /\ opens(proc[p].key, proc[p].work[id].ct, id)
  /\ proc' = [proc EXCEPT ![p] = Rewritten(proc[p], id)]
  /\ UNCHANGED <<database, lock, rq>>

\* Mutant: the metadata is replaced without the rows.
RekeyCommit_MetaOnly(p) ==
  /\ MayWrite(p)
  /\ proc[p].todo = {}
  /\ meta' = MetaFor(proc[p].nkey)
  /\ proc' = [Invalidate(proc) EXCEPT ![p] = Off]
  /\ lock' = IF lock = p THEN None ELSE lock
  /\ UNCHANGED <<projects, secrets, rq>>

\* Mutant: the verifier is replaced and the salt is not.
RekeyCommit_OldSalt(p) ==
  /\ MayWrite(p)
  /\ proc[p].todo = {}
  /\ secrets' = proc[p].work
  /\ meta' = [meta EXCEPT !.verifier = proc[p].nkey]
  /\ proc' = [Invalidate(proc) EXCEPT ![p] = Off]
  /\ lock' = IF lock = p THEN None ELSE lock
  /\ UNCHANGED <<projects, rq>>

\* The verifier, the KDF metadata and the rows become visible together.
RekeyCommit(p) ==
  /\ MayWrite(p)
  /\ proc[p].todo = {}
  /\ secrets' = proc[p].work
  /\ meta' = MetaFor(proc[p].nkey)
  /\ proc' = [Invalidate(proc) EXCEPT ![p] = Off]
  /\ lock' = IF lock = p THEN None ELSE lock
  /\ UNCHANGED <<projects, rq>>

\* Mutant: an UPDATE that is refused is tried again, for ever.
RekeyAborts_Retries(p) ==
  /\ proc[p].pc \in {"snapshot", "rewriting"}
  /\ \E id \in proc[p].todo : ~opens(proc[p].key, proc[p].work[id].ct, id)
  /\ Exit(p)
  /\ UNCHANGED <<database, rq>>

\* An UPDATE is refused (stale snapshot, or another writer for longer than the
\* busy timeout), or a row does not open: the transaction is rolled back.
RekeyAborts(p) ==
  /\ proc[p].pc \in {"snapshot", "rewriting"}
  /\ \/ ~MayWrite(p)
     \/ \E id \in proc[p].todo : ~opens(proc[p].key, proc[p].work[id].ct, id)
  /\ Exit(p)
  /\ UNCHANGED <<database, rq>>

-----------------------------------------------------------------------------
(***************************************************************************)
(* The rest of the world                                                   *)
(***************************************************************************)

\* A process dies, at any point; the requests it was handling get no answer.
Crash(p) ==
  /\ proc[p].pc # "off"
  /\ Exit(p)
  /\ rq' = [c \in Slots |-> IF rq[c].st \in InHandler /\ rq[c].by = p
                              THEN [rq[c] EXCEPT !.st = "done",
                                                 !.by = None,
                                                 !.res = Code(0)]
                              ELSE rq[c]]
  /\ UNCHANGED database

\* "secrets-server token create" and "token revoke" do not take the lock file:
\* they commit to the same database (table tokens) while a server or a rekey
\* holds it.
CliTokenCommit ==
  /\ \A q \in Procs : proc[q].pc # "rewriting"
  /\ \E q \in Procs : proc[q].pc = "snapshot"
  /\ proc' = Invalidate(proc)
  /\ UNCHANGED <<database, lock, rq>>

-----------------------------------------------------------------------------
(***************************************************************************)
(* HTTP requests                                                           *)
(***************************************************************************)
PendingPuts(id) == {c \in Slots : /\ rq[c].st \in {"sent", "looked"}
                                  /\ rq[c].op = "put"
                                  /\ rq[c].id = id}
Version(id) == IF secrets[id] = None THEN 0 ELSE secrets[id].ver

Send(c, r) ==
  /\ rq[c].st \in {"free", "done"}
  /\ r.op = "put" =>
       Version(r.id) + Cardinality(PendingPuts(r.id)) < MaxVersion
  /\ rq' = [rq EXCEPT ![c] = [st |-> "sent", op |-> r.op, id |-> r.id,
                              val |-> r.val, by |-> None, res |-> NoResult]]
  /\ UNCHANGED <<database, lock, proc>>

Unreachable(c) ==
  /\ rq[c].st = "sent"
  /\ \A p \in Procs : proc[p].pc # "serving"
  /\ rq' = Answered(c, Code(0))
  /\ UNCHANGED <<database, lock, proc>>

\* state.db.lock(), then the project lookup that every handler starts with.
\* create wants the project absent, the others want it present.
Wanted(c) == (rq[c].id[1] \in projects) # (rq[c].op = "create")

Lookup(c, p) ==
  /\ rq[c].st = "sent"
  /\ proc[p].pc = "serving"
  /\ MutexFree(p)
  /\ rq' = IF Wanted(c)
             THEN [rq EXCEPT ![c].st = "looked", ![c].by = p]
             ELSE Answered(c, Code(IF rq[c].op = "create" THEN 409 ELSE 404))
  /\ UNCHANGED <<database, lock, proc>>

\* The lookup itself fails: 500, whether or not the project is there.
LookupFails(c, p) ==
  /\ rq[c].st = "sent"
  /\ proc[p].pc = "serving"
  /\ MutexFree(p)
  /\ rq' = Answered(c, Code(500))
  /\ UNCHANGED <<database, lock, proc>>

Handling(c, op, st) == rq[c].op = op /\ rq[c].st = st

\* Leaving the handler drops the mutex guard.
Finish(c, r) == rq' = [rq EXCEPT ![c].st = "done", ![c].by = None, ![c].res = r]

CreateInsert(c) ==
  LET name == rq[c].id[1]
  IN  /\ Handling(c, "create", "looked")
      /\ CanWrite(rq[c].by)
      /\ Finish(c, Code(IF name \in projects THEN 500 ELSE 201))
      /\ projects' = projects \cup {name}
      /\ proc' = Invalidate(proc)
      /\ UNCHANGED <<meta, secrets, lock>>

\* One row that does not open fails the whole answer.
GetRows(c) ==
  LET name == rq[c].id[1]
      rows == {k \in SecretKeys : secrets[<<name, k>>] # None}
      ct(k) == secrets[<<name, k>>].ct
      map == [k \in SecretKeys |-> IF k \in rows THEN ct(k).plain ELSE None]
  IN  /\ Handling(c, "get", "looked")
      /\ Finish(c, IF \A k \in rows :
                        opens(proc[rq[c].by].key, ct(k), <<name, k>>)
                     THEN [Code(200) EXCEPT !.map = map]
                     ELSE Code(500))
      /\ UNCHANGED <<database, lock, proc>>

PutUpsert(c) ==
  LET ct == encrypt(proc[rq[c].by].key, rq[c].val, rq[c].id)
  IN  /\ Handling(c, "put", "looked")
      /\ CanWrite(rq[c].by)
      /\ secrets' = Upserted(secrets, rq[c].id, ct)
      /\ proc' = Invalidate(proc)
      /\ rq' = [rq EXCEPT ![c].st = "written"]
      /\ UNCHANGED <<meta, projects, lock>>

\* Mutant: the version is read under a lock of its own, with the first one held.
PutVersion_LocksAgain(c) ==
  /\ Handling(c, "put", "written")
  /\ MutexFree(rq[c].by)
  /\ Finish(c, IF secrets[rq[c].id] = None
                 THEN Code(500)
                 ELSE [Code(200) EXCEPT !.ver = secrets[rq[c].id].ver])
  /\ UNCHANGED <<database, lock, proc>>

\* The version is read back by a second statement.
PutVersion(c) ==
  /\ Handling(c, "put", "written")
  /\ Finish(c, IF secrets[rq[c].id] = None
                 THEN Code(500)
                 ELSE [Code(200) EXCEPT !.ver = secrets[rq[c].id].ver])
  /\ UNCHANGED <<database, lock, proc>>

DeleteRow(c) ==
  LET id == rq[c].id
  IN  /\ Handling(c, "delete", "looked")
      /\ CanWrite(rq[c].by)
      /\ Finish(c, Code(IF secrets[id] = None THEN 404 ELSE 204))
      /\ secrets' = [secrets EXCEPT ![id] = None]
      /\ proc' = Invalidate(proc)
      /\ UNCHANGED <<meta, projects, lock>>

\* A statement fails (busy timeout, disk full): 500, and nothing is undone.
HandlerFails(c) ==
  /\ rq[c].st \in InHandler
  /\ Finish(c, Code(500))
  /\ UNCHANGED <<database, lock, proc>>

-----------------------------------------------------------------------------
Handler(c) == \/ CreateInsert(c) \/ GetRows(c) \/ PutUpsert(c)
              \/ PutVersion(c) \/ DeleteRow(c)

ServeStep(p) == \/ ServeReadSalt(p) \/ ServeVerify(p) \/ ServeBind(p)
                \/ \E s \in Salts : ServeInitialize(p, s)

RekeyStep(p) == \/ RekeyReadSalt(p) \/ RekeySelect(p)
                \/ \E s \in Salts : RekeyVerify(p, s)
                \/ \E id \in Ids : RekeyRow(p, id)
                \/ RekeyCommit(p) \/ RekeyAborts(p)

\* What somebody at the terminal (or the environment) gives the process.
Answer(p) == \/ \E pw \in Passphrases : ServePassphrase(p, pw)
             \/ \E cur, new \in Passphrases : RekeyPassphrases(p, cur, new)
             \/ NoPassphrase(p)

Operator == \E p \in Procs :
  ServeLock(p) \/ RekeyLock(p) \/ Answer(p) \/ ServeStop(p)

Client == \E c \in Slots, r \in Requests : Send(c, r)

Next ==
  \/ Operator \/ Client \/ CliTokenCommit
  \/ \E p \in Procs : ServeStep(p) \/ RekeyStep(p) \/ Crash(p)
  \/ \E c \in Slots : \/ Unreachable(c) \/ Handler(c) \/ HandlerFails(c)
                      \/ \E p \in Procs : Lookup(c, p) \/ LookupFails(c, p)

Spec == Init /\ [][Next]_vars

\* A process that has its passphrases takes its next step; a running handler
\* likewise.  Nothing is assumed of operators (a prompt may never be answered),
\* clients, crashes, or of who gets the mutex.
Fairness == /\ \A p \in Procs : WF_vars(ServeStep(p)) /\ WF_vars(RekeyStep(p))
            /\ \A c \in Slots : WF_vars(Handler(c))

FairSpec == Spec /\ Fairness
=============================================================================
