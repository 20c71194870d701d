----------------------------- MODULE VaultProps -----------------------------
(***************************************************************************)
(* What is checked and proved of module Vault.                             *)
(***************************************************************************)
EXTENDS Vault

Row(id) == secrets[id]
Opens(id) == opens(meta.verifier, Row(id).ct, id)

\* Every committed row opens under the passphrase that the committed verifier
\* accepts, as the secret it is stored as: no rekey, crash, restart or request,
\* however they interleave, leaves a secret that the next start cannot read.
AllRowsDecrypt == \A id \in Ids : Row(id) # None => Opens(id)

\* A serving process encrypts and decrypts with the current master key: no
\* rekey or second first-run initialization has replaced it (lock.rs).
ServingKeyCurrent ==
  \A p \in Procs : proc[p].pc = "serving" => proc[p].key = meta.verifier

\* The salt on disk is the one the verifier's key was derived from, so the
\* passphrase that was accepted last is accepted at the next start.
SaltMatchesVerifier ==
  /\ meta.salt = None <=> meta.verifier = None
  /\ meta.salt # None => meta.verifier[2] = meta.salt

\* serve and rekey exclude each other and themselves, whatever crashes.
OneOwner == \A p, q \in Procs :
              proc[p].pc # "off" /\ proc[q].pc # "off" => p = q

-----------------------------------------------------------------------------
(***************************************************************************)
(* The inductive invariant behind the four properties above.               *)
(***************************************************************************)

\* Row id of an open rekey transaction: the same secret as the committed row,
\* under the old key until the loop reaches it and under the new one after.
WorkRowOK(q, id) ==
  /\ q.work[id] = None <=> secrets[id] = None
  /\ id \in q.todo => q.work[id] # None
  /\ q.work[id] # None =>
       /\ q.work[id].ver = secrets[id].ver
       /\ q.work[id].ct = encrypt(IF id \in q.todo THEN q.key ELSE q.nkey,
                                  secrets[id].ct.plain, id)

\* What a process may rely on at each point of serve and rekey.
ProcOK(p) ==
  LET q == proc[p]
  IN  /\ q.pc # "off" => lock = p
      /\ q.pc \in {"serve_locked", "serve_salt", "rekey_locked", "rekey_salt"}
           => q.pw \in Passphrases
      /\ q.pc \in {"rekey_locked", "rekey_salt"} => q.npw \in Passphrases
      /\ q.pc \in {"serve_salt", "rekey_salt"} => q.salt = meta.salt
      /\ q.pc = "rekey_salt" => q.salt # None
      /\ q.pc \in {"keyed", "serving", "rekey_verified", "snapshot", "rewriting"}
           => q.key # None /\ q.key = meta.verifier
      /\ q.pc \in {"rekey_verified", "snapshot", "rewriting"} => q.nkey # None
      /\ q.pc \in {"snapshot", "rewriting"} => \A id \in Ids : WorkRowOK(q, id)

\* What a handler may rely on: it runs in a serving process and nothing moved
\* since its project lookup or its write.
RequestOK(c) ==
  LET r == rq[c]
  IN  /\ r.st # "free" => [op |-> r.op, id |-> r.id, val |-> r.val] \in Requests
      /\ r.st \in InHandler => r.by \in Procs /\ proc[r.by].pc = "serving"
      /\ r.st = "looked" => Wanted(c)
      /\ r.st = "written" => /\ r.op = "put"
                             /\ r.id[1] \in projects
                             /\ secrets[r.id] # None

MutexOK == \A c, d \in Slots :
  rq[c].st \in InHandler /\ rq[d].st \in InHandler /\ rq[c].by = rq[d].by
    => c = d

\* Strong enough to be preserved by every step of Vault.
Inv == /\ TypeOK
       /\ SaltMatchesVerifier
       /\ AllRowsDecrypt
       /\ \A p \in Procs : ProcOK(p)
       /\ \A c \in Slots : RequestOK(c)
       /\ MutexOK

-----------------------------------------------------------------------------
(***************************************************************************)
(* The promise to clients: module SecretStore.  A row that does not open   *)
(* is no value of the abstract store, so losing one is not a legal step.   *)
(***************************************************************************)
Entries == [val : Values, ver : Nat]
Unreadable == [val |-> None, ver |-> 0]

ASSUME NoneIsNoEntry == None \notin Entries

StoreView == [id \in Ids |->
  IF Row(id) = None THEN None
  ELSE IF Opens(id) THEN [val |-> Row(id).ct.plain, ver |-> Row(id).ver]
  ELSE Unreadable]

RequestView == [c \in Slots |->
  [st  |-> CASE rq[c].st = "looked" -> "sent"
             [] rq[c].st = "written" -> "applied"
             [] OTHER -> rq[c].st,
   op |-> rq[c].op, id |-> rq[c].id, val |-> rq[c].val,
   res |-> IF rq[c].st = "written"
             THEN [Code(200) EXCEPT !.ver = Version(rq[c].id)]
             ELSE rq[c].res]]

Abs == INSTANCE SecretStore WITH store <- StoreView, rq <- RequestView

\* Requests are linearizable, and rekeying, restarting and crashing are
\* invisible to clients (handlers.rs, crypto_state.rs).
ImplementsStore == Abs!Spec

-----------------------------------------------------------------------------
(***************************************************************************)
(* Liveness                                                                *)
(***************************************************************************)

\* A handler that has the connection's mutex gives it back.
MutexReleased == \A c \in Slots : rq[c].st \in InHandler ~> rq[c].st = "done"

\* A process that has the lock file and its passphrases serves or gives the lock
\* back: with wrong passphrases, rows that do not open, a stale snapshot or
\* another writer, a start-up or a rekey ends (crypto_state.rs, lock.rs).  Before
\* that there is no such promise: serve and rekey lock first and ask afterwards
\* (commands.rs), and hold the lock for as long as nobody answers the prompt.
Asking(p) == proc[p].pc \in {"serve_asks", "rekey_asks"}
LockNotWedged == \A p \in Procs :
  lock = p /\ ~Asking(p) ~> lock # p \/ proc[p].pc = "serving"

=============================================================================
